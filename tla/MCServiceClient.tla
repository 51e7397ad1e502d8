-------------------------- MODULE MCServiceClient ---------------------------
(* ServiceClient for TLC. *)
EXTENDS ServiceClient
=============================================================================

---------------------------- MODULE MCRetryCalls ----------------------------
(* RetryCalls for TLC. *)
EXTENDS RetryCalls
=============================================================================

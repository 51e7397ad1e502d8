-------------------------- MODULE MCTenantResolver --------------------------
(***************************************************************************)
(* TenantResolver for TLC.  Requests are interchangeable; every property of *)
(* the run is an invariant or a step property, so symmetry is sound.        *)
(*                                                                         *)
(* acme is a UUID, well-formed with any number of prefixes; cased is a name *)
(* that has its prefix in another case, which the pattern rejects as it is. *)
(* A deployment has the schema of acme, one whose name has the prefix       *)
(* twice, or one in another case.                                           *)
(***************************************************************************)
EXTENDS TenantResolver, TLC

CONSTANTS acme, cased

Name(base, prefixes) == [base |-> base, prefixes |-> prefixes]

MCBases == {acme, cased}

MCDeployments == {{Name(acme, 1)}, {Name(acme, 2)}, {Name(cased, 0)}}

MCSchemas == UNION MCDeployments

MCWellFormed == {Name(acme, 0), Name(acme, 1), Name(acme, 2), Name(cased, 1)}

RequestSymmetry == Permutations(Requests)
=============================================================================

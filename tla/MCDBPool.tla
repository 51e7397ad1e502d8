------------------------------ MODULE MCDBPool ------------------------------
(***************************************************************************)
(* DBPool for TLC: two queries.  Swapping the queries, or the schemas, gives *)
(* isomorphic behaviours, so one assignment of each class is enough.        *)
(***************************************************************************)
EXTENDS DBPool

CONSTANTS q1, q2, acme, zeta

Helper(s) == [schema |-> s, bare |-> FALSE]
Borrower == [schema |-> Default, bare |-> TRUE]

Pair(first, second) == [q \in Queries |-> IF q = q1 THEN first ELSE second]

MCCalls == {Pair(Helper(acme), Helper(zeta)), Pair(Helper(acme), Helper(acme)),
            Pair(Helper(acme), Helper(Default)), Pair(Helper(acme), Borrower),
            Pair(Helper(Default), Helper(Default)), Pair(Helper(Default), Borrower),
            Pair(Borrower, Borrower)}
=============================================================================

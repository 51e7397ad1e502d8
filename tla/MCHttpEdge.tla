----------------------------- MODULE MCHttpEdge -----------------------------
(***************************************************************************)
(* HttpEdge for TLC.  Requests, tenants and tasks are interchangeable, and  *)
(* every property is an invariant, so symmetry is sound.                    *)
(***************************************************************************)
EXTENDS HttpEdge, TLC

EdgeSymmetry == Permutations(Requests) \cup Permutations(Tenants) \cup Permutations(Tasks)

\* An event of the tracker: a request header, and a local variable of a stack
\* frame, which is in a list of frames.
MCEventLeaves == {<<"request", "headers", "authorization">>, <<"request", "url">>,
                  <<"exception", "frames", Item, "vars", "password">>}
=============================================================================

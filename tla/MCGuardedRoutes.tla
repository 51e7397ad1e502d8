-------------------------- MODULE MCGuardedRoutes --------------------------
(***************************************************************************)
(* GuardedRoutes for TLC.  Calls do not influence each other, so one call   *)
(* against the operators and the store is enough.                           *)
(***************************************************************************)
EXTENDS GuardedRoutes

CONSTANTS acme, zeta

Id(kind, text) == [type |-> kind, text |-> text]
List(items) == [form |-> "list", items |-> items]
Text(items) == [form |-> "text", items |-> items]

Token(sub, id, tenant, permissions, scope, scopes) ==
    [sub |-> sub, id |-> id, tenant |-> tenant,
     permissions |-> permissions, scope |-> scope, scopes |-> scopes]

\* Every way to grant something, for one caller; and every way to name a
\* caller, with one grant.
MCTokens ==
    {None}
    \cup {Token(Id("str", "7"), None, tenant, permissions, scope, scopes) :
             tenant \in {None, acme},
             permissions \in {None, List({}), List({Permission}), List({Wildcard}),
                              Text({Permission}), Text({Permission, "admin"})},
             scope \in {None, Text({}), Text({Permission, "admin"})},
             scopes \in {None, List({Permission})}}
    \cup {Token(sub, id, acme, List({Permission}), None, None) :
             sub \in {None, Id("str", ""), Id("int", "0"), Id("int", "7")},
             id \in {None, Id("str", "7")}}

MCResources == [owner : {Id("int", "7"), Id("str", "9")}, tenant : {None, acme, zeta},
                override : {None, "admin"}]
=============================================================================

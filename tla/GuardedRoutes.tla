--------------------------- MODULE GuardedRoutes ---------------------------
(***************************************************************************)
(* Calls of routes that are guarded as the docstrings of authz.py and       *)
(* featureflags.py show: a PermissionChecker as dependency, an object-level *)
(* check in the handler, and a kill switch consulted before the risky path. *)
(***************************************************************************)
EXTENDS FeatureFlags, FiniteSets

CONSTANTS
    Wildcard,       \* the super-grant "*"
    Unsplit,        \* a text of several permissions, taken as the name of one
    Permission,     \* the permission that the routes require
    Tokens,         \* verified claims that callers come with; None: no token
    Resources       \* what they ask for: owner, tenant, and the permission that
                    \* overrides ownership

VARIABLES
    call,           \* per call: its token, its resource, the default of its lookup
    pc,             \* per call: where it is
    error           \* per call: the error it was refused with

INSTANCE Authorization

\* Verified claims; those that are not there are None.
Claims ==
    LET Ids == Identifiers(STRING) \cup {None}
        Granted == Grants(STRING) \cup {None}
    IN  [sub : Ids, id : Ids, tenant : Tenants \cup {None},
         permissions : Granted, scope : Granted, scopes : Granted]

Principals == [id : STRING, tenant : Tenants \cup {None}, permissions : SUBSET STRING]

\* None is none of the things it stands in for, and no route asks for a
\* permission whose name is a text of several.
ASSUME RoutesAssumption ==
    /\ Tokens \subseteq Claims \cup {None}
    /\ None \notin Claims \cup Principals \cup {"UnauthorizedError", "ForbiddenError"}
    /\ {Wildcard, Unsplit, Permission} \subseteq STRING
    /\ Unsplit \notin {Wildcard, Permission} \cup {resource.override : resource \in Resources}

routeVars == <<call, pc, error>>

Calls == Lookups

Init ==
    /\ FlagInit
    /\ call \in [Calls -> [token : Tokens, resource : Resources, default : BOOLEAN]]
    /\ pc = [c \in Calls |-> "new"]
    /\ error = [c \in Calls |-> None]

\* The service's principal_resolver.
Principal(c) == IF call[c].token = None THEN None ELSE PrincipalFromClaims(call[c].token)

\* A check lets the call go on, or ends it with an error.
Decided(c, decision, next) ==
    IF decision = "granted"
    THEN pc' = [pc EXCEPT ![c] = next] /\ UNCHANGED error
    ELSE /\ pc' = [pc EXCEPT ![c] = "refused"]
         /\ error' = [error EXCEPT ![c] = decision]

\* PermissionChecker.__call__
CheckPermission(c) ==
    /\ pc[c] = "new"
    /\ Decided(c, RequirePermission(Principal(c), Permission), "permitted")
    /\ UNCHANGED <<flagVars, call>>

\* The handler's check_object_ownership for the row it loaded.
CheckOwnership(c) ==
    /\ pc[c] = "permitted"
    /\ LET resource == call[c].resource
       IN  Decided(c, CheckObjectOwnership(Principal(c), resource.owner, resource.tenant,
                                           resource.override), "authorized")
    /\ UNCHANGED <<flagVars, call>>

\* The kill switch is consulted for the principal's tenant.
Consult(c) ==
    /\ pc[c] = "authorized"
    /\ Ask(c, Principal(c).tenant, call[c].default)
    /\ pc' = [pc EXCEPT ![c] = "consulting"]
    /\ UNCHANGED <<call, error>>

\* The handler runs the risky path, or returns its fallback.
Proceed(c) ==
    /\ pc[c] = "consulting" /\ stage[c] = "done"
    /\ pc' = [pc EXCEPT ![c] = IF answer[c] THEN "ran" ELSE "fallback"]
    /\ UNCHANGED <<flagVars, call, error>>

Next ==
    \/ ChangeFlag /\ UNCHANGED routeVars
    \/ \E c \in Calls : \/ CheckPermission(c) \/ CheckOwnership(c) \/ Consult(c) \/ Proceed(c)
                        \/ ReadFlag(c) /\ UNCHANGED routeVars

Spec == Init /\ [][Next]_<<flagVars, routeVars>>

-----------------------------------------------------------------------------
(* Properties *)

\* Every variable has its type; a lookup that is done has an answer, and a call
\* has an error exactly if it is refused.
TypeOK ==
    /\ FlagTypeOK
    /\ call \in [Calls -> [token : Tokens, resource : Resources, default : BOOLEAN]]
    /\ pc \in [Calls -> {"new", "permitted", "authorized", "consulting", "ran", "fallback", "refused"}]
    /\ error \in [Calls -> {"UnauthorizedError", "ForbiddenError", None}]
    /\ \A c \in Calls : pc[c] = "refused" <=> error[c] # None

\* The caller's name, if its token has one: under sub, or under id.
Names(token) == {i \in {token.sub, token.id} : NamesSomeone(i)}

Subject(token) == IF token.sub \in Names(token) THEN token.sub ELSE token.id

\* The claim of a token that counts: the first that is there, where an empty
\* scope is not there and an empty permissions claim is.
Deciding(token) ==
    IF token.permissions # None THEN token.permissions
    ELSE IF GrantsSomething(token.scope) THEN token.scope
    ELSE token.scopes

\* The token says, in the claim that counts, that its holder has the permission.
Holds(token, permission) ==
    /\ GrantsSomething(Deciding(token))
    /\ {Wildcard, permission} \cap Deciding(token).items # {}
    /\ token.permissions # None /\ Deciding(token).form = "text" =>
          Cardinality(Deciding(token).items) = 1

Authentic(c) == call[c].token # None /\ Names(call[c].token) # {}

\* Who may run a route on a resource: a named caller with the permission, in
\* the resource's tenant, who owns it or holds the override.
Authority(c) ==
    LET token == call[c].token
        resource == call[c].resource
    IN  /\ Authentic(c)
        /\ Holds(token, Permission)
        /\ resource.tenant \in {None, token.tenant}
        /\ \/ Subject(token).text = resource.owner.text
           \/ resource.override # None /\ Holds(token, resource.override)

\* Deny by default, end to end: a call gets past both checks exactly if its
\* token gives it the authority, no super-grant reaches into another tenant, and
\* a refusal says 401 for a caller without a name and 403 otherwise.
DenyByDefault ==
    \A c \in Calls :
       /\ pc[c] \in {"authorized", "consulting", "ran", "fallback"} => Authority(c)
       /\ pc[c] = "refused" =>
             /\ ~Authority(c)
             /\ error[c] = "UnauthorizedError" <=> ~Authentic(c)
=============================================================================

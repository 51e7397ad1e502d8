--------------------------- MODULE Authorization ---------------------------
(***************************************************************************)
(* The decisions of authz.py, as operators: none of them keeps state or     *)
(* awaits.                                                                  *)
(*                                                                         *)
(* An identifier is a record of its type and text: a token's subject is a   *)
(* string, a row's owner often an int.  A claim that grants permissions is  *)
(* a list of them, or a text with blanks between them.  roles and type are  *)
(* read from the token and decide nothing.                                  *)
(***************************************************************************)
EXTENDS FiniteSets

CONSTANTS
    None,       \* a claim, an argument or a principal that is not there
    Wildcard,   \* the super-grant "*"
    Unsplit     \* a text of no or several permissions, taken as the name of one

Identifiers(texts) == [type : {"str", "int"}, text : texts]

Grants(permissions) == [form : {"list", "text"}, items : SUBSET permissions]

\* What Python takes for true: not None, "", 0 or an empty list.
NamesSomeone(id) == id # None /\ id.text # "" /\ ~(id.type = "int" /\ id.text = "0")
GrantsSomething(grant) == grant # None /\ grant.items # {}

\* _as_frozenset: a text is one permission.
AsFrozenset(grant) ==
    IF grant = None THEN {}
    ELSE IF grant.form = "text" /\ Cardinality(grant.items) # 1 THEN {Unsplit}
    ELSE grant.items

\* An empty permissions claim gives way to the scopes.
EmptyGivesWay(claims) ==
    IF GrantsSomething(claims.permissions) THEN AsFrozenset(claims.permissions)
    ELSE LET scope == IF GrantsSomething(claims.scope) THEN claims.scope ELSE claims.scopes
         IN  IF scope = None THEN {} ELSE scope.items

\* The permissions of a token: those of its permissions claim, also if it is
\* empty; without one, those of its scope, which is split, or else scopes.
PermissionsOf(claims) ==
    IF claims.permissions # None THEN AsFrozenset(claims.permissions)
    ELSE LET scope == IF GrantsSomething(claims.scope) THEN claims.scope ELSE claims.scopes
         IN  IF scope = None THEN {} ELSE scope.items

\* principal_from_claims; None stands for the UnauthorizedError of a token
\* without subject.
PrincipalFromClaims(claims) ==
    LET subject == IF NamesSomeone(claims.sub) THEN claims.sub ELSE claims.id
    IN  IF ~NamesSomeone(subject) THEN None
        ELSE [id |-> subject.text, tenant |-> claims.tenant, permissions |-> PermissionsOf(claims)]

\* Principal.has and has_permission
HasPermission(principal, permission) ==
    principal # None /\ {Wildcard, permission} \cap principal.permissions # {}

\* require_permission: granted, or the error it raises.
RequirePermission(principal, permission) ==
    IF principal = None THEN "UnauthorizedError"
    ELSE IF HasPermission(principal, permission) THEN "granted"
    ELSE "ForbiddenError"

\* check_object_ownership: the tenant first, then the owner or the override.
CheckObjectOwnership(principal, owner, resourceTenant, allowPermission) ==
    IF principal = None THEN "UnauthorizedError"
    ELSE IF resourceTenant # None /\ principal.tenant # resourceTenant THEN "ForbiddenError"
    ELSE IF principal.id = owner.text THEN "granted"
    ELSE IF allowPermission # None /\ HasPermission(principal, allowPermission) THEN "granted"
    ELSE "ForbiddenError"
=============================================================================

------------------------ MODULE GuardedRoutesProofs -------------------------
(***************************************************************************)
(* Deny by default and the kill switch's answers, for any tokens, resources, *)
(* tenants and number of concurrent calls.                                  *)
(*                                                                         *)
(* The decisions are operators: three lemmas say when they grant, in terms  *)
(* of the token alone, and DenyByDefault follows with one more fact, about  *)
(* a call between its two checks (Permitted).  A flag's answer needs to     *)
(* know what a lookup will return if the store does not change any more:    *)
(* while it runs, that value has been seen or the lookup is overtaken       *)
(* (Pending).                                                               *)
(***************************************************************************)
EXTENDS GuardedRoutes, TLAPS

\* A lookup has arguments once it began and fails only by ending.
Begun ==
    \A l \in Lookups : /\ stage[l] # "idle" => args[l] # None
                       /\ stage[l] \in {"idle", "scoped"} => overtaken[l] = "no"
                       /\ l \in failed => stage[l] = "done"

\* What a running lookup would return now was the flag's value at some moment
\* of it, unless it is overtaken; it is not while its tenant has no key.
Pending ==
    \A l \in Lookups :
        /\ stage[l] = "scoped" =>
              /\ args[l].tenant # None
              /\ Effective(flags, args[l].tenant, args[l].default) \in seen[l]
        /\ stage[l] = "global" =>
              /\ overtaken[l] = "mixed" \/ Coerce(flags[None], args[l].default) \in seen[l]
              /\ args[l].tenant # None /\ overtaken[l] = "no" => flags[args[l].tenant] = None

FlagInv == FlagTypeOK /\ Begun /\ Pending /\ AnswerWasEffective

\* A call between its two checks has a name and the permission.
Permitted ==
    \A c \in Calls : pc[c] = "permitted" => Authentic(c) /\ Holds(call[c].token, Permission)

RoutesInv == FlagInv /\ TypeOK /\ Permitted /\ DenyByDefault

-----------------------------------------------------------------------------
(* When the decisions of authz.py grant *)

\* principal_from_claims yields a principal exactly for a token with a name,
\* and its id is the subject's text.
LEMMA PrincipalHasName ==
    ASSUME NEW token \in Claims
    PROVE  /\ PrincipalFromClaims(token) # None <=> Names(token) # {}
           /\ Names(token) # {} =>
                 /\ PrincipalFromClaims(token).id = Subject(token).text
                 /\ PrincipalFromClaims(token).tenant = token.tenant
                 /\ PrincipalFromClaims(token).permissions = PermissionsOf(token)
<1> DEFINE subject == IF NamesSomeone(token.sub) THEN token.sub ELSE token.id
<1>1. NamesSomeone(subject) <=> Names(token) # {}
  BY DEF Names
<1>2. Names(token) # {} => subject = Subject(token)
  BY DEF Names, Subject
<1>3. PermissionsOf(token) \in SUBSET STRING
  <2>1. \A g \in {token.permissions, token.scope, token.scopes} : g # None => g \in Grants(STRING)
    BY DEF Claims
  <2>2. \A g \in Grants(STRING) : g.items \subseteq STRING
    BY DEF Grants
  <2>3. Unsplit \in STRING
    BY RoutesAssumption
  <2> QED  BY <2>1, <2>2, <2>3 DEF PermissionsOf, AsFrozenset, GrantsSomething
<1>4. subject # None => subject \in Identifiers(STRING)
  BY DEF Claims
<1>5. NamesSomeone(subject) => subject # None
  BY DEF NamesSomeone
<1>6. ASSUME NamesSomeone(subject)
      PROVE  [id |-> subject.text, tenant |-> token.tenant,
              permissions |-> PermissionsOf(token)] \in Principals
  <2>1. subject.text \in STRING
    BY <1>4, <1>5, <1>6 DEF Identifiers
  <2>2. token.tenant \in Tenants \cup {None}
    BY DEF Claims
  <2> QED  BY <1>3, <2>1, <2>2 DEF Principals
<1>7. None \notin Principals
  BY RoutesAssumption
<1> HIDE DEF subject
<1>8. PrincipalFromClaims(token) =
        IF ~NamesSomeone(subject) THEN None
        ELSE [id |-> subject.text, tenant |-> token.tenant, permissions |-> PermissionsOf(token)]
  BY DEF PrincipalFromClaims, subject
<1> QED  BY <1>1, <1>2, <1>6, <1>7, <1>8

\* has_permission: what the deciding claim of the token says, and nothing for a
\* text of several permissions.
LEMMA PermissionFromToken ==
    ASSUME NEW token \in Claims, NEW permission, permission # Unsplit, Names(token) # {}
    PROVE  HasPermission(PrincipalFromClaims(token), permission) <=> Holds(token, permission)
<1> DEFINE both == {Wildcard, permission}
<1>1. HasPermission(PrincipalFromClaims(token), permission) <=> both \cap PermissionsOf(token) # {}
  BY PrincipalHasName DEF HasPermission
<1>2. Unsplit \notin both
  BY RoutesAssumption
<1>3. CASE token.permissions # None
  <2>1. Deciding(token) = token.permissions /\ PermissionsOf(token) = AsFrozenset(token.permissions)
    BY <1>3 DEF Deciding, PermissionsOf
  <2>2. CASE token.permissions.form = "text" /\ Cardinality(token.permissions.items) # 1
    <3>1. AsFrozenset(token.permissions) = {Unsplit}
      BY <1>3, <2>2 DEF AsFrozenset
    <3> QED  BY <1>1, <1>2, <1>3, <2>1, <2>2, <3>1 DEF Holds
  <2>3. CASE ~(token.permissions.form = "text" /\ Cardinality(token.permissions.items) # 1)
    <3>1. AsFrozenset(token.permissions) = token.permissions.items
      BY <1>3, <2>3 DEF AsFrozenset
    <3> QED  BY <1>1, <1>3, <2>1, <2>3, <3>1 DEF Holds, GrantsSomething
  <2> QED  BY <2>2, <2>3
<1>4. CASE token.permissions = None
  BY <1>1, <1>4 DEF Holds, Deciding, PermissionsOf, GrantsSomething
<1> QED  BY <1>3, <1>4

\* require_permission and check_object_ownership for call c, by its token: each
\* grants exactly what Authority asks for, and answers 401 only without a name.
LEMMA PermissionDecision ==
    ASSUME TypeOK, NEW c \in Calls
    PROVE  LET decision == RequirePermission(Principal(c), Permission)
           IN  /\ decision \in {"granted", "UnauthorizedError", "ForbiddenError"}
               /\ decision = "UnauthorizedError" <=> ~Authentic(c)
               /\ decision = "granted" <=> Authentic(c) /\ Holds(call[c].token, Permission)
<1>1. call[c].token # None => call[c].token \in Claims
  BY RoutesAssumption DEF TypeOK
<1>2. Principal(c) # None <=> Authentic(c)
  BY <1>1, PrincipalHasName DEF Principal, Authentic
<1>3. Authentic(c) => (HasPermission(Principal(c), Permission) <=> Holds(call[c].token, Permission))
  BY <1>1, PermissionFromToken, RoutesAssumption DEF Principal, Authentic
<1> QED  BY <1>2, <1>3 DEF RequirePermission

LEMMA OwnershipDecision ==
    ASSUME TypeOK, NEW c \in Calls, Authentic(c), Holds(call[c].token, Permission)
    PROVE  LET decision == CheckObjectOwnership(Principal(c), call[c].resource.owner,
                              call[c].resource.tenant, call[c].resource.override)
           IN  /\ decision \in {"granted", "ForbiddenError"}
               /\ decision = "granted" <=> Authority(c)
<1> DEFINE token == call[c].token  resource == call[c].resource
<1>1. token \in Claims /\ Names(token) # {} /\ resource \in Resources
  BY RoutesAssumption DEF TypeOK, Authentic
<1>2. Principal(c) = PrincipalFromClaims(token)
  BY DEF Principal, Authentic
<1>3. /\ Principal(c) # None /\ Principal(c).tenant = token.tenant
      /\ Principal(c).id = Subject(token).text
  BY <1>1, <1>2, PrincipalHasName
<1>4. HasPermission(Principal(c), resource.override) <=> Holds(token, resource.override)
  BY <1>1, <1>2, PermissionFromToken, RoutesAssumption
<1> QED  BY <1>3, <1>4 DEF CheckObjectOwnership, Authority

-----------------------------------------------------------------------------
(* Lookups *)

\* A value of the flag is a Boolean, and a reader that finds no key of the
\* tenant's ends up with the flag's value.
LEMMA EffectiveIsRead ==
    ASSUME NEW fs \in [Tenants \cup {None} -> Stored \cup {None}],
           NEW t \in Tenants \cup {None}, NEW d \in BOOLEAN
    PROVE  /\ Effective(fs, t, d) \in BOOLEAN /\ Coerce(fs[None], d) \in BOOLEAN
           /\ Effective(fs, t, d) = Coerce(fs[t], Coerce(fs[None], d))
           /\ t = None \/ fs[t] = None => Effective(fs, t, d) = Coerce(fs[None], d)
           /\ fs[t] # None => Effective(fs, t, d) = Coerce(fs[t], FALSE)
  BY DEF Effective, Coerce

\* The arguments of a lookup that began.
LEMMA ArgsGiven ==
    ASSUME FlagTypeOK, Begun, NEW l \in Lookups, stage[l] # "idle"
    PROVE  args[l] \in Args /\ args[l].tenant \in Tenants \cup {None} /\ args[l].default \in BOOLEAN
<1>1. args[l] \in Args
  BY DEF FlagTypeOK, Begun
<1> QED  BY <1>1 DEF Args

\* A change of the flag is seen by every lookup that runs; what a lookup past
\* its tenant's key would return changes only with the global value.
LEMMA SetFlagInv ==
    ASSUME FlagInv, NEW tenant \in Tenants \cup {None}, NEW value \in Stored \cup {None},
           SetFlag(tenant, value)
    PROVE  FlagInv'
<1>1. /\ flags \in [Tenants \cup {None} -> Stored \cup {None}]
      /\ flags' = [flags EXCEPT ![tenant] = value]
      /\ flags' \in [Tenants \cup {None} -> Stored \cup {None}]
      /\ UNCHANGED <<provider, args, stage, answer, failed>>
  BY DEF FlagInv, FlagTypeOK, SetFlag
<1>2. seen' = [l \in Lookups |-> IF Running(l)
                 THEN seen[l] \cup {Effective(flags', args[l].tenant, args[l].default)}
                 ELSE seen[l]]
  BY DEF SetFlag
<1>3. ASSUME NEW l \in Lookups, Running(l)
      PROVE  /\ args[l].tenant \in Tenants \cup {None} /\ args[l].default \in BOOLEAN
             /\ seen'[l] = seen[l] \cup {Effective(flags', args[l].tenant, args[l].default)}
  BY <1>2, <1>3, ArgsGiven DEF FlagInv, Running
<1>4. \A l \in Lookups : ~Running(l) => seen'[l] = seen[l] /\ overtaken'[l] = overtaken[l]
  BY <1>2 DEF SetFlag, Running
<1>5. FlagTypeOK'
  <2>1. seen' \in [Lookups -> SUBSET BOOLEAN]
    <3>1. ASSUME NEW l \in Lookups PROVE seen'[l] \in SUBSET BOOLEAN
      <4>1. seen[l] \subseteq BOOLEAN
        BY DEF FlagInv, FlagTypeOK
      <4>2. CASE Running(l)
        <5>1. Effective(flags', args[l].tenant, args[l].default) \in BOOLEAN
          BY <1>1, <1>3, <4>2, EffectiveIsRead
        <5> QED  BY <1>3, <4>1, <4>2, <5>1
      <4> QED  BY <1>4, <4>1, <4>2
    <3> QED  BY <1>2, <3>1
  <2>2. overtaken' \in [Lookups -> {"no", "set", "mixed"}]
    BY DEF SetFlag, FlagInv, FlagTypeOK
  <2> QED  BY <1>1, <2>1, <2>2 DEF FlagInv, FlagTypeOK
<1>6. Begun'
  BY <1>1 DEF FlagInv, Begun, SetFlag
<1>7. AnswerWasEffective'
  BY <1>1, <1>4 DEF FlagInv, AnswerWasEffective, Running
<1>8. Pending'
  <2> SUFFICES ASSUME NEW l \in Lookups
               PROVE  /\ stage'[l] = "scoped" =>
                           /\ args'[l].tenant # None
                           /\ Effective(flags', args'[l].tenant, args'[l].default) \in seen'[l]
                      /\ stage'[l] = "global" =>
                           /\ \/ overtaken'[l] = "mixed"
                              \/ Coerce(flags'[None], args'[l].default) \in seen'[l]
                           /\ args'[l].tenant # None /\ overtaken'[l] = "no" =>
                                flags'[args'[l].tenant] = None
    BY DEF Pending
  <2> PICK fs, t, d : fs = flags' /\ t = args[l].tenant /\ d = args[l].default
    OBVIOUS
  <2>0. stage'[l] = stage[l] /\ args'[l] = args[l]
    BY <1>1
  <2>1. CASE stage[l] = "scoped"
    <3>1. Effective(fs, t, d) \in seen'[l]
      BY <1>3, <2>1 DEF Running
    <3>2. t # None
      BY <2>1 DEF FlagInv, Pending
    <3> QED  BY <2>0, <2>1, <3>1, <3>2
  <2>2. CASE stage[l] = "global"
    <3>1. overtaken'[l] =
            IF t = None THEN overtaken[l]
            ELSE IF tenant = t
                 THEN IF value = None THEN "no"
                      ELSE IF overtaken[l] = "no" THEN "set" ELSE overtaken[l]
            ELSE IF tenant = None /\ overtaken[l] = "set" THEN "mixed"
            ELSE overtaken[l]
      BY <2>2 DEF SetFlag
    <3>2. /\ overtaken[l] \in {"no", "set", "mixed"}
          /\ overtaken[l] = "mixed" \/ Coerce(flags[None], d) \in seen[l]
          /\ t # None /\ overtaken[l] = "no" => flags[t] = None
      BY <2>2 DEF FlagInv, FlagTypeOK, Pending
    <3>3. t \in Tenants \cup {None} /\ d \in BOOLEAN
      BY <1>3, <2>2 DEF Running
    <3>4. /\ fs \in [Tenants \cup {None} -> Stored \cup {None}]
          /\ \A s \in Tenants \cup {None} : fs[s] = IF s = tenant THEN value ELSE flags[s]
      BY <1>1
    <3>5. seen[l] \subseteq seen'[l] /\ Effective(fs, t, d) \in seen'[l]
      BY <1>3, <2>2 DEF Running
    <3>6. t = None \/ fs[t] = None => Coerce(fs[None], d) \in seen'[l]
      <4>1. t = None \/ fs[t] = None => Effective(fs, t, d) = Coerce(fs[None], d)
        BY DEF Effective, Coerce
      <4> QED  BY <3>5, <4>1
    <3>7. tenant # None => fs[None] = flags[None]
      BY <3>4
    <3>8. t # None /\ overtaken'[l] = "no" => fs[t] = None
      BY <3>1, <3>2, <3>3, <3>4
    <3>9. overtaken'[l] = "mixed" \/ Coerce(fs[None], d) \in seen'[l]
      <4>1. CASE t # None /\ fs[t] # None /\ tenant # None
        <5>1. overtaken[l] = "mixed" => overtaken'[l] = "mixed"
          BY <3>1, <3>3, <3>4, <4>1
        <5>2. Coerce(fs[None], d) = Coerce(flags[None], d)
          BY <3>7, <4>1
        <5> QED  BY <3>2, <3>5, <5>1, <5>2
      <4>2. CASE t # None /\ fs[t] # None /\ tenant = None
        <5>1. overtaken[l] # "no"
          BY <3>2, <3>3, <3>4, <4>2
        <5> QED  BY <3>1, <3>2, <4>2, <5>1
      <4> QED  BY <3>6, <4>1, <4>2
    <3> QED  BY <2>0, <2>2, <3>8, <3>9
  <2> QED  BY <2>0, <2>1, <2>2
<1> QED  BY <1>5, <1>6, <1>7, <1>8 DEF FlagInv

\* A lookup begins with the value the flag has.
LEMMA AskInv ==
    ASSUME FlagInv, NEW l \in Lookups, NEW t \in Tenants \cup {None}, NEW d \in BOOLEAN, Ask(l, t, d)
    PROVE  FlagInv'
<1> DEFINE now == Effective(flags, t, d)
<1>1. /\ stage[l] = "idle" /\ UNCHANGED <<provider, flags, failed, overtaken>>
      /\ args' = [args EXCEPT ![l] = [tenant |-> t, default |-> d]]
      /\ seen' = [seen EXCEPT ![l] = {now}]
  BY DEF Ask, AskLocal, AskRedis, Asked
<1>2. \/ stage' = [stage EXCEPT ![l] = "done"] /\ answer' = [answer EXCEPT ![l] = now]
      \/ /\ stage' = [stage EXCEPT ![l] = IF t = None THEN "global" ELSE "scoped"]
         /\ answer' = answer
  <2>1. CASE AskLocal(l, t, d)
    <3>1. now = Coerce(flags[t], Coerce(flags[None], d))
      BY EffectiveIsRead DEF FlagInv, FlagTypeOK
    <3>2. /\ stage' = [stage EXCEPT ![l] = "done"]
          /\ answer' = [answer EXCEPT ![l] = Coerce(flags[t], Coerce(flags[None], d))]
      BY <2>1 DEF AskLocal, Return
    <3> HIDE DEF now
    <3> QED  BY <3>1, <3>2, Zenon
  <2>2. CASE AskRedis(l, t, d)
    BY <2>2 DEF AskRedis
  <2> QED  BY <2>1, <2>2 DEF Ask
<1>3. now \in BOOLEAN /\ (t = None => now = Coerce(flags[None], d)) /\ [tenant |-> t, default |-> d] \in Args
  BY EffectiveIsRead DEF FlagInv, FlagTypeOK, Args
<1>4. /\ args'[l] = [tenant |-> t, default |-> d] /\ seen'[l] = {now} /\ overtaken'[l] = "no"
      /\ l \notin failed /\ answer[l] = None
  BY <1>1, FlagAssumption DEF FlagInv, FlagTypeOK, Begun
<1>5. \A k \in Lookups : k # l => /\ stage'[k] = stage[k] /\ answer'[k] = answer[k]
                                 /\ args'[k] = args[k] /\ seen'[k] = seen[k]
  BY <1>1, <1>2 DEF FlagInv, FlagTypeOK
<1>6. \/ stage'[l] = "done" /\ answer'[l] = now
      \/ stage'[l] = (IF t = None THEN "global" ELSE "scoped") /\ answer'[l] = None
  BY <1>2, <1>4 DEF FlagInv, FlagTypeOK
<1> HIDE DEF now
<1>7. FlagTypeOK'
  <2>1. args' \in [Lookups -> Args \cup {None}] /\ seen' \in [Lookups -> SUBSET BOOLEAN]
    BY <1>1, <1>3 DEF FlagInv, FlagTypeOK
  <2>2. stage' \in [Lookups -> {"idle", "scoped", "global", "done"}]
    BY <1>2 DEF FlagInv, FlagTypeOK
  <2>3. answer' \in [Lookups -> BOOLEAN \cup {None}]
    BY <1>2, <1>3 DEF FlagInv, FlagTypeOK
  <2>4. \A k \in Lookups : stage'[k] = "done" <=> answer'[k] # None
    BY <1>3, <1>5, <1>6, FlagAssumption DEF FlagInv, FlagTypeOK
  <2> QED  BY <1>1, <2>1, <2>2, <2>3, <2>4 DEF FlagInv, FlagTypeOK
<1>8. Begun'
  BY <1>1, <1>3, <1>4, <1>5, <1>6, FlagAssumption DEF FlagInv, Begun
<1>9. Pending'
  <2>1. ASSUME NEW k \in Lookups, k # l
        PROVE  /\ stage'[k] = "scoped" =>
                    /\ args'[k].tenant # None
                    /\ Effective(flags', args'[k].tenant, args'[k].default) \in seen'[k]
               /\ stage'[k] = "global" =>
                    /\ overtaken'[k] = "mixed" \/ Coerce(flags'[None], args'[k].default) \in seen'[k]
                    /\ args'[k].tenant # None /\ overtaken'[k] = "no" =>
                          flags'[args'[k].tenant] = None
    BY <1>1, <1>5, <2>1 DEF FlagInv, Pending
  <2>2. /\ stage'[l] = "scoped" =>
              /\ args'[l].tenant # None
              /\ Effective(flags', args'[l].tenant, args'[l].default) \in seen'[l]
        /\ stage'[l] = "global" =>
              /\ overtaken'[l] = "mixed" \/ Coerce(flags'[None], args'[l].default) \in seen'[l]
              /\ args'[l].tenant # None /\ overtaken'[l] = "no" => flags'[args'[l].tenant] = None
    BY <1>1, <1>3, <1>4, <1>6 DEF now
  <2> QED  BY <2>1, <2>2 DEF Pending
<1>10. AnswerWasEffective'
  BY <1>1, <1>4, <1>5, <1>6 DEF FlagInv, AnswerWasEffective
<1> QED  BY <1>7, <1>8, <1>9, <1>10 DEF FlagInv

\* A read returns what is pending, or goes on to the global key when there is no
\* other; a failed one returns the default.
LEMMA ReadFlagInv ==
    ASSUME FlagInv, NEW l \in Lookups, ReadFlag(l)
    PROVE  FlagInv'
<1> DEFINE t == args[l].tenant  d == args[l].default
<1>1. stage[l] \in {"scoped", "global"} /\ UNCHANGED <<provider, flags, args, seen, overtaken>>
  BY DEF ReadFlag, ReadScoped, ReadGlobal, StoreFails, Running
<1>2. /\ t \in Tenants \cup {None} /\ d \in BOOLEAN /\ args[l] # None
      /\ flags \in [Tenants \cup {None} -> Stored \cup {None}]
      /\ l \notin failed /\ answer[l] = None
  BY <1>1, ArgsGiven, FlagAssumption DEF FlagInv, FlagTypeOK, Begun
<1>3. CASE /\ stage[l] = "scoped" /\ flags[t] = None /\ failed' = failed
           /\ stage' = [stage EXCEPT ![l] = "global"] /\ answer' = answer
  <2>1. \A k \in Lookups : stage'[k] = IF k = l THEN "global" ELSE stage[k]
    BY <1>3 DEF FlagInv, FlagTypeOK
  <2>2. FlagTypeOK' /\ Begun'
    BY <1>1, <1>2, <1>3, <2>1 DEF FlagInv, FlagTypeOK, Begun
  <2>3. t # None /\ Coerce(flags[None], d) \in seen[l]
    BY <1>2, <1>3, EffectiveIsRead DEF FlagInv, Pending
  <2>4. Pending'
    BY <1>1, <1>3, <2>1, <2>3 DEF FlagInv, Pending
  <2>5. AnswerWasEffective'
    BY <1>1, <1>3, <2>1 DEF FlagInv, AnswerWasEffective
  <2> QED  BY <2>2, <2>4, <2>5 DEF FlagInv
<1>4. ASSUME NEW value \in BOOLEAN, Return(l, value),
             \/ failed' = failed /\ (value \in seen[l] \/ overtaken[l] = "mixed")
             \/ failed' = failed \cup {l} /\ value = d
      PROVE  FlagInv'
  <2>1. /\ stage' = [stage EXCEPT ![l] = "done"] /\ answer' = [answer EXCEPT ![l] = value]
        /\ stage'[l] = "done" /\ answer'[l] = value
        /\ \A k \in Lookups : k # l => stage'[k] = stage[k] /\ answer'[k] = answer[k]
    BY <1>4 DEF Return, FlagInv, FlagTypeOK
  <2>2. stage' \in [Lookups -> {"idle", "scoped", "global", "done"}] /\ failed' \subseteq Lookups
    BY <1>4, <2>1 DEF FlagInv, FlagTypeOK
  <2>3. answer' \in [Lookups -> BOOLEAN \cup {None}]
    BY <1>4, <2>1 DEF FlagInv, FlagTypeOK
  <2>4. \A k \in Lookups : stage'[k] = "done" <=> answer'[k] # None
    BY <1>4, <2>1, FlagAssumption DEF FlagInv, FlagTypeOK
  <2>5. FlagTypeOK'
    BY <1>1, <2>2, <2>3, <2>4 DEF FlagInv, FlagTypeOK
  <2>6. Begun'
    BY <1>1, <1>2, <1>4, <2>1 DEF FlagInv, Begun
  <2>7. Pending'
    BY <1>1, <2>1 DEF FlagInv, Pending
  <2>8. AnswerWasEffective'
    BY <1>1, <1>2, <1>4, <2>1 DEF FlagInv, AnswerWasEffective
  <2> QED  BY <2>5, <2>6, <2>7, <2>8 DEF FlagInv
<1>5. CASE ReadScoped(l) /\ flags[t] = None
  BY <1>3, <1>5 DEF ReadScoped
<1>6. CASE ReadScoped(l) /\ flags[t] # None
  <2>1. Return(l, Coerce(flags[t], FALSE)) /\ stage[l] = "scoped" /\ failed' = failed
    BY <1>6 DEF ReadScoped
  <2>2. Coerce(flags[t], FALSE) \in seen[l] /\ Coerce(flags[t], FALSE) \in BOOLEAN
    BY <1>2, <1>6, <2>1, EffectiveIsRead DEF FlagInv, Pending
  <2> QED  BY <1>4, <2>1, <2>2
<1>7. CASE ReadGlobal(l)
  <2>1. Return(l, Coerce(flags[None], d)) /\ stage[l] = "global" /\ failed' = failed
    BY <1>7 DEF ReadGlobal
  <2>2. Coerce(flags[None], d) \in seen[l] \/ overtaken[l] = "mixed"
    BY <2>1 DEF FlagInv, Pending
  <2> QED  BY <1>2, <1>4, <2>1, <2>2, EffectiveIsRead
<1>8. CASE StoreFails(l)
  BY <1>2, <1>4, <1>8 DEF StoreFails
<1> QED  BY <1>5, <1>6, <1>7, <1>8 DEF ReadFlag

-----------------------------------------------------------------------------
(* Calls *)

routesVars == <<flagVars, routeVars>>

\* A call that is past its checks consults the switch for its token's tenant.
LEMMA PrincipalTenant ==
    ASSUME TypeOK, NEW c \in Calls, Authentic(c)
    PROVE  Principal(c).tenant \in Tenants \cup {None}
<1>1. call[c].token \in Claims /\ Names(call[c].token) # {}
  BY RoutesAssumption DEF TypeOK, Authentic
<1>2. Principal(c).tenant = call[c].token.tenant
  BY <1>1, PrincipalHasName DEF Principal, Authentic
<1> QED  BY <1>1, <1>2 DEF Claims

\* What a token and a resource amount to does not change with the state.
LEMMA AuthorityStays ==
    ASSUME call' = call, NEW c \in Calls
    PROVE  (Authentic(c)' <=> Authentic(c)) /\ (Authority(c)' <=> Authority(c))
  BY DEF Authentic, Authority

\* The flag's part of the invariant, through every step.
LEMMA RoutesKeepFlagInv ==
    ASSUME RoutesInv, [Next]_routesVars
    PROVE  FlagInv'
<1>1. CASE UNCHANGED flagVars
  BY <1>1
  DEF flagVars, RoutesInv, FlagInv, FlagTypeOK, Begun, Pending, AnswerWasEffective
<1>2. CASE ChangeFlag
  BY <1>2, SetFlagInv DEF ChangeFlag, RoutesInv
<1>3. ASSUME NEW c \in Calls, Consult(c)
      PROVE  FlagInv'
  <2>1. Authentic(c)
    BY <1>3 DEF Consult, RoutesInv, DenyByDefault, Authority
  <2>2. Principal(c).tenant \in Tenants \cup {None}
    BY <2>1, PrincipalTenant DEF RoutesInv
  <2>3. call[c].default \in BOOLEAN
    BY DEF RoutesInv, TypeOK
  <2>4. \E t \in Tenants \cup {None} : \E d \in BOOLEAN : Ask(c, t, d)
    BY <1>3, <2>2, <2>3 DEF Consult
  <2> QED  BY <2>4, AskInv DEF RoutesInv, Calls
<1>4. ASSUME NEW c \in Calls, ReadFlag(c)
      PROVE  FlagInv'
  BY <1>4, ReadFlagInv DEF RoutesInv, Calls
<1>5. ASSUME NEW c \in Calls, CheckPermission(c) \/ CheckOwnership(c) \/ Proceed(c)
      PROVE  FlagInv'
  BY <1>1, <1>5 DEF CheckPermission, CheckOwnership, Proceed
<1> QED  BY <1>1, <1>2, <1>3, <1>4, <1>5 DEF Next, routesVars

\* A check moves one call, to where its decision says.
LEMMA DecidedMoves ==
    ASSUME TypeOK, NEW c \in Calls, NEW decision, NEW next, Decided(c, decision, next)
    PROVE  /\ decision = "granted" => pc'[c] = next /\ error'[c] = error[c]
           /\ decision # "granted" => pc'[c] = "refused" /\ error'[c] = decision
           /\ \A k \in Calls : k # c => pc'[k] = pc[k] /\ error'[k] = error[k]
           /\ pc' = [pc EXCEPT ![c] = pc'[c]] /\ error' = [error EXCEPT ![c] = error'[c]]
<1>1. CASE decision = "granted"
  BY <1>1 DEF Decided, TypeOK
<1>2. CASE decision # "granted"
  BY <1>2 DEF Decided, TypeOK
<1> QED  BY <1>1, <1>2

\* Both checks grant what the token says and refuse the rest.
LEMMA ChecksInv ==
    ASSUME RoutesInv, NEW c \in Calls, CheckPermission(c) \/ CheckOwnership(c), FlagInv'
    PROVE  RoutesInv'
<1> USE DEF RoutesInv
<1>1. call' = call /\ pc[c] \in {"new", "permitted"} /\ error[c] = None
  BY DEF CheckPermission, CheckOwnership, TypeOK
<1>2. PICK decision, next :
        /\ Decided(c, decision, next)
        /\ decision \in {"granted", "UnauthorizedError", "ForbiddenError"}
        /\ \/ /\ next = "permitted"
              /\ decision = "UnauthorizedError" <=> ~Authentic(c)
              /\ decision = "granted" <=> Authentic(c) /\ Holds(call[c].token, Permission)
           \/ /\ next = "authorized" /\ Authentic(c) /\ decision # "UnauthorizedError"
              /\ decision = "granted" <=> Authority(c)
  <2>1. CASE CheckPermission(c)
    BY <2>1, PermissionDecision DEF CheckPermission
  <2>2. CASE CheckOwnership(c)
    <3>1. Authentic(c) /\ Holds(call[c].token, Permission)
      BY <2>2 DEF CheckOwnership, Permitted
    <3> QED  BY <2>2, <3>1, OwnershipDecision DEF CheckOwnership
  <2> QED  BY <2>1, <2>2
<1>3. /\ decision = "granted" => pc'[c] = next /\ error'[c] = None
      /\ decision # "granted" => pc'[c] = "refused" /\ error'[c] = decision
      /\ \A k \in Calls : k # c => pc'[k] = pc[k] /\ error'[k] = error[k]
      /\ pc' = [pc EXCEPT ![c] = pc'[c]] /\ error' = [error EXCEPT ![c] = error'[c]]
  BY <1>1, <1>2, DecidedMoves
<1>4. None \notin {"UnauthorizedError", "ForbiddenError"}
  BY RoutesAssumption
<1>5. TypeOK'
  <2>1. pc'[c] \in {"permitted", "authorized", "refused"}
    BY <1>2, <1>3
  <2>2. error'[c] \in {"UnauthorizedError", "ForbiddenError", None}
    BY <1>2, <1>3
  <2>3. pc'[c] = "refused" <=> error'[c] # None
    BY <1>2, <1>3, <1>4
  <2> QED  BY <1>1, <1>3, <2>1, <2>2, <2>3 DEF TypeOK, FlagInv
<1>6. Authority(c) => Authentic(c) /\ Holds(call[c].token, Permission)
  BY DEF Authority
<1>7. Permitted'
  BY <1>1, <1>2, <1>3, AuthorityStays DEF Permitted
<1>8. DenyByDefault'
  <2>1. ASSUME NEW k \in Calls, k # c
        PROVE  /\ pc'[k] \in {"authorized", "consulting", "ran", "fallback"} => Authority(k)'
               /\ pc'[k] = "refused" =>
                     /\ ~Authority(k)'
                     /\ error'[k] = "UnauthorizedError" <=> ~Authentic(k)'
    BY <1>1, <1>3, <2>1, AuthorityStays DEF DenyByDefault
  <2>2. /\ pc'[c] \in {"authorized", "consulting", "ran", "fallback"} => Authority(c)
        /\ pc'[c] = "refused" => ~Authority(c) /\ (error'[c] = "UnauthorizedError" <=> ~Authentic(c))
    BY <1>2, <1>3, <1>6
  <2> QED  BY <1>1, <2>1, <2>2, AuthorityStays DEF DenyByDefault
<1> QED  BY <1>5, <1>7, <1>8

\* A call that consults the switch, or acts on its answer, keeps its authority.
LEMMA SwitchInv ==
    ASSUME RoutesInv, NEW c \in Calls, Consult(c) \/ Proceed(c), FlagInv'
    PROVE  RoutesInv'
<1> USE DEF RoutesInv
<1>1. /\ call' = call /\ error' = error
      /\ pc[c] \in {"authorized", "consulting"}
      /\ \E where \in {"consulting", "ran", "fallback"} : pc' = [pc EXCEPT ![c] = where]
  BY DEF Consult, Proceed
<1>2. /\ pc'[c] \in {"consulting", "ran", "fallback"}
      /\ \A k \in Calls : k # c => pc'[k] = pc[k]
  BY <1>1 DEF TypeOK
<1>3. TypeOK'
  BY <1>1, <1>2 DEF TypeOK, FlagInv
<1>4. Permitted'
  BY <1>1, <1>2, AuthorityStays DEF Permitted
<1>5. DenyByDefault'
  BY <1>1, <1>2, AuthorityStays DEF DenyByDefault
<1> QED  BY <1>3, <1>4, <1>5

-----------------------------------------------------------------------------
(* The theorems *)

\* No call has been decided and no lookup made.
LEMMA RoutesInitInv == Init => RoutesInv
<1> SUFFICES ASSUME Init PROVE RoutesInv
  OBVIOUS
<1>1. FlagTypeOK /\ Begun
  BY FlagAssumption DEF Init, FlagInit, FlagTypeOK, Begun
<1>2. Pending /\ AnswerWasEffective
  BY DEF Init, FlagInit, Pending, AnswerWasEffective
<1>3. TypeOK /\ Permitted /\ DenyByDefault
  BY <1>1, RoutesAssumption DEF Init, TypeOK, Permitted, DenyByDefault
<1> QED  BY <1>1, <1>2, <1>3 DEF RoutesInv, FlagInv

\* Every step preserves the invariant.
LEMMA RoutesNextInv == RoutesInv /\ [Next]_routesVars => RoutesInv'
<1> SUFFICES ASSUME RoutesInv, [Next]_routesVars PROVE RoutesInv'
  OBVIOUS
<1>1. FlagInv'
  BY RoutesKeepFlagInv
<1>2. CASE UNCHANGED routeVars
  <2>1. call' = call /\ pc' = pc /\ error' = error
    BY <1>2 DEF routeVars
  <2>2. TypeOK'
    BY <1>1, <2>1 DEF RoutesInv, TypeOK, FlagInv
  <2>3. Permitted' /\ DenyByDefault'
    BY <2>1, AuthorityStays DEF RoutesInv, Permitted, DenyByDefault
  <2> QED  BY <1>1, <2>2, <2>3 DEF RoutesInv
<1> QED
  BY <1>1, <1>2, ChecksInv, SwitchInv DEF Next, routesVars

\* The invariant the theorems below are read off.
THEOREM RoutesInvariance == Spec => []RoutesInv
<1>1. Spec <=> Init /\ [][Next]_routesVars
  BY DEF Spec, routesVars
<1> QED  BY <1>1, RoutesInitInv, RoutesNextInv, PTL

\* Every variable keeps its type; a refused call has an error and no other has.
THEOREM RoutesTypeCorrect == Spec => []TypeOK
<1>1. RoutesInv => TypeOK
  BY DEF RoutesInv
<1> QED  BY <1>1, RoutesInvariance, PTL

\* The guarded path is reached exactly with the authority the token gives, for
\* every token and resource.
THEOREM DeniedByDefault == Spec => []DenyByDefault
<1>1. RoutesInv => DenyByDefault
  BY DEF RoutesInv
<1> QED  BY <1>1, RoutesInvariance, PTL

\* A lookup answers with a value the flag had while it ran, with the one
\* exception of the two reads of the Redis provider, or with the default when
\* the store fails.
THEOREM AnswersWereEffective == Spec => []AnswerWasEffective
<1>1. RoutesInv => AnswerWasEffective
  BY DEF RoutesInv, FlagInv
<1> QED  BY <1>1, RoutesInvariance, PTL
=============================================================================

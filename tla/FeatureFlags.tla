---------------------------- MODULE FeatureFlags ----------------------------
(***************************************************************************)
(* One feature flag and its lookups through the three providers of          *)
(* featureflags.py.  InMemoryFeatureFlags and EnvFeatureFlags answer in one  *)
(* step.  RedisFeatureFlags reads the tenant's key and then the global one,  *)
(* while operators and other instances change them and the store may fail.  *)
(* A stored value is "truthy" (one of _TRUTHY) or "other".                  *)
(***************************************************************************)
CONSTANTS
    Lookups,        \* calls of is_enabled, each made once
    Tenants,
    None            \* no tenant, or no value

VARIABLES
    provider,       \* the provider in use: memory, env, redis
    flags,          \* the stored value per tenant, and at None the global one
    args,           \* per lookup: its tenant_id and default
    stage,          \* per lookup: idle, scoped or global (the key to read next), done
    answer,         \* per lookup: what it returned
    failed,         \* history: the lookups in which the store failed
    seen,           \* history: per lookup, the effective values while it ran
    overtaken       \* history: per lookup, "set" when its tenant got a key after it
                    \* found none, "mixed" when the global value changed since

flagVars == <<provider, flags, args, stage, answer, failed, seen, overtaken>>

Stored == {"truthy", "other"}

\* tenant_id and default of a call of is_enabled.
Args == [tenant : Tenants \cup {None}, default : BOOLEAN]

ASSUME FlagAssumption ==
    None \notin Tenants /\ None \notin Stored /\ None \notin BOOLEAN /\ None \notin Args

FlagInit ==
    /\ provider \in {"memory", "env", "redis"}
    /\ flags \in [Tenants \cup {None} -> Stored \cup {None}]
    /\ provider = "env" => \A t \in Tenants : flags[t] = None
    /\ args = [l \in Lookups |-> None]
    /\ stage = [l \in Lookups |-> "idle"]
    /\ answer = [l \in Lookups |-> None]
    /\ failed = {}
    /\ seen = [l \in Lookups |-> {}]
    /\ overtaken = [l \in Lookups |-> "no"]

\* A missing key counts as off.
CoerceMissing(value, otherwise) == value = "truthy"

\* _coerce, and what the caller makes of a missing value.
Coerce(value, otherwise) == IF value = None THEN otherwise ELSE value = "truthy"

\* What the contract calls the flag's value: the tenant's, or else the global
\* one, or else the default.
Effective(fs, tenant, default) ==
    IF fs[tenant] # None THEN fs[tenant] = "truthy"
    ELSE IF fs[None] # None THEN fs[None] = "truthy"
    ELSE default

Running(l) == stage[l] \in {"scoped", "global"}

-----------------------------------------------------------------------------
(* Operators and other instances *)

\* set, enable, disable, or a write to the shared store, where keys can also be
\* deleted.  The environment does not change while a service runs.
SetFlag(tenant, value) ==
    /\ provider # "env"
    /\ value = None => provider = "redis"
    /\ flags[tenant] # value
    /\ flags' = [flags EXCEPT ![tenant] = value]
    /\ seen' = [l \in Lookups |-> IF Running(l)
                  THEN seen[l] \cup {Effective(flags', args[l].tenant, args[l].default)}
                  ELSE seen[l]]
    /\ overtaken' = [l \in Lookups |->
          IF stage[l] # "global" \/ args[l].tenant = None THEN overtaken[l]
          ELSE IF tenant = args[l].tenant
               THEN IF value = None THEN "no"
                    ELSE IF overtaken[l] = "no" THEN "set" ELSE overtaken[l]
          ELSE IF tenant = None /\ overtaken[l] = "set" THEN "mixed"
          ELSE overtaken[l]]
    /\ UNCHANGED <<provider, args, stage, answer, failed>>

-----------------------------------------------------------------------------
(* is_enabled *)

Return(l, value) ==
    /\ answer' = [answer EXCEPT ![l] = value]
    /\ stage' = [stage EXCEPT ![l] = "done"]

Asked(l, tenant, default) ==
    /\ stage[l] = "idle"
    /\ args' = [args EXCEPT ![l] = [tenant |-> tenant, default |-> default]]
    /\ seen' = [seen EXCEPT ![l] = {Effective(flags, tenant, default)}]

\* InMemoryFeatureFlags.is_enabled; EnvFeatureFlags.is_enabled, for which no
\* tenant has a value of its own.
AskLocal(l, tenant, default) ==
    /\ provider \in {"memory", "env"}
    /\ Asked(l, tenant, default)
    /\ Return(l, Coerce(flags[tenant], Coerce(flags[None], default)))
    /\ UNCHANGED <<provider, flags, failed, overtaken>>

\* RedisFeatureFlags.is_enabled begins: without a tenant there is one key to read.
AskRedis(l, tenant, default) ==
    /\ provider = "redis"
    /\ Asked(l, tenant, default)
    /\ stage' = [stage EXCEPT ![l] = IF tenant = None THEN "global" ELSE "scoped"]
    /\ UNCHANGED <<provider, flags, answer, failed, overtaken>>

\* The tenant's key settles the matter if it is there.
ReadScoped(l) ==
    /\ stage[l] = "scoped"
    /\ LET value == flags[args[l].tenant]
       IN  IF value # None THEN Return(l, Coerce(value, FALSE))
           ELSE stage' = [stage EXCEPT ![l] = "global"] /\ UNCHANGED answer
    /\ UNCHANGED <<provider, flags, args, failed, seen, overtaken>>

ReadGlobal(l) ==
    /\ stage[l] = "global"
    /\ Return(l, Coerce(flags[None], args[l].default))
    /\ UNCHANGED <<provider, flags, args, failed, seen, overtaken>>

\* The error is swallowed and the default forgotten.
ForgetsDefault(l) ==
    /\ Running(l)
    /\ Return(l, None)
    /\ failed' = failed \cup {l}
    /\ UNCHANGED <<provider, flags, args, seen, overtaken>>

\* The error of a read does not reach the caller.
StoreFails(l) ==
    /\ Running(l)
    /\ Return(l, args[l].default)
    /\ failed' = failed \cup {l}
    /\ UNCHANGED <<provider, flags, args, seen, overtaken>>

Ask(l, tenant, default) == AskLocal(l, tenant, default) \/ AskRedis(l, tenant, default)

ReadFlag(l) == ReadScoped(l) \/ ReadGlobal(l) \/ StoreFails(l)

ChangeFlag ==
    \E tenant \in Tenants \cup {None} : \E value \in Stored \cup {None} : SetFlag(tenant, value)

-----------------------------------------------------------------------------
(* Properties *)

FlagTypeOK ==
    /\ provider \in {"memory", "env", "redis"}
    /\ flags \in [Tenants \cup {None} -> Stored \cup {None}]
    /\ args \in [Lookups -> Args \cup {None}]
    /\ stage \in [Lookups -> {"idle", "scoped", "global", "done"}]
    /\ answer \in [Lookups -> BOOLEAN \cup {None}]
    /\ \A l \in Lookups : stage[l] = "done" <=> answer[l] # None
    /\ failed \subseteq Lookups
    /\ seen \in [Lookups -> SUBSET BOOLEAN]
    /\ overtaken \in [Lookups -> {"no", "set", "mixed"}]

\* A lookup answers with a value that the flag had for its tenant at some
\* moment of the lookup, or with the default when the store fails.  The two
\* reads of the Redis provider are not atomic, and there is one exception: the
\* tenant gets a key of its own between them, and the global value changes
\* after that.  So a key that is off throughout is never seen on, whatever
\* happens to the global one.
AnswerWasEffective ==
    \A l \in Lookups : stage[l] = "done" =>
       IF l \in failed THEN answer[l] = args[l].default
       ELSE answer[l] \in seen[l] \/ overtaken[l] = "mixed"
=============================================================================

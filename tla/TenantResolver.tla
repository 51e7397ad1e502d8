--------------------------- MODULE TenantResolver ---------------------------
(***************************************************************************)
(* TenantResolver (db.py) and validate_tenant (tenant.py): concurrent       *)
(* requests resolve a tenant against a cached set of live tenants, which    *)
(* any of them refreshes when it is older than refresh_interval.            *)
(*                                                                         *)
(* get_tenants reads the clock, awaits the discovery, and then stores what  *)
(* it got under the time it read before: nothing keeps two requests from    *)
(* discovering at once and storing in either order.  Discovery is split     *)
(* into the moment the database reads its schemas and the moment the rows   *)
(* arrive.  A request with force is a get_tenants(force=True) whose caller  *)
(* then validates; resolve never forces.                                    *)
(*                                                                         *)
(* A name is a text with some number of "tenant" prefixes before a base     *)
(* that does not begin with one: the name of a schema, a tenant id, and     *)
(* what is left of either when one prefix is cut off.                       *)
(*                                                                         *)
(* Times are ages: the ticks since a clock reading, saturated at            *)
(* RefreshInterval, the only value the code compares a difference with.     *)
(***************************************************************************)
EXTENDS Naturals

CONSTANTS
    Requests,           \* concurrent requests
    Bases,              \* names without a prefix
    MaxPrefixes,        \* bound: the prefixes of a name
    Schemas,            \* the names of schemas that LIKE 'tenant%' matches
    Deployments,        \* sets of schemas that one deployment may have
    WellFormed,         \* the ids that pattern, length and keyword scan let through
    NoId,               \* the id of a slot without a request
    RefreshInterval     \* refresh_interval, in clock ticks

Names == [base : Bases, prefixes : 0 .. MaxPrefixes]

ASSUME IntervalAssumption == RefreshInterval \in Nat \ {0}

ASSUME NamesAssumption ==
    /\ MaxPrefixes \in Nat
    /\ Schemas \subseteq Names
    /\ Deployments \subseteq SUBSET Schemas

VARIABLES
    deployed,       \* the schemas of this deployment, now or at another time
    live,           \* the schemas there are now
    cache,          \* _cache: bare names
    loaded,         \* _loaded
    loadedAge,      \* _clock() - _loaded_at
    pc,             \* per request: idle, discovering, read (rows under way), answered
    asked,          \* per request: its tenant id
    answer,         \* per request: how it was answered
    nowAge,         \* per request: ticks since now = _clock()
    rows,           \* per request: the bare names its discovery read
    \* History: ticks since the database read what is cached, and what a
    \* request has read; ticks since a schema was last there, and last missing;
    \* the schemas there, and missing, at some time since a request began.
    cacheAge, rowsAge, deadFor, liveFor, sawLive, sawDead

resolverVars == <<cache, loaded, loadedAge>>
requestVars == <<pc, asked, answer, nowAge, rows>>
historyVars == <<cacheAge, rowsAge, deadFor, liveFor, sawLive, sawDead>>
vars == <<deployed, live, resolverVars, requestVars, historyVars>>

Ages == 0 .. RefreshInterval

Older(age) == IF age < RefreshInterval THEN age + 1 ELSE RefreshInterval

\* One prefix is cut off, where there is one.
Bare(name) == IF name.prefixes > 0 THEN [name EXCEPT !.prefixes = @ - 1] ELSE name

Prefixed(name) == [name EXCEPT !.prefixes = @ + 1]

\* What resolve returns: "tenant" + bare.
SchemaOf(id) == Prefixed(Bare(id))

Init ==
    /\ deployed \in Deployments
    /\ live \in SUBSET deployed
    /\ cache = {} /\ loaded = FALSE
    /\ loadedAge = RefreshInterval
    /\ pc = [q \in Requests |-> "idle"]
    /\ asked = [q \in Requests |-> NoId]
    /\ answer = [q \in Requests |-> "none"]
    /\ nowAge = [q \in Requests |-> 0]
    /\ rows = [q \in Requests |-> {}]
    /\ cacheAge = RefreshInterval
    /\ rowsAge = [q \in Requests |-> 0]
    /\ deadFor = [s \in Schemas |-> IF s \in live THEN 0 ELSE RefreshInterval]
    /\ liveFor = [s \in Schemas |-> IF s \in live THEN RefreshInterval ELSE 0]
    /\ sawLive = [q \in Requests |-> {}]
    /\ sawDead = [q \in Requests |-> {}]

-----------------------------------------------------------------------------
\* The age of the cached set is never looked at.
StaleUnlessLoaded(force) == force \/ ~loaded

\* force or not self._loaded or (now - self._loaded_at) >= refresh_interval
MustDiscover(force) == force \/ ~loaded \/ loadedAge >= RefreshInterval

\* Membership is not asked of a well-formed id.
FormatOnly(id, tenants) == id \in WellFormed

\* validate_tenant: membership of the bare id or of the id itself, then the
\* layers that look at the id alone.
ValidateTenant(id, tenants) ==
    /\ Bare(id) \in tenants \/ id \in tenants
    /\ id \in WellFormed

Verdict(id, tenants) == IF ValidateTenant(id, tenants) THEN "accepted" ELSE "rejected"

\* What a request has seen when it reads the clock.
BeginHistory(q) ==
    /\ sawLive' = [sawLive EXCEPT ![q] = live]
    /\ sawDead' = [sawDead EXCEPT ![q] = Schemas \ live]

\* resolve with a fresh cache answers without awaiting anything.
ResolveCached(q, id) ==
    /\ pc[q] = "idle"
    /\ ~MustDiscover(FALSE)
    /\ pc' = [pc EXCEPT ![q] = "answered"]
    /\ asked' = [asked EXCEPT ![q] = id]
    /\ answer' = [answer EXCEPT ![q] = Verdict(id, cache)]
    /\ nowAge' = [nowAge EXCEPT ![q] = 0]
    /\ BeginHistory(q)
    /\ UNCHANGED <<deployed, live, resolverVars, rows, cacheAge, rowsAge, deadFor, liveFor>>

\* The cache is stale, or force: the discovery is awaited.
BeginDiscovery(q, id, force) ==
    /\ pc[q] = "idle"
    /\ MustDiscover(force)
    /\ pc' = [pc EXCEPT ![q] = "discovering"]
    /\ asked' = [asked EXCEPT ![q] = id]
    /\ nowAge' = [nowAge EXCEPT ![q] = 0]
    /\ BeginHistory(q)
    /\ UNCHANGED <<deployed, live, resolverVars, answer, rows, cacheAge, rowsAge, deadFor, liveFor>>

\* The database executes SHOW DATABASES LIKE 'tenant%'; the names come without
\* their prefix.  A name that matches only in another case has none to lose.
DatabaseReads(q) ==
    /\ pc[q] = "discovering"
    /\ pc' = [pc EXCEPT ![q] = "read"]
    /\ rows' = [rows EXCEPT ![q] = {Bare(s) : s \in live}]
    /\ rowsAge' = [rowsAge EXCEPT ![q] = 0]
    /\ UNCHANGED <<deployed, live, resolverVars, asked, answer, nowAge, cacheAge, deadFor, liveFor,
                   sawLive, sawDead>>

\* The set is stored under the time at which it arrives.
StampLate(q) ==
    /\ cache' = rows[q] /\ loaded' = TRUE
    /\ loadedAge' = 0

\* The discovery's result is stored but not flagged.
StoreUnflagged(q) ==
    /\ cache' = rows[q] /\ loaded' = loaded
    /\ loadedAge' = nowAge[q]

\* self._cache = ..., self._loaded_at = now, self._loaded = True
Store(q) ==
    /\ cache' = rows[q] /\ loaded' = TRUE
    /\ loadedAge' = nowAge[q]

\* What get_tenants held in its locals is gone.
ForgetLocals(q) ==
    /\ nowAge' = [nowAge EXCEPT ![q] = 0]
    /\ rows' = [rows EXCEPT ![q] = {}]
    /\ rowsAge' = [rowsAge EXCEPT ![q] = 0]

\* The rows arrive: they replace the cache, be it newer or not, and the id is
\* validated against them.
DiscoveryReturns(q) ==
    /\ pc[q] = "read"
    /\ Store(q)
    /\ cacheAge' = rowsAge[q]
    /\ pc' = [pc EXCEPT ![q] = "answered"]
    /\ answer' = [answer EXCEPT ![q] = Verdict(asked[q], rows[q])]
    /\ ForgetLocals(q)
    /\ UNCHANGED <<deployed, live, asked, deadFor, liveFor, sawLive, sawDead>>

\* The discovery raises, before or after the read: resolve raises too, the
\* cache stays as it was.
DiscoveryFails(q) ==
    /\ pc[q] \in {"discovering", "read"}
    /\ pc' = [pc EXCEPT ![q] = "answered"]
    /\ answer' = [answer EXCEPT ![q] = "failed"]
    /\ ForgetLocals(q)
    /\ UNCHANGED <<deployed, live, resolverVars, asked, cacheAge, deadFor, liveFor, sawLive, sawDead>>

\* The answered request is over; the slot takes another one.
Done(q) ==
    /\ pc[q] = "answered"
    /\ pc' = [pc EXCEPT ![q] = "idle"]
    /\ asked' = [asked EXCEPT ![q] = NoId]
    /\ answer' = [answer EXCEPT ![q] = "none"]
    /\ sawLive' = [sawLive EXCEPT ![q] = {}]
    /\ sawDead' = [sawDead EXCEPT ![q] = {}]
    /\ UNCHANGED <<deployed, live, resolverVars, nowAge, rows, cacheAge, rowsAge, deadFor, liveFor>>

\* The requests that are waiting for a discovery.
Waiting == {q \in Requests : pc[q] \in {"discovering", "read"}}

\* A tenant's schema is created.
Provision(s) ==
    /\ s \in deployed \ live
    /\ live' = live \cup {s}
    /\ deadFor' = [deadFor EXCEPT ![s] = 0]
    /\ sawLive' = [q \in Requests |-> IF q \in Waiting THEN sawLive[q] \cup {s} ELSE sawLive[q]]
    /\ UNCHANGED <<deployed, resolverVars, requestVars, cacheAge, rowsAge, liveFor, sawDead>>

\* A tenant's schema is dropped.
Decommission(s) ==
    /\ s \in live
    /\ live' = live \ {s}
    /\ liveFor' = [liveFor EXCEPT ![s] = 0]
    /\ sawDead' = [q \in Requests |-> IF q \in Waiting THEN sawDead[q] \cup {s} ELSE sawDead[q]]
    /\ UNCHANGED <<deployed, resolverVars, requestVars, cacheAge, rowsAge, deadFor, sawLive>>

\* The clock advances.
Tick ==
    /\ loadedAge' = Older(loadedAge)
    /\ nowAge' = [q \in Requests |-> IF q \in Waiting THEN Older(nowAge[q]) ELSE nowAge[q]]
    /\ cacheAge' = Older(cacheAge)
    /\ rowsAge' = [q \in Requests |-> IF pc[q] = "read" THEN Older(rowsAge[q]) ELSE rowsAge[q]]
    /\ deadFor' = [s \in Schemas |-> IF s \in live THEN 0 ELSE Older(deadFor[s])]
    /\ liveFor' = [s \in Schemas |-> IF s \in live THEN Older(liveFor[s]) ELSE 0]
    /\ UNCHANGED <<deployed, live, cache, loaded, pc, asked, answer, rows, sawLive, sawDead>>

RequestStep(q) ==
    \/ \E id \in Names : ResolveCached(q, id) \/ \E force \in BOOLEAN : BeginDiscovery(q, id, force)
    \/ DatabaseReads(q)
    \/ DiscoveryReturns(q)
    \/ DiscoveryFails(q)
    \/ Done(q)

Next ==
    \/ Tick
    \/ \E s \in Schemas : Provision(s) \/ Decommission(s)
    \/ \E q \in Requests : RequestStep(q)

Spec == Init /\ [][Next]_vars

-----------------------------------------------------------------------------
(* Properties *)

\* Every variable has its type, and a set is cached only once one was loaded.
TypeOK ==
    /\ deployed \in Deployments
    /\ live \subseteq deployed
    /\ cache \subseteq Names
    /\ loaded \in BOOLEAN
    /\ ~loaded => cache = {}
    /\ loadedAge \in Ages
    /\ pc \in [Requests -> {"idle", "discovering", "read", "answered"}]
    /\ asked \in [Requests -> Names \cup {NoId}]
    /\ answer \in [Requests -> {"none", "accepted", "rejected", "failed"}]
    /\ nowAge \in [Requests -> Ages]
    /\ rows \in [Requests -> SUBSET Names]
    /\ cacheAge \in Ages
    /\ rowsAge \in [Requests -> Ages]
    /\ deadFor \in [Schemas -> Ages]
    /\ liveFor \in [Schemas -> Ages]
    /\ sawLive \in [Requests -> SUBSET Schemas]
    /\ sawDead \in [Requests -> SUBSET Schemas]

\* The step in which request q gets its answer.
Answers(q) == pc[q] # "answered" /\ pc'[q] = "answered"

\* Schema s was there less than refresh_interval ago, or at some time during
\* request q.
LatelyLive(q, s) == s \in Schemas /\ (deadFor[s] < RefreshInterval \/ s \in sawLive'[q])

\* Schema s was missing less than refresh_interval ago, or at some time during q.
LatelyDead(q, s) == s \in Schemas => (liveFor[s] < RefreshInterval \/ s \in sawDead'[q])

\* Fail-closed, with a bound on staleness: an id is accepted only if the schema
\* that resolve returns for it was there less than refresh_interval ago or at
\* some time during the request, however refreshes overlap and overtake each
\* other.  There are two exceptions, in which the schema need never have been
\* there: the id is itself the bare name of a schema, one with two prefixes
\* ("or tenant_id in tenants"), or a schema has the name of the bare id, its
\* prefix being written in another case.
AcceptedWasLive ==
    [][\A q \in Requests :
         Answers(q) /\ answer'[q] = "accepted" =>
            \/ LatelyLive(q, SchemaOf(asked'[q]))
            \/ asked'[q].prefixes > 0 /\ LatelyLive(q, Prefixed(asked'[q]))
            \/ Bare(asked'[q]).prefixes = 0 /\ LatelyLive(q, Bare(asked'[q]))]_vars

\* A newly provisioned tenant is picked up: a well-formed id is rejected only
\* if its schema was missing less than refresh_interval ago, or at some time
\* during the request.
RejectedWasDead ==
    [][\A q \in Requests :
         Answers(q) /\ answer'[q] = "rejected" /\ asked'[q] \in WellFormed =>
            LatelyDead(q, SchemaOf(asked'[q]))]_vars

\* _loaded_at never makes the cache look newer than the moment the database
\* read it, so a late or overtaken refresh cannot extend its life.
StampIsHonest == loaded => cacheAge <= loadedAge
=============================================================================

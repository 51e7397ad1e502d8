# plugshub-common in TLA+

`plugshub-common` is the library that every service of the fleet is built on: how a service calls
another one, reaches its database, publishes and consumes events, resolves the tenant of a request
and answers over HTTP. This directory models the parts of it that keep state or run concurrently,
checks them with TLC on small instances, and proves its safety properties with TLAPS for every
value of the parameters.

Contents: [inventory](#inventory), [modules](#modules), [runs](#runs), [fairness](#fairness),
[proofs](#proofs), [where documentation and code disagree](#where-documentation-and-code-disagree),
[what is not modelled](#what-is-not-modelled), [plan](#plan), [how to run](#how-to-run).

## Inventory

All of the library is asyncio code: tasks interleave at `await` and nowhere else, so the steps of
every model are the stretches of code between two awaits.

| Component | State it keeps | Operations | Hard behaviour | Correct when |
|---|---|---|---|---|
| Circuit breaker, retry (`resilience.py`) | state, two counters, trip time; per call the attempt number | `state`, `allow`, `record_success`, `record_failure`, `retry_async` | outcomes of calls admitted in one state are recorded in another | the window after a trip is never cut short or prolonged for ever; it trips and closes only on a full run of outcomes; every call ends |
| Service client (`clients.py`) | session, breaker | `start`, `stop`, `request` | stop and restart with requests in flight; a stop that does not come to its end | it behaves as retried calls whatever the session goes through; up means usable |
| Outbox and relay (`messaging.py`) | records and their published flag; a relay's batch | `add`, `list_unpublished`, `mark_published`, `relay_once` | publish fails or the relay dies after the broker took the event; several relays | nothing is lost; first deliveries are in order; all is relayed in the end |
| Idempotent consumer (`messaging.py`) | processed ids, dead-letter queue | `handle` | repeats during the handling of the first delivery; a worker dying in the handler or before the mark; marks that expire | nothing is dropped; an id is marked only after a completed run; repeats are bounded |
| Tenant resolver (`db.py`, `tenant.py`) | cached set, its time stamp | `get_tenants`, `resolve`, `validate_tenant` | overlapping refreshes that finish out of order; two spellings of an id | answers are at most `refresh_interval` stale, in both directions |
| Database pool (`db.py`) | aiomysql pool; per connection socket, socket bound, selected schema | `start`, `stop`, `execute`, `fetch_all`, `fetch_one`; `BoundPool.acquire` | failovers, vanished peers, connects and reconnects, retries of statements that took effect, replies left on the wire | no connection leaks or is shared; no statement in another tenant's schema; no query reads another's reply; queries end |
| HTTP edge (`http_middleware.py`, `service_auth.py`) | RED metrics; per task context variables | two middlewares, two exception handlers | four ways out of a stack of tasks with separate contexts; requests that follow each other in one task | metrics, reports, answers, outgoing calls and audit records agree |
| Error tracking (`observability.py`) | enabled flag | `init_error_tracking`, `capture_exception` | two handlers report; events are nested | each server fault once, no client error, no secret in clear |
| Errors, logging context (`errors.py`, `logging.py`) | context variables | set, clear, read; status per class | see HTTP edge | see HTTP edge |
| Audit trail (`audit.py`) | append-only list | `AuditWriter.record` | background tasks that outlive their request's context | every record under its request's id and tenant |
| Feature flags (`featureflags.py`) | flag tables; a shared store | `set`, `is_enabled` | two reads of a store that changes and fails in between | an answer is a value the flag had, or the default |
| Authorization (`authz.py`) | none | `principal_from_claims`, `require_permission`, `check_object_ownership`, `PermissionChecker` | three claims that fall back on each other; super-grants and tenants | deny by default, both ways |
| Canonical data, configuration, validation, health, pre-auth key, package surface | none | pure functions | none | not modelled |

How they interact: `ServiceClient.request` and every query of `DBPool` run inside `retry_async`, the
first with a breaker shared by all requests of the client, the second without one. The resolver
discovers tenants through `DBPool.fetch_all`. A relay hands the outbox's records to a broker, whose
consumers call `IdempotentConsumer.handle`. The HTTP middlewares bind the request id and tenant that
the client's headers, the log lines, the audit records and the error reports read back. A route is
guarded by a permission check, an ownership check and, before a risky path, a flag lookup.

## Modules

| Module | Models | State and actions |
|---|---|---|
| `CircuitBreaker` | class `CircuitBreaker` | pure state transformers on a record: no method awaits, so its users run them inside their own steps |
| `RetryCalls` | `retry_async` with concurrent callers of one breaker | `breaker`, `calls`; `Refuse`, `Suspend`, `RunThrough`, `Settle`, `CancelBackoff`, `Tick` |
| `ServiceClient` | `ServiceClient`, extends `RetryCalls` | `session`, `lifecycle`, `live`; `Start`, `StopBegin` and `StopEnd` or `StopCutShort` (around the await), `SendRequest`, `SendWithoutSession`, `Reply`, `TransportError`, `CancelRequest` |
| `EventFeed` | abstract: a log that is forwarded in order | `Submit`, `Forward` |
| `Outbox` | `InMemoryOutbox`, `OutboxRelay`; implements `EventFeed` | `records`, `published`, `batch`, `taken`; `Add`, `RelayStart`, `BrokerTakes`, `PublishReturns`, `RelayAborts` |
| `IdempotentConsumer` | `IdempotentConsumer` and its two stores | `handling`, `processed`, `dlq`; `Skip`, `StartHandler`, `HandlerReturns`, `MarkFails`, `HandlerRaises`, `Interrupt`, `Expire` (the retention window) |
| `EventPipeline` | composes `Outbox`, a broker and `IdempotentConsumer` | `queue` (copies not acknowledged); `Produce`, `Relay`, `Deliver`, `FinishHandling`, `InterruptHandling`, `ForgetEvent` |
| `TenantResolver` | `TenantResolver`, `validate_tenant` | `cache`, `loaded`, `loadedAge`, per request the clock reading and the rows; `ResolveCached`, `BeginDiscovery`, `DatabaseReads`, `DiscoveryReturns`, `DiscoveryFails`, and the schemas that come and go; names with prefixes, and their conversion (`Bare`, `SchemaOf`) |
| `DBPool` | `DBPool` and users of `BoundPool` (bare calls) over aiomysql and a server that fails over | `pool`, `slot`, `socket`, `bound`, `current`, `unread` (replies on the wire), per query `pc`, `conn`, `attempt`; one action per await of `execute`, that of `acquire` split into opening a connection and its handshake |
| `Masking` | `mask_mapping` | operators on the paths of a nested value |
| `HttpEdge` | both middlewares, both exception handlers, error tracking, RED metrics, request context, audit records | `guarded` (service auth is installed), `task` (which of the server's tasks serves a request), a context per task (`outer`, `handler`), `stateId`, `response`, `metrics`, `reports`, `acts` (internal calls and audit records); one action per stretch of the stack |
| `Authorization` | the decisions of `authz.py` | operators: they keep no state and do not await |
| `FeatureFlags` | the three flag providers | `flags`, per lookup its arguments, the key it reads next and its answer; `SetFlag`, `AskLocal`, `AskRedis`, `ReadScoped`, `ReadGlobal`, `StoreFails` |
| `GuardedRoutes` | composes `Authorization` and `FeatureFlags` into routes | `call`, `pc`, `error`; `CheckPermission`, `CheckOwnership`, `Consult`, `Proceed` |
| `RetryCallsProofs`, `ServiceClientProofs`, `OutboxProofs`, `EventPipelineProofs`, `TenantResolverProofs`, `DBPoolProofs`, `HttpEdgeProofs`, `GuardedRoutesProofs` | theorems | those of a composed module extend those of its parts |
| `MC*` | instances for TLC | |

`PROJECT.json` maps each definition to the lines it models.

Abstractions worth knowing:

* Clock readings are ages, saturated at the only value the code compares a difference with
  (`recovery_timeout`, `refresh_interval`). `_failures` is saturated at `failure_threshold` for the
  same reason. Both keep the state spaces finite without a bound.
* A backoff delay is any delay: full jitter draws it from 0 upwards.
* An outbox record is its position in the store. Envelopes are model values; `NoId` is an
  envelope without `event_id`.
* aiomysql, the server, the kernel, aiohttp, the broker and Starlette are external and modelled by
  what the library meets: each module's header says how. In particular `ping(reconnect=True)` on a
  dead connection opens a new socket; a child task works on a copy of its parent's context; the
  server may serve several requests in one task, one after another; a broker keeps what is not
  acknowledged and may deliver it again at any time.
* The reply to a query that was cancelled stays unread on its connection, unless the driver closes
  it; the next command on that connection reads it. The ping takes it for its own or reconnects; USE
  and the statement take it for a success (so that the server's refusal of USE goes unnoticed, or a
  statement returns before it is executed) or fail with it. Which of these aiomysql does is left open.
* A tenant id and a schema name are a base with a number of `tenant` prefixes. The layers of
  `validate_tenant` that look at the text alone (pattern, length, keywords) are the set `WellFormed`.
* A call or a record either has an id or a tenant from its caller (`Given`) or from the context; about
  a part that is given, `HttpEdge` claims nothing.
* A nested value is the set of paths to its leaves; an item of a list is a step of its own. Claims are
  lists or texts of permissions, and identifiers are strings or ints with the same text, because
  `str()` and truthiness decide in `authz.py`.
* Lifecycle calls (`start`, `stop`) come from the framework one at a time.

Each module also defines, next to the definition it belongs to, a few faulty variants (a dropped
guard, an off-by-one, a missing mark), named and commented as such. They are used by no action: they
document which mistake each property is sensitive to (`PROJECT.json`, "mutants"), and TLC finds the
property violated when one of them takes the place of the definition.

## Runs

| Run | Instance | Shows |
|---|---|---|
| `retry_calls` | 3 calls, 2 attempts, thresholds 2/2, window of 2 ticks; 43,491 states | a late success does not end the window (`OpenDuringWindow`); interleaved outcomes are counted right (`ClosedMeansNoStreak`, `TransitionsOnEvidence`); retries of an admitted call are refused too (`NoAttemptInWindow`); late failures cannot hold the window open for ever (`WindowEnds`); calls end (`CallsEnd`) |
| `service_client` | 2 requests, start/stop/restart, stops that end or are cut short, both values of `trip_on_5xx`; 17,014 states | the client implements `RetryCalls` with its fairness (`ImplementsRetryCalls`); a started client has an open session unless its last stop was cut short (`UpMeansOpen`) |
| `outbox` | 2 relays, 4 records of 2 envelopes, batches of 2, 2 failed passes; 25,937 states | `PublishedWasSent`, `FirstSendInOrder`, refinement of `EventFeed` with liveness (`ImplementsFeed`), `AllPublished` |
| `event_pipeline` | 1 relay, 2 records, 2 workers, an envelope with and one without id, 1 failed pass, 2 calls of `handle` that fail or crash anywhere, 1 mark that expires; 115,621 states | `NeverDropped`, `ProcessedWasHandled`, `RepeatsBounded`, `EventuallyResolved` |
| `tenant_resolver` | 2 requests, interval of 2 ticks; a deployment with a schema of one prefix, of two, or of none (another case); 6 names as ids; 1,282,734 states | staleness bounds `AcceptedWasLive`, `RejectedWasDead`; `StampIsHonest` |
| `db_pool` | 2 queries (7 pairs of two tenants, one tenant, no schema, and `BoundPool` users), 1 connection, 2 attempts, 2 failovers, stops that end or are cut short; 871,015 states | `HeldByOne`, `RunsInOwnSchema`, `AppliedPerAttempt`, `QueriesEnd`, `StopEnds`; the bound on vanished peers leaves no reply for another query to read (`OwnReplies`) |
| `http_edge` | 2 requests of 2 tenants with every combination of headers, credential and path, in 2 tasks or one after the other in the same, with and without service auth, a 4xx and a 5xx error class; 4,426,307 states | `MetricsAgree` (in all and per path), `FaultsReportedOnce`, `AnsweredUnderOwnId`; calls and audit records, background tasks' too, carry their request's ids (`ActsCorrelated`) |
| `guarded_routes` | 1 call with each of 81 tokens and 12 resources, 1 tenant's flag and the global one, all three providers; 248,816 states | who gets past the checks is exactly who has the authority (`DenyByDefault`); a lookup answers with a value that the flag had (`AnswerWasEffective`) |

Why the bounds are enough to meet the interesting cases:

* Three calls: one trips the breaker while two others, admitted before, are still running; one of
  them may then succeed and the other fail in state open. Two attempts: a first and a last one.
* Two relays and batches of two out of four records: overlapping batches, a relay that starts while
  another is in the middle, and records beyond both batches. Two aborts: either relay, or one twice.
* Two workers on one event are enough for a repeat to overtake the mark. `RepeatsBounded` allows one
  run per worker, as many again for every mark that expired, and one per completed run without a
  mark: with two interruptions and one expiry each of the three occurs, alone and together. One relay
  is enough: its failed pass sends an event twice, and two relays are the `outbox` run's business.
* Two resolver requests overlap in every order. An answer depends on the schemas whose bare name is
  the id or the bare id and on no other, so one schema at a time is enough, in each of its spellings.
* One connection makes the two queries compete for it, which is where a leak or a leftover schema
  shows. Two failovers: one to kill the connection that a ping then reconnects, one to take the new
  one down.
* A call names a schema or none, or is a bare one. The seven pairs are all pairs of these up to
  exchanging the queries or the schemas.
* A call of `guarded_routes` shares nothing with another but the flag, which operators change at any
  time, so one call is enough. Its tokens are one
  caller with 72 combinations of tenant and grants, and eight ways to name a caller with one grant.
  Left out are `permissions` that are an empty text, `scopes` that are a text, a `scope` of blanks
  only, and resources whose `owner_id` is None. Resources are in no tenant, in the caller's and in
  another one.
* Two requests with the same given id, with a given and a generated one, or with two generated ones,
  of one tenant, two, or none; in two tasks at the same time, or one after the other in one task.

`CHECK_DEADLOCK FALSE` stands where the system may come to rest: all records published and all
events resolved (`outbox`, `event_pipeline`), all queries ended (`db_pool`), the call ended and the
environment's flags fixed (`guarded_routes`). Symmetry is used in `tenant_resolver` and with
`HttpEdge`, whose properties are invariants; never with a liveness property.

Bounds that only TLC needs are constants with a guard of their own: `MaxRecords`, `MaxAborts`,
`MaxInterrupts`, `MaxExpiries`, `MaxFailovers`, `MaxActs`; `MaxPrefixes` bounds the names. The proofs
hold for every value of them.

## Fairness

* `RetryCalls`: the awaited function returns (the client's session has a total timeout), the event
  loop wakes sleeping tasks, the clock advances. No fairness on starting calls.
* `ServiceClient`: the same, and `session.close()` returns or raises. The run shows that this is
  enough for the fairness of `RetryCalls`.
* `Outbox`: weak fairness of each relay, which "calls `relay_once` on a loop". Failures are finite
  in number; with a publish that always fails nothing can be promised.
* `EventPipeline`: the relays, the broker's delivery of each record, and handlers that return or
  raise. Calls of `handle` that do neither are finite in number (`MaxInterrupts`).
* `DBPool`: the standby is promoted, the driver's awaits return when they can, sleeping queries
  wake. A query on a silent socket is not assumed to return: that is the kernel's step, enabled only
  on sockets with `TCP_USER_TIMEOUT`. `create_pool` is not assumed to return either, since it opens
  connections on sockets that nobody has bound.
* `TenantResolver`, `HttpEdge` and `GuardedRoutes` have safety properties only.

## Proofs

Every invariant and action property that a passing run checks is also proved, for arbitrary
parameters. The assumptions on constants are named and TLC evaluates them in the runs:

* `ThresholdAssumption`, `AttemptsAssumption`, `OutboxAssumption`, `IntervalAssumption`,
  `PoolAssumption`: thresholds, limits and intervals are positive, bounds are naturals.
* `NamesAssumption`: schemas are names, and a deployment has schemas.
* `PipelineAssumption`, `EdgeAssumption`: there are finitely many workers and requests, which is what
  it takes to count them; error classes are those of `errors.py`.
* `FlagAssumption`, `RoutesAssumption`: tokens are verified claims; the value that stands for "not
  there" is distinct from what may be there; no route asks for a permission whose name is a text
  of several permissions, such as `"a b"`.

`RetryCallsProofs` proves `TypeOK`, `OpenDuringWindow`, `ClosedMeansNoStreak`, `NoAttemptInWindow`
and `TransitionsOnEvidence`. None but the first is inductive alone. The inductive invariant `IInv`
adds: a breaker whose window runs is open; in state closed the failure counter is the failure streak
and below the threshold; in state half_open the success counter is at most the success streak and
below its threshold; a call in backoff has an attempt left. The core are two lemmas about the
breaker alone: reading the state (`ReadStateSound`) and recording any outcome in any state
(`RecordedSound`) preserve that relation. Each action of `RetryCalls` is then a composition of the
two.

`OutboxProofs` proves `OutboxTypeOK`, `PublishedWasSent`, `FirstSendInOrder` and that the outbox
implements the safety part of `EventFeed`. Order is the hard one: that a record arrives in its turn
depends on what other relays have done. The strengthening (`BatchesReachBack`) says that every
record older than one in a batch has either been sent or is in that same batch, so the record a
relay is publishing is either a repeat or exactly the next one. It is established by
`list_unpublished` taking the *oldest* records (`ListedReachesBack`) and kept by `relay_once`
walking the batch in order and giving it up on a failure.

`TenantResolverProofs` proves `TypeOK`, `StampIsHonest`, `AcceptedWasLive` and `RejectedWasDead`. The
invariant `TInv` relates the cached names and the rows of every discovery under way to the history of
the schemas: a name in a set read some time ago was the bare name of a schema then, so that schema
has been gone for no longer than the set is old, and conversely (`CacheTrue`, `RowsTrue`). What is
left is what each of the two membership tests of `validate_tenant` says about the schema that
`resolve` returns. Overlapping refreshes need no exclusion, because a stored
set is stamped with a time before its read.

`ServiceClientProofs` proves the safety half of `ImplementsRetryCalls`: every step of the client is a
step of `RetryCalls` or leaves its variables alone. All theorems about `RetryCalls` carry over
(`ClientInheritsSafety`). On top come `ClientTypeOK` and `UpMeansOpen`. `UpMeansOpen` is
not inductive: `start` creates a session only if there is none, so a restart relies on what the last
`stop` left behind, a closed session exactly when it was cut short (`SessionMatches`).

`EventPipelineProofs` proves in the same way that the composed pipeline implements the outbox, and
builds on the outbox's invariant: `PipelineTypeOK`, `NeverDropped`, `ProcessedWasHandled`,
`RepeatsBounded`. `NeverDropped` speaks of published records and is not inductive; preserved is the
same of every record that the broker has taken (`OwedOrResolved`), because a relay may die between
the two. The bound on repeats must count the runs that are still to end: those that were let through
before the event was marked. Forgiven are the runs that went unmarked, and one per worker for every
expired mark. Finished and running handlers of an event together fit the workers and what is forgiven,
and an event that is not marked has finished no more runs than are forgiven (`RunsFitWorkers`).

`DBPoolProofs` proves `TypeOK`, `HeldByOne`, `RunsInOwnSchema`, `AppliedPerAttempt` and `OwnReplies`.
Everything rests on `HeldByOne`: a query that selects a schema or reads a reply disturbs no other,
since nobody else holds its connection. Each of the many actions has one of a few shapes as far as
connections go (take one, give one back, keep it, have none), and `HeldByOne` is preserved by the
shapes. Strengthenings: a query in backoff has an attempt left; an attempt that has not reached the
server is not counted as applied (`AttemptNotYetApplied`); a reply is left on the wire only by a
cancelled query (`UnreadByCancel`). `RunsInOwnSchema` and `AppliedPerAttempt` except the connections
that carry such a reply and the queries that took it for their own.

`HttpEdgeProofs` proves `TypeOK`, `MetricsAgree`, `FaultsReportedOnce`, `AnsweredUnderOwnId` and
`ActsCorrelated` for any number of requests. The invariant `EInv` says for each place in the stack
what has happened to the request's ids, its error and its answer (`Placed`) and to its reports
(`Signalled`). A step of a request changes nothing of another (`OthersStay`); shared are the metrics
and the contexts of tasks. Each way out of the middleware adds the request to the counts exactly when
it adds it to the sets they count (`RecordAgrees`). `ActsCorrelated` across requests needs that a task
serves one request at a time (`OneAtATime`), what a task's context holds between requests and during
one (`TaskContexts`: nothing of a finished request, unless service auth has bound it), and that a
handler's task has its tenant from its request or from such a leftover (`HandlerTenants`).

`GuardedRoutesProofs` proves `TypeOK`, `DenyByDefault` and `AnswerWasEffective`. Lemmas say when the
decisions of `authz.py` grant, in terms of the token alone: which name a principal gets
(`PrincipalHasName`), which permissions (`PermissionFromToken`), and when the permission and the
ownership check let a call through (`PermissionDecision`, `OwnershipDecision`). Between the two checks
a call has passed the first (`Permitted`). For the flags the invariant is about lookups under way:
what a lookup would return now has been the flag's value at some moment of it, unless it was
overtaken (`Pending`).

Each inductive invariant was first checked with TLC on the instance of its run.

Only model-checked: the liveness properties (`WindowEnds`, `CallsEnd`, `AllPublished`,
`EventuallyResolved`, `QueriesEnd`, `StopEnds`) and the liveness half of `ImplementsFeed` and
`ImplementsRetryCalls`, since fairness and `ENABLED` are out of the prover's reach. The runs of the
next section are counterexamples, which only TLC finds.

## Where documentation and code disagree

Each is a run that is expected to be violated; the property states the sentence quoted.

* `repeated_event`. `messaging.py:182`: the consumer "skips events whose `event_id` was already
  processed (at-least-once delivery is safe)". A repeat that is delivered while the first is being
  handled runs the handler again. `RepeatsBounded` is what holds.
* `db_reconnect`. `db.py:24-25` says that `tcp_user_timeout` "closes that hole at the kernel", and
  `db.py:276-277` that a failed ping discards the connection. `ping(reconnect=True)` repairs it in
  place, with a socket that was never bound; the query then waits on it without bound until the
  connection is next acquired. `QueriesEnd` and `StopEnds` except queries that hang on a socket that
  is not bound (`Hung`): this one, and one that `acquire` is still opening (next list).
* `untagged_report`. `observability.py:69-70`: events are tagged "so a reported fault is traceable
  back to its request". The handler of unhandled exceptions runs outside the middleware that
  generates and binds the id, so its reports have no tag, unless the service-auth middleware is
  installed and the caller sent an id, or an earlier request of the same task did and left its own.
* `unmasked_report`. `observability.py:68-69`: the hook "recursively masks known-sensitive keys ...
  across the whole event". `mask_mapping` descends into mappings only, so what stands in a list, such
  as the variables of stack frames, is sent in clear.

Behaviours without a run of their own that a maintainer may want to know:

* In state half_open `allow()` admits every caller, where `resilience.py:12` speaks of "a limited
  number of trial calls". No number is given, so there is no bound to check.
* The 401 of the service-auth middleware has no `X-Request-ID` header, where `http_middleware.py:6`
  promises one "on every response"; with the repository's wiring no middleware adds it
  (`ServiceAuth`). `AnsweredUnderOwnId` says which answers have it.
* A flag lookup may answer with a value that the flag never had for its tenant, when the tenant gets
  a key between the two reads and the global value changes after that. `AnswerWasEffective` names this
  as its only exception.
* A request on a client that was not started, or whose session is closed, counts against the
  dependency's breaker, which can open without one request having been sent (`SendWithoutSession`).
* A `ServiceClient.stop()` whose `close()` raises, or that is cancelled there, leaves the closed session
  in `_session`: the client that is started next is up and every request fails, until a `stop()` comes
  to its end. `DBPool.stop()` that is cancelled in `wait_closed()` leaves the closed pool in the same
  way (`StopCutShort` in both modules).
* `pool.acquire()` connects and shakes hands on a socket that is bound only afterwards, and `create_pool`
  is given no `connect_timeout`: a peer that falls silent there holds the query, everyone who waits for
  the pool, and `stop()`, without bound (`Hung`).
* An id may be accepted although the schema that `resolve` returns for it never existed: when it is the
  bare name of a schema with two prefixes, or when a schema of the bare id's own name is discovered,
  as `SHOW DATABASES LIKE` may match a prefix in another case (`AcceptedWasLive` names both).
* The service-auth middleware binds a tenant and does not clear it. Where the server serves several
  requests in one task, a later request without a tenant of its own works under that one
  (`ActsCorrelated` names this as its only exception).
* A completed handler whose mark fails runs again, and a redelivery of an event that is already in the
  dead-letter queue runs it again as well, since only a run that returned is marked.
* A statement whose reply is lost is executed again by the retry, also if it writes
  (`AppliedPerAttempt` gives the bound); and a call without a schema runs in the one that the last
  user of the connection selected.
* A caller that cancels a query (a `wait_for` of its own, a disconnected client) can leave its reply to
  the next one: `OwnReplies` holds as long as no caller does. On such a connection USE can be refused
  unnoticed, and the statement then runs in the schema that was selected before.

## What is not modelled

* Payload: SQL, headers other than the three ids, bodies, codes and messages of errors.
* The inside of aiomysql: which errors it raises when is taken from how `db.py` classifies them; a
  waiter in `acquire` on a pool that is closed meanwhile is refused; what a command makes of another's
  reply is left open, and such a reply stays on the wire until the connection is reopened or dropped.
* Streaming responses that fail after their first byte, and stacks wired in another order than the
  README's.
* Concurrent `start()` calls.
* The JSON log formatter and `configure_logging`: output.
* `Money` and the time functions (`canonical.py`): frozen values and integer arithmetic. One remark:
  `Money.from_dict` converts with `int()`, so a fractional amount on the wire is truncated, where
  `canonical.py:74` says that "no binary floats ever touch the value".
* Configuration, validation, health, the pre-auth key and the package surface: stateless functions that
  run once or on one request; a model would restate them.

## Plan

Done: every part that keeps state or makes a decision several steps depend on is modelled and
checked, and its safety properties are proved.

Next, proofs of statements that no run can make, as they quantify over parameters:

1. `Authorization`: more grants never take a permission away; no grant crosses a tenant.
2. `Masking`: masking is idempotent and changes no key that is not sensitive.
3. `RetryCalls`: the number of attempts of a call against the failures it records, as a step towards a
   bound on the load that one request can put on a dependency.
4. `OutboxProofs`: an action property of the store, that records are never reordered or unpublished.

## How to run

    tlc -workers 2 -config RetryCalls.cfg MCRetryCalls
    tlapm RetryCallsProofs.tla

and so on for the pairs of module and configuration that `PROJECT.json` lists under "runs", and the
eight `*Proofs` modules.

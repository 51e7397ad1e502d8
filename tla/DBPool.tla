------------------------------- MODULE DBPool -------------------------------
(***************************************************************************)
(* DBPool (db.py): queries that share a bounded connection pool, through    *)
(* database failovers.  A query runs retry_async without a breaker; each    *)
(* attempt acquires a connection, bounds its socket, pings it, switches     *)
(* schema and executes.  execute, fetch_all and fetch_one differ only in    *)
(* what they read from the cursor.  A bare call is one that a service makes *)
(* itself, on a connection acquired through BoundPool: the same bound on    *)
(* the socket, and neither ping, schema switch nor retry.                   *)
(*                                                                         *)
(* aiomysql and the server are external, modelled by what db.py meets: a    *)
(* pool of at most MaxSize connections, opened one at a time as they are    *)
(* needed; ping(reconnect=True) opens a new socket in place of a dead one,  *)
(* once; a socket whose peer is gone either errors ("dead") or keeps its    *)
(* caller waiting ("silent") until the kernel aborts it, which it does in   *)
(* bounded time only for a socket with TCP_USER_TIMEOUT set, and db.py sets *)
(* no connect_timeout.  A command reads the next reply on the wire: on a    *)
(* connection that was given back with a reply unread, that is not its own, *)
(* and whether the command takes it for a success is left open.             *)
(***************************************************************************)
EXTENDS Naturals, FiniteSets

CONSTANTS
    Queries,            \* the query calls, each made once
    Conns,              \* connection slots of the pool; maxsize is their number
    Schemas,            \* tenant schemas
    Default,            \* the schema of a new connection (DBConfig.db)
    NoConn,             \* what a query without a connection holds
    Calls,              \* what the queries may be: per query its schema, and
                        \* whether it is a bare call
    MaxAttempts,        \* the retry policy's max_attempts
    PingBeforeUse,      \* DBConfig.ping_before_use
    MaxFailovers        \* bound: failovers

ASSUME PoolAssumption ==
    /\ MaxAttempts \in Nat \ {0}
    /\ MaxFailovers \in Nat
    /\ PingBeforeUse \in BOOLEAN
    /\ NoConn \notin Conns
    /\ Default \notin Schemas
    /\ Calls \subseteq [Queries -> [schema : Schemas \cup {Default}, bare : BOOLEAN]]
    /\ \A call \in Calls : \A q \in Queries : call[q].bare => call[q].schema = Default

VARIABLES
    pool,           \* self._pool: none, creating, open, closing (stop awaits
                    \* wait_closed), left (closed, by a stop that was cut short)
    slot,           \* per connection: absent, free, used
    socket,         \* per connection: alive, dead, silent
    bound,          \* the connections whose socket has TCP_USER_TIMEOUT
    current,        \* per connection: the schema its session is in
    unread,         \* the connections with the reply to an earlier command on the wire
    pc,             \* per query: where it is
    schema,         \* per query: its schema argument (Default: none given)
    bare,           \* the queries that are bare calls through BoundPool
    conn,           \* per query: the connection it holds
    attempt,        \* per query: its attempt number
    orphaned,       \* the queries whose pool, taken when they began, was closed
    applied,        \* history: per query, how often the server executed it
    misled,         \* history: the queries that returned another command's reply
    serverUp,       \* the database accepts connections
    failovers       \* failovers so far

connVars == <<slot, socket, bound, current, unread>>
callVars == <<schema, bare>>
queryVars == <<pc, callVars, conn, attempt, orphaned, applied, misled>>
serverVars == <<serverUp, failovers>>
vars == <<pool, connVars, queryVars, serverVars>>

\* returned: a result; raised: the last transient error; rejected: an error
\* that is not retried; unavailable: DependencyUnavailableError, no pool;
\* cancelled: the caller's task was cancelled.
Ended == {"returned", "raised", "rejected", "unavailable", "cancelled"}

\* Awaiting the server: the connect and handshake of a new connection, the ping,
\* USE, the statement before and after it took effect.
OnSocket == {"connect", "ping", "use", "exec", "reply"}

Init ==
    /\ pool = "none"
    /\ slot = [c \in Conns |-> "absent"]
    /\ socket = [c \in Conns |-> "dead"]
    /\ bound = {}
    /\ current = [c \in Conns |-> Default]
    /\ unread = {}
    /\ pc = [q \in Queries |-> "idle"]
    /\ \E call \in Calls : /\ schema = [q \in Queries |-> call[q].schema]
                           /\ bare = {q \in Queries : call[q].bare}
    /\ conn = [q \in Queries |-> NoConn]
    /\ attempt = [q \in Queries |-> 0]
    /\ orphaned = {}
    /\ applied = [q \in Queries |-> 0]
    /\ misled = {}
    /\ serverUp = TRUE
    /\ failovers = 0

-----------------------------------------------------------------------------
(* Lifecycle, one call at a time *)

\* start(): create_pool is awaited; queries do not see a pool yet.
StartBegin ==
    /\ pool = "none"
    /\ pool' = "creating"
    /\ UNCHANGED <<connVars, queryVars, serverVars>>

\* create_pool returns, which it can only with the database up, or raises.
StartEnd ==
    /\ pool = "creating"
    /\ pool' = "none" \/ (serverUp /\ pool' = "open")
    /\ UNCHANGED <<connVars, queryVars, serverVars>>

\* The pool that queries find is closed.
PoolClosed == pool \in {"closing", "left"}

\* stop(): close() and the await of wait_closed().
StopBegin ==
    /\ pool \in {"open", "left"}
    /\ pool' = "closing"
    /\ slot' = [c \in Conns |-> IF slot[c] = "free" THEN "absent" ELSE slot[c]]
    /\ orphaned' = orphaned \cup {q \in Queries : pc[q] # "idle"}
    /\ UNCHANGED <<socket, bound, current, unread, pc, callVars, conn, attempt, applied, misled, serverVars>>

\* stop() does not wait for the connections in use.
StopAtOnce ==
    /\ pool = "closing"
    /\ pool' = "none"
    /\ slot' = [c \in Conns |-> "absent"]
    /\ UNCHANGED <<socket, bound, current, unread, queryVars, serverVars>>

\* wait_closed returns when no connection is in use.
StopEnd ==
    /\ pool = "closing"
    /\ \A c \in Conns : slot[c] # "used"
    /\ pool' = "none"
    /\ UNCHANGED <<connVars, queryVars, serverVars>>

\* The task that runs stop() is cancelled while it waits: the closed pool stays
\* in self._pool, where start() takes it for one that is open.
StopCutShort ==
    /\ pool = "closing"
    /\ pool' = "left"
    /\ UNCHANGED <<connVars, queryVars, serverVars>>

\* The pool drops a free connection: it is older than pool_recycle, or its end
\* of stream was seen.
Recycle(c) ==
    /\ pool = "open"
    /\ slot[c] = "free"
    /\ slot' = [slot EXCEPT ![c] = "absent"]
    /\ UNCHANGED <<pool, socket, bound, current, unread, queryVars, serverVars>>

-----------------------------------------------------------------------------
(* The server and the network *)

\* The database fails over: every connection dies, seen by the client (a reset)
\* or not (its peer is gone and nothing arrives any more).
Failover(seen) ==
    /\ serverUp
    /\ failovers < MaxFailovers
    /\ serverUp' = FALSE
    /\ failovers' = failovers + 1
    /\ socket' = [c \in Conns |-> IF socket[c] = "alive" THEN seen ELSE socket[c]]
    /\ UNCHANGED <<pool, slot, bound, current, unread, queryVars>>

\* The standby is promoted.
Promote ==
    /\ ~serverUp
    /\ serverUp' = TRUE
    /\ UNCHANGED <<pool, connVars, queryVars, failovers>>

-----------------------------------------------------------------------------
(* A query *)

Goto(q, where) == pc' = [pc EXCEPT ![q] = where]

\* _require_pool: a query without a pool fails at once.
Begin(q) ==
    /\ pc[q] = "idle"
    /\ Goto(q, IF pool = "open" \/ PoolClosed THEN "acquire" ELSE "unavailable")
    /\ attempt' = [attempt EXCEPT ![q] = 1]
    /\ orphaned' = IF PoolClosed THEN orphaned \cup {q} ELSE orphaned
    /\ UNCHANGED <<pool, connVars, callVars, conn, applied, misled, serverVars>>

\* The retry takes the schema for already selected.
UseOnlyOnce(q) == IF schema[q] = Default \/ attempt[q] > 1 THEN "exec" ELSE "use"

\* Where an attempt goes once its connection is known to be good: USE, unless
\* the call has no schema.
AfterPing(q) == IF schema[q] = Default THEN "exec" ELSE "use"

\* pool.acquire() yields connection c and its socket is bound, before any ping.
Acquired(q, c) ==
    /\ bound' = bound \cup {c}
    /\ Goto(q, IF PingBeforeUse /\ q \notin bare THEN "ping" ELSE AfterPing(q))

\* The query is let into the pool: it is not closed, and no other query is
\* opening a connection, which keeps the pool locked.
Admitted(q) ==
    /\ pc[q] = "acquire" /\ q \notin orphaned
    /\ \A p \in Queries : pc[p] # "connect"

\* The query takes connection slot c.
Take(q, c) ==
    /\ slot' = [slot EXCEPT ![c] = "used"]
    /\ conn' = [conn EXCEPT ![q] = c]

\* A free connection, whatever state its socket and session are in.
AcquireFree(q, c) ==
    /\ Admitted(q)
    /\ slot[c] = "free"
    /\ Take(q, c)
    /\ Acquired(q, c)
    /\ UNCHANGED <<pool, socket, current, unread, callVars, attempt, orphaned, applied, misled, serverVars>>

\* While there are fewer than maxsize, acquire opens a connection, which fails
\* when the database is down; the new socket is not bound yet.
OpenConnection(q, c) ==
    /\ Admitted(q)
    /\ slot[c] = "absent"
    /\ Take(q, c)
    /\ Goto(q, "connect")
    /\ socket' = [socket EXCEPT ![c] = IF serverUp THEN "alive" ELSE "dead"]
    /\ bound' = bound \ {c}
    /\ current' = [current EXCEPT ![c] = Default]
    /\ unread' = unread \ {c}
    /\ UNCHANGED <<pool, callVars, attempt, orphaned, applied, misled, serverVars>>

\* The handshake is done and acquire returns.
ConnectReturns(q) ==
    /\ pc[q] = "connect" /\ socket[conn[q]] = "alive"
    /\ Acquired(q, conn[q])
    /\ UNCHANGED <<pool, slot, socket, current, unread, callVars, conn, attempt, orphaned, applied, misled, serverVars>>

\* The connection is not given back.
Leaks(q) ==
    /\ conn' = [conn EXCEPT ![q] = NoConn]
    /\ slot' = slot

\* Leaving "async with pool.acquire()": the connection goes back to the pool,
\* or is dropped when it was never opened, the driver has closed it or the pool
\* is closed.
Release(q) ==
    /\ conn' = [conn EXCEPT ![q] = NoConn]
    /\ slot' \in {[slot EXCEPT ![conn[q]] = s] :
                    s \in IF PoolClosed \/ pc[q] = "connect" THEN {"absent"}
                          ELSE {"free", "absent"}}

\* The last-attempt test is > instead of >=.
TriesOnceMore(q) == IF q \in bare \/ attempt[q] > MaxAttempts THEN "raised" ELSE "backoff"

\* A transient error: retry_async backs off, or raises after the last attempt;
\* nobody retries a bare call.
AfterTransient(q) == IF q \in bare \/ attempt[q] >= MaxAttempts THEN "raised" ELSE "backoff"

\* The query's pool was closed since the call began: RuntimeError, which is not
\* transient, even when start() has made another pool by now.
AcquireClosed(q) ==
    /\ pc[q] = "acquire" /\ q \in orphaned
    /\ Goto(q, "rejected")
    /\ UNCHANGED <<pool, connVars, callVars, conn, attempt, orphaned, applied, misled, serverVars>>

\* The ping is answered.
PingOk(q) ==
    /\ pc[q] = "ping" /\ socket[conn[q]] = "alive"
    /\ Goto(q, AfterPing(q))
    /\ UNCHANGED <<pool, connVars, callVars, conn, attempt, orphaned, applied, misled, serverVars>>

\* The ping finds the socket dead, or reads a reply that is not to a ping, and
\* reconnects: a new socket, without TCP_USER_TIMEOUT, and a new session in the
\* default schema.  The ping is then repeated, and reconnects no more.
PingReconnects(q) ==
    /\ pc[q] = "ping" /\ serverUp
    /\ conn[q] \in bound
    /\ socket[conn[q]] = "dead" \/ (socket[conn[q]] = "alive" /\ conn[q] \in unread)
    /\ socket' = [socket EXCEPT ![conn[q]] = "alive"]
    /\ bound' = bound \ {conn[q]}
    /\ current' = [current EXCEPT ![conn[q]] = Default]
    /\ unread' = unread \ {conn[q]}
    /\ UNCHANGED <<pool, slot, queryVars, serverVars>>

\* USE `schema`: it stays selected when the connection returns to the pool.  The
\* server's refusal goes unnoticed when the reply is to another command.
UseSchema(q) ==
    /\ pc[q] = "use" /\ socket[conn[q]] = "alive"
    /\ \/ current' = [current EXCEPT ![conn[q]] = schema[q]]
       \/ conn[q] \in unread /\ current' = current
    /\ Goto(q, "exec")
    /\ UNCHANGED <<pool, slot, socket, bound, unread, callVars, conn, attempt, orphaned, applied, misled, serverVars>>

\* The server executes the statement; its reply is on the way (autocommit).
ServerApplies(q) ==
    /\ pc[q] = "exec" /\ socket[conn[q]] = "alive"
    /\ applied' = [applied EXCEPT ![q] = @ + 1]
    /\ Goto(q, "reply")
    /\ UNCHANGED <<pool, connVars, callVars, conn, attempt, orphaned, misled, serverVars>>

\* The statement has its reply: its own, or the one left unread, which need not
\* wait for the server to execute it.
HasReply(q) == pc[q] = "reply" \/ (pc[q] = "exec" /\ conn[q] \in unread)

\* A reply arrives and the query returns it as its result.
QueryReturns(q) ==
    /\ HasReply(q) /\ socket[conn[q]] = "alive"
    /\ Release(q)
    /\ Goto(q, "returned")
    /\ misled' = IF conn[q] \in unread THEN misled \cup {q} ELSE misled
    /\ UNCHANGED <<pool, socket, bound, current, unread, callVars, attempt, orphaned, applied, serverVars>>

\* The server refuses the statement, or a command reads another's reply.
Refusable(q) == pc[q] = "exec" \/ (pc[q] \in {"use", "reply"} /\ conn[q] \in unread)

\* A refusal (syntax, constraint) or a reply that makes no sense: not transient.
QueryRejected(q) ==
    /\ Refusable(q) /\ socket[conn[q]] = "alive"
    /\ Release(q)
    /\ Goto(q, "rejected")
    /\ UNCHANGED <<pool, socket, bound, current, unread, callVars, attempt, orphaned, applied, misled, serverVars>>

\* A refusal of USE or the statement with an OperationalError (an unknown
\* schema, a lock timeout): retried, although the connection is good.
TransientRefusal(q) ==
    /\ pc[q] = "use" \/ Refusable(q)
    /\ socket[conn[q]] = "alive"
    /\ Release(q)
    /\ Goto(q, AfterTransient(q))
    /\ UNCHANGED <<pool, socket, bound, current, unread, callVars, attempt, orphaned, applied, misled, serverVars>>

\* The connection cannot be opened, or its socket fails: under USE or the
\* statement, possibly after it took effect, or under a ping that cannot
\* reconnect or has done so before.
ConnectionLost(q) ==
    /\ pc[q] \in OnSocket /\ socket[conn[q]] = "dead"
    /\ pc[q] = "ping" => ~serverUp \/ conn[q] \notin bound
    /\ Release(q)
    /\ Goto(q, AfterTransient(q))
    /\ UNCHANGED <<pool, socket, bound, current, unread, callVars, attempt, orphaned, applied, misled, serverVars>>

\* The attempts are not counted.
WakeUncounted(q) ==
    /\ pc[q] = "backoff"
    /\ Goto(q, "acquire")
    /\ UNCHANGED <<pool, connVars, callVars, conn, attempt, orphaned, applied, misled, serverVars>>

\* The backoff ends: the next attempt acquires afresh from the same pool.
Wake(q) ==
    /\ pc[q] = "backoff"
    /\ Goto(q, "acquire")
    /\ attempt' = [attempt EXCEPT ![q] = @ + 1]
    /\ UNCHANGED <<pool, connVars, callVars, conn, orphaned, applied, misled, serverVars>>

\* Leaving "async with" in the middle of a command: the reply is still to come
\* when the connection is kept.
ReleaseUnread(q) ==
    /\ Release(q)
    /\ unread' = IF socket[conn[q]] = "alive" /\ slot'[conn[q]] = "free"
                 THEN unread \cup {conn[q]} ELSE unread

\* The caller's task is cancelled at an await; "async with" still releases.
Cancel(q) ==
    /\ pc[q] \in {"acquire", "backoff"} \cup OnSocket
    /\ IF pc[q] \in OnSocket THEN ReleaseUnread(q) ELSE UNCHANGED <<unread, conn, slot>>
    /\ Goto(q, "cancelled")
    /\ UNCHANGED <<pool, socket, bound, current, callVars, attempt, orphaned, applied, misled, serverVars>>

\* The bound is a wait_for around the query instead of one on its socket.
TimesOutByCancelling(q) ==
    /\ pc[q] \in OnSocket
    /\ ReleaseUnread(q)
    /\ Goto(q, AfterTransient(q))
    /\ UNCHANGED <<pool, socket, bound, current, callVars, attempt, orphaned, applied, misled, serverVars>>

\* The kernel aborts a silent socket after TCP_USER_TIMEOUT, where it is set.
KernelAborts(q) ==
    /\ pc[q] \in OnSocket
    /\ socket[conn[q]] = "silent"
    /\ conn[q] \in bound
    /\ socket' = [socket EXCEPT ![conn[q]] = "dead"]
    /\ UNCHANGED <<pool, slot, bound, current, unread, queryVars, serverVars>>

Acquire(q) ==
    \/ \E c \in Conns : AcquireFree(q, c) \/ OpenConnection(q, c)
    \/ AcquireClosed(q)

ServerStep(q) ==
    \/ ConnectReturns(q) \/ PingOk(q) \/ PingReconnects(q) \/ UseSchema(q)
    \/ ServerApplies(q) \/ QueryReturns(q) \/ QueryRejected(q)
    \/ TransientRefusal(q) \/ ConnectionLost(q) \/ KernelAborts(q)

Next ==
    \/ StartBegin \/ StartEnd \/ StopBegin \/ StopEnd \/ StopCutShort
    \/ Failover("dead") \/ Failover("silent") \/ Promote
    \/ \E c \in Conns : Recycle(c)
    \/ \E q \in Queries : Begin(q) \/ Acquire(q) \/ ServerStep(q) \/ Wake(q) \/ Cancel(q)

Safety == Init /\ [][Next]_vars

\* The standby is promoted, wait_closed returns when it can, and the event loop
\* runs every query whose await is over.  create_pool need not return: it opens
\* connections too.
Fairness ==
    /\ WF_vars(Promote) /\ WF_vars(StopEnd)
    /\ \A q \in Queries : WF_vars(Acquire(q)) /\ WF_vars(ServerStep(q)) /\ WF_vars(Wake(q))

Spec == Safety /\ Fairness

-----------------------------------------------------------------------------
(* Properties *)

\* Every variable has its type.
TypeOK ==
    /\ pool \in {"none", "creating", "open", "closing", "left"}
    /\ slot \in [Conns -> {"absent", "free", "used"}]
    /\ socket \in [Conns -> {"alive", "dead", "silent"}]
    /\ bound \subseteq Conns
    /\ current \in [Conns -> Schemas \cup {Default}]
    /\ pc \in [Queries -> {"idle", "acquire", "backoff"} \cup OnSocket \cup Ended]
    /\ unread \subseteq Conns
    /\ schema \in [Queries -> Schemas \cup {Default}]
    /\ bare \subseteq Queries
    /\ misled \subseteq Queries
    /\ conn \in [Queries -> Conns \cup {NoConn}]
    /\ attempt \in [Queries -> 0 .. MaxAttempts]
    /\ orphaned \subseteq Queries
    /\ applied \in [Queries -> Nat]
    /\ serverUp \in BOOLEAN
    /\ failovers \in 0 .. MaxFailovers

\* A connection is in use exactly while one query opens it or is on its socket:
\* none is shared, leaked by a failed attempt or kept through a backoff, and
\* stop() takes none away from a query.
HeldByOne ==
    /\ \A q \in Queries : pc[q] \in OnSocket <=> conn[q] # NoConn
    /\ \A c \in Conns : slot[c] = "used" <=> \E q \in Queries : conn[q] = c
    /\ \A p, q \in Queries : conn[p] = conn[q] /\ conn[p] # NoConn => p = q

\* A statement given a schema executes in that schema, on a connection that
\* other tenants have used, was reconnected or is fresh from a retry.  The
\* exception is a connection that was given back with a reply unread: there USE
\* can be refused without being noticed.
RunsInOwnSchema ==
    \A q \in Queries : pc[q] \in {"exec", "reply"} /\ schema[q] # Default
                          => current[conn[q]] = schema[q] \/ conn[q] \in unread

\* A query that returns was executed, unless it took another command's reply for
\* its own; a statement executes at most once per attempt, so a lost reply
\* repeats a write at most max_attempts - 1 times.
AppliedPerAttempt ==
    \A q \in Queries : /\ applied[q] <= attempt[q]
                       /\ pc[q] = "returned" => applied[q] > 0 \/ q \in misled

\* Bounding a vanished peer costs no connection its place in the conversation:
\* as long as no caller is cancelled, a query returns the reply to its own
\* statement, however many sockets were aborted, lost or reopened before.
OwnReplies == misled # {} => \E q \in Queries : pc[q] = "cancelled"

\* A query that waits without bound: its connection's socket is silent and was
\* opened, by acquire or by a ping, but not bound since.  A bare call is never
\* there once it has its connection.
Hung(q) ==
    /\ pc[q] \in OnSocket
    /\ socket[conn[q]] = "silent" /\ conn[q] \notin bound
    /\ q \in bare => pc[q] = "connect"

\* Through every failover a query ends, unless it or another query, whose
\* connection or turn in the pool it may be waiting for, is hung.
QueriesEnd ==
    \A q \in Queries : pc[q] # "idle" ~> pc[q] \in Ended \/ \E p \in Queries : Hung(p)

\* stop() ends, with the same exception.
StopEnds == pool = "closing" ~> pool # "closing" \/ \E p \in Queries : Hung(p)

\* db.py: without a read timeout an await on a vanished peer never completes;
\* tcp_user_timeout "closes that hole at the kernel" for every query on an
\* acquired connection.
AwaitsBounded == \A q \in Queries : pc[q] \in {"use", "exec", "reply"} => conn[q] \in bound
=============================================================================

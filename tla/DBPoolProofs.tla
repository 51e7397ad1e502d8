---------------------------- MODULE DBPoolProofs ----------------------------
(***************************************************************************)
(* The connection pool is safe for any number of queries, connections,      *)
(* schemas, attempts and failovers.                                         *)
(*                                                                         *)
(* Everything rests on HeldByOne, which is inductive given the types: a     *)
(* query that switches a connection's schema or reads its wire disturbs no  *)
(* other query, because nobody else holds that connection.  A query takes a *)
(* connection, gives one back or keeps what it has, and these three shapes  *)
(* of a step are all HeldByOne depends on.                                  *)
(***************************************************************************)
EXTENDS DBPool, TLAPS

\* A query that backs off has an attempt left.
BackoffHasAttempt == \A q \in Queries : pc[q] = "backoff" => attempt[q] < MaxAttempts

\* Until the server executes it, the current attempt is not counted in applied.
AttemptNotYetApplied ==
    \A q \in Queries :
        /\ pc[q] = "idle" => applied[q] = 0
        /\ pc[q] \in {"acquire", "connect", "ping", "use", "exec"} => applied[q] < attempt[q]
        /\ pc[q] = "reply" => applied[q] > 0

\* Only a cancelled query leaves its reply on the wire.
UnreadByCancel == unread # {} \/ misled # {} => \E q \in Queries : pc[q] = "cancelled"

PoolTypes == TypeOK /\ BackoffHasAttempt

PoolInv ==
    /\ PoolTypes
    /\ HeldByOne
    /\ RunsInOwnSchema
    /\ AppliedPerAttempt
    /\ AttemptNotYetApplied
    /\ UnreadByCancel

-----------------------------------------------------------------------------
(* The shapes of a step *)

\* Query q goes to one of the places in S.
Moves(q, S) == \E where \in S : Goto(q, where)

\* A waiting query takes a connection that is not in use.
TakesConn(q, c) ==
    /\ pc[q] = "acquire" /\ slot[c] # "used"
    /\ Moves(q, {"connect", "ping", "use", "exec"})
    /\ slot' = [slot EXCEPT ![c] = "used"]
    /\ conn' = [conn EXCEPT ![q] = c]

\* A query gives its connection back and ends or backs off.
GivesBack(q) ==
    /\ pc[q] \in OnSocket
    /\ Moves(q, Ended \cup {"backoff"})
    /\ conn' = [conn EXCEPT ![q] = NoConn]
    /\ \E s \in {"free", "absent"} : slot' = [slot EXCEPT ![conn[q]] = s]

\* A query moves on the socket it has.
StaysOn(q) == pc[q] \in OnSocket /\ Moves(q, OnSocket) /\ UNCHANGED <<slot, conn>>

\* A query without a connection moves and takes none.
StaysOff(q) ==
    /\ pc[q] \notin OnSocket
    /\ Moves(q, {"acquire", "backoff"} \cup Ended)
    /\ UNCHANGED <<slot, conn>>

\* No query moves and no connection in use changes its slot.
NobodyMoves ==
    /\ UNCHANGED <<pc, conn>>
    /\ slot' \in [Conns -> {"absent", "free", "used"}]
    /\ \A c \in Conns : slot'[c] = "used" <=> slot[c] = "used"

Shapes ==
    \/ \E q \in Queries : \E c \in Conns : TakesConn(q, c)
    \/ \E q \in Queries : GivesBack(q) \/ StaysOn(q) \/ StaysOff(q)
    \/ NobodyMoves

\* Leaving "async with" gives the connection back.
LEMMA ReleaseGivesBack ==
    ASSUME NEW q \in Queries, Release(q)
    PROVE  /\ conn' = [conn EXCEPT ![q] = NoConn]
           /\ \E s \in {"free", "absent"} : slot' = [slot EXCEPT ![conn[q]] = s]
  BY DEF Release

\* Every action has one of the shapes.
LEMMA NextHasShape ==
    ASSUME TypeOK, [Next]_vars
    PROVE  Shapes
<1> USE DEF Moves, Goto
<1>1. ASSUME NEW q \in Queries, NEW c \in Conns, AcquireFree(q, c) \/ OpenConnection(q, c)
      PROVE  TakesConn(q, c)
  BY <1>1 DEF AcquireFree, OpenConnection, Admitted, Take, Acquired, AfterPing, TakesConn
<1>2. ASSUME NEW q \in Queries,
             \/ QueryReturns(q) \/ QueryRejected(q) \/ TransientRefusal(q)
             \/ ConnectionLost(q) \/ (Cancel(q) /\ pc[q] \in OnSocket)
      PROVE  GivesBack(q)
  <2>1. Release(q)
    BY <1>2 DEF QueryReturns, QueryRejected, TransientRefusal, ConnectionLost, Cancel, ReleaseUnread
  <2>2. pc[q] \in OnSocket
    BY <1>2
    DEF QueryReturns, HasReply, QueryRejected, TransientRefusal, Refusable, ConnectionLost, OnSocket
  <2>3. Moves(q, Ended \cup {"backoff"})
    BY <1>2
    DEF QueryReturns, QueryRejected, TransientRefusal, ConnectionLost, Cancel, AfterTransient, Ended
  <2> QED  BY <2>1, <2>2, <2>3, ReleaseGivesBack DEF GivesBack
<1>3. ASSUME NEW q \in Queries, ConnectReturns(q) \/ PingOk(q) \/ UseSchema(q) \/ ServerApplies(q)
      PROVE  StaysOn(q)
  BY <1>3
  DEF ConnectReturns, Acquired, PingOk, UseSchema, ServerApplies, connVars, AfterPing, StaysOn,
      OnSocket
<1>4. ASSUME NEW q \in Queries,
             Begin(q) \/ AcquireClosed(q) \/ Wake(q) \/ (Cancel(q) /\ pc[q] \notin OnSocket)
      PROVE  StaysOff(q)
  BY <1>4
  DEF Begin, AcquireClosed, Wake, Cancel, connVars, AfterTransient, StaysOff, OnSocket, Ended
<1>5. ASSUME NEW q \in Queries, KernelAborts(q) \/ PingReconnects(q)
      PROVE  NobodyMoves
  BY <1>5 DEF KernelAborts, PingReconnects, queryVars, NobodyMoves, TypeOK
<1>6. ASSUME NEW c \in Conns, Recycle(c)
      PROVE  NobodyMoves
  BY <1>6 DEF Recycle, queryVars, NobodyMoves, TypeOK
<1>7. CASE StartBegin \/ StartEnd \/ StopBegin \/ StopEnd \/ StopCutShort
  BY <1>7 DEF StartBegin, StartEnd, StopBegin, StopEnd, StopCutShort, connVars, queryVars, NobodyMoves, TypeOK, Shapes
<1>8. CASE Failover("dead") \/ Failover("silent") \/ Promote \/ UNCHANGED vars
  BY <1>8 DEF Failover, Promote, vars, connVars, queryVars, NobodyMoves, TypeOK, Shapes
<1>9. ASSUME NEW q \in Queries, Begin(q) \/ Acquire(q) \/ ServerStep(q) \/ Wake(q) \/ Cancel(q)
      PROVE  Shapes
  BY <1>1, <1>2, <1>3, <1>4, <1>5, <1>9 DEF Acquire, ServerStep, Shapes
<1> QED  BY <1>6, <1>7, <1>8, <1>9 DEF Next, Shapes

\* One holder per connection, through every shape of a step.
LEMMA ShapesKeepHeldByOne ==
    ASSUME TypeOK, HeldByOne, Shapes
    PROVE  HeldByOne'
<1> USE PoolAssumption
<1>1. ASSUME NEW q \in Queries, NEW c \in Conns, TakesConn(q, c)
      PROVE  HeldByOne'
  <2>1. PICK where \in {"connect", "ping", "use", "exec"} : pc' = [pc EXCEPT ![q] = where]
    BY <1>1 DEF TakesConn, Moves, Goto
  <2>2. conn[q] = NoConn /\ \A p \in Queries : conn[p] # c
    BY <1>1 DEF TakesConn, HeldByOne, OnSocket, TypeOK
  <2>3. /\ slot' = [slot EXCEPT ![c] = "used"]
        /\ conn' = [conn EXCEPT ![q] = c]
        /\ slot \in [Conns -> {"absent", "free", "used"}]
        /\ conn \in [Queries -> Conns \cup {NoConn}]
    BY <1>1 DEF TakesConn, TypeOK
  <2>4. \A p \in Queries : pc'[p] \in OnSocket <=> conn'[p] # NoConn
    BY <2>1, <2>3 DEF HeldByOne, TypeOK, OnSocket
  <2>5. \A d \in Conns : slot'[d] = "used" <=> \E p \in Queries : conn'[p] = d
    BY <2>2, <2>3 DEF HeldByOne
  <2>6. \A p, r \in Queries : conn'[p] = conn'[r] /\ conn'[p] # NoConn => p = r
    BY <2>2, <2>3 DEF HeldByOne
  <2> QED  BY <2>4, <2>5, <2>6 DEF HeldByOne
<1>2. ASSUME NEW q \in Queries, GivesBack(q)
      PROVE  HeldByOne'
  <2>1. PICK where \in Ended \cup {"backoff"} : pc' = [pc EXCEPT ![q] = where]
    BY <1>2 DEF GivesBack, Moves, Goto
  <2>2. PICK s \in {"free", "absent"} : slot' = [slot EXCEPT ![conn[q]] = s]
    BY <1>2 DEF GivesBack
  <2>3. /\ conn' = [conn EXCEPT ![q] = NoConn] /\ conn[q] \in Conns
        /\ slot \in [Conns -> {"absent", "free", "used"}]
        /\ conn \in [Queries -> Conns \cup {NoConn}]
    BY <1>2 DEF GivesBack, TypeOK, HeldByOne
  <2>4. \A p \in Queries : pc'[p] \in OnSocket <=> conn'[p] # NoConn
    BY <2>1, <2>3 DEF HeldByOne, TypeOK, OnSocket, Ended
  <2>5. \A d \in Conns : slot'[d] = "used" <=> \E p \in Queries : conn'[p] = d
    BY <2>2, <2>3 DEF HeldByOne
  <2>6. \A p, r \in Queries : conn'[p] = conn'[r] /\ conn'[p] # NoConn => p = r
    BY <2>3 DEF HeldByOne
  <2> QED  BY <2>4, <2>5, <2>6 DEF HeldByOne
<1>3. ASSUME NEW q \in Queries, StaysOn(q) \/ StaysOff(q)
      PROVE  HeldByOne'
  <2>1. \A p \in Queries : pc'[p] \in OnSocket <=> pc[p] \in OnSocket
    BY <1>3 DEF StaysOn, StaysOff, Moves, Goto, TypeOK, OnSocket, Ended
  <2> QED  BY <1>3, <2>1 DEF HeldByOne, StaysOn, StaysOff
<1>4. CASE NobodyMoves
  BY <1>4 DEF NobodyMoves, HeldByOne
<1> QED  BY <1>1, <1>2, <1>3, <1>4 DEF Shapes

-----------------------------------------------------------------------------
(* The other parts of the invariant, action by action *)

\* A call may not be changed while it is made.
LEMMA CallsStay == [Next]_vars => UNCHANGED <<schema, bare>>
<1> SUFFICES ASSUME [Next]_vars PROVE UNCHANGED <<schema, bare>>
  OBVIOUS
<1>1. ASSUME NEW q \in Queries, Begin(q) \/ Acquire(q) \/ Wake(q) \/ Cancel(q)
      PROVE  UNCHANGED <<schema, bare>>
  BY <1>1
  DEF Begin, Acquire, AcquireFree, OpenConnection, Admitted, AcquireClosed, Wake, Cancel, callVars
<1>2. ASSUME NEW q \in Queries, ServerStep(q)
      PROVE  UNCHANGED <<schema, bare>>
  BY <1>2
  DEF ServerStep, ConnectReturns, PingOk, PingReconnects, UseSchema, ServerApplies, QueryReturns,
      QueryRejected, TransientRefusal, ConnectionLost, KernelAborts, queryVars, callVars
<1> QED
  BY <1>1, <1>2
  DEF Next, StartBegin, StartEnd, StopBegin, StopEnd, StopCutShort, Failover, Promote, Recycle, vars, queryVars, callVars

\* The parts of the type invariant that follow from the shape of a step.
LEMMA ShapesKeepTypes ==
    ASSUME TypeOK, Shapes
    PROVE  /\ slot' \in [Conns -> {"absent", "free", "used"}]
           /\ pc' \in [Queries -> {"idle", "acquire", "backoff"} \cup OnSocket \cup Ended]
           /\ conn' \in [Queries -> Conns \cup {NoConn}]
<1> USE DEF TypeOK, Moves, Goto
<1>1. ASSUME NEW q \in Queries, NEW c \in Conns, TakesConn(q, c)
      PROVE  /\ slot' \in [Conns -> {"absent", "free", "used"}]
             /\ pc' \in [Queries -> {"idle", "acquire", "backoff"} \cup OnSocket \cup Ended]
             /\ conn' \in [Queries -> Conns \cup {NoConn}]
  BY <1>1 DEF TakesConn, OnSocket
<1>2. ASSUME NEW q \in Queries, GivesBack(q) \/ StaysOn(q) \/ StaysOff(q)
      PROVE  /\ slot' \in [Conns -> {"absent", "free", "used"}]
             /\ pc' \in [Queries -> {"idle", "acquire", "backoff"} \cup OnSocket \cup Ended]
             /\ conn' \in [Queries -> Conns \cup {NoConn}]
  BY <1>2 DEF GivesBack, StaysOn, StaysOff
<1> QED  BY <1>1, <1>2 DEF Shapes, NobodyMoves

\* A query that meets a transient error backs off only before its last attempt,
\* so the next one is within max_attempts.
LEMMA NextKeepsTypes ==
    ASSUME PoolTypes, HeldByOne, [Next]_vars
    PROVE  PoolTypes'
<1> USE PoolAssumption
<1>1. Shapes
  BY NextHasShape DEF PoolTypes
<1>2. /\ slot' \in [Conns -> {"absent", "free", "used"}]
      /\ pc' \in [Queries -> {"idle", "acquire", "backoff"} \cup OnSocket \cup Ended]
      /\ conn' \in [Queries -> Conns \cup {NoConn}]
  BY <1>1, ShapesKeepTypes DEF PoolTypes
<1>3. schema' \in [Queries -> Schemas \cup {Default}] /\ bare' \subseteq Queries
  BY CallsStay DEF PoolTypes, TypeOK
<1>4. ASSUME NEW q \in Queries, Begin(q) \/ Acquire(q) \/ Wake(q) \/ Cancel(q)
      PROVE  PoolTypes'
  <2>1. /\ pool' = pool /\ serverUp' = serverUp /\ failovers' = failovers
        /\ misled' = misled /\ applied' = applied
    BY <1>4
    DEF Begin, Acquire, AcquireFree, OpenConnection, Admitted, AcquireClosed, Wake, Cancel, serverVars
  <2>2. socket' \in [Conns -> {"alive", "dead", "silent"}] /\ bound' \subseteq Conns
    BY <1>4
    DEF Begin, Acquire, AcquireFree, OpenConnection, Admitted, AcquireClosed, Wake, Cancel, Take, Acquired,
        connVars, PoolTypes, TypeOK
  <2>3. current' \in [Conns -> Schemas \cup {Default}] /\ orphaned' \subseteq Queries
    BY <1>4
    DEF Begin, Acquire, AcquireFree, OpenConnection, Admitted, AcquireClosed, Wake, Cancel,
        connVars, PoolTypes, TypeOK
  <2>4. unread' \subseteq Conns
    <3>1. CASE Cancel(q) /\ pc[q] \in OnSocket
      <4>1. conn[q] \in Conns
        BY <3>1 DEF HeldByOne, PoolTypes, TypeOK
      <4> QED  BY <3>1, <4>1 DEF Cancel, ReleaseUnread, PoolTypes, TypeOK
    <3>2. CASE Cancel(q) /\ pc[q] \notin OnSocket
      BY <3>2 DEF Cancel, PoolTypes, TypeOK
    <3> QED
      BY <1>4, <3>1, <3>2
      DEF Begin, Acquire, AcquireFree, OpenConnection, Admitted, AcquireClosed, Wake, connVars,
          PoolTypes, TypeOK
  <2>5. attempt' \in [Queries -> 0 .. MaxAttempts]
    BY <1>4
    DEF Begin, Acquire, AcquireFree, OpenConnection, Admitted, AcquireClosed, Wake, Cancel,
        PoolTypes, TypeOK, BackoffHasAttempt
  <2>6. BackoffHasAttempt'
    BY <1>4
    DEF Begin, Acquire, AcquireFree, OpenConnection, Admitted, AcquireClosed, Wake, Cancel, Goto,
        Take, Acquired, AfterPing, AfterTransient, PoolTypes, TypeOK, BackoffHasAttempt
  <2> QED
    BY <1>2, <1>3, <2>1, <2>2, <2>3, <2>4, <2>5, <2>6 DEF PoolTypes, TypeOK
<1>5. ASSUME NEW q \in Queries, ServerStep(q)
      PROVE  PoolTypes'
  <2> USE <1>5
  <2> USE DEF ServerStep, ConnectReturns, Acquired, PingOk, PingReconnects, UseSchema, ServerApplies,
          QueryReturns, QueryRejected, TransientRefusal, ConnectionLost, KernelAborts
  <2>1. /\ pool' = pool /\ serverUp' = serverUp /\ failovers' = failovers
        /\ attempt' = attempt /\ orphaned' = orphaned
    BY DEF serverVars, queryVars
  <2>2. socket' \in [Conns -> {"alive", "dead", "silent"}] /\ bound' \subseteq Conns
    <3>1. pc[q] = "connect" => conn[q] \in Conns
      BY DEF HeldByOne, OnSocket, PoolTypes, TypeOK
    <3> QED  BY <3>1 DEF connVars, PoolTypes, TypeOK
  <2>3. current' \in [Conns -> Schemas \cup {Default}] /\ unread' \subseteq Conns
    BY DEF connVars, PoolTypes, TypeOK
  <2>4. applied' \in [Queries -> Nat] /\ misled' \subseteq Queries
    <3>1. applied' = applied \/ applied' = [applied EXCEPT ![q] = @ + 1]
      BY DEF queryVars
    <3>2. misled' = misled \/ misled' = misled \cup {q}
      BY DEF queryVars
    <3> QED  BY <3>1, <3>2 DEF PoolTypes, TypeOK
  <2>5. BackoffHasAttempt'
    BY <2>1
    DEF Goto, AfterPing, AfterTransient, queryVars, PoolTypes, TypeOK, BackoffHasAttempt
  <2> QED
    BY <1>2, <1>3, <2>1, <2>2, <2>3, <2>4, <2>5 DEF PoolTypes, TypeOK
<1>6. CASE StartBegin \/ StartEnd \/ StopBegin \/ StopEnd \/ StopCutShort
  BY <1>2, <1>3, <1>6
  DEF StartBegin, StartEnd, StopBegin, StopEnd, StopCutShort, connVars, queryVars, serverVars, callVars,
      PoolTypes, TypeOK, BackoffHasAttempt
<1>7. CASE Failover("dead") \/ Failover("silent") \/ Promote
  <2>1. socket' \in [Conns -> {"alive", "dead", "silent"}]
    BY <1>7 DEF Failover, Promote, connVars, PoolTypes, TypeOK
  <2>2. failovers' \in 0 .. MaxFailovers /\ serverUp' \in BOOLEAN
    <3>1. failovers \in 0 .. MaxFailovers
      BY DEF PoolTypes, TypeOK
    <3>2. failovers' = failovers \/ (failovers < MaxFailovers /\ failovers' = failovers + 1)
      BY <1>7 DEF Failover, Promote
    <3>3. serverUp' = FALSE \/ serverUp' = TRUE
      BY <1>7 DEF Failover, Promote
    <3>4. serverUp' \in BOOLEAN
      BY <3>3
    <3>5. failovers' \in 0 .. MaxFailovers
      BY <3>1, <3>2
    <3> QED  BY <3>4, <3>5
  <2>3. UNCHANGED <<pool, bound, current, unread, queryVars>>
    BY <1>7 DEF Failover, Promote, connVars
  <2> QED
    BY <1>2, <1>3, <2>1, <2>2, <2>3 DEF queryVars, PoolTypes, TypeOK, BackoffHasAttempt
<1>8. ASSUME NEW c \in Conns, Recycle(c)
      PROVE  PoolTypes'
  BY <1>2, <1>3, <1>8
  DEF Recycle, queryVars, serverVars, PoolTypes, TypeOK, BackoffHasAttempt
<1>9. CASE UNCHANGED vars
  BY <1>9
  DEF vars, connVars, queryVars, serverVars, callVars, PoolTypes, TypeOK, BackoffHasAttempt
<1> QED  BY <1>4, <1>5, <1>6, <1>7, <1>8, <1>9 DEF Next

\* Nobody but the holder of a connection changes its schema or reads its wire
\* empty, and a holder that names a schema executes only after USE.
LEMMA NextKeepsSchema ==
    ASSUME TypeOK, HeldByOne, RunsInOwnSchema, [Next]_vars
    PROVE  RunsInOwnSchema'
<1> DEFINE Isolated(p) == current[conn[p]] = schema[p] \/ conn[p] \in unread
<1> SUFFICES ASSUME NEW p \in Queries, pc'[p] \in {"exec", "reply"}, schema'[p] # Default
             PROVE  Isolated(p)'
  BY DEF RunsInOwnSchema
<1>1. schema' = schema
  BY CallsStay
<1>2. pc[p] \in {"exec", "reply"} => Isolated(p) /\ conn[p] \in Conns
  BY <1>1 DEF RunsInOwnSchema, HeldByOne, OnSocket, TypeOK
<1> HIDE DEF Isolated
\* What a step must leave alone for a statement that was under way before it.
<1>3. ASSUME pc'[p] = pc[p], conn'[p] = conn[p], current'[conn[p]] = current[conn[p]],
             conn[p] \in unread => conn[p] \in unread'
      PROVE  Isolated(p)'
  BY <1>1, <1>2, <1>3 DEF Isolated
<1>4. ASSUME NEW q \in Queries, NEW c \in Conns, AcquireFree(q, c) \/ OpenConnection(q, c)
      PROVE  Isolated(p)'
  <2>1. p # q
    <3> SUFFICES ASSUME p = q PROVE FALSE
      OBVIOUS
    <3>1. pc'[q] \in {"connect", "ping", AfterPing(q)}
      BY <1>4 DEF AcquireFree, OpenConnection, Acquired, Goto, TypeOK
    <3> QED  BY <1>1, <3>1 DEF AfterPing
  <2>2. pc'[p] = pc[p] /\ conn'[p] = conn[p]
    BY <1>4, <2>1 DEF AcquireFree, OpenConnection, Take, Acquired, Goto, TypeOK
  <2>3. conn[p] # c
    BY <1>4 DEF AcquireFree, OpenConnection, HeldByOne
  <2>4. /\ current'[conn[p]] = current[conn[p]]
        /\ conn[p] \in unread => conn[p] \in unread'
    BY <1>2, <1>4, <2>2, <2>3 DEF AcquireFree, OpenConnection, TypeOK
  <2> QED  BY <1>3, <2>2, <2>4
<1>5. ASSUME NEW q \in Queries,
             Begin(q) \/ AcquireClosed(q) \/ Wake(q) \/ Cancel(q)
      PROVE  Isolated(p)'
  <2>1. current' = current /\ unread \subseteq unread'
    BY <1>5 DEF Begin, AcquireClosed, Wake, Cancel, ReleaseUnread, connVars
  <2>2. pc'[q] \notin {"exec", "reply"}
    BY <1>5
    DEF Begin, AcquireClosed, Wake, Cancel, Goto, AfterTransient, TypeOK
  <2>3. pc'[p] = pc[p] /\ conn'[p] = conn[p]
    BY <1>5, <2>2
    DEF Begin, AcquireClosed, Wake, Cancel, ReleaseUnread, Release, Goto, TypeOK
  <2> QED  BY <1>3, <2>1, <2>3
<1>6. ASSUME NEW q \in Queries,
             ConnectReturns(q) \/ PingOk(q) \/ UseSchema(q) \/ ServerApplies(q)
      PROVE  Isolated(p)'
  <2>1. conn' = conn /\ unread' = unread /\ conn[q] \in Conns
    BY <1>6
    DEF ConnectReturns, PingOk, UseSchema, ServerApplies, connVars, HeldByOne, OnSocket, TypeOK
  <2>2. CASE p = q
    <3>1. CASE ConnectReturns(q) \/ PingOk(q)
      <4>1. pc'[q] \in {"ping", AfterPing(q)}
        BY <3>1 DEF ConnectReturns, Acquired, PingOk, Goto, TypeOK
      <4> QED  BY <1>1, <2>2, <4>1 DEF AfterPing
    <3>2. CASE UseSchema(q)
      BY <1>1, <2>1, <2>2, <3>2 DEF UseSchema, Isolated, TypeOK
    <3>3. CASE ServerApplies(q)
      BY <1>1, <1>2, <2>1, <2>2, <3>3 DEF ServerApplies, Isolated, connVars
    <3> QED  BY <1>6, <3>1, <3>2, <3>3
  <2>3. CASE p # q
    <3>1. pc'[p] = pc[p]
      BY <1>6, <2>3 DEF ConnectReturns, Acquired, PingOk, UseSchema, ServerApplies, Goto, TypeOK
    <3>2. conn[p] # conn[q]
      BY <1>2, <2>3, <3>1, PoolAssumption DEF HeldByOne
    <3>3. current'[conn[p]] = current[conn[p]]
      BY <1>2, <1>6, <3>1, <3>2
      DEF ConnectReturns, PingOk, UseSchema, ServerApplies, connVars, TypeOK
    <3> QED  BY <1>3, <2>1, <3>1, <3>3
  <2> QED  BY <2>2, <2>3
<1>7. ASSUME NEW q \in Queries, PingReconnects(q)
      PROVE  Isolated(p)'
  <2>1. pc' = pc /\ conn' = conn /\ pc[q] = "ping" /\ conn[q] \in Conns
    BY <1>7 DEF PingReconnects, queryVars, HeldByOne, OnSocket, TypeOK
  <2>2. conn[p] # conn[q]
    BY <1>2, <2>1, PoolAssumption DEF HeldByOne
  <2>3. /\ current'[conn[p]] = current[conn[p]]
        /\ conn[p] \in unread => conn[p] \in unread'
    BY <1>2, <1>7, <2>1, <2>2 DEF PingReconnects, TypeOK
  <2> QED  BY <1>3, <2>1, <2>3
<1>8. ASSUME NEW q \in Queries,
             QueryReturns(q) \/ QueryRejected(q) \/ TransientRefusal(q) \/ ConnectionLost(q)
      PROVE  Isolated(p)'
  <2>1. current' = current /\ unread' = unread
    BY <1>8 DEF QueryReturns, QueryRejected, TransientRefusal, ConnectionLost
  <2>2. pc'[q] \notin {"exec", "reply"}
    BY <1>8
    DEF QueryReturns, QueryRejected, TransientRefusal, ConnectionLost, Goto, AfterTransient, TypeOK
  <2>3. pc'[p] = pc[p] /\ conn'[p] = conn[p]
    BY <1>8, <2>2
    DEF QueryReturns, QueryRejected, TransientRefusal, ConnectionLost, Release, Goto, TypeOK
  <2> QED  BY <1>3, <2>1, <2>3
<1>9. ASSUME \/ \E q \in Queries : KernelAborts(q)
             \/ StartBegin \/ StartEnd \/ StopBegin \/ StopEnd \/ StopCutShort \/ Promote
             \/ Failover("dead") \/ Failover("silent") \/ \E c \in Conns : Recycle(c)
             \/ UNCHANGED vars
      PROVE  Isolated(p)'
  <2>1. UNCHANGED <<current, unread, pc, conn>>
    BY <1>9
    DEF KernelAborts, StartBegin, StartEnd, StopBegin, StopEnd, StopCutShort, Promote, Failover, Recycle, vars,
        connVars, queryVars
  <2> QED  BY <1>3, <2>1
<1> QED  BY <1>4, <1>5, <1>6, <1>7, <1>8, <1>9 DEF Next, Acquire, ServerStep

\* An execution is counted in the attempt that made it, and a new attempt makes
\* room for one more.
LEMMA NextKeepsCounts ==
    ASSUME TypeOK, AppliedPerAttempt, AttemptNotYetApplied, [Next]_vars
    PROVE  AppliedPerAttempt' /\ AttemptNotYetApplied'
<1> DEFINE Counts(q) == /\ applied[q] <= attempt[q]
                        /\ pc[q] = "returned" => applied[q] > 0 \/ q \in misled
                        /\ pc[q] = "idle" => applied[q] = 0
                        /\ pc[q] \in {"acquire", "connect", "ping", "use", "exec"}
                              => applied[q] < attempt[q]
                        /\ pc[q] = "reply" => applied[q] > 0
<1> SUFFICES ASSUME NEW p \in Queries PROVE Counts(p)'
  BY DEF AppliedPerAttempt, AttemptNotYetApplied
<1>1. Counts(p) /\ applied[p] \in Nat /\ attempt[p] \in Nat
  BY DEF AppliedPerAttempt, AttemptNotYetApplied, TypeOK
<1>2. CASE UNCHANGED <<pc, applied, attempt, misled>>
  BY <1>1, <1>2
<1>3. ASSUME NEW q \in Queries, Begin(q) \/ Acquire(q) \/ Wake(q) \/ Cancel(q)
      PROVE  Counts(p)'
  <2>1. CASE Begin(q) \/ Wake(q) \/ Cancel(q)
    BY <1>1, <2>1 DEF Begin, Wake, Cancel, Goto, TypeOK, OnSocket
  <2>2. CASE Acquire(q)
    BY <1>1, <2>2
    DEF Acquire, AcquireFree, OpenConnection, Admitted, AcquireClosed, Acquired, AfterPing, Goto,
        TypeOK
  <2> QED  BY <1>3, <2>1, <2>2
<1>4. ASSUME NEW q \in Queries, ServerStep(q)
      PROVE  Counts(p)'
  <2>1. CASE ConnectReturns(q) \/ PingOk(q) \/ UseSchema(q)
    BY <1>1, <2>1 DEF ConnectReturns, Acquired, PingOk, UseSchema, AfterPing, Goto, TypeOK
  <2>2. CASE ServerApplies(q)
    BY <1>1, <2>2 DEF ServerApplies, Goto, TypeOK
  <2>3. CASE QueryReturns(q)
    BY <1>1, <2>3 DEF QueryReturns, HasReply, Goto, TypeOK
  <2>4. CASE QueryRejected(q) \/ TransientRefusal(q) \/ ConnectionLost(q)
    BY <1>1, <2>4
    DEF QueryRejected, TransientRefusal, ConnectionLost, AfterTransient, Goto, TypeOK
  <2>5. CASE KernelAborts(q) \/ PingReconnects(q)
    BY <1>2, <2>5 DEF KernelAborts, PingReconnects, queryVars
  <2> QED  BY <1>4, <2>1, <2>2, <2>3, <2>4, <2>5 DEF ServerStep
<1>5. ASSUME \/ StartBegin \/ StartEnd \/ StopBegin \/ StopEnd \/ StopCutShort \/ Promote
             \/ Failover("dead") \/ Failover("silent") \/ \E c \in Conns : Recycle(c)
             \/ UNCHANGED vars
      PROVE  Counts(p)'
  BY <1>2, <1>5
  DEF StartBegin, StartEnd, StopBegin, StopEnd, StopCutShort, Promote, Failover, Recycle, vars, queryVars
<1> QED  BY <1>3, <1>4, <1>5 DEF Next

\* Only a cancellation leaves a reply unread, and it ends its query for good.
LEMMA NextKeepsReplies ==
    ASSUME TypeOK, UnreadByCancel, [Next]_vars
    PROVE  UnreadByCancel'
<1> DEFINE SomeCancelled == \E q \in Queries : pc[q] = "cancelled"
<1>1. SomeCancelled => SomeCancelled'
  <2> SUFFICES ASSUME NEW p \in Queries, pc[p] = "cancelled" PROVE pc'[p] = "cancelled"
    OBVIOUS
  <2>1. ASSUME NEW q \in Queries, Begin(q) \/ Acquire(q) \/ Wake(q) \/ Cancel(q)
        PROVE  pc'[p] = "cancelled"
    BY <2>1
    DEF Begin, Acquire, AcquireFree, OpenConnection, Admitted, AcquireClosed, Take, Acquired, Wake, Cancel,
        Goto, OnSocket, TypeOK
  <2>2. ASSUME NEW q \in Queries, ServerStep(q)
        PROVE  pc'[p] = "cancelled"
    BY <2>2
    DEF ServerStep, ConnectReturns, Acquired, PingOk, PingReconnects, UseSchema, ServerApplies,
        QueryReturns, HasReply, QueryRejected, TransientRefusal, Refusable, ConnectionLost,
        KernelAborts, queryVars, Goto, OnSocket, TypeOK
  <2> QED
    BY <2>1, <2>2
    DEF Next, StartBegin, StartEnd, StopBegin, StopEnd, StopCutShort, Promote, Failover, Recycle, vars, queryVars
<1>2. ASSUME NEW q \in Queries, Cancel(q)
      PROVE  SomeCancelled'
  BY <1>2 DEF Cancel, Goto, TypeOK
<1>3. \/ unread' \subseteq unread /\ (misled' = misled \/ unread # {})
      \/ \E q \in Queries : Cancel(q)
  <2>1. ASSUME NEW q \in Queries, Begin(q) \/ Acquire(q) \/ Wake(q)
        PROVE  unread' \subseteq unread /\ misled' = misled
    BY <2>1
    DEF Begin, Acquire, AcquireFree, OpenConnection, Admitted, AcquireClosed, Wake, connVars
  <2>2. ASSUME NEW q \in Queries, ServerStep(q)
        PROVE  unread' \subseteq unread /\ (misled' = misled \/ unread # {})
    BY <2>2
    DEF ServerStep, ConnectReturns, PingOk, PingReconnects, UseSchema, ServerApplies, QueryReturns,
        QueryRejected, TransientRefusal, ConnectionLost, KernelAborts, connVars, queryVars
  <2> QED
    BY <2>1, <2>2
    DEF Next, StartBegin, StartEnd, StopBegin, StopEnd, StopCutShort, Promote, Failover, Recycle, vars,
        connVars, queryVars
<1> QED  BY <1>1, <1>2, <1>3 DEF UnreadByCancel

-----------------------------------------------------------------------------
(* The theorems *)

\* Before start() nothing is held, executed or misread.
LEMMA PoolInitInv == Init => PoolInv
<1> SUFFICES ASSUME Init PROVE PoolInv
  OBVIOUS
<1> USE PoolAssumption
<1>1. PICK call \in Calls : /\ schema = [q \in Queries |-> call[q].schema]
                            /\ bare = {q \in Queries : call[q].bare}
  BY DEF Init
<1>2. schema \in [Queries -> Schemas \cup {Default}] /\ bare \subseteq Queries
  BY <1>1
<1>3. PoolTypes
  BY <1>2 DEF Init, PoolTypes, TypeOK, BackoffHasAttempt
<1>4. HeldByOne /\ RunsInOwnSchema
  BY DEF Init, HeldByOne, RunsInOwnSchema, OnSocket
<1>5. AppliedPerAttempt /\ AttemptNotYetApplied /\ UnreadByCancel
  BY DEF Init, AppliedPerAttempt, AttemptNotYetApplied, UnreadByCancel
<1> QED  BY <1>3, <1>4, <1>5 DEF PoolInv

\* Every step preserves the invariant.
LEMMA PoolNextInv == PoolInv /\ [Next]_vars => PoolInv'
  BY NextHasShape, ShapesKeepHeldByOne, NextKeepsTypes, NextKeepsSchema, NextKeepsCounts,
     NextKeepsReplies
  DEF PoolInv, PoolTypes

\* The invariant the theorems below are read off.
THEOREM PoolInvariance == Safety => []PoolInv
  BY PoolInitInv, PoolNextInv, PTL DEF Safety

\* Every variable keeps its type; in particular no query exceeds max_attempts.
THEOREM PoolTypeCorrect == Safety => []TypeOK
<1>1. PoolInv => TypeOK
  BY DEF PoolInv, PoolTypes
<1> QED  BY <1>1, PoolInvariance, PTL

\* No connection is shared or leaked, through errors, retries, cancellations,
\* failovers and stop().
THEOREM ConnectionHeldByOne == Safety => []HeldByOne
<1>1. PoolInv => HeldByOne
  BY DEF PoolInv
<1> QED  BY <1>1, PoolInvariance, PTL

\* Tenant isolation: a statement that names a schema executes in it, on any
\* connection whose wire a cancelled query has not left out of step.
THEOREM StatementsInOwnSchema == Safety => []RunsInOwnSchema
<1>1. PoolInv => RunsInOwnSchema
  BY DEF PoolInv
<1> QED  BY <1>1, PoolInvariance, PTL

\* A statement takes effect at most once per attempt, hence at most max_attempts
\* times, and at least once when its query returns the reply to it.
THEOREM AtMostOncePerAttempt ==
    Safety => []AppliedPerAttempt /\ [](\A q \in Queries : applied[q] <= MaxAttempts)
<1>1. PoolInv => AppliedPerAttempt /\ \A q \in Queries : applied[q] <= MaxAttempts
  BY PoolAssumption DEF PoolInv, PoolTypes, TypeOK, AppliedPerAttempt
<1> QED  BY <1>1, PoolInvariance, PTL

\* Without cancelled callers every query returns the reply to its own statement.
THEOREM RepliesAreOwn == Safety => []OwnReplies
<1>1. PoolInv => OwnReplies
  BY DEF PoolInv, UnreadByCancel, OwnReplies
<1> QED  BY <1>1, PoolInvariance, PTL
=============================================================================

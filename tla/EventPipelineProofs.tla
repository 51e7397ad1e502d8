------------------------ MODULE EventPipelineProofs -------------------------
(***************************************************************************)
(* From outbox to handler nothing is dropped and repeats are bounded, for   *)
(* any number of records, relays, workers, failed passes, failed or cut     *)
(* short calls of handle and marks that expire.                             *)
(*                                                                         *)
(* Every pipeline step is a step of the outbox or leaves it alone, so the   *)
(* outbox's invariant and theorems hold of it.  NeverDropped is about       *)
(* published records and not inductive; what is preserved is the same of    *)
(* every record the broker has taken (OwedOrResolved).  The bound on        *)
(* repeats counts the runs still to come: a run that has begun was let      *)
(* through before the event was marked, and while it is marked no more are  *)
(* let through (RunsFitWorkers).                                            *)
(***************************************************************************)
EXTENDS EventPipeline, OutboxProofs

\* A record the broker has taken is resolved or has an unacknowledged copy.
OwedOrResolved == \A m \in Sent : Resolved(m) \/ queue[m] > 0

\* The workers whose handler is running on event id.
Busy(id) == {w \in Workers : handling[w] # NoMessage /\ records[handling[w]] = id}

\* The runs that expired marks and runs without a mark account for.
Forgiven(id) == Cardinality(Workers) * expired[id] + unmarked[id]

\* The finished and the running handlers of an event fit the workers, but for
\* those forgiven, and an event that is not marked has no other finished ones.
RunsFitWorkers ==
    \A id \in Envelopes \ {NoId} :
        /\ runs[id] + Cardinality(Busy(id)) <= Cardinality(Workers) + Forgiven(id)
        /\ id \notin processed => runs[id] <= Forgiven(id)

\* The store respects its bound, which is that of the broker's queue.
StoreFits == Len(records) <= MaxRecords

PInv ==
    /\ OInv
    /\ StoreFits
    /\ PipelineTypeOK
    /\ OwedOrResolved
    /\ ProcessedWasHandled
    /\ RunsFitWorkers

-----------------------------------------------------------------------------
(* The pipeline implements the outbox. *)

\* What a pipeline step does to the producer's side is an outbox step.
LEMMA PipelineStepsOutbox == [PipelineNext]_pipelineVars => [OutboxNext]_outboxVars
<1> SUFFICES ASSUME [PipelineNext]_pipelineVars PROVE OutboxNext \/ UNCHANGED outboxVars
  OBVIOUS
<1>1. ASSUME NEW e \in Envelopes, Produce(e) PROVE OutboxNext
  BY <1>1 DEF Produce, OutboxNext
<1>2. ASSUME NEW k \in Relays, Relay(k) PROVE OutboxNext
  BY <1>2 DEF Relay, OutboxNext, RelayStep
<1>3. ASSUME NEW w \in Workers, FinishHandling(w) \/ InterruptHandling(w)
      PROVE  UNCHANGED outboxVars
  BY <1>3 DEF FinishHandling, InterruptHandling
<1>4. ASSUME NEW w \in Workers, NEW m \in RecordIds, Deliver(w, m)
      PROVE  UNCHANGED outboxVars
  BY <1>4 DEF Deliver
<1>5. CASE UNCHANGED pipelineVars
  BY <1>5 DEF pipelineVars
<1>6. ASSUME NEW e \in Envelopes, ForgetEvent(e) PROVE UNCHANGED outboxVars
  BY <1>6 DEF ForgetEvent
<1> QED  BY <1>1, <1>2, <1>3, <1>4, <1>5, <1>6 DEF PipelineNext

-----------------------------------------------------------------------------
(* Each action preserves the invariant. *)

\* Busy is a finite set of workers.
LEMMA BusyFinite ==
    ASSUME NEW id
    PROVE  /\ IsFiniteSet(Busy(id)) /\ Cardinality(Busy(id)) \in Nat
           /\ Cardinality(Busy(id)) <= Cardinality(Workers)
           /\ Cardinality(Workers) \in Nat
<1>1. Busy(id) \subseteq Workers
  BY DEF Busy
<1> QED  BY <1>1, PipelineAssumption, FS_Subset, FS_CardinalityType

\* What is forgiven is a number; an expired mark adds the workers to it.
LEMMA ForgivenType ==
    ASSUME PipelineTypeOK, NEW id \in Envelopes
    PROVE  /\ Forgiven(id) \in Nat
           /\ \A e \in Nat : Cardinality(Workers) * (e + 1)
                             = Cardinality(Workers) * e + Cardinality(Workers)
<1>1. Cardinality(Workers) \in Nat /\ unmarked[id] \in Nat /\ expired[id] \in Nat
  <2>1. Cardinality(Workers) \in Nat
    BY BusyFinite
  <2>2. unmarked \in [Envelopes -> Nat] /\ expired \in [Envelopes -> 0 .. MaxExpiries]
    BY DEF PipelineTypeOK
  <2> QED  BY <2>1, <2>2, PipelineAssumption
<1>2. \A n, e \in Nat : n * e \in Nat /\ n * (e + 1) = n * e + n
  OBVIOUS
<1> QED  BY <1>1, <1>2 DEF Forgiven

\* A step that adds no busy worker and leaves the store and the history alone
\* keeps the bound.
LEMMA NoNewRun ==
    ASSUME RunsFitWorkers, PipelineTypeOK,
           UNCHANGED <<processed, runs, unmarked, expired>>,
           \A id \in Envelopes : Busy(id)' \subseteq Busy(id)
    PROVE  RunsFitWorkers'
<1> SUFFICES ASSUME NEW id \in Envelopes \ {NoId}
             PROVE  /\ runs'[id] + Cardinality(Busy(id)')
                          <= Cardinality(Workers) + Forgiven(id)'
                    /\ id \notin processed' => runs'[id] <= Forgiven(id)'
  BY DEF RunsFitWorkers
<1>1. IsFiniteSet(Busy(id)) /\ Cardinality(Busy(id)) \in Nat /\ Cardinality(Workers) \in Nat
  BY BusyFinite
<1>2. Cardinality(Busy(id)') <= Cardinality(Busy(id)) /\ Cardinality(Busy(id)') \in Nat
  BY <1>1, FS_Subset, FS_CardinalityType
<1>3. runs[id] \in Nat /\ Forgiven(id) \in Nat /\ Forgiven(id)' = Forgiven(id)
  BY ForgivenType DEF PipelineTypeOK, Forgiven
<1> QED  BY <1>1, <1>2, <1>3 DEF RunsFitWorkers

\* A step of the producer's side leaves the handlers with the records they have.
LEMMA OutboxStepKeepsRuns ==
    ASSUME PInv, UNCHANGED consumerVars,
           \A m \in RecordIds : records'[m] = records[m]
    PROVE  RunsFitWorkers' /\ ProcessedWasHandled'
<1>1. \A w \in Workers : handling[w] # NoMessage => handling[w] \in RecordIds
  BY DEF PInv, PipelineTypeOK
<1>2. \A id \in Envelopes : Busy(id)' \subseteq Busy(id)
  BY <1>1 DEF Busy, consumerVars
<1>3. RunsFitWorkers'
  BY <1>2, NoNewRun DEF PInv, consumerVars
<1> QED  BY <1>3 DEF PInv, ProcessedWasHandled, consumerVars

\* A new record is not with the broker.
LEMMA ProduceInv ==
    ASSUME PInv, NEW e \in Envelopes, Produce(e), OInv'
    PROVE  PInv'
<1>1. /\ records \in Seq(Envelopes) /\ records' = Append(records, e)
      /\ Len(records) < MaxRecords /\ Len(records) \in Nat /\ MaxRecords \in Nat
  BY OutboxAssumption DEF PInv, OInv, OutboxTypeOK, Produce, Add
<1>2. /\ RecordIds \subseteq RecordIds' /\ Len(records') <= MaxRecords
      /\ \A m \in RecordIds : records'[m] = records[m]
  BY <1>1 DEF RecordIds
<1>3. StoreFits'
  BY <1>2 DEF StoreFits
<1>4. PipelineTypeOK'
  BY <1>2 DEF PInv, OInv, PipelineTypeOK, Produce, consumerVars
<1>5. OwedOrResolved'
  <2>1. Sent' = Sent /\ Sent \subseteq RecordIds
    BY DEF Produce, Add, Sent, PInv, OInv, OutboxTypeOK
  <2> QED
    BY <1>2, <2>1 DEF PInv, OwedOrResolved, Resolved, Produce, consumerVars
<1>6. RunsFitWorkers' /\ ProcessedWasHandled'
  BY <1>2, OutboxStepKeepsRuns DEF Produce
<1> QED  BY <1>3, <1>4, <1>5, <1>6 DEF PInv

\* A record that the broker takes has a copy more in its queue.
LEMMA RelayInv ==
    ASSUME PInv, NEW k \in Relays, Relay(k), OInv'
    PROVE  PInv'
<1>1. records' = records /\ UNCHANGED <<consumerVars, interrupts>>
  BY DEF Relay, RelayStart, BrokerTakes, PublishReturns, RelayAborts
<1>2. RecordIds' = RecordIds /\ StoreFits'
  BY <1>1 DEF RecordIds, PInv, StoreFits
<1>3. RunsFitWorkers' /\ ProcessedWasHandled'
  BY <1>1, OutboxStepKeepsRuns
<1>4. Sent \subseteq RecordIds /\ RecordIds \subseteq 1 .. MaxRecords
  BY OutboxAssumption DEF PInv, OInv, OutboxTypeOK, Sent, StoreFits, RecordIds
<1>5. CASE BrokerTakes(k) /\ \E r \in RecordIds :
              Current(k, r) /\ queue' = [queue EXCEPT ![r] = @ + 1]
  <2>1. PICK r \in RecordIds : Current(k, r) /\ queue' = [queue EXCEPT ![r] = @ + 1]
    BY <1>5
  <2>2. PICK q \in RecordIds :
          /\ Current(k, q)
          /\ arrivals' = IF q \in Sent THEN arrivals ELSE Append(arrivals, q)
    BY <1>5 DEF BrokerTakes
  <2>3. q = r
    BY <2>1, <2>2 DEF Current, RecordIds
  <2>4. Sent' \subseteq Sent \cup {r}
    <3>1. CASE r \in Sent
      BY <2>2, <2>3, <3>1 DEF Sent
    <3>2. CASE r \notin Sent
      <4>1. /\ arrivals \in Seq(RecordIds) /\ Len(arrivals) \in Nat
            /\ arrivals' = Append(arrivals, r)
        BY <2>2, <2>3, <3>2 DEF PInv, OInv, OutboxTypeOK
      <4> QED  BY <4>1 DEF Sent
    <3> QED  BY <3>1, <3>2
  <2>5. /\ queue' \in [1 .. MaxRecords -> Nat] /\ queue'[r] > 0
        /\ \A m \in 1 .. MaxRecords : queue'[m] >= queue[m]
    <3>1. queue \in [1 .. MaxRecords -> Nat] /\ r \in 1 .. MaxRecords
      BY <1>4 DEF PInv, PipelineTypeOK
    <3> QED  BY <2>1, <3>1
  <2>6. OwedOrResolved'
    <3> SUFFICES ASSUME NEW m \in Sent' PROVE Resolved(m)' \/ queue'[m] > 0
      BY DEF OwedOrResolved
    <3>1. CASE m = r
      BY <2>5, <3>1
    <3>2. CASE m # r
      <4>1. m \in Sent /\ m \in 1 .. MaxRecords
        BY <1>4, <2>4, <3>2
      <4>2. Resolved(m) => Resolved(m)'
        BY <1>1 DEF Resolved, consumerVars
      <4>3. queue[m] \in Nat /\ queue'[m] \in Nat
        BY <2>5, <4>1 DEF PInv, PipelineTypeOK
      <4> QED  BY <2>5, <4>1, <4>2, <4>3 DEF PInv, OwedOrResolved
    <3> QED  BY <3>1, <3>2
  <2>7. PipelineTypeOK'
    BY <1>1, <1>2, <2>5 DEF PInv, OInv, PipelineTypeOK, consumerVars
  <2> QED  BY <1>2, <1>3, <2>6, <2>7 DEF PInv
<1>6. CASE RelayStart(k) \/ PublishReturns(k) \/ RelayAborts(k)
  <2>1. queue' = queue \/ BrokerTakes(k)
    BY DEF Relay
  <2>2. Sent' = Sent
    BY <1>6 DEF RelayStart, PublishReturns, RelayAborts, Sent
  <2>3. CASE queue' = queue
    <3>1. PipelineTypeOK'
      BY <1>1, <1>2, <2>3 DEF PInv, OInv, PipelineTypeOK, consumerVars
    <3>2. OwedOrResolved'
      BY <1>1, <2>2, <2>3 DEF PInv, OwedOrResolved, Resolved, consumerVars
    <3> QED  BY <1>2, <1>3, <3>1, <3>2 DEF PInv
  <2> QED  BY <1>5, <2>1, <2>3 DEF Relay
<1> QED  BY <1>5, <1>6 DEF Relay

\* What a consumer's step leaves alone: records, what was sent, the bound.
LEMMA ConsumerStepKeepsOutbox ==
    ASSUME PInv, UNCHANGED outboxVars
    PROVE  /\ records' = records /\ RecordIds' = RecordIds /\ Sent' = Sent
           /\ StoreFits' /\ OutboxTypeOK'
           /\ Sent \subseteq RecordIds /\ RecordIds \subseteq 1 .. MaxRecords
           /\ RecordIds \subseteq Nat
           /\ \A m \in RecordIds : records[m] \in Envelopes
<1>1. UNCHANGED <<records, published, batch, taken, arrivals, aborts>>
  BY DEF outboxVars
<1>2. records' = records /\ RecordIds' = RecordIds /\ Sent' = Sent /\ StoreFits'
  BY <1>1 DEF RecordIds, Sent, StoreFits, PInv
<1>3. OutboxTypeOK'
  BY <1>1, <1>2 DEF PInv, OInv, OutboxTypeOK
<1>4. /\ Sent \subseteq RecordIds /\ RecordIds \subseteq 1 .. MaxRecords
      /\ RecordIds \subseteq Nat
      /\ \A m \in RecordIds : records[m] \in Envelopes
  BY OutboxAssumption DEF PInv, OInv, OutboxTypeOK, Sent, StoreFits, RecordIds
<1> QED  BY <1>2, <1>3, <1>4

\* An acknowledgement gives up the copy of a record that is resolved.
LEMMA AcknowledgeKeeps ==
    ASSUME PInv, UNCHANGED outboxVars, NEW m \in RecordIds, Acknowledge(m), Resolved(m)',
           \A q \in Sent : Resolved(q) => Resolved(q)'
    PROVE  OwedOrResolved' /\ queue' \in [1 .. MaxRecords -> Nat]
<1>1. m \in 1 .. MaxRecords /\ Sent' = Sent /\ Sent \subseteq 1 .. MaxRecords
  BY ConsumerStepKeepsOutbox
<1>2. /\ queue' \in [1 .. MaxRecords -> Nat]
      /\ \A q \in 1 .. MaxRecords : q # m => queue'[q] = queue[q]
  BY <1>1 DEF Acknowledge, PInv, PipelineTypeOK
<1>3. ASSUME NEW q \in Sent' PROVE Resolved(q)' \/ queue'[q] > 0
  BY <1>1, <1>2 DEF PInv, OwedOrResolved
<1> QED  BY <1>2, <1>3 DEF OwedOrResolved

\* A seen event is acknowledged; an unseen one is in no finished run, so that
\* all its runs are those of the workers it is with.
LEMMA DeliverInv ==
    ASSUME PInv, NEW w \in Workers, NEW m \in RecordIds, Deliver(w, m), OInv'
    PROVE  PInv'
<1> USE ConsumerStepKeepsOutbox
<1>1. UNCHANGED outboxVars /\ interrupts' = interrupts
  BY DEF Deliver
<1>2. /\ UNCHANGED <<processed, dlq, handled, runs, unmarked, expired>>
      /\ handling' = handling \/ StartHandler(w, m, records[m])
  BY DEF Deliver, Skip, StartHandler, consumerVars
<1>3. handling' \in [Workers -> RecordIds \cup {NoMessage}]
  BY <1>2 DEF PInv, PipelineTypeOK, StartHandler
<1>4. \A q : Resolved(q)' <=> Resolved(q)
  BY <1>1, <1>2 DEF Resolved
<1>5. OwedOrResolved' /\ queue' \in [1 .. MaxRecords -> Nat]
  <2>1. CASE Skip(w, records[m]) /\ Acknowledge(m)
    <3>1. Resolved(m)
      BY <2>1 DEF Skip, AlreadySeen, Resolved, PInv, ProcessedWasHandled
    <3> QED  BY <1>1, <1>4, <2>1, <3>1, AcknowledgeKeeps
  <2>2. CASE queue' = queue
    BY <1>1, <1>4, <2>2 DEF PInv, OwedOrResolved, PipelineTypeOK
  <2> QED  BY <2>1, <2>2 DEF Deliver
<1>6. PipelineTypeOK'
  BY <1>1, <1>2, <1>3, <1>5 DEF PInv, PipelineTypeOK
<1>7. ProcessedWasHandled'
  BY <1>2 DEF PInv, ProcessedWasHandled
<1>8. RunsFitWorkers'
  <2>1. CASE handling' = handling
    <3>1. \A id \in Envelopes : Busy(id)' \subseteq Busy(id)
      BY <1>1, <2>1 DEF Busy
    <3> QED  BY <1>2, <3>1, NoNewRun DEF PInv
  <2>2. CASE StartHandler(w, m, records[m])
    <3> SUFFICES ASSUME NEW id \in Envelopes \ {NoId}
                 PROVE  /\ runs'[id] + Cardinality(Busy(id)')
                              <= Cardinality(Workers) + Forgiven(id)'
                        /\ id \notin processed' => runs'[id] <= Forgiven(id)'
      BY DEF RunsFitWorkers
    <3>1. Busy(id)' \subseteq Workers
      BY DEF Busy
    <3>2. Cardinality(Busy(id)') \in Nat /\ Cardinality(Busy(id)') <= Cardinality(Workers)
      BY <3>1, PipelineAssumption, FS_Subset, FS_CardinalityType
    <3>3. /\ runs[id] \in Nat /\ Cardinality(Workers) \in Nat
          /\ Forgiven(id) \in Nat /\ Forgiven(id)' = Forgiven(id)
      BY <1>2, BusyFinite, ForgivenType DEF PInv, PipelineTypeOK, Forgiven
    <3>4. CASE id \notin processed
      BY <1>2, <3>2, <3>3, <3>4 DEF PInv, RunsFitWorkers
    <3>5. CASE id \in processed
      <4>1. records[m] # id
        BY <2>2, <3>5 DEF StartHandler, AlreadySeen
      <4>2. Busy(id)' \subseteq Busy(id)
        BY <1>1, <2>2, <4>1 DEF Busy, StartHandler, PInv, PipelineTypeOK
      <4>3. IsFiniteSet(Busy(id)) /\ Cardinality(Busy(id)) \in Nat
        BY BusyFinite
      <4>4. Cardinality(Busy(id)') <= Cardinality(Busy(id))
        BY <4>2, <4>3, FS_Subset
      <4> QED  BY <1>2, <3>2, <3>3, <3>5, <4>3, <4>4 DEF PInv, RunsFitWorkers
    <3> QED  BY <3>4, <3>5
  <2> QED  BY <1>2, <2>1, <2>2
<1> QED  BY <1>1, <1>5, <1>6, <1>7, <1>8 DEF PInv

\* What handle does with its worker's record, however it ends.
HandleEnds(w) ==
    \/ Interrupt(w)
    \/ HandlerRaises(w)
    \/ HandlerReturns(w, records[handling[w]])
    \/ MarkFails(w, records[handling[w]])

\* A call of handle that ends frees its worker; nothing that was processed,
\* marked or dead-lettered is given up.
LEMMA HandleEndsEffect ==
    ASSUME PInv, NEW w \in Workers, HandleEnds(w), UNCHANGED outboxVars
    PROVE  /\ handling[w] \in RecordIds /\ handling[w] # NoMessage
           /\ handling' = [handling EXCEPT ![w] = NoMessage]
           /\ \A i \in Envelopes : Busy(i)' \subseteq Busy(i) /\ w \notin Busy(i)'
           /\ processed \subseteq processed' /\ handled \subseteq handled' /\ dlq \subseteq dlq'
           /\ \A i \in Envelopes : runs'[i] \in Nat /\ runs'[i] >= runs[i]
           /\ \A q \in RecordIds : Resolved(q) => Resolved(q)'
<1> USE ConsumerStepKeepsOutbox DEF HandleEnds, Interrupt, HandlerRaises, HandlerReturns,
                                    MarkFails, RunCompletes
<1>1. handling[w] # NoMessage /\ handling' = [handling EXCEPT ![w] = NoMessage]
  OBVIOUS
<1>2. handling[w] \in RecordIds
  BY <1>1 DEF PInv, PipelineTypeOK
<1>3. \A i \in Envelopes : Busy(i)' \subseteq Busy(i) /\ w \notin Busy(i)'
  BY <1>1 DEF Busy, PInv, PipelineTypeOK
<1>4. processed \subseteq processed' /\ handled \subseteq handled' /\ dlq \subseteq dlq'
  OBVIOUS
<1>5. \A i \in Envelopes : runs'[i] \in Nat /\ runs'[i] >= runs[i]
  BY DEF PInv, PipelineTypeOK
<1>6. \A q \in RecordIds : Resolved(q) => Resolved(q)'
  <2> SUFFICES ASSUME NEW q \in RecordIds, Resolved(q) PROVE Resolved(q)'
    OBVIOUS
  <2>1. runs[records[q]] \in Nat /\ runs'[records[q]] >= runs[records[q]]
        /\ runs'[records[q]] \in Nat
    BY <1>5 DEF PInv, PipelineTypeOK
  <2> QED  BY <1>4, <2>1 DEF Resolved
<1> QED  BY <1>1, <1>2, <1>3, <1>4, <1>5, <1>6

\* The types of the consumer's variables survive it.
LEMMA HandleEndsTypes ==
    ASSUME PInv, NEW w \in Workers, HandleEnds(w), UNCHANGED outboxVars
    PROVE  /\ handling' \in [Workers -> RecordIds \cup {NoMessage}]
           /\ processed' \subseteq Envelopes \ {NoId}
           /\ dlq' \subseteq RecordIds /\ handled' \subseteq RecordIds
           /\ runs' \in [Envelopes -> Nat]
           /\ unmarked' \in [Envelopes -> Nat]
           /\ expired' = expired
<1> USE HandleEndsEffect, ConsumerStepKeepsOutbox
    DEF HandleEnds, Interrupt, HandlerRaises, HandlerReturns, MarkFails, RunCompletes
<1>1. handling' \in [Workers -> RecordIds \cup {NoMessage}]
  BY DEF PInv, PipelineTypeOK
<1>2. processed' \subseteq Envelopes \ {NoId} /\ expired' = expired
  BY DEF PInv, PipelineTypeOK
<1>3. dlq' \subseteq RecordIds /\ handled' \subseteq RecordIds
  <2>1. handling[w] \in RecordIds /\ dlq \subseteq RecordIds /\ handled \subseteq RecordIds
    BY DEF PInv, PipelineTypeOK
  <2>2. /\ dlq' = dlq \/ dlq' = dlq \cup {handling[w]}
        /\ handled' = handled \/ handled' = handled \cup {handling[w]}
    OBVIOUS
  <2> QED  BY <2>1, <2>2
<1>4. runs' \in [Envelopes -> Nat] /\ unmarked' \in [Envelopes -> Nat]
  <2>1. /\ runs \in [Envelopes -> Nat] /\ unmarked \in [Envelopes -> Nat]
        /\ records[handling[w]] \in Envelopes
    BY DEF PInv, PipelineTypeOK
  <2>2. /\ runs' = runs \/ runs' = [runs EXCEPT ![records[handling[w]]] = @ + 1]
        /\ unmarked' = unmarked \/ unmarked' = [unmarked EXCEPT ![records[handling[w]]] = @ + 1]
    OBVIOUS
  <2> QED  BY <2>1, <2>2
<1> QED  BY <1>1, <1>2, <1>3, <1>4

\* A run that returns turns a busy worker into a finished run; its event is
\* marked or the run is forgiven.
LEMMA HandleEndsRuns ==
    ASSUME PInv, NEW w \in Workers, HandleEnds(w), UNCHANGED outboxVars
    PROVE  RunsFitWorkers' /\ ProcessedWasHandled'
<1> DEFINE id == records[handling[w]]
<1>1. /\ handling[w] # NoMessage /\ id \in Envelopes /\ records' = records
      /\ \A i \in Envelopes : Busy(i)' \subseteq Busy(i) /\ w \notin Busy(i)'
  BY HandleEndsEffect, ConsumerStepKeepsOutbox
<1>2. /\ runs \in [Envelopes -> Nat] /\ unmarked \in [Envelopes -> Nat]
      /\ expired \in [Envelopes -> 0 .. MaxExpiries] /\ processed \subseteq Envelopes \ {NoId}
  BY DEF PInv, PipelineTypeOK
<1>3. CASE Interrupt(w) \/ HandlerRaises(w)
  <2>1. UNCHANGED <<processed, runs, unmarked, expired>>
    BY <1>3 DEF Interrupt, HandlerRaises
  <2> QED  BY <1>1, <2>1, NoNewRun DEF PInv, ProcessedWasHandled
<1>4. CASE HandlerReturns(w, id) \/ MarkFails(w, id)
  <2>1. /\ runs' = [runs EXCEPT ![id] = @ + 1] /\ expired' = expired
        /\ \/ /\ id # NoId
              /\ unmarked' = [unmarked EXCEPT ![id] = @ + 1]
              /\ processed' = processed
           \/ /\ unmarked' = unmarked
              /\ processed' = IF id = NoId THEN processed ELSE processed \cup {id}
    BY <1>4 DEF HandlerReturns, MarkFails, RunCompletes
  <2>2. ProcessedWasHandled'
    BY <1>1, <1>2, <2>1 DEF PInv, ProcessedWasHandled
  <2>3. RunsFitWorkers'
    <3> SUFFICES ASSUME NEW i \in Envelopes \ {NoId}
                 PROVE  /\ runs'[i] + Cardinality(Busy(i)')
                              <= Cardinality(Workers) + Forgiven(i)'
                        /\ i \notin processed' => runs'[i] <= Forgiven(i)'
      BY DEF RunsFitWorkers
    <3>1. IsFiniteSet(Busy(i)) /\ Cardinality(Busy(i)) \in Nat /\ Cardinality(Workers) \in Nat
      BY BusyFinite
    <3>2. /\ runs[i] \in Nat /\ Forgiven(i) \in Nat
          /\ runs[i] + Cardinality(Busy(i)) <= Cardinality(Workers) + Forgiven(i)
          /\ i \notin processed => runs[i] <= Forgiven(i)
      BY <1>2, ForgivenType DEF PInv, RunsFitWorkers
    <3>3. CASE i = id
      <4>1. w \in Busy(i)
        BY <1>1, <3>3 DEF Busy
      <4>2. Busy(i)' \subseteq Busy(i) \ {w}
        BY <1>1
      <4>3. /\ IsFiniteSet(Busy(i) \ {w})
            /\ Cardinality(Busy(i) \ {w}) = Cardinality(Busy(i)) - 1
        BY <3>1, <4>1, FS_RemoveElement
      <4>4. /\ Cardinality(Busy(i)') <= Cardinality(Busy(i)) - 1
            /\ Cardinality(Busy(i)') \in Nat
        BY <4>2, <4>3, FS_Subset, FS_CardinalityType
      <4>5. /\ runs'[i] = runs[i] + 1
            /\ \/ Forgiven(i)' = Forgiven(i) + 1 /\ processed' = processed
               \/ Forgiven(i)' = Forgiven(i) /\ i \in processed'
        <5>1. runs'[i] = runs[i] + 1
          BY <1>2, <2>1, <3>3
        <5>2. CASE unmarked' = unmarked /\ processed' = IF id = NoId THEN processed
                                                        ELSE processed \cup {id}
          BY <2>1, <3>3, <5>1, <5>2 DEF Forgiven
        <5>3. CASE unmarked' = [unmarked EXCEPT ![id] = @ + 1] /\ processed' = processed
          <6>1. unmarked'[i] = unmarked[i] + 1 /\ unmarked[i] \in Nat
            BY <1>2, <3>3, <5>3
          <6>2. \A n, e \in Nat : n * e \in Nat
            OBVIOUS
          <6>3. Cardinality(Workers) * expired[i] \in Nat
            BY <1>2, <3>1, <6>2
          <6> QED  BY <2>1, <5>1, <5>3, <6>1, <6>3 DEF Forgiven
        <5> QED  BY <2>1, <5>1, <5>2, <5>3
      <4> QED  BY <3>1, <3>2, <4>4, <4>5
    <3>4. CASE i # id
      <4>1. Cardinality(Busy(i)') <= Cardinality(Busy(i)) /\ Cardinality(Busy(i)') \in Nat
        BY <1>1, <3>1, FS_Subset, FS_CardinalityType
      <4>2. /\ runs'[i] = runs[i] /\ (i \in processed' <=> i \in processed)
            /\ unmarked'[i] = unmarked[i]
        BY <1>2, <2>1, <3>4
      <4>3. Forgiven(i)' = Forgiven(i)
        BY <2>1, <4>2 DEF Forgiven
      <4> QED  BY <3>1, <3>2, <4>1, <4>2, <4>3
    <3> QED  BY <3>3, <3>4
  <2> QED  BY <2>2, <2>3
<1> QED  BY <1>3, <1>4 DEF HandleEnds

\* handle returns and its copy is acknowledged: the record is resolved.
LEMMA FinishInv ==
    ASSUME PInv, NEW w \in Workers, FinishHandling(w), OInv'
    PROVE  PInv'
<1> PICK m : m = handling[w]
  OBVIOUS
<1>1. /\ HandleEnds(w) /\ UNCHANGED outboxVars /\ interrupts' = interrupts
      /\ Acknowledge(m)
  BY DEF FinishHandling, HandleEnds
<1>2. Resolved(m)'
  BY DEF FinishHandling, HandlerRaises, HandlerReturns, RunCompletes, Resolved
<1>3. OwedOrResolved' /\ queue' \in [1 .. MaxRecords -> Nat]
  <2>1. m \in RecordIds /\ \A q \in Sent : Resolved(q) => Resolved(q)'
    BY <1>1, HandleEndsEffect, ConsumerStepKeepsOutbox
  <2> QED  BY <1>1, <1>2, <2>1, AcknowledgeKeeps
<1>4. PipelineTypeOK'
  BY <1>1, <1>3, HandleEndsTypes, ConsumerStepKeepsOutbox DEF PInv, PipelineTypeOK
<1> QED  BY <1>1, <1>3, <1>4, HandleEndsRuns, ConsumerStepKeepsOutbox DEF PInv

\* A call that fails, or whose worker dies, leaves its copy with the broker.
LEMMA InterruptInv ==
    ASSUME PInv, NEW w \in Workers, InterruptHandling(w), OInv'
    PROVE  PInv'
<1>1. /\ HandleEnds(w) /\ UNCHANGED outboxVars /\ queue' = queue
      /\ interrupts' \in 0 .. MaxInterrupts
  BY PipelineAssumption DEF InterruptHandling, HandleEnds, PInv, PipelineTypeOK
<1>2. PipelineTypeOK'
  BY <1>1, HandleEndsTypes, ConsumerStepKeepsOutbox DEF PInv, PipelineTypeOK
<1>3. OwedOrResolved'
  BY <1>1, HandleEndsEffect, ConsumerStepKeepsOutbox DEF PInv, OwedOrResolved
<1> QED  BY <1>1, <1>2, <1>3, HandleEndsRuns, ConsumerStepKeepsOutbox DEF PInv

\* An expired mark forgives what the workers may run again.
LEMMA ForgetInv ==
    ASSUME PInv, NEW id \in Envelopes, ForgetEvent(id), OInv'
    PROVE  PInv'
<1>1. /\ UNCHANGED outboxVars /\ UNCHANGED <<queue, interrupts>>
      /\ UNCHANGED <<handling, dlq, handled, runs, unmarked>>
      /\ processed' = processed \ {id} /\ expired' = [expired EXCEPT ![id] = @ + 1]
      /\ expired[id] < MaxExpiries
  BY DEF ForgetEvent, Expire
<1>2. /\ runs \in [Envelopes -> Nat] /\ expired \in [Envelopes -> 0 .. MaxExpiries]
      /\ unmarked \in [Envelopes -> Nat]
  BY DEF PInv, PipelineTypeOK
<1>3. PipelineTypeOK'
  BY <1>1, <1>2, PipelineAssumption, ConsumerStepKeepsOutbox DEF PInv, PipelineTypeOK
<1>4. OwedOrResolved' /\ ProcessedWasHandled'
  BY <1>1, ConsumerStepKeepsOutbox DEF PInv, OwedOrResolved, Resolved, ProcessedWasHandled
<1>5. RunsFitWorkers'
  <2> SUFFICES ASSUME NEW i \in Envelopes \ {NoId}
               PROVE  /\ runs'[i] + Cardinality(Busy(i)')
                            <= Cardinality(Workers) + Forgiven(i)'
                      /\ i \notin processed' => runs'[i] <= Forgiven(i)'
    BY DEF RunsFitWorkers
  <2>1. Busy(i)' = Busy(i)
    BY <1>1, ConsumerStepKeepsOutbox DEF Busy
  <2>2. /\ runs[i] \in Nat /\ Cardinality(Busy(i)) \in Nat /\ Cardinality(Workers) \in Nat
        /\ Forgiven(i) \in Nat
    BY <1>2, BusyFinite, ForgivenType DEF PInv
  <2>3. \/ Forgiven(i)' = Forgiven(i) + Cardinality(Workers)
        \/ Forgiven(i)' = Forgiven(i) /\ (i \in processed' <=> i \in processed)
    <3>1. CASE i = id
      <4>1. expired'[i] = expired[i] + 1 /\ expired[i] \in Nat /\ unmarked'[i] = unmarked[i]
        BY <1>1, <1>2, <3>1
      <4>2. Cardinality(Workers) * expired'[i]
              = Cardinality(Workers) * expired[i] + Cardinality(Workers)
        BY <4>1, ForgivenType DEF PInv
      <4>3. \A n, e \in Nat : n * e \in Nat
        OBVIOUS
      <4>4. Cardinality(Workers) * expired[i] \in Nat /\ unmarked[i] \in Nat
        BY <1>2, <2>2, <4>1, <4>3
      <4> QED  BY <2>2, <4>1, <4>2, <4>4 DEF Forgiven
    <3>2. CASE i # id
      BY <1>1, <1>2, <3>2 DEF Forgiven
    <3> QED  BY <3>1, <3>2
  <2> QED  BY <1>1, <2>1, <2>2, <2>3 DEF PInv, RunsFitWorkers
<1> QED  BY <1>1, <1>3, <1>4, <1>5, ConsumerStepKeepsOutbox DEF PInv

-----------------------------------------------------------------------------
(* The theorems *)

\* The empty pipeline satisfies the invariant.
LEMMA PipelineInitInv == PipelineInit => PInv
<1> SUFFICES ASSUME PipelineInit PROVE PInv
  OBVIOUS
<1>1. OInv
  BY OutboxInitInv DEF PipelineInit
<1>2. StoreFits /\ OwedOrResolved /\ ProcessedWasHandled
  BY OutboxAssumption
  DEF PipelineInit, OutboxInit, ConsumerInit, StoreFits, OwedOrResolved, Sent, ProcessedWasHandled
<1>3. PipelineTypeOK
  BY <1>1, PipelineAssumption
  DEF PipelineInit, ConsumerInit, PipelineTypeOK, OInv
<1>4. RunsFitWorkers
  <2> SUFFICES ASSUME NEW id \in Envelopes \ {NoId}
               PROVE  /\ runs[id] + Cardinality(Busy(id)) <= Cardinality(Workers) + Forgiven(id)
                      /\ runs[id] <= Forgiven(id)
    BY DEF RunsFitWorkers
  <2>1. runs[id] = 0
    BY DEF PipelineInit, ConsumerInit
  <2>2. Forgiven(id) \in Nat
    BY <1>3, ForgivenType
  <2> QED  BY <2>1, <2>2, BusyFinite
<1> QED  BY <1>1, <1>2, <1>3, <1>4 DEF PInv

\* Every step of the pipeline preserves it.
LEMMA PipelineNextInv == PInv /\ [PipelineNext]_pipelineVars => PInv'
<1> SUFFICES ASSUME PInv, [PipelineNext]_pipelineVars PROVE PInv'
  OBVIOUS
<1>1. OInv'
  BY PipelineStepsOutbox, OutboxNextInv DEF PInv
<1>2. CASE PipelineNext
  BY <1>1, <1>2, ProduceInv, RelayInv, DeliverInv, FinishInv, InterruptInv, ForgetInv
  DEF PipelineNext
<1>3. CASE UNCHANGED pipelineVars
  <2>1. UNCHANGED outboxVars /\ UNCHANGED consumerVars /\ UNCHANGED <<queue, interrupts>>
    BY <1>3 DEF pipelineVars
  <2>2. PipelineTypeOK' /\ OwedOrResolved'
    BY <2>1, ConsumerStepKeepsOutbox
    DEF PInv, PipelineTypeOK, OwedOrResolved, Resolved, consumerVars
  <2>3. RunsFitWorkers' /\ ProcessedWasHandled'
    BY <2>1, ConsumerStepKeepsOutbox, OutboxStepKeepsRuns
  <2> QED  BY <1>1, <2>1, <2>2, <2>3, ConsumerStepKeepsOutbox DEF PInv
<1> QED  BY <1>2, <1>3

\* The pipeline implements the outbox: a broker that delivers and a consumer
\* that fails change nothing of what the producer's side promises.
THEOREM PipelineRefinesOutbox == PipelineSafety => OutboxSafety
<1>1. PipelineInit => OutboxInit
  BY DEF PipelineInit
<1> QED  BY <1>1, PipelineStepsOutbox, PTL DEF PipelineSafety, OutboxSafety

\* The invariant the theorems below are read off.
THEOREM PipelineInvariance == PipelineSafety => []PInv
  BY PipelineInitInv, PipelineNextInv, PTL DEF PipelineSafety

\* Every variable keeps its type.
THEOREM PipelineTypeCorrect == PipelineSafety => []PipelineTypeOK
<1>1. PInv => PipelineTypeOK
  BY DEF PInv
<1> QED  BY <1>1, PipelineInvariance, PTL

\* No event that was marked published in the outbox is dropped: it is
\* processed, dead-lettered or still owed a delivery.
THEOREM NothingDropped == PipelineSafety => []NeverDropped
<1>1. PInv => NeverDropped
  BY DEF PInv, OInv, PublishedWasSent, OwedOrResolved, NeverDropped
<1> QED  BY <1>1, PipelineInvariance, PTL

\* Only a run that returned marks its event: handle awaits the handler before
\* it marks.
THEOREM MarkedAfterRun == PipelineSafety => []ProcessedWasHandled
<1>1. PInv => ProcessedWasHandled
  BY DEF PInv
<1> QED  BY <1>1, PipelineInvariance, PTL

\* However often an event is delivered, its handler runs to the end at most once
\* per worker, as often again per expired mark, and once per run left unmarked.
THEOREM RepeatsAreBounded == PipelineSafety => []RepeatsBounded
<1>1. PInv => RepeatsBounded
  <2> SUFFICES ASSUME PInv, NEW id \in Envelopes \ {NoId}
               PROVE  runs[id] <= Cardinality(Workers) * (1 + expired[id]) + unmarked[id]
    BY DEF RepeatsBounded
  <2>1. /\ runs[id] \in Nat /\ expired[id] \in Nat /\ unmarked[id] \in Nat
        /\ runs[id] + Cardinality(Busy(id)) <= Cardinality(Workers) + Forgiven(id)
    BY PipelineAssumption DEF PInv, RunsFitWorkers, PipelineTypeOK
  <2>2. Cardinality(Workers) * (1 + expired[id])
          = Cardinality(Workers) * expired[id] + Cardinality(Workers)
    <3>1. \A n, e \in Nat : n * (1 + e) = n * e + n
      OBVIOUS
    <3> QED  BY <2>1, <3>1, BusyFinite
  <2>3. \A n, e \in Nat : n * e \in Nat
    OBVIOUS
  <2>4. Cardinality(Workers) * expired[id] \in Nat
    BY <2>1, <2>3, BusyFinite
  <2> QED  BY <2>1, <2>2, <2>4, BusyFinite DEF Forgiven
<1> QED  BY <1>1, PipelineInvariance, PTL
=============================================================================

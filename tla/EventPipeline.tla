--------------------------- MODULE EventPipeline ----------------------------
(***************************************************************************)
(* From the producer's outbox to the consumer's handler: Outbox and          *)
(* IdempotentConsumer around a broker.  The broker is external: it keeps    *)
(* the copies it took until they are acknowledged, which the consuming      *)
(* service does when handle returns, and may deliver a copy again while an  *)
(* earlier delivery of it is being handled (a visibility timeout, a         *)
(* rebalance, a consumer that died).                                        *)
(***************************************************************************)
EXTENDS Outbox, IdempotentConsumer

CONSTANTS
    MaxInterrupts,      \* bound: calls of handle that fail, crash or are cancelled
    MaxExpiries         \* bound: per event id, the marks that expire

ASSUME PipelineAssumption ==
    /\ MaxInterrupts \in Nat
    /\ MaxExpiries \in Nat
    /\ IsFiniteSet(Workers)
    /\ NoMessage \notin Nat

VARIABLES
    queue,          \* per record: the copies the broker has not had acknowledged
    interrupts      \* failed, crashed or cancelled calls of handle so far

pipelineVars == <<outboxVars, consumerVars, queue, interrupts>>

PipelineInit ==
    /\ OutboxInit
    /\ ConsumerInit(Envelopes)
    /\ queue = [m \in 1 .. MaxRecords |-> 0]
    /\ interrupts = 0

-----------------------------------------------------------------------------
Produce(e) == Add(e) /\ UNCHANGED <<consumerVars, queue, interrupts>>

\* A relay step; when the broker takes the current record it has one more copy.
Relay(k) ==
    \/ /\ RelayStart(k) \/ PublishReturns(k) \/ RelayAborts(k)
       /\ UNCHANGED <<consumerVars, queue, interrupts>>
    \/ /\ BrokerTakes(k)
       /\ \E r \in RecordIds : Current(k, r) /\ queue' = [queue EXCEPT ![r] = @ + 1]
       /\ UNCHANGED <<consumerVars, interrupts>>

\* An acknowledgement of a copy that is gone does nothing.
Acknowledge(m) == queue' = [queue EXCEPT ![m] = IF @ > 0 THEN @ - 1 ELSE 0]

\* Deliver a copy of m to worker w: a seen event is acknowledged at once.
Deliver(w, m) ==
    /\ queue[m] > 0
    /\ \/ Skip(w, records[m]) /\ Acknowledge(m)
       \/ StartHandler(w, m, records[m]) /\ UNCHANGED queue
    /\ UNCHANGED <<outboxVars, interrupts>>

\* handle returns, True or False, and the delivery is acknowledged.
FinishHandling(w) ==
    /\ HandlerRaises(w) \/ HandlerReturns(w, records[handling[w]])
    /\ Acknowledge(handling[w])
    /\ UNCHANGED <<outboxVars, interrupts>>

\* handle does not return, or its worker dies before it acknowledges: the copy
\* stays with the broker, wherever handle had got to.
InterruptHandling(w) ==
    /\ interrupts < MaxInterrupts
    /\ \/ Interrupt(w)
       \/ MarkFails(w, records[handling[w]])
       \/ HandlerReturns(w, records[handling[w]])
       \/ HandlerRaises(w)
    /\ interrupts' = interrupts + 1
    /\ UNCHANGED <<outboxVars, queue>>

ForgetEvent(id) ==
    /\ expired[id] < MaxExpiries
    /\ Expire(id)
    /\ UNCHANGED <<outboxVars, queue, interrupts>>

PipelineNext ==
    \/ \E e \in Envelopes : Produce(e) \/ ForgetEvent(e)
    \/ \E k \in Relays : Relay(k)
    \/ \E w \in Workers :
          \/ FinishHandling(w)
          \/ InterruptHandling(w)
          \/ \E m \in RecordIds : Deliver(w, m)

RelayProgress(k) == Relay(k) /\ RelayStep(k)

DeliverSome(m) == m \in RecordIds /\ \E w \in Workers : Deliver(w, m)

\* The relay loops run, the broker delivers what is not acknowledged, and
\* handlers return or raise.  Failed passes and interrupted handlers are
\* finitely many (MaxAborts, MaxInterrupts).
PipelineFairness ==
    /\ \A k \in Relays : WF_pipelineVars(RelayProgress(k))
    /\ \A m \in 1 .. MaxRecords : WF_pipelineVars(DeliverSome(m))
    /\ \A w \in Workers : WF_pipelineVars(FinishHandling(w))

PipelineSafety == PipelineInit /\ [][PipelineNext]_pipelineVars

PipelineSpec == PipelineSafety /\ PipelineFairness

-----------------------------------------------------------------------------
(* Properties *)

\* Every variable has its type.
PipelineTypeOK ==
    /\ OutboxTypeOK
    /\ handling \in [Workers -> RecordIds \cup {NoMessage}]
    /\ processed \subseteq Envelopes \ {NoId}
    /\ dlq \subseteq RecordIds
    /\ handled \subseteq RecordIds
    /\ runs \in [Envelopes -> Nat]
    /\ unmarked \in [Envelopes -> Nat]
    /\ expired \in [Envelopes -> 0 .. MaxExpiries]
    /\ queue \in [1 .. MaxRecords -> Nat]
    /\ interrupts \in 0 .. MaxInterrupts

\* Record m needs no further delivery: its event was processed, from this or
\* from another record, or it is in the dead-letter queue.
Resolved(m) ==
    \/ m \in handled
    \/ m \in dlq
    \/ records[m] # NoId /\ runs[records[m]] > 0

\* Never silently dropped: an event that was marked published in the outbox is
\* processed, dead-lettered, or still owed a delivery by the broker, through
\* lost acknowledgements, repeats and interrupted handlers.
NeverDropped == \A m \in published : Resolved(m) \/ queue[m] > 0

\* An event id is in the processed store only after a handler run on it has
\* returned: a failed or interrupted run does not use up the event.
ProcessedWasHandled == \A id \in processed : runs[id] > 0

\* Repeats of an event run its handler to the end at most once per worker (the
\* runs that began before the first one was marked), as often again for every
\* time its mark expires, and once for every run that was not marked because
\* mark() failed or the worker crashed first.
RepeatsBounded ==
    \A id \in Envelopes \ {NoId} :
        runs[id] <= Cardinality(Workers) * (1 + expired[id]) + unmarked[id]

\* Every event that is added is processed or dead-lettered in the end.
EventuallyResolved ==
    \A m \in 1 .. MaxRecords : m \in RecordIds ~> (m \in RecordIds /\ Resolved(m))

\* messaging.py, on IdempotentConsumer: it "skips events whose event_id was
\* already processed (at-least-once delivery is safe)".
HandledOnce == \A id \in Envelopes \ {NoId} : runs[id] <= 1
=============================================================================

------------------------- MODULE IdempotentConsumer -------------------------
(***************************************************************************)
(* IdempotentConsumer.handle (messaging.py), run by concurrent workers that *)
(* share a processed store and a dead-letter queue.  In production both     *)
(* are outside the process and survive it.                                  *)
(*                                                                         *)
(* handle suspends only in "await self._handler(envelope)": the seen check  *)
(* is made before it, the mark after it.  The stores may fail: handle then  *)
(* raises, and a seen() or a send() that raises leaves what an interrupted  *)
(* handler leaves.  A message is an opaque value; its envelope is its event *)
(* id, or NoId for an envelope without one.                                 *)
(***************************************************************************)
EXTENDS Naturals, FiniteSets

CONSTANTS
    Workers,        \* concurrent handle calls
    NoId,           \* the event id of an envelope that has none
    NoMessage       \* what an idle worker handles

VARIABLES
    handling,       \* per worker: the message its handler runs on
    processed,      \* the event ids marked in the ProcessedStore
    dlq,            \* the messages in the dead-letter queue
    handled,        \* history: the messages whose handler returned
    runs,           \* history: per event id, the handler runs that returned
    unmarked,       \* history: per event id, those that were not marked
    expired         \* history: per event id, the marks that were dropped

consumerVars == <<handling, processed, dlq, handled, runs, unmarked, expired>>

ConsumerInit(Ids) ==
    /\ handling = [w \in Workers |-> NoMessage]
    /\ processed = {}
    /\ dlq = {}
    /\ handled = {}
    /\ runs = [id \in Ids |-> 0]
    /\ unmarked = [id \in Ids |-> 0]
    /\ expired = [id \in Ids |-> 0]

-----------------------------------------------------------------------------
\* The processed store is never asked.
NeverSeen(id) == FALSE

\* event_id and self._processed.seen(event_id)
AlreadySeen(id) == id # NoId /\ id \in processed

\* The seen check finds the event: handle returns False.
Skip(w, id) ==
    /\ handling[w] = NoMessage
    /\ AlreadySeen(id)
    /\ UNCHANGED consumerVars

\* The event id is marked before the handler runs.
MarksEarly(w, m, id) ==
    /\ handling[w] = NoMessage
    /\ ~AlreadySeen(id)
    /\ handling' = [handling EXCEPT ![w] = m]
    /\ processed' = IF id = NoId THEN processed ELSE processed \cup {id}
    /\ UNCHANGED <<dlq, handled, runs, unmarked, expired>>

\* The seen check passes and the handler is awaited.
StartHandler(w, m, id) ==
    /\ handling[w] = NoMessage
    /\ ~AlreadySeen(id)
    /\ handling' = [handling EXCEPT ![w] = m]
    /\ UNCHANGED <<processed, dlq, handled, runs, unmarked, expired>>

\* The handler has run to its end.
RunCompletes(w, id) ==
    /\ handling[w] # NoMessage
    /\ handling' = [handling EXCEPT ![w] = NoMessage]
    /\ handled' = handled \cup {handling[w]}
    /\ runs' = [runs EXCEPT ![id] = @ + 1]

\* The handler returns and the event is marked; handle returns True.
HandlerReturns(w, id) ==
    /\ RunCompletes(w, id)
    /\ processed' = IF id = NoId THEN processed ELSE processed \cup {id}
    /\ UNCHANGED <<dlq, unmarked, expired>>

\* The handler returns, but mark() raises or the worker crashes before it.
MarkFails(w, id) ==
    /\ RunCompletes(w, id)
    /\ id # NoId
    /\ unmarked' = [unmarked EXCEPT ![id] = @ + 1]
    /\ UNCHANGED <<processed, dlq, expired>>

\* The retention window of the store ends for an event id.
Expire(id) ==
    /\ id \in processed
    /\ processed' = processed \ {id}
    /\ expired' = [expired EXCEPT ![id] = @ + 1]
    /\ UNCHANGED <<handling, dlq, handled, runs, unmarked>>

\* The exception is swallowed and the event goes nowhere.
Swallows(w) ==
    /\ handling[w] # NoMessage
    /\ handling' = [handling EXCEPT ![w] = NoMessage]
    /\ UNCHANGED <<processed, dlq, handled, runs, unmarked, expired>>

\* The handler raises: the event is dead-lettered, not marked; handle returns
\* False.
HandlerRaises(w) ==
    /\ handling[w] # NoMessage
    /\ handling' = [handling EXCEPT ![w] = NoMessage]
    /\ dlq' = dlq \cup {handling[w]}
    /\ UNCHANGED <<processed, handled, runs, unmarked, expired>>

\* The worker crashes or its task is cancelled in the handler (CancelledError is
\* no Exception), or the handler raises and so does the dead-letter queue:
\* nothing is dead-lettered or marked.
Interrupt(w) ==
    /\ handling[w] # NoMessage
    /\ handling' = [handling EXCEPT ![w] = NoMessage]
    /\ UNCHANGED <<processed, dlq, handled, runs, unmarked, expired>>
=============================================================================

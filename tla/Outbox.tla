------------------------------- MODULE Outbox -------------------------------
(***************************************************************************)
(* The transactional outbox and its relay processes (messaging.py).         *)
(*                                                                         *)
(* A record is named by its position in the store, which stands for its     *)
(* uuid.  The store survives a relay (in production it is a table of the    *)
(* service's database); a relay process holds nothing but the rest of the   *)
(* batch that its relay_once has listed.  publish is the service's own      *)
(* callable: the broker may take the envelope and the acknowledgement still *)
(* be lost, so taking it and returning are separate steps.                  *)
(***************************************************************************)
EXTENDS Naturals, Sequences, FiniteSets

CONSTANTS
    Envelopes,      \* the envelopes producers hand over
    Relays,         \* concurrent relay processes
    Limit,          \* the limit argument of relay_once
    MaxRecords,     \* bound: records ever added
    MaxAborts       \* bound: relay passes that fail or crash

ASSUME OutboxAssumption ==
    /\ Limit \in Nat \ {0}
    /\ MaxRecords \in Nat
    /\ MaxAborts \in Nat

VARIABLES
    records,        \* InMemoryOutbox._records: the envelope of each record
    published,      \* the records whose published flag is set
    batch,          \* per relay: the records of its pass it has not finished
    taken,          \* the relays whose current publish the broker has taken
    arrivals,       \* history: the records as the broker first took them
    aborts          \* failed or crashed passes so far

outboxVars == <<records, published, batch, taken, arrivals, aborts>>

RecordIds == 1 .. Len(records)

\* The records the broker has taken at least once.
Sent == {arrivals[i] : i \in 1 .. Len(arrivals)}

OutboxInit ==
    /\ records = <<>>
    /\ published = {}
    /\ batch = [k \in Relays |-> {}]
    /\ taken = {}
    /\ arrivals = <<>>
    /\ aborts = 0

-----------------------------------------------------------------------------
\* The batch starts at the newest unpublished records.
NewestFirst(unpublished) ==
    {r \in unpublished : Cardinality({q \in unpublished : q >= r}) <= Limit}

\* list_unpublished(limit): the first limit of them, oldest first.
Listed(unpublished) ==
    {r \in unpublished : Cardinality({q \in unpublished : q <= r}) <= Limit}

\* The record relay k is publishing: a batch is walked oldest first.
Current(k, r) == r \in batch[k] /\ \A q \in batch[k] : r <= q

\* add(record), in the transaction of the producer's state change.
Add(e) ==
    /\ Len(records) < MaxRecords
    /\ records' = Append(records, e)
    /\ UNCHANGED <<published, batch, taken, arrivals, aborts>>

\* relay_once lists its batch and starts to publish the first record.
RelayStart(k) ==
    /\ batch[k] = {}
    /\ RecordIds \ published # {}
    /\ batch' = [batch EXCEPT ![k] = Listed(RecordIds \ published)]
    /\ UNCHANGED <<records, published, taken, arrivals, aborts>>

\* The record is marked as soon as it is handed to publish.
MarksFirst(k) ==
    \E r \in RecordIds :
        /\ Current(k, r)
        /\ k \notin taken
        /\ taken' = taken \cup {k}
        /\ published' = published \cup {r}
        /\ arrivals' = arrivals
        /\ UNCHANGED <<records, batch, aborts>>

\* The broker takes the envelope that relay k is publishing.
BrokerTakes(k) ==
    \E r \in RecordIds :
        /\ Current(k, r)
        /\ k \notin taken
        /\ taken' = taken \cup {k}
        /\ arrivals' = IF r \in Sent THEN arrivals ELSE Append(arrivals, r)
        /\ UNCHANGED <<records, published, batch, aborts>>

\* The record is not marked.
NeverMarks(k) ==
    \E r \in RecordIds :
        /\ Current(k, r)
        /\ k \in taken
        /\ batch' = [batch EXCEPT ![k] = @ \ {r}]
        /\ taken' = taken \ {k}
        /\ UNCHANGED <<records, published, arrivals, aborts>>

\* The record after the current one is marked.
MarksNext(k) ==
    \E r \in RecordIds :
        /\ Current(k, r)
        /\ k \in taken
        /\ published' = published \cup {r + 1}
        /\ batch' = [batch EXCEPT ![k] = @ \ {r}]
        /\ taken' = taken \ {k}
        /\ UNCHANGED <<records, arrivals, aborts>>

\* publish returns: mark_published, then the next record of the batch.
PublishReturns(k) ==
    \E r \in RecordIds :
        /\ Current(k, r)
        /\ k \in taken
        /\ published' = published \cup {r}
        /\ batch' = [batch EXCEPT ![k] = @ \ {r}]
        /\ taken' = taken \ {k}
        /\ UNCHANGED <<records, arrivals, aborts>>

\* A failed publish skips its record and goes on with the batch.
SkipsRecord(k) ==
    \E r \in RecordIds :
        /\ Current(k, r)
        /\ aborts < MaxAborts
        /\ batch' = [batch EXCEPT ![k] = @ \ {r}]
        /\ taken' = taken \ {k}
        /\ aborts' = aborts + 1
        /\ UNCHANGED <<records, published, arrivals>>

\* publish raises, out of relay_once and its whole batch, before or after the
\* broker has taken the envelope.  A crash of the relay process is the same
\* step: all that is lost is the rest of the batch.
RelayAborts(k) ==
    /\ batch[k] # {}
    /\ aborts < MaxAborts
    /\ batch' = [batch EXCEPT ![k] = {}]
    /\ taken' = taken \ {k}
    /\ aborts' = aborts + 1
    /\ UNCHANGED <<records, published, arrivals>>

RelayStep(k) == RelayStart(k) \/ BrokerTakes(k) \/ PublishReturns(k)

OutboxNext ==
    \/ \E e \in Envelopes : Add(e)
    \/ \E k \in Relays : RelayStep(k) \/ RelayAborts(k)

OutboxSafety == OutboxInit /\ [][OutboxNext]_outboxVars

\* "A separate relay process calls relay_once on a loop", and a publish that
\* does not fail returns.  Failures are finitely many (MaxAborts).
OutboxFairness == \A k \in Relays : WF_outboxVars(RelayStep(k))

OutboxSpec == OutboxSafety /\ OutboxFairness

-----------------------------------------------------------------------------
(* Properties *)

\* Every variable has its type.
OutboxTypeOK ==
    /\ records \in Seq(Envelopes)
    /\ published \subseteq RecordIds
    /\ batch \in [Relays -> SUBSET RecordIds]
    /\ taken \subseteq Relays
    /\ arrivals \in Seq(RecordIds)
    /\ aborts \in 0 .. MaxAborts

\* No event is lost: a record that will not be listed again is with the broker
\* (relay_once publishes before it marks).
PublishedWasSent == published \subseteq Sent

\* The broker first sees the records in the order they were added, with any
\* number of relays and failed passes: a record never overtakes an older one
\* that the broker has not seen (relay_once gives up its batch on a failure).
FirstSendInOrder == \A i \in 1 .. Len(arrivals) : arrivals[i] = i

\* The envelopes of the first arrivals.
Forwarded == [i \in 1 .. Len(arrivals) |-> records[arrivals[i]]]

Feed == INSTANCE EventFeed WITH log <- records, forwarded <- Forwarded

\* The outbox implements the feed: the broker first takes the envelopes one by
\* one in the order they were added, and takes all of them in the end.
ImplementsFeed == Feed!FeedSpec

\* Every record is marked published in the end, so that relaying comes to rest.
AllPublished == \A r \in 1 .. MaxRecords : r \in RecordIds ~> r \in published
=============================================================================

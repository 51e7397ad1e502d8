---------------------------- MODULE OutboxProofs ----------------------------
(***************************************************************************)
(* The outbox loses nothing and feeds the broker in order, for any number   *)
(* of relays, records and failed passes, and any limit.                     *)
(*                                                                         *)
(* In-order arrival is not inductive: it rests on what a relay holds.       *)
(* Every record older than one in a relay's batch is with the broker or in  *)
(* the same batch (BatchesReachBack), which is true of a fresh batch        *)
(* because a listing leaves out only published records, and those were      *)
(* sent, and newer ones; and a relay whose publish the broker has taken     *)
(* stands at a record that was sent (TakenWasSent).                         *)
(***************************************************************************)
EXTENDS Outbox, FiniteSetTheorems, TLAPS

\* A record older than one in a batch is with the broker or in the batch too.
BatchesReachBack ==
    \A k \in Relays : \A b \in batch[k] : \A q \in 1 .. (b - 1) : q \in Sent \/ q \in batch[k]

\* The record at which a relay's publish was taken is with the broker.
TakenWasSent ==
    \A k \in taken : batch[k] # {} /\ \A r \in RecordIds : Current(k, r) => r \in Sent

OInv ==
    /\ OutboxTypeOK
    /\ PublishedWasSent
    /\ FirstSendInOrder
    /\ BatchesReachBack
    /\ TakenWasSent

-----------------------------------------------------------------------------
\* In-order arrival makes the records sent an initial segment.
LEMMA SentIsPrefix ==
    ASSUME OutboxTypeOK, FirstSendInOrder
    PROVE  Sent = 1 .. Len(arrivals) /\ Len(arrivals) \in Nat
  BY DEF OutboxTypeOK, FirstSendInOrder, Sent

\* What list_unpublished leaves out is newer than all it returns.
LEMMA ListedReachesBack ==
    ASSUME NEW n \in Nat, NEW U \in SUBSET (1 .. n), NEW b \in Listed(U), NEW q \in U, q <= b
    PROVE  q \in Listed(U)
<1> DEFINE upTo(r) == {p \in U : p <= r}
<1>1. IsFiniteSet(1 .. n)
  BY FS_Interval
<1>2. IsFiniteSet(upTo(b)) /\ upTo(b) \subseteq 1 .. n
  BY <1>1, FS_Subset
<1>3. upTo(q) \subseteq upTo(b)
  <2>1. b \in 1 .. n /\ q \in 1 .. n /\ U \subseteq 1 .. n
    BY DEF Listed
  <2>2. ASSUME NEW p \in U, p <= q PROVE p <= b
    BY <2>1, <2>2
  <2> QED  BY <2>2
<1>4. /\ Cardinality(upTo(q)) <= Cardinality(upTo(b))
      /\ Cardinality(upTo(q)) \in Nat /\ Cardinality(upTo(b)) \in Nat
  BY <1>2, <1>3, FS_Subset, FS_CardinalityType
<1>5. Cardinality(upTo(b)) <= Limit
  BY DEF Listed
<1> QED  BY <1>4, <1>5, OutboxAssumption DEF Listed

\* The empty outbox satisfies the invariant.
LEMMA OutboxInitInv == OutboxInit => OInv
  BY OutboxAssumption
  DEF OutboxInit, OInv, OutboxTypeOK, PublishedWasSent, FirstSendInOrder, BatchesReachBack,
      TakenWasSent, RecordIds, Sent

\* A new record is newer than all others and disturbs nothing.
LEMMA AddInv ==
    ASSUME OInv, NEW e \in Envelopes, Add(e)
    PROVE  OInv'
<1>1. records' \in Seq(Envelopes) /\ Len(records') = Len(records) + 1 /\ Len(records) \in Nat
  BY DEF OInv, OutboxTypeOK, Add
<1>2. RecordIds \subseteq RecordIds' /\ Sent' = Sent
  BY <1>1 DEF RecordIds, Sent, Add
<1>3. OutboxTypeOK'
  BY <1>1, <1>2 DEF OInv, OutboxTypeOK, Add, RecordIds
<1>4. TakenWasSent'
  <2> SUFFICES ASSUME NEW k \in taken', NEW r \in RecordIds', Current(k, r)'
               PROVE  r \in Sent'
    BY DEF TakenWasSent, OInv, Add
  <2>1. k \in taken /\ Current(k, r) /\ r \in RecordIds
    BY DEF Add, Current, OInv, OutboxTypeOK
  <2> QED  BY <1>2, <2>1 DEF OInv, TakenWasSent
<1> QED
  BY <1>2, <1>3, <1>4
  DEF OInv, PublishedWasSent, FirstSendInOrder, BatchesReachBack, Add

\* A fresh batch holds every record older than its members that may be unsent.
LEMMA RelayStartInv ==
    ASSUME OInv, NEW k \in Relays, RelayStart(k)
    PROVE  OInv'
<1> DEFINE U == RecordIds \ published
<1>1. U \in SUBSET (1 .. Len(records)) /\ Len(records) \in Nat /\ Listed(U) \subseteq U
  BY DEF RecordIds, Listed, OInv, OutboxTypeOK
<1>2. batch' = [batch EXCEPT ![k] = Listed(U)] /\ Sent' = Sent /\ RecordIds' = RecordIds
  BY DEF RelayStart, Sent, RecordIds
<1>3. OutboxTypeOK'
  BY <1>1, <1>2 DEF OInv, OutboxTypeOK, RelayStart
<1>4. BatchesReachBack'
  <2> SUFFICES ASSUME NEW j \in Relays, NEW b \in batch'[j], NEW q \in 1 .. (b - 1)
               PROVE  q \in Sent \/ q \in batch'[j]
    BY <1>2 DEF BatchesReachBack
  <2>1. CASE j # k
    BY <1>2, <2>1 DEF OInv, OutboxTypeOK, BatchesReachBack
  <2>2. CASE j = k
    <3>1. batch'[k] = Listed(U)
      BY <1>2 DEF OInv, OutboxTypeOK
    <3>2. b \in Listed(U)
      BY <2>2, <3>1
    <3>3. b \in 1 .. Len(records)
      BY <1>1, <3>2
    <3>4. q \in 1 .. Len(records) /\ q <= b
      BY <1>1, <3>3
    <3>5. CASE q \in published
      BY <3>5 DEF OInv, PublishedWasSent
    <3>6. CASE q \notin published
      <4>1. q \in U
        BY <3>4, <3>6 DEF RecordIds
      <4>2. q \in Listed(U)
        BY <1>1, <3>2, <3>4, <4>1, ListedReachesBack
      <4> QED  BY <2>2, <3>1, <4>2
    <3> QED  BY <3>5, <3>6
  <2> QED  BY <2>1, <2>2
<1>5. TakenWasSent'
  <2>1. k \notin taken
    BY DEF OInv, TakenWasSent, RelayStart
  <2>2. \A j \in taken : j \in Relays /\ batch'[j] = batch[j]
    BY <1>2, <2>1 DEF OInv, OutboxTypeOK
  <2> QED  BY <1>2, <2>2 DEF OInv, TakenWasSent, RelayStart, Current
<1> QED
  BY <1>2, <1>3, <1>4, <1>5 DEF OInv, PublishedWasSent, FirstSendInOrder, RelayStart

\* The record the broker takes is already with it, or is the next in order.
LEMMA TakesInOrder ==
    ASSUME OInv, NEW k \in Relays, NEW r \in RecordIds, Current(k, r), r \notin Sent
    PROVE  r = Len(arrivals) + 1 /\ Len(arrivals) < Len(records)
<1>1. Sent = 1 .. Len(arrivals) /\ Len(arrivals) \in Nat
  BY SentIsPrefix DEF OInv
<1>2. r \in 1 .. Len(records) /\ Len(records) \in Nat
  BY DEF OInv, OutboxTypeOK, RecordIds
<1>3. \A q \in 1 .. (r - 1) : q \in Sent
  <2> SUFFICES ASSUME NEW q \in 1 .. (r - 1) PROVE q \in Sent
    OBVIOUS
  <2>1. q \in Sent \/ q \in batch[k]
    BY DEF OInv, BatchesReachBack, Current
  <2>2. q \notin batch[k]
    BY <1>2 DEF Current
  <2> QED  BY <2>1, <2>2
<1>4. r > Len(arrivals)
  BY <1>1, <1>2
<1>5. r - 1 <= Len(arrivals)
  <2> SUFFICES ASSUME r - 1 > Len(arrivals) PROVE FALSE
    BY <1>1, <1>2
  <2>1. r - 1 \in 1 .. (r - 1)
    BY <1>1, <1>2
  <2> QED  BY <1>1, <1>2, <1>3, <2>1
<1> QED  BY <1>1, <1>2, <1>4, <1>5

\* A record that the broker takes for the first time is the next of the log.
LEMMA BrokerTakesInv ==
    ASSUME OInv, NEW k \in Relays, BrokerTakes(k)
    PROVE  OInv'
<1>1. PICK r \in RecordIds :
        /\ Current(k, r)
        /\ taken' = taken \cup {k}
        /\ arrivals' = IF r \in Sent THEN arrivals ELSE Append(arrivals, r)
        /\ UNCHANGED <<records, published, batch, aborts>>
  BY DEF BrokerTakes
<1>2. RecordIds' = RecordIds
  BY <1>1 DEF RecordIds
<1>3. arrivals' \in Seq(RecordIds)
  BY <1>1 DEF OInv, OutboxTypeOK
<1>4. Sent \subseteq Sent' /\ r \in Sent'
  <2>1. CASE r \in Sent
    BY <1>1, <2>1 DEF Sent
  <2>2. CASE r \notin Sent
    <3>1. /\ arrivals \in Seq(RecordIds) /\ Len(arrivals) \in Nat
          /\ Len(arrivals') = Len(arrivals) + 1 /\ arrivals'[Len(arrivals) + 1] = r
          /\ \A i \in 1 .. Len(arrivals) : arrivals'[i] = arrivals[i]
      BY <1>1, <2>2 DEF OInv, OutboxTypeOK
    <3> QED  BY <3>1 DEF Sent
  <2> QED  BY <2>1, <2>2
<1>5. OutboxTypeOK'
  BY <1>1, <1>2, <1>3 DEF OInv, OutboxTypeOK
<1>6. FirstSendInOrder'
  <2>1. CASE r \in Sent
    BY <1>1, <2>1 DEF OInv, FirstSendInOrder
  <2>2. CASE r \notin Sent
    <3>1. r = Len(arrivals) + 1
      BY <1>1, <2>2, TakesInOrder
    <3> QED  BY <1>1, <2>2, <3>1 DEF OInv, OutboxTypeOK, FirstSendInOrder
  <2> QED  BY <2>1, <2>2
<1>7. TakenWasSent'
  <2> SUFFICES ASSUME NEW j \in taken'
               PROVE  batch[j] # {} /\ \A p \in RecordIds : Current(j, p) => p \in Sent'
    BY <1>1, <1>2 DEF TakenWasSent, Current
  <2>1. CASE j = k
    <3>1. \A p \in RecordIds : Current(k, p) => p = r
      BY <1>1 DEF Current, RecordIds
    <3> QED  BY <1>1, <1>4, <2>1, <3>1 DEF Current
  <2>2. CASE j # k
    BY <1>1, <1>4, <2>2 DEF OInv, TakenWasSent
  <2> QED  BY <2>1, <2>2
<1>8. PublishedWasSent' /\ BatchesReachBack'
  BY <1>1, <1>4 DEF OInv, PublishedWasSent, BatchesReachBack
<1> QED  BY <1>5, <1>6, <1>7, <1>8 DEF OInv

\* mark_published marks a record that the broker has taken.
LEMMA PublishReturnsInv ==
    ASSUME OInv, NEW k \in Relays, PublishReturns(k)
    PROVE  OInv'
<1>1. PICK r \in RecordIds :
        /\ Current(k, r)
        /\ k \in taken
        /\ published' = published \cup {r}
        /\ batch' = [batch EXCEPT ![k] = @ \ {r}]
        /\ taken' = taken \ {k}
        /\ UNCHANGED <<records, arrivals, aborts>>
  BY DEF PublishReturns
<1>2. RecordIds' = RecordIds /\ Sent' = Sent
  BY <1>1 DEF RecordIds, Sent
<1>3. r \in Sent
  BY <1>1 DEF OInv, TakenWasSent
<1>4. OutboxTypeOK'
  BY <1>1, <1>2 DEF OInv, OutboxTypeOK
<1>5. BatchesReachBack'
  BY <1>1, <1>2, <1>3 DEF OInv, OutboxTypeOK, BatchesReachBack
<1>6. TakenWasSent'
  <2>1. \A j \in taken' : j \in taken /\ batch'[j] = batch[j]
    BY <1>1 DEF OInv, OutboxTypeOK
  <2> QED  BY <1>2, <2>1 DEF OInv, TakenWasSent, Current
<1> QED
  BY <1>1, <1>2, <1>3, <1>4, <1>5, <1>6 DEF OInv, PublishedWasSent, FirstSendInOrder

\* A failed pass or a crash only forgets the rest of the batch.
LEMMA RelayAbortsInv ==
    ASSUME OInv, NEW k \in Relays, RelayAborts(k)
    PROVE  OInv'
<1>1. RecordIds' = RecordIds /\ Sent' = Sent
  BY DEF RelayAborts, RecordIds, Sent
<1>2. OutboxTypeOK'
  BY <1>1, OutboxAssumption DEF OInv, OutboxTypeOK, RelayAborts
<1>3. BatchesReachBack'
  BY <1>1 DEF OInv, OutboxTypeOK, BatchesReachBack, RelayAborts
<1>4. TakenWasSent'
  <2>1. \A j \in taken' : j \in taken /\ batch'[j] = batch[j]
    BY DEF OInv, OutboxTypeOK, RelayAborts
  <2> QED  BY <1>1, <2>1 DEF OInv, TakenWasSent, Current
<1> QED
  BY <1>1, <1>2, <1>3, <1>4 DEF OInv, PublishedWasSent, FirstSendInOrder, RelayAborts

\* Every step of producers, relays and broker preserves the invariant.
LEMMA OutboxNextInv == OInv /\ [OutboxNext]_outboxVars => OInv'
<1> SUFFICES ASSUME OInv, [OutboxNext]_outboxVars PROVE OInv'
  OBVIOUS
<1>1. CASE OutboxNext
  BY <1>1, AddInv, RelayStartInv, BrokerTakesInv, PublishReturnsInv, RelayAbortsInv
  DEF OutboxNext, RelayStep
<1>2. CASE UNCHANGED outboxVars
  BY <1>2
  DEF outboxVars, OInv, OutboxTypeOK, PublishedWasSent, FirstSendInOrder, BatchesReachBack,
      TakenWasSent, RecordIds, Sent, Current
<1> QED  BY <1>1, <1>2

-----------------------------------------------------------------------------
(* The theorems *)

\* The invariant the theorems below are read off.
THEOREM OutboxInvariance == OutboxSafety => []OInv
  BY OutboxInitInv, OutboxNextInv, PTL DEF OutboxSafety

\* Every variable keeps its type.
THEOREM OutboxTypeCorrect == OutboxSafety => []OutboxTypeOK
<1>1. OInv => OutboxTypeOK
  BY DEF OInv
<1> QED  BY <1>1, OutboxInvariance, PTL

\* A record marked published is with the broker: no event is lost, whatever
\* passes fail or crash.
THEOREM NothingLost == OutboxSafety => []PublishedWasSent
<1>1. OInv => PublishedWasSent
  BY DEF OInv
<1> QED  BY <1>1, OutboxInvariance, PTL

\* The broker first takes the records in the order they were added.
THEOREM ArrivalInOrder == OutboxSafety => []FirstSendInOrder
<1>1. OInv => FirstSendInOrder
  BY DEF OInv
<1> QED  BY <1>1, OutboxInvariance, PTL

\* The outbox implements the safety part of EventFeed: first arrivals are the
\* records one by one in the order they were added.
THEOREM OutboxRefinesFeed == OutboxSafety => Feed!FeedSafety
<1>1. OutboxInit => Feed!FeedInit
  BY DEF OutboxInit, Feed!FeedInit, Forwarded
<1>2. OInv /\ OInv' /\ [OutboxNext]_outboxVars => [Feed!FeedNext]_(Feed!feedVars)
  <2> SUFFICES ASSUME OInv, OInv', [OutboxNext]_outboxVars
               PROVE  Feed!FeedNext \/ (records' = records /\ Forwarded' = Forwarded)
    BY DEF Feed!feedVars
  <2>1. \A i \in 1 .. Len(arrivals) : arrivals[i] = i /\ i \in 1 .. Len(records)
    BY SentIsPrefix DEF OInv, OutboxTypeOK, FirstSendInOrder, RecordIds
  <2>2. records \in Seq(Envelopes) /\ arrivals \in Seq(RecordIds) /\ Len(arrivals) \in Nat
    BY DEF OInv, OutboxTypeOK
  <2>3. ASSUME NEW e \in Envelopes, Add(e) PROVE Feed!Submit(e)
    <3>1. records' = Append(records, e) /\ arrivals' = arrivals
      BY <2>3 DEF Add
    <3>2. \A i \in 1 .. Len(arrivals) : records'[arrivals[i]] = records[arrivals[i]]
      BY <2>1, <2>2, <3>1
    <3>3. Forwarded' = Forwarded
      BY <3>1, <3>2 DEF Forwarded
    <3> QED  BY <3>1, <3>3 DEF Feed!Submit
  <2>4. ASSUME NEW k \in Relays, BrokerTakes(k)
        PROVE  Feed!Forward \/ (records' = records /\ Forwarded' = Forwarded)
    <3>1. PICK r \in RecordIds :
            /\ Current(k, r)
            /\ arrivals' = IF r \in Sent THEN arrivals ELSE Append(arrivals, r)
            /\ records' = records
      BY <2>4 DEF BrokerTakes
    <3>2. CASE r \in Sent
      BY <3>1, <3>2 DEF Forwarded
    <3>3. CASE r \notin Sent
      <4>1. r = Len(arrivals) + 1 /\ Len(arrivals) < Len(records)
        BY <3>1, <3>3, TakesInOrder
      <4>2. Forwarded \in Seq(Envelopes) /\ Len(Forwarded) = Len(arrivals)
        BY <2>1, <2>2 DEF Forwarded
      <4>3. /\ Len(arrivals') = Len(arrivals) + 1
            /\ arrivals'[Len(arrivals) + 1] = r
            /\ \A i \in 1 .. Len(arrivals) : arrivals'[i] = arrivals[i]
        BY <2>2, <3>1, <3>3
      <4>4. Forwarded' = Append(Forwarded, records[r])
        BY <2>2, <3>1, <4>2, <4>3 DEF Forwarded
      <4> QED  BY <3>1, <4>1, <4>2, <4>4 DEF Feed!Forward
    <3> QED  BY <3>2, <3>3
  <2>5. ASSUME NEW k \in Relays, RelayStart(k) \/ PublishReturns(k) \/ RelayAborts(k)
        PROVE  records' = records /\ Forwarded' = Forwarded
    BY <2>5 DEF RelayStart, PublishReturns, RelayAborts, Forwarded
  <2>6. CASE UNCHANGED outboxVars
    BY <2>6 DEF outboxVars, Forwarded
  <2> QED
    BY <2>3, <2>4, <2>5, <2>6 DEF OutboxNext, RelayStep, Feed!FeedNext
<1> QED  BY <1>1, <1>2, OutboxInvariance, PTL DEF OutboxSafety, Feed!FeedSafety
=============================================================================

----------------------------- MODULE EventFeed ------------------------------
(***************************************************************************)
(* What the transactional outbox promises of its feed to the broker, repeats *)
(* left out: records are appended to a log, and reach the broker for the    *)
(* first time one by one in the order of the log, all of them eventually.   *)
(***************************************************************************)
EXTENDS Naturals, Sequences

CONSTANT Envelopes

VARIABLES
    log,        \* the envelopes handed over, in order
    forwarded   \* the envelopes as they first reached the broker

feedVars == <<log, forwarded>>

FeedInit == log = <<>> /\ forwarded = <<>>

Submit(e) == log' = Append(log, e) /\ UNCHANGED forwarded

Forward ==
    /\ Len(forwarded) < Len(log)
    /\ forwarded' = Append(forwarded, log[Len(forwarded) + 1])
    /\ UNCHANGED log

FeedNext == Forward \/ \E e \in Envelopes : Submit(e)

FeedSafety == FeedInit /\ [][FeedNext]_feedVars

FeedSpec == FeedSafety /\ WF_feedVars(Forward)
=============================================================================

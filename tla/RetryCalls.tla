----------------------------- MODULE RetryCalls -----------------------------
(***************************************************************************)
(* Concurrent retry_async calls (resilience.py) that share one breaker, as  *)
(* the requests of one ServiceClient do.  The tasks run on one event loop:  *)
(* everything between two awaits is one step.  A call suspends in           *)
(* "await func()" (pc running) and in "await sleep(...)" (pc backoff); func *)
(* may also complete without suspending.                                    *)
(*                                                                         *)
(* func ends in one of three ways:                                         *)
(*   "ok"         it returns a result;                                     *)
(*   "retryable"  it raises one of policy.retry_on;                        *)
(*   "other"      it raises anything else (CancelledError included), which  *)
(*                leaves retry_async at once with nothing recorded.        *)
(*                                                                         *)
(* The delay of compute_backoff is uniform in [0, capped] with the default  *)
(* full jitter, so a sleeping call may wake at any moment.                  *)
(***************************************************************************)
EXTENDS CircuitBreaker

CONSTANTS
    Calls,          \* slots for concurrent calls; a slot is reused call after call
    MaxAttempts     \* policy.max_attempts

ASSUME AttemptsAssumption == MaxAttempts \in Nat \ {0}

VARIABLES
    breaker,        \* the shared CircuitBreaker
    calls,          \* per slot: where the call is and its attempt number
    failStreak,     \* history: failures recorded since the last recorded success
    okStreak        \* history: successes recorded since the last recorded failure

vars == <<breaker, calls, failStreak, okStreak>>

Outcomes == {"ok", "retryable", "other"}

\* "returned", "raised", "refused" and "aborted" are how the slot's last call
\* ended: result, last_exc, CircuitBreakerOpen, an exception that is not retried.
Ended == {"returned", "raised", "refused", "aborted"}

CallStates == [pc : {"idle", "running", "backoff"} \cup Ended, attempt : 0 .. MaxAttempts]

Init ==
    /\ breaker = NewBreaker
    /\ calls = [c \in Calls |-> [pc |-> "idle", attempt |-> 0]]
    /\ failStreak = 0
    /\ okStreak = 0

-----------------------------------------------------------------------------
\* The attempt number the loop of call c is about to use.
Upcoming(c) == IF calls[c].pc = "backoff" THEN calls[c].attempt + 1 ELSE 1

AtLoopHead(c) == calls[c].pc \in {"idle", "backoff"} \cup Ended

\* What an outcome does to the breaker.
Recorded(b, o) ==
    CASE o = "ok"        -> RecordSuccess(b)
      [] o = "retryable" -> RecordFailure(b)
      [] o = "other"     -> b

\* The retry loop has no attempt limit left: the counter stays below it.
NeverExhausted(a, o) ==
    CASE o = "ok"        -> [pc |-> "returned", attempt |-> a]
      [] o = "retryable" -> [pc |-> "backoff", attempt |-> IF a >= MaxAttempts THEN a - 1 ELSE a]
      [] o = "other"     -> [pc |-> "aborted", attempt |-> a]

\* The last-attempt test is > instead of >=.
OneTooMany(a, o) ==
    CASE o = "ok"        -> [pc |-> "returned", attempt |-> a]
      [] o = "retryable" -> [pc |-> IF a > MaxAttempts THEN "raised" ELSE "backoff", attempt |-> a]
      [] o = "other"     -> [pc |-> "aborted", attempt |-> a]

\* Where attempt a leaves its call: result, raise, or back off and go round.
Continued(a, o) ==
    CASE o = "ok"        -> [pc |-> "returned", attempt |-> a]
      [] o = "retryable" -> [pc |-> IF a >= MaxAttempts THEN "raised" ELSE "backoff", attempt |-> a]
      [] o = "other"     -> [pc |-> "aborted", attempt |-> a]

\* The two streaks, f failures and k successes, after outcome o.
FailsAfter(f, o) ==
    CASE o = "ok"        -> 0
      [] o = "retryable" -> Bump(f, FailureThreshold)
      [] o = "other"     -> f

OksAfter(k, o) ==
    CASE o = "ok"        -> Bump(k, SuccessThreshold)
      [] o = "retryable" -> 0
      [] o = "other"     -> k

Remember(o) ==
    /\ failStreak' = FailsAfter(failStreak, o)
    /\ okStreak' = OksAfter(okStreak, o)

-----------------------------------------------------------------------------
\* breaker.allow() is false: CircuitBreakerOpen, from whichever attempt it is.
Refuse(c) ==
    /\ AtLoopHead(c)
    /\ ~Allow(breaker)
    /\ calls' = [calls EXCEPT ![c].pc = "refused"]
    /\ UNCHANGED <<breaker, failStreak, okStreak>>

\* The breaker is only asked before the first attempt of a call.
SuspendUnasked(c) ==
    /\ AtLoopHead(c)
    /\ calls[c].pc = "backoff" \/ Allow(breaker)
    /\ breaker' = ReadState(breaker)
    /\ calls' = [calls EXCEPT ![c] = [pc |-> "running", attempt |-> Upcoming(c)]]
    /\ UNCHANGED <<failStreak, okStreak>>

\* allow() admits the attempt and func suspends.
Suspend(c) ==
    /\ AtLoopHead(c)
    /\ Allow(breaker)
    /\ breaker' = ReadState(breaker)
    /\ calls' = [calls EXCEPT ![c] = [pc |-> "running", attempt |-> Upcoming(c)]]
    /\ UNCHANGED <<failStreak, okStreak>>

\* allow() admits the attempt and func completes without suspending.
RunThrough(c, o) ==
    /\ AtLoopHead(c)
    /\ Allow(breaker)
    /\ breaker' = Recorded(ReadState(breaker), o)
    /\ calls' = [calls EXCEPT ![c] = Continued(Upcoming(c), o)]
    /\ Remember(o)

\* The awaited func completes.  The breaker may have changed state since the
\* attempt was admitted; the outcome is recorded in the state it finds.
Settle(c, o) ==
    /\ calls[c].pc = "running"
    /\ breaker' = Recorded(breaker, o)
    /\ calls' = [calls EXCEPT ![c] = Continued(calls[c].attempt, o)]
    /\ Remember(o)

\* The task is cancelled in its backoff sleep.
CancelBackoff(c) ==
    /\ calls[c].pc = "backoff"
    /\ calls' = [calls EXCEPT ![c].pc = "aborted"]
    /\ UNCHANGED <<breaker, failStreak, okStreak>>

Tick ==
    /\ breaker.elapsed < RecoveryTimeout
    /\ breaker' = Elapse(breaker)
    /\ UNCHANGED <<calls, failStreak, okStreak>>

\* The step that takes a sleeping call round its loop.
Retry(c) ==
    /\ calls[c].pc = "backoff"
    /\ \/ Refuse(c)
       \/ Suspend(c)
       \/ \E o \in Outcomes : RunThrough(c, o)

CallStep(c) ==
    \/ Refuse(c)
    \/ Suspend(c)
    \/ \E o \in Outcomes : RunThrough(c, o) \/ Settle(c, o)
    \/ CancelBackoff(c)

Next == Tick \/ \E c \in Calls : CallStep(c)

Spec == Init /\ [][Next]_vars

\* func returns (a ServiceClient's session has a total timeout), asyncio.sleep
\* wakes its task, and the clock advances.  Nobody is obliged to start a call.
Fairness ==
    /\ WF_vars(Tick)
    /\ \A c \in Calls : /\ WF_vars(\E o \in Outcomes : Settle(c, o))
                        /\ WF_vars(Retry(c))

FairSpec == Spec /\ Fairness

-----------------------------------------------------------------------------
(* Properties *)

\* Every variable has its type.
TypeOK ==
    /\ breaker \in Breakers
    /\ calls \in [Calls -> CallStates]
    /\ failStreak \in 0 .. FailureThreshold
    /\ okStreak \in 0 .. SuccessThreshold

\* For recovery_timeout after any trip the breaker is open, whatever the calls
\* admitted before the trip report while the window runs (CircuitBreaker:
\* record_success and record_failure in state open).
OpenDuringWindow == breaker.elapsed < RecoveryTimeout => breaker.state = "open"

\* failure_threshold failures in a row, of whichever calls, always trip a
\* closed breaker: none is lost between record_success and record_failure of
\* different calls.
ClosedMeansNoStreak == breaker.state = "closed" => failStreak < FailureThreshold

\* While a recovery window runs nothing gets past the loop head: the next move
\* of a call there is to be refused or cancelled, the later attempts of a call
\* that was admitted before the trip included (the allow() check is inside the
\* retry loop).
NoAttemptInWindow ==
    [][\A c \in Calls :
         breaker.elapsed < RecoveryTimeout /\ AtLoopHead(c) /\ calls'[c] # calls[c]
            => calls'[c].pc \in {"refused", "aborted"}]_vars

\* The breaker trips from closed only on failure_threshold recorded failures in
\* a row, and closes only on success_threshold recorded successes in a row.
TransitionsOnEvidence ==
    [][/\ breaker.state = "closed" /\ breaker'.state = "open" => failStreak' = FailureThreshold
       /\ breaker.state # "closed" /\ breaker'.state = "closed" => okStreak' = SuccessThreshold]_vars

\* An open breaker always gets to the end of its window.  The late failures of
\* calls admitted before the trip restart the window (record_failure in state
\* open), but cannot do so for ever.
WindowEnds == breaker.state = "open" ~> breaker.elapsed = RecoveryTimeout

\* Every call ends, whatever func does and however the breaker moves.
CallsEnd == \A c \in Calls : calls[c].pc \in {"running", "backoff"} ~> calls[c].pc \in Ended
=============================================================================

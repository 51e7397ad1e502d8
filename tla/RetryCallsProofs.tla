-------------------------- MODULE RetryCallsProofs --------------------------
(***************************************************************************)
(* The safety properties of RetryCalls, for any number of calls and any     *)
(* thresholds.                                                              *)
(*                                                                         *)
(* None of them is inductive by itself.  Sound relates the breaker to the   *)
(* two streaks: in state closed the failure count is exactly the streak of  *)
(* recorded failures, and in state half_open the success count is below its *)
(* threshold and no more than the streak of recorded successes.  Each       *)
(* breaker operation preserves it; the actions only compose operations.     *)
(***************************************************************************)
EXTENDS RetryCalls, TLAPS

Sound(b, f, k) ==
    /\ b.elapsed < RecoveryTimeout => b.state = "open"
    /\ b.state = "closed" => b.failures = f /\ f < FailureThreshold
    /\ b.state = "half_open" => b.successes < SuccessThreshold /\ b.successes <= k

\* A call that backs off has an attempt left, a running one is at an attempt.
AttemptsLeft ==
    \A c \in Calls : /\ calls[c].pc = "backoff" => calls[c].attempt < MaxAttempts
                     /\ calls[c].pc = "running" => calls[c].attempt > 0

IInv == TypeOK /\ AttemptsLeft /\ Sound(breaker, failStreak, okStreak)

-----------------------------------------------------------------------------
(* The breaker's operations *)

\* allow() reads the state: the type and Sound survive the read, a refusal
\* leaves the breaker as it was, and nothing is admitted during a window.
LEMMA ReadStateSound ==
    ASSUME NEW b \in Breakers, NEW f \in 0 .. FailureThreshold, NEW k \in 0 .. SuccessThreshold,
           Sound(b, f, k)
    PROVE  /\ ReadState(b) \in Breakers
           /\ Sound(ReadState(b), f, k)
           /\ ReadState(b).elapsed = b.elapsed
           /\ Allow(b) => b.elapsed = RecoveryTimeout
           /\ (b.state = "closed") <=> (ReadState(b).state = "closed")
  BY ThresholdAssumption DEF Breakers, BreakerStates, Sound, ReadState, Allow

\* Recording an outcome keeps the type and Sound, with the streaks it extends.
LEMMA RecordedSound ==
    ASSUME NEW b \in Breakers, NEW f \in 0 .. FailureThreshold, NEW k \in 0 .. SuccessThreshold,
           NEW o \in Outcomes, Sound(b, f, k)
    PROVE  /\ Recorded(b, o) \in Breakers
           /\ FailsAfter(f, o) \in 0 .. FailureThreshold
           /\ OksAfter(k, o) \in 0 .. SuccessThreshold
           /\ Sound(Recorded(b, o), FailsAfter(f, o), OksAfter(k, o))
<1>1. CASE o = "ok"
  BY <1>1, ThresholdAssumption
  DEF Breakers, BreakerStates, Sound, Recorded, RecordSuccess, Reset, FailsAfter, OksAfter, Bump
<1>2. CASE o = "retryable"
  BY <1>2, ThresholdAssumption
  DEF Breakers, BreakerStates, Sound, Recorded, RecordFailure, Trip, FailsAfter, OksAfter, Bump
<1>3. CASE o = "other"
  BY <1>3 DEF Recorded, FailsAfter, OksAfter
<1> QED  BY <1>1, <1>2, <1>3 DEF Outcomes

\* Recording an outcome trips a closed breaker only at a full streak of
\* failures, and closes one only at a full streak of successes.
LEMMA RecordedOnEvidence ==
    ASSUME NEW b \in Breakers, NEW f \in 0 .. FailureThreshold, NEW k \in 0 .. SuccessThreshold,
           NEW o \in Outcomes, Sound(b, f, k)
    PROVE  /\ b.state = "closed" /\ Recorded(b, o).state = "open"
                => FailsAfter(f, o) = FailureThreshold
           /\ b.state # "closed" /\ Recorded(b, o).state = "closed"
                => OksAfter(k, o) = SuccessThreshold
<1>1. CASE o = "ok"
  BY <1>1, ThresholdAssumption
  DEF Breakers, BreakerStates, Sound, Recorded, RecordSuccess, Reset, FailsAfter, OksAfter, Bump
<1>2. CASE o = "retryable"
  BY <1>2, ThresholdAssumption
  DEF Breakers, BreakerStates, Sound, Recorded, RecordFailure, Trip, FailsAfter, OksAfter, Bump
<1>3. CASE o = "other"
  BY <1>3 DEF Recorded
<1> QED  BY <1>1, <1>2, <1>3 DEF Outcomes

-----------------------------------------------------------------------------
(* The retry loop *)

\* The attempt a call is about to make is within policy.max_attempts, given
\* that a call in its backoff has attempts left.
LEMMA ContinuedType ==
    ASSUME NEW a \in 1 .. MaxAttempts, NEW o \in Outcomes
    PROVE  /\ Continued(a, o) \in CallStates
           /\ Continued(a, o).pc = "backoff" => Continued(a, o).attempt < MaxAttempts
           /\ Continued(a, o).pc # "running"
  BY AttemptsAssumption DEF Continued, CallStates, Outcomes, Ended

\* The attempt number at the loop head is within policy.max_attempts.
LEMMA UpcomingType ==
    ASSUME TypeOK, AttemptsLeft, NEW c \in Calls
    PROVE  Upcoming(c) \in 1 .. MaxAttempts
  BY AttemptsAssumption DEF TypeOK, AttemptsLeft, CallStates, Upcoming

\* Giving one call a legal state keeps all of them legal.
LEMMA CallMoves ==
    ASSUME TypeOK, AttemptsLeft, NEW c \in Calls, NEW x \in CallStates,
           x.pc = "backoff" => x.attempt < MaxAttempts,
           x.pc = "running" => x.attempt > 0,
           calls' = [calls EXCEPT ![c] = x]
    PROVE  calls' \in [Calls -> CallStates] /\ AttemptsLeft'
  BY DEF TypeOK, AttemptsLeft

\* A call that ends without recording anything keeps its attempt number.
LEMMA CallEnds ==
    ASSUME TypeOK, AttemptsLeft, NEW c \in Calls, NEW how \in Ended,
           calls' = [calls EXCEPT ![c].pc = how]
    PROVE  calls' \in [Calls -> CallStates] /\ AttemptsLeft'
  BY DEF TypeOK, AttemptsLeft, CallStates, Ended

-----------------------------------------------------------------------------
(* The inductive invariant *)

\* A new breaker with idle calls satisfies the invariant.
LEMMA InitIInv == Init => IInv
  BY ThresholdAssumption, AttemptsAssumption
  DEF Init, IInv, TypeOK, AttemptsLeft, Sound, NewBreaker, Breakers, BreakerStates, CallStates

\* A refused call leaves the breaker alone.
LEMMA RefuseIInv ==
    ASSUME IInv, NEW c \in Calls, Refuse(c)
    PROVE  IInv'
<1>1. calls' \in [Calls -> CallStates] /\ AttemptsLeft'
  BY CallEnds DEF IInv, Refuse, Ended
<1> QED  BY <1>1 DEF IInv, TypeOK, Refuse, Sound

\* An admitted attempt may turn an expired open breaker half_open.
LEMMA SuspendIInv ==
    ASSUME IInv, NEW c \in Calls, Suspend(c)
    PROVE  IInv'
<1>1. Upcoming(c) \in 1 .. MaxAttempts
  BY UpcomingType DEF IInv
<1>2. calls' \in [Calls -> CallStates] /\ AttemptsLeft'
  <2> DEFINE x == [pc |-> "running", attempt |-> Upcoming(c)]
  <2>1. x \in CallStates /\ x.pc = "running" /\ x.attempt > 0
    BY <1>1, AttemptsAssumption DEF CallStates
  <2>2. calls' = [calls EXCEPT ![c] = x]
    BY DEF Suspend
  <2> QED  BY <2>1, <2>2, CallMoves DEF IInv
<1>3. breaker' \in Breakers /\ Sound(breaker', failStreak, okStreak)
  BY ReadStateSound DEF IInv, TypeOK, Suspend
<1> QED  BY <1>2, <1>3 DEF IInv, TypeOK, Suspend

\* An attempt that never suspends: the state is read and the outcome recorded in
\* one step.
LEMMA RunThroughIInv ==
    ASSUME IInv, NEW c \in Calls, NEW o \in Outcomes, RunThrough(c, o)
    PROVE  IInv'
<1>1. Upcoming(c) \in 1 .. MaxAttempts
  BY UpcomingType DEF IInv
<1>2. calls' \in [Calls -> CallStates] /\ AttemptsLeft'
  BY <1>1, CallMoves, ContinuedType DEF IInv, RunThrough
<1>3. ReadState(breaker) \in Breakers /\ Sound(ReadState(breaker), failStreak, okStreak)
  BY ReadStateSound DEF IInv, TypeOK
<1>4. /\ breaker' \in Breakers
      /\ failStreak' \in 0 .. FailureThreshold
      /\ okStreak' \in 0 .. SuccessThreshold
      /\ Sound(breaker', failStreak', okStreak')
  BY <1>3, RecordedSound DEF IInv, TypeOK, RunThrough, Remember
<1> QED  BY <1>2, <1>4 DEF IInv, TypeOK

\* The outcome of an attempt is recorded in whatever state the breaker is in by
\* then: this is the step that late answers take.
LEMMA SettleIInv ==
    ASSUME IInv, NEW c \in Calls, NEW o \in Outcomes, Settle(c, o)
    PROVE  IInv'
<1>1. calls[c].attempt \in 1 .. MaxAttempts
  BY AttemptsAssumption DEF IInv, TypeOK, AttemptsLeft, CallStates, Settle
<1>2. calls' \in [Calls -> CallStates] /\ AttemptsLeft'
  BY <1>1, CallMoves, ContinuedType DEF IInv, Settle
<1>3. /\ breaker' \in Breakers
      /\ failStreak' \in 0 .. FailureThreshold
      /\ okStreak' \in 0 .. SuccessThreshold
      /\ Sound(breaker', failStreak', okStreak')
  BY RecordedSound DEF IInv, TypeOK, Settle, Remember
<1> QED  BY <1>2, <1>3 DEF IInv, TypeOK

\* A cancelled backoff only ends its call.
LEMMA CancelBackoffIInv ==
    ASSUME IInv, NEW c \in Calls, CancelBackoff(c)
    PROVE  IInv'
<1>1. calls' \in [Calls -> CallStates] /\ AttemptsLeft'
  BY CallEnds DEF IInv, CancelBackoff, Ended
<1> QED  BY <1>1 DEF IInv, TypeOK, CancelBackoff, Sound

\* The clock only brings the window closer to its end.
LEMMA TickIInv ==
    ASSUME IInv, Tick
    PROVE  IInv'
<1>1. breaker' \in Breakers /\ Sound(breaker', failStreak, okStreak)
  BY ThresholdAssumption
  DEF IInv, TypeOK, Tick, Elapse, Bump, Breakers, BreakerStates, Sound
<1> QED  BY <1>1 DEF IInv, TypeOK, AttemptsLeft, Tick

\* Every step of the calls and of the clock preserves the invariant.
LEMMA NextIInv == IInv /\ [Next]_vars => IInv'
<1> SUFFICES ASSUME IInv, [Next]_vars PROVE IInv'
  OBVIOUS
<1>1. CASE Tick
  BY <1>1, TickIInv
<1>2. ASSUME NEW c \in Calls, CallStep(c) PROVE IInv'
  BY <1>2, RefuseIInv, SuspendIInv, RunThroughIInv, SettleIInv, CancelBackoffIInv DEF CallStep
<1>3. CASE UNCHANGED vars
  BY <1>3 DEF vars, IInv, TypeOK, AttemptsLeft, Sound
<1> QED  BY <1>1, <1>2, <1>3 DEF Next

-----------------------------------------------------------------------------
(* The theorems *)

\* The invariant the theorems below are read off.
THEOREM Invariance == Spec => []IInv
  BY InitIInv, NextIInv, PTL DEF Spec

\* Every variable keeps its type: no call makes more than policy.max_attempts
\* attempts and the saturated counters stay in range.
THEOREM TypeCorrect == Spec => []TypeOK
<1>1. IInv => TypeOK
  BY DEF IInv
<1> QED  BY <1>1, Invariance, PTL

\* For recovery_timeout after a trip the breaker is open, whatever the calls
\* that were under way report.
THEOREM WindowIsOpen == Spec => []OpenDuringWindow
<1>1. IInv => OpenDuringWindow
  BY DEF IInv, Sound, OpenDuringWindow
<1> QED  BY <1>1, Invariance, PTL

\* A closed breaker has not seen failure_threshold failures in a row.
THEOREM StreakTrips == Spec => []ClosedMeansNoStreak
<1>1. IInv => ClosedMeansNoStreak
  BY DEF IInv, Sound, ClosedMeansNoStreak
<1> QED  BY <1>1, Invariance, PTL

\* During a recovery window no call gets past the loop head, neither a new one
\* nor a retry.
THEOREM WindowAdmitsNothing == Spec => NoAttemptInWindow
<1> DEFINE A == \A c \in Calls :
                  breaker.elapsed < RecoveryTimeout /\ AtLoopHead(c) /\ calls'[c] # calls[c]
                     => calls'[c].pc \in {"refused", "aborted"}
<1>1. IInv /\ [Next]_vars => [A]_vars
  <2> SUFFICES ASSUME IInv, Next, NEW c \in Calls,
                      breaker.elapsed < RecoveryTimeout, AtLoopHead(c), calls'[c] # calls[c]
               PROVE  calls'[c].pc \in {"refused", "aborted"}
    BY DEF vars
  <2>1. ~Allow(breaker)
    BY ReadStateSound, ThresholdAssumption DEF IInv, TypeOK
  <2>2. ~Tick
    BY DEF Tick
  <2>3. PICK d \in Calls : CallStep(d)
    BY <2>2 DEF Next
  <2>4. CASE Refuse(d) \/ CancelBackoff(d)
    BY <2>4 DEF Refuse, CancelBackoff, IInv, TypeOK, CallStates
  <2>5. ASSUME NEW o \in Outcomes, Settle(d, o) PROVE FALSE
    BY <2>5 DEF Settle, AtLoopHead, Ended, IInv, TypeOK
  <2> QED  BY <2>1, <2>3, <2>4, <2>5 DEF CallStep, Suspend, RunThrough
<1> QED  BY <1>1, Invariance, PTL DEF Spec, NoAttemptInWindow

\* The breaker trips and closes only on full streaks of recorded outcomes.
THEOREM EvidenceOnly == Spec => TransitionsOnEvidence
<1> DEFINE A ==
      /\ breaker.state = "closed" /\ breaker'.state = "open" => failStreak' = FailureThreshold
      /\ breaker.state # "closed" /\ breaker'.state = "closed" => okStreak' = SuccessThreshold
<1>1. IInv /\ [Next]_vars => [A]_vars
  <2> SUFFICES ASSUME IInv, Next PROVE A
    BY DEF vars
  <2>1. /\ breaker \in Breakers /\ failStreak \in 0 .. FailureThreshold
        /\ okStreak \in 0 .. SuccessThreshold /\ Sound(breaker, failStreak, okStreak)
    BY DEF IInv, TypeOK
  <2>2. CASE Tick
    BY <2>1, <2>2 DEF Tick, Elapse, Breakers
  <2>3. ASSUME NEW c \in Calls, Refuse(c) \/ CancelBackoff(c) PROVE A
    BY <2>3 DEF Refuse, CancelBackoff
  <2>4. ASSUME NEW c \in Calls, Suspend(c) PROVE A
    BY <2>1, <2>4, ReadStateSound DEF Suspend, Breakers, ReadState
  <2>5. ASSUME NEW c \in Calls, NEW o \in Outcomes, RunThrough(c, o) PROVE A
    BY <2>1, <2>5, ReadStateSound, RecordedOnEvidence DEF RunThrough, Remember
  <2>6. ASSUME NEW c \in Calls, NEW o \in Outcomes, Settle(c, o) PROVE A
    BY <2>1, <2>6, RecordedOnEvidence DEF Settle, Remember
  <2> QED  BY <2>2, <2>3, <2>4, <2>5, <2>6 DEF Next, CallStep
<1> QED  BY <1>1, Invariance, PTL DEF Spec, TransitionsOnEvidence
=============================================================================

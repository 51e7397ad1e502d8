--------------------------- MODULE CircuitBreaker ---------------------------
(***************************************************************************)
(* The three-state circuit breaker of resilience.py, as the state          *)
(* transformers its methods are.  None of them awaits, so a caller on the   *)
(* event loop runs each of them, and any sequence of them between two       *)
(* awaits, in one step: the modules that use a breaker compose the          *)
(* operators below inside their own actions.                                *)
(*                                                                         *)
(* A breaker is a record.  Two fields are kept relative and saturated,      *)
(* which loses nothing because of how the code reads them:                  *)
(*   elapsed   _clock() - _opened_at, up to RecoveryTimeout: it is only     *)
(*             compared with recovery_timeout (>=);                         *)
(*   failures  _failures, up to FailureThreshold: it is only compared with  *)
(*             failure_threshold (>=), incremented and set to 0.            *)
(***************************************************************************)
EXTENDS Integers

CONSTANTS
    FailureThreshold,   \* failure_threshold
    SuccessThreshold,   \* success_threshold
    RecoveryTimeout     \* recovery_timeout, in clock ticks

ASSUME ThresholdAssumption ==
    /\ FailureThreshold \in Nat \ {0}
    /\ SuccessThreshold \in Nat \ {0}
    /\ RecoveryTimeout \in Nat

BreakerStates == {"closed", "open", "half_open"}

Breakers == [state     : BreakerStates,
             failures  : 0 .. FailureThreshold,
             successes : 0 .. SuccessThreshold,
             elapsed   : 0 .. RecoveryTimeout]

\* n + 1, saturated at cap.
Bump(n, cap) == IF n < cap THEN n + 1 ELSE cap

\* A breaker that has never tripped has no window running: _opened_at is only
\* read in state open, so elapsed may start at its ceiling.
NewBreaker == [state |-> "closed", failures |-> 0, successes |-> 0,
               elapsed |-> RecoveryTimeout]

-----------------------------------------------------------------------------
\* The state property: reading it turns an expired open breaker half_open.
ReadState(b) ==
    IF b.state = "open" /\ b.elapsed >= RecoveryTimeout
    THEN [state |-> "half_open", failures |-> b.failures, successes |-> 0, elapsed |-> b.elapsed]
    ELSE b

\* The breaker never refuses.
AlwaysAllow(b) == TRUE

\* allow() reads the state property, so a caller also keeps ReadState(b).
Allow(b) == ReadState(b).state # "open"

Trip(b) == [state |-> "open", failures |-> b.failures, successes |-> 0, elapsed |-> 0]

Reset(b) == [state |-> "closed", failures |-> 0, successes |-> 0, elapsed |-> b.elapsed]

\* A success in state open closes the breaker: the late answer of a call that
\* was admitted before the trip ends the window early.
ResetsWhenOpen(b) ==
    IF b.state = "half_open" /\ b.successes + 1 < SuccessThreshold
    THEN [b EXCEPT !.successes = @ + 1]
    ELSE Reset(b)

\* Only state half_open is special: a late success in state open clears the
\* failure count and leaves the breaker open.
RecordSuccess(b) ==
    IF b.state = "half_open"
    THEN IF b.successes + 1 >= SuccessThreshold
         THEN Reset(b)
         ELSE [b EXCEPT !.successes = @ + 1]
    ELSE [b EXCEPT !.failures = 0]

\* The threshold test is > instead of >=.
TripsOneLate(b) ==
    IF b.state = "half_open" THEN Trip(b)
    ELSE IF b.failures = FailureThreshold
         THEN Trip(b)
         ELSE [b EXCEPT !.failures = @ + 1]

\* A failure in state half_open is only counted, as in state closed, and below
\* the threshold the trial goes on.
ForgivesProbe(b) ==
    IF b.failures + 1 >= FailureThreshold /\ b.state # "half_open"
    THEN Trip([b EXCEPT !.failures = Bump(@, FailureThreshold)])
    ELSE [b EXCEPT !.failures = Bump(@, FailureThreshold)]

\* A late failure in state open counts like any other: at the threshold it
\* trips the breaker again, which restarts the recovery window.
RecordFailure(b) ==
    IF b.state = "half_open"
    THEN Trip(b)
    ELSE LET counted == [b EXCEPT !.failures = Bump(@, FailureThreshold)]
         IN  IF counted.failures >= FailureThreshold THEN Trip(counted) ELSE counted

\* The injected monotonic clock advances.
Elapse(b) == [b EXCEPT !.elapsed = Bump(@, RecoveryTimeout)]
=============================================================================

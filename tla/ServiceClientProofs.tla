------------------------ MODULE ServiceClientProofs -------------------------
(***************************************************************************)
(* The safety properties of ServiceClient, for any number of requests and   *)
(* any thresholds: the client implements RetryCalls, whatever its session   *)
(* goes through, so the theorems about RetryCalls hold of it too.           *)
(*                                                                         *)
(* UpMeansOpen is not inductive: a restart finds the session that the last  *)
(* stop() left, which SessionMatches relates to how that stop() ended.      *)
(***************************************************************************)
EXTENDS ServiceClient, RetryCallsProofs

\* The specification without its fairness.
ClientSafety == ClientInit /\ [][ClientNext]_clientVars

\* A session is closed but still there only while stop() awaits its close(), or
\* after a stop() that was cut short.
SessionMatches ==
    /\ lifecycle = "stopping" => session = "closed"
    /\ lifecycle = "up" => session # "none"
    /\ lifecycle # "stopping" => (session = "closed" <=> cutShort)

CInv == ClientTypeOK /\ SessionMatches

-----------------------------------------------------------------------------
(* Refinement *)

\* The outcome of a response is one that retry_async knows.
LEMMA ReplyOutcomeType == ASSUME NEW kind PROVE ReplyOutcome(kind) \in {"ok", "retryable"}
  BY DEF ReplyOutcome

\* Every step of a request is a step of its retry_async call.
LEMMA RequestIsCall ==
    ASSUME NEW c \in Calls, RequestStep(c)
    PROVE  CallStep(c)
<1>1. "ok" \in Outcomes /\ "retryable" \in Outcomes /\ "other" \in Outcomes
  BY DEF Outcomes
<1>2. CASE RefuseRequest(c) \/ SendRequest(c) \/ SendWithoutSession(c)
  BY <1>1, <1>2 DEF RefuseRequest, SendRequest, SendWithoutSession, CallStep
<1>3. CASE TransportError(c) \/ CancelRequest(c)
  BY <1>1, <1>3 DEF TransportError, CancelRequest, CallStep
<1>4. ASSUME NEW kind \in {"below500", "5xx"}, Reply(c, kind) PROVE CallStep(c)
  BY <1>1, <1>4, ReplyOutcomeType DEF Reply, CallStep
<1> QED  BY <1>2, <1>3, <1>4 DEF RequestStep, Finish

\* Every step of the client is one of RetryCalls, or leaves its variables alone.
LEMMA ClientStepIsRetryStep == [ClientNext]_clientVars => [Next]_vars
<1> SUFFICES ASSUME [ClientNext]_clientVars PROVE [Next]_vars
  OBVIOUS
<1>1. CASE Start \/ StopBegin \/ StopEnd \/ StopCutShort
  BY <1>1 DEF Start, StopBegin, StopEnd, StopCutShort
<1>2. CASE ClientTick
  BY <1>2 DEF ClientTick, Next
<1>3. ASSUME NEW c \in Calls, RequestStep(c) PROVE Next
  BY <1>3, RequestIsCall DEF Next
<1>4. CASE UNCHANGED clientVars
  BY <1>4 DEF clientVars
<1> QED  BY <1>1, <1>2, <1>3, <1>4 DEF ClientNext

\* The safety half of ImplementsRetryCalls: whatever start and stop do to the
\* session, the requests of a client are retry_async calls over its breaker.
THEOREM ClientRefinesRetryCalls == ClientSafety => Spec
<1>1. ClientInit => Init
  BY DEF ClientInit
<1> QED  BY <1>1, ClientStepIsRetryStep, PTL DEF ClientSafety, Spec

\* The theorems about RetryCalls, for the client's breaker and requests: the
\* window after a trip, the streaks, and what a window admits.
THEOREM ClientInheritsSafety ==
    ClientSafety => /\ []OpenDuringWindow
                    /\ []ClosedMeansNoStreak
                    /\ NoAttemptInWindow
                    /\ TransitionsOnEvidence
  BY ClientRefinesRetryCalls, WindowIsOpen, StreakTrips, WindowAdmitsNothing, EvidenceOnly, PTL

-----------------------------------------------------------------------------
(* The inductive invariant *)

\* A new client, with an injected session or without one.
LEMMA ClientInitInv == ClientInit => CInv
<1> SUFFICES ASSUME ClientInit PROVE CInv
  OBVIOUS
<1>1. TypeOK
  BY InitIInv DEF ClientInit, IInv
<1> QED
  BY <1>1 DEF ClientInit, CInv, ClientTypeOK, SessionMatches

\* start and stop touch the session, and cut the requests that are under way.
LEMMA LifecycleInv ==
    ASSUME CInv, Start \/ StopBegin \/ StopEnd \/ StopCutShort
    PROVE  CInv'
<1>1. vars' = vars
  BY DEF Start, StopBegin, StopEnd, StopCutShort
<1>2. TypeOK'
  BY <1>1 DEF vars, CInv, ClientTypeOK, TypeOK
<1>3. live' \subseteq {c \in Calls : calls'[c].pc = "running"}
  BY <1>1 DEF vars, CInv, ClientTypeOK, Start, StopBegin, StopEnd, StopCutShort
<1>4. /\ session' \in {"none", "open", "closed"}
      /\ lifecycle' \in {"down", "up", "stopping"}
      /\ tripOn5xx' \in BOOLEAN
      /\ cutShort' \in BOOLEAN
  BY DEF CInv, ClientTypeOK, Start, StopBegin, StopEnd, StopCutShort
<1>5. SessionMatches'
  BY DEF CInv, ClientTypeOK, SessionMatches, Start, StopBegin, StopEnd, StopCutShort
<1> QED
  BY <1>2, <1>3, <1>4, <1>5 DEF CInv, ClientTypeOK

\* Time passes for the breaker alone.
LEMMA ClientTickInv ==
    ASSUME CInv, ClientTick, TypeOK'
    PROVE  CInv'
  BY DEF CInv, ClientTypeOK, SessionMatches, ClientTick, Tick

\* A request that is refused, or goes out on an open session.
LEMMA SendInv ==
    ASSUME CInv, NEW c \in Calls, RefuseRequest(c) \/ SendRequest(c), TypeOK'
    PROVE  CInv'
<1>1. live' \subseteq {d \in Calls : calls'[d].pc = "running"}
  BY DEF CInv, ClientTypeOK, TypeOK, CallStates, RefuseRequest, Refuse, SendRequest, Suspend,
         AtLoopHead, Ended
<1> QED
  BY <1>1 DEF CInv, ClientTypeOK, SessionMatches, RefuseRequest, SendRequest

\* An attempt without a session ends where it began.
LEMMA SendWithoutSessionInv ==
    ASSUME CInv, NEW c \in Calls, SendWithoutSession(c), TypeOK'
    PROVE  CInv'
<1>1. live' \subseteq {d \in Calls : calls'[d].pc = "running"}
  <2>1. c \notin live
    BY DEF CInv, ClientTypeOK, SendWithoutSession, RunThrough, AtLoopHead, Ended
  <2> QED
    BY <2>1 DEF CInv, ClientTypeOK, TypeOK, SendWithoutSession, RunThrough
<1> QED
  BY <1>1 DEF CInv, ClientTypeOK, SessionMatches, SendWithoutSession

\* A request that ends, with an answer, an error or a cancellation.
LEMMA EndInv ==
    ASSUME CInv, NEW c \in Calls, Finish(c) \/ CancelRequest(c), TypeOK'
    PROVE  CInv'
<1>1. UNCHANGED <<session, lifecycle, tripOn5xx, cutShort>> /\ live' = live \ {c}
  BY DEF Finish, TransportError, Reply, CancelRequest
<1>2. \A d \in Calls \ {c} : calls'[d] = calls[d]
  BY DEF CInv, ClientTypeOK, TypeOK, Finish, TransportError, Reply, CancelRequest, Settle,
         CancelBackoff
<1> QED
  BY <1>1, <1>2 DEF CInv, ClientTypeOK, SessionMatches

\* Every step of the client preserves the invariant.
LEMMA ClientNextInv == CInv /\ TypeOK' /\ [ClientNext]_clientVars => CInv'
<1> SUFFICES ASSUME CInv, TypeOK', [ClientNext]_clientVars PROVE CInv'
  OBVIOUS
<1>1. CASE Start \/ StopBegin \/ StopEnd \/ StopCutShort
  BY <1>1, LifecycleInv
<1>2. CASE ClientTick
  BY <1>2, ClientTickInv
<1>3. ASSUME NEW c \in Calls, RequestStep(c) PROVE CInv'
  BY <1>3, SendInv, SendWithoutSessionInv, EndInv DEF RequestStep
<1>4. CASE UNCHANGED clientVars
  BY <1>4 DEF clientVars, vars, CInv, ClientTypeOK, TypeOK, SessionMatches
<1> QED  BY <1>1, <1>2, <1>3, <1>4 DEF ClientNext

-----------------------------------------------------------------------------
(* The theorems *)

\* The invariant the theorems below are read off.
THEOREM ClientInvariance == ClientSafety => []CInv
<1>1. ClientSafety => []TypeOK
  BY ClientRefinesRetryCalls, TypeCorrect, PTL
<1> QED  BY <1>1, ClientInitInv, ClientNextInv, PTL DEF ClientSafety

\* Every variable keeps its type, and only running requests hold a connection.
THEOREM ClientTypeCorrect == ClientSafety => []ClientTypeOK
<1>1. CInv => ClientTypeOK
  BY DEF CInv
<1> QED  BY <1>1, ClientInvariance, PTL

\* A client that is up has an open session, after any number of restarts,
\* unless the last stop() was cut short: start() then leaves it with a closed one.
THEOREM UpIsUsable == ClientSafety => []UpMeansOpen
<1>1. CInv => UpMeansOpen
  BY DEF CInv, ClientTypeOK, SessionMatches, UpMeansOpen
<1> QED  BY <1>1, ClientInvariance, PTL
=============================================================================

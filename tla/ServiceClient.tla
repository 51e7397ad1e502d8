--------------------------- MODULE ServiceClient ----------------------------
(***************************************************************************)
(* ServiceClient (clients.py): retry_async calls over a pooled aiohttp      *)
(* session that start() opens and stop() closes while requests are under    *)
(* way.  Extends RetryCalls; func is _do_request.                           *)
(*                                                                         *)
(* The lifecycle is driven by the framework's startup and shutdown, one     *)
(* call at a time.  aiohttp is external and modelled by what clients.py     *)
(* meets: a request on a closed session raises without suspending; closing  *)
(* a session cuts the requests that run on it; and a close() that raises or *)
(* is cancelled leaves the session closed.  The default retry_on is         *)
(* (Exception,), so every error of an attempt is retryable and only a       *)
(* cancellation is not.                                                     *)
(***************************************************************************)
EXTENDS RetryCalls

VARIABLES
    session,        \* self._session: "none", "open", or "closed" (closed, not yet dropped)
    lifecycle,      \* "down", "up", or "stopping" (stop() awaits session.close())
    tripOn5xx,      \* self._trip_on_5xx, fixed at construction
    live,           \* running attempts whose connection has not been cut
    cutShort        \* history: the last stop() did not come to its end

clientVars == <<vars, session, lifecycle, tripOn5xx, live, cutShort>>

\* A session may be injected, and is then there before start().
ClientInit ==
    /\ Init
    /\ session \in {"none", "open"}
    /\ lifecycle = "down"
    /\ tripOn5xx \in BOOLEAN
    /\ live = {}
    /\ cutShort = FALSE

-----------------------------------------------------------------------------
\* start(): opens a session unless there is one.  Nothing in it awaits.
Start ==
    /\ lifecycle = "down"
    /\ session' = IF session = "none" THEN "open" ELSE session
    /\ lifecycle' = "up"
    /\ UNCHANGED <<vars, tripOn5xx, live, cutShort>>

\* stop(), up to "await self._session.close()".  New requests still find the
\* closed session in self._session.
StopBegin ==
    /\ lifecycle # "stopping"
    /\ session # "none"
    /\ session' = "closed"
    /\ lifecycle' = "stopping"
    /\ live' = {}
    /\ UNCHANGED <<vars, tripOn5xx, cutShort>>

\* The session is closed but stays in self._session.
StopKeepsSession ==
    /\ lifecycle = "stopping"
    /\ lifecycle' = "down"
    /\ cutShort' = FALSE
    /\ UNCHANGED <<vars, session, tripOn5xx, live>>

\* close() returns and the session is dropped.
StopEnd ==
    /\ lifecycle = "stopping"
    /\ session' = "none"
    /\ lifecycle' = "down"
    /\ cutShort' = FALSE
    /\ UNCHANGED <<vars, tripOn5xx, live>>

\* close() raises, or the task that runs stop() is cancelled: the session is
\* not dropped, and a later start() takes it for a session that is open.
StopCutShort ==
    /\ lifecycle = "stopping"
    /\ lifecycle' = "down"
    /\ cutShort' = TRUE
    /\ UNCHANGED <<vars, session, tripOn5xx, live>>

\* request() finds the breaker open.
RefuseRequest(c) ==
    /\ Refuse(c)
    /\ UNCHANGED <<session, lifecycle, tripOn5xx, live, cutShort>>

\* _do_request on an open session: the request goes out.
SendRequest(c) ==
    /\ session = "open"
    /\ Suspend(c)
    /\ live' = live \cup {c}
    /\ UNCHANGED <<session, lifecycle, tripOn5xx, cutShort>>

\* The session is checked before the breaker is asked.
FailsBeforeAllow(c) ==
    /\ session # "open"
    /\ AtLoopHead(c)
    /\ breaker' = RecordFailure(breaker)
    /\ calls' = [calls EXCEPT ![c] = Continued(Upcoming(c), "retryable")]
    /\ Remember("retryable")
    /\ UNCHANGED <<session, lifecycle, tripOn5xx, live, cutShort>>

\* _do_request without a session raises RuntimeError; aiohttp raises one for a
\* closed session.  Both are retried and recorded like a failed dependency.
SendWithoutSession(c) ==
    /\ session # "open"
    /\ RunThrough(c, "retryable")
    /\ UNCHANGED <<session, lifecycle, tripOn5xx, live, cutShort>>

\* The outcome of a response that was read in full.
ReplyOutcome(kind) == IF kind = "5xx" /\ tripOn5xx THEN "retryable" ELSE "ok"

\* The response arrives, with a status below 500 or not.
Reply(c, kind) ==
    /\ c \in live
    /\ Settle(c, ReplyOutcome(kind))
    /\ live' = live \ {c}
    /\ UNCHANGED <<session, lifecycle, tripOn5xx, cutShort>>

\* The failed attempt is still taken for a request under way.
KeepsLive(c) ==
    /\ Settle(c, "retryable")
    /\ UNCHANGED <<session, lifecycle, tripOn5xx, live, cutShort>>

\* The connection fails, the total timeout expires, or the session was closed
\* under the request.
TransportError(c) ==
    /\ Settle(c, "retryable")
    /\ live' = live \ {c}
    /\ UNCHANGED <<session, lifecycle, tripOn5xx, cutShort>>

\* The caller's task is cancelled, in the request or in the backoff sleep.
CancelRequest(c) ==
    /\ Settle(c, "other") \/ CancelBackoff(c)
    /\ live' = live \ {c}
    /\ UNCHANGED <<session, lifecycle, tripOn5xx, cutShort>>

ClientTick == Tick /\ UNCHANGED <<session, lifecycle, tripOn5xx, live, cutShort>>

RetryRequest(c) ==
    /\ calls[c].pc = "backoff"
    /\ RefuseRequest(c) \/ SendRequest(c) \/ SendWithoutSession(c)

Finish(c) == TransportError(c) \/ \E kind \in {"below500", "5xx"} : Reply(c, kind)

RequestStep(c) ==
    \/ RefuseRequest(c)
    \/ SendRequest(c)
    \/ SendWithoutSession(c)
    \/ Finish(c)
    \/ CancelRequest(c)

ClientNext ==
    \/ Start \/ StopBegin \/ StopEnd \/ StopCutShort
    \/ ClientTick
    \/ \E c \in Calls : RequestStep(c)

\* The total timeout of the session ends every request, asyncio.sleep wakes its
\* task, session.close() returns or raises, and the clock advances.
ClientFairness ==
    /\ WF_clientVars(ClientTick)
    /\ WF_clientVars(StopEnd \/ StopCutShort)
    /\ \A c \in Calls : /\ WF_clientVars(Finish(c))
                        /\ WF_clientVars(RetryRequest(c))

ClientSpec == ClientInit /\ [][ClientNext]_clientVars /\ ClientFairness

-----------------------------------------------------------------------------
(* Properties *)

\* Every variable has its type.
ClientTypeOK ==
    /\ TypeOK
    /\ session \in {"none", "open", "closed"}
    /\ lifecycle \in {"down", "up", "stopping"}
    /\ tripOn5xx \in BOOLEAN
    /\ live \subseteq {c \in Calls : calls[c].pc = "running"}
    /\ cutShort \in BOOLEAN

\* Whatever the session goes through, the client's calls are retry_async calls:
\* every step is one of RetryCalls or leaves its variables alone, and its
\* fairness holds, so the properties of RetryCalls hold of the client.
ImplementsRetryCalls == FairSpec

\* A client that was started and is not being stopped has an open session,
\* through any number of restarts with requests in flight.  start() does nothing
\* when a session is left over, so this rests on stop() leaving none behind, and
\* there is one exception: a stop() that was cut short leaves a closed one, which
\* no start() replaces until another stop() comes to its end.
UpMeansOpen == lifecycle = "up" => session = IF cutShort THEN "closed" ELSE "open"
=============================================================================

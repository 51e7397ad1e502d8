--------------------------- MODULE HttpEdgeProofs ---------------------------
(***************************************************************************)
(* The HTTP edge counts, reports and correlates every request correctly,    *)
(* for any number of concurrent requests, ids, tenants and error classes.   *)
(*                                                                         *)
(* A step of one request changes only that request's entries (OthersStay),  *)
(* so most of the invariant speaks of one request: what its place in the    *)
(* stack says about its ids and its answer (Placed) and about its reports   *)
(* (Signalled).  Two things requests share.  The metrics are a pair of      *)
(* counters: a request enters the sets they are compared with in the same   *)
(* step that records it, and in no other.  And a task's logging context is  *)
(* seen by the requests that follow each other in it: what it holds came    *)
(* from one of them (TaskContexts), and without service auth only while     *)
(* that request is inside the RequestContextMiddleware.                     *)
(***************************************************************************)
EXTENDS HttpEdge, FiniteSetTheorems, TLAPS

NatCounts == [requests : Nat, errors : Nat]

\* The types, with counters that are not bounded yet.
EdgeTypes ==
    /\ guarded \in BOOLEAN
    /\ input \in [Requests -> Inputs]
    /\ task \in [Requests -> Tasks]
    /\ pc \in [Requests -> {"new", "admitted", "handling", "answered", "failing",
                            "cancelled", "unwound", "done"}]
    /\ outer \in [Tasks -> Contexts]
    /\ handler \in [Requests -> Contexts]
    /\ stateId \in [Requests -> GivenIds \cup Requests \cup {None}]
    /\ raised \in [Requests -> Errors \cup {"unexpected", None}]
    /\ response \in [Requests -> Responses \cup {None}]
    /\ metrics \in [all : NatCounts, byRoute : [BOOLEAN -> NatCounts]]
    /\ acts \in [Requests -> SUBSET Acts]
    /\ tracking \in BOOLEAN
    /\ reports \in [Requests -> Seq(Events)]
    /\ untracked \subseteq Requests

\* What the place of request r says about its ids, its error and its answer.
Placed(r) ==
    /\ stateId[r] \in {None, RequestId(r)}
    /\ pc[r] \in {"new", "admitted"} => stateId[r] = None
    /\ pc[r] \in {"handling", "answered", "failing", "cancelled", "unwound"} => stateId[r] # None
    /\ stateId[r] # None => handler[r].id = RequestId(r)
    /\ pc[r] \in {"new", "admitted", "handling", "cancelled"} => raised[r] = None
    /\ pc[r] \in {"failing", "unwound"} => raised[r] = "unexpected"
    /\ pc[r] \in {"new", "admitted", "handling", "cancelled", "failing", "unwound"} =>
          response[r] = None
    /\ pc[r] = "answered" =>
          response[r] # None /\ (raised[r] # None => response[r].body = RequestId(r))
    /\ pc[r] = "done" /\ stateId[r] # None /\ response[r] # None =>
          /\ response[r].header = RequestId(r)
          /\ raised[r] # None => response[r].body = RequestId(r)

\* What the place of request r says about its reports.
Signalled(r) ==
    /\ Len(reports[r]) <= 1
    /\ reports[r] # <<>> => Faulted(r)
    /\ pc[r] \notin {"answered", "done"} => reports[r] = <<>>
    /\ pc[r] \in {"answered", "done"} /\ Faulted(r) /\ r \notin untracked => reports[r] # <<>>

\* While tracking is off, every request that came in has seen it off.
OffIsSeen == ~tracking => \A r \in Requests : pc[r] = "new" \/ r \in untracked

\* A task serves one request at a time.
OneAtATime ==
    \A j, k \in Requests : j # k /\ task[j] = task[k] =>
       pc[j] \in {"new", "done"} \/ pc[k] \in {"new", "done"}

\* Inside the RequestContextMiddleware.
InContext == {"handling", "answered", "failing", "cancelled"}

\* A tenant in a task's context is that of a request the task has taken, and
\* without service auth one that is inside the RequestContextMiddleware now.
TaskContexts ==
    \A t \in Tasks : outer[t].tenant # None =>
       /\ \E k \in Requests : task[k] = t /\ pc[k] # "new" /\ outer[t].tenant = input[k].tenant
       /\ ~guarded => \E k \in Requests : task[k] = t /\ pc[k] \in InContext

\* The tenant in a handler's context is its request's own, or left over.
HandlerTenants ==
    \A r \in Requests : stateId[r] # None =>
       handler[r].tenant = input[r].tenant \/ LeftOver(r, handler[r].tenant)

EInv ==
    /\ EdgeTypes
    /\ \A r \in Requests : Placed(r)
    /\ \A r \in Requests : Signalled(r)
    /\ OffIsSeen
    /\ OneAtATime /\ TaskContexts /\ HandlerTenants
    /\ ActsCorrelated
    /\ MetricsAgree

-----------------------------------------------------------------------------
(* The operators *)

\* Every class of the hierarchy has a status, and _handle_plugshub_error and
\* should_report read the same one.
LEMMA StatusKnown ==
    ASSUME NEW exc \in Errors
    PROVE  HttpStatus(exc) \in Nat
<1>1. exc \in ErrorClasses
  BY EdgeAssumption
<1> QED  BY <1>1 DEF ErrorClasses, HttpStatus

\* A request's id: a header's, or its own.
LEMMA RequestIdKnown ==
    ASSUME EdgeTypes, NEW r \in Requests
    PROVE  /\ RequestId(r) \in GivenIds \cup Requests /\ RequestId(r) # None
           /\ input[r].id \in GivenIds \cup {None} /\ input[r].tenant \in Tenants \cup {None}
           /\ input[r].public \in BOOLEAN
<1>1. input[r] \in Inputs
  BY DEF EdgeTypes
<1>2. /\ input[r].id \in GivenIds \cup {None} /\ input[r].tenant \in Tenants \cup {None}
      /\ input[r].public \in BOOLEAN
  BY <1>1 DEF Inputs
<1> QED  BY <1>2, EdgeAssumption DEF RequestId

\* set_request_context yields a context.
LEMMA ContextSet ==
    ASSUME NEW ctx \in Contexts, NEW id \in GivenIds \cup Requests \cup {None},
           NEW tenant \in Tenants \cup {None}
    PROVE  /\ SetRequestContext(ctx, id, tenant) \in Contexts
           /\ id # None => SetRequestContext(ctx, id, tenant).id = id
           /\ SetRequestContext(ctx, id, tenant).tenant = IF tenant = None THEN ctx.tenant ELSE tenant
  BY DEF SetRequestContext, Contexts

\* capture_exception adds at most one event, of one request.
LEMMA CaptureAppends ==
    ASSUME EdgeTypes, NEW r \in Requests, NEW exc, NEW ctx \in Contexts, CaptureException(r, exc, ctx)
    PROVE  /\ reports' \in [Requests -> Seq(Events)]
           /\ \A k \in Requests : k # r => reports'[k] = reports[k]
           /\ tracking /\ ShouldReport(exc) => reports'[r] = Append(reports[r], ScrubEvent(ctx))
           /\ ~(tracking /\ ShouldReport(exc)) => reports'[r] = reports[r]
           /\ ScrubEvent(ctx) \in Events
<1>1. ScrubEvent(ctx) \in Events
  BY DEF ScrubEvent, Events, Contexts, MaskMapping
<1>2. reports \in [Requests -> Seq(Events)]
  BY DEF EdgeTypes
<1> HIDE DEF Events
<1>3. CASE tracking /\ ShouldReport(exc)
  BY <1>1, <1>2, <1>3 DEF CaptureException
<1>4. CASE ~(tracking /\ ShouldReport(exc))
  BY <1>1, <1>2, <1>4 DEF CaptureException
<1> QED  BY <1>3, <1>4

\* record keeps the counters' types.
LEMMA RecordTypes ==
    ASSUME EdgeTypes, NEW r \in Requests, NEW status \in Nat, Record(r, status)
    PROVE  metrics' \in [all : NatCounts, byRoute : [BOOLEAN -> NatCounts]]
<1>1. \A n \in NatCounts : Counted(n, status) \in NatCounts
  BY DEF NatCounts, Counted
<1>2. metrics.all \in NatCounts /\ metrics.byRoute \in [BOOLEAN -> NatCounts]
  BY DEF EdgeTypes
<1>3. input[r].public \in BOOLEAN
  BY RequestIdKnown
<1> QED  BY <1>1, <1>2, <1>3 DEF Record

-----------------------------------------------------------------------------
(* Types and frame *)

\* Every action of a request keeps the types.
LEMMA StepKeepsTypes ==
    ASSUME EInv, NEW r \in Requests, RequestStep(r)
    PROVE  EdgeTypes'
<1> USE DEF EInv
<1>1. /\ RequestId(r) \in GivenIds \cup Requests
      /\ input[r].id \in GivenIds \cup {None} /\ input[r].tenant \in Tenants \cup {None}
  BY RequestIdKnown
<1>2. /\ outer[task[r]] \in Contexts /\ handler[r] \in Contexts /\ Empty \in Contexts
      /\ task[r] \in Tasks
  BY DEF EdgeTypes, Empty, Contexts
<1>b. ASSUME NEW ctx \in Contexts, BindContext(r, ctx)
       PROVE  outer' \in [Tasks -> Contexts]
  BY <1>2, <1>b DEF BindContext, EdgeTypes
<1>3. /\ stateId[r] \in GivenIds \cup Requests \cup {None}
      /\ ErrorId(r) \in GivenIds \cup Requests \cup {None}
  BY <1>1 DEF EdgeTypes, ErrorId
<1>4. \A status \in Nat : \A h, b \in GivenIds \cup Requests \cup {None} :
         [status |-> status, header |-> h, body |-> b] \in Responses
  BY DEF Responses
<1>5. CASE NoServiceAuth(r)
  BY <1>5 DEF NoServiceAuth, Goto, EdgeTypes
<1>6. CASE ServiceAuth(r)
  <2>1. SetRequestContext(outer[task[r]], input[r].id, input[r].tenant) \in Contexts
    BY <1>1, <1>2, ContextSet
  <2>2. outer' \in [Tasks -> Contexts]
    BY <1>2, <1>6, <2>1 DEF ServiceAuth, EdgeTypes
  <2>3. [status |-> 401, header |-> None, body |-> input[r].id] \in Responses
    BY <1>1, <1>4
  <2>4. response' \in [Requests -> Responses \cup {None}]
    BY <1>6, <2>3 DEF ServiceAuth, EdgeTypes
  <2>5. pc' = [pc EXCEPT ![r] = "admitted"] \/ pc' = [pc EXCEPT ![r] = "done"]
    BY <1>6 DEF ServiceAuth, Goto
  <2>6. untracked' \subseteq Requests
    BY <1>6 DEF ServiceAuth, EdgeTypes
  <2>7. UNCHANGED <<guarded, input, task, handler, stateId, raised, metrics, tracking, reports, acts>>
    BY <1>6 DEF ServiceAuth
  <2> QED  BY <2>2, <2>4, <2>5, <2>6, <2>7 DEF EdgeTypes
<1>7. CASE EnterContext(r)
  <2>1. SetRequestContext(outer[task[r]], RequestId(r), input[r].tenant) \in Contexts
    BY <1>1, <1>2, ContextSet
  <2>2. outer' \in [Tasks -> Contexts] /\ handler' \in [Requests -> Contexts]
    BY <1>7, <1>b, <2>1 DEF EnterContext, EdgeTypes
  <2> QED  BY <1>1, <1>7, <2>2 DEF EnterContext, Goto, EdgeTypes
<1>8. ASSUME NEW given \in SUBSET Parts, CallService(r, given) \/ AuditRecord(r, given)
      PROVE  EdgeTypes'
  <2>1. handler[r].id \in GivenIds \cup Requests \cup {None} /\ handler[r].tenant \in Tenants \cup {None}
    BY <1>2 DEF Contexts
  <2>2. PICK i \in GivenIds \cup Requests \cup {None, Given, Generated},
             t \in Tenants \cup {None, Given} : Act(r, i, t)
    BY <1>8, <2>1 DEF CallService, AuditRecord
  <2>3. [id |-> i, tenant |-> t] \in Acts
    BY DEF Acts
  <2>4. acts' \in [Requests -> SUBSET Acts]
    BY <2>2, <2>3 DEF Act, EdgeTypes
  <2> QED  BY <2>2, <2>4 DEF Act, EdgeTypes
<1>9. ASSUME NEW status \in ReturnedStatuses, HandlerReturns(r, status)
      PROVE  EdgeTypes'
  <2>1. [status |-> status, header |-> None, body |-> None] \in Responses
    BY <1>4 DEF ReturnedStatuses
  <2>2. response' \in [Requests -> Responses \cup {None}]
    BY <1>9, <2>1 DEF HandlerReturns, EdgeTypes
  <2> QED  BY <1>9, <2>2 DEF HandlerReturns, Goto, EdgeTypes
<1>10. ASSUME NEW exc \in Errors, HandlePlugshubError(r, exc)
       PROVE  EdgeTypes'
  <2>1. [status |-> HttpStatus(exc), header |-> ErrorId(r), body |-> ErrorId(r)] \in Responses
    BY <1>3, <1>4, StatusKnown
  <2>2. response' \in [Requests -> Responses \cup {None}]
    BY <1>10, <2>1 DEF HandlePlugshubError, ErrorResponse, EdgeTypes
  <2>3. reports' \in [Requests -> Seq(Events)]
    BY <1>2, <1>10, CaptureAppends DEF HandlePlugshubError
  <2> QED  BY <1>10, <2>2, <2>3 DEF HandlePlugshubError, Goto, EdgeTypes
<1>11. CASE HandlerRaises(r) \/ Disconnect(r)
  BY <1>11 DEF HandlerRaises, Disconnect, Goto, EdgeTypes
<1>12. CASE ReturnThroughContext(r)
  <2>1. response[r] \in Responses
    BY <1>12 DEF ReturnThroughContext, Placed, EdgeTypes
  <2>2. [response[r] EXCEPT !.header = RequestId(r)] \in Responses /\ response[r].status \in Nat
    BY <1>1, <2>1 DEF Responses
  <2>3. response' \in [Requests -> Responses \cup {None}]
    BY <1>12, <2>2 DEF ReturnThroughContext, EdgeTypes
  <2>4. metrics' \in [all : NatCounts, byRoute : [BOOLEAN -> NatCounts]]
    BY <1>12, <2>2, RecordTypes DEF ReturnThroughContext
  <2>5. outer' \in [Tasks -> Contexts]
    BY <1>2, <1>12, <1>b DEF ReturnThroughContext
  <2> QED  BY <1>12, <2>3, <2>4, <2>5 DEF ReturnThroughContext, Goto, EdgeTypes
<1>13. CASE UnwindThroughContext(r)
  <2>1. metrics' \in [all : NatCounts, byRoute : [BOOLEAN -> NatCounts]]
    BY <1>13, RecordTypes DEF UnwindThroughContext
  <2>2. outer' \in [Tasks -> Contexts]
    BY <1>2, <1>13, <1>b DEF UnwindThroughContext
  <2> QED  BY <1>13, <2>1, <2>2 DEF UnwindThroughContext, Goto, EdgeTypes
<1>14. CASE HandleUnexpected(r)
  <2>1. [status |-> 500, header |-> ErrorId(r), body |-> ErrorId(r)] \in Responses
    BY <1>3, <1>4
  <2>2. response' \in [Requests -> Responses \cup {None}]
    BY <1>14, <2>1 DEF HandleUnexpected, ErrorResponse, EdgeTypes
  <2>3. reports' \in [Requests -> Seq(Events)]
    BY <1>2, <1>14, CaptureAppends DEF HandleUnexpected
  <2> QED  BY <1>14, <2>2, <2>3 DEF HandleUnexpected, Goto, EdgeTypes
<1> QED
  BY <1>5, <1>6, <1>7, <1>8, <1>9, <1>10, <1>11, <1>12, <1>13, <1>14 DEF RequestStep

\* A step leaves the entries of request k alone.
Stays(k) ==
    /\ pc'[k] = pc[k] /\ handler'[k] = handler[k]
    /\ stateId'[k] = stateId[k] /\ raised'[k] = raised[k] /\ response'[k] = response[k]
    /\ reports'[k] = reports[k] /\ acts'[k] = acts[k]
    /\ k \in untracked' <=> k \in untracked

\* A request changes its own entries only.
LEMMA OthersStay ==
    ASSUME EdgeTypes, NEW r \in Requests, RequestStep(r)
    PROVE  UNCHANGED <<guarded, input, task, tracking>> /\ \A k \in Requests : k # r => Stays(k)
<1> USE DEF EdgeTypes, Stays, Goto
<1>1. CASE NoServiceAuth(r) \/ ServiceAuth(r) \/ EnterContext(r)
  BY <1>1 DEF NoServiceAuth, ServiceAuth, EnterContext
<1>2. ASSUME NEW given \in SUBSET Parts, CallService(r, given) \/ AuditRecord(r, given)
      PROVE  UNCHANGED <<guarded, input, task, tracking>> /\ \A k \in Requests : k # r => Stays(k)
  BY <1>2 DEF CallService, AuditRecord, Act
<1>3. ASSUME NEW status \in ReturnedStatuses, HandlerReturns(r, status)
      PROVE  UNCHANGED <<guarded, input, task, tracking>> /\ \A k \in Requests : k # r => Stays(k)
  BY <1>3 DEF HandlerReturns
<1>4. CASE HandlerRaises(r) \/ Disconnect(r)
  BY <1>4 DEF HandlerRaises, Disconnect
<1>5. CASE ReturnThroughContext(r) \/ UnwindThroughContext(r)
  BY <1>5 DEF ReturnThroughContext, UnwindThroughContext
<1>6. ASSUME NEW exc \in Errors, HandlePlugshubError(r, exc)
      PROVE  UNCHANGED <<guarded, input, task, tracking>> /\ \A k \in Requests : k # r => Stays(k)
  <2>1. \A k \in Requests : k # r => reports'[k] = reports[k]
    BY <1>6, CaptureAppends DEF HandlePlugshubError
  <2> QED  BY <1>6, <2>1 DEF HandlePlugshubError, ErrorResponse
<1>7. CASE HandleUnexpected(r)
  <2>1. \A k \in Requests : k # r => reports'[k] = reports[k]
    BY <1>7, CaptureAppends DEF HandleUnexpected
  <2> QED  BY <1>7, <2>1 DEF HandleUnexpected, ErrorResponse
<1> QED  BY <1>1, <1>2, <1>3, <1>4, <1>5, <1>6, <1>7 DEF RequestStep

\* What is known of a request stays true while its entries do not change.
LEMMA StaysKeeps ==
    ASSUME NEW k \in Requests, Stays(k), input' = input, Placed(k), Signalled(k)
    PROVE  Placed(k)' /\ Signalled(k)'
  BY DEF Stays, Placed, Signalled, RequestId, Faulted

-----------------------------------------------------------------------------
(* A request's own entries *)

\* On its way through the stack a request keeps one id and, at its end, answers
\* under it.
LEMMA StepKeepsPlaced ==
    ASSUME EInv, NEW r \in Requests, RequestStep(r)
    PROVE  Placed(r)'
<1>1. EdgeTypes /\ Placed(r)
  BY DEF EInv
<1>2. input' = input
  BY <1>1, OthersStay
<1>3. PICK id : id = RequestId(r) /\ id = RequestId(r)' /\ id # None
  BY <1>1, <1>2, RequestIdKnown DEF RequestId
<1>4. CASE NoServiceAuth(r)
  BY <1>1, <1>2, <1>3, <1>4 DEF NoServiceAuth, Arrives, Goto, Placed, EdgeTypes
<1>5. CASE ServiceAuth(r)
  <2>1. (pc'[r] = "admitted" /\ response'[r] = response[r]) \/ pc'[r] = "done"
    BY <1>1, <1>5 DEF ServiceAuth, Goto, EdgeTypes
  <2>2. stateId[r] = None /\ raised[r] = None /\ response[r] = None
    BY <1>1, <1>5 DEF ServiceAuth, Arrives, Placed
  <2>3. UNCHANGED <<stateId, raised, handler>>
    BY <1>5 DEF ServiceAuth
  <2> QED  BY <1>2, <1>3, <2>1, <2>2, <2>3 DEF Placed
<1>6. CASE EnterContext(r)
  <2>1. /\ handler'[r] = SetRequestContext(outer[task[r]], id, input[r].tenant)
        /\ stateId'[r] = id /\ pc'[r] = "handling"
        /\ UNCHANGED <<raised, response>>
    BY <1>1, <1>3, <1>6 DEF EnterContext, Goto, EdgeTypes
  <2>2. handler'[r].id = id
    BY <1>3, <2>1 DEF SetRequestContext
  <2>3. raised[r] = None /\ response[r] = None
    BY <1>1, <1>6 DEF EnterContext, Placed
  <2> QED  BY <1>1, <1>2, <1>3, <2>1, <2>2, <2>3 DEF Placed
<1>7. ASSUME NEW given \in SUBSET Parts, CallService(r, given) \/ AuditRecord(r, given)
      PROVE  Placed(r)'
  <2>1. UNCHANGED <<pc, handler, stateId, raised, response>>
    BY <1>7 DEF CallService, AuditRecord, Act
  <2> QED  BY <1>1, <1>2, <1>3, <2>1 DEF Placed
<1>8. ASSUME NEW status \in ReturnedStatuses, HandlerReturns(r, status)
      PROVE  Placed(r)'
  <2>1. response'[r] \in Responses
    <3>1. [status |-> status, header |-> None, body |-> None] \in Responses
      BY DEF ReturnedStatuses, Responses
    <3> QED  BY <1>1, <1>8, <3>1 DEF HandlerReturns, EdgeTypes
  <2>2. response'[r] # None
    BY <2>1, EdgeAssumption
  <2>3. pc'[r] = "answered" /\ pc[r] = "handling" /\ UNCHANGED <<handler, stateId, raised>>
    BY <1>1, <1>8 DEF HandlerReturns, Goto, EdgeTypes
  <2> QED  BY <1>1, <1>2, <1>3, <2>2, <2>3 DEF Placed
<1>9. pc[r] \in {"handling", "unwound"} => ErrorId(r) = id
  BY <1>1, <1>3 DEF Placed, ErrorId
<1>10. ASSUME NEW status \in Nat, ErrorResponse(r, status), pc[r] \in {"handling", "unwound"}
       PROVE  response'[r] # None /\ response'[r].header = id /\ response'[r].body = id
  <2>1. response'[r] = [status |-> status, header |-> id, body |-> id]
    BY <1>1, <1>9, <1>10 DEF ErrorResponse, EdgeTypes
  <2>2. id \in GivenIds \cup Requests
    BY <1>1, <1>3, RequestIdKnown
  <2>3. response'[r] \in Responses
    BY <1>10, <2>1, <2>2 DEF Responses
  <2> QED  BY <2>1, <2>3, EdgeAssumption
<1>11. ASSUME NEW exc \in Errors, HandlePlugshubError(r, exc)
       PROVE  Placed(r)'
  <2>1. response'[r] # None /\ response'[r].body = id
    BY <1>10, <1>11, StatusKnown DEF HandlePlugshubError
  <2>2. pc'[r] = "answered" /\ pc[r] = "handling" /\ UNCHANGED <<handler, stateId>>
    BY <1>1, <1>11 DEF HandlePlugshubError, Goto, EdgeTypes
  <2> QED  BY <1>1, <1>2, <1>3, <2>1, <2>2 DEF Placed
<1>12. CASE HandlerRaises(r) \/ Disconnect(r)
  BY <1>1, <1>2, <1>3, <1>12 DEF HandlerRaises, Disconnect, Goto, Placed, EdgeTypes
<1>13. CASE ReturnThroughContext(r)
  <2>1. response[r] \in Responses
    BY <1>1, <1>13 DEF ReturnThroughContext, Placed, EdgeTypes
  <2>2. response'[r] = [response[r] EXCEPT !.header = id]
    BY <1>1, <1>3, <1>13 DEF ReturnThroughContext, EdgeTypes
  <2>3. response'[r].header = id /\ response'[r].body = response[r].body
    BY <2>1, <2>2 DEF Responses
  <2>4. /\ pc'[r] = "done" /\ pc[r] = "answered"
        /\ UNCHANGED <<handler, stateId, raised>>
    BY <1>1, <1>13 DEF ReturnThroughContext, Goto, EdgeTypes
  <2> QED  BY <1>1, <1>2, <1>3, <2>3, <2>4 DEF Placed
<1>14. CASE UnwindThroughContext(r)
  BY <1>1, <1>2, <1>3, <1>14 DEF UnwindThroughContext, Goto, Placed, EdgeTypes
<1>15. CASE HandleUnexpected(r)
  <2>1. response'[r] # None /\ response'[r].header = id /\ response'[r].body = id
    BY <1>10, <1>15 DEF HandleUnexpected
  <2>2. /\ pc'[r] = "done" /\ pc[r] = "unwound"
        /\ UNCHANGED <<handler, stateId, raised>>
    BY <1>1, <1>15 DEF HandleUnexpected, Goto, EdgeTypes
  <2> QED  BY <1>1, <1>2, <1>3, <2>1, <2>2 DEF Placed
<1> QED
  BY <1>4, <1>5, <1>6, <1>7, <1>8, <1>11, <1>12, <1>13, <1>14, <1>15 DEF RequestStep

\* should_report agrees with what counts as a server fault.
LEMMA ShouldReportFaults ==
    ASSUME NEW exc \in Errors \cup {"unexpected"}
    PROVE  ShouldReport(exc) <=> (exc = "unexpected" \/ HttpStatus(exc) >= 500)
<1>1. "unexpected" \notin Errors
  BY EdgeAssumption DEF ErrorClasses
<1> QED  BY <1>1 DEF ShouldReport

\* An event is reported when the handler's error is met, by the one of the two
\* exception handlers it reaches, unless tracking is off, which the request has
\* then seen.
LEMMA StepKeepsSignalled ==
    ASSUME EInv, NEW r \in Requests, RequestStep(r)
    PROVE  Signalled(r)'
<1>1. EdgeTypes /\ Placed(r) /\ Signalled(r) /\ outer[task[r]] \in Contexts /\ handler[r] \in Contexts
  BY DEF EInv, EdgeTypes
<1>2. Faulted(r) => raised[r] # None
  BY DEF Faulted
<1>3. ASSUME UNCHANGED <<raised, reports>>, pc'[r] # "answered", pc'[r] # "done"
      PROVE  pc[r] \notin {"answered", "done"} => Signalled(r)'
  BY <1>1, <1>3 DEF Signalled, Faulted
<1>4. ASSUME UNCHANGED <<raised, reports>>, raised[r] = None
      PROVE  pc[r] \notin {"answered", "done"} => Signalled(r)'
  BY <1>1, <1>4 DEF Signalled, Faulted
<1>5. CASE NoServiceAuth(r) \/ ServiceAuth(r) \/ EnterContext(r)
  <2>1. UNCHANGED <<raised, reports>> /\ pc[r] \in {"new", "admitted"}
    BY <1>5 DEF NoServiceAuth, ServiceAuth, Arrives, EnterContext
  <2> QED  BY <1>1, <1>4, <2>1 DEF Placed
<1>6. ASSUME NEW given \in SUBSET Parts, CallService(r, given) \/ AuditRecord(r, given)
      PROVE  Signalled(r)'
  <2>1. UNCHANGED <<pc, raised, reports, untracked>>
    BY <1>6 DEF CallService, AuditRecord, Act
  <2> QED  BY <1>1, <2>1 DEF Signalled, Faulted
<1>7. ASSUME NEW status \in ReturnedStatuses, HandlerReturns(r, status)
      PROVE  Signalled(r)'
  <2>1. UNCHANGED <<raised, reports>> /\ pc[r] = "handling"
    BY <1>7 DEF HandlerReturns
  <2> QED  BY <1>1, <1>4, <2>1 DEF Placed
<1>8. CASE HandlerRaises(r)
  <2>1. reports' = reports /\ pc[r] = "handling" /\ pc'[r] = "failing"
    BY <1>1, <1>8 DEF HandlerRaises, Goto, EdgeTypes
  <2> QED  BY <1>1, <2>1 DEF Signalled
<1>9. CASE Disconnect(r)
  <2>1. UNCHANGED <<raised, reports>> /\ pc[r] = "handling"
    BY <1>9 DEF Disconnect
  <2> QED  BY <1>1, <1>4, <2>1 DEF Placed
<1>10. CASE ReturnThroughContext(r)
  <2>1. UNCHANGED <<raised, reports, untracked>> /\ pc[r] = "answered" /\ pc'[r] = "done"
    BY <1>1, <1>10 DEF ReturnThroughContext, Goto, EdgeTypes
  <2> QED  BY <1>1, <2>1 DEF Signalled, Faulted
<1>11. CASE UnwindThroughContext(r)
  <2>1. /\ UNCHANGED <<raised, reports>>
        /\ \/ pc[r] = "failing" /\ pc'[r] = "unwound"
           \/ pc[r] = "cancelled" /\ pc'[r] = "done"
    BY <1>1, <1>11 DEF UnwindThroughContext, Goto, EdgeTypes
  <2> QED  BY <1>1, <1>3, <1>4, <2>1 DEF Placed
<1>12. ASSUME NEW exc \in Errors \cup {"unexpected"}, NEW ctx \in Contexts,
              CaptureException(r, exc, ctx), raised'[r] = exc, untracked' = untracked,
              pc[r] \in {"handling", "unwound"}, pc'[r] \in {"answered", "done"}
       PROVE  Signalled(r)'
  <2>1. reports[r] = <<>>
    BY <1>1, <1>12 DEF Signalled
  <2>2. exc # None
    BY EdgeAssumption
  <2>3. Faulted(r)' <=> ShouldReport(exc)
    BY <1>12, <2>2, ShouldReportFaults DEF Faulted
  <2>4. ~tracking => r \in untracked
    BY <1>12 DEF EInv, OffIsSeen
  <2>5. CASE tracking /\ ShouldReport(exc)
    <3>1. reports'[r] = Append(<<>>, ScrubEvent(ctx)) /\ ScrubEvent(ctx) \in Events
      BY <1>1, <1>12, <2>1, <2>5, CaptureAppends
    <3>2. Len(reports'[r]) = 1 /\ reports'[r] # <<>>
      BY <3>1
    <3> QED  BY <1>12, <2>3, <2>5, <3>2 DEF Signalled
  <2>6. CASE ~(tracking /\ ShouldReport(exc))
    <3>1. reports'[r] = <<>>
      BY <1>1, <1>12, <2>1, <2>6, CaptureAppends
    <3> QED  BY <1>12, <2>3, <2>4, <2>6, <3>1 DEF Signalled
  <2> QED  BY <2>5, <2>6
<1>13. ASSUME NEW exc \in Errors, HandlePlugshubError(r, exc)
       PROVE  Signalled(r)'
  <2>1. /\ CaptureException(r, exc, handler[r]) /\ raised'[r] = exc /\ untracked' = untracked
        /\ pc[r] = "handling" /\ pc'[r] = "answered"
    BY <1>1, <1>13 DEF HandlePlugshubError, Goto, EdgeTypes
  <2> QED  BY <1>1, <1>12, <2>1
<1>14. CASE HandleUnexpected(r)
  <2>1. /\ CaptureException(r, raised[r], outer[task[r]]) /\ raised' = raised /\ untracked' = untracked
        /\ pc[r] = "unwound" /\ pc'[r] = "done"
    BY <1>1, <1>14 DEF HandleUnexpected, Goto, EdgeTypes
  <2>2. raised[r] = "unexpected"
    BY <1>1, <2>1 DEF Placed
  <2> QED  BY <1>1, <1>12, <2>1, <2>2
<1> QED
  BY <1>5, <1>6, <1>7, <1>8, <1>9, <1>10, <1>11, <1>13, <1>14 DEF RequestStep

\* A request that comes in while tracking is off is noted.
LEMMA StepKeepsOffIsSeen ==
    ASSUME EInv, NEW r \in Requests, RequestStep(r)
    PROVE  OffIsSeen'
<1>1. EdgeTypes /\ OffIsSeen
  BY DEF EInv
<1>2. tracking' = tracking /\ \A k \in Requests : k # r => Stays(k)
  BY <1>1, OthersStay
<1>3. ASSUME ~tracking PROVE r \in untracked' \/ (pc'[r] = "new" /\ pc[r] = "new")
  <2>1. CASE NoServiceAuth(r) \/ ServiceAuth(r)
    BY <1>3, <2>1 DEF NoServiceAuth, ServiceAuth
  <2>2. CASE pc[r] # "new" /\ untracked' = untracked
    BY <1>1, <1>3, <2>2 DEF OffIsSeen
  <2> QED
    BY <2>1, <2>2
    DEF RequestStep, EnterContext, CallService, AuditRecord, Act, InHandlerTask, HandlerReturns,
        HandlePlugshubError, HandlerRaises, Disconnect, ReturnThroughContext, UnwindThroughContext,
        HandleUnexpected
<1> QED  BY <1>1, <1>2, <1>3 DEF OffIsSeen, Stays

\* A request comes in only where its task is free, never goes back to the start
\* and stays at the end.
LEMMA StepMoves ==
    ASSUME EInv, NEW r \in Requests, RequestStep(r)
    PROVE  /\ pc[r] = "new" => Arrives(r)
           /\ pc'[r] # "new"
           /\ pc[r] = "done" => pc'[r] = "done"
<1>1. EdgeTypes
  BY DEF EInv
<1> QED
  BY <1>1
  DEF RequestStep, ServiceAuth, NoServiceAuth, Arrives, EnterContext, CallService, AuditRecord, Act,
      InHandlerTask, HandlerReturns, HandlePlugshubError, HandlerRaises, Disconnect,
      ReturnThroughContext, UnwindThroughContext, HandleUnexpected, Goto, EdgeTypes

\* What a step of request r does to the context of its task: service auth and,
\* in a service without it, the way in add the request's own tenant, and the
\* way out of the RequestContextMiddleware clears the context.
LEMMA StepBinds ==
    ASSUME EInv, NEW r \in Requests, RequestStep(r)
    PROVE  /\ \A t \in Tasks : t # task[r] => outer'[t] = outer[t]
           /\ \/ /\ outer'[task[r]] = outer[task[r]]
                 /\ ~guarded => (pc'[r] \in InContext <=> pc[r] \in InContext)
              \/ /\ guarded \/ pc'[r] \in InContext
                 /\ outer'[task[r]].tenant = IF input[r].tenant = None THEN outer[task[r]].tenant
                                             ELSE input[r].tenant
              \/ outer'[task[r]].tenant = None
<1>1. EdgeTypes /\ task[r] \in Tasks
  BY DEF EInv, EdgeTypes
<1> USE DEF InContext
<1>2. CASE ServiceAuth(r)
  BY <1>1, <1>2 DEF ServiceAuth, SetRequestContext, EdgeTypes
<1>3. CASE EnterContext(r)
  <2>1. pc'[r] = "handling" /\ pc[r] = "admitted"
    BY <1>1, <1>3 DEF EnterContext, Goto, EdgeTypes
  <2>2. CASE guarded
    BY <1>1, <1>3, <2>1, <2>2 DEF EnterContext, BindContext
  <2>3. CASE ~guarded
    BY <1>1, <1>3, <2>1, <2>3 DEF EnterContext, BindContext, SetRequestContext, EdgeTypes
  <2> QED  BY <2>2, <2>3
<1>4. CASE ReturnThroughContext(r) \/ UnwindThroughContext(r)
  <2>1. BindContext(r, Empty)
    BY <1>4 DEF ReturnThroughContext, UnwindThroughContext
  <2> QED  BY <1>1, <2>1 DEF BindContext, Empty, EdgeTypes
<1>5. CASE outer' = outer /\ (pc'[r] \in InContext <=> pc[r] \in InContext)
  BY <1>5
<1> QED
  BY <1>1, <1>2, <1>3, <1>4, <1>5
  DEF RequestStep, NoServiceAuth, Arrives, CallService, AuditRecord, Act, HandlerReturns,
      HandlePlugshubError, HandlerRaises, Disconnect, HandleUnexpected, Goto, EdgeTypes

\* What a task's context holds is its requests', and is cleared between them
\* unless service auth bound it.
LEMMA StepKeepsTasks ==
    ASSUME EInv, NEW r \in Requests, RequestStep(r)
    PROVE  OneAtATime' /\ TaskContexts'
<1>1. EdgeTypes /\ OneAtATime /\ TaskContexts
  BY DEF EInv
<1>2. /\ UNCHANGED <<guarded, input, task>>
      /\ \A k \in Requests : k # r => pc'[k] = pc[k]
  BY <1>1, OthersStay DEF Stays
<1>3. /\ pc[r] = "new" => Arrives(r)
      /\ pc'[r] # "new"
      /\ pc[r] = "done" => pc'[r] = "done"
  BY StepMoves
<1>4. OneAtATime'
  <2> SUFFICES ASSUME NEW j \in Requests, NEW k \in Requests, j # k, task[j] = task[k]
               PROVE  pc'[j] \in {"new", "done"} \/ pc'[k] \in {"new", "done"}
    BY <1>2 DEF OneAtATime
  <2>1. CASE j = r
    BY <1>1, <1>2, <1>3, <2>1 DEF OneAtATime, Arrives
  <2>2. CASE k = r
    BY <1>1, <1>2, <1>3, <2>2 DEF OneAtATime, Arrives
  <2>3. CASE j # r /\ k # r
    BY <1>1, <1>2, <2>3 DEF OneAtATime
  <2> QED  BY <2>1, <2>2, <2>3
<1>5. TaskContexts'
  <2> SUFFICES ASSUME NEW t \in Tasks, outer'[t].tenant # None
               PROVE  /\ \E k \in Requests : /\ task[k] = t /\ pc'[k] # "new"
                                              /\ outer'[t].tenant = input[k].tenant
                      /\ ~guarded => \E k \in Requests : task[k] = t /\ pc'[k] \in InContext
    BY <1>2 DEF TaskContexts
  <2>1. ASSUME outer[t].tenant # None
        PROVE  \E k \in Requests : task[k] = t /\ pc'[k] # "new" /\ outer[t].tenant = input[k].tenant
    <3>1. PICK k \in Requests : task[k] = t /\ pc[k] # "new" /\ outer[t].tenant = input[k].tenant
      BY <1>1, <2>1 DEF TaskContexts
    <3> QED  BY <1>2, <1>3, <3>1
  <2>2. CASE t # task[r]
    <3>1. outer'[t] = outer[t]
      BY <2>2, StepBinds
    <3>2. ~guarded => \E k \in Requests : task[k] = t /\ pc'[k] \in InContext
      BY <1>1, <1>2, <2>2, <3>1 DEF TaskContexts
    <3> QED  BY <2>1, <3>1, <3>2
  <2>3. CASE t = task[r] /\ outer'[t] = outer[t]
             /\ (~guarded => (pc'[r] \in InContext <=> pc[r] \in InContext))
    <3>1. ~guarded => \E k \in Requests : task[k] = t /\ pc'[k] \in InContext
      BY <1>1, <1>2, <2>3 DEF TaskContexts
    <3> QED  BY <2>1, <2>3, <3>1
  <2>4. CASE /\ t = task[r] /\ (guarded \/ pc'[r] \in InContext)
             /\ outer'[t].tenant = IF input[r].tenant = None THEN outer[t].tenant ELSE input[r].tenant
    BY <1>3, <2>1, <2>4
  <2> QED  BY <2>2, <2>3, <2>4, StepBinds
<1> QED  BY <1>4, <1>5

\* A tenant that was left over stays one.
LEMMA LeftOverStays ==
    ASSUME EInv, NEW r \in Requests, RequestStep(r), NEW k \in Requests, NEW tenant,
           LeftOver(k, tenant)
    PROVE  LeftOver(k, tenant)'
<1>1. /\ UNCHANGED <<guarded, input, task>>
      /\ \A j \in Requests : pc[j] = "done" => pc'[j] = "done"
  BY OthersStay, StepMoves DEF EInv, Stays
<1> QED  BY <1>1 DEF LeftOver

\* A handler's context is made from what its request brings and from what its
\* task's context holds on the way in.
LEMMA StepKeepsTenants ==
    ASSUME EInv, NEW r \in Requests, RequestStep(r)
    PROVE  HandlerTenants'
<1>1. EdgeTypes /\ Placed(r) /\ OneAtATime /\ TaskContexts /\ HandlerTenants
  BY DEF EInv
<1>2. UNCHANGED <<guarded, input, task>> /\ \A k \in Requests : k # r => Stays(k)
  BY <1>1, OthersStay
<1> SUFFICES ASSUME NEW k \in Requests, stateId'[k] # None, NEW tenant, tenant = handler'[k].tenant
             PROVE  tenant = input[k].tenant \/ LeftOver(k, tenant)'
  <2>1. ASSUME \A k \in Requests : \A tenant : stateId'[k] # None /\ tenant = handler'[k].tenant =>
                  tenant = input[k].tenant \/ LeftOver(k, tenant)'
        PROVE  HandlerTenants'
    <3> SUFFICES ASSUME NEW k \in Requests, stateId'[k] # None
                 PROVE  \/ handler'[k].tenant = input'[k].tenant
                        \/ /\ guarded' /\ input'[k].tenant = None
                           /\ \E j \in Requests \ {k} : /\ task'[j] = task'[k] /\ pc'[j] = "done"
                                                        /\ handler'[k].tenant = input'[j].tenant
      BY DEF HandlerTenants, LeftOver
    <3> QED  BY <1>2, <2>1 DEF LeftOver
  <2> QED  BY <2>1
<1>3. CASE handler'[k] = handler[k] /\ stateId'[k] = stateId[k]
  <2>1. tenant = input[k].tenant \/ LeftOver(k, tenant)
    BY <1>1, <1>3 DEF HandlerTenants
  <2> QED  BY <2>1, LeftOverStays
<1>4. CASE k = r /\ EnterContext(r)
  <2>1. handler'[r].tenant = IF input[r].tenant = None THEN outer[task[r]].tenant ELSE input[r].tenant
    BY <1>1, <1>4 DEF EnterContext, SetRequestContext, EdgeTypes
  <2>2. pc[r] = "admitted" /\ task[r] \in Tasks
    BY <1>1, <1>4 DEF EnterContext, EdgeTypes
  <2>3. CASE input[r].tenant # None \/ outer[task[r]].tenant = None
    BY <1>2, <1>4, <2>1, <2>3
  <2>4. CASE input[r].tenant = None /\ outer[task[r]].tenant # None
    <3>1. PICK j \in Requests : /\ task[j] = task[r] /\ pc[j] # "new"
                                /\ outer[task[r]].tenant = input[j].tenant
      BY <1>1, <2>2, <2>4 DEF TaskContexts
    <3>2. j # r /\ pc[j] = "done"
      BY <1>1, <2>2, <2>4, <3>1 DEF OneAtATime
    <3>3. guarded
      <4> SUFFICES ASSUME ~guarded PROVE FALSE
        OBVIOUS
      <4>1. PICK i \in Requests : task[i] = task[r] /\ pc[i] \in InContext
        BY <1>1, <2>2, <2>4 DEF TaskContexts
      <4> QED  BY <1>1, <2>2, <4>1 DEF OneAtATime, InContext
    <3>4. LeftOver(r, input[j].tenant)
      BY <2>4, <3>1, <3>2, <3>3 DEF LeftOver
    <3>5. tenant = input[j].tenant
      BY <1>4, <2>1, <2>4, <3>1
    <3> QED  BY <1>4, <3>4, <3>5, LeftOverStays
  <2> QED  BY <2>3, <2>4
<1>5. CASE k # r
  BY <1>2, <1>3, <1>5 DEF Stays
<1> QED
  BY <1>3, <1>4, <1>5
  DEF RequestStep, ServiceAuth, NoServiceAuth, CallService, AuditRecord, Act, HandlerReturns,
      HandlePlugshubError, HandlerRaises, Disconnect, ReturnThroughContext, UnwindThroughContext,
      HandleUnexpected

\* What a request does, it does in a handler's task, whose context has its id and
\* its tenant or one that was left over.
LEMMA StepKeepsActs ==
    ASSUME EInv, NEW r \in Requests, RequestStep(r)
    PROVE  ActsCorrelated'
<1> DEFINE Correlated(k, act) ==
             /\ act.id # Given => act.id = RequestId(k)
             /\ act.tenant # Given => act.tenant = input[k].tenant \/ LeftOver(k, act.tenant)
<1>1. EdgeTypes /\ Placed(r) /\ HandlerTenants /\ ActsCorrelated
  BY DEF EInv
<1>2. input' = input /\ \A k \in Requests : k # r => acts'[k] = acts[k]
  BY <1>1, OthersStay DEF Stays
<1>3. \A k \in Requests : RequestId(k)' = RequestId(k)
  BY <1>2 DEF RequestId
<1>4. ASSUME NEW k \in Requests, NEW act, Correlated(k, act)
      PROVE  Correlated(k, act)'
  BY <1>2, <1>3, <1>4, LeftOverStays
<1>5. ASSUME NEW k \in Requests, NEW act \in acts[k]
      PROVE  Correlated(k, act)'
  BY <1>1, <1>4, <1>5 DEF ActsCorrelated
<1>6. CASE acts' = acts
  BY <1>5, <1>6 DEF ActsCorrelated
<1>7. ASSUME NEW i, NEW t, Act(r, i, t), i \in {Given, handler[r].id}, t \in {Given, handler[r].tenant}
      PROVE  ActsCorrelated'
  <2>1. stateId[r] # None
    BY <1>1, <1>7 DEF Act, InHandlerTask, Placed
  <2>2. /\ handler[r].id = RequestId(r)
        /\ handler[r].tenant = input[r].tenant \/ LeftOver(r, handler[r].tenant)
    BY <1>1, <2>1 DEF Placed, HandlerTenants
  <2>3. acts'[r] = acts[r] \cup {[id |-> i, tenant |-> t]}
    BY <1>1, <1>7 DEF Act, EdgeTypes
  <2>4. Correlated(r, [id |-> i, tenant |-> t])
    BY <1>7, <2>2
  <2>5. Correlated(r, [id |-> i, tenant |-> t])'
    BY <1>4, <2>4
  <2> HIDE DEF Correlated
  <2>6. \A k \in Requests : \A act \in acts'[k] : Correlated(k, act)'
    BY <1>2, <1>5, <2>3, <2>5
  <2> QED  BY <2>6 DEF ActsCorrelated, Correlated
<1>8. ASSUME NEW given \in SUBSET Parts, CallService(r, given) \/ AuditRecord(r, given)
      PROVE  ActsCorrelated'
  <2>1. InHandlerTask(r)
    BY <1>8 DEF CallService, AuditRecord, Act
  <2>2. handler[r].id # None
    BY <1>1, <2>1, RequestIdKnown DEF InHandlerTask, Placed
  <2> QED  BY <1>7, <1>8, <2>2 DEF CallService, AuditRecord
<1> QED
  BY <1>6, <1>8
  DEF RequestStep, ServiceAuth, NoServiceAuth, EnterContext, HandlerReturns, HandlePlugshubError,
      HandlerRaises, Disconnect, ReturnThroughContext, UnwindThroughContext, HandleUnexpected

-----------------------------------------------------------------------------
(* Metrics *)

OnPath(rs, public) == {r \in rs : input[r].public = public}

\* Counting a request that has just left.
LEMMA CountsGrow ==
    ASSUME NEW L \in SUBSET Requests, NEW F \in SUBSET L, NEW r \in Requests, r \notin L,
           NEW status \in Nat
    PROVE  Counted([requests |-> Cardinality(L), errors |-> Cardinality(F)], status)
             = [requests |-> Cardinality(L \cup {r}),
                errors   |-> Cardinality(IF status >= 500 THEN F \cup {r} ELSE F)]
<1>1. IsFiniteSet(L) /\ IsFiniteSet(F)
  BY EdgeAssumption, FS_Subset
<1>2. r \notin F
  OBVIOUS
<1>3. /\ Cardinality(L \cup {r}) = Cardinality(L) + 1
      /\ Cardinality(F \cup {r}) = Cardinality(F) + 1
  BY <1>1, <1>2, FS_AddElement
<1> QED  BY <1>3 DEF Counted

\* The sets the metrics are compared with grow as the metrics do.
LEMMA RecordAgrees ==
    ASSUME EdgeTypes, MetricsAgree, NEW r \in Requests, NEW status \in Nat, Record(r, status),
           input' = input, r \notin Left, Left' = Left \cup {r},
           Failed' = IF status >= 500 THEN Failed \cup {r} ELSE Failed
    PROVE  MetricsAgree'
<1>1. Left \subseteq Requests /\ Failed \subseteq Left
  BY DEF Left, Failed
<1>2. metrics'.all = [requests |-> Cardinality(Left'), errors |-> Cardinality(Failed')]
  <2>1. metrics'.all = Counted(metrics.all, status)
    BY DEF Record
  <2>2. metrics.all = [requests |-> Cardinality(Left), errors |-> Cardinality(Failed)]
    BY DEF MetricsAgree
  <2> QED  BY <1>1, <2>1, <2>2, CountsGrow
<1>3. ASSUME NEW public \in BOOLEAN
      PROVE  metrics'.byRoute[public] = [requests |-> Cardinality(OnPath(Left', public)),
                                         errors   |-> Cardinality(OnPath(Failed', public))]
  <2>1. metrics.byRoute[public] = [requests |-> Cardinality(OnPath(Left, public)),
                                   errors   |-> Cardinality(OnPath(Failed, public))]
    BY DEF MetricsAgree, OnPath
  <2>2. metrics.byRoute \in [BOOLEAN -> NatCounts]
    BY DEF EdgeTypes
  <2>3. OnPath(Left, public) \subseteq Requests /\ OnPath(Failed, public) \subseteq OnPath(Left, public)
    BY <1>1 DEF OnPath
  <2>4. CASE input[r].public = public
    <3>1. metrics'.byRoute[public] = Counted(metrics.byRoute[public], status)
      BY <2>2, <2>4 DEF Record
    <3>2. /\ OnPath(Left', public) = OnPath(Left, public) \cup {r}
          /\ OnPath(Failed', public) = IF status >= 500 THEN OnPath(Failed, public) \cup {r}
                                       ELSE OnPath(Failed, public)
      BY <2>4 DEF OnPath
    <3>3. r \notin OnPath(Left, public)
      BY DEF OnPath
    <3>4. PICK L, F : L = OnPath(Left, public) /\ F = OnPath(Failed, public)
      OBVIOUS
    <3>5. Counted([requests |-> Cardinality(L), errors |-> Cardinality(F)], status)
            = [requests |-> Cardinality(L \cup {r}),
               errors   |-> Cardinality(IF status >= 500 THEN F \cup {r} ELSE F)]
      BY <2>3, <3>3, <3>4, CountsGrow
    <3> QED  BY <2>1, <3>1, <3>2, <3>4, <3>5
  <2>5. CASE input[r].public # public
    <3>1. metrics'.byRoute[public] = metrics.byRoute[public]
      BY <2>2, <2>5 DEF Record
    <3>2. OnPath(Left', public) = OnPath(Left, public) /\ OnPath(Failed', public) = OnPath(Failed, public)
      BY <2>5 DEF OnPath
    <3> QED  BY <2>1, <3>1, <3>2
  <2> QED  BY <2>4, <2>5
<1> QED  BY <1>2, <1>3 DEF MetricsAgree, OnPath

\* Every request is recorded in the step in which it leaves the middleware, with
\* a status that says what its caller gets.
LEMMA StepKeepsMetrics ==
    ASSUME EInv, NEW r \in Requests, RequestStep(r)
    PROVE  MetricsAgree'
<1>1. EdgeTypes /\ Placed(r) /\ MetricsAgree
  BY DEF EInv
<1>2. input' = input /\ \A k \in Requests : k # r => Stays(k)
  BY <1>1, OthersStay
<1>3. \A k \in Requests : k # r => (k \in Left' <=> k \in Left) /\ (k \in Failed' <=> k \in Failed)
  BY <1>2 DEF Stays, Left, Failed
<1>4. ASSUME metrics' = metrics, r \in Left' <=> r \in Left, r \in Failed' <=> r \in Failed
      PROVE  MetricsAgree'
  <2>1. Left' \subseteq Requests /\ Left \subseteq Requests /\ Failed' \subseteq Left' /\ Failed \subseteq Left
    BY DEF Left, Failed
  <2>2. Left' = Left /\ Failed' = Failed
    BY <1>3, <1>4, <2>1
  <2> QED  BY <1>1, <1>2, <1>4, <2>2 DEF MetricsAgree
<1>5. ASSUME NEW status \in Nat, Record(r, status), r \notin Left, r \in Left',
             r \in Failed' <=> status >= 500
      PROVE  MetricsAgree'
  <2>1. Left' \subseteq Requests /\ Left \subseteq Requests /\ Failed' \subseteq Left' /\ Failed \subseteq Left
    BY DEF Left, Failed
  <2>2. Left' = Left \cup {r}
    BY <1>3, <1>5, <2>1
  <2>3. Failed' = IF status >= 500 THEN Failed \cup {r} ELSE Failed
    BY <1>3, <1>5, <2>1
  <2> QED  BY <1>1, <1>2, <1>5, <2>2, <2>3, RecordAgrees
<1>6. CASE NoServiceAuth(r) \/ ServiceAuth(r) \/ EnterContext(r)
  <2>1. /\ metrics' = metrics /\ pc[r] \in {"new", "admitted"}
        /\ \/ pc'[r] \in {"admitted", "handling"}
           \/ pc'[r] = "done" /\ stateId' = stateId
    BY <1>1, <1>6 DEF NoServiceAuth, ServiceAuth, Arrives, EnterContext, Goto, EdgeTypes
  <2>2. r \notin Left /\ r \notin Left'
    BY <1>1, <2>1 DEF Left, Placed
  <2> QED  BY <1>4, <2>1, <2>2 DEF Failed
<1>7. ASSUME NEW given \in SUBSET Parts, CallService(r, given) \/ AuditRecord(r, given)
      PROVE  MetricsAgree'
  <2>1. UNCHANGED <<metrics, pc, stateId, response>>
    BY <1>7 DEF CallService, AuditRecord, Act
  <2> QED  BY <1>4, <2>1 DEF Left, Failed
<1>8. ASSUME metrics' = metrics, pc[r] = "handling", pc'[r] \in {"answered", "failing", "cancelled"}
      PROVE  MetricsAgree'
  <2>1. r \notin Left /\ r \notin Left'
    BY <1>8 DEF Left
  <2> QED  BY <1>4, <1>8, <2>1 DEF Failed
<1>9. ASSUME NEW status \in ReturnedStatuses, HandlerReturns(r, status)
      PROVE  MetricsAgree'
  BY <1>1, <1>8, <1>9 DEF HandlerReturns, Goto, EdgeTypes
<1>10. ASSUME NEW exc \in Errors, HandlePlugshubError(r, exc)
       PROVE  MetricsAgree'
  BY <1>1, <1>8, <1>10 DEF HandlePlugshubError, Goto, EdgeTypes
<1>11. CASE HandlerRaises(r) \/ Disconnect(r)
  BY <1>1, <1>8, <1>11 DEF HandlerRaises, Disconnect, Goto, EdgeTypes
<1>12. CASE ReturnThroughContext(r)
  <2>1. response[r] \in Responses /\ stateId[r] # None
    BY <1>1, <1>12 DEF ReturnThroughContext, Placed, EdgeTypes
  <2>2. /\ Record(r, response[r].status) /\ pc[r] = "answered" /\ pc'[r] = "done"
        /\ stateId' = stateId /\ response'[r] = [response[r] EXCEPT !.header = RequestId(r)]
    BY <1>1, <1>12 DEF ReturnThroughContext, Goto, EdgeTypes
  <2>3. /\ response'[r].status = response[r].status /\ response[r].status \in Nat
        /\ response'[r] \in Responses
    BY <1>1, <2>1, <2>2, RequestIdKnown DEF Responses
  <2>4. response'[r] # None
    BY <2>3, EdgeAssumption
  <2>5. r \notin Left /\ r \in Left' /\ (r \in Failed' <=> response[r].status >= 500)
    BY <2>1, <2>2, <2>3, <2>4 DEF Left, Failed
  <2> QED  BY <1>5, <2>2, <2>3, <2>5
<1>13. CASE UnwindThroughContext(r)
  <2>1. /\ Record(r, 500) /\ pc[r] \in {"failing", "cancelled"} /\ pc'[r] \in {"unwound", "done"}
        /\ stateId' = stateId /\ response' = response
    BY <1>1, <1>13 DEF UnwindThroughContext, Goto, EdgeTypes
  <2>2. response[r] = None /\ stateId[r] # None
    BY <1>1, <2>1 DEF Placed
  <2>3. r \notin Left /\ r \in Left' /\ r \in Failed'
    BY <2>1, <2>2 DEF Left, Failed
  <2> QED  BY <1>5, <2>1, <2>3
<1>14. CASE HandleUnexpected(r)
  <2>1. /\ metrics' = metrics /\ pc[r] = "unwound" /\ pc'[r] = "done" /\ stateId' = stateId
        /\ response'[r] = [status |-> 500, header |-> ErrorId(r), body |-> ErrorId(r)]
    BY <1>1, <1>14 DEF HandleUnexpected, ErrorResponse, Goto, EdgeTypes
  <2>2. response[r] = None /\ stateId[r] # None /\ response'[r].status >= 500
    BY <1>1, <2>1 DEF Placed
  <2>3. r \in Left /\ r \in Left' /\ r \in Failed /\ r \in Failed'
    BY <2>1, <2>2 DEF Left, Failed
  <2> QED  BY <1>4, <2>1, <2>3
<1> QED
  BY <1>6, <1>7, <1>9, <1>10, <1>11, <1>12, <1>13, <1>14 DEF RequestStep

-----------------------------------------------------------------------------
(* The theorems *)

\* No request has come in.
LEMMA EdgeInitInv == Init => EInv
<1> SUFFICES ASSUME Init PROVE EInv
  OBVIOUS
<1>1. EdgeTypes
  <2>1. Empty \in Contexts /\ NoCount \in NatCounts
    BY DEF Empty, Contexts, NoCount, NatCounts
  <2>2. metrics \in [all : NatCounts, byRoute : [BOOLEAN -> NatCounts]]
    BY <2>1 DEF Init
  <2>3. reports \in [Requests -> Seq(Events)]
    BY DEF Init
  <2> QED  BY <2>1, <2>2, <2>3 DEF Init, EdgeTypes
<1>2. \A r \in Requests : Placed(r)
  BY EdgeAssumption DEF Init, Placed, Empty
<1>3. \A r \in Requests : Signalled(r)
  BY DEF Init, Signalled, Faulted
<1>4. OffIsSeen /\ ActsCorrelated /\ OneAtATime /\ TaskContexts /\ HandlerTenants
  BY DEF Init, OffIsSeen, ActsCorrelated, OneAtATime, TaskContexts, HandlerTenants, Empty
<1>5. MetricsAgree
  <2>1. Left = {} /\ Failed = {}
    BY DEF Init, Left, Failed
  <2>2. Cardinality({}) = 0
    BY FS_EmptySet
  <2>3. \A public \in BOOLEAN : {r \in {} : input[r].public = public} = {}
    OBVIOUS
  <2>4. metrics.all = NoCount /\ \A public \in BOOLEAN : metrics.byRoute[public] = NoCount
    BY DEF Init
  <2> QED  BY <2>1, <2>2, <2>3, <2>4 DEF MetricsAgree, NoCount
<1> QED  BY <1>1, <1>2, <1>3, <1>4, <1>5 DEF EInv

\* Every step preserves the invariant.
LEMMA EdgeNextInv == EInv /\ [Next]_edgeVars => EInv'
<1> SUFFICES ASSUME EInv, [Next]_edgeVars PROVE EInv'
  OBVIOUS
<1>1. ASSUME NEW r \in Requests, RequestStep(r)
      PROVE  EInv'
  <2>1. ASSUME NEW k \in Requests PROVE Placed(k)' /\ Signalled(k)'
    <3>1. CASE k = r
      BY <1>1, <3>1, StepKeepsPlaced, StepKeepsSignalled
    <3>2. CASE k # r
      BY <1>1, <3>2, OthersStay, StaysKeeps DEF EInv
    <3> QED  BY <3>1, <3>2
  <2> QED
    BY <1>1, <2>1, StepKeepsTypes, StepKeepsOffIsSeen, StepKeepsTasks, StepKeepsTenants,
       StepKeepsActs, StepKeepsMetrics
    DEF EInv
<1>2. ASSUME \/ UNCHANGED edgeVars
             \/ \E dsn \in BOOLEAN : InitErrorTracking(dsn)
      PROVE  EInv'
  <2>1. /\ UNCHANGED <<guarded, input, task, pc, outer, handler, stateId, raised, response,
                       metrics, reports, acts>>
        /\ \/ UNCHANGED <<tracking, untracked>>
           \/ tracking' \in BOOLEAN /\ untracked' = Requests
    BY <1>2 DEF edgeVars, InitErrorTracking
  <2>2. EdgeTypes'
    BY <2>1 DEF EInv, EdgeTypes
  <2>3. ASSUME NEW k \in Requests PROVE Placed(k)' /\ Signalled(k)'
    <3>1. Placed(k)'
      BY <2>1 DEF EInv, Placed, RequestId
    <3>2. Signalled(k)'
      BY <2>1 DEF EInv, Signalled, Faulted
    <3> QED  BY <3>1, <3>2
  <2>4. OffIsSeen'
    BY <2>1 DEF EInv, OffIsSeen
  <2>5. ActsCorrelated' /\ MetricsAgree'
    BY <2>1 DEF EInv, ActsCorrelated, LeftOver, MetricsAgree, Left, Failed, RequestId
  <2>6. OneAtATime' /\ TaskContexts' /\ HandlerTenants'
    BY <2>1 DEF EInv, OneAtATime, TaskContexts, HandlerTenants, LeftOver
  <2> QED  BY <2>2, <2>3, <2>4, <2>5, <2>6 DEF EInv
<1> QED  BY <1>1, <1>2 DEF Next

\* The invariant the theorems below are read off.
THEOREM EdgeInvariance == Spec => []EInv
  BY EdgeInitInv, EdgeNextInv, PTL DEF Spec

\* Every variable keeps its type, and no counter exceeds the number of requests.
THEOREM EdgeTypeCorrect == Spec => []TypeOK
<1>1. EInv => TypeOK
  <2> SUFFICES ASSUME EInv PROVE TypeOK
    OBVIOUS
  <2> DEFINE N == Cardinality(Requests)  Counts == [requests : 0 .. N, errors : 0 .. N]
  <2>1. ASSUME NEW S \in SUBSET Requests PROVE Cardinality(S) \in 0 .. N
    <3>1. IsFiniteSet(S) /\ Cardinality(S) <= N
      BY EdgeAssumption, FS_Subset
    <3>2. Cardinality(S) \in Nat /\ N \in Nat
      BY <3>1, EdgeAssumption, FS_CardinalityType
    <3> QED  BY <3>1, <3>2
  <2>2. metrics.all \in Counts
    <3>1. Cardinality(Left) \in 0 .. N /\ Cardinality(Failed) \in 0 .. N
      BY <2>1 DEF Left, Failed
    <3> QED  BY <3>1 DEF EInv, MetricsAgree
  <2>3. ASSUME NEW public \in BOOLEAN PROVE metrics.byRoute[public] \in Counts
    <3>1. Cardinality(OnPath(Left, public)) \in 0 .. N /\ Cardinality(OnPath(Failed, public)) \in 0 .. N
      BY <2>1 DEF OnPath, Left, Failed
    <3>2. metrics.byRoute[public] = [requests |-> Cardinality(OnPath(Left, public)),
                                     errors   |-> Cardinality(OnPath(Failed, public))]
      BY DEF EInv, MetricsAgree, OnPath
    <3> QED  BY <3>1, <3>2
  <2>4. metrics \in [all : NatCounts, byRoute : [BOOLEAN -> NatCounts]]
    BY DEF EInv, EdgeTypes
  <2> HIDE DEF Counts
  <2>5. metrics \in [all : Counts, byRoute : [BOOLEAN -> Counts]]
    <3>1. metrics.byRoute \in [BOOLEAN -> Counts]
      BY <2>3, <2>4
    <3> QED  BY <2>2, <2>4, <3>1
  <2> QED  BY <2>5 DEF EInv, EdgeTypes, TypeOK, Counts
<1> QED  BY <1>1, EdgeInvariance, PTL

\* The RED metrics agree with the answers, through concurrent requests,
\* exceptions and disconnects.
THEOREM MetricsAreExact == Spec => []MetricsAgree
<1>1. EInv => MetricsAgree
  BY DEF EInv
<1> QED  BY <1>1, EdgeInvariance, PTL

\* A server fault is reported once, by whichever handler it reaches, and
\* nothing else is reported.
THEOREM FaultsAreReportedOnce == Spec => []FaultsReportedOnce
<1>1. EInv => FaultsReportedOnce
  BY DEF EInv, Signalled, FaultsReportedOnce
<1> QED  BY <1>1, EdgeInvariance, PTL

\* Every answer past the service credential carries its request's own id.
THEOREM AnswersUnderOwnId == Spec => []AnsweredUnderOwnId
<1>1. EInv => AnsweredUnderOwnId
  BY DEF EInv, Placed, AnsweredUnderOwnId
<1> QED  BY <1>1, EdgeInvariance, PTL

\* Internal calls and audit records go under the id and the tenant of their own
\* request, also from background tasks and in tasks that served others before,
\* except for a tenant that service auth left behind.
THEOREM ActsAreCorrelated == Spec => []ActsCorrelated
<1>1. EInv => ActsCorrelated
  BY DEF EInv
<1> QED  BY <1>1, EdgeInvariance, PTL
=============================================================================

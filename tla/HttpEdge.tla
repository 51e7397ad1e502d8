------------------------------ MODULE HttpEdge ------------------------------
(***************************************************************************)
(* The HTTP edge of a service, wired as the README wires it: setup_http and  *)
(* then, in services that have it, the service-auth middleware, which is     *)
(* thus the outer one.                                                       *)
(*                                                                         *)
(*   ServerErrorMiddleware       calls _handle_unexpected     task outer     *)
(*     ServiceAuthMiddleware                                  task outer     *)
(*       RequestContextMiddleware                             task context   *)
(*         ExceptionMiddleware   calls _handle_plugshub_error task handler   *)
(*           the route handler                                task handler   *)
(*                                                                         *)
(* Starlette is external: call_next runs the rest of the stack in a child   *)
(* task, which works on a copy of its parent's context variables; in a      *)
(* service without service auth the context task is the outer one.  The     *)
(* server is external too: whether it runs each request in a task of its    *)
(* own or several in one task, one after another, is left open, and in the  *)
(* latter case what a request leaves in the context is there for the next.  *)
(* The request's state lives in its scope, which all its tasks share.       *)
(* HTTPException and validation errors of FastAPI itself are answered       *)
(* inside the stack and count as responses of the handler.  Background      *)
(* tasks run in the handler's task, also after the response has left.       *)
(***************************************************************************)
EXTENDS Naturals, Sequences, FiniteSets, Masking

CONSTANTS
    Requests,       \* the requests; each also names the id generated for it
    GivenIds,       \* the X-Request-ID values that callers send
    Tenants,        \* the X-Tenant-ID values that callers send
    Tasks,          \* the server's tasks
    None,           \* a header, context variable or response that is not there
    Errors,         \* the PlugsHubError classes that route handlers raise
    EventLeaves,    \* the leaves of an event that the error tracker is about to send
    MaxActs         \* bound: internal calls and audit records per request

\* PlugsHubError and its subclasses.
ErrorClasses ==
    {"PlugsHubError", "InvalidBodyError", "UnauthorizedError", "ForbiddenError", "NotFoundError",
     "ConflictError", "PreconditionFailedError", "ValidationFailedError", "RateLimitedError",
     "InternalError", "DependencyUnavailableError"}

\* The authoritative status of each class of the hierarchy.
HttpStatus(error) ==
    CASE error = "InvalidBodyError"           -> 400
      [] error = "UnauthorizedError"          -> 401
      [] error = "ForbiddenError"             -> 403
      [] error = "NotFoundError"              -> 404
      [] error = "ConflictError"              -> 409
      [] error = "PreconditionFailedError"    -> 412
      [] error = "ValidationFailedError"      -> 422
      [] error = "RateLimitedError"           -> 429
      [] error = "InternalError"              -> 500
      [] error = "PlugsHubError"              -> 500
      [] error = "DependencyUnavailableError" -> 503

VARIABLES
    guarded,        \* the service-auth middleware is installed
    input,          \* per request: its headers, and whether its path is public
    pc,             \* per request: where it is in the stack
    task,           \* per request: the outer task that serves it
    outer,          \* per outer task: its logging context
    handler,        \* per request: the logging context of its handler's task
    stateId,        \* per request: request.state.request_id
    raised,         \* per request: what its handler raised
    response,       \* per request: status, X-Request-ID header, id in the body
    metrics,        \* RedMetrics: requests and errors, in all and per path
    tracking,       \* _state.enabled
    reports,        \* per request: the events reported for it, each with its
                    \* request_id tag and the leaves that are in clear
    acts,           \* per request: id and tenant of the calls it makes and of the
                    \* audit records it writes
    untracked       \* history: the requests that have seen tracking off

edgeVars == <<guarded, input, pc, task, outer, handler, stateId, raised, response,
              metrics, tracking, reports, acts, untracked>>

Contexts == [id : GivenIds \cup Requests \cup {None}, tenant : Tenants \cup {None}]

Empty == [id |-> None, tenant |-> None]

\* The credential of a request on a public path is not looked at, nor is any in
\* a service without service auth.
Inputs == {i \in [id : GivenIds \cup {None}, tenant : Tenants \cup {None},
                  authentic : BOOLEAN, public : BOOLEAN] : i.public => ~i.authentic}

\* Where a call or a record has its id or its tenant from: the logging context,
\* unless its caller gives one, or there is none and a call generates an id.
Given == "given"
Generated == "generated"

Acts == [id : GivenIds \cup Requests \cup {None, Given, Generated}, tenant : Tenants \cup {None, Given}]

\* A report: its request_id tag and the leaves that are in clear.
Events == [tag : GivenIds \cup Requests \cup {None}, clear : SUBSET EventLeaves]

Responses == [status : Nat, header : GivenIds \cup Requests \cup {None},
              body : GivenIds \cup Requests \cup {None}]

ASSUME EdgeAssumption ==
    /\ IsFiniteSet(Requests)
    /\ Errors \subseteq ErrorClasses
    /\ MaxActs \in Nat
    /\ None \notin Requests /\ None \notin GivenIds /\ None \notin Responses
    /\ None \notin Errors \cup {"unexpected"}
    /\ Given \notin GivenIds \cup Requests \cup Tenants \cup {None}

NoCount == [requests |-> 0, errors |-> 0]

Init ==
    /\ guarded \in BOOLEAN
    /\ input \in [Requests -> {i \in Inputs : i.authentic => guarded}]
    /\ task \in [Requests -> Tasks]
    /\ pc = [r \in Requests |-> "new"]
    /\ outer = [t \in Tasks |-> Empty]
    /\ handler = [r \in Requests |-> Empty]
    /\ stateId = [r \in Requests |-> None]
    /\ raised = [r \in Requests |-> None]
    /\ response = [r \in Requests |-> None]
    /\ metrics = [all |-> NoCount, byRoute |-> [public \in BOOLEAN |-> NoCount]]
    /\ tracking \in BOOLEAN
    /\ reports = [r \in Requests |-> <<>>]
    /\ acts = [r \in Requests |-> {}]
    /\ untracked = {}

-----------------------------------------------------------------------------
(* Logging context, error tracking and metrics *)

\* set_request_context: a value that is not given leaves the variable alone.
SetRequestContext(ctx, id, tenant) ==
    [id     |-> IF id = None THEN ctx.id ELSE id,
     tenant |-> IF tenant = None THEN ctx.tenant ELSE tenant]

\* Every exception is worth reporting.
ReportsAll(exc) == TRUE

\* should_report: anything but a PlugsHubError with a status below 500.
ShouldReport(exc) == exc \in Errors => HttpStatus(exc) >= 500

\* The before_send hook masks the event and tags it with the request id of the
\* context it runs in, if there is one.
ScrubEvent(ctx) == [tag |-> ctx.id, clear |-> MaskMapping(EventLeaves)]

\* capture_exception(exc) for request r, in a task whose context is ctx.
CaptureException(r, exc, ctx) ==
    reports' = IF tracking /\ ShouldReport(exc)
               THEN [reports EXCEPT ![r] = Append(@, ScrubEvent(ctx))]
               ELSE reports

\* A failed request is counted once as a request and once more as an error.
CountsErrorsTwice(count, status) ==
    IF status >= 500
    THEN [requests |-> count.requests + 2, errors |-> count.errors + 1]
    ELSE [requests |-> count.requests + 1, errors |-> count.errors]

Counted(count, status) ==
    [requests |-> count.requests + 1,
     errors   |-> IF status >= 500 THEN count.errors + 1 ELSE count.errors]

\* RedMetrics.record: the totals and the bucket of the request's path.
Record(r, status) ==
    metrics' = [all     |-> Counted(metrics.all, status),
                byRoute |-> [metrics.byRoute EXCEPT ![input[r].public] = Counted(@, status)]]

\* init_error_tracking with a DSN, or without one (or reset_error_tracking).
InitErrorTracking(dsn) ==
    /\ tracking # dsn
    /\ tracking' = dsn
    /\ untracked' = Requests
    /\ UNCHANGED <<guarded, input, pc, task, outer, handler, stateId, raised, response,
                   metrics, reports, acts>>

-----------------------------------------------------------------------------
(* The way in *)

Goto(r, where) == pc' = [pc EXCEPT ![r] = where]

\* is_public_path or verify_service_token
Admitted(r) == input[r].public \/ input[r].authentic

\* The server hands request r to its task, which is done with any other.
Arrives(r) ==
    /\ pc[r] = "new"
    /\ \A k \in Requests : k # r /\ task[k] = task[r] => pc[k] \in {"new", "done"}

\* A service without service auth: the request reaches the next middleware.
NoServiceAuth(r) ==
    /\ Arrives(r) /\ ~guarded
    /\ untracked' = IF tracking THEN untracked \ {r} ELSE untracked \cup {r}
    /\ Goto(r, "admitted")
    /\ UNCHANGED <<guarded, input, task, outer, handler, stateId, raised, response,
                   metrics, tracking, reports, acts>>

\* ServiceAuthMiddleware: binds what the headers give, which it never clears, and
\* answers 401 itself.
ServiceAuth(r) ==
    /\ Arrives(r) /\ guarded
    /\ outer' = [outer EXCEPT ![task[r]] = SetRequestContext(@, input[r].id, input[r].tenant)]
    /\ untracked' = IF tracking THEN untracked \ {r} ELSE untracked \cup {r}
    /\ IF Admitted(r)
       THEN Goto(r, "admitted") /\ UNCHANGED response
       ELSE /\ Goto(r, "done")
            /\ response' = [response EXCEPT ![r] =
                              [status |-> 401, header |-> None, body |-> input[r].id]]
    /\ UNCHANGED <<guarded, input, task, handler, stateId, raised, metrics, tracking, reports, acts>>

\* The id of a request: the caller's, or a generated one.
RequestId(r) == IF input[r].id = None THEN r ELSE input[r].id

\* The task of the RequestContextMiddleware now has context ctx.  Behind service
\* auth that is a child task, and only the handler's task sees its context.
BindContext(r, ctx) == outer' = IF guarded THEN outer ELSE [outer EXCEPT ![task[r]] = ctx]

\* RequestContextMiddleware up to call_next.
EnterContext(r) ==
    /\ pc[r] = "admitted"
    /\ LET ctx == SetRequestContext(outer[task[r]], RequestId(r), input[r].tenant)
       IN  /\ BindContext(r, ctx)
           /\ handler' = [handler EXCEPT ![r] = ctx]
    /\ stateId' = [stateId EXCEPT ![r] = RequestId(r)]
    /\ Goto(r, "handling")
    /\ UNCHANGED <<guarded, input, task, raised, response, metrics, tracking, reports, acts, untracked>>

-----------------------------------------------------------------------------
(* The route handler and the way out *)

\* The handler's task runs: the handler itself, or a background task that it
\* left behind when it returned.
InHandlerTask(r) ==
    \/ pc[r] = "handling"
    \/ pc[r] \in {"answered", "done"} /\ stateId[r] # None /\ raised[r] = None /\ response[r] # None

Act(r, id, tenant) ==
    /\ InHandlerTask(r)
    /\ Cardinality(acts[r]) < MaxActs
    /\ acts' = [acts EXCEPT ![r] = @ \cup {[id |-> id, tenant |-> tenant]}]
    /\ UNCHANGED <<guarded, input, task, pc, outer, handler, stateId, raised, response,
                   metrics, tracking, reports, untracked>>

\* The parts of a call or a record that its caller may give.
Parts == {"id", "tenant"}

\* An internal call: what is not given, build_internal_headers takes from the
\* logging context, or generates an id.
CallService(r, given) ==
    Act(r, IF "id" \in given THEN Given ELSE IF handler[r].id = None THEN Generated ELSE handler[r].id,
           IF "tenant" \in given THEN Given ELSE handler[r].tenant)

\* AuditWriter.record: the sink appends a record; what is not given is taken from
\* the logging context.
AuditRecord(r, given) ==
    Act(r, IF "id" \in given THEN Given ELSE handler[r].id,
           IF "tenant" \in given THEN Given ELSE handler[r].tenant)

\* The handler returns; the response has no request id yet.
HandlerReturns(r, status) ==
    /\ pc[r] = "handling"
    /\ response' = [response EXCEPT ![r] = [status |-> status, header |-> None, body |-> None]]
    /\ Goto(r, "answered")
    /\ UNCHANGED <<guarded, input, task, outer, handler, stateId, raised,
                   metrics, tracking, reports, acts, untracked>>

\* The id that error responses carry is read from the logging context.
IdFromContext(r) == outer[task[r]].id

\* _request_id: request.state, or else the header.
ErrorId(r) == IF stateId[r] # None THEN stateId[r] ELSE input[r].id

ErrorResponse(r, status) ==
    response' = [response EXCEPT ![r] =
                   [status |-> status, header |-> ErrorId(r), body |-> ErrorId(r)]]

\* The handler raises a PlugsHubError: _handle_plugshub_error, in the same task.
HandlePlugshubError(r, exc) ==
    /\ pc[r] = "handling"
    /\ raised' = [raised EXCEPT ![r] = exc]
    /\ CaptureException(r, exc, handler[r])
    /\ ErrorResponse(r, HttpStatus(exc))
    /\ Goto(r, "answered")
    /\ UNCHANGED <<guarded, input, task, outer, handler, stateId, metrics, tracking, acts, untracked>>

\* The handler raises anything else, which nobody handles on the way to the
\* RequestContextMiddleware.
HandlerRaises(r) ==
    /\ pc[r] = "handling"
    /\ raised' = [raised EXCEPT ![r] = "unexpected"]
    /\ Goto(r, "failing")
    /\ UNCHANGED <<guarded, input, task, outer, handler, stateId, response,
                   metrics, tracking, reports, acts, untracked>>

\* The caller is gone and the request's tasks are cancelled.
Disconnect(r) ==
    /\ pc[r] = "handling"
    /\ Goto(r, "cancelled")
    /\ UNCHANGED <<guarded, input, task, outer, handler, stateId, raised, response,
                   metrics, tracking, reports, acts, untracked>>

\* call_next returned: echo the id, record the status, clear the context.
ReturnThroughContext(r) ==
    /\ pc[r] = "answered"
    /\ response' = [response EXCEPT ![r].header = RequestId(r)]
    /\ Record(r, response[r].status)
    /\ BindContext(r, Empty)
    /\ Goto(r, "done")
    /\ UNCHANGED <<guarded, input, task, handler, stateId, raised, tracking, reports, acts, untracked>>

\* The metrics and the clearing are skipped by an exception.
UnwindsUnrecorded(r) ==
    /\ pc[r] \in {"failing", "cancelled"}
    /\ Goto(r, IF pc[r] = "failing" THEN "unwound" ELSE "done")
    /\ UNCHANGED <<guarded, input, task, outer, handler, stateId, raised, response,
                   metrics, tracking, reports, acts, untracked>>

\* The context is cleared on the normal way out only.
UnwindsUncleared(r) ==
    /\ pc[r] \in {"failing", "cancelled"}
    /\ Record(r, 500)
    /\ Goto(r, IF pc[r] = "failing" THEN "unwound" ELSE "done")
    /\ UNCHANGED <<guarded, input, task, outer, handler, stateId, raised, response,
                   tracking, reports, acts, untracked>>

\* call_next raised: only the finally block runs, with status still at 500.
UnwindThroughContext(r) ==
    /\ pc[r] \in {"failing", "cancelled"}
    /\ Record(r, 500)
    /\ BindContext(r, Empty)
    /\ Goto(r, IF pc[r] = "failing" THEN "unwound" ELSE "done")
    /\ UNCHANGED <<guarded, input, task, handler, stateId, raised, response,
                   tracking, reports, acts, untracked>>

\* _handle_unexpected, in the outer task.
HandleUnexpected(r) ==
    /\ pc[r] = "unwound"
    /\ CaptureException(r, raised[r], outer[task[r]])
    /\ ErrorResponse(r, 500)
    /\ Goto(r, "done")
    /\ UNCHANGED <<guarded, input, task, outer, handler, stateId, raised, metrics, tracking,
                   acts, untracked>>

\* A success (or a client error: nothing here tells them apart) and a server
\* error, as responses that are returned.
ReturnedStatuses == {200, 500}

RequestStep(r) ==
    \/ ServiceAuth(r) \/ NoServiceAuth(r) \/ EnterContext(r)
    \/ \E given \in SUBSET Parts : CallService(r, given) \/ AuditRecord(r, given)
    \/ \E status \in ReturnedStatuses : HandlerReturns(r, status)
    \/ \E exc \in Errors : HandlePlugshubError(r, exc)
    \/ HandlerRaises(r) \/ Disconnect(r)
    \/ ReturnThroughContext(r) \/ UnwindThroughContext(r) \/ HandleUnexpected(r)

Next ==
    \/ \E r \in Requests : RequestStep(r)
    \/ \E dsn \in BOOLEAN : InitErrorTracking(dsn)

Spec == Init /\ [][Next]_edgeVars

-----------------------------------------------------------------------------
(* Properties *)

\* Every variable has its type; in particular no counter exceeds the number of
\* requests.
TypeOK ==
    /\ guarded \in BOOLEAN
    /\ input \in [Requests -> Inputs]
    /\ task \in [Requests -> Tasks]
    /\ pc \in [Requests -> {"new", "admitted", "handling", "answered", "failing",
                            "cancelled", "unwound", "done"}]
    /\ outer \in [Tasks -> Contexts]
    /\ handler \in [Requests -> Contexts]
    /\ stateId \in [Requests -> GivenIds \cup Requests \cup {None}]
    /\ raised \in [Requests -> Errors \cup {"unexpected", None}]
    /\ response \in [Requests -> Responses \cup {None}]
    /\ LET Counts == [requests : 0 .. Cardinality(Requests), errors : 0 .. Cardinality(Requests)]
       IN  metrics \in [all : Counts, byRoute : [BOOLEAN -> Counts]]
    /\ acts \in [Requests -> SUBSET Acts]
    /\ tracking \in BOOLEAN
    /\ reports \in [Requests -> Seq(Events)]
    /\ untracked \subseteq Requests

\* The requests that have left the RequestContextMiddleware, and those of them
\* that it must count as errors: a 5xx answer, or none at all.
Left == {r \in Requests : pc[r] \in {"unwound", "done"} /\ stateId[r] # None}

Failed == {r \in Left : response[r] = None \/ response[r].status >= 500}

\* The RED metrics agree with the answers: every request that came past the
\* service credential is counted once, on whichever way it leaves, and as an
\* error exactly when its caller gets a 5xx or nothing; in all and per path.
MetricsAgree ==
    /\ metrics.all = [requests |-> Cardinality(Left), errors |-> Cardinality(Failed)]
    /\ \A public \in BOOLEAN :
          LET On(rs) == {r \in rs : input[r].public = public}
          IN  metrics.byRoute[public] = [requests |-> Cardinality(On(Left)),
                                         errors   |-> Cardinality(On(Failed))]

\* The handler of r raised a server fault.
Faulted(r) ==
    raised[r] # None /\ (raised[r] = "unexpected" \/ HttpStatus(raised[r]) >= 500)

\* Error-signal integrity: no request is reported twice, none without a server
\* fault, and every server fault that is raised while tracking is on has been
\* reported when its request is done, whichever handler it reaches.
FaultsReportedOnce ==
    \A r \in Requests :
       /\ Len(reports[r]) <= 1
       /\ reports[r] # <<>> => Faulted(r)
       /\ pc[r] = "done" /\ Faulted(r) /\ r \notin untracked => reports[r] # <<>>

\* A request that came past the service credential is answered under its own
\* id, in the header and in an error's envelope.  The answer to an unhandled
\* exception is made after the context is cleared, in a task that never had
\* the generated id: it depends on request.state.
AnsweredUnderOwnId ==
    \A r \in Requests :
       pc[r] = "done" /\ stateId[r] # None /\ response[r] # None =>
          /\ response[r].header = RequestId(r)
          /\ raised[r] # None => response[r].body = RequestId(r)

\* The tenant that a finished request of the same task left behind, for a request
\* that brings none itself: only service auth leaves one.
LeftOver(r, tenant) ==
    /\ guarded /\ input[r].tenant = None
    /\ \E k \in Requests \ {r} : task[k] = task[r] /\ pc[k] = "done" /\ tenant = input[k].tenant

\* What a request does goes under the id of its answer and the tenant of its
\* headers: its internal calls and its audit records, wherever their caller gives
\* neither, also those of background tasks that run when the middleware has
\* cleared the context.  Nothing comes from another request, although requests
\* may follow each other in one task and end by an exception or a disconnect.
\* The exception is the tenant that service auth binds and does not clear.
ActsCorrelated ==
    \A r \in Requests : \A act \in acts[r] :
       /\ act.id # Given => act.id = RequestId(r)
       /\ act.tenant # Given => act.tenant = input[r].tenant \/ LeftOver(r, act.tenant)

\* observability.py, on before_send: the event is tagged "so a reported fault
\* is traceable back to its request".
ReportsTraceable ==
    \A r \in Requests : \A i \in 1 .. Len(reports[r]) : reports[r][i].tag = RequestId(r)

\* observability.py, on before_send: it "recursively masks known-sensitive keys
\* ... across the whole event".
ReportsMasked ==
    \A r \in Requests : \A i \in 1 .. Len(reports[r]) : Secrets(reports[r][i].clear) = {}
=============================================================================

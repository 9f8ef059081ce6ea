-------------------------- MODULE RequestPipeline ---------------------------
(***************************************************************************)
(* One HTTP request after the other on each thread of the servlet          *)
(* container: the filters of Spring, the filters of Jersey, bean           *)
(* validation, the resource, the exception mappers, the response.          *)
(*                                                                         *)
(*   - RequestContextFilter binds the request to the thread, and           *)
(*     TimeFilter stamps the request that is bound to its thread;          *)
(*   - what the security chain refuses, or fails on, is dispatched once    *)
(*     more, to the error page, through the same chain;                    *)
(*   - for an unexpected exception Jersey writes the one object            *)
(*     INTERNAL_SERVER_ERROR, which all threads share and which is not     *)
(*     made for that.  CORSFilter adds to its headers, java.util lists     *)
(*     without a lock; and the object carries the stream its entity is     *)
(*     written to, which is closed for good after the first use.           *)
(*                                                                         *)
(* What a resource does is AccountService and JWTService; here it reads    *)
(* the time of the request, and returns or throws.  What is said of the    *)
(* stream is what Jersey 2.27 does (ServerRuntime, CommittingOutputStream).*)
(***************************************************************************)
EXTENDS ErrorResponses, FiniteSets

CONSTANTS
    Request,
    Thread,     \* the pool of the servlet container
    Thrown,     \* what a resource may throw
    NoRequest,
    MaxClock    \* bound on the clock

ASSUME ThrownAssumption == Thrown \subseteq WebApplicationException \cup Unexpected
ASSUME NoRequestAssumption == NoRequest \notin Request
ASSUME ObjectAssumption == INTERNAL_SERVER_ERROR \notin [status : Nat, cors : Nat]
ASSUME PoolAssumption == IsFiniteSet(Thread) /\ Thread # {}
ASSUME ClockAssumption == MaxClock \in Nat

VARIABLES
    clock,
    stage,        \* what the thread of a request does next
    bound,        \* RequestContextHolder: the request bound to a thread
    arrived,      \* when a request was accepted
    requestTime,  \* attribute REQUEST_TIME, NoTime while it is not set
    outcome,      \* what became of the request: returned, refused, or thrown
    response,     \* the response Jersey is to write
    seen,         \* the header values that CORSFilter found
    shared,       \* the object INTERNAL_SERVER_ERROR: status and headers,
    stream,       \* and the stream it carries, with the request it writes to
    answer        \* what the client got

timeVars == <<clock, bound, arrived, requestTime>>
sharedVars == <<shared, stream>>
pipelineVars == <<timeVars, stage, outcome, response, seen, sharedVars, answer>>

NoTime == MaxClock + 1

NoResponse == [status |-> 0, cors |-> 0]

Goto(r, next) == stage' = [stage EXCEPT ![r] = next]

-----------------------------------------------------------------------------
On(r, t) == bound[t] = r

\* A free thread takes the request; RequestContextFilter binds it.
Accept(r, t) ==
    /\ stage[r] = "waiting" /\ bound[t] = NoRequest
    /\ Goto(r, "security")
    /\ bound' = [bound EXCEPT ![t] = r]
    /\ arrived' = [arrived EXCEPT ![r] = clock]
    /\ UNCHANGED <<clock, requestTime, outcome, response, seen, sharedVars, answer>>

\* The security chain lets the request through.
Pass(r) ==
    /\ stage[r] = "security"
    /\ Goto(r, "route")
    /\ UNCHANGED <<timeVars, outcome, response, seen, sharedVars, answer>>

\* It denies access, for want of authentication or of the CSRF token; or the
\* JWTAuthenticationFilter throws what it did not expect of the parser.
Forbid(r) ==
    /\ stage[r] = "security"
    /\ Goto(r, "errorPage")
    /\ outcome' = [outcome EXCEPT ![r] = "forbidden"]
    /\ UNCHANGED <<timeVars, response, seen, sharedVars, answer>>

FailFilter(r) ==
    /\ stage[r] = "security"
    /\ Goto(r, "errorPage")
    /\ outcome' = [outcome EXCEPT ![r] = "filterFailed"]
    /\ UNCHANGED <<timeVars, response, seen, sharedVars, answer>>

\* The container dispatches to /error, which is no open path.  The filter that
\* failed runs once per request and not again, and the access of a request is
\* decided once: a denied one gets the page with its 403, a failed one, which is
\* not authenticated, is denied the page and gets a 403 too.
ErrorPage(r) ==
    /\ stage[r] = "errorPage"
    /\ Goto(r, "leave")
    /\ answer' = [answer EXCEPT ![r] = Fresh(StatusOf(outcome[r]))]
    /\ UNCHANGED <<timeVars, outcome, response, seen, sharedVars>>

\* Variant: the mapper sets the status of one object that it keeps.
ThrowKept(r, e) ==
    /\ Goto(r, "corsGet")
    /\ outcome' = [outcome EXCEPT ![r] = e]
    /\ response' = [response EXCEPT ![r] = INTERNAL_SERVER_ERROR]
    /\ shared' = [shared EXCEPT !.status = StatusOf(e)]
    /\ UNCHANGED <<clock, bound, arrived, seen, stream, answer>>

\* Jersey maps an exception to the response it is going to write.
Throw(r, e) ==
    /\ Goto(r, "corsGet")
    /\ outcome' = [outcome EXCEPT ![r] = e]
    /\ response' = [response EXCEPT ![r] = ToResponse(e)]
    /\ UNCHANGED <<clock, bound, arrived, seen, sharedVars, answer>>

\* No resource method takes the request: thrown before the request filters run.
MissRoute(r) ==
    /\ stage[r] = "route"
    /\ \E e \in RoutingException : Throw(r, e)
    /\ UNCHANGED requestTime

Route(r) ==
    /\ stage[r] = "route"
    /\ Goto(r, "timeFilter")
    /\ UNCHANGED <<timeVars, outcome, response, seen, sharedVars, answer>>

\* Variant: now is a field of the filter, which is created once.
TimeFilterField(r, t) ==
    /\ stage[r] = "timeFilter" /\ On(r, t)
    /\ requestTime' = [requestTime EXCEPT ![r] = 0]
    /\ Goto(r, "validate")
    /\ UNCHANGED <<clock, bound, arrived, outcome, response, seen, sharedVars, answer>>

\* Instant.now() becomes an attribute of the request bound to the thread; it
\* must be the request that Jersey is working on.
TimeFilter(r, t) ==
    /\ stage[r] = "timeFilter" /\ On(r, t)
    /\ requestTime' = [requestTime EXCEPT ![bound[t]] = clock]
    /\ IF requestTime'[r] = clock
       THEN /\ Goto(r, "validate")
            /\ UNCHANGED <<clock, bound, arrived, outcome, response, seen, sharedVars, answer>>
       ELSE Throw(r, "RuntimeException")

\* Bean validation of the parameters.
Invalid(r) ==
    /\ stage[r] = "validate"
    /\ \E e \in ValidationException : Throw(r, e)
    /\ UNCHANGED requestTime

Valid(r) ==
    /\ stage[r] = "validate"
    /\ Goto(r, "resource")
    /\ UNCHANGED <<timeVars, outcome, response, seen, sharedVars, answer>>

\* The resource method returns, with a value or without one, or throws.
Return(r) ==
    /\ stage[r] = "resource"
    /\ Goto(r, "corsGet")
    /\ \E what \in {"returned", "returnedNothing"} :
          /\ outcome' = [outcome EXCEPT ![r] = what]
          /\ response' = [response EXCEPT ![r] = Fresh(StatusOf(what))]
    /\ UNCHANGED <<timeVars, seen, sharedVars, answer>>

Fail(r) ==
    /\ stage[r] = "resource"
    /\ \E e \in Thrown : Throw(r, e)
    /\ UNCHANGED requestTime

-----------------------------------------------------------------------------
(***************************************************************************)
(* CORSFilter and the writing of the response                              *)
(***************************************************************************)
IsShared(r) == response[r] = INTERNAL_SERVER_ERROR

\* response.headers.add looks up the list of values, to append to it ...
GetHeaders(r) ==
    /\ stage[r] = "corsGet"
    /\ Goto(r, "corsAdd")
    /\ seen' = [seen EXCEPT ![r] = IF IsShared(r) THEN shared.cors ELSE response[r].cors]
    /\ UNCHANGED <<timeVars, outcome, response, sharedVars, answer>>

\* Variant: the filter is registered twice.
AddHeadersTwice(r) ==
    /\ stage[r] = "corsAdd"
    /\ Goto(r, "write")
    /\ IF IsShared(r)
       THEN shared' = [shared EXCEPT !.cors = seen[r] + 2] /\ UNCHANGED response
       ELSE response' = [response EXCEPT ![r].cors = seen[r] + 2] /\ UNCHANGED shared
    /\ UNCHANGED <<timeVars, outcome, seen, stream, answer>>

\* ... whatever another thread has appended to it meanwhile.
AddHeaders(r) ==
    /\ stage[r] = "corsAdd"
    /\ Goto(r, "write")
    /\ IF IsShared(r)
       THEN shared' = [shared EXCEPT !.cors = seen[r] + 1] /\ UNCHANGED response
       ELSE response' = [response EXCEPT ![r].cors = seen[r] + 1] /\ UNCHANGED shared
    /\ UNCHANGED <<timeVars, outcome, seen, stream, answer>>

\* A response of its own is written to the request it was built for.
Write(r) ==
    /\ stage[r] = "write" /\ ~IsShared(r)
    /\ Goto(r, "leave")
    /\ answer' = [answer EXCEPT ![r] = response[r]]
    /\ UNCHANGED <<timeVars, outcome, response, seen, sharedVars>>

\* The shared object is, once: setStreamProvider takes its stream for the
\* request, even from another one that has not closed it yet.
OpenStream(r) ==
    /\ stage[r] = "write" /\ IsShared(r) /\ ~stream.closed
    /\ Goto(r, "close")
    /\ stream' = [stream EXCEPT !.provider = r]
    /\ UNCHANGED <<timeVars, outcome, response, seen, shared, answer>>

\* What the container sends when nothing was written and no status was set.
Empty == Fresh(200)

\* A closed stream takes no provider.  Jersey logs that for a committed stream,
\* which leaves the client without status or entity, and answers with the bare
\* status 500 otherwise.
OpenClosedStream(r) ==
    /\ stage[r] = "write" /\ IsShared(r) /\ stream.closed
    /\ Goto(r, "leave")
    /\ answer' = [answer EXCEPT ![r] = IF stream.committed THEN Empty ELSE Fresh(500)]
    /\ UNCHANGED <<timeVars, outcome, response, seen, sharedVars>>

\* The entity is written and the stream closed, which sends status and headers,
\* to the request whose turn it was last.  A thread that failed to write the
\* entity, into another one's buffer, closes the stream as well.
Commit(r) ==
    /\ stage[r] = "close" /\ ~stream.closed
    /\ Goto(r, "leave")
    /\ stream' = [stream EXCEPT !.closed = TRUE, !.committed = TRUE]
    /\ answer' = [answer EXCEPT ![r] = Empty, ![stream.provider] = shared]
    /\ UNCHANGED <<timeVars, outcome, response, seen, shared>>

\* To read headers that another thread is adding to may throw, which is logged.
FailToCommit(r) ==
    /\ stage[r] = "close" /\ ~stream.closed
    /\ \E q \in Request \ {r} : stage[q] = "corsAdd" /\ IsShared(q)
    /\ Goto(r, "leave")
    /\ stream' = [stream EXCEPT !.closed = TRUE]
    /\ answer' = [answer EXCEPT ![r] = Empty]
    /\ UNCHANGED <<timeVars, outcome, response, seen, shared>>

\* To close a closed stream does nothing.
CloseAgain(r) ==
    /\ stage[r] = "close" /\ stream.closed
    /\ Goto(r, "leave")
    /\ answer' = [answer EXCEPT ![r] = IF @ = NoResponse THEN Empty ELSE @]
    /\ UNCHANGED <<timeVars, outcome, response, seen, sharedVars>>

\* Variant: the thread is not released when an exception was thrown.
LeaveAfterReturn(r, t) ==
    /\ stage[r] = "leave" /\ On(r, t)
    /\ Goto(r, "done")
    /\ bound' = IF outcome[r] = "returned" THEN [bound EXCEPT ![t] = NoRequest] ELSE bound
    /\ UNCHANGED <<clock, arrived, requestTime, outcome, response, seen, sharedVars, answer>>

\* RequestContextFilter resets the thread, which goes back to the pool.
Leave(r, t) ==
    /\ stage[r] = "leave" /\ On(r, t)
    /\ Goto(r, "done")
    /\ bound' = [bound EXCEPT ![t] = NoRequest]
    /\ UNCHANGED <<clock, arrived, requestTime, outcome, response, seen, sharedVars, answer>>

Tick ==
    /\ clock < MaxClock
    /\ clock' = clock + 1
    /\ UNCHANGED <<bound, arrived, requestTime, stage, outcome, response, seen, sharedVars, answer>>

AllServed == (\A r \in Request : stage[r] = "done") /\ UNCHANGED pipelineVars

-----------------------------------------------------------------------------
Init ==
    /\ clock = 0
    /\ stage = [r \in Request |-> "waiting"]
    /\ bound = [t \in Thread |-> NoRequest]
    /\ arrived = [r \in Request |-> NoTime]
    /\ requestTime = [r \in Request |-> NoTime]
    /\ outcome = [r \in Request |-> "pending"]
    /\ response = [r \in Request |-> NoResponse]
    /\ seen = [r \in Request |-> 0]
    /\ shared = Fresh(500)
    /\ stream = [provider |-> NoRequest, closed |-> FALSE, committed |-> FALSE]
    /\ answer = [r \in Request |-> NoResponse]

Serve(r) ==
    \/ \E t \in Thread : Accept(r, t) \/ TimeFilter(r, t) \/ Leave(r, t)
    \/ Pass(r) \/ Forbid(r) \/ FailFilter(r) \/ ErrorPage(r)
    \/ MissRoute(r) \/ Route(r) \/ Invalid(r) \/ Valid(r) \/ Return(r) \/ Fail(r)
    \/ GetHeaders(r) \/ AddHeaders(r) \/ Write(r)
    \/ OpenStream(r) \/ OpenClosedStream(r)
    \/ Commit(r) \/ FailToCommit(r) \/ CloseAgain(r)

Next == (\E r \in Request : Serve(r)) \/ Tick \/ AllServed

Spec == Init /\ [][Next]_pipelineVars

-----------------------------------------------------------------------------
(***************************************************************************)
(* Properties                                                              *)
(***************************************************************************)
Answered(r) == stage[r] \in {"leave", "done"}

\* A request is on at most one thread, from its acceptance to its end, and
\* carries a stamp and a response as far as it has come.
TypeOK ==
    /\ clock \in 0..MaxClock
    /\ stage \in [Request -> {"waiting", "security", "errorPage", "route", "timeFilter",
                              "validate", "resource", "corsGet", "corsAdd", "write", "close",
                              "leave", "done"}]
    /\ bound \in [Thread -> Request \cup {NoRequest}]
    /\ arrived \in [Request -> 0..NoTime]
    /\ requestTime \in [Request -> 0..NoTime]
    /\ outcome \in
         [Request -> {"pending", "returned", "returnedNothing"} \cup Refused \cup Mappable]
    /\ response \in
         [Request -> [status : Status \cup {0}, cors : Nat] \cup {INTERNAL_SERVER_ERROR}]
    /\ seen \in [Request -> Nat]
    /\ shared \in [status : Status, cors : Nat]
    /\ stream \in [provider  : Request \cup {NoRequest},
                   closed    : BOOLEAN,
                   committed : BOOLEAN]
    /\ answer \in [Request -> [status : Status \cup {0}, cors : Nat]]

IsInternal(r) == outcome[r] \in Internal

\* The answer to a request has the status of what became of this request, with
\* any number of threads that map exceptions to the one shared object.  What
\* this object costs is known: only a client whose own request failed
\* unexpectedly, and not the only one to do so, may be told nothing instead,
\* with status 200; the success or failure of another request it is never told.
AnswersOwnOutcome ==
    \A r \in Request : Answered(r) =>
        \/ answer[r].status = StatusOf(outcome[r])
        \/ /\ answer[r] = Empty
           /\ IsInternal(r) /\ \E q \in Request \ {r} : IsInternal(q)

\* What the object says of itself, "Internal Server Error": a request that ends
\* in an unexpected exception is answered with 500.
UnexpectedIsServerError ==
    \A r \in Request : Answered(r) /\ IsInternal(r) => answer[r].status = 500

\* Each CORS header has one value, as browsers insist, in every answer of Jersey
\* that is not the shared object's: what its headers have come to, repeated
\* values or none, reaches nobody but those whose request failed unexpectedly.
OnlyServerErrorsRepeatHeaders ==
    \A r \in Request :
        Answered(r) /\ outcome[r] \notin Refused \cup Internal => answer[r].cors = 1

\* A resource, and validation before it, finds the time of the request in
\* place: taken after the request arrived, and never that of another request
\* on the same thread or of the start of the server.  TimeFilter's own check
\* never fires.
TimeIsOwn ==
    /\ \A r \in Request :
          stage[r] \in {"validate", "resource"} =>
              requestTime[r] \in arrived[r]..clock
    /\ \A r \in Request :
          outcome[r] = "RuntimeException" => requestTime[r] \in arrived[r]..clock

\* To its clients the pipeline is RequestAnswers: no outcome is settled twice, no
\* answer is taken back, replaced or given for another request's outcome, and the
\* pool is never overrun.
Phase(r) ==
    IF stage[r] \in {"waiting", "done"} THEN stage[r]
    ELSE IF stage[r] = "leave" THEN "answered" ELSE "served"

Promise == INSTANCE RequestAnswers WITH
    PoolSize <- Cardinality(Thread),
    Outcome  <- {"returned", "returnedNothing"} \cup Refused \cup Mappable,
    phase    <- [r \in Request |-> Phase(r)],
    status   <- [r \in Request |-> IF Answered(r) THEN answer[r].status ELSE 0]

AnswersSpec == Promise!Spec

-----------------------------------------------------------------------------
(***************************************************************************)
(* The inductive invariant: a request in progress holds a thread of its    *)
(* own; the responses that are not the shared object are built by and for  *)
(* one request; and whoever finds the stream of the shared object closed   *)
(* comes after somebody else who used it.                                  *)
(***************************************************************************)
InProgress(r) == stage[r] \notin {"waiting", "done"}

BoundInv ==
    /\ \A t \in Thread : bound[t] # NoRequest => InProgress(bound[t])
    /\ \A t, u \in Thread : bound[t] = bound[u] /\ bound[t] # NoRequest => t = u
    /\ \A r \in Request : InProgress(r) => \E t \in Thread : bound[t] = r

ResponseInv ==
    /\ shared.status = 500
    /\ \A r \in Request :
          /\ stage[r] \in {"waiting", "security", "route", "timeFilter", "validate", "resource"} =>
                outcome[r] = "pending"
          /\ stage[r] = "errorPage" => outcome[r] \in Refused
          /\ stage[r] \in {"corsGet", "corsAdd", "write", "close"} =>
                /\ outcome[r] \notin Refused \cup {"pending"}
                /\ ~IsShared(r) => response[r].status = StatusOf(outcome[r])
          /\ IsShared(r) <=> IsInternal(r)
          /\ ~IsShared(r) /\ stage[r] = "corsGet" => response[r].cors = 0
          /\ ~IsShared(r) /\ stage[r] = "corsAdd" => seen[r] = 0
          /\ ~IsShared(r) /\ stage[r] = "write"   => response[r].cors = 1

StreamInv ==
    /\ stream.provider # NoRequest /\ ~stream.closed => stage[stream.provider] = "close"
    /\ stream.closed => \E q \in Request : IsInternal(q) /\ Answered(q)
    /\ \A r \in Request :
          /\ stage[r] = "close" => IsShared(r) /\ stream.provider # NoRequest
          /\ answer[r] # NoResponse /\ ~Answered(r) =>
                stage[r] = "close" /\ stream.closed /\ answer[r].status = 500

TimeInv ==
    \A r \in Request :
        InProgress(r) => arrived[r] \in 0..clock

PipelineInv ==
    /\ TypeOK
    /\ BoundInv
    /\ ResponseInv
    /\ StreamInv
    /\ TimeInv
    /\ AnswersOwnOutcome
    /\ OnlyServerErrorsRepeatHeaders
    /\ TimeIsOwn
=============================================================================

----------------------- MODULE RequestPipelineProofs ------------------------
(***************************************************************************)
(* Theorems about RequestPipeline, for any number of requests and threads, *)
(* by the inductive invariant PipelineInv.                                 *)
(***************************************************************************)
EXTENDS RequestPipeline, FiniteSetTheorems, TLAPS

\* The content of a response.
Content == [status : Status \cup {0}, cors : Nat]

\* The shared object is none of the responses built for one request.
LEMMA SharedIsNoContent == INTERNAL_SERVER_ERROR \notin Content
  <1>1. Content \subseteq [status : Nat, cors : Nat]
    BY DEF Content, Status
  <1> QED
    BY <1>1, ObjectAssumption

\* A mapper answers with the status of the exception: in a response of its own
\* without headers so far, or in the shared object for a 500.
LEMMA MappedStatus ==
    ASSUME NEW e \in Mappable
    PROVE  \/ ToResponse(e) = INTERNAL_SERVER_ERROR /\ StatusOf(e) = 500
           \/ ToResponse(e) = [status |-> StatusOf(e), cors |-> 0] /\ StatusOf(e) \in Status
<1>1. ASSUME e \in WebApplicationException
      PROVE  ToResponse(e) = Fresh(StatusCarried[e]) /\ StatusOf(e) = StatusCarried[e]
  <2>1. e \notin Refused \cup {"returned", "returnedNothing"}
    BY <1>1 DEF WebApplicationException, StatusCarried, Refused
  <2>2. QED
    BY <1>1, <2>1 DEF ToResponse, StatusOf, Mapper
<1>2. \A f \in WebApplicationException : StatusCarried[f] \in Status
  BY DEF WebApplicationException, StatusCarried, Status
<1>3. CASE e = "ConstraintViolationException"
  BY <1>3 DEF ToResponse, StatusOf, Mapper, Fresh, StatusCarried, WebApplicationException,
              ValidationException, Refused, Status
<1>4. CASE e \in Unexpected \cup {"ConstraintDeclarationException"}
  BY <1>4 DEF ToResponse, StatusOf, Mapper, StatusCarried, WebApplicationException,
              ValidationException, Unexpected, Refused
<1> QED
  BY <1>1, <1>2, <1>3, <1>4 DEF Mappable, ValidationException, Fresh

\* The shared object for what is internal, a response of its own for the rest.
LEMMA Mapped ==
    ASSUME NEW e \in Mappable
    PROVE  IF e \in Internal
           THEN ToResponse(e) = INTERNAL_SERVER_ERROR /\ StatusOf(e) = 500
           ELSE /\ ToResponse(e) = [status |-> StatusOf(e), cors |-> 0]
                /\ ToResponse(e) \in Content
                /\ StatusOf(e) \in Status
<1>1. StatusOf(e) \in Status => [status |-> StatusOf(e), cors |-> 0] \in Content
  BY DEF Content
<1> QED
  BY <1>1, MappedStatus, SharedIsNoContent DEF Internal

\* The outcomes that are no exceptions.
LEMMA PlainOutcomes ==
    /\ StatusOf("returned") = 200 /\ StatusOf("returnedNothing") = 204
    /\ \A what \in Refused : StatusOf(what) = 403
    /\ ({"pending", "returned", "returnedNothing"} \cup Refused) \cap Mappable = {}
    /\ {"pending", "returned", "returnedNothing"} \cap Refused = {}
    /\ Internal \subseteq Mappable
  BY DEF StatusOf, Refused, Mappable, Internal, WebApplicationException, StatusCarried,
         ValidationException, Unexpected

\* The idle server satisfies the invariant.
LEMMA InitPipeline == Init => PipelineInv
<1> SUFFICES ASSUME Init PROVE PipelineInv
  OBVIOUS
<1>1. NoResponse \in Content
  BY DEF NoResponse, Content
<1>2. TypeOK
  BY ClockAssumption DEF Init, TypeOK, NoTime, Fresh, NoResponse, Status
<1>3. ResponseInv
  BY <1>1, SharedIsNoContent, PlainOutcomes
     DEF Init, ResponseInv, Fresh, IsShared, IsInternal
<1>4. BoundInv /\ StreamInv /\ TimeInv
  BY NoRequestAssumption DEF Init, BoundInv, StreamInv, TimeInv, InProgress
<1>5. AnswersOwnOutcome /\ OnlyServerErrorsRepeatHeaders /\ TimeIsOwn
  BY DEF Init, AnswersOwnOutcome, OnlyServerErrorsRepeatHeaders, TimeIsOwn, Answered
<1> QED
  BY <1>2, <1>3, <1>4, <1>5 DEF PipelineInv

-----------------------------------------------------------------------------
\* The steps that only move a request on.
LEMMA PassRouteValid ==
    ASSUME PipelineInv, NEW r \in Request, Pass(r) \/ Route(r) \/ Valid(r)
    PROVE  PipelineInv'
<1>1. PICK next \in {"route", "timeFilter", "resource"} :
         /\ stage[r] \in {"security", "route", "validate"}
         /\ next = "resource" => stage[r] = "validate"
         /\ stage' = [stage EXCEPT ![r] = next]
  BY DEF Pass, Route, Valid, Goto
<1>2. UNCHANGED <<timeVars, outcome, response, seen, sharedVars, answer>>
  BY DEF Pass, Route, Valid
<1> QED
  BY <1>1, <1>2 DEF timeVars, sharedVars, PipelineInv, TypeOK, BoundInv, ResponseInv, StreamInv,
     TimeInv, AnswersOwnOutcome, OnlyServerErrorsRepeatHeaders, TimeIsOwn, Answered,
     InProgress, IsShared, IsInternal

\* A request takes a free thread, and with it nobody else's.
LEMMA AcceptStep ==
    ASSUME PipelineInv, NEW r \in Request, NEW t \in Thread, Accept(r, t)
    PROVE  PipelineInv'
  BY ClockAssumption, NoRequestAssumption
     DEF Accept, Goto, sharedVars, NoTime, PipelineInv, TypeOK, BoundInv, ResponseInv, StreamInv,
     TimeInv, AnswersOwnOutcome, OnlyServerErrorsRepeatHeaders, TimeIsOwn, Answered,
     InProgress, IsShared, IsInternal

\* The filter chain settles what becomes of a request; the error page answers it.
LEMMA RefusalSteps ==
    ASSUME PipelineInv, NEW r \in Request, Forbid(r) \/ FailFilter(r)
    PROVE  PipelineInv'
<1>1. PICK what \in Refused : outcome' = [outcome EXCEPT ![r] = what]
  BY DEF Forbid, FailFilter, Refused
<1>2. /\ stage[r] = "security" /\ stage' = [stage EXCEPT ![r] = "errorPage"]
      /\ UNCHANGED <<timeVars, response, seen, sharedVars, answer>>
  BY DEF Forbid, FailFilter, Goto
<1>3. what # "RuntimeException"
  BY DEF Refused
<1> QED
  BY <1>1, <1>2, <1>3, PlainOutcomes DEF timeVars, sharedVars, PipelineInv, TypeOK, BoundInv, ResponseInv, StreamInv,
     TimeInv, AnswersOwnOutcome, OnlyServerErrorsRepeatHeaders, TimeIsOwn, Answered,
     InProgress, IsShared, IsInternal

\* The page comes with the status of the refusal.
LEMMA ErrorPageStep ==
    ASSUME PipelineInv, NEW r \in Request, ErrorPage(r)
    PROVE  PipelineInv'
  BY PlainOutcomes DEF ErrorPage, Goto, Fresh, Status, timeVars, sharedVars, PipelineInv, TypeOK, BoundInv, ResponseInv, StreamInv,
     TimeInv, AnswersOwnOutcome, OnlyServerErrorsRepeatHeaders, TimeIsOwn, Answered,
     InProgress, IsShared, IsInternal

\* An exception in a request that has its time, or none that needs it.
LEMMA ThrowStep ==
    ASSUME PipelineInv, NEW r \in Request, NEW e \in Mappable, Throw(r, e),
           stage[r] \in {"route", "validate", "resource"}, UNCHANGED requestTime,
           e = "RuntimeException" => stage[r] = "resource"
    PROVE  PipelineInv'
<1>1. /\ stage' = [stage EXCEPT ![r] = "corsGet"]
      /\ outcome' = [outcome EXCEPT ![r] = e]
      /\ response' = [response EXCEPT ![r] = ToResponse(e)]
      /\ UNCHANGED <<clock, bound, arrived, requestTime, seen, shared, stream, answer>>
  BY DEF Throw, Goto, sharedVars
<1>2. TypeOK'
  BY <1>1, Mapped DEF PipelineInv, TypeOK, Content
<1>3. BoundInv' /\ TimeInv'
  BY <1>1 DEF PipelineInv, TypeOK, BoundInv, TimeInv, InProgress
<1>4. ResponseInv'
  BY <1>1, PlainOutcomes, Mapped, SharedIsNoContent
     DEF PipelineInv, TypeOK, ResponseInv, IsShared, IsInternal
<1>5. \A q \in Request : IsInternal(q) => IsInternal(q)'
  BY <1>1, PlainOutcomes DEF PipelineInv, TypeOK, ResponseInv, IsInternal
<1>6. StreamInv'
  BY <1>1, <1>5 DEF PipelineInv, TypeOK, StreamInv, IsShared, Answered
<1>7. AnswersOwnOutcome' /\ OnlyServerErrorsRepeatHeaders'
  BY <1>1, <1>5 DEF PipelineInv, TypeOK, AnswersOwnOutcome, OnlyServerErrorsRepeatHeaders,
                    Answered
<1>8. TimeIsOwn'
  BY <1>1 DEF PipelineInv, TypeOK, TimeIsOwn
<1> QED
  BY <1>2, <1>3, <1>4, <1>6, <1>7, <1>8 DEF PipelineInv

\* A request that no resource method takes is mapped like any exception.
LEMMA MissRouteStep ==
    ASSUME PipelineInv, NEW r \in Request, MissRoute(r)
    PROVE  PipelineInv'
<1>1. PICK e \in RoutingException : Throw(r, e)
  BY DEF MissRoute
<1>2. e \in Mappable /\ e # "RuntimeException"
  BY DEF RoutingException, Mappable, WebApplicationException, StatusCarried
<1> QED
  BY <1>1, <1>2, ThrowStep DEF MissRoute

\* A violation of bean validation is mapped to the status of its kind.
LEMMA InvalidStep ==
    ASSUME PipelineInv, NEW r \in Request, Invalid(r)
    PROVE  PipelineInv'
<1>1. PICK e \in ValidationException : Throw(r, e)
  BY DEF Invalid
<1>2. e \in Mappable /\ e # "RuntimeException"
  BY DEF Mappable, ValidationException
<1> QED
  BY <1>1, <1>2, ThrowStep DEF Invalid

\* So is what a resource throws.
LEMMA FailStep ==
    ASSUME PipelineInv, NEW r \in Request, Fail(r)
    PROVE  PipelineInv'
<1>1. PICK e \in Thrown : Throw(r, e)
  BY DEF Fail
<1>2. e \in Mappable
  BY ThrownAssumption DEF Mappable
<1> QED
  BY <1>1, <1>2, ThrowStep DEF Fail

\* TimeFilter finds its own request bound to the thread: its check passes.
LEMMA TimeFilterStep ==
    ASSUME PipelineInv, NEW r \in Request, NEW t \in Thread, TimeFilter(r, t)
    PROVE  PipelineInv'
<1>1. requestTime' = [requestTime EXCEPT ![r] = clock] /\ requestTime'[r] = clock
  BY DEF TimeFilter, On, PipelineInv, TypeOK
<1>2. /\ stage[r] = "timeFilter"
      /\ stage' = [stage EXCEPT ![r] = "validate"]
      /\ UNCHANGED <<clock, bound, arrived, outcome, response, seen, shared, stream, answer>>
  BY <1>1 DEF TimeFilter, Goto, sharedVars
<1>3. TypeOK'
  BY <1>1, <1>2, ClockAssumption DEF PipelineInv, TypeOK, NoTime
<1>4. TimeIsOwn'
  BY <1>1, <1>2, ClockAssumption
     DEF PipelineInv, TypeOK, TimeIsOwn, TimeInv, InProgress, ResponseInv
<1> QED
  BY <1>2, <1>3, <1>4
     DEF PipelineInv, TypeOK, BoundInv, ResponseInv, StreamInv, TimeInv, AnswersOwnOutcome,
         OnlyServerErrorsRepeatHeaders, Answered, InProgress, IsShared, IsInternal

\* A resource that returns has a response of its own.
LEMMA ReturnStep ==
    ASSUME PipelineInv, NEW r \in Request, Return(r)
    PROVE  PipelineInv'
<1>1. PICK what \in {"returned", "returnedNothing"} :
         /\ outcome' = [outcome EXCEPT ![r] = what]
         /\ response' = [response EXCEPT ![r] = Fresh(StatusOf(what))]
  BY DEF Return
<1>2. /\ stage[r] = "resource" /\ stage' = [stage EXCEPT ![r] = "corsGet"]
      /\ UNCHANGED <<clock, bound, arrived, requestTime, seen, shared, stream, answer>>
  BY DEF Return, Goto, timeVars, sharedVars
<1>3. StatusOf(what) \in Status
  BY PlainOutcomes DEF Status
<1>4. Fresh(StatusOf(what)) \in Content /\ Fresh(StatusOf(what)) # INTERNAL_SERVER_ERROR
  BY <1>3, SharedIsNoContent DEF Fresh, Content
<1>5. what \notin Internal \cup Refused /\ what # "pending"
  BY PlainOutcomes
<1>6. TypeOK'
  BY <1>1, <1>2, <1>4 DEF PipelineInv, TypeOK, Content
<1>7. ResponseInv'
  BY <1>1, <1>2, <1>4, <1>5 DEF PipelineInv, TypeOK, ResponseInv, IsShared, IsInternal, Fresh
<1>8. \A q \in Request : IsInternal(q) => IsInternal(q)'
  BY <1>1, <1>2, PlainOutcomes DEF PipelineInv, TypeOK, ResponseInv, IsInternal
<1>9. BoundInv' /\ TimeInv' /\ StreamInv'
  BY <1>1, <1>2, <1>8 DEF PipelineInv, TypeOK, BoundInv, TimeInv, StreamInv, InProgress,
                          IsShared, Answered
<1>10. AnswersOwnOutcome' /\ OnlyServerErrorsRepeatHeaders' /\ TimeIsOwn'
  BY <1>1, <1>2, <1>8 DEF PipelineInv, TypeOK, AnswersOwnOutcome,
                          OnlyServerErrorsRepeatHeaders, TimeIsOwn, Answered
<1> QED
  BY <1>6, <1>7, <1>9, <1>10 DEF PipelineInv

-----------------------------------------------------------------------------
\* Reading and adding headers: the shared object keeps its status, and no
\* response of a single request is read by another one.
LEMMA GetHeadersStep ==
    ASSUME PipelineInv, NEW r \in Request, GetHeaders(r)
    PROVE  PipelineInv'
<1>1. (IF IsShared(r) THEN shared.cors ELSE response[r].cors) \in Nat
  BY DEF PipelineInv, TypeOK, IsShared
<1> QED
  BY <1>1 DEF GetHeaders, Goto, timeVars, sharedVars, PipelineInv, TypeOK, BoundInv, ResponseInv, StreamInv,
     TimeInv, AnswersOwnOutcome, OnlyServerErrorsRepeatHeaders, TimeIsOwn, Answered,
     InProgress, IsShared, IsInternal

\* Headers are added to the response that this request has, or to the shared object.
LEMMA AddHeadersStep ==
    ASSUME PipelineInv, NEW r \in Request, AddHeaders(r)
    PROVE  PipelineInv'
<1>1. CASE IsShared(r)
  BY <1>1 DEF AddHeaders, Goto, timeVars, PipelineInv, TypeOK, BoundInv, ResponseInv, StreamInv,
     TimeInv, AnswersOwnOutcome, OnlyServerErrorsRepeatHeaders, TimeIsOwn, Answered,
     InProgress, IsShared, IsInternal
<1>2. CASE ~IsShared(r)
  <2>1. /\ stage[r] = "corsAdd" /\ stage' = [stage EXCEPT ![r] = "write"]
        /\ response' = [response EXCEPT ![r].cors = seen[r] + 1]
        /\ UNCHANGED <<clock, bound, arrived, requestTime, outcome, seen, shared, stream, answer>>
    BY <1>2 DEF AddHeaders, Goto, timeVars
  <2>2. BoundInv'
    BY <2>1 DEF PipelineInv, TypeOK, BoundInv, InProgress
  <2>3. TypeOK' /\ ResponseInv'
    BY <1>2, <2>1, SharedIsNoContent
       DEF Content, PipelineInv, TypeOK, ResponseInv, IsShared, IsInternal
  <2>4. StreamInv'
    BY <1>2, <2>1 DEF PipelineInv, TypeOK, StreamInv, IsShared, IsInternal, Answered
  <2>5. TimeInv' /\ AnswersOwnOutcome' /\ OnlyServerErrorsRepeatHeaders' /\ TimeIsOwn'
    BY <2>1 DEF PipelineInv, TypeOK, TimeInv, AnswersOwnOutcome,
                OnlyServerErrorsRepeatHeaders, TimeIsOwn, Answered, InProgress, IsInternal
  <2>6. QED
    BY <2>2, <2>3, <2>4, <2>5 DEF PipelineInv
<1> QED
  BY <1>1, <1>2

\* What is written of a response of its own has the status of the outcome.
LEMMA WriteStep ==
    ASSUME PipelineInv, NEW r \in Request, Write(r)
    PROVE  PipelineInv'
  BY DEF Write, Goto, timeVars, sharedVars, PipelineInv, TypeOK, BoundInv, ResponseInv, StreamInv,
     TimeInv, AnswersOwnOutcome, OnlyServerErrorsRepeatHeaders, TimeIsOwn, Answered,
     InProgress, IsShared, IsInternal

-----------------------------------------------------------------------------
\* A request that answers nothing, or 500, for an unexpected exception, after
\* somebody else has had one.
LEMMA AnswerInternal ==
    ASSUME PipelineInv, NEW r \in Request, stage[r] \in {"write", "close"}, IsShared(r),
           stage' = [stage EXCEPT ![r] = "leave"],
           UNCHANGED <<clock, bound, arrived, requestTime, outcome, response, seen, shared>>,
           TypeOK', StreamInv',
           \A q \in Request : answer'[q] # answer[q] => q = r \/ stage[q] = "close",
           \/ answer'[r].status = 500
           \/ answer'[r] = Empty /\ \E q \in Request \ {r} : IsInternal(q)
    PROVE  PipelineInv'
<1>1. BoundInv' /\ ResponseInv' /\ TimeInv' /\ TimeIsOwn'
  BY DEF PipelineInv, TypeOK, BoundInv, ResponseInv, TimeInv, TimeIsOwn, InProgress,
         IsShared, IsInternal
<1>2. IsInternal(r) /\ StatusOf(outcome[r]) = 500
  BY Mapped, PlainOutcomes DEF PipelineInv, ResponseInv, IsInternal
<1>3. \A q \in Request : Answered(q)' => q = r \/ (Answered(q) /\ answer'[q] = answer[q])
  BY DEF Answered, PipelineInv, TypeOK
<1>4. AnswersOwnOutcome'
  BY <1>2, <1>3 DEF AnswersOwnOutcome, PipelineInv, IsInternal
<1>5. OnlyServerErrorsRepeatHeaders'
  BY <1>2, <1>3 DEF OnlyServerErrorsRepeatHeaders, PipelineInv, IsInternal
<1> QED
  BY <1>1, <1>4, <1>5 DEF PipelineInv

\* The stream is opened for a request.
LEMMA OpenStreamStep ==
    ASSUME PipelineInv, NEW r \in Request, OpenStream(r)
    PROVE  PipelineInv'
<1>1. /\ stage[r] = "write" /\ IsShared(r) /\ ~stream.closed
      /\ stage' = [stage EXCEPT ![r] = "close"]
      /\ stream' = [stream EXCEPT !.provider = r]
      /\ UNCHANGED <<clock, bound, arrived, requestTime, outcome, response, seen, shared, answer>>
  BY DEF OpenStream, Goto, timeVars
<1>2. stream'.provider = r /\ ~stream'.closed
  BY <1>1 DEF PipelineInv, TypeOK
<1>3. answer[r] = NoResponse
  BY <1>1 DEF PipelineInv, StreamInv, Answered
<1>4. TypeOK' /\ BoundInv' /\ ResponseInv' /\ TimeInv'
  BY <1>1 DEF PipelineInv, TypeOK, BoundInv, ResponseInv, TimeInv, InProgress, IsShared,
              IsInternal
<1>5. StreamInv'
  BY <1>1, <1>2, <1>3, NoRequestAssumption
     DEF PipelineInv, TypeOK, StreamInv, IsShared, IsInternal, Answered
<1>6. AnswersOwnOutcome' /\ OnlyServerErrorsRepeatHeaders' /\ TimeIsOwn'
  BY <1>1 DEF PipelineInv, TypeOK, AnswersOwnOutcome, OnlyServerErrorsRepeatHeaders,
              TimeIsOwn, Answered, IsInternal
<1> QED
  BY <1>4, <1>5, <1>6 DEF PipelineInv

\* Whoever finds the stream closed comes after somebody who was answered.
LEMMA SomebodyElse ==
    ASSUME PipelineInv, NEW r \in Request, ~Answered(r), stream.closed
    PROVE  \E q \in Request \ {r} : IsInternal(q)
  BY DEF PipelineInv, StreamInv

\* A closed stream takes nothing.
LEMMA OpenClosedStreamStep ==
    ASSUME PipelineInv, NEW r \in Request, OpenClosedStream(r)
    PROVE  PipelineInv'
<1>1. /\ stage[r] = "write" /\ IsShared(r) /\ stream.closed
      /\ stage' = [stage EXCEPT ![r] = "leave"]
      /\ answer' = [answer EXCEPT ![r] = IF stream.committed THEN Empty ELSE Fresh(500)]
      /\ UNCHANGED <<clock, bound, arrived, requestTime, outcome, response, seen, shared, stream>>
  BY DEF OpenClosedStream, Goto, timeVars, sharedVars
<1>2. TypeOK'
  BY <1>1 DEF PipelineInv, TypeOK, Empty, Fresh, Status
<1>3. StreamInv'
  BY <1>1 DEF PipelineInv, TypeOK, StreamInv, IsShared, IsInternal, Answered
<1>4. \E q \in Request \ {r} : IsInternal(q)
  BY <1>1, SomebodyElse DEF Answered
<1>5. answer'[r] = Empty \/ answer'[r].status = 500
  BY <1>1 DEF PipelineInv, TypeOK, Fresh
<1>6. \A q \in Request : answer'[q] # answer[q] => q = r
  BY <1>1 DEF PipelineInv, TypeOK
<1> QED
  BY <1>1, <1>2, <1>3, <1>4, <1>5, <1>6, AnswerInternal

\* The first to close the stream sends what is there to its provider, and gets
\* nothing itself unless it is the provider.
LEMMA CommitStep ==
    ASSUME PipelineInv, NEW r \in Request, Commit(r)
    PROVE  PipelineInv'
<1> DEFINE p == stream.provider
<1>1. /\ stage[r] = "close" /\ ~stream.closed
      /\ stage' = [stage EXCEPT ![r] = "leave"]
      /\ stream' = [stream EXCEPT !.closed = TRUE, !.committed = TRUE]
      /\ answer' = [answer EXCEPT ![r] = Empty, ![p] = shared]
      /\ UNCHANGED <<clock, bound, arrived, requestTime, outcome, response, seen, shared>>
  BY DEF Commit, Goto, timeVars
<1>2. /\ p \in Request /\ stage[p] = "close" /\ IsInternal(p)
      /\ IsShared(r) /\ IsInternal(r)
  BY <1>1 DEF PipelineInv, TypeOK, StreamInv, ResponseInv
<1>3. \A q \in Request : answer'[q] = IF q = p THEN shared ELSE IF q = r THEN Empty ELSE answer[q]
  BY <1>1, <1>2 DEF PipelineInv, TypeOK
<1>4. TypeOK'
  <2>1. shared \in Content /\ Empty \in Content
    BY DEF PipelineInv, TypeOK, Content, Empty, Fresh, Status
  <2>2. answer' \in [Request -> Content]
    BY <1>1, <1>2, <2>1 DEF PipelineInv, TypeOK, Content
  <2>3. stream' \in [provider : Request \cup {NoRequest}, closed : BOOLEAN, committed : BOOLEAN]
    BY <1>1 DEF PipelineInv, TypeOK
  <2>4. QED
    BY <1>1, <2>2, <2>3 DEF PipelineInv, TypeOK, Content
<1>5. stream'.closed /\ stream'.provider = p
  BY <1>1 DEF PipelineInv, TypeOK
<1>6. StreamInv'
  <2>1. \E q \in Request : IsInternal(q)' /\ Answered(q)'
    BY <1>1, <1>2 DEF PipelineInv, TypeOK, IsInternal, Answered
  <2>2. ASSUME NEW q \in Request, ~Answered(q)'
        PROVE  /\ stage'[q] = "close" => IsShared(q)'
               /\ answer'[q] # NoResponse => stage'[q] = "close" /\ answer'[q].status = 500
    <3>1. stage'[q] = stage[q] /\ q # r /\ ~Answered(q)
      BY <1>1, <2>2 DEF PipelineInv, TypeOK, Answered
    <3>2. (stage[q] = "close" => IsShared(q)) /\ answer[q] = NoResponse
      BY <1>1, <3>1 DEF PipelineInv, StreamInv
    <3>3. QED
      <4>1. shared.status = 500 /\ response' = response
        BY <1>1 DEF PipelineInv, ResponseInv
      <4>2. QED
        BY <1>2, <1>3, <3>1, <3>2, <4>1 DEF IsShared
  <2>3. QED
    BY <1>2, <1>5, <2>1, <2>2, NoRequestAssumption DEF StreamInv, Answered
<1>7. \/ answer'[r].status = 500
      \/ answer'[r] = Empty /\ \E q \in Request \ {r} : IsInternal(q)
  BY <1>2, <1>3 DEF PipelineInv, ResponseInv
<1> QED
  BY <1>1, <1>2, <1>3, <1>4, <1>6, <1>7, AnswerInternal

\* The commit that fails closes the stream; another request had an exception.
LEMMA FailToCommitStep ==
    ASSUME PipelineInv, NEW r \in Request, FailToCommit(r)
    PROVE  PipelineInv'
<1>1. /\ stage[r] = "close" /\ ~stream.closed
      /\ stage' = [stage EXCEPT ![r] = "leave"]
      /\ stream' = [stream EXCEPT !.closed = TRUE]
      /\ answer' = [answer EXCEPT ![r] = Empty]
      /\ UNCHANGED <<clock, bound, arrived, requestTime, outcome, response, seen, shared>>
  BY DEF FailToCommit, Goto, timeVars
<1>2. \E q \in Request \ {r} : IsInternal(q)
  BY DEF FailToCommit, PipelineInv, ResponseInv
<1>3. IsShared(r) /\ IsInternal(r)
  BY <1>1 DEF PipelineInv, StreamInv, ResponseInv
<1>4. TypeOK'
  <2>1. Empty \in [status : Status \cup {0}, cors : Nat]
    BY DEF Empty, Fresh, Status
  <2>2. stream' \in [provider : Request \cup {NoRequest}, closed : BOOLEAN, committed : BOOLEAN]
    BY <1>1 DEF PipelineInv, TypeOK
  <2>3. QED
    BY <1>1, <2>1, <2>2 DEF PipelineInv, TypeOK
<1>5. StreamInv'
  <2>1. stream'.closed /\ stream'.provider = stream.provider
    BY <1>1 DEF PipelineInv, TypeOK
  <2>2. IsInternal(r)' /\ Answered(r)'
    BY <1>1, <1>3 DEF PipelineInv, TypeOK, IsInternal, Answered
  <2>3. ASSUME NEW q \in Request, ~Answered(q)'
        PROVE  /\ stage'[q] = "close" => IsShared(q)' /\ stream.provider # NoRequest
               /\ answer'[q] = NoResponse
    <3>1. stage'[q] = stage[q] /\ q # r /\ ~Answered(q)
      BY <1>1, <2>3 DEF PipelineInv, TypeOK, Answered
    <3>2. /\ stage[q] = "close" => IsShared(q) /\ stream.provider # NoRequest
          /\ answer[q] = NoResponse
      BY <1>1, <3>1 DEF PipelineInv, StreamInv
    <3>3. QED
      BY <1>1, <3>1, <3>2 DEF PipelineInv, TypeOK, IsShared
  <2>4. QED
    BY <2>1, <2>2, <2>3 DEF StreamInv, Answered
<1>6. /\ answer'[r] = Empty
      /\ \A q \in Request : answer'[q] # answer[q] => q = r
  BY <1>1 DEF PipelineInv, TypeOK
<1> QED
  BY <1>1, <1>2, <1>3, <1>4, <1>5, <1>6, AnswerInternal

\* The stream was closed by somebody else, who may have answered this request.
LEMMA CloseAgainStep ==
    ASSUME PipelineInv, NEW r \in Request, CloseAgain(r)
    PROVE  PipelineInv'
<1>1. /\ stage[r] = "close" /\ stream.closed
      /\ stage' = [stage EXCEPT ![r] = "leave"]
      /\ answer' = [answer EXCEPT ![r] = IF @ = NoResponse THEN Empty ELSE @]
      /\ UNCHANGED <<clock, bound, arrived, requestTime, outcome, response, seen, shared, stream>>
  BY DEF CloseAgain, Goto, timeVars, sharedVars
<1>2. IsShared(r)
  BY <1>1 DEF PipelineInv, StreamInv
<1>3. \E q \in Request \ {r} : IsInternal(q)
  BY <1>1, SomebodyElse DEF Answered
<1>4. TypeOK'
  BY <1>1 DEF PipelineInv, TypeOK, Empty, Fresh, Status
<1>5. StreamInv'
  BY <1>1 DEF PipelineInv, TypeOK, StreamInv, IsShared, IsInternal, Answered
<1>6. answer'[r] = Empty \/ answer'[r].status = 500
  BY <1>1 DEF PipelineInv, TypeOK, StreamInv, Answered
<1>7. \A q \in Request : answer'[q] # answer[q] => q = r
  BY <1>1 DEF PipelineInv, TypeOK
<1> QED
  BY <1>1, <1>2, <1>3, <1>4, <1>5, <1>6, <1>7, AnswerInternal

-----------------------------------------------------------------------------
\* A request gives its own thread back.
LEMMA LeaveStep ==
    ASSUME PipelineInv, NEW r \in Request, NEW t \in Thread, Leave(r, t)
    PROVE  PipelineInv'
  BY NoRequestAssumption DEF Leave, Goto, On, sharedVars, PipelineInv, TypeOK, BoundInv, ResponseInv, StreamInv,
     TimeInv, AnswersOwnOutcome, OnlyServerErrorsRepeatHeaders, TimeIsOwn, Answered,
     InProgress, IsShared, IsInternal

\* Time passes: what was stamped stays in the past.
LEMMA TickStep == PipelineInv /\ Tick => PipelineInv'
  BY ClockAssumption DEF Tick, NoTime, sharedVars, PipelineInv, TypeOK, BoundInv, ResponseInv, StreamInv,
     TimeInv, AnswersOwnOutcome, OnlyServerErrorsRepeatHeaders, TimeIsOwn, Answered,
     InProgress, IsShared, IsInternal

-----------------------------------------------------------------------------
\* Every step preserves the invariant.
LEMMA NextPipeline == PipelineInv /\ [Next]_pipelineVars => PipelineInv'
<1> SUFFICES ASSUME PipelineInv, [Next]_pipelineVars PROVE PipelineInv'
  OBVIOUS
<1>1. CASE UNCHANGED pipelineVars
  BY <1>1 DEF pipelineVars, timeVars, sharedVars, PipelineInv, TypeOK, BoundInv, ResponseInv, StreamInv,
     TimeInv, AnswersOwnOutcome, OnlyServerErrorsRepeatHeaders, TimeIsOwn, Answered,
     InProgress, IsShared, IsInternal
<1>2. ASSUME NEW r \in Request, Serve(r) PROVE PipelineInv'
  BY <1>2, AcceptStep, PassRouteValid, RefusalSteps, ErrorPageStep, MissRouteStep,
     TimeFilterStep, InvalidStep, ReturnStep, FailStep, GetHeadersStep, AddHeadersStep,
     WriteStep, OpenStreamStep, OpenClosedStreamStep, CommitStep, FailToCommitStep,
     CloseAgainStep, LeaveStep DEF Serve
<1> QED
  BY <1>1, <1>2, TickStep DEF Next, AllServed

\* PipelineInv holds throughout.
THEOREM PipelineInvariance == Spec => []PipelineInv
  BY InitPipeline, NextPipeline, PTL DEF Spec

\* No request is told what became of another one: its answer has the status of
\* its own outcome, or, when it failed unexpectedly and so did another request,
\* it may be the empty 200 of the stream that the two share.
THEOREM AnswersAreOwn == Spec => []AnswersOwnOutcome
<1>1. PipelineInv => AnswersOwnOutcome
  BY DEF PipelineInv
<1> QED
  BY <1>1, PipelineInvariance, PTL

\* Nobody but clients of failed requests sees the headers of the shared object.
THEOREM RepeatedHeadersStayWithServerErrors == Spec => []OnlyServerErrorsRepeatHeaders
<1>1. PipelineInv => OnlyServerErrorsRepeatHeaders
  BY DEF PipelineInv
<1> QED
  BY <1>1, PipelineInvariance, PTL

\* The time a resource reads was taken for its request, after its arrival.
THEOREM RequestTimeIsOwn == Spec => []TimeIsOwn
<1>1. PipelineInv => TimeIsOwn
  BY DEF PipelineInv
<1> QED
  BY <1>1, PipelineInvariance, PTL

-----------------------------------------------------------------------------
(***************************************************************************)
(* The pipeline keeps its promise                                          *)
(***************************************************************************)

\* The specification of the promise counts as the pipeline does.
LEMMA SameCardinality == \A S : Promise!Cardinality(S) = Cardinality(S)
  BY DEF Cardinality, Promise!Cardinality

\* While a thread is free, fewer requests are served than there are threads:
\* each of them is bound to a thread, and a thread has one.
LEMMA PoolHasRoom ==
    ASSUME PipelineInv, NEW t \in Thread, bound[t] = NoRequest
    PROVE  Cardinality(Promise!Serving) < Cardinality(Thread)
<1> DEFINE Busy == {u \in Thread : bound[u] # NoRequest}
           on   == [u \in Busy |-> bound[u]]
<1>1. Promise!Serving = {r \in Request : InProgress(r)}
  BY DEF Promise!Serving, Phase, InProgress, PipelineInv, TypeOK
<1>2. on \in Surjection(Busy, Promise!Serving)
  <2>1. \A u \in Busy : on[u] \in Promise!Serving
    BY <1>1 DEF PipelineInv, TypeOK, BoundInv
  <2>2. \A r \in Promise!Serving : \E u \in Busy : on[u] = r
    BY <1>1, NoRequestAssumption DEF PipelineInv, BoundInv
  <2> HIDE DEF Busy
  <2>3. QED
    BY <2>1, <2>2 DEF Surjection
<1>3. Busy \in SUBSET (Thread \ {t})
  OBVIOUS
<1>4. IsFiniteSet(Thread) /\ Cardinality(Thread) \in Nat
  BY PoolAssumption, FS_CardinalityType
<1>5. IsFiniteSet(Thread \ {t}) /\ Cardinality(Thread \ {t}) = Cardinality(Thread) - 1
  BY <1>4, FS_RemoveElement
<1> HIDE DEF Busy, on
<1>6. IsFiniteSet(Busy) /\ Cardinality(Busy) <= Cardinality(Thread \ {t})
  BY <1>3, <1>5, FS_Subset
<1>7. IsFiniteSet(Promise!Serving) /\ Cardinality(Promise!Serving) <= Cardinality(Busy)
  BY <1>2, <1>6, FS_Surjection
<1>8. Cardinality(Promise!Serving) \in Nat /\ Cardinality(Busy) \in Nat
  BY <1>6, <1>7, FS_CardinalityType
<1>9. QED
  BY <1>4, <1>5, <1>6, <1>7, <1>8

\* The steps that the clients see nothing of.
LEMMA UnseenSteps ==
    ASSUME PipelineInv, NEW r \in Request,
           \/ Pass(r) \/ Route(r) \/ Valid(r) \/ GetHeaders(r) \/ AddHeaders(r) \/ OpenStream(r)
    PROVE  UNCHANGED Promise!promiseVars
<1>1. PICK s \in {"route", "timeFilter", "resource", "corsAdd", "write", "close"} :
         stage' = [stage EXCEPT ![r] = s]
  BY DEF Pass, Route, Valid, GetHeaders, AddHeaders, OpenStream, Goto
<1>2. stage[r] \notin {"waiting", "leave", "done"} /\ UNCHANGED <<outcome, answer>>
  BY DEF Pass, Route, Valid, GetHeaders, AddHeaders, OpenStream
<1>3. \A q \in Request : Phase(q)' = Phase(q) /\ Answered(q)' = Answered(q)
  BY <1>1, <1>2 DEF Phase, Answered, PipelineInv, TypeOK
<1>4. QED
  BY <1>2, <1>3 DEF Promise!promiseVars

\* What becomes of a request is settled once.
LEMMA SettlingStep ==
    ASSUME PipelineInv, NEW r \in Request, NEW what, NEW next \in {"corsGet", "errorPage"},
           stage[r] \in {"security", "route", "validate", "resource"},
           stage' = [stage EXCEPT ![r] = next],
           outcome' = [outcome EXCEPT ![r] = what],
           UNCHANGED answer
    PROVE  Promise!Settle(r, what)
<1>1. \A q \in Request : Phase(q)' = Phase(q) /\ Answered(q)' = Answered(q)
  BY DEF Phase, Answered, PipelineInv, TypeOK
<1>2. Phase(r) = "served" /\ outcome[r] = "pending"
  BY DEF Phase, PipelineInv, ResponseInv
<1> QED
  BY <1>1, <1>2 DEF Promise!Settle

\* An answer is given once, and to no request that has one: even a commit on
\* behalf of another request only touches what this one is still to be told.
LEMMA AnsweringSteps ==
    ASSUME PipelineInv, PipelineInv', NEW r \in Request,
           \/ ErrorPage(r) \/ Write(r) \/ OpenClosedStream(r)
           \/ Commit(r) \/ FailToCommit(r) \/ CloseAgain(r)
    PROVE  Promise!Answer(r) \/ Promise!AnswerNothing(r)
<1>1. /\ stage[r] \in {"errorPage", "write", "close"}
      /\ stage' = [stage EXCEPT ![r] = "leave"]
      /\ UNCHANGED outcome
  BY DEF ErrorPage, Write, OpenClosedStream, Commit, FailToCommit, CloseAgain, Goto
<1>2. \A q \in Request : Answered(q) => answer'[q] = answer[q]
  <2>1. CASE Commit(r)
    <3>1. Answered(stream.provider) = FALSE /\ Answered(r) = FALSE
      BY <2>1 DEF Commit, Answered, PipelineInv, StreamInv
    <3>2. QED
      BY <2>1, <3>1 DEF Commit, PipelineInv, TypeOK
  <2>2. CASE ~Commit(r)
    <3>1. \A q \in Request \ {r} : answer'[q] = answer[q]
      BY <2>2 DEF ErrorPage, Write, OpenClosedStream, FailToCommit, CloseAgain,
                  PipelineInv, TypeOK
    <3>2. QED
      BY <1>1, <3>1 DEF Answered
  <2>3. QED
    BY <2>1, <2>2
<1>3. \A q \in Request : Answered(q)' <=> Answered(q) \/ q = r
  BY <1>1 DEF Answered, PipelineInv, TypeOK
<1>4. ~Answered(r) /\ Phase(r) = "served" /\ outcome[r] # "pending"
  BY <1>1, PlainOutcomes DEF Answered, Phase, PipelineInv, ResponseInv
<1>5. [q \in Request |-> Phase(q)]' =
         [[q \in Request |-> Phase(q)] EXCEPT ![r] = "answered"]
  BY <1>1 DEF Phase, PipelineInv, TypeOK
<1>6. [q \in Request |-> IF Answered(q) THEN answer[q].status ELSE 0]' =
         [[q \in Request |-> IF Answered(q) THEN answer[q].status ELSE 0]
            EXCEPT ![r] = answer'[r].status]
  BY <1>2, <1>3
<1>7. CASE answer'[r].status = StatusOf(outcome[r])
  BY <1>1, <1>4, <1>5, <1>6, <1>7 DEF Promise!Answer
<1>8. CASE /\ answer'[r] = Empty /\ IsInternal(r)
           /\ \E q \in Request \ {r} : IsInternal(q)
  <2>1. answer'[r].status = 200
    BY <1>8 DEF Empty, Fresh
  <2>2. QED
    BY <1>1, <1>4, <1>5, <1>6, <1>8, <2>1 DEF Promise!AnswerNothing, IsInternal
<1>9. \/ answer'[r].status = StatusOf(outcome[r])
      \/ /\ answer'[r] = Empty /\ IsInternal(r)
         /\ \E q \in Request \ {r} : IsInternal(q)
  BY <1>1, <1>3 DEF PipelineInv, AnswersOwnOutcome, IsInternal
<1> QED
  BY <1>7, <1>8, <1>9

\* Each step of the pipeline is one of those its clients may see, or none.
LEMMA NextKeepsPromise ==
    PipelineInv /\ [Next]_pipelineVars => [Promise!Next]_Promise!promiseVars
<1> SUFFICES ASSUME PipelineInv, [Next]_pipelineVars
             PROVE  [Promise!Next]_Promise!promiseVars
  OBVIOUS
<1> DEFINE What == {"returned", "returnedNothing"} \cup Refused \cup Mappable
<1>1. ASSUME NEW r \in Request, NEW t \in Thread, Accept(r, t) PROVE Promise!Accept(r)
  <2>1. /\ stage[r] = "waiting" /\ stage' = [stage EXCEPT ![r] = "security"]
        /\ UNCHANGED <<outcome, answer>>
    BY <1>1 DEF Accept, Goto
  <2>2. Cardinality(Promise!Serving) < Cardinality(Thread)
    BY <1>1, PoolHasRoom DEF Accept
  <2>3. [q \in Request |-> Phase(q)]' =
           [[q \in Request |-> Phase(q)] EXCEPT ![r] = "served"]
    BY <2>1 DEF Phase, PipelineInv, TypeOK
  <2>4. \A q \in Request : Answered(q)' = Answered(q)
    BY <2>1 DEF Answered, PipelineInv, TypeOK
  <2>5. QED
    BY <2>1, <2>2, <2>3, <2>4, SameCardinality DEF Promise!Accept, Phase
<1>2. ASSUME NEW r \in Request, Forbid(r) \/ FailFilter(r)
      PROVE  \E what \in What : Promise!Settle(r, what)
  BY <1>2, SettlingStep DEF Forbid, FailFilter, Goto, Refused
<1>3. ASSUME NEW r \in Request, NEW t \in Thread, Leave(r, t) PROVE Promise!Release(r)
  <2>1. /\ stage[r] = "leave" /\ stage' = [stage EXCEPT ![r] = "done"]
        /\ UNCHANGED <<outcome, answer>>
    BY <1>3 DEF Leave, Goto
  <2>2. [q \in Request |-> Phase(q)]' =
           [[q \in Request |-> Phase(q)] EXCEPT ![r] = "done"]
    BY <2>1 DEF Phase, PipelineInv, TypeOK
  <2>3. \A q \in Request : Answered(q)' = Answered(q)
    BY <2>1 DEF Answered, PipelineInv, TypeOK
  <2>4. QED
    BY <2>1, <2>2, <2>3 DEF Promise!Release, Phase
<1>4. ASSUME NEW r \in Request, MissRoute(r) \/ Invalid(r) \/ Fail(r)
      PROVE  \E what \in What : Promise!Settle(r, what)
  <2>1. RoutingException \cup ValidationException \cup Thrown \subseteq Mappable
    BY ThrownAssumption DEF Mappable, RoutingException, WebApplicationException, StatusCarried
  <2>2. PICK e \in Mappable :
           stage[r] \in {"route", "validate", "resource"} /\ Throw(r, e)
    BY <1>4, <2>1 DEF MissRoute, Invalid, Fail
  <2>3. Promise!Settle(r, e)
    BY <2>2, SettlingStep DEF Throw, Goto
  <2>4. QED
    BY <2>3
<1>5. ASSUME NEW r \in Request, Return(r) PROVE \E what \in What : Promise!Settle(r, what)
  BY <1>5, SettlingStep DEF Return, Goto
<1>6. ASSUME NEW r \in Request, NEW t \in Thread, TimeFilter(r, t)
      PROVE  UNCHANGED Promise!promiseVars
  <2>1. /\ stage[r] = "timeFilter" /\ stage' = [stage EXCEPT ![r] = "validate"]
        /\ UNCHANGED <<outcome, answer>>
    BY <1>6 DEF TimeFilter, On, Goto, PipelineInv, TypeOK
  <2>2. \A q \in Request : Phase(q)' = Phase(q) /\ Answered(q)' = Answered(q)
    BY <2>1 DEF Phase, Answered, PipelineInv, TypeOK
  <2>3. QED
    BY <2>1, <2>2 DEF Promise!promiseVars
<1>7. CASE Tick \/ UNCHANGED pipelineVars
  BY <1>7 DEF Tick, pipelineVars, Promise!promiseVars, Phase, Answered
<1>8. PipelineInv'
  BY NextPipeline
<1>9. ASSUME NEW r \in Request, Serve(r) PROVE [Promise!Next]_Promise!promiseVars
  BY <1>1, <1>2, <1>3, <1>4, <1>5, <1>6, <1>8, <1>9, UnseenSteps, AnsweringSteps
     DEF Serve, Promise!Next
<1> QED
  BY <1>7, <1>9 DEF Next, AllServed

\* Whatever the threads share, the clients see what RequestAnswers says: with a
\* pool of any size, a request is settled once and answered once, with the status
\* of what became of it, or with an empty success where the shared response was
\* spent on another failed request; and no more requests are served at a time
\* than the pool has threads.
THEOREM PromiseKept == Spec => AnswersSpec
<1>1. Init => Promise!Init
  BY DEF Init, Promise!Init, Phase, Answered
<1>2. QED
  BY <1>1, PipelineInvariance, NextKeepsPromise, PTL DEF Spec, AnswersSpec, Promise!Spec
=============================================================================

--------------------------- MODULE ErrorResponses ---------------------------
(***************************************************************************)
(* The exception mappers: which response an exception becomes.  Jersey     *)
(* asks the mapper registered for the nearest superclass of the exception. *)
(*                                                                         *)
(* Two mappers build a response of its own for each exception.  All other  *)
(* exceptions become INTERNAL_SERVER_ERROR, one object for the life of the *)
(* process.                                                                *)
(***************************************************************************)
EXTENDS Naturals

CONSTANT INTERNAL_SERVER_ERROR  \* the object, as a value of its own

\* What extends WebApplicationException, with the status the exception carries.
StatusCarried ==
    [ConflictException |-> 409, NotAuthorizedException |-> 401,
     NotFoundException |-> 404, NotAllowedException |-> 405,
     NotAcceptableException |-> 406, NotSupportedException |-> 415]

WebApplicationException == DOMAIN StatusCarried

\* What Jersey throws when no resource method takes the path, the method, or the
\* media types of a request.
RoutingException ==
    {"NotFoundException", "NotAllowedException", "NotAcceptableException",
     "NotSupportedException"}

ValidationException == {"ConstraintViolationException", "ConstraintDeclarationException"}

\* What only Throwable is a mapped superclass of.
Unexpected ==
    {"DataIntegrityViolationException", "JpaObjectRetrievalFailureException",
     "ObjectOptimisticLockingFailureException", "RuntimeException"}

Mappable == WebApplicationException \cup ValidationException \cup Unexpected

\* A ValidationExceptionMapper of Jersey's own is registered for the same class;
\* the rank of JerseyConfig puts the one of the project before it.
Mapper(e) ==
    IF e \in WebApplicationException  THEN "WebApplicationExceptionMapper"
    ELSE IF e \in ValidationException THEN "ValidationExceptionMapper"
    ELSE "AllExceptionMapper"

-----------------------------------------------------------------------------
\* A response: its status, and how many values each CORS header has so far.
Fresh(status) == [status |-> status, cors |-> 0]

\* Variant: the branches of the ValidationExceptionMapper are swapped.
ToResponseSwapped(e) ==
    IF Mapper(e) = "WebApplicationExceptionMapper" THEN Fresh(StatusCarried[e])
    ELSE IF Mapper(e) = "ValidationExceptionMapper" /\ e # "ConstraintViolationException"
         THEN Fresh(400)
    ELSE INTERNAL_SERVER_ERROR

\* toResponse of the mapper.
ToResponse(e) ==
    IF Mapper(e) = "WebApplicationExceptionMapper" THEN Fresh(StatusCarried[e])
    ELSE IF Mapper(e) = "ValidationExceptionMapper" /\ e = "ConstraintViolationException"
         THEN Fresh(400)
    ELSE INTERNAL_SERVER_ERROR

\* The exceptions that become the one object.
Internal == {e \in Mappable : ToResponse(e) = INTERNAL_SERVER_ERROR}

\* Outcomes of the filter chain: a refusal, and what a filter throws.
Refused == {"forbidden", "filterFailed"}

\* The status that tells a client of an outcome.  A resource method without a
\* value to return (deleteAccount is one) has its outcome "returnedNothing".
StatusOf(outcome) ==
    IF outcome = "returned"                          THEN 200
    ELSE IF outcome = "returnedNothing"              THEN 204
    ELSE IF outcome \in Refused                      THEN 403
    ELSE IF outcome \in WebApplicationException      THEN StatusCarried[outcome]
    ELSE IF outcome = "ConstraintViolationException" THEN 400
    ELSE 500

Status == {200, 204, 400, 401, 403, 404, 405, 406, 409, 415, 500}
=============================================================================

\* Three requests over a pool of two threads, each with any outcome.
SPECIFICATION Spec
CONSTANTS
    Request = {r1, r2, r3}
    Thread = {t1, t2}
    Thrown = {"ConflictException", "RuntimeException"}
    NoRequest = NoRequest
    INTERNAL_SERVER_ERROR = INTERNAL_SERVER_ERROR
    MaxClock = 1
SYMMETRY Symmetry
INVARIANTS
    AnswersOwnOutcome
    OnlyServerErrorsRepeatHeaders
    TimeIsOwn
    PipelineInv
PROPERTIES
    AnswersSpec

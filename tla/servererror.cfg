\* Two requests over a pool of one thread.
SPECIFICATION Spec
CONSTANTS
    Request = {r1, r2}
    Thread = {t1}
    Thrown = {"RuntimeException"}
    NoRequest = NoRequest
    INTERNAL_SERVER_ERROR = INTERNAL_SERVER_ERROR
    MaxClock = 0
INVARIANT UnexpectedIsServerError

--------------------------- MODULE RequestAnswers ----------------------------
(***************************************************************************)
(* What the server promises the clients of RequestPipeline, whatever its   *)
(* threads share: of the requests it serves at a time there are as many as *)
(* the pool has threads; what becomes of a request is settled once; and    *)
(* then it is answered, once, with the status of that, or, when other      *)
(* requests have failed unexpectedly as it did, with an empty success.     *)
(***************************************************************************)
EXTENDS Naturals, FiniteSets

CONSTANTS
    Request,
    PoolSize,
    Outcome,      \* what the filters, the mappers or a resource may settle
    Internal,     \* the outcomes that share one response
    StatusOf(_)

VARIABLES phase, outcome, status

promiseVars == <<phase, outcome, status>>

-----------------------------------------------------------------------------
Serving == {r \in Request : phase[r] \in {"served", "answered"}}

Accept(r) ==
    /\ phase[r] = "waiting"
    /\ Cardinality(Serving) < PoolSize
    /\ phase' = [phase EXCEPT ![r] = "served"]
    /\ UNCHANGED <<outcome, status>>

Settle(r, what) ==
    /\ phase[r] = "served" /\ outcome[r] = "pending"
    /\ outcome' = [outcome EXCEPT ![r] = what]
    /\ UNCHANGED <<phase, status>>

Answer(r) ==
    /\ phase[r] = "served" /\ outcome[r] # "pending"
    /\ phase' = [phase EXCEPT ![r] = "answered"]
    /\ status' = [status EXCEPT ![r] = StatusOf(outcome[r])]
    /\ UNCHANGED outcome

AnswerNothing(r) ==
    /\ phase[r] = "served" /\ outcome[r] \in Internal
    /\ \E q \in Request \ {r} : outcome[q] \in Internal
    /\ phase' = [phase EXCEPT ![r] = "answered"]
    /\ status' = [status EXCEPT ![r] = 200]
    /\ UNCHANGED outcome

Release(r) ==
    /\ phase[r] = "answered"
    /\ phase' = [phase EXCEPT ![r] = "done"]
    /\ UNCHANGED <<outcome, status>>

-----------------------------------------------------------------------------
Init ==
    /\ phase = [r \in Request |-> "waiting"]
    /\ outcome = [r \in Request |-> "pending"]
    /\ status = [r \in Request |-> 0]

Next ==
    \E r \in Request :
        \/ Accept(r) \/ Answer(r) \/ AnswerNothing(r) \/ Release(r)
        \/ \E what \in Outcome : Settle(r, what)

Spec == Init /\ [][Next]_promiseVars
=============================================================================

-------------------------- MODULE AccountResponses --------------------------
(***************************************************************************)
(* AccountService behind the exception mappers: the statuses with which    *)
(* the clients of AccountApi are answered.                                 *)
(***************************************************************************)
EXTENDS AccountService

Mappers == INSTANCE ErrorResponses WITH INTERNAL_SERVER_ERROR <- "INTERNAL_SERVER_ERROR"

\* deleteAccount returns nothing.
StatusOfCall(c) ==
    Mappers!StatusOf(IF request[c] \in DeleteRequest /\ answer[c].outcome = "returned"
                     THEN "returnedNothing" ELSE answer[c].outcome)

IsAnswered(c) == answer[c].outcome \notin {"pending", "lost"}

-----------------------------------------------------------------------------
\* The client is told of an internal error only when it lost a race against the
\* deletion of an existing account that it had in hand: its own, which it was
\* deleting, or the one that was found under the login it asked for.  No race
\* between creations ends in a 500, and that account never fails anyone again.
ServerErrorIsLostRace ==
    \A c \in Call :
        IsAnswered(c) /\ StatusOfCall(c) = 500 =>
            /\ request[c] \in CreateRequest \cup DeleteRequest
            /\ entity[c].id \in persisted \ accounts
=============================================================================

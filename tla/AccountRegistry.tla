-------------------------- MODULE AccountRegistry ---------------------------
(***************************************************************************)
(* What the account operations promise: a registry of logins in which      *)
(* every request takes effect in one step, the step that answers it.       *)
(*                                                                         *)
(*   - a login is linked to at most one account, under an id that was      *)
(*     never used before and is never used again;                          *)
(*   - a request that is answered with an exception changed nothing, and   *)
(*     a request that returns took its whole effect;                       *)
(*   - a creation is refused as a conflict only for a login that is linked *)
(*     at that moment, or a value that cannot be stored, and fails         *)
(*     otherwise only once an account was deleted;                         *)
(*   - once a deletion is answered, whatever the answer, the account of    *)
(*     its principal is gone.                                              *)
(***************************************************************************)
EXTENDS AccountApi

VARIABLES
    links,    \* the logins in use, each with its account
    retired,  \* ids that were linked and are not linked any more
    request,
    answer

registryVars == <<links, retired, request, answer>>

Link == [login : Login, account : AccountId]

IsTaken(login) == \E link \in links : link.login = login

Ids == {link.account : link \in links}

Asked(c) == request[c] # NoRequest /\ answer[c].outcome = "pending"

Reply(c, ans) == answer' = [answer EXCEPT ![c] = ans]

-----------------------------------------------------------------------------
Ask(c, req) ==
    /\ request[c] = NoRequest
    /\ request' = [request EXCEPT ![c] = req]
    /\ UNCHANGED <<links, retired, answer>>

Create(c) ==
    /\ Asked(c)
    /\ request[c] \in CreateRequest
    /\ ~IsTaken(LoginOf(request[c]))
    /\ \E id \in AccountId \ (Ids \cup retired) :
          /\ links' = links \cup {[login |-> LoginOf(request[c]), account |-> id]}
          /\ Reply(c, Returned({id}))
    /\ UNCHANGED <<retired, request>>

Refuse(c) ==
    /\ Asked(c)
    /\ request[c] \in CreateRequest
    /\ IsTaken(LoginOf(request[c])) \/ TooLong(request[c])
    /\ \E e \in {"ConflictException", "DataIntegrityViolationException"} :
          Reply(c, Without(e))
    /\ UNCHANGED <<links, retired, request>>

\* The account that was found under the login is gone by now.
Fail(c) ==
    /\ Asked(c)
    /\ request[c] \in CreateRequest
    /\ retired # {}
    /\ Reply(c, Without("JpaObjectRetrievalFailureException"))
    /\ UNCHANGED <<links, retired, request>>

Inform(c) ==
    /\ Asked(c)
    /\ request[c] \in InfoRequest
    /\ request[c].principal \in Ids
    /\ Reply(c, Returned({request[c].principal}))
    /\ UNCHANGED <<links, retired, request>>

Delete(c) ==
    /\ Asked(c)
    /\ request[c] \in DeleteRequest
    /\ request[c].principal \in Ids \cup retired
    /\ links' = {link \in links : link.account # request[c].principal}
    /\ retired' = retired \cup (Ids \cap {request[c].principal})
    /\ Reply(c, Returned({}))
    /\ UNCHANGED request

\* The principal has no account, and will have none: both operations may say
\* so, and a deletion may also have lost a race.
Miss(c) ==
    /\ Asked(c)
    /\ request[c] \in InfoRequest \cup DeleteRequest
    /\ request[c].principal \in retired \cup MalformedPrincipal
    /\ \E e \in {"NotAuthorizedException", "NotFoundException",
                 "ObjectOptimisticLockingFailureException"} :
          Reply(c, Without(e))
    /\ UNCHANGED <<links, retired, request>>

List(c) ==
    /\ Asked(c)
    /\ request[c] \in ListRequest
    /\ Reply(c, Returned(Ids))
    /\ UNCHANGED <<links, retired, request>>

\* The server restarts: the registry starts empty, nothing is answered any
\* more to whoever was waiting.
Reset ==
    /\ links' = {}
    /\ retired' = retired \cup Ids
    /\ answer' = [c \in Call |-> IF Asked(c) THEN Without("lost") ELSE answer[c]]
    /\ UNCHANGED request

-----------------------------------------------------------------------------
Init ==
    /\ links = {}
    /\ retired = {}
    /\ request = [c \in Call |-> NoRequest]
    /\ answer = [c \in Call |-> Without("pending")]

Act(c) ==
    \/ Create(c) \/ Refuse(c) \/ Fail(c) \/ Inform(c) \/ Delete(c) \/ Miss(c) \/ List(c)

Next ==
    \/ \E c \in Call : (\E req \in Request : Ask(c, req)) \/ Act(c)
    \/ Reset

Spec == Init /\ [][Next]_registryVars

-----------------------------------------------------------------------------
(***************************************************************************)
(* What follows for those who rely on the registry.                        *)
(***************************************************************************)
TypeOK ==
    /\ links \subseteq Link
    /\ retired \subseteq AccountId
    /\ request \in [Call -> Request \cup {NoRequest}]
    /\ answer \in [Call -> Answer]
    /\ \A c \in Call : request[c] = NoRequest => answer[c].outcome = "pending"

\* A login has one account and an account one login; no id is used again; and
\* the account of an answered deletion is gone for good, with whatever answer,
\* through later creations of the same login and restarts.
Sound ==
    /\ TypeOK
    /\ \A l, m \in links : l.login = m.login \/ l.account = m.account => l = m
    /\ Ids \cap retired = {}
    /\ \A c \in Call :
          request[c] \in DeleteRequest /\ answer[c].outcome \notin {"pending", "lost"}
          => request[c].principal \in retired \cup MalformedPrincipal
=============================================================================

--------------------------- MODULE AccountService ---------------------------
(***************************************************************************)
(* AccountService, and the operations of AccountApi that call it, on       *)
(* request threads that run concurrently over the tables of AccountStore.  *)
(*                                                                         *)
(* A call is one HTTP request that reached its resource method.  Its       *)
(* thread works on local objects and on the database; an action is one     *)
(* repository call with the local work that follows it, since only the     *)
(* database is shared.  pc names the repository call a thread makes next.  *)
(* The lookup of a login is two actions: it is two SELECTs, and the        *)
(* database reads what is committed by the time of each (READ COMMITTED).  *)
(***************************************************************************)
EXTENDS AccountStore, Naturals

CONSTANTS
    Woven,        \* AspectJ weaves @Transactional into the service and the API
    MaxRestarts   \* bound on the restarts of the server

ASSUME WovenAssumption == Woven \in BOOLEAN
ASSUME MaxRestartsAssumption == MaxRestarts \in Nat

VARIABLES
    pc,
    request,    \* the parameters of the resource method
    entity,     \* the Account object the thread holds
    answer,     \* what the resource method returned or threw
    persisted,  \* ids whose rows were ever committed
    restarts

callVars == <<pc, request, entity, answer>>
vars == <<storeVars, callVars, persisted, restarts>>

-----------------------------------------------------------------------------
NoAccount == [id |-> NotUUID, credentials |-> {}]

\* An account whose list of credentials, which is lazy, is not read.
AccountOf(id) == [id |-> id, credentials |-> {}]

FirstStep ==
    [createEmailAccount        |-> "findByEmail",
     createAccountForIOSDevice |-> "findAllByVendorId",
     getAccountInfo            |-> "findById",
     deleteAccount             |-> "findById",
     getAccounts               |-> "findAll"]

RunningPC ==
    {"findByEmail", "findAllByVendorId", "loadAccount", "save", "findById",
     "merge", "remove", "insertAndRemove", "findAll"}

Running(c) == pc[c] \in RunningPC

Goto(c, step) == pc' = [pc EXCEPT ![c] = step]

Reply(c, ans) ==
    /\ answer' = [answer EXCEPT ![c] = ans]
    /\ Goto(c, "done")

\* UUID.randomUUID() returns a value no entity ever had: collisions are
\* assumed away.
UsedIds == persisted \cup {entity[c].id : c \in Call}

\* Variant: ids are only kept apart from those of the existing accounts.
UnusedIds == AccountId \ accounts

FreshIds == AccountId \ UsedIds

-----------------------------------------------------------------------------
(***************************************************************************)
(* Requests arrive.  What this module assumes of its clients: a principal  *)
(* names an account that was committed, possibly deleted since, or it is   *)
(* missing or malformed, which the service checks itself.                  *)
(***************************************************************************)
KnownPrincipal(req) ==
    req \in InfoRequest \cup DeleteRequest =>
        req.principal \in persisted \cup MalformedPrincipal

Arrive(c, req) ==
    /\ pc[c] = "idle"
    /\ request' = [request EXCEPT ![c] = req]
    /\ Goto(c, FirstStep[req.op])
    /\ UNCHANGED <<storeVars, entity, answer, persisted, restarts>>

-----------------------------------------------------------------------------
(***************************************************************************)
(* Creating an account                                                     *)
(***************************************************************************)
AccountForEmail(id, req) ==
    [id |-> id,
     credentials |-> {CredentialPassword(id, req.email, req.password)}]

AccountForIOSDevice(id, req) ==
    [id |-> id,
     credentials |-> {CredentialIOSDevice(id, req.vendorId, req.deviceName)}]

\* createAccountForEmailInternal up to the save, or up to a row for the email,
\* which names the account to fetch.
FindByEmail(c) ==
    /\ pc[c] = "findByEmail"
    /\ \/ /\ \E row \in FindByLogin(LoginOf(request[c])) :
                entity' = [entity EXCEPT ![c] = AccountOf(row.account)]
          /\ Goto(c, "loadAccount")
       \/ /\ ~Linked(LoginOf(request[c]))
          /\ \E id \in FreshIds :
                entity' = [entity EXCEPT ![c] = AccountForEmail(id, request[c])]
          /\ Goto(c, "save")
    /\ UNCHANGED <<storeVars, request, answer, persisted, restarts>>

\* createAccountForIOSDeviceInternal, likewise.
FindAllByVendorId(c) ==
    /\ pc[c] = "findAllByVendorId"
    /\ \/ /\ \E row \in FindByLogin(LoginOf(request[c])) :
                entity' = [entity EXCEPT ![c] = AccountOf(row.account)]
          /\ Goto(c, "loadAccount")
       \/ /\ ~Linked(LoginOf(request[c]))
          /\ \E id \in FreshIds :
                entity' = [entity EXCEPT ![c] = AccountForIOSDevice(id, request[c])]
          /\ Goto(c, "save")
    /\ UNCHANGED <<storeVars, request, answer, persisted, restarts>>

\* The second SELECT of either lookup.  An account that was deleted since the
\* first makes Hibernate throw, and the catch clause is for another exception;
\* a complete credential is the conflict.
LoadAccount(c) ==
    /\ pc[c] = "loadAccount"
    /\ \/ /\ entity[c].id \in accounts
          /\ Reply(c, Without("ConflictException"))
       \/ /\ entity[c].id \notin accounts
          /\ Reply(c, Without("JpaObjectRetrievalFailureException"))
    /\ UNCHANGED <<storeVars, request, entity, persisted, restarts>>

\* Variant: the catch clause is missing.
RefusedInsertUncaught(req) == "DataIntegrityViolationException"

\* What the API method throws when the flush is refused.  Without weaving the
\* flush happens inside accountRepository.save, and the catch clause of
\* createAccountForEmail or createAccountForIOSDevice turns the exception into
\* a ConflictException.  With weaving the transaction of createEmailAccount
\* spans the service call: its flush comes after the catch clause is left.
RefusedInsert(req) ==
    IF Woven /\ req.op = "createEmailAccount"
    THEN "DataIntegrityViolationException"
    ELSE "ConflictException"

\* accountRepository.save(account), to the commit of its INSERTs.  The id is
\* set before the save, so Spring Data merges: it selects, finds no row, and
\* inserts the account and its credential.
Save(c) ==
    /\ pc[c] = "save"
    /\ \/ /\ ViolatesIntegrity(entity[c])
          /\ Reply(c, Without(RefusedInsert(request[c])))
          /\ UNCHANGED <<storeVars, persisted>>
       \/ /\ ~ViolatesIntegrity(entity[c])
          /\ InsertAccount(entity[c])
          /\ persisted' = persisted \cup {entity[c].id}
          /\ Reply(c, Returned({entity[c].id}))
    /\ UNCHANGED <<request, entity, restarts>>

-----------------------------------------------------------------------------
(***************************************************************************)
(* Reading and deleting the caller's account                               *)
(***************************************************************************)

\* getAccountOfSecurityContext: what it throws when it returns no account.
\* AccountRepository.findById answers null for a name that is not a UUID.
NoAccountFor(principal) ==
    IF principal \in {NoPrincipal, BlankName}
    THEN "NotAuthorizedException"
    ELSE "NotFoundException"

\* Variant: the account that was not found is not checked for null.
FindByIdUnchecked(c) ==
    LET principal == request[c].principal IN
    /\ pc[c] = "findById"
    /\ entity' = [entity EXCEPT ![c] = AccountOf(principal)]
    /\ IF request[c].op = "getAccountInfo"
       THEN Reply(c, Returned({principal}))
       ELSE Goto(c, "merge") /\ UNCHANGED answer
    /\ UNCHANGED <<storeVars, request, persisted, restarts>>

\* getAccountInfo ends here; deleteAccount goes on with the account in hand,
\* which is detached: the transaction that read it is over.
FindById(c) ==
    LET principal == request[c].principal IN
    /\ pc[c] = "findById"
    /\ \/ /\ principal \notin accounts
          /\ Reply(c, Without(NoAccountFor(principal)))
          /\ UNCHANGED entity
       \/ /\ principal \in accounts
          /\ entity' = [entity EXCEPT ![c] = AccountOf(principal)]
          /\ IF request[c].op = "getAccountInfo"
             THEN Reply(c, Returned({principal}))
             ELSE Goto(c, "merge") /\ UNCHANGED answer
    /\ UNCHANGED <<storeVars, request, persisted, restarts>>

\* accountRepository.delete(account) merges the detached account first: one
\* SELECT of the account with its credentials.  When the row is gone, merge
\* takes the object for a new one and schedules its INSERT.
Merge(c) ==
    LET id == entity[c].id IN
    /\ pc[c] = "merge"
    /\ entity' = [entity EXCEPT ![c].credentials = CredentialsOf(id)]
    /\ Goto(c, IF id \in accounts THEN "remove" ELSE "insertAndRemove")
    /\ UNCHANGED <<storeVars, request, answer, persisted, restarts>>

\* The flush and commit of the DELETEs.  A row another transaction deleted
\* since the merge makes Hibernate roll back.
Remove(c) ==
    /\ pc[c] = "remove"
    /\ \/ /\ RowsToDelete(entity[c])
          /\ DeleteAccount(entity[c])
          /\ Reply(c, Returned({}))
       \/ /\ ~RowsToDelete(entity[c])
          /\ Reply(c, Without("ObjectOptimisticLockingFailureException"))
          /\ UNCHANGED storeVars
    /\ UNCHANGED <<request, entity, persisted, restarts>>

\* Variants: the copy that merge made is inserted and not removed; a deletion
\* that finds no row is tried again.
InsertMergedCopy(c) ==
    /\ pc[c] = "insertAndRemove"
    /\ InsertAccount(entity[c])
    /\ Reply(c, Returned({}))
    /\ UNCHANGED <<request, entity, persisted, restarts>>

RetryMerge(c) ==
    /\ pc[c] = "insertAndRemove"
    /\ Goto(c, "merge")
    /\ UNCHANGED <<storeVars, request, entity, answer, persisted, restarts>>

\* The flush and commit of the INSERT of the merged copy and of its DELETE.
InsertAndRemove(c) ==
    /\ pc[c] = "insertAndRemove"
    /\ Reply(c, Returned({}))
    /\ UNCHANGED <<storeVars, request, entity, persisted, restarts>>

\* getAccounts
FindAll(c) ==
    /\ pc[c] = "findAll"
    /\ Reply(c, Returned(accounts))
    /\ UNCHANGED <<storeVars, request, entity, persisted, restarts>>

-----------------------------------------------------------------------------
Step(c) ==
    \/ FindByEmail(c)
    \/ FindAllByVendorId(c)
    \/ LoadAccount(c)
    \/ Save(c)
    \/ FindById(c)
    \/ Merge(c)
    \/ Remove(c)
    \/ InsertAndRemove(c)
    \/ FindAll(c)

\* The process stops, with whatever its threads were doing, and starts again:
\* open transactions roll back and the schema is created anew.
Restart ==
    /\ restarts < MaxRestarts
    /\ restarts' = restarts + 1
    /\ CreateDrop
    /\ pc' = [c \in Call |-> IF Running(c) THEN "done" ELSE pc[c]]
    /\ answer' = [c \in Call |-> IF Running(c) THEN Without("lost") ELSE answer[c]]
    /\ UNCHANGED <<request, entity, persisted>>

\* The bounded set of requests is used up: not a state of the server, which
\* goes on waiting for requests.
NoMoreRequests ==
    /\ \A c \in Call : pc[c] = "done"
    /\ UNCHANGED vars

Init ==
    /\ StoreInit
    /\ pc = [c \in Call |-> "idle"]
    /\ request = [c \in Call |-> NoRequest]
    /\ entity = [c \in Call |-> NoAccount]
    /\ answer = [c \in Call |-> Without("pending")]
    /\ persisted = {}
    /\ restarts = 0

Next ==
    \/ \E c \in Call, req \in Request : KnownPrincipal(req) /\ Arrive(c, req)
    \/ \E c \in Call : Step(c)
    \/ Restart
    \/ NoMoreRequests

Spec == Init /\ [][Next]_vars

\* A thread with a request to serve is scheduled, and the database answers.
FairSpec == Spec /\ \A c \in Call : WF_vars(Step(c))

-----------------------------------------------------------------------------
(***************************************************************************)
(* Properties                                                              *)
(***************************************************************************)

PC == RunningPC \cup {"idle", "done"}

Entity == [id : AccountId \cup {NotUUID}, credentials : SUBSET Credential]

\* Tables hold entities, requests and answers are those of AccountApi, and a
\* thread stands before one of the repository calls.
TypeOK ==
    /\ StoreTypeOK
    /\ pc \in [Call -> PC]
    /\ request \in [Call -> Request \cup {NoRequest}]
    /\ entity \in [Call -> Entity]
    /\ answer \in [Call -> Answer]
    /\ persisted \subseteq AccountId
    /\ restarts \in 0..MaxRestarts

\* No email and no vendor id is ever linked to two accounts, however the
\* lookups and the saves of concurrent requests interleave.
UniqueLogin ==
    \A r1, r2 \in credentials : r1.login = r2.login => r1 = r2

\* The account table and the credential tables agree: every credential has
\* its account and every account has exactly one credential, across the
\* cascades of save and delete, races between deletions, and restarts.
AccountsLinked ==
    /\ \A r \in credentials : r.account \in accounts
    /\ \A id \in accounts : \E r \in credentials : CredentialsOf(id) = {r}

\* Whatever a deletion answered (it worked, it found nothing, it lost a race
\* against another deletion), the account of its principal is gone, for good.
AnsweredDeleteMeansGone ==
    \A c \in Call :
        /\ request[c] \in DeleteRequest
        /\ answer[c].outcome \notin {"pending", "lost"}
        => request[c].principal \notin accounts

Answers(c, outcome) ==
    answer[c].outcome = "pending" /\ answer'[c].outcome = outcome

\* The contract in the comments of createAccountForEmail and
\* createAccountForIOSDevice: a ConflictException tells that the email or the
\* vendor id is linked to an account at that moment.
ConflictMeansLinked ==
    [][\A c \in Call :
          Answers(c, "ConflictException") =>
              \E r \in credentials : r.login = LoginOf(request[c])]_vars

\* An account disappears only by a deletion its own principal asked for, or
\* by the restart of the server.
OnlyOwnDeleteRemoves ==
    [][\A id \in accounts \ accounts' :
          \/ restarts' # restarts
          \/ \E c \in Call :
                /\ request[c] \in DeleteRequest
                /\ request[c].principal = id
                /\ Answers(c, "returned")]_vars

\* Every request is answered, or lost to a restart.
EveryCallAnswered ==
    \A c \in Call : Running(c) ~> ~Running(c)

\* The operations are atomic: each has its whole effect, or none, in the step
\* that answers it, as AccountRegistry states.
Registry == INSTANCE AccountRegistry WITH
    links   <- {[login |-> r.login, account |-> r.account] : r \in credentials},
    retired <- persisted \ accounts

RegistrySpec == Registry!Spec

\* So what follows from AccountRegistry holds of the service, woven or not: one
\* account to a login and one login to an account, and an answered deletion is
\* final.
RegistrySound == Registry!Sound

-----------------------------------------------------------------------------
(***************************************************************************)
(* The inductive invariant behind these properties: what a thread knows    *)
(* from its earlier repository calls that still holds at its next one.     *)
(***************************************************************************)

\* A thread's pc fits the operation it serves, and it has not answered.
ControlInv ==
    \A c \in Call :
        /\ pc[c] = "idle" <=> request[c] = NoRequest
        /\ pc[c] = "findByEmail" => request[c] \in EmailRequest
        /\ pc[c] = "findAllByVendorId" => request[c] \in IOSDeviceRequest
        /\ pc[c] = "loadAccount" => request[c] \in CreateRequest /\ entity[c].id \in persisted
        /\ pc[c] = "save" => request[c] \in CreateRequest
        /\ pc[c] = "findById" => request[c] \in InfoRequest \cup DeleteRequest
        /\ pc[c] \in {"merge", "remove", "insertAndRemove"} =>
               /\ request[c] \in DeleteRequest
               /\ entity[c].id = request[c].principal
               /\ entity[c].id \in persisted
        /\ pc[c] = "findAll" => request[c] \in ListRequest
        /\ pc[c] = "done" <=> answer[c].outcome # "pending"

\* Principals name accounts that were committed, or no account at all.
PrincipalInv ==
    \A c \in Call : request[c] \in InfoRequest \cup DeleteRequest =>
        request[c].principal \in persisted \cup MalformedPrincipal

\* Credentials link one account each, and every account has its credential.
LinkInv ==
    /\ accounts \subseteq persisted
    /\ \A r \in credentials : r.account \in accounts
    /\ \A r1, r2 \in credentials : r1.account = r2.account => r1 = r2
    /\ \A id \in accounts : \E r \in credentials : r.account = id

\* What a credential of the login that a creation asked for stores.
RowFor(req, row) ==
    /\ row.login = LoginOf(req)
    /\ row.login.kind = "vendorId" =>
          req \in IOSDeviceRequest /\ row.detail = req.deviceName

\* While the account that a lookup found exists, it is the account of the login.
LoadInv ==
    \A c \in Call : pc[c] = "loadAccount" =>
        \A r \in CredentialsOf(entity[c].id) : r.login = LoginOf(request[c])

\* An account about to be saved has an id nobody else knows, and one
\* credential, the one the request asked for.
SaveInv ==
    \A c \in Call : pc[c] = "save" =>
        /\ entity[c].id \in AccountId \ persisted
        /\ \A d \in Call \ {c} : entity[d].id # entity[c].id
        /\ \E r \in Credential :
              /\ entity[c].credentials = {r}
              /\ r.account = entity[c].id
              /\ RowFor(request[c], r)

\* A merged account still covers every credential of its account, of which
\* there is one: nothing is added to an account after its creation, and
\* nothing comes back.
MergeInv ==
    \A c \in Call :
        /\ pc[c] = "remove" =>
               /\ CredentialsOf(entity[c].id) \subseteq entity[c].credentials
               /\ \A r1, r2 \in entity[c].credentials : r1 = r2
        /\ pc[c] = "insertAndRemove" => entity[c].id \notin accounts

\* Together they hold in every reachable state and each step preserves them.
IInv ==
    /\ TypeOK
    /\ ControlInv
    /\ PrincipalInv
    /\ LinkInv
    /\ LoadInv
    /\ SaveInv
    /\ MergeInv
    /\ UniqueLogin
    /\ AnsweredDeleteMeansGone
=============================================================================

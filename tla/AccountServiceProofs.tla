------------------------ MODULE AccountServiceProofs ------------------------
(***************************************************************************)
(* Proofs about AccountService, for every number of requests, accounts,    *)
(* names and restarts, with @Transactional woven or not.                   *)
(***************************************************************************)
EXTENDS AccountResponses, TLAPS

USE DEF Outcome, Exception

-----------------------------------------------------------------------------
(***************************************************************************)
(* The values the actions build                                            *)
(***************************************************************************)

\* What a call is answered with is an answer.
LEMMA AnswerType ==
    /\ \A ids \in SUBSET AccountId : Returned(ids) \in Answer
    /\ \A outcome \in Outcome : Without(outcome) \in Answer
BY DEF Answer, Returned, Without

\* An account made for an email has one credential, for that email.
LEMMA EmailAccount ==
    ASSUME NEW id \in AccountId, NEW req \in EmailRequest
    PROVE  /\ AccountForEmail(id, req) \in Entity
           /\ AccountForEmail(id, req).id = id
           /\ \E r \in Credential :
                 /\ AccountForEmail(id, req).credentials = {r}
                 /\ r.account = id
                 /\ RowFor(req, r)
<1> DEFINE row == CredentialPassword(id, req.email, req.password)
<1>1. req.op = "createEmailAccount" /\ req.email \in Name /\ req.password \in Password
  BY DEF EmailRequest
<1>2. EmailLogin(req.email) \in Login
  BY <1>1 DEF EmailLogin, Login
<1>3. Hash(req.password) \in {Hash(p) : p \in Password} \cup DeviceName
  BY <1>1
<1>4. row \in Credential /\ row.account = id /\ RowFor(req, row)
  BY <1>1, <1>2, <1>3 DEF CredentialPassword, Credential, LoginOf, RowFor, EmailLogin
<1>5. QED
  BY <1>4 DEF AccountForEmail, Entity

\* An account made for a device has one credential, for its vendor id.
LEMMA IOSDeviceAccount ==
    ASSUME NEW id \in AccountId, NEW req \in IOSDeviceRequest
    PROVE  /\ AccountForIOSDevice(id, req) \in Entity
           /\ AccountForIOSDevice(id, req).id = id
           /\ \E r \in Credential :
                 /\ AccountForIOSDevice(id, req).credentials = {r}
                 /\ r.account = id
                 /\ RowFor(req, r)
<1> DEFINE row == CredentialIOSDevice(id, req.vendorId, req.deviceName)
<1>1. /\ req.op = "createAccountForIOSDevice"
      /\ req.vendorId \in Name
      /\ req.deviceName \in DeviceName
  BY DEF IOSDeviceRequest
<1>2. VendorIdLogin(req.vendorId) \in Login
  BY <1>1 DEF VendorIdLogin, Login
<1>3. row \in Credential /\ row.account = id /\ RowFor(req, row)
  BY <1>1, <1>2 DEF CredentialIOSDevice, Credential, LoginOf, RowFor
<1>4. QED
  BY <1>3 DEF AccountForIOSDevice, Entity

-----------------------------------------------------------------------------
(***************************************************************************)
(* The inductive invariant holds initially                                 *)
(***************************************************************************)
LEMMA InitIInv == Init => IInv
<1> SUFFICES ASSUME Init PROVE IInv
  OBVIOUS
<1> USE DEF Init, StoreInit
<1>1. TypeOK
  <2>1. NoAccount \in Entity
    BY DEF NoAccount, Entity
  <2>2. restarts \in 0..MaxRestarts
    BY MaxRestartsAssumption
  <2>3. QED
    BY <2>1, <2>2, AnswerType DEF TypeOK, StoreTypeOK, PC
<1>2. ControlInv
  BY DEF ControlInv, NoRequest, Without
<1>3. PrincipalInv
  BY DEF PrincipalInv, InfoRequest, DeleteRequest, NoRequest
<1>4. LinkInv /\ LoadInv /\ SaveInv /\ MergeInv /\ UniqueLogin
  BY DEF LinkInv, LoadInv, SaveInv, MergeInv, UniqueLogin
<1>5. AnsweredDeleteMeansGone
  BY DEF AnsweredDeleteMeansGone
<1>6. QED
  BY <1>1, <1>2, <1>3, <1>4, <1>5 DEF IInv

-----------------------------------------------------------------------------
(***************************************************************************)
(* Each step preserves the inductive invariant                             *)
(***************************************************************************)

\* A thread that only answers: right for a deletion whose account is gone, and
\* for every other operation.
LEMMA OnlyReply ==
    ASSUME IInv, NEW c \in Call, Running(c),
           NEW ans \in Answer, ans.outcome # "pending",
           request[c] \in DeleteRequest => request[c].principal \notin accounts,
           Reply(c, ans),
           UNCHANGED <<storeVars, request, entity, persisted, restarts>>
    PROVE  IInv'
<1> USE DEF IInv, Reply, Goto, storeVars
<1>1. TypeOK'
  BY DEF TypeOK, StoreTypeOK, PC
<1>2. ControlInv'
  BY DEF ControlInv, TypeOK, Running, RunningPC
<1>3. PrincipalInv'
  BY DEF PrincipalInv
<1>4. LinkInv'
  BY DEF LinkInv
<1>5. SaveInv' /\ LoadInv'
  BY DEF SaveInv, LoadInv, TypeOK, CredentialsOf
<1>6. MergeInv'
  BY DEF MergeInv, TypeOK, CredentialsOf
<1>7. UniqueLogin'
  BY DEF UniqueLogin
<1>8. AnsweredDeleteMeansGone'
  BY DEF AnsweredDeleteMeansGone, TypeOK
<1>9. QED
  BY <1>1, <1>2, <1>3, <1>4, <1>5, <1>6, <1>7, <1>8

\* A request arrives.
LEMMA ArriveStep ==
    ASSUME IInv, NEW c \in Call, NEW req \in Request, KnownPrincipal(req), Arrive(c, req)
    PROVE  IInv'
<1> USE DEF IInv, Arrive, Goto, storeVars
<1>1. TypeOK'
  <2>1. FirstStep[req.op] \in PC
    BY DEF Request, CreateRequest, EmailRequest, IOSDeviceRequest, InfoRequest,
           DeleteRequest, ListRequest, FirstStep, PC, RunningPC
  <2>2. QED
    BY <2>1 DEF TypeOK, StoreTypeOK
<1>2. ControlInv'
  <2>1. req # NoRequest
    BY DEF NoRequest, Request, CreateRequest, EmailRequest, IOSDeviceRequest,
           InfoRequest, DeleteRequest, ListRequest
  <2>2. /\ FirstStep[req.op] = "findByEmail" => req \in EmailRequest
        /\ FirstStep[req.op] = "findAllByVendorId" => req \in IOSDeviceRequest
        /\ FirstStep[req.op] = "findById" => req \in InfoRequest \cup DeleteRequest
        /\ FirstStep[req.op] = "findAll" => req \in ListRequest
        /\ FirstStep[req.op] \in {"findByEmail", "findAllByVendorId", "findById", "findAll"}
    BY DEF Request, CreateRequest, EmailRequest, IOSDeviceRequest, InfoRequest,
           DeleteRequest, ListRequest, FirstStep
  <2>3. QED
    BY <2>1, <2>2 DEF ControlInv, TypeOK
<1>3. PrincipalInv'
  BY DEF PrincipalInv, TypeOK, KnownPrincipal
<1>4. LinkInv' /\ UniqueLogin'
  BY DEF LinkInv, UniqueLogin
<1>5. SaveInv' /\ LoadInv' /\ MergeInv'
  <2>1. /\ FirstStep[req.op] # "save"
        /\ FirstStep[req.op] # "loadAccount"
        /\ FirstStep[req.op] # "remove"
        /\ FirstStep[req.op] # "insertAndRemove"
    BY DEF Request, CreateRequest, EmailRequest, IOSDeviceRequest, InfoRequest,
           DeleteRequest, ListRequest, FirstStep
  <2>2. SaveInv' /\ LoadInv'
    BY <2>1 DEF SaveInv, LoadInv, TypeOK, CredentialsOf
  <2>3. MergeInv'
    BY <2>1 DEF MergeInv, TypeOK, CredentialsOf
  <2>4. QED
    BY <2>2, <2>3
<1>6. AnsweredDeleteMeansGone'
  BY DEF AnsweredDeleteMeansGone, ControlInv, TypeOK
<1>7. QED
  BY <1>1, <1>2, <1>3, <1>4, <1>5, <1>6

\* A creation found its login free and has made an account under a fresh id.
LEMMA NewAccount ==
    ASSUME IInv, NEW c \in Call,
           pc[c] \in {"findByEmail", "findAllByVendorId"},
           NEW account \in Entity, account.id \in FreshIds,
           \E r \in Credential :
              /\ account.credentials = {r}
              /\ r.account = account.id
              /\ RowFor(request[c], r),
           entity' = [entity EXCEPT ![c] = account],
           Goto(c, "save"),
           UNCHANGED <<storeVars, request, answer, persisted, restarts>>
    PROVE  IInv'
<1> USE DEF IInv, Goto, storeVars
<1>1. TypeOK'
  BY DEF TypeOK, StoreTypeOK, PC, RunningPC
<1>2. ControlInv'
  BY DEF ControlInv, TypeOK, CreateRequest
<1>3. PrincipalInv' /\ LinkInv' /\ UniqueLogin' /\ AnsweredDeleteMeansGone'
  BY DEF PrincipalInv, LinkInv, UniqueLogin, AnsweredDeleteMeansGone
<1>4. SaveInv'
  BY DEF SaveInv, TypeOK, FreshIds, UsedIds
<1>5. MergeInv' /\ LoadInv'
  BY DEF MergeInv, LoadInv, TypeOK, CredentialsOf
<1>6. QED
  BY <1>1, <1>2, <1>3, <1>4, <1>5

\* A creation found a row for its login, which names an existing account.
LEMMA FoundAccount ==
    ASSUME IInv, NEW c \in Call,
           pc[c] \in {"findByEmail", "findAllByVendorId"},
           NEW row \in FindByLogin(LoginOf(request[c])),
           entity' = [entity EXCEPT ![c] = AccountOf(row.account)],
           Goto(c, "loadAccount"),
           UNCHANGED <<storeVars, request, answer, persisted, restarts>>
    PROVE  IInv'
<1> DEFINE account == AccountOf(row.account)
<1>1. row \in credentials /\ row.login = LoginOf(request[c])
  BY DEF FindByLogin
<1>2. row.account \in persisted /\ row.account \in AccountId
  BY <1>1 DEF IInv, LinkInv, TypeOK
<1>3. /\ account \in Entity
      /\ account.id = row.account
      /\ account.id \in persisted
      /\ \A r \in CredentialsOf(account.id) : r.login = LoginOf(request[c])
  BY <1>1, <1>2 DEF AccountOf, Entity, CredentialsOf, IInv, LinkInv
<1>4. /\ entity' = [entity EXCEPT ![c] = account]
      /\ pc' = [pc EXCEPT ![c] = "loadAccount"]
      /\ UNCHANGED <<accounts, credentials, request, answer, persisted, restarts>>
  BY DEF Goto, storeVars
<1> HIDE DEF account
<1>5. TypeOK'
  BY <1>3, <1>4 DEF IInv, TypeOK, StoreTypeOK, PC, RunningPC
<1>6. ControlInv'
  BY <1>3, <1>4 DEF IInv, ControlInv, TypeOK, CreateRequest
<1>7. PrincipalInv' /\ LinkInv' /\ UniqueLogin' /\ AnsweredDeleteMeansGone'
  BY <1>4 DEF IInv, PrincipalInv, LinkInv, UniqueLogin, AnsweredDeleteMeansGone
<1>8. SaveInv'
  <2> SUFFICES ASSUME NEW d \in Call, pc'[d] = "save"
               PROVE  /\ entity'[d].id \in AccountId \ persisted
                      /\ \A e \in Call \ {d} : entity'[e].id # entity'[d].id
                      /\ \E r \in Credential :
                            /\ entity'[d].credentials = {r}
                            /\ r.account = entity'[d].id
                            /\ RowFor(request[d], r)
    BY <1>4 DEF SaveInv
  <2>1. d # c /\ pc[d] = "save"
    BY <1>4 DEF IInv, TypeOK
  <2>2. entity'[d] = entity[d] /\ entity'[c].id \in persisted
    BY <1>3, <1>4, <2>1 DEF IInv, TypeOK
  <2>3. \A e \in Call \ {c} : entity'[e] = entity[e]
    BY <1>4 DEF IInv, TypeOK
  <2>4. QED
    BY <2>1, <2>2, <2>3 DEF IInv, SaveInv
<1>9. LoadInv' /\ MergeInv'
  BY <1>3, <1>4 DEF IInv, LoadInv, MergeInv, TypeOK, CredentialsOf
<1>10. QED
  BY <1>5, <1>6, <1>7, <1>8, <1>9 DEF IInv

\* The lookup that starts the creation of an email account.
LEMMA FindByEmailStep ==
    ASSUME IInv, NEW c \in Call, FindByEmail(c)
    PROVE  IInv'
<1>1. request[c] \in EmailRequest /\ request[c] \in CreateRequest
  BY DEF FindByEmail, IInv, ControlInv, CreateRequest
<1>2. ASSUME NEW row \in FindByLogin(LoginOf(request[c])),
             entity' = [entity EXCEPT ![c] = AccountOf(row.account)],
             Goto(c, "loadAccount")
      PROVE  IInv'
  BY <1>1, <1>2, FoundAccount DEF FindByEmail
<1>3. ASSUME NEW id \in FreshIds,
             entity' = [entity EXCEPT ![c] = AccountForEmail(id, request[c])],
             Goto(c, "save")
      PROVE  IInv'
  <2>1. id \in AccountId
    BY DEF FreshIds
  <2> DEFINE account == AccountForEmail(id, request[c])
  <2>2. /\ account \in Entity
        /\ account.id \in FreshIds
        /\ \E r \in Credential :
              /\ account.credentials = {r}
              /\ r.account = account.id
              /\ RowFor(request[c], r)
    BY <1>1, <2>1, EmailAccount
  <2> HIDE DEF account
  <2>3. QED
    BY <1>3, <2>2, NewAccount DEF FindByEmail, account
<1>4. QED
  BY <1>2, <1>3 DEF FindByEmail

\* The lookup that starts the creation of a device account.
LEMMA FindAllByVendorIdStep ==
    ASSUME IInv, NEW c \in Call, FindAllByVendorId(c)
    PROVE  IInv'
<1>1. request[c] \in IOSDeviceRequest /\ request[c] \in CreateRequest
  BY DEF FindAllByVendorId, IInv, ControlInv, CreateRequest
<1>2. ASSUME NEW row \in FindByLogin(LoginOf(request[c])),
             entity' = [entity EXCEPT ![c] = AccountOf(row.account)],
             Goto(c, "loadAccount")
      PROVE  IInv'
  BY <1>1, <1>2, FoundAccount DEF FindAllByVendorId
<1>3. ASSUME NEW id \in FreshIds,
             entity' = [entity EXCEPT ![c] = AccountForIOSDevice(id, request[c])],
             Goto(c, "save")
      PROVE  IInv'
  <2>1. id \in AccountId
    BY DEF FreshIds
  <2> DEFINE account == AccountForIOSDevice(id, request[c])
  <2>2. /\ account \in Entity
        /\ account.id \in FreshIds
        /\ \E r \in Credential :
              /\ account.credentials = {r}
              /\ r.account = account.id
              /\ RowFor(request[c], r)
    BY <1>1, <2>1, IOSDeviceAccount
  <2> HIDE DEF account
  <2>3. QED
    BY <1>3, <2>2, NewAccount DEF FindAllByVendorId, account
<1>4. QED
  BY <1>2, <1>3 DEF FindAllByVendorId

\* The fetch of the account that the lookup found.
LEMMA LoadAccountStep ==
    ASSUME IInv, NEW c \in Call, LoadAccount(c)
    PROVE  IInv'
<1>1. Running(c) /\ request[c] \notin DeleteRequest
  BY DEF LoadAccount, IInv, ControlInv, Running, RunningPC, CreateRequest,
         EmailRequest, IOSDeviceRequest, DeleteRequest
<1>2. PICK outcome \in {"ConflictException", "JpaObjectRetrievalFailureException"} :
         Reply(c, Without(outcome))
  BY DEF LoadAccount
<1>3. Without(outcome) \in Answer /\ Without(outcome).outcome # "pending"
  BY AnswerType DEF Without
<1>4. QED
  BY <1>1, <1>2, <1>3, OnlyReply DEF LoadAccount

\* The commit of a new account, or its refusal.
LEMMA SaveStep ==
    ASSUME IInv, NEW c \in Call, Save(c)
    PROVE  IInv'
<1>1. /\ pc[c] = "save" /\ Running(c)
      /\ request[c] \in CreateRequest
      /\ request[c] \notin DeleteRequest
  BY DEF Save, IInv, ControlInv, Running, RunningPC, CreateRequest,
         EmailRequest, IOSDeviceRequest, DeleteRequest
<1>2. CASE ViolatesIntegrity(entity[c])
  <2>1. RefusedInsert(request[c]) \in Outcome \ {"pending"}
    BY DEF RefusedInsert
  <2>2. Without(RefusedInsert(request[c])) \in Answer
    BY <2>1, AnswerType
  <2>3. Without(RefusedInsert(request[c])).outcome # "pending"
    BY <2>1 DEF Without
  <2>4. QED
    BY <1>1, <1>2, <2>2, <2>3, OnlyReply DEF Save
<1>3. CASE ~ViolatesIntegrity(entity[c])
  <2> DEFINE id == entity[c].id
  <2>1. /\ InsertAccount(entity[c])
        /\ persisted' = persisted \cup {id}
        /\ Reply(c, Returned({id}))
        /\ UNCHANGED <<request, entity, restarts>>
    BY <1>3 DEF Save
  <2>2. PICK row \in Credential :
           /\ entity[c].credentials = {row}
           /\ row.account = id
           /\ RowFor(request[c], row)
    BY <1>1 DEF IInv, SaveInv
  <2>3. /\ id \in AccountId \ persisted
        /\ \A d \in Call \ {c} : entity[d].id # id
    BY <1>1 DEF IInv, SaveInv
  <2>4. /\ accounts' = accounts \cup {id}
        /\ credentials' = credentials \cup {row}
        /\ \A r \in credentials : r.login # row.login
    BY <1>3, <2>1, <2>2 DEF InsertAccount, ViolatesIntegrity, Linked, FindByLogin
  <2>5. Returned({id}) \in Answer /\ Returned({id}).outcome = "returned"
    BY <2>3, AnswerType DEF Returned
  <2>6. /\ pc' = [pc EXCEPT ![c] = "done"]
        /\ answer' = [answer EXCEPT ![c] = Returned({id})]
        /\ persisted' = persisted \cup {id}
        /\ UNCHANGED <<request, entity, restarts>>
    BY <2>1 DEF Reply, Goto
  <2> HIDE DEF id
  <2>7. TypeOK'
    BY <2>3, <2>4, <2>5, <2>6 DEF IInv, TypeOK, StoreTypeOK, PC
  <2>8. ControlInv'
    BY <1>1, <2>5, <2>6 DEF IInv, ControlInv, TypeOK
  <2>9. PrincipalInv'
    BY <2>6 DEF IInv, PrincipalInv
  <2>10. LinkInv'
    BY <2>2, <2>3, <2>4, <2>6 DEF IInv, LinkInv
  <2>11. SaveInv'
    <3> SUFFICES ASSUME NEW d \in Call, pc'[d] = "save"
                 PROVE  /\ entity[d].id \in AccountId \ persisted'
                        /\ \A e \in Call \ {d} : entity[e].id # entity[d].id
                        /\ \E r \in Credential :
                              /\ entity[d].credentials = {r}
                              /\ r.account = entity[d].id
                              /\ RowFor(request[d], r)
      BY <2>6 DEF SaveInv
    <3>1. d # c /\ pc[d] = "save"
      BY <2>6 DEF IInv, TypeOK
    <3>2. QED
      BY <2>3, <2>6, <3>1 DEF IInv, SaveInv
  <2>12. MergeInv'
    <3> SUFFICES ASSUME NEW d \in Call
                 PROVE  /\ pc'[d] = "remove" =>
                             /\ CredentialsOf(entity[d].id)' \subseteq entity[d].credentials
                             /\ \A r1, r2 \in entity[d].credentials : r1 = r2
                        /\ pc'[d] = "insertAndRemove" => entity[d].id \notin accounts'
      BY <2>6 DEF MergeInv, CredentialsOf
    <3>1. pc'[d] \in {"remove", "insertAndRemove"} => pc[d] = pc'[d] /\ entity[d].id # id
      BY <2>3, <2>6 DEF IInv, TypeOK, ControlInv
    <3>2. QED
      BY <2>2, <2>4, <2>6, <3>1 DEF IInv, MergeInv, CredentialsOf
  <2>13. UniqueLogin' /\ LoadInv'
    <3>1. UniqueLogin'
      BY <2>4 DEF IInv, UniqueLogin
    <3>2. ASSUME NEW d \in Call, pc'[d] = "loadAccount"
          PROVE  \A r \in CredentialsOf(entity[d].id)' : r.login = LoginOf(request[d])
      <4>1. pc[d] = "loadAccount" /\ entity[d].id # id
        BY <2>3, <2>6, <3>2 DEF IInv, TypeOK, ControlInv
      <4>2. CredentialsOf(entity[d].id)' \subseteq CredentialsOf(entity[d].id)
        BY <2>2, <2>4, <2>6, <4>1 DEF CredentialsOf
      <4>3. QED
        BY <4>1, <4>2 DEF IInv, LoadInv
    <3>3. LoadInv'
      BY <2>6, <3>2 DEF LoadInv, CredentialsOf
    <3>4. QED
      BY <3>1, <3>3
  <2>14. AnsweredDeleteMeansGone'
    <3> SUFFICES ASSUME NEW d \in Call, request[d] \in DeleteRequest,
                        answer'[d].outcome \notin {"pending", "lost"}
                 PROVE  request[d].principal \notin accounts'
      BY <2>6 DEF AnsweredDeleteMeansGone
    <3>1. d # c
      BY <1>1
    <3>2. request[d].principal \notin accounts
      BY <2>6, <3>1 DEF IInv, AnsweredDeleteMeansGone, TypeOK
    <3>3. request[d].principal # id
      BY <2>3, PrincipalAssumption DEF IInv, PrincipalInv
    <3>4. QED
      BY <2>4, <3>2, <3>3
  <2>15. QED
    BY <2>7, <2>8, <2>9, <2>10, <2>11, <2>12, <2>13, <2>14 DEF IInv
<1>4. QED
  BY <1>2, <1>3

\* The lookup of the principal's account.
LEMMA FindByIdStep ==
    ASSUME IInv, NEW c \in Call, FindById(c)
    PROVE  IInv'
<1> DEFINE principal == request[c].principal
<1>1. /\ pc[c] = "findById" /\ Running(c)
      /\ request[c] \in InfoRequest \cup DeleteRequest
      /\ UNCHANGED <<storeVars, request, persisted, restarts>>
  BY DEF FindById, IInv, ControlInv, Running, RunningPC
<1>2. CASE principal \notin accounts
  <2>1. NoAccountFor(principal) \in Outcome \ {"pending"}
    BY DEF NoAccountFor
  <2>2. Without(NoAccountFor(principal)) \in Answer
    BY <2>1, AnswerType
  <2>3. Without(NoAccountFor(principal)).outcome # "pending"
    BY <2>1 DEF Without
  <2>4. Reply(c, Without(NoAccountFor(principal))) /\ UNCHANGED entity
    BY <1>2 DEF FindById
  <2> HIDE DEF principal
  <2>5. QED
    BY <1>1, <1>2, <2>2, <2>3, <2>4, OnlyReply DEF principal
<1>3. CASE principal \in accounts
  <2> DEFINE account == AccountOf(principal)
  <2>1. entity' = [entity EXCEPT ![c] = account]
    BY <1>3 DEF FindById
  <2>2. principal \in AccountId /\ principal \in persisted
    BY <1>3 DEF IInv, TypeOK, StoreTypeOK, LinkInv
  <2>3. account \in Entity /\ account.id = principal
    BY <2>2 DEF Entity, AccountOf
  <2>4. \/ /\ request[c].op = "getAccountInfo"
           /\ pc' = [pc EXCEPT ![c] = "done"]
           /\ answer' = [answer EXCEPT ![c] = Returned({principal})]
        \/ /\ request[c].op # "getAccountInfo"
           /\ pc' = [pc EXCEPT ![c] = "merge"]
           /\ UNCHANGED answer
    BY <1>3 DEF FindById, Reply, Goto
  <2>5. Returned({principal}) \in Answer /\ Returned({principal}).outcome = "returned"
    BY <2>2, AnswerType DEF Returned
  <2>6. request[c].op # "getAccountInfo" <=> request[c] \in DeleteRequest
    BY <1>1 DEF InfoRequest, DeleteRequest
  <2> HIDE DEF principal, account
  <2>7. TypeOK'
    BY <1>1, <2>1, <2>3, <2>4, <2>5
       DEF IInv, TypeOK, StoreTypeOK, storeVars, PC, RunningPC
  <2>8. ControlInv'
    BY <1>1, <2>1, <2>2, <2>3, <2>4, <2>5, <2>6 DEF IInv, ControlInv, TypeOK, principal
  <2>9. PrincipalInv' /\ LinkInv' /\ UniqueLogin'
    BY <1>1 DEF IInv, PrincipalInv, LinkInv, UniqueLogin, storeVars
  <2>10. SaveInv'
    <3> SUFFICES ASSUME NEW d \in Call, pc'[d] = "save"
                 PROVE  /\ entity'[d].id \in AccountId \ persisted
                        /\ \A e \in Call \ {d} : entity'[e].id # entity'[d].id
                        /\ \E r \in Credential :
                              /\ entity'[d].credentials = {r}
                              /\ r.account = entity'[d].id
                              /\ RowFor(request[d], r)
      BY <1>1 DEF SaveInv
    <3>1. d # c /\ pc[d] = "save"
      BY <2>4 DEF IInv, TypeOK
    <3>2. entity'[d] = entity[d] /\ entity'[c].id \in persisted
      BY <2>1, <2>2, <2>3, <3>1 DEF IInv, TypeOK
    <3>3. \A e \in Call \ {c} : entity'[e] = entity[e]
      BY <2>1 DEF IInv, TypeOK
    <3>4. QED
      BY <3>1, <3>2, <3>3 DEF IInv, SaveInv
  <2>11. MergeInv' /\ LoadInv'
    BY <1>1, <2>1, <2>4 DEF IInv, MergeInv, LoadInv, TypeOK, CredentialsOf, storeVars
  <2>12. AnsweredDeleteMeansGone'
    BY <1>1, <2>4, <2>6 DEF IInv, AnsweredDeleteMeansGone, TypeOK, storeVars
  <2>13. QED
    BY <2>7, <2>8, <2>9, <2>10, <2>11, <2>12 DEF IInv
<1>4. QED
  BY <1>2, <1>3

\* The merge of the detached account.
LEMMA MergeStep ==
    ASSUME IInv, NEW c \in Call, Merge(c)
    PROVE  IInv'
<1> DEFINE id == entity[c].id
<1>1. /\ pc[c] = "merge"
      /\ request[c] \in DeleteRequest
      /\ id = request[c].principal
      /\ id \in persisted
      /\ UNCHANGED <<storeVars, request, answer, persisted, restarts>>
  BY DEF Merge, IInv, ControlInv
<1>2. entity' = [entity EXCEPT ![c].credentials = CredentialsOf(id)]
  BY DEF Merge
<1>3. entity[c] \in Entity /\ CredentialsOf(id) \in SUBSET Credential
  BY DEF IInv, TypeOK, StoreTypeOK, CredentialsOf
<1>4. /\ entity'[c] \in Entity
      /\ entity'[c].id = id
      /\ entity'[c].credentials = CredentialsOf(id)
      /\ \A d \in Call \ {c} : entity'[d] = entity[d]
      /\ \A d \in Call : entity'[d].id = entity[d].id
  BY <1>2, <1>3 DEF IInv, TypeOK, Entity
<1>5. /\ \/ id \in accounts /\ pc' = [pc EXCEPT ![c] = "remove"]
         \/ id \notin accounts /\ pc' = [pc EXCEPT ![c] = "insertAndRemove"]
  BY DEF Merge, Goto
<1>6. \A r1, r2 \in CredentialsOf(id) : r1 = r2
  BY DEF IInv, LinkInv, CredentialsOf
<1> HIDE DEF id
<1>7. TypeOK'
  BY <1>1, <1>2, <1>4, <1>5 DEF IInv, TypeOK, StoreTypeOK, storeVars, PC, RunningPC
<1>8. ControlInv'
  BY <1>1, <1>4, <1>5 DEF IInv, ControlInv, TypeOK
<1>9. PrincipalInv' /\ LinkInv' /\ UniqueLogin' /\ AnsweredDeleteMeansGone'
  BY <1>1 DEF IInv, PrincipalInv, LinkInv, UniqueLogin, AnsweredDeleteMeansGone, storeVars
<1>10. SaveInv'
  <2> SUFFICES ASSUME NEW d \in Call, pc'[d] = "save"
               PROVE  /\ entity'[d].id \in AccountId \ persisted
                      /\ \A e \in Call \ {d} : entity'[e].id # entity'[d].id
                      /\ \E r \in Credential :
                            /\ entity'[d].credentials = {r}
                            /\ r.account = entity'[d].id
                            /\ RowFor(request[d], r)
    BY <1>1 DEF SaveInv
  <2>1. d # c /\ pc[d] = "save"
    BY <1>5 DEF IInv, TypeOK
  <2>2. QED
    BY <1>4, <2>1 DEF IInv, SaveInv
<1>11. MergeInv'
  <2> SUFFICES ASSUME NEW d \in Call
               PROVE  /\ pc'[d] = "remove" =>
                           /\ CredentialsOf(entity'[d].id) \subseteq entity'[d].credentials
                           /\ \A r1, r2 \in entity'[d].credentials : r1 = r2
                      /\ pc'[d] = "insertAndRemove" => entity'[d].id \notin accounts
    BY <1>1 DEF MergeInv, CredentialsOf, storeVars
  <2>1. CASE d = c
    BY <1>4, <1>5, <1>6, <2>1 DEF IInv, TypeOK
  <2>2. CASE d # c
    BY <1>4, <1>5, <2>2 DEF IInv, MergeInv, TypeOK
  <2>3. QED
    BY <2>1, <2>2
<1>12. LoadInv'
  BY <1>1, <1>4, <1>5 DEF IInv, LoadInv, TypeOK, CredentialsOf, storeVars
<1>13. QED
  BY <1>7, <1>8, <1>9, <1>10, <1>11, <1>12 DEF IInv

\* A deletion that finds a row missing lost its account to another deletion.
LEMMA RowsMissing ==
    ASSUME IInv, NEW c \in Call, pc[c] = "remove", ~RowsToDelete(entity[c])
    PROVE  entity[c].id \notin accounts
<1> SUFFICES ASSUME entity[c].id \in accounts PROVE FALSE
  OBVIOUS
<1>1. PICK gone \in entity[c].credentials : gone \notin credentials
  BY DEF RowsToDelete
<1>2. PICK row \in credentials : row.account = entity[c].id
  BY DEF IInv, LinkInv
<1>3. row \in entity[c].credentials
  BY <1>2 DEF IInv, MergeInv, CredentialsOf
<1>4. QED
  BY <1>1, <1>2, <1>3 DEF IInv, MergeInv

\* What a successful deletion takes out of the tables.
LEMMA RowsRemoved ==
    ASSUME IInv, NEW c \in Call, pc[c] = "remove", RowsToDelete(entity[c])
    PROVE  /\ entity[c].credentials = CredentialsOf(entity[c].id)
           /\ entity[c].id \in accounts
<1>1. entity[c].id \in accounts /\ entity[c].credentials \subseteq credentials
  BY DEF RowsToDelete
<1>2. PICK row \in credentials : row.account = entity[c].id
  BY <1>1 DEF IInv, LinkInv
<1>3. row \in CredentialsOf(entity[c].id) /\ row \in entity[c].credentials
  BY <1>2 DEF IInv, MergeInv, CredentialsOf
<1>4. entity[c].credentials \subseteq CredentialsOf(entity[c].id)
  BY <1>3 DEF IInv, MergeInv
<1>5. QED
  BY <1>1, <1>4 DEF IInv, MergeInv

\* The commit of a deletion.
LEMMA RemoveStep ==
    ASSUME IInv, NEW c \in Call, Remove(c)
    PROVE  IInv'
<1> DEFINE id == entity[c].id
<1>1. /\ pc[c] = "remove" /\ Running(c)
      /\ request[c] \in DeleteRequest
      /\ id = request[c].principal
      /\ UNCHANGED <<request, entity, persisted, restarts>>
  BY DEF Remove, IInv, ControlInv, Running, RunningPC
<1>2. CASE RowsToDelete(entity[c])
  <2>1. /\ accounts' = accounts \ {id}
        /\ credentials' = credentials \ CredentialsOf(id)
        /\ pc' = [pc EXCEPT ![c] = "done"]
        /\ answer' = [answer EXCEPT ![c] = Returned({})]
    BY <1>1, <1>2, RowsRemoved DEF Remove, DeleteAccount, Reply, Goto
  <2>2. Returned({}) \in Answer /\ Returned({}).outcome = "returned"
    BY AnswerType DEF Returned
  <2> HIDE DEF id
  <2>3. TypeOK'
    BY <1>1, <2>1, <2>2 DEF IInv, TypeOK, StoreTypeOK, PC
  <2>4. ControlInv'
    BY <1>1, <2>1, <2>2 DEF IInv, ControlInv, TypeOK
  <2>5. PrincipalInv' /\ UniqueLogin'
    BY <1>1, <2>1 DEF IInv, PrincipalInv, UniqueLogin
  <2>6. LinkInv'
    BY <1>1, <2>1 DEF IInv, LinkInv, CredentialsOf
  <2>7. SaveInv'
    BY <1>1, <2>1 DEF IInv, SaveInv, TypeOK
  <2>8. MergeInv' /\ LoadInv'
    BY <1>1, <2>1 DEF IInv, MergeInv, LoadInv, TypeOK, CredentialsOf
  <2>9. AnsweredDeleteMeansGone'
    BY <1>1, <2>1 DEF IInv, AnsweredDeleteMeansGone, TypeOK, id
  <2>10. QED
    BY <2>3, <2>4, <2>5, <2>6, <2>7, <2>8, <2>9 DEF IInv
<1>3. CASE ~RowsToDelete(entity[c])
  <2> DEFINE ans == Without("ObjectOptimisticLockingFailureException")
  <2>1. ans \in Answer /\ ans.outcome # "pending"
    BY AnswerType DEF Without
  <2>2. Reply(c, ans) /\ UNCHANGED storeVars
    BY <1>3 DEF Remove
  <2>3. request[c].principal \notin accounts
    BY <1>1, <1>3, RowsMissing
  <2> HIDE DEF ans
  <2>4. QED
    BY <1>1, <2>1, <2>2, <2>3, OnlyReply
<1>4. QED
  BY <1>2, <1>3

\* The end of a deletion that merged a missing account.
LEMMA InsertAndRemoveStep ==
    ASSUME IInv, NEW c \in Call, InsertAndRemove(c)
    PROVE  IInv'
<1>1. /\ pc[c] = "insertAndRemove" /\ Running(c)
      /\ request[c].principal \notin accounts
  BY DEF InsertAndRemove, IInv, ControlInv, MergeInv, Running, RunningPC
<1>2. Returned({}) \in Answer /\ Returned({}).outcome # "pending"
  BY AnswerType DEF Returned
<1>3. QED
  BY <1>1, <1>2, OnlyReply DEF InsertAndRemove

\* The list of all accounts.
LEMMA FindAllStep ==
    ASSUME IInv, NEW c \in Call, FindAll(c)
    PROVE  IInv'
<1>1. pc[c] = "findAll" /\ Running(c) /\ request[c] \notin DeleteRequest
  BY DEF FindAll, IInv, ControlInv, Running, RunningPC, ListRequest, DeleteRequest
<1>2. Returned(accounts) \in Answer /\ Returned(accounts).outcome # "pending"
  BY AnswerType DEF Returned, IInv, TypeOK, StoreTypeOK
<1>3. QED
  BY <1>1, <1>2, OnlyReply DEF FindAll

\* The restart of the server.
LEMMA RestartStep ==
    ASSUME IInv, Restart
    PROVE  IInv'
<1> USE DEF Restart, CreateDrop
<1>1. Without("lost") \in Answer /\ Without("lost").outcome = "lost"
  BY AnswerType DEF Without
<1>2. TypeOK'
  <2>1. pc' \in [Call -> PC]
    BY DEF IInv, TypeOK, PC
  <2>2. answer' \in [Call -> Answer]
    BY <1>1 DEF IInv, TypeOK
  <2>3. restarts' \in 0..MaxRestarts
    BY MaxRestartsAssumption DEF IInv, TypeOK
  <2>4. QED
    BY <2>1, <2>2, <2>3 DEF IInv, TypeOK, StoreTypeOK
<1>3. \A c \in Call : pc'[c] = IF Running(c) THEN "done" ELSE pc[c]
  OBVIOUS
<1>4. \A c \in Call : pc'[c] \in {"idle", "done"}
  BY <1>3 DEF IInv, TypeOK, PC, Running
<1>5. ControlInv'
  <2> SUFFICES ASSUME NEW c \in Call
               PROVE  /\ pc'[c] = "idle" <=> request[c] = NoRequest
                      /\ pc'[c] = "done" <=> answer'[c].outcome # "pending"
    BY <1>4 DEF ControlInv
  <2>1. CASE Running(c)
    BY <1>1, <1>3, <2>1 DEF IInv, ControlInv, Running, RunningPC
  <2>2. CASE ~Running(c)
    BY <1>3, <2>2 DEF IInv, ControlInv
  <2>3. QED
    BY <2>1, <2>2
<1>6. PrincipalInv'
  BY DEF IInv, PrincipalInv
<1>7. LinkInv' /\ UniqueLogin' /\ AnsweredDeleteMeansGone'
  BY DEF LinkInv, UniqueLogin, AnsweredDeleteMeansGone
<1>8. SaveInv' /\ LoadInv' /\ MergeInv'
  BY <1>4 DEF SaveInv, LoadInv, MergeInv
<1>9. QED
  BY <1>2, <1>5, <1>6, <1>7, <1>8 DEF IInv

\* Every step of AccountService preserves it, and so does a stuttering step.
LEMMA NextIInv == IInv /\ [Next]_vars => IInv'
<1> SUFFICES ASSUME IInv, [Next]_vars PROVE IInv'
  OBVIOUS
<1>1. ASSUME NEW c \in Call, NEW req \in Request, KnownPrincipal(req), Arrive(c, req)
      PROVE  IInv'
  BY <1>1, ArriveStep
<1>2. ASSUME NEW c \in Call, Step(c) PROVE IInv'
  BY <1>2, FindByEmailStep, FindAllByVendorIdStep, LoadAccountStep, SaveStep, FindByIdStep,
     MergeStep, RemoveStep, InsertAndRemoveStep, FindAllStep DEF Step
<1>3. CASE Restart
  BY <1>3, RestartStep
<1>4. CASE UNCHANGED vars
  BY <1>4 DEF IInv, TypeOK, StoreTypeOK, ControlInv, PrincipalInv, LinkInv, LoadInv,
              SaveInv, MergeInv, CredentialsOf, UniqueLogin, AnsweredDeleteMeansGone,
              vars, storeVars, callVars
<1>5. QED
  BY <1>1, <1>2, <1>3, <1>4 DEF Next, NoMoreRequests

-----------------------------------------------------------------------------
(***************************************************************************)
(* Safety                                                                  *)
(***************************************************************************)

\* Every reachable state satisfies the inductive invariant.
THEOREM Invariance == Spec => []IInv
  BY InitIInv, NextIInv, PTL DEF Spec

\* Every variable keeps its type.
THEOREM TypeCorrect == Spec => []TypeOK
<1>1. IInv => TypeOK
  BY DEF IInv
<1>2. QED
  BY Invariance, <1>1, PTL

\* No email and no vendor id is ever linked to two accounts: the lookup before
\* the save is not enough, the unique constraint is.
THEOREM LoginsAreUnique == Spec => []UniqueLogin
<1>1. IInv => UniqueLogin
  BY DEF IInv
<1>2. QED
  BY Invariance, <1>1, PTL

\* The tables agree: every account has exactly one credential, and no
\* credential outlives its account.
THEOREM AccountsStayLinked == Spec => []AccountsLinked
<1>1. IInv => AccountsLinked
  BY DEF IInv, LinkInv, AccountsLinked, CredentialsOf
<1>2. QED
  BY Invariance, <1>1, PTL

\* An answered deletion leaves no account behind, and none comes back.
THEOREM DeletedAccountsStayGone == Spec => []AnsweredDeleteMeansGone
<1>1. IInv => AnsweredDeleteMeansGone
  BY DEF IInv
<1>2. QED
  BY Invariance, <1>1, PTL

-----------------------------------------------------------------------------
(***************************************************************************)
(* Action properties                                                       *)
(***************************************************************************)

\* When every accepted value fits its column, a ConflictException is only ever
\* the answer for a login that is linked: what the comments of AccountService
\* promise then holds.
THEOREM ConflictsAreTrue == Oversize = {} => (Spec => ConflictMeansLinked)
<1> SUFFICES ASSUME Oversize = {} PROVE Spec => ConflictMeansLinked
  OBVIOUS
<1> DEFINE A == \A c \in Call :
          Answers(c, "ConflictException") =>
              \E r \in credentials : r.login = LoginOf(request[c])
<1>1. IInv /\ [Next]_vars => [A]_vars
  <2> SUFFICES ASSUME IInv, Next, NEW c \in Call, Answers(c, "ConflictException")
               PROVE  \E r \in credentials : r.login = LoginOf(request[c])
    BY DEF A
  <2>1. answer'[c] # answer[c] /\ answer'[c].outcome = "ConflictException"
    BY DEF Answers
  <2>2. ~Restart
    <3>1. Without("lost").outcome = "lost"
      BY DEF Without
    <3>2. QED
      BY <2>1, <3>1 DEF Restart
  <2>3. PICK d \in Call : Step(d)
    BY <2>1, <2>2 DEF Next, Arrive, NoMoreRequests, vars, callVars
  <2>4. PICK ans : Reply(d, ans)
    BY <2>1, <2>3
       DEF Step, FindByEmail, FindAllByVendorId, LoadAccount, Save, FindById, Merge,
           Remove, InsertAndRemove, FindAll, Goto
  <2>5. d = c /\ ans.outcome = "ConflictException"
    BY <2>1, <2>4 DEF Reply, IInv, TypeOK
  <2>6. CASE LoadAccount(c)
    <3>1. Without("JpaObjectRetrievalFailureException").outcome # "ConflictException"
      BY DEF Without
    <3>2. pc[c] = "loadAccount" /\ entity[c].id \in accounts
      BY <2>1, <2>6, <3>1 DEF LoadAccount, Reply, IInv, TypeOK
    <3>3. PICK r \in credentials : r.account = entity[c].id
      BY <3>2 DEF IInv, LinkInv
    <3>4. QED
      BY <3>2, <3>3 DEF IInv, LoadInv, CredentialsOf
  <2>7. CASE Save(c)
    <3>1. ViolatesIntegrity(entity[c])
      <4> SUFFICES ASSUME ~ViolatesIntegrity(entity[c]) PROVE FALSE
        OBVIOUS
      <4>1. Reply(c, Returned({entity[c].id}))
        BY <2>7 DEF Save
      <4>2. answer'[c].outcome = "returned"
        BY <4>1 DEF Reply, Returned, IInv, TypeOK
      <4>3. QED
        BY <2>1, <4>2
    <3>2. PICK row \in Credential :
             entity[c].credentials = {row} /\ row.login = LoginOf(request[c])
      BY <2>7 DEF Save, IInv, SaveInv, RowFor
    <3>3. Linked(row.login)
      BY <3>1, <3>2 DEF ViolatesIntegrity, Fits
    <3>4. QED
      BY <3>2, <3>3 DEF Linked, FindByLogin
  <2>8. CASE \/ FindByEmail(c) \/ FindAllByVendorId(c) \/ FindById(c)
             \/ Merge(c) \/ Remove(c) \/ InsertAndRemove(c) \/ FindAll(c)
    <3>1. /\ \A ids : Returned(ids).outcome # "ConflictException"
          /\ \A principal : Without(NoAccountFor(principal)).outcome # "ConflictException"
          /\ Without("ObjectOptimisticLockingFailureException").outcome # "ConflictException"
      BY DEF Returned, Without, NoAccountFor
    <3>2. answer'[c].outcome # "ConflictException"
      BY <2>1, <2>8, <3>1
         DEF FindByEmail, FindAllByVendorId, FindById, Merge, Remove, InsertAndRemove,
             FindAll, Reply, IInv, TypeOK
    <3>3. QED
      BY <2>1, <3>2
  <2>9. QED
    BY <2>3, <2>5, <2>6, <2>7, <2>8 DEF Step
<1>2. QED
  BY Invariance, <1>1, PTL DEF Spec, ConflictMeansLinked

\* The step that removes an account, when it is no restart, is its deletion.
LEMMA RemovingStep ==
    ASSUME IInv, [Next]_vars, NEW id \in accounts \ accounts', restarts' = restarts
    PROVE  \E c \in Call :
              /\ request[c] \in DeleteRequest
              /\ request[c].principal = id
              /\ Answers(c, "returned")
<1>1. ~Restart /\ ~UNCHANGED vars
  BY MaxRestartsAssumption DEF Restart, IInv, TypeOK, vars, storeVars
<1>2. PICK c \in Call : Step(c)
  BY <1>1 DEF Next, Arrive, NoMoreRequests, storeVars
<1>3. Remove(c) /\ RowsToDelete(entity[c])
  BY <1>2 DEF Step, FindByEmail, FindAllByVendorId, LoadAccount, Save, InsertAccount,
              FindById, Merge, Remove, InsertAndRemove, FindAll, storeVars
<1>4. /\ pc[c] = "remove"
      /\ accounts' = accounts \ {entity[c].id}
      /\ Reply(c, Returned({}))
  BY <1>3 DEF Remove, DeleteAccount
<1>5. request[c] \in DeleteRequest /\ request[c].principal = entity[c].id
  BY <1>4 DEF IInv, ControlInv
<1>6. answer[c].outcome = "pending" /\ answer'[c].outcome = "returned"
  <2>1. answer[c].outcome = "pending"
    BY <1>4 DEF IInv, ControlInv
  <2>2. answer'[c] = Returned({})
    BY <1>4 DEF Reply, IInv, TypeOK
  <2>3. QED
    BY <2>1, <2>2 DEF Returned
<1>7. QED
  BY <1>4, <1>5, <1>6 DEF Answers

\* An account is only ever removed by a deletion of its own principal, in the
\* step that answers it, or by a restart.
THEOREM RemovalIsOwn == Spec => OnlyOwnDeleteRemoves
<1> DEFINE A == \A id \in accounts \ accounts' :
          \/ restarts' # restarts
          \/ \E c \in Call :
                /\ request[c] \in DeleteRequest
                /\ request[c].principal = id
                /\ Answers(c, "returned")
<1>1. IInv /\ [Next]_vars => [A]_vars
  BY RemovingStep DEF A
<1>2. QED
  BY Invariance, <1>1, PTL DEF Spec, OnlyOwnDeleteRemoves

-----------------------------------------------------------------------------
(***************************************************************************)
(* Statuses                                                                *)
(***************************************************************************)

\* The exceptions of the service that no mapper gives a status of their own.
Unmapped ==
    {"DataIntegrityViolationException", "JpaObjectRetrievalFailureException",
     "ObjectOptimisticLockingFailureException"}

\* A status of 500 comes from them alone.
LEMMA UnmappedStatus ==
    ASSUME NEW c \in Call, answer[c] \in Answer, IsAnswered(c), StatusOfCall(c) = 500
    PROVE  answer[c].outcome \in Unmapped
<1>1. answer[c].outcome \in Outcome
  BY DEF Answer
<1>2. QED
  BY <1>1 DEF IsAnswered, StatusOfCall, Mappers!StatusOf, Mappers!StatusCarried,
              Mappers!WebApplicationException, Unmapped

LostRace(c) ==
    /\ request[c] \in CreateRequest \cup DeleteRequest
    /\ entity[c].id \in persisted \ accounts

UnmappedIsLostRace ==
    \A c \in Call : answer[c].outcome \in Unmapped => LostRace(c)

\* An answered call keeps its entity, and a deleted account stays deleted.
LEMMA LostRaceStays ==
    ASSUME IInv, Next, NEW c \in Call, answer[c].outcome # "pending", LostRace(c)
    PROVE  LostRace(c)'
<1>1. pc[c] = "done" /\ request[c] # NoRequest
  BY DEF IInv, ControlInv
<1>2. CASE Restart
  BY <1>2 DEF Restart, CreateDrop, LostRace
<1>3. CASE UNCHANGED vars
  BY <1>3 DEF vars, storeVars, callVars, LostRace
<1>4. ASSUME NEW d \in Call, NEW req \in Request, Arrive(d, req)
      PROVE  LostRace(c)'
  BY <1>1, <1>4 DEF Arrive, LostRace, storeVars, IInv, TypeOK
<1>5. ASSUME NEW d \in Call, Step(d)
      PROVE  LostRace(c)'
  <2>1. d # c
    BY <1>1, <1>5 DEF Step, FindByEmail, FindAllByVendorId, LoadAccount, Save, FindById,
                      Merge, Remove, InsertAndRemove, FindAll
  <2>2. request' = request /\ entity'[c] = entity[c]
    BY <1>5, <2>1 DEF Step, FindByEmail, FindAllByVendorId, LoadAccount, Save, FindById,
                      Merge, Remove, InsertAndRemove, FindAll, IInv, TypeOK
  <2>3. CASE UNCHANGED <<accounts, persisted>>
    BY <2>2, <2>3 DEF LostRace
  <2>4. CASE Save(d)
    BY <2>2, <2>4 DEF LostRace, Save, InsertAccount, storeVars, IInv, SaveInv
  <2>5. CASE Remove(d)
    BY <2>2, <2>5 DEF LostRace, Remove, DeleteAccount, storeVars
  <2>6. QED
    BY <1>5, <2>3, <2>4, <2>5
       DEF Step, FindByEmail, FindAllByVendorId, LoadAccount, FindById, Merge,
           InsertAndRemove, FindAll, storeVars
<1>6. QED
  BY <1>2, <1>3, <1>4, <1>5 DEF Next, NoMoreRequests

\* As built, an internal error is only ever the answer to a call that lost a race
\* against the deletion of the account it had in hand.
THEOREM ServerErrorsAreLostRaces == ~Woven => (Spec => []ServerErrorIsLostRace)
<1> SUFFICES ASSUME ~Woven PROVE Spec => []ServerErrorIsLostRace
  OBVIOUS
<1>1. Init => UnmappedIsLostRace
  BY DEF Init, UnmappedIsLostRace, Without, Unmapped
<1>2. IInv /\ UnmappedIsLostRace /\ [Next]_vars => UnmappedIsLostRace'
  <2> SUFFICES ASSUME IInv, UnmappedIsLostRace, [Next]_vars, NEW c \in Call,
                      answer'[c].outcome \in Unmapped
               PROVE  LostRace(c)'
    BY DEF UnmappedIsLostRace
  <2>1. CASE UNCHANGED vars
    BY <2>1 DEF UnmappedIsLostRace, LostRace, vars, storeVars, callVars
  <2>2. CASE Next /\ answer'[c] = answer[c]
    <3>1. LostRace(c) /\ answer[c].outcome # "pending"
      BY <2>2 DEF UnmappedIsLostRace, Unmapped
    <3>2. QED
      BY <2>2, <3>1, LostRaceStays
  <2>3. CASE Next /\ answer'[c] # answer[c]
    <3>1. ~Restart
      BY <2>3 DEF Restart, Without, Unmapped
    <3>2. PICK d \in Call : Step(d)
      BY <2>3, <3>1 DEF Next, Arrive, NoMoreRequests, vars, callVars
    <3>3. PICK ans : Reply(d, ans)
      BY <2>3, <3>2
         DEF Step, FindByEmail, FindAllByVendorId, LoadAccount, Save, FindById, Merge,
             Remove, InsertAndRemove, FindAll, Goto
    <3>4. d = c
      BY <2>3, <3>3 DEF Reply, IInv, TypeOK
    <3>5. /\ \A ids : Returned(ids).outcome \notin Unmapped
          /\ Without("ConflictException").outcome \notin Unmapped
          /\ \A principal : Without(NoAccountFor(principal)).outcome \notin Unmapped
          /\ \A r : Without(RefusedInsert(r)).outcome \notin Unmapped
      BY DEF Returned, Without, NoAccountFor, RefusedInsert, Unmapped
    <3>6. ~\/ FindByEmail(c) \/ FindAllByVendorId(c) \/ FindById(c)
           \/ InsertAndRemove(c) \/ FindAll(c) \/ Save(c) \/ Merge(c)
      BY <2>3, <3>5 DEF FindByEmail, FindAllByVendorId, Save, FindById, Merge,
                        InsertAndRemove, FindAll, Reply, Goto, IInv, TypeOK
    <3>7. CASE LoadAccount(c)
      <4>1. entity[c].id \notin accounts
        BY <3>5, <3>7 DEF LoadAccount, Reply, IInv, TypeOK
      <4>2. QED
        BY <3>7, <4>1 DEF LoadAccount, LostRace, storeVars, IInv, ControlInv
    <3>8. CASE Remove(c)
      <4>1. ~RowsToDelete(entity[c])
        BY <3>5, <3>8 DEF Remove, Reply, IInv, TypeOK
      <4>2. pc[c] = "remove" /\ entity[c].id \notin accounts
        BY <3>8, <4>1, RowsMissing DEF Remove
      <4>3. QED
        BY <3>8, <4>1, <4>2 DEF Remove, LostRace, storeVars, IInv, ControlInv
    <3>9. QED
      BY <3>2, <3>4, <3>6, <3>7, <3>8 DEF Step
  <2>4. QED
    BY <2>1, <2>2, <2>3
<1>3. IInv /\ UnmappedIsLostRace => ServerErrorIsLostRace
  <2> SUFFICES ASSUME IInv, UnmappedIsLostRace, NEW c \in Call,
                      IsAnswered(c), StatusOfCall(c) = 500
               PROVE  LostRace(c)
    BY DEF ServerErrorIsLostRace, LostRace
  <2>1. answer[c] \in Answer
    BY DEF IInv, TypeOK
  <2>2. QED
    BY <2>1, UnmappedStatus DEF UnmappedIsLostRace
<1>4. QED
  BY <1>1, <1>2, <1>3, Invariance, PTL DEF Spec
=============================================================================

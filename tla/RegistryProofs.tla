--------------------------- MODULE RegistryProofs ---------------------------
(***************************************************************************)
(* AccountService implements AccountRegistry: every step of a thread is    *)
(* the abstract operation it answers, or changes nothing the registry      *)
(* shows.                                                                  *)
(***************************************************************************)
EXTENDS AccountServiceProofs

Links == {[login |-> r.login, account |-> r.account] : r \in credentials}

Retired == persisted \ accounts

\* Both modules name the requests of the API alike.
LEMMA SameApi ==
    /\ Registry!NoRequest = NoRequest
    /\ Registry!CreateRequest = CreateRequest
    /\ Registry!InfoRequest = InfoRequest
    /\ Registry!DeleteRequest = DeleteRequest
    /\ Registry!ListRequest = ListRequest
    /\ Registry!Request = Request
    /\ Registry!MalformedPrincipal = MalformedPrincipal
    /\ \A req : Registry!LoginOf(req) = LoginOf(req)
    /\ \A req : Registry!TooLong(req) = TooLong(req)
    /\ \A ids : Registry!Returned(ids) = Returned(ids)
    /\ \A outcome : Registry!Without(outcome) = Without(outcome)
BY DEF Registry!NoRequest, NoRequest, Registry!CreateRequest, CreateRequest,
       Registry!EmailRequest, EmailRequest, Registry!IOSDeviceRequest, IOSDeviceRequest,
       Registry!InfoRequest, InfoRequest, Registry!DeleteRequest, DeleteRequest,
       Registry!ListRequest, ListRequest, Registry!Request, Request,
       Registry!Principal, Principal, Registry!MalformedPrincipal, MalformedPrincipal,
       Registry!LoginOf, LoginOf, Registry!EmailLogin, EmailLogin,
       Registry!VendorIdLogin, VendorIdLogin, Registry!TooLong, TooLong,
       Registry!Returned, Returned, Registry!Without, Without

\* The links are what the credentials say.
LEMMA LinksAreCredentials ==
    /\ \A r \in credentials :
          \E link \in Links : link.login = r.login /\ link.account = r.account
    /\ \A link \in Links :
          \E r \in credentials : link.login = r.login /\ link.account = r.account
<1>1. ASSUME NEW r \in credentials
      PROVE  \E link \in Links : link.login = r.login /\ link.account = r.account
  <2> DEFINE link == [login |-> r.login, account |-> r.account]
  <2>1. link \in Links
    BY DEF Links
  <2>2. link.login = r.login /\ link.account = r.account
    OBVIOUS
  <2>3. QED
    BY <2>1, <2>2
<1>2. ASSUME NEW link \in Links
      PROVE  \E r \in credentials : link.login = r.login /\ link.account = r.account
  BY DEF Links
<1>3. QED
  BY <1>1, <1>2

\* The linked accounts are the rows of the account table.
LEMMA IdsAreAccounts ==
    ASSUME IInv
    PROVE  Registry!Ids = accounts
<1>1. Registry!Ids = {link.account : link \in Links}
  BY DEF Registry!Ids, Links
<1>2. Registry!Ids = {r.account : r \in credentials}
  BY <1>1, LinksAreCredentials
<1>3. QED
  BY <1>2 DEF IInv, LinkInv

\* A login is taken when the lookup finds it.
LEMMA TakenIsLinked ==
    ASSUME NEW login
    PROVE  Registry!IsTaken(login) <=> Linked(login)
<1>1. Registry!IsTaken(login) <=> \E link \in Links : link.login = login
  BY DEF Registry!IsTaken, Links
<1>2. QED
  BY <1>1, LinksAreCredentials DEF Linked, FindByLogin

\* A request the registry has been asked is one a thread is serving.
LEMMA AskedIsRunning ==
    ASSUME IInv, NEW c \in Call
    PROVE  Registry!Asked(c) <=> Running(c)
BY SameApi DEF Registry!Asked, IInv, ControlInv, TypeOK, PC, Running, RunningPC

\* The empty tables are the empty registry.
LEMMA InitRefines == Init => Registry!Init
BY SameApi DEF Init, StoreInit, Registry!Init

-----------------------------------------------------------------------------
\* The first SELECT of a lookup answers nobody.
LEMMA LookupRefines ==
    ASSUME NEW c \in Call, FindByEmail(c) \/ FindAllByVendorId(c)
    PROVE  UNCHANGED Registry!registryVars
BY DEF FindByEmail, FindAllByVendorId, Registry!registryVars, storeVars

\* The second refuses a creation for a login that is still linked, or fails
\* because the account the first one named has been deleted.
LEMMA LoadAccountRefines ==
    ASSUME IInv, NEW c \in Call, LoadAccount(c)
    PROVE  Registry!Refuse(c) \/ Registry!Fail(c)
<1> DEFINE id == entity[c].id
<1>1. /\ Running(c)
      /\ request[c] \in CreateRequest
      /\ id \in persisted
      /\ pc[c] = "loadAccount"
      /\ UNCHANGED <<storeVars, request, persisted>>
  BY DEF LoadAccount, IInv, ControlInv, Running, RunningPC
<1>2. Registry!Asked(c)
  BY <1>1, AskedIsRunning
<1>3. CASE id \in accounts
  <2>1. PICK r \in credentials : r.account = id
    BY <1>3 DEF IInv, LinkInv
  <2>2. r.login = LoginOf(request[c])
    BY <1>1, <2>1 DEF IInv, LoadInv, CredentialsOf
  <2>3. Registry!IsTaken(LoginOf(request[c]))
    BY <2>1, <2>2, TakenIsLinked DEF Linked, FindByLogin
  <2>4. answer' = [answer EXCEPT ![c] = Without("ConflictException")]
    BY <1>3 DEF LoadAccount, Reply
  <2>5. QED
    BY <1>1, <1>2, <2>3, <2>4, SameApi DEF Registry!Refuse, Registry!Reply, storeVars
<1>4. CASE id \notin accounts
  <2>1. Retired # {}
    BY <1>1, <1>4 DEF Retired
  <2>2. answer' = [answer EXCEPT ![c] = Without("JpaObjectRetrievalFailureException")]
    BY <1>4 DEF LoadAccount, Reply
  <2>3. QED
    BY <1>1, <1>2, <2>1, <2>2, SameApi
       DEF Registry!Fail, Registry!Reply, Links, Retired, storeVars
<1>5. QED
  BY <1>3, <1>4

\* A commit of accountRepository.save is the creation of a link, or its refusal.
LEMMA SaveRefines ==
    ASSUME IInv, NEW c \in Call, Save(c)
    PROVE  Registry!Refuse(c) \/ Registry!Create(c)
<1>1. Running(c) /\ request[c] \in CreateRequest
  BY DEF Save, IInv, ControlInv, Running, RunningPC
<1>2. Registry!Asked(c)
  BY <1>1, AskedIsRunning
<1>3. PICK row \in Credential :
         /\ entity[c].credentials = {row}
         /\ row.account = entity[c].id
         /\ RowFor(request[c], row)
  BY DEF Save, IInv, SaveInv
<1>4. row.login = LoginOf(request[c])
  BY <1>3 DEF RowFor
<1>5. CASE ViolatesIntegrity(entity[c])
  <2>1. Linked(row.login) \/ ~Fits(row)
    BY <1>3, <1>5 DEF ViolatesIntegrity
  <2>2. ~Fits(row) => TooLong(request[c])
    BY <1>3 DEF Fits, RowFor, TooLong
  <2>3. Registry!IsTaken(LoginOf(request[c])) \/ TooLong(request[c])
    BY <1>4, <2>1, <2>2, TakenIsLinked
  <2>4. /\ answer' = [answer EXCEPT ![c] = Without(RefusedInsert(request[c]))]
        /\ UNCHANGED <<storeVars, persisted, request>>
    BY <1>5 DEF Save, Reply
  <2>5. RefusedInsert(request[c]) \in {"ConflictException", "DataIntegrityViolationException"}
    BY DEF RefusedInsert
  <2>6. QED
    BY <1>1, <1>2, <2>3, <2>4, <2>5, SameApi
       DEF Registry!Refuse, Registry!Reply, storeVars
<1>6. CASE ~ViolatesIntegrity(entity[c])
  <2> DEFINE id == entity[c].id
  <2>1. /\ accounts' = accounts \cup {id}
        /\ credentials' = credentials \cup {row}
        /\ persisted' = persisted \cup {id}
        /\ answer' = [answer EXCEPT ![c] = Returned({id})]
        /\ UNCHANGED request
    BY <1>3, <1>6 DEF Save, InsertAccount, Reply
  <2>2. ~Registry!IsTaken(LoginOf(request[c]))
    BY <1>3, <1>4, <1>6, TakenIsLinked DEF ViolatesIntegrity
  <2>3. id \in AccountId \ persisted
    BY DEF Save, IInv, SaveInv
  <2>4. id \in AccountId \ (Registry!Ids \cup Retired)
    BY <2>3, IdsAreAccounts DEF IInv, LinkInv, Retired
  <2>5. Links' = Links \cup {[login |-> LoginOf(request[c]), account |-> id]}
    BY <1>3, <1>4, <2>1 DEF Links
  <2>6. UNCHANGED Retired
    BY <2>1, <2>3 DEF Retired
  <2>7. QED
    BY <1>1, <1>2, <2>1, <2>2, <2>4, <2>5, <2>6, SameApi
       DEF Registry!Create, Registry!Reply, Links, Retired
<1>7. QED
  BY <1>5, <1>6

-----------------------------------------------------------------------------
\* Reading and deleting the principal's account.
LEMMA FindByIdRefines ==
    ASSUME IInv, NEW c \in Call, FindById(c)
    PROVE  Registry!Miss(c) \/ Registry!Inform(c) \/ UNCHANGED Registry!registryVars
<1> DEFINE principal == request[c].principal
<1>1. /\ Running(c)
      /\ request[c] \in InfoRequest \cup DeleteRequest
      /\ UNCHANGED <<storeVars, request, persisted, restarts>>
  BY DEF FindById, IInv, ControlInv, Running, RunningPC
<1>2. Registry!Asked(c)
  BY <1>1, AskedIsRunning
<1>3. CASE principal \notin accounts
  <2>1. /\ answer' = [answer EXCEPT ![c] = Without(NoAccountFor(principal))]
        /\ NoAccountFor(principal) \in {"NotAuthorizedException", "NotFoundException"}
    BY <1>3 DEF FindById, Reply, NoAccountFor
  <2>2. principal \in Retired \cup MalformedPrincipal
    BY <1>1, <1>3 DEF IInv, PrincipalInv, Retired
  <2>3. QED
    BY <1>1, <1>2, <2>1, <2>2, SameApi
       DEF Registry!Miss, Registry!Reply, Links, Retired, storeVars
<1>4. CASE principal \in accounts /\ request[c].op = "getAccountInfo"
  <2>1. answer' = [answer EXCEPT ![c] = Returned({principal})]
    BY <1>4 DEF FindById, Reply
  <2>2. principal \in Registry!Ids
    BY <1>4, IdsAreAccounts
  <2>3. request[c] \in InfoRequest
    BY <1>1, <1>4 DEF DeleteRequest
  <2>4. QED
    BY <1>1, <1>2, <2>1, <2>2, <2>3, SameApi DEF Registry!Inform, Registry!Reply, storeVars
<1>5. CASE principal \in accounts /\ request[c].op # "getAccountInfo"
  <2>1. UNCHANGED answer
    BY <1>5 DEF FindById
  <2>2. QED
    BY <1>1, <2>1 DEF Registry!registryVars, storeVars
<1>6. QED
  BY <1>3, <1>4, <1>5

\* The commit of the DELETEs is the deletion; a lost race is a miss.
LEMMA RemoveRefines ==
    ASSUME IInv, NEW c \in Call, Remove(c)
    PROVE  Registry!Delete(c) \/ Registry!Miss(c)
<1> DEFINE id == request[c].principal
<1>1. /\ pc[c] = "remove" /\ Running(c)
      /\ request[c] \in DeleteRequest
      /\ entity[c].id = id
      /\ id \in persisted
      /\ UNCHANGED <<request, entity, persisted>>
  BY DEF Remove, IInv, ControlInv, Running, RunningPC
<1>2. Registry!Asked(c)
  BY <1>1, AskedIsRunning
<1>3. CASE RowsToDelete(entity[c])
  <2>1. /\ accounts' = accounts \ {id}
        /\ credentials' = credentials \ CredentialsOf(id)
        /\ answer' = [answer EXCEPT ![c] = Returned({})]
        /\ id \in accounts
    BY <1>1, <1>3, RowsRemoved DEF Remove, DeleteAccount, Reply
  <2>2. Links' = {link \in Links : link.account # id}
    BY <2>1 DEF Links, CredentialsOf
  <2>3. Retired' = Retired \cup (Registry!Ids \cap {id})
    BY <1>1, <2>1, IdsAreAccounts DEF Retired
  <2>4. id \in Registry!Ids
    BY <2>1, IdsAreAccounts
  <2>5. QED
    BY <1>1, <1>2, <2>1, <2>2, <2>3, <2>4, SameApi
       DEF Registry!Delete, Registry!Reply, Links, Retired
<1>4. CASE ~RowsToDelete(entity[c])
  <2>1. id \in Retired
    BY <1>1, <1>4, RowsMissing DEF Retired
  <2>2. /\ answer' = [answer EXCEPT
                        ![c] = Without("ObjectOptimisticLockingFailureException")]
        /\ UNCHANGED storeVars
    BY <1>4 DEF Remove, Reply
  <2>3. QED
    BY <1>1, <1>2, <2>1, <2>2, SameApi
       DEF Registry!Miss, Registry!Reply, Links, Retired, storeVars
<1>5. QED
  BY <1>3, <1>4

\* A deletion that finds its row gone deletes an account that was retired.
LEMMA InsertAndRemoveRefines ==
    ASSUME IInv, NEW c \in Call, InsertAndRemove(c)
    PROVE  Registry!Delete(c)
<1> DEFINE id == request[c].principal
<1>1. /\ pc[c] = "insertAndRemove" /\ Running(c)
      /\ request[c] \in DeleteRequest
      /\ id \in persisted /\ id \notin accounts
      /\ UNCHANGED <<storeVars, request, persisted>>
      /\ answer' = [answer EXCEPT ![c] = Returned({})]
  BY DEF InsertAndRemove, Reply, IInv, ControlInv, MergeInv, Running, RunningPC
<1>2. Registry!Asked(c)
  BY <1>1, AskedIsRunning
<1>3. id \in Retired /\ id \notin Registry!Ids
  BY <1>1, IdsAreAccounts DEF Retired
<1>4. Links' = {link \in Links : link.account # id}
  <2>1. \A link \in Links : link.account # id
    BY <1>1 DEF Links, IInv, LinkInv
  <2>2. Links' = Links
    BY <1>1 DEF Links, storeVars
  <2>3. QED
    BY <2>1, <2>2
<1>5. Retired' = Retired \cup (Registry!Ids \cap {id})
  BY <1>1, <1>3 DEF Retired, storeVars
<1>6. QED
  BY <1>1, <1>2, <1>3, <1>4, <1>5, SameApi
     DEF Registry!Delete, Registry!Reply, Links, Retired

\* The rows of the account table are the ids of the registry.
LEMMA FindAllRefines ==
    ASSUME IInv, NEW c \in Call, FindAll(c)
    PROVE  Registry!List(c)
<1>1. Running(c) /\ request[c] \in ListRequest
  BY DEF FindAll, IInv, ControlInv, Running, RunningPC
<1>2. QED
  BY <1>1, AskedIsRunning, IdsAreAccounts, SameApi
     DEF FindAll, Reply, Registry!List, Registry!Reply, storeVars

-----------------------------------------------------------------------------
\* A restart of the server is a reset of the registry.
LEMMA RestartRefines ==
    ASSUME IInv, Restart
    PROVE  Registry!Reset
<1>1. \A c \in Call : Registry!Asked(c) <=> Running(c)
  BY AskedIsRunning
<1>2. answer' = [c \in Call |-> IF Registry!Asked(c) THEN Without("lost") ELSE answer[c]]
  BY <1>1 DEF Restart
<1>3. Retired' = Retired \cup Registry!Ids
  BY IdsAreAccounts DEF Restart, CreateDrop, Retired, IInv, LinkInv
<1>4. QED
  BY <1>2, <1>3, SameApi DEF Restart, CreateDrop, Registry!Reset, Links, Retired

\* Every step of the service is a step of the registry or a stutter.
LEMMA NextRefines == IInv /\ [Next]_vars => [Registry!Next]_(Registry!registryVars)
<1> SUFFICES ASSUME IInv, [Next]_vars
             PROVE  [Registry!Next]_(Registry!registryVars)
  OBVIOUS
<1>1. ASSUME NEW c \in Call, NEW req \in Request, Arrive(c, req)
      PROVE  Registry!Ask(c, req)
  BY <1>1, SameApi DEF Arrive, Registry!Ask, storeVars, IInv, ControlInv
<1>2. ASSUME NEW c \in Call, Step(c)
      PROVE  Registry!Act(c) \/ UNCHANGED Registry!registryVars
  <2>1. Merge(c) => UNCHANGED Registry!registryVars
    BY DEF Merge, Registry!registryVars, storeVars
  <2>2. QED
    BY <1>2, <2>1, LookupRefines, LoadAccountRefines, SaveRefines, FindByIdRefines, RemoveRefines,
       InsertAndRemoveRefines, FindAllRefines DEF Step, Registry!Act
<1>3. CASE Restart
  BY <1>3, RestartRefines DEF Registry!Next
<1>4. CASE UNCHANGED vars
  BY <1>4 DEF vars, storeVars, callVars, Registry!registryVars
<1>5. QED
  BY <1>1, <1>2, <1>3, <1>4, SameApi DEF Next, NoMoreRequests, Registry!Next

\* Every operation of the service is atomic: it has its whole effect in the
\* step that answers it, or no effect.
THEOREM ServiceImplementsRegistry == Spec => RegistrySpec
<1>1. QED
  BY InitRefines, Invariance, NextRefines, PTL DEF Spec, RegistrySpec, Registry!Spec

-----------------------------------------------------------------------------
(***************************************************************************)
(* What AccountRegistry itself guarantees, and so every implementation of  *)
(* it: the proof uses the operations of the registry and nothing of the    *)
(* service.                                                                *)
(***************************************************************************)

RegistryIds == {link.account : link \in Links}

\* Sound, over the names of this module.
TypedLinks ==
    /\ Links \subseteq [login : Login, account : AccountId]
    /\ Retired \subseteq AccountId
    /\ request \in [Call -> Request \cup {NoRequest}]
    /\ answer \in [Call -> Answer]
    /\ \A c \in Call : request[c] = NoRequest => answer[c].outcome = "pending"

LinkedOnce ==
    \A l, m \in Links : l.login = m.login \/ l.account = m.account => l = m

NeverReused == RegistryIds \cap Retired = {}

GoneForGood ==
    \A c \in Call :
        request[c] \in DeleteRequest /\ answer[c].outcome \notin {"pending", "lost"}
        => request[c].principal \in Retired \cup MalformedPrincipal

SoundParts == TypedLinks /\ LinkedOnce /\ NeverReused /\ GoneForGood

\* The two wordings agree, in a state and in the next.
LEMMA SoundIsItsParts ==
    /\ Registry!Sound <=> SoundParts
    /\ Registry!Sound' <=> SoundParts'
<1>1. /\ Registry!Answer = Answer
      /\ Registry!Link = [login : Login, account : AccountId]
  <2>1. Registry!Outcome = Outcome
    BY DEF Registry!Outcome, Registry!Exception, Outcome, Exception
  <2>2. Registry!Answer = Answer
    BY <2>1 DEF Registry!Answer, Answer
  <2>3. Registry!Link = [login : Login, account : AccountId]
    BY DEF Registry!Link, Registry!Login, Login
  <2>4. QED
    BY <2>2, <2>3
<1>2. Registry!TypeOK <=> TypedLinks
  BY <1>1, SameApi DEF Registry!TypeOK, TypedLinks, Links, Retired
<1>3. Registry!TypeOK' <=> TypedLinks'
  BY <1>1, SameApi DEF Registry!TypeOK, TypedLinks, Links, Retired
<1>4. QED
  BY <1>2, <1>3, SameApi
     DEF Registry!Sound, Registry!Ids, SoundParts, LinkedOnce, NeverReused,
         GoneForGood, RegistryIds, Links, Retired

\* A registry that is asked holds a request; the empty one is sound.
LEMMA EmptyIsSound == Registry!Init => SoundParts
<1> SUFFICES ASSUME Registry!Init PROVE SoundParts
  OBVIOUS
<1>1. /\ Links = {} /\ Retired = {}
      /\ request = [c \in Call |-> NoRequest]
      /\ answer = [c \in Call |-> Without("pending")]
  BY SameApi DEF Registry!Init, Links, Retired
<1>2. Without("pending") \in Answer /\ Without("pending").outcome = "pending"
  BY AnswerType DEF Without, Outcome
<1>3. QED
  BY <1>1, <1>2
     DEF SoundParts, TypedLinks, LinkedOnce, NeverReused, GoneForGood, RegistryIds

\* An answer of one call leaves the others', and what was asked, as it was.
LEMMA AnswersStayTyped ==
    ASSUME SoundParts, NEW c \in Call, Registry!Asked(c), UNCHANGED request,
           NEW ans \in Answer, answer' = [answer EXCEPT ![c] = ans]
    PROVE  /\ answer' \in [Call -> Answer]
           /\ \A d \in Call : request'[d] = NoRequest => answer'[d].outcome = "pending"
BY SameApi DEF SoundParts, TypedLinks, Registry!Asked

\* A step that only answers, and answers no deletion or one whose account is
\* gone, keeps the registry sound.
LEMMA AnsweringIsSound ==
    ASSUME SoundParts, NEW c \in Call, Registry!Asked(c), UNCHANGED <<Links, Retired, request>>,
           NEW ans \in Answer, answer' = [answer EXCEPT ![c] = ans],
           request[c] \in DeleteRequest => request[c].principal \in Retired \cup MalformedPrincipal
    PROVE  SoundParts'
<1>1. TypedLinks'
  BY AnswersStayTyped DEF SoundParts, TypedLinks
<1>2. LinkedOnce' /\ NeverReused'
  BY DEF SoundParts, LinkedOnce, NeverReused, RegistryIds
<1>3. GoneForGood'
  BY DEF SoundParts, GoneForGood, TypedLinks
<1>4. QED
  BY <1>1, <1>2, <1>3 DEF SoundParts

\* A creation links a login that was free to an id that was never used.
LEMMA CreateIsSound ==
    ASSUME SoundParts, NEW c \in Call, Registry!Create(c)
    PROVE  SoundParts'
<1> DEFINE login == LoginOf(request[c])
<1>1. PICK id \in AccountId \ (RegistryIds \cup Retired) :
         /\ Links' = Links \cup {[login |-> login, account |-> id]}
         /\ answer' = [answer EXCEPT ![c] = Returned({id})]
  BY SameApi DEF Registry!Create, Registry!Reply, Registry!Ids, RegistryIds, Links, Retired
<1>2. /\ Registry!Asked(c) /\ request[c] \in CreateRequest
      /\ \A link \in Links : link.login # login
      /\ UNCHANGED <<Retired, request>>
  BY SameApi DEF Registry!Create, Registry!IsTaken, Links, Retired
<1>3. login \in Login
  BY <1>2 DEF CreateRequest, EmailRequest, IOSDeviceRequest, LoginOf, EmailLogin,
              VendorIdLogin, Login
<1>4. TypedLinks'
  <2>1. Links' \subseteq [login : Login, account : AccountId] /\ Retired' \subseteq AccountId
    BY <1>1, <1>2, <1>3 DEF SoundParts, TypedLinks
  <2>2. Returned({id}) \in Answer
    BY <1>1, AnswerType
  <2>3. QED
    BY <1>1, <1>2, <2>1, <2>2, AnswersStayTyped DEF SoundParts, TypedLinks
<1>5. LinkedOnce'
  BY <1>1, <1>2 DEF SoundParts, LinkedOnce, RegistryIds
<1>6. RegistryIds' = RegistryIds \cup {id}
  <2> DEFINE new == [login |-> login, account |-> id]
  <2>1. Links' = Links \cup {new} /\ new.account = id
    BY <1>1
  <2> HIDE DEF new
  <2>2. QED
    BY <2>1 DEF RegistryIds
<1>7. NeverReused'
  BY <1>1, <1>2, <1>6 DEF SoundParts, NeverReused
<1>8. GoneForGood'
  BY <1>1, <1>2 DEF SoundParts, GoneForGood, TypedLinks, CreateRequest, EmailRequest,
                    IOSDeviceRequest, DeleteRequest
<1>9. QED
  BY <1>4, <1>5, <1>7, <1>8 DEF SoundParts

\* A deletion retires the id of the link it takes away.
LEMMA DeleteIsSound ==
    ASSUME SoundParts, NEW c \in Call, Registry!Delete(c)
    PROVE  SoundParts'
<1> DEFINE id == request[c].principal
<1>1. /\ Registry!Asked(c) /\ request[c] \in DeleteRequest
      /\ id \in RegistryIds \cup Retired
      /\ Links' = {link \in Links : link.account # id}
      /\ Retired' = Retired \cup (RegistryIds \cap {id})
      /\ answer' = [answer EXCEPT ![c] = Returned({})]
      /\ UNCHANGED request
  BY SameApi DEF Registry!Delete, Registry!Reply, Registry!Ids, RegistryIds, Links, Retired
<1>2. RegistryIds \subseteq AccountId
  BY DEF SoundParts, TypedLinks, RegistryIds
<1>3. TypedLinks'
  BY <1>1, <1>2, AnswerType, AnswersStayTyped DEF SoundParts, TypedLinks
<1>4. LinkedOnce'
  BY <1>1 DEF SoundParts, LinkedOnce
<1>5. RegistryIds' = RegistryIds \ {id}
  BY <1>1 DEF RegistryIds
<1>6. NeverReused'
  BY <1>1, <1>5 DEF SoundParts, NeverReused
<1>7. GoneForGood'
  BY <1>1 DEF SoundParts, GoneForGood, TypedLinks
<1>8. QED
  BY <1>3, <1>4, <1>6, <1>7 DEF SoundParts

\* A restart retires every id and answers nobody.
LEMMA ResetIsSound ==
    ASSUME SoundParts, Registry!Reset
    PROVE  SoundParts'
<1>1. /\ Links' = {} /\ RegistryIds' = {}
      /\ Retired' = Retired \cup RegistryIds
      /\ answer' = [c \in Call |-> IF Registry!Asked(c) THEN Without("lost") ELSE answer[c]]
      /\ UNCHANGED request
  BY SameApi DEF Registry!Reset, Registry!Ids, RegistryIds, Links, Retired
<1>2. RegistryIds \subseteq AccountId
  BY DEF SoundParts, TypedLinks, RegistryIds
<1>3. Without("lost") \in Answer /\ Without("lost").outcome = "lost"
  BY AnswerType DEF Without, Outcome
<1>4. \A c \in Call : Registry!Asked(c) => request[c] # NoRequest
  BY SameApi DEF Registry!Asked
<1>5. TypedLinks'
  BY <1>1, <1>2, <1>3, <1>4 DEF SoundParts, TypedLinks
<1>6. LinkedOnce' /\ NeverReused'
  BY <1>1 DEF LinkedOnce, NeverReused
<1>7. GoneForGood'
  BY <1>1, <1>3 DEF SoundParts, GoneForGood
<1>8. QED
  BY <1>5, <1>6, <1>7 DEF SoundParts

\* Refusals, failures, information, lists and misses answer and change nothing else.
LEMMA AnswersAreSound ==
    ASSUME SoundParts, NEW c \in Call,
           \/ Registry!Refuse(c) \/ Registry!Fail(c) \/ Registry!Inform(c)
           \/ Registry!Miss(c) \/ Registry!List(c)
    PROVE  SoundParts'
<1>1. Registry!Asked(c) /\ UNCHANGED <<Links, Retired, request>>
  BY DEF Registry!Refuse, Registry!Fail, Registry!Inform, Registry!Miss, Registry!List,
         Links, Retired
<1>2. request[c] \in DeleteRequest => request[c].principal \in Retired \cup MalformedPrincipal
  BY SameApi DEF Registry!Refuse, Registry!Fail, Registry!Inform, Registry!Miss,
                 Registry!List, Retired, CreateRequest, EmailRequest, IOSDeviceRequest, InfoRequest, DeleteRequest,
                 ListRequest
<1>3. RegistryIds \subseteq AccountId
  BY DEF SoundParts, TypedLinks, RegistryIds
<1>4. PICK ans \in Answer : answer' = [answer EXCEPT ![c] = ans]
  <2>1. CASE Registry!Refuse(c) \/ Registry!Fail(c) \/ Registry!Miss(c)
    <3>1. PICK e \in Exception : answer' = [answer EXCEPT ![c] = Without(e)]
      BY <2>1, SameApi
         DEF Registry!Refuse, Registry!Fail, Registry!Miss, Registry!Reply, Exception
    <3>2. Without(e) \in Answer
      BY AnswerType DEF Outcome
    <3>3. QED
      BY <3>1, <3>2
  <2>2. CASE Registry!Inform(c)
    BY <1>3, <2>2, SameApi, AnswerType
       DEF Registry!Inform, Registry!Reply, Registry!Ids, RegistryIds, Links
  <2>3. CASE Registry!List(c)
    BY <1>3, <2>3, SameApi, AnswerType
       DEF Registry!List, Registry!Reply, Registry!Ids, RegistryIds, Links
  <2>4. QED
    BY <2>1, <2>2, <2>3
<1>5. QED
  BY <1>1, <1>2, <1>4, AnsweringIsSound

\* A request that arrives has no answer yet.
LEMMA AskIsSound ==
    ASSUME SoundParts, NEW c \in Call, NEW req \in Request, Registry!Ask(c, req)
    PROVE  SoundParts'
<1>1. /\ request[c] = NoRequest
      /\ request' = [request EXCEPT ![c] = req]
      /\ UNCHANGED <<Links, Retired, answer>>
  BY SameApi DEF Registry!Ask, Links, Retired
<1>2. answer[c].outcome = "pending"
  BY <1>1 DEF SoundParts, TypedLinks
<1>3. QED
  BY <1>1, <1>2
     DEF SoundParts, TypedLinks, LinkedOnce, NeverReused, GoneForGood, RegistryIds

\* Every operation of the registry keeps it sound.
LEMMA RegistryStaysSound ==
    SoundParts /\ [Registry!Next]_(Registry!registryVars) => SoundParts'
<1> SUFFICES ASSUME SoundParts, [Registry!Next]_(Registry!registryVars)
             PROVE  SoundParts'
  OBVIOUS
<1>1. CASE UNCHANGED Registry!registryVars
  BY <1>1 DEF Registry!registryVars, SoundParts, TypedLinks, LinkedOnce, NeverReused,
              GoneForGood, RegistryIds, Links, Retired
<1>2. ASSUME NEW c \in Call, Registry!Act(c)
      PROVE  SoundParts'
  BY <1>2, CreateIsSound, DeleteIsSound, AnswersAreSound DEF Registry!Act
<1>3. QED
  BY <1>1, <1>2, AskIsSound, ResetIsSound, SameApi DEF Registry!Next

\* Whatever implements the registry links a login to one account and an
\* account to one login, uses no id twice, and answers a deletion for good.
THEOREM RegistryIsSound == RegistrySpec => []RegistrySound
<1>1. Registry!Init => Registry!Sound
  BY EmptyIsSound, SoundIsItsParts
<1>2. Registry!Sound /\ [Registry!Next]_(Registry!registryVars) => Registry!Sound'
  BY RegistryStaysSound, SoundIsItsParts
<1>3. QED
  BY <1>1, <1>2, PTL DEF RegistrySpec, RegistrySound, Registry!Spec

\* So the service does, woven or not: no credential of a deleted account comes
\* back under its id, and no deletion that was answered leaves its account.
THEOREM ServiceIsSound == Spec => []RegistrySound
BY ServiceImplementsRegistry, RegistryIsSound, PTL
=============================================================================

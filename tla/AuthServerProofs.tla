-------------------------- MODULE AuthServerProofs --------------------------
(***************************************************************************)
(* Proofs about AuthServer: the account service keeps its specification    *)
(* behind the filter, and a token opens no account but its own.            *)
(***************************************************************************)
EXTENDS AuthServer, RegistryProofs, Integers

\* The empty server satisfies the invariant.
LEMMA InitAuthInv == AuthInit => AuthInv
<1> SUFFICES ASSUME AuthInit PROVE AuthInv
  OBVIOUS
<1>1. IInv
  BY InitIInv DEF AuthInit
<1>2. tokenCall = [k \in TokenCall |-> JWT!Idle]
  BY DEF AuthInit, JWT!Init
<1>3. TokenCallShape /\ CredentialInv
  BY <1>2 DEF TokenCallShape, IsTokenCall, CredentialInv, KnowsOwner, JWT!Idle
<1>4. PrincipalsAreAccounts /\ PrincipalsHoldTokens /\ NoPrincipalIsMissing
  BY DEF AuthInit, Init, PrincipalsAreAccounts, PrincipalsHoldTokens,
         NoPrincipalIsMissing, InfoRequest, DeleteRequest, NoRequest, Without
<1>5. QED
  BY <1>1, <1>3, <1>4 DEF AuthInv

-----------------------------------------------------------------------------
(***************************************************************************)
(* The steps of the server are steps of the account service                *)
(***************************************************************************)

\* A cookie that authenticates a request holds a token that was issued.
LEMMA AuthenticatingToken ==
    ASSUME NEW jar \in Jar, IsAuthenticated(jar)
    PROVE  \E k \in JWT!Issued :
              /\ tokenCall[k].cookie.token.subject = Authentication(jar)
              /\ clock <= tokenCall[k].cookie.token.exp * TicksPerSecond
<1>1. Len(jar) = 1 /\ JWT!GetTokenIfValid(jar[1]) # JWT!NoSubject
  BY DEF IsAuthenticated, Authentication
<1>2. PICK v \in CookieValue : jar = <<v>>
  BY <1>1 DEF Jar
<1>3. jar[1] = v
  BY <1>2
<1>4. /\ v \notin {NotAToken, OddToken} /\ Authentication(jar) = v.subject
      /\ clock <= v.exp * TicksPerSecond
  BY <1>1, <1>3 DEF Authentication, JWT!GetTokenIfValid, JWT!NoSubject
<1>5. PICK k \in JWT!Issued : v = tokenCall[k].cookie.token
  BY <1>4 DEF CookieValue, JWT!IssuedTokens
<1>6. QED
  BY <1>4, <1>5

\* It names an account that was committed.
LEMMA AuthenticatedSubject ==
    ASSUME AuthInv, NEW jar \in Jar, IsAuthenticated(jar)
    PROVE  Authentication(jar) \in persisted
  BY AuthenticatingToken DEF AuthInv, CredentialInv, KnowsOwner, JWT!Issued

\* What the filter lets through is a request the account service expects.
LEMMA AdmittedRequest ==
    ASSUME AuthInv, NEW op \in ProtectedOp, NEW jar \in Jar, IsAuthenticated(jar)
    PROVE  LET req == AuthenticatedRequest(op, jar) IN
           /\ req \in Request
           /\ req \in InfoRequest \cup DeleteRequest => req.principal \in persisted
<1> DEFINE principal == Authentication(jar)
<1>1. principal \in persisted
  BY AuthenticatedSubject
<1>2. principal \in Principal
  BY <1>1 DEF AuthInv, IInv, TypeOK, Principal
<1> HIDE DEF principal
<1>3. CASE op = "getAccounts"
  BY <1>3 DEF AuthenticatedRequest, Request, ListRequest, InfoRequest, DeleteRequest
<1>4. CASE op \in {"getAccountInfo", "deleteAccount"}
  <2>1. AuthenticatedRequest(op, jar) = [op |-> op, principal |-> principal]
    BY <1>4 DEF AuthenticatedRequest, principal
  <2>2. [op |-> op, principal |-> principal] \in InfoRequest \cup DeleteRequest
    BY <1>2, <1>4 DEF InfoRequest, DeleteRequest
  <2>3. QED
    BY <1>1, <2>1, <2>2 DEF Request
<1>5. QED
  BY <1>3, <1>4 DEF ProtectedOp

\* Each step of the server is a step of the account service or leaves it alone:
\* what the filter admits is what AccountService assumes of its clients.
LEMMA NextImplementsService == AuthInv /\ [AuthNext]_serverVars => [Next]_vars
<1> SUFFICES ASSUME AuthInv, [AuthNext]_serverVars PROVE [Next]_vars
  OBVIOUS
<1>1. ASSUME NEW c \in Call, NEW req \in CreateRequest, Create(c, req) PROVE Next
  <2>1. req \in Request /\ req \notin InfoRequest \cup DeleteRequest
    BY DEF Request, CreateRequest, EmailRequest, IOSDeviceRequest, InfoRequest,
           DeleteRequest
  <2>2. QED
    BY <1>1, <2>1 DEF Create, Next, KnownPrincipal
<1>2. ASSUME NEW c \in Call, NEW op \in ProtectedOp, NEW jar \in Jar, Admit(c, op, jar)
      PROVE  Next
  BY <1>2, AdmittedRequest DEF Admit, Next, KnownPrincipal
<1>3. ASSUME NEW c \in Call, ServeAccount(c) PROVE Next
  BY <1>3 DEF ServeAccount, Next
<1>4. ServeToken => UNCHANGED vars
  BY DEF ServeToken, JWT!Act, JWT!AskToken, JWT!Serve, JWT!FindCredential,
         JWT!LoadAccount, JWT!BuildToken, JWT!Tick, JWT!storeVars, storeVars, vars
<1>5. ASSUME NEW c \in Call, NEW jar \in Jar, Forbid(c, jar) \/ FailFilter(c, jar)
      PROVE  UNCHANGED vars
  BY <1>5 DEF Forbid, FailFilter
<1>6. RestartServer => Next
  BY DEF RestartServer, Next
<1>7. Quiet \/ UNCHANGED serverVars => UNCHANGED vars
  BY DEF Quiet, serverVars
<1>8. QED
  BY <1>1, <1>2, <1>3, <1>4, <1>5, <1>6, <1>7 DEF AuthNext

-----------------------------------------------------------------------------
(***************************************************************************)
(* The invariant is preserved                                              *)
(***************************************************************************)

\* Rows are only added for ids that were never committed before.
LEMMA NewRows ==
    ASSUME IInv, [Next]_vars
    PROVE  /\ persisted \subseteq persisted'
           /\ \A row \in credentials' : row \in credentials \/ row.account \notin persisted
<1>1. CASE \E c \in Call : Save(c)
  <2>1. PICK c \in Call : Save(c)
    BY <1>1
  <2>2. \A row \in entity[c].credentials : row.account \notin persisted
    BY <2>1 DEF Save, IInv, SaveInv
  <2>3. QED
    BY <2>1, <2>2 DEF Save, InsertAccount, storeVars
<1>2. CASE ~ \E c \in Call : Save(c)
  BY <1>2 DEF Next, Arrive, Step, FindByEmail, FindAllByVendorId, LoadAccount, FindById, Merge,
              Remove, DeleteAccount, InsertAndRemove, FindAll, Restart, CreateDrop,
              NoMoreRequests, vars, storeVars
<1>3. QED
  BY <1>1, <1>2

\* A token call is a record of four fields, of which a step replaces some.
LEMMA CallFields ==
    ASSUME AuthInv, NEW k \in TokenCall
    PROVE  \E S, R, U, V :
              tokenCall[k] \in [step : S, request : R, credential : U, cookie : V]
<1>1. tokenCall[k] \in [step       : {tokenCall[k].step},
                        request    : {tokenCall[k].request},
                        credential : {tokenCall[k].credential},
                        cookie     : {tokenCall[k].cookie}]
  BY DEF AuthInv, TokenCallShape, IsTokenCall
<1>2. QED
  BY <1>1, Zenon

\* The fields of a call that begins.
LEMMA AskedFields ==
    ASSUME AuthInv, NEW k \in TokenCall, NEW x
    PROVE  LET call == [tokenCall[k] EXCEPT !.step = "findCredential", !.request = x] IN
           /\ IsTokenCall(call)
           /\ call.step = "findCredential"
<1>1. PICK S, R, U, V :
         tokenCall[k] \in [step : S, request : R, credential : U, cookie : V]
  BY CallFields
<1>2. QED
  BY <1>1 DEF IsTokenCall

\* The fields of a call that goes on, or ends, with what it has.
LEMMA StepFields ==
    ASSUME AuthInv, NEW k \in TokenCall, NEW step
    PROVE  LET call == [tokenCall[k] EXCEPT !.step = step] IN
           /\ IsTokenCall(call)
           /\ call.step = step
           /\ call.request = tokenCall[k].request
           /\ call.credential = tokenCall[k].credential
<1>1. PICK S, R, U, V :
         tokenCall[k] \in [step : S, request : R, credential : U, cookie : V]
  BY CallFields
<1>2. QED
  BY <1>1 DEF IsTokenCall

\* The fields of a call that has found a credential.
LEMMA FoundFields ==
    ASSUME AuthInv, NEW k \in TokenCall, NEW x
    PROVE  LET call == [tokenCall[k] EXCEPT !.step = "loadAccount", !.credential = x] IN
           /\ IsTokenCall(call)
           /\ call.step = "loadAccount"
           /\ call.request = tokenCall[k].request
           /\ call.credential = x
<1>1. PICK S, R, U, V :
         tokenCall[k] \in [step : S, request : R, credential : U, cookie : V]
  BY CallFields
<1>2. QED
  BY <1>1 DEF IsTokenCall

\* The fields of a call that is answered with a cookie.
LEMMA IssuedFields ==
    ASSUME AuthInv, NEW k \in TokenCall, NEW x
    PROVE  LET call == [tokenCall[k] EXCEPT !.step = "issued", !.cookie = x] IN
           /\ IsTokenCall(call)
           /\ call.step = "issued"
           /\ call.request = tokenCall[k].request
           /\ call.credential = tokenCall[k].credential
           /\ call.cookie = x
<1>1. PICK S, R, U, V :
         tokenCall[k] \in [step : S, request : R, credential : U, cookie : V]
  BY CallFields
<1>2. QED
  BY <1>1 DEF IsTokenCall

\* The steps of the token calls.
LEMMA TokenSteps ==
    ASSUME AuthInv, ServeToken
    PROVE  TokenCallShape' /\ CredentialInv'
<1>1. UNCHANGED <<accounts, credentials, persisted>>
  BY DEF ServeToken, JWT!Act, JWT!AskToken, JWT!Serve, JWT!FindCredential,
         JWT!LoadAccount, JWT!BuildToken, JWT!Tick, JWT!storeVars, storeVars
<1>3. \A k \in TokenCall : KnowsOwner(tokenCall[k])
  BY DEF AuthInv, CredentialInv
<1>4. ASSUME NEW k \in TokenCall, NEW call,
             tokenCall' = [tokenCall EXCEPT ![k] = call],
             IsTokenCall(call), KnowsOwner(call)
      PROVE  TokenCallShape' /\ CredentialInv'
  <2>1. TokenCallShape'
    BY <1>4 DEF AuthInv, TokenCallShape
  <2>2. ASSUME NEW j \in TokenCall PROVE KnowsOwner(tokenCall'[j])
    <3>1. tokenCall'[j] = IF j = k THEN call ELSE tokenCall[j]
      BY <1>4 DEF AuthInv, TokenCallShape
    <3>2. QED
      BY <1>3, <1>4, <3>1
  <2>3. CredentialInv'
    BY <1>1, <2>2 DEF CredentialInv, KnowsOwner, CredentialsOf
  <2>4. QED
    BY <2>1, <2>3
<1>5. ASSUME NEW k \in TokenCall, NEW req \in JWT!TokenRequest, JWT!AskToken(k, req)
      PROVE  TokenCallShape' /\ CredentialInv'
  <2> DEFINE call == [tokenCall[k] EXCEPT !.step = "findCredential", !.request = req]
  <2>1. tokenCall' = [tokenCall EXCEPT ![k] = call]
    BY <1>5 DEF JWT!AskToken
  <2>2. IsTokenCall(call) /\ call.step = "findCredential"
    BY AskedFields
  <2> HIDE DEF call
  <2>3. KnowsOwner(call)
    BY <2>2 DEF KnowsOwner
  <2>4. QED
    BY <1>4, <2>1, <2>2, <2>3
<1>6. ASSUME NEW k \in TokenCall, NEW step,
             tokenCall' = [tokenCall EXCEPT ![k].step = step],
             step \in {"NotAuthorizedException", "JpaObjectRetrievalFailureException"}
                \/ /\ step = "build" /\ tokenCall[k].step = "loadAccount"
                   /\ JWT!Proves(tokenCall[k].request, tokenCall[k].credential)
      PROVE  TokenCallShape' /\ CredentialInv'
  <2> DEFINE call == [tokenCall[k] EXCEPT !.step = step]
  <2>1. tokenCall' = [tokenCall EXCEPT ![k] = call]
    BY <1>6
  <2>2. /\ IsTokenCall(call) /\ call.step = step
        /\ call.request = tokenCall[k].request
        /\ call.credential = tokenCall[k].credential
    BY StepFields
  <2> HIDE DEF call
  <2>3. KnowsOwner(call)
    BY <1>3, <1>6, <2>2 DEF KnowsOwner, JWT!Proves, JWT!Verify, JWT!Hash, Verify, Hash
  <2>4. QED
    BY <1>4, <2>1, <2>2, <2>3
<1>7. ASSUME NEW k \in TokenCall, JWT!FindCredential(k)
      PROVE  TokenCallShape' /\ CredentialInv'
  <2>1. ASSUME NEW row \in JWT!FindByLogin(tokenCall[k].request.login),
               tokenCall' = [tokenCall EXCEPT ![k].step = "loadAccount",
                                              ![k].credential = row]
        PROVE  TokenCallShape' /\ CredentialInv'
    <3> DEFINE call == [tokenCall[k] EXCEPT !.step = "loadAccount", !.credential = row]
    <3>1. tokenCall' = [tokenCall EXCEPT ![k] = call]
      BY <2>1
    <3>2. /\ IsTokenCall(call) /\ call.step = "loadAccount"
          /\ call.request = tokenCall[k].request /\ call.credential = row
      BY FoundFields
    <3>3. row \in credentials /\ row.login = tokenCall[k].request.login
      BY DEF JWT!FindByLogin
    <3>4. row.account \in persisted /\ CredentialsOf(row.account) = {row}
      BY <3>3 DEF AuthInv, IInv, LinkInv, CredentialsOf
    <3> HIDE DEF call
    <3>5. KnowsOwner(call)
      BY <3>2, <3>3, <3>4 DEF KnowsOwner
    <3>6. QED
      BY <1>4, <3>1, <3>2, <3>5
  <2>2. QED
    BY <1>6, <1>7, <2>1 DEF JWT!FindCredential, JWT!Goto
<1>8. ASSUME NEW k \in TokenCall, JWT!LoadAccount(k)
      PROVE  TokenCallShape' /\ CredentialInv'
  BY <1>6, <1>8 DEF JWT!LoadAccount, JWT!Goto
<1>9. ASSUME NEW k \in TokenCall, JWT!BuildToken(k)
      PROVE  TokenCallShape' /\ CredentialInv'
  <2> DEFINE cookie == [token   |-> [subject |-> tokenCall[k].credential.account,
                                     exp     |-> JWT!Expiration(clock)],
                        maxAge  |-> JWT!MaxAge,
                        builtAt |-> clock]
             call   == [tokenCall[k] EXCEPT !.step = "issued", !.cookie = cookie]
  <2>1. tokenCall[k].step = "build" /\ tokenCall' = [tokenCall EXCEPT ![k] = call]
    BY <1>9 DEF JWT!BuildToken
  <2>2. cookie.token.subject = tokenCall[k].credential.account
    OBVIOUS
  <2> HIDE DEF cookie
  <2>3. /\ IsTokenCall(call) /\ call.step = "issued"
        /\ call.request = tokenCall[k].request
        /\ call.credential = tokenCall[k].credential /\ call.cookie = cookie
    BY IssuedFields
  <2> HIDE DEF call
  <2>4. KnowsOwner(call)
    BY <1>3, <2>1, <2>2, <2>3 DEF KnowsOwner
  <2>5. QED
    BY <1>4, <2>1, <2>3, <2>4
<1>10. CASE JWT!Tick
  BY <1>1, <1>10 DEF JWT!Tick, AuthInv, TokenCallShape, CredentialInv, KnowsOwner,
                     CredentialsOf
<1>11. QED
  BY <1>5, <1>7, <1>8, <1>9, <1>10 DEF ServeToken, JWT!Act, JWT!Serve

\* A step of the account service leaves what token calls know true.
LEMMA CredentialsStay ==
    ASSUME AuthInv, [Next]_vars, UNCHANGED tokenCall
    PROVE  CredentialInv'
<1>1. ASSUME NEW k \in TokenCall PROVE KnowsOwner(tokenCall[k])'
  <2> DEFINE call == tokenCall[k]
  <2>1. KnowsOwner(call)
    BY DEF AuthInv, CredentialInv
  <2>2. /\ persisted \subseteq persisted'
        /\ \A row \in credentials' : row \in credentials \/ row.account \notin persisted
    BY NewRows DEF AuthInv
  <2>3. QED
    BY <2>1, <2>2 DEF KnowsOwner, CredentialsOf, JWT!Proves, JWT!Verify, JWT!Hash
<1>2. QED
  BY <1>1 DEF CredentialInv

\* A restart ends token calls and takes every credential away.
LEMMA RestartTokens ==
    ASSUME AuthInv, RestartServer
    PROVE  TokenCallShape' /\ CredentialInv'
<1>1. credentials' = {} /\ persisted' = persisted
  BY DEF RestartServer, Restart, CreateDrop
<1>2. ASSUME NEW k \in TokenCall
      PROVE  \/ tokenCall'[k] = tokenCall[k]
             \/ tokenCall'[k] = [tokenCall[k] EXCEPT !.step = "lost"]
  BY DEF RestartServer, JWT!LoseTokenCalls
<1>3. \A k \in TokenCall :
         \/ tokenCall'[k] = tokenCall[k]
         \/ IsTokenCall(tokenCall'[k]) /\ tokenCall'[k].step = "lost"
  <2> SUFFICES ASSUME NEW k \in TokenCall,
                      tokenCall'[k] = [tokenCall[k] EXCEPT !.step = "lost"]
               PROVE  IsTokenCall(tokenCall'[k]) /\ tokenCall'[k].step = "lost"
    BY <1>2
  <2> DEFINE call == [tokenCall[k] EXCEPT !.step = "lost"]
  <2>1. IsTokenCall(call) /\ call.step = "lost"
    BY StepFields
  <2> HIDE DEF call
  <2>2. tokenCall'[k] = call
    BY DEF call
  <2>3. QED
    BY <2>1, <2>2 DEF IsTokenCall
<1>4. TokenCallShape'
  <2>1. tokenCall' = [k \in TokenCall |-> tokenCall'[k]]
    BY DEF RestartServer, JWT!LoseTokenCalls
  <2>2. \A k \in TokenCall : IsTokenCall(tokenCall'[k])
    BY <1>3 DEF AuthInv, TokenCallShape
  <2>3. QED
    BY <2>1, <2>2 DEF TokenCallShape, IsTokenCall
<1>5. CredentialInv'
  <2> SUFFICES ASSUME NEW k \in TokenCall PROVE KnowsOwner(tokenCall[k])'
    BY DEF CredentialInv
  <2>1. CASE tokenCall'[k].step = "lost"
    BY <2>1 DEF KnowsOwner
  <2>2. CASE tokenCall'[k] = tokenCall[k]
    <3>1. KnowsOwner(tokenCall[k])
      BY DEF AuthInv, CredentialInv
    <3>2. QED
      BY <1>1, <2>2, <3>1 DEF KnowsOwner, CredentialsOf, JWT!Proves, JWT!Verify, JWT!Hash
  <2>3. QED
    BY <1>3, <2>1, <2>2
<1>6. QED
  BY <1>4, <1>5

\* Requests keep principals that were committed.
LEMMA PrincipalsStay ==
    ASSUME AuthInv, [AuthNext]_serverVars
    PROVE  PrincipalsAreAccounts'
<1>1. persisted \subseteq persisted'
  BY NewRows, NextImplementsService DEF AuthInv
<1>2. CASE UNCHANGED request
  BY <1>1, <1>2 DEF AuthInv, PrincipalsAreAccounts
<1>3. ASSUME NEW c \in Call, NEW req \in CreateRequest, Create(c, req)
      PROVE  PrincipalsAreAccounts'
  <2>1. req \notin InfoRequest \cup DeleteRequest
    BY DEF CreateRequest, EmailRequest, IOSDeviceRequest, InfoRequest, DeleteRequest
  <2>2. request' = [request EXCEPT ![c] = req] /\ UNCHANGED persisted
    BY <1>3 DEF Create, Arrive
  <2>3. QED
    BY <2>1, <2>2 DEF AuthInv, IInv, TypeOK, PrincipalsAreAccounts
<1>4. ASSUME NEW c \in Call, NEW op \in ProtectedOp, NEW jar \in Jar, Admit(c, op, jar)
      PROVE  PrincipalsAreAccounts'
  <2> DEFINE req == AuthenticatedRequest(op, jar)
  <2>1. req \in InfoRequest \cup DeleteRequest => req.principal \in persisted
    BY <1>4, AdmittedRequest DEF Admit
  <2>2. request' = [request EXCEPT ![c] = req] /\ UNCHANGED persisted
    BY <1>4 DEF Admit, Arrive
  <2> HIDE DEF req
  <2>3. QED
    BY <2>1, <2>2 DEF AuthInv, IInv, TypeOK, PrincipalsAreAccounts
<1>5. ASSUME ServeToken \/ RestartServer \/ Quiet \/ UNCHANGED serverVars
      PROVE  UNCHANGED request
  BY <1>5 DEF ServeToken, RestartServer, Restart, Quiet, serverVars, vars, callVars
<1>6. ASSUME NEW c \in Call,
             ServeAccount(c) \/ \E jar \in Jar : Forbid(c, jar) \/ FailFilter(c, jar)
      PROVE  UNCHANGED request
  BY <1>6 DEF ServeAccount, Step, FindByEmail, FindAllByVendorId, LoadAccount, Save, FindById, Merge,
              Remove, InsertAndRemove, FindAll, Forbid, FailFilter, vars, callVars
<1>7. QED
  BY <1>2, <1>3, <1>4, <1>5, <1>6 DEF AuthNext

\* A call that was answered with a token is over: nothing takes the token back.
LEMMA IssuedStay ==
    ASSUME AuthInv, [AuthNext]_serverVars, NEW k \in JWT!Issued
    PROVE  k \in JWT!Issued' /\ tokenCall'[k] = tokenCall[k]
<1>1. k \in TokenCall /\ tokenCall[k].step = "issued"
  BY DEF JWT!Issued
<1> SUFFICES tokenCall'[k] = tokenCall[k]
  BY <1>1 DEF JWT!Issued
<1>2. ASSUME NEW j \in TokenCall, NEW x, tokenCall[j].step # "issued",
             tokenCall' = [tokenCall EXCEPT ![j] = x]
      PROVE  tokenCall'[k] = tokenCall[k]
  BY <1>1, <1>2 DEF AuthInv, TokenCallShape
<1>3. CASE ServeToken
  <2>1. CASE UNCHANGED tokenCall
    BY <2>1
  <2>2. CASE ~UNCHANGED tokenCall
    <3>1. PICK j \in TokenCall :
             \/ \E req \in JWT!TokenRequest : JWT!AskToken(j, req)
             \/ JWT!FindCredential(j)
             \/ JWT!LoadAccount(j)
             \/ JWT!BuildToken(j)
      BY <1>3, <2>2 DEF ServeToken, JWT!Act, JWT!Serve, JWT!Tick
    <3>2. tokenCall[j].step # "issued"
      BY <3>1 DEF JWT!AskToken, JWT!FindCredential, JWT!LoadAccount, JWT!BuildToken, JWT!Goto
    <3>3. \E x : tokenCall' = [tokenCall EXCEPT ![j] = x]
      BY <3>1 DEF JWT!AskToken, JWT!FindCredential, JWT!LoadAccount, JWT!BuildToken, JWT!Goto
    <3>4. QED
      BY <1>2, <3>2, <3>3
  <2>3. QED
    BY <2>1, <2>2
<1>4. CASE RestartServer
  BY <1>1, <1>4 DEF RestartServer, JWT!LoseTokenCalls
<1>5. CASE UNCHANGED tokenCall
  BY <1>5
<1>6. QED
  BY <1>3, <1>4, <1>5 DEF AuthNext, Create, Admit, Forbid, FailFilter, ServeAccount, Quiet,
       serverVars

\* A request for one account comes with a token that names it, and the token
\* stays with the call it was issued to.
LEMMA TokensStay ==
    ASSUME AuthInv, [AuthNext]_serverVars
    PROVE  PrincipalsHoldTokens'
<1> DEFINE Holds(principal) ==
       \E k \in JWT!Issued : tokenCall[k].cookie.token.subject = principal
           StillHolds(principal) ==
       \E k \in JWT!Issued' : tokenCall'[k].cookie.token.subject = principal
<1>1. ASSUME NEW principal, Holds(principal) PROVE StillHolds(principal)
  BY <1>1, IssuedStay
<1>2. CASE UNCHANGED request
  BY <1>1, <1>2 DEF AuthInv, PrincipalsHoldTokens
<1>3. ASSUME NEW c \in Call, NEW req, Arrive(c, req),
             req \in InfoRequest \cup DeleteRequest => Holds(req.principal)
      PROVE  PrincipalsHoldTokens'
  <2>1. request' = [request EXCEPT ![c] = req]
    BY <1>3 DEF Arrive
  <2> SUFFICES ASSUME NEW d \in Call, request'[d] \in InfoRequest \cup DeleteRequest
               PROVE  StillHolds(request'[d].principal)
    BY DEF PrincipalsHoldTokens
  <2>2. CASE d = c
    <3>1. request'[d] = req
      BY <2>1, <2>2 DEF AuthInv, IInv, TypeOK
    <3>2. Holds(req.principal)
      BY <1>3, <3>1
    <3>3. QED
      BY <1>1, <3>1, <3>2
  <2>3. CASE d # c
    <3>1. request'[d] = request[d]
      BY <2>1, <2>3 DEF AuthInv, IInv, TypeOK
    <3>2. Holds(request[d].principal)
      BY <3>1 DEF AuthInv, PrincipalsHoldTokens
    <3>3. QED
      BY <1>1, <3>1, <3>2
  <2>4. QED
    BY <2>2, <2>3
<1>4. ASSUME NEW c \in Call, NEW req \in CreateRequest, Create(c, req)
      PROVE  PrincipalsHoldTokens'
  <2>1. req \notin InfoRequest \cup DeleteRequest
    BY DEF CreateRequest, EmailRequest, IOSDeviceRequest, InfoRequest, DeleteRequest
  <2>2. QED
    BY <1>3, <1>4, <2>1 DEF Create
<1>5. ASSUME NEW c \in Call, NEW op \in ProtectedOp, NEW jar \in Jar, Admit(c, op, jar)
      PROVE  PrincipalsHoldTokens'
  <2> DEFINE req == AuthenticatedRequest(op, jar)
  <2>1. Holds(Authentication(jar))
    BY <1>5, AuthenticatingToken DEF Admit
  <2>2. req \in InfoRequest \cup DeleteRequest => req.principal = Authentication(jar)
    BY DEF AuthenticatedRequest, InfoRequest, DeleteRequest
  <2>3. Arrive(c, req)
    BY <1>5 DEF Admit
  <2> HIDE DEF req
  <2>4. QED
    BY <1>3, <2>1, <2>2, <2>3
<1>6. CASE ServeToken \/ RestartServer \/ Quiet \/ UNCHANGED serverVars
  <2>1. UNCHANGED request
    BY <1>6 DEF ServeToken, RestartServer, Restart, Quiet, serverVars, vars, callVars
  <2>2. QED
    BY <1>2, <2>1
<1>7. ASSUME NEW c \in Call,
             ServeAccount(c) \/ \E jar \in Jar : Forbid(c, jar) \/ FailFilter(c, jar)
      PROVE  PrincipalsHoldTokens'
  <2>1. UNCHANGED request
    BY <1>7 DEF ServeAccount, Step, FindByEmail, FindAllByVendorId, LoadAccount, Save, FindById, Merge,
                Remove, InsertAndRemove, FindAll, Forbid, FailFilter, vars, callVars
  <2>2. QED
    BY <1>2, <2>1
<1>8. QED
  BY <1>4, <1>5, <1>6, <1>7 DEF AuthNext

\* The service never answers that the principal is missing.
LEMMA NobodyMissing ==
    ASSUME AuthInv, [Next]_vars
    PROVE  NoPrincipalIsMissing'
<1> SUFFICES ASSUME NEW c \in Call, answer'[c] # answer[c]
             PROVE  answer'[c].outcome # "NotAuthorizedException"
  BY DEF AuthInv, NoPrincipalIsMissing
<1>1. CASE Restart
  <2>1. answer'[c] = Without("lost")
    BY <1>1 DEF Restart
  <2>2. QED
    BY <2>1 DEF Without
<1>2. CASE ~Restart
  <2>1. PICK d \in Call : Step(d)
    BY <1>2 DEF Next, Arrive, NoMoreRequests, vars, callVars
  <2>2. PICK ans : Reply(d, ans)
    BY <2>1 DEF Step, FindByEmail, FindAllByVendorId, LoadAccount, Save, FindById, Merge, Remove,
                InsertAndRemove, FindAll, Goto
  <2>3. d = c
    BY <2>2 DEF Reply, AuthInv, IInv, TypeOK
  <2>4. /\ \A ids : Returned(ids).outcome # "NotAuthorizedException"
        /\ Without("ObjectOptimisticLockingFailureException").outcome
              # "NotAuthorizedException"
        /\ Without("ConflictException").outcome # "NotAuthorizedException"
        /\ Without("JpaObjectRetrievalFailureException").outcome # "NotAuthorizedException"
        /\ \A req : Without(RefusedInsert(req)).outcome # "NotAuthorizedException"
    BY DEF Returned, Without, RefusedInsert
  <2>5. CASE FindById(c)
    <3>1. request[c].principal \in AccountId
      BY <2>5 DEF FindById, AuthInv, IInv, ControlInv, TypeOK, PrincipalsAreAccounts
    <3>2. Without(NoAccountFor(request[c].principal)).outcome = "NotFoundException"
      BY <3>1, PrincipalAssumption DEF NoAccountFor, MalformedPrincipal, Without
    <3>3. QED
      BY <2>4, <2>5, <3>2 DEF FindById, Reply, AuthInv, IInv, TypeOK
  <2>6. CASE ~FindById(c)
    BY <2>1, <2>3, <2>4, <2>6
       DEF Step, FindByEmail, FindAllByVendorId, LoadAccount, Save, Merge, Remove, InsertAndRemove,
           FindAll, Reply, AuthInv, IInv, TypeOK
  <2>7. QED
    BY <2>5, <2>6
<1>3. QED
  BY <1>1, <1>2

\* Every step of the server preserves the invariant.
LEMMA NextAuthInv == AuthInv /\ [AuthNext]_serverVars => AuthInv'
<1> SUFFICES ASSUME AuthInv, [AuthNext]_serverVars PROVE AuthInv'
  OBVIOUS
<1>1. [Next]_vars
  BY NextImplementsService
<1>2. IInv'
  BY <1>1, NextIInv DEF AuthInv
<1>3. PrincipalsAreAccounts' /\ PrincipalsHoldTokens' /\ NoPrincipalIsMissing'
  BY <1>1, PrincipalsStay, TokensStay, NobodyMissing
<1>4. TokenCallShape' /\ CredentialInv'
  <2>1. CASE UNCHANGED tokenCall
    BY <1>1, <2>1, CredentialsStay DEF AuthInv, TokenCallShape
  <2>2. CASE ServeToken \/ RestartServer
    BY <2>2, TokenSteps, RestartTokens
  <2>3. QED
    BY <2>1, <2>2 DEF AuthNext, Create, Admit, Forbid, FailFilter, ServeAccount, Quiet,
       serverVars
<1>5. QED
  BY <1>2, <1>3, <1>4 DEF AuthInv

\* The invariant holds in every reachable state of the server.
THEOREM AuthInvariance == AuthSpec => []AuthInv
  BY InitAuthInv, NextAuthInv, PTL DEF AuthSpec

-----------------------------------------------------------------------------
(***************************************************************************)
(* Results                                                                 *)
(***************************************************************************)

\* Behind the filter the account service keeps its specification: the tokens
\* it accepts bring it no principals but accounts that were committed.
THEOREM ServerImplementsService == AuthSpec => ServiceSpec
<1>1. AuthInit => Init
  BY DEF AuthInit
<1>2. QED
  BY <1>1, AuthInvariance, NextImplementsService, PTL DEF AuthSpec, ServiceSpec, Spec

\* So the server as a whole is the registry of AccountRegistry to its clients,
\* and what the registry guarantees holds of the tables behind the filter.
THEOREM ServerImplementsRegistry == AuthSpec => RegistrySpec /\ []RegistrySound
BY ServerImplementsService, ServiceImplementsRegistry, ServiceIsSound, PTL DEF ServiceSpec

\* And what is proved of AccountService alone holds with the clients the filter
\* lets through, whatever tokens they kept.
THEOREM ServerKeepsTables ==
    AuthSpec => [](UniqueLogin /\ AccountsLinked /\ AnsweredDeleteMeansGone)
BY ServerImplementsService, LoginsAreUnique, AccountsStayLinked, DeletedAccountsStayGone, PTL
   DEF ServiceSpec

\* What the account service does to the database is what JWTService expects.
LEMMA EnvironmentSteps ==
    ASSUME AuthInv, NEW c \in Call, ServeAccount(c)
    PROVE  JWT!Environment \/ UNCHANGED <<JWT!storeVars, JWT!jwtVars>>
<1>1. UNCHANGED JWT!jwtVars
  BY DEF ServeAccount, JWT!jwtVars
<1> SUFFICES ASSUME <<accounts', credentials'>> # <<accounts, credentials>>
             PROVE  JWT!Environment
  BY <1>1 DEF JWT!storeVars
<1>2. CASE Save(c)
  <2>1. /\ ~ViolatesIntegrity(entity[c]) /\ InsertAccount(entity[c])
        /\ pc[c] = "save"
    BY <1>2 DEF Save, storeVars
  <2>2. PICK r \in Credential :
           entity[c].credentials = {r} /\ r.account = entity[c].id
    BY <2>1 DEF AuthInv, IInv, SaveInv
  <2>3. entity[c].id \in AccountId \ accounts
    BY <2>1 DEF AuthInv, IInv, SaveInv, LinkInv
  <2>4. r \in JWT!Credential
    BY DEF Credential, JWT!Credential, Login, JWT!Login, EmailLogin, JWT!EmailLogin,
           VendorIdLogin, JWT!VendorIdLogin, Hash, JWT!Hash
  <2>5. entity[c] \in [id : AccountId \ accounts, credentials : {{r}}]
    BY <2>2, <2>3 DEF AuthInv, IInv, TypeOK, Entity
  <2>6. entity[c] \in JWT!NewAccount
    BY <2>2, <2>4, <2>5 DEF JWT!NewAccount
  <2>7. ~JWT!ViolatesIntegrity(entity[c]) /\ JWT!InsertAccount(entity[c])
    BY <2>1 DEF ViolatesIntegrity, Linked, FindByLogin, Fits, InsertAccount,
                JWT!ViolatesIntegrity, JWT!Linked, JWT!FindByLogin, JWT!Fits,
                JWT!InsertAccount
  <2>8. QED
    BY <1>1, <2>6, <2>7 DEF JWT!Environment
<1>3. CASE Remove(c)
  <2> DEFINE id == entity[c].id
  <2>1. RowsToDelete(entity[c]) /\ DeleteAccount(entity[c]) /\ pc[c] = "remove"
    BY <1>3 DEF Remove, storeVars
  <2>2. id \in accounts /\ entity[c].credentials \subseteq credentials
    BY <2>1 DEF RowsToDelete
  <2>3. entity[c].credentials = CredentialsOf(id)
    <3>1. /\ CredentialsOf(id) \subseteq entity[c].credentials
          /\ \A r1, r2 \in entity[c].credentials : r1 = r2
      BY <2>1 DEF AuthInv, IInv, MergeInv
    <3>2. \E r \in credentials : r.account = id
      BY <2>2 DEF AuthInv, IInv, LinkInv
    <3>3. QED
      BY <3>1, <3>2 DEF CredentialsOf
  <2>4. JWT!DeleteAccount([id |-> id, credentials |-> JWT!CredentialsOf(id)])
    BY <2>1, <2>3 DEF DeleteAccount, CredentialsOf, JWT!DeleteAccount, JWT!CredentialsOf
  <2>5. QED
    BY <1>1, <2>2, <2>4 DEF JWT!Environment
<1>4. QED
  BY <1>2, <1>3 DEF ServeAccount, Step, FindByEmail, FindAllByVendorId, LoadAccount, FindById, Merge,
                    InsertAndRemove, FindAll, storeVars

\* Each step of the server is a step of the token service or of its environment.
LEMMA NextImplementsTokens ==
    AuthInv /\ [AuthNext]_serverVars => [JWT!Next]_<<JWT!storeVars, JWT!jwtVars>>
<1> SUFFICES ASSUME AuthInv, [AuthNext]_serverVars
             PROVE  [JWT!Next]_<<JWT!storeVars, JWT!jwtVars>>
  OBVIOUS
<1>1. CASE ServeToken
  BY <1>1 DEF ServeToken, JWT!Next
<1>2. CASE RestartServer
  BY <1>2 DEF RestartServer, Restart, CreateDrop, JWT!CreateDrop, JWT!Next
<1>3. ASSUME NEW c \in Call, ServeAccount(c)
      PROVE  [JWT!Next]_<<JWT!storeVars, JWT!jwtVars>>
  BY <1>3, EnvironmentSteps DEF JWT!Next
<1>4. ASSUME NEW c \in Call, NEW req, Create(c, req)
      PROVE  UNCHANGED <<JWT!storeVars, JWT!jwtVars>>
  BY <1>4 DEF Create, Arrive, storeVars, JWT!storeVars, JWT!jwtVars
<1>5. ASSUME NEW c \in Call, NEW op, NEW jar, Admit(c, op, jar)
      PROVE  UNCHANGED <<JWT!storeVars, JWT!jwtVars>>
  BY <1>5 DEF Admit, Arrive, storeVars, JWT!storeVars, JWT!jwtVars
<1>6. ASSUME NEW c \in Call, NEW jar, Forbid(c, jar) \/ FailFilter(c, jar)
      PROVE  UNCHANGED <<JWT!storeVars, JWT!jwtVars>>
  BY <1>6 DEF Forbid, FailFilter, vars, storeVars, JWT!storeVars, JWT!jwtVars
<1>7. CASE Quiet \/ UNCHANGED serverVars
  BY <1>7 DEF Quiet, serverVars, vars, storeVars, JWT!storeVars, JWT!jwtVars
<1>8. QED
  BY <1>1, <1>2, <1>3, <1>4, <1>5, <1>6, <1>7 DEF AuthNext

\* The token service keeps its specification over the database that the account
\* service writes, and the server's restart is a restart of both.
THEOREM ServerImplementsTokens == AuthSpec => TokenServiceSpec
<1>1. AuthInit => JWT!Init
  BY DEF AuthInit
<1>2. QED
  BY <1>1, AuthInvariance, NextImplementsTokens, PTL
     DEF AuthSpec, TokenServiceSpec, JWT!Spec

\* An account is removed only when a token names it whose call knew the login
\* and the password of the account's row.
THEOREM OwnersAloneRemove == AuthSpec => OnlyOwnerRemoves
<1> DEFINE Owns(k, id) ==
       /\ tokenCall[k].cookie.token.subject = id
       /\ \A row \in CredentialsOf(id) :
             /\ row.login = tokenCall[k].request.login
             /\ row.login.kind = "email" => Verify(tokenCall[k].request.password, row.detail)
           A == \A id \in accounts \ accounts' :
                   \/ restarts' # restarts
                   \/ \E k \in JWT!Issued : Owns(k, id)
<1>1. ASSUME AuthInv, [AuthNext]_serverVars, NEW id \in accounts \ accounts',
             restarts' = restarts
      PROVE  \E k \in JWT!Issued : Owns(k, id)
  <2>1. [Next]_vars
    BY <1>1, NextImplementsService
  <2>2. PICK c \in Call : request[c] \in DeleteRequest /\ request[c].principal = id
    BY <1>1, <2>1, RemovingStep DEF AuthInv
  <2>3. PICK k \in JWT!Issued : tokenCall[k].cookie.token.subject = id
    BY <1>1, <2>2 DEF AuthInv, PrincipalsHoldTokens
  <2>4. TokenOpensItsOwnAccount
    BY <1>1 DEF AuthInv, CredentialInv, KnowsOwner, TokenOpensItsOwnAccount, JWT!Issued,
       JWT!Proves, JWT!Verify, JWT!Hash, Verify, Hash
  <2>5. QED
    BY <2>3, <2>4 DEF TokenOpensItsOwnAccount
<1>2. AuthInv /\ [AuthNext]_serverVars => [A]_serverVars
  BY <1>1 DEF A
<1>3. QED
  BY <1>2, AuthInvariance, PTL DEF AuthSpec, A, Owns, OnlyOwnerRemoves

\* A token opens only the account whose login and password it was issued for,
\* through deletions, new registrations and restarts.
THEOREM TokensOpenTheirOwnAccount == AuthSpec => []TokenOpensItsOwnAccount
<1>1. AuthInv => TokenOpensItsOwnAccount
  BY DEF AuthInv, CredentialInv, KnowsOwner, TokenOpensItsOwnAccount, JWT!Issued,
       JWT!Proves, JWT!Verify, JWT!Hash, Verify, Hash
<1>2. QED
  BY AuthInvariance, <1>1, PTL

\* The service's own checks for a missing principal never fire.
THEOREM PrincipalsArePresent == AuthSpec => []NoPrincipalIsMissing
<1>1. AuthInv => NoPrincipalIsMissing
  BY DEF AuthInv
<1>2. QED
  BY AuthInvariance, <1>1, PTL

-----------------------------------------------------------------------------
(***************************************************************************)
(* Time: the tokens of the server                                          *)
(***************************************************************************)

\* What a token call has learnt and what its cookie says, as in JWTService.
CookieOK(cookie) ==
    /\ cookie \in JWT!Cookie
    /\ cookie.token.exp = JWT!Seconds(cookie.builtAt + Lifetime)
    /\ cookie.maxAge = JWT!Seconds(Lifetime)

CallOK(call) ==
    /\ call \in JWT!TokenCallRecord
    /\ call.step \in {"findCredential", "loadAccount", "build", "issued"} =>
           call.request \in JWT!TokenRequest
    /\ call.step \in {"loadAccount", "build", "issued"} => call.credential \in JWT!Credential
    /\ call.step = "issued" => CookieOK(call.cookie)

TimedInv ==
    /\ AuthTypeOK
    /\ \A k \in TokenCall : CallOK(tokenCall[k])

\* Cutting a time off to whole seconds takes less than a second away.
LEMMA SecondsDown ==
    ASSUME NEW n \in Nat
    PROVE  /\ JWT!Seconds(n) \in 0..n
           /\ JWT!Seconds(n) * TicksPerSecond \in Nat
           /\ JWT!Seconds(n) * TicksPerSecond <= n
           /\ n < JWT!Seconds(n) * TicksPerSecond + TicksPerSecond
<1> DEFINE q == n \div TicksPerSecond
<1>1. TicksPerSecond \in Nat /\ TicksPerSecond > 0
  BY TimeAssumption
<1>2. /\ q \in Int
      /\ q * TicksPerSecond <= n
      /\ n < q * TicksPerSecond + TicksPerSecond
  BY <1>1
<1>3. q >= 0
  BY <1>1, <1>2
<1>4. q <= q * TicksPerSecond /\ q * TicksPerSecond \in Nat
  BY <1>1, <1>2, <1>3
<1> HIDE DEF q
<1>5. QED
  BY <1>1, <1>2, <1>3, <1>4 DEF JWT!Seconds, q

\* EXPIRATION_TIME / 1000 loses nothing.
LEMMA WholeSeconds == JWT!Seconds(Lifetime) * TicksPerSecond = Lifetime
<1>1. TicksPerSecond \in Nat /\ TicksPerSecond > 0 /\ Lifetime \in Nat
  BY TimeAssumption
<1>2. PICK seconds \in 1..Lifetime : Lifetime = seconds * TicksPerSecond
  BY TimeAssumption
<1> DEFINE q == JWT!Seconds(Lifetime)
<1>3. /\ q \in Int /\ seconds \in Int
      /\ q * TicksPerSecond <= Lifetime
      /\ Lifetime < q * TicksPerSecond + TicksPerSecond
  BY <1>1, <1>2, SecondsDown
<1> HIDE DEF q
<1>4. /\ (seconds - q) * TicksPerSecond >= 0
      /\ (seconds - q) * TicksPerSecond < TicksPerSecond
  BY <1>1, <1>2, <1>3
<1>5. seconds = q
  BY <1>1, <1>3, <1>4
<1>6. QED
  BY <1>2, <1>5 DEF q

\* The empty server.
LEMMA InitTimed == AuthInit => TimedInv
<1> SUFFICES ASSUME AuthInit PROVE TimedInv
  OBVIOUS
<1>1. TypeOK
  BY InitIInv DEF AuthInit, IInv
<1>2. tokenCall = [k \in TokenCall |-> JWT!Idle] /\ clock = 0
  BY DEF AuthInit, JWT!Init
<1>3. CallOK(JWT!Idle)
  BY DEF CallOK, JWT!Idle, JWT!TokenCallRecord, JWT!NoRequest, NoRequest
<1>4. JWT!StoreTypeOK
  BY DEF AuthInit, JWT!Init, JWT!StoreInit, JWT!StoreTypeOK
<1>5. QED
  BY <1>1, <1>2, <1>3, <1>4, TimeAssumption
     DEF TimedInv, AuthTypeOK, JWT!TypeOK, CallOK, AuthInit

\* The tables hold what JWTService takes them to hold.
LEMMA SameCredential == JWT!Credential = Credential
BY DEF Credential, JWT!Credential, Login, JWT!Login, EmailLogin, JWT!EmailLogin,
       VendorIdLogin, JWT!VendorIdLogin, Hash, JWT!Hash

\* A step of one token call, which leaves the store and the clock alone.
LEMMA OneCallTimed ==
    ASSUME TimedInv, NEW k \in TokenCall, NEW call,
           tokenCall' = [tokenCall EXCEPT ![k] = call],
           CallOK(call),
           UNCHANGED clock
    PROVE  /\ tokenCall' \in [TokenCall -> JWT!TokenCallRecord]
           /\ \A j \in TokenCall : CallOK(tokenCall'[j])
  BY DEF TimedInv, AuthTypeOK, JWT!TypeOK, CallOK

\* Every step of the token calls, and the clock.
LEMMA TokenTimed ==
    ASSUME TimedInv, ServeToken
    PROVE  /\ clock' \in 0..MaxClock
           /\ tokenCall' \in [TokenCall -> JWT!TokenCallRecord]
           /\ \A j \in TokenCall : CallOK(tokenCall'[j])
<1>1. /\ clock \in 0..MaxClock
      /\ tokenCall \in [TokenCall -> JWT!TokenCallRecord]
      /\ \A k \in TokenCall : CallOK(tokenCall[k])
  BY DEF TimedInv, AuthTypeOK, JWT!TypeOK
<1>2. ASSUME NEW k \in TokenCall, NEW req \in JWT!TokenRequest, JWT!AskToken(k, req)
      PROVE  /\ UNCHANGED clock
             /\ \E call : CallOK(call) /\ tokenCall' = [tokenCall EXCEPT ![k] = call]
  <2> DEFINE call == [tokenCall[k] EXCEPT !.step = "findCredential", !.request = req]
  <2>1. UNCHANGED clock /\ tokenCall' = [tokenCall EXCEPT ![k] = call]
    BY <1>2 DEF JWT!AskToken
  <2>2. CallOK(call)
    BY <1>1 DEF CallOK, JWT!TokenCallRecord
  <2>3. QED
    BY <2>1, <2>2
<1>3. ASSUME NEW k \in TokenCall, JWT!FindCredential(k)
      PROVE  /\ UNCHANGED clock
             /\ \E call : CallOK(call) /\ tokenCall' = [tokenCall EXCEPT ![k] = call]
  <2>1. UNCHANGED clock /\ tokenCall[k].step = "findCredential"
    BY <1>3 DEF JWT!FindCredential
  <2>2. CASE tokenCall' = [tokenCall EXCEPT ![k].step = "NotAuthorizedException"]
    <3> DEFINE call == [tokenCall[k] EXCEPT !.step = "NotAuthorizedException"]
    <3>1. CallOK(call)
      BY <1>1 DEF CallOK, JWT!TokenCallRecord
    <3>2. QED
      BY <2>1, <2>2, <3>1
  <2>3. ASSUME NEW row \in credentials,
               tokenCall' = [tokenCall EXCEPT ![k].step = "loadAccount",
                                              ![k].credential = row]
        PROVE  \E call : CallOK(call) /\ tokenCall' = [tokenCall EXCEPT ![k] = call]
    <3> DEFINE call == [tokenCall[k] EXCEPT !.step = "loadAccount", !.credential = row]
    <3>1. row \in JWT!Credential
      BY SameCredential DEF TimedInv, AuthTypeOK, TypeOK, StoreTypeOK
    <3>2. CallOK(call)
      BY <1>1, <2>1, <3>1 DEF CallOK, JWT!TokenCallRecord
    <3>3. QED
      BY <2>3, <3>2
  <2>4. QED
    BY <1>3, <2>1, <2>2, <2>3 DEF JWT!FindCredential, JWT!FindByLogin, JWT!Goto
<1>4. ASSUME NEW k \in TokenCall, JWT!LoadAccount(k)
      PROVE  /\ UNCHANGED clock
             /\ \E call : CallOK(call) /\ tokenCall' = [tokenCall EXCEPT ![k] = call]
  <2>1. UNCHANGED clock /\ tokenCall[k].step = "loadAccount"
    BY <1>4 DEF JWT!LoadAccount
  <2>2. PICK step \in {"JpaObjectRetrievalFailureException", "NotAuthorizedException", "build"} :
           tokenCall' = [tokenCall EXCEPT ![k].step = step]
    BY <1>4 DEF JWT!LoadAccount, JWT!Goto
  <2> DEFINE call == [tokenCall[k] EXCEPT !.step = step]
  <2>3. CallOK(call)
    BY <1>1, <2>1 DEF CallOK, JWT!TokenCallRecord
  <2>4. QED
    BY <2>1, <2>2, <2>3
<1>5. ASSUME NEW k \in TokenCall, JWT!BuildToken(k)
      PROVE  /\ UNCHANGED clock
             /\ \E call : CallOK(call) /\ tokenCall' = [tokenCall EXCEPT ![k] = call]
  <2> DEFINE cookie == [token   |-> [subject |-> tokenCall[k].credential.account,
                                     exp     |-> JWT!Expiration(clock)],
                        maxAge  |-> JWT!MaxAge,
                        builtAt |-> clock]
             call   == [tokenCall[k] EXCEPT !.step = "issued", !.cookie = cookie]
  <2>1. /\ UNCHANGED clock /\ tokenCall[k].step = "build"
        /\ tokenCall' = [tokenCall EXCEPT ![k] = call]
    BY <1>5 DEF JWT!BuildToken
  <2>2. /\ tokenCall[k].credential.account \in AccountId
        /\ tokenCall[k].request \in JWT!TokenRequest
    BY <1>1, <2>1 DEF CallOK, JWT!Credential
  <2>3. /\ clock + Lifetime \in Nat /\ clock + Lifetime <= MaxClock + Lifetime
        /\ MaxClock + Lifetime \in Nat /\ Lifetime \in Nat
    BY <1>1, TimeAssumption
  <2>4. /\ JWT!Expiration(clock) \in 0..(MaxClock + Lifetime)
        /\ JWT!Expiration(clock) = JWT!Seconds(clock + Lifetime)
    <3>1. JWT!Seconds(clock + Lifetime) \in 0..(clock + Lifetime)
      BY <2>3, SecondsDown
    <3>2. QED
      BY <2>3, <3>1 DEF JWT!Expiration
  <2>5. JWT!MaxAge \in 0..Lifetime
    BY <2>3, SecondsDown DEF JWT!MaxAge
  <2>6. CookieOK(cookie)
    BY <1>1, <2>2, <2>4, <2>5 DEF CookieOK, JWT!Cookie, JWT!Token, JWT!MaxAge
  <2> HIDE DEF cookie
  <2>7. CallOK(call)
    BY <1>1, <2>1, <2>2, <2>6 DEF CallOK, CookieOK, JWT!TokenCallRecord
  <2>8. QED
    BY <2>1, <2>7
<1>6. CASE JWT!Tick
  BY <1>1, <1>6, TimeAssumption DEF JWT!Tick
<1>7. QED
  BY <1>1, <1>2, <1>3, <1>4, <1>5, <1>6, OneCallTimed DEF ServeToken, JWT!Act, JWT!Serve

\* Every step of the server keeps the types of both services.
LEMMA NextTimed == AuthInv' /\ TimedInv /\ [AuthNext]_serverVars => TimedInv'
<1> SUFFICES ASSUME AuthInv', TimedInv, [AuthNext]_serverVars PROVE TimedInv'
  OBVIOUS
<1>1. TypeOK'
  BY DEF AuthInv, IInv
<1>2. JWT!StoreTypeOK'
  BY <1>1, SameCredential DEF TypeOK, StoreTypeOK, JWT!StoreTypeOK
<1>3. forbidden' \subseteq Call
  BY DEF TimedInv, AuthTypeOK, AuthNext, Create, Admit, Forbid, FailFilter, ServeAccount,
         ServeToken, RestartServer, Quiet, serverVars
<1>4. /\ clock' \in 0..MaxClock
      /\ tokenCall' \in [TokenCall -> JWT!TokenCallRecord]
      /\ \A j \in TokenCall : CallOK(tokenCall'[j])
  <2>1. CASE UNCHANGED <<clock, tokenCall>>
    BY <2>1 DEF TimedInv, AuthTypeOK, JWT!TypeOK
  <2>2. CASE RestartServer
    <3>1. UNCHANGED clock
      BY <2>2 DEF RestartServer, JWT!LoseTokenCalls
    <3>2. ASSUME NEW j \in TokenCall PROVE CallOK(tokenCall'[j])
      <4>1. CallOK(tokenCall[j]) /\ CallOK([tokenCall[j] EXCEPT !.step = "lost"])
        BY DEF TimedInv, CallOK, JWT!TokenCallRecord
      <4>2. QED
        BY <2>2, <4>1 DEF RestartServer, JWT!LoseTokenCalls
    <3>3. tokenCall' \in [TokenCall -> JWT!TokenCallRecord]
      BY <2>2, <3>2 DEF RestartServer, JWT!LoseTokenCalls, CallOK
    <3>4. QED
      BY <3>1, <3>2, <3>3 DEF TimedInv, AuthTypeOK, JWT!TypeOK
  <2>3. CASE ServeToken
    BY <2>3, TokenTimed
  <2>4. QED
    BY <2>1, <2>2, <2>3 DEF AuthNext, Create, Admit, Forbid, FailFilter, ServeAccount, Quiet,
       serverVars
<1>5. QED
  BY <1>1, <1>2, <1>3, <1>4 DEF TimedInv, AuthTypeOK, JWT!TypeOK

\* They keep them in every reachable state of the server.
LEMMA TimedInvariance == AuthSpec => []TimedInv
  BY InitTimed, NextTimed, AuthInvariance, PTL DEF AuthSpec

\* Both services stay type correct over the shared database: no token names
\* anything but an account id.
THEOREM ServerTypeCorrect == AuthSpec => []AuthTypeOK
<1>1. TimedInv => AuthTypeOK
  BY DEF TimedInv
<1>2. QED
  BY TimedInvariance, <1>1, PTL

\* A protected operation is only admitted for the subject of a token that was
\* issued no longer ago than its lifetime, for any lifetime and resolution of
\* the clock.
THEOREM AdmissionsAreTimely == AuthSpec => AdmittedWhileValid
<1> DEFINE Timely(c) ==
       \E k \in JWT!Issued :
          /\ tokenCall[k].cookie.token.subject = request'[c].principal
          /\ clock <= tokenCall[k].cookie.builtAt + Lifetime
           A == \A c \in Call :
                   /\ request[c] = NoRequest
                   /\ request'[c] \in InfoRequest \cup DeleteRequest
                   => Timely(c)
<1>1. ASSUME AuthInv, TimedInv, [AuthNext]_serverVars, NEW c \in Call,
             request[c] = NoRequest, request'[c] \in InfoRequest \cup DeleteRequest
      PROVE  Timely(c)
  <2>1. request'[c] # request[c]
    BY <1>1 DEF NoRequest, Without, InfoRequest, DeleteRequest
  <2>2. ASSUME NEW d \in Call, NEW req \in CreateRequest, Create(d, req) PROVE FALSE
    <3>1. request' = [request EXCEPT ![d] = req]
      BY <2>2 DEF Create, Arrive
    <3>2. request'[c] = req
      BY <1>1, <2>1, <3>1 DEF AuthInv, IInv, TypeOK
    <3>3. QED
      BY <1>1, <3>2 DEF CreateRequest, EmailRequest, IOSDeviceRequest, InfoRequest,
                        DeleteRequest
  <2>3. ASSUME ServeToken \/ RestartServer \/ Quiet \/ UNCHANGED serverVars PROVE FALSE
    BY <2>1, <2>3 DEF ServeToken, RestartServer, Restart, Quiet, serverVars, vars, callVars
  <2>4. ASSUME NEW d \in Call,
               ServeAccount(d) \/ \E jar \in Jar : Forbid(d, jar) \/ FailFilter(d, jar)
        PROVE  FALSE
    BY <2>1, <2>4 DEF ServeAccount, Step, FindByEmail, FindAllByVendorId, LoadAccount, Save, FindById,
                      Merge, Remove, InsertAndRemove, FindAll, Forbid, FailFilter, vars,
                      callVars
  <2>5. PICK d \in Call, op \in ProtectedOp, jar \in Jar : Admit(d, op, jar)
    BY <1>1, <2>2, <2>3, <2>4 DEF AuthNext
  <2>6. request' = [request EXCEPT ![d] = AuthenticatedRequest(op, jar)]
    BY <2>5 DEF Admit, Arrive
  <2>7. request'[c] = AuthenticatedRequest(op, jar)
    BY <1>1, <2>1, <2>6 DEF AuthInv, IInv, TypeOK
  <2>8. request'[c].principal = Authentication(jar)
    BY <1>1, <2>7 DEF AuthenticatedRequest, InfoRequest, DeleteRequest
  <2>9. PICK k \in JWT!Issued :
           /\ tokenCall[k].cookie.token.subject = Authentication(jar)
           /\ clock <= tokenCall[k].cookie.token.exp * TicksPerSecond
    BY <2>5, AuthenticatingToken DEF Admit
  <2>10. CookieOK(tokenCall[k].cookie)
    BY <1>1, <2>9 DEF TimedInv, CallOK, JWT!Issued
  <2> DEFINE end == tokenCall[k].cookie.builtAt + Lifetime
  <2> DEFINE exp == tokenCall[k].cookie.token.exp
  <2>11. end \in Nat /\ clock \in Nat /\ exp = JWT!Seconds(end)
    BY <1>1, <2>9, <2>10, TimeAssumption
       DEF CookieOK, JWT!Cookie, TimedInv, AuthTypeOK, JWT!TypeOK
  <2>12. clock <= exp * TicksPerSecond
    BY <2>9
  <2> HIDE DEF end, exp
  <2>13. exp \in Nat /\ exp * TicksPerSecond \in Int /\ exp * TicksPerSecond <= end
    BY <2>11, SecondsDown, TimeAssumption
  <2>14. clock <= end
    BY <2>11, <2>12, <2>13
  <2>15. QED
    BY <2>8, <2>9, <2>14 DEF end
<1>2. AuthInv /\ TimedInv /\ [AuthNext]_serverVars => [A]_serverVars
  BY <1>1 DEF A
<1>3. QED
  BY <1>2, AuthInvariance, TimedInvariance, PTL DEF AuthSpec, A, AdmittedWhileValid

\* What decides whether the filter honours a token that was issued.
LEMMA HonouredTokens ==
    ASSUME TimedInv, NEW k \in JWT!Issued
    PROVE  LET cookie == tokenCall[k].cookie
               end    == cookie.builtAt + Lifetime IN
           /\ clock \in Nat /\ end \in Nat /\ cookie.builtAt \in Nat
           /\ cookie.maxAge * TicksPerSecond = Lifetime
           /\ JWT!IsValid(cookie.token) <=>
                 clock <= JWT!Seconds(end) * TicksPerSecond
<1> DEFINE cookie == tokenCall[k].cookie
<1>1. CookieOK(cookie)
  BY DEF TimedInv, CallOK, JWT!Issued
<1>2. cookie.token \in JWT!Token /\ cookie.builtAt \in 0..MaxClock
  BY <1>1 DEF CookieOK, JWT!Cookie
<1>3. cookie.token \notin {NotAToken, OddToken}
  BY <1>2, ForgeryAssumption
<1>4. cookie.token.subject # JWT!NoSubject
  BY <1>2, PrincipalAssumption DEF JWT!Token, JWT!NoSubject, MalformedPrincipal
<1>5. cookie.maxAge * TicksPerSecond = Lifetime
  BY <1>1, WholeSeconds DEF CookieOK
<1>6. clock \in Nat
  BY TimeAssumption DEF TimedInv, AuthTypeOK, JWT!TypeOK
<1>7. cookie.builtAt \in Nat /\ cookie.builtAt + Lifetime \in Nat
  BY <1>2, TimeAssumption
<1>8. cookie.token.exp = JWT!Seconds(cookie.builtAt + Lifetime)
  BY <1>1 DEF CookieOK
<1> HIDE DEF cookie
<1>9. JWT!IsValid(cookie.token) <=> clock <= cookie.token.exp * TicksPerSecond
  BY <1>3, <1>4 DEF JWT!IsValid, JWT!GetTokenIfValid
<1>10. QED
  BY <1>5, <1>6, <1>7, <1>8, <1>9 DEF cookie

\* The server honours a token for its lifetime, through restarts: never after
\* it, and to the end of it but for a part of a second.
THEOREM ServerHonoursLifetime == AuthSpec => []JWT!TokenLifetime
<1>1. ASSUME TimedInv PROVE JWT!TokenLifetime
  <2> SUFFICES ASSUME NEW k \in JWT!Issued
               PROVE  LET cookie == tokenCall[k].cookie IN
                      /\ JWT!IsValid(cookie.token) => clock <= cookie.builtAt + Lifetime
                      /\ clock + TicksPerSecond <= cookie.builtAt + Lifetime + 1
                            => JWT!IsValid(cookie.token)
    BY DEF JWT!TokenLifetime
  <2> DEFINE cookie == tokenCall[k].cookie
             end    == cookie.builtAt + Lifetime
             exp    == JWT!Seconds(end) * TicksPerSecond
  <2>1. clock \in Nat /\ end \in Nat /\ (JWT!IsValid(cookie.token) <=> clock <= exp)
    BY <1>1, HonouredTokens
  <2>2. TicksPerSecond \in Nat
    BY TimeAssumption
  <2> HIDE DEF cookie, end
  <2>3. exp \in Nat /\ exp <= end /\ end < exp + TicksPerSecond
    BY <2>1, SecondsDown
  <2> HIDE DEF exp
  <2>4. /\ JWT!IsValid(cookie.token) => clock <= end
        /\ clock + TicksPerSecond <= end + 1 => JWT!IsValid(cookie.token)
    BY <2>1, <2>2, <2>3
  <2>5. QED
    BY <2>4 DEF cookie, end
<1>2. QED
  BY TimedInvariance, <1>1, PTL

\* No browser drops a cookie whose token the server would still honour.
THEOREM ServerCookiesOutliveTokens == AuthSpec => []JWT!CookieOutlivesToken
<1>1. ASSUME TimedInv PROVE JWT!CookieOutlivesToken
  <2> SUFFICES ASSUME NEW k \in JWT!Issued, JWT!IsValid(tokenCall[k].cookie.token)
               PROVE  clock <= tokenCall[k].cookie.builtAt
                                  + tokenCall[k].cookie.maxAge * TicksPerSecond
    BY DEF JWT!CookieOutlivesToken
  <2> DEFINE cookie == tokenCall[k].cookie
             end    == cookie.builtAt + Lifetime
             exp    == JWT!Seconds(end) * TicksPerSecond
  <2>1. clock \in Nat /\ end \in Nat /\ clock <= exp
    BY <1>1, HonouredTokens
  <2>2. cookie.maxAge * TicksPerSecond = Lifetime
    BY <1>1, HonouredTokens
  <2> HIDE DEF end
  <2>3. exp \in Nat /\ exp <= end
    BY <2>1, SecondsDown
  <2> HIDE DEF exp
  <2>4. clock <= end
    BY <2>1, <2>3
  <2>5. QED
    BY <2>2, <2>4 DEF end
<1>2. QED
  BY TimedInvariance, <1>1, PTL
=============================================================================

-------------------------- MODULE JWTServiceProofs --------------------------
(***************************************************************************)
(* Proofs about JWTService, for every lifetime and resolution of the       *)
(* clock.                                                                  *)
(***************************************************************************)
EXTENDS JWTService, Integers, TLAPS

\* Cutting a time off to whole seconds takes less than a second away.
LEMMA SecondsBound ==
    ASSUME NEW n \in Nat
    PROVE  /\ Seconds(n) \in Nat
           /\ Seconds(n) * TicksPerSecond \in Nat
           /\ Seconds(n) * TicksPerSecond <= n
           /\ n < Seconds(n) * TicksPerSecond + TicksPerSecond
           /\ Seconds(n) <= n
<1> DEFINE q == n \div TicksPerSecond
<1>1. TicksPerSecond \in Nat /\ TicksPerSecond > 0
  BY TicksAssumption
<1>2. /\ q \in Int
      /\ q * TicksPerSecond <= n
      /\ n < q * TicksPerSecond + TicksPerSecond
  BY <1>1
<1>3. q >= 0
  BY <1>1, <1>2
<1>4. q <= q * TicksPerSecond /\ q * TicksPerSecond \in Nat
  BY <1>1, <1>2, <1>3
<1> HIDE DEF q
<1>5. QED
  BY <1>1, <1>2, <1>3, <1>4 DEF Seconds, q

\* EXPIRATION_TIME / 1000 loses nothing.
LEMMA WholeLifetime ==
    /\ Lifetime \in Nat
    /\ Seconds(Lifetime) * TicksPerSecond = Lifetime
<1>1. TicksPerSecond \in Nat /\ TicksPerSecond > 0
  BY TicksAssumption
<1>2. Lifetime \in Nat
  BY LifetimeAssumption
<1>3. PICK seconds \in 1..Lifetime : Lifetime = seconds * TicksPerSecond
  BY LifetimeAssumption
<1>4. seconds \in Int
  BY <1>2, <1>3
<1>5. Seconds(Lifetime) = seconds
  <2> DEFINE q == Lifetime \div TicksPerSecond
  <2>1. /\ q \in Int
        /\ q * TicksPerSecond <= Lifetime
        /\ Lifetime < q * TicksPerSecond + TicksPerSecond
    BY <1>1, <1>2
  <2> HIDE DEF q
  <2>2. (seconds - q) * TicksPerSecond >= 0 /\ (seconds - q) * TicksPerSecond < TicksPerSecond
    BY <1>1, <1>3, <1>4, <2>1
  <2>3. seconds = q
    BY <1>1, <1>4, <2>1, <2>2
  <2>4. QED
    BY <2>3 DEF Seconds, q
<1>6. QED
  BY <1>2, <1>3, <1>5

-----------------------------------------------------------------------------
(***************************************************************************)
(* The inductive invariant                                                 *)
(***************************************************************************)
LEMMA InitJWTInv == Init => JWTInv
<1> SUFFICES ASSUME Init PROVE JWTInv
  OBVIOUS
<1> USE DEF StoreInit, Init, Idle
<1>1. TypeOK
  BY MaxClockAssumption DEF TypeOK, StoreTypeOK, TokenCallRecord
<1>2. CallInv /\ CookieInv
  BY DEF CallInv, CookieInv, Issued
<1>3. QED
  BY <1>1, <1>2 DEF JWTInv

\* Another request for a token.
LEMMA AskTokenStep ==
    ASSUME JWTInv, NEW k \in TokenCall, NEW req \in TokenRequest, AskToken(k, req)
    PROVE  JWTInv'
<1> DEFINE asked == [tokenCall[k] EXCEPT !.step = "findCredential", !.request = req]
<1>1. /\ tokenCall' = [tokenCall EXCEPT ![k] = asked]
      /\ UNCHANGED <<accounts, credentials, clock>>
  BY DEF AskToken, storeVars
<1>2. tokenCall[k] \in TokenCallRecord
  BY DEF JWTInv, TypeOK
<1>3. /\ asked \in TokenCallRecord
      /\ asked.step = "findCredential"
      /\ asked.request = req
  BY <1>2 DEF TokenCallRecord
<1> HIDE DEF asked
<1>4. TypeOK'
  BY <1>1, <1>3 DEF JWTInv, TypeOK, StoreTypeOK
<1>5. CallInv'
  BY <1>1, <1>3 DEF JWTInv, TypeOK, CallInv
<1>6. CookieInv'
  BY <1>1, <1>3 DEF JWTInv, TypeOK, CookieInv, Issued
<1>7. QED
  BY <1>4, <1>5, <1>6 DEF JWTInv

\* A call that only goes on, with a credential if it needs one.
LEMMA GotoStep ==
    ASSUME JWTInv, NEW k \in TokenCall, tokenCall[k].step \in {"findCredential", "loadAccount"},
           NEW step \in {"NotAuthorizedException", "JpaObjectRetrievalFailureException",
                         "build"},
           step = "build" => tokenCall[k].step = "loadAccount",
           Goto(k, step), UNCHANGED <<storeVars, clock>>
    PROVE  JWTInv'
<1> DEFINE gone == [tokenCall[k] EXCEPT !.step = step]
<1>1. tokenCall[k] \in TokenCallRecord
  BY DEF JWTInv, TypeOK
<1>2. tokenCall' = [tokenCall EXCEPT ![k] = gone] /\ UNCHANGED <<accounts, credentials, clock>>
  BY DEF Goto, storeVars
<1>3. /\ gone \in TokenCallRecord
      /\ gone.step = step
      /\ gone.request = tokenCall[k].request
      /\ gone.credential = tokenCall[k].credential
  BY <1>1 DEF TokenCallRecord
<1> HIDE DEF gone
<1>4. TypeOK'
  BY <1>2, <1>3 DEF JWTInv, TypeOK, StoreTypeOK
<1>5. CallInv'
  BY <1>2, <1>3 DEF JWTInv, TypeOK, CallInv
<1>6. CookieInv'
  BY <1>2, <1>3 DEF JWTInv, TypeOK, CookieInv, Issued
<1>7. QED
  BY <1>4, <1>5, <1>6 DEF JWTInv

\* The lookup of the credential.
LEMMA FindCredentialStep ==
    ASSUME JWTInv, NEW k \in TokenCall, FindCredential(k)
    PROVE  JWTInv'
<1>1. tokenCall[k] \in TokenCallRecord /\ tokenCall[k].step = "findCredential"
  BY DEF FindCredential, JWTInv, TypeOK
<1>2. UNCHANGED <<accounts, credentials, clock>>
  BY DEF FindCredential, storeVars
<1>3. CASE Goto(k, "NotAuthorizedException")
  BY <1>1, <1>3, GotoStep DEF FindCredential
<1>4. ASSUME NEW row \in credentials,
             tokenCall' = [tokenCall EXCEPT ![k].step = "loadAccount",
                                            ![k].credential = row]
      PROVE  JWTInv'
  <2> DEFINE found == [tokenCall[k] EXCEPT !.step = "loadAccount", !.credential = row]
  <2>1. tokenCall' = [tokenCall EXCEPT ![k] = found]
    BY <1>4
  <2>2. row \in Credential
    BY <1>4 DEF JWTInv, TypeOK, StoreTypeOK
  <2>3. /\ found \in TokenCallRecord
        /\ found.step = "loadAccount"
        /\ found.credential = row
        /\ found.request = tokenCall[k].request
    BY <1>1, <2>2 DEF TokenCallRecord
  <2> HIDE DEF found
  <2>4. TypeOK'
    BY <1>2, <2>1, <2>3 DEF JWTInv, TypeOK, StoreTypeOK
  <2>5. CallInv'
    BY <1>1, <2>1, <2>2, <2>3 DEF JWTInv, TypeOK, CallInv
  <2>6. CookieInv'
    BY <2>1, <2>3 DEF JWTInv, TypeOK, CookieInv, Issued
  <2>7. QED
    BY <2>4, <2>5, <2>6 DEF JWTInv
<1>5. QED
  BY <1>3, <1>4 DEF FindCredential, FindByLogin

\* The fetch of its account, with the check of the password.
LEMMA LoadAccountStep ==
    ASSUME JWTInv, NEW k \in TokenCall, LoadAccount(k)
    PROVE  JWTInv'
  BY GotoStep DEF LoadAccount

\* The token is built.
LEMMA BuildTokenStep ==
    ASSUME JWTInv, NEW k \in TokenCall, BuildToken(k)
    PROVE  JWTInv'
<1> DEFINE token  == [subject |-> tokenCall[k].credential.account, exp |-> Expiration(clock)]
           cookie == [token |-> token, maxAge |-> MaxAge, builtAt |-> clock]
           issued == [tokenCall[k] EXCEPT !.step = "issued", !.cookie = cookie]
<1>1. /\ tokenCall[k] \in TokenCallRecord
      /\ tokenCall[k].step = "build"
      /\ tokenCall[k].credential.account \in AccountId
  BY DEF BuildToken, JWTInv, TypeOK, CallInv, Credential
<1>2. /\ tokenCall' = [tokenCall EXCEPT ![k] = issued]
      /\ UNCHANGED <<accounts, credentials, clock>>
  BY DEF BuildToken, storeVars
<1>3. /\ clock \in Nat /\ clock <= MaxClock
      /\ clock + Lifetime \in Nat
      /\ MaxClock \in Nat
  BY MaxClockAssumption, WholeLifetime DEF JWTInv, TypeOK
<1>4. Expiration(clock) \in 0..(MaxClock + Lifetime)
  <2>1. Seconds(clock + Lifetime) \in Nat /\ Seconds(clock + Lifetime) <= clock + Lifetime
    BY <1>3, SecondsBound
  <2>2. QED
    BY <1>3, <2>1, WholeLifetime DEF Expiration
<1>5. MaxAge \in 0..Lifetime
  BY WholeLifetime, SecondsBound DEF MaxAge
<1>6. /\ cookie \in Cookie
      /\ cookie.token.subject = tokenCall[k].credential.account
      /\ cookie.token.exp = Seconds(cookie.builtAt + Lifetime)
      /\ cookie.maxAge = Seconds(Lifetime)
  BY <1>1, <1>3, <1>4, <1>5 DEF Cookie, Token, Expiration, MaxAge
<1> HIDE DEF cookie
<1>7. /\ issued \in TokenCallRecord
      /\ issued.step = "issued"
      /\ issued.credential = tokenCall[k].credential
      /\ issued.request = tokenCall[k].request
      /\ issued.cookie = cookie
  BY <1>1, <1>6 DEF TokenCallRecord
<1> HIDE DEF issued
<1>8. TypeOK'
  BY <1>2, <1>7 DEF JWTInv, TypeOK, StoreTypeOK
<1>9. CallInv'
  BY <1>1, <1>2, <1>7 DEF JWTInv, TypeOK, CallInv
<1>10. CookieInv'
  BY <1>2, <1>6, <1>7 DEF JWTInv, TypeOK, CookieInv, Issued
<1>11. QED
  BY <1>8, <1>9, <1>10 DEF JWTInv

\* A restart.
LEMMA LoseTokenCallsStep ==
    ASSUME JWTInv, LoseTokenCalls, CreateDrop
    PROVE  JWTInv'
<1>1. accounts' = {} /\ credentials' = {} /\ UNCHANGED clock
  BY DEF LoseTokenCalls, CreateDrop
<1>2. ASSUME NEW k \in TokenCall
      PROVE  /\ tokenCall'[k] \in TokenCallRecord
             /\ \/ tokenCall'[k] = tokenCall[k]
                \/ tokenCall'[k].step = "lost"
  BY DEF LoseTokenCalls, JWTInv, TypeOK, TokenCallRecord
<1>3. TypeOK'
  BY <1>1, <1>2 DEF LoseTokenCalls, JWTInv, TypeOK, StoreTypeOK
<1>4. CallInv'
  BY <1>2 DEF JWTInv, CallInv
<1>5. CookieInv'
  BY <1>2 DEF JWTInv, CookieInv, Issued
<1>6. QED
  BY <1>3, <1>4, <1>5 DEF JWTInv

\* Every step of JWTService, its environment and a restart preserve it.
LEMMA NextJWTInv == JWTInv /\ [Next]_<<storeVars, jwtVars>> => JWTInv'
<1> SUFFICES ASSUME JWTInv, [Next]_<<storeVars, jwtVars>> PROVE JWTInv'
  OBVIOUS
<1>1. CASE Act
  <2>1. CASE Tick
    BY <2>1, MaxClockAssumption
       DEF Tick, JWTInv, TypeOK, StoreTypeOK, CallInv, CookieInv, Issued, storeVars
  <2>2. QED
    BY <1>1, <2>1, AskTokenStep, FindCredentialStep, LoadAccountStep, BuildTokenStep
       DEF Act, Serve
<1>2. CASE Environment
  <2>1. StoreTypeOK'
    BY <1>2 DEF Environment, NewAccount, InsertAccount, DeleteAccount, JWTInv, TypeOK,
                StoreTypeOK
  <2>2. QED
    BY <1>2, <2>1
       DEF Environment, JWTInv, TypeOK, CallInv, CookieInv, Issued, jwtVars
<1>3. CASE LoseTokenCalls /\ CreateDrop
  BY <1>3, LoseTokenCallsStep
<1>4. CASE UNCHANGED <<storeVars, jwtVars>>
  BY <1>4 DEF JWTInv, TypeOK, StoreTypeOK, CallInv, CookieInv, Issued, storeVars, jwtVars
<1>5. QED
  BY <1>1, <1>2, <1>3, <1>4 DEF Next, NoMoreTime

\* The invariant holds in every reachable state of JWTService.
THEOREM JWTInvariance == Spec => []JWTInv
  BY InitJWTInv, NextJWTInv, PTL DEF Spec

\* Tokens name accounts, and their dates stay within what the clock and the
\* lifetime allow.
THEOREM TokensTypeCorrect == Spec => []TypeOK
<1>1. JWTInv => TypeOK
  BY DEF JWTInv
<1>2. QED
  BY JWTInvariance, <1>1, PTL

-----------------------------------------------------------------------------
(***************************************************************************)
(* The lifetime of tokens and cookies                                      *)
(***************************************************************************)

\* What decides whether an issued token is honoured.
LEMMA ValidTokens ==
    ASSUME JWTInv, NEW k \in Issued
    PROVE  LET cookie == tokenCall[k].cookie IN
           /\ cookie.builtAt \in Nat
           /\ IsValid(cookie.token) <=>
                 clock <= Seconds(cookie.builtAt + Lifetime) * TicksPerSecond
<1> DEFINE cookie == tokenCall[k].cookie
<1>1. /\ cookie \in Cookie
      /\ cookie.token.exp = Seconds(cookie.builtAt + Lifetime)
  BY DEF JWTInv, CookieInv
<1>2. cookie.token \in Token /\ cookie.builtAt \in Nat
  BY <1>1, MaxClockAssumption DEF Cookie
<1>3. cookie.token \notin {NotAToken, OddToken}
  BY <1>2, NotATokenAssumption
<1>4. cookie.token.subject # NoSubject
  BY <1>2, PrincipalAssumption DEF Token, NoSubject, MalformedPrincipal
<1> HIDE DEF cookie
<1>5. IsValid(cookie.token) <=> clock <= cookie.token.exp * TicksPerSecond
  BY <1>3, <1>4 DEF IsValid, GetTokenIfValid
<1>6. QED
  BY <1>1, <1>2, <1>5 DEF cookie

\* A token is honoured for EXPIRATION_TIME, but for the part of a second that
\* the date in it cannot express.
THEOREM TokensLiveTheirLifetime == Spec => []TokenLifetime
<1>1. ASSUME JWTInv PROVE TokenLifetime
  <2> SUFFICES ASSUME NEW k \in Issued
               PROVE  LET cookie == tokenCall[k].cookie IN
                      /\ IsValid(cookie.token) => clock <= cookie.builtAt + Lifetime
                      /\ clock + TicksPerSecond <= cookie.builtAt + Lifetime + 1
                            => IsValid(cookie.token)
    BY DEF TokenLifetime
  <2> DEFINE cookie == tokenCall[k].cookie
             end    == cookie.builtAt + Lifetime
             exp    == Seconds(end) * TicksPerSecond
  <2>1. cookie.builtAt \in Nat /\ (IsValid(cookie.token) <=> clock <= exp)
    BY <1>1, ValidTokens
  <2>2. end \in Nat
    BY <2>1, WholeLifetime
  <2>3. clock \in Nat /\ TicksPerSecond \in Nat
    BY <1>1, TicksAssumption, MaxClockAssumption DEF JWTInv, TypeOK
  <2> HIDE DEF cookie, end
  <2>4. exp \in Nat /\ exp <= end /\ end < exp + TicksPerSecond
    BY <2>2, SecondsBound
  <2> HIDE DEF exp
  <2>5. /\ IsValid(cookie.token) => clock <= end
        /\ clock + TicksPerSecond <= end + 1 => IsValid(cookie.token)
    BY <2>1, <2>2, <2>3, <2>4
  <2>6. QED
    BY <2>5 DEF cookie, end
<1>2. QED
  BY JWTInvariance, <1>1, PTL

\* The browser does not drop the cookie before its token expires.
THEOREM CookiesOutliveTokens == Spec => []CookieOutlivesToken
<1>1. ASSUME JWTInv PROVE CookieOutlivesToken
  <2> SUFFICES ASSUME NEW k \in Issued, IsValid(tokenCall[k].cookie.token)
               PROVE  clock <= tokenCall[k].cookie.builtAt
                                  + tokenCall[k].cookie.maxAge * TicksPerSecond
    BY DEF CookieOutlivesToken
  <2> DEFINE cookie == tokenCall[k].cookie
             end    == cookie.builtAt + Lifetime
             exp    == Seconds(end) * TicksPerSecond
  <2>1. cookie.builtAt \in Nat /\ clock <= exp
    BY <1>1, ValidTokens
  <2>2. cookie.maxAge * TicksPerSecond = Lifetime
    BY <1>1, WholeLifetime DEF JWTInv, CookieInv
  <2>3. end \in Nat
    BY <2>1, WholeLifetime
  <2>4. clock \in Nat
    BY <1>1, MaxClockAssumption DEF JWTInv, TypeOK
  <2> HIDE DEF end
  <2>5. exp \in Nat /\ exp <= end
    BY <2>3, SecondsBound
  <2> HIDE DEF exp
  <2>6. clock <= end
    BY <2>1, <2>3, <2>4, <2>5
  <2>7. QED
    BY <2>2, <2>6 DEF end
<1>2. QED
  BY JWTInvariance, <1>1, PTL
=============================================================================

----------------------------- MODULE JWTService -----------------------------
(***************************************************************************)
(* JWTService, and TokenApi.createToken that calls it: a credential of     *)
(* AccountStore is exchanged for a token that names its account, in a      *)
(* cookie.                                                                 *)
(*                                                                         *)
(* A token call reads a credential, then the account of it, and the clock  *)
(* later: the hash of the password is checked in between, which scrypt     *)
(* makes slow on purpose.  The service stores no token.  The signing key   *)
(* is a constant of the program, so what it issued stays authentic across  *)
(* restarts; a string that it did not issue fails the parser, in a way     *)
(* that getTokenIfValid expects (NotAToken) or not (OddToken).             *)
(***************************************************************************)
EXTENDS AccountStore, Naturals

CONSTANTS
    TokenCall,       \* one request for a token each
    NotAToken,       \* the value of a cookie that is no token, or no valid one
    OddToken,        \* one for which the parser throws any other exception
    Lifetime,        \* EXPIRATION_TIME, in ticks of the clock
    TicksPerSecond,  \* the clock is finer than the dates of a token
    MaxClock         \* bound on the clock

ASSUME TicksAssumption == TicksPerSecond \in Nat \ {0}

\* EXPIRATION_TIME is a whole number of seconds: ten days.
ASSUME LifetimeAssumption ==
    /\ Lifetime \in Nat
    /\ \E seconds \in 1..Lifetime : Lifetime = seconds * TicksPerSecond

ASSUME MaxClockAssumption == MaxClock \in Nat

VARIABLES
    clock,
    tokenCall

jwtVars == <<clock, tokenCall>>

-----------------------------------------------------------------------------
\* The user name "deviceId" announces a vendor id in the field of the password;
\* it is no email, so no email account is called that.
TokenRequest ==
    [login : {EmailLogin(email) : email \in Name}, password : Password]
        \cup [login : {VendorIdLogin(vendorId) : vendorId \in Name}]

\* The dates of a token are whole seconds: setExpiration cuts the rest off.
Seconds(ticks) == ticks \div TicksPerSecond

Token == [subject : AccountId, exp : 0..(MaxClock + Lifetime)]

ASSUME NotATokenAssumption == {NotAToken, OddToken} \cap Token = {}

\* The cookie of the response: the browser drops it after maxAge seconds.
\* builtAt is when createToken read the clock.
Cookie == [token : Token, maxAge : 0..Lifetime, builtAt : 0..MaxClock]

NoCookie == [token |-> NotAToken, maxAge |-> 0, builtAt |-> 0]

\* Where nothing authenticates a request, it has no principal.
NoSubject == NoPrincipal

NoCredential == [account |-> NoSubject]

Idle ==
    [step |-> "idle", request |-> NoRequest, credential |-> NoCredential,
     cookie |-> NoCookie]

\* The branch of getTokenIfValid that throws.
Rethrows(token) == token = OddToken

\* What it returns: the subject of the token, while that has not expired;
\* NoSubject (null) for the exceptions it expects.
GetTokenIfValid(token) ==
    IF token \notin {NotAToken, OddToken} /\ clock <= token.exp * TicksPerSecond
    THEN token.subject
    ELSE NoSubject

Issued == {k \in TokenCall : tokenCall[k].step = "issued"}

IssuedTokens == {tokenCall[k].cookie.token : k \in Issued}

Goto(k, step) == tokenCall' = [tokenCall EXCEPT ![k].step = step]

-----------------------------------------------------------------------------
AskToken(k, req) ==
    /\ tokenCall[k].step = "idle"
    /\ tokenCall' = [tokenCall EXCEPT ![k].step = "findCredential",
                                      ![k].request = req]
    /\ UNCHANGED <<storeVars, clock>>

\* Variant: a lookup that finds nothing is not checked for null.
FindCredentialUnchecked(k) ==
    LET rows == FindByLogin(tokenCall[k].request.login) IN
    /\ tokenCall[k].step = "findCredential"
    /\ \E row \in IF rows = {} THEN {NoCredential} ELSE rows :
          tokenCall' = [tokenCall EXCEPT ![k].step = "build", ![k].credential = row]
    /\ UNCHANGED <<storeVars, clock>>

\* The lookup of the credential: its row, which names the account to fetch.
FindCredential(k) ==
    LET rows == FindByLogin(tokenCall[k].request.login) IN
    /\ tokenCall[k].step = "findCredential"
    /\ \/ /\ rows = {}
          /\ Goto(k, "NotAuthorizedException")
       \/ \E row \in rows :
             tokenCall' = [tokenCall EXCEPT ![k].step = "loadAccount",
                                            ![k].credential = row]
    /\ UNCHANGED <<storeVars, clock>>

\* Variant: the password is not compared with the stored hash.
ProvesAnything(req, credential) == TRUE

\* A device proves its account by its vendor id alone.
Proves(req, credential) ==
    credential.login.kind = "email" => Verify(req.password, credential.detail)

\* The second SELECT of the lookup, which fails for an account deleted since the
\* first; and the check of the password against the hash that was read.
LoadAccount(k) ==
    LET credential == tokenCall[k].credential
        found      == credential.account \in accounts
        proven     == Proves(tokenCall[k].request, credential) IN
    /\ tokenCall[k].step = "loadAccount"
    /\ \/ ~found /\ Goto(k, "JpaObjectRetrievalFailureException")
       \/ found /\ ~proven /\ Goto(k, "NotAuthorizedException")
       \/ found /\ proven /\ Goto(k, "build")
    /\ UNCHANGED <<storeVars, clock>>

\* Variants: the date of the token is rounded up; the browser is told to keep
\* the cookie for a second less than the token lives.
ExpirationRoundedUp(now) == Seconds(now + Lifetime + TicksPerSecond - 1)
ShorterMaxAge == Seconds(Lifetime) - 1

Expiration(now) == Seconds(now + Lifetime)

MaxAge == Seconds(Lifetime)

\* Variant: the token names the credential, which has an id of its own, for
\* credential.account.
BuildTokenName(k) ==
    /\ tokenCall[k].step = "build"
    /\ \E id \in AccountId \ {tokenCall[k].credential.account} :
          tokenCall' =
             [tokenCall EXCEPT
                ![k].step = "issued",
                ![k].cookie = [token   |-> [subject |-> id, exp |-> Expiration(clock)],
                               maxAge  |-> MaxAge,
                               builtAt |-> clock]]
    /\ UNCHANGED <<storeVars, clock>>

\* The token is built and goes out in the cookie.
BuildToken(k) ==
    /\ tokenCall[k].step = "build"
    /\ tokenCall' =
          [tokenCall EXCEPT
             ![k].step = "issued",
             ![k].cookie =
                [token   |-> [subject |-> tokenCall[k].credential.account,
                              exp     |-> Expiration(clock)],
                 maxAge  |-> MaxAge,
                 builtAt |-> clock]]
    /\ UNCHANGED <<storeVars, clock>>

\* System.currentTimeMillis() goes on.
Tick ==
    /\ clock < MaxClock
    /\ clock' = clock + 1
    /\ UNCHANGED <<storeVars, tokenCall>>

\* A restart of the server loses the calls it was serving, and nothing else
\* of this component.
LoseTokenCalls ==
    /\ tokenCall' = [k \in TokenCall |->
          IF tokenCall[k].step \in {"findCredential", "loadAccount", "build"}
          THEN [tokenCall[k] EXCEPT !.step = "lost"]
          ELSE tokenCall[k]]
    /\ UNCHANGED clock

-----------------------------------------------------------------------------
Init ==
    /\ StoreInit
    /\ clock = 0
    /\ tokenCall = [k \in TokenCall |-> Idle]

Serve(k) == FindCredential(k) \/ LoadAccount(k) \/ BuildToken(k)

Act ==
    \/ \E k \in TokenCall : (\E req \in TokenRequest : AskToken(k, req)) \/ Serve(k)
    \/ Tick

\* The other users of the database: an account comes with its credential, where
\* the constraints allow it, and goes with it.
NewAccount ==
    {account \in [id : AccountId \ accounts, credentials : {{row} : row \in Credential}] :
        \A row \in account.credentials : row.account = account.id}

Environment ==
    /\ \/ \E account \in NewAccount : ~ViolatesIntegrity(account) /\ InsertAccount(account)
       \/ \E id \in accounts :
             DeleteAccount([id |-> id, credentials |-> CredentialsOf(id)])
    /\ UNCHANGED jwtVars

\* The bounded clock and the bounded set of calls are used up.
NoMoreTime == clock = MaxClock /\ UNCHANGED <<storeVars, jwtVars>>

Next ==
    \/ Act
    \/ Environment
    \/ LoseTokenCalls /\ CreateDrop
    \/ NoMoreTime

Spec == Init /\ [][Next]_<<storeVars, jwtVars>>

-----------------------------------------------------------------------------
(***************************************************************************)
(* Properties                                                              *)
(***************************************************************************)
TokenCallRecord ==
    [step       : {"idle", "findCredential", "loadAccount", "build", "issued", "lost",
                   "NotAuthorizedException", "JpaObjectRetrievalFailureException"},
     request    : TokenRequest \cup {NoRequest},
     credential : Credential \cup {NoCredential},
     cookie     : Cookie \cup {NoCookie}]

\* Tokens name accounts and carry dates the clock and the lifetime allow.
TypeOK ==
    /\ StoreTypeOK
    /\ clock \in 0..MaxClock
    /\ tokenCall \in [TokenCall -> TokenCallRecord]

IsValid(token) == GetTokenIfValid(token) # NoSubject

\* A token is honoured for its lifetime: never after it, and to the end of it
\* but for the part of a second that its date cannot express.
TokenLifetime ==
    \A k \in Issued :
        LET cookie == tokenCall[k].cookie IN
        /\ IsValid(cookie.token) => clock <= cookie.builtAt + Lifetime
        /\ clock + TicksPerSecond <= cookie.builtAt + Lifetime + 1
              => IsValid(cookie.token)

\* The browser keeps the cookie for as long as the token in it is valid.
CookieOutlivesToken ==
    \A k \in Issued :
        LET cookie == tokenCall[k].cookie IN
        IsValid(cookie.token) =>
            clock <= cookie.builtAt + cookie.maxAge * TicksPerSecond

-----------------------------------------------------------------------------
(***************************************************************************)
(* The inductive invariant behind them: what a call has learnt, and what   *)
(* the cookie it was answered with says.                                   *)
(***************************************************************************)
CallInv ==
    \A k \in TokenCall :
        /\ tokenCall[k].step \in {"findCredential", "loadAccount", "build", "issued"} =>
               tokenCall[k].request \in TokenRequest
        /\ tokenCall[k].step \in {"loadAccount", "build", "issued"} =>
               tokenCall[k].credential \in Credential

CookieInv ==
    \A k \in Issued :
        LET cookie == tokenCall[k].cookie IN
        /\ cookie \in Cookie
        /\ cookie.token.subject = tokenCall[k].credential.account
        /\ cookie.token.exp = Seconds(cookie.builtAt + Lifetime)
        /\ cookie.maxAge = Seconds(Lifetime)

JWTInv ==
    /\ TypeOK
    /\ CallInv
    /\ CookieInv
=============================================================================

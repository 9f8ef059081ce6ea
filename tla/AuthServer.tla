----------------------------- MODULE AuthServer -----------------------------
(***************************************************************************)
(* The authentication server: AccountService behind the JWT filter, and    *)
(* JWTService that issues the tokens the filter reads, over one database.  *)
(*                                                                         *)
(* A client keeps the tokens it was given, also those of accounts it has   *)
(* deleted, those that expired, and those from before a restart.           *)
(***************************************************************************)
EXTENDS AccountService, Sequences

CONSTANTS TokenCall, NotAToken, OddToken, Lifetime, TicksPerSecond, MaxClock

\* As JWTService assumes.
ASSUME TimeAssumption ==
    /\ TicksPerSecond \in Nat \ {0}
    /\ Lifetime \in Nat
    /\ \E seconds \in 1..Lifetime : Lifetime = seconds * TicksPerSecond
    /\ MaxClock \in Nat

VARIABLES
    clock,
    tokenCall,
    forbidden   \* calls the filter chain refused or failed: their resource never ran

JWT == INSTANCE JWTService

ASSUME ForgeryAssumption == {NotAToken, OddToken} \cap JWT!Token = {}

serverVars == <<vars, clock, tokenCall, forbidden>>

-----------------------------------------------------------------------------
(***************************************************************************)
(* The filter chain                                                        *)
(***************************************************************************)

\* The values of the cookies named jwt that come with a request.
CookieValue == JWT!IssuedTokens \cup {NotAToken, OddToken}

Jar == {<<>>} \cup {<<v>> : v \in CookieValue}
              \cup {<<v, w>> : v \in CookieValue, w \in CookieValue}

\* Variant: the filter takes the subject of a token that expired.
AuthenticationUnchecked(jar) ==
    IF Len(jar) = 1 /\ jar[1] \in JWT!IssuedTokens THEN jar[1].subject ELSE JWT!NoSubject

\* JWTAuthenticationFilter: one cookie, and one that is valid, authenticates
\* the request; otherwise it goes on without authentication.
Authentication(jar) ==
    IF Len(jar) = 1 THEN JWT!GetTokenIfValid(jar[1]) ELSE JWT!NoSubject

\* The filter throws what getTokenIfValid throws.
FilterFails(jar) == Len(jar) = 1 /\ JWT!Rethrows(jar[1])

\* Variant: requests that nothing authenticates are let through.
PermitAll(jar) == TRUE

\* authorizeRequests().anyRequest().authenticated()
IsAuthenticated(jar) == Authentication(jar) # JWT!NoSubject

\* The paths of the account creations are open to everyone.
Create(c, req) ==
    /\ c \notin forbidden
    /\ Arrive(c, req)
    /\ UNCHANGED <<clock, tokenCall, forbidden>>

\* Every other path needs an authenticated request, and gets the subject of
\* its token as the principal.
AuthenticatedRequest(op, jar) ==
    IF op = "getAccounts"
    THEN [op |-> op]
    ELSE [op |-> op, principal |-> Authentication(jar)]

Admit(c, op, jar) ==
    /\ c \notin forbidden
    /\ ~FilterFails(jar) /\ IsAuthenticated(jar)
    /\ Arrive(c, AuthenticatedRequest(op, jar))
    /\ UNCHANGED <<clock, tokenCall, forbidden>>

\* AccessDeniedException, answered with 403.
Forbid(c, jar) ==
    /\ pc[c] = "idle" /\ c \notin forbidden
    /\ ~FilterFails(jar) /\ ~IsAuthenticated(jar)
    /\ forbidden' = forbidden \cup {c}
    /\ UNCHANGED <<vars, clock, tokenCall>>

\* The exception ends the request, on whatever path.
FailFilter(c, jar) ==
    /\ pc[c] = "idle" /\ c \notin forbidden
    /\ FilterFails(jar)
    /\ forbidden' = forbidden \cup {c}
    /\ UNCHANGED <<vars, clock, tokenCall>>

ProtectedOp == {"getAccountInfo", "deleteAccount", "getAccounts"}

-----------------------------------------------------------------------------
\* The steps of the two services, which share the database.
ServeAccount(c) ==
    /\ Step(c)
    /\ UNCHANGED <<clock, tokenCall, forbidden>>

ServeToken ==
    /\ JWT!Act
    /\ UNCHANGED <<callVars, persisted, restarts, forbidden>>

RestartServer ==
    /\ Restart
    /\ JWT!LoseTokenCalls
    /\ UNCHANGED forbidden

Quiet ==
    /\ \A c \in Call : pc[c] = "done" \/ c \in forbidden
    /\ \A k \in TokenCall : tokenCall[k].step \notin {"idle", "findCredential", "loadAccount", "build"}
    /\ UNCHANGED serverVars

AuthInit ==
    /\ Init
    /\ JWT!Init
    /\ forbidden = {}

AuthNext ==
    \/ \E c \in Call :
          \/ \E req \in CreateRequest : Create(c, req)
          \/ \E op \in ProtectedOp, jar \in Jar : Admit(c, op, jar)
          \/ \E jar \in Jar : Forbid(c, jar) \/ FailFilter(c, jar)
          \/ ServeAccount(c)
    \/ ServeToken
    \/ RestartServer
    \/ Quiet

AuthSpec == AuthInit /\ [][AuthNext]_serverVars

-----------------------------------------------------------------------------
(***************************************************************************)
(* Properties                                                              *)
(***************************************************************************)
\* Both services are type correct over the shared database: no token names
\* anything but an account id.
AuthTypeOK ==
    /\ TypeOK
    /\ JWT!TypeOK
    /\ forbidden \subseteq Call

\* The account service behind the filter keeps its specification: the tokens
\* bring it no principal but ids that were committed.  All that is shown of
\* AccountService is then shown of the server.
ServiceSpec == Spec

\* The token service keeps its specification beside it: what happens to the
\* database is what JWTService expects of its other users, and a restart ends
\* its calls and the tables together.
TokenServiceSpec == JWT!Spec

\* A token opens the account whose login and password it was issued for, and
\* never another one: not the account that is created for the same email after
\* a deletion or a restart, not one created meanwhile for somebody else.
TokenOpensItsOwnAccount ==
    \A k \in JWT!Issued :
        LET token == tokenCall[k].cookie.token
            req   == tokenCall[k].request IN
        \A row \in CredentialsOf(token.subject) :
            /\ row.login = req.login
            /\ row.login.kind = "email" => Verify(req.password, row.detail)

\* Behind the filter the checks of getAccountOfSecurityContext for a missing
\* or blank principal never fire: nobody is answered 401 by the service.
NoPrincipalIsMissing ==
    \A c \in Call : answer[c].outcome # "NotAuthorizedException"

\* A protected operation is admitted only to the holder of a token that was
\* issued, for its subject, no longer ago than its lifetime.
AdmittedWhileValid ==
    [][\A c \in Call :
          /\ request[c] = NoRequest
          /\ request'[c] \in InfoRequest \cup DeleteRequest
          => \E k \in JWT!Issued :
                /\ tokenCall[k].cookie.token.subject = request'[c].principal
                /\ clock <= tokenCall[k].cookie.builtAt + Lifetime]_serverVars

\* An account is removed only for somebody who proved to own it: behind every
\* removal stands a token that names the account, issued to a call that knew
\* the login and the password of the row that goes with the account.  Nobody
\* else gets it removed, whatever cookies come with whatever requests.
OnlyOwnerRemoves ==
    [][\A id \in accounts \ accounts' :
          \/ restarts' # restarts
          \/ \E k \in JWT!Issued :
                /\ tokenCall[k].cookie.token.subject = id
                /\ \A row \in CredentialsOf(id) :
                      /\ row.login = tokenCall[k].request.login
                      /\ row.login.kind = "email" =>
                            Verify(tokenCall[k].request.password, row.detail)]_serverVars

-----------------------------------------------------------------------------
(***************************************************************************)
(* The inductive invariant behind them: a token call holds a credential    *)
(* that was committed, and for as long as its account exists, that is the  *)
(* credential of it.                                                       *)
(***************************************************************************)
IsTokenCall(call) ==
    call \in [step       : {call.step},       request : {call.request},
              credential : {call.credential}, cookie  : {call.cookie}]

TokenCallShape ==
    /\ tokenCall = [k \in TokenCall |-> tokenCall[k]]
    /\ \A k \in TokenCall : IsTokenCall(tokenCall[k])

KnowsOwner(call) ==
    LET credential == call.credential IN
    /\ call.step \in {"loadAccount", "build", "issued"} =>
           /\ credential.account \in persisted
           /\ credential.login = call.request.login
           /\ \A row \in CredentialsOf(credential.account) : row = credential
    /\ call.step \in {"build", "issued"} /\ credential.login.kind = "email" =>
           Verify(call.request.password, credential.detail)
    /\ call.step = "issued" => call.cookie.token.subject = credential.account

CredentialInv == \A k \in TokenCall : KnowsOwner(tokenCall[k])

PrincipalsAreAccounts ==
    \A c \in Call :
        request[c] \in InfoRequest \cup DeleteRequest => request[c].principal \in persisted

\* What a request for one account was admitted with stays issued.
PrincipalsHoldTokens ==
    \A c \in Call :
        request[c] \in InfoRequest \cup DeleteRequest =>
            \E k \in JWT!Issued : tokenCall[k].cookie.token.subject = request[c].principal

AuthInv ==
    /\ IInv
    /\ TokenCallShape
    /\ CredentialInv
    /\ PrincipalsAreAccounts
    /\ PrincipalsHoldTokens
    /\ NoPrincipalIsMissing
=============================================================================

--------------------------- MODULE CsrfProtection ---------------------------
(***************************************************************************)
(* The CSRF cookie between the page of the Swagger UI and the server.      *)
(*                                                                         *)
(* The server keeps no token: a write must carry, in the header            *)
(* X-XSRF-TOKEN, the value of the cookie XSRF-TOKEN it comes with.  The    *)
(* page copies the cookie into the header when it builds the request, the  *)
(* browser attaches the cookie when it sends it, and in between a response *)
(* may bring another cookie: as sessions are stateless, Spring Security    *)
(* takes every authenticated request for a new login and renews the token. *)
(***************************************************************************)
EXTENDS Sequences, Naturals

CONSTANTS
    Exchange,   \* one request and its response each
    NoToken

ASSUME NoTokenAssumption == NoToken \notin Exchange

\* The token that an exchange makes the server generate is random, and so
\* another one for each exchange: the exchange stands for it.
Token == Exchange

VARIABLES
    page,      \* the page is open and its script loaded
    jar,       \* the cookie XSRF-TOKEN in the browser
    exchange,
    overtaken  \* exchanges that were built and not yet sent when the cookie changed

csrfVars == <<page, jar, exchange, overtaken>>

Idle ==
    [step |-> "idle", write |-> FALSE, header |-> NoToken, cookie |-> NoToken,
     setCookie |-> <<>>]

InFlight(q) == exchange[q].step \in {"built", "sent", "passed", "refused"}

-----------------------------------------------------------------------------
(***************************************************************************)
(* The page                                                                *)
(***************************************************************************)
\* Variant: the cookie is HttpOnly, and document.cookie does not show it.
CookieHidden == NoToken

\* document.cookie, by getCookie: the cookie must not be HttpOnly.
GetCookie == jar

\* The user opens the page: a read like any other, without the script.
Open(q) ==
    /\ exchange[q] = Idle
    /\ exchange' = [exchange EXCEPT ![q].step = "sent", ![q].cookie = jar]
    /\ UNCHANGED <<page, jar, overtaken>>

\* requestInterceptor: the page builds a request.
Build(q, write) ==
    /\ page
    /\ exchange[q] = Idle
    /\ exchange' = [exchange EXCEPT ![q].step = "built", ![q].write = write,
                                    ![q].header = GetCookie]
    /\ UNCHANGED <<page, jar, overtaken>>

\* The browser sends it with the cookie it has by then.
Send(q) ==
    /\ exchange[q].step = "built"
    /\ exchange' = [exchange EXCEPT ![q].step = "sent", ![q].cookie = jar]
    /\ UNCHANGED <<page, jar, overtaken>>

-----------------------------------------------------------------------------
(***************************************************************************)
(* The server                                                              *)
(***************************************************************************)
\* CsrfFilter: a request without the cookie gets a token generated and saved.
LoadToken(q) == IF exchange[q].cookie = NoToken THEN q ELSE exchange[q].cookie

\* Variant: it is generated and not saved.
NotSaved(q) == <<>>

Missing(q) == IF exchange[q].cookie = NoToken THEN <<q>> ELSE <<>>

\* Variant: the cookie is cleared after the new one is set.
RenewedReversed(q) == IF exchange[q].cookie = NoToken THEN <<>> ELSE <<q, NoToken>>

\* CsrfAuthenticationStrategy: a token that came with an authenticated request
\* is cleared, and another one is saved.
Renewed(q) == IF exchange[q].cookie = NoToken THEN <<>> ELSE <<NoToken, q>>

Matches(q) == exchange[q].write => exchange[q].header = LoadToken(q)

Refuse(q) ==
    /\ exchange[q].step = "sent" /\ ~Matches(q)
    /\ exchange' = [exchange EXCEPT ![q].step = "refused", ![q].setCookie = Missing(q)]
    /\ UNCHANGED <<page, jar, overtaken>>

\* The JWT filter runs after the check, and may authenticate the request.
Admit(q, authenticated) ==
    /\ exchange[q].step = "sent" /\ Matches(q)
    /\ exchange' =
          [exchange EXCEPT
             ![q].step = "passed",
             ![q].setCookie = Missing(q) \o (IF authenticated THEN Renewed(q) ELSE <<>>)]
    /\ UNCHANGED <<page, jar, overtaken>>

-----------------------------------------------------------------------------
(***************************************************************************)
(* The network                                                             *)
(***************************************************************************)
Jar(setCookie) == IF setCookie = <<>> THEN jar ELSE setCookie[Len(setCookie)]

\* A response arrives, in any order.  The first one brings the page.
Deliver(q) ==
    /\ exchange[q].step \in {"passed", "refused"}
    /\ exchange' = [exchange EXCEPT ![q].step =
          IF exchange[q].step = "passed" THEN "done" ELSE "rejected"]
    /\ jar' = Jar(exchange[q].setCookie)
    /\ page' = TRUE
    /\ overtaken' =
          IF jar' = jar THEN overtaken
          ELSE overtaken \cup {p \in Exchange : exchange[p].step = "built"}

\* Request or response is lost.
Lose(q) ==
    /\ exchange[q].step \in {"sent", "passed", "refused"}
    /\ exchange' = [exchange EXCEPT ![q].step = "lost"]
    /\ UNCHANGED <<page, jar, overtaken>>

AllDone ==
    /\ \A q \in Exchange : ~InFlight(q) /\ exchange[q] # Idle
    /\ UNCHANGED csrfVars

Init ==
    /\ page = FALSE
    /\ jar = NoToken
    /\ exchange = [q \in Exchange |-> Idle]
    /\ overtaken = {}

Next ==
    \/ \E q \in Exchange :
          \/ Open(q)
          \/ \E b \in BOOLEAN : Build(q, b) \/ Admit(q, b)
          \/ Send(q) \/ Refuse(q) \/ Deliver(q) \/ Lose(q)
    \/ AllDone

Spec == Init /\ [][Next]_csrfVars

-----------------------------------------------------------------------------
(***************************************************************************)
(* Properties                                                              *)
(***************************************************************************)
\* The server refuses a write of the page only if a response changed the cookie
\* after the page had read it and before the browser sent the request.  A page
\* that waits for each response before its next request is never refused,
\* however often the token is renewed and whatever is lost.
RefusedOnlyIfOvertaken ==
    \A q \in Exchange : exchange[q].step \in {"refused", "rejected"} => q \in overtaken

\* An open page always finds a token in the cookie: no response leaves it with
\* none, also when responses are lost or arrive in another order, so that a
\* refused request can be sent again at once.
PageHoldsToken == page => jar \in Token

\* The inductive invariant behind them: an exchange that was not overtaken
\* carries the cookie it read, and a response that leaves the browser without a
\* new token finds one there.
ExchangeRecord ==
    [step      : {"idle", "built", "sent", "passed", "refused", "done", "rejected", "lost"},
     write     : BOOLEAN,
     header    : Token \cup {NoToken},
     cookie    : Token \cup {NoToken},
     setCookie : {<<>>} \cup {<<q>> : q \in Token} \cup {<<NoToken, q>> : q \in Token}]

TypeOK ==
    /\ page \in BOOLEAN
    /\ jar \in Token \cup {NoToken}
    /\ exchange \in [Exchange -> ExchangeRecord]
    /\ overtaken \subseteq Exchange

ExchangeInv(x, isOvertaken) ==
    /\ x.step = "idle" => ~x.write
    /\ x.step = "built" => page
    /\ x.step = "built" /\ ~isOvertaken => x.header = jar
    /\ x.step = "sent" /\ x.write /\ ~isOvertaken =>
          x.cookie # NoToken /\ x.header = x.cookie
    /\ x.step = "sent" /\ x.cookie # NoToken => jar # NoToken
    /\ x.step \in {"passed", "refused"} => jar # NoToken \/ x.setCookie # <<>>
    /\ x.step \in {"refused", "rejected"} => isOvertaken

CsrfInv ==
    /\ TypeOK
    /\ PageHoldsToken
    /\ \A q \in Exchange : ExchangeInv(exchange[q], q \in overtaken)
=============================================================================

------------------------ MODULE CsrfProtectionProofs ------------------------
(***************************************************************************)
(* Theorems about CsrfProtection, for any number of overlapping exchanges, *)
(* by the inductive invariant CsrfInv.                                     *)
(***************************************************************************)
EXTENDS CsrfProtection, TLAPS

\* A step that changes one exchange only has to be looked at there.
LEMMA OneExchange ==
    ASSUME CsrfInv, NEW q \in Exchange, NEW x \in ExchangeRecord,
           exchange' = [exchange EXCEPT ![q] = x],
           UNCHANGED <<page, jar, overtaken>>,
           ExchangeInv(x, q \in overtaken)
    PROVE  CsrfInv'
  BY DEF CsrfInv, TypeOK, PageHoldsToken, ExchangeInv

\* An exchange that has not begun is a record of the right type, and no write.
LEMMA IdleRecord == Idle \in ExchangeRecord /\ Idle.step = "idle" /\ ~Idle.write
  BY DEF Idle, ExchangeRecord

\* The closed page satisfies the invariant.
LEMMA InitCsrf == Init => CsrfInv
<1> SUFFICES ASSUME Init PROVE CsrfInv
  OBVIOUS
<1>1. TypeOK
  BY IdleRecord DEF Init, TypeOK
<1>2. ASSUME NEW q \in Exchange PROVE ExchangeInv(exchange[q], q \in overtaken)
  BY IdleRecord DEF Init, ExchangeInv
<1> QED
  BY <1>1, <1>2 DEF Init, CsrfInv, PageHoldsToken

\* The page is opened.
LEMMA OpenStep ==
    ASSUME CsrfInv, NEW q \in Exchange, Open(q)
    PROVE  CsrfInv'
<1> DEFINE x == [exchange[q] EXCEPT !.step = "sent", !.cookie = jar]
<1>1. exchange' = [exchange EXCEPT ![q] = x] /\ UNCHANGED <<page, jar, overtaken>>
  BY DEF Open, CsrfInv, TypeOK, ExchangeRecord
<1>2. exchange[q] \in ExchangeRecord /\ ~exchange[q].write
  BY IdleRecord DEF Open
<1>3. x \in ExchangeRecord /\ x.step = "sent" /\ ~x.write /\ x.cookie = jar
  BY <1>2 DEF CsrfInv, TypeOK, ExchangeRecord
<1>4. ExchangeInv(x, q \in overtaken)
  BY <1>3 DEF ExchangeInv
<1> HIDE DEF x
<1> QED
  BY <1>1, <1>3, <1>4, OneExchange

\* The page builds a request: what it copies into the header is the cookie.
LEMMA BuildStep ==
    ASSUME CsrfInv, NEW q \in Exchange, NEW b \in BOOLEAN, Build(q, b)
    PROVE  CsrfInv'
<1> DEFINE x == [exchange[q] EXCEPT !.step = "built", !.write = b, !.header = jar]
<1>1. exchange' = [exchange EXCEPT ![q] = x] /\ UNCHANGED <<page, jar, overtaken>>
  BY DEF Build, GetCookie, CsrfInv, TypeOK, ExchangeRecord
<1>2. x \in ExchangeRecord /\ x.step = "built" /\ x.header = jar /\ page
  BY DEF Build, CsrfInv, TypeOK, ExchangeRecord, Idle
<1>3. ExchangeInv(x, q \in overtaken)
  BY <1>2 DEF ExchangeInv
<1> HIDE DEF x
<1> QED
  BY <1>1, <1>2, <1>3, OneExchange

\* The browser sends a request: unless it was overtaken, both values agree.
LEMMA SendStep ==
    ASSUME CsrfInv, NEW q \in Exchange, Send(q)
    PROVE  CsrfInv'
<1> DEFINE x == [exchange[q] EXCEPT !.step = "sent", !.cookie = jar]
<1>1. exchange' = [exchange EXCEPT ![q] = x] /\ UNCHANGED <<page, jar, overtaken>>
  BY DEF Send, CsrfInv, TypeOK, ExchangeRecord
<1>2. x \in ExchangeRecord /\ x.step = "sent" /\ x.header = exchange[q].header
      /\ x.cookie = jar
  BY DEF Send, CsrfInv, TypeOK, ExchangeRecord
<1>3. page /\ jar # NoToken /\ (q \notin overtaken => exchange[q].header = jar)
  BY NoTokenAssumption DEF Send, CsrfInv, ExchangeInv, PageHoldsToken, Token
<1>4. ExchangeInv(x, q \in overtaken)
  BY <1>2, <1>3 DEF ExchangeInv
<1> HIDE DEF x
<1> QED
  BY <1>1, <1>2, <1>4, OneExchange

\* A header and a cookie that differ were not read at the same time.
LEMMA RefuseStep ==
    ASSUME CsrfInv, NEW q \in Exchange, Refuse(q)
    PROVE  CsrfInv'
<1> DEFINE x == [exchange[q] EXCEPT !.step = "refused", !.setCookie = Missing(q)]
<1>1. exchange' = [exchange EXCEPT ![q] = x] /\ UNCHANGED <<page, jar, overtaken>>
  BY DEF Refuse, CsrfInv, TypeOK, ExchangeRecord
<1>2. x \in ExchangeRecord /\ x.step = "refused" /\ x.setCookie = Missing(q)
  BY DEF CsrfInv, TypeOK, ExchangeRecord, Missing, Token
<1>3. q \in overtaken
  BY DEF Refuse, Matches, LoadToken, CsrfInv, ExchangeInv
<1>4. jar # NoToken \/ Missing(q) # <<>>
  BY DEF Refuse, Missing, CsrfInv, ExchangeInv
<1>5. ExchangeInv(x, q \in overtaken)
  BY <1>2, <1>3, <1>4 DEF ExchangeInv
<1> HIDE DEF x
<1> QED
  BY <1>1, <1>2, <1>5, OneExchange

\* A request passes: without a token it gets one, so that the cookie is never left empty.
LEMMA AdmitStep ==
    ASSUME CsrfInv, NEW q \in Exchange, NEW b \in BOOLEAN, Admit(q, b)
    PROVE  CsrfInv'
<1> DEFINE s == Missing(q) \o (IF b THEN Renewed(q) ELSE <<>>)
           x == [exchange[q] EXCEPT !.step = "passed", !.setCookie = s]
<1>1. exchange' = [exchange EXCEPT ![q] = x] /\ UNCHANGED <<page, jar, overtaken>>
  BY DEF Admit, CsrfInv, TypeOK, ExchangeRecord
<1>2. CASE exchange[q].cookie = NoToken
  <2>1. s = <<q>> /\ s # <<>>
    BY <1>2 DEF Missing, Renewed
  <2>2. x \in ExchangeRecord /\ x.step = "passed" /\ x.setCookie # <<>>
    BY <2>1 DEF CsrfInv, TypeOK, ExchangeRecord, Token
  <2> QED
    BY <1>1, <2>2, OneExchange DEF ExchangeInv
<1>3. CASE exchange[q].cookie # NoToken
  <2>1. s \in {<<>>, <<NoToken, q>>}
    BY <1>3 DEF Missing, Renewed
  <2>2. x \in ExchangeRecord /\ x.step = "passed"
    BY <2>1 DEF CsrfInv, TypeOK, ExchangeRecord, Token
  <2>3. jar # NoToken
    BY <1>3 DEF Admit, CsrfInv, ExchangeInv
  <2> QED
    BY <1>1, <2>2, <2>3, OneExchange DEF ExchangeInv
<1> QED
  BY <1>2, <1>3

\* Every response leaves a token in the browser, its own or the one before; the
\* exchanges built before a change of it count as overtaken.
LEMMA DeliverStep ==
    ASSUME CsrfInv, NEW q \in Exchange, Deliver(q)
    PROVE  CsrfInv'
<1> DEFINE s == exchange[q].setCookie
<1>1. s = <<>> \/ s[Len(s)] \in Token
  BY DEF CsrfInv, TypeOK, ExchangeRecord
<1>2. s # <<>> \/ jar \in Token
  BY DEF Deliver, CsrfInv, TypeOK, ExchangeInv
<1>3. jar' \in Token /\ jar' # NoToken /\ page'
  BY <1>1, <1>2, NoTokenAssumption DEF Deliver, Jar, Token
<1>4. TypeOK'
  BY <1>3 DEF Deliver, CsrfInv, TypeOK, ExchangeRecord
<1>5. ASSUME NEW p \in Exchange
      PROVE  ExchangeInv(exchange[p], p \in overtaken)'
  <2>1. CASE p = q
    <3>1. exchange'[p].step \in {"done", "rejected"}
      BY <2>1 DEF Deliver, CsrfInv, TypeOK, ExchangeRecord
    <3>2. exchange'[p].step = "rejected" => p \in overtaken'
      BY <2>1 DEF Deliver, CsrfInv, TypeOK, ExchangeRecord, ExchangeInv
    <3> QED
      BY <3>1, <3>2 DEF ExchangeInv
  <2>2. CASE p # q
    <3>1. exchange'[p] = exchange[p]
      BY <2>2 DEF Deliver, CsrfInv, TypeOK
    <3>2. p \in overtaken => p \in overtaken'
      BY DEF Deliver
    <3>3. exchange[p].step = "built" /\ p \notin overtaken' => jar' = jar
      BY DEF Deliver
    <3>4. ExchangeInv(exchange[p], p \in overtaken)
      BY DEF CsrfInv
    <3> QED
      BY <1>3, <3>1, <3>2, <3>3, <3>4 DEF ExchangeInv
  <2> QED
    BY <2>1, <2>2
<1> QED
  BY <1>3, <1>4, <1>5 DEF CsrfInv, PageHoldsToken

\* A loss leaves the cookie alone.
LEMMA LoseStep ==
    ASSUME CsrfInv, NEW q \in Exchange, Lose(q)
    PROVE  CsrfInv'
<1> DEFINE x == [exchange[q] EXCEPT !.step = "lost"]
<1>1. exchange' = [exchange EXCEPT ![q] = x] /\ UNCHANGED <<page, jar, overtaken>>
  BY DEF Lose, CsrfInv, TypeOK, ExchangeRecord
<1>2. x \in ExchangeRecord /\ x.step = "lost"
  BY DEF CsrfInv, TypeOK, ExchangeRecord
<1> QED
  BY <1>1, <1>2, OneExchange DEF ExchangeInv

\* Every step preserves the invariant.
LEMMA NextCsrf == CsrfInv /\ [Next]_csrfVars => CsrfInv'
<1>1. CsrfInv /\ UNCHANGED csrfVars => CsrfInv'
  BY DEF csrfVars, CsrfInv, TypeOK, PageHoldsToken, ExchangeInv
<1> QED
  BY <1>1, OpenStep, BuildStep, SendStep, RefuseStep, AdmitStep, DeliverStep, LoseStep
     DEF Next, AllDone

\* CsrfInv holds throughout.
THEOREM CsrfInvariance == Spec => []CsrfInv
  BY InitCsrf, NextCsrf, PTL DEF Spec

\* Only a request that was overtaken by a response is refused.
THEOREM OnlyOvertakenAreRefused == Spec => []RefusedOnlyIfOvertaken
<1>1. CsrfInv => RefusedOnlyIfOvertaken
  BY DEF CsrfInv, RefusedOnlyIfOvertaken, ExchangeInv
<1> QED
  BY <1>1, CsrfInvariance, PTL

\* An open page holds a token whatever arrives, is lost or reordered.
THEOREM PagesHoldTokens == Spec => []PageHoldsToken
<1>1. CsrfInv => PageHoldsToken
  BY DEF CsrfInv
<1> QED
  BY <1>1, CsrfInvariance, PTL
=============================================================================

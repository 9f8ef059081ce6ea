--------------------------- MODULE StartupProofs ----------------------------
(***************************************************************************)
(* Theorems about the start: the check in main lets no class of the        *)
(* application past the weaver, and the patterns of aop.xml select none    *)
(* below com.pixelbumper.                                                  *)
(***************************************************************************)
EXTENDS Startup, TLAPS

\* What is true at the start of main.
LEMMA InitStart == Init => StartInv
  BY ClassAssumption DEF Init, StartInv, NoClassEscapes

\* The steps of main before Spring is started load nothing.
LEMMA MainKeepsStart ==
    ASSUME StartInv, FindAgent \/ MissAgent \/ MissAspectJ \/ Attach \/ FailToAttach
    PROVE  StartInv'
  <1>1. loaded = {MainClass} /\ loaded' = loaded /\ woven' = woven
    BY DEF StartInv, FindAgent, MissAgent, MissAspectJ, Attach, FailToAttach
  <1>2. step' \in {"attach", "runApplication", "refused"} /\ agent' \in BOOLEAN
    BY DEF StartInv, FindAgent, MissAgent, MissAspectJ, Attach, FailToAttach
  <1>3. step' = "runApplication" => agent'
    BY DEF FindAgent, MissAgent, MissAspectJ, Attach, FailToAttach
  <1> QED
    BY <1>1, <1>2, <1>3 DEF StartInv, NoClassEscapes, Included

\* A class that is loaded later passes the agent.
LEMMA LoadKeepsStart ==
    ASSUME StartInv, NEW c \in Class, Load(c)
    PROVE  StartInv'
  <1>1. agent /\ agent' = agent /\ step' = step /\ loaded' = loaded \cup {c}
    BY DEF StartInv, Load
  <1>2. woven' = woven \cup {d \in {c} : Included(d)}
    BY <1>1 DEF Load
  <1>3. (\A d \in woven' : Included(d)) /\ woven' \subseteq loaded'
    BY <1>1, <1>2 DEF StartInv
  <1>4. NoClassEscapes'
    BY <1>1, <1>2 DEF StartInv, NoClassEscapes, Included
  <1> QED
    BY <1>1, <1>3, <1>4 DEF StartInv, Load, Included

\* Of every step: StartInv is inductive.
LEMMA NextStart == StartInv /\ [Next]_startVars => StartInv'
  <1> SUFFICES ASSUME StartInv, [Next]_startVars PROVE StartInv'
    OBVIOUS
  <1>1. CASE UNCHANGED startVars
    BY <1>1 DEF startVars, StartInv, NoClassEscapes, Included
  <1>2. CASE Next
    BY <1>1, <1>2, MainKeepsStart, LoadKeepsStart DEF Next, Settled
  <1> QED
    BY <1>1, <1>2

\* StartInv holds throughout the start.
THEOREM StartInvariance == Spec => []StartInv
  BY InitStart, NextStart, PTL DEF Spec

\* However the process was started, no class that aop.xml includes, but main
\* itself, is loaded before the agent that weaves it.
THEOREM NothingEscapesTheWeaver == Spec => []NoClassEscapes
  <1>1. StartInv => NoClassEscapes
    BY DEF StartInv
  <1> QED
    BY <1>1, StartInvariance, PTL

-----------------------------------------------------------------------------
\* The pattern com.pixelbumper.* selects no class of a package below, and the
\* other one is about another root package.
LEMMA PatternsSelectNothingBelow ==
    ASSUME NEW package, IsStrictPrefix(<<"com", "pixelbumper">>, package),
           NEW pattern \in Include
    PROVE  ~Selects(pattern, package)
  <1>1. IsPrefix(<<"com", "pixelbumper">>, package) /\ package # <<"com", "pixelbumper">>
    BY DEF IsStrictPrefix
  <1>2. package[1] = "com"
    BY <1>1 DEF IsPrefix
  <1>3. CASE pattern = [package |-> <<"com", "pixelbumper">>, below |-> FALSE]
    BY <1>1, <1>3 DEF Selects
  <1>4. CASE pattern = [package |-> <<"org", "springframework", "boot">>, below |-> TRUE]
    <2>1. package # <<"org", "springframework", "boot">>
      BY <1>2
    <2>2. IsPrefix(<<"org", "springframework", "boot">>, package) => package[1] = "org"
      BY DEF IsPrefix
    <2> QED
      BY <1>2, <1>4, <2>1, <2>2 DEF Selects
  <1> QED
    BY <1>3, <1>4 DEF Include

\* Whatever classes the application has below com.pixelbumper, none is woven:
\* @Transactional has no effect on them.
THEOREM ServiceRunsUnwoven == Spec => []ServiceIsNotWoven
  <1>1. StartInv => ServiceIsNotWoven
    BY PatternsSelectNothingBelow DEF StartInv, ServiceIsNotWoven, Included
  <1> QED
    BY <1>1, StartInvariance, PTL
=============================================================================

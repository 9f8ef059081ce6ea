------------------------------ MODULE Startup -------------------------------
(***************************************************************************)
(* The start of the process: main insists on the AspectJ agent, attaching  *)
(* it to the running JVM when the command line did not, and only then      *)
(* starts Spring, which loads the classes of the application.  Nothing is  *)
(* loaded before main: the launcher of the executable jar is left out.     *)
(*                                                                         *)
(* The agent transforms a class once, while it is loaded.  A class that is *)
(* loaded before the agent is there stays as it was compiled.              *)
(***************************************************************************)
EXTENDS Sequences, Naturals, SequencesExt

CONSTANTS
    Class,
    PackageOf,      \* the package of a class, as the sequence of its parts
    MainClass,      \* AuthenticationServiceApplicationKt, which holds main
    Transactional   \* classes with a method annotated @Transactional

ASSUME ClassAssumption == MainClass \in Class /\ Transactional \subseteq Class

VARIABLES
    step,    \* where main stands
    agent,   \* the agent's transformer is installed
    loaded,
    woven    \* classes the weaver was given and that aop.xml includes

startVars == <<step, agent, loaded, woven>>

-----------------------------------------------------------------------------
(***************************************************************************)
(* aop.xml: a pattern p.* selects the classes of package p, a pattern p..* *)
(* those of the packages below it as well.                                 *)
(***************************************************************************)
\* Variant: the first pattern is com.pixelbumper..*
IncludeBelow ==
    {[package |-> <<"com", "pixelbumper">>, below |-> TRUE],
     [package |-> <<"org", "springframework", "boot">>, below |-> TRUE]}

Include ==
    {[package |-> <<"com", "pixelbumper">>, below |-> FALSE],
     [package |-> <<"org", "springframework", "boot">>, below |-> TRUE]}

Selects(pattern, package) ==
    \/ package = pattern.package
    \/ pattern.below /\ IsPrefix(pattern.package, package)

Included(c) == \E pattern \in Include : Selects(pattern, PackageOf[c])

-----------------------------------------------------------------------------
\* The JVM runs main, with -javaagent on its command line or without: jib
\* passes it, a start from gradle does not.
Init ==
    /\ step = "isAgentLoaded"
    /\ agent \in BOOLEAN
    /\ loaded = {MainClass}
    /\ woven = {c \in {MainClass} : agent /\ Included(c)}

\* Agent.getInstrumentation() returns.
FindAgent ==
    /\ step = "isAgentLoaded" /\ agent
    /\ step' = "runApplication"
    /\ UNCHANGED <<agent, loaded, woven>>

\* It throws UnsupportedOperationException: no agent so far.
MissAgent ==
    /\ step = "isAgentLoaded" /\ ~agent
    /\ step' = "attach"
    /\ UNCHANGED <<agent, loaded, woven>>

\* No AspectJ on the class path (NoClassDefFoundError).
MissAspectJ ==
    /\ step = "isAgentLoaded" /\ ~agent
    /\ step' = "refused"
    /\ UNCHANGED <<agent, loaded, woven>>

\* The JVM lets itself be attached to, and has the jar of the weaver in its
\* class path.
Attach ==
    /\ step = "attach"
    /\ step' = "runApplication"
    /\ agent' = TRUE
    /\ UNCHANGED <<loaded, woven>>

\* Variant: main goes on whatever dynamicallyLoadAspectJAgent returns.
FailToAttachUnchecked ==
    /\ step = "attach"
    /\ step' = "runApplication"
    /\ UNCHANGED <<agent, loaded, woven>>

\* attach, the search for the jar, loadAgent or detach threw: only the last
\* leaves the agent installed.
FailToAttach ==
    /\ step = "attach"
    /\ step' = "refused"
    /\ agent' \in BOOLEAN
    /\ UNCHANGED <<loaded, woven>>

\* Spring, and the requests later, load the classes in any order.
Load(c) ==
    /\ step = "runApplication"
    /\ c \notin loaded
    /\ loaded' = loaded \cup {c}
    /\ woven' = woven \cup {d \in {c} : agent /\ Included(d)}
    /\ UNCHANGED <<step, agent>>

\* main threw, or everything is loaded.
Settled ==
    /\ step = "refused" \/ loaded = Class
    /\ UNCHANGED startVars

Next ==
    \/ FindAgent \/ MissAgent \/ MissAspectJ \/ Attach \/ FailToAttach
    \/ \E c \in Class : Load(c)
    \/ Settled

Spec == Init /\ [][Next]_startVars

-----------------------------------------------------------------------------
(***************************************************************************)
(* Properties                                                              *)
(***************************************************************************)
\* No class that aop.xml includes is loaded past the weaver, with or without
\* the agent on the command line; main itself may be.  A class that escaped could not be
\* woven any more without a restart.
NoClassEscapes ==
    \A c \in loaded \ {MainClass} : Included(c) => c \in woven

\* Nothing below com.pixelbumper is woven: @Transactional stays without effect
\* in the classes of the service, as AccountService has it with Woven = FALSE.
ServiceIsNotWoven ==
    \A c \in Class :
        IsStrictPrefix(<<"com", "pixelbumper">>, PackageOf[c]) => c \notin woven

\* README.md:20: Spring AOP and AspectJ are used "to be able to use annotations
\* like @Transactional on private methods".  A loaded class with such a method
\* would have to be woven.
TransactionalIsWoven ==
    \A c \in loaded \cap Transactional : c \in woven

\* The invariant behind them: without the agent main alone is loaded.
StartInv ==
    /\ step \in {"isAgentLoaded", "attach", "runApplication", "refused"}
    /\ agent \in BOOLEAN
    /\ loaded \subseteq Class
    /\ woven = {c \in woven : Included(c)}
    /\ woven \subseteq loaded
    /\ MainClass \in loaded
    /\ step = "runApplication" => agent
    /\ step # "runApplication" => loaded = {MainClass}
    /\ NoClassEscapes
=============================================================================

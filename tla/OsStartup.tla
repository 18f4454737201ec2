------------------------------- MODULE OsStartup -------------------------------
(***************************************************************************)
(* Start and shutdown of the kernel on all cores (Os_Kernel.c, Os_Core.c).  *)
(* The master starts the other cores, each calls StartOS, and they agree on *)
(* an application mode and go through the synchronisation points 0, 1 and 2 *)
(* together.  A core shuts down alone, or all of them do: ShutdownAllCores  *)
(* calls Os_ShutdownOS on the others and they meet at point 3.              *)
(*                                                                          *)
(* Reading a flag, an application mode, and each block of writes between    *)
(* two of them is a step.                                                   *)
(***************************************************************************)
EXTENDS Naturals

CONSTANTS
    OS_AUTOSAR_CORES,
    Modes,       \* application modes
    DONOTCARE,   \* what a core passes that takes the mode of the others
    NoMode,      \* OS_NULL_APPMODE
    MayStopAlone \* cores whose OS may be shut down alone, by ShutdownOS or a protection fault

ASSUME StartupConstants ==
    /\ OS_AUTOSAR_CORES \in Nat \ {0}
    /\ DONOTCARE \notin Modes
    /\ NoMode \notin Modes \cup {DONOTCARE}

Cores == 0 .. OS_AUTOSAR_CORES - 1
OS_CORE_ID_MASTER == 0
Points == 0 .. 3

VARIABLES
    CoreStateActive,  \* Os_CoreCB: the cores that are active
    SynPoint,         \* CoreStateSynPoint[point][core]
    AppMode,
    CoreStatus,
    core,             \* where a core is; its argument, loop index and mode found so far
    initialised,      \* the cores that have been through Os_InitSystem
    kill              \* cores with a remote call of Os_ShutdownOS that waits for their interrupt

vars == <<CoreStateActive, SynPoint, AppMode, CoreStatus, core, initialised, kill>>

Init ==
    /\ CoreStateActive = {}
    /\ SynPoint = [p \in Points |-> [c \in Cores |-> FALSE]]
    /\ AppMode = [c \in Cores |-> NoMode]
    /\ CoreStatus = [c \in Cores |-> "INVALID"]
    /\ core = [c \in Cores |-> [pc |-> IF c = OS_CORE_ID_MASTER THEN "boot" ELSE "off",
                                point |-> 0, i |-> 0, arg |-> NoMode, mode |-> DONOTCARE]]
    /\ initialised = {}
    /\ kill = {}

At(c, pc) == core[c].pc = pc
Goto(c, pc) == core' = [core EXCEPT ![c].pc = pc]

\* Os_SynPoint(p) begins.
Reach(c, p) ==
    /\ SynPoint' = [SynPoint EXCEPT ![p][c] = TRUE]
    /\ core' = [core EXCEPT ![c] = [@ EXCEPT !.pc = "syn", !.point = p, !.i = 0]]

\* The loop of Os_SynPoint looks at the core it waits for.
SeesFlag(c) ==
    /\ At(c, "syn")
    /\ core[c].i < OS_AUTOSAR_CORES
    /\ SynPoint[core[c].point][core[c].i]
    /\ core' = [core EXCEPT ![c].i = @ + 1]
    /\ UNCHANGED <<CoreStateActive, SynPoint, AppMode, CoreStatus, initialised, kill>>

Past(c, p) == At(c, "syn") /\ core[c].point = p /\ core[c].i = OS_AUTOSAR_CORES
-----------------------------------------------------------------------------
(* StartCore, by the master before it calls StartOS *)

\* The core is started before the two writes.  It looks at neither until it is past point 0, and
\* nobody passes that before the master has come back from here and set its own flag.
StartCore(c) ==
    /\ At(OS_CORE_ID_MASTER, "boot")
    /\ ~ SynPoint[2][OS_CORE_ID_MASTER]
    /\ c \notin CoreStateActive
    /\ At(c, "off")
    /\ core' = [core EXCEPT ![c].pc = "boot"]
    /\ CoreStateActive' = CoreStateActive \cup {c}
    /\ CoreStatus' = [CoreStatus EXCEPT ![c] = "OS_RUN"]
    /\ UNCHANGED <<SynPoint, AppMode, initialised, kill>>

\* The start of the master follows that of the others (EcuM).
StartOS(c) ==
    /\ At(c, "boot")
    /\ c = OS_CORE_ID_MASTER => \A d \in Cores : ~ At(d, "off")
    /\ \E m \in Modes \cup {DONOTCARE} :
         /\ AppMode' = [AppMode EXCEPT ![c] = m]
         /\ core' = [core EXCEPT ![c] = [@ EXCEPT !.pc = "mode", !.arg = m]]
    /\ UNCHANGED <<CoreStateActive, SynPoint, CoreStatus, initialised, kill>>

ReachModes(c) ==
    /\ At(c, "mode")
    /\ Reach(c, 0)
    /\ UNCHANGED <<CoreStateActive, AppMode, CoreStatus, initialised, kill>>
-----------------------------------------------------------------------------
(* Os_CheckAppMode *)

CompareModes(c) ==
    /\ Past(c, 0)
    /\ core' = [core EXCEPT ![c] = [@ EXCEPT !.pc = "compare", !.i = 0]]
    /\ UNCHANGED <<CoreStateActive, SynPoint, AppMode, CoreStatus, initialised, kill>>

\* Mutant: the last mode that is not DONOTCARE counts.
CompareModeLast(c) ==
    LET m == AppMode[core[c].i] IN
    /\ At(c, "compare")
    /\ core[c].i < OS_AUTOSAR_CORES
    /\ core' = [core EXCEPT ![c] = [core[c] EXCEPT !.i = @ + 1, !.mode = IF m = DONOTCARE THEN @ ELSE m]]
    /\ UNCHANGED <<CoreStateActive, SynPoint, AppMode, CoreStatus, initialised, kill>>

\* Two modes that differ: the core stays in a loop.
CompareMode(c) ==
    LET m == AppMode[core[c].i] IN
    /\ At(c, "compare")
    /\ core[c].i < OS_AUTOSAR_CORES
    /\ IF DONOTCARE \in {m, core[c].mode} \/ m = core[c].mode
       THEN core' = [core EXCEPT ![c] = [core[c] EXCEPT !.i = @ + 1, !.mode = IF m = DONOTCARE THEN @ ELSE m]]
       ELSE Goto(c, "stuck")
    /\ UNCHANGED <<CoreStateActive, SynPoint, AppMode, CoreStatus, initialised, kill>>

\* No core has a mode, or all entries get the one that was found.
TakeMode(c) ==
    /\ At(c, "compare")
    /\ core[c].i = OS_AUTOSAR_CORES
    /\ IF core[c].mode = DONOTCARE
       THEN Goto(c, "stuck") /\ UNCHANGED AppMode
       ELSE Goto(c, "init") /\ AppMode' = [d \in Cores |-> core[c].mode]
    /\ UNCHANGED <<CoreStateActive, SynPoint, CoreStatus, initialised, kill>>
-----------------------------------------------------------------------------
(* StartOS after the mode *)

\* Mutant: the master clears the flags of the points with what else it initialises.
InitSystemClearsPoints(c) ==
    /\ At(c, "init")
    /\ IF c = OS_CORE_ID_MASTER
       THEN /\ CoreStateActive' = CoreStateActive \cup {c}
            /\ CoreStatus' = [CoreStatus EXCEPT ![c] = "OS_RUN"]
            /\ SynPoint' = [p \in Points |-> [d \in Cores |-> FALSE]]
       ELSE UNCHANGED <<CoreStateActive, CoreStatus, SynPoint>>
    /\ initialised' = initialised \cup {c}
    /\ Goto(c, "inited")
    /\ UNCHANGED <<AppMode, kill>>

InitSystem(c) ==
    /\ At(c, "init")
    /\ IF c = OS_CORE_ID_MASTER
       THEN /\ CoreStateActive' = CoreStateActive \cup {c}
            /\ CoreStatus' = [CoreStatus EXCEPT ![c] = "OS_RUN"]
       ELSE UNCHANGED <<CoreStateActive, CoreStatus>>
    /\ initialised' = initialised \cup {c}
    /\ Goto(c, "inited")
    /\ UNCHANGED <<SynPoint, AppMode, kill>>

ReachHooks(c) ==
    /\ At(c, "inited")
    /\ Reach(c, 1)
    /\ UNCHANGED <<CoreStateActive, AppMode, CoreStatus, initialised, kill>>

StartupHook(c) ==
    /\ Past(c, 1)
    /\ Goto(c, "hook")
    /\ UNCHANGED <<CoreStateActive, SynPoint, AppMode, CoreStatus, initialised, kill>>

ReachScheduler(c) ==
    /\ At(c, "hook")
    /\ Reach(c, 2)
    /\ UNCHANGED <<CoreStateActive, AppMode, CoreStatus, initialised, kill>>

StartScheduler(c) ==
    /\ Past(c, 2)
    /\ Goto(c, "run")
    /\ UNCHANGED <<CoreStateActive, SynPoint, AppMode, CoreStatus, initialised, kill>>
-----------------------------------------------------------------------------
(* Shutdown *)

\* The remote calls go to the cores that run; those of several callers end in one shutdown.
ShutdownAllCores(c) ==
    /\ At(c, "run")
    /\ CoreStatus' = [CoreStatus EXCEPT ![c] = "OS_CORE_PRE_SHUTDOWN"]
    /\ kill' = kill \cup {d \in Cores \ {c} : CoreStatus[d] = "OS_RUN"}
    /\ Goto(c, "killed")
    /\ UNCHANGED <<CoreStateActive, SynPoint, AppMode, initialised>>

\* The point 3 of the core that called ShutdownAllCores.
ReachAll(c) ==
    /\ At(c, "killed")
    /\ SynPoint' = [SynPoint EXCEPT ![3][c] = TRUE]
    /\ core' = [core EXCEPT ![c] = [@ EXCEPT !.pc = "synall", !.i = 0]]
    /\ UNCHANGED <<CoreStateActive, AppMode, CoreStatus, initialised, kill>>

SeesFlagAll(c) ==
    /\ At(c, "synall")
    /\ core[c].i < OS_AUTOSAR_CORES
    /\ SynPoint[3][core[c].i]
    /\ core' = [core EXCEPT ![c].i = @ + 1]
    /\ UNCHANGED <<CoreStateActive, SynPoint, AppMode, CoreStatus, initialised, kill>>

\* Past the point, interrupts are disabled; the last writes are made under Os_SpinlockSync.
EndAll(c) ==
    /\ At(c, "synall")
    /\ core[c].i = OS_AUTOSAR_CORES
    /\ CoreStateActive' = CoreStateActive \ {c}
    /\ SynPoint' = [p \in Points |-> [d \in Cores |-> FALSE]]
    /\ AppMode' = [AppMode EXCEPT ![c] = NoMode]
    /\ CoreStatus' = [CoreStatus EXCEPT ![c] = "INVALID"]
    /\ Goto(c, "end")
    /\ UNCHANGED <<initialised, kill>>

\* The inter-core interrupt performs Os_RpcAction_KillAllCore, and interrupts a wait at point 3, too.
ShutdownRemote(c) ==
    /\ c \in kill
    /\ At(c, "run") \/ At(c, "killed") \/ At(c, "synall")
    /\ kill' = kill \ {c}
    /\ CoreStatus' = [CoreStatus EXCEPT ![c] = "OS_CORE_PRE_SHUTDOWN"]
    /\ Reach(c, 3)
    /\ UNCHANGED <<CoreStateActive, AppMode, initialised>>

\* Os_ShutdownOS with OS_SHUTDOWN_OS passes no point.
ShutdownOS(c) ==
    /\ c \in MayStopAlone
    /\ At(c, "run")
    /\ CoreStatus' = [CoreStatus EXCEPT ![c] = "OS_CORE_PRE_SHUTDOWN"]
    /\ Goto(c, "deinit")
    /\ UNCHANGED <<CoreStateActive, SynPoint, AppMode, initialised, kill>>

DeInitCoreInfo(c) ==
    /\ At(c, "deinit") \/ Past(c, 3)
    /\ CoreStateActive' = CoreStateActive \ {c}
    /\ AppMode' = [AppMode EXCEPT ![c] = NoMode]
    /\ CoreStatus' = [CoreStatus EXCEPT ![c] = "INVALID"]
    /\ Goto(c, "end")
    /\ UNCHANGED <<SynPoint, initialised, kill>>
-----------------------------------------------------------------------------
Start(c) == \/ StartCore(c) \/ StartOS(c) \/ ReachModes(c) \/ CompareModes(c) \/ CompareMode(c)
            \/ TakeMode(c) \/ InitSystem(c) \/ ReachHooks(c) \/ StartupHook(c) \/ ReachScheduler(c)
            \/ StartScheduler(c) \/ SeesFlag(c)

Shut(c) == \/ ReachAll(c) \/ SeesFlagAll(c) \/ EndAll(c) \/ ShutdownRemote(c) \/ DeInitCoreInfo(c)

Next == \E c \in Cores : Start(c) \/ Shut(c) \/ ShutdownAllCores(c) \/ ShutdownOS(c)

\* A core executes its program and takes the inter-core interrupt; when to shut down is open.
Fairness == \A c \in Cores : WF_vars(Start(c)) /\ WF_vars(Shut(c))

Spec == Init /\ [][Next]_vars /\ Fairness
-----------------------------------------------------------------------------
Ending == {"killed", "synall", "deinit", "end"}

TypeOK ==
    /\ CoreStateActive \subseteq Cores
    /\ SynPoint \in [Points -> [Cores -> BOOLEAN]]
    /\ AppMode \in [Cores -> Modes \cup {DONOTCARE, NoMode}]
    /\ CoreStatus \in [Cores -> {"INVALID", "OS_RUN", "OS_CORE_PRE_SHUTDOWN"}]
    /\ core \in [Cores -> [pc : {"off", "boot", "mode", "syn", "compare", "stuck", "init", "inited", "hook",
                                 "run"} \cup Ending,
                           point : Points, i : 0 .. OS_AUTOSAR_CORES,
                           arg : Modes \cup {DONOTCARE, NoMode}, mode : Modes \cup {DONOTCARE}]]
    /\ initialised \subseteq Cores
    /\ kill \subseteq Cores

\* How far a core has come, by the points it has been counted at.
AtPoint(c, p) == At(c, "syn") /\ core[c].point = p

Reached(c, p) ==
    CASE p = 0 -> core[c].pc \notin {"off", "boot", "mode"}
      [] p = 1 -> core[c].pc \in {"hook", "run"} \cup Ending \/ (At(c, "syn") /\ core[c].point > 0)
      [] p = 2 -> core[c].pc \in {"run"} \cup Ending \/ (At(c, "syn") /\ core[c].point > 1)
      [] p = 3 -> core[c].pc \in {"synall", "end"} \/ AtPoint(c, 3)

Hooked(c) == Reached(c, 1) /\ ~ AtPoint(c, 1)
HasMode(c) == core[c].pc \in {"init", "inited"} \/ Reached(c, 1)
Runs(c) == Reached(c, 2) /\ ~ AtPoint(c, 2)

\* A flag is set by a core that has reached the point, a core in the loop of a point is past the
\* cores that have reached it, and a core past the loop has found all of them.
PointsHold ==
    \A c \in Cores :
        /\ \A p \in Points : SynPoint[p][c] => Reached(c, p)
        /\ \A p \in Points : AtPoint(c, p) => \A d \in Cores : d < core[c].i => Reached(d, p)
        /\ At(c, "synall") => \A d \in Cores : d < core[c].i => Reached(d, 3)
        /\ \A p \in 0 .. 2 : Reached(c, p) /\ ~ AtPoint(c, p) => \A d \in Cores : Reached(d, p)

\* A core has initialised what it has to before it comes to point 1.
InitialisedInTime == \A c \in Cores : At(c, "inited") \/ Reached(c, 1) => c \in initialised

\* A startup hook may use what any core initialises, and a scheduler starts when all hooks are done.
PointsSeparate ==
    \A c \in Cores : /\ Hooked(c) => initialised = Cores
                     /\ Runs(c) => \A d \in Cores : Runs(d) \/ AtPoint(d, 2)

\* What a core asked for, until a core that has a mode gives it to all.
ModesAreAsked ==
    \A c \in Cores :
        /\ ~ At(c, "off") /\ ~ At(c, "boot") => core[c].arg # NoMode
        /\ ~ At(c, "off") /\ ~ At(c, "boot") /\ ~ At(c, "end") =>
             AppMode[c] = core[c].arg \/ \E d \in Cores : HasMode(d) /\ AppMode[c] = core[d].mode
        /\ core[c].mode # DONOTCARE => \E d \in Cores : core[d].arg = core[c].mode
        /\ ~ Reached(c, 0) \/ AtPoint(c, 0) => core[c].mode = DONOTCARE
        /\ At(c, "compare") => \A d \in Cores : d < core[c].i => core[d].arg \in {core[c].mode, DONOTCARE}

\* A core that goes on with a mode has the mode of every other one that does, and what each core
\* asked for is this mode or none in particular.
SameMode ==
    \A c, d \in Cores : HasMode(c) =>
        /\ core[c].mode \in Modes
        /\ core[d].arg \in {core[c].mode, DONOTCARE}
        /\ HasMode(d) => core[d].mode = core[c].mode

\* A core is active from its start to the end of its shutdown.
ActiveAgrees ==
    CoreStateActive = {c \in Cores : ~ At(c, "off") /\ ~ At(c, "end")
                                     /\ (c = OS_CORE_ID_MASTER => c \in initialised)}

\* A core that does not shut down alone ends when every core has come to point 3 or has ended.
EndsTogether ==
    \A c \in Cores : /\ At(c, "deinit") => c \in MayStopAlone
                     /\ At(c, "end") /\ c \notin MayStopAlone => \A d \in Cores : Reached(d, 3)

\* The cores start in one mode and step by step together, and end together, and the set of the
\* active ones is right.
StartupInvariant ==
    /\ TypeOK
    /\ PointsHold
    /\ InitialisedInTime
    /\ PointsSeparate
    /\ ModesAreAsked
    /\ SameMode
    /\ ActiveAgrees
    /\ EndsTogether

\* The cores ask for two modes, or for none.
ModesDisagree ==
    \/ \E c, d \in Cores : {core[c].arg, core[d].arg} \subseteq Modes /\ core[c].arg # core[d].arg
    \/ \A c \in Cores : core[c].arg = DONOTCARE

\* Every core gets to its scheduler, unless the modes disagree.
EveryCoreStarts == <>(ModesDisagree \/ \A c \in Cores : Runs(c))
=============================================================================

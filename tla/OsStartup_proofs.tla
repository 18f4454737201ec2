--------------------------- MODULE OsStartup_proofs ---------------------------
(***************************************************************************)
(* The theorems about OsStartup, for any number of cores and any modes:     *)
(* StartupInvariant is inductive.                                           *)
(***************************************************************************)
EXTENDS OsStartup, TLAPS

Phases == {"off", "boot", "mode", "syn", "compare", "stuck", "init", "inited", "hook", "run"} \cup Ending

Records == [pc : Phases, point : Points, i : 0 .. OS_AUTOSAR_CORES,
            arg : Modes \cup {DONOTCARE, NoMode}, mode : Modes \cup {DONOTCARE}]

Step(c) == Start(c) \/ Shut(c) \/ ShutdownAllCores(c) \/ ShutdownOS(c)

\* The numbers of the cores; the record of a core.
LEMMA Numbers ==
  /\ OS_AUTOSAR_CORES \in Nat
  /\ Cores = 0 .. OS_AUTOSAR_CORES - 1
  /\ Cores \subseteq Nat
  /\ OS_CORE_ID_MASTER \in Cores
BY StartupConstants DEF Cores, OS_CORE_ID_MASTER

LEMMA RecordOf ==
  ASSUME TypeOK, NEW c \in Cores
  PROVE  /\ core[c] \in Records /\ DOMAIN core = Cores
         /\ \A r : LET new == [core EXCEPT ![c] = r]
                   IN  new[c] = r /\ \A d \in Cores \ {c} : new[d] = core[d]
BY DEF TypeOK, Records, Phases, Ending

\* A core that compares the modes finds no entry without one.
LEMMA ModesRead ==
  ASSUME StartupInvariant, NEW c \in Cores, At(c, "compare")
  PROVE  /\ \A d \in Cores : Reached(d, 0) /\ (~ Reached(d, 2) \/ AtPoint(d, 2))
         /\ \A d \in Cores : core[d].arg \in Modes \cup {DONOTCARE}
         /\ \A d \in Cores : AppMode[d] \in Modes \cup {DONOTCARE}
<1>1. /\ Reached(c, 0) /\ ~ AtPoint(c, 0) /\ ~ Reached(c, 1) /\ ~ Reached(c, 2)
  BY DEF At, AtPoint, Reached, Ending
<1>2. \A d \in Cores : Reached(d, 0)
  BY <1>1 DEF StartupInvariant, PointsHold
<1>3. \A d \in Cores : Reached(d, 2) => AtPoint(d, 2)
  BY <1>1 DEF StartupInvariant, PointsHold
<1>4. \A d \in Cores : ~ At(d, "off") /\ ~ At(d, "boot") /\ ~ At(d, "end")
  BY <1>2, <1>3 DEF Reached, At, AtPoint, Ending
<1>5. \A d \in Cores : core[d].arg \in Modes \cup {DONOTCARE}
  BY <1>4, RecordOf DEF StartupInvariant, ModesAreAsked, Records
<1>6. \A d \in Cores : AppMode[d] \in Modes \cup {DONOTCARE}
  BY <1>4, <1>5 DEF StartupInvariant, ModesAreAsked, SameMode
<1>7. QED
  BY <1>2, <1>3, <1>5, <1>6
-----------------------------------------------------------------------------
(* What the steps of a core do to its record *)

\* Core c has the record r after the step, and no other core has moved.
Moved(c, r) == r \in Records /\ core' = [core EXCEPT ![c] = r]

LEMMA MovedRecord ==
  ASSUME TypeOK, NEW c \in Cores, NEW r, Moved(c, r)
  PROVE  core'[c] = r /\ \A d \in Cores \ {c} : core'[d] = core[d]
BY RecordOf DEF Moved

\* A record with some fields written.
With(r, s, pc, point, i) == s.pc = pc /\ s.point = point /\ s.i = i /\ s.arg = r.arg /\ s.mode = r.mode

LEMMA PointsAre == Points = {0, 1, 2, 3}
BY DEF Points

\* The records a step may write.
LEMMA Written ==
  ASSUME NEW r \in Records
  PROVE  /\ \A q \in Phases : LET s == [r EXCEPT !.pc = q] IN s \in Records /\ With(r, s, q, r.point, r.i)
         /\ \A q \in Phases : LET s == [r EXCEPT !.pc = q, !.i = 0] IN s \in Records /\ With(r, s, q, r.point, 0)
         /\ \A p \in Points : LET s == [r EXCEPT !.pc = "syn", !.point = p, !.i = 0]
                              IN  s \in Records /\ With(r, s, "syn", p, 0)
         /\ r.i < OS_AUTOSAR_CORES =>
              LET s == [r EXCEPT !.i = @ + 1] IN s \in Records /\ With(r, s, r.pc, r.point, r.i + 1)
<1>1. 0 \in 0 .. OS_AUTOSAR_CORES /\ "syn" \in Phases /\ (r.i < OS_AUTOSAR_CORES => r.i + 1 \in 0 .. OS_AUTOSAR_CORES)
  BY Numbers DEF Records, Phases
<1>2. QED
  BY <1>1 DEF Records, With

To(c, pc, point, i) == With(core[c], core'[c], pc, point, i)

Here(c, pc) == To(c, pc, core[c].point, core[c].i)

\* From where a core comes to a point.
Before(c, p) ==
    CASE p = 0 -> At(c, "mode")
      [] p = 1 -> At(c, "inited")
      [] p = 2 -> At(c, "hook")
      [] p = 3 -> At(c, "run") \/ At(c, "killed") \/ At(c, "synall")

\* What the steps of a core do: those that write a flag, a mode, or what a core is,
FlagStep(c) ==
    /\ \/ \E p \in Points : /\ Before(c, p)
                            /\ To(c, "syn", p, 0)
                            /\ SynPoint' = [SynPoint EXCEPT ![p][c] = TRUE]
       \/ /\ At(c, "killed")
          /\ To(c, "synall", core[c].point, 0)
          /\ SynPoint' = [SynPoint EXCEPT ![3][c] = TRUE]
    /\ UNCHANGED <<CoreStateActive, AppMode, initialised>>

ModeStep(c) ==
    /\ \/ /\ At(c, "boot")
          /\ core'[c].pc = "mode" /\ core'[c].mode = core[c].mode
          /\ core'[c].arg \in Modes \cup {DONOTCARE}
          /\ AppMode' = [AppMode EXCEPT ![c] = core'[c].arg]
       \/ /\ At(c, "compare") /\ core[c].i = OS_AUTOSAR_CORES /\ core[c].mode # DONOTCARE
          /\ Here(c, "init")
          /\ AppMode' = [d \in Cores |-> core[c].mode]
    /\ UNCHANGED <<CoreStateActive, SynPoint, initialised>>

ActiveStep(c) ==
    \/ /\ At(c, "off") /\ c # OS_CORE_ID_MASTER
       /\ Here(c, "boot")
       /\ CoreStateActive' = CoreStateActive \cup {c}
       /\ UNCHANGED <<SynPoint, AppMode, initialised>>
    \/ /\ At(c, "init")
       /\ Here(c, "inited")
       /\ CoreStateActive' = IF c = OS_CORE_ID_MASTER THEN CoreStateActive \cup {c} ELSE CoreStateActive
       /\ initialised' = initialised \cup {c}
       /\ UNCHANGED <<SynPoint, AppMode>>
    \/ /\ \/ At(c, "synall") /\ core[c].i = OS_AUTOSAR_CORES
             /\ SynPoint' = [p \in Points |-> [d \in Cores |-> FALSE]]
          \/ (At(c, "deinit") \/ Past(c, 3)) /\ UNCHANGED SynPoint
       /\ Here(c, "end")
       /\ CoreStateActive' = CoreStateActive \ {c}
       /\ AppMode' = [AppMode EXCEPT ![c] = NoMode]
       /\ UNCHANGED initialised

\* and those that write the record only.
Compares(c) ==
    LET m == AppMode[core[c].i] IN
    /\ At(c, "compare") /\ core[c].i < OS_AUTOSAR_CORES
    /\ core'[c].pc = "compare" /\ core'[c].i = core[c].i + 1
    /\ core'[c].arg = core[c].arg
    /\ core'[c].mode = IF m = DONOTCARE THEN core[c].mode ELSE m
    /\ DONOTCARE \in {m, core[c].mode} \/ m = core[c].mode

QuietStep(c) ==
    /\ \/ /\ At(c, "syn") /\ core[c].i < OS_AUTOSAR_CORES /\ SynPoint[core[c].point][core[c].i]
          /\ To(c, "syn", core[c].point, core[c].i + 1)
       \/ /\ At(c, "synall") /\ core[c].i < OS_AUTOSAR_CORES /\ SynPoint[3][core[c].i]
          /\ To(c, "synall", core[c].point, core[c].i + 1)
       \/ Past(c, 0) /\ To(c, "compare", core[c].point, 0)
       \/ Past(c, 1) /\ Here(c, "hook")
       \/ Past(c, 2) /\ Here(c, "run")
       \/ Compares(c)
       \/ At(c, "compare") /\ Here(c, "stuck")
       \/ At(c, "run") /\ Here(c, "killed")
       \/ At(c, "run") /\ Here(c, "deinit") /\ c \in MayStopAlone
    /\ UNCHANGED <<CoreStateActive, SynPoint, AppMode, initialised>>

Effect(c) == FlagStep(c) \/ ModeStep(c) \/ ActiveStep(c) \/ QuietStep(c)

LEMMA StepEffect ==
  ASSUME StartupInvariant, NEW c \in Cores, Step(c)
  PROVE  (\E r : Moved(c, r)) /\ Effect(c)
<1>0. core[c] \in Records /\ DOMAIN core = Cores /\ TypeOK
  BY RecordOf DEF StartupInvariant
<1>1. CASE StartCore(c)
  <2>1. core' = [core EXCEPT ![c] = [core[c] EXCEPT !.pc = "boot"]]
    BY <1>1 DEF StartCore, Goto
  <2>2. PICK r \in Records : core' = [core EXCEPT ![c] = r] /\ With(core[c], r, "boot", core[c].point, core[c].i)
    BY <1>0, <2>1, Written, PointsAre DEF Phases, Ending
  <2>3. Moved(c, r) /\ To(c, "boot", core[c].point, core[c].i)
    BY <1>0, <2>2, MovedRecord DEF Moved, To
  <2>4. ActiveStep(c)
    BY <1>1, <2>3 DEF StartCore, Goto, Reach, ActiveStep, Here, Past, At
  <2>5. QED
    BY <2>3, <2>4 DEF Effect
<1>2. CASE StartOS(c)
  <2>1. PICK m \in Modes \cup {DONOTCARE} :
           /\ AppMode' = [AppMode EXCEPT ![c] = m]
           /\ core' = [core EXCEPT ![c] = [core[c] EXCEPT !.pc = "mode", !.arg = m]]
    BY <1>2 DEF StartOS
  <2> DEFINE r == [core[c] EXCEPT !.pc = "mode", !.arg = m]
  <2>2. r \in Records /\ r.pc = "mode" /\ r.mode = core[c].mode /\ r.arg = m
    BY <1>0 DEF Records, Phases
  <2>3. core' = [core EXCEPT ![c] = r]
    BY <2>1
  <2> HIDE DEF r
  <2>4. Moved(c, r) /\ core'[c] = r
    BY <1>0, <2>2, <2>3, MovedRecord DEF Moved
  <2>5. ModeStep(c)
    BY <1>2, <2>1, <2>2, <2>4 DEF StartOS, ModeStep
  <2>6. QED
    BY <2>4, <2>5 DEF Effect
<1>3. CASE ReachModes(c)
  <2>1. core' = [core EXCEPT ![c] = [core[c] EXCEPT !.pc = "syn", !.point = 0, !.i = 0]]
    BY <1>3 DEF ReachModes, Reach
  <2>2. PICK r \in Records : core' = [core EXCEPT ![c] = r] /\ With(core[c], r, "syn", 0, 0)
    BY <1>0, <2>1, Written, PointsAre DEF Phases, Ending
  <2>3. Moved(c, r) /\ To(c, "syn", 0, 0)
    BY <1>0, <2>2, MovedRecord DEF Moved, To
  <2>4. FlagStep(c)
    BY <1>3, <2>3, PointsAre DEF ReachModes, Goto, Reach, FlagStep, Here, Before, Past, At
  <2>5. QED
    BY <2>3, <2>4 DEF Effect
<1>4. CASE CompareModes(c)
  <2>1. core' = [core EXCEPT ![c] = [core[c] EXCEPT !.pc = "compare", !.i = 0]]
    BY <1>4 DEF CompareModes
  <2>2. PICK r \in Records : core' = [core EXCEPT ![c] = r] /\ With(core[c], r, "compare", core[c].point, 0)
    BY <1>0, <2>1, Written, PointsAre DEF Phases, Ending
  <2>3. Moved(c, r) /\ To(c, "compare", core[c].point, 0)
    BY <1>0, <2>2, MovedRecord DEF Moved, To
  <2>4. QuietStep(c)
    BY <1>4, <2>3 DEF CompareModes, Goto, Reach, QuietStep, Here, Past, At
  <2>5. QED
    BY <2>3, <2>4 DEF Effect
<1>5. CASE CompareMode(c)
  <2>1. CASE core' = [core EXCEPT ![c].pc = "stuck"]
    <3>1. core' = [core EXCEPT ![c] = [core[c] EXCEPT !.pc = "stuck"]]
      BY <1>5, <2>1 DEF CompareMode, Goto
    <3>2. PICK r \in Records : core' = [core EXCEPT ![c] = r] /\ With(core[c], r, "stuck", core[c].point, core[c].i)
      BY <1>0, <3>1, Written, PointsAre DEF Phases, Ending
    <3>3. Moved(c, r) /\ To(c, "stuck", core[c].point, core[c].i)
      BY <1>0, <3>2, MovedRecord DEF Moved, To
    <3>4. QuietStep(c)
      BY <1>5, <2>1, <3>3 DEF CompareMode, Goto, Reach, QuietStep, Here, Past, At
    <3>5. QED
      BY <3>3, <3>4 DEF Effect
  <2>2. CASE core' # [core EXCEPT ![c].pc = "stuck"]
    <3> DEFINE m == AppMode[core[c].i]
               n == IF m = DONOTCARE THEN core[c].mode ELSE m
               r == [core[c] EXCEPT !.i = @ + 1, !.mode = n]
    <3>1. /\ At(c, "compare") /\ core[c].i < OS_AUTOSAR_CORES /\ core' = [core EXCEPT ![c] = r]
          /\ DONOTCARE \in {m, core[c].mode} \/ m = core[c].mode
          /\ UNCHANGED <<CoreStateActive, SynPoint, AppMode, initialised>>
      BY <1>5, <2>2 DEF CompareMode, Goto
    <3>2. core[c].i \in Cores
      BY <1>0, <3>1, Numbers DEF Records
    <3>3. n \in Modes \cup {DONOTCARE}
      BY <1>0, <3>1, <3>2, ModesRead DEF Records
    <3> HIDE DEF n
    <3>4. /\ r \in Records /\ r.pc = core[c].pc /\ r.i = core[c].i + 1 /\ r.arg = core[c].arg
          /\ r.mode = n
      <4>1. core[c].i + 1 \in 0 .. OS_AUTOSAR_CORES
        BY <1>0, <3>1, Numbers DEF Records
      <4>2. QED
        BY <1>0, <3>3, <4>1 DEF Records
    <3> HIDE DEF r
    <3>5. Moved(c, r) /\ core'[c] = r
      BY <1>0, <3>1, <3>4, MovedRecord DEF Moved
    <3>6. Compares(c)
      BY <3>1, <3>4, <3>5 DEF Compares, At, n
    <3>7. QED
      BY <3>1, <3>5, <3>6 DEF QuietStep, Effect
  <2>3. QED
    BY <2>1, <2>2
<1>6. CASE TakeMode(c)
  <2>1. CASE core[c].mode = DONOTCARE
    <3>1. core' = [core EXCEPT ![c] = [core[c] EXCEPT !.pc = "stuck"]]
      BY <1>6, <2>1 DEF TakeMode, Goto
    <3>2. PICK r \in Records : core' = [core EXCEPT ![c] = r] /\ With(core[c], r, "stuck", core[c].point, core[c].i)
      BY <1>0, <3>1, Written, PointsAre DEF Phases, Ending
    <3>3. Moved(c, r) /\ To(c, "stuck", core[c].point, core[c].i)
      BY <1>0, <3>2, MovedRecord DEF Moved, To
    <3>4. QuietStep(c)
      BY <1>6, <2>1, <3>3 DEF TakeMode, Goto, Reach, QuietStep, Here, Past, At
    <3>5. QED
      BY <3>3, <3>4 DEF Effect
  <2>2. CASE core[c].mode # DONOTCARE
    <3>1. core' = [core EXCEPT ![c] = [core[c] EXCEPT !.pc = "init"]]
      BY <1>6, <2>2 DEF TakeMode, Goto
    <3>2. PICK r \in Records : core' = [core EXCEPT ![c] = r] /\ With(core[c], r, "init", core[c].point, core[c].i)
      BY <1>0, <3>1, Written, PointsAre DEF Phases, Ending
    <3>3. Moved(c, r) /\ To(c, "init", core[c].point, core[c].i)
      BY <1>0, <3>2, MovedRecord DEF Moved, To
    <3>4. ModeStep(c)
      BY <1>6, <2>2, <3>3 DEF TakeMode, Goto, Reach, ModeStep, Here, Past, At
    <3>5. QED
      BY <3>3, <3>4 DEF Effect
  <2>3. QED
    BY <2>1, <2>2
<1>7. CASE InitSystem(c)
  <2>1. core' = [core EXCEPT ![c] = [core[c] EXCEPT !.pc = "inited"]]
    BY <1>7 DEF InitSystem, Goto
  <2>2. PICK r \in Records : core' = [core EXCEPT ![c] = r] /\ With(core[c], r, "inited", core[c].point, core[c].i)
    BY <1>0, <2>1, Written, PointsAre DEF Phases, Ending
  <2>3. Moved(c, r) /\ To(c, "inited", core[c].point, core[c].i)
    BY <1>0, <2>2, MovedRecord DEF Moved, To
  <2>4. ActiveStep(c)
    BY <1>7, <2>3 DEF InitSystem, Goto, Reach, ActiveStep, Here, Past, At
  <2>5. QED
    BY <2>3, <2>4 DEF Effect
<1>8. CASE ReachHooks(c)
  <2>1. core' = [core EXCEPT ![c] = [core[c] EXCEPT !.pc = "syn", !.point = 1, !.i = 0]]
    BY <1>8 DEF ReachHooks, Reach
  <2>2. PICK r \in Records : core' = [core EXCEPT ![c] = r] /\ With(core[c], r, "syn", 1, 0)
    BY <1>0, <2>1, Written, PointsAre DEF Phases, Ending
  <2>3. Moved(c, r) /\ To(c, "syn", 1, 0)
    BY <1>0, <2>2, MovedRecord DEF Moved, To
  <2>4. FlagStep(c)
    BY <1>8, <2>3, PointsAre DEF ReachHooks, Goto, Reach, FlagStep, Here, Before, Past, At
  <2>5. QED
    BY <2>3, <2>4 DEF Effect
<1>9. CASE StartupHook(c)
  <2>1. core' = [core EXCEPT ![c] = [core[c] EXCEPT !.pc = "hook"]]
    BY <1>9 DEF StartupHook, Goto
  <2>2. PICK r \in Records : core' = [core EXCEPT ![c] = r] /\ With(core[c], r, "hook", core[c].point, core[c].i)
    BY <1>0, <2>1, Written, PointsAre DEF Phases, Ending
  <2>3. Moved(c, r) /\ To(c, "hook", core[c].point, core[c].i)
    BY <1>0, <2>2, MovedRecord DEF Moved, To
  <2>4. QuietStep(c)
    BY <1>9, <2>3 DEF StartupHook, Goto, Reach, QuietStep, Here, Past, At
  <2>5. QED
    BY <2>3, <2>4 DEF Effect
<1>10. CASE ReachScheduler(c)
  <2>1. core' = [core EXCEPT ![c] = [core[c] EXCEPT !.pc = "syn", !.point = 2, !.i = 0]]
    BY <1>10 DEF ReachScheduler, Reach
  <2>2. PICK r \in Records : core' = [core EXCEPT ![c] = r] /\ With(core[c], r, "syn", 2, 0)
    BY <1>0, <2>1, Written, PointsAre DEF Phases, Ending
  <2>3. Moved(c, r) /\ To(c, "syn", 2, 0)
    BY <1>0, <2>2, MovedRecord DEF Moved, To
  <2>4. FlagStep(c)
    BY <1>10, <2>3, PointsAre DEF ReachScheduler, Goto, Reach, FlagStep, Here, Before, Past, At
  <2>5. QED
    BY <2>3, <2>4 DEF Effect
<1>11. CASE StartScheduler(c)
  <2>1. core' = [core EXCEPT ![c] = [core[c] EXCEPT !.pc = "run"]]
    BY <1>11 DEF StartScheduler, Goto
  <2>2. PICK r \in Records : core' = [core EXCEPT ![c] = r] /\ With(core[c], r, "run", core[c].point, core[c].i)
    BY <1>0, <2>1, Written, PointsAre DEF Phases, Ending
  <2>3. Moved(c, r) /\ To(c, "run", core[c].point, core[c].i)
    BY <1>0, <2>2, MovedRecord DEF Moved, To
  <2>4. QuietStep(c)
    BY <1>11, <2>3 DEF StartScheduler, Goto, Reach, QuietStep, Here, Past, At
  <2>5. QED
    BY <2>3, <2>4 DEF Effect
<1>12. CASE SeesFlag(c)
  <2>1. core' = [core EXCEPT ![c] = [core[c] EXCEPT !.i = @ + 1]] /\ core[c].i < OS_AUTOSAR_CORES
    BY <1>12 DEF SeesFlag
  <2>2. PICK r \in Records : core' = [core EXCEPT ![c] = r] /\ With(core[c], r, core[c].pc, core[c].point, core[c].i + 1)
    BY <1>0, <2>1, Written, PointsAre DEF Phases, Ending
  <2>3. Moved(c, r) /\ To(c, core[c].pc, core[c].point, core[c].i + 1)
    BY <1>0, <2>2, MovedRecord DEF Moved, To
  <2>4. QuietStep(c)
    BY <1>12, <2>3 DEF SeesFlag, Goto, Reach, QuietStep, Here, Past, At
  <2>5. QED
    BY <2>3, <2>4 DEF Effect
<1>13. CASE ShutdownAllCores(c)
  <2>1. core' = [core EXCEPT ![c] = [core[c] EXCEPT !.pc = "killed"]]
    BY <1>13 DEF ShutdownAllCores, Goto
  <2>2. PICK r \in Records : core' = [core EXCEPT ![c] = r] /\ With(core[c], r, "killed", core[c].point, core[c].i)
    BY <1>0, <2>1, Written, PointsAre DEF Phases, Ending
  <2>3. Moved(c, r) /\ To(c, "killed", core[c].point, core[c].i)
    BY <1>0, <2>2, MovedRecord DEF Moved, To
  <2>4. QuietStep(c)
    BY <1>13, <2>3 DEF ShutdownAllCores, Goto, Reach, QuietStep, Here, Past, At
  <2>5. QED
    BY <2>3, <2>4 DEF Effect
<1>14. CASE ReachAll(c)
  <2>1. core' = [core EXCEPT ![c] = [core[c] EXCEPT !.pc = "synall", !.i = 0]]
    BY <1>14 DEF ReachAll
  <2>2. PICK r \in Records : core' = [core EXCEPT ![c] = r] /\ With(core[c], r, "synall", core[c].point, 0)
    BY <1>0, <2>1, Written, PointsAre DEF Phases, Ending
  <2>3. Moved(c, r) /\ To(c, "synall", core[c].point, 0)
    BY <1>0, <2>2, MovedRecord DEF Moved, To
  <2>4. FlagStep(c)
    BY <1>14, <2>3, PointsAre DEF ReachAll, Goto, Reach, FlagStep, Here, Before, Past, At
  <2>5. QED
    BY <2>3, <2>4 DEF Effect
<1>15. CASE SeesFlagAll(c)
  <2>1. core' = [core EXCEPT ![c] = [core[c] EXCEPT !.i = @ + 1]] /\ core[c].i < OS_AUTOSAR_CORES
    BY <1>15 DEF SeesFlagAll
  <2>2. PICK r \in Records : core' = [core EXCEPT ![c] = r] /\ With(core[c], r, core[c].pc, core[c].point, core[c].i + 1)
    BY <1>0, <2>1, Written, PointsAre DEF Phases, Ending
  <2>3. Moved(c, r) /\ To(c, core[c].pc, core[c].point, core[c].i + 1)
    BY <1>0, <2>2, MovedRecord DEF Moved, To
  <2>4. QuietStep(c)
    BY <1>15, <2>3 DEF SeesFlagAll, Goto, Reach, QuietStep, Here, Past, At
  <2>5. QED
    BY <2>3, <2>4 DEF Effect
<1>16. CASE EndAll(c)
  <2>1. core' = [core EXCEPT ![c] = [core[c] EXCEPT !.pc = "end"]]
    BY <1>16 DEF EndAll, Goto
  <2>2. PICK r \in Records : core' = [core EXCEPT ![c] = r] /\ With(core[c], r, "end", core[c].point, core[c].i)
    BY <1>0, <2>1, Written, PointsAre DEF Phases, Ending
  <2>3. Moved(c, r) /\ To(c, "end", core[c].point, core[c].i)
    BY <1>0, <2>2, MovedRecord DEF Moved, To
  <2>4. ActiveStep(c)
    BY <1>16, <2>3 DEF EndAll, Goto, Reach, ActiveStep, Here, Past, At
  <2>5. QED
    BY <2>3, <2>4 DEF Effect
<1>17. CASE ShutdownRemote(c)
  <2>1. core' = [core EXCEPT ![c] = [core[c] EXCEPT !.pc = "syn", !.point = 3, !.i = 0]]
    BY <1>17 DEF ShutdownRemote, Reach
  <2>2. PICK r \in Records : core' = [core EXCEPT ![c] = r] /\ With(core[c], r, "syn", 3, 0)
    BY <1>0, <2>1, Written, PointsAre DEF Phases, Ending
  <2>3. Moved(c, r) /\ To(c, "syn", 3, 0)
    BY <1>0, <2>2, MovedRecord DEF Moved, To
  <2>4. FlagStep(c)
    BY <1>17, <2>3, PointsAre DEF ShutdownRemote, Goto, Reach, FlagStep, Here, Before, Past, At
  <2>5. QED
    BY <2>3, <2>4 DEF Effect
<1>18. CASE ShutdownOS(c)
  <2>1. core' = [core EXCEPT ![c] = [core[c] EXCEPT !.pc = "deinit"]]
    BY <1>18 DEF ShutdownOS, Goto
  <2>2. PICK r \in Records : core' = [core EXCEPT ![c] = r] /\ With(core[c], r, "deinit", core[c].point, core[c].i)
    BY <1>0, <2>1, Written, PointsAre DEF Phases, Ending
  <2>3. Moved(c, r) /\ To(c, "deinit", core[c].point, core[c].i)
    BY <1>0, <2>2, MovedRecord DEF Moved, To
  <2>4. QuietStep(c)
    BY <1>18, <2>3 DEF ShutdownOS, Goto, Reach, QuietStep, Here, Past, At
  <2>5. QED
    BY <2>3, <2>4 DEF Effect
<1>19. CASE DeInitCoreInfo(c)
  <2>1. core' = [core EXCEPT ![c] = [core[c] EXCEPT !.pc = "end"]]
    BY <1>19 DEF DeInitCoreInfo, Goto
  <2>2. PICK r \in Records : core' = [core EXCEPT ![c] = r] /\ With(core[c], r, "end", core[c].point, core[c].i)
    BY <1>0, <2>1, Written, PointsAre DEF Phases, Ending
  <2>3. Moved(c, r) /\ To(c, "end", core[c].point, core[c].i)
    BY <1>0, <2>2, MovedRecord DEF Moved, To
  <2>4. ActiveStep(c)
    BY <1>19, <2>3 DEF DeInitCoreInfo, Goto, Reach, ActiveStep, Here, Past, At
  <2>5. QED
    BY <2>3, <2>4 DEF Effect
<1>20. QED
  BY <1>1, <1>2, <1>3, <1>4, <1>5, <1>6, <1>7, <1>8, <1>9, <1>10, <1>11, <1>12, <1>13, <1>14, <1>15, <1>16, <1>17, <1>18, <1>19
     DEF Step, Start, Shut
-----------------------------------------------------------------------------
(* Nothing that a core has come to is taken back *)

LEMMA Onward ==
  ASSUME StartupInvariant, NEW c \in Cores, Step(c)
  PROVE  /\ \A d \in Cores \ {c} : core'[d] = core[d]
         /\ \A d \in Cores, p \in Points : Reached(d, p) => Reached(d, p)'
         /\ \A d \in Cores : HasMode(d) => HasMode(d)' /\ core'[d].mode = core[d].mode
         /\ \A d \in Cores : core'[d].arg # core[d].arg => At(d, "boot")
<1>1. Effect(c) /\ \A d \in Cores \ {c} : core'[d] = core[d]
  BY StepEffect, MovedRecord DEF StartupInvariant
<1>2. /\ Reached(c, 0) => Reached(c, 0)'
      /\ Reached(c, 1) => Reached(c, 1)'
      /\ Reached(c, 2) => Reached(c, 2)'
      /\ Reached(c, 3) => Reached(c, 3)'
  BY <1>1, PointsAre
     DEF Effect, FlagStep, ModeStep, ActiveStep, QuietStep, Compares, Here, To, With, Before, Past, At, AtPoint, Reached, Ending
<1>3. HasMode(c) => HasMode(c)' /\ core'[c].mode = core[c].mode
  BY <1>1, PointsAre
     DEF Effect, FlagStep, ModeStep, ActiveStep, QuietStep, Compares, Here, To, With, Before, Past, At, AtPoint, Reached, Ending, HasMode
<1>4. core'[c].arg # core[c].arg => At(c, "boot")
  BY <1>1 DEF Effect, FlagStep, ModeStep, ActiveStep, QuietStep, Compares, Here, To, With
<1>5. \A d \in Cores, p \in Points : Reached(d, p) => Reached(d, p)'
  <2>1. \A d \in Cores \ {c}, p \in Points : Reached(d, p) => Reached(d, p)'
    BY <1>1, PointsAre DEF Reached, At, AtPoint
  <2>2. QED
    BY <1>2, <2>1, PointsAre
<1>6. \A d \in Cores \ {c} : HasMode(d) => HasMode(d)' /\ core'[d].mode = core[d].mode
  BY <1>1 DEF HasMode, Reached, At, AtPoint
<1>7. QED
  BY <1>1, <1>3, <1>4, <1>5, <1>6

\* A flag that is set after a step was set before, or its core has come to the point.
LEMMA FlagsFollow ==
  ASSUME StartupInvariant, NEW c \in Cores, Step(c), NEW d \in Cores, NEW p \in Points, SynPoint'[p][d]
  PROVE  Reached(d, p)'
<1>1. Effect(c)
  BY StepEffect
<1>2. SynPoint \in [Points -> [Cores -> BOOLEAN]]
  BY DEF StartupInvariant, TypeOK
<1>3. CASE SynPoint[p][d]
  BY <1>3, Onward DEF StartupInvariant, PointsHold
<1>4. CASE ~ SynPoint[p][d]
  <2>1. FlagStep(c)
    BY <1>1, <1>2, <1>4 DEF Effect, ModeStep, ActiveStep, QuietStep
  <2>2. CASE At(c, "killed") /\ To(c, "synall", core[c].point, 0) /\ SynPoint' = [SynPoint EXCEPT ![3][c] = TRUE]
    <3>1. d = c /\ p = 3
      BY <1>2, <1>4, <2>2, PointsAre
    <3>2. QED
      BY <2>2, <3>1 DEF To, With, Reached, At, AtPoint
  <2>3. CASE \E q \in Points : /\ Before(c, q)
                               /\ To(c, "syn", q, 0)
                               /\ SynPoint' = [SynPoint EXCEPT ![q][c] = TRUE]
    <3>1. PICK q \in Points : /\ Before(c, q)
                              /\ To(c, "syn", q, 0)
                              /\ SynPoint' = [SynPoint EXCEPT ![q][c] = TRUE]
      BY <2>3
    <3>2. d = c /\ p = q
      BY <1>2, <1>4, <3>1
    <3>3. core'[d].pc = "syn" /\ core'[d].point = p
      BY <3>1, <3>2 DEF To, With
    <3>4. p = 0 \/ p = 1 \/ p = 2 \/ p = 3
      BY PointsAre
    <3>5. QED
      <4>1. CASE p = 0
        BY <3>3, <4>1 DEF Reached, At, AtPoint
      <4>2. CASE p = 1
        BY <3>3, <4>2 DEF Reached, At, AtPoint
      <4>3. CASE p = 2
        BY <3>3, <4>3 DEF Reached, At, AtPoint
      <4>4. CASE p = 3
        BY <3>3, <4>4 DEF Reached, At, AtPoint
      <4>5. QED
        BY <3>4, <4>1, <4>2, <4>3, <4>4
  <2>4. QED
    BY <2>1, <2>2, <2>3 DEF FlagStep
<1>5. QED
  BY <1>3, <1>4

\* The loops of the points start at core 0, or go on past a core whose flag they have seen.
LEMMA LoopsGoOn ==
  ASSUME StartupInvariant, NEW c \in Cores, Step(c)
  PROVE  /\ At(c, "syn")' => \/ core'[c].i = 0
                             \/ /\ At(c, "syn") /\ core'[c].point = core[c].point
                                /\ core'[c].i = core[c].i + 1 /\ core[c].i \in Cores
                                /\ SynPoint[core[c].point][core[c].i]
         /\ At(c, "synall")' => \/ core'[c].i = 0
                                \/ /\ At(c, "synall")
                                   /\ core'[c].i = core[c].i + 1 /\ core[c].i \in Cores
                                   /\ SynPoint[3][core[c].i]
<1>1. Effect(c) /\ core[c] \in Records
  BY StepEffect, RecordOf DEF StartupInvariant
<1>2. core[c].i < OS_AUTOSAR_CORES => core[c].i \in Cores
  BY <1>1, Numbers DEF Records
<1>3. QED
  BY <1>1, <1>2
     DEF Effect, FlagStep, ModeStep, ActiveStep, QuietStep, Compares, Here, To, With, At

\* A core that is past a point was so before, or its loop has come to the end.
LEMMA PointsArePassed ==
  ASSUME StartupInvariant, NEW c \in Cores, Step(c), NEW p \in 0 .. 2,
         Reached(c, p)', ~ AtPoint(c, p)'
  PROVE  (Reached(c, p) /\ ~ AtPoint(c, p)) \/ Past(c, p)
<1>1. Effect(c)
  BY StepEffect
<1>2. p \in {0, 1, 2}
  OBVIOUS
<1>3. core'[c].pc = "syn" => core'[c].point \in Points
  <2>1. core[c] \in Records
    BY RecordOf DEF StartupInvariant
  <2>2. QED
    BY <1>1, <2>1 DEF Records, Effect, FlagStep, ModeStep, ActiveStep, QuietStep, Compares, Here, To, With
<1>4. CASE p = 0
  BY <1>1, <1>3, <1>4, PointsAre
     DEF Effect, FlagStep, ModeStep, ActiveStep, QuietStep, Compares, Here, To, With, Before, Past, At, AtPoint, Reached, Ending
<1>5. CASE p = 1
  BY <1>1, <1>3, <1>5, PointsAre
     DEF Effect, FlagStep, ModeStep, ActiveStep, QuietStep, Compares, Here, To, With, Before, Past, At, AtPoint, Reached, Ending
<1>6. CASE p = 2
  BY <1>1, <1>3, <1>6, PointsAre
     DEF Effect, FlagStep, ModeStep, ActiveStep, QuietStep, Compares, Here, To, With, Before, Past, At, AtPoint, Reached, Ending
<1>7. QED
  BY <1>2, <1>4, <1>5, <1>6

LEMMA PointsHoldNext ==
  ASSUME StartupInvariant, NEW c \in Cores, Step(c)
  PROVE  PointsHold'
<1>1. \A d \in Cores \ {c} : core'[d] = core[d]
  BY Onward
<1>2. \A d \in Cores, p \in Points : Reached(d, p) => Reached(d, p)'
  BY Onward
<1>3. core[c] \in Records /\ PointsHold
  BY RecordOf DEF StartupInvariant
<1>4. \A d \in Cores : \A p \in Points : SynPoint'[p][d] => Reached(d, p)'
  BY FlagsFollow
<1>5. ASSUME NEW d \in Cores, NEW p \in Points, AtPoint(d, p)', NEW e \in Cores, e < core'[d].i
      PROVE  Reached(e, p)'
  <2>1. CASE d # c
    <3>1. AtPoint(d, p) /\ e < core[d].i
      BY <1>1, <1>5, <2>1 DEF AtPoint, At
    <3>2. QED
      BY <1>2, <1>3, <3>1 DEF PointsHold
  <2>2. CASE d = c
    <3>1. /\ At(c, "syn") /\ core[c].point = p
          /\ core'[c].i = core[c].i + 1 /\ core[c].i \in Cores
          /\ SynPoint[p][core[c].i]
      BY <1>5, <2>2, LoopsGoOn, Numbers DEF AtPoint, At
    <3>2. e < core[c].i \/ e = core[c].i
      BY <1>5, <2>2, <3>1, Numbers
    <3>3. Reached(e, p)
      BY <1>3, <3>1, <3>2 DEF PointsHold, AtPoint
    <3>4. QED
      BY <1>2, <3>3
  <2>3. QED
    BY <2>1, <2>2
<1>6. ASSUME NEW d \in Cores, At(d, "synall")', NEW e \in Cores, e < core'[d].i
      PROVE  Reached(e, 3)'
  <2>1. CASE d # c
    <3>1. At(d, "synall") /\ e < core[d].i
      BY <1>1, <1>6, <2>1 DEF At
    <3>2. QED
      BY <1>2, <1>3, <3>1, PointsAre DEF PointsHold
  <2>2. CASE d = c
    <3>1. /\ At(c, "synall")
          /\ core'[c].i = core[c].i + 1 /\ core[c].i \in Cores
          /\ SynPoint[3][core[c].i]
      BY <1>6, <2>2, LoopsGoOn, Numbers DEF At
    <3>2. e < core[c].i \/ e = core[c].i
      BY <1>6, <2>2, <3>1, Numbers
    <3>3. Reached(e, 3)
      BY <1>3, <3>1, <3>2, PointsAre DEF PointsHold
    <3>4. QED
      BY <1>2, <3>3, PointsAre
  <2>3. QED
    BY <2>1, <2>2
<1>7. ASSUME NEW d \in Cores, NEW p \in 0 .. 2, Reached(d, p)', ~ AtPoint(d, p)', NEW e \in Cores
      PROVE  Reached(e, p)'
  <2>1. p \in Points
    BY DEF Points
  <2>2. Reached(e, p)
    <3>1. CASE d # c
      <4>1. (Reached(d, p) <=> Reached(d, p)') /\ (AtPoint(d, p) <=> AtPoint(d, p)')
        BY <1>1, <3>1 DEF Reached, AtPoint, At
      <4>2. QED
        BY <1>3, <1>7, <4>1 DEF PointsHold
    <3>2. CASE Reached(c, p) /\ ~ AtPoint(c, p)
      BY <1>3, <3>2 DEF PointsHold
    <3>3. CASE Past(c, p)
      <4>1. AtPoint(c, p) /\ e < core[c].i
        BY <3>3, Numbers DEF Past, AtPoint, At
      <4>2. QED
        BY <1>3, <2>1, <4>1 DEF PointsHold
    <3>4. QED
      BY <1>7, <3>1, <3>2, <3>3, PointsArePassed
  <2>3. QED
    BY <1>2, <2>1, <2>2
<1>8. QED
  BY <1>4, <1>5, <1>6, <1>7 DEF PointsHold
-----------------------------------------------------------------------------
(* The other parts of the invariant *)

LEMMA TypeNext ==
  ASSUME StartupInvariant, NEW c \in Cores, Step(c)
  PROVE  TypeOK'
<1>1. TypeOK
  BY DEF StartupInvariant
<1>2. core' \in [Cores -> Records]
  BY <1>1, StepEffect DEF Moved, TypeOK, Records, Phases
<1>3. CoreStatus' \in [Cores -> {"INVALID", "OS_RUN", "OS_CORE_PRE_SHUTDOWN"}] /\ kill' \subseteq Cores
  BY <1>1 DEF TypeOK, Step, Start, Shut, StartCore, StartOS, ReachModes, CompareModes, CompareMode, TakeMode,
       InitSystem, ReachHooks, StartupHook, ReachScheduler, StartScheduler, SeesFlag, ShutdownAllCores, ReachAll,
       SeesFlagAll, EndAll, ShutdownRemote, ShutdownOS, DeInitCoreInfo
<1>4. Effect(c) /\ core[c] \in Records
  BY <1>1, StepEffect, RecordOf
<1>5. CoreStateActive' \subseteq Cores /\ initialised' \subseteq Cores
  BY <1>1, <1>4 DEF TypeOK, Effect, FlagStep, ModeStep, ActiveStep, QuietStep
<1>6. SynPoint' \in [Points -> [Cores -> BOOLEAN]]
  <2>1. SynPoint \in [Points -> [Cores -> BOOLEAN]]
    BY <1>1 DEF TypeOK
  <2>2. CASE \E p \in Points : SynPoint' = [SynPoint EXCEPT ![p][c] = TRUE]
    BY <2>1, <2>2
  <2>3. CASE SynPoint' = [p \in Points |-> [d \in Cores |-> FALSE]]
    BY <2>3
  <2>4. 3 \in Points
    BY PointsAre
  <2>5. QED
    BY <1>4, <2>1, <2>2, <2>3, <2>4 DEF Effect, FlagStep, ModeStep, ActiveStep, QuietStep
<1>7. AppMode' \in [Cores -> Modes \cup {DONOTCARE, NoMode}]
  BY <1>1, <1>4 DEF TypeOK, Records, Effect, FlagStep, ModeStep, ActiveStep, QuietStep
<1>8. QED
  BY <1>2, <1>3, <1>5, <1>6, <1>7 DEF TypeOK, Records, Phases

LEMMA InitialisedNext ==
  ASSUME StartupInvariant, NEW c \in Cores, Step(c)
  PROVE  InitialisedInTime'
<1>1. Effect(c) /\ \A d \in Cores \ {c} : core'[d] = core[d]
  BY StepEffect, Onward
<1>2. initialised \subseteq initialised'
  BY <1>1 DEF Effect, FlagStep, ModeStep, ActiveStep, QuietStep
<1>3. At(c, "inited")' \/ Reached(c, 1)' => At(c, "inited") \/ Reached(c, 1) \/ c \in initialised'
  BY <1>1, PointsAre
     DEF Effect, FlagStep, ModeStep, ActiveStep, QuietStep, Compares, Here, To, With, Before, Past, At, AtPoint, Reached, Ending
<1>4. \A d \in Cores \ {c} : At(d, "inited")' \/ Reached(d, 1)' => At(d, "inited") \/ Reached(d, 1)
  BY <1>1 DEF Reached, At, AtPoint
<1>5. QED
  BY <1>2, <1>3, <1>4 DEF StartupInvariant, InitialisedInTime

LEMMA Separate ==
  TypeOK /\ PointsHold /\ InitialisedInTime => PointsSeparate
<1> SUFFICES ASSUME TypeOK, PointsHold, InitialisedInTime
             PROVE  PointsSeparate
  OBVIOUS
<1>1. ASSUME NEW c \in Cores, Hooked(c)
      PROVE  initialised = Cores
  <2>1. \A d \in Cores : Reached(d, 1)
    BY <1>1 DEF Hooked, PointsHold
  <2>2. QED
    BY <2>1 DEF InitialisedInTime, TypeOK
<1>2. ASSUME NEW c \in Cores, Runs(c)
      PROVE  \A d \in Cores : Runs(d) \/ AtPoint(d, 2)
  BY <1>2 DEF Runs, PointsHold
<1>3. QED
  BY <1>1, <1>2 DEF PointsSeparate

LEMMA EndsNext ==
  ASSUME StartupInvariant, NEW c \in Cores, Step(c)
  PROVE  EndsTogether'
<1>1. Effect(c) /\ \A d \in Cores \ {c} : core'[d] = core[d]
  BY StepEffect, Onward
<1>2. At(c, "deinit")' => c \in MayStopAlone
  BY <1>1 DEF StartupInvariant, EndsTogether,
       Effect, FlagStep, ModeStep, ActiveStep, QuietStep, Compares, Here, To, With, Before, Past, At
<1>3. At(c, "end")' => \/ At(c, "synall") /\ core[c].i = OS_AUTOSAR_CORES
                       \/ At(c, "deinit") \/ Past(c, 3)
  BY <1>1 DEF Effect, FlagStep, ModeStep, ActiveStep, QuietStep, Compares, Here, To, With, Past, At
<1>4. ASSUME NEW d \in Cores, At(d, "end")', d \notin MayStopAlone, NEW e \in Cores
      PROVE  Reached(e, 3)
  <2>1. CASE d # c
    BY <1>1, <1>4, <2>1 DEF StartupInvariant, EndsTogether, At
  <2>2. CASE d = c
    <3>1. CASE At(c, "synall") /\ core[c].i = OS_AUTOSAR_CORES
      BY <3>1, Numbers DEF StartupInvariant, PointsHold
    <3>2. CASE Past(c, 3)
      BY <3>2, Numbers, PointsAre DEF StartupInvariant, PointsHold, Past, AtPoint
    <3>3. QED
      BY <1>3, <1>4, <2>2, <3>1, <3>2 DEF StartupInvariant, EndsTogether
  <2>3. QED
    BY <2>1, <2>2
<1>5. \A d \in Cores : Reached(d, 3) => Reached(d, 3)'
  BY Onward, PointsAre
<1>6. \A d \in Cores \ {c} : At(d, "deinit")' => d \in MayStopAlone
  BY <1>1 DEF StartupInvariant, EndsTogether, At
<1>7. QED
  BY <1>2, <1>4, <1>5, <1>6 DEF EndsTogether

LEMMA ActiveNext ==
  ASSUME StartupInvariant, NEW c \in Cores, Step(c)
  PROVE  ActiveAgrees'
<1>1. Effect(c) /\ \A d \in Cores \ {c} : core'[d] = core[d]
  BY StepEffect, Onward
<1>2. ActiveAgrees
  BY DEF StartupInvariant
<1> DEFINE Active(d) == ~ At(d, "off") /\ ~ At(d, "end") /\ (d = OS_CORE_ID_MASTER => d \in initialised)
<1>3. \A d \in Cores \ {c} : Active(d)' <=> Active(d)
  BY <1>1 DEF At, Effect, FlagStep, ModeStep, ActiveStep, QuietStep
<1>4. /\ CoreStateActive' \in {CoreStateActive, CoreStateActive \cup {c}, CoreStateActive \ {c}}
      /\ c \in CoreStateActive' <=> Active(c)'
  <2>1. c \in CoreStateActive <=> Active(c)
    BY <1>2 DEF ActiveAgrees
  <2>2. CASE FlagStep(c)
    BY <2>1, <2>2, PointsAre DEF FlagStep, To, With, Before, At
  <2>3. CASE ModeStep(c)
    BY <2>1, <2>3 DEF ModeStep, Here, To, With, At
  <2>4. CASE ActiveStep(c)
    BY <2>1, <2>4 DEF ActiveStep, Here, To, With, At
  <2>5. CASE QuietStep(c)
    BY <2>1, <2>5 DEF QuietStep, Compares, Here, To, With, Past, At
  <2>6. QED
    BY <1>1, <2>2, <2>3, <2>4, <2>5 DEF Effect
<1>5. CoreStateActive \subseteq Cores /\ CoreStateActive' \subseteq Cores
  BY <1>2, <1>4 DEF ActiveAgrees
<1>6. \A d \in Cores : d \in CoreStateActive' <=> Active(d)'
  BY <1>2, <1>3, <1>4 DEF ActiveAgrees
<1>7. QED
  BY <1>5, <1>6 DEF ActiveAgrees
-----------------------------------------------------------------------------
(* The application mode *)

\* Behind point 0 no core is still to start, so that nobody's wish changes any more.
LEMMA WishesStay ==
  ASSUME StartupInvariant, NEW c \in Cores, Step(c),
         NEW d \in Cores, Reached(d, 0), ~ AtPoint(d, 0)
  PROVE  \A e \in Cores : core'[e].arg = core[e].arg
<1>1. \A e \in Cores : Reached(e, 0)
  BY DEF StartupInvariant, PointsHold
<1>2. \A e \in Cores : ~ At(e, "boot")
  BY <1>1 DEF Reached, At
<1>3. QED
  BY <1>2, Onward

LEMMA ModeIsBehind ==
  ASSUME NEW c \in Cores, HasMode(c)
  PROVE  Reached(c, 0) /\ ~ AtPoint(c, 0) /\ ~ At(c, "compare")
BY DEF HasMode, Reached, AtPoint, At, Ending

\* The mode that a core reads in the loop of Os_CheckAppMode.
LEMMA ModeRead ==
  ASSUME StartupInvariant, NEW c \in Cores, At(c, "compare"), NEW d \in Cores
  PROVE  /\ AppMode[d] = DONOTCARE => core[d].arg = DONOTCARE
         /\ AppMode[d] # DONOTCARE => \E e \in Cores : core[e].arg = AppMode[d]
         /\ core[d].arg \in {AppMode[d], DONOTCARE}
<1>1. ~ At(d, "off") /\ ~ At(d, "boot") /\ ~ At(d, "end")
  <2>1. Reached(d, 0) /\ (~ Reached(d, 2) \/ AtPoint(d, 2))
    BY ModesRead
  <2>2. QED
    BY <2>1 DEF Reached, At, AtPoint, Ending
<1>2. AppMode[d] = core[d].arg \/ \E e \in Cores : HasMode(e) /\ AppMode[d] = core[e].mode
  BY <1>1 DEF StartupInvariant, ModesAreAsked
<1>3. CASE AppMode[d] = core[d].arg
  BY <1>3
<1>4. ASSUME NEW e \in Cores, HasMode(e), AppMode[d] = core[e].mode
      PROVE  AppMode[d] # DONOTCARE /\ core[d].arg \in {AppMode[d], DONOTCARE}
             /\ \E f \in Cores : core[f].arg = AppMode[d]
  <2>1. core[e].mode \in Modes /\ core[d].arg \in {core[e].mode, DONOTCARE}
    BY <1>4 DEF StartupInvariant, SameMode
  <2>2. core[e].mode # DONOTCARE
    BY <2>1, StartupConstants
  <2>3. QED
    BY <1>4, <2>1, <2>2 DEF StartupInvariant, ModesAreAsked
<1>5. QED
  BY <1>2, <1>3, <1>4

\* A core gets a mode when it has compared those of all.
LEMMA ModeIsTaken ==
  ASSUME StartupInvariant, NEW c \in Cores, Step(c), HasMode(c)', ~ HasMode(c)
  PROVE  /\ core[c].mode \in Modes /\ core'[c].mode = core[c].mode
         /\ \A d \in Cores : core[d].arg \in {core[c].mode, DONOTCARE}
         /\ Reached(c, 0) /\ ~ AtPoint(c, 0)
<1>1. Effect(c) /\ core[c] \in Records
  BY StepEffect, RecordOf DEF StartupInvariant
<1>2. /\ At(c, "compare") /\ core[c].i = OS_AUTOSAR_CORES /\ core[c].mode # DONOTCARE
      /\ core'[c].mode = core[c].mode
  <2>1. ~ FlagStep(c)
    BY PointsAre DEF FlagStep, To, With, Before, HasMode, Reached, At, AtPoint, Ending
  <2>2. ~ ActiveStep(c)
    BY PointsAre DEF ActiveStep, Here, To, With, Past, HasMode, Reached, At, AtPoint, Ending
  <2>3. ~ QuietStep(c)
    BY PointsAre DEF QuietStep, Compares, Here, To, With, Past, HasMode, Reached, At, AtPoint, Ending
  <2>4. QED
    BY <1>1, <2>1, <2>2, <2>3 DEF Effect, ModeStep, Here, To, With, HasMode, Reached, At, AtPoint, Ending
<1>3. \A d \in Cores : core[d].arg \in {core[c].mode, DONOTCARE}
  BY <1>2, Numbers DEF StartupInvariant, ModesAreAsked
<1>4. QED
  BY <1>1, <1>2, <1>3 DEF Records, Reached, AtPoint, At

LEMMA SameModeNext ==
  ASSUME StartupInvariant, NEW c \in Cores, Step(c)
  PROVE  SameMode'
<1>1. SameMode /\ ModesAreAsked
  BY DEF StartupInvariant
<1> DEFINE Found(d) == /\ core[d].mode \in Modes /\ core'[d].mode = core[d].mode
                       /\ \A e \in Cores : core[e].arg \in {core[d].mode, DONOTCARE}
                       /\ \A e \in Cores : core'[e].arg = core[e].arg
<1>2. ASSUME NEW d \in Cores, HasMode(d)'
      PROVE  Found(d)
  <2>1. CASE HasMode(d)
    BY <1>1, <2>1, Onward, ModeIsBehind, WishesStay DEF SameMode
  <2>2. CASE ~ HasMode(d)
    <3>1. d = c
      BY <1>2, <2>2, Onward DEF HasMode, Reached, At, AtPoint
    <3>2. QED
      BY <1>2, <2>2, <3>1, ModeIsTaken, WishesStay
  <2>3. QED
    BY <2>1, <2>2
<1>3. ASSUME NEW d \in Cores, Found(d), NEW e \in Cores, Found(e)
      PROVE  core[d].mode = core[e].mode
  <2>1. core[d].mode # DONOTCARE
    BY <1>3, StartupConstants
  <2>2. PICK f \in Cores : core[f].arg = core[d].mode
    BY <1>1, <2>1 DEF ModesAreAsked
  <2>3. QED
    BY <1>3, <2>1, <2>2
<1>4. QED
  BY <1>2, <1>3 DEF SameMode

\* What a core asks for, and what stands for it.
LEMMA EntriesNext ==
  ASSUME StartupInvariant, NEW c \in Cores, Step(c), NEW d \in Cores,
         ~ At(d, "off")', ~ At(d, "boot")'
  PROVE  /\ core'[d].arg # NoMode
         /\ ~ At(d, "end")' =>
              AppMode'[d] = core'[d].arg \/ \E e \in Cores : HasMode(e)' /\ AppMode'[d] = core'[e].mode
<1>1. Effect(c) /\ \A e \in Cores \ {c} : core'[e] = core[e]
  BY StepEffect, Onward
<1>2. ModesAreAsked /\ AppMode \in [Cores -> Modes \cup {DONOTCARE, NoMode}]
  BY DEF StartupInvariant, TypeOK
<1>3. \A e \in Cores : HasMode(e) => HasMode(e)' /\ core'[e].mode = core[e].mode
  BY Onward
<1>4. CASE d = c /\ At(c, "boot")
  <2>1. ModeStep(c)
    BY <1>1, <1>4, PointsAre DEF Effect, FlagStep, ActiveStep, QuietStep, Compares, Before, Past, At
  <2>2. core'[c].arg \in Modes \cup {DONOTCARE} /\ AppMode'[c] = core'[c].arg
    BY <1>2, <1>4, <2>1 DEF ModeStep, At
  <2>3. QED
    BY <1>4, <2>2, StartupConstants
<1>5. CASE ~ (d = c /\ At(c, "boot"))
  <2>1. ~ At(d, "off") /\ ~ At(d, "boot")
    <3>1. CASE d # c
      BY <1>1, <3>1 DEF At
    <3>2. CASE d = c
      BY <1>1, <1>5, <3>2, PointsAre
         DEF Effect, FlagStep, ModeStep, ActiveStep, QuietStep, Compares, Here, To, With, Before, Past, At
    <3>3. QED
      BY <3>1, <3>2
  <2>2. core'[d].arg = core[d].arg /\ core[d].arg # NoMode
    BY <1>2, <2>1, Onward DEF ModesAreAsked
  <2>3. ASSUME ~ At(d, "end")'
        PROVE  AppMode'[d] = core'[d].arg \/ \E e \in Cores : HasMode(e)' /\ AppMode'[d] = core'[e].mode
    <3>1. ~ At(d, "end")
      <4>1. CASE d # c
        BY <1>1, <2>3, <4>1 DEF At
      <4>2. CASE d = c
        BY <1>1, <2>3, <4>2, PointsAre
           DEF Effect, FlagStep, ModeStep, ActiveStep, QuietStep, Compares, Here, To, With, Before, Past, At
      <4>3. QED
        BY <4>1, <4>2
    <3>2. AppMode[d] = core[d].arg \/ \E e \in Cores : HasMode(e) /\ AppMode[d] = core[e].mode
      BY <1>2, <2>1, <3>1 DEF ModesAreAsked
    <3>3. CASE AppMode'[d] = AppMode[d]
      BY <1>3, <2>2, <3>2, <3>3
    <3>4. CASE AppMode'[d] # AppMode[d]
      <4>1. ModeStep(c) /\ At(c, "compare")
        BY <1>1, <1>2, <1>5, <2>3, <3>4
           DEF Effect, FlagStep, ModeStep, ActiveStep, QuietStep, Here, To, With, At
      <4>2. AppMode'[d] = core[c].mode /\ Here(c, "init")
        BY <4>1 DEF ModeStep, At
      <4>3. HasMode(c)' /\ core'[c].mode = core[c].mode
        BY <4>2 DEF Here, To, With, HasMode
      <4>4. QED
        BY <4>2, <4>3
    <3>5. QED
      BY <3>3, <3>4
  <2>4. QED
    BY <2>2, <2>3
<1>6. QED
  BY <1>4, <1>5

\* What a core has found: nothing before point 0, and then what some core asked for.
LEMMA FoundNext ==
  ASSUME StartupInvariant, NEW c \in Cores, Step(c), NEW d \in Cores
  PROVE  /\ core'[d].mode # DONOTCARE => \E e \in Cores : core'[e].arg = core'[d].mode
         /\ ~ Reached(d, 0)' \/ AtPoint(d, 0)' => core'[d].mode = DONOTCARE
         /\ At(d, "compare")' => \A e \in Cores : e < core'[d].i => core'[e].arg \in {core'[d].mode, DONOTCARE}
<1>1. Effect(c) /\ \A e \in Cores \ {c} : core'[e] = core[e]
  BY StepEffect, Onward
<1>2. ModesAreAsked /\ core[c] \in Records
  BY RecordOf DEF StartupInvariant
<1>3. CASE d # c
  <2>1. core'[d] = core[d]
    BY <1>1, <1>3
  <2>2. (~ Reached(d, 0)' \/ AtPoint(d, 0)') = (~ Reached(d, 0) \/ AtPoint(d, 0)) /\ At(d, "compare")' = At(d, "compare")
    BY <2>1 DEF Reached, AtPoint, At
  <2>3. CASE ~ Reached(d, 0) \/ AtPoint(d, 0)
    <3>1. core[d].mode = DONOTCARE /\ ~ At(d, "compare")
      BY <1>2, <2>3 DEF ModesAreAsked, Reached, AtPoint, At
    <3>2. QED
      BY <2>1, <2>2, <3>1
  <2>4. CASE Reached(d, 0) /\ ~ AtPoint(d, 0)
    <3>1. \A e \in Cores : core'[e].arg = core[e].arg
      BY <2>4, WishesStay
    <3>2. QED
      BY <1>2, <2>1, <2>2, <2>4, <3>1 DEF ModesAreAsked
  <2>5. QED
    BY <2>3, <2>4
<1>4. CASE d = c /\ At(c, "compare")
  <2>1. /\ At(c, "compare") /\ Reached(c, 0) /\ ~ AtPoint(c, 0)
        /\ \A e \in Cores : core'[e].arg = core[e].arg
    BY <1>4, WishesStay DEF At, AtPoint, Reached
  <2>2. Reached(c, 0)' /\ ~ AtPoint(c, 0)'
    BY <1>1, <2>1, PointsAre
       DEF Effect, FlagStep, ModeStep, ActiveStep, QuietStep, Compares, Here, To, With, Before, Past, At, AtPoint, Reached
  <2>3. CASE Compares(c)
    <3> DEFINE i == core[c].i
    <3>1. i \in Cores /\ core'[c].i = i + 1
      BY <1>2, <2>3, Numbers DEF Records, Compares
    <3>2. core'[c].mode = IF AppMode[i] = DONOTCARE THEN core[c].mode ELSE AppMode[i]
      BY <2>3 DEF Compares
    <3>3. DONOTCARE \in {AppMode[i], core[c].mode} \/ AppMode[i] = core[c].mode
      BY <2>3 DEF Compares
    <3>4. /\ AppMode[i] = DONOTCARE => core[i].arg = DONOTCARE
          /\ AppMode[i] # DONOTCARE => \E e \in Cores : core[e].arg = AppMode[i]
          /\ core[i].arg \in {AppMode[i], DONOTCARE}
      BY <2>1, <3>1, ModeRead
    <3>5. core[c].mode # DONOTCARE => \E e \in Cores : core[e].arg = core[c].mode
      BY <1>2 DEF ModesAreAsked
    <3>6. \A e \in Cores : e < i => core[e].arg \in {core[c].mode, DONOTCARE}
      BY <1>2, <2>1 DEF ModesAreAsked
    <3>7. core'[c].mode # DONOTCARE => \E e \in Cores : core'[e].arg = core'[c].mode
      BY <2>1, <3>2, <3>4, <3>5
    <3>8. ASSUME NEW e \in Cores, e < i + 1
          PROVE  core[e].arg \in {core'[c].mode, DONOTCARE}
      <4>1. e < i \/ e = i
        BY <3>1, <3>8, Numbers
      <4>2. QED
        BY <3>2, <3>3, <3>4, <3>6, <4>1
    <3>9. QED
      BY <1>4, <2>1, <2>2, <3>1, <3>7, <3>8
  <2>4. CASE ~ Compares(c)
    <3>1. core'[c].mode = core[c].mode /\ ~ At(c, "compare")'
      BY <1>1, <2>1, <2>4, PointsAre
         DEF Effect, FlagStep, ModeStep, ActiveStep, QuietStep, Here, To, With, Before, Past, At
    <3>2. QED
      BY <1>2, <1>4, <2>1, <2>2, <3>1 DEF ModesAreAsked
  <2>5. QED
    BY <2>3, <2>4
<1>5. CASE d = c /\ ~ At(c, "compare")
  <2>1. core'[c].mode = core[c].mode
    BY <1>1, <1>5 DEF Effect, FlagStep, ModeStep, ActiveStep, QuietStep, Compares, Here, To, With
  <2>2. ~ Reached(c, 0)' \/ AtPoint(c, 0)' => ~ Reached(c, 0) \/ AtPoint(c, 0)
    BY <1>1, PointsAre
       DEF Effect, FlagStep, ModeStep, ActiveStep, QuietStep, Compares, Here, To, With, Before, Past, At, AtPoint, Reached
  <2>3. ~ Reached(c, 0) \/ AtPoint(c, 0) => core[c].mode = DONOTCARE
    BY <1>2 DEF ModesAreAsked
  <2>4. At(c, "compare")' => core'[c].i = 0
    BY <1>1, <1>5 DEF Effect, FlagStep, ModeStep, ActiveStep, QuietStep, Compares, Here, To, With, At
  <2>5. core'[c].mode # DONOTCARE => \E e \in Cores : core'[e].arg = core'[c].mode
    <3>1. SUFFICES ASSUME core[c].mode # DONOTCARE
                   PROVE  \E e \in Cores : core'[e].arg = core[c].mode
      BY <2>1
    <3>2. \A e \in Cores : core'[e].arg = core[e].arg
      BY <2>3, <3>1, WishesStay
    <3>3. QED
      BY <1>2, <3>1, <3>2 DEF ModesAreAsked
  <2>6. QED
    BY <1>5, <2>1, <2>2, <2>3, <2>4, <2>5, Numbers
<1>6. QED
  BY <1>3, <1>4, <1>5
-----------------------------------------------------------------------------
(* The theorem *)

LEMMA InitHolds == Init => StartupInvariant
<1> SUFFICES ASSUME Init
             PROVE  StartupInvariant
  OBVIOUS
<1>1. /\ 0 \in Points /\ 0 \in 0 .. OS_AUTOSAR_CORES
      /\ \A c \in Cores : /\ core[c].pc \in {"off", "boot"} /\ core[c].mode = DONOTCARE
                          /\ core[c].point = 0 /\ core[c].i = 0 /\ core[c].arg = NoMode
                          /\ c = OS_CORE_ID_MASTER \/ core[c].pc = "off"
      /\ \A c \in Cores, p \in Points : ~ SynPoint[p][c]
  BY Numbers, PointsAre DEF Init
<1>2. \A c \in Cores, p \in Points : ~ Reached(c, p)
  BY <1>1, PointsAre DEF Reached, AtPoint, At, Ending
<1>3. \A c \in Cores : ~ HasMode(c)
  BY <1>1 DEF HasMode, Reached, AtPoint, At, Ending
<1>4. TypeOK
  BY <1>1 DEF Init, TypeOK, Ending
<1>5. PointsHold
  <2>1. \A p \in 0 .. 2 : p \in Points
    BY DEF Points
  <2>2. QED
    BY <1>1, <1>2, <2>1 DEF PointsHold, AtPoint, At
<1>6. InitialisedInTime
  BY <1>1, <1>2, PointsAre DEF InitialisedInTime, At
<1>7. PointsSeparate
  BY <1>4, <1>5, <1>6, Separate
<1>8. ModesAreAsked
  BY <1>1 DEF ModesAreAsked, At
<1>9. SameMode
  BY <1>3 DEF SameMode
<1>10. ActiveAgrees
  BY <1>1 DEF Init, ActiveAgrees, At
<1>11. EndsTogether
  BY <1>1 DEF EndsTogether, At
<1>12. QED
  BY <1>4, <1>5, <1>6, <1>7, <1>8, <1>9, <1>10, <1>11 DEF StartupInvariant

LEMMA StepHolds ==
  ASSUME StartupInvariant, [Next]_vars
  PROVE  StartupInvariant'
<1>1. CASE Next
  <2>1. PICK c \in Cores : Step(c)
    BY <1>1 DEF Next, Step
  <2>2. TypeOK' /\ PointsHold' /\ InitialisedInTime'
    BY <2>1, TypeNext, PointsHoldNext, InitialisedNext
  <2>3. PointsSeparate'
    BY <2>2, Separate, PTL
  <2>4. ModesAreAsked'
    BY <2>1, EntriesNext, FoundNext DEF ModesAreAsked
  <2>5. SameMode' /\ ActiveAgrees' /\ EndsTogether'
    BY <2>1, SameModeNext, ActiveNext, EndsNext
  <2>6. QED
    BY <2>2, <2>3, <2>4, <2>5 DEF StartupInvariant
<1>2. CASE UNCHANGED vars
  <2>1. \A c \in Cores : /\ HasMode(c)' = HasMode(c) /\ Hooked(c)' = Hooked(c) /\ Runs(c)' = Runs(c)
                          /\ \A p : Reached(c, p)' = Reached(c, p) /\ AtPoint(c, p)' = AtPoint(c, p)
                          /\ \A pc : At(c, pc)' = At(c, pc)
    BY <1>2 DEF vars, HasMode, Hooked, Runs, Reached, AtPoint, At
  <2>2. TypeOK' /\ ActiveAgrees' /\ EndsTogether' /\ InitialisedInTime'
    BY <1>2, <2>1 DEF vars, StartupInvariant, TypeOK, ActiveAgrees, EndsTogether, InitialisedInTime
  <2>3. PointsHold' /\ PointsSeparate'
    BY <1>2, <2>1 DEF vars, StartupInvariant, PointsHold, PointsSeparate
  <2>4. ModesAreAsked' /\ SameMode'
    BY <1>2, <2>1 DEF vars, StartupInvariant, ModesAreAsked, SameMode
  <2>5. QED
    BY <2>2, <2>3, <2>4 DEF StartupInvariant
<1>3. QED
  BY <1>1, <1>2

\* The cores go through the points of the start together and in one mode, with what they need
\* initialised, the set of the active ones is right, and they end together.
THEOREM InvariantHolds == Spec => []StartupInvariant
BY InitHolds, StepHolds, PTL DEF Spec
=============================================================================

----------------------------- MODULE OsInterrupt -----------------------------
(***************************************************************************)
(* Category 2 interrupts of one core (Os_Interrupt.c), with nesting         *)
(* (CFG_INT_NEST_ENABLE) and the switch at the outermost exit.              *)
(*                                                                          *)
(* The interrupt priority level belongs to the processor.  Os_Hal_SetIpl    *)
(* writes it; taking an interrupt raises it to the interrupt's priority and *)
(* returning from one restores it (TriCore ICR.CCPN, RH850 likewise).       *)
(*                                                                          *)
(* SysOsLevel is derived: Os_EnterISR2 saves it in SaveLevel and sets       *)
(* OS_LEVEL_ISR2 at nesting depth 0, Os_ExitISR2 restores it at depth 0, and*)
(* hooks and callbacks, which would save another level, are not modelled.   *)
(***************************************************************************)
EXTENDS OsTask, SequencesExt

CONSTANTS
  Isr,     \* category 2 interrupt service routines of the core
  IsrPrio  \* their interrupt priority, compared with the level

ASSUME IsrConstants == IsrPrio \in [Isr -> Nat \ {0}]

VARIABLES
  isrNest,  \* SysIsrNestQueue[0 .. IntNestISR2 - 1]
  ipl,      \* the processor's interrupt priority level
  savedIpl  \* the levels the processor restores, one per nested interrupt

SysOsLevel == IF isrNest = <<>> THEN "TASK" ELSE "ISR2"

\* SysRunningIsrCat2Id while SysInIsrCat2
RunningIsr == Last(isrNest)

\* Priorities from PriorityNum on are the levels from 1 on.
PrioToIpl(prio) == IF prio < PriorityNum - 1 THEN 0 ELSE prio - PriorityNum + 1
IplToPrio(level) == level + PriorityNum - 1

\* An interrupt is taken once the scheduler runs and its priority is above the level.
EnterISR2(i) ==
  /\ sched.running # OS_TASK_INVALID
  /\ IsrPrio[i] > ipl
  /\ isrNest' = Append(isrNest, i)
  /\ savedIpl' = Append(savedIpl, ipl)
  /\ ipl' = IsrPrio[i]
  /\ sched' = [sched EXCEPT !.locker = @ + 1]

\* Mutant: the outermost exit does not look for a preemption held back.
ExitWithoutSwitch(s) == s

\* Os_ExitISR2SwitchTask under CFG_SCHED_POLICY # OS_PREEMPTIVE_NON
ExitISR2SwitchTask(s) ==
  IF s.locker = 0 /\ s.high # s.running THEN SwitchTask(s) ELSE s

ExitISR2 ==
  /\ isrNest # <<>>
  /\ isrNest' = Front(isrNest)
  /\ ipl' = Last(savedIpl)
  /\ savedIpl' = Front(savedIpl)
  /\ LET s == [sched EXCEPT !.locker = @ - 1]
     IN  sched' = IF isrNest' = <<>> THEN ExitISR2SwitchTask(s) ELSE s

=============================================================================

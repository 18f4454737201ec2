------------------------------- MODULE OsEvent -------------------------------
(***************************************************************************)
(* Events of extended tasks (Os_Event.c).  An event mask is the set of its  *)
(* events.  The event control block of a task holds the events set, the     *)
(* events it last waited for, and the flag that WaitAllEvents sets to make  *)
(* Os_SetEvent require all of them.                                         *)
(***************************************************************************)
EXTENDS OsResource

CONSTANTS
  Extended,  \* extended tasks: those Os_CheckExternalTaskId accepts
  Event      \* the events of the configuration

ASSUME EventConstants ==
  /\ Extended \subseteq Task \ {Idle}
  /\ \A t \in Extended : TaskActivation[t] = 1

VARIABLES
  ecb,       \* Os_ECB
  blockedIn  \* the service a task waits in: where its program counter is

Masks == (SUBSET Event) \ {{}}

Ecb == [setMask : SUBSET Event, waitMask : SUBSET Event, waitAll : BOOLEAN]

\* Os_ClearECB
ClearedEcb == [setMask |-> {}, waitMask |-> {}, waitAll |-> FALSE]

ClearECB(t) ==
  ecb' = IF t \in Extended THEN [ecb EXCEPT ![t] = ClearedEcb] ELSE ecb

\* Os_WaitEventSafetyCheck
WaitEventSafetyCheck(t) ==
  /\ SysOsLevel = "TASK"
  /\ t \in Extended
  /\ taskRes[t] = <<>>

\* The end of Os_WaitEvent and Os_WaitAllEvents
WaitUnless(satisfied, t, service) ==
  IF satisfied
  THEN UNCHANGED <<sched, blockedIn>>
  ELSE /\ sched' = SetTaskToWait(sched, t)
       /\ blockedIn' = [blockedIn EXCEPT ![t] = service]

\* Os_WaitEvent leaves the flag of an earlier WaitAllEvents as it is.
WaitEvent(t, mask) ==
  /\ WaitEventSafetyCheck(t)
  /\ ecb' = [ecb EXCEPT ![t].waitMask = mask]
  /\ WaitUnless(ecb[t].setMask \cap mask # {}, t, "WaitEvent")

\* Os_WaitAllEvents sets the flag also when it does not wait.
WaitAllEvents(t, mask) ==
  /\ WaitEventSafetyCheck(t)
  /\ ecb' = [ecb EXCEPT ![t].waitMask = mask, ![t].waitAll = TRUE]
  /\ WaitUnless(mask \subseteq ecb[t].setMask, t, "WaitAllEvents")

ClearEvent(t, mask) ==
  /\ SysOsLevel = "TASK"
  /\ t \in Extended
  /\ ecb' = [ecb EXCEPT ![t].setMask = @ \ mask]
  /\ UNCHANGED <<sched, blockedIn>>

\* Os_SetEventSafetyCheck, outside the critical section of Os_SetEvent
SetEventSafetyCheck(t) == t \in Extended /\ sched.state[t] # "SUSPENDED"

\* Mutant: every wait asks for all of its events.
AwaitedAll(set, e) == e.waitMask \subseteq set

\* The test in Os_SetEvent that makes a waiting task ready
Awaited(set, e) == IF e.waitAll THEN e.waitMask \subseteq set ELSE e.waitMask \cap set # {}

\* The critical section of Os_SetEvent
SetEvent(t, mask) ==
  LET set  == ecb[t].setMask \cup mask
      wake == sched.state[t] = "WAITING" /\ Awaited(set, ecb[t])
  IN  /\ ecb' = [ecb EXCEPT ![t].setMask = set,
                            ![t].waitAll = IF wake THEN FALSE ELSE @]
      /\ sched' = IF wake THEN SetTaskToReady(sched, t) ELSE sched
      /\ blockedIn' = IF wake THEN [blockedIn EXCEPT ![t] = "none"] ELSE blockedIn

=============================================================================

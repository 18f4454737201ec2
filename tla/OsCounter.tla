----------------------------- MODULE OsCounter -----------------------------
(***************************************************************************)
(* The arithmetic of a counter (Os_Counter.c).  It runs over twice its      *)
(* range, so that of two values the one ahead by at most MaxAllowedValue is *)
(* later and the other earlier.  What it drives, alarms and schedule        *)
(* tables, extends this module.                                             *)
(***************************************************************************)
EXTENDS Integers

CONSTANTS
  MaxAllowedValue,  \* Os_CounterCfg[c].CounterMaxAllowedValue
  TickBits          \* width of Os_TickType

ASSUME CounterConstants ==
  /\ MaxAllowedValue \in Nat \ {0}
  /\ TickBits \in Nat /\ 2 * MaxAllowedValue + 1 < 2 ^ TickBits

VARIABLES CounterCurVal, CounterLastVal

counterVars == <<CounterCurVal, CounterLastVal>>

Word(x) == x % (2 ^ TickBits)
TwiceMaxTicks == Word(MaxAllowedValue * 2 + 1)
Ticks == 0 .. TwiceMaxTicks

CalcAbsTicks(base, offset) ==
  LET sum == Word(base + offset)
  IN  IF sum <= TwiceMaxTicks THEN sum ELSE Word(sum - Word(TwiceMaxTicks + 1))

GetDistance(base, dest) ==
  IF base <= dest THEN dest - base ELSE Word(dest - base + TwiceMaxTicks + 1)

InitCounter ==
  /\ CounterCurVal = 0
  /\ CounterLastVal = 0

\* The first critical section of Os_IncrementCounterInternal
CountUp ==
  /\ CounterLastVal' = CounterCurVal
  /\ CounterCurVal' = CalcAbsTicks(CounterCurVal, 1)

\* A tick that has passed by now; those up to MaxAllowedValue + 1 ahead have not.
HasPassed(tick) == GetDistance(tick, CounterCurVal) <= MaxAllowedValue

\* How far ahead a tick lies
TicksTo(tick) == GetDistance(CounterCurVal, tick)

=============================================================================

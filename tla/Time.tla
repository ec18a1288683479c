-------------------------------- MODULE Time --------------------------------
(***************************************************************************)
(* The system time (iomu.c), which the tick interrupt of every processor   *)
(* and the once-a-second interrupt of the RTC move forward, and what       *)
(* depends on it: executive timers (ex_timer.c) and the idle state of the  *)
(* system with its saved display (core.c).  Interrupts are off on a        *)
(* processor while it updates the idle time; the accesses it makes         *)
(* interleave with the other processors.                                   *)
(***************************************************************************)
EXTENDS Integers, FiniteSets

CONSTANTS
  TimeCpus, Bsp,
  CoreCpus,             \* processors whose threads are scheduled
  SecondUs,             \* SEC_IN_US
  TimerInterruptTimeUs,
  IdlePeriods,          \* values given to CoreSetIdlePeriod
  TimerTypes, TimerTimes, TimerThreads,
  MaxSeconds, MaxMicroseconds    \* bounds of the two halves of the uptime

\* There is a processor, and times are natural numbers.
ASSUME TimeAssumption ==
  /\ IsFiniteSet(TimeCpus) /\ TimeCpus # {}
  /\ SecondUs \in Nat /\ TimerInterruptTimeUs \in Nat
  /\ IdlePeriods \subseteq Nat /\ TimerTimes \subseteq Nat

VARIABLES
  UptimeSeconds, UptimeMicroseconds,
  rtc,                  \* the handler of the RTC: [cpu, newSecCount], cpu "none" if idle
  ReadyThreadUs, SystemIdle, MicrosecondsToIdle,
  core,                 \* cpu -> where it is in CoreUpdateIdleTime
  screen, DisplayBuffer,
  timer,                \* [Type, TriggerTimeUs, TimerStarted, TimerUninited]
  waits,                \* thread -> [pc, trigger, stopped] of its wait on the timer
  highest,              \* the latest time that was ever read, a ghost
  timeAssert            \* an assertion failed

clockVars == <<UptimeSeconds, UptimeMicroseconds, rtc>>
coreVars == <<ReadyThreadUs, SystemIdle, MicrosecondsToIdle, core, screen, DisplayBuffer, timeAssert>>
timerVars == <<timer, waits>>
timeVars == <<clockVars, coreVars, timerVars, highest>>

\* IomuInitSystemAfterApWakeup: each tick counts for a share of the period.
TimeUpdatePerCpuUs == TimerInterruptTimeUs \div Cardinality(TimeCpus)

(* Mutant: the microseconds are not bounded by a second. *)
IomuGetSystemTimeUs_Unbounded == UptimeSeconds * SecondUs + UptimeMicroseconds

\* One read of both halves; a second that the RTC has not ended yet is never
\* more than a second.
IomuGetSystemTimeUs ==
  UptimeSeconds * SecondUs
    + (IF UptimeMicroseconds >= SecondUs THEN SecondUs ELSE UptimeMicroseconds)

Seen == highest' = IF IomuGetSystemTimeUs > highest THEN IomuGetSystemTimeUs ELSE highest

NoRtc == [cpu |-> "none", newSecCount |-> 0]
Out == [pc |-> "out", idle |-> FALSE, systemTimeUs |-> 0]
NoTimer == [Type |-> "none", TriggerTimeUs |-> 0, TimerStarted |-> FALSE, TimerUninited |-> TRUE]
NoWait == [pc |-> "out", trigger |-> 0, stopped |-> FALSE]

\* CorePreinit, CoreInit.
TimeInit ==
  /\ UptimeSeconds = 0 /\ UptimeMicroseconds = 0 /\ rtc = NoRtc
  /\ ReadyThreadUs = 0 /\ SystemIdle = FALSE /\ MicrosecondsToIdle \in IdlePeriods
  /\ core = [c \in CoreCpus |-> Out]
  /\ screen = "content" /\ DisplayBuffer = "zeroes"
  /\ timer = NoTimer /\ waits = [t \in TimerThreads |-> NoWait]
  /\ highest = 0 /\ timeAssert = FALSE

InterruptsOn(c) == rtc.cpu # c /\ (c \in CoreCpus => core[c].pc = "out")

(***************************************************************************)
(* The clock.                                                              *)
(***************************************************************************)

\* _IomuSystemTickInterrupt, _IomuUpdateSystemTime.
SystemTickInterrupt(c) ==
  /\ InterruptsOn(c)
  /\ UptimeMicroseconds + TimeUpdatePerCpuUs <= MaxMicroseconds
  /\ UptimeMicroseconds' = UptimeMicroseconds + TimeUpdatePerCpuUs
  /\ UNCHANGED <<UptimeSeconds, rtc, coreVars, timerVars, highest>>

\* OsInfoTimeUpdateIsr, IomuCmosUpdateOccurred: the seconds are read, ...
CmosUpdateOccurred(c) ==
  /\ InterruptsOn(c) /\ rtc = NoRtc /\ UptimeSeconds < MaxSeconds
  /\ rtc' = [cpu |-> c, newSecCount |-> UptimeSeconds + 1]
  /\ UNCHANGED <<UptimeSeconds, UptimeMicroseconds, coreVars, timerVars, highest>>

\* ... and both halves are written, the microseconds with zero.
CmosUpdateWrites ==
  /\ rtc # NoRtc
  /\ UptimeSeconds' = rtc.newSecCount /\ UptimeMicroseconds' = 0
  /\ rtc' = NoRtc
  /\ UNCHANGED <<coreVars, timerVars, highest>>

(***************************************************************************)
(* CoreUpdateIdleTime, which the scheduler calls for each thread it picks. *)
(***************************************************************************)

CoreAt(c, pc) == core[c].pc = pc /\ ~timeAssert
CoreTo(c, pc) == core' = [core EXCEPT ![c].pc = pc]

CoreUpdateIdleTime(c, idleScheduled) ==
  /\ CoreAt(c, "out") /\ InterruptsOn(c)
  /\ core' = [core EXCEPT ![c] = [pc |-> "last", idle |-> idleScheduled,
                                  systemTimeUs |-> IomuGetSystemTimeUs]]
  /\ Seen
  /\ UNCHANGED <<clockVars, timerVars, ReadyThreadUs, SystemIdle, MicrosecondsToIdle, screen,
                 DisplayBuffer, timeAssert>>

\* ReadyThreadUs is read and compared.  The time may be earlier than the last
\* activity another processor saw, by a tick at most says the assertion.
LastActivityRead(c) ==
  LET now == core[c].systemTimeUs
      goOn == IF core[c].idle
              THEN c = Bsp /\ now >= ReadyThreadUs /\ now - ReadyThreadUs >= MicrosecondsToIdle
              ELSE now > ReadyThreadUs
  IN  /\ CoreAt(c, "last")
      /\ timeAssert' = (core[c].idle /\ c = Bsp /\ now + TimerInterruptTimeUs < ReadyThreadUs)
      /\ core' = [core EXCEPT ![c] = IF goOn THEN [@ EXCEPT !.pc = IF core[c].idle THEN "idle" ELSE "ready"]
                                     ELSE Out]
      /\ UNCHANGED <<clockVars, timerVars, highest, ReadyThreadUs, SystemIdle, MicrosecondsToIdle,
                     screen, DisplayBuffer>>

\* The system becomes idle: the display is saved and cleared.
BecomesIdle(c) ==
  /\ CoreAt(c, "idle")
  /\ SystemIdle' = TRUE
  /\ IF SystemIdle THEN core' = [core EXCEPT ![c] = Out] ELSE CoreTo(c, "store")
  /\ UNCHANGED <<clockVars, timerVars, highest, ReadyThreadUs, MicrosecondsToIdle, screen,
                 DisplayBuffer, timeAssert>>

\* _CoreSystemIdle: DispStoreBuffer and DispClearScreen.
CoreSystemIdle(c) ==
  /\ CoreAt(c, "store") \/ CoreAt(c, "clear")
  /\ IF core[c].pc = "store"
     THEN DisplayBuffer' = screen /\ CoreTo(c, "clear") /\ UNCHANGED screen
     ELSE screen' = "blank" /\ core' = [core EXCEPT ![c] = Out] /\ UNCHANGED DisplayBuffer
  /\ UNCHANGED <<clockVars, timerVars, highest, ReadyThreadUs, SystemIdle, MicrosecondsToIdle, timeAssert>>

\* A thread that is not idle runs: the time of the last activity, ...
LastActivityWritten(c) ==
  /\ CoreAt(c, "ready")
  /\ ReadyThreadUs' = core[c].systemTimeUs
  /\ CoreTo(c, "wake")
  /\ UNCHANGED <<clockVars, timerVars, highest, SystemIdle, MicrosecondsToIdle, screen,
                 DisplayBuffer, timeAssert>>

\* ... the end of the idle state, and _CoreSystemRevertFromIdle.
EndsIdle(c) ==
  /\ CoreAt(c, "wake")
  /\ SystemIdle' = FALSE
  /\ IF SystemIdle THEN CoreTo(c, "restore") ELSE core' = [core EXCEPT ![c] = Out]
  /\ UNCHANGED <<clockVars, timerVars, highest, ReadyThreadUs, MicrosecondsToIdle, screen,
                 DisplayBuffer, timeAssert>>

CoreSystemRevertFromIdle(c) ==
  /\ CoreAt(c, "restore")
  /\ screen' = DisplayBuffer
  /\ core' = [core EXCEPT ![c] = Out]
  /\ UNCHANGED <<clockVars, timerVars, highest, ReadyThreadUs, SystemIdle, MicrosecondsToIdle,
                 DisplayBuffer, timeAssert>>

CoreSetIdlePeriod(us) ==
  /\ us # MicrosecondsToIdle
  /\ MicrosecondsToIdle' = us
  /\ UNCHANGED <<clockVars, timerVars, highest, ReadyThreadUs, SystemIdle, core, screen,
                 DisplayBuffer, timeAssert>>

(***************************************************************************)
(* Executive timers: one that several threads use.                         *)
(***************************************************************************)

\* ExTimerInit, while nobody uses the timer.
ExTimerInit(type, us) ==
  /\ timer.TimerUninited /\ \A t \in TimerThreads : waits[t].pc = "out"
  /\ timer' = [Type |-> type, TimerStarted |-> FALSE, TimerUninited |-> FALSE,
               TriggerTimeUs |-> IF type = "Absolute" THEN us ELSE IomuGetSystemTimeUs + us]
  /\ waits' = [t \in TimerThreads |-> NoWait]
  /\ Seen
  /\ UNCHANGED <<clockVars, coreVars>>

ExTimerStart ==
  /\ ~timer.TimerUninited /\ ~timer.TimerStarted
  /\ timer' = [timer EXCEPT !.TimerStarted = TRUE]
  /\ UNCHANGED <<clockVars, coreVars, waits, highest>>

ExTimerStop ==
  /\ ~timer.TimerUninited /\ timer.TimerStarted
  /\ timer' = [timer EXCEPT !.TimerStarted = FALSE]
  /\ UNCHANGED <<clockVars, coreVars, waits, highest>>

ExTimerUninit ==
  /\ ~timer.TimerUninited
  /\ timer' = [timer EXCEPT !.TimerStarted = FALSE, !.TimerUninited = TRUE]
  /\ UNCHANGED <<clockVars, coreVars, waits, highest>>

\* ExTimerWait: the wait begins, and ends when it finds the time reached or
\* the timer stopped; until then the thread yields.
ExTimerWait(t) ==
  /\ waits[t].pc = "out" /\ ~timer.TimerUninited
  /\ waits' = [waits EXCEPT ![t] = [NoWait EXCEPT !.pc = "wait"]]
  /\ UNCHANGED <<clockVars, coreVars, timer, highest>>
WaitEnds(t) ==
  /\ waits[t].pc = "wait"
  /\ IomuGetSystemTimeUs >= timer.TriggerTimeUs \/ ~timer.TimerStarted
  /\ waits' = [waits EXCEPT ![t] = [pc |-> "out", trigger |-> timer.TriggerTimeUs,
                                    stopped |-> IomuGetSystemTimeUs < timer.TriggerTimeUs]]
  /\ Seen
  /\ UNCHANGED <<clockVars, coreVars, timer>>

CoreStep(c) ==
  \/ \E idle \in BOOLEAN : CoreUpdateIdleTime(c, idle)
  \/ LastActivityRead(c) \/ BecomesIdle(c) \/ CoreSystemIdle(c)
  \/ LastActivityWritten(c) \/ EndsIdle(c) \/ CoreSystemRevertFromIdle(c)

TimeNext ==
  \/ \E c \in TimeCpus : SystemTickInterrupt(c) \/ CmosUpdateOccurred(c)
  \/ CmosUpdateWrites
  \/ \E c \in CoreCpus : CoreStep(c)
  \/ \E us \in IdlePeriods : CoreSetIdlePeriod(us)
  \/ \E type \in TimerTypes, us \in TimerTimes : ExTimerInit(type, us)
  \/ ExTimerStart \/ ExTimerStop \/ ExTimerUninit
  \/ \E t \in TimerThreads : ExTimerWait(t) \/ WaitEnds(t)

(***************************************************************************)
(* Properties.                                                             *)
(***************************************************************************)

\* Time never runs backwards, however ticks and the RTC interleave: it is at
\* least what anybody has read, and the last activity is not in the future.
TimeMonotonic ==
  /\ highest <= IomuGetSystemTimeUs
  /\ ReadyThreadUs <= IomuGetSystemTimeUs

\* A wait on a timer that nobody stopped has not ended before its time.
WaitsLongEnough ==
  \A t \in TimerThreads :
    waits[t].pc = "out" /\ ~waits[t].stopped => waits[t].trigger <= IomuGetSystemTimeUs

\* Between updates the screen is blank exactly while the system is idle, and
\* what it showed has been saved.
ScreenKept ==
  (\A c \in CoreCpus : core[c].pc = "out") =>
    IF SystemIdle THEN screen = "blank" /\ DisplayBuffer = "content" ELSE screen = "content"

\* The assertion of CoreUpdateIdleTime on the time of the last activity holds.
ActivityAssertHolds == ~timeAssert

\* The clock and what depends on it.
TimeSound == TimeMonotonic /\ WaitsLongEnough /\ ScreenKept /\ ActivityAssertHolds
=============================================================================

------------------------------- MODULE Spinlock -------------------------------
(***************************************************************************)
(* The kernel's basic lock (spinlock.c, monlock.c; lock_common.c picks one *)
(* of them at boot): a byte taken with a compare-and-exchange, the CPU     *)
(* that holds it, recorded for assertions and for LockIsOwner, and the     *)
(* interrupt flag, which stays off while the lock is held.  The monitor    *)
(* lock waits with MONITOR and MWAIT instead of spinning.                  *)
(*                                                                         *)
(* Each CPU runs a thread and an interrupt handler that use the same lock. *)
(* A handler starts between any two instructions of the thread when        *)
(* interrupts are on and runs to its end before the thread goes on.        *)
(***************************************************************************)
EXTENDS Integers, FiniteSets

CONSTANTS
  CPUs,
  NoCpu,
  MonitorSupport,    \* LockSystemInit's parameter
  UsesTryAcquire     \* whether some callers use LockTryAcquire

ASSUME SpinlockAssumption ==
  /\ NoCpu \notin CPUs
  /\ MonitorSupport \in BOOLEAN
  /\ UsesTryAcquire \in BOOLEAN

VARIABLES
  State,       \* SPINLOCK.State
  Holder,      \* SPINLOCK.Holder; FunctionWhichTookLock is set along with it
  intr,        \* intr[c]: the interrupt flag of CPU c
  inIsr,       \* inIsr[c]: CPU c runs its interrupt handler
  armed,       \* armed[c]: CPU c monitors the lock and nobody has written it
  pc,          \* where each context is in the functions below
  IntrState    \* what it will restore

vars == <<State, Holder, intr, inIsr, armed, pc, IntrState>>

Contexts == CPUs \X {"thread", "isr"}

cpu(x) == x[1]

Init ==
  /\ State = "free"
  /\ Holder = NoCpu
  /\ intr = [c \in CPUs |-> TRUE]
  /\ inIsr = [c \in CPUs |-> FALSE]
  /\ armed = [c \in CPUs |-> FALSE]
  /\ pc = [x \in Contexts |-> "idle"]
  /\ IntrState = [x \in Contexts |-> FALSE]

\* The context its CPU executes.
Executes(x) == IF x[2] = "isr" THEN inIsr[cpu(x)] ELSE ~inIsr[cpu(x)]

Goto(x, from, to) ==
  /\ Executes(x)
  /\ pc[x] = from
  /\ pc' = [pc EXCEPT ![x] = to]

\* A store to the lock ends every other CPU's monitoring of it.
StoreToLock(x) == armed' = [c \in CPUs |-> c = cpu(x) /\ armed[c]]

(* Mutant: the flag is read but interrupts are left on. *)
DisableInterrupts_LeftOn(x) ==
  /\ IntrState' = [IntrState EXCEPT ![x] = intr[cpu(x)]]
  /\ intr' = intr

\* CpuIntrDisable.
DisableInterrupts(x) ==
  /\ IntrState' = [IntrState EXCEPT ![x] = intr[cpu(x)]]
  /\ intr' = [intr EXCEPT ![cpu(x)] = FALSE]

\* SpinlockAcquire and MonitorLockAcquire, up to the loop.  An assertion
\* refuses a CPU that has the lock already.
Acquire(x) ==
  /\ Goto(x, "idle", IF Holder = cpu(x) THEN "halt"
                     ELSE IF MonitorSupport THEN "monitor" ELSE "exchange")
  /\ DisableInterrupts(x)
  /\ UNCHANGED <<State, Holder, inIsr, armed>>

\* _mm_monitor.
Monitor(x) ==
  /\ Goto(x, "monitor", "exchange")
  /\ armed' = [armed EXCEPT ![cpu(x)] = TRUE]
  /\ UNCHANGED <<State, Holder, intr, inIsr, IntrState>>

\* The compare-and-exchange succeeds.
ExchangeTakes(x) ==
  /\ Goto(x, "exchange", "own")
  /\ State = "free"
  /\ State' = "taken"
  /\ StoreToLock(x)
  /\ UNCHANGED <<Holder, intr, inIsr, IntrState>>

\* It fails: the spinlock tries again, the monitor lock executes MWAIT.
ExchangeFails(x) ==
  /\ Goto(x, "exchange", IF MonitorSupport THEN "mwait" ELSE "exchange")
  /\ State = "taken"
  /\ UNCHANGED <<State, Holder, intr, inIsr, armed, IntrState>>

\* _mm_mwait returns once the lock was written since _mm_monitor.
Mwait(x) ==
  /\ Goto(x, "mwait", "monitor")
  /\ ~armed[cpu(x)]
  /\ UNCHANGED <<State, Holder, intr, inIsr, armed, IntrState>>

\* The end of Acquire.
TakeHolder(x) ==
  /\ Goto(x, "own", "held")
  /\ Holder' = cpu(x)
  /\ StoreToLock(x)
  /\ UNCHANGED <<State, intr, inIsr, IntrState>>

\* SpinlockTryAcquire and MonitorLockTryAcquire: Holder is not set.
TryAcquire(x) ==
  /\ UsesTryAcquire
  /\ Executes(x)
  /\ pc[x] = "idle"
  /\ \/ /\ State = "free"
        /\ State' = "taken"
        /\ StoreToLock(x)
        /\ DisableInterrupts(x)
        /\ pc' = [pc EXCEPT ![x] = "held"]
     \/ /\ State = "taken"
        /\ UNCHANGED <<State, armed, intr, IntrState, pc>>
  /\ UNCHANGED <<Holder, inIsr>>

\* SpinlockRelease and MonitorLockRelease: an assertion refuses a CPU that
\* is not the holder.
Release(x) ==
  /\ Goto(x, "held", IF Holder = cpu(x) THEN "free" ELSE "halt")
  /\ IF Holder = cpu(x)
     THEN Holder' = NoCpu /\ StoreToLock(x)
     ELSE UNCHANGED <<Holder, armed>>
  /\ UNCHANGED <<State, intr, inIsr, IntrState>>

(* Mutant: the state is outside the monitored range. *)
FreeState_NotMonitored(x) ==
  /\ Goto(x, "free", "restore")
  /\ State' = "free"
  /\ UNCHANGED <<Holder, intr, inIsr, armed, IntrState>>

\* The exchange of the state.
FreeState(x) ==
  /\ Goto(x, "free", "restore")
  /\ State' = "free"
  /\ StoreToLock(x)
  /\ UNCHANGED <<Holder, intr, inIsr, IntrState>>

\* CpuIntrSetState(OldIntrState).
RestoreInterrupts(x) ==
  /\ Goto(x, "restore", "idle")
  /\ intr' = [intr EXCEPT ![cpu(x)] = IntrState[x]]
  /\ UNCHANGED <<State, Holder, inIsr, armed, IntrState>>

\* An interrupt is accepted, through a gate that turns interrupts off.
Interrupt(c) ==
  /\ intr[c]
  /\ ~inIsr[c]
  /\ pc[<<c, "thread">>] # "halt"
  /\ inIsr' = [inIsr EXCEPT ![c] = TRUE]
  /\ intr' = [intr EXCEPT ![c] = FALSE]
  /\ UNCHANGED <<State, Holder, armed, pc, IntrState>>

ReturnFromInterrupt(c) ==
  /\ inIsr[c]
  /\ pc[<<c, "isr">>] = "idle"
  /\ inIsr' = [inIsr EXCEPT ![c] = FALSE]
  /\ intr' = [intr EXCEPT ![c] = TRUE]
  /\ UNCHANGED <<State, Holder, armed, pc, IntrState>>

\* What a context does without waiting for another, once it has called.
LockStep(x) ==
  \/ Monitor(x)
  \/ ExchangeTakes(x)
  \/ ExchangeFails(x)
  \/ Mwait(x)
  \/ TakeHolder(x)
  \/ Release(x)
  \/ FreeState(x)
  \/ RestoreInterrupts(x)

Next ==
  \/ \E x \in Contexts : Acquire(x) \/ TryAcquire(x) \/ LockStep(x)
  \/ \E c \in CPUs : Interrupt(c) \/ ReturnFromInterrupt(c)

Spec == Init /\ [][Next]_vars

\* A CPU inside these functions keeps executing.
FairSpec == Spec /\ \A x \in Contexts : WF_vars(LockStep(x))

(***************************************************************************)
(* Properties.                                                             *)
(***************************************************************************)

Places == {"idle", "monitor", "exchange", "mwait", "own", "held", "free", "restore", "halt"}

\* The lock, its holder and what each context is doing.
TypeOK ==
  /\ State \in {"free", "taken"}
  /\ Holder \in CPUs \union {NoCpu}
  /\ intr \in [CPUs -> BOOLEAN]
  /\ inIsr \in [CPUs -> BOOLEAN]
  /\ armed \in [CPUs -> BOOLEAN]
  /\ pc \in [Contexts -> Places]
  /\ IntrState \in [Contexts -> BOOLEAN]

\* From the exchange that takes the lock to the one that frees it.
Inside(x) == pc[x] \in {"own", "held", "free"}
Waiting(x) == pc[x] \in {"monitor", "exchange", "mwait"}

\* One context at a time is between Acquire or TryAcquire and Release,
\* counting the handler that interrupts a thread on the same CPU.
MutualExclusion == \A x, y \in Contexts : Inside(x) /\ Inside(y) => x = y

\* A handler never waits for a lock that the thread it interrupted holds:
\* the CPU would wait for itself.
NoSelfDeadlock ==
  \A c \in CPUs : inIsr[c] /\ Waiting(<<c, "isr">>) => ~Inside(<<c, "thread">>)

\* When the exchange succeeds the previous holder has already cleared
\* Holder: the assertions of Acquire after the loop hold.
HolderCleared == \A x \in Contexts : pc[x] = "own" => Holder = NoCpu

\* Release restores what Acquire found: on in a thread, off in a handler.
InterruptsRestored ==
  \A c \in CPUs :
    /\ inIsr[c] => ~intr[c]
    /\ ~inIsr[c] /\ pc[<<c, "thread">>] = "idle" => intr[c]

\* A CPU sleeps in MWAIT only while the lock is taken: a release between
\* the failed exchange and MWAIT is not lost.
NoLostWakeup ==
  \A x \in Contexts : pc[x] = "mwait" /\ armed[cpu(x)] => State = "taken"

\* If a CPU waits for the lock, some CPU gets it, unless one has stopped at
\* an assertion (Release after TryAcquire does, with the lock held).
LockIsTaken ==
  (\E x \in Contexts : Waiting(x)) ~> (\E x \in Contexts : pc[x] \in {"held", "halt"})

(***************************************************************************)
(* What makes these invariants inductive.                                  *)
(***************************************************************************)

\* Whoever is inside has the byte, and Holder names a CPU only while one of
\* its contexts is between TakeHolder and Release.
LockBusy ==
  /\ \A x \in Contexts : Inside(x) => State = "taken"
  /\ \A x \in Contexts : pc[x] = "free" => Holder = NoCpu
  /\ Holder # NoCpu => \E x \in Contexts : pc[x] = "held" /\ cpu(x) = Holder

\* A context inside the functions runs with interrupts off, so it is the
\* only one of its CPU, and it has saved the flag its level runs with.
OneContextPerCpu ==
  \A c \in CPUs :
    /\ pc[<<c, "thread">>] # "idle" => ~inIsr[c] /\ ~intr[c] /\ IntrState[<<c, "thread">>]
    /\ pc[<<c, "isr">>] # "idle" => inIsr[c] /\ ~IntrState[<<c, "isr">>]

\* The inductive invariant of the lock: all of the above.
SpinlockInv ==
  /\ TypeOK
  /\ MutualExclusion
  /\ LockBusy
  /\ HolderCleared
  /\ InterruptsRestored
  /\ OneContextPerCpu
  /\ NoLostWakeup
=============================================================================

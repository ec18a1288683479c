----------------------------- MODULE Primitives -----------------------------
(***************************************************************************)
(* Two small primitives of CommonLib and the only user of each: primitive  *)
(* events (event.c) as the semaphores that the operating system layer      *)
(* gives to the ACPI library (acpi_osl.c), and the recursive reader-writer *)
(* spinlock (rec_rw_spinlock.c) of the paging structures (mmu.c).  The    *)
(* lock below is RwSpinlock, here the set of processors that have it.      *)
(***************************************************************************)
EXTENDS Integers, FiniteSets

CONSTANTS
  PrimCpus,
  MaxRecursivityDepth

\* NULL is no processor.
ASSUME PrimAssumption == "NULL" \notin PrimCpus /\ MaxRecursivityDepth \in Nat

VARIABLES
  State,               \* of the event: "signaled" or not
  semaphore,           \* per processor: "out", "retry", "wait", "in"
  exclusive, shared,   \* who has the RwSpinlock
  Holder, CurrentRecursivityDepth,
  nested,              \* per processor: exclusive acquisitions not yet released
  recOp,               \* per processor: "none", "spin", "spinShared", "got", "gotShared", "drop"
  primAssert           \* an assertion has failed

semaphoreVars == <<State, semaphore>>
recVars == <<exclusive, shared, Holder, CurrentRecursivityDepth, nested, recOp, primAssert>>
primVars == <<semaphoreVars, recVars>>

\* AcpiOsCreateSemaphore with one unit: a synchronization event that is
\* signalled; RecRwSpinlockInit.
PrimInit ==
  /\ State = "signaled"
  /\ semaphore = [c \in PrimCpus |-> "out"]
  /\ exclusive = {} /\ shared = {}
  /\ Holder = "NULL" /\ CurrentRecursivityDepth = 0
  /\ nested = [c \in PrimCpus |-> 0]
  /\ recOp = [c \in PrimCpus |-> "none"]
  /\ primAssert = FALSE

(***************************************************************************)
(* Semaphores.                                                             *)
(***************************************************************************)

\* EvtIsSignaled: one compare-and-exchange, which takes the signal.
EvtIsSignaled(c, yes, no) ==
  /\ State' = "not signaled"
  /\ semaphore' = [semaphore EXCEPT ![c] = IF State = "signaled" THEN yes ELSE no]

\* AcpiOsWaitSemaphore: at once, then after the time-out or without end.
AcpiOsWaitSemaphore(c) ==
  /\ semaphore[c] = "out"
  /\ \E no \in {"out", "retry", "wait"} : EvtIsSignaled(c, "in", no)
  /\ UNCHANGED recVars

WaitAfterTimeout(c) ==
  /\ semaphore[c] = "retry"
  /\ EvtIsSignaled(c, "in", "out")
  /\ UNCHANGED recVars

\* EvtWaitForSignal spins until its exchange succeeds.
EvtWaitForSignal(c) ==
  /\ semaphore[c] = "wait" /\ State = "signaled"
  /\ EvtIsSignaled(c, "in", "wait")
  /\ UNCHANGED recVars

\* AcpiOsSignalSemaphore and EvtSignal.
AcpiOsSignalSemaphore(c) ==
  /\ semaphore[c] = "in"
  /\ State' = "signaled"
  /\ semaphore' = [semaphore EXCEPT ![c] = "out"]
  /\ UNCHANGED recVars

(***************************************************************************)
(* The recursive reader-writer spinlock.                                   *)
(***************************************************************************)

PrimGoto(c, pc) == recOp' = [recOp EXCEPT ![c] = pc]

\* RecRwSpinlockAcquire, Exclusive: the holder only counts.
RecRwSpinlockAcquire(c) ==
  /\ recOp[c] = "none" /\ c \notin shared
  /\ nested[c] < MaxRecursivityDepth
  /\ IF Holder = c
     THEN /\ CurrentRecursivityDepth' = CurrentRecursivityDepth + 1
          /\ primAssert' = (primAssert \/ CurrentRecursivityDepth >= MaxRecursivityDepth)
          /\ nested' = [nested EXCEPT ![c] = @ + 1]
          /\ UNCHANGED recOp
     ELSE PrimGoto(c, "spin") /\ UNCHANGED <<CurrentRecursivityDepth, primAssert, nested>>
  /\ UNCHANGED <<semaphoreVars, exclusive, shared, Holder>>

\* The RwSpinlock is acquired ...
SpinlockTaken(c) ==
  /\ recOp[c] = "spin" /\ exclusive = {} /\ shared = {}
  /\ exclusive' = {c}
  /\ PrimGoto(c, "got")
  /\ UNCHANGED <<semaphoreVars, shared, Holder, CurrentRecursivityDepth, nested, primAssert>>

\* ... and the holder is entered.
BecomesHolder(c) ==
  /\ recOp[c] = "got"
  /\ primAssert' = (primAssert \/ Holder # "NULL" \/ CurrentRecursivityDepth # 0)
  /\ CurrentRecursivityDepth' = 1
  /\ Holder' = c
  /\ nested' = [nested EXCEPT ![c] = 1]
  /\ PrimGoto(c, "none")
  /\ UNCHANGED <<semaphoreVars, exclusive, shared>>

\* RecRwSpinlockAcquire, shared, by a processor that does not hold it.
AcquireShared(c) ==
  /\ recOp[c] = "none" /\ nested[c] = 0 /\ c \notin shared
  /\ exclusive = {}
  /\ shared' = shared \union {c}
  /\ PrimGoto(c, "gotShared")
  /\ UNCHANGED <<semaphoreVars, exclusive, Holder, CurrentRecursivityDepth, nested, primAssert>>

SharedAsserts(c) ==
  /\ recOp[c] = "gotShared"
  /\ primAssert' = (primAssert \/ Holder # "NULL" \/ CurrentRecursivityDepth # 0)
  /\ PrimGoto(c, "none")
  /\ UNCHANGED <<semaphoreVars, exclusive, shared, Holder, CurrentRecursivityDepth, nested>>

(* Mutant: the holder stays entered. *)
RecRwSpinlockRelease_KeepsHolder(c) ==
  /\ recOp[c] = "none" /\ nested[c] > 0
  /\ primAssert' = (primAssert \/ Holder # c)
  /\ CurrentRecursivityDepth' = CurrentRecursivityDepth - 1
  /\ nested' = [nested EXCEPT ![c] = @ - 1]
  /\ IF CurrentRecursivityDepth' = 0 THEN PrimGoto(c, "drop") ELSE UNCHANGED recOp
  /\ UNCHANGED <<semaphoreVars, exclusive, shared, Holder>>

\* RecRwSpinlockRelease, Exclusive: at depth zero the holder is cleared
\* before the RwSpinlock is given back.
RecRwSpinlockRelease(c) ==
  /\ recOp[c] = "none" /\ nested[c] > 0
  /\ primAssert' = (primAssert \/ Holder # c)
  /\ CurrentRecursivityDepth' = CurrentRecursivityDepth - 1
  /\ nested' = [nested EXCEPT ![c] = @ - 1]
  /\ IF CurrentRecursivityDepth' = 0
     THEN Holder' = "NULL" /\ PrimGoto(c, "drop")
     ELSE UNCHANGED <<Holder, recOp>>
  /\ UNCHANGED <<semaphoreVars, exclusive, shared>>

SpinlockDropped(c) ==
  /\ recOp[c] = "drop"
  /\ exclusive' = exclusive \ {c}
  /\ PrimGoto(c, "none")
  /\ UNCHANGED <<semaphoreVars, shared, Holder, CurrentRecursivityDepth, nested, primAssert>>

\* A reader writes NULL over a holder that is NULL already.
RecReleaseShared(c) ==
  /\ recOp[c] = "none" /\ c \in shared
  /\ Holder' = "NULL"
  /\ shared' = shared \ {c}
  /\ UNCHANGED <<semaphoreVars, exclusive, CurrentRecursivityDepth, nested, recOp, primAssert>>

PrimNext ==
  \E c \in PrimCpus :
    \/ AcpiOsWaitSemaphore(c) \/ WaitAfterTimeout(c) \/ EvtWaitForSignal(c)
    \/ AcpiOsSignalSemaphore(c)
    \/ RecRwSpinlockAcquire(c) \/ SpinlockTaken(c) \/ BecomesHolder(c)
    \/ AcquireShared(c) \/ SharedAsserts(c) \/ RecReleaseShared(c)
    \/ RecRwSpinlockRelease(c) \/ SpinlockDropped(c)

(***************************************************************************)
(* Properties.                                                             *)
(***************************************************************************)

\* A unit of an ACPI semaphore is never lost and never taken twice, with
\* waits that time out while it is given back.
SemaphoreKeepsUnit ==
  Cardinality({c \in PrimCpus : semaphore[c] = "in"}) + (IF State = "signaled" THEN 1 ELSE 0) = 1

\* The recursion count belongs to the one processor that has the lock, and
\* it reaches the lock below only when the outermost acquisition ends; the
\* assertions of rec_rw_spinlock.c hold.
RecursionExact ==
  /\ ~primAssert
  /\ \A c \in PrimCpus :
       nested[c] > 0 => /\ Holder = c /\ exclusive = {c} /\ shared = {}
                        /\ CurrentRecursivityDepth = nested[c]

\* Both primitives.
PrimitivesSound == SemaphoreKeepsUnit /\ RecursionExact
=============================================================================

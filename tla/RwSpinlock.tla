----------------------------- MODULE RwSpinlock -----------------------------
(***************************************************************************)
(* The reader-writer spinlock of CommonLib (rw_spinlock.c).                *)
(*                                                                         *)
(* RW_SPINLOCK is three adjacent 16-bit words, WaitingWriters,             *)
(* ActiveWriter and ActiveReaders.  A writer claims the lock with a 32-bit *)
(* compare-exchange over <<ActiveWriter, ActiveReaders>>, a reader with a  *)
(* 32-bit compare-exchange over <<WaitingWriters, ActiveWriter>>, which    *)
(* makes it a pseudo writer until it has registered itself in              *)
(* ActiveReaders.  Every interlocked instruction is one action.            *)
(*                                                                         *)
(* Both paths disable interrupts first (CpuIntrDisable) and restore them   *)
(* after the release, so a CPU runs at most one acquire..release at a      *)
(* time and the actors are the CPUs.                                       *)
(***************************************************************************)
EXTENDS Integers, FiniteSets

CONSTANT CPUs       \* the processors that contend for the lock

WordModulus == 65536   \* values of a WORD

\* A WORD holds the number of CPUs: PCPU indexes are APIC ids (one byte).
ASSUME CpusAssumption == IsFiniteSet(CPUs) /\ Cardinality(CPUs) < WordModulus

VARIABLES
  WaitingWriters,   \* RW_SPINLOCK.WaitingWriters
  ActiveWriter,     \* RW_SPINLOCK.ActiveWriter
  ActiveReaders,    \* RW_SPINLOCK.ActiveReaders
  pc                \* where each CPU is in RwSpinlockAcquire / Release

vars == <<WaitingWriters, ActiveWriter, ActiveReaders, pc>>

\* Where a CPU can be: outside, or at the next interlocked instruction.
Locations == { "idle",
               "wSpin", "wGot", "wHeld",            \* Exclusive = TRUE
               "rSpin", "rGot", "rCounted", "rHeld" } \* Exclusive = FALSE

\* _InterlockedIncrement16 and _InterlockedDecrement16.
Inc16(w) == (w + 1) % WordModulus
Dec16(w) == (w - 1) % WordModulus

Goto(c, from, to) ==
  /\ pc[c] = from
  /\ pc' = [pc EXCEPT ![c] = to]

\* RwSpinlockInit: memzero.
Init ==
  /\ WaitingWriters = 0
  /\ ActiveWriter = 0
  /\ ActiveReaders = 0
  /\ pc = [c \in CPUs |-> "idle"]

-----------------------------------------------------------------------------
(***************************************************************************)
(* RwSpinlockAcquire(Exclusive = TRUE)                                     *)
(***************************************************************************)

AnnounceWriter(c) ==
  /\ Goto(c, "idle", "wSpin")
  /\ WaitingWriters' = Inc16(WaitingWriters)
  /\ UNCHANGED <<ActiveWriter, ActiveReaders>>

\* Mutant: a compare-exchange over ActiveWriter alone, blind to ActiveReaders.
ClaimWriter_IgnoresReaders(c) ==
  /\ Goto(c, "wSpin", "wGot")
  /\ ActiveWriter = 0
  /\ ActiveWriter' = 1
  /\ UNCHANGED <<WaitingWriters, ActiveReaders>>

\* The successful compare-exchange; a failing one changes nothing.
ClaimWriter(c) ==
  /\ Goto(c, "wSpin", "wGot")
  /\ ActiveWriter = 0 /\ ActiveReaders = 0
  /\ ActiveWriter' = 1
  /\ UNCHANGED <<WaitingWriters, ActiveReaders>>

RetractWaiting(c) ==
  /\ Goto(c, "wGot", "wHeld")
  /\ WaitingWriters' = Dec16(WaitingWriters)
  /\ UNCHANGED <<ActiveWriter, ActiveReaders>>

(***************************************************************************)
(* RwSpinlockAcquire(Exclusive = FALSE)                                    *)
(***************************************************************************)

ArriveReader(c) ==
  /\ Goto(c, "idle", "rSpin")
  /\ UNCHANGED <<WaitingWriters, ActiveWriter, ActiveReaders>>

\* Mutant: a compare-exchange over ActiveWriter alone, blind to WaitingWriters.
ClaimReader_IgnoresWaiting(c) ==
  /\ Goto(c, "rSpin", "rGot")
  /\ ActiveWriter = 0
  /\ ActiveWriter' = 1
  /\ UNCHANGED <<WaitingWriters, ActiveReaders>>

ClaimReader(c) ==
  /\ Goto(c, "rSpin", "rGot")
  /\ WaitingWriters = 0 /\ ActiveWriter = 0
  /\ ActiveWriter' = 1
  /\ UNCHANGED <<WaitingWriters, ActiveReaders>>

\* Mutant: the pseudo writer leaves ActiveWriter while it counts itself, so
\* the later decrement takes back a claim it no longer has.
CountReader_DropsClaim(c) ==
  /\ Goto(c, "rGot", "rCounted")
  /\ ActiveReaders' = Inc16(ActiveReaders)
  /\ ActiveWriter' = Dec16(ActiveWriter)
  /\ UNCHANGED WaitingWriters

CountReader(c) ==
  /\ Goto(c, "rGot", "rCounted")
  /\ ActiveReaders' = Inc16(ActiveReaders)
  /\ UNCHANGED <<WaitingWriters, ActiveWriter>>

\* Behind ASSERT(1 == ActiveWriter): see ActiveWriterAsserts.
ConfessReader(c) ==
  /\ Goto(c, "rCounted", "rHeld")
  /\ ActiveWriter' = Dec16(ActiveWriter)
  /\ UNCHANGED <<WaitingWriters, ActiveReaders>>

(***************************************************************************)
(* RwSpinlockRelease                                                       *)
(***************************************************************************)

ReleaseExclusive(c) ==
  /\ Goto(c, "wHeld", "idle")
  /\ ActiveWriter' = Dec16(ActiveWriter)
  /\ UNCHANGED <<WaitingWriters, ActiveReaders>>

ReleaseShared(c) ==
  /\ Goto(c, "rHeld", "idle")
  /\ ActiveReaders' = Dec16(ActiveReaders)
  /\ UNCHANGED <<WaitingWriters, ActiveWriter>>

-----------------------------------------------------------------------------
\* The steps of a CPU that is inside the lock code or its critical section.
Proceed(c) ==
  \/ ClaimWriter(c)
  \/ RetractWaiting(c)
  \/ ClaimReader(c)
  \/ CountReader(c)
  \/ ConfessReader(c)
  \/ ReleaseExclusive(c)
  \/ ReleaseShared(c)

Next == \E c \in CPUs : AnnounceWriter(c) \/ ArriveReader(c) \/ Proceed(c)

Spec == Init /\ [][Next]_vars

\* A CPU in the lock code runs with interrupts off and critical sections are
\* finite, so it keeps taking steps; nothing obliges it to ask for the lock.
Fairness == \A c \in CPUs : WF_vars(Proceed(c))
FairSpec == Spec /\ Fairness

-----------------------------------------------------------------------------
Word == 0 .. WordModulus - 1

\* The counters are WORDs and every CPU is at a location of the code.
TypeOK ==
  /\ WaitingWriters \in Word
  /\ ActiveWriter \in Word
  /\ ActiveReaders \in Word
  /\ pc \in [CPUs -> Locations]

\* A writer past its compare-exchange is alone: no other writer is past its
\* own and no reader is between its claim and its release.
WriterExclusion ==
  \A c, d \in CPUs :
    (c # d /\ pc[c] \in {"wGot", "wHeld"}) =>
       pc[d] \notin {"wGot", "wHeld", "rGot", "rCounted", "rHeld"}

\* The two ASSERT(1 == ActiveWriter) of rw_spinlock.c (lines 63 and 85) hold
\* whenever a CPU evaluates them, so the decrement that follows never wraps.
ActiveWriterAsserts ==
  \A c \in CPUs : pc[c] \in {"rCounted", "wHeld"} => ActiveWriter = 1

\* The CPUs whose location is in S.
At(S) == { c \in CPUs : pc[c] \in S }

\* What each word counts, instruction by instruction: the inductive core of
\* the exclusion.  A reader is counted twice, in ActiveWriter and in
\* ActiveReaders, between CountReader and ConfessReader.
CountersExact ==
  /\ WaitingWriters = Cardinality(At({"wSpin", "wGot"}))
  /\ ActiveReaders = Cardinality(At({"rCounted", "rHeld"}))
  /\ ActiveWriter = Cardinality(At({"wGot", "wHeld", "rGot", "rCounted"}))
  /\ ActiveWriter \in {0, 1}

\* Writers have priority over readers that come later: as long as some writer
\* waits, one of the waiting writers eventually gets in, whatever readers do.
WriterProgress ==
  (\E c \in CPUs : pc[c] = "wSpin") ~> (\E c \in CPUs : pc[c] = "wHeld")

=============================================================================

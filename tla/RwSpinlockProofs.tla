-------------------------- MODULE RwSpinlockProofs --------------------------
(***************************************************************************)
(* Exclusion of the reader-writer spinlock, for any number of CPUs that a  *)
(* WORD can count, and what is built on top of such a lock: the recursive  *)
(* lock, the ACPI semaphore and the table of network devices; then the     *)
(* linked lists, and packets on the device stacks.                         *)
(***************************************************************************)
EXTENDS RwSpinlock, Primitives, NetworkStack, DeviceStacks, LinkedList, DataFacts, FiniteSetTheorems, SequenceTheorems, TLAPS

\* A natural number below the modulus is a WORD.  (WordModulus is kept folded
\* where the interval is unfolded: the provers would enumerate 0 .. 65535.)
LEMMA FitsInWord == \A n \in Nat : n < WordModulus => n \in Word
<1>1. ASSUME NEW m \in Nat, NEW n \in Nat, n < m PROVE n \in 0 .. m - 1
  BY <1>1
<1>2. WordModulus \in Nat
  BY DEF WordModulus
<1> QED
  BY <1>1, <1>2 DEF Word

\* Interlocked increment and decrement of a WORD away from the wrap.
LEMMA IncBelowWrap ==
  ASSUME NEW w \in Nat, w < WordModulus - 1
  PROVE  Inc16(w) = w + 1
BY DEF Inc16, WordModulus

\* Decrementing a counter above zero does not wrap.
LEMMA DecAboveZero ==
  ASSUME NEW w \in Nat, 0 < w, w < WordModulus
  PROVE  Dec16(w) = w - 1
BY DEF Dec16, WordModulus

\* Sets of CPUs are finite and fit in a WORD.
LEMMA AtIsSmall ==
  ASSUME NEW S
  PROVE  /\ IsFiniteSet(At(S))
         /\ Cardinality(At(S)) \in Nat
         /\ Cardinality(At(S)) < WordModulus
<1>1. At(S) \subseteq CPUs
  BY DEF At
<1>2. IsFiniteSet(At(S)) /\ Cardinality(At(S)) <= Cardinality(CPUs)
  BY <1>1, CpusAssumption, FS_Subset
<1>3. Cardinality(At(S)) \in Nat /\ Cardinality(CPUs) \in Nat
  BY <1>2, CpusAssumption, FS_CardinalityType
<1> QED
  BY <1>2, <1>3, CpusAssumption DEF WordModulus

\* How a step of CPU c moves it between the sets the words count.
LEMMA Enters ==
  ASSUME NEW c \in CPUs, NEW from, NEW to, pc \in [CPUs -> Locations],
         Goto(c, from, to), NEW S, from \notin S, to \in S
  PROVE  Cardinality(At(S))' = Cardinality(At(S)) + 1
<1>1. At(S)' = At(S) \cup {c}
  BY DEF At, Goto
<1>2. c \notin At(S)
  BY DEF At, Goto
<1> QED
  BY <1>1, <1>2, AtIsSmall, FS_AddElement

\* A CPU leaves a set that a counter counts.
LEMMA Leaves ==
  ASSUME NEW c \in CPUs, NEW from, NEW to, pc \in [CPUs -> Locations],
         Goto(c, from, to), NEW S, from \in S, to \notin S
  PROVE  /\ Cardinality(At(S))' = Cardinality(At(S)) - 1
         /\ Cardinality(At(S)) > 0
<1>1. At(S)' = At(S) \ {c}
  BY DEF At, Goto
<1>2. c \in At(S)
  BY DEF At, Goto
<1>3. Cardinality(At(S)) > 0
  BY <1>2, AtIsSmall, FS_EmptySet
<1> QED
  BY <1>1, <1>2, <1>3, AtIsSmall, FS_RemoveElement

\* A CPU moves without changing what a counter counts.
LEMMA Stays ==
  ASSUME NEW c \in CPUs, NEW from, NEW to, pc \in [CPUs -> Locations],
         Goto(c, from, to), NEW S, from \in S <=> to \in S
  PROVE  Cardinality(At(S))' = Cardinality(At(S))
BY DEF At, Goto

-----------------------------------------------------------------------------
\* The inductive invariant: neither exclusion nor the counters are inductive
\* alone, because a claim is guarded by the words, not by who holds the lock.
IInv == TypeOK /\ CountersExact /\ WriterExclusion

\* The sets the three words count.
Waiting  == {"wSpin", "wGot"}
Counted  == {"rCounted", "rHeld"}
Claimed  == {"wGot", "wHeld", "rGot", "rCounted"}

\* The initial state satisfies the inductive invariant.
LEMMA InitIInv == Init => IInv
<1> SUFFICES ASSUME Init PROVE IInv
  OBVIOUS
<1>1. At(Waiting) = {} /\ At(Counted) = {} /\ At(Claimed) = {}
  BY DEF Init, At, Waiting, Counted, Claimed
<1>2. CountersExact
  BY <1>1, FS_EmptySet DEF Init, CountersExact, Waiting, Counted, Claimed
<1> QED
  BY <1>2 DEF Init, IInv, TypeOK, WriterExclusion, Locations, Word, WordModulus

\* Every instruction of the lock keeps the inductive invariant.
LEMMA StepIInv == IInv /\ [Next]_vars => IInv'
<1> SUFFICES ASSUME IInv, [Next]_vars PROVE IInv'
  OBVIOUS
<1> USE DEF IInv
<1>typ. pc \in [CPUs -> Locations]
  BY DEF TypeOK
<1>num. /\ WaitingWriters \in Nat /\ WaitingWriters < WordModulus
        /\ ActiveReaders \in Nat /\ ActiveReaders < WordModulus
        /\ ActiveWriter \in {0, 1}
        /\ WaitingWriters = Cardinality(At(Waiting))
        /\ ActiveReaders = Cardinality(At(Counted))
        /\ ActiveWriter = Cardinality(At(Claimed))
  BY AtIsSmall DEF CountersExact, Waiting, Counted, Claimed
<1>small. /\ Cardinality(At(Waiting))' < WordModulus
          /\ Cardinality(At(Counted))' < WordModulus
  <2>1. ASSUME NEW S PROVE Cardinality(At(S))' < WordModulus
    <3>1. At(S)' \subseteq CPUs
      BY DEF At
    <3>2. IsFiniteSet(At(S)') /\ Cardinality(At(S)') <= Cardinality(CPUs)
      BY <3>1, CpusAssumption, FS_Subset
    <3>3. Cardinality(At(S)') \in Nat /\ Cardinality(CPUs) \in Nat
      BY <3>2, CpusAssumption, FS_CardinalityType
    <3> QED
      BY <3>2, <3>3, CpusAssumption DEF WordModulus
  <2> QED
    BY <2>1
\* What remains to show once the words and the locations are known.
<1>fold. ASSUME pc' \in [CPUs -> Locations],
                WaitingWriters' = Cardinality(At(Waiting))',
                ActiveReaders' = Cardinality(At(Counted))',
                ActiveWriter' = Cardinality(At(Claimed))',
                ActiveWriter' \in {0, 1},
                WaitingWriters' \in Nat, ActiveReaders' \in Nat,
                WriterExclusion'
         PROVE  IInv'
  <2>1. WaitingWriters' < WordModulus /\ ActiveReaders' < WordModulus
    BY <1>fold, <1>small
  <2>2. TypeOK'
    <3>1. WaitingWriters' \in Word /\ ActiveReaders' \in Word
      BY <1>fold, <2>1, FitsInWord
    <3>2. ActiveWriter' \in Nat /\ ActiveWriter' < WordModulus
      BY <1>fold DEF WordModulus
    <3>3. ActiveWriter' \in Word
      BY <3>2, FitsInWord
    <3> QED
      BY <1>fold, <3>1, <3>3 DEF TypeOK
  <2>3. CountersExact'
    BY <1>fold DEF CountersExact, Waiting, Counted, Claimed
  <2> QED
    BY <1>fold, <2>2, <2>3
<1>1. ASSUME NEW c \in CPUs, AnnounceWriter(c) PROVE IInv'
  <2>1. Goto(c, "idle", "wSpin")
    BY <1>1 DEF AnnounceWriter
  <2>2. /\ Cardinality(At(Waiting))' = Cardinality(At(Waiting)) + 1
        /\ Cardinality(At(Counted))' = Cardinality(At(Counted))
        /\ Cardinality(At(Claimed))' = Cardinality(At(Claimed))
    BY <2>1, <1>typ, Enters, Stays DEF Waiting, Counted, Claimed
  <2>3. WaitingWriters' = WaitingWriters + 1
    BY <1>1, <1>num, <1>small, <2>2, IncBelowWrap DEF AnnounceWriter, WordModulus
  <2>4. WriterExclusion'
    BY <2>1, <1>typ DEF WriterExclusion, Goto
  <2> QED
    BY <1>1, <1>fold, <1>typ, <1>num, <2>1, <2>2, <2>3, <2>4
       DEF AnnounceWriter, Goto, Locations
<1>2. ASSUME NEW c \in CPUs, ClaimWriter(c) PROVE IInv'
  <2>1. Goto(c, "wSpin", "wGot")
    BY <1>2 DEF ClaimWriter
  <2>2. /\ Cardinality(At(Waiting))' = Cardinality(At(Waiting))
        /\ Cardinality(At(Counted))' = Cardinality(At(Counted))
        /\ Cardinality(At(Claimed))' = Cardinality(At(Claimed)) + 1
    BY <2>1, <1>typ, Enters, Stays DEF Waiting, Counted, Claimed
  <2>3. At(Counted) = {} /\ At(Claimed) = {}
    BY <1>2, <1>num, AtIsSmall, FS_EmptySet DEF ClaimWriter
  <2>4. WriterExclusion'
    BY <2>1, <2>3, <1>typ DEF WriterExclusion, Goto, At, Counted, Claimed
  <2> QED
    BY <1>2, <1>fold, <1>typ, <1>num, <2>1, <2>2, <2>4
       DEF ClaimWriter, Goto, Locations
<1>3. ASSUME NEW c \in CPUs, RetractWaiting(c) PROVE IInv'
  <2>1. Goto(c, "wGot", "wHeld")
    BY <1>3 DEF RetractWaiting
  <2>2. /\ Cardinality(At(Waiting))' = Cardinality(At(Waiting)) - 1
        /\ Cardinality(At(Waiting)) > 0
        /\ Cardinality(At(Counted))' = Cardinality(At(Counted))
        /\ Cardinality(At(Claimed))' = Cardinality(At(Claimed))
    BY <2>1, <1>typ, Leaves, Stays DEF Waiting, Counted, Claimed
  <2>3. WaitingWriters' = WaitingWriters - 1
    BY <1>3, <1>num, <2>2, DecAboveZero DEF RetractWaiting
  <2>4. WriterExclusion'
    BY <2>1, <1>typ DEF WriterExclusion, Goto
  <2> QED
    BY <1>3, <1>fold, <1>typ, <1>num, <2>1, <2>2, <2>3, <2>4
       DEF RetractWaiting, Goto, Locations
<1>4. ASSUME NEW c \in CPUs, ArriveReader(c) PROVE IInv'
  <2>1. Goto(c, "idle", "rSpin")
    BY <1>4 DEF ArriveReader
  <2>2. /\ Cardinality(At(Waiting))' = Cardinality(At(Waiting))
        /\ Cardinality(At(Counted))' = Cardinality(At(Counted))
        /\ Cardinality(At(Claimed))' = Cardinality(At(Claimed))
    BY <2>1, <1>typ, Stays DEF Waiting, Counted, Claimed
  <2>3. WriterExclusion'
    BY <2>1, <1>typ DEF WriterExclusion, Goto
  <2> QED
    BY <1>4, <1>fold, <1>typ, <1>num, <2>1, <2>2, <2>3
       DEF ArriveReader, Goto, Locations
<1>5. ASSUME NEW c \in CPUs, ClaimReader(c) PROVE IInv'
  <2>1. Goto(c, "rSpin", "rGot")
    BY <1>5 DEF ClaimReader
  <2>2. /\ Cardinality(At(Waiting))' = Cardinality(At(Waiting))
        /\ Cardinality(At(Counted))' = Cardinality(At(Counted))
        /\ Cardinality(At(Claimed))' = Cardinality(At(Claimed)) + 1
    BY <2>1, <1>typ, Enters, Stays DEF Waiting, Counted, Claimed
  <2>3. At(Claimed) = {}
    BY <1>5, <1>num, AtIsSmall, FS_EmptySet DEF ClaimReader
  <2>4. WriterExclusion'
    BY <2>1, <2>3, <1>typ DEF WriterExclusion, Goto, At, Claimed
  <2> QED
    BY <1>5, <1>fold, <1>typ, <1>num, <2>1, <2>2, <2>4
       DEF ClaimReader, Goto, Locations
<1>6. ASSUME NEW c \in CPUs, CountReader(c) PROVE IInv'
  <2>1. Goto(c, "rGot", "rCounted")
    BY <1>6 DEF CountReader
  <2>2. /\ Cardinality(At(Waiting))' = Cardinality(At(Waiting))
        /\ Cardinality(At(Counted))' = Cardinality(At(Counted)) + 1
        /\ Cardinality(At(Claimed))' = Cardinality(At(Claimed))
    BY <2>1, <1>typ, Enters, Stays DEF Waiting, Counted, Claimed
  <2>3. ActiveReaders' = ActiveReaders + 1
    BY <1>6, <1>num, <1>small, <2>2, IncBelowWrap DEF CountReader, WordModulus
  <2>4. WriterExclusion'
    BY <2>1, <1>typ DEF WriterExclusion, Goto
  <2> QED
    BY <1>6, <1>fold, <1>typ, <1>num, <2>1, <2>2, <2>3, <2>4
       DEF CountReader, Goto, Locations
<1>7. ASSUME NEW c \in CPUs, ConfessReader(c) PROVE IInv'
  <2>1. Goto(c, "rCounted", "rHeld")
    BY <1>7 DEF ConfessReader
  <2>2. /\ Cardinality(At(Waiting))' = Cardinality(At(Waiting))
        /\ Cardinality(At(Counted))' = Cardinality(At(Counted))
        /\ Cardinality(At(Claimed))' = Cardinality(At(Claimed)) - 1
        /\ Cardinality(At(Claimed)) > 0
    BY <2>1, <1>typ, Leaves, Stays DEF Waiting, Counted, Claimed
  <2>3. ActiveWriter = 1 /\ ActiveWriter' = 0
    BY <1>7, <1>num, <2>2, DecAboveZero DEF ConfessReader, WordModulus
  <2>4. WriterExclusion'
    BY <2>1, <1>typ DEF WriterExclusion, Goto
  <2> QED
    BY <1>7, <1>fold, <1>typ, <1>num, <2>1, <2>2, <2>3, <2>4
       DEF ConfessReader, Goto, Locations
<1>8. ASSUME NEW c \in CPUs, ReleaseExclusive(c) PROVE IInv'
  <2>1. Goto(c, "wHeld", "idle")
    BY <1>8 DEF ReleaseExclusive
  <2>2. /\ Cardinality(At(Waiting))' = Cardinality(At(Waiting))
        /\ Cardinality(At(Counted))' = Cardinality(At(Counted))
        /\ Cardinality(At(Claimed))' = Cardinality(At(Claimed)) - 1
        /\ Cardinality(At(Claimed)) > 0
    BY <2>1, <1>typ, Leaves, Stays DEF Waiting, Counted, Claimed
  <2>3. ActiveWriter = 1 /\ ActiveWriter' = 0
    BY <1>8, <1>num, <2>2, DecAboveZero DEF ReleaseExclusive, WordModulus
  <2>4. WriterExclusion'
    BY <2>1, <1>typ DEF WriterExclusion, Goto
  <2> QED
    BY <1>8, <1>fold, <1>typ, <1>num, <2>1, <2>2, <2>3, <2>4
       DEF ReleaseExclusive, Goto, Locations
<1>9. ASSUME NEW c \in CPUs, ReleaseShared(c) PROVE IInv'
  <2>1. Goto(c, "rHeld", "idle")
    BY <1>9 DEF ReleaseShared
  <2>2. /\ Cardinality(At(Waiting))' = Cardinality(At(Waiting))
        /\ Cardinality(At(Counted))' = Cardinality(At(Counted)) - 1
        /\ Cardinality(At(Counted)) > 0
        /\ Cardinality(At(Claimed))' = Cardinality(At(Claimed))
    BY <2>1, <1>typ, Leaves, Stays DEF Waiting, Counted, Claimed
  <2>3. ActiveReaders' = ActiveReaders - 1
    BY <1>9, <1>num, <2>2, DecAboveZero DEF ReleaseShared
  <2>4. WriterExclusion'
    BY <2>1, <1>typ DEF WriterExclusion, Goto
  <2> QED
    BY <1>9, <1>fold, <1>typ, <1>num, <2>1, <2>2, <2>3, <2>4
       DEF ReleaseShared, Goto, Locations
<1>10. CASE UNCHANGED vars
  BY <1>10 DEF vars, TypeOK, CountersExact, WriterExclusion, At
<1> QED
  BY <1>1, <1>2, <1>3, <1>4, <1>5, <1>6, <1>7, <1>8, <1>9, <1>10
     DEF Next, Proceed

\* The three words are WORDs and count exactly the CPUs they are meant to.
THEOREM TypeAndCounters == Spec => [](TypeOK /\ CountersExact)
<1>1. IInv => TypeOK /\ CountersExact
  BY DEF IInv
<1> QED
  BY InitIInv, StepIInv, <1>1, PTL DEF Spec

\* A writer holds the lock alone, for every number of CPUs.
THEOREM Exclusion == Spec => []WriterExclusion
<1>1. IInv => WriterExclusion
  BY DEF IInv
<1> QED
  BY InitIInv, StepIInv, <1>1, PTL DEF Spec

\* The ASSERTs on ActiveWriter never fire.
THEOREM AssertsHold == Spec => []ActiveWriterAsserts
<1>1. IInv => ActiveWriterAsserts
  <2> SUFFICES ASSUME IInv, NEW c \in CPUs, pc[c] \in {"rCounted", "wHeld"}
               PROVE  ActiveWriter = 1
    BY DEF ActiveWriterAsserts
  <2>1. c \in At({"wGot", "wHeld", "rGot", "rCounted"})
    BY DEF At
  <2>2. Cardinality(At({"wGot", "wHeld", "rGot", "rCounted"})) # 0
    BY <2>1, AtIsSmall, FS_EmptySet
  <2> QED
    BY <2>2 DEF IInv, CountersExact
<1> QED
  BY InitIInv, StepIInv, <1>1, PTL DEF Spec

(***************************************************************************)
(* ACPI semaphores and the recursive lock.                                 *)
(***************************************************************************)

PrimTypes ==
  /\ State \in {"signaled", "not signaled"}
  /\ semaphore \in [PrimCpus -> {"out", "retry", "wait", "in"}]
  /\ exclusive \subseteq PrimCpus /\ shared \subseteq PrimCpus
  /\ Holder \in PrimCpus \union {"NULL"}
  /\ CurrentRecursivityDepth \in Nat
  /\ nested \in [PrimCpus -> Nat]
  /\ recOp \in [PrimCpus -> {"none", "spin", "got", "gotShared", "drop"}]

\* The unit is with the event or with exactly one processor.
UnitSound ==
  /\ State = "signaled" => \A c \in PrimCpus : semaphore[c] # "in"
  /\ State # "signaled" => \E c \in PrimCpus : semaphore[c] = "in"
  /\ \A c, d \in PrimCpus : semaphore[c] = "in" /\ semaphore[d] = "in" => c = d

\* The holder is entered while its count is not zero.  Between the lock below
\* and the holder a processor has the first and is not yet, or no longer, the
\* second.
RecursionSound ==
  /\ ~primAssert
  /\ exclusive # {} => shared = {}
  /\ Holder = "NULL" => CurrentRecursivityDepth = 0
  /\ Holder # "NULL" => nested[Holder] > 0
  /\ \A c \in PrimCpus :
       /\ recOp[c] = "gotShared" => c \in shared
       /\ recOp[c] \in {"got", "drop"} =>
            exclusive = {c} /\ Holder = "NULL"
       /\ nested[c] > 0 =>
            /\ recOp[c] = "none" /\ exclusive = {c} /\ Holder = c
            /\ CurrentRecursivityDepth = nested[c]

PrimInv == PrimTypes /\ UnitSound /\ RecursionSound

\* The steps of a semaphore.
LEMMA SemaphoreSteps ==
  ASSUME PrimInv, NEW c \in PrimCpus,
         \/ AcpiOsWaitSemaphore(c) \/ WaitAfterTimeout(c) \/ EvtWaitForSignal(c)
         \/ AcpiOsSignalSemaphore(c)
  PROVE  PrimInv'
<1>1. UNCHANGED recVars
  BY DEF AcpiOsWaitSemaphore, WaitAfterTimeout, EvtWaitForSignal, AcpiOsSignalSemaphore
<1>2. RecursionSound'
  BY <1>1 DEF PrimInv, RecursionSound, recVars
<1>3. CASE AcpiOsSignalSemaphore(c)
  BY <1>1, <1>2, <1>3 DEF AcpiOsSignalSemaphore, PrimInv, PrimTypes, UnitSound, recVars
<1>4. CASE AcpiOsWaitSemaphore(c) \/ WaitAfterTimeout(c) \/ EvtWaitForSignal(c)
  <2>1. PICK no \in {"out", "retry", "wait"} : EvtIsSignaled(c, "in", no)
    BY <1>4 DEF AcpiOsWaitSemaphore, WaitAfterTimeout, EvtWaitForSignal
  <2>2. semaphore[c] # "in"
    BY <1>4 DEF AcpiOsWaitSemaphore, WaitAfterTimeout, EvtWaitForSignal
  <2>3. PrimTypes'
    BY <1>1, <2>1 DEF EvtIsSignaled, PrimInv, PrimTypes, recVars
  <2>4. UnitSound'
    BY <2>1, <2>2 DEF EvtIsSignaled, PrimInv, PrimTypes, UnitSound
  <2> QED
    BY <1>2, <2>3, <2>4 DEF PrimInv
<1> QED
  BY <1>3, <1>4

\* The steps of the recursive lock.
LEMMA RecursiveSteps ==
  ASSUME PrimInv, NEW c \in PrimCpus,
         \/ RecRwSpinlockAcquire(c) \/ SpinlockTaken(c) \/ BecomesHolder(c)
         \/ AcquireShared(c) \/ SharedAsserts(c) \/ RecReleaseShared(c)
         \/ RecRwSpinlockRelease(c) \/ SpinlockDropped(c)
  PROVE  PrimInv'
<1> USE DEF PrimInv
<1>1. UNCHANGED semaphoreVars
  BY DEF RecRwSpinlockAcquire, SpinlockTaken, BecomesHolder, AcquireShared, SharedAsserts,
         RecReleaseShared, RecRwSpinlockRelease, SpinlockDropped
<1>2. UnitSound'
  BY <1>1 DEF UnitSound, semaphoreVars
<1>n. /\ nested \in [PrimCpus -> Nat] /\ CurrentRecursivityDepth \in Nat
      /\ \A d \in PrimCpus : nested[d] \in Nat
  BY DEF PrimTypes
<1>p. \A d \in PrimCpus : nested[d] # 0 => nested[d] > 0
  BY <1>n
<1> USE DEF PrimGoto, semaphoreVars
<1>3. CASE RecRwSpinlockAcquire(c)
  <2>a. /\ recOp[c] = "none" /\ nested[c] < MaxRecursivityDepth
        /\ UNCHANGED <<State, semaphore, exclusive, shared, Holder>>
    BY <1>3 DEF RecRwSpinlockAcquire
  <2>b. MaxRecursivityDepth \in Nat /\ Holder \in PrimCpus \union {"NULL"} /\ c # "NULL"
    BY PrimAssumption DEF PrimTypes
  <2>1. CASE Holder = c
    <3>1. /\ nested[c] > 0 /\ exclusive = {c} /\ CurrentRecursivityDepth = nested[c]
      BY <2>1, <2>b DEF RecursionSound
    <3>2. /\ CurrentRecursivityDepth' = CurrentRecursivityDepth + 1
          /\ nested' = [nested EXCEPT ![c] = nested[c] + 1]
          /\ UNCHANGED recOp
          /\ primAssert' = (primAssert \/ CurrentRecursivityDepth >= MaxRecursivityDepth)
      BY <1>3, <2>1 DEF RecRwSpinlockAcquire
    <3>3. \A d \in PrimCpus \ {c} : nested[d] = 0
      <4>1. SUFFICES ASSUME NEW d \in PrimCpus \ {c}, nested[d] # 0 PROVE FALSE
        OBVIOUS
      <4>2. nested[d] > 0
        BY <1>p, <4>1
      <4> QED
        BY <2>1, <4>2 DEF RecursionSound
    <3>a. nested'[c] = nested[c] + 1 /\ \A d \in PrimCpus \ {c} : nested'[d] = 0
      BY <1>n, <3>2, <3>3
    <3>b. nested' \in [PrimCpus -> Nat] /\ CurrentRecursivityDepth' \in Nat
      BY <1>n, <3>2
    <3>4. PrimTypes'
      BY <2>a, <3>2, <3>b DEF PrimTypes
    <3>c. CurrentRecursivityDepth < MaxRecursivityDepth
      BY <2>a, <3>1
    <3>d. ~(CurrentRecursivityDepth >= MaxRecursivityDepth)
      BY <1>n, <2>b, <3>c
    <3>5. ~primAssert'
      BY <3>2, <3>d DEF RecursionSound
    <3>e. nested'[c] > 0 /\ CurrentRecursivityDepth' = nested'[c]
      BY <1>n, <3>1, <3>2, <3>a
    <3>f. \A d \in PrimCpus \ {c} : ~(nested'[d] > 0)
      BY <3>a
    <3>6. RecursionSound'
      BY <2>1, <2>a, <2>b, <3>1, <3>2, <3>5, <3>e, <3>f DEF RecursionSound
    <3> QED
      BY <1>2, <3>4, <3>6
  <2>2. CASE Holder # c
    <3>1. /\ recOp' = [recOp EXCEPT ![c] = "spin"]
          /\ UNCHANGED <<CurrentRecursivityDepth, primAssert, nested>>
      BY <1>3, <2>2 DEF RecRwSpinlockAcquire
    <3>2. PrimTypes'
      BY <2>a, <3>1 DEF PrimTypes
    <3>3. RecursionSound'
      BY <2>2, <2>a, <3>1 DEF RecursionSound
    <3> QED
      BY <1>2, <3>2, <3>3
  <2> QED
    BY <2>1, <2>2
<1>4. CASE SpinlockTaken(c)
  BY <1>1, <1>2, <1>4 DEF SpinlockTaken, PrimTypes, RecursionSound
<1>5. CASE BecomesHolder(c)
  <2>1. PrimTypes'
    BY <1>1, <1>5 DEF BecomesHolder, PrimTypes
  <2>a. /\ recOp[c] = "got" /\ recOp' = [recOp EXCEPT ![c] = "none"]
        /\ CurrentRecursivityDepth' = 1 /\ Holder' = c /\ nested' = [nested EXCEPT ![c] = 1]
        /\ UNCHANGED <<exclusive, shared>>
        /\ primAssert' = (primAssert \/ Holder # "NULL" \/ CurrentRecursivityDepth # 0)
    BY <1>5 DEF BecomesHolder
  <2>b. exclusive = {c} /\ Holder = "NULL" /\ CurrentRecursivityDepth = 0
    BY <2>a DEF RecursionSound
  <2>c. c # "NULL"
    BY PrimAssumption
  <2>d. \A d \in PrimCpus : nested[d] = 0
    <3>1. SUFFICES ASSUME NEW d \in PrimCpus, nested[d] # 0 PROVE FALSE
      OBVIOUS
    <3>2. nested[d] > 0
      BY <1>p, <3>1
    <3> QED
      BY <2>b, <3>2, PrimAssumption DEF RecursionSound
  <2>e. nested'[c] = 1 /\ \A d \in PrimCpus \ {c} : ~(nested'[d] > 0)
    BY <1>n, <2>a, <2>d
  <2>f. recOp'[c] = "none" /\ \A d \in PrimCpus \ {c} : recOp'[d] = recOp[d] /\ recOp[d] \notin {"got", "drop"}
    BY <2>a, <2>b DEF PrimTypes, RecursionSound
  <2>g. ~primAssert'
    BY <2>a, <2>b DEF RecursionSound
  <2>2. RecursionSound'
    BY <2>a, <2>b, <2>c, <2>e, <2>f, <2>g DEF RecursionSound
  <2> QED
    BY <1>2, <2>1, <2>2
<1>6. CASE AcquireShared(c)
  BY <1>1, <1>2, <1>6 DEF AcquireShared, PrimTypes, RecursionSound
<1>7. CASE SharedAsserts(c)
  BY <1>1, <1>2, <1>7 DEF SharedAsserts, PrimTypes, RecursionSound
<1>8. CASE RecReleaseShared(c)
  BY <1>1, <1>2, <1>8 DEF RecReleaseShared, PrimTypes, RecursionSound
<1>9. CASE RecRwSpinlockRelease(c)
  <2>a. /\ recOp[c] = "none" /\ nested[c] > 0
        /\ CurrentRecursivityDepth' = CurrentRecursivityDepth - 1
        /\ nested' = [nested EXCEPT ![c] = nested[c] - 1]
        /\ primAssert' = (primAssert \/ Holder # c)
        /\ UNCHANGED <<State, semaphore, exclusive, shared>>
    BY <1>9 DEF RecRwSpinlockRelease
  <2>1. Holder = c /\ CurrentRecursivityDepth = nested[c] /\ exclusive = {c} /\ shared = {}
    BY <2>a DEF RecursionSound
  <2>2. \A d \in PrimCpus \ {c} : nested[d] = 0 /\ recOp[d] \notin {"got", "drop"}
    <3>1. ASSUME NEW d \in PrimCpus \ {c} PROVE recOp[d] \notin {"got", "drop"}
      BY <2>1 DEF RecursionSound
    <3>2. ASSUME NEW d \in PrimCpus \ {c}, nested[d] # 0 PROVE FALSE
      <4>1. nested[d] > 0
        BY <1>p, <3>2
      <4> QED
        BY <2>1, <4>1 DEF RecursionSound
    <3> QED
      BY <3>1, <3>2
  <2>3. ~primAssert'
    BY <2>1, <2>a DEF RecursionSound
  <2>4. CurrentRecursivityDepth' \in Nat /\ nested' \in [PrimCpus -> Nat]
    BY <1>n, <2>a, <2>1
  <2>n. nested'[c] = nested[c] - 1 /\ \A d \in PrimCpus \ {c} : nested'[d] = 0
    BY <1>n, <2>2, <2>a
  <2>m. \A d \in PrimCpus \ {c} : ~(nested'[d] > 0)
    BY <2>n
  <2>5. CASE CurrentRecursivityDepth' = 0
    <3>1. Holder' = "NULL" /\ recOp' = [recOp EXCEPT ![c] = "drop"] /\ nested'[c] = 0
      BY <1>9, <2>5, <2>1, <2>a, <2>n DEF RecRwSpinlockRelease
    <3>2. PrimTypes'
      BY <2>4, <2>a, <3>1 DEF PrimTypes
    <3>3. \A d \in PrimCpus : ~(nested'[d] > 0)
      BY <2>n, <3>1
    <3>4. RecursionSound'
      BY <2>1, <2>2, <2>3, <2>5, <2>a, <3>1, <3>3 DEF RecursionSound
    <3> QED
      BY <1>2, <3>2, <3>4
  <2>6. CASE CurrentRecursivityDepth' # 0
    <3>1. UNCHANGED <<Holder, recOp>>
      BY <1>9, <2>6 DEF RecRwSpinlockRelease
    <3>2. PrimTypes'
      BY <2>4, <2>a, <3>1 DEF PrimTypes
    <3>a. nested'[c] = CurrentRecursivityDepth'
      BY <2>1, <2>a, <2>n
    <3>b. nested'[c] > 0
      BY <2>4, <2>6, <3>a
    <3>5. RecursionSound'
      BY <2>1, <2>2, <2>3, <2>6, <2>a, <2>m, <3>1, <3>a, <3>b, PrimAssumption DEF RecursionSound
    <3> QED
      BY <1>2, <3>2, <3>5
  <2> QED
    BY <2>5, <2>6
<1>10. CASE SpinlockDropped(c)
  <2>1. /\ recOp[c] = "drop" /\ exclusive' = exclusive \ {c}
        /\ UNCHANGED <<shared, Holder, CurrentRecursivityDepth, nested, primAssert>>
    BY <1>10 DEF SpinlockDropped
  <2>2. recOp' \in [PrimCpus -> {"none", "spin", "got", "gotShared", "drop"}]
        /\ recOp'[c] = "none" /\ \A d \in PrimCpus \ {c} : recOp'[d] = recOp[d]
    BY <1>1, <1>10 DEF SpinlockDropped, PrimTypes
  <2>3. exclusive = {c} /\ Holder = "NULL" /\ nested[c] \in Nat /\ ~(nested[c] > 0)
    BY <2>1 DEF RecursionSound, PrimTypes
  <2>4. PrimTypes'
    BY <1>1, <2>1, <2>2 DEF PrimTypes
  <2>5. RecursionSound'
    BY <2>1, <2>2, <2>3 DEF RecursionSound, PrimTypes
  <2> QED
    BY <1>2, <2>4, <2>5
<1> QED
  BY <1>3, <1>4, <1>5, <1>6, <1>7, <1>8, <1>9, <1>10

\* A unit of an ACPI semaphore (AcpiOsWaitSemaphore, AcpiOsSignalSemaphore) is
\* neither lost nor doubled, and the recursion count of RecRwSpinlockAcquire
\* and RecRwSpinlockRelease belongs to the one processor that has the lock,
\* for any number of processors and any depth.
THEOREM PrimitivesSafe == PrimInit /\ [][PrimNext]_primVars => []PrimitivesSound
<1>1. PrimInit => PrimInv
  BY PrimAssumption DEF PrimInit, PrimInv, PrimTypes, UnitSound, RecursionSound
<1>2. PrimInv /\ [PrimNext]_primVars => PrimInv'
  <2>1. ASSUME PrimInv, UNCHANGED primVars PROVE PrimInv'
    BY <2>1 DEF primVars, semaphoreVars, recVars, PrimInv, PrimTypes, UnitSound, RecursionSound
  <2> QED
    BY <2>1, SemaphoreSteps, RecursiveSteps DEF PrimNext
<1>3. ASSUME PrimInv PROVE PrimitivesSound
  <2> DEFINE in == {c \in PrimCpus : semaphore[c] = "in"}
  <2>1. CASE State = "signaled"
    <3>1. in = {}
      BY <1>3, <2>1 DEF PrimInv, UnitSound
    <3> QED
      BY <1>3, <2>1, <3>1, FS_EmptySet DEF PrimitivesSound, SemaphoreKeepsUnit, PrimInv,
                                           RecursionSound, RecursionExact
  <2>2. CASE State # "signaled"
    <3>1. PICK c \in PrimCpus : semaphore[c] = "in"
      BY <1>3, <2>2 DEF PrimInv, UnitSound
    <3>2. in = {c}
      BY <1>3, <3>1 DEF PrimInv, UnitSound
    <3>3. Cardinality(in) = 1
      BY <3>2, FS_Singleton
    <3>4. SemaphoreKeepsUnit
      BY <2>2, <3>3 DEF SemaphoreKeepsUnit
    <3>5. RecursionExact
      BY <1>3 DEF PrimInv, RecursionSound, RecursionExact
    <3> QED
      BY <3>4, <3>5 DEF PrimitivesSound
  <2> QED
    BY <2>1, <2>2
<1> QED
  BY <1>1, <1>2, <1>3, PTL

(***************************************************************************)
(* The devices of the network stack, whose table is read and written under *)
(* such a lock taken shared (DeviceLock): by several listings at a time.   *)
(***************************************************************************)

\* No card of this machine fails at the last stage, where the code frees the
\* miniport twice.
NeverAtTheLastStage == \A s \in DOMAIN failAt : failAt[s] # Len(Stages)

Directions == [rx : BOOLEAN, tx : BOOLEAN]
Card == [holds : SUBSET Acquired(Configured), status : Directions, regs : Directions, LinkUp : BOOLEAN]
Entry == [DeviceId : Nat, PhysicalDevice : Nat, PhysicalAddress : Range(Slots),
          DeviceStatus : Directions, LinkStatus : BOOLEAN]
Reports == [status : SUBSET Directions, link : SUBSET BOOLEAN]
Listing == [pc : {"idle", "status", "link", "copy"}, at : Nat \ {0}, out : Seq(Entry), window : Seq(Reports)]

StackTypes ==
  /\ failAt \in FailAt /\ NeverAtTheLastStage
  /\ portDriver \in {"none", "installed", "freed"}
  /\ port \in Seq(Card) /\ Len(port) <= Len(Slots)
  /\ portDriver # "none" => Len(port) = Len(Slots)
  /\ NetworkDeviceList \in Seq(Entry)
  /\ NetworkingEnabled \in BOOLEAN
  /\ lister \in [Stackers -> Listing]

\* The table is filled once, from the cards that work.
TableInv ==
  /\ NumberOfDevices = Len(NetworkDeviceList)
  /\ Booted =>
       /\ portDriver # "none"
       /\ Len(NetworkDeviceList) = Len(NetworkDevices)
       /\ \A i \in DOMAIN NetworkDeviceList :
            /\ NetworkDeviceList[i].PhysicalDevice = NetworkDevices[i]
            /\ NetworkDeviceList[i].DeviceId = i - 1

\* What has been asked of the device at hand, or copied, is in the window.
StatusSeen(l, d) == d.DeviceStatus \in l.window[d.PhysicalDevice].status
LinkSeen(l, d) == d.LinkStatus \in l.window[d.PhysicalDevice].link

WindowOpen(l) ==
  /\ Booted /\ Len(l.window) = Len(port)
  /\ \A s \in DOMAIN port : port[s].status \in l.window[s].status /\ port[s].LinkUp \in l.window[s].link
ListingInv ==
  \A t \in Stackers : LET l == lister[t] IN
    IF l.pc = "idle" THEN l = NoCall
    ELSE /\ WindowOpen(l)
         /\ \A i \in DOMAIN l.out :
              l.out[i].PhysicalDevice \in DOMAIN port /\ StatusSeen(l, l.out[i]) /\ LinkSeen(l, l.out[i])
         /\ l.pc \in {"link", "copy"} =>
              l.at \in DOMAIN NetworkDeviceList /\ StatusSeen(l, NetworkDeviceList[l.at])
         /\ l.pc = "copy" => LinkSeen(l, NetworkDeviceList[l.at])

StackInv == StackTypes /\ TableInv /\ ListingInv /\ ConfigurationSound /\ ReceiverFollowsStatus

\* IoGetDevicesByType goes through the list in order: each member of a set of
\* numbers is in InOrder once.
LEMMA InOrderWithin ==
  ASSUME NEW n \in Nat, NEW S \in SUBSET (1 .. n)
  PROVE  InOrder(S) \in Seq(S) /\ Len(InOrder(S)) = Cardinality(S)
<1> DEFINE Upto(m) == {r \in S : r <= m}
<1>0. \A r \in S : r \in Nat /\ r >= 1 /\ r <= n
  OBVIOUS
<1>1. IsFiniteSet(S) /\ Cardinality(S) \in Nat
  <2>1. IsFiniteSet(1 .. n)
    BY FS_Interval, 1 \in Int
  <2> QED
    BY <2>1, FS_Subset, FS_CardinalityType
<1>2. \A m \in Nat : IsFiniteSet(Upto(m)) /\ Cardinality(Upto(m)) \in Nat
  <2>1. \A m \in Nat : Upto(m) \in SUBSET S
    OBVIOUS
  <2> QED
    BY <1>1, <2>1, FS_Subset, FS_CardinalityType
<1>3. ASSUME NEW i \in 1 .. Cardinality(S) PROVE \E s \in S : Cardinality(Upto(s)) = i
  <2> DEFINE Enough == {m \in Nat : Cardinality(Upto(m)) >= i}
             m == Min(Enough)
  <2>1. n \in Enough
    <3>1. Upto(n) = S
      BY <1>0
    <3> QED
      BY <3>1, <1>1
  <2>2. m \in Nat /\ Cardinality(Upto(m)) >= i /\ \A y \in Nat : Cardinality(Upto(y)) >= i => m <= y
    <3>1. Enough \in SUBSET Nat /\ Enough # {}
      BY <2>1
    <3>2. m \in Enough /\ \A y \in Enough : m <= y
      BY <3>1, MinIsLeast
    <3> QED
      BY <3>2
  <2> HIDE DEF m
  <2>3. m # 0
    <3>1. \A r \in S : ~(r <= 0)
      BY <1>0
    <3>2. Upto(0) = {}
      BY <3>1
    <3> QED
      BY <3>2, <2>2, FS_EmptySet
  <2>4. m - 1 \in Nat /\ Cardinality(Upto(m - 1)) \in Nat /\ Cardinality(Upto(m - 1)) < i
    <3>1. m - 1 \in Nat /\ ~(m <= m - 1)
      BY <2>2, <2>3
    <3>2. ~(Cardinality(Upto(m - 1)) >= i) /\ Cardinality(Upto(m - 1)) \in Nat
      BY <3>1, <2>2, <1>2
    <3> QED
      BY <3>1, <3>2
  <2>5. \A r \in S : r # m => (r <= m <=> r <= m - 1)
    BY <2>2, <1>0
  <2>6. m \in S
    <3>1. m \notin S => Upto(m) = Upto(m - 1)
      BY <2>5
    <3> HIDE DEF Upto
    <3> QED
      BY <3>1, <2>2, <2>4
  <2>7. Cardinality(Upto(m)) = Cardinality(Upto(m - 1)) + 1
    <3>1. m <= m /\ ~(m <= m - 1)
      BY <2>2
    <3>2. Upto(m) = Upto(m - 1) \cup {m} /\ m \notin Upto(m - 1)
      BY <2>5, <2>6, <3>1
    <3>3. IsFiniteSet(Upto(m - 1))
      BY <1>2, <2>4
    <3> HIDE DEF Upto
    <3> QED
      BY <3>2, <3>3, FS_AddElement
  <2> HIDE DEF Upto
  <2>8. Cardinality(Upto(m)) = i
    BY <2>2, <2>4, <2>7
  <2> QED
    BY <2>6, <2>8
<1>4. \A i \in 1 .. Cardinality(S) : InOrder(S)[i] \in S
  BY <1>3 DEF InOrder
<1>5. InOrder(S) \in [1 .. Cardinality(S) -> S]
  BY <1>4 DEF InOrder
<1> QED
  BY <1>1, <1>5

\* IoGetDevicesByType returns cards of the bus.
LEMMA DevicesAreCards ==
  NetworkDevices \in Seq(DOMAIN Slots)
<1>1. DOMAIN Slots = 1 .. Len(Slots) /\ Len(Slots) \in Nat
  BY StackAssumption
<1>2. WorkingCards \in SUBSET (1 .. Len(Slots))
  BY <1>1 DEF WorkingCards
<1>3. InOrder(WorkingCards) \in Seq(WorkingCards)
  BY <1>1, <1>2, InOrderWithin
<1>4. WorkingCards \subseteq DOMAIN Slots
  BY DEF WorkingCards
<1>5. InOrder(WorkingCards) \in Seq(DOMAIN Slots)
  BY <1>3, <1>4
<1>6. <<>> \in Seq(DOMAIN Slots)
  OBVIOUS
<1> QED
  BY <1>5, <1>6, Zenon DEF NetworkDevices


\* A card that fails before the last stage gives back everything but its
\* rings, nothing of it twice; one that works keeps all.
LEMMA CleanedUp ==
  ASSUME NEW f \in 1 .. Configured, f # Len(Stages)
  PROVE  /\ Acquired(f) \ Frees(f) \in SUBSET Acquired(Configured)
         /\ f # Configured => DeviceUninitFrees(f) = {}
         /\ f = Configured => Acquired(f) \ Frees(f) = Acquired(Configured)
         /\ f # Configured => Acquired(f) \ Frees(f) \subseteq {<<way, "ring">> : way \in {"rx", "tx"}}
<1>1. Len(Stages) = 6 /\ Configured = 7
  BY DEF Stages, Configured
<1>2. \A i \in 1 .. f - 1 : i \in 1 .. 6
  BY <1>1
<1>3. Acquired(f) \subseteq Acquired(Configured)
  BY <1>1, <1>2 DEF Acquired
<1>4. ASSUME f # Configured, NEW x \in Acquired(f), x \notin Frees(f)
      PROVE  x \in {<<way, "ring">> : way \in {"rx", "tx"}}
  <2>1. PICK i \in 1 .. 4 : x \in Stages[i]
    BY <1>1, <1>4 DEF Acquired
  <2>2. x \in Stages[1] \/ x \in Stages[2] \/ x \in Stages[3] \/ x \in Stages[4]
    BY <2>1
  <2>3. x \notin ErrorPathFrees(f)
    BY <1>4 DEF Frees
  <2>4. /\ x \notin Own({"device", "miniport", "extension"})
        /\ x \notin {<<way, what>> : way \in {"rx", "tx"}, what \in {"array", "buffers"}}
    BY <2>3, <1>4 DEF ErrorPathFrees
  <2>5. /\ Stages[1] = Own({"device"}) /\ Stages[2] = Own({"miniport", "extension"})
        /\ Stages[3] = MiniportBuffers("rx") /\ Stages[4] = MiniportBuffers("tx")
    BY DEF Stages
  <2>6. x \notin Stages[1] /\ x \notin Stages[2]
    BY <2>4, <2>5 DEF Own
  <2>7. x \in MiniportBuffers("rx") \/ x \in MiniportBuffers("tx")
    BY <2>2, <2>5, <2>6
  <2> QED
    BY <2>7, <2>4 DEF MiniportBuffers
<1>5. f # Configured => DeviceUninitFrees(f) = {}
  BY DEF DeviceUninitFrees
<1>6. f = Configured => Frees(f) = {}
  BY DEF Frees
<1> QED
  BY <1>3, <1>4, <1>5, <1>6

\* The table names cards that were tried, one entry for each that works.
LEMMA TableNamesCards ==
  StackTypes /\ TableInv =>
    /\ \A i \in DOMAIN NetworkDeviceList : NetworkDeviceList[i].PhysicalDevice \in DOMAIN port
    /\ NetworkDeviceList # <<>> => Booted
    /\ Booted => DOMAIN port = DOMAIN Slots /\ Len(port) = Len(Slots)
<1> SUFFICES ASSUME StackTypes, TableInv
    PROVE  /\ \A i \in DOMAIN NetworkDeviceList : NetworkDeviceList[i].PhysicalDevice \in DOMAIN port
           /\ NetworkDeviceList # <<>> => Booted
           /\ Booted => DOMAIN port = DOMAIN Slots /\ Len(port) = Len(Slots)
  OBVIOUS
<1>1. /\ DOMAIN Slots = 1 .. Len(Slots)
      /\ DOMAIN port = 1 .. Len(port)
      /\ Len(NetworkDeviceList) \in Nat
      /\ DOMAIN NetworkDeviceList = 1 .. Len(NetworkDeviceList)
      /\ NetworkDeviceList # <<>> => Len(NetworkDeviceList) > 0
  BY StackAssumption DEF StackTypes
<1>2. NetworkDeviceList # <<>> => Booted
  BY <1>1 DEF TableInv, Booted
<1>3. Booted => DOMAIN port = DOMAIN Slots /\ Len(port) = Len(Slots)
  BY <1>1 DEF TableInv, StackTypes
<1>4. ASSUME NEW i \in DOMAIN NetworkDeviceList
      PROVE  NetworkDeviceList[i].PhysicalDevice \in DOMAIN port
  <2>1. Booted
    BY <1>1, <1>2, <1>4 DEF TableInv, Booted
  <2>2. /\ NetworkDeviceList[i].PhysicalDevice = NetworkDevices[i]
        /\ Len(NetworkDevices) = Len(NetworkDeviceList)
    BY <2>1, <1>4 DEF TableInv
  <2>3. NetworkDevices[i] \in DOMAIN Slots
    BY <2>2, <1>1, <1>4, DevicesAreCards
  <2> QED
    BY <1>3, <2>1, <2>2, <2>3
<1> QED
  BY <1>2, <1>3, <1>4

\* NetOpGetDeviceById returns entries of the table, and the one whose
\* identifier it is given.
LEMMA FoundById ==
  StackTypes /\ TableInv =>
    /\ \A id : \A d \in NetOpGetDeviceById(id) : \E i \in DOMAIN NetworkDeviceList : d = NetworkDeviceList[i]
    /\ Booted => \A i \in DOMAIN NetworkDeviceList :
                   NetOpGetDeviceById(NetworkDeviceList[i].DeviceId) = {NetworkDeviceList[i]}
<1> SUFFICES ASSUME StackTypes, TableInv
    PROVE  /\ \A id : \A d \in NetOpGetDeviceById(id) : \E i \in DOMAIN NetworkDeviceList : d = NetworkDeviceList[i]
           /\ Booted => \A i \in DOMAIN NetworkDeviceList :
                   NetOpGetDeviceById(NetworkDeviceList[i].DeviceId) = {NetworkDeviceList[i]}
  OBVIOUS
<1> DEFINE Hits(id) == {i \in 1 .. Len(NetworkDeviceList) : NetworkDeviceList[i].DeviceId = id}
<1>1. Len(NetworkDeviceList) \in Nat /\ DOMAIN NetworkDeviceList = 1 .. Len(NetworkDeviceList)
  BY DEF StackTypes
<1>2. \A id : NetOpGetDeviceById(id) = IF Hits(id) = {} THEN {} ELSE {NetworkDeviceList[Min(Hits(id))]}
  <2> SUFFICES ASSUME NEW id
      PROVE  NetOpGetDeviceById(id) = IF Hits(id) = {} THEN {} ELSE {NetworkDeviceList[Min(Hits(id))]}
    OBVIOUS
  <2>1. Hits(id) # {} => Min(Hits(id)) \in Hits(id)
    <3>1. Hits(id) \in SUBSET Nat
      BY <1>1
    <3> QED
      BY <3>1, MinIsLeast
  <2>2. Hits(id) # {} => Min(Hits(id)) # 0
    BY <2>1
  <2> QED
    BY <2>2 DEF NetOpGetDeviceById, SelectInSeq
<1>3. \A id : Hits(id) # {} => Min(Hits(id)) \in Hits(id)
  <2>1. \A id : Hits(id) \in SUBSET Nat
    BY <1>1
  <2> QED
    BY <2>1, MinIsLeast
<1>4. ASSUME NEW id, NEW d \in NetOpGetDeviceById(id)
      PROVE  \E i \in DOMAIN NetworkDeviceList : d = NetworkDeviceList[i]
  <2>1. Hits(id) # {} /\ d = NetworkDeviceList[Min(Hits(id))]
    BY <1>2, <1>4
  <2>2. Min(Hits(id)) \in DOMAIN NetworkDeviceList
    BY <2>1, <1>3, <1>1
  <2> QED
    BY <2>1, <2>2
<1>5. ASSUME Booted, NEW i \in DOMAIN NetworkDeviceList
      PROVE  NetOpGetDeviceById(NetworkDeviceList[i].DeviceId) = {NetworkDeviceList[i]}
  <2> DEFINE id == NetworkDeviceList[i].DeviceId
  <2>1. \A j \in DOMAIN NetworkDeviceList : NetworkDeviceList[j].DeviceId = j - 1
    BY <1>5 DEF TableInv
  <2>2. Hits(id) = {i}
    BY <2>1, <1>1, <1>5
  <2>3. Min(Hits(id)) = i
    BY <1>3, <2>2
  <2> QED
    BY <1>2, <2>2, <2>3
<1> QED
  BY <1>4, <1>5

\* The invariant says what NetworkStackSound says.
LEMMA StackInvSound == StackInv => NetworkStackSound
<1> SUFFICES ASSUME StackInv PROVE NetworkStackSound
  OBVIOUS
<1>1. /\ Len(NetworkDeviceList) \in Nat /\ DOMAIN NetworkDeviceList = 1 .. Len(NetworkDeviceList)
      /\ DOMAIN NetworkDevices = 1 .. Len(NetworkDevices)
      /\ \A i \in DOMAIN NetworkDevices : NetworkDevices[i] \in DOMAIN Slots
  BY DevicesAreCards DEF StackInv, StackTypes
<1>2. ASSUME Booted PROVE [i \in DOMAIN NetworkDeviceList |-> NetworkDeviceList[i].PhysicalDevice] = NetworkDevices
  <2>1. /\ DOMAIN NetworkDevices = DOMAIN NetworkDeviceList
        /\ \A i \in DOMAIN NetworkDeviceList : NetworkDeviceList[i].PhysicalDevice = NetworkDevices[i]
    BY <1>1, <1>2 DEF StackInv, TableInv
  <2>2. NetworkDevices = [i \in DOMAIN NetworkDevices |-> NetworkDevices[i]]
    BY DevicesAreCards
  <2> QED
    BY <2>1, <2>2
<1>3. TableExact
  BY <1>2, FoundById DEF TableExact, StackInv, TableInv
<1>4. ListingsCurrent
  <2> SUFFICES ASSUME NEW t \in Stackers, NEW i \in DOMAIN lister[t].out
      PROVE  StatusSeen(lister[t], lister[t].out[i]) /\ LinkSeen(lister[t], lister[t].out[i])
    BY DEF ListingsCurrent, StatusSeen, LinkSeen
  <2>1. lister[t].pc # "idle"
    BY DEF StackInv, ListingInv, NoCall
  <2> QED
    BY <2>1 DEF StackInv, ListingInv
<1> QED
  BY <1>3, <1>4 DEF StackInv, NetworkStackSound

LEMMA InitStackInv == StackInit /\ NeverAtTheLastStage => StackInv
<1> SUFFICES ASSUME StackInit, NeverAtTheLastStage PROVE StackInv
  OBVIOUS
<1>1. NoCall \in Listing
  BY DEF NoCall, Listing
<1>2. StackTypes
  BY <1>1, StackAssumption DEF StackInit, StackTypes
<1>3. TableInv
  BY DEF StackInit, TableInv, Booted
<1>4. ListingInv
  BY DEF StackInit, ListingInv, NoCall
<1> QED
  BY <1>2, <1>3, <1>4 DEF StackInv, StackInit, ConfigurationSound, ReceiverFollowsStatus

\* The devices of an installed driver stay the same.
LEMMA DevicesStay ==
  UNCHANGED <<failAt, portDriver>> => NetworkDevices' = NetworkDevices
BY DEF NetworkDevices, WorkingCards, Works

LEMMA CardRegistered == StackInv /\ RegisterNextCard => StackInv'
<1> SUFFICES ASSUME StackInv, RegisterNextCard PROVE StackInv'
  OBVIOUS
<1> DEFINE s == Len(port) + 1
           f == failAt[s]
           card == EthStarted(Acquired(f) \ Frees(f))
<1>1. /\ portDriver = "none" /\ s <= Len(Slots)
      /\ NetworkPortConfigureDevice(s, f)
      /\ UNCHANGED <<failAt, portDriver, NetworkDeviceList, NumberOfDevices, NetworkingEnabled, lister, switches>>
  BY DEF RegisterNextCard
<1>2. /\ Len(port) \in Nat /\ DOMAIN port = 1 .. Len(port) /\ port \in Seq(Card)
      /\ s \in DOMAIN Slots /\ Len(Slots) \in Nat
  BY <1>1, StackAssumption DEF StackInv, StackTypes
<1>3. f \in 1 .. Configured /\ f # Len(Stages)
  BY <1>2, StackAssumption DEF StackInv, StackTypes, NeverAtTheLastStage
<1>4. card \in Card /\ card.holds = Acquired(f) \ Frees(f) /\ card.regs.rx = card.status.rx
  BY <1>3, CleanedUp DEF EthStarted, Card, Directions
<1> HIDE DEF card
<1>5. port' = Append(port, card)
  BY <1>1 DEF NetworkPortConfigureDevice, card
<1>6. /\ port' \in Seq(Card) /\ Len(port') = s /\ DOMAIN port' = 1 .. s
      /\ port'[s] = card
      /\ \A r \in DOMAIN port : port'[r] = port[r]
  BY <1>2, <1>4, <1>5
<1>7. freedTwice' = {}
  BY <1>1, <1>3, CleanedUp DEF NetworkPortConfigureDevice, StackInv, ConfigurationSound
<1>8. ~Booted
  BY <1>1 DEF StackInv, TableInv
<1>9. StackTypes'
  BY <1>1, <1>6 DEF StackInv, StackTypes, NeverAtTheLastStage
<1>10. TableInv'
  BY <1>1, <1>8 DEF StackInv, TableInv, Booted
<1>11. ListingInv'
  <2>1. \A t \in Stackers : lister[t] = NoCall
    BY <1>8 DEF StackInv, ListingInv, WindowOpen
  <2> QED
    BY <2>1, <1>1 DEF ListingInv, NoCall
<1>12. ConfigurationSound'
  <2>1. \A r \in DOMAIN port' : r = s \/ r \in DOMAIN port
    BY <1>2, <1>6
  <2>2. \A r : Works(r)' = Works(r)
    BY <1>1 DEF Works
  <2>3. IF Works(s) THEN card.holds = Acquired(Configured)
        ELSE card.holds \subseteq {<<way, "ring">> : way \in {"rx", "tx"}}
    BY <1>3, <1>4, CleanedUp DEF Works
  <2> QED
    BY <1>6, <1>7, <2>1, <2>2, <2>3 DEF ConfigurationSound, StackInv
<1>13. ReceiverFollowsStatus'
  <2>1. \A r \in DOMAIN port' : r = s \/ r \in DOMAIN port
    BY <1>2, <1>6
  <2> QED
    BY <1>4, <1>6, <2>1 DEF ReceiverFollowsStatus, StackInv
<1> QED
  BY <1>9, <1>10, <1>11, <1>12, <1>13 DEF StackInv

LEMMA RegistrationEnds == StackInv /\ RegisterEnds => StackInv'
<1> SUFFICES ASSUME StackInv, RegisterEnds PROVE StackInv'
  OBVIOUS
<1>1. /\ portDriver = "none" /\ Len(port) = Len(Slots)
      /\ portDriver' \in {"installed", "freed"}
      /\ UNCHANGED <<failAt, port, freedTwice, NetworkDeviceList, NumberOfDevices, NetworkingEnabled, lister, switches>>
  BY DEF RegisterEnds
<1>2. ~Booted
  BY <1>1 DEF StackInv, TableInv
<1>3. StackTypes' /\ TableInv'
  BY <1>1, <1>2 DEF StackInv, StackTypes, TableInv, Booted, NeverAtTheLastStage
<1>4. ListingInv'
  BY <1>1, <1>2 DEF StackInv, ListingInv, WindowOpen, Booted, StatusSeen, LinkSeen
<1>5. ConfigurationSound' /\ ReceiverFollowsStatus'
  BY <1>1 DEF StackInv, ConfigurationSound, ReceiverFollowsStatus, Works
<1> QED
  BY <1>3, <1>4, <1>5 DEF StackInv

\* EthChangeDeviceStatus: a card stays a card and its receiver follows.
LEMMA Switching ==
  ASSUME NEW p \in Card, NEW status \in Directions
  PROVE  /\ SwitchedCard(p, status) \in Card
         /\ SwitchedCard(p, status).holds = p.holds
         /\ p.regs.rx = p.status.rx => SwitchedCard(p, status).regs.rx = SwitchedCard(p, status).status.rx
BY DEF Card, Directions, SwitchedCard

\* What the cards keep while their statuses and links change.
SameCards(q) ==
  /\ q \in Seq(Card) /\ Len(q) = Len(port)
  /\ \A s \in DOMAIN port : q[s].holds = port[s].holds /\ q[s].regs.rx = q[s].status.rx

LEMMA CardsStay ==
  StackInv /\ SameCards(port') /\ UNCHANGED <<failAt, portDriver, freedTwice>>
    => ConfigurationSound' /\ ReceiverFollowsStatus'
<1> SUFFICES ASSUME StackInv, SameCards(port'), UNCHANGED <<failAt, portDriver, freedTwice>>
    PROVE  ConfigurationSound' /\ ReceiverFollowsStatus'
  OBVIOUS
<1>1. DOMAIN port' = DOMAIN port
  BY DEF StackInv, StackTypes, SameCards
<1>2. \A s \in DOMAIN port : port'[s].holds = port[s].holds /\ port'[s].regs.rx = port'[s].status.rx
  BY DEF SameCards
<1>3. \A s : Works(s)' = Works(s)
  BY DEF Works
<1>4. ConfigurationSound'
  BY <1>1, <1>2, <1>3 DEF StackInv, ConfigurationSound
<1> QED
  BY <1>1, <1>2, <1>4 DEF ReceiverFollowsStatus

LEMMA StackInitialized == StackInv /\ NetworkStackInit => StackInv'
<1> SUFFICES ASSUME StackInv, NetworkStackInit PROVE StackInv'
  OBVIOUS
<1>1. /\ portDriver # "none" /\ ~Booted
      /\ NetworkDeviceList' = [i \in DOMAIN NetworkDevices |-> NetworkDevice(NetworkDevices[i], NextDeviceId(i))]
      /\ NumberOfDevices' = Len(NetworkDevices)
      /\ NetworkStackSetState(FALSE, NetworkDevices)
      /\ UNCHANGED <<failAt, portDriver, freedTwice, lister, switches>>
  BY DEF NetworkStackInit
<1>2. /\ Len(port) \in Nat /\ DOMAIN port = 1 .. Len(port) /\ Len(port) = Len(Slots)
      /\ DOMAIN Slots = 1 .. Len(Slots) /\ port \in Seq(Card)
  BY <1>1, StackAssumption DEF StackInv, StackTypes
<1>3. /\ Len(NetworkDevices) \in Nat /\ DOMAIN NetworkDevices = 1 .. Len(NetworkDevices)
      /\ \A i \in DOMAIN NetworkDevices : NetworkDevices[i] \in DOMAIN port
  BY <1>2, DevicesAreCards
<1>4. \A s \in DOMAIN port : port[s] \in Card /\ port[s].regs.rx = port[s].status.rx
  BY <1>2 DEF StackInv, ReceiverFollowsStatus
<1>5. SameCards(port')
  <2>1. CASE port' = port
    BY <2>1, <1>2, <1>4 DEF SameCards
  <2>2. CASE port' = [s \in DOMAIN port |->
                        IF Contains(NetworkDevices, s) THEN SwitchedCard(port[s], [rx |-> FALSE, tx |-> FALSE])
                        ELSE port[s]]
    <3>1. [rx |-> FALSE, tx |-> FALSE] \in Directions
      BY DEF Directions
    <3>2. \A s \in DOMAIN port : /\ port'[s] \in Card /\ port'[s].holds = port[s].holds
                                /\ port'[s].regs.rx = port'[s].status.rx
      BY <2>2, <3>1, <1>4, Switching
    <3>3. DOMAIN port' = 1 .. Len(port)
      BY <2>2, <1>2
    <3>4. port' = [s \in 1 .. Len(port) |-> port'[s]]
      BY <2>2, <3>3
    <3>5. port' \in [1 .. Len(port) -> Card]
      BY <3>2, <3>3, <3>4, <1>2
    <3>6. port' \in Seq(Card) /\ Len(port') = Len(port)
      BY <3>5, <1>2
    <3> QED
      BY <3>2, <3>6 DEF SameCards
  <2> QED
    BY <2>1, <2>2, <1>1 DEF NetworkStackSetState
<1>6. /\ NetworkDeviceList' \in Seq(Entry) /\ Len(NetworkDeviceList') = Len(NetworkDevices)
      /\ DOMAIN NetworkDeviceList' = DOMAIN NetworkDevices
      /\ \A i \in DOMAIN NetworkDevices :
            NetworkDeviceList'[i].PhysicalDevice = NetworkDevices[i] /\ NetworkDeviceList'[i].DeviceId = i - 1
  <2>1. ASSUME NEW i \in DOMAIN NetworkDevices
        PROVE  /\ NetworkDevice(NetworkDevices[i], NextDeviceId(i)) \in Entry
               /\ NetworkDevice(NetworkDevices[i], NextDeviceId(i)).PhysicalDevice = NetworkDevices[i]
               /\ NetworkDevice(NetworkDevices[i], NextDeviceId(i)).DeviceId = i - 1
    <3>1. NetworkDevices[i] \in DOMAIN port /\ NetworkDevices[i] \in Nat /\ i - 1 \in Nat
      BY <1>2, <1>3, <2>1
    <3>2. port[NetworkDevices[i]].status \in Directions
      BY <3>1, <1>4 DEF Card
    <3>3. Slots[NetworkDevices[i]] \in Range(Slots)
      BY <3>1, <1>2 DEF Range
    <3> QED
      BY <3>1, <3>2, <3>3 DEF NetworkDevice, NetOpGetPhysicalAddress, NextDeviceId, Entry
  <2>2. NetworkDeviceList' \in [1 .. Len(NetworkDevices) -> Entry]
    BY <2>1, <1>1, <1>3
  <2>3. NetworkDeviceList' \in Seq(Entry) /\ Len(NetworkDeviceList') = Len(NetworkDevices)
    BY <2>2, <1>3
  <2> QED
    BY <2>1, <2>3, <1>1
<1>7. StackTypes'
  <2>1. NetworkingEnabled' \in BOOLEAN
    BY <1>1 DEF NetworkStackSetState
  <2> QED
    BY <2>1, <1>1, <1>2, <1>5, <1>6 DEF StackInv, StackTypes, NeverAtTheLastStage, SameCards
<1>8. TableInv'
  BY <1>1, <1>6, DevicesStay DEF TableInv
<1>9. ListingInv'
  <2>1. \A t \in Stackers : lister[t] = NoCall
    BY <1>1 DEF StackInv, ListingInv, WindowOpen
  <2> QED
    BY <2>1, <1>1 DEF ListingInv, NoCall
<1> QED
  BY <1>1, <1>5, <1>7, <1>8, <1>9, CardsStay DEF StackInv

\* A change of a status or of a link widens what each listing under way may
\* report.
LEMMA CardsChange ==
  StackInv /\ (\E q : SameCards(q) /\ Change(q)) => StackInv'
<1> SUFFICES ASSUME StackInv, NEW q, SameCards(q), Change(q) PROVE StackInv'
  OBVIOUS
<1>1. /\ Booted /\ port' = q
      /\ lister' = [t \in Stackers |-> [lister[t] EXCEPT !.window = Widened(@, q)]]
      /\ UNCHANGED <<failAt, portDriver, freedTwice, NetworkDeviceList, NumberOfDevices, NetworkingEnabled>>
  BY DEF Change
<1>2. /\ Len(port) \in Nat /\ DOMAIN port = 1 .. Len(port) /\ DOMAIN q = DOMAIN port /\ Len(q) = Len(port)
      /\ q \in Seq(Card) /\ \A s \in DOMAIN port : q[s] \in Card
  BY DEF StackInv, StackTypes, SameCards
<1>3. ASSUME NEW t \in Stackers
      PROVE  /\ lister[t] \in Listing /\ lister'[t] \in Listing
             /\ lister'[t].pc = lister[t].pc /\ lister'[t].at = lister[t].at /\ lister'[t].out = lister[t].out
             /\ lister'[t].window = Widened(lister[t].window, q)
             /\ Len(lister'[t].window) = Len(lister[t].window)
             /\ DOMAIN lister'[t].window = DOMAIN lister[t].window
             /\ lister[t].pc = "idle" => lister'[t] = NoCall
  <2>1. lister[t] \in Listing /\ (lister[t].pc = "idle" => lister[t] = NoCall)
    BY DEF StackInv, StackTypes, ListingInv
  <2>2. lister[t].window \in Seq(Reports) /\ (lister[t].pc # "idle" => Len(lister[t].window) = Len(port))
    BY <2>1 DEF Listing, StackInv, ListingInv, WindowOpen
  <2>3. DOMAIN lister[t].window \subseteq DOMAIN q
    <3>1. lister[t].pc = "idle" => lister[t].window = <<>>
      BY <2>1 DEF NoCall
    <3> QED
      BY <2>2, <3>1, <1>2
  <2>4. ASSUME NEW s \in DOMAIN lister[t].window
        PROVE  [status |-> lister[t].window[s].status \union {q[s].status},
                link |-> lister[t].window[s].link \union {q[s].LinkUp}] \in Reports
    <3>1. lister[t].window[s] \in Reports /\ q[s] \in Card
      BY <2>2, <2>3, <1>2, <2>4
    <3> QED
      BY <3>1 DEF Reports, Card
  <2>5. /\ Widened(lister[t].window, q) \in Seq(Reports)
        /\ Len(Widened(lister[t].window, q)) = Len(lister[t].window)
        /\ DOMAIN Widened(lister[t].window, q) = DOMAIN lister[t].window
    <3>1. DOMAIN lister[t].window = 1 .. Len(lister[t].window) /\ Len(lister[t].window) \in Nat
      BY <2>2
    <3>2. Widened(lister[t].window, q) \in [1 .. Len(lister[t].window) -> Reports]
      BY <2>4, <3>1 DEF Widened
    <3> QED
      BY <3>1, <3>2
  <2>6. lister'[t] = [lister[t] EXCEPT !.window = Widened(lister[t].window, q)]
    BY <1>1
  <2>7. ASSUME lister[t].pc = "idle" PROVE lister'[t] = NoCall
    <3>1. lister[t] = NoCall /\ Widened(<<>>, q) = <<>>
      BY <2>1, <2>7 DEF Widened
    <3> QED
      BY <2>6, <3>1 DEF NoCall
  <2> HIDE DEF Widened
  <2> QED
    BY <2>1, <2>5, <2>6, <2>7 DEF Listing
<1>4. ASSUME NEW t \in Stackers, NEW s \in DOMAIN lister[t].window
      PROVE  /\ lister'[t].window[s].status = lister[t].window[s].status \union {q[s].status}
             /\ lister'[t].window[s].link = lister[t].window[s].link \union {q[s].LinkUp}
  <2>1. lister'[t].window = Widened(lister[t].window, q)
    BY <1>3
  <2> QED
    BY <2>1, <1>4 DEF Widened
<1>5. StackTypes'
  <2>1. lister' \in [Stackers -> Listing]
    BY <1>1, <1>3
  <2> QED
    BY <2>1, <1>1, <1>2 DEF StackInv, StackTypes, NeverAtTheLastStage
<1>6. TableInv'
  BY <1>1, DevicesStay DEF StackInv, TableInv, Booted
<1>7. ListingInv'
  <2> SUFFICES ASSUME NEW t \in Stackers, lister[t].pc # "idle"
      PROVE  /\ WindowOpen(lister[t])'
             /\ \A i \in DOMAIN lister[t].out :
                  /\ lister[t].out[i].PhysicalDevice \in DOMAIN port
                  /\ StatusSeen(lister'[t], lister[t].out[i]) /\ LinkSeen(lister'[t], lister[t].out[i])
             /\ lister[t].pc \in {"link", "copy"} =>
                  lister[t].at \in DOMAIN NetworkDeviceList /\ StatusSeen(lister'[t], NetworkDeviceList[lister[t].at])
             /\ lister[t].pc = "copy" => LinkSeen(lister'[t], NetworkDeviceList[lister[t].at])
    BY <1>1, <1>2, <1>3 DEF ListingInv, StatusSeen, LinkSeen
  <2>1. /\ WindowOpen(lister[t])
        /\ \A i \in DOMAIN lister[t].out :
             /\ lister[t].out[i].PhysicalDevice \in DOMAIN port
             /\ StatusSeen(lister[t], lister[t].out[i]) /\ LinkSeen(lister[t], lister[t].out[i])
        /\ lister[t].pc \in {"link", "copy"} =>
             lister[t].at \in DOMAIN NetworkDeviceList /\ StatusSeen(lister[t], NetworkDeviceList[lister[t].at])
        /\ lister[t].pc = "copy" => LinkSeen(lister[t], NetworkDeviceList[lister[t].at])
    BY DEF StackInv, ListingInv
  <2>2. DOMAIN lister[t].window = DOMAIN port
    BY <1>3, <2>1, <1>2 DEF WindowOpen, Listing
  <2>3. WindowOpen(lister[t])'
    BY <1>1, <1>2, <1>3, <1>4, <2>1, <2>2 DEF WindowOpen, Booted
  <2>4. \A d : d.PhysicalDevice \in DOMAIN port =>
           /\ StatusSeen(lister[t], d) => StatusSeen(lister'[t], d)
           /\ LinkSeen(lister[t], d) => LinkSeen(lister'[t], d)
    BY <1>4, <2>2 DEF StatusSeen, LinkSeen
  <2>5. lister[t].at \in DOMAIN NetworkDeviceList => NetworkDeviceList[lister[t].at].PhysicalDevice \in DOMAIN port
    BY TableNamesCards DEF StackInv
  <2> QED
    BY <2>1, <2>3, <2>4, <2>5
<1> QED
  BY <1>1, <1>5, <1>6, <1>7, CardsStay DEF StackInv

LEMMA StatusChanged ==
  StackInv /\ (\E id \in 0 .. Len(Slots), rx, tx \in BOOLEAN : NetChangeDeviceStatus(id, [rx |-> rx, tx |-> tx]))
    => StackInv'
<1> SUFFICES ASSUME StackInv, NEW id, NEW rx \in BOOLEAN, NEW tx \in BOOLEAN,
                    NetChangeDeviceStatus(id, [rx |-> rx, tx |-> tx])
    PROVE  StackInv'
  OBVIOUS
<1> DEFINE status == [rx |-> rx, tx |-> tx]
<1>1. PICK d \in NetOpGetDeviceById(id) : Change(NetOpSetDeviceStatus(d.PhysicalDevice, status))
  BY DEF NetChangeDeviceStatus
<1>2. d.PhysicalDevice \in DOMAIN port
  <2>1. PICK i \in DOMAIN NetworkDeviceList : d = NetworkDeviceList[i]
    BY <1>1, FoundById DEF StackInv
  <2> QED
    BY <2>1, TableNamesCards DEF StackInv
<1>3. port \in Seq(Card) /\ \A s \in DOMAIN port : port[s] \in Card /\ port[s].regs.rx = port[s].status.rx
  BY DEF StackInv, StackTypes, ReceiverFollowsStatus
<1>4. status \in Directions
  BY DEF Directions
<1> HIDE DEF status
<1>5. SameCards(NetOpSetDeviceStatus(d.PhysicalDevice, status))
  <2> DEFINE p == SwitchedCard(port[d.PhysicalDevice], status)
  <2>1. p \in Card /\ p.holds = port[d.PhysicalDevice].holds /\ p.regs.rx = p.status.rx
    BY <1>2, <1>3, <1>4, Switching
  <2> HIDE DEF p
  <2>2. NetOpSetDeviceStatus(d.PhysicalDevice, status) = [port EXCEPT ![d.PhysicalDevice] = p]
    BY DEF NetOpSetDeviceStatus, p
  <2> QED
    BY <2>1, <2>2, <1>2, <1>3 DEF SameCards
<1> QED
  BY <1>1, <1>5, CardsChange

LEMMA LinkChanged ==
  StackInv /\ (\E s \in DOMAIN Slots : NetworkPortNotifyLinkStatusChange(s)) => StackInv'
<1> SUFFICES ASSUME StackInv, NEW s, NetworkPortNotifyLinkStatusChange(s) PROVE StackInv'
  OBVIOUS
<1>1. s \in DOMAIN port /\ Change([port EXCEPT ![s].LinkUp = ~@])
  BY DEF NetworkPortNotifyLinkStatusChange
<1>2. port \in Seq(Card) /\ \A r \in DOMAIN port : port[r] \in Card /\ port[r].regs.rx = port[r].status.rx
  BY DEF StackInv, StackTypes, ReceiverFollowsStatus
<1>3. SameCards([port EXCEPT ![s].LinkUp = ~@])
  <2> DEFINE p == [port[s] EXCEPT !.LinkUp = ~@]
  <2>1. p \in Card /\ p.holds = port[s].holds /\ p.regs.rx = p.status.rx
    BY <1>1, <1>2 DEF Card
  <2>2. [port EXCEPT ![s].LinkUp = ~@] = [port EXCEPT ![s] = p]
    BY <1>1, <1>2
  <2> HIDE DEF p
  <2> QED
    BY <2>1, <2>2, <1>1, <1>2 DEF SameCards
<1> QED
  BY <1>1, <1>3, CardsChange

\* The entry of a listing thread after a step; the others keep theirs.
OtherListings(t) == \A u \in Stackers : u # t => lister'[u] = lister[u]

LEMMA ListingStarts ==
  StackInv /\ (\E t \in Stackers : \E room \in 0 .. Len(Slots) : NetGetNetworkDevices(t, room)) => StackInv'
<1> SUFFICES ASSUME StackInv, NEW t \in Stackers, NEW room, NetGetNetworkDevices(t, room) PROVE StackInv'
  OBVIOUS
<1> DEFINE none == [s \in DOMAIN port |-> [status |-> {}, link |-> {}]]
           w == Widened(none, port)
           l == [pc |-> "status", at |-> 1, out |-> <<>>, window |-> w]
<1>1. /\ Booted /\ lister' = [lister EXCEPT ![t] = l]
      /\ UNCHANGED <<failAt, port, portDriver, freedTwice, NetworkDeviceList, NumberOfDevices,
                     NetworkingEnabled, switches>>
  BY DEF NetGetNetworkDevices
<1>2. port \in Seq(Card) /\ Len(port) \in Nat /\ DOMAIN port = 1 .. Len(port)
  BY DEF StackInv, StackTypes
<1>3. /\ DOMAIN w = DOMAIN port
      /\ \A s \in DOMAIN port : w[s] = [status |-> {port[s].status}, link |-> {port[s].LinkUp}]
  BY DEF Widened
<1>4. \A s \in DOMAIN port : w[s] \in Reports /\ port[s].status \in w[s].status /\ port[s].LinkUp \in w[s].link
  <2>1. \A s \in DOMAIN port : port[s].status \in Directions /\ port[s].LinkUp \in BOOLEAN
    <3>1. \A s \in DOMAIN port : port[s] \in Card
      BY <1>2
    <3> QED
      BY <3>1 DEF Card
  <2> HIDE DEF w
  <2> QED
    BY <1>3, <2>1 DEF Reports
<1>5. w \in Seq(Reports) /\ Len(w) = Len(port)
  <2>1. w = [s \in 1 .. Len(port) |-> w[s]]
    BY <1>2, <1>3 DEF Widened
  <2> HIDE DEF w
  <2>2. w \in [1 .. Len(port) -> Reports]
    BY <2>1, <1>2, <1>4
  <2> QED
    BY <2>2, <1>2
<1> HIDE DEF w
<1>6. l \in Listing
  BY <1>5 DEF Listing
<1>7. lister \in [Stackers -> Listing]
  BY DEF StackInv, StackTypes
<1>8. lister'[t] = l /\ lister' \in [Stackers -> Listing] /\ OtherListings(t)
  BY <1>1, <1>6, <1>7 DEF OtherListings
<1>9. StackTypes' /\ TableInv'
  BY <1>1, <1>8, DevicesStay DEF StackInv, StackTypes, TableInv, Booted, NeverAtTheLastStage
<1>10. ListingInv'
  <2>1. WindowOpen(lister[t])'
    BY <1>1, <1>4, <1>5, <1>8 DEF WindowOpen, Booted
  <2>2. lister'[t].pc = "status" /\ lister'[t].out = <<>>
    BY <1>8
  <2>3. ASSUME NEW u \in Stackers, u # t
        PROVE  lister'[u] = lister[u] /\ WindowOpen(lister[u])' = WindowOpen(lister[u])
    BY <1>1, <1>8, <2>3 DEF OtherListings, WindowOpen, Booted
  <2> QED
    BY <1>1, <2>1, <2>2, <2>3 DEF StackInv, ListingInv, StatusSeen, LinkSeen
<1>11. ConfigurationSound' /\ ReceiverFollowsStatus'
  BY <1>1 DEF StackInv, ConfigurationSound, ReceiverFollowsStatus, Works
<1> QED
  BY <1>9, <1>10, <1>11 DEF StackInv

\* A step of a listing that leaves the cards alone and puts current values of
\* the cards, if any, into the table.
LEMMA ListingKeeps ==
  ASSUME StackInv, NEW t \in Stackers, lister[t].pc # "idle",
         UNCHANGED otherThanListing,
         NetworkDeviceList' \in Seq(Entry), Len(NetworkDeviceList') = Len(NetworkDeviceList),
         \A i \in DOMAIN NetworkDeviceList :
           LET d == NetworkDeviceList[i]
               e == NetworkDeviceList'[i]
           IN  /\ e.PhysicalDevice = d.PhysicalDevice /\ e.DeviceId = d.DeviceId
               /\ e.DeviceStatus \in {d.DeviceStatus, port[d.PhysicalDevice].status}
               /\ e.LinkStatus \in {d.LinkStatus, port[d.PhysicalDevice].LinkUp},
         lister' \in [Stackers -> Listing], OtherListings(t),
         lister'[t].pc # "idle" => lister'[t].window = lister[t].window,
         lister'[t].pc = "idle" => lister'[t] = NoCall,
         lister'[t].pc # "idle" =>
           /\ \A i \in DOMAIN lister'[t].out :
                /\ lister'[t].out[i].PhysicalDevice \in DOMAIN port
                /\ StatusSeen(lister'[t], lister'[t].out[i]) /\ LinkSeen(lister'[t], lister'[t].out[i])
           /\ lister'[t].pc \in {"link", "copy"} =>
                lister'[t].at \in DOMAIN NetworkDeviceList /\ StatusSeen(lister'[t], NetworkDeviceList'[lister'[t].at])
           /\ lister'[t].pc = "copy" => LinkSeen(lister'[t], NetworkDeviceList'[lister'[t].at])
  PROVE  StackInv'
<1>1. UNCHANGED <<failAt, port, portDriver, freedTwice, NumberOfDevices, NetworkingEnabled>>
  BY DEF otherThanListing
<1>2. /\ DOMAIN NetworkDeviceList' = DOMAIN NetworkDeviceList
      /\ NetworkDeviceList \in Seq(Entry)
  BY DEF StackInv, StackTypes
<1>3. StackTypes'
  BY <1>1 DEF StackInv, StackTypes, NeverAtTheLastStage
<1>4. TableInv'
  <2>1. NetworkDevices' = NetworkDevices /\ Booted' = Booted
    BY <1>1, DevicesStay DEF Booted
  <2> QED
    BY <1>1, <1>2, <2>1 DEF StackInv, TableInv
<1>5. ListingInv'
  <2> SUFFICES ASSUME NEW u \in Stackers, u # t, lister[u].pc # "idle"
      PROVE  /\ WindowOpen(lister[u])'
             /\ \A i \in DOMAIN lister[u].out :
                  /\ lister[u].out[i].PhysicalDevice \in DOMAIN port
                  /\ StatusSeen(lister[u], lister[u].out[i]) /\ LinkSeen(lister[u], lister[u].out[i])
             /\ lister[u].pc \in {"link", "copy"} =>
                  lister[u].at \in DOMAIN NetworkDeviceList /\ StatusSeen(lister[u], NetworkDeviceList'[lister[u].at])
             /\ lister[u].pc = "copy" => LinkSeen(lister[u], NetworkDeviceList'[lister[u].at])
    <3>1. WindowOpen(lister[t])
      BY DEF StackInv, ListingInv
    <3>2. lister'[t].pc # "idle" => WindowOpen(lister[t])'
      BY <3>1, <1>1 DEF WindowOpen, Booted
    <3>3. \A u \in Stackers : u # t => lister'[u] = lister[u] /\ (lister[u].pc = "idle" => lister[u] = NoCall)
      BY DEF OtherListings, StackInv, ListingInv
    <3> QED
      BY <1>1, <1>2, <3>2, <3>3 DEF ListingInv, StatusSeen, LinkSeen
  <2> DEFINE l == lister[u]
  <2>1. /\ WindowOpen(l)
        /\ \A i \in DOMAIN l.out :
             l.out[i].PhysicalDevice \in DOMAIN port /\ StatusSeen(l, l.out[i]) /\ LinkSeen(l, l.out[i])
        /\ l.pc \in {"link", "copy"} => l.at \in DOMAIN NetworkDeviceList /\ StatusSeen(l, NetworkDeviceList[l.at])
        /\ l.pc = "copy" => LinkSeen(l, NetworkDeviceList[l.at])
    BY DEF StackInv, ListingInv
  <2>2. WindowOpen(l)'
    BY <2>1, <1>1 DEF WindowOpen, Booted, OtherListings
  <2>3. ASSUME NEW i \in DOMAIN NetworkDeviceList
        PROVE  /\ StatusSeen(l, NetworkDeviceList[i]) => StatusSeen(l, NetworkDeviceList'[i])
               /\ LinkSeen(l, NetworkDeviceList[i]) => LinkSeen(l, NetworkDeviceList'[i])
    <3>1. NetworkDeviceList[i].PhysicalDevice \in DOMAIN port
      BY TableNamesCards DEF StackInv
    <3> QED
      BY <2>1, <3>1 DEF WindowOpen, StatusSeen, LinkSeen
  <2> QED
    BY <2>1, <2>2, <2>3
<1>6. ConfigurationSound' /\ ReceiverFollowsStatus'
  BY <1>1 DEF StackInv, ConfigurationSound, ReceiverFollowsStatus, Works
<1> QED
  BY <1>3, <1>4, <1>5, <1>6 DEF StackInv

LEMMA StatusAsked ==
  StackInv /\ (\E t \in Stackers : NetOpGetDeviceStatus(t)) => StackInv'
<1> SUFFICES ASSUME StackInv, NEW t \in Stackers, NetOpGetDeviceStatus(t) PROVE StackInv'
  OBVIOUS
<1> DEFINE i == lister[t].at
           d == NetworkDeviceList[i]
           e == [d EXCEPT !.DeviceStatus = port[d.PhysicalDevice].status]
           l == [lister[t] EXCEPT !.pc = "link"]
<1>1. /\ lister[t].pc = "status" /\ i <= Len(NetworkDeviceList)
      /\ NetworkDeviceList' = [NetworkDeviceList EXCEPT ![i].DeviceStatus = port[NetworkDeviceList[i].PhysicalDevice].status]
      /\ lister' = [lister EXCEPT ![t].pc = "link"]
      /\ UNCHANGED otherThanListing
  BY DEF NetOpGetDeviceStatus, ListerAt
<1>2. /\ lister \in [Stackers -> Listing] /\ NetworkDeviceList \in Seq(Entry) /\ port \in Seq(Card)
      /\ Len(NetworkDeviceList) \in Nat /\ DOMAIN NetworkDeviceList = 1 .. Len(NetworkDeviceList)
  BY DEF StackInv, StackTypes
<1>3. lister[t] \in Listing /\ l \in Listing /\ l.pc = "link" /\ l.at = i /\ l.out = lister[t].out
      /\ l.window = lister[t].window
  BY <1>2 DEF Listing
<1>4. i \in DOMAIN NetworkDeviceList
  BY <1>1, <1>2, <1>3 DEF Listing
<1>5. d \in Entry /\ d.PhysicalDevice \in DOMAIN port
  BY <1>2, <1>4, TableNamesCards DEF StackInv
<1>6. /\ e \in Entry /\ e.PhysicalDevice = d.PhysicalDevice /\ e.DeviceId = d.DeviceId
      /\ e.DeviceStatus = port[d.PhysicalDevice].status /\ e.LinkStatus = d.LinkStatus
  <2>1. port[d.PhysicalDevice] \in Card
    BY <1>2, <1>5
  <2> QED
    BY <1>5, <2>1 DEF Entry, Card
<1>7. NetworkDeviceList' = [NetworkDeviceList EXCEPT ![i] = e] /\ lister' = [lister EXCEPT ![t] = l]
  BY <1>1, <1>2, <1>4
<1> HIDE DEF e, l
<1>8. /\ NetworkDeviceList' \in Seq(Entry) /\ Len(NetworkDeviceList') = Len(NetworkDeviceList)
      /\ NetworkDeviceList'[i] = e
      /\ \A j \in DOMAIN NetworkDeviceList : j # i => NetworkDeviceList'[j] = NetworkDeviceList[j]
  BY <1>2, <1>4, <1>6, <1>7
<1>9. lister'[t] = l /\ lister' \in [Stackers -> Listing] /\ OtherListings(t)
  BY <1>2, <1>3, <1>7 DEF OtherListings
<1>10. /\ WindowOpen(lister[t])
       /\ \A j \in DOMAIN lister[t].out :
            /\ lister[t].out[j].PhysicalDevice \in DOMAIN port
            /\ StatusSeen(lister[t], lister[t].out[j]) /\ LinkSeen(lister[t], lister[t].out[j])
  BY <1>1 DEF StackInv, ListingInv
<1>11. StatusSeen(l, e)
  BY <1>3, <1>5, <1>6, <1>10 DEF StatusSeen, WindowOpen
<1>12. \A j \in DOMAIN l.out : /\ l.out[j].PhysicalDevice \in DOMAIN port
                              /\ StatusSeen(l, l.out[j]) /\ LinkSeen(l, l.out[j])
  BY <1>3, <1>10 DEF StatusSeen, LinkSeen
<1>13. lister[t].pc # "idle" /\ l.pc # "idle" /\ l.pc # "copy"
  BY <1>1, <1>3
<1>14. \A j \in DOMAIN NetworkDeviceList :
         LET c == NetworkDeviceList[j]
             n == NetworkDeviceList'[j]
         IN  /\ n.PhysicalDevice = c.PhysicalDevice /\ n.DeviceId = c.DeviceId
             /\ n.DeviceStatus \in {c.DeviceStatus, port[c.PhysicalDevice].status}
             /\ n.LinkStatus \in {c.LinkStatus, port[c.PhysicalDevice].LinkUp}
  BY <1>6, <1>8
<1> QED
  BY <1>1, <1>3, <1>4, <1>8, <1>9, <1>11, <1>12, <1>13, <1>14, ListingKeeps

LEMMA LinkAsked ==
  StackInv /\ (\E t \in Stackers : NetOpGetLinkStatus(t)) => StackInv'
<1> SUFFICES ASSUME StackInv, NEW t \in Stackers, NetOpGetLinkStatus(t) PROVE StackInv'
  OBVIOUS
<1> DEFINE i == lister[t].at
           d == NetworkDeviceList[i]
           e == [d EXCEPT !.LinkStatus = port[d.PhysicalDevice].LinkUp]
           l == [lister[t] EXCEPT !.pc = "copy"]
<1>1. /\ lister[t].pc = "link" /\ i <= Len(NetworkDeviceList)
      /\ NetworkDeviceList' = [NetworkDeviceList EXCEPT ![i].LinkStatus = port[NetworkDeviceList[i].PhysicalDevice].LinkUp]
      /\ lister' = [lister EXCEPT ![t].pc = "copy"]
      /\ UNCHANGED otherThanListing
  BY DEF NetOpGetLinkStatus, ListerAt
<1>2. /\ lister \in [Stackers -> Listing] /\ NetworkDeviceList \in Seq(Entry) /\ port \in Seq(Card)
      /\ Len(NetworkDeviceList) \in Nat /\ DOMAIN NetworkDeviceList = 1 .. Len(NetworkDeviceList)
  BY DEF StackInv, StackTypes
<1>3. lister[t] \in Listing /\ l \in Listing /\ l.pc = "copy" /\ l.at = i /\ l.out = lister[t].out
      /\ l.window = lister[t].window
  BY <1>2 DEF Listing
<1>4. /\ WindowOpen(lister[t])
      /\ \A j \in DOMAIN lister[t].out :
           /\ lister[t].out[j].PhysicalDevice \in DOMAIN port
           /\ StatusSeen(lister[t], lister[t].out[j]) /\ LinkSeen(lister[t], lister[t].out[j])
      /\ i \in DOMAIN NetworkDeviceList /\ StatusSeen(lister[t], d)
  BY <1>1 DEF StackInv, ListingInv
<1>5. d \in Entry /\ d.PhysicalDevice \in DOMAIN port
  BY <1>2, <1>4, TableNamesCards DEF StackInv
<1>6. /\ e \in Entry /\ e.PhysicalDevice = d.PhysicalDevice /\ e.DeviceId = d.DeviceId
      /\ e.DeviceStatus = d.DeviceStatus /\ e.LinkStatus = port[d.PhysicalDevice].LinkUp
  <2>1. port[d.PhysicalDevice] \in Card
    BY <1>2, <1>5
  <2> QED
    BY <1>5, <2>1 DEF Entry, Card
<1>7. NetworkDeviceList' = [NetworkDeviceList EXCEPT ![i] = e] /\ lister' = [lister EXCEPT ![t] = l]
  BY <1>1, <1>2, <1>4
<1> HIDE DEF e, l
<1>8. /\ NetworkDeviceList' \in Seq(Entry) /\ Len(NetworkDeviceList') = Len(NetworkDeviceList)
      /\ NetworkDeviceList'[i] = e
      /\ \A j \in DOMAIN NetworkDeviceList : j # i => NetworkDeviceList'[j] = NetworkDeviceList[j]
  BY <1>2, <1>4, <1>6, <1>7
<1>9. lister'[t] = l /\ lister' \in [Stackers -> Listing] /\ OtherListings(t)
  BY <1>2, <1>3, <1>7 DEF OtherListings
<1>10. StatusSeen(l, e)
  BY <1>3, <1>4, <1>6 DEF StatusSeen
<1>11. LinkSeen(l, e)
  BY <1>3, <1>4, <1>5, <1>6 DEF LinkSeen, WindowOpen
<1>12. \A j \in DOMAIN l.out : /\ l.out[j].PhysicalDevice \in DOMAIN port
                              /\ StatusSeen(l, l.out[j]) /\ LinkSeen(l, l.out[j])
  BY <1>3, <1>4 DEF StatusSeen, LinkSeen
<1>13. lister[t].pc # "idle" /\ l.pc # "idle"
  BY <1>1, <1>3
<1>14. \A j \in DOMAIN NetworkDeviceList :
         LET c == NetworkDeviceList[j]
             n == NetworkDeviceList'[j]
         IN  /\ n.PhysicalDevice = c.PhysicalDevice /\ n.DeviceId = c.DeviceId
             /\ n.DeviceStatus \in {c.DeviceStatus, port[c.PhysicalDevice].status}
             /\ n.LinkStatus \in {c.LinkStatus, port[c.PhysicalDevice].LinkUp}
  BY <1>6, <1>8
<1> QED
  BY <1>1, <1>3, <1>4, <1>8, <1>9, <1>10, <1>11, <1>12, <1>13, <1>14, ListingKeeps

LEMMA EntryCopied ==
  StackInv /\ (\E t \in Stackers : CopyDeviceInfo(t)) => StackInv'
<1> SUFFICES ASSUME StackInv, NEW t \in Stackers, CopyDeviceInfo(t) PROVE StackInv'
  OBVIOUS
<1> DEFINE i == lister[t].at
           d == NetworkDeviceList[i]
           out == Append(lister[t].out, d)
           l == [lister[t] EXCEPT !.pc = "status", !.at = i + 1, !.out = out]
<1>1. /\ lister[t].pc = "copy" /\ i <= Len(NetworkDeviceList)
      /\ lister' = [lister EXCEPT ![t].pc = "status", ![t].at = i + 1, ![t].out = Append(@, NetworkDeviceList[i])]
      /\ UNCHANGED <<otherThanListing, NetworkDeviceList>>
  BY DEF CopyDeviceInfo, ListerAt
<1>2. /\ lister \in [Stackers -> Listing] /\ NetworkDeviceList \in Seq(Entry)
      /\ Len(NetworkDeviceList) \in Nat /\ DOMAIN NetworkDeviceList = 1 .. Len(NetworkDeviceList)
  BY DEF StackInv, StackTypes
<1>3. /\ WindowOpen(lister[t])
      /\ \A j \in DOMAIN lister[t].out :
           /\ lister[t].out[j].PhysicalDevice \in DOMAIN port
           /\ StatusSeen(lister[t], lister[t].out[j]) /\ LinkSeen(lister[t], lister[t].out[j])
      /\ i \in DOMAIN NetworkDeviceList /\ StatusSeen(lister[t], d) /\ LinkSeen(lister[t], d)
  BY <1>1 DEF StackInv, ListingInv
<1>4. d \in Entry /\ d.PhysicalDevice \in DOMAIN port
  BY <1>2, <1>3, TableNamesCards DEF StackInv
<1>5. lister[t] \in Listing /\ lister[t].out \in Seq(Entry) /\ i \in Nat \ {0}
  BY <1>2 DEF Listing
<1>6. /\ out \in Seq(Entry)
      /\ \A j \in DOMAIN out : out[j] = d \/ (j \in DOMAIN lister[t].out /\ out[j] = lister[t].out[j])
  <2>1. /\ Len(out) = Len(lister[t].out) + 1 /\ out[Len(lister[t].out) + 1] = d
        /\ out \in Seq(Entry) /\ DOMAIN out = 1 .. Len(out)
        /\ \A j \in 1 .. Len(lister[t].out) : out[j] = lister[t].out[j]
        /\ Len(lister[t].out) \in Nat /\ DOMAIN lister[t].out = 1 .. Len(lister[t].out)
    BY <1>4, <1>5
  <2> HIDE DEF out
  <2> QED
    BY <2>1
<1> HIDE DEF out
<1>7. l \in Listing /\ l.pc = "status" /\ l.at = i + 1 /\ l.out = out /\ l.window = lister[t].window
  <2>1. l = [pc |-> "status", at |-> i + 1, out |-> out, window |-> lister[t].window]
    <3>1. DOMAIN lister[t] = {"pc", "at", "out", "window"}
      BY <1>5 DEF Listing
    <3>2. l = [f \in {"pc", "at", "out", "window"} |->
                 IF f = "out" THEN out ELSE IF f = "at" THEN i + 1 ELSE IF f = "pc" THEN "status" ELSE lister[t][f]]
      BY <3>1
    <3> QED
      BY <3>2
  <2>2. i + 1 \in Nat \ {0} /\ lister[t].window \in Seq(Reports)
    BY <1>5 DEF Listing
  <2> HIDE DEF l
  <2> QED
    BY <1>6, <2>1, <2>2 DEF Listing
<1>8. lister' = [lister EXCEPT ![t] = l]
  BY <1>1, <1>2 DEF out
<1> HIDE DEF l
<1>9. lister'[t] = l /\ lister' \in [Stackers -> Listing] /\ OtherListings(t)
  BY <1>2, <1>7, <1>8 DEF OtherListings
<1>10. \A j \in DOMAIN l.out : /\ l.out[j].PhysicalDevice \in DOMAIN port
                              /\ StatusSeen(l, l.out[j]) /\ LinkSeen(l, l.out[j])
  BY <1>3, <1>4, <1>6, <1>7 DEF StatusSeen, LinkSeen
<1>11. /\ lister[t].pc # "idle" /\ lister'[t].pc # "idle" /\ lister'[t].pc # "copy" /\ lister'[t].pc \notin {"link", "copy"}
       /\ lister'[t].window = lister[t].window
       /\ UNCHANGED otherThanListing /\ NetworkDeviceList' = NetworkDeviceList
  BY <1>1, <1>7, <1>9
<1> QED
  BY <1>2, <1>9, <1>10, <1>11, ListingKeeps

LEMMA ListingOver ==
  StackInv /\ (\E t \in Stackers : ListingEnds(t)) => StackInv'
<1> SUFFICES ASSUME StackInv, NEW t \in Stackers, ListingEnds(t) PROVE StackInv'
  OBVIOUS
<1>1. /\ lister[t].pc = "status" /\ lister' = [lister EXCEPT ![t] = NoCall]
      /\ UNCHANGED otherThanListing /\ NetworkDeviceList' = NetworkDeviceList
  BY DEF ListingEnds
<1>2. lister \in [Stackers -> Listing] /\ NetworkDeviceList \in Seq(Entry)
  BY DEF StackInv, StackTypes
<1>3. NoCall \in Listing /\ NoCall.pc = "idle"
  BY DEF NoCall, Listing
<1>4. lister'[t] = NoCall /\ lister' \in [Stackers -> Listing] /\ OtherListings(t)
  BY <1>1, <1>2, <1>3 DEF OtherListings
<1> QED
  BY <1>1, <1>2, <1>3, <1>4, ListingKeeps

LEMMA StackUnchanged == StackInv /\ UNCHANGED stackVars => StackInv'
BY DevicesStay DEF stackVars, StackInv, StackTypes, TableInv, ListingInv, ConfigurationSound, ReceiverFollowsStatus,
   NeverAtTheLastStage, Booted, WindowOpen, StatusSeen, LinkSeen, Works

LEMMA NextStackInv == StackInv /\ [StackNext]_stackVars => StackInv'
<1>1. StackInv /\ StackNext => StackInv'
  BY CardRegistered, RegistrationEnds, StackInitialized, StatusChanged, LinkChanged, ListingStarts,
     StatusAsked, LinkAsked, EntryCopied, ListingOver DEF StackNext
<1> QED
  BY <1>1, StackUnchanged

\* For any number of cards and of threads: a card that fails at a stage before
\* the last gives its memory back once; the table has every card that works,
\* in order and under its own identifier; whatever threads list or switch
\* meanwhile, what a listing reports of a card was true of it since the
\* listing began; and the receivers follow the statuses.
THEOREM NetworkStackSafe ==
  StackInit /\ NeverAtTheLastStage /\ [][StackNext]_stackVars => []NetworkStackSound
BY InitStackInv, NextStackInv, StackInvSound, PTL

(***************************************************************************)
(* The lists the drivers and the executive keep their objects in (list.c). *)
(***************************************************************************)

\* The ring of a head: each link of a place leads to the next place, and back.
Linked(h) ==
  \A i \in 0 .. Len(contents[h]) :
    /\ Flink[NodeAt(contents[h], h, i)] = NodeAt(contents[h], h, i + 1)
    /\ Blink[NodeAt(contents[h], h, i + 1)] = NodeAt(contents[h], h, i)

ListTypes ==
  /\ Flink \in [ListNodes -> ListNodes] /\ Blink \in [ListNodes -> ListNodes]
  /\ contents \in [ListHeads -> Seq(ListEntries)]

\* An entry is in one list, at one place of it.
OneLink ==
  \A g, h \in ListHeads : \A i \in DOMAIN contents[g], j \in DOMAIN contents[h] :
    contents[g][i] = contents[h][j] => g = h /\ i = j

ListInv == ListTypes /\ OneLink /\ \A h \in ListHeads : Linked(h)

\* Two walks along the same links from the same head are the same.
LEMMA OneWalk ==
  ASSUME NEW link, NEW h \in ListHeads, NEW v \in Seq(ListEntries), NEW w \in Seq(ListEntries),
         \A i \in 0 .. Len(v) : link[NodeAt(v, h, i)] = NodeAt(v, h, i + 1),
         \A i \in 0 .. Len(w) : link[NodeAt(w, h, i)] = NodeAt(w, h, i + 1)
  PROVE  v = w
<1> DEFINE Differ == {i \in Nat : i <= Len(v) + 1 /\ i <= Len(w) + 1 /\ NodeAt(v, h, i) # NodeAt(w, h, i)}
<1>1. /\ Len(v) \in Nat /\ DOMAIN v = 1 .. Len(v) /\ \A i \in DOMAIN v : v[i] \in ListEntries
      /\ Len(w) \in Nat /\ DOMAIN w = 1 .. Len(w) /\ \A i \in DOMAIN w : w[i] \in ListEntries
  OBVIOUS
<1>2. Differ = {}
  <2> SUFFICES ASSUME Differ # {} PROVE FALSE
    OBVIOUS
  <2>1. PICK m \in Differ : \A i \in Differ : m <= i
    <3>1. Differ \in SUBSET Nat
      OBVIOUS
    <3> HIDE DEF Differ
    <3> QED
      BY <3>1, MinIsLeast
  <2>2. m \in Nat /\ m <= Len(v) + 1 /\ m <= Len(w) + 1 /\ NodeAt(v, h, m) # NodeAt(w, h, m)
    BY <2>1
  <2>3. m # 0
    <3>1. 0 \notin DOMAIN v /\ 0 \notin DOMAIN w
      BY <1>1
    <3> QED
      BY <2>2, <3>1 DEF NodeAt
  <2>4. m - 1 \in Nat /\ m - 1 \notin Differ
    BY <2>1, <2>2, <2>3
  <2>5. NodeAt(v, h, m - 1) = NodeAt(w, h, m - 1)
    BY <2>2, <2>4, <1>1
  <2>6. m - 1 \in 0 .. Len(v) /\ m - 1 \in 0 .. Len(w) /\ m = (m - 1) + 1
    BY <2>2, <2>3, <1>1
  <2>7. link[NodeAt(v, h, m - 1)] = NodeAt(v, h, m) /\ link[NodeAt(w, h, m - 1)] = NodeAt(w, h, m)
    BY <2>6
  <2> QED
    BY <2>2, <2>5, <2>7
<1>3. \A i \in Nat : i <= Len(v) + 1 /\ i <= Len(w) + 1 => NodeAt(v, h, i) = NodeAt(w, h, i)
  BY <1>2
<1>4. h \notin ListEntries
  BY ListAssumption
<1>5. Len(v) = Len(w)
  <2>1. ASSUME Len(v) < Len(w) PROVE FALSE
    <3>1. Len(v) + 1 \in DOMAIN w /\ Len(v) + 1 \notin DOMAIN v
      BY <1>1, <2>1
    <3>2. NodeAt(v, h, Len(v) + 1) = NodeAt(w, h, Len(v) + 1)
      BY <1>1, <1>3, <2>1
    <3> QED
      BY <3>1, <3>2, <1>1, <1>4 DEF NodeAt
  <2>2. ASSUME Len(w) < Len(v) PROVE FALSE
    <3>1. Len(w) + 1 \in DOMAIN v /\ Len(w) + 1 \notin DOMAIN w
      BY <1>1, <2>2
    <3>2. NodeAt(v, h, Len(w) + 1) = NodeAt(w, h, Len(w) + 1)
      BY <1>1, <1>3, <2>2
    <3> QED
      BY <3>1, <3>2, <1>1, <1>4 DEF NodeAt
  <2>3. Len(v) \in Nat /\ Len(w) \in Nat
    BY <1>1
  <2> QED
    BY <2>1, <2>2, <2>3
<1>6. \A i \in DOMAIN v : v[i] = w[i]
  BY <1>1, <1>3, <1>5 DEF NodeAt
<1> QED
  BY <1>1, <1>5, <1>6

\* A list has no more entries than there are, so that following finds it.
LEMMA Following ==
  ASSUME NEW link, NEW h \in ListHeads, NEW w \in Seq(ListEntries), IsInjective(w),
         \A i \in 0 .. Len(w) : link[NodeAt(w, h, i)] = NodeAt(w, h, i + 1)
  PROVE  Followed(link, h) = w
<1>1. Len(w) \in Nat /\ w \in [1 .. Len(w) -> ListEntries]
  OBVIOUS
<1>2. IsFiniteSet(1 .. Len(w)) /\ Cardinality(1 .. Len(w)) = Len(w)
  <2>1. Cardinality(1 .. Len(w)) = IF 1 > Len(w) THEN 0 ELSE Len(w) - 1 + 1
    BY <1>1, FS_Interval
  <2>2. IsFiniteSet(1 .. Len(w))
    BY <1>1, FS_Interval
  <2> QED
    BY <1>1, <2>1, <2>2
<1>3. Len(w) <= Cardinality(ListEntries) /\ Cardinality(ListEntries) \in Nat
  <2>1. w \in Injection(1 .. Len(w), ListEntries)
    BY <1>1 DEF Injection, IsInjective
  <2> QED
    BY <2>1, <1>2, ListAssumption, FS_Injection, FS_CardinalityType
<1>4. w \in SeqOf(ListEntries, Cardinality(ListEntries))
  BY <1>1, <1>3 DEF SeqOf
<1>5. ASSUME NEW v \in SeqOf(ListEntries, Cardinality(ListEntries))
      PROVE  v \in Seq(ListEntries)
  <2>1. PICK m \in 0 .. Cardinality(ListEntries) : v \in [1 .. m -> ListEntries]
    BY <1>5 DEF SeqOf
  <2> QED
    BY <2>1, <1>3
<1>6. \A v \in SeqOf(ListEntries, Cardinality(ListEntries)) :
        (\A i \in 0 .. Len(v) : link[NodeAt(v, h, i)] = NodeAt(v, h, i + 1)) => v = w
  BY <1>5, OneWalk
<1> QED
  BY <1>4, <1>6 DEF Followed

\* The node at a place of a list, and what tells two places apart.
Place(h, i) == NodeAt(contents[h], h, i)

LEMMA PlacesApart ==
  ListTypes /\ OneLink =>
    /\ \A h \in ListHeads, i \in Nat : Place(h, i) \in ListNodes
    /\ \A g, h \in ListHeads : g # h => \A i, j \in Nat : Place(g, i) # Place(h, j)
    /\ \A h \in ListHeads : \A i, j \in 0 .. Len(contents[h]) : Place(h, i) = Place(h, j) => i = j
    /\ \A h \in ListHeads : \A i, j \in 1 .. Len(contents[h]) + 1 : Place(h, i) = Place(h, j) => i = j
    /\ \A h \in ListHeads : \A e \in ListEntries : InNoList(e) => \A i \in Nat : Place(h, i) # e
<1> SUFFICES ASSUME ListTypes, OneLink, NEW h \in ListHeads
    PROVE  /\ \A i \in Nat : Place(h, i) \in ListNodes
           /\ \A g \in ListHeads : g # h => \A i, j \in Nat : Place(g, i) # Place(h, j)
           /\ \A i, j \in 0 .. Len(contents[h]) : Place(h, i) = Place(h, j) => i = j
           /\ \A i, j \in 1 .. Len(contents[h]) + 1 : Place(h, i) = Place(h, j) => i = j
           /\ \A e \in ListEntries : InNoList(e) => \A i \in Nat : Place(h, i) # e
  OBVIOUS
<1>1. \A g \in ListHeads : /\ DOMAIN contents[g] = 1 .. Len(contents[g]) /\ Len(contents[g]) \in Nat
                           /\ \A i \in DOMAIN contents[g] : contents[g][i] \in ListEntries
                           /\ g \notin ListEntries /\ g \in ListNodes
  <2>1. \A g \in ListHeads : contents[g] \in Seq(ListEntries)
    BY DEF ListTypes
  <2> QED
    BY <2>1, ListAssumption DEF ListNodes
<1>2. \A i \in Nat : Place(h, i) \in ListNodes
  BY <1>1 DEF Place, NodeAt, ListNodes
<1>3. ASSUME NEW g \in ListHeads, g # h, NEW i \in Nat, NEW j \in Nat PROVE Place(g, i) # Place(h, j)
  BY <1>1, <1>3 DEF Place, NodeAt, OneLink
<1>4. ASSUME NEW i \in Nat, NEW j \in Nat, Place(h, i) = Place(h, j)
      PROVE  i = j \/ (i \notin DOMAIN contents[h] /\ j \notin DOMAIN contents[h])
  BY <1>1, <1>4 DEF Place, NodeAt, OneLink
<1>5. ASSUME NEW i \in 0 .. Len(contents[h]), NEW j \in 0 .. Len(contents[h]), Place(h, i) = Place(h, j) PROVE i = j
  BY <1>1, <1>4, <1>5
<1>6. ASSUME NEW i \in 1 .. Len(contents[h]) + 1, NEW j \in 1 .. Len(contents[h]) + 1, Place(h, i) = Place(h, j) PROVE i = j
  BY <1>1, <1>4, <1>6
<1>7. ASSUME NEW e \in ListEntries, InNoList(e), NEW i \in Nat PROVE Place(h, i) # e
  BY <1>1, <1>7 DEF Place, NodeAt, InNoList, Contains
<1> QED
  BY <1>2, <1>3, <1>5, <1>6, <1>7

\* The sequence t is s with e put at place j, or with place j taken out.
PutIn(t, s, j, e) ==
  /\ t \in Seq(ListEntries) /\ Len(t) = Len(s) + 1
  /\ t[j] = e
  /\ \A i \in 1 .. Len(t) : (i < j => t[i] = s[i]) /\ (i > j => t[i] = s[i - 1])
TakenOut(t, s, j) ==
  /\ t \in Seq(ListEntries) /\ Len(t) = Len(s) - 1
  /\ \A i \in 1 .. Len(t) : (i < j => t[i] = s[i]) /\ (i >= j => t[i] = s[i + 1])

\* Whatever the place, an insertion rewrites four links, and the rings are
\* those of the new sequences.
LEMMA EntryLinked ==
  ASSUME ListInv, NEW h \in ListHeads, NEW e \in ListEntries, InNoList(e),
         NEW j \in 1 .. Len(contents[h]) + 1, NEW t, PutIn(t, contents[h], j, e),
         Flink' = [Flink EXCEPT ![e] = Place(h, j), ![Place(h, j - 1)] = e],
         Blink' = [Blink EXCEPT ![e] = Place(h, j - 1), ![Place(h, j)] = e],
         contents' = [contents EXCEPT ![h] = t]
  PROVE  ListInv'
<1> DEFINE s == contents[h]
<1>1. /\ Flink \in [ListNodes -> ListNodes] /\ Blink \in [ListNodes -> ListNodes]
      /\ contents \in [ListHeads -> Seq(ListEntries)] /\ ListTypes /\ OneLink
      /\ e \in ListNodes
  BY DEF ListInv, ListTypes, ListNodes
<1>2. /\ s \in Seq(ListEntries) /\ Len(s) \in Nat /\ DOMAIN s = 1 .. Len(s)
      /\ t \in Seq(ListEntries) /\ Len(t) = Len(s) + 1 /\ DOMAIN t = 1 .. Len(t)
      /\ t[j] = e /\ j \in Nat /\ j - 1 \in Nat
      /\ \A i \in 1 .. Len(t) : (i < j => t[i] = s[i]) /\ (i > j => t[i] = s[i - 1])
  BY <1>1 DEF PutIn
<1>3. /\ \A g \in ListHeads, i \in Nat : Place(g, i) \in ListNodes /\ Place(g, i) # e
      /\ \A g \in ListHeads : g # h => \A i, k \in Nat : Place(g, i) # Place(h, k)
      /\ \A i, k \in 0 .. Len(s) : Place(h, i) = Place(h, k) => i = k
      /\ \A i, k \in 1 .. Len(s) + 1 : Place(h, i) = Place(h, k) => i = k
  BY <1>1, PlacesApart
<1>4. contents'[h] = t /\ \A g \in ListHeads : g # h => contents'[g] = contents[g]
  BY <1>1
<1>5. ListTypes'
  BY <1>1, <1>2, <1>3 DEF ListTypes
<1>6. \A n \in ListNodes : /\ Flink'[n] = IF n = Place(h, j - 1) THEN e ELSE IF n = e THEN Place(h, j) ELSE Flink[n]
                          /\ Blink'[n] = IF n = Place(h, j) THEN e ELSE IF n = e THEN Place(h, j - 1) ELSE Blink[n]
  BY <1>1
<1>7. \A i \in 0 .. Len(t) + 1 : Place(h, i)' = IF i < j THEN Place(h, i) ELSE IF i = j THEN e ELSE Place(h, i - 1)
  BY <1>2, <1>4 DEF Place, NodeAt
<1>8. \A i \in 0 .. Len(s) : Flink[Place(h, i)] = Place(h, i + 1) /\ Blink[Place(h, i + 1)] = Place(h, i)
  BY DEF ListInv, Linked, Place
<1>9. ASSUME NEW i \in 0 .. Len(t)
      PROVE  Flink'[Place(h, i)'] = Place(h, i + 1)' /\ Blink'[Place(h, i + 1)'] = Place(h, i)'
  <2>1. CASE i < j - 1
    <3>1. /\ i \in 0 .. Len(s) /\ i \in Nat /\ i + 1 \in Nat /\ j - 1 \in 0 .. Len(s)
          /\ i # j - 1 /\ i + 1 # j /\ i + 1 \in 1 .. Len(s) + 1
          /\ Place(h, i)' = Place(h, i) /\ Place(h, i + 1)' = Place(h, i + 1)
      BY <2>1, <1>2, <1>7, <1>9
    <3>2. Place(h, i) # Place(h, j - 1) /\ Place(h, i + 1) # Place(h, j)
      BY <3>1, <1>3
    <3> QED
      BY <3>1, <3>2, <1>3, <1>6, <1>8
  <2>2. CASE i = j - 1
    <3>1. Place(h, i)' = Place(h, j - 1) /\ Place(h, i + 1)' = e
      BY <2>2, <1>2, <1>7
    <3> QED
      BY <3>1, <1>1, <1>2, <1>3, <1>6
  <2>3. CASE i = j
    <3>1. Place(h, i)' = e /\ Place(h, i + 1)' = Place(h, j)
      BY <2>3, <1>2, <1>7
    <3> QED
      BY <3>1, <1>1, <1>2, <1>3, <1>6
  <2>4. CASE i > j
    <3>1. /\ i - 1 \in 0 .. Len(s) /\ i \in Nat /\ i - 1 \in Nat /\ j - 1 \in 0 .. Len(s) /\ i \in 1 .. Len(s) + 1
          /\ i - 1 # j - 1 /\ i # j /\ i = (i - 1) + 1
          /\ Place(h, i)' = Place(h, i - 1) /\ Place(h, i + 1)' = Place(h, i)
      BY <2>4, <1>2, <1>7, <1>9
    <3>2. Place(h, i - 1) # Place(h, j - 1) /\ Place(h, i) # Place(h, j)
      BY <3>1, <1>3
    <3>3. Flink[Place(h, i - 1)] = Place(h, i) /\ Blink[Place(h, i)] = Place(h, i - 1)
      BY <3>1, <1>8
    <3>4. /\ Place(h, i - 1) \in ListNodes /\ Place(h, i - 1) # e
          /\ Place(h, i) \in ListNodes /\ Place(h, i) # e
      BY <3>1, <1>3
    <3> QED
      BY <3>1, <3>2, <3>3, <3>4, <1>6
  <2> QED
    BY <2>1, <2>2, <2>3, <2>4, <1>2
<1>10. Linked(h)'
  BY <1>4, <1>9 DEF Linked, Place
<1>11. ASSUME NEW g \in ListHeads, g # h PROVE Linked(g)'
  <2>1. contents'[g] = contents[g] /\ Len(contents[g]) \in Nat
    BY <1>1, <1>4, <1>11
  <2>2. ASSUME NEW i \in 0 .. Len(contents[g])
        PROVE  Flink'[Place(g, i)] = Place(g, i + 1) /\ Blink'[Place(g, i + 1)] = Place(g, i)
    <3>1. Flink[Place(g, i)] = Place(g, i + 1) /\ Blink[Place(g, i + 1)] = Place(g, i)
      BY <2>2 DEF ListInv, Linked, Place
    <3>2. i \in Nat /\ i + 1 \in Nat
      BY <2>1, <2>2
    <3>3. /\ Place(g, i) \in ListNodes /\ Place(g, i) # e /\ Place(g, i) # Place(h, j - 1)
          /\ Place(g, i + 1) \in ListNodes /\ Place(g, i + 1) # e /\ Place(g, i + 1) # Place(h, j)
      BY <3>2, <1>2, <1>3, <1>11
    <3> QED
      BY <3>1, <3>3, <1>6
  <2> QED
    BY <2>1, <2>2 DEF Linked, Place
<1>12. OneLink'
  <2>1. \A i \in DOMAIN t :
          \/ i = j /\ t[i] = e
          \/ i < j /\ i \in DOMAIN s /\ t[i] = s[i]
          \/ i > j /\ i - 1 \in DOMAIN s /\ t[i] = s[i - 1]
    <3> SUFFICES ASSUME NEW i \in DOMAIN t
        PROVE  \/ i = j /\ t[i] = e
               \/ i < j /\ i \in DOMAIN s /\ t[i] = s[i]
               \/ i > j /\ i - 1 \in DOMAIN s /\ t[i] = s[i - 1]
      OBVIOUS
    <3>1. i \in Nat /\ i >= 1 /\ i <= Len(s) + 1 /\ i \in 1 .. Len(t)
      BY <1>2
    <3>2. CASE i = j
      BY <3>2, <1>2
    <3>3. CASE i < j
      <4>1. i \in 1 .. Len(s)
        BY <3>1, <3>3, <1>2
      <4> QED
        BY <4>1, <3>3, <1>2
    <3>4. CASE i > j
      <4>1. i - 1 \in 1 .. Len(s)
        BY <3>1, <3>4, <1>2
      <4> QED
        BY <4>1, <3>4, <1>2
    <3> QED
      BY <3>1, <3>2, <3>3, <3>4, <1>2
  <2>2. \A g \in ListHeads : \A i \in DOMAIN contents[g] : contents[g][i] # e
    <3>1. \A g \in ListHeads : DOMAIN contents[g] = 1 .. Len(contents[g])
      BY <1>1
    <3> QED
      BY <3>1 DEF InNoList, Contains
  <2>3. ASSUME NEW i \in DOMAIN t, NEW k \in DOMAIN t, t[i] = t[k] PROVE i = k
    <3> DEFINE from(n) == IF n < j THEN n ELSE n - 1
    <3>1. \A n \in DOMAIN t : n # j => from(n) \in DOMAIN s /\ t[n] = s[from(n)]
      BY <2>1, <1>2
    <3>2. \A a, b \in DOMAIN s : s[a] = s[b] => a = b
      BY <1>1 DEF OneLink
    <3>3. i = j <=> k = j
      BY <2>2, <2>3, <3>1, <1>2
    <3>4. i # j /\ k # j => from(i) = from(k)
      BY <2>3, <3>1, <3>2
    <3>5. i \in Nat /\ k \in Nat
      BY <1>2, <2>3
    <3> QED
      BY <3>3, <3>4, <3>5, <1>2
  <2>4. ASSUME NEW g \in ListHeads, g # h, NEW i \in DOMAIN t, NEW k \in DOMAIN contents[g] PROVE t[i] # contents[g][k]
    BY <2>1, <2>2, <2>4, <1>1, <1>2 DEF OneLink
  <2> QED
    BY <1>1, <1>4, <2>3, <2>4 DEF OneLink
<1> QED
  BY <1>5, <1>10, <1>11, <1>12 DEF ListInv

\* A removal rewrites the two links around the entry.
LEMMA EntryUnlinked ==
  ASSUME ListInv, NEW h \in ListHeads, NEW j \in 1 .. Len(contents[h]), NEW t, TakenOut(t, contents[h], j),
         Flink' = [Flink EXCEPT ![Place(h, j - 1)] = Place(h, j + 1)],
         Blink' = [Blink EXCEPT ![Place(h, j + 1)] = Place(h, j - 1)],
         contents' = [contents EXCEPT ![h] = t]
  PROVE  ListInv'
<1> DEFINE s == contents[h]
<1>1. /\ Flink \in [ListNodes -> ListNodes] /\ Blink \in [ListNodes -> ListNodes]
      /\ contents \in [ListHeads -> Seq(ListEntries)] /\ ListTypes /\ OneLink
  BY DEF ListInv, ListTypes
<1>2. /\ s \in Seq(ListEntries) /\ Len(s) \in Nat /\ DOMAIN s = 1 .. Len(s)
      /\ t \in Seq(ListEntries) /\ Len(t) = Len(s) - 1 /\ Len(t) \in Nat /\ DOMAIN t = 1 .. Len(t)
      /\ j \in Nat /\ j - 1 \in Nat /\ j + 1 \in Nat /\ j >= 1 /\ j <= Len(s)
      /\ \A i \in 1 .. Len(t) : (i < j => t[i] = s[i]) /\ (i >= j => t[i] = s[i + 1])
  BY <1>1 DEF TakenOut
<1>3. /\ \A g \in ListHeads, i \in Nat : Place(g, i) \in ListNodes
      /\ \A g \in ListHeads : g # h => \A i, k \in Nat : Place(g, i) # Place(h, k)
      /\ \A i, k \in 0 .. Len(s) : Place(h, i) = Place(h, k) => i = k
      /\ \A i, k \in 1 .. Len(s) + 1 : Place(h, i) = Place(h, k) => i = k
  BY <1>1, PlacesApart
<1>4. contents'[h] = t /\ \A g \in ListHeads : g # h => contents'[g] = contents[g]
  BY <1>1
<1>5. ListTypes'
  BY <1>1, <1>2, <1>3 DEF ListTypes
<1>6. \A n \in ListNodes : /\ Flink'[n] = IF n = Place(h, j - 1) THEN Place(h, j + 1) ELSE Flink[n]
                          /\ Blink'[n] = IF n = Place(h, j + 1) THEN Place(h, j - 1) ELSE Blink[n]
  BY <1>1
<1>7. \A i \in 0 .. Len(t) + 1 : Place(h, i)' = IF i < j THEN Place(h, i) ELSE Place(h, i + 1)
  BY <1>2, <1>4 DEF Place, NodeAt
<1>8. \A i \in 0 .. Len(s) : Flink[Place(h, i)] = Place(h, i + 1) /\ Blink[Place(h, i + 1)] = Place(h, i)
  BY DEF ListInv, Linked, Place
<1>9. ASSUME NEW i \in 0 .. Len(t)
      PROVE  Flink'[Place(h, i)'] = Place(h, i + 1)' /\ Blink'[Place(h, i + 1)'] = Place(h, i)'
  <2>1. CASE i < j - 1
    <3>1. /\ i \in 0 .. Len(s) /\ i \in Nat /\ i + 1 \in Nat /\ j - 1 \in 0 .. Len(s)
          /\ i # j - 1 /\ i + 1 # j + 1 /\ i + 1 \in 1 .. Len(s) + 1 /\ j + 1 \in 1 .. Len(s) + 1
          /\ Place(h, i)' = Place(h, i) /\ Place(h, i + 1)' = Place(h, i + 1)
      BY <2>1, <1>2, <1>7, <1>9
    <3>2. Place(h, i) # Place(h, j - 1) /\ Place(h, i + 1) # Place(h, j + 1)
      BY <3>1, <1>3
    <3>3. Place(h, i) \in ListNodes /\ Place(h, i + 1) \in ListNodes
      BY <3>1, <1>3
    <3> QED
      BY <3>1, <3>2, <3>3, <1>6, <1>8
  <2>2. CASE i = j - 1
    <3>1. Place(h, i)' = Place(h, j - 1) /\ Place(h, i + 1)' = Place(h, j + 1)
      BY <2>2, <1>2, <1>7
    <3> QED
      BY <3>1, <1>1, <1>2, <1>3, <1>6
  <2>3. CASE i >= j
    <3>1. /\ i + 1 \in 0 .. Len(s) /\ i \in Nat /\ i + 1 \in Nat /\ i + 2 \in Nat /\ j - 1 \in 0 .. Len(s)
          /\ i + 1 # j - 1 /\ i + 2 # j + 1 /\ (i + 1) + 1 = i + 2
          /\ i + 2 \in 1 .. Len(s) + 1 /\ j + 1 \in 1 .. Len(s) + 1
          /\ Place(h, i)' = Place(h, i + 1) /\ Place(h, i + 1)' = Place(h, i + 2)
      BY <2>3, <1>2, <1>7, <1>9
    <3>2. Place(h, i + 1) # Place(h, j - 1) /\ Place(h, i + 2) # Place(h, j + 1)
      BY <3>1, <1>3
    <3>3. Flink[Place(h, i + 1)] = Place(h, i + 2) /\ Blink[Place(h, i + 2)] = Place(h, i + 1)
      BY <3>1, <1>8
    <3>4. Place(h, i + 1) \in ListNodes /\ Place(h, i + 2) \in ListNodes
      BY <3>1, <1>3
    <3> QED
      BY <3>1, <3>2, <3>3, <3>4, <1>6
  <2> QED
    BY <2>1, <2>2, <2>3, <1>2
<1>10. Linked(h)'
  BY <1>4, <1>9 DEF Linked, Place
<1>11. ASSUME NEW g \in ListHeads, g # h PROVE Linked(g)'
  <2>1. contents'[g] = contents[g] /\ Len(contents[g]) \in Nat
    BY <1>1, <1>4, <1>11
  <2>2. ASSUME NEW i \in 0 .. Len(contents[g])
        PROVE  Flink'[Place(g, i)] = Place(g, i + 1) /\ Blink'[Place(g, i + 1)] = Place(g, i)
    <3>1. Flink[Place(g, i)] = Place(g, i + 1) /\ Blink[Place(g, i + 1)] = Place(g, i)
      BY <2>2 DEF ListInv, Linked, Place
    <3>2. i \in Nat /\ i + 1 \in Nat
      BY <2>1, <2>2
    <3>3. /\ Place(g, i) \in ListNodes /\ Place(g, i) # Place(h, j - 1)
          /\ Place(g, i + 1) \in ListNodes /\ Place(g, i + 1) # Place(h, j + 1)
      BY <3>2, <1>2, <1>3, <1>11
    <3> QED
      BY <3>1, <3>3, <1>6
  <2> QED
    BY <2>1, <2>2 DEF Linked, Place
<1>12. OneLink'
  <2>1. \A i \in DOMAIN t :
          \/ i < j /\ i \in DOMAIN s /\ t[i] = s[i]
          \/ i >= j /\ i + 1 \in DOMAIN s /\ t[i] = s[i + 1]
    <3> SUFFICES ASSUME NEW i \in DOMAIN t
        PROVE  \/ i < j /\ i \in DOMAIN s /\ t[i] = s[i]
               \/ i >= j /\ i + 1 \in DOMAIN s /\ t[i] = s[i + 1]
      OBVIOUS
    <3>1. i \in 1 .. Len(t) /\ i \in Nat /\ i \in 1 .. Len(s) /\ i + 1 \in 1 .. Len(s)
      BY <1>2
    <3>2. i < j \/ i >= j
      BY <3>1, <1>2
    <3> QED
      BY <3>1, <3>2, <1>2
  <2>2. ASSUME NEW i \in DOMAIN t, NEW k \in DOMAIN t, t[i] = t[k] PROVE i = k
    <3> DEFINE from(n) == IF n < j THEN n ELSE n + 1
    <3>1. \A n \in DOMAIN t : from(n) \in DOMAIN s /\ t[n] = s[from(n)]
      BY <2>1, <1>2
    <3>2. \A a, b \in DOMAIN s : s[a] = s[b] => a = b
      BY <1>1 DEF OneLink
    <3>3. from(i) = from(k)
      BY <2>2, <3>1, <3>2
    <3>4. i \in Nat /\ k \in Nat
      BY <1>2, <2>2
    <3> QED
      BY <3>3, <3>4, <1>2
  <2>3. ASSUME NEW g \in ListHeads, g # h, NEW i \in DOMAIN t, NEW k \in DOMAIN contents[g] PROVE t[i] # contents[g][k]
    BY <2>1, <2>3, <1>1, <1>2 DEF OneLink
  <2> QED
    BY <1>1, <1>4, <2>2, <2>3 DEF OneLink
<1> QED
  BY <1>5, <1>10, <1>11, <1>12 DEF ListInv

\* The operators of sequences that the ghost uses, as puttings and takings.
LEMMA SequencesEdited ==
  ASSUME NEW s \in Seq(ListEntries), NEW e \in ListEntries
  PROVE  /\ PutIn(Append(s, e), s, Len(s) + 1, e)
         /\ PutIn(<<e>> \o s, s, 1, e)
         /\ \A j \in 1 .. Len(s) + 1 : PutIn(InsertAt(s, j, e), s, j, e)
         /\ \A j \in 1 .. Len(s) : TakenOut(RemoveAt(s, j), s, j)
         /\ s # <<>> => TakenOut(Tail(s), s, 1) /\ TakenOut(Front(s), s, Len(s))
<1>1. Len(s) \in Nat /\ DOMAIN s = 1 .. Len(s)
  OBVIOUS
<1>2. PutIn(Append(s, e), s, Len(s) + 1, e)
  BY <1>1 DEF PutIn
<1>3. PutIn(<<e>> \o s, s, 1, e)
  BY <1>1 DEF PutIn
<1>4. ASSUME NEW j \in 1 .. Len(s) + 1 PROVE PutIn(InsertAt(s, j, e), s, j, e)
  <2> DEFINE a == SubSeq(s, 1, j - 1)
             b == SubSeq(s, j, Len(s))
             t == (a \o <<e>>) \o b
  <2>1. /\ a \in Seq(ListEntries) /\ Len(a) = j - 1 /\ \A i \in 1 .. j - 1 : a[i] = s[i]
        /\ b \in Seq(ListEntries) /\ Len(b) = Len(s) - j + 1 /\ \A i \in 1 .. Len(s) - j + 1 : b[i] = s[j + i - 1]
    BY <1>1, <1>4
  <2> HIDE DEF a, b
  <2>2. /\ t \in Seq(ListEntries) /\ Len(t) = Len(s) + 1 /\ t[j] = e
        /\ \A i \in 1 .. Len(t) : (i < j => t[i] = a[i]) /\ (i > j => t[i] = b[i - j])
    <3> DEFINE c == a \o <<e>>
    <3>1. j \in Nat /\ j >= 1 /\ j <= Len(s) + 1
      BY <1>1, <1>4
    <3>2. /\ c \in Seq(ListEntries) /\ Len(c) = j /\ c[j] = e
          /\ \A i \in 1 .. j - 1 : c[i] = a[i]
      <4>1. a \in Seq(ListEntries) /\ Len(a) = j - 1
        BY <2>1
      <4>2. c = Append(a, e)
        BY <4>1
      <4>3. /\ Append(a, e) \in Seq(ListEntries) /\ Len(Append(a, e)) = Len(a) + 1
            /\ Append(a, e)[Len(a) + 1] = e
            /\ \A i \in 1 .. Len(a) : Append(a, e)[i] = a[i]
        BY <4>1
      <4> HIDE DEF c
      <4> QED
        BY <4>1, <4>2, <4>3, <3>1
    <3> HIDE DEF c
    <3>3. /\ c \o b \in Seq(ListEntries) /\ Len(c \o b) = Len(c) + Len(b)
          /\ \A i \in 1 .. Len(c) : (c \o b)[i] = c[i]
          /\ \A i \in 1 .. Len(c) + Len(b) : i > Len(c) => (c \o b)[i] = b[i - Len(c)]
      BY <2>1, <3>2
    <3>4. Len(c) + Len(b) = Len(s) + 1
      BY <2>1, <3>1, <3>2, <1>1
    <3>5. t = c \o b
      BY DEF c
    <3>6. t \in Seq(ListEntries) /\ Len(t) = Len(s) + 1 /\ t[j] = e
      <4>1. j \in 1 .. Len(c)
        BY <3>1, <3>2
      <4>2. (c \o b)[j] = e
        BY <4>1, <3>2, <3>3
      <4> HIDE DEF t
      <4> QED
        BY <4>2, <3>3, <3>4, <3>5
    <3>7. ASSUME NEW i \in 1 .. Len(s) + 1
          PROVE  (i < j => t[i] = a[i]) /\ (i > j => t[i] = b[i - j])
      <4>1. i < j => i \in 1 .. j - 1 /\ i \in 1 .. Len(c)
        BY <3>1, <3>2
      <4>2. i > j => i > Len(c) /\ i \in 1 .. Len(c) + Len(b)
        BY <3>1, <3>2, <3>4
      <4> QED
        BY <4>1, <4>2, <3>2, <3>3, <3>5
    <3> QED
      BY <3>6, <3>7
  <2>3. \A i \in 1 .. Len(t) : (i < j => t[i] = s[i]) /\ (i > j => t[i] = s[i - 1])
    <3> SUFFICES ASSUME NEW i \in 1 .. Len(s) + 1 PROVE (i < j => t[i] = s[i]) /\ (i > j => t[i] = s[i - 1])
      BY <2>2
    <3>1. i < j => i \in 1 .. j - 1
      BY <1>4
    <3>2. i > j => i - j \in 1 .. Len(s) - j + 1 /\ j + (i - j) - 1 = i - 1
      BY <1>1, <1>4
    <3> QED
      BY <3>1, <3>2, <2>1, <2>2
  <2> QED
    BY <2>2, <2>3 DEF PutIn, InsertAt, a, b
<1>5. ASSUME NEW j \in 1 .. Len(s) PROVE TakenOut(RemoveAt(s, j), s, j)
  <2> DEFINE a == SubSeq(s, 1, j - 1)
             b == SubSeq(s, j + 1, Len(s))
             t == a \o b
  <2>1. /\ a \in Seq(ListEntries) /\ Len(a) = j - 1 /\ \A i \in 1 .. j - 1 : a[i] = s[i]
        /\ b \in Seq(ListEntries) /\ Len(b) = Len(s) - j /\ \A i \in 1 .. Len(s) - j : b[i] = s[j + i]
    <3>1. j \in Nat /\ j >= 1 /\ j <= Len(s)
      BY <1>1, <1>5
    <3>2. a \in Seq(ListEntries) /\ Len(a) = j - 1 /\ \A i \in 1 .. j - 1 : a[i] = s[i]
      BY <3>1, Excerpt
    <3>3. b \in Seq(ListEntries) /\ Len(b) = Len(s) - j /\ \A i \in 1 .. Len(s) - j : b[i] = s[j + i]
      <4> DEFINE m == j + 1
                 n == Len(s)
      <4>1. m \in Nat /\ n \in Nat /\ 1 <= m /\ m <= n + 1 /\ n <= Len(s) /\ n - m + 1 = Len(s) - j
        BY <1>1, <3>1
      <4>2. \A i \in 1 .. Len(s) - j : m + i - 1 = j + i
        BY <3>1, <1>1
      <4>3. b = SubSeq(s, m, n)
        BY DEF b
      <4> HIDE DEF b, m, n
      <4>4. /\ SubSeq(s, m, n) \in Seq(ListEntries) /\ Len(SubSeq(s, m, n)) = n - m + 1
            /\ \A i \in 1 .. n - m + 1 : SubSeq(s, m, n)[i] = s[m + i - 1]
        BY <4>1, Excerpt
      <4> QED
        BY <4>1, <4>2, <4>3, <4>4
    <3> QED
      BY <3>2, <3>3
  <2> HIDE DEF a, b
  <2>2. /\ t \in Seq(ListEntries) /\ Len(t) = Len(s) - 1
        /\ \A i \in 1 .. Len(t) : (i < j => t[i] = a[i]) /\ (i >= j => t[i] = b[i - j + 1])
    <3>1. j \in Nat /\ j >= 1 /\ j <= Len(s)
      BY <1>1, <1>5
    <3>2. /\ t \in Seq(ListEntries) /\ Len(t) = Len(a) + Len(b)
          /\ \A i \in 1 .. Len(a) : t[i] = a[i]
          /\ \A i \in 1 .. Len(a) + Len(b) : i > Len(a) => t[i] = b[i - Len(a)]
      <4>1. a \in Seq(ListEntries) /\ b \in Seq(ListEntries)
        BY <2>1
      <4> QED
        BY <4>1
    <3>3. Len(a) + Len(b) = Len(s) - 1
      BY <2>1, <3>1, <1>1
    <3>4. ASSUME NEW i \in 1 .. Len(s) - 1
          PROVE  (i < j => t[i] = a[i]) /\ (i >= j => t[i] = b[i - j + 1])
      <4>1. i < j => i \in 1 .. Len(a)
        BY <2>1, <3>1
      <4>2. i >= j => i > Len(a) /\ i \in 1 .. Len(a) + Len(b) /\ i - Len(a) = i - j + 1
        BY <2>1, <3>1, <3>3
      <4> QED
        BY <4>1, <4>2, <3>2, <3>1
    <3> QED
      BY <3>2, <3>3, <3>4
  <2>3. \A i \in 1 .. Len(t) : (i < j => t[i] = s[i]) /\ (i >= j => t[i] = s[i + 1])
    <3> SUFFICES ASSUME NEW i \in 1 .. Len(s) - 1 PROVE (i < j => t[i] = s[i]) /\ (i >= j => t[i] = s[i + 1])
      BY <2>2
    <3>1. i < j => i \in 1 .. j - 1
      BY <1>5
    <3>2. i >= j => i - j + 1 \in 1 .. Len(s) - j /\ j + (i - j + 1) = i + 1
      BY <1>1, <1>5
    <3> QED
      BY <3>1, <3>2, <2>1, <2>2
  <2> QED
    BY <2>2, <2>3 DEF TakenOut, RemoveAt, a, b
<1>6. ASSUME s # <<>> PROVE TakenOut(Tail(s), s, 1) /\ TakenOut(Front(s), s, Len(s))
  <2>1. Len(s) >= 1
    BY <1>1, <1>6
  <2>2. TakenOut(Tail(s), s, 1)
    BY <1>1, <1>6, <2>1 DEF TakenOut
  <2>3. TakenOut(Front(s), s, Len(s))
    BY <1>1, <2>1 DEF TakenOut, Front
  <2> QED
    BY <2>2, <2>3
<1> QED
  BY <1>2, <1>3, <1>4, <1>5, <1>6

\* Both ends of a ring, and what the links of a place are.
LEMMA RingEnds ==
  ListInv => \A h \in ListHeads :
    /\ Len(contents[h]) \in Nat /\ contents[h] \in Seq(ListEntries)
    /\ Place(h, 0) = h /\ Place(h, Len(contents[h]) + 1) = h
    /\ Flink[h] = Place(h, 1) /\ Blink[h] = Place(h, Len(contents[h]))
    /\ \A i \in 0 .. Len(contents[h]) : Flink[Place(h, i)] = Place(h, i + 1)
    /\ \A i \in 1 .. Len(contents[h]) + 1 : Blink[Place(h, i)] = Place(h, i - 1)
    /\ \A i \in 1 .. Len(contents[h]) : Place(h, i) = contents[h][i]
    /\ IsInjective(contents[h])
<1> SUFFICES ASSUME ListInv, NEW h \in ListHeads
    PROVE  /\ Len(contents[h]) \in Nat /\ contents[h] \in Seq(ListEntries)
           /\ Place(h, 0) = h /\ Place(h, Len(contents[h]) + 1) = h
           /\ Flink[h] = Place(h, 1) /\ Blink[h] = Place(h, Len(contents[h]))
           /\ \A i \in 0 .. Len(contents[h]) : Flink[Place(h, i)] = Place(h, i + 1)
           /\ \A i \in 1 .. Len(contents[h]) + 1 : Blink[Place(h, i)] = Place(h, i - 1)
           /\ \A i \in 1 .. Len(contents[h]) : Place(h, i) = contents[h][i]
           /\ IsInjective(contents[h])
  OBVIOUS
<1>1. /\ Len(contents[h]) \in Nat /\ contents[h] \in Seq(ListEntries)
      /\ DOMAIN contents[h] = 1 .. Len(contents[h])
  BY DEF ListInv, ListTypes
<1>2. Place(h, 0) = h /\ Place(h, Len(contents[h]) + 1) = h
  BY <1>1 DEF Place, NodeAt
<1>3. \A i \in 0 .. Len(contents[h]) : Flink[Place(h, i)] = Place(h, i + 1) /\ Blink[Place(h, i + 1)] = Place(h, i)
  BY DEF ListInv, Linked, Place
<1>4. \A i \in 1 .. Len(contents[h]) + 1 : Blink[Place(h, i)] = Place(h, i - 1)
  <2> SUFFICES ASSUME NEW i \in 1 .. Len(contents[h]) + 1 PROVE Blink[Place(h, i)] = Place(h, i - 1)
    OBVIOUS
  <2>1. i - 1 \in 0 .. Len(contents[h]) /\ (i - 1) + 1 = i
    BY <1>1
  <2>2. Blink[Place(h, (i - 1) + 1)] = Place(h, i - 1)
    BY <1>3, <2>1
  <2> QED
    BY <2>1, <2>2
<1>5. 0 \in 0 .. Len(contents[h]) /\ 0 + 1 = 1
  BY <1>1
<1>6. Flink[h] = Place(h, 1)
  BY <1>2, <1>3, <1>5
<1>7. Blink[h] = Place(h, Len(contents[h]))
  BY <1>1, <1>2, <1>3
<1>8. \A i \in 1 .. Len(contents[h]) : Place(h, i) = contents[h][i]
  BY <1>1 DEF Place, NodeAt
<1>9. IsInjective(contents[h])
  BY <1>1 DEF ListInv, OneLink, IsInjective
<1> QED
  BY <1>1, <1>2, <1>3, <1>4, <1>6, <1>7, <1>8, <1>9

\* Following the links forwards finds the sequence.
LEMMA ForwardIs == ListInv => \A h \in ListHeads : Forward(h) = contents[h]
<1> SUFFICES ASSUME ListInv, NEW h \in ListHeads PROVE Forward(h) = contents[h]
  OBVIOUS
<1>1. \A i \in 0 .. Len(contents[h]) : Flink[NodeAt(contents[h], h, i)] = NodeAt(contents[h], h, i + 1)
  BY DEF ListInv, Linked
<1> QED
  BY <1>1, RingEnds, Following DEF Forward

LEMMA TailInserted ==
  ListInv /\ (\E h \in ListHeads, e \in ListEntries : InsertTailList(h, e)) => ListInv'
<1> SUFFICES ASSUME ListInv, NEW h \in ListHeads, NEW e \in ListEntries, InsertTailList(h, e) PROVE ListInv'
  OBVIOUS
<1> DEFINE s == contents[h]
           j == Len(s) + 1
<1>1. /\ InNoList(e) /\ contents' = [contents EXCEPT ![h] = Append(s, e)]
      /\ Flink' = [Flink EXCEPT ![e] = h, ![Blink[h]] = e]
      /\ Blink' = [Blink EXCEPT ![e] = Blink[h], ![h] = e]
  BY DEF InsertTailList, InsertBefore
<1>2. /\ j \in 1 .. Len(s) + 1 /\ Place(h, j) = h /\ Place(h, j - 1) = Blink[h] /\ s \in Seq(ListEntries)
  BY RingEnds
<1>3. PutIn(Append(s, e), s, j, e)
  BY <1>2, SequencesEdited
<1> QED
  BY <1>1, <1>2, <1>3, EntryLinked

LEMMA HeadInserted ==
  ListInv /\ (\E h \in ListHeads, e \in ListEntries : InsertHeadList(h, e)) => ListInv'
<1> SUFFICES ASSUME ListInv, NEW h \in ListHeads, NEW e \in ListEntries, InsertHeadList(h, e) PROVE ListInv'
  OBVIOUS
<1> DEFINE s == contents[h]
<1>1. /\ InNoList(e) /\ contents' = [contents EXCEPT ![h] = <<e>> \o s]
      /\ Flink' = [Flink EXCEPT ![e] = Flink[h], ![h] = e]
      /\ Blink' = [Blink EXCEPT ![e] = h, ![Flink[h]] = e]
  BY DEF InsertHeadList
<1>2. /\ 1 \in 1 .. Len(s) + 1 /\ Place(h, 1) = Flink[h] /\ Place(h, 1 - 1) = h /\ s \in Seq(ListEntries)
  BY RingEnds
<1>3. PutIn(<<e>> \o s, s, 1, e)
  BY <1>2, SequencesEdited
<1> QED
  BY <1>1, <1>2, <1>3, EntryLinked

LEMMA OrderedInserted ==
  ListInv /\ (\E h \in ListHeads, e \in ListEntries : InsertOrderedList(h, e)) => ListInv'
<1> SUFFICES ASSUME ListInv, NEW h \in ListHeads, NEW e \in ListEntries, InsertOrderedList(h, e) PROVE ListInv'
  OBVIOUS
<1> DEFINE s == contents[h]
           Greater == {i \in 1 .. Len(s) : Rank[e] < Rank[s[i]]}
           k == IF Greater # {} THEN Min(Greater) ELSE 0
           j == IF k = 0 THEN Len(s) + 1 ELSE k
           n == OrderedPlace(h, e)
<1>1. s \in Seq(ListEntries) /\ Len(s) \in Nat /\ Forward(h) = s
  BY RingEnds, ForwardIs
<1>2. k \in 0 .. Len(s)
  <2>1. Greater \in SUBSET Nat
    BY <1>1
  <2>2. Greater # {} => Min(Greater) \in Greater
    <3> HIDE DEF Greater
    <3> QED
      BY <2>1, MinIsLeast
  <2> QED
    BY <1>1, <2>2
<1>3. n = IF k = 0 THEN h ELSE s[k]
  BY <1>1 DEF OrderedPlace, SelectInSeq
<1>4. InNoList(e) /\ InsertBefore(n, e) /\ contents' = [contents EXCEPT ![h] = InsertAt(s, j, e)]
  BY DEF InsertOrderedList, SelectInSeq
<1> HIDE DEF k, n
<1>5. j \in 1 .. Len(s) + 1 /\ Place(h, j) = n /\ Blink[n] = Place(h, j - 1)
  BY <1>1, <1>2, <1>3, RingEnds
<1> HIDE DEF j
<1>6. /\ Flink' = [Flink EXCEPT ![e] = Place(h, j), ![Place(h, j - 1)] = e]
      /\ Blink' = [Blink EXCEPT ![e] = Place(h, j - 1), ![Place(h, j)] = e]
  BY <1>4, <1>5 DEF InsertBefore
<1>7. PutIn(InsertAt(s, j, e), s, j, e)
  BY <1>1, <1>5, SequencesEdited
<1> QED
  BY <1>4, <1>5, <1>6, <1>7, EntryLinked

LEMMA EntryRemoved ==
  ListInv /\ (\E h \in ListHeads, e \in ListEntries : RemoveEntryList(h, e)) => ListInv'
<1> SUFFICES ASSUME ListInv, NEW h \in ListHeads, NEW e \in ListEntries, RemoveEntryList(h, e) PROVE ListInv'
  OBVIOUS
<1> DEFINE s == contents[h]
           Hits == {i \in 1 .. Len(s) : s[i] = e}
           j == Min(Hits)
<1>1. s \in Seq(ListEntries) /\ Len(s) \in Nat
  BY RingEnds
<1>2. Hits # {} /\ \E i \in 1 .. Len(s) : s[i] = e
  BY DEF RemoveEntryList, Contains
<1>3. j \in 1 .. Len(s) /\ s[j] = e
  <2>1. Hits \in SUBSET Nat
    BY <1>1
  <2>2. j \in Hits
    BY <2>1, <1>2, MinIsLeast
  <2> QED
    BY <2>2
<1>4. RemoveFirst(s, e) = RemoveAt(s, j)
  BY <1>2 DEF RemoveFirst, SelectInSeq
<1> HIDE DEF j
<1>5. Place(h, j) = e /\ Flink[e] = Place(h, j + 1) /\ Blink[e] = Place(h, j - 1)
  BY <1>1, <1>3, RingEnds
<1>6. /\ Flink' = [Flink EXCEPT ![Place(h, j - 1)] = Place(h, j + 1)]
      /\ Blink' = [Blink EXCEPT ![Place(h, j + 1)] = Place(h, j - 1)]
      /\ contents' = [contents EXCEPT ![h] = RemoveAt(s, j)]
  BY <1>4, <1>5 DEF RemoveEntryList
<1>7. TakenOut(RemoveAt(s, j), s, j)
  BY <1>1, <1>3, SequencesEdited
<1> QED
  BY <1>3, <1>6, <1>7, EntryUnlinked

\* Removing from an empty list writes the links of the head again.
LEMMA ListStays == ListInv /\ UNCHANGED listVars => ListInv'
BY DEF ListInv, ListTypes, OneLink, Linked, listVars

LEMMA HeadRemoved == ListInv /\ (\E h \in ListHeads : RemoveHeadList(h)) => ListInv'
<1> SUFFICES ASSUME ListInv, NEW h \in ListHeads, RemoveHeadList(h) PROVE ListInv'
  OBVIOUS
<1> DEFINE s == contents[h]
<1>1. /\ s \in Seq(ListEntries) /\ Len(s) \in Nat /\ Flink[h] = Place(h, 1)
      /\ Place(h, 0) = h /\ Place(h, Len(s) + 1) = h /\ Blink[h] = Place(h, Len(s))
  BY RingEnds
<1>2. Flink \in [ListNodes -> ListNodes] /\ Blink \in [ListNodes -> ListNodes] /\ contents \in [ListHeads -> Seq(ListEntries)]
  BY DEF ListInv, ListTypes
<1>3. /\ Flink' = [Flink EXCEPT ![h] = Flink[Flink[h]]]
      /\ Blink' = [Blink EXCEPT ![Flink[Flink[h]]] = h]
      /\ contents' = [contents EXCEPT ![h] = IF s = <<>> THEN s ELSE Tail(s)]
  BY DEF RemoveHeadList
<1>4. CASE s = <<>>
  <2>1. Flink[h] = h /\ Blink[h] = h
    <3>1. Len(s) = 0 /\ Len(s) + 1 = 1
      BY <1>4
    <3> QED
      BY <1>1, <3>1
  <2>2. UNCHANGED listVars
    BY <2>1, <1>2, <1>3, <1>4 DEF listVars
  <2> QED
    BY <2>2, ListStays
<1>5. CASE s # <<>>
  <2>1. 1 \in 1 .. Len(s) /\ 1 \in 0 .. Len(s)
    BY <1>1, <1>5
  <2>2. Flink[Place(h, 1)] = Place(h, 1 + 1)
    BY <2>1, RingEnds
  <2>3. TakenOut(Tail(s), s, 1)
    <3>1. s[1] \in ListEntries
      BY <1>1, <2>1
    <3> QED
      BY <3>1, <1>1, <1>5, SequencesEdited
  <2>4. /\ Flink' = [Flink EXCEPT ![Place(h, 1 - 1)] = Place(h, 1 + 1)]
        /\ Blink' = [Blink EXCEPT ![Place(h, 1 + 1)] = Place(h, 1 - 1)]
        /\ contents' = [contents EXCEPT ![h] = Tail(s)]
    <3>1. Place(h, 1 - 1) = h /\ Flink[Flink[h]] = Place(h, 1 + 1)
      BY <2>2, <1>1
    <3> QED
      BY <3>1, <1>3, <1>5
  <2> QED
    BY <2>1, <2>3, <2>4, EntryUnlinked
<1> QED
  BY <1>4, <1>5

LEMMA TailRemoved == ListInv /\ (\E h \in ListHeads : RemoveTailList(h)) => ListInv'
<1> SUFFICES ASSUME ListInv, NEW h \in ListHeads, RemoveTailList(h) PROVE ListInv'
  OBVIOUS
<1> DEFINE s == contents[h]
           j == Len(s)
<1>1. /\ s \in Seq(ListEntries) /\ Len(s) \in Nat /\ Flink[h] = Place(h, 1)
      /\ Place(h, 0) = h /\ Place(h, j + 1) = h /\ Blink[h] = Place(h, j)
  BY RingEnds
<1>2. Flink \in [ListNodes -> ListNodes] /\ Blink \in [ListNodes -> ListNodes] /\ contents \in [ListHeads -> Seq(ListEntries)]
  BY DEF ListInv, ListTypes
<1>3. /\ Blink' = [Blink EXCEPT ![h] = Blink[Blink[h]]]
      /\ Flink' = [Flink EXCEPT ![Blink[Blink[h]]] = h]
      /\ contents' = [contents EXCEPT ![h] = IF s = <<>> THEN s ELSE Front(s)]
  BY DEF RemoveTailList
<1>4. CASE s = <<>>
  <2>1. Flink[h] = h /\ Blink[h] = h
    <3>1. Len(s) = 0 /\ Len(s) + 1 = 1
      BY <1>4
    <3> QED
      BY <1>1, <3>1
  <2>2. UNCHANGED listVars
    BY <2>1, <1>2, <1>3, <1>4 DEF listVars
  <2> QED
    BY <2>2, ListStays
<1>5. CASE s # <<>>
  <2>1. j \in 1 .. Len(s) /\ j \in 1 .. Len(s) + 1
    BY <1>1, <1>5
  <2>2. Blink[Place(h, j)] = Place(h, j - 1)
    BY <2>1, RingEnds
  <2>3. TakenOut(Front(s), s, j)
    <3>1. s[1] \in ListEntries
      BY <1>1, <2>1
    <3> QED
      BY <3>1, <1>1, <1>5, SequencesEdited
  <2>4. /\ Flink' = [Flink EXCEPT ![Place(h, j - 1)] = Place(h, j + 1)]
        /\ Blink' = [Blink EXCEPT ![Place(h, j + 1)] = Place(h, j - 1)]
        /\ contents' = [contents EXCEPT ![h] = Front(s)]
    BY <2>2, <1>1, <1>3, <1>5
  <2> QED
    BY <2>1, <2>3, <2>4, EntryUnlinked
<1> QED
  BY <1>4, <1>5

LEMMA InitListInv == InitializeListHead => ListInv
<1> SUFFICES ASSUME InitializeListHead PROVE ListInv
  OBVIOUS
<1>1. \A h \in ListHeads : contents[h] = <<>> /\ h \in ListNodes
  BY DEF InitializeListHead, ListNodes
<1>2. ListTypes
  <2>1. contents \in [ListHeads -> Seq(ListEntries)]
    BY DEF InitializeListHead
  <2> QED
    BY <2>1 DEF InitializeListHead, ListTypes
<1>3. OneLink
  BY <1>1 DEF OneLink
<1>4. ASSUME NEW h \in ListHeads PROVE Linked(h)
  <2>1. Len(contents[h]) = 0 /\ DOMAIN contents[h] = {}
    BY <1>1, <1>4
  <2>2. \A i \in 0 .. 0 : NodeAt(contents[h], h, i) = h /\ NodeAt(contents[h], h, i + 1) = h
    BY <2>1 DEF NodeAt
  <2> QED
    BY <2>1, <2>2, <1>1, <1>4 DEF Linked, InitializeListHead
<1> QED
  BY <1>2, <1>3, <1>4 DEF ListInv

LEMMA NextListInv == ListInv /\ [ListNext]_listVars => ListInv'
<1>1. ListInv /\ ListNext => ListInv'
  BY TailInserted, HeadInserted, OrderedInserted, EntryRemoved, HeadRemoved, TailRemoved DEF ListNext
<1> QED
  BY <1>1, ListStays

\* Following the links backwards finds the sequence in reverse.
LEMMA BackwardIs == ListInv => \A h \in ListHeads : Followed(Blink, h) = Reverse(contents[h])
<1> SUFFICES ASSUME ListInv, NEW h \in ListHeads PROVE Followed(Blink, h) = Reverse(contents[h])
  OBVIOUS
<1> DEFINE s == contents[h]
           r == Reverse(s)
<1>1. /\ Len(s) \in Nat /\ s \in Seq(ListEntries) /\ DOMAIN s = 1 .. Len(s) /\ IsInjective(s)
      /\ \A i \in 1 .. Len(s) : s[i] \in ListEntries
      /\ \A i \in 1 .. Len(s) + 1 : Blink[Place(h, i)] = Place(h, i - 1)
  BY RingEnds
<1>2. /\ r \in Seq(ListEntries) /\ Len(r) = Len(s) /\ DOMAIN r = 1 .. Len(s)
      /\ \A i \in 1 .. Len(s) : r[i] = s[(Len(s) - i) + 1]
  <2>1. \A i \in 1 .. Len(s) : (Len(s) - i) + 1 \in 1 .. Len(s)
    BY <1>1
  <2>2. r \in [1 .. Len(s) -> ListEntries]
    BY <1>1, <2>1 DEF Reverse
  <2>3. \A i \in 1 .. Len(s) : r[i] = s[(Len(s) - i) + 1]
    BY DEF Reverse
  <2> HIDE DEF r
  <2> QED
    BY <2>2, <2>3, <1>1
<1> HIDE DEF r
<1>3. IsInjective(r)
  <2> SUFFICES ASSUME NEW i \in 1 .. Len(s), NEW j \in 1 .. Len(s), r[i] = r[j] PROVE i = j
    BY <1>2 DEF IsInjective
  <2>1. (Len(s) - i) + 1 \in DOMAIN s /\ (Len(s) - j) + 1 \in DOMAIN s
    BY <1>1
  <2>2. (Len(s) - i) + 1 = (Len(s) - j) + 1
    BY <2>1, <1>1, <1>2 DEF IsInjective
  <2> QED
    BY <2>2, <1>1
<1>4. \A i \in 0 .. Len(s) + 1 : NodeAt(r, h, i) = Place(h, (Len(s) - i) + 1)
  <2> SUFFICES ASSUME NEW i \in 0 .. Len(s) + 1 PROVE NodeAt(r, h, i) = Place(h, (Len(s) - i) + 1)
    OBVIOUS
  <2>1. i \in DOMAIN r <=> (Len(s) - i) + 1 \in DOMAIN s
    BY <1>1, <1>2
  <2> QED
    BY <2>1, <1>2 DEF NodeAt, Place
<1>5. \A i \in 0 .. Len(r) : Blink[NodeAt(r, h, i)] = NodeAt(r, h, i + 1)
  <2> SUFFICES ASSUME NEW i \in 0 .. Len(s) PROVE Blink[NodeAt(r, h, i)] = NodeAt(r, h, i + 1)
    BY <1>2
  <2> DEFINE k == (Len(s) - i) + 1
  <2>1. i \in 0 .. Len(s) + 1 /\ i + 1 \in 0 .. Len(s) + 1 /\ k \in 1 .. Len(s) + 1 /\ (Len(s) - (i + 1)) + 1 = k - 1
    BY <1>1
  <2>2. NodeAt(r, h, i) = Place(h, k) /\ NodeAt(r, h, i + 1) = Place(h, k - 1)
    <3>1. NodeAt(r, h, i + 1) = Place(h, (Len(s) - (i + 1)) + 1)
      BY <1>4, <2>1
    <3> QED
      BY <3>1, <1>4, <2>1
  <2> HIDE DEF k
  <2> QED
    BY <2>1, <2>2, <1>1
<1> QED
  BY <1>2, <1>3, <1>5, Following DEF r

\* The assertion of every operation holds of the head and of each entry.
LEMMA EntriesValid ==
  ListInv => \A h \in ListHeads : \A n \in {h} \union ToSet(contents[h]) : ValidateListEntry(n)
<1> SUFFICES ASSUME ListInv, NEW h \in ListHeads, NEW n \in {h} \union ToSet(contents[h]) PROVE ValidateListEntry(n)
  OBVIOUS
<1> DEFINE s == contents[h]
<1>1. /\ Len(s) \in Nat /\ DOMAIN s = 1 .. Len(s) /\ Place(h, 0) = h /\ Place(h, Len(s) + 1) = h
      /\ \A i \in 0 .. Len(s) : Flink[Place(h, i)] = Place(h, i + 1)
      /\ \A i \in 1 .. Len(s) + 1 : Blink[Place(h, i)] = Place(h, i - 1)
      /\ \A i \in 1 .. Len(s) : Place(h, i) = s[i]
  BY RingEnds
<1>2. PICK i \in 0 .. Len(s) : n = Place(h, i)
  BY <1>1 DEF ToSet
<1>3. Blink[Flink[n]] = n
  <2>1. i + 1 \in 1 .. Len(s) + 1 /\ (i + 1) - 1 = i
    BY <1>1
  <2>2. Blink[Place(h, i + 1)] = Place(h, (i + 1) - 1)
    BY <2>1, <1>1
  <2> QED
    BY <2>1, <2>2, <1>1, <1>2
<1>4. PICK j \in 1 .. Len(s) + 1 : n = Place(h, j)
  BY <1>1, <1>2
<1>5. Flink[Blink[n]] = n
  <2>1. j - 1 \in 0 .. Len(s) /\ (j - 1) + 1 = j
    BY <1>1
  <2>2. Flink[Place(h, j - 1)] = Place(h, (j - 1) + 1)
    BY <2>1, <1>1
  <2> QED
    BY <2>1, <2>2, <1>1, <1>4
<1> QED
  BY <1>3, <1>5 DEF ValidateListEntry

\* What the operations that search find.
LEMMA SearchesFind ==
  ListInv => \A h \in ListHeads, e \in ListEntries :
    /\ ListSearchForElement(h, e) = "NULL" <=> \A x \in ToSet(contents[h]) : Rank[x] # Rank[e]
    /\ Contains(contents[h], e) => Last(ForEachElementExecute(h, e)) = e
<1> SUFFICES ASSUME ListInv, NEW h \in ListHeads, NEW e \in ListEntries
    PROVE  /\ ListSearchForElement(h, e) = "NULL" <=> \A x \in ToSet(contents[h]) : Rank[x] # Rank[e]
           /\ Contains(contents[h], e) => Last(ForEachElementExecute(h, e)) = e
  OBVIOUS
<1> DEFINE s == contents[h]
           Equal == {i \in 1 .. Len(s) : Rank[s[i]] = Rank[e]}
           Itself == {i \in 1 .. Len(s) : s[i] = e}
<1>1. Forward(h) = s /\ s \in Seq(ListEntries) /\ Len(s) \in Nat /\ DOMAIN s = 1 .. Len(s)
  BY ForwardIs, RingEnds
<1>2. /\ Equal # {} => Min(Equal) \in Equal
      /\ Itself # {} => Min(Itself) \in Itself
  <2>1. Equal \in SUBSET Nat /\ Itself \in SUBSET Nat
    BY <1>1
  <2> HIDE DEF Equal, Itself
  <2> QED
    BY <2>1, MinIsLeast
<1>3. ListSearchForElement(h, e) = LET i == IF Equal # {} THEN Min(Equal) ELSE 0 IN IF i = 0 THEN "NULL" ELSE s[i]
  BY <1>1 DEF ListSearchForElement, SelectInSeq
<1>4. ForEachElementExecute(h, e) = LET i == IF Itself # {} THEN Min(Itself) ELSE 0 IN IF i = 0 THEN s ELSE SubSeq(s, 1, i)
  BY <1>1 DEF ForEachElementExecute, SelectInSeq
<1>5. ListSearchForElement(h, e) = "NULL" <=> \A x \in ToSet(s) : Rank[x] # Rank[e]
  <2>1. Equal = {} <=> \A x \in ToSet(s) : Rank[x] # Rank[e]
    BY <1>1 DEF ToSet
  <2>2. CASE Equal = {}
    BY <2>1, <2>2, <1>3
  <2>3. CASE Equal # {}
    <3>1. Min(Equal) \in 1 .. Len(s)
      BY <2>3, <1>2
    <3>2. ListSearchForElement(h, e) = s[Min(Equal)]
      BY <2>3, <3>1, <1>1, <1>3
    <3>3. s[Min(Equal)] \in ListEntries
      <4>1. \A i \in 1 .. Len(s) : s[i] \in ListEntries
        BY <1>1
      <4> HIDE DEF Equal
      <4> QED
        BY <4>1, <3>1
    <3> QED
      BY <2>1, <2>3, <3>2, <3>3, ListAssumption
  <2> QED
    BY <2>2, <2>3
<1>6. ASSUME Contains(s, e) PROVE Last(ForEachElementExecute(h, e)) = e
  <2> DEFINE m == Min(Itself)
  <2>1. m \in 1 .. Len(s) /\ s[m] = e
    BY <1>2, <1>6 DEF Contains
  <2>2. Itself # {}
    BY <1>6 DEF Contains
  <2>3. ForEachElementExecute(h, e) = IF m = 0 THEN s ELSE SubSeq(s, 1, m)
    BY <1>4, <2>2
  <2> HIDE DEF m
  <2>4. ForEachElementExecute(h, e) = SubSeq(s, 1, m)
    BY <2>1, <2>3, <1>1
  <2>5. Len(SubSeq(s, 1, m)) = m /\ SubSeq(s, 1, m)[m] = s[m]
    BY <2>1, <1>1
  <2> QED
    BY <2>1, <2>4, <2>5 DEF Last
<1> QED
  BY <1>5, <1>6

\* For any number of lists and entries and any sequence of the operations of
\* list.c: the links of each list, in both directions, are the sequence it
\* stands for, no assertion on an entry fails, and what the operations that
\* read find is what the sequence says.
THEOREM ListsSafe == InitializeListHead /\ [][ListNext]_listVars => []ListsAreSequences
<1>1. ASSUME ListInv PROVE ListsAreSequences
  <2> SUFFICES ASSUME NEW h \in ListHeads
      PROVE  LET s == contents[h] IN
             /\ Forward(h) = s
             /\ Followed(Blink, h) = Reverse(s)
             /\ \A n \in {h} \union ToSet(s) : ValidateListEntry(n)
             /\ IsListEmpty(h) <=> s = <<>>
             /\ ListSize(h) = Len(s)
             /\ \A i \in 0 .. Len(s) : GetListElemByIndex(h, i) = IF i < Len(s) THEN s[i + 1] ELSE "NULL"
             /\ \A e \in ListEntries :
                  /\ ListSearchForElement(h, e) = "NULL" <=> \A x \in ToSet(s) : Rank[x] # Rank[e]
                  /\ Contains(s, e) => Last(ForEachElementExecute(h, e)) = e
    BY DEF ListsAreSequences
  <2> DEFINE s == contents[h]
  <2>1. Forward(h) = s /\ Followed(Blink, h) = Reverse(s) /\ \A n \in {h} \union ToSet(s) : ValidateListEntry(n)
    BY <1>1, ForwardIs, BackwardIs, EntriesValid
  <2>2. IsListEmpty(h) <=> s = <<>>
    <3>1. /\ s \in Seq(ListEntries) /\ Len(s) \in Nat /\ Flink[h] = Place(h, 1) /\ Place(h, Len(s) + 1) = h
          /\ \A i \in 1 .. Len(s) : Place(h, i) = s[i]
      BY <1>1, RingEnds
    <3>2. CASE s = <<>>
      <4>1. Len(s) + 1 = 1
        BY <3>2
      <4> QED
        BY <3>1, <3>2, <4>1 DEF IsListEmpty
    <3>3. CASE s # <<>>
      <4>1. 1 \in 1 .. Len(s)
        BY <3>1, <3>3
      <4>2. Place(h, 1) \in ListEntries
        BY <3>1, <4>1
      <4> QED
        BY <3>1, <3>3, <4>2, ListAssumption DEF IsListEmpty
    <3> QED
      BY <3>2, <3>3
  <2>3. ListSize(h) = Len(s) /\ \A i \in 0 .. Len(s) : GetListElemByIndex(h, i) = IF i < Len(s) THEN s[i + 1] ELSE "NULL"
    BY <2>1 DEF ListSize, GetListElemByIndex
  <2>4. \A e \in ListEntries :
          /\ ListSearchForElement(h, e) = "NULL" <=> \A x \in ToSet(s) : Rank[x] # Rank[e]
          /\ Contains(s, e) => Last(ForEachElementExecute(h, e)) = e
    BY <1>1, SearchesFind
  <2> QED
    BY <2>1, <2>2, <2>3, <2>4
<1> QED
  BY InitListInv, NextListInv, <1>1, PTL

(***************************************************************************)
(* Packets on the device stacks.                                           *)
(***************************************************************************)

\* The devices and volumes after start-up are as they should be.
StacksBuilt == loaded = Len(Table) /\ DevicesSound /\ MountsExact

\* The packets IoAllocateIrp can make.
Packets ==
  [target : DOMAIN objects.devices, major : {"create", "read", "query", "control"}, size : Nat,
   CurrentStackLocation : Nat, at : DOMAIN objects.devices \cup {0}, completed : BOOLEAN, returned : BOOLEAN]

\* A packet on its way has a location for every device below it; one that was
\* not sent has one for its target too.
Fits(irp) ==
  /\ irp.CurrentStackLocation = IF irp.at = 0 THEN objects.devices[irp.target].stack
                                ELSE objects.devices[irp.at].stack - 1
  /\ irp.completed => irp.returned
  /\ irp.at = 0 => ~irp.returned

\* More volumes than letters: the assertion of
\* _IomuGetNextVolumeLetter.
OutOfLetters == Len(objects.vpbs) > LastLetter

\* The inductive invariant: no packet before the system has started, and then
\* each is for a device there is and fits.
PacketsInv ==
  /\ driverNames \in DriverTables /\ loaded \in Nat
  /\ loaded # Len(Table) => irps = <<>>
  /\ StacksBuilt => /\ irps \in Seq(Packets)
                    /\ \A i \in DOMAIN irps : Fits(irps[i])
                    /\ ioAssert => OutOfLetters

\* The table of drivers has a length.
LEMMA TableLength ==
  ASSUME driverNames \in DriverTables
  PROVE  Len(Table) \in Nat
BY IoAssumption DEF Table

\* What a device is like once the system has started.
LEMMA StartedDevices ==
  ASSUME StacksBuilt, NEW id \in DOMAIN objects.devices
  PROVE  LET d == objects.devices[id] IN
         /\ id # 0 /\ d.driver \in DOMAIN objects.lists
         /\ d.stack \in Nat \ {0}
         /\ d.type \in {"disk", "volume", "filesystem"} =>
              /\ d.attached # 0 /\ d.attached \in DOMAIN objects.devices
              /\ d.stack = objects.devices[d.attached].stack + 1
<1> DEFINE d == objects.devices[id]
<1>1. /\ id # 0 /\ d.driver \in DOMAIN objects.lists
      /\ (d.attached = 0) <=> (d.stack = 1)
      /\ d.attached # 0 => /\ d.attached \in DOMAIN objects.devices
                           /\ d.stack = objects.devices[d.attached].stack + 1
      /\ d.type \in DOMAIN Depth /\ d.stack = Depth[d.type]
  BY DEF StacksBuilt, DevicesSound
<1>2. d.stack \in 1 .. 4 /\ (d.type \in {"disk", "volume", "filesystem"} => d.stack # 1)
  BY <1>1 DEF Depth
<1> QED
  BY <1>1, <1>2

\* Before start-up there is no packet.
LEMMA PacketsInitially == IoInit => PacketsInv
<1> SUFFICES ASSUME IoInit PROVE PacketsInv
  OBVIOUS
<1>1. driverNames \in DriverTables /\ loaded = 0 /\ irps = <<>> /\ ~ioAssert
  BY DEF IoInit
<1> QED
  BY <1>1 DEF PacketsInv

\* Once the system has started the objects stay.
LEMMA StaysStarted ==
  ASSUME UNCHANGED <<driverNames, channels, loaded, objects>>
  PROVE  /\ StacksBuilt' = StacksBuilt /\ Packets' = Packets /\ Table' = Table /\ OutOfLetters' = OutOfLetters
         /\ \A irp : Fits(irp)' = Fits(irp)
<1>1. Table' = Table /\ OutOfLetters' = OutOfLetters /\ Packets' = Packets
  BY DEF Table, OutOfLetters, Packets
<1>2. \A o, v : PartitionInfo(o, v)' = PartitionInfo(o, v)
  BY DEF PartitionInfo
<1>3. DevicesSound' = DevicesSound /\ MountsExact' = MountsExact
  BY DEF DevicesSound, MountsExact, PartitionInfo
<1>4. \A irp : Fits(irp)' = Fits(irp)
  BY DEF Fits
<1> QED
  BY <1>1, <1>3, <1>4 DEF StacksBuilt

\* IoCreateDriver of the next driver: there are no packets yet, and the only
\* assertion is that of the letters.
LEMMA LoadStep ==
  ASSUME PacketsInv, IomuInitDrivers
  PROVE  PacketsInv'
<1>1. /\ loaded < Len(Table) /\ loaded' = loaded + 1
      /\ ioAssert' = (Len(objects'.vpbs) > LastLetter)
      /\ UNCHANGED <<driverNames, irps>>
  BY DEF IomuInitDrivers
<1>2. driverNames \in DriverTables /\ loaded \in Nat /\ Len(Table) \in Nat
  BY TableLength DEF PacketsInv
<1>3. irps = <<>>
  BY <1>1, <1>2 DEF PacketsInv
<1>4. ioAssert' => OutOfLetters'
  BY <1>1 DEF OutOfLetters
<1> QED
  BY <1>1, <1>2, <1>3, <1>4 DEF PacketsInv

\* A packet is made, for a device there is.
LEMMA MakeStep ==
  ASSUME PacketsInv, NEW id, StacksBuilt => id \in DOMAIN objects.devices,
         NEW major \in {"create", "read", "query", "control"}, MakeRequest(id, major)
  PROVE  PacketsInv'
<1>1. /\ loaded = Len(Table) /\ irps' = <<IoAllocateIrp(id, major)>>
      /\ UNCHANGED <<driverNames, channels, loaded, objects, ioAssert>>
  BY DEF MakeRequest, Ready
<1>2. ASSUME StacksBuilt PROVE IoAllocateIrp(id, major) \in Packets /\ Fits(IoAllocateIrp(id, major))
  BY <1>2, StartedDevices DEF IoAllocateIrp, Packets, Fits
<1>3. ASSUME StacksBuilt PROVE irps' \in Seq(Packets) /\ \A i \in DOMAIN irps' : Fits(irps'[i])
  BY <1>1, <1>2, <1>3
<1> QED
  BY <1>1, <1>3, StaysStarted DEF PacketsInv

\* The packet that is served is replaced by one that fits.
LEMMA TopStep ==
  ASSUME PacketsInv, irps # <<>>, loaded = Len(Table),
         UNCHANGED <<driverNames, channels, loaded, objects>>,
         NEW irp, irps' = [irps EXCEPT ![Len(irps)] = irp],
         StacksBuilt => irp \in Packets /\ Fits(irp) /\ ~ioAssert'
  PROVE  PacketsInv'
<1>1. ASSUME StacksBuilt PROVE irps' \in Seq(Packets) /\ \A i \in DOMAIN irps' : Fits(irps'[i])
  <2>1. irps \in Seq(Packets) /\ irp \in Packets /\ Fits(irp) /\ Len(irps) \in Nat /\ Len(irps) \in DOMAIN irps
        /\ \A i \in DOMAIN irps : Fits(irps[i])
    BY <1>1 DEF PacketsInv
  <2>2. irps' \in Seq(Packets) /\ DOMAIN irps' = DOMAIN irps
        /\ \A i \in DOMAIN irps : irps'[i] = IF i = Len(irps) THEN irp ELSE irps[i]
    BY <2>1
  <2> QED
    BY <2>1, <2>2
<1> QED
  BY <1>1, StaysStarted DEF PacketsInv

\* The packet that is served.
LEMMA TopFits ==
  ASSUME PacketsInv, InFlight
  PROVE  /\ loaded = Len(Table) /\ irps # <<>> /\ ~ioAssert
         /\ StacksBuilt => Top \in Packets /\ Fits(Top)
<1>1. loaded = Len(Table) /\ irps # <<>> /\ ~ioAssert
  BY DEF InFlight, Ready
<1>2. ASSUME StacksBuilt PROVE Top \in Packets /\ Fits(Top)
  <2>1. irps \in Seq(Packets) /\ \A i \in DOMAIN irps : Fits(irps[i])
    BY <1>2 DEF PacketsInv
  <2>2. Len(irps) \in DOMAIN irps
    BY <1>1, <2>1
  <2> QED
    BY <2>1, <2>2 DEF Top
<1> QED
  BY <1>1, <1>2

\* IoCallDriver with a packet that has a location for the device.
LEMMA CallStep ==
  ASSUME PacketsInv, InFlight, NEW id, IoCallDriver(id), StacksBuilt => ~Top.returned,
         StacksBuilt => id \in DOMAIN objects.devices /\ Top.CurrentStackLocation = objects.devices[id].stack
  PROVE  PacketsInv'
<1> DEFINE driver == objects.devices[id].driver
<1>1. PICK unaligned \in {FALSE, Top.at = 0 /\ Top.major = "read"} :
        /\ ioAssert' = (Top.CurrentStackLocation = 0 \/ (~unaligned /\ driver \notin DOMAIN objects.lists))
        /\ irps' = [irps EXCEPT ![Len(irps)].CurrentStackLocation = @ - 1, ![Len(irps)].at = id,
                                ![Len(irps)].returned = unaligned \/ Top.major \notin DispatchFunctions[driver]]
        /\ UNCHANGED <<driverNames, channels, loaded, objects>>
  BY DEF IoCallDriver
<1> DEFINE refused == unaligned \/ Top.major \notin DispatchFunctions[driver]
           one == [Top EXCEPT !.CurrentStackLocation = @ - 1]
           two == [one EXCEPT !.at = id]
           irp == [two EXCEPT !.returned = refused]
<1>2. loaded = Len(Table) /\ irps # <<>>
  BY TopFits
<1>3. irps' = [irps EXCEPT ![Len(irps)] = irp]
  BY <1>1, Zenon DEF Top
<1>4. refused \in BOOLEAN
  OBVIOUS
<1> HIDE DEF refused
<1>5. ASSUME StacksBuilt PROVE irp \in Packets /\ Fits(irp) /\ ~ioAssert'
  <2>1. Top \in Packets /\ ~Top.completed /\ id \in DOMAIN objects.devices /\ id # 0
        /\ Top.CurrentStackLocation = objects.devices[id].stack
        /\ objects.devices[id].stack \in Nat \ {0} /\ objects.devices[id].driver \in DOMAIN objects.lists
    BY <1>5, TopFits, StartedDevices DEF Fits
  <2>2. one \in Packets /\ one.CurrentStackLocation = objects.devices[id].stack - 1 /\ ~one.completed
    BY <2>1 DEF Packets
  <2> HIDE DEF one
  <2>3. two \in Packets /\ two.at = id /\ two.CurrentStackLocation = one.CurrentStackLocation /\ ~two.completed
    BY <2>1, <2>2 DEF Packets
  <2> HIDE DEF two
  <2>4. /\ irp \in Packets /\ irp.at = id /\ irp.CurrentStackLocation = one.CurrentStackLocation
        /\ ~irp.completed
    BY <1>4, <2>3 DEF Packets
  <2> QED
    BY <1>1, <2>1, <2>2, <2>4 DEF Fits
<1> HIDE DEF irp
<1> QED
  BY <1>1, <1>2, <1>3, <1>5, TopStep

\* A dispatch function returns, with or without IoCompleteIrp.
LEMMA ReturnStep ==
  ASSUME PacketsInv, InFlight, Top.at # 0, ~Top.returned, IoCompleteIrp \/ ReturnUncompleted
  PROVE  PacketsInv'
<1>1. loaded = Len(Table) /\ irps # <<>> /\ ~ioAssert
  BY TopFits
<1>2. UNCHANGED <<driverNames, channels, loaded, objects>> /\ ioAssert' \in {Top.completed, ioAssert}
  BY DEF IoCompleteIrp, ReturnUncompleted
<1>3. PICK end : /\ irps' = [irps EXCEPT ![Len(irps)] = end]
                 /\ \/ end = [Top EXCEPT !.completed = TRUE, !.returned = TRUE]
                    \/ end = [Top EXCEPT !.returned = TRUE]
  BY Zenon DEF IoCompleteIrp, ReturnUncompleted, Top
<1>4. ASSUME StacksBuilt PROVE end \in Packets /\ Fits(end) /\ ~ioAssert'
  <2>1. Top \in Packets /\ Fits(Top) /\ ~Top.completed
    BY <1>4, TopFits DEF Fits
  <2>2. end \in Packets /\ end.returned /\ end.at = Top.at /\ end.target = Top.target
        /\ end.CurrentStackLocation = Top.CurrentStackLocation
    <3>1. CASE end = [Top EXCEPT !.returned = TRUE]
      BY <2>1, <3>1 DEF Packets
    <3>2. CASE end = [Top EXCEPT !.completed = TRUE, !.returned = TRUE]
      <4> DEFINE one == [Top EXCEPT !.completed = TRUE]
      <4>1. one \in Packets /\ one.at = Top.at /\ one.target = Top.target
            /\ one.CurrentStackLocation = Top.CurrentStackLocation
        BY <2>1 DEF Packets
      <4>2. end = [one EXCEPT !.returned = TRUE]
        BY <3>2
      <4> HIDE DEF one
      <4> QED
        BY <4>1, <4>2 DEF Packets
    <3> QED
      BY <1>3, <3>1, <3>2
  <2> QED
    BY <1>1, <1>2, <2>1, <2>2 DEF Fits
<1> QED
  BY <1>1, <1>2, <1>3, <1>4, TopStep

\* A request of a file is for the file system its volume has mounted.
LEMMA MountedStep ==
  ASSUME PacketsInv, NEW letter, NEW vpb \in Mounted(letter),
         NEW major \in {"create", "read", "query", "control"}, MakeRequest(vpb.fs, major)
  PROVE  PacketsInv'
<1>1. letter \in DOMAIN objects.vpbs /\ vpb = objects.vpbs[letter] /\ vpb.fs # 0
  BY DEF Mounted, SearchForVpb
<1>2. StacksBuilt => vpb.fs \in DOMAIN objects.devices
  BY <1>1 DEF StacksBuilt, MountsExact
<1> QED
  BY <1>2, MakeStep

\* A file system makes a packet for its volume.
LEMMA ReadsStep ==
  ASSUME PacketsInv, FileSystemReads
  PROVE  PacketsInv'
<1> DEFINE irp == IoAllocateIrp(objects.devices[Top.at].attached, "read")
<1>1. /\ InFlight /\ Top.at # 0 /\ objects.devices[Top.at].type = "filesystem"
      /\ irps' = Append(irps, irp)
      /\ UNCHANGED <<driverNames, channels, loaded, objects, ioAssert>>
  BY DEF FileSystemReads, Dispatched
<1>2. loaded = Len(Table) /\ ~ioAssert
  BY <1>1, TopFits
<1>3. ASSUME StacksBuilt PROVE irp \in Packets /\ Fits(irp)
  <2>1. Top.at \in DOMAIN objects.devices
    BY <1>1, <1>3, TopFits DEF Packets
  <2>2. objects.devices[Top.at].attached \in DOMAIN objects.devices
    BY <1>1, <1>3, <2>1, StartedDevices
  <2>3. objects.devices[objects.devices[Top.at].attached].stack \in Nat
    BY <1>3, <2>2, StartedDevices
  <2> QED
    BY <2>2, <2>3 DEF IoAllocateIrp, Packets, Fits
<1> HIDE DEF irp
<1>4. ASSUME StacksBuilt PROVE irps' \in Seq(Packets) /\ \A i \in DOMAIN irps' : Fits(irps'[i])
  <2>1. irps \in Seq(Packets) /\ \A i \in DOMAIN irps : Fits(irps[i])
    BY <1>4 DEF PacketsInv
  <2>2. Len(irps) \in Nat /\ irps' \in Seq(Packets) /\ DOMAIN irps' = 1 .. Len(irps) + 1
        /\ \A i \in DOMAIN irps' : irps'[i] = IF i = Len(irps) + 1 THEN irp ELSE irps[i]
    BY <1>1, <1>3, <1>4, <2>1
  <2> QED
    BY <1>3, <1>4, <2>1, <2>2
<1> QED
  BY <1>1, <1>2, <1>4, StaysStarted DEF PacketsInv

\* IoFreeIrp: the packet below is served again.
LEMMA FreeStep ==
  ASSUME PacketsInv, IoFreeIrp
  PROVE  PacketsInv'
<1>1. /\ InFlight /\ irps' = SubSeq(irps, 1, Len(irps) - 1)
      /\ UNCHANGED <<driverNames, channels, loaded, objects, ioAssert>>
  BY DEF IoFreeIrp, Front
<1>2. loaded = Len(Table) /\ ~ioAssert /\ irps # <<>>
  BY <1>1, TopFits
<1>3. ASSUME StacksBuilt PROVE irps' \in Seq(Packets) /\ \A i \in DOMAIN irps' : Fits(irps'[i])
  <2>1. irps \in Seq(Packets) /\ \A i \in DOMAIN irps : Fits(irps[i])
    BY <1>3 DEF PacketsInv
  <2>2. irps' \in Seq(Packets) /\ DOMAIN irps' = 1 .. Len(irps) - 1
        /\ \A i \in DOMAIN irps' : i \in DOMAIN irps /\ irps'[i] = irps[i]
    BY <1>1, <1>2, <2>1
  <2> QED
    BY <2>1, <2>2
<1> QED
  BY <1>1, <1>2, <1>3, StaysStarted DEF PacketsInv

\* VolDispatchReadWrite and DiskDispatchReadWrite: the device below is one
\* location lower.
LEMMA PassStep ==
  ASSUME PacketsInv, PassDown
  PROVE  PacketsInv'
<1> DEFINE below == objects.devices[Top.at].attached
<1>1. /\ InFlight /\ Top.at # 0 /\ ~Top.returned /\ objects.devices[Top.at].type \in {"volume", "disk"}
      /\ \/ IoCallDriver(below)
         \/ /\ ~CopyCurrentStackLocationToNext /\ ioAssert'
            /\ UNCHANGED <<driverNames, channels, loaded, objects, irps>>
  BY DEF PassDown, Dispatched
<1>2. ASSUME StacksBuilt PROVE /\ below \in DOMAIN objects.devices
                               /\ Top.CurrentStackLocation = objects.devices[below].stack
                               /\ Top.CurrentStackLocation > 0
  <2>1. Top \in Packets /\ Fits(Top) /\ Top.at \in DOMAIN objects.devices
    BY <1>1, <1>2, TopFits DEF Packets
  <2>2. /\ below \in DOMAIN objects.devices
        /\ objects.devices[Top.at].stack = objects.devices[below].stack + 1
    BY <1>1, <1>2, <2>1, StartedDevices
  <2>3. objects.devices[below].stack \in Nat \ {0}
    BY <1>2, <2>2, StartedDevices
  <2> QED
    BY <1>1, <2>1, <2>2, <2>3 DEF Fits
<1> HIDE DEF below
<1>3. CASE IoCallDriver(below)
  BY <1>1, <1>2, <1>3, CallStep
<1>4. CASE ~CopyCurrentStackLocationToNext /\ UNCHANGED <<driverNames, channels, loaded, objects, irps>>
  <2>1. ~StacksBuilt /\ ~StacksBuilt' /\ loaded = Len(Table)
    BY <1>1, <1>2, <1>4, StaysStarted, TopFits DEF CopyCurrentStackLocationToNext
  <2> QED
    BY <1>4, <2>1, StaysStarted DEF PacketsInv
<1> QED
  BY <1>1, <1>3, <1>4

\* The first location of a packet is for its target.
LEMMA SendStep ==
  ASSUME PacketsInv, SendIrp
  PROVE  PacketsInv'
<1>1. InFlight /\ Top.at = 0 /\ IoCallDriver(Top.target)
  BY DEF SendIrp
<1>2. ASSUME StacksBuilt PROVE /\ Top.target \in DOMAIN objects.devices
                               /\ Top.CurrentStackLocation = objects.devices[Top.target].stack
                               /\ ~Top.returned
  BY <1>1, <1>2, TopFits DEF Packets, Fits
<1> QED
  BY <1>1, <1>2, CallStep

\* Every step keeps the invariant of the packets.
LEMMA PacketsNext == PacketsInv /\ [IoNext]_ioVars => PacketsInv'
<1> SUFFICES ASSUME PacketsInv, [IoNext]_ioVars PROVE PacketsInv'
  OBVIOUS
<1>1. CASE IomuInitDrivers
  BY <1>1, LoadStep
<1>2. CASE IomuLateInit
  BY <1>2, StaysStarted DEF IomuLateInit, PacketsInv
<1>3. CASE \E v \in 1 .. LastLetter : IoCreateFile(v) \/ IoReadMounted(v) \/ IoQueryInformationFile(v)
  <2>1. PICK v : IoCreateFile(v) \/ IoReadMounted(v) \/ IoQueryInformationFile(v)
    BY <1>3
  <2>2. PICK vpb \in Mounted(v), major \in {"create", "read", "query", "control"} : MakeRequest(vpb.fs, major)
    BY <2>1 DEF IoCreateFile, IoReadMounted, IoQueryInformationFile
  <2> QED
    BY <2>2, MountedStep
<1>4. CASE \E id \in DOMAIN objects.devices : IoReadDeviceEx(id) \/ IoBuildDeviceIoControlRequest(id)
  <2>1. PICK id \in DOMAIN objects.devices : IoReadDeviceEx(id) \/ IoBuildDeviceIoControlRequest(id)
    BY <1>4
  <2>2. PICK major \in {"create", "read", "query", "control"} : MakeRequest(id, major)
    BY <2>1 DEF IoReadDeviceEx, IoBuildDeviceIoControlRequest
  <2> QED
    BY <2>2, MakeStep
<1>5. CASE SendIrp
  BY <1>5, SendStep
<1>6. CASE PassDown
  BY <1>6, PassStep
<1>7. CASE Complete \/ ReturnUncompleted \/ FileSystemCompletes
  <2>1. InFlight /\ Top.at # 0 /\ ~Top.returned /\ (IoCompleteIrp \/ ReturnUncompleted)
    BY <1>7 DEF Complete, ReturnUncompleted, FileSystemCompletes, Dispatched
  <2> QED
    BY <2>1, ReturnStep
<1>8. CASE FileSystemReads
  BY <1>8, ReadsStep
<1>9. CASE IoFreeIrp
  BY <1>9, FreeStep
<1>10. CASE UNCHANGED ioVars
  BY <1>10, StaysStarted DEF ioVars, PacketsInv
<1> QED
  BY <1>1, <1>2, <1>3, <1>4, <1>5, <1>6, <1>7, <1>8, <1>9, <1>10 DEF IoNext

\* On stacks that were built as DevicesSound and MountsExact say, the
\* locations of a packet are as many as the devices it has still to pass
\* (PacketsFit), whatever the devices are and however many reads a file system
\* makes: IoCallDriver always finds a location and a driver, IoCompleteIrp is
\* called once, and no assertion fails but the one on volume letters.
THEOREM PacketsSafe ==
  IoInit /\ [][IoNext]_ioVars =>
    [](StacksBuilt => PacketsFit /\ (ioAssert => OutOfLetters))
<1>1. PacketsInv => (StacksBuilt => PacketsFit /\ (ioAssert => OutOfLetters))
  <2> SUFFICES ASSUME PacketsInv, StacksBuilt PROVE PacketsFit /\ (ioAssert => OutOfLetters)
    OBVIOUS
  <2>1. (\A i \in DOMAIN irps : Fits(irps[i])) /\ (ioAssert => OutOfLetters)
    BY DEF PacketsInv
  <2> QED
    BY <2>1 DEF PacketsFit, Fits
<1> QED
  BY <1>1, PacketsInitially, PacketsNext, PTL
=============================================================================

---------------------------- MODULE MemoryProofs ----------------------------
(***************************************************************************)
(* Memory.  The physical memory manager: the frames of two callers never   *)
(* overlap and stay reserved, a reservation is the first fit, and no frame *)
(* is lost, for every memory map, page size and set of callers.  The       *)
(* reservations of an address space: live regions and their commit bitmaps *)
(* stay apart, and no frame is lost or used twice, for every number of     *)
(* threads, pages and frames.  The kernel heap: its blocks stay ordered    *)
(* and apart and its counters say what they leave, for every size and      *)
(* alignment.                                                              *)
(***************************************************************************)
EXTENDS Pmm, VirtualMemory, Heap, DataFacts, FiniteSetTheorems, TLAPS

(***************************************************************************)
(* The physical memory manager.                                            *)
(***************************************************************************)

\* The ends of a memory map are bounded: otherwise there would be a shortest
\* prefix of the map without a bound.
LEMMA EndsBounded ==
  ASSUME NEW map \in Seq(MemoryEntries)
  PROVE  \E n \in Nat : \A i \in DOMAIN map : End(map[i]) <= n
  <1>0. Len(map) \in Nat /\ DOMAIN map = 1 .. Len(map)
    OBVIOUS
  <1>1. ASSUME NEW i \in DOMAIN map PROVE End(map[i]) \in Nat
    <2>1. map[i] \in MemoryEntries
      OBVIOUS
    <2> QED
      BY <2>1 DEF MemoryEntries, End
  <1> DEFINE S == {k \in 0 .. Len(map) : ~\E n \in Nat : \A i \in 1 .. k : End(map[i]) <= n}
  <1>2. SUFFICES S = {}
    <2>1. Len(map) \notin S
      BY <1>2
    <2> QED
      BY <1>0, <2>1
  <1>3. SUFFICES ASSUME S # {} PROVE FALSE
    OBVIOUS
  <1>4. S \in SUBSET Nat
    OBVIOUS
  <1> DEFINE k == Min(S)
  <1>5. k \in S /\ \A y \in S : k <= y
    BY <1>3, <1>4, MinIsLeast
  <1> HIDE DEF k
  <1>6. k \in 0 .. Len(map) /\ ~\E n \in Nat : \A i \in 1 .. k : End(map[i]) <= n
    BY <1>5
  <1>7. k # 0
    <2>1. 0 \in Nat /\ \A i \in 1 .. 0 : End(map[i]) <= 0
      OBVIOUS
    <2> QED
      BY <1>6, <2>1
  <1>8. k - 1 \notin S /\ k - 1 \in 0 .. Len(map)
    <2> HIDE DEF S
    <2>1. k \in Nat /\ k <= Len(map)
      BY <1>0, <1>6
    <2>2. k - 1 \in 0 .. Len(map)
      BY <1>0, <1>7, <2>1
    <2>3. ~(k <= k - 1)
      BY <2>1
    <2> QED
      BY <1>5, <2>2, <2>3
  <1>9. PICK n \in Nat : \A i \in 1 .. k - 1 : End(map[i]) <= n
    BY <1>8
  <1>10. k \in DOMAIN map /\ End(map[k]) \in Nat
    <2>1. k \in Nat /\ k <= Len(map)
      BY <1>0, <1>6
    <2>2. k \in 1 .. Len(map)
      BY <1>0, <1>7, <2>1
    <2> QED
      BY <1>0, <1>1, <2>2
  <1>11. n + End(map[k]) \in Nat /\ \A i \in 1 .. k : End(map[i]) <= n + End(map[k])
    <2>1. ASSUME NEW i \in 1 .. k PROVE End(map[i]) <= n + End(map[k])
      <3>1. CASE i = k
        BY <3>1, <1>10
      <3>2. CASE i # k
        <4>1. i \in 1 .. k - 1 /\ i \in DOMAIN map
          BY <3>2, <1>0, <1>6
        <4> QED
          BY <4>1, <1>1, <1>9, <1>10
      <3> QED
        BY <3>1, <3>2
    <2> QED
      BY <2>1, <1>10
  <1> QED
    BY <1>6, <1>11

\* HighestPresent is the greatest end: the least bound is attained.
LEMMA HighestPresentBound ==
  ASSUME NEW map \in Seq(MemoryEntries), map # <<>>
  PROVE  HighestPresent(map) \in Nat /\ \A i \in DOMAIN map : End(map[i]) <= HighestPresent(map)
  <1> DEFINE E == {End(map[i]) : i \in DOMAIN map}
             B == {n \in Nat : \A e \in E : e <= n}
  <1>1. ASSUME NEW i \in DOMAIN map PROVE End(map[i]) \in Nat
    <2>1. map[i] \in MemoryEntries
      OBVIOUS
    <2> QED
      BY <2>1 DEF MemoryEntries, End
  <1>2. E \subseteq Nat
    BY <1>1
  <1>3. PICK e0 : e0 \in E
    <2>1. 1 \in DOMAIN map
      OBVIOUS
    <2> QED
      BY <2>1
  <1>4. B # {}
    BY EndsBounded
  <1> DEFINE m == Min(B)
  <1>5. m \in B /\ \A y \in B : m <= y
    BY <1>4, MinIsLeast
  <1> HIDE DEF m
  <1>6. m \in Nat /\ \A e \in E : e <= m
    BY <1>5
  <1>7. m \in E
    <2> SUFFICES ASSUME m \notin E PROVE FALSE
      OBVIOUS
    <2>1. \A e \in E : e <= m - 1
      BY <1>2, <1>6
    <2>2. m - 1 \in Nat
      <3>1. e0 \in Nat /\ e0 <= m - 1
        BY <1>2, <1>3, <2>1
      <3> QED
        BY <1>6, <3>1
    <2>3. m - 1 \in B
      BY <2>1, <2>2
    <2> QED
      BY <1>5, <1>6, <2>3
  <1>8. \E x \in E : \A y \in E : x >= y
    BY <1>2, <1>6, <1>7
  <1>9. Max(E) \in E /\ \A y \in E : Max(E) >= y
    BY <1>8 DEF Max
  <1>10. HighestPresent(map) = Max(E)
    BY DEF HighestPresent
  <1>11. ASSUME NEW i \in DOMAIN map PROVE End(map[i]) <= HighestPresent(map)
    <2>1. End(map[i]) \in E
      OBVIOUS
    <2> HIDE DEF E
    <2> QED
      BY <1>2, <1>9, <1>10, <2>1
  <1> HIDE DEF E
  <1> QED
    BY <1>2, <1>9, <1>10, <1>11

\* The free runs of n bits from an index on.
FreeRuns(bits, size, from, n) ==
  {i \in from .. size - n : Run(i, n) \intersect bits = {}}

\* What the search returns: the lowest run of free bits, or MAX_DWORD.
LEMMA ScanIsFirstFit ==
  ASSUME NEW bits, NEW size \in Nat, NEW from \in Nat, NEW n \in Nat \ {0}
  PROVE  ScanFromTo(bits, size, from, size, n, FALSE)
           = IF FreeRuns(bits, size, from, n) = {} THEN MAX_DWORD
             ELSE Min(FreeRuns(bits, size, from, n))
  <1>1. CASE from > size
    <2>1. FreeRuns(bits, size, from, n) = {}
      BY <1>1 DEF FreeRuns
    <2> QED
      BY <1>1, <2>1 DEF ScanFromTo
  <1>2. CASE ~(from > size)
    <2>1. CASE size - from < n
      <3>1. FreeRuns(bits, size, from, n) = {}
        BY <2>1 DEF FreeRuns
      <3>2. Candidates(bits, from, size, n, FALSE) = {}
        BY <2>1 DEF Candidates
      <3> QED
        BY <1>2, <3>1, <3>2 DEF ScanFromTo
    <2>2. CASE ~(size - from < n)
      <3>1. ASSUME NEW i \in from .. size - n
            PROVE  (\A j \in 0 .. n - 1 : i + j \in bits <=> FALSE)
                     <=> Run(i, n) \intersect bits = {}
        <4>1. \A j \in 0 .. n - 1 : i + j \in Run(i, n)
          BY DEF Run
        <4>2. \A x \in Run(i, n) : x - i \in 0 .. n - 1 /\ i + (x - i) = x
          BY DEF Run
        <4> QED
          BY <4>1, <4>2
      <3>2. Candidates(bits, from, size, n, FALSE) = FreeRuns(bits, size, from, n)
        BY <2>2, <3>1 DEF Candidates, FreeRuns
      <3>3. ~(n = 0 \/ from > size \/ size > size)
        BY <1>2
      <3> QED
        BY <3>2, <3>3, Zenon DEF ScanFromTo
    <2> QED
      BY <2>1, <2>2
  <1> QED
    BY <1>1, <1>2

\* A search that succeeds: the run is in the bitmap and free.
LEMMA ScanResult ==
  ASSUME NEW bits, NEW size \in Nat, NEW from \in Nat, NEW n \in Nat \ {0},
         ScanFromTo(bits, size, from, size, n, FALSE) # MAX_DWORD
  PROVE  /\ ScanFromTo(bits, size, from, size, n, FALSE) \in Nat
         /\ Run(ScanFromTo(bits, size, from, size, n, FALSE), n) \subseteq 0 .. size - 1
         /\ Run(ScanFromTo(bits, size, from, size, n, FALSE), n) \intersect bits = {}
  <1>1. PICK idx : idx = ScanFromTo(bits, size, from, size, n, FALSE)
    OBVIOUS
  <1>2. FreeRuns(bits, size, from, n) # {} /\ idx = Min(FreeRuns(bits, size, from, n))
    BY <1>1, ScanIsFirstFit
  <1>3. FreeRuns(bits, size, from, n) \in SUBSET Nat
    BY DEF FreeRuns
  <1>4. idx \in FreeRuns(bits, size, from, n)
    BY <1>2, <1>3, MinIsLeast
  <1>5. idx \in from .. size - n /\ Run(idx, n) \intersect bits = {}
    BY <1>4 DEF FreeRuns
  <1>6. \A i \in from .. size - n : i \in Nat /\ i .. i + n - 1 \subseteq 0 .. size - 1
    OBVIOUS
  <1>7. idx \in Nat /\ Run(idx, n) \subseteq 0 .. size - 1
    BY <1>5, <1>6, Zenon DEF Run
  <1> QED
    BY <1>1, <1>5, <1>7

\* The initial state: all frames are reserved and nobody has one.
LEMMA InitAllocationInv == Init => AllocationInv
  <1> SUFFICES ASSUME Init PROVE AllocationInv
    OBVIOUS
  <1>1. MemoryMap \in Seq(MemoryEntries) /\ MemoryMap # <<>>
    BY PmmAssumption DEF Init
  <1>2. HighestPresent(MemoryMap) \in Nat
    BY <1>1, HighestPresentBound
  <1>3. BitCount \in Nat
    BY <1>2, PmmAssumption DEF Init
  <1>4. Bits = 0 .. BitCount - 1
    BY <1>3 DEF Init, ChangeBits, Run
  <1>5. booted \in 0 .. Len(MemoryMap)
    BY <1>1 DEF Init
  <1>6. TypeOK
    BY <1>3, <1>4, <1>5 DEF Init, TypeOK, NoAnswer
  <1>7. FramesNotShared /\ HeldAreReserved
    BY DEF Init, FramesNotShared, HeldAreReserved
  <1> QED
    BY <1>6, <1>7 DEF AllocationInv, Init

\* The boot loop only clears bits, and nobody has a frame yet.
LEMMA StepInitEntry ==
  ASSUME AllocationInv, InitEntry
  PROVE  AllocationInv'
  <1>1. TypeOK /\ booted < Len(MemoryMap)
    BY DEF AllocationInv, InitEntry
  <1>2. MemoryMap \in Seq(MemoryEntries)
    BY <1>1, PmmAssumption DEF TypeOK
  <1>3. held = [c \in Callers |-> {}] /\ answer = NoAnswer
    BY <1>1 DEF AllocationInv
  <1>4. Bits' \subseteq Bits /\ halted' \in BOOLEAN
    <2>1. CASE Bits' = Bits
      BY <1>1, <2>1 DEF InitEntry, TypeOK
    <2>2. CASE Bits' # Bits
      BY <1>1, <2>2 DEF InitEntry, ChangeBits, TypeOK
    <2> QED
      BY <2>1, <2>2
  <1>5. booted' \in 0 .. Len(MemoryMap)
    BY <1>1, <1>2 DEF InitEntry, TypeOK
  <1>6. UNCHANGED <<MemoryMap, BitCount, PhysicalMemorySize, held, answer>>
    BY DEF InitEntry
  <1>7. TypeOK'
    BY <1>1, <1>4, <1>5, <1>6 DEF TypeOK
  <1>8. FramesNotShared' /\ HeldAreReserved'
    BY <1>3, <1>6 DEF FramesNotShared, HeldAreReserved
  <1> QED
    BY <1>3, <1>6, <1>7, <1>8 DEF AllocationInv

\* A reservation takes frames that nobody has.
LEMMA StepReserve ==
  ASSUME AllocationInv, NEW c \in Callers, NEW frames \in 0 .. MaxFrames,
         NEW minFrame \in 0 .. BitCount + 1, PmmReserveMemoryEx(c, frames, minFrame)
  PROVE  AllocationInv'
  <1> DEFINE idx == ScanFromTo(Bits, BitCount, minFrame, BitCount, frames, FALSE)
  <1>1. TypeOK /\ FramesNotShared /\ HeldAreReserved
    BY DEF AllocationInv
  <1>2. BitCount \in Nat /\ frames \in Nat /\ minFrame \in Nat
    BY <1>1, PmmAssumption DEF TypeOK
  <1>3. idx # MAX_DWORD /\ booted = Len(MemoryMap)
    BY DEF PmmReserveMemoryEx, Running
  <1>4. frames # 0
    BY <1>3 DEF ScanFromTo
  <1>5. idx \in Nat /\ Run(idx, frames) \subseteq 0 .. BitCount - 1
          /\ Run(idx, frames) \intersect Bits = {}
    <2>1. frames \in Nat \ {0}
      BY <1>2, <1>4
    <2> QED
      BY <1>2, <1>3, <2>1, ScanResult
  <1>6. /\ Bits' = Bits \union Run(idx, frames)
        /\ held' = [held EXCEPT ![c] = held[c] \union Run(idx, frames)]
        /\ answer' = [frames |-> frames, from |-> minFrame, index |-> idx]
        /\ UNCHANGED <<MemoryMap, booted, BitCount, PhysicalMemorySize, halted>>
    BY DEF PmmReserveMemoryEx, ChangeBits
  <1> HIDE DEF idx
  <1>7. TypeOK'
    BY <1>1, <1>2, <1>5, <1>6 DEF TypeOK
  <1>8. \A d \in Callers : held'[d] = IF d = c THEN held[c] \union Run(idx, frames) ELSE held[d]
    BY <1>1, <1>6 DEF TypeOK
  <1>9. FramesNotShared' /\ HeldAreReserved'
    BY <1>1, <1>5, <1>6, <1>8 DEF FramesNotShared, HeldAreReserved
  <1>10. ~(booted' < Len(MemoryMap)')
    BY <1>3, <1>6, <1>1 DEF TypeOK
  <1> QED
    BY <1>7, <1>9, <1>10 DEF AllocationInv

\* A release takes them from one caller only.
LEMMA StepRelease ==
  ASSUME AllocationInv, NEW c \in Callers, NEW index, NEW frames,
         PmmReleaseMemory(c, index, frames)
  PROVE  AllocationInv'
  <1>1. TypeOK /\ FramesNotShared /\ HeldAreReserved
    BY DEF AllocationInv
  <1>2. booted = Len(MemoryMap) /\ Run(index, frames) \subseteq held[c]
    BY DEF PmmReleaseMemory, Running
  <1>3. /\ Bits' = Bits \ Run(index, frames)
        /\ held' = [held EXCEPT ![c] = held[c] \ Run(index, frames)]
        /\ answer' = NoAnswer
        /\ UNCHANGED <<MemoryMap, booted, BitCount, PhysicalMemorySize, halted>>
    BY DEF PmmReleaseMemory, ChangeBits
  <1>4. TypeOK'
    BY <1>1, <1>3 DEF TypeOK, NoAnswer
  <1>5. \A d \in Callers : held'[d] = IF d = c THEN held[c] \ Run(index, frames) ELSE held[d]
    BY <1>1, <1>3 DEF TypeOK
  <1>6. FramesNotShared' /\ HeldAreReserved'
    BY <1>1, <1>2, <1>3, <1>5 DEF FramesNotShared, HeldAreReserved
  <1>7. ~(booted' < Len(MemoryMap)')
    BY <1>1, <1>2, <1>3 DEF TypeOK
  <1> QED
    BY <1>4, <1>6, <1>7 DEF AllocationInv
\* Every step keeps the invariant.
LEMMA NextAllocationInv == AllocationInv /\ [Next]_vars => AllocationInv'
  <1> SUFFICES ASSUME AllocationInv, [Next]_vars PROVE AllocationInv'
    OBVIOUS
  <1>1. CASE InitEntry
    BY <1>1, StepInitEntry
  <1>2. ASSUME NEW c \in Callers, NEW frames \in 0 .. MaxFrames,
               NEW minFrame \in 0 .. BitCount + 1, PmmReserveMemoryEx(c, frames, minFrame)
        PROVE  AllocationInv'
    BY <1>2, StepReserve
  <1>3. ASSUME NEW frames \in 0 .. MaxFrames, NEW minFrame \in 0 .. BitCount + 1,
               ReserveFails(frames, minFrame)
        PROVE  AllocationInv'
    <2>1. TypeOK /\ FramesNotShared /\ HeldAreReserved
      BY DEF AllocationInv
    <2>2. /\ answer' = [frames |-> frames, from |-> minFrame, index |-> MAX_DWORD]
          /\ UNCHANGED <<MemoryMap, booted, BitCount, Bits, PhysicalMemorySize, held, halted>>
          /\ booted = Len(MemoryMap)
      BY <1>3 DEF ReserveFails, Running
    <2>3. frames \in Nat /\ minFrame \in Nat
      BY <2>1, PmmAssumption DEF TypeOK
    <2>4. TypeOK'
      BY <2>1, <2>2, <2>3, BitmapAssumption DEF TypeOK
    <2>5. FramesNotShared' /\ HeldAreReserved' /\ ~(booted' < Len(MemoryMap)')
      BY <2>1, <2>2 DEF FramesNotShared, HeldAreReserved, TypeOK
    <2> QED
      BY <2>4, <2>5 DEF AllocationInv
  <1>4. ASSUME NEW c \in Callers, NEW index \in held[c], NEW frames \in 1 .. MaxFrames,
               PmmReleaseMemory(c, index, frames)
        PROVE  AllocationInv'
    BY <1>4, StepRelease
  <1>5. CASE UNCHANGED vars
    BY <1>5 DEF vars, AllocationInv, TypeOK, FramesNotShared, HeldAreReserved
  <1> QED
    BY <1>1, <1>2, <1>3, <1>4, <1>5 DEF Next

\* The allocator keeps its invariant, whatever the memory map, the callers
\* and the sizes of their requests: the state is well-formed and every frame
\* that a caller has is reserved.
THEOREM AllocationSafe == Spec => []AllocationInv
  BY InitAllocationInv, NextAllocationInv, PTL DEF Spec

\* PmmReserveMemoryEx never gives a frame to two callers.
THEOREM NoFrameShared == Spec => []FramesNotShared
  <1>1. AllocationInv => FramesNotShared
    BY DEF AllocationInv
  <1> QED
    BY AllocationSafe, <1>1, PTL

\* One step: the answer of a request is the lowest free run.
LEMMA StepFirstFit ==
  ASSUME AllocationInv, [Next]_vars
  PROVE  [answer'.frames > 0 =>
            LET n == answer'.frames
                free == {i \in answer'.from .. BitCount - n : Run(i, n) \intersect Bits = {}}
            IN  answer'.index = IF free = {} THEN MAX_DWORD ELSE Min(free)]_vars
  <1> DEFINE A == answer'.frames > 0 =>
                    answer'.index =
                      IF FreeRuns(Bits, BitCount, answer'.from, answer'.frames) = {}
                      THEN MAX_DWORD
                      ELSE Min(FreeRuns(Bits, BitCount, answer'.from, answer'.frames))
  <1>0. TypeOK
    BY DEF AllocationInv
  <1>1. ASSUME answer' = NoAnswer PROVE A
    BY <1>1 DEF NoAnswer
  <1>2. ASSUME NEW frames \in 0 .. MaxFrames, NEW minFrame \in 0 .. BitCount + 1,
               answer' = [frames |-> frames, from |-> minFrame,
                          index |-> ScanFromTo(Bits, BitCount, minFrame, BitCount, frames, FALSE)]
        PROVE  A
    <2> HAVE answer'.frames > 0
    <2>1. frames \in Nat \ {0} /\ minFrame \in Nat /\ BitCount \in Nat
      BY <1>0, <1>2, PmmAssumption DEF TypeOK
    <2>2. answer'.from = minFrame /\ answer'.frames = frames
            /\ answer'.index = ScanFromTo(Bits, BitCount, minFrame, BitCount, frames, FALSE)
      BY <1>2
    <2>3. ScanFromTo(Bits, BitCount, minFrame, BitCount, frames, FALSE)
            = IF FreeRuns(Bits, BitCount, minFrame, frames) = {} THEN MAX_DWORD
              ELSE Min(FreeRuns(Bits, BitCount, minFrame, frames))
      BY <2>1, ScanIsFirstFit
    <2> QED
      BY <2>2, <2>3
  <1>3. A \/ UNCHANGED vars
    <2>1. CASE InitEntry
      BY <1>1, <2>1 DEF InitEntry, AllocationInv
    <2>2. ASSUME NEW c \in Callers, NEW frames \in 0 .. MaxFrames,
                 NEW minFrame \in 0 .. BitCount + 1, PmmReserveMemoryEx(c, frames, minFrame)
          PROVE  A
      BY <1>2, <2>2 DEF PmmReserveMemoryEx
    <2>3. ASSUME NEW frames \in 0 .. MaxFrames, NEW minFrame \in 0 .. BitCount + 1,
                 ReserveFails(frames, minFrame)
          PROVE  A
      BY <1>2, <2>3 DEF ReserveFails
    <2>4. ASSUME NEW c \in Callers, NEW index \in held[c], NEW frames \in 1 .. MaxFrames,
                 PmmReleaseMemory(c, index, frames)
          PROVE  A
      BY <1>1, <2>4 DEF PmmReleaseMemory
    <2> QED
      BY <2>1, <2>2, <2>3, <2>4 DEF Next
  <1> QED
    BY <1>3 DEF FreeRuns

\* A reservation returns the lowest run of free frames from its minimum on,
\* and fails only if there is none.
THEOREM ReserveIsFirstFit == Spec => FirstFit
  BY AllocationSafe, StepFirstFit, PTL DEF Spec, FirstFit

(***************************************************************************)
(* No frame is lost.                                                       *)
(***************************************************************************)

HeldFrames == UNION {held[c] : c \in Callers}

\* With the frames of the callers coming from the boot, what is free and what
\* is held are complements; the bitmap has all frames of the memory map.
Conserved ==
  /\ BitCount = HighestPresent(MemoryMap) \div PageSize
  /\ NoFrameLost
  /\ ~halted => HeldFrames \subseteq BootFrames

\* The frames the boot loop releases for an entry are in the bitmap: the
\* assertions of BitmapSetBitsValue, whose subtraction does not wrap here.
LEMMA EntryInBitmap ==
  ASSUME NEW map \in Seq(MemoryEntries), NEW i \in DOMAIN map, NEW size,
         size = HighestPresent(map) \div PageSize,
         MaySetBits(size, EntryStart(map[i]), EntryFrames(map[i]))
  PROVE  Run(EntryStart(map[i]), EntryFrames(map[i])) \subseteq 0 .. size - 1
  <1>1. map # <<>> /\ map[i] \in MemoryEntries
    OBVIOUS
  <1>2. /\ map[i].BaseAddress \in Nat /\ map[i].Length \in Nat
        /\ End(map[i]) = map[i].BaseAddress + map[i].Length
    BY <1>1 DEF MemoryEntries, End
  <1>3. HighestPresent(map) \in Nat /\ map[i].Length <= HighestPresent(map)
    BY <1>1, <1>2, HighestPresentBound
  <1>4. PICK base \in Nat, length \in Nat, highest \in Nat :
          /\ base = map[i].BaseAddress /\ length = map[i].Length /\ highest = HighestPresent(map)
          /\ length <= highest
    BY <1>2, <1>3
  <1>5. PageSize \in Nat \ {0}
    BY PmmAssumption
  <1>6. PICK n : n = EntryFrames(map[i])
    OBVIOUS
  <1>7. n = length \div PageSize /\ size = highest \div PageSize
    BY <1>4, <1>6 DEF EntryFrames
  <1>8. n \in Nat /\ size \in Nat /\ n <= size
    <2>1. /\ length \div PageSize \in Nat /\ highest \div PageSize \in Nat
          /\ length \div PageSize <= highest \div PageSize
      BY <1>4, <1>5, QuotientMonotone
    <2> QED
      BY <1>7, <2>1
  <1>9. PICK start : start = EntryStart(map[i])
    OBVIOUS
  <1>10. start \in Nat
    <2>1. base + PageSize - 1 \in Nat
      BY <1>4, <1>5
    <2>2. (base + PageSize - 1) \div PageSize \in Nat
      BY <1>5, <2>1
    <2>3. ((base + PageSize - 1) \div PageSize) * PageSize \in Nat
      BY <1>5, <2>2
    <2>4. (((base + PageSize - 1) \div PageSize) * PageSize) \div PageSize \in Nat
      BY <1>5, <2>3
    <2>5. start = (((base + PageSize - 1) \div PageSize) * PageSize) \div PageSize
      BY <1>4, <1>9 DEF EntryStart, AlignAddressUpper
    <2> QED
      BY <2>4, <2>5
  <1>11. (size - n) % (MAX_DWORD + 1) >= start
    BY <1>6, <1>9 DEF MaySetBits
  <1>12. (size - n) % (MAX_DWORD + 1) <= size - n
    BY <1>8, BitmapAssumption
  <1>13. (size - n) % (MAX_DWORD + 1) \in Nat
    BY <1>8, BitmapAssumption
  <1>14. start + n <= size
    BY <1>8, <1>10, <1>11, <1>12, <1>13
  <1>15. start .. start + n - 1 \subseteq 0 .. size - 1
    BY <1>8, <1>10, <1>14
  <1> QED
    BY <1>6, <1>9, <1>15 DEF Run

\* The boot loop moves the frames of an entry from the reserved to the free.
LEMMA ConservedInitEntry ==
  ASSUME AllocationInv, Conserved, InitEntry
  PROVE  Conserved'
  <1> DEFINE e == MemoryMap[booted + 1]
  <1>1. /\ ~halted /\ booted < Len(MemoryMap) /\ booted \in Nat
        /\ MemoryMap \in Seq(MemoryEntries) /\ booted + 1 \in DOMAIN MemoryMap
        /\ held = [c \in Callers |-> {}]
        /\ UNCHANGED <<MemoryMap, BitCount, held>> /\ booted' = booted + 1
        /\ Bits \subseteq 0 .. BitCount - 1
    BY PmmAssumption DEF AllocationInv, TypeOK, InitEntry
  <1>2. HeldFrames = {} /\ HeldFrames' = {}
    BY <1>1 DEF HeldFrames
  <1>3. BootFrames' = BootFrames \union
                        (IF Released(e) THEN Run(EntryStart(e), EntryFrames(e)) ELSE {})
    <2>1. 1 .. booted' = (1 .. booted) \union {booted + 1}
      BY <1>1
    <2>2. {j \in 1 .. booted' : Released(MemoryMap[j])}
            = {j \in 1 .. booted : Released(MemoryMap[j])}
                \union (IF Released(e) THEN {booted + 1} ELSE {})
      BY <2>1
    <2> QED
      BY <1>1, <2>2 DEF BootFrames
  <1>4. BootFrames = (0 .. BitCount - 1) \ Bits
    BY <1>1, <1>2 DEF Conserved, NoFrameLost, HeldFrames
  <1>5. ~halted' => BootFrames' = (0 .. BitCount - 1) \ Bits'
    <2>1. CASE ~Released(e)
      BY <1>1, <1>3, <1>4, <2>1 DEF InitEntry
    <2>2. CASE Released(e) /\ MaySetBits(BitCount, EntryStart(e), EntryFrames(e))
      <3>1. Bits' = Bits \ Run(EntryStart(e), EntryFrames(e))
        BY <2>2 DEF InitEntry, ChangeBits
      <3>2. Run(EntryStart(e), EntryFrames(e)) \subseteq 0 .. BitCount - 1
        BY <1>1, <2>2, EntryInBitmap DEF Conserved
      <3> QED
        BY <1>3, <1>4, <2>2, <3>1, <3>2
    <2>3. CASE Released(e) /\ ~MaySetBits(BitCount, EntryStart(e), EntryFrames(e))
      BY <2>3 DEF InitEntry
    <2> QED
      BY <2>1, <2>2, <2>3
  <1> QED
    BY <1>1, <1>2, <1>5 DEF Conserved, NoFrameLost, HeldFrames

\* A frame that changes hands between the bitmap and a caller stays counted.
LEMMA ConservedMoves ==
  ASSUME AllocationInv, Conserved, NEW c \in Callers, NEW run,
         ~halted, UNCHANGED <<MemoryMap, booted, BitCount, halted>>,
         \/ /\ run \subseteq (0 .. BitCount - 1) \ Bits
            /\ Bits' = Bits \union run /\ held' = [held EXCEPT ![c] = @ \union run]
         \/ /\ run \subseteq held[c]
            /\ Bits' = Bits \ run /\ held' = [held EXCEPT ![c] = @ \ run]
  PROVE  Conserved'
  <1>1. /\ BootFrames \ HeldFrames = (0 .. BitCount - 1) \ Bits /\ HeldFrames \subseteq BootFrames
        /\ held \in [Callers -> SUBSET (0 .. BitCount - 1)]
        /\ \A d \in Callers : d # c => held[d] \intersect held[c] = {}
        /\ BootFrames' = BootFrames
    BY DEF AllocationInv, TypeOK, FramesNotShared, Conserved, NoFrameLost, HeldFrames, BootFrames
  <1>2. \A x : x \in HeldFrames <=> \E d \in Callers : x \in held[d]
    BY DEF HeldFrames
  <1>3. \A x : x \in HeldFrames' <=> \E d \in Callers : x \in held'[d]
    BY DEF HeldFrames
  <1>4. CASE /\ run \subseteq (0 .. BitCount - 1) \ Bits
             /\ Bits' = Bits \union run /\ held' = [held EXCEPT ![c] = @ \union run]
    <2>1. HeldFrames' = HeldFrames \union run
      BY <1>1, <1>2, <1>3, <1>4
    <2> QED
      BY <1>1, <1>4, <2>1 DEF Conserved, NoFrameLost, HeldFrames
  <1>5. CASE /\ run \subseteq held[c]
             /\ Bits' = Bits \ run /\ held' = [held EXCEPT ![c] = @ \ run]
    <2>1. HeldFrames' = HeldFrames \ run
      BY <1>1, <1>2, <1>3, <1>5
    <2>2. run \subseteq HeldFrames /\ run \subseteq 0 .. BitCount - 1
      BY <1>1, <1>2, <1>5
    <2> QED
      BY <1>1, <1>5, <2>1, <2>2 DEF Conserved, NoFrameLost, HeldFrames
  <1> QED
    BY <1>4, <1>5

\* Every step conserves the frames.
LEMMA NextConserved == AllocationInv /\ Conserved /\ [Next]_vars => Conserved'
  <1> SUFFICES ASSUME AllocationInv, Conserved, [Next]_vars PROVE Conserved'
    OBVIOUS
  <1>1. CASE InitEntry
    BY <1>1, ConservedInitEntry
  <1>2. ASSUME NEW c \in Callers, NEW frames \in 0 .. MaxFrames,
               NEW minFrame \in 0 .. BitCount + 1, PmmReserveMemoryEx(c, frames, minFrame)
        PROVE  Conserved'
    <2>1. PICK idx : idx = ScanFromTo(Bits, BitCount, minFrame, BitCount, frames, FALSE)
      OBVIOUS
    <2>2. /\ idx # MAX_DWORD /\ ~halted
          /\ Bits' = Bits \union Run(idx, frames)
          /\ held' = [held EXCEPT ![c] = @ \union Run(idx, frames)]
          /\ UNCHANGED <<MemoryMap, booted, BitCount, halted>>
      BY <1>2, <2>1 DEF PmmReserveMemoryEx, Running, ChangeBits
    <2>3. BitCount \in Nat /\ minFrame \in Nat /\ frames \in Nat \ {0}
      <3>1. frames # 0
        BY <2>1, <2>2 DEF ScanFromTo
      <3> QED
        BY <3>1, PmmAssumption DEF AllocationInv, TypeOK
    <2>4. Run(idx, frames) \subseteq (0 .. BitCount - 1) \ Bits
      BY <2>1, <2>2, <2>3, ScanResult
    <2> QED
      BY <2>2, <2>4, ConservedMoves
  <1>3. ASSUME NEW frames \in 0 .. MaxFrames, NEW minFrame \in 0 .. BitCount + 1,
               ReserveFails(frames, minFrame)
        PROVE  Conserved'
    BY <1>3 DEF ReserveFails, Conserved, NoFrameLost, HeldFrames, BootFrames
  <1>4. ASSUME NEW c \in Callers, NEW index \in held[c], NEW frames \in 1 .. MaxFrames,
               PmmReleaseMemory(c, index, frames)
        PROVE  Conserved'
    <2>1. /\ Run(index, frames) \subseteq held[c] /\ ~halted
          /\ Bits' = Bits \ Run(index, frames)
          /\ held' = [held EXCEPT ![c] = @ \ Run(index, frames)]
          /\ UNCHANGED <<MemoryMap, booted, BitCount, halted>>
      BY <1>4 DEF PmmReleaseMemory, Running, ChangeBits
    <2> QED
      BY <2>1, ConservedMoves
  <1>5. CASE UNCHANGED vars
    BY <1>5 DEF vars, Conserved, NoFrameLost, HeldFrames, BootFrames
  <1> QED
    BY <1>1, <1>2, <1>3, <1>4, <1>5 DEF Next

\* At first every frame is reserved, and the boot has released none.
LEMMA InitConserved == Init => Conserved
  <1> SUFFICES ASSUME Init PROVE Conserved
    OBVIOUS
  <1>1. MemoryMap \in Seq(MemoryEntries) /\ MemoryMap # <<>>
    BY PmmAssumption DEF Init
  <1>2. BitCount \in Nat
    BY <1>1, HighestPresentBound, PmmAssumption DEF Init
  <1>3. Bits = 0 .. BitCount - 1
    BY <1>2 DEF Init, ChangeBits, Run
  <1>4. BootFrames = {} /\ HeldFrames = {}
    <2>1. 1 .. booted = {}
      BY DEF Init
    <2> QED
      BY <2>1 DEF Init, BootFrames, HeldFrames
  <1> QED
    BY <1>3, <1>4 DEF Init, Conserved, NoFrameLost, HeldFrames

\* Whatever is reserved and released, in whole or in part, the frames that
\* the boot made available are the free ones and those of the callers.
THEOREM FramesConserved == Spec => []NoFrameLost
  <1>1. Conserved => NoFrameLost
    BY DEF Conserved
  <1> QED
    BY <1>1, InitAllocationInv, NextAllocationInv, InitConserved, NextConserved, PTL DEF Spec

(***************************************************************************)
(* Reservations of an address space.                                       *)
(***************************************************************************)

Entry == [state : {"Used", "Free"}, start : Int, size : Int, bitmap : Int, commit : SUBSET Int]
Places == {"idle", "reserve", "locked", "owner", "fault", "free", "uninit", "flag", "unmap"}
Operation ==
  [pc : Places, cpu : VmCpus, base : Int, size : Int, guard : Int, flagOf : VmCpus, bitmap : Int, frame : Int]

VmTypes ==
  /\ ReservationList \in Seq(Entry)
  /\ FreeVirtualAddressPointer \in Int /\ FreeBitmapAddress \in Int
  /\ VmmMemoryAccess \in [VmCpus -> BOOLEAN]
  /\ vmOp \in [VmThreads -> Operation]
  /\ migrations \in Nat

\* A thread that has its addresses and not yet its entry.
Reserving(t) == vmOp[t].pc = "reserve" \/ (vmOp[t].pc = "locked" /\ vmOp[t].bitmap = 0)

Apart(a, m, b, n) == a + m <= b \/ b + n <= a

\* RegionsApart, with the addresses that are about to become a region, and
\* the bitmaps that are about to be unmapped.
RegionsInv ==
  /\ \A i \in Used :
       LET r == ReservationList[i] IN
       /\ r.commit \subseteq PagesOf(r)
       /\ r.start + r.size <= FreeVirtualAddressPointer
       /\ r.bitmap \in DOMAIN metadata /\ r.bitmap < FreeBitmapAddress
       /\ \A j \in Used \ {i} :
            /\ Apart(r.start, r.size, ReservationList[j].start, ReservationList[j].size)
            /\ r.bitmap # ReservationList[j].bitmap
       /\ \A t \in VmThreads :
            /\ Reserving(t) => Apart(r.start, r.size, vmOp[t].base, vmOp[t].size)
            /\ vmOp[t].pc = "uninit" => vmOp[t].bitmap # r.bitmap
  /\ \A t \in VmThreads :
       /\ Reserving(t) => /\ vmOp[t].base + vmOp[t].size <= FreeVirtualAddressPointer
                          /\ vmOp[t].guard >= 0
       /\ vmOp[t].pc = "uninit" => vmOp[t].bitmap < FreeBitmapAddress
       /\ \A u \in VmThreads \ {t} :
            Reserving(t) /\ Reserving(u) =>
              Apart(vmOp[t].base, vmOp[t].size, vmOp[u].base, vmOp[u].size)

\* As long as nobody moved, all threads are on one processor, one of them at
\* most has interrupts off, and its accesses are announced.
OneCpu ==
  migrations = 0 =>
    /\ \A t, u \in VmThreads : vmOp[t].cpu = vmOp[u].cpu
    /\ \A t \in VmThreads : vmOp[t].flagOf = vmOp[t].cpu
    /\ \A t, u \in VmThreads : Pinned(t) /\ Pinned(u) => t = u
    /\ \A t \in VmThreads : vmOp[t].pc = "locked" => VmmMemoryAccess[vmOp[t].cpu]

VmInv == VmTypes /\ RegionsInv /\ OneCpu

(***************************************************************************)
(* The pieces of a step.                                                   *)
(***************************************************************************)

\* One thread goes on.
LEMMA OperationTypes ==
  ASSUME VmTypes, NEW t \in VmThreads, NEW o \in Operation, vmOp' = [vmOp EXCEPT ![t] = o]
  PROVE  /\ vmOp' \in [VmThreads -> Operation]
         /\ vmOp'[t] = o /\ \A u \in VmThreads \ {t} : vmOp'[u] = vmOp[u]
BY DEF VmTypes

\* A step that frees an entry at most and gives no thread new addresses.
LEMMA RegionsKept ==
  ASSUME VmTypes, VmTypes', RegionsInv,
         UNCHANGED <<FreeVirtualAddressPointer, FreeBitmapAddress>>,
         \A i \in Used' :
           /\ i \in Used
           /\ ReservationList'[i].start = ReservationList[i].start
           /\ ReservationList'[i].size = ReservationList[i].size
           /\ ReservationList'[i].bitmap = ReservationList[i].bitmap
           /\ ReservationList'[i].commit \subseteq ReservationList[i].commit
           /\ ReservationList[i].bitmap \in DOMAIN metadata => 
                ReservationList[i].bitmap \in DOMAIN metadata',
         \A u \in VmThreads : Reserving(u)' =>
           Reserving(u) /\ vmOp'[u].base = vmOp[u].base /\ vmOp'[u].size = vmOp[u].size
                        /\ vmOp'[u].guard = vmOp[u].guard,
         \A u \in VmThreads : vmOp'[u].pc = "uninit" =>
           \/ vmOp[u].pc = "uninit" /\ vmOp'[u].bitmap = vmOp[u].bitmap
           \/ /\ vmOp'[u].bitmap < FreeBitmapAddress
              /\ \A i \in Used' : vmOp'[u].bitmap # ReservationList[i].bitmap
  PROVE  RegionsInv'
<1>1. ASSUME NEW i \in Used'
      PROVE  LET r == ReservationList'[i] IN
             /\ r.commit \subseteq PagesOf(r)
             /\ r.start + r.size <= FreeVirtualAddressPointer'
             /\ r.bitmap \in DOMAIN metadata' /\ r.bitmap < FreeBitmapAddress'
  <2>1. PagesOf(ReservationList'[i]) = PagesOf(ReservationList[i])
    BY DEF PagesOf
  <2> QED
    BY <2>1 DEF RegionsInv
<1>2. ASSUME NEW i \in Used', NEW j \in Used' \ {i}
      PROVE  /\ Apart(ReservationList'[i].start, ReservationList'[i].size,
                      ReservationList'[j].start, ReservationList'[j].size)
             /\ ReservationList'[i].bitmap # ReservationList'[j].bitmap
  BY DEF RegionsInv
<1>3. ASSUME NEW i \in Used', NEW u \in VmThreads
      PROVE  LET r == ReservationList'[i] IN
             /\ Reserving(u)' => Apart(r.start, r.size, vmOp'[u].base, vmOp'[u].size)
             /\ vmOp'[u].pc = "uninit" => vmOp'[u].bitmap # r.bitmap
  BY DEF RegionsInv
<1>4. ASSUME NEW t \in VmThreads
      PROVE  /\ Reserving(t)' => /\ vmOp'[t].base + vmOp'[t].size <= FreeVirtualAddressPointer'
                                 /\ vmOp'[t].guard >= 0
             /\ vmOp'[t].pc = "uninit" => vmOp'[t].bitmap < FreeBitmapAddress'
             /\ \A u \in VmThreads \ {t} :
                  Reserving(t)' /\ Reserving(u)' =>
                    Apart(vmOp'[t].base, vmOp'[t].size, vmOp'[u].base, vmOp'[u].size)
  BY DEF RegionsInv
<1> QED
  BY <1>1, <1>2, <1>3, <1>4 DEF RegionsInv

\* A step that leaves the list alone.
LEMMA ListKept ==
  ASSUME VmTypes, VmTypes', RegionsInv, UNCHANGED reservationVars,
         \A i \in Used : ReservationList[i].bitmap \in DOMAIN metadata =>
                           ReservationList[i].bitmap \in DOMAIN metadata',
         \A u \in VmThreads : Reserving(u)' =>
           Reserving(u) /\ vmOp'[u].base = vmOp[u].base /\ vmOp'[u].size = vmOp[u].size
                        /\ vmOp'[u].guard = vmOp[u].guard,
         \A u \in VmThreads : vmOp'[u].pc = "uninit" =>
           vmOp[u].pc = "uninit" /\ vmOp'[u].bitmap = vmOp[u].bitmap
  PROVE  RegionsInv'
<1>1. Used' = Used /\ ReservationList' = ReservationList
      /\ UNCHANGED <<FreeVirtualAddressPointer, FreeBitmapAddress>>
  BY DEF reservationVars, Used
<1> QED
  BY <1>1, RegionsKept

\* A step in which no processor gets another thread with interrupts off.
LEMMA OneCpuKept ==
  ASSUME VmTypes, VmTypes', OneCpu, migrations' = migrations,
         \A u \in VmThreads : /\ vmOp'[u].cpu = vmOp[u].cpu
                              /\ vmOp'[u].flagOf \in {vmOp[u].flagOf, vmOp[u].cpu}
                              /\ Pinned(u)' => Pinned(u)
                              /\ vmOp'[u].pc = "locked" => vmOp[u].pc = "locked",
         VmmMemoryAccess' = VmmMemoryAccess
  PROVE  OneCpu'
BY DEF OneCpu

\* FindReservation returns an entry in use, or nothing.
LEMMA FoundIsUsed ==
  ASSUME VmTypes, NEW page \in Int, NEW count \in Int, FindReservation(page, count) # 0
  PROVE  FindReservation(page, count) \in Used
<1> DEFINE hits == {i \in Used : page .. page + count - 1 \subseteq PagesOf(ReservationList[i])}
<1>1. hits # {} /\ FindReservation(page, count) = Min(hits)
  BY DEF FindReservation
<1>2. hits \in SUBSET Nat
  BY DEF Used, VmTypes
<1>3. Min(hits) \in hits
  BY <1>1, <1>2, MinIsLeast
<1> QED
  BY <1>1, <1>3

\* FindFirstFreeReservation returns an entry that is not in use or the place
\* behind the last.
LEMMA FreeEntry ==
  ASSUME VmTypes
  PROVE  /\ FindFirstFreeReservation \in 1 .. Len(ReservationList) + 1
         /\ FindFirstFreeReservation \notin Used
<1> DEFINE free == DOMAIN ReservationList \ Used
<1>1. DOMAIN ReservationList = 1 .. Len(ReservationList) /\ Len(ReservationList) \in Nat
  BY DEF VmTypes
<1>2. CASE free = {}
  <2>1. FindFirstFreeReservation = Len(ReservationList) + 1
    BY <1>2 DEF FindFirstFreeReservation
  <2> QED
    BY <1>1, <2>1 DEF Used
<1>3. CASE free # {}
  <2>1. FindFirstFreeReservation = Min(free)
    BY <1>3 DEF FindFirstFreeReservation
  <2>2. free \in SUBSET Nat
    BY <1>1
  <2>3. Min(free) \in free
    BY <1>3, <2>2, MinIsLeast
  <2> QED
    BY <1>1, <2>1, <2>3
<1> QED
  BY <1>2, <1>3

(***************************************************************************)
(* Reservation.                                                            *)
(***************************************************************************)

\* The address is taken by moving the pointer, before the lock.
LEMMA VmReserves ==
  ASSUME VmInv, NEW t \in VmThreads, NEW size \in {1, 2}, NEW guard \in {0, 1},
         DetermineNextFreeVirtualAddress(t, size, guard), migrations' = migrations
  PROVE  VmInv'
<1> USE DEF VmInv
<1> DEFINE o == [vmOp[t] EXCEPT !.pc = "reserve", !.base = FreeVirtualAddressPointer,
                                !.size = size, !.guard = guard]
<1>1. vmOp[t] \in Operation /\ vmOp[t].pc = "idle" /\ FreeVirtualAddressPointer \in Int
  BY DEF DetermineNextFreeVirtualAddress, VmAt, VmTypes
<1>a. "reserve" \in Places /\ size \in Int /\ guard \in Int
  BY DEF Places
<1>2. o \in Operation
  BY <1>1, <1>a DEF Operation
<1>3. /\ vmOp' = [vmOp EXCEPT ![t] = o]
      /\ FreeVirtualAddressPointer' = FreeVirtualAddressPointer + size
      /\ UNCHANGED <<ReservationList, FreeBitmapAddress, VmmMemoryAccess, metadata>>
  BY DEF DetermineNextFreeVirtualAddress, pagingVars
<1>4. /\ vmOp' \in [VmThreads -> Operation]
      /\ vmOp'[t] = o /\ \A u \in VmThreads \ {t} : vmOp'[u] = vmOp[u]
  BY <1>2, <1>3, OperationTypes
<1>5. VmTypes'
  BY <1>3, <1>4 DEF VmTypes
<1>6. /\ o.pc = "reserve" /\ o.base = FreeVirtualAddressPointer /\ o.size = size /\ o.guard = guard
      /\ o.cpu = vmOp[t].cpu /\ o.flagOf = vmOp[t].flagOf
  BY <1>1 DEF Operation
<1>7. OneCpu'
  <2>1. ~Pinned(t)'
    BY <1>4, <1>6 DEF Pinned
  <2>2. \A u \in VmThreads : /\ vmOp'[u].cpu = vmOp[u].cpu /\ vmOp'[u].flagOf = vmOp[u].flagOf
                             /\ Pinned(u)' => Pinned(u)
                             /\ vmOp'[u].pc = "locked" => vmOp[u].pc = "locked"
    BY <1>4, <1>6, <2>1 DEF Pinned
  <2> QED
    BY <1>3, <1>5, <2>2, OneCpuKept
<1>8. RegionsInv'
  <2>1. Used' = Used /\ ReservationList' = ReservationList
    BY <1>3 DEF Used
  <2>2. \A u \in VmThreads \ {t} : /\ Reserving(u)' <=> Reserving(u)
                                   /\ Reserving(u) => vmOp[u].base + vmOp[u].size <= FreeVirtualAddressPointer
    BY <1>4 DEF Reserving, RegionsInv
  <2>3. ASSUME NEW i \in Used
        PROVE  LET r == ReservationList[i] IN
               /\ r.start + r.size <= FreeVirtualAddressPointer'
               /\ Apart(r.start, r.size, vmOp'[t].base, vmOp'[t].size)
    <3>1. ReservationList[i] \in Entry
      BY DEF VmTypes, Used
    <3>2. ReservationList[i].start + ReservationList[i].size <= FreeVirtualAddressPointer
      BY DEF RegionsInv
    <3> QED
      BY <1>1, <1>3, <1>4, <1>6, <3>1, <3>2 DEF Apart, Entry
  <2>4. ASSUME NEW u \in VmThreads \ {t}, Reserving(u)
        PROVE  /\ Apart(vmOp'[t].base, vmOp'[t].size, vmOp'[u].base, vmOp'[u].size)
               /\ Apart(vmOp'[u].base, vmOp'[u].size, vmOp'[t].base, vmOp'[t].size)
               /\ vmOp'[u].base + vmOp'[u].size <= FreeVirtualAddressPointer'
    <3>1. vmOp[u] \in Operation
      BY DEF VmTypes
    <3> QED
      BY <1>1, <1>3, <1>4, <1>6, <2>2, <2>4, <3>1 DEF Apart, Operation
  <2>5. /\ Reserving(t)' /\ vmOp'[t].pc # "uninit"
        /\ vmOp'[t].base + vmOp'[t].size <= FreeVirtualAddressPointer' /\ vmOp'[t].guard >= 0
    BY <1>1, <1>3, <1>4, <1>6 DEF Reserving
  <2> QED
    BY <1>3, <1>4, <2>1, <2>2, <2>3, <2>4, <2>5 DEF RegionsInv, PagesOf
<1> QED
  BY <1>5, <1>7, <1>8

\* The lock: nobody else on the processor has interrupts off.
LEMMA VmLocks ==
  ASSUME VmInv, NEW t \in VmThreads, NEW from \in {"reserve", "free"},
         AcquireReservationLock(t, from), migrations' = migrations
  PROVE  VmInv'
<1> USE DEF VmInv
<1> DEFINE b == IF from = "free" THEN -1 ELSE 0
           o == [vmOp[t] EXCEPT !.pc = "locked", !.flagOf = vmOp[t].cpu, !.bitmap = b]
<1>1. vmOp[t] \in Operation /\ vmOp[t].pc = from
  BY DEF AcquireReservationLock, VmAt, VmTypes
<1>a. "locked" \in Places /\ b \in Int /\ vmOp[t].cpu \in VmCpus
  BY <1>1 DEF Places, Operation
<1>2. o \in Operation
  BY <1>1, <1>a DEF Operation
<1>3. /\ vmOp' = [vmOp EXCEPT ![t] = o]
      /\ VmmMemoryAccess' = [VmmMemoryAccess EXCEPT ![vmOp[t].cpu] = TRUE]
      /\ UNCHANGED <<reservationVars, metadata>>
  BY DEF AcquireReservationLock, pagingVars
<1>4. /\ vmOp' \in [VmThreads -> Operation]
      /\ vmOp'[t] = o /\ \A u \in VmThreads \ {t} : vmOp'[u] = vmOp[u]
  BY <1>2, <1>3, OperationTypes
<1>5. VmTypes'
  BY <1>3, <1>4 DEF VmTypes, reservationVars
<1>6. /\ o.pc = "locked" /\ o.flagOf = vmOp[t].cpu /\ o.cpu = vmOp[t].cpu /\ o.bitmap = b
      /\ o.base = vmOp[t].base /\ o.size = vmOp[t].size /\ o.guard = vmOp[t].guard
  BY <1>1 DEF Operation
<1>7. OneCpu'
  <2>1. SUFFICES ASSUME migrations = 0 PROVE OneCpu'
    BY DEF OneCpu
  <2>2. \A u, v \in VmThreads : vmOp'[u].cpu = vmOp'[v].cpu
    <3>1. \A u \in VmThreads : vmOp'[u].cpu = vmOp[u].cpu
      BY <1>4, <1>6
    <3> QED
      BY <2>1, <3>1 DEF OneCpu
  <2>3. \A u \in VmThreads : vmOp'[u].flagOf = vmOp'[u].cpu
    <3>1. \A u \in VmThreads \ {t} : vmOp[u].flagOf = vmOp[u].cpu
      BY <2>1 DEF OneCpu
    <3>2. vmOp'[t].flagOf = vmOp'[t].cpu
      BY <1>4, <1>6
    <3>3. \A u \in VmThreads \ {t} : vmOp'[u].flagOf = vmOp'[u].cpu
      BY <1>4, <3>1
    <3> QED
      BY <3>2, <3>3
  <2>4. \A u \in VmThreads \ {t} : ~Pinned(u)
    BY <2>1 DEF OneCpu, AcquireReservationLock, VmAt, VmRuns
  <2>5. \A u \in VmThreads \ {t} : ~Pinned(u)' /\ vmOp'[u].pc # "locked"
    BY <1>4, <2>4 DEF Pinned
  <2>6. VmmMemoryAccess'[vmOp'[t].cpu]
    BY <1>1, <1>3, <1>4, <1>6 DEF Operation, VmTypes
  <2> QED
    BY <2>2, <2>3, <2>5, <2>6 DEF OneCpu
<1>8. RegionsInv'
  <2>1. \A u \in VmThreads : Reserving(u)' =>
           Reserving(u) /\ vmOp'[u].base = vmOp[u].base /\ vmOp'[u].size = vmOp[u].size
                        /\ vmOp'[u].guard = vmOp[u].guard
    <3>1. ASSUME Reserving(t)' PROVE from = "reserve" /\ Reserving(t)
      BY <1>1, <1>4, <1>6, <3>1 DEF Reserving
    <3>2. \A u \in VmThreads \ {t} : Reserving(u)' => Reserving(u)
      BY <1>4 DEF Reserving
    <3> QED
      BY <1>4, <1>6, <3>1, <3>2
  <2>2. \A u \in VmThreads : vmOp'[u].pc = "uninit" =>
           vmOp[u].pc = "uninit" /\ vmOp'[u].bitmap = vmOp[u].bitmap
    BY <1>4, <1>6
  <2> QED
    BY <1>3, <1>5, <2>1, <2>2, ListKept
<1> QED
  BY <1>5, <1>7, <1>8

\* The entry and its bitmap.
LEMMA VmEnters ==
  ASSUME VmInv, NEW t \in VmThreads, ChangeVaReservationState(t), migrations' = migrations
  PROVE  VmInv'
<1> USE DEF VmInv
<1>1. CASE VmPanic
  BY <1>1 DEF VmPanic, VmTypes, RegionsInv, OneCpu, Reserving, Pinned, Used, reservationVars, pagingVars
<1>2. CASE ~VmPanic
  <2> DEFINE slot == FindFirstFreeReservation
             r == [state |-> "Used", start |-> vmOp[t].base, size |-> vmOp[t].size,
                   bitmap |-> FreeBitmapAddress,
                   commit |-> vmOp[t].base + vmOp[t].guard .. vmOp[t].base + vmOp[t].size - 1]
             o == [vmOp[t] EXCEPT !.pc = "owner"]
  <2>1. /\ InitializeReservation(t) /\ LeaveReservationLock(t) /\ VmGoto(t, "owner")
        /\ UNCHANGED FreeVirtualAddressPointer
        /\ VmAt(t, "locked") /\ vmOp[t].bitmap = 0
    BY <1>2 DEF ChangeVaReservationState
  <2>2. /\ vmOp[t] \in Operation /\ vmOp[t].pc = "locked" /\ Reserving(t)
        /\ FreeBitmapAddress \in Int /\ FreeVirtualAddressPointer \in Int
    BY <2>1 DEF VmAt, VmTypes, Reserving
  <2>3. r \in Entry
    BY <2>2 DEF Entry, Operation
  <2>4. "owner" \in Places
    BY DEF Places
  <2>5. o \in Operation
    BY <2>2, <2>4 DEF Operation
  <2>6. vmOp' = [vmOp EXCEPT ![t] = o]
    BY <2>1 DEF VmGoto
  <2>7. /\ vmOp' \in [VmThreads -> Operation]
        /\ vmOp'[t] = o /\ \A u \in VmThreads \ {t} : vmOp'[u] = vmOp[u]
    BY <2>5, <2>6, OperationTypes
  <2>8. /\ o.pc = "owner" /\ o.cpu = vmOp[t].cpu /\ o.flagOf = vmOp[t].flagOf
    BY <2>2 DEF Operation
  <2>9. /\ FreeBitmapAddress' = FreeBitmapAddress + 1
        /\ FreeBitmapAddress \in DOMAIN metadata'
        /\ DOMAIN metadata \subseteq DOMAIN metadata'
        /\ ReservationList' = IF slot > Len(ReservationList) THEN Append(ReservationList, r)
                              ELSE [ReservationList EXCEPT ![slot] = r]
    BY <2>1 DEF InitializeReservation, PageIn
  <2>10. /\ slot \in 1 .. Len(ReservationList) + 1 /\ slot \notin Used
         /\ Len(ReservationList) \in Nat /\ ReservationList \in Seq(Entry)
    BY FreeEntry DEF VmTypes
  <2>11. /\ ReservationList' \in Seq(Entry)
         /\ slot \in DOMAIN ReservationList' /\ ReservationList'[slot] = r
         /\ DOMAIN ReservationList \subseteq DOMAIN ReservationList'
         /\ \A i \in DOMAIN ReservationList' \ {slot} :
              i \in DOMAIN ReservationList /\ ReservationList'[i] = ReservationList[i]
    <3> HIDE DEF slot, r
    <3>1. CASE slot > Len(ReservationList)
      <4>1. slot = Len(ReservationList) + 1
        BY <2>10, <3>1
      <4> QED
        BY <2>3, <2>9, <2>10, <3>1, <4>1
    <3>2. CASE ~(slot > Len(ReservationList))
      <4>1. slot \in 1 .. Len(ReservationList)
        BY <2>10, <3>2
      <4> QED
        BY <2>3, <2>9, <2>10, <3>2, <4>1
    <3> QED
      BY <3>1, <3>2
  <2>12. VmmMemoryAccess' = [VmmMemoryAccess EXCEPT ![vmOp[t].flagOf] = FALSE]
    BY <2>1 DEF LeaveReservationLock
  <2>13. VmTypes'
    <3>1. VmmMemoryAccess' \in [VmCpus -> BOOLEAN]
      BY <2>12 DEF VmTypes
    <3>2. FreeBitmapAddress' \in Int /\ FreeVirtualAddressPointer' \in Int
      BY <2>1, <2>2, <2>9
    <3>3. migrations' \in Nat
      BY DEF VmTypes
    <3> HIDE DEF o
    <3> QED
      BY <2>7, <2>11, <3>1, <3>2, <3>3 DEF VmTypes
  <2>14. Used' = Used \union {slot} /\ r.state = "Used"
    <3>1. r.state = "Used"
      OBVIOUS
    <3>2. Used' = {i \in DOMAIN ReservationList' : ReservationList'[i].state = "Used"}
      BY DEF Used
    <3>3. ReservationList'[slot].state = "Used"
      BY <2>11, <3>1
    <3> HIDE DEF r, slot
    <3>4. ASSUME NEW i \in Used' PROVE i \in Used \union {slot}
      BY <2>11, <3>2 DEF Used
    <3>5. ASSUME NEW i \in Used PROVE i \in Used'
      BY <2>10, <2>11, <3>2 DEF Used
    <3> QED
      BY <2>11, <3>1, <3>2, <3>3, <3>4, <3>5
  <2>15. OneCpu'
    <3>1. SUFFICES ASSUME migrations = 0 PROVE OneCpu'
      BY DEF OneCpu
    <3>2. \A u \in VmThreads : vmOp'[u].cpu = vmOp[u].cpu /\ vmOp'[u].flagOf = vmOp[u].flagOf
      BY <2>7, <2>8
    <3>3. \A u \in VmThreads \ {t} : ~Pinned(u)
      BY <2>2, <3>1 DEF OneCpu, Pinned
    <3>4. \A u \in VmThreads : ~Pinned(u)' /\ vmOp'[u].pc # "locked"
      BY <2>7, <2>8, <3>3 DEF Pinned
    <3> QED
      BY <3>1, <3>2, <3>4 DEF OneCpu
  <2>16. RegionsInv'
    <3>1. \A u \in VmThreads : Reserving(u)' => u # t /\ Reserving(u) /\ vmOp'[u] = vmOp[u]
      BY <2>7, <2>8 DEF Reserving
    <3>2. \A u \in VmThreads : vmOp'[u].pc = "uninit" =>
             u # t /\ vmOp[u].pc = "uninit" /\ vmOp'[u] = vmOp[u]
      BY <2>7, <2>8
    <3>3. /\ r.start = vmOp[t].base /\ r.size = vmOp[t].size /\ r.bitmap = FreeBitmapAddress
          /\ r.commit \subseteq PagesOf(r)
          /\ r.start + r.size <= FreeVirtualAddressPointer
      <4>1. vmOp[t].guard >= 0 /\ vmOp[t].base + vmOp[t].size <= FreeVirtualAddressPointer
        BY <2>2 DEF RegionsInv
      <4> QED
        BY <2>2, <4>1 DEF PagesOf, Operation
    <3>4. ASSUME NEW i \in Used
          PROVE  /\ Apart(r.start, r.size, ReservationList[i].start, ReservationList[i].size)
                 /\ Apart(ReservationList[i].start, ReservationList[i].size, r.start, r.size)
                 /\ r.bitmap # ReservationList[i].bitmap
                 /\ ReservationList'[i] = ReservationList[i]
      <4>1. /\ Apart(ReservationList[i].start, ReservationList[i].size, vmOp[t].base, vmOp[t].size)
            /\ ReservationList[i].bitmap < FreeBitmapAddress
        BY <2>2 DEF RegionsInv
      <4>2. ReservationList[i] \in Entry
        BY <2>10 DEF Used
      <4>3. ReservationList'[i] = ReservationList[i]
        BY <2>10, <2>11, <2>14 DEF Used
      <4> QED
        BY <2>2, <3>3, <4>1, <4>2, <4>3 DEF Apart, Entry
    <3>5. ASSUME NEW u \in VmThreads
          PROVE  /\ Reserving(u)' => Apart(r.start, r.size, vmOp[u].base, vmOp[u].size)
                 /\ vmOp'[u].pc = "uninit" => vmOp'[u].bitmap # r.bitmap /\ vmOp'[u].bitmap < FreeBitmapAddress
      <4>1. Reserving(u)' => Apart(vmOp[t].base, vmOp[t].size, vmOp[u].base, vmOp[u].size)
        BY <2>2, <3>1 DEF RegionsInv
      <4>2. vmOp'[u].pc = "uninit" => vmOp'[u].bitmap < FreeBitmapAddress
        BY <3>2 DEF RegionsInv
      <4>3. vmOp'[u].bitmap \in Int
        BY <2>13 DEF VmTypes, Operation
      <4> QED
        BY <2>2, <3>3, <4>1, <4>2, <4>3
    <3>a. FreeVirtualAddressPointer' = FreeVirtualAddressPointer
          /\ \A n \in Int : n < FreeBitmapAddress => n < FreeBitmapAddress'
      BY <2>1, <2>2, <2>9
    <3>6. ASSUME NEW i \in Used
          PROVE  LET e == ReservationList'[i] IN
                 /\ e.commit \subseteq PagesOf(e)
                 /\ e.start + e.size <= FreeVirtualAddressPointer'
                 /\ e.bitmap \in DOMAIN metadata' /\ e.bitmap < FreeBitmapAddress'
                 /\ \A j \in Used \ {i} :
                      /\ Apart(e.start, e.size, ReservationList'[j].start, ReservationList'[j].size)
                      /\ e.bitmap # ReservationList'[j].bitmap
                 /\ \A u \in VmThreads :
                      /\ Reserving(u)' => Apart(e.start, e.size, vmOp'[u].base, vmOp'[u].size)
                      /\ vmOp'[u].pc = "uninit" => vmOp'[u].bitmap # e.bitmap
      <4>a. ReservationList[i] \in Entry
        BY <2>10 DEF Used
      <4>1. ReservationList'[i] = ReservationList[i] /\ ReservationList[i].bitmap \in Int
        BY <3>4, <4>a DEF Entry
      <4>2. \A j \in Used : ReservationList'[j] = ReservationList[j]
        BY <3>4
      <4>3. PagesOf(ReservationList'[i]) = PagesOf(ReservationList[i])
        BY <4>1
      <4> HIDE DEF r
      <4>4. /\ ReservationList[i].commit \subseteq PagesOf(ReservationList[i])
            /\ ReservationList[i].start + ReservationList[i].size <= FreeVirtualAddressPointer
            /\ ReservationList[i].bitmap \in DOMAIN metadata
            /\ ReservationList[i].bitmap < FreeBitmapAddress
        BY DEF RegionsInv
      <4>5. \A j \in Used \ {i} :
              /\ Apart(ReservationList'[i].start, ReservationList'[i].size,
                       ReservationList'[j].start, ReservationList'[j].size)
              /\ ReservationList'[i].bitmap # ReservationList'[j].bitmap
        BY <4>1, <4>2 DEF RegionsInv
      <4>6. \A u \in VmThreads :
              /\ Reserving(u)' => Apart(ReservationList'[i].start, ReservationList'[i].size,
                                        vmOp'[u].base, vmOp'[u].size)
              /\ vmOp'[u].pc = "uninit" => vmOp'[u].bitmap # ReservationList'[i].bitmap
        BY <3>1, <3>2, <4>1 DEF RegionsInv
      <4>7. /\ ReservationList'[i].commit \subseteq PagesOf(ReservationList'[i])
            /\ ReservationList'[i].start + ReservationList'[i].size <= FreeVirtualAddressPointer'
        BY <3>a, <4>1, <4>3, <4>4
      <4>8. ReservationList'[i].bitmap \in DOMAIN metadata' /\ ReservationList'[i].bitmap < FreeBitmapAddress'
        BY <2>9, <3>a, <4>1, <4>4
      <4> QED
        BY <4>5, <4>6, <4>7, <4>8
    <3>7. ASSUME NEW u \in VmThreads
          PROVE  /\ Reserving(u)' => /\ vmOp'[u].base + vmOp'[u].size <= FreeVirtualAddressPointer'
                                     /\ vmOp'[u].guard >= 0
                 /\ \A w \in VmThreads \ {u} :
                      Reserving(u)' /\ Reserving(w)' =>
                        Apart(vmOp'[u].base, vmOp'[u].size, vmOp'[w].base, vmOp'[w].size)
                 /\ vmOp'[u].pc = "uninit" => vmOp'[u].bitmap < FreeBitmapAddress'
      <4>1. vmOp'[u].bitmap \in Int
        BY <2>13 DEF VmTypes, Operation
      <4> QED
        BY <3>1, <3>5, <3>a, <4>1 DEF RegionsInv
    <3>8. r.bitmap \in DOMAIN metadata' /\ r.bitmap < FreeBitmapAddress'
      BY <2>2, <2>9, <3>3
    <3>9. PagesOf(ReservationList'[slot]) = PagesOf(r) /\ ReservationList'[slot] = r
      BY <2>11
    <3> HIDE DEF r, slot
    <3>10. \A i \in Used : i # slot
      BY <2>10
    <3> QED
      BY <2>14, <3>1, <3>3, <3>4, <3>5, <3>6, <3>7, <3>8, <3>9, <3>10, <3>a DEF RegionsInv
  <2> QED
    BY <2>13, <2>15, <2>16
<1> QED
  BY <1>1, <1>2
(***************************************************************************)
(* Page faults, backing, release.                                          *)
(***************************************************************************)

\* A step of which the reservations see nothing.
LEMMA VmUnseen ==
  ASSUME VmInv, UNCHANGED <<reservationVars, VmmMemoryAccess, metadata, vmOp, migrations>>
  PROVE  VmInv'
BY DEF VmInv, VmTypes, RegionsInv, OneCpu, Reserving, Pinned, Used, PagesOf, reservationVars

\* A thread goes to a place without the lock and without addresses of its own.
LEMMA VmGoesOn ==
  ASSUME VmInv, NEW t \in VmThreads, NEW o \in Operation, vmOp' = [vmOp EXCEPT ![t] = o],
         UNCHANGED <<reservationVars, VmmMemoryAccess, migrations>>,
         o.pc \notin {"reserve", "locked", "fault", "uninit"},
         o.cpu = vmOp[t].cpu, o.flagOf \in {vmOp[t].flagOf, vmOp[t].cpu},
         \A i \in Used : ReservationList[i].bitmap \in DOMAIN metadata =>
                           ReservationList[i].bitmap \in DOMAIN metadata'
  PROVE  VmInv'
<1> USE DEF VmInv
<1>1. /\ vmOp' \in [VmThreads -> Operation]
      /\ vmOp'[t] = o /\ \A u \in VmThreads \ {t} : vmOp'[u] = vmOp[u]
  BY OperationTypes
<1>2. VmTypes'
  BY <1>1 DEF VmTypes, reservationVars
<1>3. \A u \in VmThreads : /\ vmOp'[u].cpu = vmOp[u].cpu
                           /\ vmOp'[u].flagOf \in {vmOp[u].flagOf, vmOp[u].cpu}
                           /\ Pinned(u)' => Pinned(u)
                           /\ vmOp'[u].pc = "locked" => vmOp[u].pc = "locked"
  BY <1>1 DEF Pinned
<1>4. \A u \in VmThreads : Reserving(u)' =>
           Reserving(u) /\ vmOp'[u].base = vmOp[u].base /\ vmOp'[u].size = vmOp[u].size
                        /\ vmOp'[u].guard = vmOp[u].guard
  BY <1>1 DEF Reserving
<1>5. \A u \in VmThreads : vmOp'[u].pc = "uninit" =>
           vmOp[u].pc = "uninit" /\ vmOp'[u].bitmap = vmOp[u].bitmap
  BY <1>1
<1>6. OneCpu'
  BY <1>2, <1>3, OneCpuKept
<1>7. RegionsInv'
  BY <1>2, <1>4, <1>5, ListKept
<1> QED
  BY <1>2, <1>6, <1>7

\* The page of the bitmap of a released entry is no entry's any more.
LEMMA VmUninitializes ==
  ASSUME VmInv, NEW t \in VmThreads, UninitializeReservation(t), migrations' = migrations
  PROVE  VmInv'
<1> DEFINE o == [vmOp[t] EXCEPT !.pc = "flag"]
<1>1. /\ vmOp[t] \in Operation /\ vmOp[t].pc = "uninit" /\ "flag" \in Places
      /\ vmOp' = [vmOp EXCEPT ![t] = o]
      /\ metadata' = UnmapPages(metadata, {vmOp[t].bitmap})
      /\ UNCHANGED <<reservationVars, VmmMemoryAccess, migrations>>
  BY DEF UninitializeReservation, VmAt, VmInv, VmTypes, VmGoto, Places
<1>2. o \in Operation /\ o.pc = "flag" /\ o.cpu = vmOp[t].cpu /\ o.flagOf = vmOp[t].flagOf
  BY <1>1 DEF Operation
<1>3. \A i \in Used : ReservationList[i].bitmap # vmOp[t].bitmap
  BY <1>1 DEF VmInv, RegionsInv
<1>4. DOMAIN metadata' = DOMAIN metadata \ {vmOp[t].bitmap}
  BY <1>1 DEF UnmapPages
<1> HIDE DEF o
<1> QED
  BY <1>1, <1>2, <1>3, <1>4, VmGoesOn

\* The flag that is cleared is that of a processor on which nobody has the
\* lock, as long as nobody moved.
LEMMA VmClears ==
  ASSUME VmInv, NEW t \in VmThreads, ClearVmmMemoryAccess(t), migrations' = migrations
  PROVE  VmInv'
<1> USE DEF VmInv
<1> DEFINE o == [vmOp[t] EXCEPT !.pc = "unmap"]
<1>1. /\ vmOp[t] \in Operation /\ vmOp[t].pc = "flag" /\ "unmap" \in Places
      /\ vmOp' = [vmOp EXCEPT ![t] = o]
      /\ VmmMemoryAccess' = [VmmMemoryAccess EXCEPT ![vmOp[t].flagOf] = FALSE]
      /\ UNCHANGED <<reservationVars, metadata, migrations>>
  BY DEF ClearVmmMemoryAccess, VmAt, VmTypes, VmGoto, Places, pagingVars
<1>2. o \in Operation /\ o.pc = "unmap" /\ o.cpu = vmOp[t].cpu /\ o.flagOf = vmOp[t].flagOf
  BY <1>1 DEF Operation
<1>3. /\ vmOp' \in [VmThreads -> Operation]
      /\ vmOp'[t] = o /\ \A u \in VmThreads \ {t} : vmOp'[u] = vmOp[u]
  BY <1>1, <1>2, OperationTypes
<1>4. VmTypes'
  BY <1>1, <1>3 DEF VmTypes, reservationVars
<1>5. OneCpu'
  <2>1. SUFFICES ASSUME migrations = 0 PROVE OneCpu'
    BY <1>1 DEF OneCpu
  <2>2. \A u \in VmThreads : vmOp'[u].cpu = vmOp[u].cpu /\ vmOp'[u].flagOf = vmOp[u].flagOf
    BY <1>2, <1>3
  <2>3. \A u \in VmThreads : ~Pinned(u)
    BY <1>1, <2>1 DEF OneCpu, ClearVmmMemoryAccess, VmAt, VmRuns, Pinned
  <2>4. \A u \in VmThreads : ~Pinned(u)' /\ vmOp'[u].pc # "locked"
    BY <1>2, <1>3, <2>3 DEF Pinned
  <2> QED
    BY <2>1, <2>2, <2>4 DEF OneCpu
<1>6. RegionsInv'
  <2>1. \A u \in VmThreads : Reserving(u)' =>
           Reserving(u) /\ vmOp'[u].base = vmOp[u].base /\ vmOp'[u].size = vmOp[u].size
                        /\ vmOp'[u].guard = vmOp[u].guard
    BY <1>2, <1>3 DEF Reserving
  <2>2. \A u \in VmThreads : vmOp'[u].pc = "uninit" =>
           vmOp[u].pc = "uninit" /\ vmOp'[u].bitmap = vmOp[u].bitmap
    BY <1>2, <1>3
  <2> QED
    BY <1>1, <1>4, <2>1, <2>2, ListKept
<1> QED
  BY <1>4, <1>5, <1>6

\* The entry is cleared; its bitmap is the thread's to unmap.
LEMMA VmReleases ==
  ASSUME VmInv, NEW t \in VmThreads, ReleaseReservation(t), migrations' = migrations
  PROVE  VmInv'
<1> USE DEF VmInv
<1>1. CASE VmPanic
  BY <1>1, VmUnseen DEF VmPanic, pagingVars
<1>2. CASE ~VmPanic
  <2> DEFINE slot == FindReservation(vmOp[t].base, 1)
             empty == [state |-> "Free", start |-> 0, size |-> 0, bitmap |-> 0, commit |-> {}]
             b == ReservationList[slot].bitmap
             o == [vmOp[t] EXCEPT !.pc = "uninit", !.bitmap = b]
  <2>1. /\ slot # 0 /\ PageIn({0})
        /\ ReservationList' = [ReservationList EXCEPT ![slot] = empty]
        /\ vmOp' = [vmOp EXCEPT ![t] = o]
        /\ UNCHANGED <<FreeVirtualAddressPointer, FreeBitmapAddress, VmmMemoryAccess>>
    BY <1>2 DEF ReleaseReservation
  <2>2. /\ vmOp[t] \in Operation /\ vmOp[t].pc = "locked" /\ "uninit" \in Places
        /\ ReservationList \in Seq(Entry)
    BY DEF ReleaseReservation, VmAt, VmTypes, Places
  <2>3. slot \in Used
    BY <2>1, <2>2, FoundIsUsed DEF Operation
  <2>4. slot \in DOMAIN ReservationList /\ ReservationList[slot] \in Entry
    BY <2>2, <2>3 DEF Used
  <2>5. b \in Int
    BY <2>4 DEF Entry
  <2>6. o \in Operation
    BY <2>2, <2>5 DEF Operation
  <2>7. /\ o.pc = "uninit" /\ o.bitmap = b /\ o.cpu = vmOp[t].cpu /\ o.flagOf = vmOp[t].flagOf
    BY <2>2 DEF Operation
  <2>8. /\ vmOp' \in [VmThreads -> Operation]
        /\ vmOp'[t] = o /\ \A u \in VmThreads \ {t} : vmOp'[u] = vmOp[u]
    BY <2>1, <2>6, OperationTypes
  <2>9. empty \in Entry /\ empty.state = "Free"
    BY DEF Entry
  <2>10. /\ ReservationList' \in Seq(Entry) /\ DOMAIN ReservationList' = DOMAIN ReservationList
         /\ ReservationList'[slot] = empty
         /\ \A i \in DOMAIN ReservationList \ {slot} : ReservationList'[i] = ReservationList[i]
    <3> HIDE DEF slot, empty
    <3> QED
      BY <2>1, <2>2, <2>4, <2>9
  <2>11. VmTypes'
    <3> HIDE DEF o
    <3> QED
      BY <2>1, <2>8, <2>10 DEF VmTypes
  <2>12. \A i \in Used' : i \in Used \ {slot} /\ ReservationList'[i] = ReservationList[i]
    <3>1. \A i \in Used' : i \in DOMAIN ReservationList' /\ ReservationList'[i].state = "Used"
      BY DEF Used
    <3> HIDE DEF slot, empty
    <3> QED
      BY <2>9, <2>10, <3>1 DEF Used
  <2>13. DOMAIN metadata \subseteq DOMAIN metadata'
    BY <2>1 DEF PageIn
  <2>14. OneCpu'
    <3>1. \A u \in VmThreads : /\ vmOp'[u].cpu = vmOp[u].cpu
                               /\ vmOp'[u].flagOf \in {vmOp[u].flagOf, vmOp[u].cpu}
                               /\ Pinned(u)' => Pinned(u)
                               /\ vmOp'[u].pc = "locked" => vmOp[u].pc = "locked"
      BY <2>7, <2>8 DEF Pinned
    <3> QED
      BY <2>1, <2>11, <3>1, OneCpuKept
  <2>15. RegionsInv'
    <3>1. \A u \in VmThreads : Reserving(u)' => Reserving(u) /\ vmOp'[u] = vmOp[u]
      BY <2>7, <2>8 DEF Reserving
    <3>2. b < FreeBitmapAddress /\ \A i \in Used \ {slot} : b # ReservationList[i].bitmap
      BY <2>3 DEF RegionsInv
    <3>3. \A u \in VmThreads : vmOp'[u].pc = "uninit" =>
             \/ vmOp[u].pc = "uninit" /\ vmOp'[u].bitmap = vmOp[u].bitmap
             \/ /\ vmOp'[u].bitmap < FreeBitmapAddress
                /\ \A i \in Used' : vmOp'[u].bitmap # ReservationList[i].bitmap
      BY <2>7, <2>8, <2>12, <3>2
    <3> HIDE DEF slot, b, empty, o
    <3> QED
      BY <2>1, <2>11, <2>12, <2>13, <3>1, <3>3, RegionsKept
  <2> QED
    BY <2>11, <2>14, <2>15
<1> QED
  BY <1>1, <1>2

\* A page of the region is decommitted.
LEMMA VmDecommits ==
  ASSUME VmInv, NEW t \in VmThreads, DecommitReservation(t), migrations' = migrations
  PROVE  VmInv'
<1> USE DEF VmInv
<1> DEFINE slot == FindReservation(vmOp[t].base, 1)
           last == vmOp[t].base + vmOp[t].size - 1
           e == [ReservationList[slot] EXCEPT !.commit = @ \ {last}]
<1>1. /\ slot # 0
      /\ ReservationList' = [ReservationList EXCEPT ![slot] = e]
      /\ UNCHANGED <<FreeVirtualAddressPointer, FreeBitmapAddress, VmmMemoryAccess, metadata, vmOp>>
  BY DEF DecommitReservation
<1>2. vmOp[t] \in Operation /\ ReservationList \in Seq(Entry)
  BY DEF VmTypes
<1>3. slot \in Used
  BY <1>1, <1>2, FoundIsUsed DEF Operation
<1>4. slot \in DOMAIN ReservationList /\ ReservationList[slot] \in Entry
  BY <1>2, <1>3 DEF Used
<1>5. /\ e \in Entry /\ e.start = ReservationList[slot].start /\ e.size = ReservationList[slot].size
      /\ e.bitmap = ReservationList[slot].bitmap /\ e.commit \subseteq ReservationList[slot].commit
  <2> HIDE DEF slot, last
  <2> QED
    BY <1>4 DEF Entry
<1> HIDE DEF slot, e
<1>6. /\ ReservationList' \in Seq(Entry) /\ DOMAIN ReservationList' = DOMAIN ReservationList
      /\ ReservationList'[slot] = e
      /\ \A i \in DOMAIN ReservationList \ {slot} : ReservationList'[i] = ReservationList[i]
  BY <1>1, <1>2, <1>4, <1>5
<1>7. VmTypes'
  BY <1>1, <1>6 DEF VmTypes
<1>8. OneCpu'
  BY <1>1 DEF OneCpu, Pinned
<1>9. \A i \in Used' :
        /\ i \in Used
        /\ ReservationList'[i].start = ReservationList[i].start
        /\ ReservationList'[i].size = ReservationList[i].size
        /\ ReservationList'[i].bitmap = ReservationList[i].bitmap
        /\ ReservationList'[i].commit \subseteq ReservationList[i].commit
  <2>1. \A i \in Used' : i \in DOMAIN ReservationList' /\ ReservationList'[i].state = "Used"
    BY DEF Used
  <2> QED
    BY <1>3, <1>5, <1>6, <2>1 DEF Used
<1>10. \A u \in VmThreads : Reserving(u)' = Reserving(u)
  BY <1>1 DEF Reserving
<1>11. RegionsInv'
  BY <1>1, <1>7, <1>9, <1>10, RegionsKept
<1> QED
  BY <1>7, <1>8, <1>11

\* A fault begins with interrupts off, for which nobody else on the processor
\* may have them off.
LEMMA VmFaults ==
  ASSUME VmInv, NEW t \in VmThreads, NEW p \in Int, CanAddressBeAccessed(t, p), migrations' = migrations
  PROVE  VmInv'
<1> USE DEF VmInv
<1> DEFINE g == IF vmOp[t].pc = "owner" THEN vmOp[t].guard ELSE -1
           o == [vmOp[t] EXCEPT !.pc = "fault", !.frame = p, !.guard = g]
<1>1. /\ vmOp[t] \in Operation /\ VmRuns(t) /\ vmOp[t].pc \in {"idle", "owner"} /\ "fault" \in Places
      /\ vmOp' = [vmOp EXCEPT ![t] = o]
      /\ UNCHANGED <<reservationVars, VmmMemoryAccess, metadata, migrations>>
  BY DEF CanAddressBeAccessed, VmAt, VmTypes, Places, pagingVars
<1>2. g \in Int
  BY <1>1 DEF Operation
<1>3. o \in Operation /\ o.pc = "fault" /\ o.cpu = vmOp[t].cpu /\ o.flagOf = vmOp[t].flagOf
  <2> HIDE DEF g
  <2> QED
    BY <1>1, <1>2 DEF Operation
<1> HIDE DEF o
<1>4. /\ vmOp' \in [VmThreads -> Operation]
      /\ vmOp'[t] = o /\ \A u \in VmThreads \ {t} : vmOp'[u] = vmOp[u]
  BY <1>1, <1>3, OperationTypes
<1>5. VmTypes'
  BY <1>1, <1>4 DEF VmTypes, reservationVars
<1>6. OneCpu'
  <2>1. SUFFICES ASSUME migrations = 0 PROVE OneCpu'
    BY <1>1 DEF OneCpu
  <2>2. \A u \in VmThreads : vmOp'[u].cpu = vmOp[u].cpu /\ vmOp'[u].flagOf = vmOp[u].flagOf
    BY <1>3, <1>4
  <2>3. \A u \in VmThreads \ {t} : ~Pinned(u)
    BY <1>1, <2>1 DEF OneCpu, VmRuns
  <2>4. \A u \in VmThreads \ {t} : ~Pinned(u)' /\ vmOp'[u].pc # "locked"
    BY <1>4, <2>3 DEF Pinned
  <2>5. vmOp'[t].pc # "locked"
    BY <1>3, <1>4
  <2> QED
    BY <2>1, <2>2, <2>4, <2>5 DEF OneCpu
<1>7. RegionsInv'
  <2>1. \A u \in VmThreads : Reserving(u)' =>
           Reserving(u) /\ vmOp'[u].base = vmOp[u].base /\ vmOp'[u].size = vmOp[u].size
                        /\ vmOp'[u].guard = vmOp[u].guard
    BY <1>3, <1>4 DEF Reserving
  <2>2. \A u \in VmThreads : vmOp'[u].pc = "uninit" =>
           vmOp[u].pc = "uninit" /\ vmOp'[u].bitmap = vmOp[u].bitmap
    BY <1>3, <1>4
  <2> QED
    BY <1>1, <1>5, <2>1, <2>2, ListKept
<1> QED
  BY <1>5, <1>6, <1>7

\* The fault is solved.
LEMMA VmSolves ==
  ASSUME VmInv, NEW t \in VmThreads, SolvePageFault(t), migrations' = migrations
  PROVE  VmInv'
<1>1. CASE VmPanic
  BY <1>1, VmUnseen DEF VmPanic, pagingVars
<1>2. CASE ~VmPanic
  <2> DEFINE back == [vmOp[t] EXCEPT !.pc = "owner", !.frame = 0]
             o == IF vmOp[t].guard = -1 THEN IdleOp(vmOp[t].cpu) ELSE back
  <2>1. /\ vmOp[t] \in Operation /\ "owner" \in Places /\ "idle" \in Places
        /\ vmOp' = [vmOp EXCEPT ![t] = o]
        /\ UNCHANGED <<reservationVars, VmmMemoryAccess, metadata, migrations>>
    BY <1>2 DEF SolvePageFault, VmInv, VmTypes, Places
  <2>a. vmOp[t] \in Operation /\ "owner" \in Places /\ 0 \in Int
    BY <2>1
  <2>2. back \in Operation /\ back.pc = "owner" /\ back.cpu = vmOp[t].cpu
        /\ back.flagOf = vmOp[t].flagOf
    <3> HIDE DEF o
    <3> QED
      BY <2>a DEF Operation
  <2>3. IdleOp(vmOp[t].cpu) \in Operation /\ IdleOp(vmOp[t].cpu).pc = "idle"
        /\ IdleOp(vmOp[t].cpu).cpu = vmOp[t].cpu /\ IdleOp(vmOp[t].cpu).flagOf = vmOp[t].cpu
    BY <2>1 DEF Operation, IdleOp
  <2>4. /\ o \in Operation /\ o.pc \in {"idle", "owner"} /\ o.cpu = vmOp[t].cpu
        /\ o.flagOf \in {vmOp[t].flagOf, vmOp[t].cpu}
    BY <2>2, <2>3
  <2> HIDE DEF o
  <2> QED
    BY <2>1, <2>4, VmGoesOn
<1> QED
  BY <1>1, <1>2

\* VmmFreeRegionEx begins.
LEMMA VmFrees ==
  ASSUME VmInv, NEW t \in VmThreads, VmmFreeRegion(t), migrations' = migrations
  PROVE  VmInv'
<1> DEFINE o == [vmOp[t] EXCEPT !.pc = "free"]
<1>1. /\ vmOp[t] \in Operation /\ "free" \in Places
      /\ vmOp' = [vmOp EXCEPT ![t] = o]
      /\ UNCHANGED <<reservationVars, VmmMemoryAccess, metadata, migrations>>
  BY DEF VmmFreeRegion, VmGoto, VmInv, VmTypes, Places, pagingVars
<1>2. o \in Operation /\ o.pc = "free" /\ o.cpu = vmOp[t].cpu /\ o.flagOf = vmOp[t].flagOf
  BY <1>1 DEF Operation
<1> HIDE DEF o
<1> QED
  BY <1>1, <1>2, VmGoesOn

\* VmmFreeRegionEx ends.
LEMMA VmUnmaps ==
  ASSUME VmInv, NEW t \in VmThreads, UnmapRegion(t), migrations' = migrations
  PROVE  VmInv'
<1> DEFINE o == IdleOp(vmOp[t].cpu)
<1>1. /\ vmOp[t] \in Operation /\ "idle" \in Places
      /\ vmOp' = [vmOp EXCEPT ![t] = o]
      /\ UNCHANGED <<reservationVars, VmmMemoryAccess, metadata, migrations>>
  BY DEF UnmapRegion, VmInv, VmTypes, Places
<1>2. o \in Operation /\ o.pc = "idle" /\ o.cpu = vmOp[t].cpu /\ o.flagOf = vmOp[t].cpu
  BY <1>1 DEF Operation, IdleOp
<1> HIDE DEF o
<1> QED
  BY <1>1, <1>2, VmGoesOn

\* A thread moves: from then on nothing is claimed of the flags.
LEMMA VmMoves ==
  ASSUME VmInv, NEW t \in VmThreads, NEW c \in VmCpus, VmMigrate(t, c)
  PROVE  VmInv'
<1> USE DEF VmInv
<1> DEFINE o == [vmOp[t] EXCEPT !.cpu = c]
<1>1. /\ vmOp[t] \in Operation /\ vmOp' = [vmOp EXCEPT ![t] = o]
      /\ UNCHANGED <<reservationVars, VmmMemoryAccess, metadata>>
      /\ migrations \in Nat /\ migrations' = migrations + 1
  BY DEF VmMigrate, VmTypes, pagingVars
<1>2. o \in Operation /\ o.pc = vmOp[t].pc /\ o.base = vmOp[t].base /\ o.size = vmOp[t].size
      /\ o.guard = vmOp[t].guard /\ o.bitmap = vmOp[t].bitmap
  BY <1>1 DEF Operation
<1>3. /\ vmOp' \in [VmThreads -> Operation]
      /\ vmOp'[t] = o /\ \A u \in VmThreads \ {t} : vmOp'[u] = vmOp[u]
  BY <1>1, <1>2, OperationTypes
<1>4. VmTypes'
  BY <1>1, <1>3 DEF VmTypes, reservationVars
<1>5. OneCpu'
  BY <1>1 DEF OneCpu
<1>6. RegionsInv'
  <2>1. \A u \in VmThreads : Reserving(u)' =>
           Reserving(u) /\ vmOp'[u].base = vmOp[u].base /\ vmOp'[u].size = vmOp[u].size
                        /\ vmOp'[u].guard = vmOp[u].guard
    BY <1>2, <1>3 DEF Reserving
  <2>2. \A u \in VmThreads : vmOp'[u].pc = "uninit" =>
           vmOp[u].pc = "uninit" /\ vmOp'[u].bitmap = vmOp[u].bitmap
    BY <1>2, <1>3
  <2> QED
    BY <1>1, <1>4, <2>1, <2>2, ListKept
<1> QED
  BY <1>4, <1>5, <1>6

\* A new address space.
LEMMA InitVmInv == VmInit => VmInv
<1> SUFFICES ASSUME VmInit PROVE VmInv
  OBVIOUS
<1> DEFINE c0 == CHOOSE c \in VmCpus : TRUE
<1>1. c0 \in VmCpus
  BY VmAssumption
<1> HIDE DEF c0
<1>2. IdleOp(c0) \in Operation /\ IdleOp(c0).pc = "idle" /\ IdleOp(c0).cpu = c0 /\ IdleOp(c0).flagOf = c0
  BY <1>1 DEF IdleOp, Operation, Places
<1>3. vmOp = [t \in VmThreads |-> IdleOp(c0)]
  BY DEF VmInit, c0
<1>4. Used = {}
  BY DEF VmInit, Used
<1>5. VmTypes
  BY <1>2, <1>3 DEF VmInit, VmTypes
<1>6. \A t \in VmThreads : vmOp[t] = IdleOp(c0)
  BY <1>3
<1>7. RegionsInv
  BY <1>2, <1>4, <1>6 DEF RegionsInv, Reserving
<1>8. OneCpu
  BY <1>2, <1>6 DEF OneCpu, Pinned
<1> QED
  BY <1>5, <1>7, <1>8 DEF VmInv

\* Every step of an address space.
LEMMA NextVmInv == VmInv /\ [VmNext]_vmVars => VmInv'
<1> SUFFICES ASSUME VmInv, [VmNext]_vmVars PROVE VmInv'
  OBVIOUS
<1>1. CASE UNCHANGED vmVars
  BY <1>1, VmUnseen DEF vmVars, pagingVars
<1>2. ASSUME NEW t \in VmThreads, NEW c \in VmCpus, VmMigrate(t, c) PROVE VmInv'
  BY <1>2, VmMoves
<1>3. CASE VmStep /\ UNCHANGED migrations
  <2>1. ASSUME NEW t \in VmThreads, VmmAllocRegionEx(t) \/ MmuAllocStack(t) PROVE VmInv'
    <3>1. CASE MmuAllocStack(t)
      BY <1>3, <3>1, VmReserves DEF MmuAllocStack
    <3>2. CASE VmmAllocRegionEx(t)
      <4>1. PICK size \in 1 .. 2 : DetermineNextFreeVirtualAddress(t, size, 0)
        BY <3>2 DEF VmmAllocRegionEx
      <4>2. size \in {1, 2}
        OBVIOUS
      <4> QED
        BY <1>3, <4>1, <4>2, VmReserves
    <3> QED
      BY <2>1, <3>1, <3>2
  <2>2. ASSUME NEW t \in VmThreads, VmReservationSpaceAllocRegion(t) PROVE VmInv'
    BY <1>3, <2>2, VmLocks, VmEnters DEF VmReservationSpaceAllocRegion
  <2>3. ASSUME NEW t \in VmThreads, BackRegion(t) PROVE VmInv'
    BY <1>3, <2>3, VmUnseen DEF BackRegion
  <2>4. ASSUME NEW t \in VmThreads, VmmSolvePageFault(t) PROVE VmInv'
    BY <1>3, <2>4, VmFaults, VmSolves DEF VmmSolvePageFault
  <2>5. ASSUME NEW t \in VmThreads, VmmFreeRegion(t) PROVE VmInv'
    BY <1>3, <2>5, VmFrees
  <2>6. ASSUME NEW t \in VmThreads, VmReservationSpaceFreeRegion(t) PROVE VmInv'
    BY <1>3, <2>6, VmLocks, VmReleases, VmUninitializes, VmClears DEF VmReservationSpaceFreeRegion
  <2>7. ASSUME NEW t \in VmThreads, UnmapRegion(t) PROVE VmInv'
    BY <1>3, <2>7, VmUnmaps
  <2>8. ASSUME NEW t \in VmThreads, DecommitReservation(t) PROVE VmInv'
    BY <1>3, <2>8, VmDecommits
  <2>9. CASE MmuZeroWorkerThreadFunction
    BY <1>3, <2>9, VmUnseen DEF MmuZeroWorkerThreadFunction, ZeroWorkerTakes, ZeroWorkerClears,
                                pagingVars
  <2> QED
    BY <1>3, <2>1, <2>2, <2>3, <2>4, <2>5, <2>6, <2>7, <2>8, <2>9 DEF VmStep
<1> QED
  BY <1>1, <1>2, <1>3 DEF VmNext

\* Whatever the threads and the zero worker do, live regions of an address
\* space are disjoint, their commit bitmaps are apart, mapped and in nobody's
\* hands (VmReservationSpaceAllocRegion, VmReservationSpaceFreeRegion), and on
\* one processor the accesses to this metadata are announced, for any number
\* of threads, pages and frames.
THEOREM ReservationsSafe == VmInit /\ [][VmNext]_vmVars => []ReservationsSound
<1>1. VmInv => ReservationsSound
  <2> SUFFICES ASSUME VmInv PROVE ReservationsSound
    OBVIOUS
  <2>1. ASSUME NEW i \in Used, NEW j \in Used \ {i}
        PROVE  PagesOf(ReservationList[i]) \intersect PagesOf(ReservationList[j]) = {}
    <3>1. Apart(ReservationList[i].start, ReservationList[i].size,
                ReservationList[j].start, ReservationList[j].size)
      BY DEF VmInv, RegionsInv
    <3>2. ReservationList[i] \in Entry /\ ReservationList[j] \in Entry
      BY DEF VmInv, VmTypes, Used
    <3> QED
      BY <3>1, <3>2 DEF Apart, PagesOf, Entry
  <2>2. RegionsApart
    BY <2>1 DEF VmInv, RegionsInv, RegionsApart
  <2>3. MetadataAccessAnnounced
    BY DEF VmInv, OneCpu, MetadataAccessAnnounced
  <2> QED
    BY <2>2, <2>3 DEF ReservationsSound
<1> QED
  BY <1>1, InitVmInv, NextVmInv, PTL

(***************************************************************************)
(* The frames of an address space.                                         *)
(***************************************************************************)

\* Counting the smaller elements of a finite set numbers its elements.
LEMMA PlacesOfSet ==
  ASSUME NEW S \in SUBSET Int, IsFiniteSet(S)
  PROVE  /\ Cardinality(S) \in Nat
         /\ \A x \in S : PlaceIn(S, x) \in 1 .. Cardinality(S)
         /\ \A x, y \in S : PlaceIn(S, x) = PlaceIn(S, y) => x = y
         /\ \A i \in 1 .. Cardinality(S) : AtPlace(S, i) \in S /\ PlaceIn(S, AtPlace(S, i)) = i
<1> DEFINE upTo(x) == {y \in S : y <= x}
           n == Cardinality(S)
<1>1. n \in Nat
  BY FS_CardinalityType
<1>2. ASSUME NEW x \in S
      PROVE  IsFiniteSet(upTo(x)) /\ Cardinality(upTo(x)) \in Nat /\ PlaceIn(S, x) \in 1 .. n
  <2>1. upTo(x) \in SUBSET S /\ x \in upTo(x)
    OBVIOUS
  <2>2. IsFiniteSet(upTo(x)) /\ Cardinality(upTo(x)) <= n
    BY <2>1, FS_Subset
  <2>3. Cardinality(upTo(x)) \in Nat /\ Cardinality(upTo(x)) # 0
    BY <2>1, <2>2, FS_CardinalityType, FS_EmptySet
  <2> QED
    BY <1>1, <2>2, <2>3 DEF PlaceIn
<1>3. ASSUME NEW x \in S, NEW y \in S, x < y
      PROVE  PlaceIn(S, x) # PlaceIn(S, y)
  <2>0. x \in Int /\ y \in Int /\ \A z \in S : z \in Int
    OBVIOUS
  <2>1. upTo(x) \in SUBSET upTo(y) /\ y \in upTo(y) /\ y \notin upTo(x)
    <3>1. \A z \in S : z <= x => z <= y
      BY <1>3, <2>0
    <3>2. y <= y /\ ~(y <= x)
      BY <1>3, <2>0
    <3> QED
      BY <3>1, <3>2
  <2>2. Cardinality(upTo(x)) # Cardinality(upTo(y))
    BY <1>2, <2>1, FS_Subset
  <2> QED
    BY <2>2 DEF PlaceIn
<1>4. \A x, y \in S : PlaceIn(S, x) = PlaceIn(S, y) => x = y
  BY <1>3
<1> DEFINE f == [x \in S |-> PlaceIn(S, x)]
<1>5. f \in Surjection(S, 1 .. n)
  <2>1. f \in Injection(S, 1 .. n)
    BY <1>2, <1>4 DEF Injection, IsInjective
  <2>2. IsFiniteSet(1 .. n) /\ Cardinality(1 .. n) = n
    BY <1>1, FS_Interval
  <2> HIDE DEF f
  <2> QED
    BY <2>1, <2>2, FS_Injection
<1>6. ASSUME NEW i \in 1 .. n PROVE AtPlace(S, i) \in S /\ PlaceIn(S, AtPlace(S, i)) = i
  <2>1. \E x \in S : PlaceIn(S, x) = i
    BY <1>5 DEF Surjection
  <2> QED
    BY <2>1 DEF AtPlace
<1> QED
  BY <1>1, <1>2, <1>4, <1>6

\* PmmReserveMemory, a frame at a time: every page gets a free frame of its own.
LEMMA FramesForPages ==
  ASSUME freeFrames \in SUBSET VmFrames,
         NEW pages \in SUBSET Int, IsFiniteSet(pages), Cardinality(pages) <= Cardinality(freeFrames)
  PROVE  FramesFor(pages) \in [pages -> freeFrames] /\ IsInjective(FramesFor(pages))
<1>1. IsFiniteSet(freeFrames) /\ freeFrames \in SUBSET Int
  <2>1. IsFiniteSet(VmFrames) /\ VmFrames \subseteq Nat
    BY VmAssumption
  <2>2. IsFiniteSet(freeFrames)
    BY <2>1, FS_Subset
  <2> QED
    BY <2>1, <2>2
<1>2. ASSUME NEW q \in pages
      PROVE  PlaceIn(pages, q) \in 1 .. Cardinality(freeFrames)
  BY <1>1, PlacesOfSet
<1>3. FramesFor(pages) \in [pages -> freeFrames]
  BY <1>1, <1>2, PlacesOfSet DEF FramesFor
<1>4. ASSUME NEW q \in pages, NEW r \in pages, FramesFor(pages)[q] = FramesFor(pages)[r]
      PROVE  q = r
  <2>1. AtPlace(freeFrames, PlaceIn(pages, q)) = AtPlace(freeFrames, PlaceIn(pages, r))
    BY <1>4 DEF FramesFor
  <2>2. PlaceIn(pages, q) = PlaceIn(pages, r)
    BY <1>1, <1>2, <2>1, PlacesOfSet
  <2> QED
    BY <2>2, PlacesOfSet
<1> QED
  BY <1>3, <1>4 DEF IsInjective

\* Mapping pages to frames that no page has.
LEMMA MapGrows ==
  ASSUME NEW m, IsInjective(m),
         NEW g, IsInjective(g), Range(m) \intersect Range(g) = {},
         NEW n, DOMAIN n = DOMAIN m \union DOMAIN g,
         \A q \in DOMAIN m : n[q] = m[q],
         \A q \in DOMAIN g : n[q] = g[q]
  PROVE  IsInjective(n) /\ Range(n) = Range(m) \union Range(g)
<1>1. Range(n) = Range(m) \union Range(g)
  BY DEF Range
<1>2. ASSUME NEW p \in DOMAIN n, NEW q \in DOMAIN n, n[p] = n[q] PROVE p = q
  <2>1. CASE p \in DOMAIN m /\ q \in DOMAIN m
    BY <1>2, <2>1 DEF IsInjective
  <2>2. CASE p \in DOMAIN g /\ q \in DOMAIN g
    BY <1>2, <2>2 DEF IsInjective
  <2>3. CASE p \in DOMAIN m /\ q \in DOMAIN g
    BY <1>2, <2>3 DEF Range
  <2>4. CASE q \in DOMAIN m /\ p \in DOMAIN g
    BY <1>2, <2>4 DEF Range
  <2> QED
    BY <2>1, <2>2, <2>3, <2>4
<1> QED
  BY <1>1, <1>2 DEF IsInjective

\* MmuUnmapMemoryEx: the frames of the pages go to the released ones.
LEMMA UnmapReleases ==
  ASSUME NEW m, DOMAIN m \in SUBSET Int, \A q \in DOMAIN m : m[q] \in VmFrames,
         NEW pages, IsFiniteSet(pages)
  PROVE  /\ ReleasedFrames(m, pages) \in Seq(VmFrames)
         /\ IsInjective(m) =>
              /\ IsInjective(UnmapPages(m, pages)) /\ IsInjective(ReleasedFrames(m, pages))
              /\ Range(ReleasedFrames(m, pages)) \subseteq Range(m)
              /\ Range(UnmapPages(m, pages)) = Range(m) \ Range(ReleasedFrames(m, pages))
<1> DEFINE present == DOMAIN m \intersect pages
           c == Cardinality(present)
           r == ReleasedFrames(m, pages)
<1>1. IsFiniteSet(present) /\ present \in SUBSET Int
  BY FS_Intersection
<1>2. /\ c \in Nat
      /\ \A x \in present : PlaceIn(present, x) \in 1 .. c
      /\ \A x, y \in present : PlaceIn(present, x) = PlaceIn(present, y) => x = y
      /\ \A i \in 1 .. c : AtPlace(present, i) \in present /\ PlaceIn(present, AtPlace(present, i)) = i
  BY <1>1, PlacesOfSet
<1>3. r = [i \in 1 .. c |-> m[AtPlace(present, i)]]
  BY DEF ReleasedFrames
<1>4. r \in Seq(VmFrames) /\ DOMAIN r = 1 .. c
  <2>1. \A i \in 1 .. c : m[AtPlace(present, i)] \in VmFrames
    BY <1>2
  <2> HIDE DEF r, present, c
  <2>2. r \in [1 .. c -> VmFrames]
    BY <1>3, <2>1
  <2> QED
    BY <1>2, <2>2
<1>5. ASSUME NEW x \in present PROVE AtPlace(present, PlaceIn(present, x)) = x
  BY <1>2
<1>6. Range(r) = {m[x] : x \in present}
  <2>1. ASSUME NEW i \in 1 .. c PROVE r[i] \in {m[x] : x \in present}
    BY <1>2, <1>3
  <2>2. ASSUME NEW x \in present PROVE \E i \in 1 .. c : r[i] = m[x]
    <3>1. PlaceIn(present, x) \in 1 .. c /\ AtPlace(present, PlaceIn(present, x)) = x
      BY <1>2, <1>5
    <3> HIDE DEF r, present, c
    <3> QED
      BY <1>3, <3>1
  <2> HIDE DEF r, present, c
  <2> QED
    BY <1>4, <2>1, <2>2 DEF Range
<1>7. ASSUME IsInjective(m)
      PROVE  /\ IsInjective(UnmapPages(m, pages)) /\ IsInjective(r)
             /\ Range(r) \subseteq Range(m)
             /\ Range(UnmapPages(m, pages)) = Range(m) \ Range(r)
  <2>1. IsInjective(UnmapPages(m, pages))
    BY <1>7 DEF UnmapPages, IsInjective
  <2>2. IsInjective(r)
    <3> SUFFICES ASSUME NEW i \in 1 .. c, NEW j \in 1 .. c, r[i] = r[j] PROVE i = j
      BY <1>4 DEF IsInjective
    <3>1. AtPlace(present, i) = AtPlace(present, j)
      BY <1>2, <1>3, <1>7 DEF IsInjective
    <3> QED
      BY <1>2, <3>1
  <2>3. Range(r) \subseteq Range(m)
    BY <1>6 DEF Range
  <2>4. Range(UnmapPages(m, pages)) = {m[x] : x \in DOMAIN m \ pages}
    BY DEF UnmapPages, Range
  <2>5. Range(UnmapPages(m, pages)) = Range(m) \ Range(r)
    <3> HIDE DEF r
    <3>1. ASSUME NEW x \in DOMAIN m, NEW y \in present, m[x] = m[y] PROVE x \in pages
      BY <1>7, <3>1 DEF IsInjective
    <3>2. \A x \in DOMAIN m : x \in pages => x \in present
      OBVIOUS
    <3> HIDE DEF present
    <3> QED
      BY <1>6, <2>4, <3>1, <3>2 DEF Range
  <2> QED
    BY <2>1, <2>2, <2>3, <2>5
<1> QED
  BY <1>4, <1>7

\* Two lists of frames after each other.
LEMMA ListsJoined ==
  ASSUME NEW S, NEW s \in Seq(S), NEW r \in Seq(S)
  PROVE  /\ s \o r \in Seq(S) /\ Range(s \o r) = Range(s) \union Range(r)
         /\ IsInjective(s) /\ IsInjective(r) /\ Range(s) \intersect Range(r) = {} => IsInjective(s \o r)
<1> DEFINE k == Len(s)
           n == Len(r)
           b == s \o r
<1>1. /\ b \in Seq(S) /\ k \in Nat /\ n \in Nat /\ DOMAIN b = 1 .. k + n
      /\ DOMAIN s = 1 .. k /\ DOMAIN r = 1 .. n
      /\ \A i \in 1 .. k : b[i] = s[i]
      /\ \A i \in 1 .. n : b[k + i] = r[i]
  OBVIOUS
<1> HIDE DEF k, n, b
<1>2. ASSUME NEW i \in 1 .. k + n
      PROVE  \/ i \in 1 .. k /\ b[i] = s[i]
             \/ i - k \in 1 .. n /\ b[i] = r[i - k]
  <2>1. CASE i <= k
    BY <1>1, <2>1
  <2>2. CASE i > k
    <3>1. i - k \in 1 .. n /\ k + (i - k) = i
      BY <1>1, <2>2
    <3> QED
      BY <1>1, <3>1
  <2> QED
    BY <1>1, <2>1, <2>2
<1>3. Range(b) = Range(s) \union Range(r)
  <2>1. \A i \in 1 .. n : k + i \in 1 .. k + n
    BY <1>1
  <2>2. \A i \in 1 .. k : i \in 1 .. k + n
    BY <1>1
  <2> QED
    <3>1. \A i \in 1 .. n : r[i] = b[k + i]
      BY <1>1
    <3>2. Range(b) \subseteq Range(s) \union Range(r)
      BY <1>1, <1>2 DEF Range
    <3>3. Range(s) \subseteq Range(b)
      BY <1>1, <2>2 DEF Range
    <3>4. Range(r) \subseteq Range(b)
      BY <1>1, <2>1, <3>1 DEF Range
    <3> QED
      BY <3>2, <3>3, <3>4
<1>4. ASSUME IsInjective(s), IsInjective(r), Range(s) \intersect Range(r) = {}
      PROVE  IsInjective(b)
  <2> SUFFICES ASSUME NEW i \in 1 .. k + n, NEW j \in 1 .. k + n, b[i] = b[j] PROVE i = j
    BY <1>1 DEF IsInjective
  <2>1. CASE i \in 1 .. k /\ j \in 1 .. k /\ b[i] = s[i] /\ b[j] = s[j]
    BY <1>1, <1>4, <2>1 DEF IsInjective
  <2>2. CASE i - k \in 1 .. n /\ j - k \in 1 .. n /\ b[i] = r[i - k] /\ b[j] = r[j - k]
    <3>1. i - k = j - k
      BY <1>1, <1>4, <2>2 DEF IsInjective
    <3> QED
      BY <1>1, <3>1
  <2>3. CASE i \in 1 .. k /\ j - k \in 1 .. n /\ b[i] = s[i] /\ b[j] = r[j - k]
    BY <1>1, <1>4, <2>3 DEF Range
  <2>4. CASE j \in 1 .. k /\ i - k \in 1 .. n /\ b[j] = s[j] /\ b[i] = r[i - k]
    BY <1>1, <1>4, <2>4 DEF Range
  <2> QED
    BY <1>2, <2>1, <2>2, <2>3, <2>4
<1> QED
  BY <1>1, <1>3, <1>4 DEF b

\* A frame is mapped in the space or in its metadata, waits to be zeroed, or
\* is free.
FrameTypes ==
  /\ DOMAIN metadata \subseteq Int /\ \A q \in DOMAIN metadata : metadata[q] \in VmFrames
  /\ DOMAIN ptes \subseteq Int /\ \A q \in DOMAIN ptes : ptes[q] \in VmFrames
  /\ PagesToZeroList \in Seq(VmFrames)
  /\ freeFrames \in SUBSET VmFrames

OnePlace ==
  /\ IsInjective(metadata) /\ IsInjective(ptes) /\ IsInjective(PagesToZeroList)
  /\ Range(metadata) \intersect Range(ptes) = {}
  /\ Range(metadata) \intersect Range(PagesToZeroList) = {}
  /\ Range(ptes) \intersect Range(PagesToZeroList) = {}
  /\ freeFrames \intersect (Range(metadata) \union Range(ptes) \union Range(PagesToZeroList)) = {}
  /\ VmFrames = freeFrames \union Range(metadata) \union Range(ptes) \union Range(PagesToZeroList)

\* A page whose fault is being solved is not mapped.
FaultsFresh == \A t \in VmThreads : vmOp[t].pc = "fault" => vmOp[t].frame \notin DOMAIN ptes

FramesInv == FrameTypes /\ (migrations = 0 => OnePlace /\ FaultsFresh)

frameVars == <<metadata, ptes, PagesToZeroList, freeFrames>>

\* A step that moves no frame.
LEMMA FramesStay ==
  ASSUME FrameTypes, UNCHANGED frameVars
  PROVE  FrameTypes' /\ (OnePlace => OnePlace')
BY DEF frameVars, FrameTypes, OnePlace

\* Faults on the metadata are solved.
LEMMA MetadataPagedIn ==
  ASSUME FrameTypes, NEW pages \in SUBSET Int, IsFiniteSet(pages),
         NEW c, MetadataFaultsSolved(c, pages), PageIn(pages), UNCHANGED <<ptes, PagesToZeroList>>
  PROVE  FrameTypes' /\ (OnePlace => OnePlace')
<1> DEFINE missing == TouchedMetadata(pages)
           g == FramesFor(missing)
<1>1. missing \in SUBSET Int /\ IsFiniteSet(missing) /\ missing \intersect DOMAIN metadata = {}
      /\ DOMAIN metadata \union pages = DOMAIN metadata \union missing
  BY FS_Difference DEF TouchedMetadata
<1>2. Cardinality(missing) <= Cardinality(freeFrames)
  <2>1. CASE missing = {}
    <3>1. IsFiniteSet(freeFrames)
      BY VmAssumption, FS_Subset DEF FrameTypes
    <3>2. Cardinality(missing) = 0 /\ Cardinality(freeFrames) \in Nat
      BY <2>1, <3>1, FS_EmptySet, FS_CardinalityType
    <3> QED
      BY <3>2
  <2>2. CASE missing # {}
    BY <2>2 DEF MetadataFaultsSolved
  <2> QED
    BY <2>1, <2>2
<1>3. g \in [missing -> freeFrames] /\ IsInjective(g)
  BY <1>1, <1>2, FramesForPages DEF FrameTypes
<1>4. /\ metadata' = [q \in DOMAIN metadata \union pages |->
                        IF q \in DOMAIN metadata THEN metadata[q] ELSE g[q]]
      /\ freeFrames' = freeFrames \ {g[q] : q \in DOMAIN g}
  BY DEF PageIn
<1> HIDE DEF g, missing
<1>5. /\ DOMAIN metadata' = DOMAIN metadata \union DOMAIN g
      /\ \A q \in DOMAIN metadata : metadata'[q] = metadata[q]
      /\ \A q \in DOMAIN g : metadata'[q] = g[q]
      /\ freeFrames' = freeFrames \ Range(g) /\ Range(g) \subseteq freeFrames
  BY <1>1, <1>3, <1>4 DEF Range
<1>6. FrameTypes'
  BY <1>1, <1>3, <1>5 DEF FrameTypes
<1>7. ASSUME OnePlace PROVE OnePlace'
  <2>1. IsInjective(metadata') /\ Range(metadata') = Range(metadata) \union Range(g)
    <3>1. IsInjective(metadata) /\ Range(metadata) \intersect Range(g) = {}
      BY <1>5, <1>7 DEF OnePlace
    <3> QED
      BY <1>3, <1>5, <3>1, MapGrows
  <2> QED
    BY <1>5, <1>7, <2>1 DEF OnePlace
<1> QED
  BY <1>6, <1>7

\* Pages of the space get frames that are free.
LEMMA PagesBacked ==
  ASSUME FrameTypes, NEW g, DOMAIN g \in SUBSET Int, Range(g) \subseteq freeFrames,
         DOMAIN ptes' = DOMAIN ptes \union DOMAIN g,
         \A q \in DOMAIN g : ptes'[q] = g[q],
         \A q \in DOMAIN ptes \ DOMAIN g : ptes'[q] = ptes[q],
         freeFrames' = freeFrames \ Range(g),
         UNCHANGED <<metadata, PagesToZeroList>>
  PROVE  /\ FrameTypes'
         /\ OnePlace /\ IsInjective(g) /\ DOMAIN g \intersect DOMAIN ptes = {} => OnePlace'
<1>1. FrameTypes'
  <2>1. \A q \in DOMAIN g : g[q] \in VmFrames
    BY DEF FrameTypes, Range
  <2> QED
    BY <2>1 DEF FrameTypes
<1>2. ASSUME OnePlace, IsInjective(g), DOMAIN g \intersect DOMAIN ptes = {} PROVE OnePlace'
  <2>1. IsInjective(ptes) /\ Range(ptes) \intersect Range(g) = {}
        /\ \A q \in DOMAIN ptes : ptes'[q] = ptes[q]
    BY <1>2 DEF OnePlace
  <2>2. IsInjective(ptes') /\ Range(ptes') = Range(ptes) \union Range(g)
    BY <1>2, <2>1, MapGrows
  <2> QED
    BY <1>2, <2>2 DEF OnePlace
<1> QED
  BY <1>1, <1>2

\* MmuReleaseMemory of what was unmapped in the metadata ...
LEMMA MetadataReleased ==
  ASSUME FrameTypes, NEW pages, IsFiniteSet(pages),
         metadata' = UnmapPages(metadata, pages),
         MmuReleaseMemory(ReleasedFrames(metadata, pages)), UNCHANGED <<ptes, freeFrames>>
  PROVE  FrameTypes' /\ (OnePlace => OnePlace')
<1> DEFINE r == ReleasedFrames(metadata, pages)
<1>1. /\ r \in Seq(VmFrames)
      /\ IsInjective(metadata) =>
           /\ IsInjective(metadata') /\ IsInjective(r)
           /\ Range(r) \subseteq Range(metadata) /\ Range(metadata') = Range(metadata) \ Range(r)
  BY UnmapReleases DEF FrameTypes
<1>2. PagesToZeroList' = PagesToZeroList \o r
  BY DEF MmuReleaseMemory
<1>3. DOMAIN metadata' \subseteq DOMAIN metadata /\ \A q \in DOMAIN metadata' : metadata'[q] = metadata[q]
  BY DEF UnmapPages
<1> HIDE DEF r
<1>4. /\ PagesToZeroList' \in Seq(VmFrames)
      /\ Range(PagesToZeroList') = Range(PagesToZeroList) \union Range(r)
      /\ IsInjective(PagesToZeroList) /\ IsInjective(r) /\ Range(PagesToZeroList) \intersect Range(r) = {}
           => IsInjective(PagesToZeroList')
  BY <1>1, <1>2, ListsJoined DEF FrameTypes
<1>5. FrameTypes'
  BY <1>3, <1>4 DEF FrameTypes
<1>6. ASSUME OnePlace PROVE OnePlace'
  BY <1>1, <1>4, <1>6 DEF OnePlace
<1> QED
  BY <1>5, <1>6

\* ... or in the space.
LEMMA PagesReleased ==
  ASSUME FrameTypes, NEW pages, IsFiniteSet(pages),
         ptes' = UnmapPages(ptes, pages),
         MmuReleaseMemory(ReleasedFrames(ptes, pages)), UNCHANGED <<metadata, freeFrames>>
  PROVE  FrameTypes' /\ (OnePlace => OnePlace')
<1> DEFINE r == ReleasedFrames(ptes, pages)
<1>1. /\ r \in Seq(VmFrames)
      /\ IsInjective(ptes) =>
           /\ IsInjective(ptes') /\ IsInjective(r)
           /\ Range(r) \subseteq Range(ptes) /\ Range(ptes') = Range(ptes) \ Range(r)
  BY UnmapReleases DEF FrameTypes
<1>2. PagesToZeroList' = PagesToZeroList \o r
  BY DEF MmuReleaseMemory
<1>3. DOMAIN ptes' \subseteq DOMAIN ptes /\ \A q \in DOMAIN ptes' : ptes'[q] = ptes[q]
  BY DEF UnmapPages
<1> HIDE DEF r
<1>4. /\ PagesToZeroList' \in Seq(VmFrames)
      /\ Range(PagesToZeroList') = Range(PagesToZeroList) \union Range(r)
      /\ IsInjective(PagesToZeroList) /\ IsInjective(r) /\ Range(PagesToZeroList) \intersect Range(r) = {}
           => IsInjective(PagesToZeroList')
  BY <1>1, <1>2, ListsJoined DEF FrameTypes
<1>5. FrameTypes'
  BY <1>3, <1>4 DEF FrameTypes
<1>6. ASSUME OnePlace PROVE OnePlace'
  BY <1>1, <1>4, <1>6 DEF OnePlace
<1> QED
  BY <1>5, <1>6

\* The zero worker.
LEMMA FramesZeroed ==
  ASSUME FrameTypes, MmuZeroWorkerThreadFunction
  PROVE  FrameTypes' /\ (OnePlace => OnePlace')
<1>1. CASE UNCHANGED frameVars
  BY <1>1, FramesStay
<1>2. CASE /\ PagesToZeroList # <<>> /\ UNCHANGED <<metadata, ptes>>
           /\ PagesToZeroList' = Tail(PagesToZeroList)
           /\ freeFrames' = freeFrames \union {Head(PagesToZeroList)}
  <2>1. PagesToZeroList \in Seq(VmFrames)
    BY DEF FrameTypes
  <2>2. Head(PagesToZeroList) \in VmFrames /\ Tail(PagesToZeroList) \in Seq(VmFrames)
    BY <1>2, <2>1
  <2>3. FrameTypes'
    BY <1>2, <2>2 DEF FrameTypes
  <2>4. ASSUME OnePlace PROVE OnePlace'
    <3>1. /\ Head(PagesToZeroList) \in Range(PagesToZeroList)
          /\ Range(PagesToZeroList') = Range(PagesToZeroList) \ {Head(PagesToZeroList)}
          /\ IsInjective(PagesToZeroList')
      BY <1>2, <2>1, <2>4, RangeTail DEF OnePlace
    <3> QED
      BY <1>2, <2>4, <3>1 DEF OnePlace
  <2> QED
    BY <2>3, <2>4
<1> QED
  BY <1>1, <1>2 DEF MmuZeroWorkerThreadFunction, ZeroWorkerTakes, ZeroWorkerClears, pagingVars, frameVars

\* A step of one thread, as its frames and the others' faults see it.
LEMMA FaultsStay ==
  ASSUME VmTypes, OneCpu, FaultsFresh, migrations = 0,
         NEW t \in VmThreads, VmRuns(t), NEW o, vmOp' = [vmOp EXCEPT ![t] = o],
         o.pc = "fault" => o.frame \notin DOMAIN ptes'
  PROVE  FaultsFresh'
<1>1. ASSUME NEW u \in VmThreads \ {t} PROVE vmOp'[u] = vmOp[u] /\ vmOp[u].pc # "fault"
  BY <1>1 DEF VmTypes, VmRuns, OneCpu, Pinned
<1>2. vmOp'[t] = o
  BY DEF VmTypes
<1> QED
  BY <1>1, <1>2 DEF FaultsFresh

\* The steps of a thread in which no frame moves.
LEMMA FramesSeen ==
  ASSUME VmInv, FramesInv, UNCHANGED frameVars, migrations' = migrations,
         NEW t \in VmThreads, VmRuns(t), NEW o, vmOp' = [vmOp EXCEPT ![t] = o],
         o.pc = "fault" => o.frame \notin DOMAIN ptes
  PROVE  FramesInv'
<1>1. FrameTypes' /\ (OnePlace => OnePlace')
  BY FramesStay DEF FramesInv
<1>2. migrations = 0 => FaultsFresh'
  BY FaultsStay DEF FramesInv, VmInv, frameVars
<1> QED
  BY <1>1, <1>2 DEF FramesInv

\* A thread that goes on without a fault, or takes one on a page that is not
\* mapped.
LEMMA ThreadKeepsFrames ==
  ASSUME VmInv, FramesInv, migrations' = migrations, NEW t \in VmThreads,
         \/ VmmAllocRegionEx(t) \/ MmuAllocStack(t) \/ VmmFreeRegion(t)
         \/ AcquireReservationLock(t, "reserve") \/ AcquireReservationLock(t, "free")
         \/ ClearVmmMemoryAccess(t) \/ \E p \in 1 .. VaPages : CanAddressBeAccessed(t, p)
  PROVE  FramesInv'
<1>0. vmOp[t] \in Operation
  BY DEF VmInv, VmTypes
<1>1. ASSUME NEW size, NEW guard, DetermineNextFreeVirtualAddress(t, size, guard) PROVE FramesInv'
  <2> DEFINE o == [vmOp[t] EXCEPT !.pc = "reserve", !.base = FreeVirtualAddressPointer,
                                  !.size = size, !.guard = guard]
  <2>1. o.pc = "reserve"
    BY <1>0 DEF Operation
  <2>2. vmOp' = [vmOp EXCEPT ![t] = o] /\ UNCHANGED frameVars /\ VmRuns(t)
    BY <1>1 DEF DetermineNextFreeVirtualAddress, pagingVars, zeroVars, frameVars, VmAt
  <2> HIDE DEF o
  <2> QED
    BY <2>1, <2>2, FramesSeen
<1>2. ASSUME NEW from, AcquireReservationLock(t, from) PROVE FramesInv'
  <2> DEFINE o == [vmOp[t] EXCEPT !.pc = "locked", !.flagOf = vmOp[t].cpu,
                                  !.bitmap = IF from = "free" THEN -1 ELSE 0]
  <2>1. o.pc = "locked"
    BY <1>0 DEF Operation
  <2>2. vmOp' = [vmOp EXCEPT ![t] = o] /\ UNCHANGED frameVars /\ VmRuns(t)
    BY <1>2 DEF AcquireReservationLock, pagingVars, zeroVars, frameVars, VmAt
  <2> HIDE DEF o
  <2> QED
    BY <2>1, <2>2, FramesSeen
<1>3. ASSUME NEW pc, pc # "fault", VmGoto(t, pc), VmRuns(t), UNCHANGED frameVars PROVE FramesInv'
  <2> DEFINE o == [vmOp[t] EXCEPT !.pc = pc]
  <2>1. o.pc = pc
    BY <1>0 DEF Operation
  <2>2. vmOp' = [vmOp EXCEPT ![t] = o]
    BY <1>3 DEF VmGoto
  <2> HIDE DEF o
  <2> QED
    BY <1>3, <2>1, <2>2, FramesSeen
<1>4. CASE VmmFreeRegion(t) \/ ClearVmmMemoryAccess(t)
  BY <1>3, <1>4 DEF VmmFreeRegion, ClearVmmMemoryAccess, VmAt, pagingVars, zeroVars, frameVars
<1>5. ASSUME NEW p, CanAddressBeAccessed(t, p) PROVE FramesInv'
  <2> DEFINE o == [vmOp[t] EXCEPT !.pc = "fault", !.frame = p,
                                  !.guard = IF vmOp[t].pc = "owner" THEN vmOp[t].guard ELSE -1]
  <2>1. o.frame = p
    BY <1>0 DEF Operation
  <2>2. vmOp' = [vmOp EXCEPT ![t] = o]
    BY <1>5 DEF CanAddressBeAccessed
  <2>3. UNCHANGED frameVars /\ VmRuns(t) /\ p \notin DOMAIN ptes
    BY <1>5 DEF CanAddressBeAccessed, pagingVars, zeroVars, frameVars, VmAt
  <2> HIDE DEF o
  <2> QED
    BY <2>1, <2>2, <2>3, FramesSeen
<1> QED
  BY <1>1, <1>2, <1>4, <1>5 DEF VmmAllocRegionEx, MmuAllocStack

\* A processor that stops leaves the frames where they are.
LEMMA PanicKeepsFrames ==
  ASSUME FramesInv, UNCHANGED <<frameVars, vmOp, migrations>>
  PROVE  FramesInv'
<1>1. FrameTypes' /\ (OnePlace => OnePlace')
  BY FramesStay DEF FramesInv
<1>2. FaultsFresh => FaultsFresh'
  BY DEF FaultsFresh, frameVars
<1> QED
  BY <1>1, <1>2 DEF FramesInv

\* A thread enters its region in the list, or takes it out.
LEMMA EntryKeepsFrames ==
  ASSUME VmInv, FramesInv, migrations' = migrations, NEW t \in VmThreads,
         ChangeVaReservationState(t) \/ ReleaseReservation(t)
  PROVE  FramesInv'
<1>1. CASE VmPanic
  BY <1>1, PanicKeepsFrames DEF VmPanic, pagingVars, zeroVars, frameVars
<1>2. ASSUME NEW pages \in SUBSET Int, IsFiniteSet(pages),
             NEW c, MetadataFaultsSolved(c, pages), PageIn(pages), UNCHANGED <<ptes, zeroVars>>,
             NEW o, vmOp' = [vmOp EXCEPT ![t] = o], o.pc # "fault", VmRuns(t)
      PROVE  FramesInv'
  <2>1. FrameTypes' /\ (OnePlace => OnePlace')
    BY <1>2, MetadataPagedIn DEF FramesInv, zeroVars
  <2>2. migrations = 0 => FaultsFresh'
    BY <1>2, FaultsStay DEF FramesInv, VmInv
  <2> QED
    BY <2>1, <2>2 DEF FramesInv
<1>0. vmOp[t] \in Operation
  BY DEF VmInv, VmTypes
<1>3. CASE ChangeVaReservationState(t) /\ ~VmPanic
  <2> DEFINE o == [vmOp[t] EXCEPT !.pc = "owner"]
             pages == {0, FreeBitmapAddress}
  <2>1. pages \in SUBSET Int /\ IsFiniteSet(pages)
    <3>1. {0, FreeBitmapAddress} = {0} \union {FreeBitmapAddress}
      OBVIOUS
    <3>2. IsFiniteSet({0})
      BY FS_Singleton
    <3>3. IsFiniteSet({0} \union {FreeBitmapAddress})
      BY <3>2, FS_AddElement
    <3>4. FreeBitmapAddress \in Int
      BY DEF VmInv, VmTypes
    <3>5. pages \in SUBSET Int
      BY <3>4
    <3> QED
      BY <3>1, <3>3, <3>5
  <2>2. o.pc = "owner"
    BY <1>0 DEF Operation
  <2>3. /\ MetadataFaultsSolved(vmOp[t].cpu, pages) /\ PageIn(pages) /\ UNCHANGED <<ptes, zeroVars>>
        /\ vmOp' = [vmOp EXCEPT ![t] = o] /\ VmRuns(t)
    BY <1>3 DEF ChangeVaReservationState, InitializeReservation, VmGoto, VmAt
  <2> HIDE DEF o, pages
  <2> QED
    BY <1>2, <2>1, <2>2, <2>3
<1>4. CASE ReleaseReservation(t) /\ ~VmPanic
  <2> DEFINE o == [vmOp[t] EXCEPT !.pc = "uninit",
                                  !.bitmap = ReservationList[FindReservation(vmOp[t].base, 1)].bitmap]
  <2>1. {0} \in SUBSET Int /\ IsFiniteSet({0})
    <3>1. IsFiniteSet({0})
      BY FS_Singleton
    <3> QED
      BY <3>1
  <2>2. o.pc = "uninit"
    BY <1>0 DEF Operation
  <2>3. /\ MetadataFaultsSolved(vmOp[t].cpu, {0}) /\ PageIn({0}) /\ UNCHANGED <<ptes, zeroVars>>
        /\ vmOp' = [vmOp EXCEPT ![t] = o] /\ VmRuns(t)
    BY <1>4 DEF ReleaseReservation, VmAt
  <2> HIDE DEF o
  <2> QED
    BY <1>2, <2>1, <2>2, <2>3
<1> QED
  BY <1>1, <1>3, <1>4

\* A thread gives frames back.
LEMMA ReleaseKeepsFrames ==
  ASSUME VmInv, FramesInv, migrations' = migrations, NEW t \in VmThreads,
         UninitializeReservation(t) \/ UnmapRegion(t) \/ DecommitReservation(t)
  PROVE  FramesInv'
<1>0. vmOp[t] \in Operation
  BY DEF VmInv, VmTypes
<1>1. CASE UninitializeReservation(t)
  <2> DEFINE o == [vmOp[t] EXCEPT !.pc = "flag"]
  <2>1. FrameTypes' /\ (OnePlace => OnePlace')
    <3>1. IsFiniteSet({vmOp[t].bitmap})
      BY FS_Singleton
    <3> QED
      BY <1>1, <3>1, MetadataReleased DEF UninitializeReservation, FramesInv
  <2>2. o.pc = "flag"
    BY <1>0 DEF Operation
  <2>3. vmOp' = [vmOp EXCEPT ![t] = o] /\ VmRuns(t)
    BY <1>1 DEF UninitializeReservation, VmGoto, VmAt
  <2> HIDE DEF o
  <2>4. migrations = 0 => FaultsFresh'
    BY <2>2, <2>3, FaultsStay DEF FramesInv, VmInv
  <2> QED
    BY <2>1, <2>4 DEF FramesInv
<1>2. CASE UnmapRegion(t)
  <2> DEFINE o == IdleOp(vmOp[t].cpu)
             pages == vmOp[t].base .. vmOp[t].base + vmOp[t].size - 1
  <2>1. FrameTypes' /\ (OnePlace => OnePlace')
    <3>1. IsFiniteSet(pages)
      BY <1>0, FS_Interval DEF Operation
    <3> QED
      BY <1>2, <3>1, PagesReleased DEF UnmapRegion, FramesInv
  <2>2. o.pc = "idle"
    BY DEF IdleOp
  <2>3. vmOp' = [vmOp EXCEPT ![t] = o] /\ VmRuns(t)
    BY <1>2 DEF UnmapRegion, VmAt
  <2> HIDE DEF o
  <2>4. migrations = 0 => FaultsFresh'
    BY <2>2, <2>3, FaultsStay DEF FramesInv, VmInv
  <2> QED
    BY <2>1, <2>4 DEF FramesInv
<1>3. CASE DecommitReservation(t)
  <2> DEFINE pages == {vmOp[t].base + vmOp[t].size - 1}
  <2>1. ptes' = UnmapPages(ptes, pages) /\ MmuReleaseMemory(ReleasedFrames(ptes, pages))
        /\ UNCHANGED <<metadata, freeFrames, vmOp>>
    BY <1>3 DEF DecommitReservation
  <2>2. IsFiniteSet(pages)
    BY FS_Singleton
  <2> HIDE DEF pages
  <2>3. FrameTypes' /\ (OnePlace => OnePlace')
    BY <2>1, <2>2, PagesReleased DEF FramesInv
  <2>4. DOMAIN ptes' \subseteq DOMAIN ptes
    BY <2>1 DEF UnmapPages
  <2>5. FaultsFresh => FaultsFresh'
    BY <2>1, <2>4 DEF FaultsFresh
  <2> QED
    BY <2>3, <2>5 DEF FramesInv
<1> QED
  BY <1>1, <1>2, <1>3

\* A thread's pages get frames.
LEMMA BackingKeepsFrames ==
  ASSUME VmInv, FramesInv, migrations' = migrations, NEW t \in VmThreads,
         BackRegion(t) \/ SolvePageFault(t)
  PROVE  FramesInv'
<1>0. vmOp[t] \in Operation /\ freeFrames \in SUBSET Nat
  BY VmAssumption DEF VmInv, VmTypes, FramesInv, FrameTypes
<1>1. CASE BackRegion(t)
  <2> DEFINE first == vmOp[t].base + vmOp[t].guard
             pages == first .. vmOp[t].base + vmOp[t].size - 1
             count == vmOp[t].size - vmOp[t].guard
             m == Min(FreeFrameRuns(count))
             g == [q \in pages |-> m + (q - first)]
  <2>1. /\ pages \intersect DOMAIN ptes = {} /\ FreeFrameRuns(count) # {}
        /\ ptes' = [q \in DOMAIN ptes \union pages |-> IF q \in pages THEN m + (q - first) ELSE ptes[q]]
        /\ freeFrames' = freeFrames \ {m + (q - first) : q \in pages}
        /\ UNCHANGED <<metadata, PagesToZeroList, vmOp>> /\ VmAt(t, "owner")
    BY <1>1 DEF BackRegion, zeroVars
  <2>2. first \in Int /\ count \in Int /\ pages = first .. first + count - 1 /\ pages \in SUBSET Int
    BY <1>0 DEF Operation
  <2>3. m \in Nat /\ m .. m + count - 1 \subseteq freeFrames
    <3>1. FreeFrameRuns(count) \in SUBSET Nat
      BY <1>0 DEF FreeFrameRuns
    <3>2. m \in FreeFrameRuns(count)
      BY <2>1, <3>1, MinIsLeast
    <3> QED
      BY <3>1, <3>2 DEF FreeFrameRuns
  <2> HIDE DEF m, first, count, pages
  <2>4. ASSUME NEW q \in pages PROVE m + (q - first) \in freeFrames
    <3>1. q \in Int /\ first <= q /\ q <= first + count - 1
      BY <2>2
    <3>2. m + (q - first) \in m .. m + count - 1
      BY <2>2, <2>3, <3>1
    <3> QED
      BY <2>3, <3>2
  <2>5. IsInjective(g)
    <3> SUFFICES ASSUME NEW q \in pages, NEW r \in pages, g[q] = g[r] PROVE q = r
      BY DEF IsInjective
    <3>1. q \in Int /\ r \in Int /\ m + (q - first) = m + (r - first)
      BY <2>2
    <3> QED
      BY <2>2, <2>3, <3>1
  <2>6. /\ DOMAIN g = pages /\ Range(g) \subseteq freeFrames
        /\ freeFrames' = freeFrames \ Range(g)
        /\ DOMAIN ptes' = DOMAIN ptes \union pages
        /\ \A q \in pages : ptes'[q] = g[q]
        /\ \A q \in DOMAIN ptes \ pages : ptes'[q] = ptes[q]
    BY <2>1, <2>4 DEF Range
  <2> HIDE DEF g
  <2>7. FrameTypes' /\ (OnePlace => OnePlace')
    <3>1. FrameTypes
      BY DEF FramesInv
    <3> QED
      BY <2>1, <2>2, <2>5, <2>6, <3>1, PagesBacked
  <2>8. migrations = 0 => FaultsFresh'
    <3> SUFFICES ASSUME migrations = 0 PROVE FaultsFresh'
      OBVIOUS
    <3>1. ASSUME NEW u \in VmThreads PROVE vmOp[u].pc # "fault"
      BY <2>1, <3>1 DEF VmAt, VmRuns, VmInv, OneCpu, Pinned
    <3> QED
      BY <2>1, <3>1 DEF FaultsFresh
  <2> QED
    BY <2>7, <2>8 DEF FramesInv
<1>2. CASE SolvePageFault(t) /\ freeFrames = {}
  BY <1>2, PanicKeepsFrames DEF SolvePageFault, VmPanic, pagingVars, zeroVars, frameVars
<1>3. CASE SolvePageFault(t) /\ freeFrames # {}
  <2> DEFINE p == vmOp[t].frame
             f == Min(freeFrames)
             g == [q \in {p} |-> f]
             o == IF vmOp[t].guard = -1 THEN IdleOp(vmOp[t].cpu)
                  ELSE [vmOp[t] EXCEPT !.pc = "owner", !.frame = 0]
  <2>1. /\ ptes' = MapPage(ptes, p, f) /\ freeFrames' = freeFrames \ {f}
        /\ vmOp' = [vmOp EXCEPT ![t] = o] /\ UNCHANGED <<metadata, PagesToZeroList>>
        /\ VmAt(t, "fault")
    BY <1>3 DEF SolvePageFault, MapMemoryInternal, zeroVars
  <2>2. f \in freeFrames /\ p \in Int
    BY <1>0, <1>3, MinIsLeast DEF Operation
  <2>3. o.pc # "fault"
    BY <1>0 DEF Operation, IdleOp
  <2> HIDE DEF p, f, o
  <2>4. /\ DOMAIN g = {p} /\ Range(g) = {f} /\ IsInjective(g)
        /\ DOMAIN ptes' = DOMAIN ptes \union {p}
        /\ \A q \in {p} : ptes'[q] = g[q]
        /\ \A q \in DOMAIN ptes \ {p} : ptes'[q] = ptes[q]
    BY <2>1 DEF MapPage, Range, IsInjective
  <2> HIDE DEF g
  <2>5. FrameTypes' /\ (OnePlace /\ {p} \intersect DOMAIN ptes = {} => OnePlace')
    <3>1. FrameTypes /\ Range(g) \subseteq freeFrames /\ DOMAIN g \in SUBSET Int
      BY <2>2, <2>4 DEF FramesInv
    <3> QED
      BY <2>1, <2>4, <3>1, PagesBacked
  <2>6. migrations = 0 => {p} \intersect DOMAIN ptes = {}
    BY <2>1 DEF FramesInv, FaultsFresh, VmAt, p
  <2>7. migrations = 0 => FaultsFresh'
    BY <2>1, <2>3, FaultsStay DEF FramesInv, VmInv, VmAt
  <2> QED
    BY <2>5, <2>6, <2>7 DEF FramesInv
<1> QED
  BY <1>1, <1>2, <1>3

\* Every step of the address space.
LEMMA NextFramesInv == VmInv /\ FramesInv /\ [VmNext]_vmVars => FramesInv'
<1> SUFFICES ASSUME VmInv, FramesInv, [VmNext]_vmVars PROVE FramesInv'
  OBVIOUS
<1>1. CASE UNCHANGED vmVars
  BY <1>1, PanicKeepsFrames DEF vmVars, pagingVars, zeroVars, frameVars
<1>2. ASSUME NEW t \in VmThreads, NEW c \in VmCpus, VmMigrate(t, c) PROVE FramesInv'
  <2>1. UNCHANGED frameVars /\ migrations' # 0
    BY <1>2 DEF VmMigrate, VmInv, VmTypes, pagingVars, zeroVars, frameVars
  <2> QED
    BY <2>1, FramesStay DEF FramesInv
<1>3. CASE VmStep /\ UNCHANGED migrations
  <2>1. ASSUME NEW t \in VmThreads,
               \/ VmmAllocRegionEx(t) \/ MmuAllocStack(t)
               \/ VmReservationSpaceAllocRegion(t) \/ BackRegion(t)
               \/ VmmSolvePageFault(t)
               \/ VmmFreeRegion(t) \/ VmReservationSpaceFreeRegion(t) \/ UnmapRegion(t)
               \/ DecommitReservation(t)
        PROVE  FramesInv'
    BY <1>3, <2>1, ThreadKeepsFrames, EntryKeepsFrames, ReleaseKeepsFrames, BackingKeepsFrames
       DEF VmReservationSpaceAllocRegion, VmmSolvePageFault, VmReservationSpaceFreeRegion
  <2>2. CASE MmuZeroWorkerThreadFunction
    <3>1. FrameTypes' /\ (OnePlace => OnePlace')
      BY <2>2, FramesZeroed DEF FramesInv
    <3>2. UNCHANGED <<vmOp, ptes>>
      BY <2>2 DEF MmuZeroWorkerThreadFunction, ZeroWorkerTakes, ZeroWorkerClears, pagingVars
    <3> QED
      BY <1>3, <3>1, <3>2 DEF FramesInv, FaultsFresh
  <2> QED
    BY <1>3, <2>1, <2>2 DEF VmStep
<1> QED
  BY <1>1, <1>2, <1>3 DEF VmNext

\* A page, or place in the list, that has a frame f.
LEMMA OneHas ==
  ASSUME NEW m, IsInjective(m), NEW f
  PROVE  Cardinality({x \in DOMAIN m : m[x] = f}) = IF f \in Range(m) THEN 1 ELSE 0
<1>1. CASE f \in Range(m)
  <2>1. PICK x \in DOMAIN m : m[x] = f
    BY <1>1 DEF Range
  <2>2. {y \in DOMAIN m : m[y] = f} = {x}
    BY <2>1 DEF IsInjective
  <2> QED
    BY <1>1, <2>2, FS_Singleton
<1>2. CASE f \notin Range(m)
  <2>1. {y \in DOMAIN m : m[y] = f} = {}
    BY <1>2 DEF Range
  <2> QED
    BY <1>2, <2>1, FS_EmptySet
<1> QED
  BY <1>1, <1>2

\* Whatever the threads and the zero worker do, on one processor no frame of
\* an address space is lost and none is used twice (VmmSolvePageFault,
\* MmuReleaseMemory, _MmuZeroWorkerThreadFunction): it is mapped by one page of
\* the space or of its metadata, waits to be zeroed or is free, for any number
\* of threads, pages and frames.
THEOREM NoFrameLeaked == VmInit /\ [][VmNext]_vmVars => []FramesExact
<1>1. VmInit => FramesInv
  <2> SUFFICES ASSUME VmInit PROVE FramesInv
    OBVIOUS
  <2>1. metadata = <<>> /\ ptes = <<>> /\ PagesToZeroList = <<>> /\ freeFrames = VmFrames
    BY DEF VmInit
  <2>2. DOMAIN metadata = {} /\ DOMAIN ptes = {} /\ DOMAIN PagesToZeroList = {}
        /\ PagesToZeroList \in Seq(VmFrames)
    BY <2>1
  <2>3. FrameTypes
    BY <2>1, <2>2 DEF FrameTypes
  <2>4. OnePlace
    <3>1. IsInjective(metadata) /\ IsInjective(ptes) /\ IsInjective(PagesToZeroList)
      BY <2>2 DEF IsInjective
    <3>2. Range(metadata) = {} /\ Range(ptes) = {} /\ Range(PagesToZeroList) = {}
      BY <2>2 DEF Range
    <3> QED
      BY <2>1, <3>1, <3>2 DEF OnePlace
  <2>5. FaultsFresh
    BY <2>2 DEF FaultsFresh
  <2> QED
    BY <2>3, <2>4, <2>5 DEF FramesInv
<1>2. FramesInv => FramesExact
  <2> SUFFICES ASSUME FramesInv, migrations = 0, NEW f \in VmFrames PROVE FrameUses(f) = 1
    BY DEF FramesExact
  <2>1. OnePlace
    BY DEF FramesInv
  <2> DEFINE a == Cardinality({p \in DOMAIN ptes : ptes[p] = f})
             b == Cardinality({p \in DOMAIN metadata : metadata[p] = f})
             c == Cardinality({i \in DOMAIN PagesToZeroList : PagesToZeroList[i] = f})
  <2>2. /\ a = IF f \in Range(ptes) THEN 1 ELSE 0
        /\ b = IF f \in Range(metadata) THEN 1 ELSE 0
        /\ c = IF f \in Range(PagesToZeroList) THEN 1 ELSE 0
    BY <2>1, OneHas DEF OnePlace
  <2>3. FrameUses(f) = a + b + c + (IF f \in freeFrames THEN 1 ELSE 0)
    BY DEF FrameUses
  <2> HIDE DEF a, b, c
  <2> QED
    BY <2>1, <2>2, <2>3 DEF OnePlace
<1> QED
  BY <1>1, <1>2, InitVmInv, NextVmInv, NextFramesInv, PTL

(***************************************************************************)
(* The kernel heap.                                                        *)
(***************************************************************************)

HeapEntry == [addr : Nat, size : Nat]

\* HeapOrdered in an inductive form: any two blocks, not only neighbours.
BlocksApart ==
  /\ \A i \in 1 .. Nodes : HeapAllocations[i].addr >= HeaderSize
  /\ \A i, j \in 1 .. Nodes : i < j => EndOf(HeapAllocations[i]) <= HeapAllocations[j].addr
  /\ FreeAddress = IF Nodes = 0 THEN HeaderSize ELSE EndOf(HeapAllocations[Nodes])
  /\ FreeAddress <= HeapSize

BlocksInv == HeapAllocations \in Seq(HeapEntry) /\ BlocksApart

\* InsertHeadList behind a neighbour: what is before it stays, what is behind
\* it moves on by one.
LEMMA InsertedAt ==
  ASSUME NEW S, NEW s \in Seq(S), NEW x \in S, NEW p \in 1 .. Len(s) + 1
  PROVE  /\ InsertAt(s, p, x) \in Seq(S) /\ Len(InsertAt(s, p, x)) = Len(s) + 1
         /\ \A i \in 1 .. Len(s) + 1 :
              InsertAt(s, p, x)[i] = IF i < p THEN s[i] ELSE IF i = p THEN x ELSE s[i - 1]
<1> DEFINE t == SubSeq(s, 1, p - 1)
           u == SubSeq(s, p, Len(s))
           v == t \o <<x>>
<1>1. /\ t \in Seq(S) /\ Len(t) = p - 1 /\ \A i \in 1 .. p - 1 : t[i] = s[i]
  OBVIOUS
<1>2. /\ u \in Seq(S) /\ Len(u) = Len(s) - p + 1
      /\ \A i \in 1 .. Len(s) - p + 1 : u[i] = s[i + p - 1]
  OBVIOUS
<1> HIDE DEF t, u
<1>3. /\ v \in Seq(S) /\ Len(v) = p /\ v[p] = x /\ \A i \in 1 .. p - 1 : v[i] = s[i]
  <2>1. v = Append(t, x)
    BY <1>1
  <2>2. Append(t, x) \in Seq(S) /\ Len(Append(t, x)) = p /\ Append(t, x)[p] = x
    BY <1>1
  <2>3. \A i \in 1 .. p - 1 : Append(t, x)[i] = t[i]
    BY <1>1
  <2> QED
    BY <1>1, <2>1, <2>2, <2>3
<1> HIDE DEF v
<1>4. InsertAt(s, p, x) = v \o u
  BY DEF InsertAt, t, u, v
<1>5. v \o u \in Seq(S) /\ Len(v \o u) = Len(s) + 1
  <2>1. v \in Seq(S) /\ u \in Seq(S)
    BY <1>2, <1>3
  <2>2. Len(v \o u) = Len(v) + Len(u) /\ v \o u \in Seq(S)
    BY <2>1
  <2> QED
    BY <1>2, <1>3, <2>2
<1>6. ASSUME NEW i \in 1 .. Len(s) + 1, i <= p PROVE (v \o u)[i] = v[i]
  BY <1>2, <1>3, <1>6
<1>7. ASSUME NEW i \in 1 .. Len(s) + 1, ~(i <= p) PROVE (v \o u)[i] = s[i - 1]
  <2>1. i - p \in 1 .. Len(s) - p + 1 /\ (i - p) + p - 1 = i - 1
    BY <1>7
  <2>2. (v \o u)[i] = u[i - p]
    BY <1>2, <1>3, <1>7
  <2> QED
    BY <1>2, <2>1, <2>2
<1> QED
  BY <1>3, <1>4, <1>5, <1>6, <1>7

\* RemoveEntryList: what is behind the element moves up by one.
LEMMA RemovedAt ==
  ASSUME NEW S, NEW s \in Seq(S), NEW p \in 1 .. Len(s)
  PROVE  /\ RemoveAt(s, p) \in Seq(S) /\ Len(RemoveAt(s, p)) = Len(s) - 1
         /\ \A i \in 1 .. Len(s) - 1 :
              RemoveAt(s, p)[i] = IF i < p THEN s[i] ELSE s[i + 1]
<1> DEFINE t == SubSeq(s, 1, p - 1)
           u == SubSeq(s, p + 1, Len(s))
<1>1. /\ t \in Seq(S) /\ Len(t) = p - 1 /\ \A i \in 1 .. p - 1 : t[i] = s[i]
  OBVIOUS
<1>2. /\ u \in Seq(S) /\ Len(u) = Len(s) - p /\ \A i \in 1 .. Len(s) - p : u[i] = s[i + p]
  OBVIOUS
<1> HIDE DEF t, u
<1>3. RemoveAt(s, p) = t \o u
  BY DEF RemoveAt, t, u
<1>4. /\ t \o u \in Seq(S) /\ Len(t \o u) = Len(s) - 1
      /\ \A i \in 1 .. p - 1 : (t \o u)[i] = s[i]
  <2>1. t \o u \in Seq(S)
    BY <1>1, <1>2
  <2>a. t \in Seq(S) /\ u \in Seq(S)
    BY <1>1, <1>2
  <2>b. Len(t \o u) = Len(t) + Len(u)
    BY <2>a
  <2>2. Len(t \o u) = Len(s) - 1
    BY <1>1, <1>2, <2>b
  <2>3. \A i \in 1 .. Len(t) : (t \o u)[i] = t[i]
    BY <2>a
  <2>4. \A i \in 1 .. p - 1 : (t \o u)[i] = s[i]
    BY <1>1, <2>3
  <2> QED
    BY <2>1, <2>2, <2>4
<1>5. ASSUME NEW i \in 1 .. Len(s) - 1, ~(i < p) PROVE (t \o u)[i] = s[i + 1]
  <2>1. i - (p - 1) \in 1 .. Len(s) - p /\ i - (p - 1) + p = i + 1
    BY <1>5
  <2>2. (t \o u)[i] = u[i - (p - 1)]
    BY <1>1, <1>2, <1>5
  <2> QED
    BY <1>2, <2>1, <2>2
<1> QED
  BY <1>3, <1>4, <1>5

\* AlignAddressUpper.
LEMMA AlignedUp ==
  ASSUME NEW a \in Nat, NEW d \in Nat \ {0}
  PROVE  AlignUp(a, d) \in Nat /\ AlignUp(a, d) >= a
<1> DEFINE x == a + d - 1
<1>1. x \in Nat /\ x \div d \in Nat /\ x % d \in 0 .. d - 1 /\ x = (d * (x \div d)) + (x % d)
  OBVIOUS
<1>2. d * (x \div d) >= a /\ d * (x \div d) \in Nat
  <2> DEFINE q == d * (x \div d)
             m == x % d
  <2>1. q \in Nat /\ m \in Nat /\ m <= d - 1 /\ q + m = a + d - 1
    BY <1>1
  <2> HIDE DEF q, m
  <2>2. q >= a
    BY <2>1
  <2> QED
    BY <2>1, <2>2 DEF q
<1>3. AlignUp(a, d) = d * (x \div d)
  BY <1>1 DEF AlignUp
<1> QED
  BY <1>2, <1>3

\* The size of a block.
LEMMA EndFacts ==
  ASSUME NEW e \in HeapEntry
  PROVE  /\ e.addr \in Nat /\ e.size \in Nat /\ EndOf(e) \in Nat /\ e.addr < EndOf(e)
BY HeapAssumption DEF HeapEntry, EndOf

\* _InitHeapEntry keeps to the bytes it is told are available.
LEMMA EntryFits ==
  ASSUME NEW start \in Nat, NEW rq \in Requests, NEW available \in Int,
         InitHeapEntry(start, rq, available) # <<>>
  PROVE  LET e == Head(InitHeapEntry(start, rq, available)) IN
         e \in HeapEntry /\ start <= e.addr /\ EndOf(e) <= start + available
<1> DEFINE unaligned == start + EntrySize
           data == AlignUp(unaligned, rq.alignment)
           e == [addr |-> data - EntrySize, size |-> rq.size]
<1>1. /\ unaligned \in Nat /\ EntrySize \in Nat /\ TailSize \in Nat
      /\ rq.size \in Nat /\ rq.alignment \in Nat \ {0}
  BY HeapAssumption
<1>2. data \in Nat /\ data >= unaligned
  BY <1>1, AlignedUp
<1>3. /\ ~(available < data - unaligned + SizeRequired(rq))
      /\ InitHeapEntry(start, rq, available) = <<e>>
  BY DEF InitHeapEntry
<1>4. Head(InitHeapEntry(start, rq, available)) = e
  BY <1>3
<1> HIDE DEF data
<1>5. e.addr = data - EntrySize /\ e.size = rq.size
  OBVIOUS
<1>6. start <= e.addr /\ e.addr \in Nat
  BY <1>1, <1>2, <1>5
<1>7. e \in HeapEntry
  BY <1>1, <1>6 DEF HeapEntry
<1>8. EndOf(e) <= start + available
  BY <1>1, <1>2, <1>3, <1>5 DEF EndOf, SizeRequired
<1> QED
  BY <1>4, <1>6, <1>7, <1>8

\* The walk around the list.
LEMMA WalkNodes ==
  ASSUME BlocksInv, NEW r \in 0 .. Nodes, NEW k \in 0 .. Nodes
  PROVE  /\ Nodes \in Nat
         /\ Previous(r, k) = IF r + k <= Nodes THEN r + k ELSE r + k - (Nodes + 1)
<1>1. Nodes \in Nat
  BY DEF BlocksInv, Nodes
<1> DEFINE n == Nodes + 1
           x == r + k
<1>2. n \in Nat \ {0} /\ x \in 0 .. 2 * n - 1
  BY <1>1
<1>3. x % n = IF x < n THEN x ELSE x - n
  <2> HIDE DEF n, x
  <2> QED
    BY <1>2, OnceAround
<1>4. Previous(r, k) = IF x < n THEN x ELSE x - n
  BY <1>3 DEF Previous
<1> QED
  BY <1>1, <1>4

\* pPreviousHeapEntry may be stale behind the list head: it is then a block
\* above the one it is compared with, and the gap is negative.  Where there
\* is room it is the neighbour.
LEMMA RoomIsBetweenNeighbours ==
  ASSUME BlocksInv, NEW rq \in Requests, NEW r \in 0 .. Nodes, NEW k \in SearchFits(rq, r)
  PROVE  /\ k \in 1 .. Nodes - 1
         /\ PreviousHeapEntry(r, k) = Previous(r, k)
         /\ Previous(r, k) \in 1 .. Nodes - 1 /\ Previous(r, k + 1) = Previous(r, k) + 1
<1>1. /\ k \in 1 .. Nodes - 1 /\ k \in Looks(r) /\ k \notin SearchAsserts(r)
      /\ Previous(r, k) # 0 /\ Previous(r, k + 1) # 0 /\ EntryBetween(rq, r, k) # <<>>
  BY DEF SearchFits, Looks
<1>2. Nodes \in Nat /\ r \in Nat /\ k \in Nat /\ r <= Nodes /\ k + 1 <= Nodes /\ k >= 1
  BY <1>1 DEF BlocksInv, Nodes
<1>3. \A j \in 0 .. Nodes : Previous(r, j) = IF r + j <= Nodes THEN r + j ELSE r + j - (Nodes + 1)
  BY WalkNodes
<1>a. Previous(r, k) = (IF r + k <= Nodes THEN r + k ELSE r + k - (Nodes + 1))
      /\ Previous(r, k + 1) = (IF r + k + 1 <= Nodes THEN r + k + 1 ELSE r + k + 1 - (Nodes + 1))
  <2>1. k \in 0 .. Nodes /\ k + 1 \in 0 .. Nodes
    BY <1>2
  <2> QED
    BY <1>2, <1>3, <2>1
<1>4. Previous(r, k) \in 1 .. Nodes - 1 /\ Previous(r, k + 1) = Previous(r, k) + 1
  BY <1>1, <1>2, <1>a
<1>5. ASSUME PreviousHeapEntry(r, k) # Previous(r, k) PROVE FALSE
  <2> DEFINE before == {j \in Looks(r) : j < k}
             m == Max(before)
  <2>1. k # 1 /\ before # {} /\ PreviousHeapEntry(r, k) = Previous(r, m + 1)
    BY <1>1, <1>5 DEF PreviousHeapEntry, SearchAsserts
  <2>2. before \in SUBSET (0 .. Nodes)
    BY <1>2 DEF Looks
  <2>3. m \in before /\ \A y \in before : m >= y
    BY <1>2, <2>1, <2>2, MaxIsGreatest
  <2>4. /\ m \in 1 .. Nodes - 1 /\ m < k /\ Previous(r, m) # 0 /\ Previous(r, m + 1) # 0
    BY <2>3 DEF Looks
  <2> HIDE DEF m, before
  <2>5. m # k - 1
    <3>1. (k - 1) + 1 = k
      BY <1>2
    <3> QED
      BY <1>5, <2>1, <3>1
  <2>6. k - 1 \notin before
    BY <1>2, <2>3, <2>4, <2>5
  <2>7. r + k = Nodes + 2
    <3>1. k - 1 \in 1 .. Nodes - 1 /\ k - 1 < k /\ (k - 1) + 1 = k
      BY <1>2, <2>1
    <3>a. k - 1 \notin Looks(r)
      BY <2>6, <3>1 DEF before
    <3>2. Previous(r, k - 1) = 0
      BY <1>1, <3>1, <3>a DEF Looks
    <3>b. k - 1 \in 0 .. Nodes
      BY <1>2, <3>1
    <3>3. Previous(r, k - 1) = IF r + (k - 1) <= Nodes THEN r + (k - 1) ELSE r + (k - 1) - (Nodes + 1)
      BY <1>3, <3>b
    <3> QED
      BY <1>2, <3>1, <3>2, <3>3
  <2>8. Previous(r, m + 1) \in 2 .. Nodes
    <3>1. m \in 0 .. Nodes /\ m + 1 \in 0 .. Nodes /\ m <= k - 2
      BY <1>2, <2>4, <2>5
    <3>2. /\ Previous(r, m) = IF r + m <= Nodes THEN r + m ELSE r + m - (Nodes + 1)
          /\ Previous(r, m + 1) = IF r + (m + 1) <= Nodes THEN r + (m + 1) ELSE r + (m + 1) - (Nodes + 1)
      BY <1>3, <3>1
    <3> QED
      BY <1>2, <2>4, <2>7, <3>1, <3>2
  <2>9. Previous(r, k + 1) = 2
    BY <1>2, <1>a, <2>7
  <2> DEFINE p == Previous(r, m + 1)
             start == EndOf(HeapAllocations[p])
             gap == HeapAllocations[2].addr - start
  <2>10. p \in 1 .. Nodes /\ 2 \in 1 .. Nodes /\ p >= 2
    BY <1>2, <2>8
  <2>11. HeapAllocations[p] \in HeapEntry /\ HeapAllocations[2] \in HeapEntry
    <3> HIDE DEF p
    <3> QED
      BY <2>10 DEF BlocksInv, Nodes
  <2>12. HeapAllocations[2].addr <= HeapAllocations[p].addr
    <3> HIDE DEF p
    <3>1. CASE p = 2
      BY <2>11, <3>1, EndFacts
    <3>2. CASE p # 2
      <4>1. EndOf(HeapAllocations[2]) <= HeapAllocations[p].addr
        BY <2>10, <3>2 DEF BlocksInv, BlocksApart
      <4> QED
        BY <2>11, <4>1, EndFacts
    <3> QED
      BY <3>1, <3>2
  <2>13. gap < 0
    <3> HIDE DEF p
    <3> QED
      BY <2>11, <2>12, EndFacts
  <2>14. SizeRequired(rq) >= 0
    BY HeapAssumption DEF SizeRequired
  <2>15. gap \in Int /\ SizeRequired(rq) \in Int
    <3> HIDE DEF p
    <3> QED
      BY <2>11, EndFacts, HeapAssumption DEF SizeRequired
  <2>16. EntryBetween(rq, r, k) = <<>>
    <3>1. ~(gap >= SizeRequired(rq))
      <4> HIDE DEF gap
      <4> QED
        BY <2>13, <2>14, <2>15
    <3> QED
      BY <2>1, <2>9, <3>1 DEF EntryBetween
  <2> QED
    BY <1>1, <2>16
<1> QED
  BY <1>1, <1>4, <1>5

\* The bump pointer.
LEMMA EndKeepsBlocks ==
  ASSUME BlocksInv, NEW rq \in Requests, AllocateAtEnd(rq)
  PROVE  BlocksInv'
<1> DEFINE e == Head(EntryAtEnd(rq))
<1>1. /\ EntryAtEnd(rq) # <<>> /\ HeapAllocations' = Append(HeapAllocations, e)
      /\ FreeAddress' = EndOf(e)
  BY DEF AllocateAtEnd
<1>2. HeapAllocations \in Seq(HeapEntry) /\ Nodes \in Nat /\ Nodes = Len(HeapAllocations)
  BY DEF BlocksInv, Nodes
<1>3. \A i \in 1 .. Nodes : HeapAllocations[i] \in HeapEntry
  BY <1>2
<1>4. /\ FreeAddress \in Nat /\ HeaderSize <= FreeAddress
      /\ \A i \in 1 .. Nodes : EndOf(HeapAllocations[i]) <= FreeAddress
  <2>1. CASE Nodes = 0
    BY <2>1, HeapAssumption DEF BlocksInv, BlocksApart
  <2>2. CASE Nodes # 0
    <3>1. Nodes \in 1 .. Nodes /\ FreeAddress = EndOf(HeapAllocations[Nodes])
      BY <1>2, <2>2 DEF BlocksInv, BlocksApart
    <3>2. FreeAddress \in Nat /\ HeapAllocations[Nodes].addr < FreeAddress
          /\ HeapAllocations[Nodes].addr \in Nat /\ HeapAllocations[Nodes].addr >= HeaderSize
      BY <1>3, <3>1, EndFacts DEF BlocksInv, BlocksApart
    <3>3. ASSUME NEW i \in 1 .. Nodes PROVE EndOf(HeapAllocations[i]) <= FreeAddress
      <4>1. CASE i = Nodes
        BY <3>1, <3>2, <4>1
      <4>2. CASE i # Nodes
        <5>1. EndOf(HeapAllocations[i]) <= HeapAllocations[Nodes].addr
          BY <3>1, <4>2 DEF BlocksInv, BlocksApart
        <5>2. EndOf(HeapAllocations[i]) \in Nat
          BY <1>3, EndFacts
        <5> QED
          BY <3>2, <5>1, <5>2
      <4> QED
        BY <4>1, <4>2
    <3> QED
      BY <3>2, <3>3, HeapAssumption
  <2> QED
    BY <2>1, <2>2
<1>5. /\ RemainingSizeUntilEnd \in Int /\ FreeAddress + RemainingSizeUntilEnd <= HeapSize
  BY <1>4, HeapAssumption DEF RemainingSizeUntilEnd
<1>6. /\ EntryAtEnd(rq) = InitHeapEntry(FreeAddress, rq, RemainingSizeUntilEnd)
  BY <1>1 DEF EntryAtEnd
<1>7. e \in HeapEntry /\ FreeAddress <= e.addr /\ EndOf(e) <= FreeAddress + RemainingSizeUntilEnd
  BY <1>1, <1>4, <1>5, <1>6, EntryFits
<1> HIDE DEF e
<1>8. /\ HeapAllocations' \in Seq(HeapEntry) /\ Nodes' = Nodes + 1
      /\ HeapAllocations'[Nodes + 1] = e
      /\ \A i \in 1 .. Nodes : HeapAllocations'[i] = HeapAllocations[i]
  BY <1>1, <1>2, <1>7 DEF Nodes
<1>9. e.addr \in Nat /\ EndOf(e) \in Nat /\ EndOf(e) <= HeapSize /\ HeapSize \in Nat
  BY <1>4, <1>5, <1>7, EndFacts, HeapAssumption
<1>10. ASSUME NEW i \in 1 .. Nodes + 1, NEW j \in 1 .. Nodes + 1, i < j
       PROVE  EndOf(HeapAllocations'[i]) <= HeapAllocations'[j].addr
  <2>1. CASE j = Nodes + 1
    <3>1. i \in 1 .. Nodes
      BY <1>2, <1>10, <2>1
    <3>2. EndOf(HeapAllocations[i]) <= FreeAddress /\ EndOf(HeapAllocations[i]) \in Nat
      BY <1>3, <1>4, <3>1, EndFacts
    <3> QED
      BY <1>4, <1>7, <1>8, <1>9, <2>1, <3>1, <3>2
  <2>2. CASE j # Nodes + 1
    <3>1. i \in 1 .. Nodes /\ j \in 1 .. Nodes
      BY <1>2, <1>10, <2>2
    <3> QED
      BY <1>8, <1>10, <3>1 DEF BlocksInv, BlocksApart
  <2> QED
    BY <2>1, <2>2
<1>11. ASSUME NEW i \in 1 .. Nodes + 1 PROVE HeapAllocations'[i].addr >= HeaderSize
  <2>1. CASE i = Nodes + 1
    BY <1>4, <1>7, <1>8, <1>9, <2>1, HeapAssumption
  <2>2. CASE i # Nodes + 1
    <3>1. i \in 1 .. Nodes
      BY <1>2, <2>2
    <3> QED
      BY <1>8, <3>1 DEF BlocksInv, BlocksApart
  <2> QED
    BY <2>1, <2>2
<1>12. FreeAddress' = EndOf(HeapAllocations'[Nodes']) /\ Nodes' # 0 /\ FreeAddress' <= HeapSize
  BY <1>1, <1>2, <1>8, <1>9
<1> QED
  BY <1>8, <1>10, <1>11, <1>12 DEF BlocksInv, BlocksApart

\* The gap.
LEMMA BetweenKeepsBlocks ==
  ASSUME BlocksInv, NEW rq \in Requests, AllocateBetween(rq)
  PROVE  BlocksInv'
<1> DEFINE r == RestartNode
           k == Min(SearchFits(rq, r))
           p == Previous(r, k)
           e == Head(EntryBetween(rq, r, k))
<1>1. /\ RestartIsLive /\ SearchFits(rq, r) # {} /\ FreeAddress' = FreeAddress
      /\ HeapAllocations' = InsertAt(HeapAllocations, p + 1, e)
  BY DEF AllocateBetween
<1>2. HeapAllocations \in Seq(HeapEntry) /\ Nodes \in Nat /\ Nodes = Len(HeapAllocations)
  BY DEF BlocksInv, Nodes
<1>3. \A i \in 1 .. Nodes : HeapAllocations[i] \in HeapEntry
  BY <1>2
<1>4. r \in 0 .. Nodes
  BY <1>1, <1>2 DEF RestartNode, RestartIsLive
<1>5. k \in SearchFits(rq, r)
  <2>1. SearchFits(rq, r) \in SUBSET Nat
    BY <1>2 DEF SearchFits, Looks
  <2> QED
    BY <1>1, <2>1, MinIsLeast
<1>6. /\ PreviousHeapEntry(r, k) = p /\ p \in 1 .. Nodes - 1 /\ Previous(r, k + 1) = p + 1
  BY <1>4, <1>5, RoomIsBetweenNeighbours
<1>7. EntryBetween(rq, r, k) # <<>>
  BY <1>5 DEF SearchFits
<1> HIDE DEF r, k, p
<1> DEFINE start == EndOf(HeapAllocations[p])
           gap == HeapAllocations[p + 1].addr - start
<1>8. p \in 1 .. Nodes /\ p + 1 \in 1 .. Nodes /\ p \in Nat
  BY <1>2, <1>6
<1>9. /\ start \in Nat /\ gap \in Int /\ start + gap = HeapAllocations[p + 1].addr
      /\ HeapAllocations[p].addr \in Nat /\ HeapAllocations[p].addr <= start
      /\ HeapAllocations[p + 1].addr \in Nat
  BY <1>3, <1>8, EndFacts
<1>10. EntryBetween(rq, r, k) = InitHeapEntry(start, rq, gap)
  BY <1>6, <1>7 DEF EntryBetween
<1>11. e \in HeapEntry /\ start <= e.addr /\ EndOf(e) <= HeapAllocations[p + 1].addr
  <2>1. e = Head(InitHeapEntry(start, rq, gap))
    BY <1>10
  <2> HIDE DEF e, start, gap
  <2> QED
    BY <1>7, <1>9, <1>10, <2>1, EntryFits
<1> HIDE DEF e
<1>12. e.addr \in Nat /\ EndOf(e) \in Nat /\ e.addr <= EndOf(e) /\ HeaderSize \in Nat
  BY <1>11, EndFacts, HeapAssumption
<1>13. /\ HeapAllocations' \in Seq(HeapEntry) /\ Nodes' = Nodes + 1
       /\ \A i \in 1 .. Nodes + 1 :
            HeapAllocations'[i] = IF i < p + 1 THEN HeapAllocations[i]
                                  ELSE IF i = p + 1 THEN e ELSE HeapAllocations[i - 1]
  <2>1. p + 1 \in 1 .. Len(HeapAllocations) + 1
    BY <1>2, <1>8
  <2>2. e \in HeapEntry
    BY <1>11
  <2> DEFINE q == p + 1
  <2> HIDE DEF q
  <2>3. q \in 1 .. Len(HeapAllocations) + 1
    BY <2>1 DEF q
  <2>4. /\ InsertAt(HeapAllocations, q, e) \in Seq(HeapEntry)
        /\ Len(InsertAt(HeapAllocations, q, e)) = Len(HeapAllocations) + 1
        /\ \A i \in 1 .. Len(HeapAllocations) + 1 :
             InsertAt(HeapAllocations, q, e)[i] =
               IF i < q THEN HeapAllocations[i] ELSE IF i = q THEN e ELSE HeapAllocations[i - 1]
    <3>1. HeapAllocations \in Seq(HeapEntry)
      BY <1>2
    <3> HIDE DEF HeapEntry, e
    <3> QED
      BY <2>2, <2>3, <3>1, InsertedAt
  <2>5. Nodes' = Len(HeapAllocations')
    BY DEF Nodes
  <2> QED
    BY <1>1, <1>2, <2>4, <2>5 DEF q
<1> DEFINE old(i) == IF i < p + 1 THEN i ELSE i - 1
<1>14. ASSUME NEW i \in 1 .. Nodes + 1, i # p + 1
       PROVE  old(i) \in 1 .. Nodes /\ HeapAllocations'[i] = HeapAllocations[old(i)]
  BY <1>2, <1>8, <1>13, <1>14
<1>15. ASSUME NEW i \in 1 .. Nodes + 1, NEW j \in 1 .. Nodes + 1, i < j
       PROVE  EndOf(HeapAllocations'[i]) <= HeapAllocations'[j].addr
  <2>1. CASE i = p + 1
    <3>1. j # p + 1 /\ old(j) \in 1 .. Nodes /\ old(j) >= p + 1
      BY <1>2, <1>8, <1>15, <2>1
    <3>2. HeapAllocations'[i] = e /\ HeapAllocations'[j] = HeapAllocations[old(j)]
      BY <1>13, <1>14, <2>1, <3>1
    <3>3. HeapAllocations[p + 1].addr <= HeapAllocations[old(j)].addr
      <4>1. CASE old(j) = p + 1
        BY <1>9, <4>1
      <4>2. CASE old(j) # p + 1
        <5>1. EndOf(HeapAllocations[p + 1]) <= HeapAllocations[old(j)].addr
          BY <1>8, <3>1, <4>2 DEF BlocksInv, BlocksApart
        <5>2. HeapAllocations[p + 1] \in HeapEntry /\ HeapAllocations[old(j)] \in HeapEntry
          BY <1>3, <1>8, <3>1
        <5> QED
          BY <5>1, <5>2, EndFacts
      <4> QED
        BY <4>1, <4>2
    <3>4. HeapAllocations[old(j)].addr \in Nat
      BY <1>3, <3>1, EndFacts
    <3> QED
      BY <1>9, <1>11, <1>12, <3>2, <3>3, <3>4
  <2>2. CASE j = p + 1
    <3>1. i # p + 1 /\ old(i) \in 1 .. Nodes /\ old(i) <= p
      BY <1>2, <1>8, <1>15, <2>2
    <3>2. HeapAllocations'[j] = e /\ HeapAllocations'[i] = HeapAllocations[old(i)]
      BY <1>13, <1>14, <2>2, <3>1
    <3>3. EndOf(HeapAllocations[old(i)]) <= start
      <4>1. CASE old(i) = p
        BY <1>9, <4>1
      <4>2. CASE old(i) # p
        <5>1. EndOf(HeapAllocations[old(i)]) <= HeapAllocations[p].addr
          BY <1>8, <3>1, <4>2 DEF BlocksInv, BlocksApart
        <5>2. EndOf(HeapAllocations[old(i)]) \in Nat
          BY <1>3, <3>1, EndFacts
        <5> QED
          BY <1>9, <5>1, <5>2
      <4> QED
        BY <4>1, <4>2
    <3>4. EndOf(HeapAllocations[old(i)]) \in Nat
      BY <1>3, <3>1, EndFacts
    <3> QED
      BY <1>9, <1>11, <1>12, <3>2, <3>3, <3>4
  <2>3. CASE i # p + 1 /\ j # p + 1
    <3>1. old(i) \in 1 .. Nodes /\ old(j) \in 1 .. Nodes /\ old(i) < old(j)
      BY <1>2, <1>8, <1>15, <2>3
    <3>2. HeapAllocations'[i] = HeapAllocations[old(i)] /\ HeapAllocations'[j] = HeapAllocations[old(j)]
      BY <1>14, <2>3
    <3> HIDE DEF old
    <3> QED
      BY <3>1, <3>2 DEF BlocksInv, BlocksApart
  <2> QED
    BY <2>1, <2>2, <2>3
<1>16. ASSUME NEW i \in 1 .. Nodes + 1 PROVE HeapAllocations'[i].addr >= HeaderSize
  <2>1. CASE i = p + 1
    <3>1. HeapAllocations[p].addr >= HeaderSize
      BY <1>8 DEF BlocksInv, BlocksApart
    <3> QED
      BY <1>9, <1>11, <1>12, <1>13, <2>1, <3>1
  <2>2. CASE i # p + 1
    <3>1. old(i) \in 1 .. Nodes /\ HeapAllocations'[i] = HeapAllocations[old(i)]
      BY <1>14, <2>2
    <3> HIDE DEF old
    <3> QED
      BY <3>1 DEF BlocksInv, BlocksApart
  <2> QED
    BY <2>1, <2>2
<1>17. /\ FreeAddress' = EndOf(HeapAllocations'[Nodes']) /\ Nodes' # 0 /\ FreeAddress' <= HeapSize
  <2>1. Nodes # 0 /\ FreeAddress = EndOf(HeapAllocations[Nodes]) /\ FreeAddress <= HeapSize
    BY <1>2, <1>8 DEF BlocksInv, BlocksApart
  <2>2. HeapAllocations'[Nodes + 1] = HeapAllocations[Nodes]
    <3>1. Nodes + 1 \in 1 .. Nodes + 1 /\ ~(Nodes + 1 < p + 1) /\ Nodes + 1 # p + 1
          /\ (Nodes + 1) - 1 = Nodes
      BY <1>2, <1>6
    <3> QED
      BY <1>13, <3>1
  <2> QED
    BY <1>1, <1>2, <1>13, <2>1, <2>2
<1> QED
  BY <1>13, <1>15, <1>16, <1>17 DEF BlocksInv, BlocksApart

\* A block is given back.
LEMMA FreeKeepsBlocks ==
  ASSUME BlocksInv, NEW k \in 1 .. Nodes, HeapFreePoolWithTag(k)
  PROVE  BlocksInv'
<1>1. /\ HeapAllocations' = RemoveAt(HeapAllocations, k)
      /\ FreeAddress' = IF EndOf(HeapAllocations[k]) # FreeAddress THEN FreeAddress
                        ELSE IF k = 1 THEN HeaderSize ELSE EndOf(HeapAllocations[k - 1])
  BY DEF HeapFreePoolWithTag
<1>2. HeapAllocations \in Seq(HeapEntry) /\ Nodes \in Nat /\ Nodes = Len(HeapAllocations)
  BY DEF BlocksInv, Nodes
<1>3. \A i \in 1 .. Nodes : HeapAllocations[i] \in HeapEntry
  BY <1>2
<1>4. /\ HeapAllocations' \in Seq(HeapEntry) /\ Nodes' = Nodes - 1
      /\ \A i \in 1 .. Nodes - 1 :
           HeapAllocations'[i] = IF i < k THEN HeapAllocations[i] ELSE HeapAllocations[i + 1]
  BY <1>1, <1>2, RemovedAt DEF Nodes
<1> DEFINE old(i) == IF i < k THEN i ELSE i + 1
<1>5. ASSUME NEW i \in 1 .. Nodes - 1
      PROVE  old(i) \in 1 .. Nodes /\ HeapAllocations'[i] = HeapAllocations[old(i)]
  BY <1>2, <1>4
<1>6. ASSUME NEW i \in 1 .. Nodes - 1, NEW j \in 1 .. Nodes - 1, i < j
      PROVE  EndOf(HeapAllocations'[i]) <= HeapAllocations'[j].addr
  <2>1. old(i) < old(j)
    BY <1>2, <1>6
  <2>2. /\ old(i) \in 1 .. Nodes /\ HeapAllocations'[i] = HeapAllocations[old(i)]
        /\ old(j) \in 1 .. Nodes /\ HeapAllocations'[j] = HeapAllocations[old(j)]
    BY <1>5
  <2> HIDE DEF old
  <2> QED
    BY <2>1, <2>2 DEF BlocksInv, BlocksApart
<1>7. ASSUME NEW i \in 1 .. Nodes - 1 PROVE HeapAllocations'[i].addr >= HeaderSize
  <2>1. old(i) \in 1 .. Nodes /\ HeapAllocations'[i] = HeapAllocations[old(i)]
    BY <1>5
  <2> HIDE DEF old
  <2> QED
    BY <2>1 DEF BlocksInv, BlocksApart
<1>8. Nodes \in 1 .. Nodes /\ FreeAddress = EndOf(HeapAllocations[Nodes]) /\ FreeAddress <= HeapSize
      /\ FreeAddress \in Nat
  BY <1>2, <1>3, EndFacts DEF BlocksInv, BlocksApart
<1>9. /\ FreeAddress' = IF Nodes' = 0 THEN HeaderSize ELSE EndOf(HeapAllocations'[Nodes'])
      /\ FreeAddress' <= HeapSize
  <2>1. CASE k = Nodes
    <3>1. CASE k = 1
      BY <1>1, <1>4, <1>8, <2>1, <3>1, HeapAssumption
    <3>2. CASE k # 1
      <4>1. /\ Nodes' = k - 1 /\ Nodes' # 0 /\ k - 1 \in 1 .. Nodes - 1 /\ k - 1 < k
            /\ k - 1 \in 1 .. Nodes
        BY <1>2, <1>4, <2>1, <3>2
      <4>2. HeapAllocations'[k - 1] = HeapAllocations[k - 1]
        BY <1>4, <4>1
      <4>3. FreeAddress' = EndOf(HeapAllocations[k - 1])
        BY <1>1, <1>8, <2>1, <3>2
      <4>4. EndOf(HeapAllocations[k - 1]) <= HeapAllocations[k].addr
        BY <4>1 DEF BlocksInv, BlocksApart
      <4>5. /\ EndOf(HeapAllocations[k - 1]) \in Nat /\ HeapAllocations[k].addr \in Nat
            /\ HeapAllocations[k].addr < FreeAddress /\ HeapSize \in Nat
        BY <1>3, <1>8, <2>1, <4>1, EndFacts, HeapAssumption
      <4>6. FreeAddress' <= HeapSize
        BY <1>8, <4>3, <4>4, <4>5
      <4> QED
        BY <4>1, <4>2, <4>3, <4>6
    <3> QED
      BY <3>1, <3>2
  <2>2. CASE k # Nodes
    <3>1. k < Nodes
      BY <1>2, <2>2
    <3>2. EndOf(HeapAllocations[k]) <= HeapAllocations[Nodes].addr
      BY <1>8, <3>1 DEF BlocksInv, BlocksApart
    <3>3. EndOf(HeapAllocations[k]) # FreeAddress
      <4>1. EndOf(HeapAllocations[k]) \in Nat /\ HeapAllocations[Nodes].addr \in Nat
            /\ HeapAllocations[Nodes].addr < FreeAddress
        BY <1>3, <1>8, EndFacts
      <4> QED
        BY <1>8, <3>2, <4>1
    <3>4. Nodes - 1 \in 1 .. Nodes - 1 /\ Nodes - 1 # 0 /\ ~(Nodes - 1 < k) /\ (Nodes - 1) + 1 = Nodes
      BY <1>2, <3>1
    <3>5. HeapAllocations'[Nodes - 1] = HeapAllocations[Nodes]
      BY <1>4, <3>4
    <3> QED
      BY <1>1, <1>4, <1>8, <3>3, <3>4, <3>5
  <2> QED
    BY <2>1, <2>2
<1> QED
  BY <1>4, <1>6, <1>7, <1>9 DEF BlocksInv, BlocksApart

\* Every block lies between the header and FreeAddress, and apart from the
\* others.
Within ==
  /\ Nodes \in Nat /\ Nodes = Len(HeapAllocations) /\ DOMAIN HeapAllocations = 1 .. Nodes
  /\ FreeAddress \in Nat /\ FreeAddress >= HeaderSize
  /\ \A i \in 1 .. Nodes :
       /\ HeapAllocations[i] \in HeapEntry
       /\ BlockSpan(HeapAllocations[i]) \subseteq HeaderSize .. FreeAddress - 1
       /\ \A j \in 1 .. Nodes : i # j => BlockSpan(HeapAllocations[i]) \intersect BlockSpan(HeapAllocations[j]) = {}
  /\ Taken(HeapAllocations) \subseteq HeaderSize .. FreeAddress - 1
  /\ IsFiniteSet(Taken(HeapAllocations)) /\ Cardinality(Taken(HeapAllocations)) \in Nat

LEMMA BlocksWithin == BlocksInv => Within
<1> SUFFICES ASSUME BlocksInv PROVE Within
  OBVIOUS
<1>1. /\ HeapAllocations \in Seq(HeapEntry)
      /\ Nodes \in Nat /\ Nodes = Len(HeapAllocations) /\ DOMAIN HeapAllocations = 1 .. Nodes
  BY DEF BlocksInv, Nodes
<1>2. \A i \in 1 .. Nodes : HeapAllocations[i] \in HeapEntry
  BY <1>1
<1>3. HeaderSize \in Nat
  BY HeapAssumption
<1> DEFINE Inside ==
             /\ FreeAddress \in Nat /\ FreeAddress >= HeaderSize
             /\ \A i \in 1 .. Nodes : BlockSpan(HeapAllocations[i]) \subseteq HeaderSize .. FreeAddress - 1
<1>4. ASSUME Nodes = 0 PROVE Inside
  BY <1>1, <1>3, <1>4 DEF BlocksInv, BlocksApart
<1>5. ASSUME Nodes # 0 PROVE Inside
  <2> DEFINE n == Nodes
             e(i) == HeapAllocations[i]
  <2>1. n \in 1 .. n /\ FreeAddress = EndOf(e(n))
    BY <1>1, <1>5 DEF BlocksInv, BlocksApart
  <2>2. ASSUME NEW i \in 1 .. n
        PROVE  /\ e(i).addr \in Nat /\ EndOf(e(i)) \in Nat /\ e(i).addr < EndOf(e(i))
               /\ e(i).addr >= HeaderSize
    BY <1>2, <2>2, EndFacts DEF BlocksInv, BlocksApart
  <2>3. ASSUME NEW i \in 1 .. n PROVE EndOf(e(i)) <= FreeAddress
    <3>1. CASE i = n
      BY <2>1, <2>2, <3>1
    <3>2. CASE i # n
      <4>1. i < n
        BY <1>1, <3>2
      <4>2. EndOf(e(i)) <= e(n).addr
        BY <2>1, <4>1 DEF BlocksInv, BlocksApart
      <4> QED
        BY <2>1, <2>2, <4>2
    <3> QED
      BY <3>1, <3>2
  <2>4. FreeAddress \in Nat /\ FreeAddress >= HeaderSize
    BY <1>3, <2>1, <2>2
  <2>5. ASSUME NEW i \in 1 .. n PROVE BlockSpan(e(i)) \subseteq HeaderSize .. FreeAddress - 1
    BY <1>3, <2>2, <2>3, <2>4 DEF BlockSpan
  <2> QED
    BY <2>4, <2>5
<1>6. Inside
  BY <1>4, <1>5
<1>7. ASSUME NEW i \in 1 .. Nodes, NEW j \in 1 .. Nodes, i # j
      PROVE  BlockSpan(HeapAllocations[i]) \intersect BlockSpan(HeapAllocations[j]) = {}
  <2>1. HeapAllocations[i] \in HeapEntry /\ HeapAllocations[j] \in HeapEntry
    BY <1>2
  <2>2. \/ EndOf(HeapAllocations[i]) <= HeapAllocations[j].addr
        \/ EndOf(HeapAllocations[j]) <= HeapAllocations[i].addr
    BY <1>1, <1>7 DEF BlocksInv, BlocksApart
  <2> QED
    BY <2>1, <2>2, EndFacts DEF BlockSpan
<1>8. Taken(HeapAllocations) \subseteq HeaderSize .. FreeAddress - 1
  BY <1>1, <1>6 DEF Taken
<1>9. IsFiniteSet(HeaderSize .. FreeAddress - 1)
  BY <1>3, <1>6, FS_Interval
<1>10. IsFiniteSet(Taken(HeapAllocations))
  BY <1>8, <1>9, FS_Subset
<1>11. Cardinality(Taken(HeapAllocations)) \in Nat
  BY <1>10, FS_CardinalityType
<1> QED
  BY <1>1, <1>2, <1>6, <1>7, <1>8, <1>10, <1>11 DEF Within

\* The bytes of a block.
LEMMA BlockBytes ==
  ASSUME NEW e \in HeapEntry
  PROVE  IsFiniteSet(BlockSpan(e)) /\ Cardinality(BlockSpan(e)) = e.size + EntrySize + TailSize
<1> DEFINE a == e.addr
           z == EndOf(e) - 1
<1>1. e.addr \in Nat /\ e.size \in Nat /\ EntrySize \in Nat /\ TailSize \in Nat /\ EntrySize # 0
  BY EndFacts, HeapAssumption
<1>2. a \in Int /\ z \in Int /\ ~(a > z) /\ z - a + 1 = e.size + EntrySize + TailSize
  BY <1>1 DEF EndOf
<1> HIDE DEF a, z
<1>3. IsFiniteSet(a .. z) /\ Cardinality(a .. z) = IF a > z THEN 0 ELSE z - a + 1
  BY <1>2, FS_Interval
<1>4. BlockSpan(e) = a .. z
  BY DEF BlockSpan, a, z
<1> QED
  BY <1>2, <1>3, <1>4

\* A list t has one block more than s, apart from the others.
LEMMA TakenGrows ==
  ASSUME NEW s, NEW t, NEW n \in Nat, DOMAIN s = 1 .. n, DOMAIN t = 1 .. n + 1,
         NEW p \in 1 .. n + 1, t[p] \in HeapEntry,
         \A i \in 1 .. n : s[i] = IF i < p THEN t[i] ELSE t[i + 1],
         \A i \in 1 .. n + 1 : i # p => BlockSpan(t[i]) \intersect BlockSpan(t[p]) = {},
         IsFiniteSet(Taken(s))
  PROVE  Cardinality(Taken(t)) = Cardinality(Taken(s)) + (t[p].size + EntrySize + TailSize)
<1>1. ASSUME NEW i \in 1 .. n + 1, i # p PROVE \E j \in 1 .. n : s[j] = t[i]
  <2>1. CASE i < p
    BY <2>1
  <2>2. CASE i > p
    <3>1. i - 1 \in 1 .. n /\ ~(i - 1 < p) /\ (i - 1) + 1 = i
      BY <2>2
    <3> QED
      BY <3>1
  <2> QED
    BY <1>1, <2>1, <2>2
<1>2. ASSUME NEW j \in 1 .. n PROVE \E i \in 1 .. n + 1 : i # p /\ s[j] = t[i]
  <2>1. CASE j < p
    BY <2>1
  <2>2. CASE ~(j < p)
    <3>1. j + 1 \in 1 .. n + 1 /\ j + 1 # p
      BY <2>2
    <3> QED
      BY <2>2, <3>1
  <2> QED
    BY <2>1, <2>2
<1>3. Taken(t) = Taken(s) \union BlockSpan(t[p]) /\ Taken(s) \intersect BlockSpan(t[p]) = {}
  <2>1. ASSUME NEW x \in Taken(t) PROVE x \in Taken(s) \union BlockSpan(t[p])
    <3>1. PICK i \in 1 .. n + 1 : x \in BlockSpan(t[i])
      BY DEF Taken
    <3> QED
      BY <1>1, <3>1 DEF Taken
  <2>2. ASSUME NEW x \in Taken(s) PROVE x \in Taken(t) /\ x \notin BlockSpan(t[p])
    <3>1. PICK j \in 1 .. n : x \in BlockSpan(s[j])
      BY DEF Taken
    <3>2. PICK i \in 1 .. n + 1 : i # p /\ s[j] = t[i]
      BY <1>2
    <3> QED
      BY <3>1, <3>2 DEF Taken
  <2>3. BlockSpan(t[p]) \subseteq Taken(t)
    BY DEF Taken
  <2> QED
    BY <2>1, <2>2, <2>3
<1>4. IsFiniteSet(BlockSpan(t[p])) /\ Cardinality(BlockSpan(t[p])) = t[p].size + EntrySize + TailSize
  BY BlockBytes
<1>5. Cardinality(Taken(s)) \in Nat /\ Cardinality(BlockSpan(t[p])) \in Nat
  BY <1>4, FS_CardinalityType
<1>6. Cardinality({}) = 0
  BY FS_EmptySet
<1>7. Cardinality(Taken(t)) = Cardinality(Taken(s)) + Cardinality(BlockSpan(t[p])) - Cardinality({})
  BY <1>3, <1>4, FS_Union
<1> QED
  BY <1>4, <1>5, <1>6, <1>7

\* The header says what the blocks leave.
HeapCounts ==
  /\ HeapNumberOfAllocations = Nodes
  /\ HeapSizeRemaining = HeapSize - HeaderSize - Cardinality(Taken(HeapAllocations))

\* _InitHeapEntry, at the end and in a gap.
LEMMA AllocateCounts ==
  ASSUME BlocksInv, HeapCounts, BlocksInv', NEW rq \in Requests,
         AllocateAtEnd(rq) \/ AllocateBetween(rq)
  PROVE  HeapCounts'
<1>0. Within /\ Within'
  BY BlocksWithin, PTL
<1>1. Nodes \in Nat /\ Nodes = Len(HeapAllocations) /\ DOMAIN HeapAllocations = 1 .. Nodes
      /\ HeapAllocations \in Seq(HeapEntry)
  BY <1>0 DEF Within, BlocksInv
<1>2. ASSUME NEW e, Account(e), NEW p \in 1 .. Nodes + 1, HeapAllocations'[p] = e, Nodes' = Nodes + 1,
             \A i \in 1 .. Nodes : HeapAllocations[i] = IF i < p THEN HeapAllocations'[i]
                                                        ELSE HeapAllocations'[i + 1]
      PROVE  HeapCounts'
  <2>1. DOMAIN HeapAllocations' = 1 .. Nodes + 1 /\ HeapAllocations'[p] \in HeapEntry
    BY <1>0, <1>2 DEF Within
  <2>2. \A i \in 1 .. Nodes + 1 :
          i # p => BlockSpan(HeapAllocations'[i]) \intersect BlockSpan(HeapAllocations'[p]) = {}
    BY <1>0, <1>2 DEF Within
  <2>3. IsFiniteSet(Taken(HeapAllocations)) /\ Cardinality(Taken(HeapAllocations)) \in Nat
    BY <1>0 DEF Within
  <2>4. Cardinality(Taken(HeapAllocations'))
          = Cardinality(Taken(HeapAllocations)) + (e.size + EntrySize + TailSize)
    <3> DEFINE s == HeapAllocations
               t == HeapAllocations'
               n == Nodes
    <3>1. /\ n \in Nat /\ DOMAIN s = 1 .. n /\ DOMAIN t = 1 .. n + 1 /\ p \in 1 .. n + 1
          /\ t[p] \in HeapEntry /\ IsFiniteSet(Taken(s)) /\ t[p] = e
          /\ \A i \in 1 .. n : s[i] = IF i < p THEN t[i] ELSE t[i + 1]
          /\ \A i \in 1 .. n + 1 : i # p => BlockSpan(t[i]) \intersect BlockSpan(t[p]) = {}
      BY <1>1, <1>2, <2>1, <2>2, <2>3
    <3> HIDE DEF s, t, n
    <3>2. Cardinality(Taken(t)) = Cardinality(Taken(s)) + (t[p].size + EntrySize + TailSize)
      BY <3>1, TakenGrows
    <3> QED
      BY <3>1, <3>2 DEF s, t
  <2>5. Taken(HeapAllocations)' = Taken(HeapAllocations')
    BY DEF Taken
  <2>6. e.size \in Nat /\ EntrySize \in Nat /\ TailSize \in Nat /\ HeapSize \in Nat /\ HeaderSize \in Nat
    BY <1>2, <2>1, EndFacts, HeapAssumption
  <2> QED
    BY <1>1, <1>2, <2>3, <2>4, <2>5, <2>6 DEF HeapCounts, Account
<1>3. CASE AllocateAtEnd(rq)
  <2> DEFINE e == Head(EntryAtEnd(rq))
  <2>1. HeapAllocations' = Append(HeapAllocations, e) /\ Account(e)
    BY <1>3 DEF AllocateAtEnd
  <2> HIDE DEF e
  <2>2. /\ HeapAllocations'[Nodes + 1] = e /\ Nodes' = Nodes + 1
        /\ \A i \in 1 .. Nodes : HeapAllocations[i] = HeapAllocations'[i]
    BY <1>1, <2>1 DEF Nodes
  <2>3. Nodes + 1 \in 1 .. Nodes + 1 /\ \A i \in 1 .. Nodes : i < Nodes + 1
    BY <1>1
  <2> QED
    BY <1>2, <2>1, <2>2, <2>3
<1>4. CASE AllocateBetween(rq)
  <2> DEFINE k == Min(SearchFits(rq, RestartNode))
             p == Previous(RestartNode, k)
             e == Head(EntryBetween(rq, RestartNode, k))
             q == p + 1
  <2>1. HeapAllocations' = InsertAt(HeapAllocations, q, e) /\ Account(e)
        /\ RestartIsLive /\ SearchFits(rq, RestartNode) # {}
    BY <1>4 DEF AllocateBetween
  <2>2. RestartNode \in 0 .. Nodes
    BY <1>1, <2>1 DEF RestartNode, RestartIsLive
  <2>3. k \in SearchFits(rq, RestartNode)
    <3>1. SearchFits(rq, RestartNode) \in SUBSET Nat
      BY <1>1 DEF SearchFits, Looks
    <3> QED
      BY <2>1, <3>1, MinIsLeast
  <2>4. p \in 1 .. Nodes - 1
    BY <2>2, <2>3, RoomIsBetweenNeighbours
  <2>5. q \in 1 .. Nodes + 1
    BY <1>1, <2>4
  <2> HIDE DEF e, q
  <2> DEFINE S == HeapEntry \union {e}
  <2>6. e \in S /\ HeapAllocations \in Seq(S)
    BY <1>1
  <2>7. /\ Len(HeapAllocations') = Nodes + 1
        /\ \A i \in 1 .. Nodes + 1 :
             HeapAllocations'[i] = IF i < q THEN HeapAllocations[i]
                                   ELSE IF i = q THEN e ELSE HeapAllocations[i - 1]
    <3>1. q \in 1 .. Len(HeapAllocations) + 1
      BY <1>1, <2>5
    <3> HIDE DEF S
    <3>2. /\ Len(InsertAt(HeapAllocations, q, e)) = Len(HeapAllocations) + 1
          /\ \A i \in 1 .. Len(HeapAllocations) + 1 :
               InsertAt(HeapAllocations, q, e)[i] =
                 IF i < q THEN HeapAllocations[i] ELSE IF i = q THEN e ELSE HeapAllocations[i - 1]
      BY <2>6, <3>1, InsertedAt
    <3> QED
      BY <1>1, <2>1, <3>2
  <2>8. ASSUME NEW i \in 1 .. Nodes
        PROVE  HeapAllocations[i] = IF i < q THEN HeapAllocations'[i] ELSE HeapAllocations'[i + 1]
    <3>1. i \in 1 .. Nodes + 1 /\ i + 1 \in 1 .. Nodes + 1 /\ (i + 1) - 1 = i
      BY <1>1
    <3>2. CASE i < q
      BY <2>7, <3>1, <3>2
    <3>3. CASE ~(i < q)
      <4>1. ~(i + 1 < q) /\ i + 1 # q
        BY <1>1, <2>5, <3>3
      <4> QED
        BY <2>7, <3>1, <3>3, <4>1
    <3> QED
      BY <3>2, <3>3
  <2>9. HeapAllocations'[q] = e /\ Nodes' = Nodes + 1
    BY <1>1, <2>5, <2>7 DEF Nodes
  <2> QED
    BY <1>2, <2>1, <2>5, <2>8, <2>9
<1> QED
  BY <1>3, <1>4

\* A block given back.
LEMMA FreeCounts ==
  ASSUME BlocksInv, HeapCounts, BlocksInv', NEW k \in 1 .. Nodes, HeapFreePoolWithTag(k)
  PROVE  HeapCounts'
<1> DEFINE e == HeapAllocations[k]
<1>0. Within /\ Within'
  BY BlocksWithin, PTL
<1>1. Nodes \in Nat /\ Nodes = Len(HeapAllocations) /\ DOMAIN HeapAllocations = 1 .. Nodes
      /\ HeapAllocations \in Seq(HeapEntry) /\ e \in HeapEntry
  BY <1>0 DEF Within, BlocksInv
<1>2. /\ HeapAllocations' = RemoveAt(HeapAllocations, k)
      /\ HeapSizeRemaining' = HeapSizeRemaining + e.size + EntrySize + TailSize
      /\ HeapNumberOfAllocations' = HeapNumberOfAllocations - 1
  BY DEF HeapFreePoolWithTag
<1>3. /\ Len(HeapAllocations') = Nodes - 1 /\ Nodes' = Nodes - 1
      /\ \A i \in 1 .. Nodes - 1 :
           HeapAllocations'[i] = IF i < k THEN HeapAllocations[i] ELSE HeapAllocations[i + 1]
  BY <1>1, <1>2, RemovedAt DEF Nodes
<1> DEFINE n == Nodes - 1
<1>4. n \in Nat /\ n + 1 = Nodes /\ DOMAIN HeapAllocations' = 1 .. n
  BY <1>0, <1>1, <1>3 DEF Within
<1>5. IsFiniteSet(Taken(HeapAllocations')) /\ Cardinality(Taken(HeapAllocations')) \in Nat
  BY <1>0 DEF Within
<1>6. \A i \in 1 .. n + 1 : i # k => BlockSpan(HeapAllocations[i]) \intersect BlockSpan(HeapAllocations[k]) = {}
  BY <1>0, <1>4 DEF Within
<1>7. Cardinality(Taken(HeapAllocations))
        = Cardinality(Taken(HeapAllocations')) + (e.size + EntrySize + TailSize)
  <2> HIDE DEF n
  <2>1. DOMAIN HeapAllocations = 1 .. n + 1 /\ k \in 1 .. n + 1
    BY <1>1, <1>4
  <2>2. \A i \in 1 .. n : HeapAllocations'[i] = IF i < k THEN HeapAllocations[i] ELSE HeapAllocations[i + 1]
    BY <1>3 DEF n
  <2> DEFINE s == HeapAllocations'
             t == HeapAllocations
  <2>3. /\ n \in Nat /\ DOMAIN s = 1 .. n /\ DOMAIN t = 1 .. n + 1 /\ k \in 1 .. n + 1
        /\ t[k] \in HeapEntry /\ IsFiniteSet(Taken(s))
        /\ \A i \in 1 .. n : s[i] = IF i < k THEN t[i] ELSE t[i + 1]
        /\ \A i \in 1 .. n + 1 : i # k => BlockSpan(t[i]) \intersect BlockSpan(t[k]) = {}
    BY <1>1, <1>4, <1>5, <1>6, <2>1, <2>2
  <2> HIDE DEF s, t
  <2>4. Cardinality(Taken(t)) = Cardinality(Taken(s)) + (t[k].size + EntrySize + TailSize)
    BY <2>3, TakenGrows
  <2> QED
    BY <2>4 DEF s, t
<1>8. e.size \in Nat /\ EntrySize \in Nat /\ TailSize \in Nat /\ HeapSize \in Nat /\ HeaderSize \in Nat
  BY <1>1, EndFacts, HeapAssumption
<1>9. Cardinality(Taken(HeapAllocations)) \in Nat
  BY <1>0 DEF Within
<1> HIDE DEF e, n
<1> DEFINE before == Cardinality(Taken(HeapAllocations))
           after == Cardinality(Taken(HeapAllocations'))
<1>10. HeapSizeRemaining = HeapSize - HeaderSize - before /\ HeapNumberOfAllocations = Nodes
  BY DEF HeapCounts
<1>11. before \in Nat /\ after \in Nat /\ before = after + (e.size + EntrySize + TailSize)
  BY <1>5, <1>7, <1>9
<1> HIDE DEF before, after
<1>12. HeapSizeRemaining' = HeapSizeRemaining + e.size + EntrySize + TailSize
  BY <1>2
<1>13. HeapSizeRemaining' = HeapSize - HeaderSize - after
  BY <1>8, <1>10, <1>11, <1>12
<1>14. HeapNumberOfAllocations' = Nodes'
  BY <1>2, <1>3, <1>10
<1> QED
  BY <1>13, <1>14 DEF HeapCounts, after

\* What is computed for the space before FreeAddress.
LEMMA CountsAreExact == BlocksInv /\ HeapCounts => HeapAccounting
<1> SUFFICES ASSUME BlocksInv, HeapCounts PROVE HeapAccounting
  OBVIOUS
<1> DEFINE all == HeaderSize .. FreeAddress - 1
           taken == Taken(HeapAllocations)
<1>1. FreeAddress \in Nat /\ FreeAddress >= HeaderSize /\ HeaderSize \in Nat /\ HeapSize \in Nat
      /\ EntrySize \in Nat
  BY BlocksWithin, HeapAssumption DEF Within
<1>2. IsFiniteSet(all) /\ Cardinality(all) = FreeAddress - HeaderSize
  <2> DEFINE b == FreeAddress - 1
  <2>1. b \in Int /\ b - HeaderSize + 1 = FreeAddress - HeaderSize
        /\ (HeaderSize > b => FreeAddress - HeaderSize = 0)
    BY <1>1
  <2> HIDE DEF b
  <2>2. IsFiniteSet(HeaderSize .. b)
        /\ Cardinality(HeaderSize .. b) = IF HeaderSize > b THEN 0 ELSE b - HeaderSize + 1
    BY <1>1, <2>1, FS_Interval
  <2> QED
    BY <2>1, <2>2 DEF b
<1>3. taken \subseteq all /\ Cardinality(taken) \in Nat
  BY BlocksWithin DEF Within
<1>4. all \intersect taken = taken
  BY <1>3
<1>5. Cardinality(all \ taken) = Cardinality(all) - Cardinality(taken)
  <2> HIDE DEF all, taken
  <2> QED
    <3>1. Cardinality(all \ taken) = Cardinality(all) - Cardinality(all \intersect taken)
      BY <1>2, FS_Difference
    <3> QED
      BY <1>4, <3>1
<1>6. RemainingSizeBeforeCurrent = FreeAddress - HeaderSize - Cardinality(taken)
  <2> HIDE DEF taken
  <2>1. HeapSizeRemaining = HeapSize - HeaderSize - Cardinality(taken)
    BY DEF HeapCounts, taken
  <2> QED
    BY <1>1, <1>3, <2>1 DEF RemainingSizeBeforeCurrent, RemainingSizeUntilEnd
<1>7. ASSUME Nodes = 0 PROVE RemainingSizeBeforeCurrent = 0
  <2>1. FreeAddress = HeaderSize
    BY <1>7 DEF BlocksInv, BlocksApart
  <2>2. all = {}
    BY <1>1, <2>1
  <2>3. Cardinality(taken) = 0
    BY <1>3, <2>2, FS_EmptySet
  <2> HIDE DEF taken
  <2> QED
    BY <1>1, <1>6, <2>1, <2>3
<1> QED
  BY <1>2, <1>5, <1>6, <1>7 DEF HeapAccounting, HeapCounts

\* The kernel heap (HeapAllocatePoolWithTag, HeapFreePoolWithTag) keeps its
\* list ordered by address and its blocks disjoint and inside the heap, with
\* FreeAddress behind the last one, and the space it computes before
\* FreeAddress is the space between the blocks, for every size of the heap, of
\* its structures and of the requests, and every alignment.
THEOREM HeapSafe == HeapInit /\ [][HeapNext]_heapVars => []HeapInv
<1>1. HeapInit => BlocksInv
  <2> SUFFICES ASSUME HeapInit PROVE BlocksInv
    OBVIOUS
  <2>1. HeapAllocations = <<>> /\ Nodes = 0 /\ FreeAddress = HeaderSize
    BY DEF HeapInit, Nodes
  <2> QED
    BY <2>1, HeapAssumption DEF BlocksInv, BlocksApart
<1>2. BlocksInv /\ [HeapNext]_heapVars => BlocksInv'
  <2> SUFFICES ASSUME BlocksInv, [HeapNext]_heapVars PROVE BlocksInv'
    OBVIOUS
  <2>1. CASE UNCHANGED <<HeapAllocations, FreeAddress>>
    BY <2>1 DEF BlocksInv, BlocksApart, Nodes
  <2>2. ASSUME NEW rq \in Requests, HeapAllocatePoolWithTag(rq) PROVE BlocksInv'
    BY <2>1, <2>2, EndKeepsBlocks, BetweenKeepsBlocks
       DEF HeapAllocatePoolWithTag, SearchFails, NoMoreMemory, heapVars
  <2>3. ASSUME NEW i \in 1 .. Nodes, HeapFreePoolWithTag(i) PROVE BlocksInv'
    BY <2>3, FreeKeepsBlocks
  <2> QED
    BY <2>1, <2>2, <2>3 DEF HeapNext, ClHeapAllocatePoolWithTag, ClHeapFreePoolWithTag, heapVars
<1>3. BlocksInv => HeapOrdered
  <2> SUFFICES ASSUME BlocksInv PROVE HeapOrdered
    OBVIOUS
  <2>1. Nodes \in Nat /\ Nodes = Len(HeapAllocations)
    BY DEF BlocksInv, Nodes
  <2>2. ASSUME NEW i \in 1 .. Nodes
        PROVE  HeapAllocations[i].addr >= IF i = 1 THEN HeaderSize ELSE EndOf(HeapAllocations[i - 1])
    <3>1. CASE i = 1
      BY <3>1 DEF BlocksInv, BlocksApart
    <3>2. CASE i # 1
      <4>1. i - 1 \in 1 .. Nodes /\ i - 1 < i
        BY <2>1, <3>2
      <4>2. EndOf(HeapAllocations[i - 1]) <= HeapAllocations[i].addr
        BY <4>1 DEF BlocksInv, BlocksApart
      <4>3. HeapAllocations[i] \in HeapEntry /\ HeapAllocations[i - 1] \in HeapEntry
        BY <2>1, <4>1 DEF BlocksInv
      <4> QED
        BY <3>2, <4>2, <4>3, EndFacts
    <3> QED
      BY <3>1, <3>2
  <2> QED
    BY <2>1, <2>2 DEF BlocksInv, BlocksApart, HeapOrdered, Last
<1>4. HeapInit => HeapCounts
  <2> SUFFICES ASSUME HeapInit PROVE HeapCounts
    OBVIOUS
  <2>1. HeapAllocations = <<>> /\ Nodes = 0
    BY DEF HeapInit, Nodes
  <2>2. Taken(HeapAllocations) = {}
    BY <2>1 DEF Taken
  <2>3. Cardinality(Taken(HeapAllocations)) = 0
    BY <2>2, FS_EmptySet
  <2> QED
    BY <2>1, <2>3, HeapAssumption DEF HeapInit, HeapCounts
<1>5. BlocksInv /\ HeapCounts /\ BlocksInv' /\ [HeapNext]_heapVars => HeapCounts'
  <2> SUFFICES ASSUME BlocksInv, HeapCounts, BlocksInv', [HeapNext]_heapVars PROVE HeapCounts'
    OBVIOUS
  <2>1. CASE UNCHANGED <<HeapAllocations, HeapSizeRemaining, HeapNumberOfAllocations>>
    BY <2>1 DEF HeapCounts, Taken, Nodes
  <2>2. ASSUME NEW rq \in Requests, HeapAllocatePoolWithTag(rq) PROVE HeapCounts'
    BY <2>1, <2>2, AllocateCounts DEF HeapAllocatePoolWithTag, SearchFails, NoMoreMemory, heapVars
  <2>3. ASSUME NEW i \in 1 .. Nodes, HeapFreePoolWithTag(i) PROVE HeapCounts'
    BY <2>3, FreeCounts
  <2> QED
    BY <2>1, <2>2, <2>3 DEF HeapNext, ClHeapAllocatePoolWithTag, ClHeapFreePoolWithTag, heapVars
<1>6. BlocksInv /\ HeapCounts => HeapInv
  BY <1>3, CountsAreExact DEF HeapInv
<1> QED
  BY <1>1, <1>2, <1>4, <1>5, <1>6, PTL
=============================================================================

--------------------------------- MODULE Heap ---------------------------------
(***************************************************************************)
(* The kernel heap (heap.c) and its copy for applications (cl_heap.c): one *)
(* region, a list of allocations ordered by address, a bump pointer        *)
(* FreeAddress and, once the end is reached, a search for a gap between    *)
(* two neighbours that starts where the last one succeeded.  Every caller  *)
(* holds the heap's lock (MmuAllocatePoolWithTag), so a call is one step.  *)
(* Callers write only to the bytes they asked for.  Addresses count from   *)
(* BaseAddress; an entry is named by the address of its HEAP_ENTRY.        *)
(***************************************************************************)
EXTENDS Integers, Sequences, SequencesExt, FiniteSetsExt

CONSTANTS
  HeaderSize,    \* sizeof(HEAP_HEADER)
  EntrySize,     \* sizeof(HEAP_ENTRY)
  TailSize,      \* sizeof(HEAP_TAIL)
  HeapSize,      \* MemoryAvailable
  Requests       \* the allocations: records [size, alignment]

\* The structures have a size, the header fits into the region, and the log
\* of the pool aligns to one byte at least.
ASSUME HeapAssumption ==
  /\ HeaderSize \in Nat /\ EntrySize \in Nat \ {0} /\ TailSize \in Nat
  /\ HeapSize \in Nat /\ HeaderSize <= HeapSize
  /\ \A r \in Requests : r.size \in Nat /\ r.alignment \in Nat \ {0}

VARIABLES
  HeapAllocations,        \* the list: a sequence of [addr, size]
  FreeAddress,
  HeapSizeRemaining,
  HeapNumberOfAllocations,
  EntryToRestartSearch,   \* the address of an entry, or 0 for the list head
  heapState               \* "ok", "assert" or "fault": a dead pointer was followed

heapVars == <<HeapAllocations, FreeAddress, HeapSizeRemaining,
              HeapNumberOfAllocations, EntryToRestartSearch, heapState>>

\* HeapInitializeSystem, for a size above the minimum.
HeapInit ==
  /\ HeapAllocations = <<>>
  /\ FreeAddress = HeaderSize
  /\ HeapSizeRemaining = HeapSize - HeaderSize
  /\ HeapNumberOfAllocations = 0
  /\ EntryToRestartSearch = 0
  /\ heapState = "ok"

SizeRequired(r) == r.size + EntrySize + TailSize

EndOf(e) == e.addr + EntrySize + e.size + TailSize

AlignUp(a, alignment) == ((a + alignment - 1) \div alignment) * alignment

\* _InitHeapEntry: the entry just below the aligned data, or <<>> if it does
\* not fit into the bytes available.
InitHeapEntry(start, r, available) ==
  LET unaligned == start + EntrySize
      data      == AlignUp(unaligned, r.alignment)
  IN  IF available < data - unaligned + SizeRequired(r)
      THEN <<>>
      ELSE <<[addr |-> data - EntrySize, size |-> r.size]>>

\* What is believed to be left after FreeAddress, and before it.
RemainingSizeUntilEnd == HeapSize - FreeAddress - EntrySize
RemainingSizeBeforeCurrent == HeapSizeRemaining - RemainingSizeUntilEnd - EntrySize

\* The entry a request gets at the end of the heap, if any.
EntryAtEnd(r) ==
  IF SizeRequired(r) <= RemainingSizeUntilEnd
  THEN InitHeapEntry(FreeAddress, r, RemainingSizeUntilEnd)
  ELSE <<>>

(***************************************************************************)
(* The walk over the circular list.  Node 0 is the list head, node i the   *)
(* i-th allocation; iteration k looks at the neighbours Previous(k) and    *)
(* Previous(k + 1), starting behind the node r of EntryToRestartSearch and *)
(* ending when it is met again.                                            *)
(***************************************************************************)
Nodes == Len(HeapAllocations)
RestartNode == IF EntryToRestartSearch = 0 THEN 0
               ELSE CHOOSE i \in 1 .. Nodes : HeapAllocations[i].addr = EntryToRestartSearch
RestartIsLive ==
  EntryToRestartSearch # 0 =>
    \E i \in 1 .. Nodes : HeapAllocations[i].addr = EntryToRestartSearch
Previous(r, k) == (r + k) % (Nodes + 1)

\* The iterations that do not go straight to next_loop.
Looks(r) == {k \in 1 .. Nodes - 1 : Previous(r, k) # 0 /\ Previous(r, k + 1) # 0}

\* pPreviousHeapEntry in iteration k: after the first iteration it is the
\* entry that was current in the last one that did not skip; 0 is NULL.
PreviousHeapEntry(r, k) ==
  IF k = 1 THEN Previous(r, 1)
  ELSE LET before == {j \in Looks(r) : j < k}
       IN  IF before = {} THEN 0 ELSE Previous(r, Max(before) + 1)

\* The entry iteration k makes for the request, if its gap is large enough.
EntryBetween(rq, r, k) ==
  LET start == EndOf(HeapAllocations[PreviousHeapEntry(r, k)])
      gap   == HeapAllocations[Previous(r, k + 1)].addr - start
  IN  IF gap >= SizeRequired(rq) THEN InitHeapEntry(start, rq, gap) ELSE <<>>

\* ASSERT(NULL != pPreviousHeapEntry) fails.
SearchAsserts(r) == {k \in Looks(r) : PreviousHeapEntry(r, k) = 0}
SearchFits(rq, r) ==
  {k \in Looks(r) \ SearchAsserts(r) : EntryBetween(rq, r, k) # <<>>}

\* What _InitHeapEntry leaves in the header.
Account(e) ==
  /\ HeapSizeRemaining' = HeapSizeRemaining - (e.size + EntrySize + TailSize)
  /\ HeapNumberOfAllocations' = HeapNumberOfAllocations + 1

\* The easier case: the request is placed at the end.
AllocateAtEnd(rq) ==
  /\ heapState = "ok"
  /\ SizeRequired(rq) <= HeapSizeRemaining
  /\ EntryAtEnd(rq) # <<>>
  /\ LET e == Head(EntryAtEnd(rq)) IN
     /\ HeapAllocations' = Append(HeapAllocations, e)
     /\ FreeAddress' = EndOf(e)
     /\ Account(e)
  /\ UNCHANGED <<EntryToRestartSearch, heapState>>

\* The guards on the way to the walk.
SearchNeeded(rq) ==
  /\ heapState = "ok"
  /\ SizeRequired(rq) <= HeapSizeRemaining
  /\ EntryAtEnd(rq) = <<>>
  /\ SizeRequired(rq) <= RemainingSizeBeforeCurrent

\* The first iteration with room: the entry goes behind pPreviousEntry.
AllocateBetween(rq) ==
  /\ SearchNeeded(rq)
  /\ HeapAllocations # <<>>
  /\ RestartIsLive
  /\ LET r    == RestartNode
         fits == SearchFits(rq, r)
     IN  /\ fits # {}
         /\ \A k \in SearchAsserts(r) : k > Min(fits)
         /\ LET e == Head(EntryBetween(rq, r, Min(fits))) IN
            /\ HeapAllocations' = InsertAt(HeapAllocations, Previous(r, Min(fits)) + 1, e)
            /\ EntryToRestartSearch' = e.addr
            /\ Account(e)
  /\ UNCHANGED <<FreeAddress, heapState>>

\* The walk ends without an entry, in a failed assertion, or starts from a
\* node that has been freed.
SearchFails(rq) ==
  /\ SearchNeeded(rq)
  /\ IF HeapAllocations = <<>> THEN heapState' = "assert"
     ELSE IF ~RestartIsLive THEN heapState' = "fault"
     ELSE LET r == RestartNode IN
          /\ \A f \in SearchFits(rq, r) : \E k \in SearchAsserts(r) : k < f
          /\ heapState' = IF SearchAsserts(r) = {} THEN "ok" ELSE "assert"
  /\ UNCHANGED <<HeapAllocations, FreeAddress, HeapSizeRemaining,
                 HeapNumberOfAllocations, EntryToRestartSearch>>

\* NULL without a search: a request that is larger than what is left.
NoMoreMemory(rq) ==
  /\ heapState = "ok"
  /\ \/ SizeRequired(rq) > HeapSizeRemaining
     \/ EntryAtEnd(rq) = <<>> /\ SizeRequired(rq) > RemainingSizeBeforeCurrent
  /\ UNCHANGED heapVars

HeapAllocatePoolWithTag(rq) ==
  AllocateAtEnd(rq) \/ AllocateBetween(rq) \/ SearchFails(rq) \/ NoMoreMemory(rq)

(* Mutant: the bump pointer falls to the start of the freed entry even when
   a gap precedes it. *)
HeapFreePoolWithTag_Start(i) ==
  LET e == HeapAllocations[i] IN
  /\ heapState = "ok"
  /\ HeapAllocations' = RemoveAt(HeapAllocations, i)
  /\ HeapSizeRemaining' = HeapSizeRemaining + e.size + EntrySize + TailSize
  /\ HeapNumberOfAllocations' = HeapNumberOfAllocations - 1
  /\ FreeAddress' = IF EndOf(e) = FreeAddress THEN e.addr ELSE FreeAddress
  /\ UNCHANGED <<EntryToRestartSearch, heapState>>

\* The entry goes; if it was the last one, FreeAddress falls back to the end
\* of its predecessor.  EntryToRestartSearch is left alone.
HeapFreePoolWithTag(i) ==
  LET e == HeapAllocations[i] IN
  /\ heapState = "ok"
  /\ HeapAllocations' = RemoveAt(HeapAllocations, i)
  /\ HeapSizeRemaining' = HeapSizeRemaining + e.size + EntrySize + TailSize
  /\ HeapNumberOfAllocations' = HeapNumberOfAllocations - 1
  /\ FreeAddress' = IF EndOf(e) # FreeAddress THEN FreeAddress
                    ELSE IF i = 1 THEN HeaderSize ELSE EndOf(HeapAllocations[i - 1])
  /\ UNCHANGED <<EntryToRestartSearch, heapState>>

\* The applications' heap is the same code without the log.
ClHeapInit == HeapInit
ClHeapAllocatePoolWithTag(rq) == HeapAllocatePoolWithTag(rq)
ClHeapFreePoolWithTag(i) == HeapFreePoolWithTag(i)

HeapNext ==
  \/ \E rq \in Requests :
       HeapAllocatePoolWithTag(rq) \/ ClHeapAllocatePoolWithTag(rq)
  \/ \E i \in 1 .. Nodes : HeapFreePoolWithTag(i) \/ ClHeapFreePoolWithTag(i)

(***************************************************************************)
(* Properties.                                                             *)
(***************************************************************************)

\* The list is ordered by address, its blocks are disjoint and inside the
\* heap, and FreeAddress is the end of the last one.
HeapOrdered ==
  /\ \A i \in 1 .. Nodes :
       LET e == HeapAllocations[i] IN
       e.addr >= IF i = 1 THEN HeaderSize ELSE EndOf(HeapAllocations[i - 1])
  /\ FreeAddress = IF Nodes = 0 THEN HeaderSize ELSE EndOf(Last(HeapAllocations))
  /\ FreeAddress <= HeapSize

\* The bytes from a HEAP_ENTRY to its HEAP_TAIL, and those of a list of them.
BlockSpan(e) == e.addr .. EndOf(e) - 1
Taken(list) == UNION {BlockSpan(list[i]) : i \in DOMAIN list}

\* The size that HeapAllocatePoolWithTag computes for the space before
\* FreeAddress is exactly the space between the blocks, so that a heap that
\* is almost full is neither refused nor overrun, and an empty list is never
\* searched.
HeapAccounting ==
  /\ HeapNumberOfAllocations = Nodes
  /\ RemainingSizeBeforeCurrent = Cardinality((HeaderSize .. FreeAddress - 1) \ Taken(HeapAllocations))
  /\ Nodes = 0 => RemainingSizeBeforeCurrent = 0

\* After any sequence of allocations and releases the heap of heap.c is in
\* order and its counters say what is in it.
HeapInv == HeapOrdered /\ HeapAccounting

\* ASSERT(NULL != pPreviousHeapEntry) in the search of
\* HeapAllocatePoolWithTag holds.
SearchAssertHolds == heapState # "assert"
=============================================================================

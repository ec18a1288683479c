--------------------------------- MODULE Pmm ---------------------------------
(***************************************************************************)
(* The physical memory manager (pmm.c): at boot a bitmap of all frames is  *)
(* built from the firmware's memory map, every frame reserved except those *)
(* of usable RAM above 1 MB; afterwards runs of frames are reserved and    *)
(* released under AllocationLock, which makes each call one step.          *)
(* Addresses are in bytes; the page size and 1 MB are parameters.          *)
(***************************************************************************)
EXTENDS Bitmap, Sequences, FiniteSets, Functions

CONSTANTS
  PageSize,      \* PAGE_SIZE
  OneMB,         \* MB_SIZE
  MemoryMaps,    \* the INT15 memory maps to boot with
  Callers,       \* the users of the allocator
  MaxFrames      \* bound on one request

MemoryEntries ==
  [BaseAddress : Nat, Length : Nat, Type : {"UsableRAM", "Reserved"}, Valid : BOOLEAN]

ASSUME PmmAssumption ==
  /\ PageSize \in Nat \ {0}
  /\ OneMB \in Nat
  /\ MaxFrames \in Nat
  /\ \A map \in MemoryMaps : map \in Seq(MemoryEntries) /\ map # <<>>

VARIABLES
  MemoryMap,     \* the firmware's entries
  booted,        \* how many of them are in the bitmap
  BitCount, Bits, \* AllocationBitmap: its size and the reserved frames
  PhysicalMemorySize,
  held,          \* held[c]: the frames caller c was given and must release
  answer,        \* the last request and the frame it returned, if one just did
  halted         \* an assertion has failed

vars == <<MemoryMap, booted, BitCount, Bits, PhysicalMemorySize, held, answer, halted>>

NoAnswer == [frames |-> 0, from |-> 0, index |-> 0]

End(e) == e.BaseAddress + e.Length

Usable(e) == e.Valid /\ e.Type = "UsableRAM"

AlignAddressUpper(a) == ((a + PageSize - 1) \div PageSize) * PageSize

\* _PmmDetermineMemoryLimits.
HighestPresent(map) == Max({End(map[i]) : i \in DOMAIN map})

AvailableMemory(map) ==
  SumFunctionOnSet([i \in DOMAIN map |-> map[i].Length],
                   {i \in DOMAIN map : Usable(map[i])})

\* PmmInitSystem, up to the loop over the entries: all frames are reserved.
Init ==
  /\ MemoryMap \in MemoryMaps
  /\ booted = 0
  /\ BitCount = HighestPresent(MemoryMap) \div PageSize
  /\ Bits = ChangeBits({}, 0, TRUE, BitCount)
  /\ PhysicalMemorySize = AvailableMemory(MemoryMap)
  /\ held = [c \in Callers |-> {}]
  /\ answer = NoAnswer
  /\ halted = FALSE

\* The run of frames that the loop body releases for an entry.
EntryStart(e) == AlignAddressUpper(e.BaseAddress) \div PageSize
EntryFrames(e) == e.Length \div PageSize

Released(e) == Usable(e) /\ e.BaseAddress >= OneMB

\* One iteration of _PmmInitializeAllocationBitmap.
InitEntry ==
  /\ ~halted
  /\ booted < Len(MemoryMap)
  /\ LET e == MemoryMap[booted + 1] IN
     IF Released(e)
     THEN IF MaySetBits(BitCount, EntryStart(e), EntryFrames(e))
          THEN /\ Bits' = ChangeBits(Bits, EntryStart(e), FALSE, EntryFrames(e))
               /\ UNCHANGED halted
          ELSE halted' = TRUE /\ UNCHANGED Bits
     ELSE UNCHANGED <<Bits, halted>>
  /\ booted' = booted + 1
  /\ UNCHANGED <<MemoryMap, BitCount, PhysicalMemorySize, held, answer>>

Running == booted = Len(MemoryMap) /\ ~halted

\* PmmReserveMemoryEx with an aligned MinPhysAddr: the first free run at or
\* above it.
PmmReserveMemoryEx(c, frames, minFrame) ==
  LET idx == ScanFromTo(Bits, BitCount, minFrame, BitCount, frames, FALSE) IN
  /\ Running
  /\ idx # MAX_DWORD
  /\ Bits' = ChangeBits(Bits, idx, TRUE, frames)
  /\ held' = [held EXCEPT ![c] = @ \union Run(idx, frames)]
  /\ answer' = [frames |-> frames, from |-> minFrame, index |-> idx]
  /\ UNCHANGED <<MemoryMap, booted, BitCount, PhysicalMemorySize, halted>>

\* It returns NULL.
ReserveFails(frames, minFrame) ==
  /\ Running
  /\ ScanFromTo(Bits, BitCount, minFrame, BitCount, frames, FALSE) = MAX_DWORD
  /\ answer' = [frames |-> frames, from |-> minFrame, index |-> MAX_DWORD]
  /\ UNCHANGED <<MemoryMap, booted, BitCount, Bits, PhysicalMemorySize, held, halted>>

(* Mutant: one frame too many is released. *)
PmmReleaseMemory_OneMore(c, index, frames) ==
  /\ Running
  /\ Run(index, frames) \subseteq held[c]
  /\ MaySetBits(BitCount, index, frames)
  /\ Bits' = ChangeBits(Bits, index, FALSE, frames + 1)
  /\ held' = [held EXCEPT ![c] = @ \ Run(index, frames)]
  /\ answer' = NoAnswer
  /\ UNCHANGED <<MemoryMap, booted, BitCount, PhysicalMemorySize, halted>>

\* PmmReleaseMemory by a caller that has the frames, all or some of those
\* it was given.
PmmReleaseMemory(c, index, frames) ==
  /\ Running
  /\ Run(index, frames) \subseteq held[c]
  /\ MaySetBits(BitCount, index, frames)
  /\ Bits' = ChangeBits(Bits, index, FALSE, frames)
  /\ held' = [held EXCEPT ![c] = @ \ Run(index, frames)]
  /\ answer' = NoAnswer
  /\ UNCHANGED <<MemoryMap, booted, BitCount, PhysicalMemorySize, halted>>

Next ==
  \/ InitEntry
  \/ \E frames \in 0 .. MaxFrames, minFrame \in 0 .. BitCount + 1 :
       \/ \E c \in Callers : PmmReserveMemoryEx(c, frames, minFrame)
       \/ ReserveFails(frames, minFrame)
  \/ \E c \in Callers : \E index \in held[c], frames \in 1 .. MaxFrames :
       PmmReleaseMemory(c, index, frames)

Spec == Init /\ [][Next]_vars

(***************************************************************************)
(* Properties.                                                             *)
(***************************************************************************)

\* The state of the allocator: the bitmap stays within its size.
TypeOK ==
  /\ MemoryMap \in MemoryMaps
  /\ booted \in 0 .. Len(MemoryMap)
  /\ BitCount \in Nat
  /\ Bits \subseteq 0 .. BitCount - 1
  /\ PhysicalMemorySize = AvailableMemory(MemoryMap)
  /\ held \in [Callers -> SUBSET (0 .. BitCount - 1)]
  /\ answer \in [frames : Nat, from : Nat, index : Nat]
  /\ halted \in BOOLEAN

\* No frame is given to two callers.
FramesNotShared ==
  \A c, d \in Callers : c # d => held[c] \intersect held[d] = {}

\* A frame that a caller has is reserved: no later call can hand it out.
HeldAreReserved == \A c \in Callers : held[c] \subseteq Bits

\* The inductive invariant: during the boot nobody has a frame yet.
AllocationInv ==
  /\ TypeOK
  /\ FramesNotShared
  /\ HeldAreReserved
  /\ booted < Len(MemoryMap) => answer = NoAnswer /\ held = [c \in Callers |-> {}]

\* The bytes of frame f.
Bytes(f) == f * PageSize .. (f + 1) * PageSize - 1

\* Every byte of a frame in use is usable RAM above 1 MB in the firmware's
\* map: in-existent and reserved system memory is never used.
OnlyUsableRam ==
  \A c \in Callers : \A f \in held[c] : \A b \in Bytes(f) :
    /\ b >= OneMB
    /\ \E i \in DOMAIN MemoryMap :
         /\ Usable(MemoryMap[i])
         /\ b \in MemoryMap[i].BaseAddress .. End(MemoryMap[i]) - 1

\* The frames the boot makes available.
BootFrames ==
  UNION {Run(EntryStart(MemoryMap[i]), EntryFrames(MemoryMap[i])) :
           i \in {j \in 1 .. booted : Released(MemoryMap[j])}}

\* No frame is lost: one that the boot released and nobody has is free.
NoFrameLost ==
  ~halted => BootFrames \ UNION {held[c] : c \in Callers} = (0 .. BitCount - 1) \ Bits

\* A request returns the lowest run of free frames from its minimum on, and
\* fails only if there is none.
FirstFit ==
  [][answer'.frames > 0 =>
       LET n == answer'.frames
           free == {i \in answer'.from .. BitCount - n : Run(i, n) \intersect Bits = {}}
       IN  answer'.index = IF free = {} THEN MAX_DWORD ELSE Min(free)]_vars

\* The loop over the firmware's entries never releases frames outside the
\* bitmap.
BootSucceeds == ~halted

\* PmmInitSystem comes to its end, and no caller is ever given a frame that
\* holds reserved, absent or low memory.
BootSound == BootSucceeds /\ OnlyUsableRam
=============================================================================

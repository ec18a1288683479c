---------------------------- MODULE VirtualMemory ----------------------------
(***************************************************************************)
(* An address space: the reservation list and its commit bitmaps           *)
(* (vm_reservation_space.c), regions, page faults and page tables (vmm.c)  *)
(* and the worker that zeroes released frames (mmu.c).  The metadata of a  *)
(* space, its list and bitmaps, is itself demand paged: a fault on it is   *)
(* solved only while the processor's VmmMemoryAccess flag is set.  All     *)
(* requests to reserve let the space choose the address, as every caller   *)
(* in the kernel does; rights, cacheability and backing files are left     *)
(* out.  A page of metadata, a page of the space and a frame are numbers.  *)
(***************************************************************************)
EXTENDS Integers, Sequences, SequencesExt, FiniteSets, FiniteSetsExt

CONSTANTS
  VmThreads, VmCpus,
  VaPages,        \* bound: pages of the space that are handed out
  BitmapPages,    \* pages for commit bitmaps; metadata page 0 is the list
  VmFrames,       \* the frames, a set of numbers
  TableSpan,      \* pages that one paging structure describes
  NumberOfFrames, \* frames set aside for paging structures
  MaxMigrations   \* bound: how often threads change processors

ASSUME VmAssumption ==
  /\ VmCpus # {}
  /\ VmFrames \subseteq Nat /\ IsFiniteSet(VmFrames)

VARIABLES
  ReservationList,   \* sequence of [state, start, size, bitmap, commit]
  FreeVirtualAddressPointer, FreeBitmapAddress,
  ReservationLock,   \* the thread that has it exclusively, or "none"
  VmmMemoryAccess,   \* per processor
  metadata,          \* metadata page -> frame, for those that are mapped
  ptes,              \* page -> frame, for those that are mapped
  tables,            \* the paging structures in use; they are never given back
  freeFrames,
  PagesToZeroList, NewPagesEvent, zeroWorker,
  vmOp,              \* what each thread is doing
  migrations,        \* history: how often a thread changed its processor
  vmHalted           \* an assertion failed or a fault was not solved

reservationVars == <<ReservationList, FreeVirtualAddressPointer, FreeBitmapAddress>>
pagingVars == <<metadata, ptes, tables, freeFrames>>
zeroVars == <<PagesToZeroList, NewPagesEvent, zeroWorker>>
vmVars == <<reservationVars, ReservationLock, VmmMemoryAccess, pagingVars,
            zeroVars, vmOp, migrations, vmHalted>>

IdleOp(c) == [pc |-> "idle", cpu |-> c, base |-> 0, size |-> 0, guard |-> 0,
              flagOf |-> c, bitmap |-> 0, frame |-> 0]

\* VmReservationSpaceInit and VmReservationSpaceFinishInit.
VmInit ==
  /\ ReservationList = <<>>
  /\ FreeVirtualAddressPointer = 1
  /\ FreeBitmapAddress = 1
  /\ ReservationLock = "none"
  /\ VmmMemoryAccess = [c \in VmCpus |-> FALSE]
  /\ metadata = <<>>
  /\ ptes = <<>>
  /\ tables = {}
  /\ freeFrames = VmFrames
  /\ PagesToZeroList = <<>>
  /\ NewPagesEvent = FALSE
  /\ zeroWorker = "wait"
  /\ migrations = 0
  /\ vmOp = [t \in VmThreads |-> IdleOp(CHOOSE c \in VmCpus : TRUE)]
  /\ vmHalted = FALSE

PagesOf(r) == r.start .. r.start + r.size - 1
Used == {i \in DOMAIN ReservationList : ReservationList[i].state = "Used"}

\* _VmFindReservation: the first used entry that contains the range.
FindReservation(page, count) ==
  LET hits == {i \in Used : page .. page + count - 1 \subseteq PagesOf(ReservationList[i])}
  IN  IF hits = {} THEN 0 ELSE Min(hits)

\* _VmFindFirstFreeReservation: a free entry, or the end of the list, which
\* moves on by one.
FindFirstFreeReservation ==
  LET free == DOMAIN ReservationList \ Used
  IN  IF free = {} THEN Len(ReservationList) + 1 ELSE Min(free)

\* The thread's processor is not taken by one that runs with interrupts off.
Pinned(t) == vmOp[t].pc \in {"locked", "fault"}
VmRuns(t) == ~vmHalted /\ \A u \in VmThreads \ {t} : Pinned(u) => vmOp[u].cpu # vmOp[t].cpu
VmAt(t, pc) == VmRuns(t) /\ vmOp[t].pc = pc
VmGoto(t, pc) == vmOp' = [vmOp EXCEPT ![t].pc = pc]

\* The scheduler moves a thread to another processor.
VmMigrate(t, c) ==
  /\ migrations < MaxMigrations /\ VmRuns(t) /\ ~Pinned(t) /\ c # vmOp[t].cpu
  /\ \A u \in VmThreads : Pinned(u) => vmOp[u].cpu # c
  /\ vmOp' = [vmOp EXCEPT ![t].cpu = c]
  /\ migrations' = migrations + 1
  /\ UNCHANGED <<reservationVars, ReservationLock, VmmMemoryAccess, pagingVars,
                 zeroVars, vmHalted>>

(***************************************************************************)
(* Frames and page tables.                                                 *)
(***************************************************************************)

TableOf(p) == p \div TableSpan

\* The place of a page or a frame in a set of them, and the one at a place.
PlaceIn(S, x) == Cardinality({y \in S : y <= x})
AtPlace(S, i) == CHOOSE x \in S : PlaceIn(S, x) = i

\* PmmReserveMemory, a frame at a time: the lowest free frames in order.
FramesFor(pages) == [q \in pages |-> AtPlace(freeFrames, PlaceIn(pages, q))]

\* Every page in use has its frame: what the map function m becomes.
MapPage(m, p, f) == [q \in DOMAIN m \union {p} |-> IF q = p THEN f ELSE m[q]]
UnmapPages(m, pages) == [q \in DOMAIN m \ pages |-> m[q]]

\* VmmMapMemoryInternal for one page: the paging structures on the way are
\* set up from PagingData's frames, of which the first is the PML4.
MapMemoryInternal(p, f) ==
  /\ ptes' = MapPage(ptes, p, f)
  /\ tables' = tables \union {TableOf(p)}
  /\ vmHalted' = (Cardinality(tables') >= NumberOfFrames)

\* VmmUnmapMemoryEx with ReleaseMemory: MmuReleaseMemory puts each frame
\* on the zero worker's list and signals it.
ReleasedFrames(m, pages) ==
  LET present == DOMAIN m \intersect pages
  IN  [i \in 1 .. Cardinality(present) |-> m[AtPlace(present, i)]]

MmuReleaseMemory(frames) ==
  /\ PagesToZeroList' = PagesToZeroList \o frames
  /\ NewPagesEvent' = (NewPagesEvent \/ frames # <<>>)

\* A write to the metadata page m by a thread on processor c: a fault if it
\* is not mapped, solved by VmmSolvePageFault with a frame if the processor
\* announced the access.
TouchedMetadata(pages) == pages \ DOMAIN metadata
MetadataFaultsSolved(c, pages) ==
  TouchedMetadata(pages) # {} =>
    VmmMemoryAccess[c] /\ Cardinality(TouchedMetadata(pages)) <= Cardinality(freeFrames)

\* The frames for the pages touched; the list page is touched first.
PageIn(pages) ==
  LET frames == FramesFor(TouchedMetadata(pages))
  IN  /\ metadata' = [q \in DOMAIN metadata \union pages |->
                        IF q \in DOMAIN metadata THEN metadata[q] ELSE frames[q]]
      /\ freeFrames' = freeFrames \ {frames[q] : q \in DOMAIN frames}

(***************************************************************************)
(* VmReservationSpaceAllocRegion.                                          *)
(***************************************************************************)

(* Mutant: the pointer is read and advanced without the page of the guard. *)
DetermineNextFreeVirtualAddress_Short(t, size, guard) ==
  /\ VmAt(t, "idle")
  /\ FreeVirtualAddressPointer + size <= VaPages + 1
  /\ FreeVirtualAddressPointer' = FreeVirtualAddressPointer + (size - guard)
  /\ vmOp' = [vmOp EXCEPT ![t].pc = "reserve", ![t].base = FreeVirtualAddressPointer,
                          ![t].size = size, ![t].guard = guard]
  /\ UNCHANGED <<ReservationList, FreeBitmapAddress, ReservationLock,
                 VmmMemoryAccess, pagingVars, zeroVars, vmHalted>>

\* The address: an interlocked addition, before the lock is taken.  guard
\* pages at the start stay uncommitted (MmuAllocStack).
DetermineNextFreeVirtualAddress(t, size, guard) ==
  /\ VmAt(t, "idle")
  /\ FreeVirtualAddressPointer + size <= VaPages + 1
  /\ FreeVirtualAddressPointer' = FreeVirtualAddressPointer + size
  /\ vmOp' = [vmOp EXCEPT ![t].pc = "reserve", ![t].base = FreeVirtualAddressPointer,
                          ![t].size = size, ![t].guard = guard]
  /\ UNCHANGED <<ReservationList, FreeBitmapAddress, ReservationLock,
                 VmmMemoryAccess, pagingVars, zeroVars, vmHalted>>

\* The exclusive lock, with interrupts off until it is released; then the
\* processor announces its accesses to the metadata.
AcquireReservationLock(t, from) ==
  /\ VmAt(t, from)
  /\ ReservationLock = "none"
  /\ ReservationLock' = t
  /\ VmmMemoryAccess' = [VmmMemoryAccess EXCEPT ![vmOp[t].cpu] = TRUE]
  /\ vmOp' = [vmOp EXCEPT ![t].pc = "locked", ![t].flagOf = vmOp[t].cpu,
                          ![t].bitmap = IF from = "free" THEN -1 ELSE 0]
  /\ UNCHANGED <<reservationVars, pagingVars, zeroVars, vmHalted>>

LeaveReservationLock(t) ==
  /\ ReservationLock' = "none"
  /\ VmmMemoryAccess' = [VmmMemoryAccess EXCEPT ![vmOp[t].flagOf] = FALSE]

VmPanic ==
  /\ vmHalted' = TRUE
  /\ UNCHANGED <<reservationVars, ReservationLock, VmmMemoryAccess, pagingVars,
                 zeroVars, vmOp>>

\* _VmInitializeReservation and _VmCommitReservation: the entry, the commit
\* bitmap on a page of its own, and the committed pages.
InitializeReservation(t) ==
  LET o == vmOp[t]
      slot == FindFirstFreeReservation
      r == [state |-> "Used", start |-> o.base, size |-> o.size,
            bitmap |-> FreeBitmapAddress, commit |-> o.base + o.guard .. o.base + o.size - 1]
  IN  /\ PageIn({0, FreeBitmapAddress})
      /\ ReservationList' = IF slot > Len(ReservationList)
                            THEN Append(ReservationList, r)
                            ELSE [ReservationList EXCEPT ![slot] = r]
      /\ FreeBitmapAddress' = FreeBitmapAddress + 1

\* The two calls of _VmChangeVaReservationState and the end of
\* VmReservationSpaceAllocRegion.
ChangeVaReservationState(t) ==
  /\ VmAt(t, "locked") /\ vmOp[t].bitmap = 0
  /\ IF FindReservation(vmOp[t].base, vmOp[t].size) # 0
        \/ FreeBitmapAddress > BitmapPages
        \/ ~MetadataFaultsSolved(vmOp[t].cpu, {0, FreeBitmapAddress})
     THEN VmPanic
     ELSE /\ InitializeReservation(t)
          /\ LeaveReservationLock(t)
          /\ VmGoto(t, "owner")
          /\ UNCHANGED <<FreeVirtualAddressPointer, ptes, tables, zeroVars, vmHalted>>

\* PmmReserveMemory of some frames: where the first free run begins.
FreeFrameRuns(count) == {f \in freeFrames : f .. f + count - 1 \subseteq freeFrames}

\* VMM_ALLOC_TYPE_NOT_LAZY: a run of frames for the whole region.  Without
\* one the region stays lazy.
BackRegion(t) ==
  /\ VmAt(t, "owner")
  /\ LET first == vmOp[t].base + vmOp[t].guard
         pages == first .. vmOp[t].base + vmOp[t].size - 1
         runs  == FreeFrameRuns(vmOp[t].size - vmOp[t].guard)
     IN  /\ pages \intersect DOMAIN ptes = {}
         /\ runs # {}
         /\ ptes' = [q \in DOMAIN ptes \union pages |->
                       IF q \in pages THEN Min(runs) + (q - first) ELSE ptes[q]]
         /\ tables' = tables \union {TableOf(q) : q \in pages}
         /\ vmHalted' = (Cardinality(tables') >= NumberOfFrames)
         /\ freeFrames' = freeFrames \ {Min(runs) + (q - first) : q \in pages}
  /\ UNCHANGED <<reservationVars, ReservationLock, VmmMemoryAccess, metadata, zeroVars, vmOp>>

(***************************************************************************)
(* VmmSolvePageFault, with interrupts off.                                 *)
(***************************************************************************)

\* VmReservationCanAddressBeAccessed, under the shared lock, for a page of a
\* region that its owner is not freeing.
CanAddressBeAccessed(t, p) ==
  /\ VmAt(t, "idle") \/ VmAt(t, "owner")
  /\ ReservationLock = "none"
  /\ p \notin DOMAIN ptes
  /\ \E u \in VmThreads : vmOp[u].pc = "owner" /\ p \in vmOp[u].base .. vmOp[u].base + vmOp[u].size - 1
  /\ FindReservation(p, 1) # 0
  /\ p \in ReservationList[FindReservation(p, 1)].commit
  /\ vmOp' = [vmOp EXCEPT ![t].pc = "fault", ![t].frame = p,
                          ![t].guard = IF vmOp[t].pc = "owner" THEN vmOp[t].guard ELSE -1]
  /\ UNCHANGED <<reservationVars, ReservationLock, VmmMemoryAccess, pagingVars,
                 zeroVars, vmHalted>>

\* A frame is reserved, mapped over whatever is mapped there, and zeroed.
SolvePageFault(t) ==
  /\ VmAt(t, "fault")
  /\ IF freeFrames = {} THEN VmPanic
     ELSE /\ MapMemoryInternal(vmOp[t].frame, Min(freeFrames))
          /\ freeFrames' = freeFrames \ {Min(freeFrames)}
          /\ vmOp' = [vmOp EXCEPT ![t] =
               IF @.guard = -1 THEN IdleOp(@.cpu)
               ELSE [@ EXCEPT !.pc = "owner", !.frame = 0]]
          /\ UNCHANGED <<reservationVars, ReservationLock, VmmMemoryAccess,
                         metadata, zeroVars>>

(***************************************************************************)
(* VmmFreeRegionEx.                                                        *)
(***************************************************************************)

VmmFreeRegion(t) ==
  /\ VmAt(t, "owner")
  /\ VmGoto(t, "free")
  /\ UNCHANGED <<reservationVars, ReservationLock, VmmMemoryAccess, pagingVars,
                 zeroVars, vmHalted>>

\* VMM_FREE_TYPE_RELEASE: the entry is copied and cleared, and the lock is
\* given back with VmmMemoryAccess still set.
ReleaseReservation(t) ==
  /\ VmAt(t, "locked") /\ vmOp[t].bitmap = -1
  /\ LET slot == FindReservation(vmOp[t].base, 1) IN
     IF slot = 0 \/ ~MetadataFaultsSolved(vmOp[t].cpu, {0}) THEN VmPanic
     ELSE /\ ReservationList' = [ReservationList EXCEPT ![slot] =
                [state |-> "Free", start |-> 0, size |-> 0, bitmap |-> 0, commit |-> {}]]
          /\ PageIn({0})
          /\ ReservationLock' = "none"
          /\ vmOp' = [vmOp EXCEPT ![t].pc = "uninit", ![t].bitmap = ReservationList[slot].bitmap]
          /\ UNCHANGED <<FreeVirtualAddressPointer, FreeBitmapAddress, VmmMemoryAccess,
                         ptes, tables, zeroVars, vmHalted>>

\* _VmUninitializeReservation on the copy: the bitmap's page goes.
UninitializeReservation(t) ==
  /\ VmAt(t, "uninit")
  /\ metadata' = UnmapPages(metadata, {vmOp[t].bitmap})
  /\ MmuReleaseMemory(ReleasedFrames(metadata, {vmOp[t].bitmap}))
  /\ VmGoto(t, "flag")
  /\ UNCHANGED <<reservationVars, ReservationLock, VmmMemoryAccess, ptes, tables,
                 freeFrames, zeroWorker, vmHalted>>

\* The flag of the processor the thread was on when it took the lock.
ClearVmmMemoryAccess(t) ==
  /\ VmAt(t, "flag")
  /\ VmmMemoryAccess' = [VmmMemoryAccess EXCEPT ![vmOp[t].flagOf] = FALSE]
  /\ VmGoto(t, "unmap")
  /\ UNCHANGED <<reservationVars, ReservationLock, pagingVars, zeroVars, vmHalted>>

\* MmuUnmapMemoryEx on the region, without the reservation lock.
UnmapRegion(t) ==
  LET pages == vmOp[t].base .. vmOp[t].base + vmOp[t].size - 1 IN
  /\ VmAt(t, "unmap")
  /\ ptes' = UnmapPages(ptes, pages)
  /\ MmuReleaseMemory(ReleasedFrames(ptes, pages))
  /\ vmOp' = [vmOp EXCEPT ![t] = IdleOp(@.cpu)]
  /\ UNCHANGED <<reservationVars, ReservationLock, VmmMemoryAccess, metadata, tables,
                 freeFrames, zeroWorker, vmHalted>>

(* Mutant: the page is unmapped and its frame not released. *)
DecommitReservation_KeepsFrame(t) ==
  LET slot == FindReservation(vmOp[t].base, 1)
      last == vmOp[t].base + vmOp[t].size - 1
  IN  /\ VmAt(t, "owner")
      /\ ReservationLock = "none"
      /\ slot # 0
      /\ last \in ReservationList[slot].commit
      /\ last \in DOMAIN ptes
      /\ ReservationList' = [ReservationList EXCEPT ![slot].commit = @ \ {last}]
      /\ ptes' = UnmapPages(ptes, {last})
      /\ UNCHANGED <<PagesToZeroList, NewPagesEvent>>
      /\ UNCHANGED <<FreeVirtualAddressPointer, FreeBitmapAddress, ReservationLock,
                     VmmMemoryAccess, metadata, tables, freeFrames, zeroWorker, vmOp, vmHalted>>

\* VMM_FREE_TYPE_DECOMMIT of the last page: the bit is cleared under the
\* lock, then the page is unmapped.
DecommitReservation(t) ==
  LET slot == FindReservation(vmOp[t].base, 1)
      last == vmOp[t].base + vmOp[t].size - 1
  IN  /\ VmAt(t, "owner")
      /\ ReservationLock = "none"
      /\ slot # 0
      /\ last \in ReservationList[slot].commit
      /\ last \in DOMAIN ptes
      /\ ReservationList' = [ReservationList EXCEPT ![slot].commit = @ \ {last}]
      /\ ptes' = UnmapPages(ptes, {last})
      /\ MmuReleaseMemory(ReleasedFrames(ptes, {last}))
      /\ UNCHANGED <<FreeVirtualAddressPointer, FreeBitmapAddress, ReservationLock,
                     VmmMemoryAccess, metadata, tables, freeFrames, zeroWorker, vmOp, vmHalted>>

(***************************************************************************)
(* _MmuZeroWorkerThreadFunction.                                           *)
(***************************************************************************)

\* ExEventWaitForSignal returns, the head of the list is taken, zeroed through
\* a window that is mapped for it alone, and given back.
ZeroWorkerTakes ==
  /\ ~vmHalted /\ zeroWorker = "wait" /\ NewPagesEvent
  /\ IF PagesToZeroList = <<>>
     THEN zeroWorker' = "clear" /\ UNCHANGED <<PagesToZeroList, freeFrames>>
     ELSE /\ PagesToZeroList' = Tail(PagesToZeroList)
          /\ freeFrames' = freeFrames \union {Head(PagesToZeroList)}
          /\ UNCHANGED zeroWorker
  /\ UNCHANGED <<reservationVars, ReservationLock, VmmMemoryAccess, metadata, ptes,
                 tables, NewPagesEvent, vmOp, vmHalted>>

\* The list was empty: the event is cleared.
ZeroWorkerClears ==
  /\ ~vmHalted /\ zeroWorker = "clear"
  /\ NewPagesEvent' = FALSE
  /\ zeroWorker' = "wait"
  /\ UNCHANGED <<reservationVars, ReservationLock, VmmMemoryAccess, pagingVars,
                 PagesToZeroList, vmOp, vmHalted>>

\* The operations the rest of the kernel calls, and their steps.
VmmAllocRegionEx(t) == \E size \in 1 .. 2 : DetermineNextFreeVirtualAddress(t, size, 0)
MmuAllocStack(t) == DetermineNextFreeVirtualAddress(t, 2, 1)
VmReservationSpaceAllocRegion(t) ==
  AcquireReservationLock(t, "reserve") \/ ChangeVaReservationState(t)
VmReservationSpaceFreeRegion(t) ==
  \/ AcquireReservationLock(t, "free") \/ ReleaseReservation(t)
  \/ UninitializeReservation(t) \/ ClearVmmMemoryAccess(t)
VmmSolvePageFault(t) == (\E p \in 1 .. VaPages : CanAddressBeAccessed(t, p)) \/ SolvePageFault(t)
MmuZeroWorkerThreadFunction == ZeroWorkerTakes \/ ZeroWorkerClears

VmStep ==
  \/ \E t \in VmThreads :
       \/ VmmAllocRegionEx(t) \/ MmuAllocStack(t)
       \/ VmReservationSpaceAllocRegion(t) \/ BackRegion(t)
       \/ VmmSolvePageFault(t)
       \/ VmmFreeRegion(t) \/ VmReservationSpaceFreeRegion(t) \/ UnmapRegion(t)
       \/ DecommitReservation(t)
  \/ MmuZeroWorkerThreadFunction

VmNext ==
  \/ VmStep /\ UNCHANGED migrations
  \/ \E t \in VmThreads, c \in VmCpus : VmMigrate(t, c)

VmFairness == WF_vmVars(ZeroWorkerTakes) /\ WF_vmVars(ZeroWorkerClears)

(***************************************************************************)
(* Properties.                                                             *)
(***************************************************************************)

\* Live regions are disjoint, each with its own bitmap page below
\* FreeBitmapAddress, which is mapped while the entry is in the list: no
\* release in flight ever takes the metadata of a region that is in use.
RegionsApart ==
  \A i \in Used :
    LET r == ReservationList[i] IN
    /\ r.commit \subseteq PagesOf(r)
    /\ r.start + r.size <= FreeVirtualAddressPointer
    /\ r.bitmap \in DOMAIN metadata /\ r.bitmap < FreeBitmapAddress
    /\ \A j \in Used \ {i} :
         /\ PagesOf(r) \intersect PagesOf(ReservationList[j]) = {}
         /\ r.bitmap # ReservationList[j].bitmap

\* Where the frames are, with multiplicity.
FrameUses(f) ==
  Cardinality({p \in DOMAIN ptes : ptes[p] = f})
    + Cardinality({p \in DOMAIN metadata : metadata[p] = f})
    + Cardinality({i \in DOMAIN PagesToZeroList : PagesToZeroList[i] = f})
    + (IF f \in freeFrames THEN 1 ELSE 0)

\* As long as one processor runs the threads, no frame is lost and none has two uses: it is mapped
\* once, waits to be zeroed, or is free.
FramesExact == migrations = 0 => \A f \in VmFrames : FrameUses(f) = 1

\* A processor in the section that writes the reservation list may fault on
\* the metadata: its VmmMemoryAccess flag is set.  With threads that move to
\* other processors one that frees a region can clear another's flag.
MetadataAccessAnnounced ==
  migrations = 0 => \A t \in VmThreads : vmOp[t].pc = "locked" => VmmMemoryAccess[vmOp[t].cpu]

\* What the reservation space keeps true of its list and of the processors
\* that work on it.
ReservationsSound == RegionsApart /\ MetadataAccessAnnounced

\* MmuReleaseMemory "schedules frames to be released by the zero worker":
\* a frame on the list becomes free.
ScheduledFramesReleased ==
  \A f \in VmFrames :
    (\E i \in DOMAIN PagesToZeroList : PagesToZeroList[i] = f) ~> (f \in freeFrames \/ vmHalted)
=============================================================================

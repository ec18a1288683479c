------------------------------- MODULE Paging -------------------------------
(***************************************************************************)
(* The page tables themselves: the start of paging (MmuInitSystem), the    *)
(* walk that maps, unmaps and translates (vmm.c, pte.c), images of         *)
(* executables mapped section by section (_MmuMapPeInMemory), the tables   *)
(* of a process with their copy of the kernel's half, and user buffers     *)
(* seen by the kernel.  A table is a frame of entries and a walk has four   *)
(* steps in the code, Len(Fans) here.  Virtual page Half + f is PA2VA of   *)
(* frame f.  Everything runs under the lock of the paging data, so a call  *)
(* is one step.  Regions of the kernel are handed out by a pointer that    *)
(* only grows; VirtualMemory has the rest of what a reservation does.      *)
(***************************************************************************)
EXTENDS Integers, Sequences, SequencesExt, FiniteSets, FiniteSetsExt

CONSTANTS
  Fans,             \* entries of a table, per level: <<512, 512, 512, 512>>
  PhysFrames,       \* frames of the machine
  UsableRam,        \* sets of frames the firmware reports: one is chosen
  PageBytes,
  KernelImage,      \* [mz, pe, size, machine, subsystem, relocations,
                    \*  headers, fileAlignment, imageAlignment, sections]
  UserImages,       \* images that processes load, at page 1
  ReservedFrames,   \* _MmuCalculateReservedFrames: for the tables of a space
  PgProcesses,
  DeviceFrames,     \* frames that drivers map
  UserBuffers       \* [page, offset, size] that the kernel asks to see

VARIABLES
  pgPhase,          \* "boot", "run", "failed", "assert"
  ram,              \* frame -> index -> entry, for those present; of the frames written
  freeRam,          \* frames PmmReserveMemory may hand out
  zeroing,          \* the frames that wait for the zero worker
  PagingData,       \* space -> [base, frames, index, kernel], for those that exist
  maps,             \* ghost: space -> page -> [to, rights]
  nextVa,           \* the next page of kernel address space
  images,           \* process -> the image whose sections are mapped
  views             \* kernel regions of user buffers: [at, pages, process, page]

pgVars == <<pgPhase, ram, freeRam, zeroing, PagingData, maps, nextVa, images, views>>

Levels == Len(Fans)
Span == [level \in 0 .. Levels |-> FoldLeft(LAMBDA a, n : a * n, 1, SubSeq(Fans, level + 1, Levels))]
Pages == Span[0]
Half == Pages \div 2
PA2VA(f) == Half + f
PagesFor(bytes) == (bytes + PageBytes - 1) \div PageBytes
NoEntry == [to |-> -1, rights |-> {}, user |-> FALSE]
EmptyTable == <<>>
EntryOf(table, i) == IF i \in DOMAIN table THEN table[i] ELSE NoEntry
\* What memory that nobody has written may hold, and what a frame holds.
StaleTable == [i \in 0 .. Fans[Levels] - 1 |-> [NoEntry EXCEPT !.to = 0]]
TableIn(m, frame) == IF frame \in DOMAIN m THEN m[frame] ELSE StaleTable
Written(m, frame, table) == (frame :> table) @@ m

\* Where the loader puts things, one behind the other: the image in frame 1,
\* the temporary stack behind a guard, the bitmap of frames, the tables; the
\* header of the reservation list in the last frame.
ImageFrame == 1
ImagePages == PagesFor(KernelImage.size)
StackFrame == ImageFrame + ImagePages + 1
PmmFrame == StackFrame + 1
TablesFrame == PmmFrame + 1
VmmFrame == PhysFrames - 1

PgInit ==
  /\ pgPhase = "boot"
  /\ ram = <<>>
  /\ freeRam \in UsableRam
  /\ zeroing = <<>>
  /\ PagingData = <<>> /\ maps = <<>>
  /\ nextVa = PA2VA(PhysFrames)
  /\ images = <<>>
  /\ views = {}

(***************************************************************************)
(* The walk.                                                               *)
(***************************************************************************)

IndexAt(page, level) == (page \div Span[level]) % Fans[level]

\* PteMap: the entry with its physical address and rights.
PteMap(m, table, index, frame, rights, user) ==
  Written(m, table, (index :> [to |-> frame, rights |-> rights, user |-> user]) @@ TableIn(m, table))

\* _VmRetrieveNextPhysicalAddressForPagingStructure.
NextPhysicalAddress(data) == data.base + data.index

(* Mutant: the frame of a new paging structure is not cleared. *)
SetupPagingStructure_Stale(w, index) ==
  LET frame == NextPhysicalAddress(w.data) IN
  IF w.data.index >= w.data.frames THEN [w EXCEPT !.ok = FALSE]
  ELSE [w EXCEPT !.ram = PteMap(@, w.table, index, frame, {"w", "x"}, ~w.data.kernel),
                 !.data.index = @ + 1]

\* _VmSetupPagingStructure: the next frame of the paging data, cleared.  The
\* assertion is that there is one.
SetupPagingStructure(w, index) ==
  LET frame == NextPhysicalAddress(w.data) IN
  IF w.data.index >= w.data.frames THEN [w EXCEPT !.ok = FALSE]
  ELSE [w EXCEPT !.ram = Written(PteMap(@, w.table, index, frame, {"w", "x"}, ~w.data.kernel),
                                 frame, EmptyTable),
                 !.data.index = @ + 1]

\* One level down, setting the structure up if it is not present.
Descend(w, index) ==
  LET below(s) == IF s.ok THEN [s EXCEPT !.table = TableIn(s.ram, w.table)[index].to] ELSE s
  IN  below(IF index \in DOMAIN TableIn(w.ram, w.table) THEN w ELSE SetupPagingStructure(w, index))

\* VmmMapMemoryInternal for one page.
MapOne(w, page, frame, rights, invalidate) ==
  LET index == IndexAt(page, Levels)
      entry(bottom) ==
        IF ~bottom.ok \/ (~invalidate /\ index \in DOMAIN TableIn(bottom.ram, bottom.table)) THEN bottom
        ELSE [bottom EXCEPT !.ram = PteMap(@, bottom.table, index, frame, rights, ~w.data.kernel)]
  IN  entry(FoldLeft(LAMBDA a, level : IF a.ok THEN Descend(a, IndexAt(page, level)) ELSE a,
                     [w EXCEPT !.table = w.data.base], [l \in 1 .. Levels - 1 |-> l]))

\* What a call works on, and what it leaves.
Work(m, data) == [ram |-> m, data |-> data, table |-> 0, ok |-> TRUE]
VmmMapMemoryInternal(w, frame, n, page, rights, invalidate) ==
  FoldLeft(LAMBDA a, i : MapOne(a, page + i - 1, frame + i - 1, rights, invalidate),
           w, [i \in 1 .. n |-> i])

\* VmmSetupPageTables: the tables of a space are new, and mapped at PA2VA.
NewPagingData(base, kernel) ==
  [base |-> base, frames |-> ReservedFrames, index |-> 1, kernel |-> kernel]
SetupPageTables(w, base) ==
  VmmMapMemoryInternal(w, base, ReservedFrames, PA2VA(base), {"w"}, TRUE)

\* The table of the last level on the way to a page; -1 if there is none.
LeafTable(m, base, page) ==
  FoldLeft(LAMBDA t, level : IF t = -1 THEN -1 ELSE EntryOf(TableIn(m, t), IndexAt(page, level)).to,
           base, [l \in 1 .. Levels - 1 |-> l])

\* VmmGetPhysicalAddress, with the rights of the entry.
Translation(m, base, page) ==
  LET t == LeafTable(m, base, page)
  IN  IF t = -1 THEN NoEntry ELSE EntryOf(TableIn(m, t), IndexAt(page, Levels))
MmuGetPhysicalAddress(m, base, page) == Translation(m, base, page).to

\* VmmUnmapMemoryEx: what is mapped of the pages loses its entry.
VmmUnmapMemoryEx(m, base, pages) ==
  FoldSet(LAMBDA p, a :
            LET t == LeafTable(a, base, p)
            IN  IF t = -1 THEN a
                ELSE [a EXCEPT ![t] = [i \in DOMAIN @ \ {IndexAt(p, Levels)} |-> @[i]]],
          m, pages)

\* The flat map with the pages added or taken away.
Mapped(f, page, n, frame, rights) ==
  [p \in DOMAIN f \union (page .. page + n - 1) |->
     IF p \in page .. page + n - 1 THEN [to |-> frame + p - page, rights |-> rights] ELSE f[p]]
MappedBy(m, base, pages) ==
  [p \in {q \in pages : Translation(m, base, q).to # -1} |->
     [to |-> Translation(m, base, p).to, rights |-> Translation(m, base, p).rights]]
Unmapped(f, pages) == [p \in DOMAIN f \ pages |-> f[p]]

(***************************************************************************)
(* Images of executables.                                                  *)
(***************************************************************************)

\* PeRetrieveNtHeader, and PeRetrieveSection with CHECK_BOUNDS.
PeRetrieveNtHeader(image) == image.mz /\ image.pe
PeRetrieveSection(image, i) ==
  image.machine = "amd64" /\ image.sections[i].base + image.sections[i].size <= image.size

\* PeRetrieveDataDirectory, of the relocations.
HasNoRelocations(image) == image.machine = "amd64" /\ ~image.relocations

\* _MmuRetrieveKernelInfoAndValidate.
KernelInfoValid(image) ==
  /\ PeRetrieveNtHeader(image) /\ image.machine = "amd64"
  /\ image.subsystem = "native" /\ HasNoRelocations(image)

AlignUpper(n, a) == ((n + a - 1) \div a) * a

\* One section, in the loop of _MmuMapPeInMemory.  s has the work, the bytes
\* to the next page boundary, the rights of what is before, the rest of the
\* section and the page it continues at; frameOf gives the frame of a page.
MapSection(s, section, image, at, frameOf) ==
  LET size  == AlignUpper(section.size, image.imageAlignment)
      both  == s.prev \union section.rights
      first == at + section.base \div PageBytes
      rest  == size - s.remaining
      shared == VmmMapMemoryInternal(s.w, frameOf[first - at], 1, first, both, TRUE)
      whole == FoldLeft(LAMBDA a, i : VmmMapMemoryInternal(a, frameOf[first + i - at], 1, first + i,
                                                           section.rights, TRUE),
                        shared, [i \in 1 .. rest \div PageBytes |-> i])
  IN  IF size < s.remaining
      THEN [s EXCEPT !.remaining = @ - size, !.prev = both, !.size = size]
      ELSE [w |-> whole, remaining |-> PageBytes - (rest % PageBytes), prev |-> section.rights,
            size |-> rest, page |-> first + 1, ok |-> s.ok]

\* _MmuMapPeInMemory: whole pages of headers, the sections up to one that is
\* out of bounds, and the page at which the last one ends.
MapPeInMemory(w, image, at, frameOf) ==
  LET headers == FoldLeft(LAMBDA a, i : VmmMapMemoryInternal(a, frameOf[i - 1], 1, at + i - 1, {}, TRUE),
                          w, [i \in 1 .. (image.headers - 1) \div PageBytes |-> i])
      start == [w |-> headers, remaining |-> PageBytes - (image.headers % PageBytes),
                prev |-> {}, size |-> 0, page |-> 0, ok |-> TRUE]
      sections == FoldLeft(LAMBDA s, i :
                             IF ~s.ok THEN s
                             ELSE IF PeRetrieveSection(image, i)
                             THEN MapSection(s, image.sections[i], image, at, frameOf)
                             ELSE [s EXCEPT !.ok = FALSE],
                           start, [i \in DOMAIN image.sections |-> i])
      lastPage(s) == IF ~s.ok \/ s.size = 0 THEN s
                     ELSE [s EXCEPT !.w = VmmMapMemoryInternal(@, frameOf[s.page - at], 1, s.page,
                                                               s.prev, TRUE)]
  IN  IF image.fileAlignment # image.imageAlignment
      THEN [w |-> w, remaining |-> 0, prev |-> {}, size |-> 0, page |-> 0, ok |-> FALSE]
      ELSE lastPage(sections)

\* The pages of a section at a mapping address.
SectionPages(section, at) ==
  at + section.base \div PageBytes .. at + (section.base + section.size - 1) \div PageBytes

(***************************************************************************)
(* MmuInitSystem.                                                          *)
(***************************************************************************)

KernelFrame == [i \in 0 .. Pages |-> ImageFrame + i]

\* _MmuInitPagingSystem: the top table is cleared, and the tables map
\* themselves.
InitPagingSystem ==
  SetupPageTables(Work(TablesFrame :> EmptyTable, NewPagingData(TablesFrame, TRUE)),
                  TablesFrame)

\* _MmuReserveAndMapMemory: a frame at PA2VA.
ReserveAndMapMemory(w, frame) == VmmMapMemoryInternal(w, frame, 1, PA2VA(frame), {"w"}, TRUE)
RemapStack(w) == ReserveAndMapMemory(w, StackFrame)

\* _MmuMapKernelMemory: the image at its own address and at the identical one.
MapKernelMemory(w) ==
  LET low(high) ==
        LET s == MapPeInMemory(high.w, KernelImage, ImageFrame, KernelFrame)
        IN  [s.w EXCEPT !.ok = @ /\ high.ok /\ s.ok]
  IN  low(MapPeInMemory(w, KernelImage, PA2VA(ImageFrame), KernelFrame))

\* What CR3 is switched to.
KernelTables ==
  RemapStack(MapKernelMemory(
    ReserveAndMapMemory(ReserveAndMapMemory(InitPagingSystem, VmmFrame), PmmFrame)))

\* Frames that must be where the loader left things: PmmReserveMemoryEx
\* returns another run, and initialisation fails, if one is not usable.
BootFramesNeeded ==
  TablesFrame .. TablesFrame + ReservedFrames - 1 \union {VmmFrame, PmmFrame, StackFrame}
    \union (ImageFrame .. ImageFrame + ImagePages - 1)

MmuInitSystem ==
  /\ pgPhase = "boot"
  /\ \E k \in {KernelTables} :
       IF KernelInfoValid(KernelImage) /\ BootFramesNeeded \subseteq freeRam /\ k.ok
       THEN /\ pgPhase' = "run"
            /\ ram' = k.ram
            /\ freeRam' = freeRam \ BootFramesNeeded
            /\ PagingData' = [s \in {"kernel"} |-> k.data]
            /\ maps' = [s \in {"kernel"} |-> MappedBy(k.ram, TablesFrame, 0 .. Pages - 1)]
       ELSE pgPhase' = "failed" /\ UNCHANGED <<ram, freeRam, PagingData, maps>>
  /\ UNCHANGED <<zeroing, nextVa, images, views>>

Kernel == PagingData["kernel"]
Booted == pgPhase = "run"

\* The outcome of a call that worked on space s.
Commit(s, w) ==
  /\ ram' = w.ram
  /\ PagingData' = [PagingData EXCEPT ![s] = w.data]
  /\ pgPhase' = IF w.ok THEN "run" ELSE "assert"

\* MmuUnmapMemoryEx of the kernel's pages, without their frames.
MmuUnmapMemoryEx(pages) ==
  /\ ram' = VmmUnmapMemoryEx(ram, Kernel.base, pages)
  /\ maps' = [maps EXCEPT !["kernel"] = Unmapped(@, pages)]

\* MmuDiscardIdentityMappings: the identical mapping of the image, and the
\* temporary stack with its frame.
IdentityPages == ImageFrame .. ImageFrame + ImagePages - 1
MmuDiscardIdentityMappings ==
  /\ Booted /\ IdentityPages \intersect DOMAIN maps["kernel"] # {}
  /\ LET m == VmmUnmapMemoryEx(ram, Kernel.base, IdentityPages) IN
     /\ ram' = VmmUnmapMemoryEx(m, Kernel.base, {PA2VA(StackFrame)})
     /\ maps' = [maps EXCEPT !["kernel"] = Unmapped(@, IdentityPages \union {PA2VA(StackFrame)})]
     /\ zeroing' = Append(zeroing, StackFrame)
  /\ UNCHANGED <<pgPhase, freeRam, PagingData, nextVa, images, views>>

\* The zero worker clears the next frame and gives it back.
ZeroWorkerStep ==
  /\ Booted /\ zeroing # <<>>
  /\ zeroing' = Tail(zeroing)
  /\ freeRam' = freeRam \union {Head(zeroing)}
  /\ ram' = Written(ram, Head(zeroing), EmptyTable)
  /\ UNCHANGED <<pgPhase, PagingData, maps, nextVa, images, views>>

(***************************************************************************)
(* Mappings of the kernel.                                                 *)
(***************************************************************************)

\* VmmMapMemoryEx and MmuMapMemoryEx: the frames around a physical range at
\* the next addresses.
VmmMapMemoryEx(frame, n) ==
  VmmMapMemoryInternal(Work(ram, Kernel), frame, n, nextVa, {"w"}, FALSE)
MmuMapMemoryEx(frame, n) ==
  /\ Booted /\ nextVa + n <= Pages
  /\ nextVa' = nextVa + n
  /\ Commit("kernel", VmmMapMemoryEx(frame, n))
  /\ maps' = [maps EXCEPT !["kernel"] = Mapped(@, nextVa, n, frame, {"w"})]
  /\ UNCHANGED <<freeRam, zeroing, images, views>>

MmuUnmapSystemMemory(page) ==
  /\ Booted /\ page \in DOMAIN maps["kernel"] /\ maps["kernel"][page].to \in DeviceFrames
  /\ MmuUnmapMemoryEx({page})
  /\ UNCHANGED <<pgPhase, freeRam, zeroing, PagingData, nextVa, images, views>>

(***************************************************************************)
(* Processes.                                                              *)
(***************************************************************************)

\* PmmReserveMemory: the first run of frames.
PmmReserveMemory(n) ==
  LET runs == {f \in freeRam : f .. f + n - 1 \subseteq freeRam}
  IN  IF runs = {} THEN -1 ELSE Min(runs)

\* The memcpy of the kernel's half of the top table.
KernelHalf(m) ==
  LET top == TableIn(m, Kernel.base)
  IN  [i \in {j \in DOMAIN top : j >= Fans[1] \div 2} |-> top[i]]

\* _MmuCreatePagingTables: the kernel maps the frames and clears the first.
CreatePagingTables(base) ==
  LET w == SetupPageTables(Work(ram, Kernel), base)
  IN  [w EXCEPT !.ram = Written(@, base, KernelHalf(w.ram))]

MmuCreateAddressSpaceForProcess(p) ==
  /\ Booted /\ p \notin DOMAIN PagingData
  /\ \E base \in {PmmReserveMemory(ReservedFrames)} \ {-1} : \E w \in {CreatePagingTables(base)} :
       /\ freeRam' = freeRam \ (base .. base + ReservedFrames - 1)
       /\ ram' = w.ram
       /\ PagingData' = [PagingData EXCEPT !["kernel"] = w.data] @@ (p :> NewPagingData(base, FALSE))
       /\ maps' = [maps EXCEPT !["kernel"] = Mapped(@, PA2VA(base), ReservedFrames, base, {"w"})]
                   @@ (p :> <<>>)
       /\ pgPhase' = IF w.ok THEN "run" ELSE "assert"
  /\ UNCHANGED <<zeroing, nextVa, images, views>>

\* _UmApplicationReadExecutableContents: the file in a region of the kernel
\* that is backed at once.
ReadExecutableContents(frames, n) ==
  VmmMapMemoryInternal(Work(ram, Kernel), frames, n, nextVa, {"w"}, TRUE)

\* With MmuLoadPe, the frames of that region become pages of the process.
\* A section out of bounds ends the loop and leaves what is mapped.
MmuLoadPe(p, image) ==
  LET n == PagesFor(image.size)
      frameOf(file) == [i \in 0 .. Pages |-> MmuGetPhysicalAddress(file.ram, Kernel.base, nextVa + i)]
  IN
  /\ Booted /\ p \in DOMAIN PagingData /\ p \notin DOMAIN images
  /\ nextVa + n <= Pages /\ PeRetrieveNtHeader(image)
  /\ \E frames \in {PmmReserveMemory(n)} \ {-1} :
     \E file \in {ReadExecutableContents(frames, n)} :
     \E end \in {MapPeInMemory(Work(file.ram, PagingData[p]), image, 1, frameOf(file))} :
       /\ freeRam' = freeRam \ (frames .. frames + n - 1)
       /\ ram' = end.w.ram
       /\ PagingData' = [PagingData EXCEPT !["kernel"] = file.data, ![p] = end.w.data]
       /\ maps' = [maps EXCEPT !["kernel"] = Mapped(@, nextVa, n, frames, {"w"}),
                               ![p] = MappedBy(end.w.ram, PagingData[p].base, 1 .. n)]
       /\ images' = IF end.ok THEN (p :> [image |-> image, frames |-> frames]) @@ images ELSE images
       /\ pgPhase' = IF file.ok /\ end.w.ok THEN "run" ELSE "assert"
  /\ nextVa' = nextVa + n
  /\ UNCHANGED <<zeroing, views>>

\* _MmuDestroyPagingTables: the kernel unmaps the tables, whose frames are
\* released.  The file stays mapped.
DestroyPagingTables(p) ==
  LET d == PagingData[p]
      pages == PA2VA(d.base) .. PA2VA(d.base) + d.frames - 1
  IN  /\ ram' = VmmUnmapMemoryEx(ram, Kernel.base, pages)
      /\ zeroing' = zeroing \o [i \in 1 .. d.frames |-> d.base + i - 1]
      /\ maps' = [s \in DOMAIN maps \ {p} |->
                    IF s = "kernel" THEN Unmapped(maps[s], pages) ELSE maps[s]]

MmuDestroyAddressSpaceForProcess(p) ==
  /\ Booted /\ p \in DOMAIN PagingData
  /\ \A v \in views : v.process # p
  /\ DestroyPagingTables(p)
  /\ PagingData' = [s \in DOMAIN PagingData \ {p} |-> PagingData[s]]
  /\ images' = [s \in DOMAIN images \ {p} |-> images[s]]
  /\ UNCHANGED <<pgPhase, freeRam, nextVa, views>>

(***************************************************************************)
(* User buffers.                                                           *)
(***************************************************************************)

\* MdlAllocateEx: the frames of a buffer as runs that are contiguous.
MdlAllocateEx(m, base, page, n) ==
  FoldLeft(LAMBDA pairs, i :
             LET f == MmuGetPhysicalAddress(m, base, page + i - 1)
                 last == Last(pairs)
             IN  IF pairs # <<>> /\ last.frame + last.count = f
                 THEN Front(pairs) \o <<[last EXCEPT !.count = @ + 1]>>
                 ELSE Append(pairs, [frame |-> f, count |-> 1]),
           <<>>, [i \in 1 .. n |-> i])

\* _VmmMapDescribedRegion: the runs one behind the other.
MapDescribedRegion(w, at, mdl, rights) ==
  FoldLeft(LAMBDA a, pair :
             [w |-> VmmMapMemoryInternal(a.w, pair.frame, pair.count, a.at, rights, FALSE),
              at |-> a.at + pair.count],
           [w |-> w, at |-> at], mdl).w

\* MmuGetSystemVirtualAddressForUserBuffer, of a buffer that MmuIsBufferValid
\* let pass: a region for its size, backed by the frames of all its pages.
MmuGetSystemVirtualAddressForUserBuffer(p, b) ==
  LET n == PagesFor(b.size)
      described == PagesFor(b.offset + b.size)
      mdl == MdlAllocateEx(ram, PagingData[p].base, b.page, described)
  IN  /\ Booted /\ p \in DOMAIN images
      /\ \A i \in 0 .. described - 1 : b.page + i \in DOMAIN maps[p]
      /\ nextVa + described <= Pages
      /\ nextVa' = nextVa + n
      /\ Commit("kernel", MapDescribedRegion(Work(ram, Kernel), nextVa, mdl, {}))
      /\ maps' = [maps EXCEPT !["kernel"] =
           [q \in DOMAIN @ \union (nextVa .. nextVa + described - 1) |->
              IF q >= nextVa THEN [to |-> maps[p][b.page + q - nextVa].to, rights |-> {}] ELSE @[q]]]
      /\ views' = views \union {[at |-> nextVa, pages |-> n, process |-> p, page |-> b.page]}
      /\ UNCHANGED <<freeRam, zeroing, images>>

MmuFreeSystemVirtualAddressForUserBuffer(v) ==
  /\ Booted /\ v \in views
  /\ MmuUnmapMemoryEx(v.at .. v.at + v.pages - 1)
  /\ views' = views \ {v}
  /\ UNCHANGED <<pgPhase, freeRam, zeroing, PagingData, nextVa, images>>

PgNext ==
  \/ MmuInitSystem \/ MmuDiscardIdentityMappings \/ ZeroWorkerStep
  \/ \E f \in DeviceFrames : MmuMapMemoryEx(f, 1)
  \/ \E page \in PA2VA(PhysFrames) .. Pages - 1 : Booted /\ MmuUnmapSystemMemory(page)
  \/ \E p \in PgProcesses :
       \/ MmuCreateAddressSpaceForProcess(p) \/ MmuDestroyAddressSpaceForProcess(p)
       \/ \E image \in UserImages : MmuLoadPe(p, image)
       \/ \E b \in UserBuffers : MmuGetSystemVirtualAddressForUserBuffer(p, b)
  \/ \E v \in views : MmuFreeSystemVirtualAddressForUserBuffer(v)

(***************************************************************************)
(* Properties.                                                             *)
(***************************************************************************)

\* Tables that are trees of frames behave as the flat maps that were asked
\* for, and every process sees the whole kernel half, later mappings too.
TreesAreMaps ==
  \A s \in DOMAIN PagingData, p \in 0 .. Pages - 1 :
    LET view == IF p >= Half THEN maps["kernel"] ELSE maps[s]
        e == Translation(ram, PagingData[s].base, p)
    IN  IF p \in DOMAIN view THEN e.to = view[p].to /\ e.rights = view[p].rights
        ELSE e.to = -1

\* The walk reaches a table through PA2VA: every frame of tables is mapped
\* there, and belongs to one space.
TablesReachable ==
  \A s \in DOMAIN PagingData :
    \A f \in PagingData[s].base .. PagingData[s].base + PagingData[s].frames - 1 :
      /\ MmuGetPhysicalAddress(ram, Kernel.base, PA2VA(f)) = f
      /\ f \notin freeRam \union Range(zeroing)
      /\ \A t \in DOMAIN PagingData \ {s} :
           f \notin PagingData[t].base .. PagingData[t].base + PagingData[t].frames - 1

\* Every page of a section of an image is mapped to its frame, with at least
\* the rights of the section: what runs after the switch of CR3, and what a
\* process runs.
ImagesMapped ==
  /\ \A i \in DOMAIN KernelImage.sections :
       \A p \in SectionPages(KernelImage.sections[i], PA2VA(ImageFrame)) :
         LET e == Translation(ram, Kernel.base, p)
         IN  e.to = p - Half /\ KernelImage.sections[i].rights \subseteq e.rights
  /\ \A s \in DOMAIN images : \A i \in DOMAIN images[s].image.sections :
       \A p \in SectionPages(images[s].image.sections[i], 1) :
         LET e == Translation(ram, PagingData[s].base, p)
         IN  /\ e.to = images[s].frames + p - 1 /\ e.user
             /\ images[s].image.sections[i].rights \subseteq e.rights

\* The page tables after the start, with processes that come and go.
PagingSound == pgPhase # "assert" /\ (Booted => TreesAreMaps /\ TablesReachable /\ ImagesMapped)
=============================================================================

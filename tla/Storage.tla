------------------------------- MODULE Storage -------------------------------
(***************************************************************************)
(* A request on its way through the storage stack: IoReadDeviceEx and      *)
(* IoWriteDeviceEx (io_devices.c), the swap file system, the volume and    *)
(* the disk driver and the ATA driver, down to the registers of one        *)
(* channel, the DMA engine and its interrupt.  Offsets and lengths of      *)
(* requests are in bytes; physical memory is counted in sectors, and a     *)
(* sector's content is one value.                                          *)
(***************************************************************************)
EXTENDS Integers, Sequences, SequencesExt, FiniteSets, FiniteSetsExt, TLC

CONSTANTS
  StThreads,
  StSmp,               \* an interrupt handler runs beside the threads
  SectorSize,          \* SECTOR_SIZE, in bytes
  PageSectors,         \* PAGE_SIZE, in sectors
  DmaBoundary,         \* ATA_DMA_PHYSICAL_BOUNDARY, in sectors
  TotalSectors,        \* what the device identifies itself with
  BootRecords,         \* sector -> the partition entries of its boot record
  BufferFrames,        \* thread -> the frames its buffer's pages are mapped to
  StRequests,          \* [dev, swapFs, write, async, offset, length, at]
  MaxRequests          \* bound: requests made

VARIABLES
  sectors,             \* what is on the disk
  memory,              \* physical memory, per sector-sized piece
  ataState,            \* CurrentTransfer.State
  ready,               \* CurrentTransfer.TransferReady is signalled
  prdt,                \* CurrentTransfer.Prdt, << >> is NULL
  channel,             \* [lba, count, nien]: the command parameters written
  drive,               \* "idle", "pio", "dma": what the device is at
  bus,                 \* [irq, started, write]: the bus master's status and command
  interrupt,           \* the device's interrupt is pending
  ataIsr,                 \* "idle" or "clear": where the interrupt handler is
  request,             \* per thread: the request being served
  made, finished,      \* how many were made; what the last one did
  stHalted             \* an assertion failed

stVars == <<sectors, memory, ataState, ready, prdt, channel, drive, bus,
            interrupt, ataIsr, request, made, finished, stHalted>>
deviceVars == <<ataState, ready, prdt, channel, drive, bus, interrupt, ataIsr>>

NoTransfer == [pc |-> "idle"]

(***************************************************************************)
(* Which partitions a disk has: the boot record, and the chain of extended *)
(* ones.  An entry is [kind, first, size]; kind is "empty" if all of it is *)
(* zero, "bad" if its status is neither active nor inactive.               *)
(***************************************************************************)

\* A logical partition is placed from its own record, an extended one from
\* the first extended partition.  Nothing is looked for after an extended
\* entry, nor after an empty one of an extended record.
PartitionsFrom[offset \in Nat, extended \in BOOLEAN, firstExtended \in Nat] ==
  IF offset \notin DOMAIN BootRecords THEN [ok |-> FALSE, parts |-> <<>>]
  ELSE LET table == IF extended THEN SubSeq(BootRecords[offset], 1, 2) ELSE BootRecords[offset]
           stops == {i \in DOMAIN table : \/ table[i].kind = "extended"
                                          \/ extended /\ table[i].kind = "empty"}
           seen == IF stops = {} THEN table ELSE SubSeq(table, 1, Min(stops) - 1)
           here == SelectSeq(seen, LAMBDA e : e.kind # "bad")
           parts == [i \in DOMAIN here |->
                       [offset |-> here[i].first + offset, size |-> here[i].size]]
       IN  IF stops = {} \/ table[Min(stops)].kind = "empty"
           THEN [ok |-> TRUE, parts |-> parts]
           ELSE LET e == table[Min(stops)]
                    rest == PartitionsFrom[e.first + firstExtended, TRUE,
                                           IF extended THEN firstExtended ELSE e.first]
                IN  [ok |-> rest.ok, parts |-> parts \o rest.parts]

\* _DiskRetrievePartitionsFromDisk; VolDriverEntry makes a volume of each.
DiskLayout == LET found == PartitionsFrom[0, FALSE, 0]
              IN  IF found.ok THEN found.parts ELSE <<>>

\* The chain of extended records ends; the pages of a buffer are mapped to
\* frames of their own, and a request is to a device there is and has a
\* buffer that holds what it asks for.
ASSUME StAssumption ==
  /\ {SectorSize, PageSectors, DmaBoundary} \subseteq Nat \ {0} /\ TotalSectors \in Nat
  /\ DiskLayout \in Seq([offset : Nat, size : Nat])
  /\ \A t \in StThreads : BufferFrames[t] \in Seq(Nat) /\ IsInjective(BufferFrames[t])
  /\ StRequests \subseteq [dev : 0 .. Len(DiskLayout), swapFs : BOOLEAN, write : BOOLEAN,
                           async : BOOLEAN, offset : Nat, length : Nat, at : Nat]
  /\ \A r \in StRequests, t \in StThreads :
       r.at + r.length \div SectorSize <= Len(BufferFrames[t]) * PageSectors

(***************************************************************************)
(* The way down.                                                           *)
(***************************************************************************)

Aligned(n) == n % SectorSize = 0
Failed == [ok |-> FALSE, sector |-> 0, count |-> 0]

\* IoCallDriver: a device has the alignment of the disk, the swap file system
\* that of a page.  What is compared with IRP_MJ_WRITE is the minor function,
\* so the alignment of a write is not checked here.
DeviceAlignment(r) == IF r.swapFs THEN PageSectors * SectorSize ELSE SectorSize
IoCallDriverRefuses(r) ==
  ~r.write /\ ~(r.offset % DeviceAlignment(r) = 0 /\ r.length % DeviceAlignment(r) = 0)

\* AtaDispatchReadWrite up to the transfer, and AtaReadWriteSectors' checks.
AtaCheck(offset, length) ==
  LET index == offset \div SectorSize
      count == length \div SectorSize
  IN  IF \/ ~Aligned(offset) \/ ~Aligned(length)
         \/ index >= TotalSectors \/ TotalSectors - index < count
         \/ count = 0
      THEN Failed ELSE [ok |-> TRUE, sector |-> index, count |-> count]

(* Mutant: the start of the partition is not added. *)
VolDispatchReadWrite_NoOffset(volume, r) ==
  LET index == r.offset \div SectorSize
      count == r.length \div SectorSize
      part == DiskLayout[volume]
  IN  IF index >= part.size \/ part.size - index < count THEN Failed
      ELSE AtaCheck(index * SectorSize, r.length)

\* VolDispatchReadWrite: the length is passed on as it is.
VolDispatchReadWrite(volume, r) ==
  LET index == r.offset \div SectorSize
      count == r.length \div SectorSize
      part == DiskLayout[volume]
  IN  IF index >= part.size \/ part.size - index < count THEN Failed
      ELSE AtaCheck((index + part.offset) * SectorSize, r.length)

\* _SwapFsRead and _SwapFsWrite take pages only.
SwapFsRefuses(r) == r.length # PageSectors * SectorSize

\* The disk passes a request on as it is.
DiskDispatchReadWrite(r) == AtaCheck(r.offset, r.length)

\* Device 0 is the disk, the others are the volumes.
Route(r) ==
  IF IoCallDriverRefuses(r) \/ (r.swapFs /\ SwapFsRefuses(r)) THEN Failed
  ELSE IF r.dev = 0 THEN DiskDispatchReadWrite(r)
  ELSE VolDispatchReadWrite(r.dev, r)

(***************************************************************************)
(* The buffer and its DMA table.                                           *)
(***************************************************************************)

\* The physical piece at a place of t's buffer, and those of count places
\* from one on.
Piece(t, p) == BufferFrames[t][(p \div PageSectors) + 1] * PageSectors + (p % PageSectors)
BufferPieces(t, at, count) == [i \in 1 .. count |-> Piece(t, at + i - 1)]

\* MdlAllocateEx: a page that follows the last pair extends it.
AddPage(pairs, pa) ==
  IF Last(pairs).address + Last(pairs).size = pa
  THEN [pairs EXCEPT ![Len(pairs)].size = @ + PageSectors]
  ELSE Append(pairs, [address |-> pa, size |-> PageSectors])

MdlPairs(t, at, count) ==
  LET offset == at % PageSectors
      pages == ((at + count - 1) \div PageSectors) - (at \div PageSectors)
      upTo[n \in 0 .. pages] ==
        IF n = 0 THEN <<[address |-> Piece(t, at), size |-> PageSectors - offset]>>
        ELSE AddPage(upTo[n - 1], Piece(t, at - offset + n * PageSectors))
  IN  upTo[pages]

\* _AtaValidateTranslationPair: longer than 64 KB - 1.
PairRefused(pair) == pair.size >= DmaBoundary

\* _AtaPrepareDmaTransfer: an entry per pair, two where the pair crosses the
\* boundary; the last pair is cut to what remains.
AddEntries(prd, pair) ==
  LET size == Min({pair.size, prd.remaining})
      crosses == pair.address \div DmaBoundary # (pair.address + size - 1) \div DmaBoundary
      head == IF crosses THEN DmaBoundary - (pair.address % DmaBoundary) ELSE 0
      tail == [address |-> pair.address + head, size |-> size - head]
  IN  [remaining |-> prd.remaining - size,
       table |-> IF crosses THEN prd.table \o <<[address |-> pair.address, size |-> head], tail>>
                 ELSE Append(prd.table, tail)]

PrdEntries(pairs, count) ==
  LET upTo[n \in 0 .. Len(pairs)] ==
        IF n = 0 THEN [remaining |-> count, table |-> <<>>] ELSE AddEntries(upTo[n - 1], pairs[n])
  IN  upTo[Len(pairs)]

\* What the engine goes through: within an entry the address does not carry
\* over the boundary.
EngineEntry(e) ==
  [i \in 1 .. e.size |-> (e.address \div DmaBoundary) * DmaBoundary
                         + ((e.address + i - 1) % DmaBoundary)]
EnginePieces(table) ==
  LET upTo[n \in 0 .. Len(table)] == IF n = 0 THEN <<>> ELSE upTo[n - 1] \o EngineEntry(table[n])
  IN  upTo[Len(table)]

(***************************************************************************)
(* The device after AtaInitialize.                                         *)
(***************************************************************************)

\* AtaInitialize: no transfer, no table, the engine stopped.
AtaInitialize ==
  /\ ataState = "free" /\ ready = FALSE /\ prdt = <<>>
  /\ channel = [lba |-> 0, count |-> 0, nien |-> TRUE]
  /\ drive = "idle" /\ bus = [irq |-> FALSE, started |-> FALSE, write |-> FALSE]
  /\ interrupt = FALSE /\ ataIsr = "idle"

StInit ==
  /\ AtaInitialize
  /\ sectors = [s \in 0 .. TotalSectors - 1 |-> s]
  /\ memory = [p \in UNION {ToSet(BufferPieces(t, 0, Len(BufferFrames[t]) * PageSectors))
                            : t \in StThreads} |-> 1000 + p]
  /\ request = [t \in StThreads |-> NoTransfer]
  /\ made = 0
  /\ finished = [disk |-> [s \in 0 .. TotalSectors - 1 |-> s], got |-> <<>>, want |-> <<>>]
  /\ stHalted = FALSE

\* Where a request takes or leaves its data, and what it is for: the sectors
\* of its device that its offset and length name.
Pieces(t) == BufferPieces(t, request[t].at, request[t].count)
Start(r) == IF r.dev = 0 THEN 0 ELSE DiskLayout[r.dev].offset
Asked(r) == [i \in 1 .. r.length \div SectorSize |->
               Start(r) + (r.offset \div SectorSize) + i - 1]
Put(f, keys, values) ==
  [k \in DOMAIN f |-> IF \E i \in DOMAIN keys : keys[i] = k
                      THEN values[CHOOSE i \in DOMAIN keys : keys[i] = k] ELSE f[k]]
Get(f, keys) == [i \in DOMAIN keys |-> f[keys[i]]]

(***************************************************************************)
(* AtaDispatchReadWrite and AtaReadWriteSectors, step by step.  A thread   *)
(* takes none while the handler runs on the only processor.                *)
(***************************************************************************)

Runs(t, pc) == ~stHalted /\ (StSmp \/ ataIsr = "idle") /\ request[t].pc = pc
StGoto(t, pc) == request' = [request EXCEPT ![t].pc = pc]

\* The transfer of the device, which must be free, is the request's.
AtaDispatchReadWrite(t, r) ==
  /\ stHalted' = (ataState # "free")
  /\ ataState' = IF ataState = "free" THEN "in_progress" ELSE ataState
  /\ request' = [request EXCEPT ![t] =
       [pc |-> "select", ask |-> r, at |-> r.at, sector |-> Route(r).sector,
        count |-> Route(r).count]]

\* A request that fails on its way down ends there.
IoReadWriteDevice(t, r) ==
  /\ Runs(t, "idle") /\ made < MaxRequests
  /\ made' = made + 1
  /\ IF Route(r).ok THEN AtaDispatchReadWrite(t, r)
     ELSE UNCHANGED <<stHalted, ataState, request>>
  /\ UNCHANGED <<sectors, memory, ready, prdt, channel, drive, bus, interrupt, ataIsr, finished>>

\* Steps 1 to 4: the device is idle and ready, its parameters are written.
AtaWriteIOParameters(t) ==
  /\ Runs(t, "select") /\ drive = "idle"
  /\ channel' = [lba |-> request[t].sector, count |-> request[t].count,
                 nien |-> ~request[t].ask.async]
  /\ StGoto(t, IF request[t].ask.async THEN "prepare" ELSE "command")
  /\ UNCHANGED <<sectors, memory, ataState, ready, prdt, drive, bus, interrupt, ataIsr,
                 made, finished, stHalted>>

\* Step 4.5.  A buffer the engine cannot reach fails the request.
AtaPrepareDmaTransfer(t) ==
  LET pairs == MdlPairs(t, request[t].at, request[t].count)
      entries == PrdEntries(pairs, request[t].count)
  IN  /\ Runs(t, "prepare")
      /\ IF \E i \in DOMAIN pairs : PairRefused(pairs[i])
         THEN /\ ataState' = "free" /\ request' = [request EXCEPT ![t] = NoTransfer]
              /\ UNCHANGED <<prdt, stHalted>>
         ELSE /\ prdt' = entries.table
              /\ stHalted' = (entries.remaining # 0)
              /\ StGoto(t, "command") /\ UNCHANGED ataState
      /\ UNCHANGED <<sectors, memory, ready, channel, drive, bus, interrupt, ataIsr, made, finished>>

\* Step 5, and the start of the engine.
AtaWriteCommand(t) ==
  LET async == request[t].ask.async
  IN  /\ Runs(t, "command")
      /\ drive' = IF async THEN "dma" ELSE "pio"
      /\ bus' = [bus EXCEPT !.started = async, !.write = async /\ request[t].ask.write]
      /\ StGoto(t, IF async THEN "wait" ELSE "buffer")
      /\ UNCHANGED <<sectors, memory, ataState, ready, prdt, channel, interrupt, ataIsr,
                     made, finished, stHalted>>

\* The end of a request that succeeded, and what it did.
Finish(t, disk, mem) ==
  LET r == request[t].ask
      wrote == Get(memory, Pieces(t))
  IN  /\ request' = [request EXCEPT ![t] = NoTransfer]
      /\ ataState' = "free"
      /\ finished' = IF r.write
                     THEN [finished EXCEPT !.disk = Put(@, Asked(r), wrote)]
                     ELSE [finished EXCEPT !.got = Get(mem, Pieces(t)),
                                           !.want = Get(disk, Asked(r))]

\* _AtaReadBuffer and _AtaWriteBuffer
AtaTransferBuffer(t) ==
  LET span == [i \in 1 .. channel.count |-> channel.lba + i - 1]
      disk == IF request[t].ask.write THEN Put(sectors, span, Get(memory, Pieces(t))) ELSE sectors
      mem == IF request[t].ask.write THEN memory ELSE Put(memory, Pieces(t), Get(sectors, span))
  IN  /\ Runs(t, "buffer") /\ drive = "pio"
      /\ sectors' = disk /\ memory' = mem /\ drive' = "idle"
      /\ Finish(t, disk, mem)
      /\ UNCHANGED <<ready, prdt, channel, bus, interrupt, ataIsr, made, stHalted>>

\* ExEventWaitForSignal on a synchronisation event, and the rest.
AtaTransferReady(t) ==
  /\ Runs(t, "wait") /\ ready
  /\ ready' = FALSE
  /\ stHalted' = (ataState # "finished" \/ prdt = <<>>)
  /\ prdt' = <<>>
  /\ Finish(t, sectors, memory)
  /\ UNCHANGED <<sectors, memory, channel, drive, bus, interrupt, ataIsr, made>>

\* The device (external): it moves the data along the table and interrupts.
DmaCompletes ==
  LET span == [i \in 1 .. channel.count |-> channel.lba + i - 1]
      pieces == EnginePieces(prdt)
  IN  /\ ~stHalted /\ drive = "dma" /\ bus.started
      /\ sectors' = IF bus.write THEN Put(sectors, span, Get(memory, pieces)) ELSE sectors
      /\ memory' = IF bus.write THEN memory ELSE Put(memory, pieces, Get(sectors, span))
      /\ drive' = "idle"
      /\ bus' = [bus EXCEPT !.irq = TRUE]
      /\ interrupt' = ~channel.nien
      /\ UNCHANGED <<ataState, ready, prdt, channel, ataIsr, request, made, finished, stHalted>>

(* Mutant: the interrupt bit is not tested. *)
AtaDmaInterrupt_AnyCause ==
  /\ ~stHalted /\ ataIsr = "idle"
  /\ interrupt' = FALSE
  /\ IF TRUE
     THEN /\ bus' = [bus EXCEPT !.started = FALSE]
          /\ stHalted' = (ataState # "in_progress")
          /\ ataState' = "finished"
          /\ ready' = TRUE
          /\ ataIsr' = "clear"
     ELSE UNCHANGED <<bus, stHalted, ataState, ready, ataIsr>>
  /\ UNCHANGED <<sectors, memory, prdt, channel, drive, request, made, finished>>

\* _AtaDmaInterrupt, which the interrupt of another device on the line may
\* also call: it stops the engine and signals, ...
AtaDmaInterrupt ==
  /\ ~stHalted /\ ataIsr = "idle"
  /\ interrupt' = FALSE
  /\ IF bus.irq
     THEN /\ bus' = [bus EXCEPT !.started = FALSE]
          /\ stHalted' = (ataState # "in_progress")
          /\ ataState' = "finished"
          /\ ready' = TRUE
          /\ ataIsr' = "clear"
     ELSE UNCHANGED <<bus, stHalted, ataState, ready, ataIsr>>
  /\ UNCHANGED <<sectors, memory, prdt, channel, drive, request, made, finished>>

\* ... and only then clears the interrupt bit.
AtaClearInterrupt ==
  /\ ~stHalted /\ ataIsr = "clear"
  /\ bus' = [bus EXCEPT !.irq = FALSE]
  /\ ataIsr' = "idle"
  /\ UNCHANGED <<sectors, memory, ataState, ready, prdt, channel, drive, interrupt,
                 request, made, finished, stHalted>>

AtaReadWriteSectors(t) ==
  \/ AtaWriteIOParameters(t) \/ AtaPrepareDmaTransfer(t) \/ AtaWriteCommand(t)
  \/ AtaTransferBuffer(t) \/ AtaTransferReady(t)

StNext ==
  \/ \E t \in StThreads :
       (\E r \in StRequests : IoReadWriteDevice(t, r)) \/ AtaReadWriteSectors(t)
  \/ DmaCompletes \/ AtaDmaInterrupt \/ AtaClearInterrupt

StSpec == StInit /\ [][StNext]_stVars

(***************************************************************************)
(* Properties.                                                             *)
(***************************************************************************)

\* A request changes or returns exactly the sectors that it names on its
\* device, wherever its partition begins, however its buffer is scattered
\* over physical memory and whether or not it is split at a DMA boundary.
RequestsExact ==
  /\ finished.got = finished.want
  /\ (\A t \in StThreads : request[t] = NoTransfer) /\ ~stHalted => sectors = finished.disk

\* The assertions of AtaDispatchReadWrite, AtaReadWriteSectors and
\* _AtaDmaInterrupt on the state of the transfer hold, ...
TransferAssertsHold == ~stHalted

\* ... unless a thread has asked while another's request was served.
Overlapping ==
  \E t, u \in StThreads : t # u /\ request[t] # NoTransfer /\ request[u] # NoTransfer
OnlyOverlapFails == TransferAssertsHold \/ Overlapping

\* No wakeup is lost: a thread that waits for a transfer is signalled, or
\* the engine is still at it, or its interrupt is on the way or being served.
TransferIsAnnounced ==
  \A t \in StThreads :
    request[t].pc = "wait" => \/ ready \/ drive = "dma" \/ stHalted
                              \/ (interrupt /\ bus.irq)

\* The ATA driver and its interrupt handler agree on the transfer.
TransferSound == OnlyOverlapFails /\ TransferIsAnnounced
===============================================================================

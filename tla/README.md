# HAL9000: a verification project

HAL9000 is a small 64-bit SMP kernel in C, with drivers and user programs, used
for teaching. This directory holds TLA+ models of the kernel, its drivers and its
common library, the TLC runs that check them on small instances and TLAPS proofs
for instances of any size. `PROJECT.json` maps each definition to the lines it
models, and lists runs, mutants, findings, hazards and theorems.

## 1. The system

| Part | State it keeps | Operations | What makes it hard | What must hold |
|---|---|---|---|---|
| Spinlocks (`spinlock.c`, `monlock.c`) | `State`, `Holder`, the interrupt flag of each CPU | Acquire, TryAcquire, Release, IsOwner | interrupt handlers use the same locks as threads; MONITOR/MWAIT can miss a write | one holder; no CPU waits for itself; no missed wake-up; the flag comes back as it was |
| Reader-writer spinlocks (`rw_spinlock.c`, `rec_rw_spinlock.c`) | three 16-bit words; a holder and a depth | acquire and release, shared and exclusive | every operation is several interlocked instructions | writers alone; exact words; writers get in |
| Threads and scheduler (`thread.c`, `_thread.yasm`) | thread states, flags, reference counts, `BlockLock`s, the ready list, current and previous thread of each CPU | create, close, terminate, yield, block, unblock, exit, switch, clean-up | a thread leaves its CPU in the middle of a function and another finishes its work | one CPU per stack; a sound ready list; no use after free; everybody runs |
| Mutex (`mutex.c`) | holder, depth, waiting list | acquire, release | lock hand-over, the window between linking and blocking | exclusion, first come first served, nobody lost |
| Events (`ex_event.c`, `event.c`) | `Signaled`, waiting list | signal, clear, wait | the flag is read outside the lock of the list | no sleep on a signalled event; one waiter per synchronization signal |
| Inter-processor calls (`smp.c`, `ipc.c`) | event lists of the CPUs, reference counts of events | send, interrupt handler, wait | merged interrupts, senders that migrate, the last user frees | each queued event runs once on each CPU and is freed once |
| Processes (`process.c`, `um_application.c`) | thread list and counters, reference count, termination event, identifiers | create, terminate, wait, close, thread joins and leaves | the creator races the first thread; identifiers are also TLB tags | references exact, no use after free, identifiers reused safely |
| Physical memory (`pmm.c`, `bitmap.c`) | a bitmap of frames | boot, reserve, release | boundaries of regions and of searches | no frame shared, lost or outside RAM |
| Reservations and faults (`vm_reservation_space.c`, `vmm.c`) | reservation list, commit bitmaps, the zero worker's list | reserve, commit, release, access | metadata is itself paged; two CPUs fault at once | regions apart; each page its own frame; announced accesses |
| Page tables (`mmu.c`, `pte.c`, `pe_parser.c`) | trees of tables, the kernel half in each | start of paging, map, unmap, translate, load an image, MDLs | partial failures, shared pages of sections, stale copies | the tree is the map asked for |
| Heap (`heap.c`, `cl_heap.c`) | ordered entries, bump pointer, restart cursor | allocate, free | a region that is almost full, a cursor into a freed entry | blocks in order, apart and inside |
| Interrupts (`iomu.c`, `ioapic*.c`, `isr.c`, `lapic_system.c`) | vectors, handler lists, redirection entries | register, deliver | sharing, vectors that run out, overrides | a device that is registered is served |
| System time (`iomu.c`, `ex_timer.c`, `core.c`) | uptime in two halves, a timer, idle state | ticks, RTC, wait, update | two interrupt sources of different periods | time never runs backwards; waits long enough |
| I/O manager and files (`io_devices.c`, `io_files.c`, `iomu.c`) | drivers, devices, stacks, volumes, packets, file objects | attach, dispatch, complete, mount, open, read | a packet is as deep as the stack was when it was built | stack locations never run out; right file system on each volume |
| Storage (`Ata`, `Disk`, `Volume`, `SwapFS`) | partitions, current transfer, DMA table | read, write, interrupt | relative offsets of logical partitions, an interrupt against a waiting thread | exactly the sectors asked for; no lost completion |
| FAT32 (`FAT32`) | the volume: FAT, directories, FSInfo | mount, search, open, read, list, create | several sectors per operation and no lock | reads return the file; no cluster in two files |
| Network (`Eth_82574L`, `NetworkPort`, `NetworkStack`) | descriptor rings, frame lists, events, table of devices | configure, send, receive, link changes | two notices that may cross; clean-up of a card that fails | frames in order; no lost notice |
| Keyboard (`keyboard.c`, `keyboard_utils.c`) | last key, prefix and modifiers, line buffer | interrupt, read, edit | one word written by the handler and cleared by the reader | a key is read at most once, in order |
| PCI and ACPI (`pci*.c`, `acpi_*.c`) | devices, bridges, routing tables, MADT | enumerate, look up, configure | accesses narrower than a register, bridges numbered before they are known | every function once; exact bytes |
| Start-up (`system.c`, `smp.c`, `ap_tramp.c`) | stages, count of processors, low memory | SystemInit, wake-up | processors count themselves in any order | nobody runs in memory that is gone |
| CommonLib (`list.c`, `string.c`, `memory.c`, `strutils.c`) | links, buffers | insert, remove; compare, search, copy, print | in-place rewriting, ends of strings | links are the sequences; nothing written elsewhere |

Parts interact in three ways. Threads call down: process → thread → mutex and
event → scheduler → spinlock; file → file system → volume → disk → ATA; frames
and reservations sit below the process. Interrupts call up: the timer into the
scheduler and the uptime, the IPI handler into `ipc.c`, devices into drivers that
signal events. Destructors run wherever the last reference is dropped: the
clean-up of a thread after a switch may destroy its process on the stack of an
unrelated thread.

Each component is modelled from the state that boot leaves and through its own
entry points; `Startup` has the order in which `system.c` starts them, and
`Paging`, `Pmm`, `Pci`, `DeviceStacks` and `NetworkStack` model the start of their
own part as well.

## 2. The modules

| Module | Models | Runs in | Proofs |
|---|---|---|---|
| `RwSpinlock` | `rw_spinlock.c`, one action per interlocked instruction | `MCLocks` | `RwSpinlockProofs` |
| `Primitives` | `event.c` under the semaphores of `acpi_osl.c`, `rec_rw_spinlock.c` | `MCLocks` | `RwSpinlockProofs` |
| `LinkedList` | `list.c`, link by link, against sequences | `MCLocks` | `RwSpinlockProofs` |
| `Strings` | `string.c`, `cl_string.c`, `memory.c`, `strutils.c`, and `cmd_interpreter.c` executing the boot module | `MCLocks` | |
| `Spinlock` | `spinlock.c`, `monlock.c`, `lock_common.c`, contexts = (CPU, thread or handler) | `MCSpinlock` | `SpinlockProofs` |
| `ThreadScheduler` | `thread.c`, `ref_cnt.c`, the switch | `MCThreadScheduler` | `ThreadSchedulerProofs` |
| `FifoLock` | abstract: a re-entrant lock that serves in order of arrival | | |
| `Mutex` | `mutex.c`; implements `FifoLock` | `MCMutex` | `MutexProofs` |
| `ProcessLifetime` | `process.c`, `um_application.c`, the calls of `thread.c` to them, TLB tags | `MCProcessLifetime` | `ProcessLifetimeProofs` |
| `Ipc` | `SmpSendGenericIpiEx`, `_SmpIpcIpiIsr`, `ipc.c` | `MCIpc`, `MCPlatform` | `SignalProofs` |
| `Startup` | `system.c`, the start of processors in `smp.c`, `cpumu.c`, `ap_tramp.c`, the MADT | `MCPlatform` | `SignalProofs` |
| `Interrupts` | registration, vectors, routing and dispatch of interrupts | `MCPlatform` | `SignalProofs` |
| `Pci` | enumeration, bridges, routing tables, configuration accesses | `MCPlatform` | `SignalProofs` |
| `Time` | uptime, executive timers, idle state | `MCPlatform` | `SignalProofs` |
| `Bitmap`, `Pmm` | `bitmap.c`, `pmm.c` | `MCMemory` | `MemoryProofs` |
| `VirtualMemory` | `vm_reservation_space.c`, faults of `vmm.c`, zero worker of `mmu.c` | `MCMemory` | `MemoryProofs` |
| `Paging` | `mmu.c`, `pte.c`, `vmm.c` walks, `pe_parser.c`, `mdl.c` | `MCMemory` | |
| `Heap` | `heap.c`, `cl_heap.c` | `MCMemory` | `MemoryProofs` |
| `ExEvent` | `ex_event.c` | `MCDrivers` | `SignalProofs` |
| `Keyboard` | `keyboard.c`, `keyboard_utils.c` | `MCDrivers` | `SignalProofs` |
| `Storage` | a request from `io_devices.c` through `SwapFS`, `Volume`, `Disk` and `Ata` to the interrupt | `MCDrivers` | `SignalProofs` |
| `DeviceStacks` | drivers, device stacks, volumes, mounting, packets | `MCDrivers` | `RwSpinlockProofs` |
| `Fat32` | `FAT32` and the file calls of `io_files.c` | `MCDrivers` | |
| `Network` | `Eth_82574L` rings, `NetworkPort` lists and threads | `MCDrivers` | `SignalProofs` |
| `NetworkStack` | configuration of the cards, the table of devices | `MCDrivers` | `RwSpinlockProofs` |
| `DataFacts` | lemmas on parts of sequences, sequences without duplicates, least and greatest elements, quotients, one turn around a ring, counting up, recursion over 0..N | | used by five proof modules |

Variables keep the names of the structure fields they stand for. A variable `pc`
(or `sender`, `handler`, `thread`) says where an actor is inside a function; two
steps are separate exactly where another actor can act in between. What runs
under one lock, with no window, is one step.

A lock that a module only uses is abstract there: `ThreadScheduler` has
`ReadyThreadsLock` and `BlockLock` as the CPU that holds them, `Mutex` has
`MutexLock` as the thread that holds it, `Pmm`, `Heap` and `Paging` take a whole call
under their lock as one step. `Spinlock` justifies this: it shows exclusion, and
that a handler never meets a lock its own CPU holds. `Mutex` and `ExEvent`
likewise use block and unblock as `ThreadScheduler` provides them, the protocol
that a thread takes its `BlockLock` before it becomes visible on a list included.

A failed `ASSERT` stops the kernel. Where the code asserts, the model disables
the step or stops the CPU or the system (`halt`, `halted`, `stopped`), and the
assertion is a property, or a listed disagreement.

Specific points:

* `Spinlock`: with `MonitorSupport`, a store to the monitored word wakes CPUs whose
  monitor is armed; an interrupt wakes a CPU in MWAIT only if it can be taken.
* `RwSpinlock`: words wrap at 2^16; the proof needs fewer CPUs than that.
* `ThreadScheduler`: `waiters` is the union of all waiting lists; `Wake` and
  `ThreadTakeBlockLock` are the two ends of the protocol of mutexes and events.
  What is read in a freed thread is arbitrary. Creation does not fail here; the
  failures after the insertion into a process are in `ProcessLifetime`.
* `ExEvent`: `ExEventSignal` passes a fixed, non-canonical address to
  `ThreadUnblock` when the list is not empty. The signaller stops there with
  `EventLock` held, and that is what the model does.
* `ExEvent`, `Ipc`: the arguments of `ExEventInit` and `SmpSendGenericIpiEx` are chosen
  in the initial state and do not change.
* `Ipc`: the local APIC is external: one pending request per vector, so requests
  merge. A sender does not execute while its CPU is in the handler.
* `ProcessLifetime`: `Execute` lets a CPU cache translations under the identifier of
  a process; `Spawns` lets threads create siblings, which `ThreadCreateEx`
  supports though no system call reaches it yet; threads are killed between calls
  into the kernel.
* `Pmm`: pages of `PageSize` bytes and `OneMB` are parameters; the width of a DWORD
  is the constant `MAX_DWORD`. `answer` records what the last request returned.
  Callers release frames that they have.
* `VirtualMemory`: pages of metadata have their own state, so an access to the list
  or to a bitmap can fault; `VmmMemoryAccess` belongs to a CPU and a thread can
  move between the steps that set and clear it (`MaxMigrations`).
* `Paging`: a walk has `Len(Fans)` levels; a table is a frame of entries; rights are
  the rights bits of an entry. Frames come from the firmware's map, so that
  "no memory for a table" and "the last frame" occur.
* `Heap`: sizes count header, data and tail in bytes of a small region; the
  difference of signed and unsigned sizes at `heap.c:243` is a subtraction that
  may be negative.
* `Interrupts`: a request stands for one device; the redirection table of each
  I/O APIC, overrides and ACPI routes are data of the instance.
* `Storage`, `Network`: disk, DMA engine and card are external and modelled from
  the registers the drivers use: when they raise an interrupt, what they write.
* `Storage`, `Fat32`: a sector's content is one value, so a property can name which
  sectors a read returned.
* `Storage`: `StThreads` ask at once, as nothing in the I/O manager or the drivers
  serialises them. `StSmp` lets the interrupt handler run beside the threads, on
  another processor; otherwise a thread executes only while no handler does.
  `IoCallDriver` refuses what is not aligned to the device: sectors, and pages for the swap
  file system (`swapfs.c:120`).
* `Fat32`: a creation is six transfers, and other threads search, read, list and create
  in between; `overlapped` remembers that two were creating at once.
* `Pci`: `AcpiInterfaceParsePrts` ends the late start in phase `failed` when an object
  with a routing table has no `_BBN` up to the root (`acpi_interface.c:659`), and skips
  one whose bridge is not found.
* `DeviceStacks`: `IoCallDriver` refuses a read that is not aligned and a major function
  the driver has no dispatch function for, and a dispatch function may return with the
  packet uncompleted; `returned` says that the caller has its packet back.
* `DeviceStacks`, `NetworkStack`: start-up is sequential in the code, so an entry
  function or the configuration of a card is one step with each of its failures.
* `Strings`: the loop over the lines of the boot module ends after the command to exit;
  nothing is executed when `BootModuleGet` does not find the module, and a line of too
  many arguments fails the assertion of `_CmdExecLine`.
* `Strings`: characters are small numbers; the buffer of a string is followed by
  memory of somebody else, so that a step over its end shows. Directives of
  `vsnprintf` are records instead of text.
* `Time`: a second has `SecondUs` microseconds and the tick adds a constant, as the
  code does; the RTC may tick at any time relative to it.

## 3. The runs

Passing runs finish in seconds to a few minutes. Every property of a passing run
has a mutant, a plausible slip in the code, that violates it. `locks`, `platform`,
`memory` and `drivers` hold several parts that share no state. A variable `part` chooses
one of them in the initial state and the others stand still, so that such a run explores the sum
of the parts and not their product. The liveness properties of these runs
(`WriterProgress`, `WaitReturns`) concern one part only; in the others their
premise is never true.

| Run | Shows |
|---|---|
| `locks` | 4 CPUs on the reader-writer lock: writers alone, exact words, and under fairness a waiting writer gets in against any stream of readers. 3 CPUs on an ACPI semaphore and the recursive lock: units are neither lost nor doubled. Lists are the sequences they stand for. Strings, memory, numbers and formatting agree with reference definitions, and the interpreter executes the commands of its module in order, up to the one that exits |
| `monitor_lock` | 3 CPUs with a thread and a handler each, MONITOR/MWAIT and callers of TryAcquire: the inductive invariant (exclusion, no self-deadlock, no CPU sleeps on a free lock, holder cleared, interrupt flag restored); someone always gets the lock |
| `scheduler` | 2 CPUs, 2 main, 2 idle and 1 created thread that may be terminated by force: the inductive invariant (one CPU per stack, sound ready list, the assertion of the clean-up) and the assertion of `ThreadUnblock` |
| `scheduler_progress` | 2 CPUs, 4 threads: a queued thread runs |
| `mutex` | 4 threads, depth 3: the inductive invariant (exclusion, woken threads own, no waiter lost), refinement of `FifoLock`, every waiter served |
| `process` | 2 processes, 2 threads, siblings, failures: reference and thread counters, no use after free, finality of termination, identifiers and tables, no stale translations on one CPU |
| `platform` | calls between 3 CPUs in every send mode, waiting and not, moved and not: exact references, no use after free, a wait covers every CPU, interrupts find events (`CallsSound`), and a wait whose CPUs no other call interrupts returns. The start of 3 processors in any order. Six devices that register and interrupt. Three PCI buses, with four namespaces of routing tables, three of which end the late start. The uptime, a timer and the idle screen |
| `memory` | 4 memory maps, 2 callers: no frame shared, lost or outside RAM, first fit. 2 threads in one address space: regions and metadata apart and announced, frames exact. Page tables of the kernel and two processes: trees are the maps asked for, sections have their rights. A heap of 36 bytes |
| `drivers` | an event with 3 threads and 3 signals: exact list, one wait per signal (`EventSound`). The keyboard and its editor. Frames through a network card. Start-up of drivers and volumes on three machines, then packets down the stacks. Network cards that fail in every stage. 2 threads that ask one disk with 3 volumes at once: a request moves exactly its sectors (`RequestsExact`), a waiting thread is told, and no assertion fails but that of a second request (`TransferSound`). 2 threads on a FAT32 volume, one creating while the other searches, reads, lists or creates: reads and listings are exact, and unless two create at once each creation is found and no cluster has two owners (`FileSystemSound`) |

The properties of the parts are conjunctions of named formulas, each with its own
comment in its module: `CallsSound`, `EventSound`, `FileSystemSound`, `ReservationsSound`
and so on. Reading the conjuncts is the way to see what a part promises.

Three runs end in a violation: there the code does not do what its headers or
comments say.

| Run | What happens | Where |
|---|---|---|
| `thread_handles_smp` | a thread that yields and dies on another CPU is dereferenced by both and freed under an open handle | `thread.c:1080` |
| `ipc_merged_interrupts` | the handler takes one event per interrupt, but interrupts merge | `smp.c:778` |
| `process_created_handle` | `ProcessCreate` references a process that may be freed | `process.c:294` |

The models show more behaviour that disagrees with a comment, a header, an
assertion or a plain expectation. It is part of the models; the properties of the
passing runs are stated so that they hold in spite of it, or on an instance
without the trigger.

Locks, threads, processes:

* `spinlock.c:64`: `SpinlockTryAcquire` and `MonitorLockTryAcquire` leave `Holder` NULL,
  so the release that `spinlock.h` allows after them fails the assertion that the
  CPU is the holder (the context goes to `halt`; `LockIsTaken` excepts it).
* `thread.c:518`: a thread that `ThreadBlock` forces to exit stays on a waiting list,
  and its waker's `ASSERT(ThreadStateBlocked == Thread->State)` fails. `UnblockAssert`
  is about the threads nobody told to terminate.
* `thread.c`: `Running` is set only at boot. A scheduled thread executes in state
  Ready, which `thread_internal.h` says means "in ready list".
* `thread.c:742`: `memzero` clears twice the size of the structure.
* `ex_event.c:53`: `ExEventSignal` takes a waiter off the list and calls
  `ThreadUnblock` with a constant instead of that waiter. `ListExact` has the case.
* `ex_event.c:97`: a wait tests `Signaled` outside `EventLock` and not again inside
  (`MissSignal`, then `Link`): a signal in between finds an empty list, and the
  thread sleeps on a signalled event.
* `smp.c:456`, `smp.c:787`: the CPUs that get the event are computed for the CPU the
  sender runs on; the interrupt goes to the others of the CPU it runs on later.
  With `MayMigrate` set in a call to `AllExcludingSelf`, `IsrFindsEvent` is violated.
* `mmu.c:976`: `MmuDestroyAddressSpaceForProcess`, "responsible for destroying all cached
  translations for this process ID" (`process.c:746`), invalidates them on one CPU only.
  With two CPUs in `process`, `NoStaleTranslations` is violated.
* `process.c:373`: `ProcessTerminate` flags the threads of the list; one that is
  created afterwards by another thread of the process is not told.
* `um_application.c:151`: when `ThreadCreateEx` fails after the insertion of the
  thread (`SetupThreadFails`), nobody closes the thread and the process stays.

Memory:

* `pmm.c:359`: the base of an entry is rounded up but not its number of frames. With
  a map whose usable region starts inside a page, `BootSound` is violated.
* `pmm.c:286`: `PhysicalMemorySize`, documented as memory over 1 MB, counts usable
  memory below it too (`AvailableMemory`).
* `heap.c:272`: some sequences of requests reach the search with the previous entry
  NULL, and the assertion stops the kernel (`SearchAssertHolds` is violated).
* `vmm.c:956`: two CPUs that fault on one page both reserve a frame and map it; the
  first frame is lost. `FramesExact` is for threads that share a CPU.
* `vm_reservation_space.c:934`: `VmmMemoryAccess` is cleared on the CPU the lock was
  taken on, in a release after the lock is free: a thread that moved clears the
  flag of another one. `MetadataAccessAnnounced` is for threads that did not move.
* `vm_reservation_space.c:988`: rights are checked for every page counted from an
  address that need not be aligned, so the last page may not be looked at.
* `mmu.c:2008`: the zero worker clears its event after it has found the list empty
  and released the lock. Frames scheduled in between wait for the next release
  (`ScheduledFramesReleased` is violated); `mmu.h:172` promises them to be released.
* `mmu.c:1197` tests a status that nobody has set in place of the MDL. `mmu.c:1204`:
  the region for a user buffer has the pages of its size, the MDL those of offset
  and size; a buffer that crosses a page more is mapped over what follows.
* `mmu.c:1321`: the kernel half of the top table is copied once. A table that the
  kernel adds to its top level later is missing in the processes.
* `mmu.c:1716`: the tail of the last section is mapped where its whole pages began.
  When it has whole pages and a tail, the tail is not mapped.

Platform:

* `iomu.c:846`, `iomu.c:883`: a request that shares a vector because none is left gets
  no redirection entry, and its interrupt is never delivered
  (`RegistrationIsLive` leaves these requests out). `iomu.c:916`: a handler stays on
  the list when a later step of its registration fails.
* `ioapic_system.c:650`: the routing table sets the number of overrides to the number
  of its own entries.
* `lapic_system.c:345`, `isr.c:218`: the handler of spurious interrupts of the local
  APIC answers that it did not handle them, and the dispatcher asserts.
* `system.c:205` calls the address of a variable on the stack as a function.
* `pcie.c:50`: for a root complex that does not start at bus 0 the window is too
  short for the addresses that are formed.
* `acpi_interface.c:694`: a bridge below another bridge is looked up on the bus of
  the ancestor that has a base number. With one of those in an `AcpiNamespaces`,
  `RoutesExact` is violated.
* `core.c:94`, `core.c:116`: the idle state is tested and the display saved or restored
  in separate steps. `core.c:86`: the time is read before the last activity is, and another
  CPU may record a later one in between, after the RTC moved the time on. `CoreCpus` has
  one CPU in `platform`; with two `ScreenKept` and `ActivityAssertHolds` are violated, and
  the time of the last activity may be lowered in spite of the comment at `core.c:109`.
  `TimeSoundSafe` (below) says for any number of CPUs which steps of another one it takes.
* `ex_timer.c:90`: a periodic timer never sets its next trigger; `ex_timer.h` speaks
  of a timer that triggers every minute.

Drivers:

* `fat_operations.c:361`: a read that begins inside a cluster takes a whole cluster
  from there. `fat_operations.c:333`: one that begins behind the end of the chain
  fails an assertion.
* `fat_operations.c:883`: the next free cluster is the one after the last, whatever the FAT
  says. On a volume with a hole the second creation takes the cluster of a file, and
  `ClustersNotShared` is violated; the volume of the run has its free clusters at the end.
* `fat_operations.c:846`, `fat_operations.c:899`: two threads that create at once read the same
  next free cluster, or write back the directory each has read, so that one entry is lost.
  `ClustersNotShared` and `CreatedIsFound` are violated without the exception that
  `FileSystemSound` makes once two creations overlapped (`overlapped`).
* `fat_operations.c:899`: the entry of a new directory is written before its cluster is
  zeroed. A search or listing in between sees the entries the cluster had before.
* `fat32.c:137`: when the last FAT volume is broken, the driver object is freed under
  the volumes that were mounted.
* `io_devices.c:389`: the minor function is compared with `IRP_MJ_WRITE`, so the
  alignment of a write is not checked.
* `swapfs` is not in `DRIVER_NAMES` (`iomu.c:110`): the kernel as it is built mounts no
  swap partition. The run has tables with and without it.
* `ata_dispatch.c:140`: two threads that ask one disk at once fail the assertion on the state
  of the transfer (`TransferAssertsHold` is violated in `drivers`).
* `ata_operations.c:905`: the waiter is signalled before the interrupt bit is cleared. With
  `StSmp`, the clearing takes the bit of the next transfer, and `TransferIsAnnounced` is
  violated.
* `ata_dispatch.c:207`, `disk_dispatch.c:85`: the functions for device control set the
  status and return without completing the packet (`ReturnUncompleted`); its caller
  frees it.
* `network_port.c:245`: with exactly one card that works the registration is
  reported as failed and the driver extension freed. `network_port.c:423`: a failure
  in the last stage frees the miniport and the arrays twice. `network_port.c:548`:
  the clean-up goes through an array that may be NULL. The last two are left out of
  the run.
* `eth_82574L_operations.c:275`: with three descriptors `TransmitDescriptorDone` is
  violated. `eth_82574L_operations.c:399`: the transmitter is switched by the status
  of the receiver.

CommonLib:

* `memory.c`: `memmove` always copies upwards, although `cl_memory.h` says "it can be
  used for overlapped memory regions". `CopySound` is for copies to lower addresses or
  apart.
* `string.c:112`: `strncmp` and `strnicmp` answer -1 for equal strings shorter than the
  length; `strcelem` stops at an empty field or a leading delimiter.
* `strutils.c`: `itoa` prints the least INT32 as a 64-bit value (`LeastNarrow`).
* `vsnprintf` leaves the buffer without a terminator when a conversion does not fit
  or the format is wrong.
* `cl_string.c:712`: `cl_strtrim` moves as many characters as there are before the
  end, the skipped ones included, and reads past the terminator.

### Bounds

* CPUs, threads and contexts: two actors show every race between two; three or
  four are used where a third matters (a reader overtaking a second writer, a
  third waiter behind a hand-over, a CPU that neither sends nor has the event).
* `MaxSignals = 3` events: one before, one during and one after a wait.
* `MaxRecursivityDepth = 3` for the mutex: an inner, an outer and a refused
  acquisition; 2 for the recursive lock.
* `MaxPid = 3`: two identifiers besides 0 and that of the System process. A new
  process gets the first free one, so an identifier is reused at once.
* Memory maps of up to 8 frames: adjacent, separated, reserved, ignored, out of
  order and partial entries; `MaxFrames = 3` exceeds some free runs and not others.
* Address space: 3 pages, 2 pages of bitmaps, 4 frames, one migration: a region
  beside another, a hole that is reused, bitmaps that run out.
* Heap: 36 bytes and two kinds of request: several blocks, gaps that fit exactly,
  too small or only without the alignment, and a full heap.
* Tables of 4 and 16 entries on 2 levels, 26 frames: a table that fills, is shared
  by the kernel halves or has to be made, firmware maps where a table does not fit.
* Two I/O APICs, 2 vectors per level, six devices: vectors run out on one level.
* A tick of 2 in a second of 2 units, timers of 3, idle periods of 2 and 3: ticks
  before, at and after the second of the RTC.
* `BufferSize = 3`, `MaxScans = 5`: the editor reaches both ends of its buffer.
* Storage: pages of 2 sectors, a DMA boundary every 2 pages, 12 sectors in three
  partitions: requests in one page, over several, across a boundary, unaligned and
  outside; 2 threads and 3 requests, so that one thread starts another while the
  other is served.
* Network: 2 descriptors each way, 3 frames sent, 2 received: the ring is full and
  a frame waits behind it.
* FAT: 7 clusters of 2 sectors, directories of one and two clusters, deleted entries,
  2 free clusters, one of them with the entries of a former directory, 2 threads and 3
  creations: they follow one another or overlap, and the third finds the volume full.
* Strings: module texts up to 5 characters and two longer ones, pairs of strings
  up to 3 characters, 9 cells, numbers of 3 and 6 bits: all positions of ends,
  delimiters and overlaps.
* Symmetry is used only in the `process`, `process_created_handle`, `memory` and `drivers`
  runs, which have no liveness, over sets whose members no definition names.

### Fairness

* Locks: a CPU inside a lock function, or in the critical section, keeps
  executing (interrupts are off); nobody is obliged to ask.
* Scheduler: a CPU does not stop in `thread.c`; the timer makes each thread yield
  (strong fairness: a pending timer interrupt is taken as soon as interrupts are
  enabled, so calls into the kernel do not postpone it for ever).
* Mutex: threads are scheduled, and a section under the mutex ends: no thread
  stays at one nesting depth for ever, be it by entering and leaving deeper
  sections (strong fairness per depth). This is about the callers.
* IPC: requested interrupts are accepted, handlers end, and senders are
  scheduled however often they are moved (strong fairness).

`CHECK_DEADLOCK FALSE` is in the configurations of systems that may stop: all
calls have returned, threads wait for signals that nobody sends any more, memory
is used up, or a CPU has stopped at an assertion; the cfg says which.

## 4. The proofs

All are checked by TLAPS to the last leaf, for every value of the constants
under the named assumption of each module, which TLC evaluates in the runs too:

| Assumption | Why it holds |
|---|---|
| `CpusAssumption` | finitely many CPUs, fewer than the 2^16 a lock word can count |
| `SpinlockAssumption`, `MutexAssumption`, `PrimAssumption`, `EventAssumption` | "nobody" is not a CPU or thread; depths are numbers; an event is signalled at least once |
| `ThreadsAssumption` | each CPU has a main and an idle thread of its own |
| `ProcessLifetimeAssumption`, `IpcAssumption` | finitely many threads, callers, CPUs and calls (counters are compared with cardinalities); a call has its arguments |
| `BitmapAssumption`, `PmmAssumption`, `VmAssumption`, `HeapAssumption` | sizes and addresses are natural numbers, pages and entries are not empty, the memory map has an entry, there is a CPU, a heap holds its header, frames are finitely many |
| `NetworkAssumption` | a ring has at least two descriptors, as the driver keeps one empty |
| `TimeAssumption` | there is a processor; periods are natural numbers |
| `IntAssumption` | a level has at least one vector, levels are natural numbers, a device has one MSI |
| `StackAssumption` | slots have addresses, and a card fails at one of the stages of its configuration or at none |
| `ListAssumption` | a list's head is no entry, an entry is not NULL, and there are finitely many entries: `ListSize` counts them in a DWORD |
| `StAssumption` | sizes are natural numbers; the chain of extended boot records ends; the pages of a buffer are mapped to frames of their own; a request is to a device there is and its buffer holds what it asks for |
| `PciAssumption` | locations are of the buses and slots there are, a root complex starts at bus 0, the space that is looked at is made of double words |
| `IoAssumption` | the table of drivers is a sequence of names |
| `KeyboardAssumption` | `ASSERT(BufferSize > 1)` of `gets_s` |
| `StartupAssumption` | the MADT lists each processor once, and only the boot processor may have identifier 0: the stack of another would be the page of the trampoline's code (`ap_tramp.c:177`) |

Some theorems have a hypothesis of their own, because the property is false
without it:

* `IsrSafe` and `CallsSafe`: `SendersStay`, a sender whose destination depends on the
  CPU it runs on is not moved while it sends. The code does not ensure that: a
  sender that was moved interrupts a CPU whose list it did not fill. The other
  parts of `CallsSound` need no hypothesis (`ReferencesSafe`, `FreedSafe`, `WaitSafe`).
* `TranslationsSafe`: `DestroyedWhereCached`, a step that destroys an address space finds no
  translation of it on another CPU. The code does not ensure that
  (`mmu.c:976` above). The theorem is for any number of CPUs and says that
  nothing else, no creation, switch, unmapping or reuse of an identifier, leaves a
  stale translation; with one CPU there is no condition.
* `InterruptsSafe`: `RoutesStay`, the late start of the I/O APICs does not move a line
  that already has a handler (it stores the wrong number of overrides, see
  `ioapic_system.c:650` above), and `OneLevelPerLine`, devices on one line ask for one
  priority (a second level finds the entry of the first, gets a vector of its own,
  and nothing raises that vector).
* `NetworkStackSafe`: `NeverAtTheLastStage`, as the code frees a miniport twice whose
  card fails at the last stage (`network_port.c:423` above).
* `TransferSafe`: `HandlerKeepsUp`, the engine completes no transfer while the handler, on
  another processor, has yet to clear the bit of the transfer before
  (`ata_operations.c:905` above has that case). For any number of threads; on one processor there
  is no condition. That requests move exactly their sectors (`RequestsSafe`) and that
  only the assertion at `ata_dispatch.c:140` fails, and only for overlapping requests
  (`AssertionsSafe`), needs none.
* `PciSafe`: `OneSegment`, one root complex covers the buses, or the ports do; `BridgesFirst`,
  a bridge is found before what is behind it, or `PciSystemEstablishHierarchy` ends in
  NOT_REACHED; `NoBridgeBehindABridge`, an object with a routing table has a `_BBN`, or the
  one right above it has, or none is above it (then the late start fails; for the rest see
  `acpi_interface.c:694` above); and `OneAccess`, one thread at a time configures a function: a
  narrow write reads, changes and writes a double word, and the ports are two
  registers, without a lock. `ConfigurationSafe` and `EnumerationSafe` are its two
  halves, each with the hypotheses it needs. That an entry names the bus behind its
  object is proved from the bridges of the machine; no hypothesis says that the namespace
  describes it. The instance of `platform` satisfies all four, but for one namespace: there
  neither an object with a table, nor its parent, nor anything above has a `_BBN`, and TLC
  shows that the late start fails.
* `PacketsSafe`: `StacksBuilt`, start-up ended with the stacks `DevicesSound` and
  `MountsExact` describe, which the run checks after every start-up of its machines.
* `NoFrameLeaked`: `FramesExact` itself is about threads that share a CPU.
* `TimeSoundSafe`: `OneChangesScreen`, the idle state does not change while another processor
  saves, clears or restores the display, and `ComparedInTime`, the time has not moved on
  by more than a tick when it is compared with a later activity. `CoreUpdateIdleTime`
  takes no lock, and both can fail with two processors (`core.c:86` and `core.c:94` above). The
  theorem is for any number of them: no other interleaving loses the screen or
  fails the assertion. That time is monotonic and waits are long enough
  (`TimeNeverBack`) needs no hypothesis.

* `RwSpinlockProofs`: `IInv` = types, `CountersExact`, exclusion; the two ASSERTs on
  `ActiveWriter` (`ActiveWriterAsserts`) follow from it. Exclusion alone is
  not inductive: a decrement of a word that did not count exactly could wrap and
  let a second writer in. Each action moves one CPU between the sets the words
  count; three lemmas on cardinality do the arithmetic.
* `SpinlockProofs`: `SpinlockInv` adds to exclusion that the lock is taken while a
  context is inside, that the holder is clear when it is not, and that only one
  context per CPU is in the functions of the lock. The last makes self-deadlock
  impossible; the first, with the armed monitors, gives `NoLostWakeup`.
* `ThreadSchedulerProofs`: `SchedulerInv` says which lock entitles a CPU to touch a
  thread: the chosen next thread belongs to the owner of `ReadyThreadsLock`, a
  blocked thread with a `BlockLock` to the CPU that has yet to release it, a woken
  thread to its waker until it is queued. From it follow one CPU per stack, the
  ready list and `CleanupAssert`, with forced exits too. `UnblockAssert` needs
  `WaitSound` besides: a waiting thread that was not told to terminate is blocked
  or on its way to `ThreadBlock` with its `BlockLock`.
* `MutexProofs`: `MutexInv`, then exclusion, `WokenOwns`, and that `Mutex` implements
  `FifoLock`: the queue of the abstract lock is the woken owner followed by the
  waiting list.
* `ProcessLifetimeProofs`, in layers, each using the earlier ones in both states of
  a step. `Structure`: who owns a thread, that two callers never work on one, what
  a creator that failed leaves behind. `Counting`: the reference count is the number
  of threads, handles and creators that owe one, and who owes the initial
  reference. `Ending`: the termination event stands for the last active thread.
  `Tables`: identifiers and lists. `UsersFindProcess` is inductive only with
  `Counting`: the object is destroyed at zero, and zero has to mean nobody.
* `MemoryProofs`, allocator: `AllocationInv` = types, reserved and disjoint frames,
  nothing handed out during boot. It rests on `ScanIsFirstFit`, what the bitmap
  search returns for every bitmap. `NoFrameLost` adds that the free frames and
  those of the callers are together what boot released, at every step of a
  request. Facts that would need induction are proved by taking a least
  counterexample (`MinIsLeast`, from the well-foundedness of the naturals).
* `MemoryProofs`, reservations: `VmInv` = types, the regions pairwise apart with
  bitmaps of their own, and for each thread what it has chosen and not yet entered:
  an address from the shared pointer, taken before the lock, is apart from every
  region and from what the other threads have chosen. While nobody is moved,
  `OneCpu` gives that an access to the metadata is announced.
* `MemoryProofs`, frames: a frame has one place, as the page of the space or of its
  metadata that maps it, in the list of the zero worker, or free (`OnePlace`: the
  places are pairwise apart and cover the frames), and the page a thread faults on is
  not mapped yet (`FaultsFresh`, the part that needs one CPU). `FramesExact` counts
  the places; the counts add up to the number of frames because the places are
  apart.
* `MemoryProofs`, heap: `BlocksApart` says pairs of blocks, not neighbours, do not
  overlap. The space the heap believes to be left is the heap less the bytes of its
  blocks and of the holes between them: the accounting is the cardinality of a set
  of bytes and needs no sum over the list. The hard part is
  `RoomIsBetweenNeighbours`: the cursor of the search may hold a previous entry that
  is stale behind the head of the list, and what it computes there is never a gap.
* `RwSpinlockProofs`, primitives: a unit of a semaphore is held once or is in its
  event (`UnitSound`), also when a wait with a time-out takes the event after it
  slept; the recursion count is what the holder has nested (`RecursionSound`), and
  nobody but the holder changes it.
* `RwSpinlockProofs`, network devices: `StackInv` adds to the property that the table
  is filled once, from the cards that work, and that what a listing has read of a card,
  in the entry it is at and in those it has copied, was true in the window since it
  began (`ListingInv`): listings write into one table under a lock they share.
* `RwSpinlockProofs`, lists: `ListInv` says that an entry is linked at one place of one
  list and that each list is a ring, place by place in both directions. The model
  reads a list by following its links, and that this returns the sequence is
  `OneWalk`: two walks from one head cannot differ, by the first place they would.
* `SignalProofs`, calls: the references of an event are counted with the CPUs still
  to handle it, the sender and its wait (`Counting`), from the passage of an event
  through the lists (`Passage`). That the handler finds an event is `Announced`: a
  list is at least as long as the senders that have yet to interrupt, the
  handler's turn and the pending request.
* `SignalProofs`, events: `EventSound` is inductive by itself, because the list of
  waiters and the signal change under one lock.
* `SignalProofs`, network: `NetInv` has the order of frames along the path list,
  ring, card, list, that the part of a ring between tail and head is exactly what
  the card or the driver has yet to see, and that a list with frames has a
  thread on its way to it or a signalled event. `FramesInOrder` alone is not
  inductive: a full ring that looked empty would reorder frames.
* `SignalProofs`, time: `TimeInv` bounds everything that was read or derived from
  the time by the time. The RTC can only move it forward because the
  microseconds count for at most a second; the handler of the RTC holds the
  second after the current one. `ScreenInv` says, for each place in
  `CoreUpdateIdleTime`, what is on the screen and in the buffer.
* `SignalProofs`, keyboard: a key that getch may still return was pressed after all
  it has returned (`FreshKey`, for the word of the handler and for what was
  read from it), so keys can be lost and never repeated; there is room for a
  character and the end until gets_s returns (`LineInv`).
* `SignalProofs`, interrupts: `IntInv` says of every registration that it is on the
  list of its vector, with a routine, and that the entry of its line or its message
  raises that vector (`RoutesInv`); of a registration that shares a vector, that its
  level has none left and that it has the first (`SharedInv`). A registration takes
  two steps, and between them the invariant says what the second one will find.
* `SignalProofs`, start: `StartupInv` ties the stage of `SystemInit` to what is set up.
  Processors are between the first and the last instruction of the trampoline
  only at the stage that waits for them, and there the count is the number of
  started ones; the set being finite, the last one is the one that signals.
* `SignalProofs`, storage: `StInv` says for each place of a request what the driver,
  the engine, the event and the handler are at, and where its data is: while no
  one was told yet, the disk is ahead of what was reported, or the buffer
  has what the disk holds. One thread at a time is served (`Served`), and once another
  has asked in the meantime, the system has stopped (`Overlapping`). `TransferTold` is what
  `HandlerKeepsUp` adds: who waits has a transfer running or a notice on its way. That the engine goes through the places of the buffer, in
  order and each once, is `TableExact`: a function marks where in the buffer each pair
  of the MDL ends (`Covers`), only the last pair reaches beyond what is asked for, and a pair
  shorter than the boundary crosses it at most once. The pairs, the table and the walk of
  the engine are recursive functions; `Recursion` gives each of them a value within
  bounds that every step keeps, and `CountingUp` is induction by a least counterexample.
* `SignalProofs`, PCI: what was found is in the order of the search and before the cursor
  (`CursorSound`), and nothing before the cursor was missed (`SearchSound`). The order is
  what makes the hierarchy work: a bridge with a lower number is earlier in the list, so it
  is among the bridges when a function behind it looks for its parent (`HierarchySound`), and it is the one a
  routing table is found to belong to (`RoutesSound`). For
  the configuration space, `AccessSound` says what a thread holds between the steps of a
  write, and `WrittenDword` that the double word it writes changes the bytes it names.
* `RwSpinlockProofs`, device stacks: `PacketsInv` says of each packet in flight, the one that is
  served and those that wait for it, that its location is the depth of the device it is
  at less one, or the depth of its target while it was not sent (`Fits`). A stack is one deeper
  than the device it is attached to, so passing a packet down keeps this, and at the lowest
  device no location is left. Start-up is a fold over what the machine has, and stays a
  hypothesis here.

Only model-checked:

* all liveness (fairness and ENABLED are outside the prover);
* what is computed by a RECURSIVE operator, which hides a module from the SMT solver,
  or by a fold over sets and sequences of results: mapping and unmapping in `Paging`,
  the walk of a path in `Fat32`, the scanners and formatting of `Strings`, the
  initialisation of disks and volumes in `DeviceStacks`. A walk of links
  can be turned into a relation, as for lists, and a loop into a recursive function,
  as for the DMA table; these carry more than one result along the way;
* the partitions a boot record describes (`PartitionsFrom`): the theorems on `Storage`
  hold for any layout.

## 5. Not modelled, and what is left

Not modelled: code that only formats, prints or dumps; the HAL's wrappers around
instructions; descriptor tables and the instructions of the trampoline; ACPICA and
other third-party code; compiler support; in-kernel tests; system calls, whose
handler implements none; caching attributes of pages; thread priorities, which
nothing reads to choose a thread. `hash_table.c` is not part of the build: it calls
a search and an iterator that `list.h` does not have.

Left, in order:

1. Theorems: the stacks start-up builds (`DevicesSound`, `MountsExact`) for every machine,
   `PagingSound` with its loops as recursive functions.
2. Compositions: `Mutex` and `ExEvent` over `ThreadScheduler` (block and unblock
   expanded), `ProcessLifetime` over `ThreadScheduler`, `Fat32` over `Storage`.
3. Progress: a terminated process ends, a closed one is freed; a request to the
   disk returns; a frame that was queued is sent.

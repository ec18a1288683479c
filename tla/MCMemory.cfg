SPECIFICATION MCSpec
CONSTANTS
  PageSize = 2
  OneMB = 4
  MemoryMaps <- AlignedMaps
  Callers = {a, b}
  MaxFrames = 3
  MAX_DWORD = 255
  VmThreads = {t1, t2}
  VmCpus = {c1, c2}
  VaPages = 3
  BitmapPages = 2
  VmFrames = {1, 2, 3, 4}
  TableSpan = 2
  NumberOfFrames = 3
  MaxMigrations = 1
  HeaderSize = 3
  EntrySize = 2
  TailSize = 1
  HeapSize = 36
  Requests <- HeapRequests
  Fans <- TableWidths
  PhysFrames = 26
  UsableRam <- Firmware
  PageBytes = 4
  KernelImage <- Hal9000Image
  UserImages <- Programs
  ReservedFrames = 4
  PgProcesses = {p1, p2}
  DeviceFrames = {0}
  UserBuffers <- Buffers
SYMMETRY Symmetry
INVARIANT AllocationInv
INVARIANT NoFrameLost
PROPERTY FirstFit
INVARIANT HeapInv
INVARIANT ReservationsSound
INVARIANT FramesExact
INVARIANT PagingSound
\* The heap stops at an assertion, the address space when it is used up.
CHECK_DEADLOCK FALSE

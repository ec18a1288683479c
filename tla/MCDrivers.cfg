SPECIFICATION MCSpec
CONSTANTS
  Threads = {t1, t2, t3}
  MaxSignals = 3
  Nobody = Nobody
  ScanCodes <- Codes
  BufferSize = 3
  MaxScans = 5
  NetThreads = {n1, n2}
  TxDescriptors = 2
  RxDescriptors = 2
  MaxSent = 3
  MaxArrived = 2
  MaxStatusChanges = 2
  DriverTables <- Tables
  Hardware <- Machines
  LastLetter = 24
  Slots <- Cards
  FailAt <- Failures
  Stackers = {s1, s2}
  MaxSwitches = 2
  StThreads = {"t1", "t2"}
  StSmp = FALSE
  SectorSize = 2
  PageSectors = 2
  DmaBoundary = 4
  TotalSectors = 12
  BootRecords <- Boot
  BufferFrames <- Frames
  StRequests <- Asks
  MaxRequests = 3
  FatThreads = {f1, f2}
  FatNames = {"f", "d"}
  Clusters = 7
  SectorsPerCluster = 2
  FirstDataSector = 4
  EntriesPerCluster = 4
  VolumeFat <- Fat
  VolumeDirs <- Dirs
  VolumeFsInfo <- FsInfo
  FatOffsets = {0, 2, 4, 6}
  FatLengths = {2, 4}
  MaxCreated = 3
  MaxPosition = 2
SYMMETRY AnyThread
INVARIANT EventSound
INVARIANT ConsoleSound
INVARIANT FramesInOrder
INVARIANT NoticesPending
INVARIANT DeviceStacksSound
INVARIANT NetworkStackSound
INVARIANT RequestsExact
INVARIANT TransferSound
INVARIANT FileSystemSound
\* Threads that wait for a signal nobody sends any more stay blocked, and a
\* failed assertion stops the disk or the file system.
CHECK_DEADLOCK FALSE

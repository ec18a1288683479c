SPECIFICATION MCSpec
CONSTANTS
  c1 = c1
  c2 = c2
  c3 = c3
  e1 = e1
  e2 = e2
  NoEvent = NoEvent
  CPUs = {c1, c2, c3}
  Events = {e1, e2}
  Calls <- AllCalls
  MadtEntries <- MadtTable
  BspId = 0
  MachineCpus = {0, 1, 2}
  IntRequests <- Devices
  VectorsPerIrql = 2
  IoApics <- TwoIoApics
  AcpiOverrides <- OneOverride
  AcpiPrt <- OneRoute
  Functions <- Machine
  NoOfBuses = 3
  NoOfSlots = 3
  McfgTables <- Mcfgs
  AcpiNamespaces <- Namespaces
  SpaceSize = 8
  PciBytes = {0, 1}
  PciThreads = {"t1"}
  TimeCpus = {"bsp", "ap"}
  Bsp = "bsp"
  CoreCpus = {"bsp"}
  SecondUs = 2
  TimerInterruptTimeUs = 2
  IdlePeriods = {2, 3}
  TimerTypes = {"Absolute", "Periodic"}
  TimerTimes = {3}
  TimerThreads = {"t1"}
  MaxSeconds = 2
  MaxMicroseconds = 3
INVARIANT CallsSound
PROPERTY WaitReturns
INVARIANT StartupSound
INVARIANT InterruptsSound
INVARIANT PciSound
INVARIANT TimeSound
\* All calls have returned, or a merged interrupt has left a sender waiting;
\* the system has started; an assertion has stopped it.
CHECK_DEADLOCK FALSE

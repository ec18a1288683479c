SPECIFICATION FairSpec
CONSTANTS
  c1 = c1
  c2 = c2
  c3 = c3
  NoCpu = NoCpu
  CPUs = {c1, c2, c3}
  MonitorSupport = TRUE
  UsesTryAcquire = TRUE
INVARIANT SpinlockInv
PROPERTY LockIsTaken
\* A CPU stops at an assertion that fails.
CHECK_DEADLOCK FALSE

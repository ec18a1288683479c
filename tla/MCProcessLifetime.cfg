SPECIFICATION Spec
CONSTANTS
  p1 = p1
  p2 = p2
  t1 = t1
  t2 = t2
  k1 = k1
  k2 = k2
  c1 = c1
  None = None
  Processes = {p1, p2}
  Threads = {t1, t2}
  Creators = {k1, k2}
  CPUs = {c1}
  MaxPid = 3
  Spawns = TRUE
  SetupFails = TRUE
SYMMETRY Symmetry
INVARIANT UsersFindProcess
INVARIANT TerminationIsFinal
INVARIANT NoStaleTranslations
INVARIANT CountersExact
\* Every process has been created and freed, or runs for ever.
CHECK_DEADLOCK FALSE

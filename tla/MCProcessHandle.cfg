SPECIFICATION Spec
CONSTANTS
  p1 = p1
  t1 = t1
  k1 = k1
  c1 = c1
  None = None
  Processes = {p1}
  Threads = {t1}
  Creators = {k1}
  CPUs = {c1}
  MaxPid = 2
  Spawns = FALSE
  SetupFails = FALSE
SYMMETRY Symmetry
INVARIANT CreatedProcessValid
\* Every process has been created and freed, or runs for ever.
CHECK_DEADLOCK FALSE

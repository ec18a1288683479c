SPECIFICATION Spec
CONSTANTS
  c1 = c1
  c2 = c2
  i1 = i1
  i2 = i2
  m1 = m1
  m2 = m2
  CPUs = {c1, c2}
  Threads = {i1, i2, m1, m2, w1}
  Idle <- Idle2
  Main <- Main2
  Victims = {w1}
  Nobody = Nobody
INVARIANT UnblockAssert
INVARIANT SchedulerInv

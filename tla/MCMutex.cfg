SPECIFICATION FairSpec
CONSTANTS
  Threads = {t1, t2, t3, t4}
  MaxRecursivityDepth = 3
  Nobody = Nobody
INVARIANT MutexInv
PROPERTY FifoSpec
PROPERTY WaiterServed

SPECIFICATION Spec
CONSTANTS
  Threads = {t1, t2, t3}
  Keys = {k1}
  Locks = {o1, o2}
  MaxDepth = 2
  Modes <- ReadWrite
  NoKey = NoKey
  NoLock = NoLock
CHECK_DEADLOCK FALSE
INVARIANTS MutualExclusion LocksInUse NoLostWakeup
PROPERTY ImplementsMutex

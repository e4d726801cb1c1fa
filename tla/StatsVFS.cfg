SPECIFICATION SpecStats
CONSTANTS
  r1 = r1
  r2 = r2
  A = A
  B = B
  Requests = {r1, r2}
  Threads <- Workers
  Keys = {A, B}
  Locks = {o1, o2}
  MaxDepth = 2
  Modes <- Exclusive
  NoKey = NoKey
  NoLock = NoLock
INVARIANTS TypeOK NoDeadlock
PROPERTIES RefusedForCause EveryReadAnswered

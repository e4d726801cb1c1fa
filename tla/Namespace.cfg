SPECIFICATION Spec
CONSTANTS
  Paths <- FewPaths
  Ids = {0, 1, 2, 3, 4}
  NoId = NoId
  RootId = 0
  Directories <- Folders
  Initial <- AtFirst
  TTL = 2
  Slow = 1
  Threads = {t1, t2}
  MaxCalls = 2
SYMMETRY Symmetric
\* The run ends when the calls are used up.
CHECK_DEADLOCK FALSE
INVARIANTS TypeOK StaleBounded HiddenBounded FoundIsDescribed FoundIsListed

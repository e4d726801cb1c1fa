SPECIFICATION Spec
CONSTANTS
  Threads = {t1, t2}
  Uploaders = {u1}
  Files <- AnyFile
  Offsets = {1}
  Lengths = {0}
  MaxHandles = 2
  MaxCalls = 2
\* The run ends when the handles and calls are used up.
CHECK_DEADLOCK FALSE
INVARIANTS TypeOK ContentExact InPlace SizeMatches
PROPERTY CallsReturn

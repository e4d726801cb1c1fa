SPECIFICATION Spec
CONSTANTS
  Threads = {t1}
  Uploaders = {u1}
  Files <- NoFileYet
  Offsets = {0, 1}
  Lengths = {0, 1}
  MaxHandles = 2
  MaxCalls = 2
\* The run ends when the handles and calls are used up.
CHECK_DEADLOCK FALSE
INVARIANT EditKeepsContent

SPECIFICATION Spec
CONSTANTS
  a0 = a0
  a1 = a1
  b0 = b0
  Keys = {a0, a1, b0}
  Files <- FileOf
  Sizes = {1, 2, 4}
  MaxChunks = 2
  MaxBytes = 3
  MaxCalls = 6
\* The run ends when the calls are used up.
CHECK_DEADLOCK FALSE
INVARIANTS TypeOK BytesExact WithinLimits MarksPresent
PROPERTY EvictsOldest

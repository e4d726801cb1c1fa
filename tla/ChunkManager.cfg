SPECIFICATION Spec
CONSTANTS
  Readers = {r1, r2}
  NumChunks = 2
  Ahead = 1
  Pools <- OneEach
  Sequential = {TRUE}
  UseDisk = TRUE
  MaxReads = 2
  MaxEdits = 0
  MaxEvictions = 0
\* The run ends when the reads and the edits are used up.
CHECK_DEADLOCK FALSE
SYMMETRY Symmetric
INVARIANTS TypeOK WaitsForLiveFuture NoLeftover CallsAccounted

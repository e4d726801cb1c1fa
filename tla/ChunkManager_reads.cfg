SPECIFICATION FairSpec
CONSTANTS
  Readers = {r1, r2}
  NumChunks = 1
  Ahead = 1
  Pools <- OneEach
  Sequential = {FALSE}
  UseDisk = TRUE
  MaxReads = 2
  MaxEdits = 2
  MaxEvictions = 1
\* The run ends when the reads and the edits are used up.
CHECK_DEADLOCK FALSE
INVARIANTS  CallsAccounted
PROPERTY ReadsReturn

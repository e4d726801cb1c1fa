SPECIFICATION FairSpec
CONSTANTS
  Existing = {f}
  Underscored = {}
  Cut = Cut
  Clients = {c1}
  Boot = Boot
  Workers = {w1, w2}
  Outcomes = {"ok", "late", "quota"}
  Attempts = 2
  Faults = {"save", "load", "name"}
  MaxVersions = 2
  MaxTime = 1
  MaxRetries = 1
  MaxCrashes = 1
\* The run ends when every handle is released and every job settled.
CHECK_DEADLOCK FALSE
INVARIANTS TypeOK QueuedDataPresent OnlyReleasedSent NoStrandedJob
           OneFilePerRequest
PROPERTY JobsSettle

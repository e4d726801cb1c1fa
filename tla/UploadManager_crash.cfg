SPECIFICATION Spec
CONSTANTS
  Existing = {f}
  Underscored = {}
  Cut = Cut
  Clients = {c1}
  Boot = Boot
  Workers = {w1, w2}
  Outcomes = {"ok"}
  Attempts = 1
  Faults = {}
  MaxVersions = 1
  MaxTime = 0
  MaxRetries = 1
  MaxCrashes = 1
\* The run ends when every handle is released and every job settled.
CHECK_DEADLOCK FALSE
INVARIANT CrashLosesNothing

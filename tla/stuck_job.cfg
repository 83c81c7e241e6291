CONSTANTS
  Jobs = {j1, j2}
  Pollers = {p1, p2}
  MaxAttempts = 2
  BatchSize = 2
  Failures = {"transient", "permanent", "crash"}
  NoJob = NoJob
SPECIFICATION FairJobSpec
PROPERTIES RunningIsResolved
CHECK_DEADLOCK FALSE

CONSTANTS
  Jobs = {j1, j2}
  Pollers = {p1, p2}
  MaxAttempts = 2
  BatchSize = 2
  Failures = {"transient", "permanent"}
  NoJob = NoJob
SPECIFICATION JobSpec
INVARIANTS NoDoubleProcessing
CHECK_DEADLOCK FALSE

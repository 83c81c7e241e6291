CONSTANTS
  Workers = {w1, w2}
  Contracts = {c1}
  Cases = {k1}
  Installments = {n1}
  Values = {0}
  Amounts = {3}
  Operations = {"contract.create", "contract.submit", "contract.approve", "contract.send", "contract.sign", "contract.status", "case.create", "closure.handover", "closure.close", "closure.confirm"}
  ApprovalThreshold = 15
  MaxAmendments = 0
  StartSigned = FALSE
  None = None
  Jobs = {j1, j2}
  Pollers = {p1, p2}
  MaxAttempts = 3
  BatchSize = 2
  Failures = {"transient", "permanent", "crash"}
  NoJob = NoJob
SPECIFICATION FairLivenessSpec
PROPERTIES ConfirmedIsFinalized RequestsAreAnswered OnlyDeathsAbandon JobsAreSettled
CHECK_DEADLOCK FALSE

CONSTANTS
  Workers = {w1, w2}
  Contracts = {c1}
  Cases = {k1}
  Installments = {n1}
  Values = {10}
  Amounts = {3}
  Operations = {"contract.status", "payment.create", "payment.record", "payment.refund"}
  ApprovalThreshold = 15
  MaxAmendments = 0
  StartSigned = TRUE
  None = None
SPECIFICATION Spec
PROPERTIES ActivationFunded
CHECK_DEADLOCK FALSE

CONSTANTS
  Workers = {w1}
  Contracts = {c1}
  Cases = {k1}
  Installments = {n1}
  Values = {10}
  Amounts = {3}
  Operations = {"contract.status", "payment.create", "payment.record", "closure.handover", "closure.close"}
  ApprovalThreshold = 15
  MaxAmendments = 0
  StartSigned = TRUE
  None = None
SPECIFICATION Spec
INVARIANTS CaseAndContractInSync
CHECK_DEADLOCK FALSE

CONSTANTS
  Workers = {w1, w2}
  Contracts = {c1}
  Cases = {k1}
  Installments = {n1}
  Values = {10}
  Amounts = {3, 6}
  Operations = {"contract.status", "payment.create", "payment.record", "payment.refund", "payment.waive", "case.status", "closure.handover", "closure.close", "closure.confirm", "crash"}
  ApprovalThreshold = 15
  MaxAmendments = 0
  StartSigned = TRUE
  None = None
SPECIFICATION Spec
SYMMETRY Sym
INVARIANTS ClosureFollowsHandover ClosureIsUnified NoOverpayment SettledMeansCovered
PROPERTIES AgreementSpec SignedMovesForward
CHECK_DEADLOCK FALSE

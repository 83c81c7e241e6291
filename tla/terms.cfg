CONSTANTS
  Workers = {w1}
  Contracts = {c1}
  Cases = {k1}
  Installments = {n1, n2}
  Values = {10, 20}
  Amounts = {3, 6}
  Operations = {"contract.create", "contract.update", "contract.submit", "contract.approve", "contract.reject", "contract.send", "contract.sign", "contract.status", "contract.amend", "payment.create", "payment.record", "payment.refund", "payment.waive", "payment.overpay", "payment.list", "case.create", "crash"}
  ApprovalThreshold = 15
  MaxAmendments = 2
  None = None
  StartSigned = FALSE
SPECIFICATION Spec
INVARIANTS ApprovalAuthority AmendmentHistory LedgerAgrees
PROPERTIES ActivationFunded TermsChangeByAmendment

CONSTANTS
  Workers = {w1}
  Contracts = {c1, c2}
  Cases = {k1, k2}
  Installments = {n1}
  Values = {10}
  Amounts = {3}
  Operations = {"contract.create", "contract.submit", "contract.approve", "contract.send", "contract.sign", "contract.status", "payment.create", "payment.record", "case.create", "case.status", "case.work", "closure.handover", "closure.close", "closure.confirm", "crash"}
  ApprovalThreshold = 15
  MaxAmendments = 0
  None = None
  StartSigned = FALSE
SPECIFICATION Spec
INVARIANTS OneActiveCase
PROPERTIES CloseSettlesContract
SYMMETRY Sym
CHECK_DEADLOCK FALSE

CONSTANTS
  Slots = {r1, r2}
  Tasks = {t1, t2, t3}
  Sources = {x1, x2}
  Templates <- MCTemplates
  Leads = {l1, l2}
  Students = {s1, s2}
  Users = {u1, u2}
  Person <- MCPerson
  NoOne = NoOne
  Intakes = {i1}
  Offers = {o1, o2}
  Enrollments = {e1, e2}
  Scholarships = {g1}
  None = None
  Required = {q1, q2}
  Extra = {q3}
  MaxVersions = 2
  Artifacts = {w1}
  MaxTextVersions = 3
  Transactions = {c1, c2}
  Rules = {p1}
  Rates = {ra, rb}
  Paid = {pa, pb}
  Links = {k1}
  Referred = {f1, f2}
  NoAmount = NoAmount
  NoRule = NoRule
  NoReferral = NoReferral
  Keys = {y1, y2}
  Bodies = {b1, b2}
  MaxExecutions = 4
  NoAnswer = NoAnswer
  Workers = {d1, d2, d3}
  Sequences = {n1, n2}
  MaxNumber = 2
  Nobody = Nobody
SPECIFICATION OfficeSpec
INVARIANTS NoTaskCycle GenerationIsComplete ConvertedHasCase OneFile DecisionsAreBacked EnrollmentHolds OneAnswerPerKey CodesAreUnique
PROPERTIES DoneRestsOnDone TransferLeavesOneOwner VisaHolds CommissionStands BaselinesHold FinalStands
CHECK_DEADLOCK FALSE

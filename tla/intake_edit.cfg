CONSTANTS
  Slots = {r1}
  Sources = {a1, a2}
  Intakes = {i1, i2}
  Offers = {o1}
  Enrollments = {e1}
  Scholarships = {g1}
  None = None
  Templates <- MCTemplates
SPECIFICATION AdmissionSpec
INVARIANT OneActiveApplication
CHECK_DEADLOCK FALSE

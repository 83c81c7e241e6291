CONSTANTS
  Slots = {r1, r2}
  Papers = {p1, p2}
SPECIFICATION PapersSpec
INVARIANT OneInForce
CHECK_DEADLOCK FALSE

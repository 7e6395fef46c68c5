SPECIFICATION Spec
CONSTANTS
  Requests = {r1, r2}
  Stops = {s1}
  Targets <- OnlyMSA
  Discipline <- Dashboard
  Nil = Nil
INVARIANTS ReapedAfterMainEnds
CHECK_DEADLOCK FALSE

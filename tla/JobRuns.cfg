SPECIFICATION Spec
CONSTANTS
  Requests = {r1, r2}
  Stops = {s1}
  Targets <- AllShapes
  Discipline <- AnyUser
  Nil = Nil
INVARIANTS CmdOwnerWaits OneReaper ReapedAfterMainEnds
PROPERTIES OnlyResetForgets ImplementsLifecycle StopTerminates
CHECK_DEADLOCK FALSE

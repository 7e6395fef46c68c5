SPECIFICATION Spec
CONSTANTS
  PipeSize = 2
  MaxLines = 4
INVARIANTS LogsArePrefix ReportIsTrue
PROPERTIES RunGoesOn EventuallyLogged
CHECK_DEADLOCK FALSE

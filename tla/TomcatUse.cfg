SPECIFICATION Spec
CONSTANTS
  WarRuns = {w1, w2}
  RspSetups = {s1}
  Files = 3
  Script = 1
INVARIANTS ReadyHasScript SettledIsWhole
PROPERTIES SavedIsInstalled

SPECIFICATION Spec
CONSTANTS
  Jobs <- PairJobs
  Base <- PairBase
  Dep <- PairDep
  Backend <- PairBackend
  Range = 2
  MaxPort = 3
INVARIANTS UpOnShownPort ProxyIsLive
PROPERTIES  TargetsDoNotCollide

SPECIFICATION Spec
CONSTANTS
  Jobs = {j1, j2}
  Setups = {s1}
  Stops = {p1}
  Ports <- TwoPorts
  DefaultPort = 8080
  FilesFail = TRUE
  Discipline = "oneSetup"
  Nobody = Nobody
INVARIANTS
  ManagedHasAddress
  OneAddress
PROPERTIES
  StopReleasesAll
SYMMETRY JobsAreAlike

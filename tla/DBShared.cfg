SPECIFICATION Spec
CONSTANTS
  Calls = {c1, c2}
  Projects <- Shared
  Layout <- CatalogLayout
  Files = 1
  Nobody = Nobody
INVARIANTS
  SharedDataSurvives

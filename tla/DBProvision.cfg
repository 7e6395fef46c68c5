SPECIFICATION Spec
CONSTANTS
  Calls = {c1, c2}
  Projects <- Templates
  Layout <- CatalogLayout
  Files = 2
  Nobody = Nobody
PROPERTIES
  NeverWiped
  NoScriptMissing
SYMMETRY CallsAreAlike

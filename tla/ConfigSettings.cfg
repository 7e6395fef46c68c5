SPECIFICATION Spec
CONSTANTS
  Forms = {f1, f2}
  Installers = {i1}
  Workspaces = {work, flag}
  Homes = {jdk17, jdk21}
  Tomcats = {installed, own}
  DefaultWorkspace = work
  FlagWorkspace = flag
  DefaultHome = jdk17
  InstalledTomcat = installed
  Unset = Unset
  Serial = TRUE
  MaxRestarts = 1
SYMMETRY FormsAreAlike
INVARIANTS FileIsCurrent RunnerFollowsConfig SavedSettingsSurvive
PROPERTIES PartialUpdate
CHECK_DEADLOCK FALSE

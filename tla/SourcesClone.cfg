SPECIFICATION SrcSpec
CONSTANTS
  Targets <- OneTarget
  Workspaces <- TwoWorkspaces
  Polls = {"p1"}
  HasDB <- OneTarget
  MaxClones = 3
  MaxCrashes = 2
INVARIANTS SrcTypeOK PatchedOnce DoneMeansReady 
PROPERTIES SourcesSurvive

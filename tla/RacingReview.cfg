\* One activity of one tenant, two admins.
SPECIFICATION Spec
CONSTANTS
  ACTIVITY_FREEZE_ATTEMPT_COUNT = 500
  Tenants = {"demo"}
  Demo = "demo"
  Activities = {"lab"}
  Skills = {"services"}
  Editors = {h1, h2}
  Cli = cli
  MaxVersion = 1
  MaxStarts = 6
  Seeds <- TwoSeeds
  Files <- OneFile
SYMMETRY EditorSymmetry
PROPERTY RacesConflict
CHECK_DEADLOCK FALSE

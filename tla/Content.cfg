\* Two tenants, one activity in two versions, two admins and one script at a time.
SPECIFICATION Spec
CONSTANTS
  ACTIVITY_FREEZE_ATTEMPT_COUNT = 500
  Tenants = {"demo", "other"}
  Demo = "demo"
  Activities = {"lab"}
  Skills = {"services"}
  Editors = {h1, h2}
  Cli = cli
  MaxVersion = 2
  MaxStarts = 6
  Seeds <- TwoSeeds
  Files <- OneFile
SYMMETRY EditorSymmetry
INVARIANT CatalogIsHonest
INVARIANT SeededMeansGated
PROPERTY PublishedWasApproved
CHECK_DEADLOCK FALSE

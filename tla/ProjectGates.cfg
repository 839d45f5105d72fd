\* Two requests on one project of two milestones, a viva, one death.
SPECIFICATION Spec
CONSTANTS
  Keys <- TwoKeys
  Requests = {h1, h2}
  Envs = {e1}
  NoEnv = NoEnv
  TaskCount = 1
  Levels = {2, 4}
  Questions = {0}
  Specs <- WithoutRubric
  MaxSubmits = 2
  MaxTurns = 3
  MaxVivas = 1
  MaxDeaths = 1
SYMMETRY RequestSymmetry
INVARIANT UnlockIsRecorded
INVARIANT FinalIsComplete
INVARIANT OneScorePerViva
PROPERTY ClimbsTheLadder
CHECK_DEADLOCK FALSE

\* Two requests and the command consumer on one attempt of one task.
SPECIFICATION Spec
CONSTANTS
  Tasks <- OneTask
  Profiles <- SCORING_PROFILE_REGISTRY
  Histories <- LongRetry
  MaxLevel = 2
  HintCost <- Costs
  Commands = {"rollback"}
  Forbidden = {"rollback"}
  GoodActions = {}
  BadActions = {"rollback"}
  Paths <- OnePath
  Requests = {h1, h2}
  MaxRequests = 3
  MaxCommands = 1
  MaxAborts = 1
SYMMETRY RequestSymmetry
INVARIANT LadderInOrder
INVARIANT CountersMatchLog
INVARIANT RowIsTrueOfSomePast
INVARIANT ScoreIsFair
CHECK_DEADLOCK FALSE

SPECIFICATION Spec
CONSTANTS
  Handlers = {h1, h2}
  Attempts = {a1}
  Providers <- TwoProviders
  Limit <- Tight
  SignalsSeen <- Some
  TextsSeen <- NothingOrAll
  EstCost <- Estimates
  Costs <- Actual
  ERROR_LIMIT = 3
  COOLDOWN = 1
  DAY = 1
  MONTH = 2
  MAX_ENTRIES = 1
  MaxQuestions = 3
  MaxNow = 1
  MaxDeaths = 1
INVARIANT SpendIsAccounted
INVARIANT ShownWithinCeiling
PROPERTY EveryQuestionEnds
CHECK_DEADLOCK FALSE

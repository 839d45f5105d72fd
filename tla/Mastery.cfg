\* Two requests of one learner, who has a rating in one of two skills; three
\* activities.
SPECIFICATION Spec
CONSTANTS
  ACTIVITY_FREEZE_ATTEMPT_COUNT = 1
  Skills <- TwoSkills
  Edges <- BuildsOn
  Activities <- ThreeActivities
  Handlers = {h1, h2}
  Outcomes <- PassOrFail
  SeededSkills <- OnlyDocker
  Waits = {400}
  MaxTime = 800
  MaxAttempts = 2
  MaxAborts = 1
  ColdTopics = {"basics"}
  Limit = 1
SYMMETRY HandlerSymmetry
INVARIANT RatingCountsEveryMatch
INVARIANT EvidenceExplainsMastery
INVARIANT DeadlockNeedsFirstMatch
INVARIANT StruggleIsAnswered
CHECK_DEADLOCK FALSE

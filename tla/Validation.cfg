\* Sixteen validators, two validation runs of two attempts each, one edit, two
\* executions at a time that were given up;
\* every state of a lab in content-ci; one artifact graded.
SPECIFICATION Spec
CONSTANTS
  Validators <- SomeValidators
  Window = 2
  maxAttempts = 2
  MaxRuns = 2
  MaxEdits = 1
  MaxLate = 2
  FLAKE_RUNS = 3
  Criteria = {"cause", "fix"}
  Levels <- RubricLevels
  SampleCounts <- CountsTried
  LlmProviders = {"", "groq", "anthropic", "openai"}
INVARIANT VerdictIsEarned
INVARIANT GradeIsHonest
INVARIANT CiRunIsSound
CHECK_DEADLOCK FALSE

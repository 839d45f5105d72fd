\* One attempt whose environment is torn down by two callers at once.
SPECIFICATION Spec
CONSTANTS
  Attempts = {a1}
  Handlers = {h1}
  Envs = {e1, e2, e3}
  Reapers = {idle, budget}
  NoEnv = NoEnv
  NoAttempt = NoAttempt
  Quota = 1
  MaxVersion = 10
  MaxAborts = 0
SYMMETRY Symmetry
INVARIANT OneEnvironmentPerAttempt
CHECK_DEADLOCK FALSE

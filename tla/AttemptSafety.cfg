SPECIFICATION Spec
CONSTANTS
  Attempts = {a1}
  Handlers = {h1, h2}
  Envs = {e1, e2}
  Reapers = {idle, budget}
  NoEnv = NoEnv
  NoAttempt = NoAttempt
  Quota = 1
  MaxVersion = 7
  MaxAborts = 1
INVARIANT TypeOK
INVARIANT RequestsAreLogged
INVARIANT ScoredOncePerSubmit
INVARIANT ActivityStateIsVerdict
PROPERTY DestroyNeverRegressesVerdict
SYMMETRY Symmetry
CHECK_DEADLOCK FALSE

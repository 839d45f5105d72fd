SPECIFICATION Spec
CONSTANTS
  Accounts = {c1}
  Attempts = {a1}
  NoAccount = NoAccount
  NoAttempt = NoAttempt
  MaxCrashes = 0
PROPERTY QuarantineIsHeld

SPECIFICATION FairSpec
CONSTANTS
  Accounts = {c1}
  Attempts = {a1}
  NoAccount = NoAccount
  NoAttempt = NoAttempt
  MaxCrashes = 1
PROPERTY NukingResolves
PROPERTY AvailableIsIndexed
PROPERTY ChangesHandsInThePool

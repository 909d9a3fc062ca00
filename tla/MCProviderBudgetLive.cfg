CONSTANTS
  Workers = {w1, w2}
  Keys = {k1, k2}
  MaxClaims = 3
  Accounts <- MCAccounts
  Counts = {1, 2}
  MaxOutput = 2
  Duration = 2
  Excess = 0
  StoreFaults = FALSE
  Crashes = FALSE
  Unlimited = Unlimited
  NoKey = NoKey
SPECIFICATION FairSpec
PROPERTY LateCostRecorded
CHECK_DEADLOCK FALSE

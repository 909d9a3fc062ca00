CONSTANTS
  Workers = {w1, w2}
  Keys = {k1, k2, k3, k4}
  MaxClaims = 3
  Accounts <- MCAccounts
  Counts = {1, 2}
  MaxOutput = 2
  Duration = 2
  Excess = 1
  StoreFaults = TRUE
  Crashes = TRUE
  Unlimited = Unlimited
  NoKey = NoKey
SPECIFICATION Spec
SYMMETRY Symmetric
INVARIANTS TypeOK SpendWithinLimit LedgerCoversSpend SettledAsSpent
PROPERTY ClaimsReserveInOrder
CHECK_DEADLOCK FALSE

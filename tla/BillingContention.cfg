CONSTANTS
  Requests = {r1, r2}
  Quotas = {0, 1, 2}
  Preferences = {"wallet_only", "wallet_first", "subscription_first", "subscription_only"}
  Kinds = {"relay", "realtime", "task"}
  Playgrounds = {FALSE}
  WalletInit = 3
  TokenInit = 4
  SubTotal = 3
  TrustQuota = 2
  FeeQuota = 0
  TokenUnlimited = FALSE
  HasSubscription = TRUE
  AllowWalletOverflow = TRUE
  Failing = FALSE
SYMMETRY Symmetry
SPECIFICATION Spec
INVARIANTS TypeOK OpenKeepsReservation
PROPERTIES PreConsumeNeverOverdraws ChargesSource ChargesToken
CHECK_DEADLOCK FALSE

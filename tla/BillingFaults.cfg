CONSTANTS
  Requests = {r1}
  Quotas = {0, 1, 2, 3}
  Preferences = {"wallet_only", "wallet_first", "subscription_first", "subscription_only"}
  Kinds = {"relay", "realtime", "task"}
  Playgrounds = {TRUE, FALSE}
  WalletInit = 3
  TokenInit = 3
  SubTotal = 3
  TrustQuota = 2
  FeeQuota = 1
  TokenUnlimited = FALSE
  HasSubscription = TRUE
  AllowWalletOverflow = TRUE
  Failing = TRUE
SPECIFICATION FairSpec
INVARIANTS SettledExactly RefundedFully DeniedCostsNothing NeverOverReturned OpenKeepsReservation
PROPERTIES RefundHappens RequestEnds ChargesSource ChargesToken
CHECK_DEADLOCK FALSE

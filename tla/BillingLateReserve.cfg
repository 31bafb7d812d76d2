CONSTANTS
  Requests = {r1}
  Quotas = {0, 1}
  Preferences = {"wallet_only"}
  Kinds = {"realtime"}
  Playgrounds = {FALSE}
  WalletInit = 3
  TokenInit = 3
  SubTotal = 0
  TrustQuota = 0
  FeeQuota = 0
  TokenUnlimited = FALSE
  HasSubscription = FALSE
  AllowWalletOverflow = FALSE
  Failing = FALSE
SPECIFICATION Spec
INVARIANTS RealtimeEndHoldsNothing
CHECK_DEADLOCK FALSE

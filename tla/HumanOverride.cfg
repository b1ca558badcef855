CONSTANTS
  Payments <- MCPayments
  Transactions <- MCTransactions
  MaxTokens = 2
  Whitelist = {"vendor"}
  AmountThreshold = 4
  ChannelCeiling = 1
  FastPathCeiling = 3
  MaxRateAge = 0
  FrequencyWindow = 1
  FrequencyLimit = 1
  ClockSkew = 0
  Rates = {1}
  MaxClock = 3
  MaxAudits = 3
SPECIFICATION OverrideSpec
INVARIANTS BroadcastAuthorized ResetBoundToEpisode
CHECK_DEADLOCK FALSE

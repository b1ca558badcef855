CONSTANTS
  Payments <- MCPayments
  Whitelist = {"vendor"}
  AmountThreshold = 4
  ChannelCeiling = 1
  FastPathCeiling = 3
  MaxRateAge = 1
  FrequencyWindow = 2
  FrequencyLimit = 2
  ClockSkew = 1
  Rates = {1, 3}
  MaxClock = 3
  MaxAudits = 4
SPECIFICATION RiskSpec
INVARIANTS TypeOK RecentLogComplete VelocityBound FreezeEpisode

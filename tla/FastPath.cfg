CONSTANTS
  Intents <- MCIntents
  MidValueCap = 2
  FrequencyWindow = 2
  FrequencyLimit = 2
  ClockSkew = 1
  Rates = {1, 3}
  MaxClock = 4
  MaxDecisions = 5
  Whitelist = {}
  AmountThreshold = 4
  ChannelCeiling = 1
  FastPathCeiling = 2
  MaxRateAge = 1
SPECIFICATION FastSpec
INVARIANT FastPathVelocity

CONSTANTS
  Payments <- MCPayments
  Quotations <- MCQuotations
  HasRouter = TRUE
  Quorums <- MCQuorums
  CurveOrder = 3
  RawLimit = 1
  MaxRestarts = 1
  LedgerDelta = 1
  MaxLedger = 2
  Whitelist = {"merchant"}
  AmountThreshold = 4
  ChannelCeiling = 1
  FastPathCeiling = 3
  MaxRateAge = 1
  FrequencyWindow = 1
  FrequencyLimit = 1
  ClockSkew = 0
  Rates = {0, 1}
  MaxClock = 2
  MaxAudits = 3
SPECIFICATION X402Spec
INVARIANTS X402TypeOK HeaderPaysAsJudged DepartureVelocity SignaturesStand
PROPERTY FreezeStopsBothRails

CONSTANTS
  Payments <- MCXrpPayments
  Txs <- MCXrpTxs
  SignableTypes = {"Payment"}
  Backends <- MCBackends
  ExpectedSigners <- MCSigners
  ExpectedQuorum = 2
  Subjects <- MCSubjects
  Wirings <- MCFullWiring
  Accounts <- MCAccounts
  MaxChanges = 0
  Whitelist = {"vendor"}
  AmountThreshold = 4
  ChannelCeiling = 1
  FastPathCeiling = 3
  MaxRateAge = 1
  FrequencyWindow = 1
  FrequencyLimit = 1
  ClockSkew = 1
  Rates = {0, 1}
  MaxClock = 1
  MaxAudits = 1
SPECIFICATION SignerSpec
INVARIANT StaleRateIsRefusal

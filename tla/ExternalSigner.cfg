CONSTANTS
  Payments <- MCPayments
  Txs <- MCTxs
  SignableTypes = {"Payment"}
  Backends <- MCBackends
  ExpectedSigners <- MCSigners
  ExpectedQuorum = 2
  Subjects <- MCSubjects
  Wirings <- MCWirings
  Accounts <- MCAllAccounts
  MaxChanges = 1
  Whitelist = {"vendor"}
  AmountThreshold = 4
  ChannelCeiling = 1
  FastPathCeiling = 3
  MaxRateAge = 1
  FrequencyWindow = 1
  FrequencyLimit = 1
  ClockSkew = 1
  Rates = {1}
  MaxClock = 2
  MaxAudits = 2
SPECIFICATION FairSignerSpec
INVARIANTS SignerTypeOK ReleasedOnLiveReads AlertFidelity ReleaseVelocity
PROPERTIES NoReleaseWhileFrozen ImplementsGatedSigning CallEnds

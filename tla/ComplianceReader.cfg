CONSTANTS
  Encoded <- MCEncoded
  Spelled <- MCSpelled
  Required <- MCRequired
  HasDomain = TRUE
  DomainLists <- MCDomainLists
  Issuances <- MCIssuances
  ToIssuer = FALSE
  MaxClock = 1
  MaxChanges = 2
  Whitelist = {}
  AmountThreshold = 1
  ChannelCeiling = 1
  FastPathCeiling = 2
  MaxRateAge = 1
SPECIFICATION ReaderSpec
INVARIANTS CompliantOnLiveFacts SteadyFactsRecognised

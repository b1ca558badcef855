CONSTANTS
  Requests <- MCRequests
  Gates = {"checks"}
  NoRequest = NoRequest
  Orders <- MCOrders
  SignerAddress = "treasury"
  LedgerOffset = 1
  Codes = {"tesSUCCESS", "tecPATH_DRY"}
  MaxCeremonies = 2
  MaxLedger = 2
  MaxOthers = 1
SPECIFICATION FairCeremonySpec
INVARIANTS CeremonyTypeOK LandsAsConfirmed PaidOnce ResultIsFinal
PROPERTIES CeremonyEnds
CHECK_DEADLOCK FALSE

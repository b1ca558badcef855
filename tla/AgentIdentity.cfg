CONSTANTS
  Keys = {1, 2, 3}
  Objects <- MCObjects
  Requests <- MCRequests
  Signer = "agent"
  PageSize = 1
  MaxPages = 2
  MaxClock = 1
  MaxChanges = 2
SPECIFICATION FairIdentitySpec
INVARIANTS IdentityTypeOK AcceptSound
PROPERTIES DecidedOnAll VerificationEnds

CONSTANTS
  Signers <- MCSigners
  Checkpoints <- MCCheckpoints
  Passes = 2
  MaxRuns = 4
  Scripts <- MCScripts
  ConfigFiles <- MCConfigFiles
SPECIFICATION ProvisionSpec
INVARIANTS ProvisionTypeOK SignerSeedsSurvive FilesStayWhole NeverLockedOut CheckpointTruth ConfiguredSafely
PROPERTY SetupCompletes
CHECK_DEADLOCK FALSE

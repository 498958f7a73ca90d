SPECIFICATION LiveSpec
CONSTANTS
  NoBackup = NoBackup
  w1 = w1
  Workers = {w1}
  EnableKubevirtPVCRemap = TRUE
  ForeignClaims = TRUE
  LookupErrors = FALSE
  ClearErrors = TRUE
  StaleCache = TRUE
INVARIANTS ClaimRecoverable NoVolumeReclaimed ClaimConsistent CleanSwapRestores
PROPERTIES CompletedSwapNotReprocessed ClaimReturns

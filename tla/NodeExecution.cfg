CONSTANTS
  Registry <- BuiltIn
  Profiles <- FrozenCatalog
  Documents <- AllDocuments
  Library <- Imported
  MaxConcurrency = 2
  Produced <- Outputs
SPECIFICATION FairSpec
INVARIANTS OutcomesReadBack NodeAndTaskAgree AdmittedNeverRefused
PROPERTY CallsSettle
CHECK_DEADLOCK FALSE

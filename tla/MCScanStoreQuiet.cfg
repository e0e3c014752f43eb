SPECIFICATION StoreSpec
CONSTANTS
  Id = {a, b}
  Job <- MCJob
  IdOf <- MCIdOf
  NoJob = NoJob
  Concurrency = 1
  KeyedRequests = TRUE
  KeyStoreMayFail = TRUE
  ServesDuringRecovery = FALSE
  OrderedWrites = TRUE
  WritesMayFail = TRUE
  QueriesMayFail = TRUE
  MaxCrashes = 1
  MaxWipes = 1
INVARIANTS
  StoreTypeOK
  OneRunPerAnalysis
PROPERTIES
  RowTerminalIsFinal
  WipeSparesLiveJobs
SYMMETRY Symmetry
CHECK_DEADLOCK FALSE

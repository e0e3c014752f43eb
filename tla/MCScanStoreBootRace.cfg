SPECIFICATION StoreSpec
CONSTANTS
  Id = {a}
  Job <- MCJob
  IdOf <- MCIdOf
  NoJob = NoJob
  Concurrency = 2
  KeyedRequests = FALSE
  KeyStoreMayFail = FALSE
  ServesDuringRecovery = TRUE
  OrderedWrites = TRUE
  WritesMayFail = FALSE
  QueriesMayFail = FALSE
  MaxCrashes = 0
  MaxWipes = 0
INVARIANT
  OneRunPerAnalysis
CHECK_DEADLOCK FALSE

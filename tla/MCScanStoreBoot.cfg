SPECIFICATION FairStoreSpec
CONSTANTS
  Id = {a}
  Job <- MCJob
  IdOf <- MCIdOf
  NoJob = NoJob
  Concurrency = 2
  KeyedRequests = FALSE
  KeyStoreMayFail = FALSE
  ServesDuringRecovery = TRUE
  OrderedWrites = TRUE
  WritesMayFail = FALSE
  QueriesMayFail = TRUE
  MaxCrashes = 2
  MaxWipes = 1
INVARIANTS
  SlotAccounting
  NoGhostRow
PROPERTIES
  EveryRowEnds
CHECK_DEADLOCK FALSE

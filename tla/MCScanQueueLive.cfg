SPECIFICATION FairSpec
CONSTANTS
  Job = {j1, j2, j3}
  Id = {j1, j2, j3}
  IdOf <- MCIdOf
  NoJob = NoJob
  Concurrency = 1
  KeyedRequests = TRUE
  KeyStoreMayFail = FALSE
PROPERTIES
  EveryJobEnds
  EveryJobIsForgotten
  ImplementsBoard
CHECK_DEADLOCK FALSE

SPECIFICATION Spec
CONSTANTS
  Job = {j1, j2, j3}
  Id = {j1, j2, j3}
  IdOf <- MCIdOf
  NoJob = NoJob
  Concurrency = 2
  KeyedRequests = TRUE
  KeyStoreMayFail = TRUE
INVARIANTS
  TypeOK
  SlotAccounting
  PendingIsTheWaitingJobs
  RetentionSparesLiveJobs
  CancelIsHonoured
PROPERTIES
  TerminalIsFinal
  NoStrandedWork
SYMMETRY Symmetry
CHECK_DEADLOCK FALSE

SPECIFICATION CreationSpec
CONSTANTS
  r1 = r1
  r2 = r2
  r3 = r3
  u1 = u1
  u2 = u2
  bodyA = bodyA
  bodyB = bodyB
  Request = {r1, r2, r3, u1, u2}
  Keyed = {r1, r2, r3}
  Body = {bodyA, bodyB}
  BodyOf <- MCBodyOf
  NoRequest = NoRequest
  NoRecord = NoRecord
  MaxQueueSize = 2
  SharedStore = FALSE
  FailingCalls = {}
  Turnstile = FALSE
  DurableJobs = FALSE
  MaxDeaths = 1
INVARIANTS
  CreationTypeOK
  OneLiveAnalysisPerKey
  ReplayMatchesBody
  CreatedIsReplayable
CHECK_DEADLOCK FALSE

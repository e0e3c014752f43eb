SPECIFICATION CreationSpec
CONSTANTS
  r1 = r1
  r2 = r2
  r3 = r3
  u1 = u1
  u2 = u2
  bodyA = bodyA
  bodyB = bodyB
  Request = {r1, r2, r3, u1}
  Keyed = {r1, r2, r3}
  Body = {bodyA, bodyB}
  BodyOf <- MCBodyOf
  NoRequest = NoRequest
  NoRecord = NoRecord
  MaxQueueSize = 2
  SharedStore = TRUE
  FailingCalls = {}
  Turnstile = FALSE
  DurableJobs = TRUE
  MaxDeaths = 0
INVARIANT
  OneLiveAnalysisPerKey
CHECK_DEADLOCK FALSE

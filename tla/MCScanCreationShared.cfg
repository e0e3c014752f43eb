SPECIFICATION FairCreationSpec
CONSTANTS
  r1 = r1
  r2 = r2
  r3 = r3
  u1 = u1
  u2 = u2
  bodyA = bodyA
  bodyB = bodyB
  Request = {r1, r2, r3}
  Keyed = {r1, r2, r3}
  Body = {bodyA, bodyB}
  BodyOf <- MCBodyOf
  NoRequest = NoRequest
  NoRecord = NoRecord
  MaxQueueSize = 1
  SharedStore = TRUE
  FailingCalls = {"get", "reserve", "complete", "release"}
  Turnstile = TRUE
  DurableJobs = TRUE
  MaxDeaths = 1
INVARIANT
  ReservationHasOwner
PROPERTY
  ReservationResolves
CHECK_DEADLOCK FALSE

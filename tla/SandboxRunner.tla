---------------------------- MODULE SandboxRunner ----------------------------
(* The hosted runner's protocol: createSandboxCodeRunner signs a request and *)
(* gives up after a time (sandbox-client.ts), the network may delay it or    *)
(* deliver it again, and createSandboxRunnerServer verifies it, consumes its *)
(* nonce, checks its capacity and runs it (sandbox-runner.ts).  Time is      *)
(* counted in units, the last one MaxTime.  A signature is valid: it is made *)
(* with the shared secret or refused like a malformed request.               *)
EXTENDS Naturals, FiniteSets

CONSTANTS Request, Stamps,     \* requests and the clocks of their clients
          Skew, MaxTime,       \* maxClockSkewMs and the length of a behaviour
          MaxRemembered,       \* maxRememberedRequests
          MaxConcurrency,
          MaxDeliveries        \* copies of one request the network delivers

ASSUME SandboxRunnerAssumption ==
  /\ Skew \in Nat /\ MaxTime \in Nat /\ MaxRemembered \in Nat
  /\ MaxConcurrency \in Nat \ {0} /\ MaxDeliveries \in Nat \ {0}
  /\ Stamps \subseteq [Request -> Nat]

VARIABLES
  stamp,       \* x-qa-radar-timestamp of each request, by its client's clock
  clock,       \* the runner's clock
  consumed,    \* nonces remembered, with the end of their memory
  deliveries,  \* how often the network delivered each request
  running,     \* copies of each request that run
  ran,         \* copies of each request that were let run
  first,       \* when a copy of each request was first accepted
  capacity,    \* active
  client       \* what the client knows

runnerVars == <<stamp, clock, consumed, deliveries, running, ran, first, capacity, client>>

NotYet == MaxTime + 1
Age(a, b) == IF a >= b THEN a - b ELSE b - a

RunnerInit ==
  /\ stamp \in Stamps
  /\ clock = 0
  /\ consumed = [r \in Request |-> 0]
  /\ deliveries = [r \in Request |-> 0]
  /\ running = [r \in Request |-> 0]
  /\ ran = [r \in Request |-> 0]
  /\ first = [r \in Request |-> NotYet]
  /\ capacity = 0
  /\ client = [r \in Request |-> "waiting"]

RunnerTick ==
  /\ clock < MaxTime
  /\ clock' = clock + 1
  /\ UNCHANGED <<stamp, consumed, deliveries, running, ran, first, capacity, client>>

\* consumed holds the instant a nonce is remembered to, plus one; 0 is no entry.
Remembered == {r \in Request : consumed[r] # 0 /\ consumed[r] - 1 >= clock}

\* A nonce is forgotten as soon as its request was let in.
ConsumeNothing(r) == [q \in Request |-> IF q \in Remembered THEN consumed[q] ELSE 0]

\* Entries past their end are dropped first.
Consume(r) ==
  [q \in Request |-> IF q = r THEN clock + Skew + 1
                     ELSE IF q \in Remembered THEN consumed[q] ELSE 0]

\* The nonce is only looked up by requests that are let run.
FreshAnyway(r) == Age(clock, stamp[r]) <= Skew

\* verifyAndConsume
Fresh(r) ==
  /\ r \notin Remembered
  /\ Cardinality(Remembered) < MaxRemembered
  /\ Age(clock, stamp[r]) <= Skew

Prune == consumed' = [q \in Request |-> IF q \in Remembered THEN consumed[q] ELSE 0]

\* A copy of the request arrives, once its body was read.
Deliver(r) ==
  /\ deliveries[r] < MaxDeliveries
  /\ deliveries' = [deliveries EXCEPT ![r] = @ + 1]

\* 401: stale, known, or the memory is full.
RejectCopy(r) ==
  /\ Deliver(r) /\ ~Fresh(r)
  /\ Prune
  /\ client' = [client EXCEPT ![r] = IF @ = "waiting" THEN "refused" ELSE @]
  /\ UNCHANGED <<stamp, clock, running, ran, first, capacity>>

\* 429, or 400 for an invalid envelope: the nonce is consumed all the same.
RefuseCopy(r) ==
  /\ Deliver(r) /\ Fresh(r)
  /\ consumed' = Consume(r)
  /\ client' = [client EXCEPT ![r] = IF @ = "waiting" THEN "refused" ELSE @]
  /\ UNCHANGED <<stamp, clock, running, ran, first, capacity>>

\* The limit is compared with the copies of this request.
HasRoomForRequest(r) == running[r] < MaxConcurrency

HasRoom(r) == capacity < MaxConcurrency

RunCopy(r) ==
  /\ Deliver(r) /\ Fresh(r) /\ HasRoom(r)
  /\ consumed' = Consume(r)
  /\ capacity' = capacity + 1
  /\ running' = [running EXCEPT ![r] = @ + 1]
  /\ ran' = [ran EXCEPT ![r] = @ + 1]
  /\ first' = [first EXCEPT ![r] = IF @ = NotYet THEN clock ELSE @]
  /\ UNCHANGED <<stamp, clock, client>>

\* The slot is given back on success only.
ReturnSlotOnSuccess(ok) == capacity' = IF ok THEN capacity - 1 ELSE capacity

ReturnSlot(ok) == capacity' = capacity - 1

\* The sandbox ends, well or not; the client may have left.
SandboxEnds(r) ==
  /\ running[r] > 0
  /\ running' = [running EXCEPT ![r] = @ - 1]
  /\ \E ok \in BOOLEAN :
       /\ ReturnSlot(ok)
       /\ client' = [client EXCEPT ![r] = IF @ # "waiting" THEN @
                                          ELSE IF ok THEN "answered" ELSE "refused"]
  /\ UNCHANGED <<stamp, clock, consumed, deliveries, ran, first>>

\* AbortSignal.timeout: the runner is not told.
ClientGivesUp(r) ==
  /\ client[r] = "waiting" /\ clock > 0
  /\ client' = [client EXCEPT ![r] = "gone"]
  /\ UNCHANGED <<stamp, clock, consumed, deliveries, running, ran, first, capacity>>

RunnerNext ==
  \/ RunnerTick
  \/ \E r \in Request :
       \/ RejectCopy(r) \/ RefuseCopy(r) \/ RunCopy(r) \/ SandboxEnds(r) \/ ClientGivesUp(r)

RunnerSpec == RunnerInit /\ [][RunnerNext]_runnerVars

-----------------------------------------------------------------------------

RunnerTypeOK ==
  /\ clock \in 0..MaxTime
  /\ consumed \in [Request -> 0..(MaxTime + Skew + 1)]
  /\ deliveries \in [Request -> 0..MaxDeliveries]
  /\ running \in [Request -> 0..MaxDeliveries] /\ ran \in [Request -> 0..MaxDeliveries]
  /\ first \in [Request -> 0..NotYet]
  /\ capacity \in 0..MaxConcurrency
  /\ client \in [Request -> {"waiting", "answered", "refused", "gone"}]

\* A request the network delivers again is not run again, whenever the copy
\* comes, as long as its client's clock was not ahead of the runner's: a nonce
\* is remembered for one skew from its arrival, a timestamp is good until one
\* skew after itself.
RunsOnce == \A r \in Request : ran[r] > 1 => stamp[r] > first[r]

\* The slots taken are those of the sandboxes that run: clients that left and
\* sandboxes that failed neither free a slot early nor keep one.
SlotsMatchSandboxes ==
  /\ MaxConcurrency >= capacity
  /\ capacity = Cardinality(UNION {{r} \X (1..running[r]) : r \in Request})
=============================================================================

----------------------------- MODULE ScanQueue -----------------------------
(* The scan queue of one server process: JobQueue (job-queue.ts), the        *)
(* scheduler and the asynchronous run of each analysis (schedule, expireJob  *)
(* in server.ts), the last part of POST /api/scans and the cancel route      *)
(* (routes/scans.ts).                                                        *)
(*                                                                           *)
(* Node runs one callback at a time: an action is what one callback does     *)
(* between two awaits.  The loop inside schedule() is the exception: it is   *)
(* unfolded, one iteration an action, while `turn` keeps every other         *)
(* callback waiting.                                                         *)
(*                                                                           *)
(* A Job is the ScanJob object; its id is IdOf[job].  Two objects may carry  *)
(* one id (boot recovery builds a second object for a stored row), which is  *)
(* why #jobs is a map from ids to objects and not a set of objects.          *)
EXTENDS JobState, Integers, Sequences, FiniteSets, SequencesExt

CONSTANTS Job,          \* ScanJob objects
          Id,           \* scan ids
          IdOf,         \* the id of each object
          NoJob,        \* what Map.get returns for an absent id
          Concurrency,  \* config.concurrency
          KeyedRequests,     \* may a creation carry an Idempotency-Key
          KeyStoreMayFail    \* can idempotencyKeys.complete reject (Postgres)

ASSUME JobAssumption == IsFiniteSet(Job) /\ IdOf \in [Job -> Id] /\ NoJob \notin Job
ASSUME ConcurrencyAssumption == Concurrency \in Nat \ {0}
ASSUME KeyAssumption == KeyedRequests \in BOOLEAN /\ KeyStoreMayFail \in BOOLEAN

VARIABLES
  jobs,             \* #jobs: id -> object
  pending,          \* #pending: ids in order of arrival
  active,           \* #active: occupied execution slots
  status,           \* job.status ("unborn" before the object exists)
  cancelRequested,  \* job.cancelRequested
  aborted,          \* reason held by job.controller.signal, "no" if none
  step,             \* what the asynchronous run of the object is awaiting
  deadlines,        \* objects whose maxJobDurationMs timer is armed
  expiring,         \* objects whose retentionMs timer is armed
  dirs,             \* ids whose output directory exists
  posting,          \* objects enqueued by a request not yet past complete()
  turn              \* "schedule" while the loop of schedule() runs

queueVars == <<jobs, pending, active, status>>
vars == <<jobs, pending, active, status, cancelRequested, aborted, step,
          deadlines, expiring, dirs, posting, turn>>

AbortReason == {"no", "user", "deadline"}
InFlightStep == {"baseline", "scan", "reports", "store"}
Step == {"idle", "settled"} \cup InFlightStep

Running == {o \in Job : status[o] = "running"}
InFlight == {o \in Job : step[o] \in InFlightStep}
Terminal(o) == IsTerminalJobStatus(status[o])
Unused(id) == \A o \in Job : IdOf[o] = id => status[o] = "unborn"

Init ==
  /\ jobs = [id \in Id |-> NoJob]
  /\ pending = <<>>
  /\ active = 0
  /\ status = [o \in Job |-> "unborn"]
  /\ cancelRequested = [o \in Job |-> FALSE]
  /\ aborted = [o \in Job |-> "no"]
  /\ step = [o \in Job |-> "idle"]
  /\ deadlines = {}
  /\ expiring = {}
  /\ dirs = {}
  /\ posting = {}
  /\ turn = "io"

-----------------------------------------------------------------------------
(* JobQueue                                                                  *)

\* A stack instead of a queue.
EnqueueInFront(o) ==
  /\ jobs' = [jobs EXCEPT ![IdOf[o]] = o]
  /\ pending' = <<IdOf[o]>> \o pending
  /\ status' = [status EXCEPT ![o] = "queued"]
  /\ active' = active

Enqueue(o) ==
  /\ jobs' = [jobs EXCEPT ![IdOf[o]] = o]
  /\ pending' = Append(pending, IdOf[o])
  /\ status' = [status EXCEPT ![o] = "queued"]
  /\ active' = active

\* takeNext off by one at the limit.
OverfullSlot == active <= Concurrency

FreeSlot == active < Concurrency

\* The pending id names an object that still waits.
Waiting(id) == jobs[id] # NoJob /\ status[jobs[id]] = "queued"

\* A second decrement for one run.
FinishTwice == active' = active - 2

Finish == active' = active - 1

\* cancelQueued without the splice.
LeaveInPending(o) ==
  /\ pending' = pending
  /\ status' = [status EXCEPT ![o] = "cancelled"]
  /\ UNCHANGED <<jobs, active>>

RemoveQueued(o) ==
  /\ pending' = RemoveFirst(pending, IdOf[o])
  /\ status' = [status EXCEPT ![o] = "cancelled"]
  /\ UNCHANGED <<jobs, active>>

-----------------------------------------------------------------------------
(* POST /api/scans, from enqueue to the answer                               *)

\* A request with an Idempotency-Key awaits complete() before schedule();
\* the others call schedule() in the same callback.
Admit(o) ==
  /\ turn = "io"
  /\ Enqueue(o)
  /\ \/ KeyedRequests /\ posting' = posting \cup {o} /\ turn' = turn
     \/ posting' = posting /\ turn' = "schedule"
  /\ UNCHANGED <<cancelRequested, aborted, step, deadlines, expiring>>

\* The id is a fresh randomUUID and its directory was just made.
Create(o) ==
  /\ Unused(IdOf[o])
  /\ Admit(o)
  /\ dirs' = dirs \cup {IdOf[o]}

KeyCompleted(o) ==
  /\ turn = "io" /\ o \in posting
  /\ posting' = posting \ {o}
  /\ turn' = "schedule"
  /\ UNCHANGED <<queueVars, cancelRequested, aborted, step, deadlines, expiring, dirs>>

\* complete() rejects: the catch releases the key and rethrows; the job stays
\* in the queue and schedule() is not called.
KeyFailed(o) ==
  /\ turn = "io" /\ KeyStoreMayFail /\ o \in posting
  /\ posting' = posting \ {o}
  /\ UNCHANGED <<queueVars, cancelRequested, aborted, step, deadlines, expiring, dirs, turn>>

-----------------------------------------------------------------------------
(* schedule()                                                                *)

\* takeNext drops what no longer waits on its way to the next analysis, or to
\* the end.
LoopEnds ==
  /\ turn = "schedule"
  /\ FreeSlot => \A i \in DOMAIN pending : ~Waiting(pending[i])
  /\ pending' = IF FreeSlot THEN <<>> ELSE pending
  /\ turn' = "io"
  /\ UNCHANGED <<jobs, active, status, cancelRequested, aborted, step, deadlines,
                 expiring, dirs, posting>>

FirstWaiting(i) == Waiting(pending[i]) /\ \A k \in 1..(i-1) : ~Waiting(pending[k])

\* The run starts inside the loop and stops at its first await, the lookup of
\* the baseline.
StartNext ==
  /\ turn = "schedule" /\ FreeSlot
  /\ \E i \in DOMAIN pending :
       /\ FirstWaiting(i)
       /\ LET o == jobs[pending[i]] IN
            /\ status' = [status EXCEPT ![o] = "running"]
            /\ step' = [step EXCEPT ![o] = "baseline"]
            /\ deadlines' = deadlines \cup {o}
       /\ pending' = SubSeq(pending, i+1, Len(pending))
  /\ active' = active + 1
  /\ UNCHANGED <<jobs, cancelRequested, aborted, expiring, dirs, posting, turn>>

-----------------------------------------------------------------------------
(* The run of one analysis                                                   *)

\* The finally block forgets the call of expireJob.
ArmNothing(o) == expiring' = expiring

ArmExpiry(o) == expiring' = expiring \cup {o}

\* The finally block forgets the call of schedule.
KeepTurn == turn' = turn

Reschedule == turn' = "schedule"

\* The catch and finally blocks: one terminal transition, the slot returned,
\* retention armed, the queue looked at again.
Settle(o, outcome) ==
  /\ status' = [status EXCEPT ![o] = outcome]
  /\ step' = [step EXCEPT ![o] = "settled"]
  /\ deadlines' = deadlines \ {o}
  /\ Finish
  /\ ArmExpiry(o)
  /\ Reschedule
  /\ UNCHANGED <<jobs, pending, cancelRequested, aborted, dirs, posting>>

BaselineLookedUp(o) ==
  /\ turn = "io" /\ step[o] = "baseline"
  /\ step' = [step EXCEPT ![o] = "scan"]
  /\ UNCHANGED <<queueVars, cancelRequested, aborted, deadlines, expiring, dirs, posting, turn>>

\* The scan returned its report, or the reports are on disk, and the signal
\* is not aborted.  writeReports makes the directory again if it has to.
Advance(o) ==
  /\ turn = "io" /\ aborted[o] = "no"
  /\ \/ /\ step[o] = "scan" /\ step' = [step EXCEPT ![o] = "reports"]
        /\ dirs' = dirs \cup {IdOf[o]}
     \/ /\ step[o] = "reports" /\ step' = [step EXCEPT ![o] = "store"]
        /\ dirs' = dirs
  /\ UNCHANGED <<queueVars, cancelRequested, aborted, deadlines, expiring, posting, turn>>

\* The run was stored and the signal is not looked at once more.
CompleteUnchecked(o) ==
  /\ turn = "io" /\ step[o] = "store"
  /\ Settle(o, "completed")

Complete(o) ==
  /\ turn = "io" /\ step[o] = "store" /\ aborted[o] = "no"
  /\ Settle(o, "completed")

\* Something awaited rejects, or throwIfAborted throws after it.
Throw(o) ==
  /\ turn = "io" /\ step[o] \in {"scan", "reports", "store"}
  /\ Settle(o, IF cancelRequested[o] THEN "cancelled" ELSE "failed")

StepEnds(o) == BaselineLookedUp(o) \/ Advance(o) \/ Complete(o) \/ Throw(o)

\* abort() keeps the first reason.
AbortWith(o, reason) ==
  aborted' = [aborted EXCEPT ![o] = IF @ = "no" THEN reason ELSE @]

\* The deadline fires and aborts nothing.
DeadlineIgnored(o) ==
  /\ turn = "io" /\ o \in deadlines
  /\ deadlines' = deadlines \ {o}
  /\ UNCHANGED <<queueVars, cancelRequested, aborted, step, expiring, dirs, posting, turn>>

\* The timer fails the analysis itself instead of leaving it to the run.
FailAtDeadline(o) ==
  /\ turn = "io" /\ o \in deadlines
  /\ deadlines' = deadlines \ {o}
  /\ AbortWith(o, "deadline")
  /\ status' = [status EXCEPT ![o] = "failed"]
  /\ UNCHANGED <<jobs, pending, active, cancelRequested, step, expiring, dirs, posting, turn>>

Deadline(o) ==
  /\ turn = "io" /\ o \in deadlines
  /\ deadlines' = deadlines \ {o}
  /\ AbortWith(o, "deadline")
  /\ UNCHANGED <<queueVars, cancelRequested, step, expiring, dirs, posting, turn>>

\* expireJob's timer forgets the id, whichever object the map holds for it.
Expire(o) ==
  /\ turn = "io" /\ o \in expiring
  /\ expiring' = expiring \ {o}
  /\ jobs' = [jobs EXCEPT ![IdOf[o]] = NoJob]
  /\ dirs' = dirs \ {IdOf[o]}
  /\ UNCHANGED <<pending, active, status, cancelRequested, aborted, step,
                 deadlines, posting, turn>>

-----------------------------------------------------------------------------
(* POST /api/scans/:id/cancel.  The route changes nothing when the id is not *)
(* in memory or the job has ended.                                           *)

AskToCancel(o) ==
  /\ cancelRequested' = [cancelRequested EXCEPT ![o] = TRUE]
  /\ AbortWith(o, "user")

CancelQueued(o) ==
  /\ turn = "io" /\ jobs[IdOf[o]] = o /\ status[o] = "queued"
  /\ AskToCancel(o)
  /\ RemoveQueued(o)
  /\ ArmExpiry(o)
  /\ UNCHANGED <<step, deadlines, dirs, posting, turn>>

\* The route arms the retention timer whatever cancelQueued answered.
CancelRunningAndExpire(o) ==
  /\ turn = "io" /\ jobs[IdOf[o]] = o /\ status[o] = "running"
  /\ AskToCancel(o)
  /\ ArmExpiry(o)
  /\ UNCHANGED <<queueVars, step, deadlines, dirs, posting, turn>>

CancelRunning(o) ==
  /\ turn = "io" /\ jobs[IdOf[o]] = o /\ status[o] = "running"
  /\ AskToCancel(o)
  /\ UNCHANGED <<queueVars, step, deadlines, expiring, dirs, posting, turn>>

-----------------------------------------------------------------------------
Loop == LoopEnds \/ StartNext

\* What happens to an object once it exists.
JobStep(o) ==
  \/ KeyCompleted(o) \/ KeyFailed(o)
  \/ BaselineLookedUp(o) \/ Advance(o) \/ Complete(o) \/ Throw(o)
  \/ Deadline(o) \/ Expire(o)
  \/ CancelQueued(o) \/ CancelRunning(o)

Next == Loop \/ \E o \in Job : Create(o) \/ JobStep(o)

Spec == Init /\ [][Next]_vars

\* A callback that is ready is eventually run.  File system steps end; a scan
\* is only required to end once its signal is aborted (the browser is closed
\* under it), because a page may keep it busy until the global deadline.
MustEnd(o) == StepEnds(o) /\ (step[o] # "scan" \/ aborted[o] # "no")

Fairness ==
  /\ WF_vars(Loop)
  /\ \A o \in Job : /\ WF_vars(KeyCompleted(o))
                    /\ WF_vars(MustEnd(o))
                    /\ WF_vars(Deadline(o))
                    /\ WF_vars(Expire(o))

FairSpec == Spec /\ Fairness

-----------------------------------------------------------------------------
(* Properties                                                                *)

\* Every variable keeps to its range.
TypeOK ==
  /\ jobs \in [Id -> Job \cup {NoJob}]
  /\ pending \in Seq(Id)
  /\ active \in Nat
  /\ status \in [Job -> JobStatus \cup {"unborn"}]
  /\ cancelRequested \in [Job -> BOOLEAN]
  /\ aborted \in [Job -> AbortReason]
  /\ step \in [Job -> Step]
  /\ deadlines \in SUBSET Job
  /\ expiring \in SUBSET Job
  /\ dirs \in SUBSET Id
  /\ posting \in SUBSET Job
  /\ turn \in {"io", "schedule"}

\* #active counts the analyses in state "running", those are exactly the ones
\* with an asynchronous run under way, and there are never more than
\* config.concurrency: finish() runs once for each takeNext(), whichever of
\* completion, failure, deadline and cancellation ends the run.
SlotAccounting ==
  /\ Running = InFlight
  /\ active = Cardinality(Running)
  /\ active <= Concurrency

\* #pending lists the waiting analyses, each of them once, and nothing else:
\* position() and the queue length that POST compares with maxQueueSize tell
\* the truth.
PendingIsTheWaitingJobs ==
  /\ \A i \in DOMAIN pending : Waiting(pending[i])
  /\ \A i, k \in DOMAIN pending : pending[i] = pending[k] => i = k
  /\ \A o \in Job : status[o] = "queued" =>
       jobs[IdOf[o]] = o /\ \E i \in DOMAIN pending : pending[i] = IdOf[o]

\* An analysis comes to wait beside a free slot, with no request left that will
\* call schedule(), only when complete() rejects: every other path that frees a
\* slot or fills the queue looks at the queue again.
Stranded == turn = "io" /\ posting = {} /\ pending # <<>> /\ FreeSlot

NoStrandedWork == [][Stranded' => Stranded \/ \E o \in Job : KeyFailed(o)]_vars

\* Retention never reaches an analysis that has not ended: until then the map
\* finds it, its output directory is there, and no retention timer is armed.
\* Afterwards the map and the directory go together with the timer.
RetentionSparesLiveJobs ==
  \A o \in Job :
    /\ status[o] \in {"queued", "running"} =>
         jobs[IdOf[o]] = o /\ IdOf[o] \in dirs /\ o \notin expiring
    /\ Terminal(o) /\ jobs[IdOf[o]] = o => o \in expiring

\* A cancellation that was answered with 202 is never overtaken by another
\* outcome, nobody is told "cancelled" without having asked, and no analysis
\* whose signal was aborted, by the user or by the deadline, completes.
CancelIsHonoured ==
  \A o \in Job : Terminal(o) =>
    /\ status[o] = "cancelled" <=> cancelRequested[o]
    /\ status[o] = "completed" => aborted[o] = "no"

\* Once an analysis has ended, its state does not change (job-state.ts,
\* TERMINAL_JOB_STATUSES), although a late timer or a second cancellation may
\* still reach it.
TerminalIsFinal ==
  [][\A o \in Job : Terminal(o) => status'[o] = status[o]]_vars

\* Every analysis that enters the queue ends, even one whose page never
\* settles: the deadline closes it.
EveryJobEnds == \A o \in Job : status[o] = "queued" ~> Terminal(o)

\* Whatever has ended leaves the memory and the disk of the process.
EveryJobIsForgotten ==
  \A o \in Job : Terminal(o) ~> (jobs[IdOf[o]] # o /\ IdOf[o] \notin dirs)

\* Seen through its three observable parts, the queue is an AnalysisBoard.
Board == INSTANCE AnalysisBoard
           WITH Analysis <- Job,
                Slots <- Concurrency,
                line <- [i \in DOMAIN pending |-> jobs[pending[i]]],
                executing <- Running,
                outcome <- [o \in Job |-> IF Terminal(o) THEN status[o] ELSE "none"]

\* First come, first served, within the limit, and always moving: the queue
\* implements the board, with its fairness.
ImplementsBoard == Board!BoardSpec

=============================================================================

---------------------------- MODULE LegacyJourneys ----------------------------
(* The declarative journeys (routes/journeys-legacy.ts,                      *)
(* legacy-journey-registry.ts) beside the analyses they share the browser    *)
(* with.  An analysis is seen as POST /api/scans sees it: the check of the   *)
(* journey flag, the awaits after it, the queue, the end.                    *)
EXTENDS Naturals, FiniteSets

CONSTANTS Journey, BrowserScan

VARIABLES
  journeyPhase,   \* what the request, then its task, awaits
  journeyStatus,  \* JourneyJob.status
  journeyAsked,   \* JourneyJob.cancelRequested
  journeyAbort,   \* why the signal is aborted
  journeyActive,  \* LegacyJourneyRegistry: the flag
  journeyJob,     \* LegacyJourneyRegistry: the journeys remembered
  journeyDir,     \* journey-<id>
  journeyTimer,   \* journeys whose expiry is armed
  scanPhase       \* the analyses

journeyVars == <<journeyPhase, journeyStatus, journeyAsked, journeyAbort,
                 journeyActive, journeyJob, journeyDir, journeyTimer, scanPhase>>

Task == {"running", "writing"}

JourneyInit ==
  /\ journeyPhase = [j \in Journey |-> "idle"]
  /\ journeyStatus = [j \in Journey |-> "none"]
  /\ journeyAsked = {}
  /\ journeyAbort = [j \in Journey |-> "none"]
  /\ journeyActive = FALSE
  /\ journeyJob = {} /\ journeyDir = {} /\ journeyTimer = {}
  /\ scanPhase = [s \in BrowserScan |-> "idle"]

QueueBusy == \E s \in BrowserScan : scanPhase[s] = "queued"
JourneyTo(j, p) == journeyPhase' = [journeyPhase EXCEPT ![j] = p]

\* The rate limit passed, the flag and the queue are read, then the body.
JourneyArrives(j) ==
  /\ journeyPhase[j] = "idle"
  /\ JourneyTo(j, IF journeyActive \/ QueueBusy THEN "refused" ELSE "body")
  /\ UNCHANGED <<journeyStatus, journeyAsked, journeyAbort, journeyActive,
                 journeyJob, journeyDir, journeyTimer, scanPhase>>

\* A definition out of bounds, an input that is not its own, a private target.
JourneyRejected(j) ==
  /\ journeyPhase[j] = "body"
  /\ JourneyTo(j, "refused")
  /\ UNCHANGED <<journeyStatus, journeyAsked, journeyAbort, journeyActive,
                 journeyJob, journeyDir, journeyTimer, scanPhase>>

MakeJourneyDir(j) ==
  /\ journeyPhase[j] = "body"
  /\ journeyDir' = journeyDir \cup {j}
  /\ JourneyTo(j, "directory")
  /\ UNCHANGED <<journeyStatus, journeyAsked, journeyAbort, journeyActive,
                 journeyJob, journeyTimer, scanPhase>>

\* The access hash is written; the flag is set without being read again.
StartJourney(j) ==
  /\ journeyPhase[j] = "directory"
  /\ journeyJob' = journeyJob \cup {j}
  /\ journeyStatus' = [journeyStatus EXCEPT ![j] = "running"]
  /\ journeyActive' = TRUE
  /\ JourneyTo(j, "running")
  /\ UNCHANGED <<journeyAsked, journeyAbort, journeyDir, journeyTimer, scanPhase>>

\* Writing the access hash fails: nothing removes the directory.
StartFails(j) ==
  /\ journeyPhase[j] = "directory"
  /\ JourneyTo(j, "refused")
  /\ UNCHANGED <<journeyStatus, journeyAsked, journeyAbort, journeyActive,
                 journeyJob, journeyDir, journeyTimer, scanPhase>>

JourneyDeadline(j) ==
  /\ journeyPhase[j] \in Task
  /\ journeyAbort[j] = "none"
  /\ journeyAbort' = [journeyAbort EXCEPT ![j] = "deadline"]
  /\ UNCHANGED <<journeyPhase, journeyStatus, journeyAsked, journeyActive,
                 journeyJob, journeyDir, journeyTimer, scanPhase>>

\* POST /api/journeys/:id/cancel; the first reason of an abort stays.
CancelJourney(j) ==
  /\ j \in journeyJob /\ journeyStatus[j] = "running"
  /\ journeyAsked' = journeyAsked \cup {j}
  /\ journeyAbort' = [journeyAbort EXCEPT ![j] = IF @ = "none" THEN "cancel" ELSE @]
  /\ UNCHANGED <<journeyPhase, journeyStatus, journeyActive,
                 journeyJob, journeyDir, journeyTimer, scanPhase>>

\* The runner resolved; an abort that came first throws.
RunnerResolves(j) ==
  /\ journeyPhase[j] = "running" /\ journeyAbort[j] = "none"
  /\ JourneyTo(j, "writing")
  /\ UNCHANGED <<journeyStatus, journeyAsked, journeyAbort, journeyActive,
                 journeyJob, journeyDir, journeyTimer, scanPhase>>

FinishJourney(j, status) ==
  /\ journeyStatus' = [journeyStatus EXCEPT ![j] = status]
  /\ journeyActive' = FALSE
  /\ journeyTimer' = journeyTimer \cup {j}
  /\ JourneyTo(j, "done")

\* The signal is not looked at again after the report was written.
CompleteAnyway(j) == journeyPhase[j] = "writing"

MayComplete(j) == journeyPhase[j] = "writing" /\ journeyAbort[j] = "none"

JourneyCompletes(j) ==
  /\ MayComplete(j)
  /\ FinishJourney(j, "completed")
  /\ UNCHANGED <<journeyAsked, journeyAbort, journeyJob, journeyDir, scanPhase>>

\* The status tells the abort apart by its reason alone.
EndByReason(j) == IF journeyAbort[j] = "cancel" THEN "cancelled" ELSE "failed"

EndStatus(j) == IF j \in journeyAsked THEN "cancelled" ELSE "failed"

\* The runner rejects, the report cannot be written, or throwIfAborted throws.
JourneyThrows(j) ==
  /\ journeyPhase[j] \in Task
  /\ FinishJourney(j, EndStatus(j))
  /\ UNCHANGED <<journeyAsked, journeyAbort, journeyJob, journeyDir, scanPhase>>

ExpireJourney(j) ==
  /\ j \in journeyTimer
  /\ journeyJob' = journeyJob \ {j}
  /\ journeyDir' = journeyDir \ {j}
  /\ journeyTimer' = journeyTimer \ {j}
  /\ UNCHANGED <<journeyPhase, journeyStatus, journeyAsked, journeyAbort,
                 journeyActive, scanPhase>>

ScanArrives(s) ==
  /\ scanPhase[s] = "idle"
  /\ scanPhase' = [scanPhase EXCEPT ![s] = IF journeyActive THEN "refused" ELSE "preparing"]
  /\ UNCHANGED <<journeyPhase, journeyStatus, journeyAsked, journeyAbort,
                 journeyActive, journeyJob, journeyDir, journeyTimer>>

\* The flag of the journeys is not read again when the analysis is queued.
ScanMoves(s) ==
  /\ \/ scanPhase[s] = "preparing" /\ scanPhase' = [scanPhase EXCEPT ![s] = "queued"]
     \/ scanPhase[s] \in {"preparing", "queued"} /\ scanPhase' = [scanPhase EXCEPT ![s] = "ended"]
  /\ UNCHANGED <<journeyPhase, journeyStatus, journeyAsked, journeyAbort,
                 journeyActive, journeyJob, journeyDir, journeyTimer>>

JourneyTaskStep(j) == RunnerResolves(j) \/ JourneyCompletes(j) \/ JourneyThrows(j)

JourneyNext ==
  \/ \E j \in Journey :
       \/ JourneyArrives(j) \/ JourneyRejected(j) \/ MakeJourneyDir(j)
       \/ StartJourney(j) \/ StartFails(j) \/ JourneyDeadline(j)
       \/ CancelJourney(j) \/ JourneyTaskStep(j) \/ ExpireJourney(j)
  \/ \E s \in BrowserScan : ScanArrives(s) \/ ScanMoves(s)

JourneySpec == JourneyInit /\ [][JourneyNext]_journeyVars

-----------------------------------------------------------------------------

JourneyTypeOK ==
  /\ journeyPhase \in [Journey -> {"idle", "refused", "body", "directory", "done"} \cup Task]
  /\ journeyStatus \in [Journey -> {"none", "running", "completed", "failed", "cancelled"}]
  /\ journeyAsked \subseteq Journey
  /\ journeyAbort \in [Journey -> {"none", "cancel", "deadline"}]
  /\ journeyActive \in BOOLEAN
  /\ journeyDir \subseteq Journey /\ journeyTimer \subseteq journeyJob
  /\ scanPhase \in [BrowserScan -> {"idle", "refused", "preparing", "queued", "ended"}]

\* Whoever was told that the journey is being cancelled never finds it
\* completed or failed, even when the deadline or the report came in between;
\* and a journey past its deadline never completes.
CancelledJourneyEndsCancelled ==
  \A j \in Journey : journeyPhase[j] = "done" =>
    /\ j \in journeyAsked => journeyStatus[j] = "cancelled"
    /\ journeyAbort[j] # "none" => journeyStatus[j] # "completed"
=============================================================================

--------------------------- MODULE ServicesProofs ---------------------------
(* What TLAPS proves of the services around the analyses, for every value of *)
(* their constants.  Each of them has an inductive invariant of its own; as  *)
(* they share no variable, a behaviour of MCServices is one of each of them, *)
(* and the properties its run checks on a small instance follow.             *)
EXTENDS MCServices

-----------------------------------------------------------------------------
(* The services take turns                                                   *)

servicesVars == <<focus, authVars, childVars, evidenceVars, execVars, recVars, dashVars, netVars, keptVars,
  healthVars, tableVars, runVars, journeyVars, runnerVars, boxVars, findingsVars, pipelineVars, suiteVars, lineVars, binVars, spaceVars>>

\* A step of the whole is a step or a stutter of each service.
LEMMA OneServiceMoves ==
  ASSUME [ServicesNext]_servicesVars
  PROVE  /\ [AuthNext]_authVars /\ [ChildNext]_childVars /\ [CodeNext]_execVars
         /\ [RecNext]_recVars /\ [NetNext]_netVars /\ [KeptNext]_keptVars
         /\ [JourneyNext]_journeyVars /\ [RunnerNext]_runnerVars /\ [BoxNext]_boxVars
         /\ [RunNext]_runVars /\ [PipelineNext]_pipelineVars /\ [TableNext]_tableVars
         /\ [SpaceNext]_spaceVars /\ [RunLine]_evidenceVars /\ [NextScan]_findingsVars
         /\ [DashNext]_dashVars /\ [HealthNext]_healthVars /\ [BinsNext]_binVars
         /\ [SuiteNext]_suiteVars /\ [LineNext]_lineVars
PROOF
  <1>1. CASE UNCHANGED servicesVars
    BY <1>1 DEF servicesVars
  <1>2. CASE ServicesNext
    BY <1>2 DEF ServicesNext, TheOthersWait, SpaceNext
  <1> QED BY <1>1, <1>2

\* Each service starts as it does alone: while it waits, a run of a journey
\* has the empty file, a test of code no line, and every row of the timeline
\* stands.
LEMMA ServicesStart ==
  ASSUME ServicesInit
  PROVE  /\ AuthInit /\ ChildInit /\ CodeInit /\ RecInit /\ NetInit /\ KeptInit
         /\ JourneyInit /\ RunnerInit /\ BoxInit
         /\ RunInit /\ PipelineInit /\ TableInit /\ SpaceInit
         /\ EvidenceInit /\ FindingsInit /\ DashInit /\ HealthInit /\ BinsInit /\ LineInit
PROOF
  <1>1. <<>> \in BoundedSeq(RawStep, MaxSteps)
    BY JourneyRunAssumption DEF BoundedSeq, SeqOf
  <1>2. <<>> \in BoundedSeq(LineKind, MaxLines)
    BY CodeEvidenceAssumption DEF BoundedSeq, SeqOf
  <1>3. LineInit
    <2>1. (CHOOSE s \in Stored : TRUE) \in Stored
      BY TimelineAssumption
    <2>2. [r \in Row |-> CHOOSE s \in Stored : TRUE] \in [Row -> Stored]
      BY <2>1
    <2> QED BY <2>2 DEF ServicesInit, LineInit
  <1> QED BY <1>1, <1>2, <1>3 DEF ServicesInit, RunInit, EvidenceInit

-----------------------------------------------------------------------------
(* ChildProcess                                                              *)

\* The deadline is armed only while the promise is pending; only a worker has
\* a Playwright of its own, and it yields a result once that one is gone.
ChildInv ==
  /\ ChildTypeOK
  /\ childTimer => childOutcome = "pending" /\ HasDeadline(childKind)
  /\ childKind # "worker" => grandchild = "none"
  /\ SettledLeavesNothing

\* Holds at first: what a promise about a child is owed.
LEMMA ChildInvInit == ChildInit => ChildInv
PROOF
  BY ChildKindAssumption
  DEF ChildInit, ChildInv, ChildTypeOK, SettledLeavesNothing, Settled, HasDeadline

\* No step breaks what a promise about a child is owed.
LEMMA ChildInvStep == ChildInv /\ [ChildNext]_childVars => ChildInv'
PROOF
  <1> SUFFICES ASSUME ChildInv, [ChildNext]_childVars
               PROVE  ChildInv'
    OBVIOUS
  <1> USE ChildKindAssumption DEF ChildInv, ChildTypeOK, SettledLeavesNothing, Settled, HasDeadline
  <1>1. CASE ChildStarts
    BY <1>1 DEF ChildStarts
  <1>2. CASE SpawnError
    BY <1>2 DEF SpawnError, Settle1
  <1>3. CASE WorkerSpawnsPlaywright \/ PlaywrightEnds \/ ChildExits
    BY <1>3 DEF WorkerSpawnsPlaywright, PlaywrightEnds, ChildExits
  <1>4. CASE ProxyReady
    BY <1>4 DEF ProxyReady, Settle1
  <1>5. CASE OutputLimit
    BY <1>5 DEF OutputLimit, Settle1, KillChild, LimitsOutput, KillsOnOutput
  <1>6. CASE ChildDeadline
    BY <1>6 DEF ChildDeadline, Settle1, StopAtDeadline, KillChild, KillsOnDeadline
  <1>7. CASE ChildCloses
    BY <1>7 DEF ChildCloses, Settle1, CloseOutcomes
  <1>8. CASE UNCHANGED childVars
    BY <1>8 DEF childVars
  <1> QED BY <1>1, <1>2, <1>3, <1>4, <1>5, <1>6, <1>7, <1>8 DEF ChildNext

-----------------------------------------------------------------------------
(* SandboxRuntime                                                            *)

\* Once the cleanup began, what is still there is what it has yet to remove or
\* reports as not removed; without egress there is no proxy.
BoxInv ==
  /\ BoxTypeOK
  /\ ~boxEgress => boxRun["proxy"] = "none" /\ boxStep \notin {"volume", "proxy"}
  /\ boxStep \in {"cleaning", "done"} =>
       \A c \in Container : boxRun[c] # "none" => c \in boxTodo \/ c \in boxUnclean
  /\ boxStep = "done" => boxTodo = {}
  /\ NothingLeftBehind

\* Holds at first: what a sandbox has left to remove.
LEMMA BoxInvInit == BoxInit => BoxInv
PROOF
  BY PublicEgressAssumption DEF BoxInit, BoxInv, BoxTypeOK, NothingLeftBehind, Container

\* No step breaks what a sandbox has left to remove.
LEMMA BoxInvStep == BoxInv /\ [BoxNext]_boxVars => BoxInv'
PROOF
  <1> SUFFICES ASSUME BoxInv, [BoxNext]_boxVars
               PROVE  BoxInv'
    OBVIOUS
  <1> USE DEF BoxInv, BoxTypeOK, NothingLeftBehind, Container
  <1>1. CASE VolumeCreated \/ ProxyIsReady \/ StartJob
    BY <1>1 DEF VolumeCreated, ProxyIsReady, StartJob
  <1>2. CASE VolumeFails \/ ProxyFails \/ JobCloses \/ JobFails
    BY <1>2 DEF VolumeFails, ProxyFails, JobCloses, JobFails, EnterFinally, Cleanup
  <1>3. ASSUME NEW c \in Container, DaemonCreates(c) \/ RequestLost(c)
        PROVE  BoxInv'
    BY <1>3 DEF DaemonCreates, RequestLost
  <1>4. ASSUME NEW c \in Container, RemoveContainer(c)
        PROVE  BoxInv'
    BY <1>4 DEF RemoveContainer
  <1>5. CASE RemoveVolume
    BY <1>5 DEF RemoveVolume, ContainersDone
  <1>6. CASE UNCHANGED boxVars
    BY <1>6 DEF boxVars
  <1> QED BY <1>1, <1>2, <1>3, <1>4, <1>5, <1>6 DEF BoxNext

-----------------------------------------------------------------------------
(* CodeExecution                                                             *)

\* An execution is remembered from the moment its runner answered; its report
\* is on disk before its row is inserted; its timer is the last thing it gets.
CodeInv ==
  /\ CodeTypeOK
  /\ FlagBelongsToAnExecution
  /\ RememberedIsReadable
  /\ \A x \in Execution :
       /\ x \in execJob => execPhase[x] \in {"reporting", "inserting", "removing", "done"}
       /\ execPhase[x] = "inserting" => execDir[x] = "report"
       /\ x \in execTimer \/ execAnswer[x] = "error" => execPhase[x] = "done"

\* Holds at first: what is remembered of an execution.
LEMMA CodeInvInit == CodeInit => CodeInv
PROOF
  BY DEF CodeInit, CodeInv, CodeTypeOK, FlagBelongsToAnExecution, RememberedIsReadable, Started

\* No step breaks what is remembered of an execution.
LEMMA CodeInvStep == CodeInv /\ [CodeNext]_execVars => CodeInv'
PROOF
  <1> SUFFICES ASSUME CodeInv, [CodeNext]_execVars
               PROVE  CodeInv'
    OBVIOUS
  <1> USE DEF CodeInv, CodeTypeOK, FlagBelongsToAnExecution, RememberedIsReadable, Started, Awaits, Answers
  <1>1. ASSUME NEW x \in Execution, CodeArrive(x)
        PROVE  CodeInv'
    BY <1>1 DEF CodeArrive
  <1>2. ASSUME NEW x \in Execution, PassGate(x)
        PROVE  CodeInv'
    BY <1>2 DEF PassGate
  <1>3. ASSUME NEW x \in Execution, RefuseBody(x) \/ StartExecution(x)
        PROVE  CodeInv'
    <2>1. CASE RefuseBody(x)
      BY <2>1 DEF RefuseBody
    <2>2. CASE StartExecution(x)
      <3>1. execPhase'[x] = "writing" /\ execActive' = TRUE
        BY <2>2 DEF StartExecution
      <3> QED BY <2>2, <3>1 DEF StartExecution
    <2> QED BY <1>3, <2>1, <2>2
  <1>4. ASSUME NEW x \in Execution, WriteSources(x)
        PROVE  CodeInv'
    BY <1>4 DEF WriteSources
  <1>5. ASSUME NEW x \in Execution, RunnerReturns(x)
        PROVE  CodeInv'
    BY <1>5 DEF RunnerReturns
  <1>6. ASSUME NEW x \in Execution, WriteReport(x)
        PROVE  CodeInv'
    BY <1>6 DEF WriteReport
  <1>7. ASSUME NEW x \in Execution, InsertAndAnswer(x)
        PROVE  CodeInv'
    BY <1>7 DEF InsertAndAnswer, FinishFlag
  <1>8. ASSUME NEW x \in Execution, ExecutionThrows(x)
        PROVE  CodeInv'
    BY <1>8 DEF ExecutionThrows, FinishFlag
  <1>9. ASSUME NEW x \in Execution, UndoExecution(x)
        PROVE  CodeInv'
    BY <1>9 DEF UndoExecution, RemoveDirectory
  <1>10. ASSUME NEW x \in Execution, ExpireExecution(x)
         PROVE  CodeInv'
    BY <1>10 DEF ExpireExecution, ForgetExecution, RemoveDirectory
  <1>11. CASE UNCHANGED execVars
    BY <1>11 DEF execVars
  <1> QED
    BY <1>1, <1>2, <1>3, <1>4, <1>5, <1>6, <1>7, <1>8, <1>9, <1>10, <1>11
    DEF CodeNext, ExecutionStep

-----------------------------------------------------------------------------
(* Codegen                                                                   *)

\* A request that has not started has neither a process nor a session.
RecInv ==
  /\ RecTypeOK
  /\ SlotFollowsProcess
  /\ \A c \in Recording : recPhase[c] \in {"idle", "preparing"} =>
       recSession[c] = "none" /\ recChild[c] = "none"

\* Holds at first: what a recording holds.
LEMMA RecInvInit == RecInit => RecInv
PROOF
  BY DEF RecInit, RecInv, RecTypeOK, SlotFollowsProcess

\* No step breaks what a recording holds.
LEMMA RecInvStep == RecInv /\ [RecNext]_recVars => RecInv'
PROOF
  <1> SUFFICES ASSUME RecInv, [RecNext]_recVars
               PROVE  RecInv'
    OBVIOUS
  <1> USE DEF RecInv, RecTypeOK, SlotFollowsProcess
  <1>1. ASSUME NEW c \in Recording, RecArrive(c) \/ RecReject(c)
        PROVE  RecInv'
    BY <1>1 DEF RecArrive, RecReject
  <1>2. ASSUME NEW c \in Recording, StartRecording(c)
        PROVE  RecInv'
    BY <1>2 DEF StartRecording
  <1>3. ASSUME NEW c \in Recording, ChildRuns(c) \/ ChildSaves(c) \/ RecDeadline(c)
        PROVE  RecInv'
    BY <1>3 DEF ChildRuns, ChildSaves, RecDeadline
  <1>4. ASSUME NEW c \in Recording, ChildEnds(c)
        PROVE  RecInv'
    BY <1>4 DEF ChildEnds, FinishRecording
  <1>5. ASSUME NEW c \in Recording, ExpireRecording(c)
        PROVE  RecInv'
    BY <1>5 DEF ExpireRecording
  <1>6. CASE UNCHANGED recVars
    BY <1>6 DEF recVars
  <1> QED BY <1>1, <1>2, <1>3, <1>4, <1>5, <1>6 DEF RecNext

-----------------------------------------------------------------------------
(* LegacyJourneys                                                            *)

\* A task belongs to a journey that is remembered and says "running"; whoever
\* asked for its cancellation left a reason in its signal; only an ended
\* journey has a retention timer.
JourneyInv ==
  /\ JourneyTypeOK
  /\ CancelledJourneyEndsCancelled
  /\ \A j \in Journey :
       /\ journeyPhase[j] \in Task <=> journeyStatus[j] = "running"
       /\ journeyPhase[j] \in Task => j \in journeyJob
       /\ j \in journeyAsked => journeyAbort[j] # "none"
       /\ j \in journeyTimer => journeyPhase[j] = "done"

\* Holds at first: what is remembered of a journey.
LEMMA JourneyInvInit == JourneyInit => JourneyInv
PROOF
  <1> SUFFICES ASSUME JourneyInit
               PROVE  JourneyInv
    OBVIOUS
  <1>1. JourneyTypeOK
    BY DEF JourneyInit, JourneyTypeOK
  <1>2. CancelledJourneyEndsCancelled
    BY DEF JourneyInit, CancelledJourneyEndsCancelled
  <1> QED BY <1>1, <1>2 DEF JourneyInit, JourneyInv, Task

\* No step breaks what is remembered of a journey.
LEMMA JourneyInvStep == JourneyInv /\ [JourneyNext]_journeyVars => JourneyInv'
PROOF
  <1> SUFFICES ASSUME JourneyInv, [JourneyNext]_journeyVars
               PROVE  JourneyInv'
    OBVIOUS
  <1> USE DEF JourneyInv, JourneyTypeOK, CancelledJourneyEndsCancelled, Task, JourneyTo
  <1>1. ASSUME NEW j \in Journey,
               JourneyArrives(j) \/ JourneyRejected(j) \/ MakeJourneyDir(j) \/ StartFails(j)
        PROVE  JourneyInv'
    BY <1>1 DEF JourneyArrives, JourneyRejected, MakeJourneyDir, StartFails
  <1>2. ASSUME NEW j \in Journey, StartJourney(j)
        PROVE  JourneyInv'
    BY <1>2 DEF StartJourney
  <1>3. ASSUME NEW j \in Journey, JourneyDeadline(j)
        PROVE  JourneyInv'
    BY <1>3 DEF JourneyDeadline
  <1>4. ASSUME NEW j \in Journey, CancelJourney(j)
        PROVE  JourneyInv'
    BY <1>4 DEF CancelJourney
  <1>5. ASSUME NEW j \in Journey, RunnerResolves(j)
        PROVE  JourneyInv'
    BY <1>5 DEF RunnerResolves
  <1>6. ASSUME NEW j \in Journey, JourneyCompletes(j)
        PROVE  JourneyInv'
    BY <1>6 DEF JourneyCompletes, MayComplete, FinishJourney
  <1>7. ASSUME NEW j \in Journey, JourneyThrows(j)
        PROVE  JourneyInv'
    BY <1>7 DEF JourneyThrows, EndStatus, FinishJourney
  <1>8. ASSUME NEW j \in Journey, ExpireJourney(j)
        PROVE  JourneyInv'
    BY <1>8 DEF ExpireJourney
  <1>9. ASSUME NEW s \in BrowserScan, ScanArrives(s) \/ ScanMoves(s)
        PROVE  JourneyInv'
    BY <1>9 DEF ScanArrives, ScanMoves
  <1>10. CASE UNCHANGED journeyVars
    BY <1>10 DEF journeyVars
  <1> QED
    BY <1>1, <1>2, <1>3, <1>4, <1>5, <1>6, <1>7, <1>8, <1>9, <1>10
    DEF JourneyNext, JourneyTaskStep

-----------------------------------------------------------------------------
(* ExecutionRetention                                                        *)

\* Erasing goes from the row to the memory, the objects and the files, and what
\* is left behind at each of them is on record.
KeptInv ==
  /\ KeptTypeOK
  /\ erase # "idle" => ~keptRow
  /\ erase \in {"objects", "disk", "done"} => ~keptMemory
  /\ erase = "done" => keptDisk = "none" \/ failedRm
  /\ erase \in {"disk", "done"} /\ keptObjects => lateUpload \/ failedRemoval
  /\ {lateUpload, failedRemoval, failedRm} \subseteq BOOLEAN

\* Holds at first: what is left of an erased execution.
LEMMA KeptInvInit == KeptInit => KeptInv
PROOF
  <1> SUFFICES ASSUME KeptInit
               PROVE  KeptInv
    OBVIOUS
  <1>1. upload \in [Upload -> {"free", "listing", "putting"}]
    BY DEF KeptInit
  <1>2. {keptMemory, keptRow, keptObjects, keptTimer, lateUpload, failedRemoval, failedRm} \subseteq BOOLEAN
    BY DEF KeptInit
  <1>3. restarts \in 0..MaxRestarts
    BY RetentionAssumption DEF KeptInit
  <1>4. KeptTypeOK
    BY <1>1, <1>2, <1>3 DEF KeptInit, KeptTypeOK
  <1> QED BY <1>2, <1>4 DEF KeptInit, KeptInv

\* No step breaks what is left of an erased execution.
LEMMA KeptInvStep == KeptInv /\ [KeptNext]_keptVars => KeptInv'
PROOF
  <1> SUFFICES ASSUME KeptInv, [KeptNext]_keptVars
               PROVE  KeptInv'
    OBVIOUS
  <1> USE RetentionAssumption DEF KeptInv, KeptTypeOK, blame
  <1>1. ASSUME NEW u \in Upload, ListFiles(u)
        PROVE  KeptInv'
    BY <1>1 DEF ListFiles
  <1>2. ASSUME NEW u \in Upload, PutFile(u)
        PROVE  KeptInv'
    <2>1. lateUpload' \in BOOLEAN /\ keptObjects' \in BOOLEAN
      BY <1>2 DEF PutFile
    <2>2. upload' \in [Upload -> {"free", "listing", "putting"}]
      BY <1>2 DEF PutFile
    <2>3. UNCHANGED <<keptMemory, keptRow, keptDisk, keptTimer, erase, expiry, report,
                      restarts, failedRemoval, failedRm>>
      BY <1>2 DEF PutFile
    <2>4. erase \in {"disk", "done"} /\ keptObjects' => lateUpload' \/ failedRemoval'
      <3>1. CASE UNCHANGED <<keptObjects, lateUpload>>
        BY <2>3, <3>1
      <3>2. CASE lateUpload' = (lateUpload \/ Removing)
        BY <3>2 DEF Removing
      <3> QED BY <1>2, <3>1, <3>2 DEF PutFile
    <2> QED BY <2>1, <2>2, <2>3, <2>4
  <1>3. CASE Expire
    BY <1>3 DEF Expire, ForgetNow
  <1>4. CASE ExpireObjects
    BY <1>4 DEF ExpireObjects, RemoveObjects
  <1>5. CASE ExpireFiles
    BY <1>5 DEF ExpireFiles, RemoveFiles
  <1>6. CASE EraseRow
    BY <1>6 DEF EraseRow
  <1>7. CASE EraseMemory
    BY <1>7 DEF EraseMemory, ForgetNow
  <1>8. CASE EraseObjects
    BY <1>8 DEF EraseObjects, RemoveObjects
  <1>9. CASE EraseFiles
    BY <1>9 DEF EraseFiles, RemoveFiles
  <1>10. CASE LookUp
    BY <1>10 DEF LookUp
  <1>11. CASE WriteEvidence
    BY <1>11 DEF WriteEvidence
  <1>12. CASE Restart
    <2>1. KeptTypeOK' /\ {lateUpload, failedRemoval, failedRm}' \subseteq BOOLEAN
      <3>1. /\ keptMemory' = FALSE /\ keptTimer' = FALSE /\ expiry' = {}
            /\ keptDisk' \in {keptDisk, "none"}
            /\ erase' \in {"idle", "done"} /\ report' = "idle"
            /\ upload' \in [Upload -> {"free", "listing", "putting"}]
            /\ restarts' \in 0..MaxRestarts
            /\ UNCHANGED <<keptRow, keptObjects, failedRemoval>>
        BY <1>12 DEF Restart
      <3>2. lateUpload' \in BOOLEAN /\ failedRm' \in BOOLEAN
        BY <1>12 DEF Restart
      <3> QED BY <3>1, <3>2
    <2>2. erase' # "idle" => erase # "idle" /\ erase' = "done"
      BY <1>12 DEF Restart
    <2>3. erase \in {"row", "objects", "disk"} => failedRm'
      BY <1>12 DEF Restart
    <2>4. erase \in {"row", "objects"} => lateUpload'
      BY <1>12 DEF Restart
    <2>5. (failedRm => failedRm') /\ (lateUpload => lateUpload') /\ failedRemoval' = failedRemoval
      BY <1>12 DEF Restart
    <2>6. ~keptMemory' /\ keptRow' = keptRow /\ keptObjects' = keptObjects /\ keptDisk' \in {keptDisk, "none"}
      BY <1>12 DEF Restart
    <2> QED BY <2>1, <2>2, <2>3, <2>4, <2>5, <2>6
  <1>13. CASE UNCHANGED keptVars
    BY <1>13 DEF keptVars
  <1> QED
    BY <1>1, <1>2, <1>3, <1>4, <1>5, <1>6, <1>7, <1>8, <1>9, <1>10, <1>11, <1>12, <1>13
    DEF KeptNext

\* An execution erased is found nowhere but where a failure left it.
LEMMA KeptInvErases == KeptInv => ErasedIsGone
PROOF
  BY DEF KeptInv, KeptTypeOK, ErasedIsGone, FoundIn

-----------------------------------------------------------------------------
(* SandboxRunner                                                             *)

\* The slots taken, one for each copy that runs.
Slots == UNION {{r} \X (1..running[r]) : r \in Request}

\* A nonce is remembered as long as the first copy's skew lasts: a copy that
\* comes later is only let run if its timestamp is ahead of that first arrival.
NonceOutlivesSkew ==
  \A r \in Request :
    /\ ran[r] > 0 => first[r] # NotYet
    /\ first[r] # NotYet =>
         first[r] <= clock /\ (clock > first[r] + Skew \/ consumed[r] > first[r] + Skew)

RunnerInv ==
  /\ RunnerTypeOK
  /\ stamp \in [Request -> Nat]
  /\ \A r \in Request : running[r] <= ran[r] /\ ran[r] <= deliveries[r]
  /\ NonceOutlivesSkew
  /\ RunsOnce
  /\ IsFiniteSet(Slots) /\ capacity = Cardinality(Slots)

\* The memory of nonces and the count of slots hold at first.
LEMMA RunnerInvInit == RunnerInit => RunnerInv
PROOF
  <1> SUFFICES ASSUME RunnerInit
               PROVE  RunnerInv
    OBVIOUS
  <1> USE SandboxRunnerAssumption
  <1>1. RunnerTypeOK /\ stamp \in [Request -> Nat]
    BY DEF RunnerInit, RunnerTypeOK, NotYet
  <1>2. /\ \A r \in Request : running[r] <= ran[r] /\ ran[r] <= deliveries[r]
        /\ NonceOutlivesSkew /\ RunsOnce
    BY DEF RunnerInit, NonceOutlivesSkew, RunsOnce
  <1>3. Slots = {}
    BY DEF RunnerInit, Slots
  <1> QED BY <1>1, <1>2, <1>3, FS_EmptySet DEF RunnerInit, RunnerInv

\* One more copy takes a slot that was free, one less gives its slot back.
LEMMA OneMoreSlot ==
  ASSUME RunnerTypeOK, NEW r \in Request, running' = [running EXCEPT ![r] = @ + 1],
         IsFiniteSet(Slots)
  PROVE  IsFiniteSet(Slots') /\ Cardinality(Slots') = Cardinality(Slots) + 1
PROOF
  <1>1. running \in [Request -> Nat]
    BY SandboxRunnerAssumption DEF RunnerTypeOK
  <1>2. <<r, running[r] + 1>> \notin Slots
    BY <1>1 DEF Slots
  <1>3. Slots' = Slots \cup {<<r, running[r] + 1>>}
    <2>1. ASSUME NEW s \in Slots'
          PROVE  s \in Slots \cup {<<r, running[r] + 1>>}
      <3>1. PICK q \in Request, i \in Nat : i \in 1..running'[q] /\ s = <<q, i>>
        BY DEF Slots
      <3>2. CASE i \in 1..running[q]
        BY <3>1, <3>2 DEF Slots
      <3>3. CASE i \notin 1..running[q]
        <4>1. q = r /\ i = running[r] + 1
          BY <1>1, <3>1, <3>3
        <4> QED BY <3>1, <4>1
      <3> QED BY <3>2, <3>3
    <2>2. ASSUME NEW s \in Slots
          PROVE  s \in Slots'
      <3>1. PICK q \in Request, i \in Nat : i \in 1..running[q] /\ s = <<q, i>>
        BY DEF Slots
      <3>2. i \in 1..running'[q]
        BY <1>1, <3>1
      <3> QED BY <3>1, <3>2 DEF Slots
    <2>3. running[r] + 1 \in 1..running'[r]
      BY <1>1
    <2>4. <<r, running[r] + 1>> \in Slots'
      BY <2>3 DEF Slots
    <2> QED BY <2>1, <2>2, <2>4
  <1> QED BY <1>2, <1>3, FS_AddElement

\* A run that ends gives back one slot.
LEMMA OneSlotLess ==
  ASSUME RunnerTypeOK, NEW r \in Request, running[r] > 0,
         running' = [running EXCEPT ![r] = @ - 1], IsFiniteSet(Slots)
  PROVE  /\ IsFiniteSet(Slots') /\ Cardinality(Slots') = Cardinality(Slots) - 1
         /\ Cardinality(Slots) > 0
PROOF
  <1>1. running \in [Request -> Nat]
    BY SandboxRunnerAssumption DEF RunnerTypeOK
  <1>2. running[r] \in 1..running[r]
    BY <1>1
  <1>3. <<r, running[r]>> \in Slots
    BY <1>2 DEF Slots
  <1>4. Slots' = Slots \ {<<r, running[r]>>}
    <2>1. ASSUME NEW s \in Slots'
          PROVE  s \in Slots \ {<<r, running[r]>>}
      <3>1. PICK q \in Request, i \in Nat : i \in 1..running'[q] /\ s = <<q, i>>
        BY DEF Slots
      <3>2. i \in 1..running[q] /\ (q = r => i # running[r])
        BY <1>1, <3>1
      <3> QED BY <3>1, <3>2 DEF Slots
    <2>2. ASSUME NEW s \in Slots, s # <<r, running[r]>>
          PROVE  s \in Slots'
      <3>1. PICK q \in Request, i \in Nat : i \in 1..running[q] /\ s = <<q, i>>
        BY DEF Slots
      <3>2. i \in 1..running'[q]
        BY <1>1, <2>2, <3>1
      <3> QED BY <3>1, <3>2 DEF Slots
    <2> QED BY <2>1, <2>2
  <1>5. Cardinality(Slots) \in Nat /\ Cardinality(Slots') = Cardinality(Slots) - 1
    BY <1>3, <1>4, FS_RemoveElement, FS_CardinalityType
  <1>6. IsFiniteSet(Slots')
    BY <1>4, FS_RemoveElement
  <1>7. Cardinality(Slots') \in Nat
    BY <1>6, FS_CardinalityType
  <1> QED BY <1>5, <1>6, <1>7

\* No step breaks the memory of nonces and the count of slots.
LEMMA RunnerInvStep == RunnerInv /\ [RunnerNext]_runnerVars => RunnerInv'
PROOF
  <1> SUFFICES ASSUME RunnerInv, [RunnerNext]_runnerVars
               PROVE  RunnerInv'
    OBVIOUS
  <1> USE SandboxRunnerAssumption DEF RunnerInv
  <1> DEFINE Counts == \A r \in Request : running[r] <= ran[r] /\ ran[r] <= deliveries[r]
             Order == NonceOutlivesSkew /\ RunsOnce
             Same == UNCHANGED <<running, capacity>>
  <1>0. Same => Slots' = Slots
    BY DEF Slots
  <1>1. CASE RunnerTick
    BY <1>0, <1>1 DEF RunnerTick, RunnerTypeOK, NonceOutlivesSkew, RunsOnce, NotYet
  <1>2. ASSUME NEW r \in Request, RejectCopy(r)
        PROVE  RunnerInv'
    <2>1. RunnerTypeOK' /\ stamp' = stamp /\ Counts' /\ Same
      BY <1>2 DEF RejectCopy, Deliver, Prune, RunnerTypeOK, Remembered
    <2>2. Order'
      BY <1>2 DEF RejectCopy, Deliver, Prune, RunnerTypeOK, Remembered, NonceOutlivesSkew, RunsOnce, NotYet
    <2> QED BY <1>0, <2>1, <2>2
  <1>3. ASSUME NEW r \in Request, RefuseCopy(r)
        PROVE  RunnerInv'
    <2>1. RunnerTypeOK' /\ stamp' = stamp /\ Counts' /\ Same
      BY <1>3 DEF RefuseCopy, Deliver, Consume, RunnerTypeOK, Remembered
    <2>2. Order'
      BY <1>3 DEF RefuseCopy, Deliver, Consume, RunnerTypeOK, Remembered, NonceOutlivesSkew, RunsOnce, NotYet
    <2> QED BY <1>0, <2>1, <2>2
  <1>4. ASSUME NEW r \in Request, RunCopy(r)
        PROVE  RunnerInv'
    <2>1. /\ consumed' \in [Request -> 0..(MaxTime + Skew + 1)]
          /\ clock' = clock /\ stamp' = stamp /\ client' = client
          /\ capacity' = capacity + 1 /\ capacity < MaxConcurrency
      BY <1>4 DEF RunCopy, Consume, RunnerTypeOK, HasRoom
    <2>2. /\ deliveries' = [deliveries EXCEPT ![r] = @ + 1] /\ deliveries[r] < MaxDeliveries
          /\ running' = [running EXCEPT ![r] = @ + 1]
          /\ ran' = [ran EXCEPT ![r] = @ + 1]
          /\ first' = [first EXCEPT ![r] = IF @ = NotYet THEN clock ELSE @]
      BY <1>4 DEF RunCopy, Deliver
    <2>3. Counts' /\ RunnerTypeOK'
      BY <2>1, <2>2 DEF RunnerTypeOK, NotYet
    <2>4. NonceOutlivesSkew'
      BY <1>4, <2>1, <2>2 DEF RunCopy, Consume, NonceOutlivesSkew, RunnerTypeOK, Remembered, NotYet
    <2>5. RunsOnce'
      <3>1. ASSUME first[r] # NotYet
            PROVE  stamp[r] > first[r]
        BY <1>4, <3>1 DEF RunCopy, Fresh, Age, Remembered, NonceOutlivesSkew, RunnerTypeOK, NotYet
      <3>2. first[r] = NotYet => ran[r] = 0
        BY DEF NonceOutlivesSkew, RunnerTypeOK
      <3> QED BY <2>1, <2>2, <3>1, <3>2 DEF RunsOnce, RunnerTypeOK
    <2>6. IsFiniteSet(Slots') /\ Cardinality(Slots') = Cardinality(Slots) + 1
      BY <2>2, OneMoreSlot
    <2> QED BY <2>1, <2>3, <2>4, <2>5, <2>6
  <1>5. ASSUME NEW r \in Request, SandboxEnds(r)
        PROVE  RunnerInv'
    <2>1. /\ running[r] > 0 /\ running' = [running EXCEPT ![r] = @ - 1]
          /\ capacity' = capacity - 1
          /\ UNCHANGED <<stamp, clock, consumed, deliveries, ran, first>>
      BY <1>5 DEF SandboxEnds, ReturnSlot
    <2>2. client' \in [Request -> {"waiting", "answered", "refused", "gone"}]
      BY <1>5 DEF SandboxEnds, RunnerTypeOK
    <2>3. /\ IsFiniteSet(Slots') /\ Cardinality(Slots') = Cardinality(Slots) - 1
          /\ Cardinality(Slots) > 0
      BY <2>1, OneSlotLess
    <2>4. Counts' /\ running' \in [Request -> 0..MaxDeliveries]
      BY <2>1 DEF RunnerTypeOK
    <2>5. capacity' \in 0..MaxConcurrency
      BY <2>1, <2>3 DEF RunnerTypeOK
    <2>6. RunnerTypeOK'
      BY <2>1, <2>2, <2>4, <2>5 DEF RunnerTypeOK
    <2>7. Order'
      BY <2>1 DEF NonceOutlivesSkew, RunsOnce
    <2> QED BY <2>1, <2>3, <2>4, <2>6, <2>7
  <1>6. ASSUME NEW r \in Request, ClientGivesUp(r)
        PROVE  RunnerInv'
    BY <1>0, <1>6 DEF ClientGivesUp, RunnerTypeOK, NonceOutlivesSkew, RunsOnce, NotYet
  <1>7. CASE UNCHANGED runnerVars
    BY <1>0, <1>7 DEF runnerVars, RunnerTypeOK, NonceOutlivesSkew, RunsOnce, NotYet
  <1> QED BY <1>1, <1>2, <1>3, <1>4, <1>5, <1>6, <1>7 DEF RunnerNext

\* The runner's slots are its sandboxes.
LEMMA RunnerInvCounts == RunnerInv => SlotsMatchSandboxes
PROOF
  BY SandboxRunnerAssumption DEF RunnerInv, RunnerTypeOK, SlotsMatchSandboxes, Slots

-----------------------------------------------------------------------------
(* EgressProxy                                                               *)

\* The clients are counted, those of MaxConnections at most admitted.
ClientsInv ==
  /\ \A c \in Connection : netState[c] = "none" => c \notin clientOpen
  /\ IsFiniteSet(clientOpen) /\ connections = Cardinality(clientOpen)
  /\ Cardinality(Admitted) <= MaxConnections

\* What reaches a target, or is about to, spent one of the requests.
RequestsInv ==
  /\ IsFiniteSet(Reaching) /\ IsFiniteSet(Asking)
  /\ Cardinality(Reaching) + Cardinality(Asking) <= requests
  /\ Cardinality(Reaching) + Cardinality(Asking) <= MaxRequests

\* What was passed on was counted first, but for what came beside a CONNECT.
BytesInv ==
  /\ IsFiniteSet(headed) /\ \A c \in headed : netState[c] \in {"tunnel", "refused"}
  /\ IsFiniteSet(Cut)
  /\ forwarded <= bytes + Cardinality(headed)
  /\ forwarded <= MaxBytes + Cardinality(headed) + Cardinality(Cut)

NetInv == NetTypeOK /\ ClientsInv /\ RequestsInv /\ BytesInv

\* The counts of the proxy hold at first.
LEMMA NetInvInit == NetInit => NetInv
PROOF
  <1> SUFFICES ASSUME NetInit
               PROVE  NetInv
    OBVIOUS
  <1>1. NetTypeOK
    BY DEF NetInit, NetTypeOK
  <1>2. Admitted = {} /\ Reaching = {} /\ Asking = {} /\ Cut = {}
    BY DEF NetInit, Admitted, Reaching, Asking, Cut
  <1> QED BY <1>1, <1>2, FS_EmptySet, EgressAssumption DEF NetInit, NetInv, ClientsInv, RequestsInv, BytesInv

\* A set that a step leaves as it is or makes smaller keeps its limit.
LEMMA FewerStayWithin ==
  ASSUME NEW S, IsFiniteSet(S), NEW T \in SUBSET S, NEW n \in Nat, Cardinality(S) <= n
  PROVE  IsFiniteSet(T) /\ Cardinality(T) \in Nat /\ Cardinality(T) <= n
PROOF
  BY FS_Subset, FS_CardinalityType

\* A step that opens or closes no client admits none.
LEMMA ClientsKept ==
  ASSUME NetInv, UNCHANGED <<clientOpen, connections>>,
         \A c \in Connection : netState'[c] = "none" => netState[c] = "none",
         \A c \in Connection : netState[c] = "excess" => netState'[c] = "excess"
  PROVE  ClientsInv'
PROOF
  <1> USE EgressAssumption DEF NetInv, ClientsInv
  <1>1. Admitted' \in SUBSET Admitted
    BY DEF Admitted, NetTypeOK
  <1>2. IsFiniteSet(Admitted)
    BY FS_Subset DEF Admitted
  <1>3. Cardinality(Admitted') <= MaxConnections
    BY <1>1, <1>2, FewerStayWithin
  <1> QED BY <1>3

\* A step that reaches no further target spends no more of the limit.
LEMMA RequestsKept ==
  ASSUME NetInv, NetTypeOK', Reaching' \subseteq Reaching, Asking' \subseteq Asking, requests <= requests'
  PROVE  RequestsInv'
PROOF
  <1> USE EgressAssumption DEF NetInv, RequestsInv
  <1>1. /\ IsFiniteSet(Reaching') /\ Cardinality(Reaching') \in Nat /\ Cardinality(Reaching) \in Nat
        /\ Cardinality(Reaching') <= Cardinality(Reaching)
    BY FS_Subset, FS_CardinalityType
  <1>2. /\ IsFiniteSet(Asking') /\ Cardinality(Asking') \in Nat /\ Cardinality(Asking) \in Nat
        /\ Cardinality(Asking') <= Cardinality(Asking)
    BY FS_Subset, FS_CardinalityType
  <1> QED BY <1>1, <1>2 DEF NetTypeOK

\* A step that passes nothing on keeps the limit of bytes.
LEMMA BytesKept ==
  ASSUME NetInv, NetTypeOK', UNCHANGED <<headed, forwarded>>, bytes <= bytes', Cut' = Cut,
         \A c \in headed : netState[c] \in {"tunnel", "refused"} => netState'[c] \in {"tunnel", "refused"}
  PROVE  BytesInv'
PROOF
  BY EgressAssumption, FS_CardinalityType DEF NetInv, BytesInv, NetTypeOK

\* A chunk within the limit is counted and passed on.
LEMMA CountedChunk ==
  ASSUME NetInv, bytes' = bytes + 1, bytes' <= MaxBytes, forwarded' \in {forwarded, forwarded + 1},
         UNCHANGED <<headed, netState>>, Cut' = Cut
  PROVE  BytesInv'
PROOF
  BY EgressAssumption, FS_CardinalityType DEF NetInv, BytesInv, NetTypeOK

\* No step breaks the counts of the proxy.
LEMMA NetInvStep == NetInv /\ [NetNext]_netVars => NetInv'
PROOF
  <1> SUFFICES ASSUME NetInv, [NetNext]_netVars
               PROVE  NetInv'
    OBVIOUS
  <1> USE EgressAssumption DEF NetInv
  <1>1. ASSUME NEW c \in Connection, NetConnect(c)
        PROVE  NetInv'
    <2>1. NetTypeOK'
      BY <1>1 DEF NetConnect, NetTo, NetTypeOK, plainVars
    <2>2. c \notin clientOpen /\ clientOpen' = clientOpen \cup {c} /\ connections' = connections + 1
      BY <1>1 DEF NetConnect, ClientsInv
    <2>3. IsFiniteSet(clientOpen') /\ connections' = Cardinality(clientOpen')
      BY <2>2, FS_AddElement DEF ClientsInv
    <2>4. Reaching' = Reaching /\ Asking' = Asking /\ Cut' = Cut /\ UNCHANGED <<requests, bytes, headed, forwarded>>
      BY <1>1 DEF NetConnect, NetTo, NetTypeOK, Reaching, Asking, Cut, plainVars
    <2>5. Cardinality(Admitted') <= MaxConnections
      <3>1. CASE connections' > MaxConnections
        <4>1. Admitted' = Admitted
          BY <1>1, <2>2, <3>1 DEF NetConnect, NetTo, NetTypeOK, Admitted
        <4> QED BY <4>1 DEF ClientsInv
      <3>2. CASE ~(connections' > MaxConnections)
        <4>1. Admitted' \in SUBSET clientOpen'
          BY DEF Admitted
        <4>2. connections' <= MaxConnections
          BY <2>1, <3>2 DEF NetTypeOK
        <4> QED BY <2>3, <4>1, <4>2, FewerStayWithin
      <3> QED BY <3>1, <3>2
    <2>6. \A d \in Connection : netState'[d] = "none" => d \notin clientOpen'
      BY <1>1 DEF NetConnect, NetTo, NetTypeOK, ClientsInv
    <2>7. ClientsInv'
      BY <2>3, <2>5, <2>6 DEF ClientsInv
    <2>8. BytesInv'
      BY <1>1, <2>4 DEF NetConnect, NetTo, NetTypeOK, BytesInv
    <2> QED BY <2>1, <2>4, <2>7, <2>8 DEF RequestsInv
  <1>2. ASSUME NEW c \in Connection, NetRequest(c)
        PROVE  NetInv'
    <2>1. NetTypeOK' /\ UNCHANGED <<clientOpen, connections, headed, bytes, forwarded, plain>>
      BY <1>2 DEF NetRequest, Refuse, NetTo, NetTypeOK, plainVars
    <2>2. /\ requests' = requests + 1 /\ requests \in Nat
          /\ bytes <= bytes' /\ Asking' = Asking /\ Cut' = Cut
      BY <1>2, <2>1 DEF NetRequest, NetTypeOK, Asking, Cut
    <2>3. /\ \A d \in Connection : netState'[d] = "none" => netState[d] = "none"
          /\ \A d \in Connection : netState[d] = "excess" => netState'[d] = "excess"
          /\ \A d \in headed : netState[d] \in {"tunnel", "refused"} => netState'[d] \in {"tunnel", "refused"}
      BY <1>2 DEF NetRequest, Refuse, NetTo, NetTypeOK
    <2>4. ClientsInv' /\ BytesInv'
      BY <2>1, <2>2, <2>3, ClientsKept, BytesKept
    <2>5. RequestsInv'
      <3>1. CASE Refuse(c)
        <4>1. Reaching' \subseteq Reaching
          BY <3>1 DEF Refuse, NetTo, NetTypeOK, Reaching
        <4> QED BY <2>1, <2>2, <4>1, RequestsKept
      <3>2. CASE requests' <= MaxRequests /\ NetTo(c, "resolving")
        <4>1. Reaching' = Reaching \cup {c} /\ c \notin Reaching
          BY <1>2, <3>2 DEF NetRequest, NetTo, NetTypeOK, Reaching
        <4>2. IsFiniteSet(Reaching') /\ Cardinality(Reaching') = Cardinality(Reaching) + 1
          BY <4>1, FS_AddElement DEF RequestsInv
        <4>3. Cardinality(Reaching) \in Nat /\ Cardinality(Asking) \in Nat
          BY FS_CardinalityType DEF RequestsInv
        <4> QED BY <2>2, <3>2, <4>2, <4>3 DEF RequestsInv
      <3> QED BY <1>2, <3>1, <3>2 DEF NetRequest
    <2> QED BY <2>1, <2>4, <2>5
  <1>3. ASSUME NEW c \in Connection, NetResolved(c) \/ NetConnected(c) \/ NetChunk(c) \/ UpstreamCloses(c)
        PROVE  NetInv'
    <2>1. NetTypeOK' /\ UNCHANGED <<clientOpen, connections, requests, plain>>
      BY <1>3 DEF NetResolved, NetConnected, NetChunk, UpstreamCloses, SendHead, Refuse, NetTo, NetTypeOK, plainVars
    <2>2. PICK s \in {"refused", "connecting", "tunnel"} : netState' = [netState EXCEPT ![c] = s]
      BY <1>3 DEF NetResolved, NetConnected, NetChunk, UpstreamCloses, Refuse, NetTo, NetTypeOK
    <2>3. c \in Reaching
      BY <1>3 DEF NetResolved, NetConnected, NetChunk, UpstreamCloses, Reaching
    <2>4. /\ Reaching' \subseteq Reaching
          /\ \A d \in Connection : netState'[d] = "none" => netState[d] = "none"
          /\ \A d \in Connection : netState[d] = "excess" => netState'[d] = "excess"
      BY <2>2, <2>3 DEF NetTypeOK, Reaching
    <2>5. requests <= requests' /\ Asking' = Asking /\ Cut' = Cut
      BY <2>1 DEF NetTypeOK, Asking, Cut
    <2>6. ClientsInv' /\ RequestsInv'
      BY <2>1, <2>4, <2>5, ClientsKept, RequestsKept
    <2>7. CASE UNCHANGED <<headed, forwarded>> /\ bytes <= bytes'
      <3>1. \A d \in headed : netState[d] \in {"tunnel", "refused"} => netState'[d] \in {"tunnel", "refused"}
        BY <1>3 DEF NetResolved, NetConnected, NetChunk, UpstreamCloses, Refuse, NetTo, NetTypeOK
      <3> QED BY <2>1, <2>5, <2>6, <2>7, <3>1, BytesKept
    <2>8. CASE NetConnected(c) /\ NetTo(c, "tunnel") /\ SendHead(c)
      <3>1. headed' = headed \cup {c} /\ c \notin headed
        BY <2>8 DEF NetConnected, SendHead, BytesInv
      <3>2. IsFiniteSet(headed') /\ Cardinality(headed') = Cardinality(headed) + 1
        BY <3>1, FS_AddElement DEF BytesInv
      <3>3. Cardinality(headed) \in Nat /\ Cardinality(Cut) \in Nat
        BY FS_CardinalityType DEF BytesInv
      <3>4. \A d \in headed' : netState'[d] \in {"tunnel", "refused"}
        BY <2>8, <3>1 DEF NetTo, NetTypeOK, BytesInv
      <3>5. /\ forwarded' <= bytes' + Cardinality(headed')
            /\ forwarded' <= MaxBytes + Cardinality(headed') + Cardinality(Cut')
        BY <2>5, <2>8, <3>2, <3>3 DEF SendHead, BytesInv, NetTypeOK
      <3> QED BY <2>1, <2>5, <2>6, <3>2, <3>4, <3>5 DEF BytesInv
    <2>9. CASE NetChunk(c) /\ ~OverLimit(c)
      <3>1. bytes' = bytes + 1 /\ bytes' <= MaxBytes /\ forwarded' = forwarded + 1 /\ UNCHANGED <<headed, netState>>
        BY <2>9 DEF NetChunk, OverLimit, NetTypeOK
      <3> QED BY <2>1, <2>5, <2>6, <3>1, CountedChunk
    <2> QED BY <1>3, <2>7, <2>8, <2>9 DEF NetResolved, NetConnected, NetChunk, UpstreamCloses, NetTypeOK
  <1>4. ASSUME NEW r \in PlainRequest, PlainArrives(r)
        PROVE  NetInv'
    <2>1. NetTypeOK' /\ UNCHANGED <<netState, clientOpen, connections, headed, bytes, forwarded>>
      BY <1>4 DEF PlainArrives, PlainTo, NetTypeOK
    <2>2. /\ requests' = requests + 1 /\ requests \in Nat
          /\ bytes <= bytes' /\ Reaching' = Reaching /\ Cut' = Cut
      BY <1>4, <2>1 DEF PlainArrives, PlainTo, NetTypeOK, Reaching, Cut
    <2>3. ClientsInv' /\ BytesInv'
      BY <2>1, <2>2, ClientsKept, BytesKept
    <2>4. RequestsInv'
      <3>1. CASE PlainTo(r, "over")
        <4>1. Asking' \subseteq Asking
          BY <3>1 DEF PlainTo, NetTypeOK, Asking
        <4> QED BY <2>1, <2>2, <4>1, RequestsKept
      <3>2. CASE requests' <= MaxRequests /\ PlainTo(r, "resolving")
        <4>1. Asking' = Asking \cup {r} /\ r \notin Asking
          BY <1>4, <3>2 DEF PlainArrives, PlainTo, NetTypeOK, Asking
        <4>2. IsFiniteSet(Asking') /\ Cardinality(Asking') = Cardinality(Asking) + 1
          BY <4>1, FS_AddElement DEF RequestsInv
        <4>3. Cardinality(Reaching) \in Nat /\ Cardinality(Asking) \in Nat
          BY FS_CardinalityType DEF RequestsInv
        <4> QED BY <2>2, <3>2, <4>2, <4>3 DEF RequestsInv
      <3> QED BY <1>4, <3>1, <3>2 DEF PlainArrives
    <2> QED BY <2>1, <2>3, <2>4
  <1>5. ASSUME NEW r \in PlainRequest, PlainAdvances(r)
        PROVE  NetInv'
    <2>1. NetTypeOK' /\ UNCHANGED <<netState, clientOpen, connections, headed, requests, bytes, forwarded>>
      BY <1>5 DEF PlainAdvances, PlainTo, NetTypeOK
    <2>2. /\ requests <= requests' /\ bytes <= bytes' /\ Reaching' = Reaching
          /\ Asking' \subseteq Asking /\ Cut' = Cut
      BY <1>5, <2>1 DEF PlainAdvances, PlainTo, NetTypeOK, Reaching, Asking, Cut
    <2> QED BY <2>1, <2>2, ClientsKept, RequestsKept, BytesKept
  <1>6. ASSUME NEW r \in PlainRequest, PlainBody(r)
        PROVE  NetInv'
    <2>1. NetTypeOK' /\ UNCHANGED <<clientOpen, connections, headed, requests>> /\ bytes' = bytes + 1
      BY <1>6 DEF PlainBody, PlainTo, Refuse, NetTo, NetTypeOK
    <2>2. /\ \A d \in Connection : netState'[d] = "none" => netState[d] = "none"
          /\ \A d \in Connection : netState[d] = "excess" => netState'[d] = "excess"
          /\ \A d \in headed : netState[d] \in {"tunnel", "refused"} => netState'[d] \in {"tunnel", "refused"}
          /\ Reaching' = Reaching
      BY <1>6 DEF PlainBody, Refuse, NetTo, NetTypeOK, Reaching
    <2>3. /\ requests <= requests' /\ bytes <= bytes' /\ Asking' \subseteq Asking /\ Cut' = Cut
      BY <1>6, <2>1 DEF PlainBody, PlainTo, NetTypeOK, Asking, Cut
    <2>4. ClientsInv' /\ RequestsInv'
      BY <2>1, <2>2, <2>3, ClientsKept, RequestsKept
    <2>5. BytesInv'
      <3>1. CASE OverLimit(r)
        BY <1>6, <2>1, <2>2, <2>3, <3>1, BytesKept DEF PlainBody
      <3>2. CASE ~OverLimit(r)
        <4>1. bytes' <= MaxBytes /\ forwarded' = forwarded + 1 /\ UNCHANGED netState
          BY <1>6, <2>1, <3>2 DEF PlainBody, OverLimit, NetTypeOK
        <4> QED BY <2>1, <2>3, <4>1, CountedChunk
      <3> QED BY <3>1, <3>2
    <2> QED BY <2>1, <2>4, <2>5
  <1>7. ASSUME NEW r \in PlainRequest, PlainAnswer(r)
        PROVE  NetInv'
    <2>1. /\ NetTypeOK' /\ UNCHANGED <<netState, clientOpen, connections, headed, requests>>
          /\ bytes' = bytes + 1 /\ forwarded' \in {forwarded, forwarded + 1}
      BY <1>7 DEF PlainAnswer, PlainTo, NetTypeOK
    <2>2. /\ requests <= requests' /\ bytes <= bytes' /\ Reaching' = Reaching /\ Asking' \subseteq Asking
      BY <1>7, <2>1 DEF PlainAnswer, PlainTo, NetTypeOK, Reaching, Asking
    <2>3. ClientsInv' /\ RequestsInv'
      BY <2>1, <2>2, ClientsKept, RequestsKept
    <2>4. BytesInv'
      <3>1. CASE OverLimit(r)
        <4>1. Cut' = Cut \cup {r} /\ r \notin Cut
          BY <1>7, <3>1 DEF PlainAnswer, PlainTo, NetTypeOK, Cut
        <4>2. IsFiniteSet(Cut') /\ Cardinality(Cut') = Cardinality(Cut) + 1
          BY <4>1, FS_AddElement DEF BytesInv
        <4>3. Cardinality(headed) \in Nat /\ Cardinality(Cut) \in Nat
          BY FS_CardinalityType DEF BytesInv
        <4> QED BY <2>1, <4>2, <4>3 DEF BytesInv, NetTypeOK
      <3>2. CASE ~OverLimit(r)
        <4>1. bytes' <= MaxBytes /\ Cut' = Cut
          BY <1>7, <2>1, <3>2 DEF PlainAnswer, OverLimit, NetTypeOK, Cut
        <4> QED BY <2>1, <4>1, CountedChunk
      <3> QED BY <3>1, <3>2
    <2> QED BY <2>1, <2>3, <2>4
  <1>8. ASSUME NEW c \in Connection, ClientCloses(c)
        PROVE  NetInv'
    <2>1. c \in clientOpen /\ clientOpen' = clientOpen \ {c} /\ connections' = connections - 1
      BY <1>8 DEF ClientCloses, ReleaseConnection
    <2>2. UNCHANGED <<netState, plain, carrier, upOpen, headed, requests, bytes, forwarded>> /\ relayOpen' = relayOpen \ {c}
      BY <1>8 DEF ClientCloses, plainVars
    <2>3. IsFiniteSet(clientOpen') /\ connections' = Cardinality(clientOpen')
      BY <2>1, FS_RemoveElement DEF ClientsInv
    <2>4. connections' \in Nat
      BY <2>3, FS_CardinalityType
    <2>5. NetTypeOK'
      BY <2>1, <2>2, <2>4 DEF NetTypeOK
    <2>6. Reaching' = Reaching /\ Asking' = Asking /\ Cut' = Cut
      BY <2>2 DEF Reaching, Asking, Cut
    <2>7. Admitted' \in SUBSET Admitted
      BY <2>1, <2>2 DEF Admitted
    <2>8. IsFiniteSet(Admitted)
      BY FS_Subset DEF Admitted, ClientsInv
    <2>9. Cardinality(Admitted') <= MaxConnections
      BY <2>7, <2>8, FewerStayWithin DEF ClientsInv
    <2>10. ClientsInv'
      BY <2>1, <2>2, <2>3, <2>9 DEF ClientsInv
    <2> QED BY <2>2, <2>5, <2>6, <2>10 DEF RequestsInv, BytesInv
  <1>9. CASE UNCHANGED netVars
    <2>1. Admitted' = Admitted /\ Reaching' = Reaching /\ Asking' = Asking /\ Cut' = Cut
      BY <1>9 DEF netVars, plainVars, Admitted, Reaching, Asking, Cut
    <2> QED BY <1>9, <2>1 DEF netVars, plainVars, NetTypeOK, ClientsInv, RequestsInv, BytesInv
  <1> QED BY <1>1, <1>2, <1>3, <1>4, <1>5, <1>6, <1>7, <1>8, <1>9 DEF NetNext

\* Connections, requests and bytes counted so are within their limits.
LEMMA NetInvLimits == NetInv => EgressWithinLimits
PROOF
  BY DEF NetInv, ClientsInv, RequestsInv, BytesInv, EgressWithinLimits

-----------------------------------------------------------------------------
(* Accounts                                                                  *)

AuthTypes == AuthTypeOK /\ authUser \in [AuthRequest -> account \cup {Nobody}]

\* What a request awaits is what its handler asks for, and it holds an account
\* from the moment it found one; the account named after a request comes into
\* being as the request goes on to its session.
RequestsAreInOrder ==
  \A r \in AuthRequest :
    /\ authPhase[r] = "resolving" => authKind[r] = "callback"
    /\ authPhase[r] = "comparing" => authKind[r] \in {"login", "change"}
    /\ authPhase[r] = "setting" => authKind[r] \in {"reset", "change"}
    /\ authPhase[r] = "confirming" => authKind[r] \in {"verify", "reset"}
    /\ authPhase[r] = "sweeping" => authKind[r] \in {"reset", "change"}
    /\ authPhase[r] \in {"comparing", "setting", "confirming", "sweeping", "session", "done"} =>
         authUser[r] \in account
    /\ r \in account => authPhase[r] \in {"session", "done"}
    /\ session[r] # Nobody => authPhase[r] = "done"

\* An address has one account, and the transaction of a sign-in holds the
\* account its identity is linked to; a link is never moved to another one.
SignInsLand ==
  /\ \A e \in Email : \A a, b \in Holders(e) : a = b
  /\ \A r \in AuthRequest :
       /\ authPhase[r] = "resolving" /\ authUser[r] # Nobody => authUser[r] = linked[IdentityOf[r]]
       /\ authKind[r] = "callback" /\ authPhase[r] \in {"session", "done"} =>
            authUser[r] = linked[IdentityOf[r]] \/ authUser[r] \in Holders(EmailOf[r])

\* The sessions that were open when a password was set belong to requests that
\* ended before; from the sweep on none of them is of that account.
OlderSessionsEnd ==
  \A r \in AuthRequest :
    /\ older[r] # {} => authPhase[r] \in {"confirming", "sweeping", "session", "done"}
    /\ older[r] # {} /\ authPhase[r] = "confirming" => authKind[r] = "reset"
    /\ \A q \in older[r] :
         /\ q # r /\ authPhase[q] = "done"
         /\ authPhase[r] \in {"session", "done"} /\ session[q] # Nobody => session[q] # authUser[r]

\* Each request that got through with a link used one up.
LinksWorkOnce ==
  /\ IsFiniteSet(Granted) /\ IsFiniteSet(spent)
  /\ Cardinality(Granted) <= Cardinality(spent)

AuthInv == AuthTypes /\ RequestsAreInOrder /\ SignInsLand /\ OlderSessionsEnd /\ LinksWorkOnce

\* No step breaks the types of accounts and requests.
LEMMA AuthTypesStep ==
  ASSUME AuthTypes, RequestsAreInOrder, NEW r \in AuthRequest, AuthStep(r), UNCHANGED authKind
  PROVE  AuthTypes'
PROOF
  <1> USE AccountsAssumption DEF AuthTypes, AuthTypeOK, RequestsAreInOrder, Who, AuthTo, userVars
  <1>1. CASE Register(r)
    BY <1>1 DEF Register, Start, EmailTaken, Holders
  <1>2. CASE Login(r)
    BY <1>2 DEF Login, Start, Holders
  <1>3. CASE LoginRefused(r)
    BY <1>3 DEF LoginRefused, Start
  <1>4. CASE Compared(r)
    BY <1>4 DEF Compared
  <1>5. CASE OpenSession(r)
    BY <1>5 DEF OpenSession
  <1>6. CASE MailLink(r)
    BY <1>6 DEF MailLink, Holders
  <1>7. CASE ConsumeLink(r)
    BY <1>7 DEF ConsumeLink, Unused
  <1>8. CASE WeakPassword(r)
    BY <1>8 DEF WeakPassword
  <1>9. CASE ChangeStarts(r)
    BY <1>9 DEF ChangeStarts, Start
  <1>10. CASE SetPassword(r)
    BY <1>10 DEF SetPassword, SessionsOf
  <1>11. CASE Confirm(r)
    BY <1>11 DEF Confirm
  <1>12. CASE SweepSessions(r)
    BY <1>12 DEF SweepSessions, Sweep, SessionsOf
  <1>13. CASE SessionEnds(r)
    BY <1>13 DEF SessionEnds
  <1>14. CASE SignInReads(r)
    BY <1>14 DEF SignInReads, Start
  <1>15. CASE SignInLinked(r)
    BY <1>15 DEF SignInLinked, WasLinked, FillsEmail, EmailTaken, Holders
  <1>16. CASE SignInByEmail(r)
    BY <1>16 DEF SignInByEmail, NotLinked, Holders
  <1>17. CASE SignInCreates(r)
    BY <1>17 DEF SignInCreates, NotLinked, EmailTaken, Holders
  <1>18. CASE SignInFails(r)
    BY <1>18 DEF SignInFails, WasLinked, NotLinked
  <1> QED
    BY <1>1, <1>2, <1>3, <1>4, <1>5, <1>6, <1>7, <1>8, <1>9, <1>10, <1>11, <1>12, <1>13, <1>14, <1>15, <1>16, <1>17, <1>18 DEF AuthStep

\* Every other part but the count of the links.
LEMMA AuthPartsStep ==
  ASSUME AuthInv, NEW r \in AuthRequest, AuthStep(r), UNCHANGED authKind
  PROVE  (RequestsAreInOrder /\ SignInsLand /\ OlderSessionsEnd)'
PROOF
  <1> USE AccountsAssumption DEF AuthInv, AuthTypes, AuthTypeOK, RequestsAreInOrder, SignInsLand, OlderSessionsEnd, Holders, AuthTo, userVars
  <1>1. CASE Register(r)
    BY <1>1 DEF Register, Start, EmailTaken
  <1>2. CASE Login(r)
    BY <1>2 DEF Login, Start
  <1>3. CASE LoginRefused(r)
    BY <1>3 DEF LoginRefused, Start
  <1>4. CASE Compared(r)
    BY <1>4 DEF Compared
  <1>5. CASE OpenSession(r)
    BY <1>5 DEF OpenSession
  <1>6. CASE MailLink(r)
    BY <1>6 DEF MailLink
  <1>7. CASE ConsumeLink(r)
    BY <1>7 DEF ConsumeLink, Unused
  <1>8. CASE WeakPassword(r)
    BY <1>8 DEF WeakPassword
  <1>9. CASE ChangeStarts(r)
    BY <1>9 DEF ChangeStarts, Start
  <1>10. CASE SetPassword(r)
    BY <1>10 DEF SetPassword, SessionsOf
  <1>11. CASE Confirm(r)
    BY <1>11 DEF Confirm
  <1>12. CASE SweepSessions(r)
    BY <1>12 DEF SweepSessions, Sweep, SessionsOf
  <1>13. CASE SessionEnds(r)
    BY <1>13 DEF SessionEnds
  <1>14. CASE SignInReads(r)
    BY <1>14 DEF SignInReads, Start
  <1>15. CASE SignInLinked(r)
    BY <1>15 DEF SignInLinked, WasLinked, FillsEmail, EmailTaken
  <1>16. CASE SignInByEmail(r)
    BY <1>16 DEF SignInByEmail, NotLinked
  <1>17. CASE SignInCreates(r)
    BY <1>17 DEF SignInCreates, NotLinked, EmailTaken
  <1>18. CASE SignInFails(r)
    BY <1>18 DEF SignInFails, WasLinked, NotLinked
  <1> QED
    BY <1>1, <1>2, <1>3, <1>4, <1>5, <1>6, <1>7, <1>8, <1>9, <1>10, <1>11, <1>12, <1>13, <1>14, <1>15, <1>16, <1>17, <1>18 DEF AuthStep

\* No step breaks that a link works once.
LEMMA LinksWorkOnceStep ==
  ASSUME AuthInv, NEW r \in AuthRequest, AuthStep(r), UNCHANGED authKind
  PROVE  LinksWorkOnce'
PROOF
  <1> USE AccountsAssumption DEF AuthInv, AuthTypes, AuthTypeOK, LinksWorkOnce
  <1> DEFINE Fewer == Granted' \in SUBSET Granted /\ spent' = spent
  <1>1. ASSUME Fewer
        PROVE  LinksWorkOnce'
    <2>1. IsFiniteSet(Granted') /\ Cardinality(Granted') <= Cardinality(Granted)
      BY <1>1, FS_Subset
    <2>2. Cardinality(Granted') \in Nat /\ Cardinality(Granted) \in Nat /\ Cardinality(spent) \in Nat
      BY <2>1, FS_CardinalityType
    <2> QED BY <1>1, <2>1, <2>2
  <1>2. CASE ConsumeLink(r)
    <2>1. PICK s \in AuthRequest :
            IF Unused(s)
            THEN /\ spent' = spent \cup {s}
                 /\ AuthTo(r, IF authKind[r] = "reset" THEN "setting" ELSE "confirming")
            ELSE AuthTo(r, "refused") /\ UNCHANGED spent
      BY <1>2 DEF ConsumeLink
    <2>2. authKind[r] \in {"verify", "reset"} /\ authPhase[r] = "idle" /\ r \notin Granted
      BY <1>2 DEF ConsumeLink, Granted
    <2>3. CASE Unused(s)
      <3>1. Granted' = Granted \cup {r}
        BY <2>1, <2>2, <2>3 DEF AuthTo, Granted
      <3>2. /\ IsFiniteSet(Granted') /\ Cardinality(Granted') = Cardinality(Granted) + 1
            /\ IsFiniteSet(spent') /\ Cardinality(spent') = Cardinality(spent) + 1
        BY <2>1, <2>2, <2>3, <3>1, FS_AddElement DEF Unused
      <3>3. Cardinality(Granted) \in Nat /\ Cardinality(spent) \in Nat
        BY FS_CardinalityType
      <3> QED BY <3>2, <3>3
    <2>4. CASE ~Unused(s)
      BY <1>1, <2>1, <2>4 DEF AuthTo, Granted
    <2> QED BY <2>3, <2>4
  <1>3. CASE \/ Register(r) \/ Login(r) \/ LoginRefused(r) \/ MailLink(r) \/ ChangeStarts(r)
            \/ SignInReads(r) \/ SignInLinked(r) \/ SignInByEmail(r) \/ SignInCreates(r) \/ SignInFails(r)
    <2>1. authKind[r] \notin {"verify", "reset"} \/ UNCHANGED authPhase
      BY <1>3 DEF Register, Login, LoginRefused, MailLink, ChangeStarts, Start, SignInReads, SignInLinked,
        SignInByEmail, SignInCreates, SignInFails, WasLinked, NotLinked, RequestsAreInOrder
    <2>2. spent' = spent /\ \A q \in AuthRequest : q # r => authPhase'[q] = authPhase[q]
      BY <1>3 DEF Register, Login, LoginRefused, MailLink, ChangeStarts, SignInReads, SignInLinked,
        SignInByEmail, SignInCreates, SignInFails, AuthTo
    <2> QED BY <1>1, <2>1, <2>2 DEF Granted
  <1>4. CASE \/ Compared(r) \/ OpenSession(r) \/ WeakPassword(r) \/ SetPassword(r) \/ Confirm(r)
            \/ SweepSessions(r) \/ SessionEnds(r)
    <2>1. \/ authPhase[r] = "comparing" /\ authKind[r] \notin {"verify", "reset"}
          \/ authPhase[r] \in {"setting", "confirming", "sweeping", "session"}
          \/ UNCHANGED authPhase
      BY <1>4 DEF Compared, OpenSession, WeakPassword, SetPassword, Confirm, SweepSessions, SessionEnds,
        RequestsAreInOrder
    <2>2. spent' = spent /\ \A q \in AuthRequest : q # r => authPhase'[q] = authPhase[q]
      BY <1>4 DEF Compared, OpenSession, WeakPassword, SetPassword, Confirm, SweepSessions, SessionEnds, AuthTo
    <2> QED BY <1>1, <2>1, <2>2 DEF Granted
  <1> QED BY <1>2, <1>3, <1>4 DEF AuthStep

\* Holds at first: what accounts, links and sessions are to each other.
LEMMA AuthInvInit == AuthInit => AuthInv
PROOF
  <1> SUFFICES ASSUME AuthInit
               PROVE  AuthInv
    OBVIOUS
  <1>1. AuthTypes
    BY DEF AuthInit, AuthTypes, AuthTypeOK, Who
  <1>2. RequestsAreInOrder /\ OlderSessionsEnd
    BY DEF AuthInit, RequestsAreInOrder, OlderSessionsEnd
  <1>3. SignInsLand
    BY DEF AuthInit, SignInsLand, Holders
  <1>4. Granted = {} /\ spent = {}
    BY DEF AuthInit, Granted
  <1>5. LinksWorkOnce
    BY <1>4, FS_EmptySet DEF LinksWorkOnce
  <1> QED BY <1>1, <1>2, <1>3, <1>5 DEF AuthInv

\* No step breaks what accounts, links and sessions are to each other.
LEMMA AuthInvStep == AuthInv /\ [AuthNext]_authVars => AuthInv'
PROOF
  <1> SUFFICES ASSUME AuthInv, [AuthNext]_authVars
               PROVE  AuthInv'
    OBVIOUS
  <1>1. ASSUME NEW r \in AuthRequest, AuthStep(r), UNCHANGED authKind
        PROVE  AuthInv'
    BY <1>1, AuthTypesStep, AuthPartsStep, LinksWorkOnceStep DEF AuthInv
  <1>2. CASE UNCHANGED authVars
    <2>1. Granted' = Granted /\ \A e : Holders(e)' = Holders(e)
      BY <1>2 DEF authVars, Granted, Holders
    <2>2. (AuthTypes /\ RequestsAreInOrder /\ OlderSessionsEnd)'
      BY <1>2 DEF authVars, AuthInv, AuthTypes, AuthTypeOK, RequestsAreInOrder, OlderSessionsEnd
    <2>3. SignInsLand' /\ LinksWorkOnce'
      BY <1>2, <2>1 DEF authVars, AuthInv, SignInsLand, LinksWorkOnce
    <2> QED BY <2>2, <2>3 DEF AuthInv
  <1> QED BY <1>1, <1>2 DEF AuthNext

\* It gives one account per person, and no session older than a new password.
LEMMA AuthInvPromises == AuthInv => OneAccountPerPerson /\ PasswordChangeEndsSessions
PROOF
  <1> SUFFICES ASSUME AuthInv
               PROVE  OneAccountPerPerson /\ PasswordChangeEndsSessions
    OBVIOUS
  <1>1. ASSUME NEW e \in Email
        PROVE  Cardinality(Holders(e)) <= 1
    <2>1. CASE Holders(e) = {}
      BY <2>1, FS_EmptySet
    <2>2. CASE Holders(e) # {}
      <3>1. PICK a : a \in Holders(e)
        BY <2>2
      <3>2. Holders(e) = {a}
        BY <3>1 DEF AuthInv, SignInsLand
      <3> QED BY <3>2, FS_Singleton
    <2> QED BY <2>1, <2>2
  <1> QED
    BY <1>1 DEF AuthInv, SignInsLand, OneAccountPerPerson, OlderSessionsEnd, LinksWorkOnce,
      PasswordChangeEndsSessions

-----------------------------------------------------------------------------
(* JourneyRun                                                                *)

Stepping == {"before", "executing", "after", "passing", "failing"}
AllPassed == \A n \in 1..Len(results) : results[n] = "passed"

\* The results are those of the steps before this one, all passed, until the
\* last step passed or one failed; what is typed is masked before each picture,
\* but for what a failed fill of this step left; the guard only stands while
\* the steps run, and the browser is not open before the launch.
RunInv ==
  /\ raw \in Seq(RawStep) /\ results \in Seq({"passed", "failed"})
  /\ runPhase \in {"loaded", "launching", "launched", "saving", "closing", "over"} \cup Stepping
  /\ runPhase \in {"loaded", "launching", "launched"} => filled = {} /\ results = <<>>
  /\ runPhase \in {"loaded", "launching"} => browser = "none"
  /\ runPhase \notin Stepping => ~routed
  /\ runPhase \in Stepping => at \in 1..Len(raw) /\ Len(results) = at - 1 /\ AllPassed
  /\ runPhase \in Stepping \ {"failing"} => filled \subseteq secretSel
  /\ runPhase = "failing" => filled \subseteq secretSel \cup MaskOfStep(FALSE)
  /\ runPhase = "saving" =>
       \/ Len(results) = Len(raw) /\ Len(raw) > 0 /\ AllPassed
       \/ Len(results) > 0 /\ results[Len(results)] = "failed"
  /\ runPhase \notin {"closing", "over"} => saved = "none"
  /\ saved \in {"none", "passed", "failed"}
  /\ JourneyReportIsSound

\* Holds at first: what a journey has reported and masked so far.
LEMMA RunInvInit == RunInit => RunInv
PROOF
  <1> SUFFICES ASSUME RunInit
               PROVE  RunInv
    OBVIOUS
  <1>1. raw \in Seq(RawStep)
    <2>1. PICK m \in 0..MaxSteps : raw \in [1..m -> RawStep]
      BY DEF RunInit, BoundedSeq, SeqOf
    <2> QED BY <2>1, SeqDef, JourneyRunAssumption
  <1> QED BY <1>1 DEF RunInit, RunInv, Stepping, JourneyReportIsSound

\* No step breaks what a journey has reported and masked so far.
LEMMA RunInvStep == RunInv /\ [RunNext]_runVars => RunInv'
PROOF
  <1> SUFFICES ASSUME RunInv, [RunNext]_runVars
               PROVE  RunInv'
    OBVIOUS
  <1> USE DEF RunInv, Stepping, AllPassed, JourneyReportIsSound, RunTo, MaskOfStep
  <1>1. CASE Begin \/ Launch
    BY <1>1 DEF Begin, Launch
  <1>2. CASE Prepare
    BY <1>2 DEF Prepare, AcceptedJourney
  <1>3. CASE BeforeStep
    <2>1. ~exposed'
      BY <1>3 DEF BeforeStep, Throw, Screenshot
    <2> QED BY <1>3, <2>1 DEF BeforeStep, Throw
  <1>4. CASE Execute
    BY <1>4 DEF Execute
  <1>5. CASE AfterStep
    <2>1. ~exposed'
      BY <1>5 DEF AfterStep, Screenshot
    <2> QED BY <1>5, <2>1 DEF AfterStep
  <1>6. CASE StepPassed
    BY <1>6 DEF StepPassed
  <1>7. CASE StepFailed
    <2>1. CASE aborted
      BY <1>7, <2>1 DEF StepFailed, Throw
    <2>2. CASE ~aborted
      <3>1. secretSel' = secretSel \cup MaskOfStep(FALSE) /\ UNCHANGED <<raw, browser, saved, at, filled>>
        BY <1>7, <2>2 DEF StepFailed
      <3>2. results' = Append(results, "failed") /\ runPhase' = "saving" /\ routed' = FALSE
        BY <1>7, <2>2 DEF StepFailed
      <3>3. ~exposed'
        BY <1>7, <2>2, <3>1 DEF StepFailed
      <3>4. results' \in Seq({"passed", "failed"}) /\ Len(results') > 0 /\ results'[Len(results')] = "failed"
        BY <3>2
      <3>5. runPhase = "failing"
        BY <1>7 DEF StepFailed
      <3> QED BY <3>1, <3>2, <3>3, <3>4, <3>5
    <2> QED BY <2>1, <2>2
  <1>8. CASE Save
    BY <1>8 DEF Save, Range
  <1>9. CASE Finally
    BY <1>9 DEF Finally, CloseBrowser
  <1>10. CASE AbortJourney
    BY <1>10 DEF AbortJourney
  <1>11. CASE UNCHANGED runVars
    BY <1>11 DEF runVars
  <1> QED
    BY <1>1, <1>2, <1>3, <1>4, <1>5, <1>6, <1>7, <1>8, <1>9, <1>10, <1>11 DEF RunNext

-----------------------------------------------------------------------------
(* ScanPipeline                                                              *)

\* A run is promoted once, by a scan that inspected its page, and a scan that
\* stored its run promoted it if it was to be; only a copy under way tears the
\* baseline.
PipelineInv ==
  /\ stage \in [Scan -> {"queued", "launching", "returned", "written", "promoting", "copying", "stored"} \cup InBrowser \cup Ended]
  /\ stopped \in [Scan -> {"no", "cancel", "deadline"}]
  /\ baseline \in {"none", "torn"} \cup Scan /\ against \in [Scan -> {"none"} \cup Scan]
  /\ promotes \subseteq Scan /\ chrome \subseteq Scan
  /\ \A s \in promotes : s \notin partial /\ stage[s] \in {"stored"} \cup Ended
  /\ \A s \in Scan : stage[s] \in {"promoting", "copying"} => s \notin partial
  /\ \A s \in Scan : stage[s] \in {"stored", "completed"} /\ Promotable(s) => s \in promotes
  /\ BaselineIsSound

\* Who promoted the baseline hold at first.
LEMMA PipelineInvInit == PipelineInit => PipelineInv
PROOF
  BY PipelineAssumption
  DEF PipelineInit, PipelineInv, BaselineIsSound, AtStage, InBrowser, Ended

\* No step breaks who promoted the baseline.
LEMMA PipelineInvStep == PipelineInv /\ [PipelineNext]_pipelineVars => PipelineInv'
PROOF
  <1> SUFFICES ASSUME PipelineInv, [PipelineNext]_pipelineVars
               PROVE  PipelineInv'
    OBVIOUS
  <1> USE PipelineAssumption
      DEF PipelineInv, BaselineIsSound, AtStage, InBrowser, Ended, StageOf, Running, Copying, Promotable, history
  <1>1. ASSUME NEW s \in Scan, FindBaseline(s) \/ LaunchBrowser(s) \/ OpenPage(s)
        PROVE  PipelineInv'
    BY <1>1 DEF FindBaseline, LaunchBrowser, OpenPage
  <1>2. ASSUME NEW s \in Scan, Navigate(s) \/ Inspect(s)
        PROVE  PipelineInv'
    BY <1>2 DEF Navigate, Inspect
  <1>3. ASSUME NEW s \in Scan, Audit(s) \/ CompareIssues(s)
        PROVE  PipelineInv'
    BY <1>3 DEF Audit, CompareIssues, Loadable
  <1>4. ASSUME NEW s \in Scan, Report(s)
        PROVE  PipelineInv'
    BY <1>4 DEF Report, CloseAnyway
  <1>5. ASSUME NEW s \in Scan, ScanThrows(s)
        PROVE  PipelineInv'
    BY <1>5 DEF ScanThrows, CloseAnyway, Outcome
  <1>6. ASSUME NEW s \in Scan, WriteReports(s) \/ JobThrows(s)
        PROVE  PipelineInv'
    BY <1>6 DEF WriteReports, JobThrows, Outcome
  <1>7. ASSUME NEW s \in Scan, StoreRun(s) \/ BeginCopy(s)
        PROVE  PipelineInv'
    BY <1>7 DEF StoreRun, BeginCopy
  <1>8. ASSUME NEW s \in Scan, CopyEnds(s)
        PROVE  PipelineInv'
    BY <1>8 DEF CopyEnds
  <1>9. ASSUME NEW s \in Scan, Complete(s) \/ CopyFails(s)
        PROVE  PipelineInv'
    BY <1>9 DEF Complete, CopyFails, Outcome
  <1>10. ASSUME NEW s \in Scan, StopScan(s)
         PROVE  PipelineInv'
    BY <1>10 DEF StopScan
  <1>11. CASE ProcessDies
    BY <1>11 DEF ProcessDies
  <1>12. CASE UNCHANGED pipelineVars
    BY <1>12 DEF pipelineVars
  <1> QED
    BY <1>1, <1>2, <1>3, <1>4, <1>5, <1>6, <1>7, <1>8, <1>9, <1>10, <1>11, <1>12 DEF PipelineNext

-----------------------------------------------------------------------------
(* JobTable                                                                  *)

\* A row was given once if it runs and ended once if it ended, and neither
\* before; the memory locks nothing.
TaskInv ==
  /\ taskStatus \in [TableJob -> {"absent", "deleted"} \cup JobStatus]
  /\ handed \in [TableJob -> Nat] /\ concluded \in [TableJob -> Nat]
  /\ claimOf \in [Instance -> SUBSET TableJob]
  /\ tableKind = "memory" => LockedTasks = {}
  /\ \A t \in TableJob :
       /\ taskStatus[t] \in {"absent", "queued"} => handed[t] = 0 /\ concluded[t] = 0
       /\ taskStatus[t] = "running" => handed[t] = 1 /\ concluded[t] = 0
       /\ taskStatus[t] \in {"completed", "failed", "cancelled", "deleted"} => handed[t] <= 1 /\ concluded[t] <= 1
       /\ taskStatus[t] \in {"completed", "failed", "cancelled"} => concluded[t] = 1
  /\ LockedTasks \subseteq RowsWaiting
  /\ \A i, j \in Instance : i # j => claimOf[i] \cap claimOf[j] = {}

\* The transitions of job-state.ts, spelt out.
LEMMA TableOfTransitions ==
  /\ \A s \in JobStatus : IsTerminalJobStatus(s) <=> s \in {"completed", "failed", "cancelled"}
  /\ \A s \in JobStatus, to \in JobStatus : CanTransitionJob(s, to) =>
       \/ s = "queued" /\ to \in {"running", "cancelled"}
       \/ s = "running" /\ to \in {"completed", "failed", "cancelled"}
PROOF
  BY DEF JobStatus, IsTerminalJobStatus, CanTransitionJob, AllowedTransitions

\* Holds at first: how often a row was given and ended.
LEMMA TaskInvInit == TableInit => TaskInv
PROOF
  BY DEF TableInit, TaskInv, LockedTasks, RowsWaiting, JobStatus

\* No step breaks how often a row was given and ended.
LEMMA TaskInvStep == TaskInv /\ [TableNext]_tableVars => TaskInv'
PROOF
  <1> SUFFICES ASSUME TaskInv, [TableNext]_tableVars
               PROVE  TaskInv'
    OBVIOUS
  <1> USE DEF TaskInv, LockedTasks, RowsWaiting, RowsKept, JobStatus, historyVars
  <1>1. ASSUME NEW t \in TableJob, InsertTask(t) \/ FallsDue(t)
        PROVE  TaskInv'
    BY <1>1 DEF InsertTask, FallsDue
  <1>2. ASSUME NEW tasks \in SUBSET RowsKept, Erase(tasks)
        PROVE  TaskInv'
    <2>1. tasks \cap LockedTasks = {} /\ UNCHANGED <<tableKind, claimOf, handed, concluded>>
      BY <1>2 DEF Erase
    <2>2. taskStatus' = [t \in TableJob |-> IF t \in tasks THEN "deleted" ELSE taskStatus[t]]
      BY <1>2 DEF Erase
    <2> QED BY <2>1, <2>2
  <1>3. ASSUME NEW t \in TableJob, NEW to \in JobStatus, TransitionTask(t, to)
        PROVE  TaskInv'
    <2>1. /\ taskStatus[t] \in JobStatus /\ t \notin LockedTasks
          /\ CanTransitionJob(taskStatus[t], to)
          /\ taskStatus' = [taskStatus EXCEPT ![t] = to]
      BY <1>3 DEF TransitionTask, OriginAllowed
    <2>2. \/ taskStatus[t] = "queued" /\ to \in {"running", "cancelled"}
          \/ taskStatus[t] = "running" /\ to \in {"completed", "failed", "cancelled"}
      BY <1>3, <2>1, TableOfTransitions
    <2>3. /\ UNCHANGED <<tableKind, claimOf>>
          /\ IF to = "running" THEN handed' = [handed EXCEPT ![t] = @ + 1] /\ UNCHANGED concluded
             ELSE concluded' = [concluded EXCEPT ![t] = @ + 1] /\ UNCHANGED handed
      BY <1>3 DEF TransitionTask
    <2> QED BY <2>1, <2>2, <2>3
  <1>4. ASSUME NEW i \in Instance, LockNext(i)
        PROVE  TaskInv'
    <2>1. PICK t \in RowsWaiting \ LockedTasks : claimOf' = [claimOf EXCEPT ![i] = {t}]
      BY <1>4 DEF LockNext, FirstByQueuedAt, Claimable
    <2>2. tableKind = "postgres" /\ UNCHANGED <<tableKind, taskStatus, handed, concluded>>
      BY <1>4 DEF LockNext
    <2> QED BY <2>1, <2>2
  <1>5. ASSUME NEW i \in Instance, MarkClaimed(i)
        PROVE  TaskInv'
    BY <1>5 DEF MarkClaimed
  <1>6. ASSUME NEW i \in Instance, ClaimLost(i)
        PROVE  TaskInv'
    BY <1>6 DEF ClaimLost
  <1>7. CASE ClaimInMemory
    BY <1>7 DEF ClaimInMemory
  <1>8. CASE UNCHANGED tableVars
    BY <1>8 DEF tableVars
  <1>9. ASSUME NEW t \in TableJob, DeleteTask(t)
        PROVE  TaskInv'
    BY <1>2, <1>9 DEF DeleteTask
  <1>10. ASSUME NEW o \in TaskOwner, DeleteByOwner(o)
         PROVE  TaskInv'
    BY <1>2, <1>10 DEF DeleteByOwner
  <1>11. CASE DeleteExpired
    BY <1>2, <1>11 DEF DeleteExpired
  <1> QED
    BY <1>1, <1>3, <1>4, <1>5, <1>6, <1>7, <1>8, <1>9, <1>10, <1>11 DEF TableNext

\* Counted so, a row is given to one instance and ended once.
LEMMA TaskInvOnce == TaskInv => GivenAndEndedOnce
PROOF
  BY TableOfTransitions DEF TaskInv, GivenAndEndedOnce, JobStatus, RowsKept

\* The order of the memory has each of its rows once.
ArrivedInv ==
  /\ arrived \in Seq(TableJob) /\ tableKind \in {"memory", "postgres"}
  /\ \A k, l \in DOMAIN arrived : arrived[k] = arrived[l] => k = l
  /\ \A t \in TableJob : (\E k \in DOMAIN arrived : arrived[k] = t) <=> tableKind = "memory" /\ taskStatus[t] \in JobStatus

\* The order of arrival in memory hold at first.
LEMMA ArrivedInvInit == TableInit => ArrivedInv
PROOF
  <1> SUFFICES ASSUME TableInit
               PROVE  ArrivedInv
    OBVIOUS
  <1>1. <<>> \in Seq(TableJob) /\ DOMAIN <<>> = {}
    OBVIOUS
  <1>2. \A t \in TableJob : taskStatus[t] \notin JobStatus
    BY DEF TableInit, JobStatus
  <1> QED BY <1>1, <1>2 DEF TableInit, ArrivedInv

\* No step breaks the order of arrival in memory.
LEMMA ArrivedInvStep == TaskInv /\ ArrivedInv /\ [TableNext]_tableVars => ArrivedInv'
PROOF
  <1> SUFFICES ASSUME TaskInv, ArrivedInv, [TableNext]_tableVars
               PROVE  ArrivedInv'
    OBVIOUS
  <1>0. /\ arrived \in Seq(TableJob) /\ Len(arrived) \in Nat /\ DOMAIN arrived = 1..Len(arrived)
        /\ \A k \in DOMAIN arrived : arrived[k] \in TableJob
        /\ taskStatus \in [TableJob -> {"absent", "deleted"} \cup JobStatus]
    BY LenProperties, ElementOfSeq DEF ArrivedInv, TaskInv
  <1>1. ASSUME NEW t \in TableJob, InsertTask(t)
        PROVE  ArrivedInv'
    <2>1. /\ taskStatus[t] = "absent" /\ taskStatus[t] \notin JobStatus /\ "queued" \in JobStatus
          /\ taskStatus' = [taskStatus EXCEPT ![t] = "queued"] /\ tableKind' = tableKind
          /\ arrived' = IF tableKind = "memory" THEN Append(arrived, t) ELSE arrived
      BY <1>1 DEF InsertTask, JobStatus
    <2>2. CASE tableKind # "memory"
      BY <1>0, <2>1, <2>2 DEF ArrivedInv
    <2>3. CASE tableKind = "memory"
      <3>1. /\ arrived' \in Seq(TableJob) /\ DOMAIN arrived' = 1..(Len(arrived) + 1)
            /\ arrived'[Len(arrived) + 1] = t /\ \A k \in DOMAIN arrived : arrived'[k] = arrived[k]
        BY <1>0, <2>1, <2>3, AppendProperties
      <3>2. \A k \in DOMAIN arrived : arrived[k] # t
        BY <2>1 DEF ArrivedInv
      <3>3. 1..(Len(arrived) + 1) = DOMAIN arrived \cup {Len(arrived) + 1}
        BY <1>0
      <3>4. \A k, l \in DOMAIN arrived' : arrived'[k] = arrived'[l] => k = l
        BY <3>1, <3>2, <3>3 DEF ArrivedInv
      <3>5. \A u \in TableJob : (\E k \in DOMAIN arrived' : arrived'[k] = u) <=> u = t \/ \E k \in DOMAIN arrived : arrived[k] = u
        BY <3>1, <3>3
      <3>6. \A u \in TableJob : taskStatus'[u] \in JobStatus <=> u = t \/ taskStatus[u] \in JobStatus
        BY <1>0, <2>1
      <3> QED BY <2>1, <2>3, <3>1, <3>4, <3>5, <3>6 DEF ArrivedInv
    <2> QED BY <2>2, <2>3
  <1>2. ASSUME NEW tasks \in SUBSET RowsKept, Erase(tasks)
        PROVE  ArrivedInv'
    <2> DEFINE I == {k \in DOMAIN arrived : arrived[k] \notin tasks}
    <2>1. /\ taskStatus' = [t \in TableJob |-> IF t \in tasks THEN "deleted" ELSE taskStatus[t]]
          /\ tableKind' = tableKind /\ arrived' = Picked(arrived, I) /\ I \in SUBSET (1..Len(arrived))
      BY <1>0, <1>2 DEF Erase
    <2> HIDE DEF I
    <2>2. /\ arrived' \in Seq(TableJob) /\ DOMAIN arrived' = 1..Cardinality(I)
          /\ \A i \in I : \E n \in DOMAIN arrived' : arrived'[n] = arrived[i]
      BY <1>0, <2>1, PickedProperties
    <2>3. /\ \A n \in DOMAIN arrived' : \E i \in I : arrived'[n] = arrived[i]
          /\ \A n, k \in DOMAIN arrived' : arrived'[n] = arrived'[k] => n = k
      BY <1>0, <2>1, PickedFrom DEF ArrivedInv
    <2>4. \A t \in TableJob : (\E n \in DOMAIN arrived' : arrived'[n] = t) <=> t \notin tasks /\ \E k \in DOMAIN arrived : arrived[k] = t
      BY <2>2, <2>3 DEF I
    <2>5. \A t \in TableJob : taskStatus'[t] \in JobStatus <=> t \notin tasks /\ taskStatus[t] \in JobStatus
      BY <2>1 DEF JobStatus
    <2> QED BY <2>1, <2>2, <2>3, <2>4, <2>5 DEF ArrivedInv
  <1>3. ASSUME UNCHANGED <<tableKind, arrived>>, \A t \in TableJob : taskStatus'[t] \in JobStatus <=> taskStatus[t] \in JobStatus
        PROVE  ArrivedInv'
    BY <1>3 DEF ArrivedInv
  <1>4. ASSUME NEW t \in TableJob, NEW to \in JobStatus, TransitionTask(t, to)
        PROVE  ArrivedInv'
    <2>1. taskStatus[t] \in JobStatus /\ taskStatus' = [taskStatus EXCEPT ![t] = to] /\ UNCHANGED <<tableKind, arrived>>
      BY <1>4 DEF TransitionTask, RowsKept
    <2> QED BY <1>0, <1>3, <2>1
  <1>5. ASSUME NEW i \in Instance, LockNext(i) \/ ClaimLost(i)
        PROVE  ArrivedInv'
    BY <1>3, <1>5 DEF LockNext, ClaimLost
  <1>6. ASSUME NEW i \in Instance, MarkClaimed(i)
        PROVE  ArrivedInv'
    <2>1. PICK t \in claimOf[i] : taskStatus' = [taskStatus EXCEPT ![t] = "running"]
      BY <1>6 DEF MarkClaimed
    <2>2. t \in TableJob /\ taskStatus[t] = "queued"
      BY <2>1 DEF TaskInv, LockedTasks, RowsWaiting
    <2>3. \A u \in TableJob : taskStatus'[u] \in JobStatus <=> taskStatus[u] \in JobStatus
      BY <1>0, <2>1, <2>2 DEF JobStatus
    <2>4. UNCHANGED <<tableKind, arrived>>
      BY <1>6 DEF MarkClaimed
    <2> QED BY <1>3, <2>3, <2>4
  <1>7. CASE ClaimInMemory
    <2>1. PICK k \in DOMAIN arrived : /\ arrived[k] \in RowsWaiting
                                      /\ taskStatus' = [taskStatus EXCEPT ![arrived[k]] = "running"]
      BY <1>7 DEF ClaimInMemory
    <2>2. arrived[k] \in TableJob /\ taskStatus[arrived[k]] = "queued"
      BY <2>1 DEF RowsWaiting
    <2>3. \A u \in TableJob : taskStatus'[u] \in JobStatus <=> taskStatus[u] \in JobStatus
      BY <1>0, <2>1, <2>2 DEF JobStatus
    <2>4. UNCHANGED <<tableKind, arrived>>
      BY <1>7 DEF ClaimInMemory
    <2> QED BY <1>3, <2>3, <2>4
  <1>8. CASE UNCHANGED tableVars
    BY <1>3, <1>8 DEF tableVars
  <1>9. ASSUME NEW t \in TableJob, FallsDue(t) \/ DeleteTask(t)
        PROVE  ArrivedInv'
    <2>1. CASE FallsDue(t)
      BY <1>3, <2>1 DEF FallsDue
    <2>2. CASE DeleteTask(t)
      BY <1>2, <2>2 DEF DeleteTask
    <2> QED BY <1>9, <2>1, <2>2
  <1>10. ASSUME NEW o \in TaskOwner, DeleteByOwner(o)
         PROVE  ArrivedInv'
    BY <1>2, <1>10 DEF DeleteByOwner
  <1>11. CASE DeleteExpired
    BY <1>2, <1>11 DEF DeleteExpired
  <1> QED
    BY <1>1, <1>4, <1>5, <1>6, <1>7, <1>8, <1>9, <1>10, <1>11 DEF TableNext

\* With both, analyses are given in the order of their arrival.
LEMMA ArrivedInvOrders == TaskInv /\ ArrivedInv => JobTableIsSound
PROOF
  <1> SUFFICES ASSUME TaskInv, ArrivedInv
               PROVE  JobTableIsSound
    OBVIOUS
  <1>1. \A k \in DOMAIN arrived : arrived[k] \in TableJob
    BY ElementOfSeq, LenProperties DEF ArrivedInv
  <1>2. IsInjective(arrived)
    BY DEF ArrivedInv, IsInjective
  <1>3. ToSet(arrived) = IF tableKind = "memory" THEN RowsKept ELSE {}
    BY <1>1 DEF ArrivedInv, ToSet, RowsKept
  <1> QED BY <1>2, <1>3, TaskInvOnce DEF JobTableIsSound, OrderIsOfRows

-----------------------------------------------------------------------------
(* Workspace                                                                 *)

AppRow == [owner : Person, name : Label, archived : BOOLEAN]
CollectionRow == [owner : Person, app : Application, name : Label]
RunRow == [call : ApiCall, owner : Person, app : Application, at : Nat]
CallsAnswered == {r \in ApiCall : apiCall[r].stage # "idle"}
Inserting == {r \in ApiCall : apiCall[r].stage \in {"pruning", "unpruned", "answered"}}
Unpruned(a) == {r \in ApiCall : apiCall[r].app = a /\ apiCall[r].stage \in {"pruning", "unpruned"}}
RunsOf(a) == {x \in apiRuns : x.app = a}
NewerIn(among, x, a) == {y \in among : y.app = a /\ y.at > x.at}

\* A creation that goes on was asked for by the owner of its application.
CollectionsInv ==
  /\ apps \in [Application -> {NoRow} \cup AppRow]
  /\ collections \in [Collection -> {NoRow} \cup CollectionRow]
  /\ posting \in [Collection -> [stage : {"idle", "asked", "counted", "created", "refused"},
                                 who : Person \cup {"none"}, app : Application \cup {"none"}]]
  /\ \A c \in Collection : posting[c].stage \in {"asked", "counted"} =>
       posting[c].who \in Person /\ posting[c].app \in Application /\ OwnedBy(posting[c].who, posting[c].app)
  /\ BelongsToItsOwner

\* The rows are told apart by their instants, which only grow, and all the rows
\* of an application are its owner's: an owner erases all of them or none.
RunsInv ==
  /\ apiCall \in [ApiCall -> [stage : {"idle", "recording", "pruning", "unpruned", "answered"},
                              who : Person \cup {"none"}, app : Application \cup {"none"}]]
  /\ IsFiniteSet(CallsAnswered)
  /\ recorded \subseteq RunRow /\ apiRuns \subseteq recorded /\ IsFiniteSet(recorded)
  /\ \A x \in recorded : x.at <= Inserted /\ apps[x.app].owner = x.owner
  /\ \A x, y \in recorded : x.at = y.at => x = y
  /\ \A r \in ApiCall : apiCall[r].stage = "recording" =>
       apiCall[r].who \in Person /\ apiCall[r].app \in Application /\ apps[apiCall[r].app].owner = apiCall[r].who
  /\ NewestRunsKept

SettingsInv == settings \in [Person -> [Setting -> SettingValue \cup {Unset}]]

SpaceInv == CollectionsInv /\ RunsInv /\ SettingsInv

\* An application never changes hands.
LEMMA OwnersStay ==
  ASSUME CollectionsInv, ApplicationStep
  PROVE  /\ apps' \in [Application -> {NoRow} \cup AppRow]
         /\ \A p \in Person, a \in Application : OwnedBy(p, a) => OwnedBy(p, a)'
PROOF
  <1> USE WorkspaceAssumption DEF CollectionsInv, AppRow, NoRow, OwnedBy
  <1>1. ASSUME NEW p \in Person, NEW a \in Application, NEW n \in Label, CreateApplication(p, a, n)
        PROVE  /\ apps' \in [Application -> {NoRow} \cup AppRow]
               /\ \A q \in Person, b \in Application : apps[b].owner = q => apps'[b].owner = q
    <2>1. apps[a].owner = "none" /\ apps' = [apps EXCEPT ![a] = [owner |-> p, name |-> n, archived |-> FALSE]]
      BY <1>1 DEF CreateApplication
    <2> QED BY <2>1
  <1>2. ASSUME NEW a \in Application, NEW entry \in AppRow, entry.owner = apps[a].owner,
               apps' = [apps EXCEPT ![a] = entry]
        PROVE  /\ apps' \in [Application -> {NoRow} \cup AppRow]
               /\ \A q \in Person, b \in Application : apps[b].owner = q => apps'[b].owner = q
    BY <1>2
  <1>3. ASSUME NEW p \in Person, NEW a \in Application, NEW n \in Label, UpdateApplication(p, a, n)
        PROVE  \E entry \in AppRow : entry.owner = apps[a].owner /\ apps' = [apps EXCEPT ![a] = entry]
    <2>1. apps[a] \in AppRow /\ apps' = [apps EXCEPT ![a] = [apps[a] EXCEPT !.name = n]]
      BY <1>3 DEF UpdateApplication
    <2> QED BY <2>1
  <1>4. ASSUME NEW p \in Person, NEW a \in Application, ArchiveApplication(p, a)
        PROVE  \E entry \in AppRow : entry.owner = apps[a].owner /\ apps' = [apps EXCEPT ![a] = entry]
    <2>1. apps[a] \in AppRow /\ apps' = [apps EXCEPT ![a] = [apps[a] EXCEPT !.archived = TRUE]]
      BY <1>4 DEF ArchiveApplication
    <2> QED BY <2>1
  <1> QED BY <1>1, <1>2, <1>3, <1>4 DEF ApplicationStep

\* Holds at first: what the rows of an owner are.
LEMMA SpaceInvInit == SpaceInit => SpaceInv
PROOF
  <1> SUFFICES ASSUME SpaceInit
               PROVE  SpaceInv
    OBVIOUS
  <1>1. apps \in [Application -> {NoRow} \cup AppRow]
    BY DEF SpaceInit, AppRow
  <1>2. CollectionsInv
    BY <1>1 DEF SpaceInit, CollectionsInv, BelongsToItsOwner, Idle, NoRow
  <1>3. CallsAnswered = {} /\ recorded = {} /\ apiRuns = {}
    BY DEF SpaceInit, CallsAnswered, Idle
  <1>4. \A a \in Application : NewestOf(recorded, a) = {} /\ RunsOf(a) = {} /\ Unpruned(a) = {}
    BY <1>3 DEF SpaceInit, NewestOf, RunsOf, Unpruned, Idle
  <1>5. NewestRunsKept
    <2>1. Cardinality({}) = 0 /\ 0 <= MaxRuns + 0
      BY FS_EmptySet, WorkspaceAssumption
    <2>2. \A a \in Application :
            NewestOf(recorded, a) \subseteq apiRuns /\ Cardinality(RunsOf(a)) <= MaxRuns + Cardinality(Unpruned(a))
      BY <1>4, <2>1
    <2> QED BY <2>2 DEF NewestRunsKept, RunsOf, Unpruned
  <1>6. RunsInv
    BY <1>3, <1>5, FS_EmptySet DEF SpaceInit, RunsInv, Idle
  <1> QED BY <1>2, <1>6 DEF SpaceInit, SpaceInv, SettingsInv

\* No step breaks that collections are in applications of their owner.
LEMMA CollectionsInvStep ==
  ASSUME CollectionsInv, ApplicationStep \/ CollectionStep \/ UNCHANGED <<apps, collections, posting>>
  PROVE  CollectionsInv'
PROOF
  <1> USE WorkspaceAssumption
      DEF CollectionsInv, BelongsToItsOwner, FreeLabel, Of, OwnedBy, NoRow, CollectionRow
  <1>1. CASE ApplicationStep
    <2>1. UNCHANGED <<collections, posting>>
      BY <1>1 DEF ApplicationStep, CreateApplication, UpdateApplication, ArchiveApplication
    <2> QED BY <1>1, <2>1, OwnersStay
  <1>2. ASSUME NEW p \in Person, NEW a \in Application, NEW c \in Collection, AskCollection(p, a, c)
        PROVE  CollectionsInv'
    BY <1>2 DEF AskCollection
  <1>3. ASSUME NEW p \in Person, NEW a \in Application, NEW c \in Collection, RemoveCollection(p, a, c)
        PROVE  CollectionsInv'
    BY <1>3 DEF RemoveCollection
  <1>4. ASSUME NEW p \in Person, NEW a \in Application, NEW c \in Collection, NEW n \in Label,
               RenameCollection(p, a, c, n)
        PROVE  CollectionsInv'
    <2>1. collections[c] \in CollectionRow /\ UNCHANGED <<apps, posting>>
      BY <1>4 DEF RenameCollection
    <2>2. collections' = [collections EXCEPT ![c] = [owner |-> collections[c].owner, app |-> collections[c].app, name |-> n]]
      <3>1. [collections[c] EXCEPT !.name = n] = [owner |-> collections[c].owner, app |-> collections[c].app, name |-> n]
        BY <2>1
      <3> QED BY <1>4, <3>1 DEF RenameCollection
    <2>3. \A d \in Collection \ {c} : collections[d] # NoRow /\ collections[d].app = collections[c].app => collections[d].name # n
      BY <1>4 DEF RenameCollection
    <2> QED BY <2>1, <2>2, <2>3
  <1>5. ASSUME NEW c \in Collection, CountCollections(c)
        PROVE  CollectionsInv'
    BY <1>5 DEF CountCollections
  <1>6. ASSUME NEW c \in Collection, NEW n \in Label, InsertCollection(c, n)
        PROVE  CollectionsInv'
    <2>1. CASE ~FreeLabel(posting[c].app, n, c)
      <3>1. /\ posting[c].stage = "counted" /\ posting' = [posting EXCEPT ![c].stage = "refused"]
            /\ UNCHANGED <<apps, collections>>
        BY <1>6, <2>1 DEF InsertCollection
      <3> QED BY <3>1
    <2>2. CASE FreeLabel(posting[c].app, n, c)
      <3>1. /\ posting[c].stage = "counted" /\ posting' = [posting EXCEPT ![c].stage = "created"] /\ apps' = apps
            /\ collections' = [collections EXCEPT ![c] = [owner |-> posting[c].who, app |-> posting[c].app, name |-> n]]
        BY <1>6, <2>2 DEF InsertCollection
      <3>2. \A d \in Collection \ {c} : collections[d] # NoRow /\ collections[d].app = posting[c].app => collections[d].name # n
        BY <2>2
      <3> QED BY <3>1, <3>2
    <2> QED BY <2>1, <2>2
  <1>7. CASE UNCHANGED <<apps, collections, posting>>
    BY <1>7
  <1> QED BY <1>1, <1>2, <1>3, <1>4, <1>5, <1>6, <1>7 DEF CollectionStep

\* What is newest in more rows is newest in fewer of them.
LEMMA NewestOfFewer ==
  ASSUME NEW more, IsFiniteSet(more), NEW among \in SUBSET more, NEW a,
         NEW x \in NewestOf(more, a), x \in among
  PROVE  x \in NewestOf(among, a)
PROOF
  <1> USE WorkspaceAssumption
  <1>1. IsFiniteSet(NewerIn(more, x, a)) /\ NewerIn(among, x, a) \in SUBSET NewerIn(more, x, a)
    BY FS_Subset DEF NewerIn
  <1>2. /\ Cardinality(NewerIn(among, x, a)) \in Nat /\ Cardinality(NewerIn(more, x, a)) \in Nat
        /\ Cardinality(NewerIn(among, x, a)) <= Cardinality(NewerIn(more, x, a))
    BY <1>1, FS_Subset, FS_CardinalityType
  <1>3. Cardinality(NewerIn(more, x, a)) < MaxRuns /\ x.app = a
    BY DEF NewestOf, NewerIn
  <1>4. Cardinality(NewerIn(among, x, a)) < MaxRuns
    BY <1>2, <1>3
  <1> QED BY <1>3, <1>4 DEF NewestOf, NewerIn

\* The inner select of the prune returns no more rows than its limit: the
\* newest one has none newer, the next one has one, and so on.
LEMMA NewestAreFew ==
  ASSUME NEW among \in SUBSET RunRow, IsFiniteSet(among),
         \A x, y \in among : x.at = y.at => x = y, NEW a
  PROVE  IsFiniteSet(NewestOf(among, a)) /\ Cardinality(NewestOf(among, a)) <= MaxRuns
PROOF
  <1> DEFINE N == NewestOf(among, a)
             rank == [x \in N |-> Cardinality(NewerIn(among, x, a))]
  <1> USE WorkspaceAssumption
  <1>1. N \in SUBSET among /\ IsFiniteSet(N)
    BY FS_Subset DEF NewestOf
  <1>2. \A x \in N : IsFiniteSet(NewerIn(among, x, a)) /\ Cardinality(NewerIn(among, x, a)) \in Nat
    BY FS_Subset, FS_CardinalityType DEF NewerIn
  <1>3. rank \in [N -> 0..(MaxRuns - 1)]
    <2>1. \A x \in N : Cardinality(NewerIn(among, x, a)) < MaxRuns
      BY DEF NewestOf, NewerIn
    <2> QED BY <1>2, <2>1
  <1>4. ASSUME NEW x \in N, NEW y \in N, x.at > y.at
        PROVE  rank[x] # rank[y]
    <2>1. NewerIn(among, x, a) \in SUBSET NewerIn(among, y, a)
      BY <1>1, <1>4 DEF NewerIn, RunRow
    <2>2. x \in NewerIn(among, y, a) /\ x \notin NewerIn(among, x, a)
      BY <1>1, <1>4 DEF NewerIn, NewestOf, RunRow
    <2> QED BY <1>2, <2>1, <2>2, FS_Subset
  <1>5. ASSUME ~(Cardinality(N) <= MaxRuns)
        PROVE  FALSE
    <2> DEFINE R == 0..(MaxRuns - 1)
    <2>1. IsFiniteSet(R) /\ Cardinality(R) = MaxRuns
      <3>1. 0 \in Int /\ MaxRuns - 1 \in Int /\ (0 > MaxRuns - 1) = FALSE /\ (MaxRuns - 1) - 0 + 1 = MaxRuns
        OBVIOUS
      <3>2. IsFiniteSet(R) /\ Cardinality(R) = IF 0 > MaxRuns - 1 THEN 0 ELSE (MaxRuns - 1) - 0 + 1
        BY <3>1, FS_Interval
      <3> QED BY <3>1, <3>2
    <2>2. Cardinality(R) < Cardinality(N)
      BY <1>1, <1>5, <2>1, FS_CardinalityType
    <2>3. PICK x \in N, y \in N : x # y /\ rank[x] = rank[y]
      <3>1. rank \in [N -> R]
        BY <1>3
      <3> HIDE DEF N, rank, R
      <3> QED BY <1>1, <2>1, <2>2, <3>1, FS_PigeonHole
    <2>4. x.at # y.at /\ x.at \in Nat /\ y.at \in Nat
      BY <1>1, <2>3 DEF RunRow
    <2>5. x.at > y.at \/ y.at > x.at
      BY <2>4
    <2> QED BY <1>4, <2>3, <2>5
  <1> QED BY <1>1, <1>5

\* The rows of runs, and those not pruned yet, are finitely many.
LEMMA RunsAreFinite ==
  ASSUME RunsInv
  PROVE  /\ IsFiniteSet(Inserting) /\ Cardinality(Inserting) = Inserted /\ Inserted \in Nat
         /\ \A a : IsFiniteSet(RunsOf(a)) /\ Cardinality(RunsOf(a)) \in Nat
         /\ \A a : IsFiniteSet(Unpruned(a)) /\ Cardinality(Unpruned(a)) \in Nat
PROOF
  <1>1. /\ Inserting \in SUBSET CallsAnswered /\ \A a : RunsOf(a) \in SUBSET recorded
        /\ \A a : Unpruned(a) \in SUBSET CallsAnswered
    BY DEF RunsInv, Inserting, RunsOf, Unpruned, CallsAnswered
  <1>2. /\ IsFiniteSet(Inserting) /\ \A a : IsFiniteSet(RunsOf(a)) /\ IsFiniteSet(Unpruned(a))
    BY <1>1, FS_Subset DEF RunsInv
  <1> QED BY <1>2, FS_CardinalityType DEF Inserting, Inserted

\* A step of the calls that leaves the rows as they are.
LEMMA CallsMoveOn ==
  ASSUME RunsInv, UNCHANGED <<apps, apiRuns, recorded>>, NEW r \in ApiCall,
         NEW call \in [stage : {"recording", "unpruned", "answered"},
                       who : Person \cup {"none"}, app : Application \cup {"none"}],
         apiCall' = [apiCall EXCEPT ![r] = call],
         call.stage = "unpruned" => apiCall[r].stage = "pruning" /\ call.app = apiCall[r].app,
         call.stage = "answered" => apiCall[r].stage \in {"idle", "recording"},
         call.stage = "recording" =>
           apiCall[r].stage = "idle" /\ call.who \in Person /\ call.app \in Application /\ OwnedBy(call.who, call.app)
  PROVE  RunsInv'
PROOF
  <1> USE WorkspaceAssumption DEF RunsInv, OwnedBy
  <1>1. /\ apiCall' \in [ApiCall -> [stage : {"idle", "recording", "pruning", "unpruned", "answered"},
                                    who : Person \cup {"none"}, app : Application \cup {"none"}]]
        /\ apiCall'[r] = call /\ \A q \in ApiCall : q # r => apiCall'[q] = apiCall[q]
    OBVIOUS
  <1>2. CallsAnswered' = CallsAnswered \cup {r}
    BY <1>1 DEF CallsAnswered
  <1>3. IsFiniteSet(CallsAnswered')
    BY <1>2, FS_AddElement
  <1>4. IsFiniteSet(Inserting') /\ Inserted <= Inserted' /\ Inserted' \in Nat /\ Inserted \in Nat
    <2>1. Inserting \in SUBSET Inserting' /\ Inserting' \in SUBSET CallsAnswered'
      BY <1>1 DEF Inserting, CallsAnswered
    <2>2. IsFiniteSet(Inserting') /\ Cardinality(Inserting) <= Cardinality(Inserting')
      BY <1>3, <2>1, FS_Subset
    <2> QED BY <2>2, RunsAreFinite, FS_CardinalityType DEF Inserting, Inserted
  <1>5. \A a : Unpruned(a)' = Unpruned(a)
    BY <1>1 DEF Unpruned
  <1>6. NewestRunsKept'
    <2>1. /\ \A a : RunsOf(a)' = RunsOf(a) /\ NewestOf(recorded, a)' = NewestOf(recorded, a)
          /\ apiRuns' = apiRuns
      BY DEF RunsOf, NewestOf
    <2>2. NewestRunsKept
      OBVIOUS
    <2> HIDE DEF RunsInv
    <2> QED BY <1>5, <2>1, <2>2 DEF NewestRunsKept, RunsOf, Unpruned
  <1>7. \A x \in recorded' : x.at <= Inserted' /\ apps'[x.app].owner = x.owner
    <2>1. \A x \in recorded : x.at \in Nat /\ x.at <= Inserted
      BY DEF RunRow
    <2> QED BY <1>4, <2>1 DEF OwnedBy
  <1>8. \A q \in ApiCall : apiCall'[q].stage = "recording" =>
          apiCall'[q].who \in Person /\ apiCall'[q].app \in Application /\ apps'[apiCall'[q].app].owner = apiCall'[q].who
    BY <1>1 DEF OwnedBy
  <1> QED BY <1>1, <1>3, <1>6, <1>7, <1>8

\* A run inserted is newer than all the others of its application.
LEMMA InsertRunStep ==
  ASSUME RunsInv, NEW r \in ApiCall, InsertRun(r)
  PROVE  RunsInv'
PROOF
  <1> DEFINE run == [call |-> r, owner |-> apiCall[r].who, app |-> apiCall[r].app, at |-> Inserted + 1]
  <1> USE WorkspaceAssumption DEF RunsInv, OwnedBy
  <1>1. /\ apiCall[r].stage = "recording" /\ apps' = apps
        /\ apiRuns' = apiRuns \cup {run} /\ recorded' = recorded \cup {run}
    BY DEF InsertRun
  <1>2. /\ apiCall' \in [ApiCall -> [stage : {"idle", "recording", "pruning", "unpruned", "answered"},
                                    who : Person \cup {"none"}, app : Application \cup {"none"}]]
        /\ apiCall'[r].stage = "pruning" /\ apiCall'[r].app = apiCall[r].app
        /\ \A q \in ApiCall : q # r => apiCall'[q] = apiCall[q]
    BY DEF InsertRun
  <1>3. run \in RunRow /\ apps[run.app].owner = run.owner
    BY <1>1, RunsAreFinite DEF RunRow
  <1>4. \A x \in recorded : x.at \in Nat /\ x.at < run.at
    BY RunsAreFinite DEF RunRow
  <1>5. CallsAnswered' = CallsAnswered /\ Inserting' = Inserting \cup {r} /\ r \notin Inserting
    BY <1>1, <1>2 DEF CallsAnswered, Inserting
  <1>6. Inserted' = Inserted + 1
    <2>1. Cardinality(Inserting') = Cardinality(Inserting) + 1
      BY <1>5, RunsAreFinite, FS_AddElement
    <2>2. Inserted' = Cardinality(Inserting') /\ Inserted = Cardinality(Inserting)
      BY DEF Inserting, Inserted
    <2> QED BY <2>1, <2>2
  <1>7. /\ recorded' \subseteq RunRow /\ apiRuns' \subseteq recorded' /\ IsFiniteSet(recorded')
        /\ \A x, y \in recorded' : x.at = y.at => x = y
    BY <1>1, <1>3, <1>4, FS_AddElement
  <1>8. \A x \in recorded' : x.at <= Inserted' /\ apps'[x.app].owner = x.owner
    <2>1. \A x \in recorded : x.at <= Inserted' /\ apps'[x.app].owner = x.owner
      <3>1. \A x \in recorded : x.at \in Nat /\ x.at <= Inserted /\ apps[x.app].owner = x.owner
        BY <1>4
      <3> HIDE DEF RunsInv
      <3> QED BY <1>1, <1>6, <3>1, RunsAreFinite
    <2>2. run.at <= Inserted' /\ apps'[run.app].owner = run.owner
      BY <1>1, <1>3, <1>6, RunsAreFinite DEF OwnedBy
    <2> QED BY <1>1, <2>1, <2>2
  <1>9. \A q \in ApiCall : apiCall'[q].stage = "recording" =>
          apiCall'[q].who \in Person /\ apiCall'[q].app \in Application /\ apps'[apiCall'[q].app].owner = apiCall'[q].who
    BY <1>1, <1>2 DEF OwnedBy
  <1>10. ASSUME NEW a \in Application
         PROVE  NewestOf(recorded', a) \subseteq apiRuns'
    <2>1. ASSUME NEW x \in NewestOf(recorded', a), x \in recorded
          PROVE  x \in apiRuns
      <3>1. x \in NewestOf(recorded, a)
        BY <1>1, <1>7, <2>1, NewestOfFewer
      <3> QED BY <3>1 DEF NewestRunsKept
    <2> QED BY <1>1, <2>1 DEF NewestOf
  <1>11. ASSUME NEW a \in Application
         PROVE  Cardinality(RunsOf(a)') <= MaxRuns + Cardinality(Unpruned(a)')
    <2>0. Cardinality(RunsOf(a)) <= MaxRuns + Cardinality(Unpruned(a))
      BY DEF NewestRunsKept, RunsOf, Unpruned
    <2>1. CASE a = run.app
      <3>1. RunsOf(a)' = RunsOf(a) \cup {run} /\ run \notin RunsOf(a)
        BY <1>1, <1>4, <2>1 DEF RunsOf
      <3>2. Unpruned(a)' = Unpruned(a) \cup {r} /\ r \notin Unpruned(a)
        BY <1>1, <1>2, <2>1 DEF Unpruned
      <3>3. Cardinality(RunsOf(a)') = Cardinality(RunsOf(a)) + 1
        BY <3>1, RunsAreFinite, FS_AddElement
      <3>5. Cardinality(Unpruned(a)') = Cardinality(Unpruned(a)) + 1
        BY <3>2, RunsAreFinite, FS_AddElement
      <3>4. Cardinality(RunsOf(a)) \in Nat /\ Cardinality(Unpruned(a)) \in Nat
        BY RunsAreFinite
      <3> QED BY <2>0, <3>3, <3>4, <3>5
    <2>2. CASE a # run.app
      <3>1. RunsOf(a)' = RunsOf(a) /\ Unpruned(a)' = Unpruned(a)
        BY <1>1, <1>2, <2>2 DEF RunsOf, Unpruned
      <3> QED BY <2>0, <3>1
    <2> QED BY <2>1, <2>2
  <1>12. NewestRunsKept'
    BY <1>10, <1>11 DEF NewestRunsKept, RunsOf, Unpruned
  <1> QED BY <1>2, <1>5, <1>7, <1>8, <1>9, <1>12

\* A prune takes only rows beyond the limit of the newest.
LEMMA PruneRunsStep ==
  ASSUME RunsInv, NEW r \in ApiCall, PruneRuns(r)
  PROVE  RunsInv'
PROOF
  <1> DEFINE a == apiCall[r].app
  <1> USE WorkspaceAssumption DEF RunsInv, OwnedBy
  <1>1. /\ apiCall[r].stage = "pruning" /\ UNCHANGED <<apps, recorded>>
        /\ apiRuns' = {x \in apiRuns : x.app # a} \cup NewestOf(apiRuns, a)
    BY DEF PruneRuns, KeptByPrune
  <1>2. /\ apiCall' \in [ApiCall -> [stage : {"idle", "recording", "pruning", "unpruned", "answered"},
                                    who : Person \cup {"none"}, app : Application \cup {"none"}]]
        /\ apiCall'[r].stage = "answered" /\ apiCall'[r].app = a
        /\ \A q \in ApiCall : q # r => apiCall'[q] = apiCall[q]
    BY DEF PruneRuns
  <1>3. CallsAnswered' = CallsAnswered /\ Inserting' = Inserting
    BY <1>1, <1>2 DEF CallsAnswered, Inserting
  <1>4. Inserted' = Inserted
    BY <1>3 DEF Inserting, Inserted
  <1>5. apiRuns' \subseteq recorded'
    BY <1>1 DEF NewestOf
  <1>6. ASSUME NEW b \in Application
        PROVE  NewestOf(recorded', b) \subseteq apiRuns'
    <2>1. ASSUME NEW x \in NewestOf(recorded, b)
          PROVE  x \in apiRuns'
      <3>1. x \in apiRuns /\ x.app = b
        BY DEF NewestRunsKept, NewestOf
      <3>2. b = a => x \in NewestOf(apiRuns, a)
        BY <3>1, NewestOfFewer
      <3> QED BY <1>1, <3>1, <3>2
    <2> QED BY <1>1, <2>1
  <1>7. ASSUME NEW b \in Application
        PROVE  Cardinality(RunsOf(b)') <= MaxRuns + Cardinality(Unpruned(b)')
    <2>1. CASE b = a
      <3>1. RunsOf(b)' = NewestOf(apiRuns, a)
        BY <1>1, <2>1 DEF RunsOf, NewestOf
      <3>2. apiRuns \in SUBSET RunRow /\ IsFiniteSet(apiRuns) /\ \A x, y \in apiRuns : x.at = y.at => x = y
        BY FS_Subset
      <3>3. IsFiniteSet(RunsOf(b)') /\ Cardinality(RunsOf(b)') <= MaxRuns
        BY <3>1, <3>2, NewestAreFew
      <3>4. Unpruned(b)' \in SUBSET CallsAnswered
        BY <1>3 DEF Unpruned, CallsAnswered
      <3>5. Cardinality(Unpruned(b)') \in Nat /\ Cardinality(RunsOf(b)') \in Nat
        BY <3>3, <3>4, FS_Subset, FS_CardinalityType
      <3> QED BY <3>3, <3>5
    <2>2. CASE b # a
      <3>1. RunsOf(b)' = RunsOf(b) /\ Unpruned(b)' = Unpruned(b)
        BY <1>1, <1>2, <2>2 DEF RunsOf, Unpruned, NewestOf
      <3> QED BY <3>1 DEF NewestRunsKept, RunsOf, Unpruned
    <2> QED BY <2>1, <2>2
  <1>8. NewestRunsKept'
    BY <1>6, <1>7 DEF NewestRunsKept, RunsOf, Unpruned
  <1>9. \A q \in ApiCall : apiCall'[q].stage = "recording" =>
          apiCall'[q].who \in Person /\ apiCall'[q].app \in Application /\ apps'[apiCall'[q].app].owner = apiCall'[q].who
    BY <1>1, <1>2 DEF OwnedBy
  <1> QED BY <1>1, <1>2, <1>3, <1>4, <1>5, <1>8, <1>9 DEF OwnedBy

\* Erasing an owner takes all rows of an application or none.
LEMMA EraseRunsStep ==
  ASSUME RunsInv, NEW p \in Person, EraseRuns(p)
  PROVE  RunsInv'
PROOF
  <1> USE WorkspaceAssumption DEF RunsInv, OwnedBy
  <1>1. /\ apiRuns' = {x \in apiRuns : x.owner # p} /\ recorded' = {x \in recorded : x.owner # p}
        /\ UNCHANGED <<apps, apiCall>>
    BY DEF EraseRuns
  <1>2. CallsAnswered' = CallsAnswered /\ Inserted' = Inserted /\ \A a : Unpruned(a)' = Unpruned(a)
    BY <1>1 DEF CallsAnswered, Inserted, Unpruned
  <1>3. recorded' \in SUBSET recorded /\ IsFiniteSet(recorded')
    BY <1>1, FS_Subset
  <1>4. ASSUME NEW a \in Application, NEW x \in NewestOf(recorded', a)
        PROVE  x \in apiRuns'
    <2>1. x \in recorded' /\ x.app = a
      BY DEF NewestOf
    <2>2. NewerIn(recorded', x, a) = NewerIn(recorded, x, a)
      BY <1>1, <2>1 DEF NewerIn, OwnedBy
    <2>3. x \in NewestOf(recorded, a)
      BY <1>3, <2>1, <2>2 DEF NewestOf, NewerIn
    <2> QED BY <1>1, <2>1, <2>3 DEF NewestRunsKept
  <1>5. ASSUME NEW a \in Application
        PROVE  Cardinality(RunsOf(a)') <= MaxRuns + Cardinality(Unpruned(a)')
    <2>1. RunsOf(a)' \in SUBSET RunsOf(a)
      BY <1>1 DEF RunsOf
    <2>2. Cardinality(RunsOf(a)') <= Cardinality(RunsOf(a)) /\ Cardinality(RunsOf(a)') \in Nat
      BY <2>1, RunsAreFinite, FS_Subset, FS_CardinalityType
    <2>3. Cardinality(RunsOf(a)) <= MaxRuns + Cardinality(Unpruned(a))
      BY DEF NewestRunsKept, RunsOf, Unpruned
    <2> QED BY <1>2, <2>2, <2>3, RunsAreFinite
  <1>6. NewestRunsKept'
    BY <1>4, <1>5 DEF NewestRunsKept, RunsOf, Unpruned
  <1> QED BY <1>1, <1>2, <1>3, <1>6 DEF OwnedBy

\* No step breaks that the runs of an application are told apart by instants that grow.
LEMMA RunsInvStep ==
  ASSUME CollectionsInv, RunsInv,
         \/ ApplicationStep \/ RunStep
         \/ UNCHANGED <<apps, apiCall, apiRuns, recorded>>
  PROVE  RunsInv'
PROOF
  <1> USE DEF RunsInv, OwnedBy
  <1>1. ASSUME UNCHANGED <<apiCall, apiRuns, recorded>>,
               \A p \in Person, a \in Application : OwnedBy(p, a) => OwnedBy(p, a)'
        PROVE  RunsInv'
    <2>1. CallsAnswered' = CallsAnswered /\ Inserted' = Inserted /\ \A a : Unpruned(a)' = Unpruned(a)
      BY <1>1 DEF CallsAnswered, Inserted, Unpruned
    <2>2. NewestRunsKept'
      BY <1>1, <2>1 DEF NewestRunsKept, Unpruned, NewestOf
    <2> QED BY <1>1, <2>1, <2>2 DEF RunRow
  <1>2. CASE ApplicationStep
    <2>1. UNCHANGED <<apiCall, apiRuns, recorded>>
      BY <1>2 DEF ApplicationStep, CreateApplication, UpdateApplication, ArchiveApplication
    <2> QED BY <1>1, <1>2, <2>1, OwnersStay
  <1>3. ASSUME NEW p \in Person, NEW a \in Application, NEW r \in ApiCall, CallAnswered(p, a, r)
        PROVE  RunsInv'
    <2> DEFINE call == [stage |-> IF OwnedBy(p, a) THEN "recording" ELSE "answered", who |-> p, app |-> a]
    <2>1. apiCall[r].stage = "idle" /\ apiCall' = [apiCall EXCEPT ![r] = call] /\ UNCHANGED <<apps, apiRuns, recorded>>
      BY <1>3 DEF CallAnswered
    <2>2. call \in [stage : {"recording", "unpruned", "answered"}, who : Person \cup {"none"}, app : Application \cup {"none"}]
      OBVIOUS
    <2>3. call.stage = "recording" => OwnedBy(p, a)
      OBVIOUS
    <2> QED BY <2>1, <2>2, <2>3, CallsMoveOn
  <1>4. ASSUME NEW r \in ApiCall, RecordFails(r)
        PROVE  RunsInv'
    <2> DEFINE call == [stage |-> IF apiCall[r].stage = "pruning" THEN "unpruned" ELSE "answered",
                        who |-> apiCall[r].who, app |-> apiCall[r].app]
    <2>1. apiCall[r].stage \in {"recording", "pruning"} /\ UNCHANGED <<apps, apiRuns, recorded>>
      BY <1>4 DEF RecordFails
    <2>2. apiCall' = [apiCall EXCEPT ![r] = call]
      <3>1. apiCall[r] = [stage |-> apiCall[r].stage, who |-> apiCall[r].who, app |-> apiCall[r].app]
        OBVIOUS
      <3>2. [apiCall[r] EXCEPT !.stage = call.stage] = call
        BY <3>1
      <3> QED BY <1>4, <3>2 DEF RecordFails
    <2>3. call \in [stage : {"recording", "unpruned", "answered"}, who : Person \cup {"none"}, app : Application \cup {"none"}]
      OBVIOUS
    <2> QED BY <2>1, <2>2, <2>3, CallsMoveOn
  <1>5. CASE UNCHANGED <<apps, apiCall, apiRuns, recorded>>
    BY <1>1, <1>5 DEF OwnedBy
  <1> QED BY <1>2, <1>3, <1>4, <1>5, InsertRunStep, PruneRunsStep, EraseRunsStep DEF RunStep

\* No step breaks what the rows of an owner are.
LEMMA SpaceInvStep == SpaceInv /\ [SpaceNext]_spaceVars => SpaceInv'
PROOF
  <1> SUFFICES ASSUME SpaceInv, [SpaceNext]_spaceVars
               PROVE  SpaceInv'
    OBVIOUS
  <1> USE DEF SpaceInv
  <1>1. CASE ApplicationStep
    <2>1. settings' = settings
      BY <1>1 DEF ApplicationStep, CreateApplication, UpdateApplication, ArchiveApplication
    <2> QED BY <1>1, <2>1, CollectionsInvStep, RunsInvStep DEF SettingsInv
  <1>2. CASE CollectionStep
    <2>1. UNCHANGED <<apps, apiCall, apiRuns, recorded, settings>>
      BY <1>2 DEF CollectionStep, AskCollection, RemoveCollection, RenameCollection, CountCollections, InsertCollection
    <2> QED BY <1>2, <2>1, CollectionsInvStep, RunsInvStep DEF SettingsInv
  <1>3. CASE RunStep
    <2>1. UNCHANGED <<apps, collections, posting, settings>>
      BY <1>3 DEF RunStep, CallAnswered, InsertRun, PruneRuns, RecordFails, EraseRuns
    <2> QED BY <1>3, <2>1, CollectionsInvStep, RunsInvStep DEF SettingsInv
  <1>4. CASE SettingStep
    <2>1. UNCHANGED <<apps, collections, posting, apiCall, apiRuns, recorded>>
      BY <1>4 DEF SettingStep, PatchSettings
    <2>2. SettingsInv'
      BY <1>4 DEF SettingStep, PatchSettings, SettingsInv
    <2> QED BY <2>1, <2>2, CollectionsInvStep, RunsInvStep
  <1>5. CASE UNCHANGED spaceVars
    BY <1>5, CollectionsInvStep, RunsInvStep DEF spaceVars, SettingsInv
  <1> QED BY <1>1, <1>2, <1>3, <1>4, <1>5 DEF SpaceNext

\* No step breaks that a patch resets no setting it did not send.
LEMMA SettingsKeptStep == SpaceInv /\ [SpaceNext]_spaceVars => [SettingsKept]_spaceVars
PROOF
  <1> SUFFICES ASSUME SpaceInv, SpaceNext
               PROVE  SettingsKept
    BY DEF SpaceInv
  <1>1. CASE SettingStep
    BY <1>1 DEF SettingStep, PatchSettings, SettingsKept, SpaceInv, SettingsInv
  <1>2. CASE UNCHANGED settings
    BY <1>2 DEF SettingsKept
  <1>3. ApplicationStep \/ CollectionStep \/ RunStep => UNCHANGED settings
    BY DEF ApplicationStep, CreateApplication, UpdateApplication, ArchiveApplication,
      CollectionStep, AskCollection, RemoveCollection, RenameCollection, CountCollections, InsertCollection,
      RunStep, CallAnswered, InsertRun, PruneRuns, RecordFails, EraseRuns
  <1> QED BY <1>1, <1>2, <1>3 DEF SpaceNext

-----------------------------------------------------------------------------
(* The evidence of an execution                                              *)

\* The lines whose capture was made: a request that threw leaves none.
Captured == {n \in 1..line : Instrumented(lines[n]) /\ ~(n = failed /\ lines[n] = "request")}
CapturedBefore(n) == {m \in Captured : m < n}

\* While no capture failed and the fixtures see every action, the files are
\* numbered by the lines captured, in their order.
NumberedInOrder ==
  ~missed /\ (\A n \in 1..line : lines[n] # "chained") =>
    /\ counter = Cardinality(Captured)
    /\ DOMAIN capture = 0..(counter - 1)
    /\ \A n \in Captured : capture[Cardinality(CapturedBefore(n))] = n

\* Whatever was missed, a later file is of a later line.
InOrder ==
  /\ DOMAIN capture \subseteq 0..(counter - 1)
  /\ \A k \in DOMAIN capture : capture[k] \in Captured
  /\ \A j, k \in DOMAIN capture : j < k => capture[j] < capture[k]

EvidenceInv ==
  /\ lines \in Seq(LineKind) /\ line \in 0..Len(lines)
  /\ failed \in {0, line} /\ counter \in Nat /\ missed \in BOOLEAN
  /\ InOrder
  /\ NumberedInOrder

\* The numbering of the captured files hold at first.
LEMMA EvidenceInvInit == EvidenceInit => EvidenceInv
PROOF
  <1> SUFFICES ASSUME EvidenceInit
               PROVE  EvidenceInv
    OBVIOUS
  <1>1. lines \in Seq(LineKind) /\ Len(lines) \in Nat
    BY CodeEvidenceAssumption DEF EvidenceInit, BoundedSeq, SeqOf
  <1>2. Captured = {} /\ DOMAIN capture = {}
    BY DEF EvidenceInit, Captured
  <1>3. Cardinality(Captured) = 0 /\ 0..(0 - 1) = {}
    BY <1>2, FS_EmptySet
  <1>4. NumberedInOrder
    BY <1>2, <1>3 DEF EvidenceInit, NumberedInOrder
  <1>5. line \in 0..Len(lines) /\ failed \in {0, line} /\ counter \in Nat
    BY <1>1 DEF EvidenceInit
  <1>6. missed \in BOOLEAN
    BY DEF EvidenceInit
  <1>7. InOrder
    BY <1>2 DEF InOrder
  <1> QED BY <1>1, <1>4, <1>5, <1>6, <1>7 DEF EvidenceInv

\* The lines captured are finitely many, fewer before one of them than in all.
LEMMA CapturedAreFinite ==
  ASSUME EvidenceInv
  PROVE  /\ IsFiniteSet(Captured) /\ Cardinality(Captured) \in Nat
         /\ \A n \in Captured : Cardinality(CapturedBefore(n)) \in 0..(Cardinality(Captured) - 1)
PROOF
  <1>1. line \in Nat /\ Captured \in SUBSET (1..line)
    BY LenProperties DEF EvidenceInv, Captured
  <1>2. IsFiniteSet(Captured) /\ Cardinality(Captured) \in Nat
    BY <1>1, PositionsAreFinite
  <1>3. ASSUME NEW n \in Captured
        PROVE  Cardinality(CapturedBefore(n)) \in 0..(Cardinality(Captured) - 1)
    <2>1. n \in Int /\ CapturedBefore(n) \in SUBSET Captured /\ n \notin CapturedBefore(n)
      BY <1>1 DEF CapturedBefore
    <2>2. /\ IsFiniteSet(CapturedBefore(n)) /\ Cardinality(CapturedBefore(n)) <= Cardinality(Captured)
          /\ Cardinality(CapturedBefore(n)) # Cardinality(Captured)
      BY <1>2, <2>1, FS_Subset
    <2>3. Cardinality(CapturedBefore(n)) \in Nat
      BY <2>2, FS_CardinalityType
    <2> QED BY <1>2, <2>2, <2>3
  <1> QED BY <1>2, <1>3

\* A line either leaves the files alone and is not one of those captured, or it
\* is, and its capture is made or missed.
LEMMA LineIsCapturedOrNot ==
  ASSUME EvidenceInv, RunLine
  PROVE  \/ Captured' = Captured /\ UNCHANGED <<counter, capture, missed>>
         \/ Captured' = Captured \cup {line + 1} /\ Capture(line + 1)
PROOF
  <1> DEFINE n == line + 1
  <1>1. /\ line \in Nat /\ n \in 1..Len(lines) /\ failed = 0 /\ line' = n /\ lines' = lines
        /\ failed' \in {0, n} /\ lines[n] \in LineKind
    BY LenProperties, ElementOfSeq DEF EvidenceInv, RunLine
  <1>2. Captured = {m \in 1..line : Instrumented(lines[m])}
    BY <1>1 DEF Captured
  <1>3. Captured' = {m \in 1..n : Instrumented(lines[m]) /\ ~(m = failed' /\ lines[m] = "request")}
    BY <1>1 DEF Captured, Instrumented
  <1>4. 1..n = (1..line) \cup {n} /\ n \notin 1..line
    BY <1>1
  <1>5. CASE Instrumented(lines[n]) /\ ~(n = failed' /\ lines[n] = "request")
    <2>1. Captured' = Captured \cup {n}
      <3> HIDE DEF n
      <3> QED BY <1>1, <1>2, <1>3, <1>4, <1>5
    <2>2. Capture(n)
      BY <1>1, <1>5 DEF RunLine, Instrumented
    <2> QED BY <2>1, <2>2
  <1>6. CASE ~(Instrumented(lines[n]) /\ ~(n = failed' /\ lines[n] = "request"))
    <2>1. Captured' = Captured
      <3> HIDE DEF n
      <3> QED BY <1>1, <1>2, <1>3, <1>4, <1>6
    <2>2. UNCHANGED <<counter, capture, missed>>
      BY <1>1, <1>6 DEF RunLine, Instrumented, NoCapture
    <2> QED BY <2>1, <2>2
  <1> QED BY <1>5, <1>6

\* No step breaks the numbering of the captured files.
LEMMA EvidenceInvStep == EvidenceInv /\ [RunLine]_evidenceVars => EvidenceInv'
PROOF
  <1> SUFFICES ASSUME EvidenceInv, [RunLine]_evidenceVars
               PROVE  EvidenceInv'
    OBVIOUS
  <1>1. CASE UNCHANGED evidenceVars
    BY <1>1 DEF evidenceVars, EvidenceInv, NumberedInOrder, InOrder, Captured, CapturedBefore, Instrumented
  <1>2. CASE RunLine
    <2>0. PICK n : n = line + 1
      OBVIOUS
    <2>1. /\ line \in Nat /\ n \in 1..Len(lines) /\ n \notin 1..line /\ line' = n /\ lines' = lines
          /\ failed' \in {0, n} /\ 1..n = (1..line) \cup {n}
      BY <1>2, <2>0, LenProperties DEF EvidenceInv, RunLine
    <2>2. /\ IsFiniteSet(Captured) /\ Cardinality(Captured) \in Nat
          /\ \A m \in Captured : Cardinality(CapturedBefore(m)) \in 0..(Cardinality(Captured) - 1)
      BY CapturedAreFinite
    <2>3. \A m \in Captured : m \in 1..line
      BY DEF Captured
    <2>4. counter' \in Nat /\ missed' \in BOOLEAN
      <3>1. counter' \in {counter, counter + 1} /\ (missed' = missed \/ missed' = TRUE)
        BY <1>2 DEF RunLine, Capture, NoCapture
      <3>2. counter \in Nat /\ missed \in BOOLEAN
        BY DEF EvidenceInv
      <3>3. counter' \in Nat
        BY <3>1, <3>2
      <3>4. missed' \in BOOLEAN
        BY <3>1, <3>2, Zenon
      <3> QED BY <3>3, <3>4
    <2>5. NumberedInOrder'
      <3> SUFFICES ASSUME ~missed', \A m \in 1..n : lines[m] # "chained"
                   PROVE  /\ counter' = Cardinality(Captured')
                          /\ DOMAIN capture' = 0..(counter' - 1)
                          /\ \A m \in Captured' : capture'[Cardinality(CapturedBefore(m)')] = m
        BY <2>1 DEF NumberedInOrder
      <3>1. CASE Captured' = Captured /\ UNCHANGED <<counter, capture, missed>>
        <4>1. \A m : CapturedBefore(m)' = CapturedBefore(m)
          BY <3>1 DEF CapturedBefore
        <4>2. NumberedInOrder /\ ~missed /\ \A m \in 1..line : lines[m] # "chained"
          BY <2>1, <3>1 DEF EvidenceInv
        <4> QED BY <3>1, <4>1, <4>2 DEF NumberedInOrder
      <3>2. CASE Captured' = Captured \cup {n} /\ Capture(n)
        <4>1. counter' = counter + 1 /\ missed' = missed /\ counter \in Nat
              /\ capture' = [k \in (DOMAIN capture) \cup {counter} |-> IF k = counter THEN n ELSE capture[k]]
          BY <3>2 DEF Capture, EvidenceInv
        <4>2. /\ counter = Cardinality(Captured) /\ DOMAIN capture = 0..(counter - 1)
              /\ \A m \in Captured : capture[Cardinality(CapturedBefore(m))] = m
          <5>1. ~missed /\ \A m \in 1..line : lines[m] # "chained"
            BY <2>1, <4>1
          <5> QED BY <5>1 DEF EvidenceInv, NumberedInOrder
        <4>3. n \notin Captured
          BY <2>1, <2>3
        <4>4. Cardinality(Captured') = counter + 1
          BY <2>2, <3>2, <4>2, <4>3, FS_AddElement
        <4>5. DOMAIN capture' = 0..((counter + 1) - 1)
          BY <4>1, <4>2
        <4>6. \A m \in Captured : CapturedBefore(m)' = CapturedBefore(m)
          BY <2>1, <2>3, <3>2 DEF CapturedBefore
        <4>7. CapturedBefore(n)' = Captured
          BY <2>1, <2>3, <3>2 DEF CapturedBefore
        <4>8. \A m \in Captured : capture'[Cardinality(CapturedBefore(m))] = m
          BY <2>2, <4>1, <4>2
        <4>9. capture'[Cardinality(Captured)] = n
          BY <4>1, <4>2
        <4> QED BY <3>2, <4>1, <4>4, <4>5, <4>6, <4>7, <4>8, <4>9
      <3> QED BY <1>2, <2>0, <3>1, <3>2, LineIsCapturedOrNot
    <2>6. InOrder'
      <3>1. CASE Captured' = Captured /\ UNCHANGED <<counter, capture, missed>>
        BY <3>1 DEF EvidenceInv, InOrder
      <3>2. CASE Captured' = Captured \cup {n} /\ Capture(n)
        <4>1. /\ counter \in Nat /\ DOMAIN capture \subseteq 0..(counter - 1)
              /\ \A k \in DOMAIN capture : capture[k] \in Captured
              /\ \A j, k \in DOMAIN capture : j < k => capture[j] < capture[k]
          BY DEF EvidenceInv, InOrder
        <4>2. CASE counter' \in {counter, counter + 1} /\ UNCHANGED capture
          BY <3>2, <4>1, <4>2 DEF InOrder
        <4>3. CASE /\ counter' = counter + 1
                   /\ capture' = [k \in (DOMAIN capture) \cup {counter} |-> IF k = counter THEN n ELSE capture[k]]
          <5>1. \A k \in DOMAIN capture : k \in 0..(counter - 1) /\ capture'[k] = capture[k] /\ capture[k] \in 1..line
            BY <2>3, <4>1, <4>3
          <5>2. DOMAIN capture' = DOMAIN capture \cup {counter} /\ capture'[counter] = n
            BY <4>3
          <5>3. DOMAIN capture' \subseteq 0..(counter' - 1)
            BY <4>1, <4>3, <5>2
          <5>4. \A k \in DOMAIN capture' : capture'[k] \in Captured'
            BY <3>2, <4>1, <5>1, <5>2
          <5>5. ASSUME NEW j \in DOMAIN capture', NEW k \in DOMAIN capture', j < k
                PROVE  capture'[j] < capture'[k]
            BY <2>1, <4>1, <5>1, <5>2, <5>5
          <5> QED BY <5>3, <5>4, <5>5 DEF InOrder
        <4> QED BY <3>2, <4>2, <4>3 DEF Capture
      <3> QED BY <1>2, <2>0, <3>1, <3>2, LineIsCapturedOrNot
    <2> QED BY <2>1, <2>4, <2>5, <2>6 DEF EvidenceInv
  <1> QED BY <1>1, <1>2

\* The files up to one of an earlier line are all of capturable steps before
\* this one, which are as many as there are files before it: one too many.
LEMMA NoPictureIsEarly == EvidenceInv => NoEarlierPicture
PROOF
  <1> SUFFICES ASSUME EvidenceInv, NEW n \in ReportedLines, NEW k \in FileOf(n), ~(capture[k] >= n)
               PROVE  FALSE
    BY DEF NoEarlierPicture
  <1> DEFINE before == {j \in DOMAIN capture : j < k}
             upTo == before \cup {k}
             capturables == {m \in ReportedLines : m < n /\ Capturable(lines[m])}
  <1>1. /\ counter \in Nat /\ DOMAIN capture \subseteq 0..(counter - 1)
        /\ \A j \in DOMAIN capture : capture[j] \in Captured
        /\ \A i, j \in DOMAIN capture : i < j => capture[i] < capture[j]
    BY DEF EvidenceInv, InOrder
  <1>2. /\ Len(lines) \in Nat /\ line \in Nat /\ line <= Len(lines)
        /\ \A m \in 1..Len(lines) : lines[m] \in LineKind
    BY LenProperties, ElementOfSeq DEF EvidenceInv
  <1>3. k \in DOMAIN capture /\ Cardinality(before) = Cardinality(capturables)
    BY DEF FileOf, Cursor
  <1>4. n \in 1..Len(lines) /\ \A m \in Captured : m \in 1..Len(lines) /\ m \in ReportedLines /\ Capturable(lines[m])
    BY <1>2 DEF ReportedLines, Captured, Instrumented, Capturable
  <1>5. IsFiniteSet(capturables) /\ Cardinality(capturables) \in Nat
    <2>1. capturables \in SUBSET (1..Len(lines))
      BY DEF ReportedLines
    <2> HIDE DEF capturables
    <2> QED BY <1>2, <2>1, PositionsAreFinite
  <1>6. IsFiniteSet(before)
    <2>1. before \in SUBSET (0..(counter - 1))
      BY <1>1
    <2>2. IsFiniteSet(0..(counter - 1))
      BY <1>1, FS_Interval
    <2> HIDE DEF before
    <2> QED BY <2>1, <2>2, FS_Subset
  <1>7. Cardinality(upTo) = Cardinality(capturables) + 1
    <2>1. k \notin before
      BY <1>1, <1>3
    <2> HIDE DEF before, capturables
    <2> QED BY <1>3, <1>6, <2>1, FS_AddElement
  <1>8. \A j \in upTo : j \in DOMAIN capture /\ capture[j] \in capturables
    BY <1>1, <1>2, <1>3, <1>4
  <1>9. \A i, j \in upTo : capture[i] = capture[j] => i = j
    <2>1. \A i, j \in DOMAIN capture : capture[i] = capture[j] => i = j
      BY <1>1, <1>4
    <2> HIDE DEF upTo
    <2> QED BY <1>8, <2>1
  <1>10. [j \in upTo |-> capture[j]] \in Injection(upTo, capturables)
    <2> HIDE DEF upTo, capturables
    <2> QED BY <1>8, <1>9 DEF Injection, IsInjective
  <1>11. Cardinality(upTo) <= Cardinality(capturables)
    <2> HIDE DEF upTo, capturables
    <2> QED BY <1>5, <1>10, FS_Injection
  <1> QED
    <2> HIDE DEF upTo, capturables
    <2> QED BY <1>5, <1>7, <1>11

\* The capturable steps before a line that was captured are the captures before
\* it, and a line after them all is told of no file.
LEMMA FilesAreOfTheirLines == EvidenceInv => AlignedWhenAllCaptured
PROOF
  <1> SUFFICES ASSUME EvidenceInv, TestEnded, ~missed, \A n \in 1..line : lines[n] # "chained"
               PROVE  /\ GivenToItsStep
                      /\ \A n \in 1..line : lines[n] = "action" => n \in ReportedLines /\ FileOf(n) # {}
    BY DEF AlignedWhenAllCaptured
  <1> DEFINE Capturables(n) == {m \in ReportedLines : m < n /\ Capturable(lines[m])}
  <1>1. /\ counter = Cardinality(Captured) /\ counter \in Nat /\ DOMAIN capture = 0..(counter - 1)
        /\ \A n \in Captured : capture[Cardinality(CapturedBefore(n))] = n
    BY DEF EvidenceInv, NumberedInOrder
  <1>2. /\ IsFiniteSet(Captured)
        /\ \A n \in Captured : Cardinality(CapturedBefore(n)) \in 0..(counter - 1)
    BY <1>1, CapturedAreFinite
  <1>3. /\ Len(lines) \in Nat /\ line \in Nat /\ line <= Len(lines) /\ failed \in {0, line}
        /\ failed # 0 \/ line = Len(lines)
        /\ \A n \in 1..Len(lines) : lines[n] \in LineKind
    BY LenProperties, ElementOfSeq DEF EvidenceInv, TestEnded
  <1>4. \A k \in 0..(counter - 1) : Cardinality({j \in DOMAIN capture : j < k}) = k
    <2> SUFFICES ASSUME NEW k \in 0..(counter - 1)
                 PROVE  Cardinality({j \in DOMAIN capture : j < k}) = k
      OBVIOUS
    <2>1. {j \in DOMAIN capture : j < k} = 0..(k - 1)
      BY <1>1
    <2>2. Cardinality(0..(k - 1)) = k
      <3>1. 0 \in Int /\ k - 1 \in Int /\ (0 > k - 1 => k = 0) /\ (k - 1) - 0 + 1 = k
        BY <1>1
      <3> QED BY <3>1, FS_Interval
    <2> QED BY <2>1, <2>2
  <1>5. \A n \in Captured : /\ n \in ReportedLines /\ Capturable(lines[n])
                            /\ Capturables(n) = CapturedBefore(n)
    <2> SUFFICES ASSUME NEW n \in Captured
                 PROVE  n \in ReportedLines /\ Capturable(lines[n]) /\ Capturables(n) = CapturedBefore(n)
      OBVIOUS
    <2>1. n \in 1..line /\ Instrumented(lines[n])
      BY DEF Captured
    <2>2. \A m \in 1..line : Instrumented(lines[m]) <=> Capturable(lines[m])
      BY <1>3 DEF Instrumented, Capturable, LineKind
    <2>3. \A m \in 1..line : Instrumented(lines[m]) => m \in ReportedLines
      BY <1>3 DEF Instrumented, ReportedLines
    <2>4. \A m : m \in Capturables(n) => m \in CapturedBefore(n)
      BY <1>3, <2>1, <2>2 DEF CapturedBefore, Captured, ReportedLines
    <2>5. \A m : m \in CapturedBefore(n) => m \in Capturables(n)
      BY <2>2, <2>3 DEF CapturedBefore, Captured
    <2>6. Capturables(n) = CapturedBefore(n)
      <3> HIDE DEF Capturables
      <3> QED BY <2>4, <2>5
    <2> QED BY <2>1, <2>2, <2>3, <2>6
  <1>6. GivenToItsStep
    <2> SUFFICES ASSUME NEW n \in ReportedLines, NEW k \in FileOf(n)
                 PROVE  capture[k] = n
      BY DEF GivenToItsStep
    <2>1. k \in 0..(counter - 1) /\ Capturable(lines[n]) /\ k = Cardinality(Capturables(n))
      BY <1>1, <1>4 DEF FileOf, Cursor
    <2>2. CASE n \in Captured
      BY <1>1, <1>5, <2>1, <2>2
    <2>3. CASE n \notin Captured
      <3>1. n \in 1..Len(lines) /\ (n > line \/ (n = line /\ n = failed))
        <4>1. n \in 1..Len(lines)
          BY DEF ReportedLines
        <4>2. n <= line => n = failed
          BY <1>3, <2>1, <2>3, <4>1 DEF Captured, Instrumented, Capturable, LineKind
        <4> QED BY <1>3, <4>1, <4>2
      <3>2. \A m \in Captured : m \in 1..line /\ m < n
        BY <1>3, <2>3, <3>1 DEF Captured
      <3>3. Captured \in SUBSET Capturables(n)
        BY <1>5, <3>2
      <3>4. IsFiniteSet(Capturables(n))
        <4>1. Capturables(n) \in SUBSET (1..Len(lines))
          BY DEF ReportedLines
        <4> QED BY <1>3, <4>1, PositionsAreFinite
      <3>5. counter <= Cardinality(Capturables(n))
        <4> HIDE DEF Capturables
        <4> QED BY <1>1, <3>3, <3>4, FS_Subset
      <3> HIDE DEF Capturables
      <3> QED BY <1>1, <2>1, <3>5
    <2> QED BY <2>2, <2>3
  <1>7. ASSUME NEW n \in 1..line, lines[n] = "action"
        PROVE  n \in ReportedLines /\ FileOf(n) # {}
    <2>1. n \in Captured
      BY <1>7 DEF Captured, Instrumented
    <2>2. Cardinality(CapturedBefore(n)) \in FileOf(n)
      BY <1>1, <1>2, <1>4, <1>5, <2>1 DEF FileOf, Cursor
    <2> QED BY <1>5, <2>1, <2>2
  <1> QED BY <1>6, <1>7

-----------------------------------------------------------------------------
(* ScanFindings                                                              *)

FindingsInv == seen \in Seq(Observation) /\ IsFiniteSet(accepted)

\* The kept findings that are one problem.
Group(f) == {i \in Kept(seen) : Fingerprint(seen[i]) = f}

\* What correlation keeps is finite.
LEMMA KeptIsFinite ==
  ASSUME FindingsInv
  PROVE  /\ Len(seen) \in Nat /\ \A i \in 1..Len(seen) : seen[i] \in Observation
         /\ Kept(seen) \in SUBSET (1..Len(seen)) /\ IsFiniteSet(Kept(seen)) /\ Cardinality(Kept(seen)) \in Nat
         /\ IsFiniteSet(Identities(seen))
PROOF
  <1>1. Len(seen) \in Nat /\ \A i \in 1..Len(seen) : seen[i] \in Observation
    BY LenProperties, ElementOfSeq DEF FindingsInv
  <1>2. Kept(seen) \in SUBSET (1..Len(seen))
    BY DEF Kept
  <1>3. IsFiniteSet(Kept(seen)) /\ Cardinality(Kept(seen)) \in Nat
    BY <1>1, <1>2, PositionsAreFinite
  <1>4. IsFiniteSet(Identities(seen))
    <2> DEFINE f == [i \in Kept(seen) |-> Fingerprint(seen[i])]
    <2>1. f \in Surjection(Kept(seen), Identities(seen))
      BY DEF Identities, Surjection
    <2> HIDE DEF f
    <2> QED BY <1>3, <2>1, FS_Surjection
  <1> QED BY <1>1, <1>2, <1>3, <1>4

\* An issue is told by its fingerprint, and each identity has one.
LEMMA IssuesAreIdentities ==
  ASSUME FindingsInv
  PROVE  /\ \A i \in Issues(seen) : /\ <<i.kind, i.url>> \in Identities(seen)
                                    /\ i = [kind |-> i.kind, url |-> i.url, occurrences |-> Occurrences(seen, <<i.kind, i.url>>)]
         /\ \A f \in Identities(seen) : \E i \in Issues(seen) : <<i.kind, i.url>> = f
         /\ \A i, j \in Issues(seen) : <<i.kind, i.url>> = <<j.kind, j.url>> => i = j
PROOF
  <1>1. \A f \in Identities(seen) : f = <<f[1], f[2]>>
    BY DEF Identities, Fingerprint
  <1>2. \A f \in Identities(seen) : [kind |-> f[1], url |-> f[2], occurrences |-> Occurrences(seen, f)] \in Issues(seen)
    BY DEF Issues
  <1>3. \A i \in Issues(seen) : \E f \in Identities(seen) : i = [kind |-> f[1], url |-> f[2], occurrences |-> Occurrences(seen, f)]
    BY DEF Issues
  <1>4. \A i \in Issues(seen) : /\ <<i.kind, i.url>> \in Identities(seen)
                                /\ i = [kind |-> i.kind, url |-> i.url, occurrences |-> Occurrences(seen, <<i.kind, i.url>>)]
    BY <1>1, <1>3
  <1>5. \A f \in Identities(seen) : \E i \in Issues(seen) : <<i.kind, i.url>> = f
    BY <1>1, <1>2
  <1>6. \A i, j \in Issues(seen) : <<i.kind, i.url>> = <<j.kind, j.url>> => i = j
    BY <1>4
  <1> QED BY <1>4, <1>5, <1>6

\* Issues of some identities are as many as the identities.
LEMMA AsManyIssues ==
  ASSUME FindingsInv, NEW F \in SUBSET Identities(seen)
  PROVE  LET some == {i \in Issues(seen) : <<i.kind, i.url>> \in F}
         IN  IsFiniteSet(some) /\ Cardinality(some) = Cardinality(F) /\ Cardinality(some) \in Nat
PROOF
  <1> DEFINE some == {i \in Issues(seen) : <<i.kind, i.url>> \in F}
             f == [i \in some |-> <<i.kind, i.url>>]
  <1>1. IsFiniteSet(F) /\ Cardinality(F) \in Nat
    BY KeptIsFinite, FS_Subset, FS_CardinalityType
  <1>2. f \in [some -> F]
    OBVIOUS
  <1>3. \A i, j \in some : f[i] = f[j] => i = j
    BY IssuesAreIdentities
  <1>4. \A g \in F : \E i \in some : f[i] = g
    BY IssuesAreIdentities
  <1> HIDE DEF f, some
  <1>5. f \in Injection(some, F) /\ f \in Surjection(some, F)
    BY <1>2, <1>3, <1>4 DEF Injection, IsInjective, Surjection
  <1>6. IsFiniteSet(some) /\ Cardinality(some) = Cardinality(F)
    BY <1>1, <1>5, FS_Injection
  <1>7. IsFiniteSet(some) /\ Cardinality(some) = Cardinality(F) /\ Cardinality(some) \in Nat
    BY <1>1, <1>6
  <1> QED BY <1>7 DEF some

\* There are as many issues as identities, and finitely many.
LEMMA IssuesAreFinite ==
  ASSUME FindingsInv
  PROVE  /\ IsFiniteSet(Issues(seen)) /\ Cardinality(Issues(seen)) = Cardinality(Identities(seen))
         /\ Cardinality(Issues(seen)) \in Nat
PROOF
  <1> DEFINE some == {i \in Issues(seen) : <<i.kind, i.url>> \in Identities(seen)}
  <1>1. some = Issues(seen)
    BY IssuesAreIdentities
  <1>2. IsFiniteSet(some) /\ Cardinality(some) = Cardinality(Identities(seen)) /\ Cardinality(some) \in Nat
    BY AsManyIssues
  <1> QED BY <1>1, <1>2

\* What is dropped repeats a finding about the same address that is not.
LEMMA CorrelatingKeeps == FindingsInv => AddressKept
PROOF
  <1> SUFFICES ASSUME FindingsInv, NEW i \in 1..Len(seen)
               PROVE  \E j \in Issues(seen) : j.url = seen[i].url
    BY DEF AddressKept
  <1>1. \A k \in 1..Len(seen) : seen[k] \in Observation
    BY KeptIsFinite
  <1> DEFINE about(k) == k \in 1..Len(seen) /\ seen[k].url = seen[i].url
  <1>2. \A k : about(k) /\ seen[k].kind \in {"cors", "http", "warn"} => ~Dropped(seen, k)
    BY DEF Dropped, RepeatsTransport
  <1>3. \A k : about(k) /\ seen[k].kind = "network" /\ Dropped(seen, k) =>
          \E c \in 1..Len(seen) : about(c) /\ seen[c].kind = "cors"
    BY DEF Dropped, RepeatsTransport, SomeOther
  <1>4. Dropped(seen, i) => \E k \in 1..Len(seen) : about(k) /\ seen[k].kind \in {"cors", "http", "warn", "network"}
    <2>1. Dropped(seen, i) => \E k \in 1..Len(seen) : about(k) /\ (seen[k].kind = "cors" \/ Category(seen[k].kind) \in {"http", "network"})
      BY DEF Dropped, SomeOther
    <2>2. \A kind \in Kind : Category(kind) \in {"http", "network"} => kind \in {"http", "warn", "network"}
      BY DEF Kind, Category
    <2>3. \A k \in 1..Len(seen) : seen[k].kind \in Kind
      BY <1>1 DEF Observation
    <2> QED BY <2>1, <2>2, <2>3
  <1>5. \E k \in 1..Len(seen) : about(k) /\ ~Dropped(seen, k)
    <2>1. CASE ~Dropped(seen, i)
      BY <2>1
    <2>2. CASE Dropped(seen, i)
      <3>1. PICK k \in 1..Len(seen) : about(k) /\ seen[k].kind \in {"cors", "http", "warn", "network"}
        BY <1>4, <2>2
      <3> HIDE DEF about
      <3>2. CASE ~Dropped(seen, k)
        BY <3>1, <3>2
      <3>3. CASE Dropped(seen, k)
        <4>1. seen[k].kind = "network"
          BY <1>2, <3>1, <3>3
        <4>2. \E c \in 1..Len(seen) : about(c) /\ seen[c].kind = "cors"
          BY <1>3, <3>1, <3>3, <4>1
        <4> QED BY <1>2, <4>2
      <3> QED BY <3>2, <3>3
    <2> QED BY <2>1, <2>2
  <1>6. PICK k \in Kept(seen) : seen[k].url = seen[i].url
    BY <1>5 DEF Kept
  <1>7. Fingerprint(seen[k]) \in Identities(seen)
    BY DEF Identities
  <1>8. PICK j \in Issues(seen) : <<j.kind, j.url>> = Fingerprint(seen[k])
    BY <1>7, IssuesAreIdentities
  <1> QED BY <1>6, <1>8 DEF Fingerprint

\* An occurrence of an issue is a kept finding and the other way round: the n-th
\* of its group.
LEMMA OccurrencesAreKept ==
  ASSUME FindingsInv
  PROVE  Cardinality(UNION {{i} \X (1..i.occurrences) : i \in Issues(seen)}) = Cardinality(Kept(seen))
PROOF
  <1> DEFINE U == UNION {{i} \X (1..i.occurrences) : i \in Issues(seen)}
             of(i) == Group(<<i.kind, i.url>>)
             g == [u \in U |-> NthOf(of(u[1]), u[2])]
  <1>1. /\ Len(seen) \in Nat /\ IsFiniteSet(Kept(seen)) /\ Kept(seen) \in SUBSET (1..Len(seen))
        /\ \A f : Group(f) \in SUBSET (1..Len(seen)) /\ Group(f) \in SUBSET Kept(seen)
    BY KeptIsFinite DEF Group
  <1>2. \A i \in Issues(seen) : i.occurrences = Cardinality(of(i))
    <2>1. \A f : Occurrences(seen, f) = Cardinality(Group(f))
      BY DEF Occurrences, Group
    <2> SUFFICES ASSUME NEW i \in Issues(seen)
                 PROVE  i.occurrences = Cardinality(of(i))
      OBVIOUS
    <2>2. i = [kind |-> i.kind, url |-> i.url, occurrences |-> Occurrences(seen, <<i.kind, i.url>>)]
      BY IssuesAreIdentities
    <2>3. i.occurrences = Occurrences(seen, <<i.kind, i.url>>)
      BY <2>2
    <2> QED BY <2>1, <2>3
  <1>3. \A u \in U : u[1] \in Issues(seen) /\ u[2] \in 1..Cardinality(of(u[1])) /\ u = <<u[1], u[2]>>
    BY <1>2
  <1>4. \A i \in Issues(seen) : \A n \in 1..Cardinality(of(i)) : <<i, n>> \in U
    BY <1>2
  <1> HIDE DEF U
  <1>5. \A u \in U : g[u] \in of(u[1])
    BY <1>1, <1>3, NthIsOne
  <1>6. g \in [U -> Kept(seen)]
    BY <1>1, <1>5
  <1>7. ASSUME NEW u \in U, NEW w \in U, g[u] = g[w]
        PROVE  u = w
    <2>1. Fingerprint(seen[g[u]]) = <<u[1].kind, u[1].url>> /\ Fingerprint(seen[g[w]]) = <<w[1].kind, w[1].url>>
      BY <1>5 DEF Group
    <2>2. u[1] = w[1]
      BY <1>3, <1>7, <2>1, IssuesAreIdentities
    <2> DEFINE I == of(u[1])
    <2>3. I \in SUBSET (1..Len(seen)) /\ u[2] \in 1..Cardinality(I) /\ w[2] \in 1..Cardinality(I)
          /\ NthOf(I, u[2]) = NthOf(I, w[2]) /\ NthOf(I, u[2]) \in I
      BY <1>1, <1>3, <1>5, <1>7, <2>2
    <2> HIDE DEF I
    <2>6. u[2] = w[2]
      BY <1>1, <2>3, NthIsInjective
    <2> QED BY <1>3, <2>2, <2>6
  <1>8. ASSUME NEW k \in Kept(seen)
        PROVE  \E u \in U : g[u] = k
    <2>1. Fingerprint(seen[k]) \in Identities(seen)
      BY DEF Identities
    <2>2. PICK i \in Issues(seen) : <<i.kind, i.url>> = Fingerprint(seen[k])
      BY <2>1, IssuesAreIdentities
    <2>3. k \in of(i)
      BY <2>2 DEF Group
    <2>4. PICK n \in 1..Cardinality(of(i)) : NthOf(of(i), n) = k
      <3> HIDE DEF of
      <3>1. of(i) \in SUBSET (1..Len(seen))
        BY <1>1 DEF of
      <3> QED BY <1>1, <2>3, <3>1, EachIsNth
    <2>5. <<i, n>> \in U
      BY <1>4
    <2> QED BY <2>4, <2>5
  <1> HIDE DEF g, of
  <1>9. g \in Injection(U, Kept(seen)) /\ g \in Surjection(U, Kept(seen))
    BY <1>6, <1>7, <1>8 DEF Injection, IsInjective, Surjection
  <1>10. Cardinality(U) = Cardinality(Kept(seen))
    BY <1>1, <1>9, FS_Injection
  <1> QED BY <1>10 DEF U

\* New and existing issues are all of them; existing ones are those of the
\* baseline that are not resolved.
LEMMA ComparingAddsUp == FindingsInv => ComparisonAddsUp
PROOF
  <1> SUFFICES ASSUME FindingsInv
               PROVE  ComparisonAddsUp
    OBVIOUS
  <1> DEFINE issues == Issues(seen)
             F == Identities(seen)
             found == {<<i.kind, i.url>> : i \in issues}
  <1>1. /\ IsFiniteSet(F) /\ IsFiniteSet(accepted)
        /\ Cardinality(issues) = Cardinality(F) /\ Cardinality(issues) \in Nat
    BY KeptIsFinite, IssuesAreFinite DEF FindingsInv
  <1>2. found = F
    BY IssuesAreIdentities
  <1>3. Cardinality(NewIssues(issues, accepted)) = Cardinality(F \ accepted)
    <2> DEFINE G == F \ accepted
               some == {i \in issues : <<i.kind, i.url>> \in G}
    <2>1. NewIssues(issues, accepted) = some
      BY IssuesAreIdentities DEF NewIssues
    <2>2. Cardinality(some) = Cardinality(G)
      <3>1. G \in SUBSET Identities(seen)
        OBVIOUS
      <3> HIDE DEF G
      <3> QED BY <3>1, AsManyIssues
    <2> QED BY <2>1, <2>2
  <1>4. /\ Cardinality(F \ accepted) = Cardinality(F) - Cardinality(F \cap accepted)
        /\ Cardinality(accepted \ F) = Cardinality(accepted) - Cardinality(accepted \cap F)
        /\ F \cap accepted = accepted \cap F
    BY <1>1, FS_Difference
  <1>5. Cardinality(F) \in Nat /\ Cardinality(accepted) \in Nat /\ Cardinality(F \cap accepted) \in Nat
    BY <1>1, FS_CardinalityType, FS_Intersection
  <1>6. Compare(issues, accepted) = [new |-> Cardinality(F \ accepted),
                                     existing |-> Cardinality(F) - Cardinality(F \ accepted),
                                     resolved |-> Cardinality(accepted \ F)]
    BY <1>1, <1>2, <1>3 DEF Compare
  <1> HIDE DEF issues, F, found
  <1>7. /\ Compare(issues, accepted).new + Compare(issues, accepted).existing = Cardinality(issues)
        /\ Compare(issues, accepted).existing + Compare(issues, accepted).resolved = Cardinality(accepted)
    <2>1. /\ Compare(issues, accepted).new = Cardinality(F \ accepted)
          /\ Compare(issues, accepted).existing = Cardinality(F) - Cardinality(F \ accepted)
          /\ Compare(issues, accepted).resolved = Cardinality(accepted \ F)
      BY <1>6
    <2>2. Cardinality(accepted \cap F) = Cardinality(F \cap accepted)
      BY <1>4
    <2>3. /\ Cardinality(F \ accepted) = Cardinality(F) - Cardinality(F \cap accepted)
          /\ Cardinality(accepted \ F) = Cardinality(accepted) - Cardinality(F \cap accepted)
      BY <1>4, <2>2
    <2> QED BY <1>1, <1>5, <2>1, <2>3
  <1> QED BY <1>7 DEF ComparisonAddsUp, issues

\* What a finite set is listed as has each of its elements once.
LEMMA ListedOnce ==
  ASSUME NEW S, IsFiniteSet(S)
  PROVE  /\ SetToSeq(S) \in Seq(S) /\ Len(SetToSeq(S)) = Cardinality(S)
         /\ Cardinality(S) \in Nat /\ DOMAIN SetToSeq(S) = 1..Cardinality(S)
PROOF
  <1>1. Cardinality(S) \in Nat /\ ExistsBijection(1..Cardinality(S), S)
    BY FS_CardinalityType
  <1>2. \E f \in [1..Cardinality(S) -> S] : IsInjective(f)
    BY <1>1 DEF ExistsBijection, Bijection, Injection
  <1>3. SetToSeq(S) \in [1..Cardinality(S) -> S]
    BY <1>2 DEF SetToSeq
  <1>4. SetToSeq(S) \in Seq(S)
    BY <1>1, <1>3, SeqDef
  <1> QED BY <1>1, <1>3, <1>4, LenProperties

\* The issues in their order are all of them, the errors before the rest.
LEMMA ErrorsComeFirst ==
  ASSUME FindingsInv
  PROVE  /\ Len(Ordered(Issues(seen))) = Cardinality(Issues(seen))
         /\ \A a, b \in 1..Len(Ordered(Issues(seen))) :
              a < b /\ Severity(Ordered(Issues(seen))[b].kind) = "error" => Severity(Ordered(Issues(seen))[a].kind) = "error"
PROOF
  <1> DEFINE E == {i \in Issues(seen) : Severity(i.kind) = "error"}
             W == {i \in Issues(seen) : Severity(i.kind) # "error"}
             e == SetToSeq(E)
             w == SetToSeq(W)
             all == e \o w
  <1>1. IsFiniteSet(Issues(seen)) /\ IsFiniteSet(E) /\ IsFiniteSet(W)
    BY IssuesAreFinite, FS_Subset
  <1>2. Cardinality(E) + Cardinality(W) = Cardinality(Issues(seen))
    <2>1. W = Issues(seen) \ E /\ Issues(seen) \cap E = E
      OBVIOUS
    <2>2. Cardinality(Issues(seen) \ E) = Cardinality(Issues(seen)) - Cardinality(Issues(seen) \cap E)
      BY <1>1, FS_Difference
    <2>3. Cardinality(Issues(seen)) \in Nat /\ Cardinality(E) \in Nat
      BY <1>1, FS_CardinalityType
    <2> HIDE DEF E, W
    <2>4. Cardinality(W) = Cardinality(Issues(seen)) - Cardinality(E)
      BY <2>1, <2>2
    <2> QED BY <2>3, <2>4
  <1>3. \A i \in E : Severity(i.kind) = "error"
    OBVIOUS
  <1>4. \A i \in W : Severity(i.kind) # "error"
    OBVIOUS
  <1>5. Ordered(Issues(seen)) = all
    BY DEF Ordered
  <1> HIDE DEF E, W
  <1>6. /\ e \in Seq(E) /\ Len(e) = Cardinality(E) /\ Len(e) \in Nat
        /\ w \in Seq(W) /\ Len(w) = Cardinality(W) /\ Len(w) \in Nat
    BY <1>1, ListedOnce
  <1>7. \A a \in 1..Len(e) : e[a] \in E
    BY <1>6, ElementOfSeq
  <1>8. \A b \in 1..Len(w) : w[b] \in W
    BY <1>6, ElementOfSeq
  <1> HIDE DEF e, w
  <1>9. e \in Seq(E \cup W) /\ w \in Seq(E \cup W)
    BY <1>6
  <1>10. /\ Len(all) = Len(e) + Len(w)
         /\ \A a \in 1..(Len(e) + Len(w)) : all[a] = IF a <= Len(e) THEN e[a] ELSE w[a - Len(e)]
    BY <1>9, ConcatProperties
  <1>11. \A b \in 1..Len(all) : b > Len(e) => Severity(all[b].kind) # "error"
    <2> SUFFICES ASSUME NEW b \in 1..Len(all), b > Len(e)
                 PROVE  Severity(all[b].kind) # "error"
      OBVIOUS
    <2>1. all[b] = w[b - Len(e)] /\ b - Len(e) \in 1..Len(w)
      BY <1>6, <1>10
    <2> QED BY <1>4, <1>8, <2>1
  <1>12. \A a \in 1..Len(all) : a <= Len(e) => Severity(all[a].kind) = "error"
    <2> SUFFICES ASSUME NEW a \in 1..Len(all), a <= Len(e)
                 PROVE  Severity(all[a].kind) = "error"
      OBVIOUS
    <2>1. all[a] = e[a] /\ a \in 1..Len(e)
      BY <1>6, <1>10
    <2> QED BY <1>3, <1>7, <2>1
  <1>13. Len(all) = Cardinality(Issues(seen)) /\ Len(all) \in Nat
    BY <1>2, <1>6, <1>10
  <1> HIDE DEF all
  <1>14. \A a, b \in 1..Len(all) : a < b /\ Severity(all[b].kind) = "error" => Severity(all[a].kind) = "error"
    BY <1>6, <1>11, <1>12, <1>13
  <1> QED BY <1>5, <1>13, <1>14

\* What passing means for each threshold.
LEMMA PassesMeans ==
  ASSUME NEW s
  PROVE  /\ Passes(s, "warning") <=> s.errors + s.warnings = 0
         /\ Passes(s, "error") <=> s.errors = 0
PROOF
  BY DEF Passes

\* The counts of the gate are those of the regressions.
LEMMA GateCountsRegressions == FindingsInv => GateIsOfRegressions
PROOF
  <1> SUFFICES ASSUME FindingsInv, NEW failOn \in {"error", "warning"}
               PROVE  ~Passes(GateSummary(Issues(seen), accepted, TRUE), failOn) <=>
                        \E i \in Issues(seen) : /\ Fingerprint(i) \notin accepted
                                                /\ failOn = "warning" \/ Severity(i.kind) = "error"
    BY DEF GateIsOfRegressions
  <1> DEFINE N == NewIssues(Issues(seen), accepted)
             E == {i \in N : Severity(i.kind) = "error"}
             W == {i \in N : Severity(i.kind) = "warning"}
  <1>1. IsFiniteSet(N) /\ IsFiniteSet(E) /\ IsFiniteSet(W)
    BY IssuesAreFinite, FS_Subset DEF NewIssues
  <1>2. \A i : i \in N <=> i \in Issues(seen) /\ Fingerprint(i) \notin accepted
    BY DEF NewIssues, Fingerprint
  <1>3. \A i \in N : i \in E \/ i \in W
    BY DEF Severity
  <1>4. \A i : i \in E <=> i \in N /\ Severity(i.kind) = "error"
    OBVIOUS
  <1>5. \A i \in W : i \in N
    OBVIOUS
  <1>6. GateSummary(Issues(seen), accepted, TRUE) = Summary(N)
    BY DEF GateSummary
  <1>7. Summary(N).errors = Cardinality(E) /\ Summary(N).warnings = Cardinality(W)
    BY DEF Summary
  <1> HIDE DEF N, E, W
  <1>8. /\ Cardinality(E) \in Nat /\ Cardinality(W) \in Nat
        /\ (Cardinality(E) = 0 <=> E = {})
        /\ (Cardinality(W) = 0 <=> W = {})
    BY <1>1, FS_CardinalityType, FS_EmptySet
  <1>9. CASE failOn = "warning"
    <2>1. Passes(GateSummary(Issues(seen), accepted, TRUE), failOn) <=> (Cardinality(E) + Cardinality(W) = 0)
      BY <1>6, <1>7, <1>9, PassesMeans
    <2>2. (Cardinality(E) + Cardinality(W) = 0) <=> (E = {} /\ W = {})
      BY <1>8
    <2>3. (E = {} /\ W = {}) <=> ~\E i \in Issues(seen) : Fingerprint(i) \notin accepted
      BY <1>2, <1>3, <1>4, <1>5
    <2> QED BY <1>9, <2>1, <2>2, <2>3
  <1>10. CASE failOn = "error"
    <2>1. Passes(GateSummary(Issues(seen), accepted, TRUE), failOn) <=> (Cardinality(E) = 0)
      BY <1>6, <1>7, <1>10, PassesMeans
    <2>2. (E = {}) <=> ~\E i \in Issues(seen) : Fingerprint(i) \notin accepted /\ Severity(i.kind) = "error"
      BY <1>2, <1>4
    <2> QED BY <1>10, <1>8, <2>1, <2>2
  <1> QED BY <1>9, <1>10

\* Holds at first: that observations and accepted identities are finite.
LEMMA FindingsInvInit == FindingsInit => FindingsInv
PROOF
  BY FS_EmptySet DEF FindingsInit, FindingsInv

\* No step breaks that observations and accepted identities are finite.
LEMMA FindingsInvStep == FindingsInv /\ [NextScan]_findingsVars => FindingsInv'
PROOF
  <1> SUFFICES ASSUME FindingsInv, [NextScan]_findingsVars
               PROVE  FindingsInv'
    OBVIOUS
  <1>1. CASE UNCHANGED findingsVars
    BY <1>1 DEF findingsVars, FindingsInv
  <1>2. CASE NextScan
    <2>1. IsFiniteSet(accepted')
      BY <1>2, KeptIsFinite DEF NextScan, FindingsInv
    <2>2. seen' \in Seq(Observation)
      BY <1>2, ScanFindingsAssumption DEF NextScan, BoundedSeq, SeqOf
    <2> QED BY <2>1, <2>2 DEF FindingsInv
  <1> QED BY <1>1, <1>2

\* From finite observations the promises about findings follow.
LEMMA FindingsInvSound == FindingsInv => FindingsAreSound
PROOF
  BY CorrelatingKeeps, OccurrencesAreKept, ComparingAddsUp, ErrorsComeFirst, GateCountsRegressions
     DEF FindingsAreSound, CountsAddUp

-----------------------------------------------------------------------------
(* DashboardActivity                                                         *)

Underway(c) == c \in DashCall /\ dashCall[c] \in {"waiting", "working"}
Activities == {ActivityOf[c] : c \in DashCall}

\* Calls that arrived do so once, one after the other.
ArrivalInv ==
  /\ dashCall \in [DashCall -> {"unsent", "waiting", "working", "answered", "failed", "lost"}]
  /\ previous \in [DashCall -> DashCall \cup {NoLink}] /\ writesTail \in DashCall \cup {NoLink}
  /\ arrival \in Seq(DashCall)
  /\ \A i, j \in DOMAIN arrival : arrival[i] = arrival[j] => i = j
  /\ \A c \in DashCall : (\E i \in DOMAIN arrival : arrival[i] = c) <=> dashCall[c] # "unsent"

\* The links under way form one chain that ends at the tail; the body of a link
\* runs when no link before it is under way, and what was answered came first.
ChainInv ==
  /\ writesTail # NoLink => Underway(writesTail)
  /\ \A d \in DashCall : Underway(d) => Underway(writesTail) /\ (d = writesTail \/ Before(d, writesTail))
  /\ \A c, d \in DashCall : Underway(c) /\ Underway(d) /\ Before(d, c) =>
       Underway(previous[c]) /\ (d = previous[c] \/ Before(d, previous[c]))
  /\ \A c \in DashCall : dashCall[c] = "working" => ~Underway(previous[c]) /\ Appends(c)
  /\ \A c, d \in DashCall : dashCall[c] = "answered" /\ Underway(d) => Before(c, d)
  /\ \A c \in DashCall : previous[c] # NoLink => dashCall[previous[c]] # "unsent"

\* What is ahead of an answered activity in the file was posted after it.
ListedOrDisplaced(c) ==
  \/ \E p \in DOMAIN activityFile :
       activityFile[p] = ActivityOf[c] /\ \A q \in 1..(p - 1) : activityFile[q] \in Displacing(c)
  \/ Cardinality(Displacing(c)) >= ActivityLimit

ClearedLater(c) == \E d \in DashCall : Before(c, d) /\ ~Appends(d) /\ dashCall[d] = "answered"

FileInv ==
  /\ activityFile \in Seq(Activities) /\ newFile \in [DashCall -> Seq(Activities)]
  /\ \A p, q \in DOMAIN activityFile : activityFile[p] = activityFile[q] => p = q
  /\ \A c \in DashCall : dashCall[c] = "working" => newFile[c] = Added(Listing(c), c)
  /\ \A c \in DashCall : dashCall[c] = "answered" /\ Appends(c) => ClearedLater(c) \/ Overwriting(c) # {} \/ ListedOrDisplaced(c)
  /\ \A c \in DashCall : dashCall[c] = "answered" /\ ~Appends(c) =>
       \A p \in DOMAIN activityFile : \E d \in DashCall : Before(c, d) /\ ActivityOf[d] = activityFile[p]
  /\ told \in Seq(Activities)
  /\ \A p \in DOMAIN told : \E c \in DashCall : dashCall[c] = "answered" /\ ActivityOf[c] = told[p]

DashInv == ArrivalInv /\ ChainInv /\ FileInv

\* Calls that arrived are in one order.
LEMMA ArrivalOrders ==
  ASSUME ArrivalInv
  PROVE  /\ \A c, d : Before(c, d) => c \in DashCall /\ d \in DashCall /\ dashCall[c] # "unsent" /\ dashCall[d] # "unsent"
         /\ \A c, d : Before(c, d) => ~Before(d, c) /\ c # d
         /\ \A c, d, e : Before(c, d) /\ Before(d, e) => Before(c, e)
         /\ \A c, d \in DashCall : dashCall[c] # "unsent" /\ dashCall[d] # "unsent" => c = d \/ Before(c, d) \/ Before(d, c)
PROOF
  <1>1. /\ Len(arrival) \in Nat /\ DOMAIN arrival = 1..Len(arrival)
        /\ \A i \in 1..Len(arrival) : arrival[i] \in DashCall
    BY LenProperties, ElementOfSeq DEF ArrivalInv
  <1>2. \A i, j \in 1..Len(arrival) : arrival[i] = arrival[j] => i = j
    BY <1>1 DEF ArrivalInv
  <1>3. \A c \in DashCall : (\E i \in 1..Len(arrival) : arrival[i] = c) <=> dashCall[c] # "unsent"
    BY <1>1 DEF ArrivalInv
  <1>4. \A c, d : Before(c, d) => c \in DashCall /\ d \in DashCall /\ dashCall[c] # "unsent" /\ dashCall[d] # "unsent"
    BY <1>1, <1>3 DEF Before
  <1>5. \A c, d : Before(c, d) => ~Before(d, c) /\ c # d
    BY <1>1, <1>2 DEF Before
  <1>6. \A c, d, e : Before(c, d) /\ Before(d, e) => Before(c, e)
    BY <1>1, <1>2 DEF Before
  <1>7. \A c, d \in DashCall : dashCall[c] # "unsent" /\ dashCall[d] # "unsent" => c = d \/ Before(c, d) \/ Before(d, c)
    <2> SUFFICES ASSUME NEW c \in DashCall, NEW d \in DashCall, dashCall[c] # "unsent", dashCall[d] # "unsent"
                 PROVE  c = d \/ Before(c, d) \/ Before(d, c)
      OBVIOUS
    <2>1. PICK i \in 1..Len(arrival), j \in 1..Len(arrival) : arrival[i] = c /\ arrival[j] = d
      BY <1>3
    <2>2. i = j \/ i < j \/ j < i
      BY <1>1
    <2> QED BY <2>1, <2>2 DEF Before
  <1> QED BY <1>4, <1>5, <1>6, <1>7

\* The activities posted after a call are finitely many.
LEMMA DisplacingIsFinite ==
  ArrivalInv => \A c : IsFiniteSet(Displacing(c)) /\ Cardinality(Displacing(c)) \in Nat
PROOF
  <1> SUFFICES ASSUME ArrivalInv, NEW c
               PROVE  IsFiniteSet(Displacing(c)) /\ Cardinality(Displacing(c)) \in Nat
    OBVIOUS
  <1> DEFINE n == Len(arrival)
             f == [i \in 1..n |-> ActivityOf[arrival[i]]]
             T == {f[i] : i \in 1..n}
  <1>1. n \in Nat /\ DOMAIN arrival = 1..n
    BY LenProperties DEF ArrivalInv
  <1>2. f \in Surjection(1..n, T)
    BY DEF Surjection
  <1>3. IsFiniteSet(1..n)
    BY <1>1, PositionsAreFinite
  <1>4. IsFiniteSet(T)
    <2> HIDE DEF f, T
    <2> QED BY <1>2, <1>3, FS_Surjection
  <1>5. Displacing(c) \in SUBSET T
    <2>1. \A d : Before(c, d) => \E i \in 1..n : arrival[i] = d
      BY <1>1 DEF Before
    <2>2. \A i \in 1..n : ActivityOf[arrival[i]] \in T
      OBVIOUS
    <2> HIDE DEF T
    <2> QED BY <2>1, <2>2 DEF Displacing
  <1> HIDE DEF T
  <1> QED BY <1>4, <1>5, FS_Subset, FS_CardinalityType

\* The chain of writes and what they left in the file hold at first.
LEMMA DashInvInit == DashInit => DashInv
PROOF
  <1> SUFFICES ASSUME DashInit
               PROVE  DashInv
    OBVIOUS
  <1>1. \A S : <<>> \in Seq(S) /\ DOMAIN <<>> = {}
    OBVIOUS
  <1>2. ArrivalInv
    BY <1>1 DEF DashInit, ArrivalInv
  <1>3. ChainInv
    BY DEF DashInit, ChainInv, Underway
  <1>4. FileInv
    BY <1>1 DEF DashInit, FileInv
  <1> QED BY <1>2, <1>3, <1>4 DEF DashInv

\* A link whose previous one is settled is the only one under way that is not
\* behind another: nothing before it is under way.
LEMMA FirstUnderway ==
  ASSUME ArrivalInv, ChainInv, NEW x \in DashCall, Underway(x), ~Underway(previous[x])
  PROVE  \A d \in DashCall : Underway(d) => d = x \/ Before(x, d)
PROOF
  <1>1. \A d \in DashCall : Underway(d) => ~Before(d, x)
    BY DEF ChainInv
  <1>2. \A d \in DashCall : Underway(d) => dashCall[d] # "unsent"
    BY DEF Underway
  <1> QED BY <1>1, <1>2, ArrivalOrders

\* The calls that settle a link.
Settles(x) == RenameInPlace(x) \/ RemoveFile(x) \/ LinkRejects(x)

\* The call that settles has none before it in the chain under way.
LEMMA SettlesFirst ==
  ASSUME ArrivalInv, ChainInv, NEW x \in DashCall, Settles(x)
  PROVE  /\ Underway(x) /\ ~Underway(previous[x])
         /\ \E o \in {"answered", "failed"} : dashCall' = [dashCall EXCEPT ![x] = o]
         /\ writesTail' = (IF writesTail = x THEN NoLink ELSE writesTail)
         /\ UNCHANGED <<previous, arrival, newFile, blind, listening>>
PROOF
  <1>1. RenameInPlace(x) => dashCall[x] = "working" /\ SettleLink(x, "answered")
    BY DEF RenameInPlace
  <1>2. RemoveFile(x) => dashCall[x] = "waiting" /\ PreviousDone(x) /\ SettleLink(x, "answered")
    BY DEF RemoveFile
  <1>3. LinkRejects(x) => /\ dashCall[x] = "working" \/ (dashCall[x] = "waiting" /\ (PreviousDone(x) \/ previous[x] \in InState("failed")))
                          /\ SettleLink(x, "failed")
    BY DEF LinkRejects
  <1>4. PreviousDone(x) \/ previous[x] \in InState("failed") => ~Underway(previous[x])
    BY DashAssumption DEF PreviousDone, InState, Underway
  <1>5. dashCall[x] = "working" => ~Underway(previous[x])
    BY DEF ChainInv
  <1>6. Underway(x) /\ ~Underway(previous[x])
    BY <1>1, <1>2, <1>3, <1>4, <1>5 DEF Settles, Underway
  <1>7. \A o : SettleLink(x, o) => /\ dashCall' = [dashCall EXCEPT ![x] = o]
                                   /\ writesTail' = (IF writesTail = x THEN NoLink ELSE writesTail)
                                   /\ UNCHANGED <<previous, arrival, newFile, blind, listening>>
    BY DEF SettleLink, ForgetLink
  <1>8. SettleLink(x, "answered") \/ SettleLink(x, "failed")
    BY <1>1, <1>2, <1>3 DEF Settles
  <1> QED BY <1>6, <1>7, <1>8

\* The order of the calls that arrived stays, whatever arrives next.
LEMMA ArrivalStep ==
  ASSUME ArrivalInv, ChainInv, [DashNext]_dashVars
  PROVE  /\ ArrivalInv'
         /\ \A c, d : Before(c, d) => Before(c, d)'
         /\ \A c \in DashCall : dashCall[c] # "unsent" => dashCall'[c] # "unsent"
PROOF
  <1>1. ASSUME NEW c \in DashCall, QueueLink(c)
        PROVE  /\ ArrivalInv'
               /\ \A a, d : Before(a, d) => Before(a, d)'
               /\ \A d \in DashCall : dashCall[d] # "unsent" => dashCall'[d] # "unsent"
    <2>1. /\ dashCall[c] = "unsent" /\ dashCall' = [dashCall EXCEPT ![c] = "waiting"]
          /\ previous' = [previous EXCEPT ![c] = writesTail] /\ writesTail' = c
          /\ arrival' = Append(arrival, c)
      BY <1>1 DEF QueueLink
    <2>2. /\ Len(arrival) \in Nat /\ DOMAIN arrival = 1..Len(arrival)
          /\ \A i \in 1..Len(arrival) : arrival[i] \in DashCall
      BY LenProperties, ElementOfSeq DEF ArrivalInv
    <2>3. /\ arrival' \in Seq(DashCall) /\ DOMAIN arrival' = 1..(Len(arrival) + 1) /\ Len(arrival') = Len(arrival) + 1
          /\ arrival'[Len(arrival) + 1] = c /\ \A i \in 1..Len(arrival) : arrival'[i] = arrival[i]
      BY <2>1, <2>2, AppendProperties DEF ArrivalInv
    <2>4. \A i \in 1..Len(arrival) : arrival[i] # c
      BY <2>1, <2>2 DEF ArrivalInv
    <2>5. 1..(Len(arrival) + 1) = (1..Len(arrival)) \cup {Len(arrival) + 1} /\ Len(arrival) + 1 \notin 1..Len(arrival)
      BY <2>2
    <2>6. \A i, j \in DOMAIN arrival' : arrival'[i] = arrival'[j] => i = j
      BY <2>2, <2>3, <2>4, <2>5 DEF ArrivalInv
    <2>7. \A d \in DashCall : (\E i \in DOMAIN arrival' : arrival'[i] = d) <=> d = c \/ \E i \in DOMAIN arrival : arrival[i] = d
      BY <2>2, <2>3, <2>5
    <2>8. \A d \in DashCall : dashCall'[d] # "unsent" <=> d = c \/ dashCall[d] # "unsent"
      BY <2>1 DEF ArrivalInv
    <2>9. /\ dashCall' \in [DashCall -> {"unsent", "waiting", "working", "answered", "failed", "lost"}]
          /\ previous' \in [DashCall -> DashCall \cup {NoLink}] /\ writesTail' \in DashCall \cup {NoLink}
      BY <2>1 DEF ArrivalInv
    <2>10. ArrivalInv'
      BY <2>3, <2>6, <2>7, <2>8, <2>9 DEF ArrivalInv
    <2>11. \A a, d : Before(a, d) => Before(a, d)'
      BY <2>2, <2>3, <2>5 DEF Before
    <2> QED BY <2>8, <2>10, <2>11
  <1>2. ASSUME UNCHANGED <<previous, arrival>>, writesTail' \in {writesTail, NoLink},
               dashCall' \in [DashCall -> {"unsent", "waiting", "working", "answered", "failed", "lost"}],
               \A d \in DashCall : dashCall[d] # "unsent" <=> dashCall'[d] # "unsent"
        PROVE  /\ ArrivalInv'
               /\ \A a, d : Before(a, d) => Before(a, d)'
               /\ \A d \in DashCall : dashCall[d] # "unsent" => dashCall'[d] # "unsent"
    BY <1>2 DEF ArrivalInv, Before
  <1>3. ASSUME NEW c \in DashCall, WriteTemporary(c)
        PROVE  UNCHANGED <<previous, arrival, writesTail>> /\ dashCall' = [dashCall EXCEPT ![c] = "working"] /\ dashCall[c] = "waiting"
    BY <1>3 DEF WriteTemporary
  <1>4. CASE UNCHANGED dashVars \/ Subscribe \/ Unsubscribe
    BY <1>2, <1>4 DEF dashVars, Subscribe, Unsubscribe, ArrivalInv
  <1>5. CASE DashCrash
    <2>1. /\ dashCall' = [c \in DashCall |-> IF dashCall[c] \in {"waiting", "working"} THEN "lost" ELSE dashCall[c]]
          /\ writesTail' = NoLink /\ UNCHANGED <<previous, arrival>>
      BY <1>5 DEF DashCrash
    <2> QED BY <1>2, <2>1 DEF ArrivalInv
  <1>6. ASSUME NEW c \in DashCall, Settles(c)
        PROVE  /\ ArrivalInv'
               /\ \A a, d : Before(a, d) => Before(a, d)'
               /\ \A d \in DashCall : dashCall[d] # "unsent" => dashCall'[d] # "unsent"
    <2>1. PICK o \in {"answered", "failed"} : dashCall' = [dashCall EXCEPT ![c] = o]
      BY <1>6, SettlesFirst
    <2>2. dashCall[c] # "unsent" /\ UNCHANGED <<previous, arrival>> /\ writesTail' \in {writesTail, NoLink}
      BY <1>6, SettlesFirst DEF Underway
    <2> QED BY <1>2, <2>1, <2>2 DEF ArrivalInv
  <1>7. ASSUME NEW c \in DashCall, WriteTemporary(c)
        PROVE  /\ ArrivalInv'
               /\ \A a, d : Before(a, d) => Before(a, d)'
               /\ \A d \in DashCall : dashCall[d] # "unsent" => dashCall'[d] # "unsent"
    <2>1. UNCHANGED <<previous, arrival, writesTail>> /\ dashCall' = [dashCall EXCEPT ![c] = "working"] /\ dashCall[c] = "waiting"
      BY <1>3, <1>7
    <2> QED BY <1>2, <2>1 DEF ArrivalInv
  <1> QED BY <1>1, <1>4, <1>5, <1>6, <1>7 DEF DashNext, Settles

\* No step breaks that the writes of a session form one chain.
LEMMA ChainStep == ArrivalInv /\ ChainInv /\ [DashNext]_dashVars => ChainInv'
PROOF
  <1> SUFFICES ASSUME ArrivalInv, ChainInv, [DashNext]_dashVars
               PROVE  ChainInv'
    OBVIOUS
  <1>0. /\ dashCall \in [DashCall -> {"unsent", "waiting", "working", "answered", "failed", "lost"}]
        /\ previous \in [DashCall -> DashCall \cup {NoLink}]
    BY DEF ArrivalInv
  <1>1. ASSUME NEW x \in DashCall, QueueLink(x)
        PROVE  ChainInv'
    <2>1. /\ dashCall[x] = "unsent" /\ dashCall' = [dashCall EXCEPT ![x] = "waiting"]
          /\ previous' = [previous EXCEPT ![x] = writesTail] /\ writesTail' = x
          /\ arrival' = Append(arrival, x)
      BY <1>1 DEF QueueLink
    <2>2. \A d : Underway(d)' <=> d = x \/ Underway(d)
      BY <1>0, <2>1 DEF Underway
    <2>3. \A c, d : Before(c, d)' <=> Before(c, d) \/ (d = x /\ c \in DashCall /\ dashCall[c] # "unsent")
      <3>1. /\ Len(arrival) \in Nat /\ DOMAIN arrival = 1..Len(arrival) /\ arrival \in Seq(DashCall)
            /\ \A i \in 1..Len(arrival) : arrival[i] \in DashCall
        BY LenProperties, ElementOfSeq DEF ArrivalInv
      <3>2. /\ Len(arrival') = Len(arrival) + 1
            /\ arrival'[Len(arrival) + 1] = x /\ \A i \in 1..Len(arrival) : arrival'[i] = arrival[i]
        BY <2>1, <3>1, AppendProperties
      <3>3. \A c \in DashCall : (\E i \in 1..Len(arrival) : arrival[i] = c) <=> dashCall[c] # "unsent"
        BY <3>1 DEF ArrivalInv
      <3>4. \A c, d : Before(c, d)' => Before(c, d) \/ (d = x /\ c \in DashCall /\ dashCall[c] # "unsent")
        <4> SUFFICES ASSUME NEW c, NEW d, Before(c, d)'
                     PROVE  Before(c, d) \/ (d = x /\ c \in DashCall /\ dashCall[c] # "unsent")
          OBVIOUS
        <4>1. PICK i \in 1..(Len(arrival) + 1), j \in 1..(Len(arrival) + 1) : i < j /\ arrival'[i] = c /\ arrival'[j] = d
          BY <3>2 DEF Before
        <4>2. i \in 1..Len(arrival)
          BY <3>1, <4>1
        <4>3. CASE j = Len(arrival) + 1
          BY <3>1, <3>2, <3>3, <4>1, <4>2, <4>3
        <4>4. CASE j # Len(arrival) + 1
          <5>1. j \in 1..Len(arrival)
            BY <3>1, <4>4
          <5> QED BY <3>2, <4>1, <4>2, <5>1 DEF Before
        <4> QED BY <4>3, <4>4
      <3>5. \A c, d : d = x /\ c \in DashCall /\ dashCall[c] # "unsent" => Before(c, d)'
        <4> SUFFICES ASSUME NEW c \in DashCall, dashCall[c] # "unsent"
                     PROVE  Before(c, x)'
          OBVIOUS
        <4>1. PICK i \in 1..Len(arrival) : arrival[i] = c
          BY <3>3
        <4>2. i \in 1..Len(arrival') /\ Len(arrival) + 1 \in 1..Len(arrival') /\ i < Len(arrival) + 1
          BY <3>1, <3>2
        <4> QED BY <3>2, <4>1, <4>2 DEF Before
      <3>6. \A c, d : Before(c, d) => Before(c, d)'
        BY ArrivalStep
      <3> QED BY <3>4, <3>5, <3>6
    <2>4. \A d : Underway(d) => d \in DashCall /\ d # x /\ dashCall[d] # "unsent"
      BY <2>1 DEF Underway
    <2>5. \A c, d : Before(c, d) => c # x /\ d # x
      BY <2>1, ArrivalOrders
    <2>6. Underway(writesTail)' /\ writesTail' = x
      BY <2>1, <2>2
    <2>7. \A d \in DashCall : Underway(d)' => Underway(writesTail)' /\ (d = writesTail' \/ Before(d, writesTail)')
      BY <2>1, <2>2, <2>3, <2>4
    <2>8. \A c, d \in DashCall : Underway(c)' /\ Underway(d)' /\ Before(d, c)' =>
            Underway(previous[c])' /\ (d = previous'[c] \/ Before(d, previous[c])')
      <3> SUFFICES ASSUME NEW c \in DashCall, NEW d \in DashCall, Underway(c)', Underway(d)', Before(d, c)'
                   PROVE  Underway(previous[c])' /\ (d = previous'[c] \/ Before(d, previous[c])')
        OBVIOUS
      <3>1. CASE c = x
        <4>1. previous'[c] = writesTail /\ d # x /\ Underway(d)
          BY <1>0, <2>1, <2>2, <2>3, <2>5, <2>4, <3>1
        <4>2. Underway(writesTail) /\ (d = writesTail \/ Before(d, writesTail))
          BY <4>1 DEF ChainInv
        <4> QED BY <2>2, <2>3, <4>1, <4>2
      <3>2. CASE c # x
        <4>1. previous'[c] = previous[c] /\ Underway(c) /\ Before(d, c)
          BY <1>0, <2>1, <2>2, <2>3, <3>2
        <4>2. Underway(d)
          BY <2>2, <2>5, <4>1
        <4>3. Underway(previous[c]) /\ (d = previous[c] \/ Before(d, previous[c]))
          BY <4>1, <4>2 DEF ChainInv
        <4> QED BY <2>2, <2>3, <4>1, <4>3
      <3> QED BY <3>1, <3>2
    <2>9. \A c \in DashCall : dashCall'[c] = "working" => ~Underway(previous[c])' /\ Appends(c)
      <3> SUFFICES ASSUME NEW c \in DashCall, dashCall'[c] = "working"
                   PROVE  ~Underway(previous[c])' /\ Appends(c)
        OBVIOUS
      <3>1. c # x /\ dashCall[c] = "working" /\ previous'[c] = previous[c]
        BY <1>0, <2>1
      <3>2. ~Underway(previous[c]) /\ Appends(c)
        BY <3>1 DEF ChainInv
      <3>3. previous[c] # x
        BY <1>0, <2>1, DashAssumption DEF ChainInv
      <3> QED BY <2>2, <3>1, <3>2, <3>3
    <2>10. \A c, d \in DashCall : dashCall'[c] = "answered" /\ Underway(d)' => Before(c, d)'
      <3> SUFFICES ASSUME NEW c \in DashCall, NEW d \in DashCall, dashCall'[c] = "answered", Underway(d)'
                   PROVE  Before(c, d)'
        OBVIOUS
      <3>1. dashCall[c] = "answered"
        BY <1>0, <2>1
      <3>2. d = x \/ Underway(d)
        BY <2>2
      <3>3. Underway(d) => Before(c, d)
        BY <3>1 DEF ChainInv
      <3> QED BY <2>3, <3>1, <3>2, <3>3
    <2>11. \A c \in DashCall : previous'[c] # NoLink => dashCall'[previous'[c]] # "unsent"
      <3> SUFFICES ASSUME NEW c \in DashCall, previous'[c] # NoLink
                   PROVE  dashCall'[previous'[c]] # "unsent"
        OBVIOUS
      <3>1. writesTail # NoLink => writesTail \in DashCall /\ dashCall[writesTail] # "unsent"
        BY DEF ChainInv, Underway
      <3>2. \A d \in DashCall : dashCall[d] # "unsent" => dashCall'[d] # "unsent"
        BY ArrivalStep
      <3>3. CASE c = x
        BY <1>0, <2>1, <3>1, <3>2, <3>3
      <3>4. CASE c # x
        BY <1>0, <2>1, <3>2, <3>4 DEF ChainInv
      <3> QED BY <3>3, <3>4
    <2> QED BY <2>6, <2>7, <2>8, <2>9, <2>10, <2>11 DEF ChainInv
  <1>2. \A c \in DashCall : dashCall[c] # "unsent" => dashCall'[c] # "unsent"
    BY ArrivalStep
  <1>3. CASE UNCHANGED dashVars \/ Subscribe \/ Unsubscribe
    <2>1. UNCHANGED <<dashCall, previous, writesTail, arrival>>
      BY <1>3 DEF dashVars, Subscribe, Unsubscribe
    <2> QED BY <2>1 DEF ChainInv, Underway, Before
  <1>4. ASSUME NEW x \in DashCall, WriteTemporary(x)
        PROVE  ChainInv'
    <2>1. /\ dashCall[x] = "waiting" /\ Appends(x) /\ PreviousDone(x)
          /\ dashCall' = [dashCall EXCEPT ![x] = "working"] /\ UNCHANGED <<previous, writesTail, arrival>>
      BY <1>4 DEF WriteTemporary
    <2>2. \A d : Underway(d)' <=> Underway(d)
      BY <1>0, <2>1 DEF Underway
    <2>3. \A c, d : Before(c, d)' <=> Before(c, d)
      BY <2>1 DEF Before
    <2>4. ~Underway(previous[x])
      BY <2>1, DashAssumption DEF PreviousDone, InState, Underway
    <2>5. \A c \in DashCall : /\ dashCall'[c] = "working" => c = x \/ dashCall[c] = "working"
                              /\ dashCall'[c] = "answered" => dashCall[c] = "answered"
      BY <1>0, <2>1
    <2>6. \A c \in DashCall : previous[c] # NoLink => dashCall'[previous[c]] # "unsent"
      BY <1>0, <1>2 DEF ChainInv
    <2>7. \A c \in DashCall : dashCall'[c] = "working" => ~Underway(previous[c])' /\ Appends(c)
      BY <2>1, <2>2, <2>4, <2>5 DEF ChainInv
    <2> QED BY <2>1, <2>2, <2>3, <2>5, <2>6, <2>7 DEF ChainInv
  <1>5. ASSUME NEW x \in DashCall, Settles(x)
        PROVE  ChainInv'
    <2>1. /\ Underway(x) /\ ~Underway(previous[x])
          /\ writesTail' = (IF writesTail = x THEN NoLink ELSE writesTail)
          /\ UNCHANGED <<previous, arrival>>
      BY <1>5, SettlesFirst
    <2>2. PICK o \in {"answered", "failed"} : dashCall' = [dashCall EXCEPT ![x] = o]
      BY <1>5, SettlesFirst
    <2>3. \A d : Underway(d)' <=> Underway(d) /\ d # x
      BY <1>0, <2>2 DEF Underway
    <2>4. \A c, d : Before(c, d)' <=> Before(c, d)
      BY <2>1 DEF Before
    <2>5. \A d \in DashCall : Underway(d) => d = x \/ Before(x, d)
      BY <2>1, FirstUnderway
    <2>6. \A c, d : Before(c, d) => ~Before(d, c) /\ c # d
      BY ArrivalOrders
    <2>7. \A d \in DashCall : Underway(d)' => Underway(writesTail)' /\ (d = writesTail' \/ Before(d, writesTail)')
      <3> SUFFICES ASSUME NEW d \in DashCall, Underway(d)'
                   PROVE  Underway(writesTail)' /\ (d = writesTail' \/ Before(d, writesTail)')
        OBVIOUS
      <3>1. Underway(d) /\ d # x /\ Before(x, d)
        BY <2>3, <2>5
      <3>2. Underway(writesTail) /\ (d = writesTail \/ Before(d, writesTail))
        BY <3>1 DEF ChainInv
      <3>3. writesTail # x
        BY <2>6, <3>1, <3>2
      <3> QED BY <2>1, <2>3, <2>4, <3>2, <3>3
    <2>8. \A c, d \in DashCall : Underway(c)' /\ Underway(d)' /\ Before(d, c)' =>
            Underway(previous[c])' /\ (d = previous'[c] \/ Before(d, previous[c])')
      <3> SUFFICES ASSUME NEW c \in DashCall, NEW d \in DashCall, Underway(c)', Underway(d)', Before(d, c)'
                   PROVE  Underway(previous[c])' /\ (d = previous'[c] \/ Before(d, previous[c])')
        OBVIOUS
      <3>1. Underway(d) /\ d # x /\ Before(x, d) /\ Underway(c) /\ Before(d, c)
        BY <2>3, <2>4, <2>5
      <3>2. Underway(previous[c]) /\ (d = previous[c] \/ Before(d, previous[c]))
        BY <3>1 DEF ChainInv
      <3>3. previous[c] # x
        BY <2>6, <3>1, <3>2
      <3> QED BY <2>1, <2>3, <2>4, <3>2, <3>3
    <2>9. \A c, d \in DashCall : dashCall'[c] = "answered" /\ Underway(d)' => Before(c, d)'
      <3>1. \A c \in DashCall : dashCall'[c] = "answered" => c = x \/ dashCall[c] = "answered"
        BY <1>0, <2>2
      <3> QED BY <2>3, <2>4, <2>5, <3>1 DEF ChainInv
    <2>10. writesTail' # NoLink => Underway(writesTail)'
      <3>1. writesTail' # NoLink => writesTail' = writesTail /\ writesTail # x /\ writesTail # NoLink
        BY <2>1
      <3> QED BY <2>3, <3>1 DEF ChainInv
    <2>11. \A c \in DashCall : dashCall'[c] = "working" => ~Underway(previous[c])' /\ Appends(c)
      <3>1. \A c \in DashCall : dashCall'[c] = "working" => dashCall[c] = "working"
        BY <1>0, <2>2
      <3> QED BY <2>1, <2>3, <3>1 DEF ChainInv
    <2>12. \A c \in DashCall : previous'[c] # NoLink => dashCall'[previous'[c]] # "unsent"
      BY <1>0, <1>2, <2>1 DEF ChainInv
    <2> QED BY <2>7, <2>8, <2>9, <2>10, <2>11, <2>12 DEF ChainInv
  <1>6. CASE DashCrash
    <2>1. /\ dashCall' = [c \in DashCall |-> IF dashCall[c] \in {"waiting", "working"} THEN "lost" ELSE dashCall[c]]
          /\ writesTail' = NoLink /\ UNCHANGED <<previous, arrival>>
      BY <1>6 DEF DashCrash
    <2>2. \A d : ~Underway(d)'
      BY <1>0, <2>1 DEF Underway
    <2>3. \A c \in DashCall : dashCall'[c] # "working"
      BY <1>0, <2>1
    <2>4. \A c \in DashCall : previous'[c] # NoLink => dashCall'[previous'[c]] # "unsent"
      BY <1>0, <1>2, <2>1 DEF ChainInv
    <2> QED BY <2>1, <2>2, <2>3, <2>4 DEF ChainInv
  <1> QED BY <1>1, <1>3, <1>4, <1>5, <1>6 DEF DashNext, Settles

\* What an append writes: its activity first, then the others in their order,
\* as far as the limit goes.
LEMMA AddedProperties ==
  ASSUME NEW x \in DashCall, NEW list \in Seq(Activities),
         \A p, q \in DOMAIN list : list[p] = list[q] => p = q
  PROVE  /\ Added(list, x) \in Seq(Activities) /\ DOMAIN Added(list, x) = 1..Len(Added(list, x)) /\ Len(Added(list, x)) \in Nat
         /\ 1 \in DOMAIN Added(list, x) /\ Added(list, x)[1] = ActivityOf[x]
         /\ \A p, q \in DOMAIN Added(list, x) : Added(list, x)[p] = Added(list, x)[q] => p = q
         /\ \A k \in DOMAIN Added(list, x) : Added(list, x)[k] = ActivityOf[x] \/ \E i \in DOMAIN list : Added(list, x)[k] = list[i]
         /\ \A p \in DOMAIN list : list[p] # ActivityOf[x] =>
              \/ \E k \in DOMAIN Added(list, x) :
                   /\ Added(list, x)[k] = list[p]
                   /\ \A q \in 1..(k - 1) : Added(list, x)[q] = ActivityOf[x] \/ \E j \in 1..(p - 1) : Added(list, x)[q] = list[j]
              \/ /\ Len(Added(list, x)) = ActivityLimit
                 /\ \A q \in DOMAIN Added(list, x) : Added(list, x)[q] = ActivityOf[x] \/ \E j \in 1..(p - 1) : Added(list, x)[q] = list[j]
PROOF
  <1> DEFINE a == ActivityOf[x]
             I == {i \in DOMAIN list : list[i] # a}
             F == Others(list, a)
             S == <<a>> \o F
             A == Added(list, x)
             m == Len(list)
             n == Cardinality(I)
  <1>1. m \in Nat /\ DOMAIN list = 1..m /\ I \in SUBSET (1..m) /\ a \in Activities
    BY LenProperties DEF Activities
  <1>2. n \in Nat
    BY <1>1, PositionsAreFinite
  <1>3. F = Picked(list, I)
    BY DEF Others
  <1>4. /\ F \in Seq(Activities) /\ Len(F) = n /\ DOMAIN F = 1..n
        /\ \A k \in 1..n : NthOf(I, k) \in I /\ F[k] = list[NthOf(I, k)]
    <2> HIDE DEF I, a
    <2> QED BY <1>1, <1>3, PickedProperties
  <1>5. \A i \in I : \E k \in 1..n : NthOf(I, k) = i
    BY <1>1, EachIsNth
  <1>6. \A k, l \in 1..n : k < l => NthOf(I, k) < NthOf(I, l)
    BY <1>1, NthAscends
  <1>7. \A k, l \in 1..n : NthOf(I, k) = NthOf(I, l) => k = l
    BY <1>1, NthIsInjective
  <1>8. /\ S \in Seq(Activities) /\ Len(S) = n + 1 /\ S[1] = a
        /\ \A k \in 1..n : S[k + 1] = F[k]
    <2> HIDE DEF F, I
    <2>1. <<a>> \in Seq(Activities) /\ Len(<<a>>) = 1 /\ <<a>>[1] = a
      BY <1>1
    <2>2. /\ S \in Seq(Activities) /\ Len(S) = n + 1
          /\ \A i \in 1..(n + 1) : S[i] = IF i <= 1 THEN <<a>>[i] ELSE F[i - 1]
      BY <1>4, <2>1, ConcatProperties
    <2> HIDE DEF S
    <2>3. S[1] = a
      BY <1>2, <2>1, <2>2
    <2>4. ASSUME NEW k \in 1..n
          PROVE  S[k + 1] = F[k]
      <3>1. k + 1 \in 1..(n + 1) /\ ~(k + 1 <= 1) /\ (k + 1) - 1 = k
        BY <1>2
      <3> QED BY <2>2, <3>1
    <2> QED BY <2>2, <2>3, <2>4
  <1>9. /\ A \in Seq(Activities) /\ DOMAIN A = 1..Len(A) /\ Len(A) = (IF n + 1 < ActivityLimit THEN n + 1 ELSE ActivityLimit)
        /\ \A i \in 1..Len(A) : A[i] = S[i]
    <2>1. A = UpTo(S, ActivityLimit)
      BY DEF Added
    <2>2. ActivityLimit \in Nat
      BY DashAssumption
    <2> HIDE DEF S, A, F, I
    <2>3. /\ A \in Seq(Activities) /\ Len(A) = (IF Len(S) < ActivityLimit THEN Len(S) ELSE ActivityLimit)
          /\ DOMAIN A = 1..Len(A) /\ \A i \in 1..Len(A) : A[i] = S[i]
      BY <1>8, <2>1, <2>2, UpToProperties
    <2> QED BY <1>8, <2>3
  <1> HIDE DEF A, S, F
  <1>10. Len(A) \in Nat /\ 1 \in 1..Len(A) /\ Len(A) <= n + 1 /\ ActivityLimit \in Nat \ {0}
    BY <1>2, <1>9, DashAssumption
  <1>11. \A i \in 2..(n + 1) : i - 1 \in 1..n /\ S[i] = F[i - 1]
    <2> SUFFICES ASSUME NEW i \in 2..(n + 1)
                 PROVE  i - 1 \in 1..n /\ S[i] = F[i - 1]
      OBVIOUS
    <2>1. i - 1 \in 1..n /\ (i - 1) + 1 = i
      BY <1>2
    <2> QED BY <1>8, <2>1
  <1>12. \A i \in 1..Len(A) : i = 1 \/ i \in 2..(n + 1)
    BY <1>2, <1>10
  <1>13. \A k \in 1..n : F[k] # a
    <2> HIDE DEF a
    <2> QED BY <1>4
  <1>14. \A p, q \in 1..Len(A) : A[p] = A[q] => p = q
    <2> SUFFICES ASSUME NEW p \in 1..Len(A), NEW q \in 1..Len(A), A[p] = A[q]
                 PROVE  p = q
      OBVIOUS
    <2>1. S[p] = S[q]
      BY <1>9
    <2>2. CASE p = 1 \/ q = 1
      BY <1>8, <1>11, <1>12, <1>13, <2>1, <2>2
    <2>3. CASE p # 1 /\ q # 1
      <3>1. p - 1 \in 1..n /\ q - 1 \in 1..n /\ F[p - 1] = F[q - 1]
        BY <1>11, <1>12, <2>1, <2>3
      <3>2. NthOf(I, p - 1) = NthOf(I, q - 1)
        BY <1>1, <1>4, <3>1
      <3>3. p - 1 = q - 1
        BY <1>7, <3>1, <3>2
      <3> QED BY <1>10, <3>3
    <2> QED BY <2>2, <2>3
  <1>15. \A k \in 1..Len(A) : A[k] = a \/ \E i \in DOMAIN list : A[k] = list[i]
    <2> SUFFICES ASSUME NEW k \in 1..Len(A)
                 PROVE  A[k] = a \/ \E i \in DOMAIN list : A[k] = list[i]
      OBVIOUS
    <2>1. CASE k = 1
      BY <1>8, <1>9, <2>1
    <2>2. CASE k # 1
      <3>1. k - 1 \in 1..n /\ A[k] = F[k - 1]
        BY <1>9, <1>11, <1>12, <2>2
      <3>2. NthOf(I, k - 1) \in DOMAIN list /\ A[k] = list[NthOf(I, k - 1)]
        BY <1>1, <1>4, <3>1
      <3> QED BY <3>2
    <2> QED BY <2>1, <2>2
  <1>16. ASSUME NEW p \in DOMAIN list, list[p] # a
         PROVE  \/ \E k \in 1..Len(A) :
                     /\ A[k] = list[p]
                     /\ \A q \in 1..(k - 1) : A[q] = a \/ \E j \in 1..(p - 1) : A[q] = list[j]
                \/ /\ Len(A) = ActivityLimit
                   /\ \A q \in 1..Len(A) : A[q] = a \/ \E j \in 1..(p - 1) : A[q] = list[j]
    <2>1. PICK k \in 1..n : NthOf(I, k) = p
      BY <1>5, <1>16
    <2>2. \A l \in 1..n : l < k => NthOf(I, l) \in 1..(p - 1)
      BY <1>1, <1>4, <1>6, <2>1
    <2>3. ASSUME NEW q \in 1..Len(A), q < k + 1
          PROVE  A[q] = a \/ \E j \in 1..(p - 1) : A[q] = list[j]
      <3>1. CASE q = 1
        BY <1>8, <1>9, <3>1
      <3>2. CASE q # 1
        <4>1. q - 1 \in 1..n /\ A[q] = F[q - 1]
          BY <1>9, <1>11, <1>12, <3>2
        <4>2. q - 1 < k
          BY <1>10, <2>3
        <4> QED BY <1>4, <2>2, <4>1, <4>2
      <3> QED BY <3>1, <3>2
    <2>4. CASE k + 1 <= Len(A)
      <3>1. k + 1 \in 1..Len(A)
        BY <1>10, <2>4
      <3>2. A[k + 1] = list[p]
        BY <1>4, <1>8, <1>9, <2>1, <3>1
      <3>3. \A q \in 1..((k + 1) - 1) : q \in 1..Len(A) /\ q < k + 1
        BY <1>10, <2>4
      <3> QED BY <2>3, <3>1, <3>2, <3>3
    <2>5. CASE ~(k + 1 <= Len(A))
      <3>1. Len(A) = ActivityLimit
        BY <1>2, <1>9, <1>10, <2>5
      <3>2. \A q \in 1..Len(A) : q < k + 1
        BY <1>10, <2>5
      <3> QED BY <2>3, <3>1, <3>2
    <2> QED BY <2>4, <2>5
  <1>17. A[1] = a
    BY <1>8, <1>9, <1>10
  <1>18. \A p \in DOMAIN list : list[p] # a =>
           \/ \E k \in 1..Len(A) :
                /\ A[k] = list[p]
                /\ \A q \in 1..(k - 1) : A[q] = a \/ \E j \in 1..(p - 1) : A[q] = list[j]
           \/ /\ Len(A) = ActivityLimit
              /\ \A q \in 1..Len(A) : A[q] = a \/ \E j \in 1..(p - 1) : A[q] = list[j]
    BY <1>16
  <1>19. A = Added(list, x) /\ a = ActivityOf[x] /\ DOMAIN A = 1..Len(A)
    BY <1>9 DEF A
  <1> HIDE DEF a
  <1>20. /\ A \in Seq(Activities) /\ DOMAIN A = 1..Len(A) /\ Len(A) \in Nat /\ 1 \in DOMAIN A /\ A[1] = a
         /\ \A p, q \in DOMAIN A : A[p] = A[q] => p = q
         /\ \A k \in DOMAIN A : A[k] = a \/ \E i \in DOMAIN list : A[k] = list[i]
    BY <1>9, <1>10, <1>14, <1>15, <1>17
  <1>21. \A p \in DOMAIN list : list[p] # a =>
           \/ \E k \in DOMAIN A :
                /\ A[k] = list[p]
                /\ \A q \in 1..(k - 1) : A[q] = a \/ \E j \in 1..(p - 1) : A[q] = list[j]
           \/ /\ Len(A) = ActivityLimit
              /\ \A q \in DOMAIN A : A[q] = a \/ \E j \in 1..(p - 1) : A[q] = list[j]
    BY <1>18, <1>19
  <1> QED BY <1>19, <1>20, <1>21

\* The order of the calls, what was answered and what came after a call only grow.
LEMMA DashGrows ==
  ASSUME DashInv, [DashNext]_dashVars
  PROVE  /\ \A c, d : Before(c, d) => Before(c, d)'
         /\ \A c \in DashCall : dashCall[c] = "answered" => dashCall'[c] = "answered"
         /\ \A c : Displacing(c) \subseteq Displacing(c)'
         /\ \A c \in DashCall : ClearedLater(c) => ClearedLater(c)'
         /\ \A c \in DashCall : Overwriting(c) # {} => Overwriting(c)' # {}
         /\ \A c \in DashCall : Cardinality(Displacing(c)) >= ActivityLimit => Cardinality(Displacing(c)') >= ActivityLimit
PROOF
  <1>0. blind \subseteq blind'
    <2>1. \A x \in DashCall : Settles(x) => blind' = blind
      BY SettlesFirst DEF DashInv
    <2> QED BY <2>1 DEF DashNext, dashVars, QueueLink, WriteTemporary, Settles, Subscribe, Unsubscribe, DashCrash
  <1>1. /\ ArrivalInv' /\ \A c, d : Before(c, d) => Before(c, d)'
        /\ \A c \in DashCall : dashCall[c] # "unsent" => dashCall'[c] # "unsent"
    BY ArrivalStep DEF DashInv
  <1>2. \A c \in DashCall : dashCall[c] = "answered" => dashCall'[c] = "answered"
    <2> SUFFICES ASSUME NEW c \in DashCall, dashCall[c] = "answered"
                 PROVE  dashCall'[c] = "answered"
      OBVIOUS
    <2>0. dashCall \in [DashCall -> {"unsent", "waiting", "working", "answered", "failed", "lost"}]
      BY DEF DashInv, ArrivalInv
    <2>1. CASE UNCHANGED dashVars \/ Subscribe \/ Unsubscribe
      BY <2>1 DEF dashVars, Subscribe, Unsubscribe
    <2>2. ASSUME NEW x \in DashCall, QueueLink(x) \/ WriteTemporary(x)
          PROVE  dashCall'[c] = "answered"
      BY <2>0, <2>2 DEF QueueLink, WriteTemporary
    <2>3. ASSUME NEW x \in DashCall, Settles(x)
          PROVE  dashCall'[c] = "answered"
      <3>1. Underway(x)
        BY <2>3, SettlesFirst DEF DashInv
      <3>2. PICK o \in {"answered", "failed"} : dashCall' = [dashCall EXCEPT ![x] = o]
        BY <2>3, SettlesFirst DEF DashInv
      <3> QED BY <2>0, <3>1, <3>2 DEF Underway
    <2>4. CASE DashCrash
      BY <2>4 DEF DashCrash
    <2> QED BY <2>1, <2>2, <2>3, <2>4 DEF DashNext, Settles
  <1>3. \A c : Displacing(c) \subseteq Displacing(c)'
    BY <1>1 DEF Displacing
  <1>4. \A c \in DashCall : ClearedLater(c) => ClearedLater(c)'
    BY <1>1, <1>2 DEF ClearedLater
  <1>4a. \A c \in DashCall : Overwriting(c) # {} => Overwriting(c)' # {}
    <2>1. \A c, d : Before(c, d) => d \in DashCall
      BY ArrivalOrders DEF DashInv
    <2> QED BY <1>0, <1>1, <1>2, <2>1 DEF Overwriting
  <1>5a. (\A c : IsFiniteSet(Displacing(c)) /\ Cardinality(Displacing(c)) \in Nat)'
    BY <1>1, DisplacingIsFinite, PTL
  <1>5. ASSUME NEW c \in DashCall, Cardinality(Displacing(c)) >= ActivityLimit
        PROVE  Cardinality(Displacing(c)') >= ActivityLimit
    <2>2. IsFiniteSet(Displacing(c)') /\ Cardinality(Displacing(c)') \in Nat
      BY <1>5a
    <2>3. Cardinality(Displacing(c)) \in Nat
      BY DisplacingIsFinite DEF DashInv
    <2>4. Cardinality(Displacing(c)) <= Cardinality(Displacing(c)')
      BY <1>3, <2>2, FS_Subset
    <2> QED BY <1>5, <2>2, <2>3, <2>4, DashAssumption
  <1> QED BY <1>1, <1>2, <1>3, <1>4, <1>4a, <1>5

\* A step that leaves the file leaves what it says of the answers.
LEMMA FileStays ==
  ASSUME DashInv, [DashNext]_dashVars, UNCHANGED <<activityFile, told>>,
         newFile' \in [DashCall -> Seq(Activities)],
         \A c \in DashCall : dashCall'[c] = "answered" => dashCall[c] = "answered",
         \A c \in DashCall : dashCall'[c] = "working" => newFile'[c] = Added(Listing(c)', c)
  PROVE  FileInv'
PROOF
  <1>1. /\ \A c, d : Before(c, d) => Before(c, d)'
        /\ \A c \in DashCall : dashCall[c] = "answered" => dashCall'[c] = "answered"
        /\ \A c : Displacing(c) \subseteq Displacing(c)'
        /\ \A c \in DashCall : ClearedLater(c) => ClearedLater(c)'
        /\ \A c \in DashCall : Overwriting(c) # {} => Overwriting(c)' # {}
        /\ \A c \in DashCall : Cardinality(Displacing(c)) >= ActivityLimit => Cardinality(Displacing(c)') >= ActivityLimit
    BY DashGrows
  <1>2. \A c \in DashCall : Added(Listing(c), c)' = Added(Listing(c)', c)
    BY DEF Added, Others
  <1>3. \A c \in DashCall : ListedOrDisplaced(c) => ListedOrDisplaced(c)'
    BY <1>1 DEF ListedOrDisplaced
  <1>4. Activities' = Activities
    BY DEF Activities
  <1>5. /\ activityFile' \in Seq(Activities')
        /\ newFile' \in [DashCall -> Seq(Activities')]
        /\ \A p, q \in DOMAIN activityFile' : activityFile'[p] = activityFile'[q] => p = q
        /\ told' \in Seq(Activities')
    BY <1>4 DEF DashInv, FileInv
  <1>6. \A c \in DashCall : dashCall'[c] = "answered" /\ Appends(c) => ClearedLater(c)' \/ Overwriting(c)' # {} \/ ListedOrDisplaced(c)'
    BY <1>1, <1>3 DEF DashInv, FileInv
  <1>7. \A c \in DashCall : dashCall'[c] = "answered" /\ ~Appends(c) =>
          \A p \in DOMAIN activityFile' : \E d \in DashCall : Before(c, d)' /\ ActivityOf[d] = activityFile'[p]
    BY <1>1 DEF DashInv, FileInv
  <1>8. \A p \in DOMAIN told' : \E c \in DashCall : dashCall'[c] = "answered" /\ ActivityOf[c] = told'[p]
    BY <1>1 DEF DashInv, FileInv
  <1>9. \A c \in DashCall : dashCall'[c] = "working" => newFile'[c] = Added(Listing(c), c)'
    BY <1>2
  <1>10. \A c \in DashCall : Appends(c)' = Appends(c)
    BY DEF Appends
  <1> QED BY <1>5, <1>6, <1>7, <1>8, <1>9, <1>10 DEF FileInv

\* An append lands: what was answered is further down, or pushed out by what
\* came after it.
LEMMA AppendLands ==
  ASSUME DashInv, [DashNext]_dashVars, NEW x \in DashCall, RenameInPlace(x)
  PROVE  FileInv'
PROOF
  <1>0. ArrivalInv /\ ChainInv /\ FileInv /\ ActivityLimit \in Nat \ {0}
    BY DashAssumption DEF DashInv
  <1>1. /\ dashCall[x] = "working" /\ activityFile' = newFile[x]
        /\ told' = (IF listening THEN Append(told, ActivityOf[x]) ELSE told)
        /\ dashCall' = [dashCall EXCEPT ![x] = "answered"] /\ UNCHANGED <<arrival, newFile, blind>>
    BY DEF RenameInPlace, SettleLink
  <1>2. Underway(x) /\ ~Underway(previous[x]) /\ Appends(x) /\ newFile[x] = Added(Listing(x), x)
    BY <1>0, <1>1 DEF ChainInv, FileInv, Underway
  <1>3. /\ \A c, d : Before(c, d) => Before(c, d)'
        /\ \A c \in DashCall : dashCall[c] = "answered" => dashCall'[c] = "answered"
        /\ \A c : Displacing(c) \subseteq Displacing(c)'
        /\ \A c \in DashCall : ClearedLater(c) => ClearedLater(c)'
        /\ \A c \in DashCall : Overwriting(c) # {} => Overwriting(c)' # {}
        /\ \A c \in DashCall : Cardinality(Displacing(c)) >= ActivityLimit => Cardinality(Displacing(c)') >= ActivityLimit
    BY DashGrows
  <1>4. dashCall \in [DashCall -> {"unsent", "waiting", "working", "answered", "failed", "lost"}]
    BY <1>0 DEF ArrivalInv
  <1>5. \A c \in DashCall : dashCall'[c] = "answered" => c = x \/ (dashCall[c] = "answered" /\ Before(c, x))
    BY <1>0, <1>1, <1>2, <1>4 DEF ChainInv
  <1>6. \A c \in DashCall : dashCall'[c] # "working"
    <2> SUFFICES ASSUME NEW c \in DashCall, dashCall'[c] = "working"
                 PROVE  FALSE
      OBVIOUS
    <2>1. c # x /\ dashCall[c] = "working"
      BY <1>1, <1>4
    <2>2. Underway(c) /\ ~Underway(previous[c])
      BY <1>0, <2>1 DEF ChainInv, Underway
    <2>3. Before(c, x) /\ Before(x, c)
      BY <1>0, <1>2, <2>1, <2>2, FirstUnderway
    <2> QED BY <1>0, <2>3, ArrivalOrders
  <1> DEFINE L == Listing(x)
             A == Added(L, x)
             a == ActivityOf[x]
  <1>7. activityFile' = A
    BY <1>1, <1>2
  <1>7a. L = (IF x \in blind THEN <<>> ELSE activityFile) /\ DOMAIN <<>> = {}
    BY DEF Listing
  <1>7b. L \in Seq(Activities) /\ (\A p, q \in DOMAIN L : L[p] = L[q] => p = q) /\ (\A i \in DOMAIN L : i \in DOMAIN activityFile /\ L[i] = activityFile[i])
    BY <1>0, <1>7a DEF FileInv
  <1> HIDE DEF L
  <1>8. /\ A \in Seq(Activities) /\ DOMAIN A = 1..Len(A) /\ Len(A) \in Nat /\ 1 \in DOMAIN A /\ A[1] = a
        /\ \A p, q \in DOMAIN A : A[p] = A[q] => p = q
        /\ \A k \in DOMAIN A : A[k] = a \/ \E i \in DOMAIN L : A[k] = L[i]
        /\ \A p \in DOMAIN L : L[p] # a =>
             \/ \E k \in DOMAIN A :
                  /\ A[k] = L[p]
                  /\ \A q \in 1..(k - 1) : A[q] = a \/ \E j \in 1..(p - 1) : A[q] = L[j]
             \/ /\ Len(A) = ActivityLimit
                /\ \A q \in DOMAIN A : A[q] = a \/ \E j \in 1..(p - 1) : A[q] = L[j]
    BY <1>7b, AddedProperties
  <1>9. Activities' = Activities /\ a \in Activities
    BY DEF Activities
  <1>10. \A c \in DashCall : Before(c, x) /\ a # ActivityOf[c] => a \in Displacing(c)'
    <2> SUFFICES ASSUME NEW c \in DashCall, Before(c, x), a # ActivityOf[c]
                 PROVE  a \in Displacing(c)'
      OBVIOUS
    <2>1. a \in Displacing(c)
      BY <1>1, <1>2 DEF Displacing
    <2> QED BY <1>3, <2>1
  <1>11. (\A c : IsFiniteSet(Displacing(c)) /\ Cardinality(Displacing(c)) \in Nat)'
    <2>1. ArrivalInv'
      BY <1>0, ArrivalStep
    <2> QED BY <2>1, DisplacingIsFinite, PTL
  <1> HIDE DEF A, a
  <1>12. ASSUME NEW c \in DashCall, dashCall'[c] = "answered", Appends(c)
         PROVE  ClearedLater(c)' \/ Overwriting(c)' # {} \/ ListedOrDisplaced(c)'
    <2>1. CASE ActivityOf[c] = a
      <3>1. 1 \in DOMAIN activityFile' /\ activityFile'[1] = ActivityOf[c] /\ \A q \in 1..(1 - 1) : FALSE
        BY <1>7, <1>8, <2>1
      <3> QED BY <3>1 DEF ListedOrDisplaced
    <2>2. CASE ActivityOf[c] # a
      <3>1. dashCall[c] = "answered" /\ Before(c, x)
        BY <1>5, <1>12, <2>2 DEF a
      <3>2. ClearedLater(c) \/ Overwriting(c) # {} \/ ListedOrDisplaced(c)
        BY <1>0, <1>12, <3>1 DEF FileInv
      <3>3. CASE ClearedLater(c) \/ Overwriting(c) # {}
        BY <1>3, <3>3
      <3>6. CASE x \in blind
        <4>1. x \in blind' /\ Before(c, x)' /\ dashCall'[x] = "answered"
          BY <1>1, <1>3, <1>4, <3>1, <3>6
        <4> QED BY <4>1 DEF Overwriting
      <3>4. CASE Cardinality(Displacing(c)) >= ActivityLimit
        BY <1>3, <3>4 DEF ListedOrDisplaced
      <3>5. CASE x \notin blind /\ \E p \in DOMAIN activityFile :
                   activityFile[p] = ActivityOf[c] /\ \A q \in 1..(p - 1) : activityFile[q] \in Displacing(c)
        <4>0. L = activityFile
          BY <1>7a, <3>5
        <4>1. PICK p \in DOMAIN L : L[p] = ActivityOf[c] /\ \A q \in 1..(p - 1) : L[q] \in Displacing(c)
          BY <3>5, <4>0
        <4>2. a \in Displacing(c)'
          BY <1>10, <2>2, <3>1
        <4>3. \A e : e = a \/ (\E j \in 1..(p - 1) : e = L[j]) => e \in Displacing(c)'
          BY <1>3, <4>1, <4>2
        <4>4. CASE \E k \in DOMAIN A :
                     /\ A[k] = L[p]
                     /\ \A q \in 1..(k - 1) : A[q] = a \/ \E j \in 1..(p - 1) : A[q] = L[j]
          <5>1. PICK k \in DOMAIN A : A[k] = ActivityOf[c] /\ \A q \in 1..(k - 1) : A[q] \in Displacing(c)'
            BY <4>1, <4>3, <4>4
          <5> QED BY <1>7, <5>1 DEF ListedOrDisplaced
        <4>5. CASE /\ Len(A) = ActivityLimit
                   /\ \A q \in DOMAIN A : A[q] = a \/ \E j \in 1..(p - 1) : A[q] = L[j]
          <5> DEFINE D == Displacing(c)'
                     f == [q \in 1..ActivityLimit |-> A[q]]
          <5>1. f \in Injection(1..ActivityLimit, D)
            <6>1. \A q \in 1..ActivityLimit : A[q] \in D
              BY <1>8, <4>3, <4>5
            <6>2. \A p1, q1 \in 1..ActivityLimit : A[p1] = A[q1] => p1 = q1
              BY <1>8, <4>5
            <6> HIDE DEF D
            <6> QED BY <6>1, <6>2 DEF Injection, IsInjective
          <5>2. IsFiniteSet(D) /\ Cardinality(D) \in Nat
            BY <1>11
          <5> HIDE DEF D, f
          <5>3. Cardinality(1..ActivityLimit) <= Cardinality(D)
            BY <5>1, <5>2, FS_Injection
          <5>4. Cardinality(1..ActivityLimit) = ActivityLimit
            BY <1>0, FS_Interval
          <5>5. Cardinality(D) >= ActivityLimit
            BY <1>0, <5>2, <5>3, <5>4
          <5> QED BY <5>5 DEF D, ListedOrDisplaced
        <4> QED BY <1>8, <2>2, <4>1, <4>4, <4>5
      <3> QED BY <3>2, <3>3, <3>4, <3>5, <3>6 DEF ListedOrDisplaced
    <2> QED BY <2>1, <2>2
  <1>13. ASSUME NEW c \in DashCall, dashCall'[c] = "answered", ~Appends(c), NEW p \in DOMAIN activityFile'
         PROVE  \E d \in DashCall : Before(c, d)' /\ ActivityOf[d] = activityFile'[p]
    <2>1. dashCall[c] = "answered" /\ Before(c, x)
      BY <1>2, <1>5, <1>13
    <2>2. CASE activityFile'[p] = a
      BY <1>3, <2>1, <2>2 DEF a
    <2>3. CASE activityFile'[p] # a
      <3>1. PICK i \in DOMAIN activityFile : activityFile'[p] = activityFile[i]
        BY <1>7, <1>7b, <1>8, <2>3
      <3>2. \E d \in DashCall : Before(c, d) /\ ActivityOf[d] = activityFile[i]
        BY <1>0, <1>13, <2>1 DEF FileInv
      <3> QED BY <1>3, <3>1, <3>2
    <2> QED BY <2>2, <2>3
  <1>14. told' \in Seq(Activities) /\ \A p \in DOMAIN told' : \E c \in DashCall : dashCall'[c] = "answered" /\ ActivityOf[c] = told'[p]
    <2>1. told \in Seq(Activities) /\ \A p \in DOMAIN told : \E c \in DashCall : dashCall'[c] = "answered" /\ ActivityOf[c] = told[p]
      BY <1>0, <1>3 DEF FileInv
    <2>2. dashCall'[x] = "answered"
      BY <1>1, <1>4
    <2>3. CASE ~listening
      BY <1>1, <2>1, <2>3
    <2>4. CASE listening
      <3>1. told' = Append(told, a)
        BY <1>1, <2>4 DEF a
      <3>2. told' \in Seq(Activities) /\ Len(told) \in Nat /\ DOMAIN told = 1..Len(told)
        BY <1>9, <2>1, <3>1, AppendProperties, LenProperties
      <3>3. /\ DOMAIN told' = 1..(Len(told) + 1) /\ told'[Len(told) + 1] = a
            /\ \A i \in 1..Len(told) : told'[i] = told[i]
        BY <1>9, <2>1, <3>1, <3>2, AppendProperties, LenProperties
      <3>4. \A p \in 1..(Len(told) + 1) : p = Len(told) + 1 \/ p \in 1..Len(told)
        BY <3>2
      <3> QED BY <2>1, <2>2, <3>2, <3>3, <3>4 DEF a
    <2> QED BY <2>3, <2>4
  <1>15. newFile' \in [DashCall -> Seq(Activities)]
    BY <1>0, <1>1 DEF FileInv
  <1>16. activityFile' \in Seq(Activities) /\ \A p, q \in DOMAIN activityFile' : activityFile'[p] = activityFile'[q] => p = q
    BY <1>7, <1>8
  <1>17. \A c \in DashCall : Appends(c)' = Appends(c)
    BY DEF Appends
  <1> QED BY <1>6, <1>9, <1>12, <1>13, <1>14, <1>15, <1>16, <1>17 DEF FileInv

\* A clear lands: whatever was answered came before it.
LEMMA ClearLands ==
  ASSUME DashInv, [DashNext]_dashVars, NEW x \in DashCall, RemoveFile(x)
  PROVE  FileInv'
PROOF
  <1>0. ArrivalInv /\ ChainInv /\ FileInv
    BY DEF DashInv
  <1>1. /\ activityFile' = <<>> /\ UNCHANGED <<told, newFile, arrival>> /\ ~Appends(x)
        /\ dashCall' = [dashCall EXCEPT ![x] = "answered"]
    BY DEF RemoveFile, SettleLink
  <1>2. Underway(x) /\ ~Underway(previous[x])
    BY <1>0, SettlesFirst DEF Settles
  <1>3. /\ \A c, d : Before(c, d) => Before(c, d)'
        /\ \A c \in DashCall : dashCall[c] = "answered" => dashCall'[c] = "answered"
    BY DashGrows
  <1>4. dashCall \in [DashCall -> {"unsent", "waiting", "working", "answered", "failed", "lost"}]
    BY <1>0 DEF ArrivalInv
  <1>5. \A c \in DashCall : dashCall'[c] # "working"
    <2> SUFFICES ASSUME NEW c \in DashCall, dashCall'[c] = "working"
                 PROVE  FALSE
      OBVIOUS
    <2>1. c # x /\ dashCall[c] = "working"
      BY <1>1, <1>4
    <2>2. Underway(c) /\ ~Underway(previous[c])
      BY <1>0, <2>1 DEF ChainInv, Underway
    <2>3. Before(c, x) /\ Before(x, c)
      BY <1>0, <1>2, <2>1, <2>2, FirstUnderway
    <2> QED BY <1>0, <2>3, ArrivalOrders
  <1>6. \A c \in DashCall : dashCall'[c] = "answered" /\ Appends(c) => ClearedLater(c)'
    <2>1. dashCall'[x] = "answered" /\ ~Appends(x)' /\ \A c \in DashCall : Appends(c)' = Appends(c)
      BY <1>1, <1>4 DEF Appends
    <2>2. \A c \in DashCall : dashCall'[c] = "answered" /\ Appends(c) => Before(c, x)'
      BY <1>0, <1>1, <1>2, <1>3, <1>4 DEF ChainInv
    <2> QED BY <2>1, <2>2 DEF ClearedLater
  <1>7. Activities' = Activities /\ \A c \in DashCall : Appends(c)' = Appends(c)
    BY DEF Activities, Appends
  <1>8. activityFile' \in Seq(Activities) /\ DOMAIN activityFile' = {}
    BY <1>1
  <1>9. told' \in Seq(Activities) /\ \A p \in DOMAIN told' : \E c \in DashCall : dashCall'[c] = "answered" /\ ActivityOf[c] = told'[p]
    BY <1>0, <1>1, <1>3 DEF FileInv
  <1>10. newFile' \in [DashCall -> Seq(Activities)]
    BY <1>0, <1>1 DEF FileInv
  <1> QED BY <1>5, <1>6, <1>7, <1>8, <1>9, <1>10 DEF FileInv

\* No step breaks the chain of writes and what they left in the file.
LEMMA DashInvStep == DashInv /\ [DashNext]_dashVars => DashInv'
PROOF
  <1> SUFFICES ASSUME DashInv, [DashNext]_dashVars
               PROVE  DashInv'
    OBVIOUS
  <1>0. ArrivalInv /\ ChainInv /\ FileInv
    BY DEF DashInv
  <1>1. ArrivalInv' /\ ChainInv'
    BY <1>0, ArrivalStep, ChainStep
  <1>2. /\ dashCall \in [DashCall -> {"unsent", "waiting", "working", "answered", "failed", "lost"}]
        /\ newFile \in [DashCall -> Seq(Activities)]
        /\ \A c \in DashCall : dashCall[c] = "working" => newFile[c] = Added(Listing(c), c)
    BY <1>0 DEF ArrivalInv, FileInv
  <1>3. ASSUME UNCHANGED dashVars \/ Subscribe \/ Unsubscribe
        PROVE  FileInv'
    <2>1. UNCHANGED <<dashCall, activityFile, newFile, blind, told>>
      BY <1>3 DEF dashVars, Subscribe, Unsubscribe
    <2> QED BY <1>2, <2>1, FileStays DEF Listing
  <1>4. ASSUME NEW x \in DashCall, QueueLink(x)
        PROVE  FileInv'
    <2>1. dashCall' = [dashCall EXCEPT ![x] = "waiting"] /\ UNCHANGED <<activityFile, newFile, blind, told>>
      BY <1>4 DEF QueueLink
    <2>2. \A c \in DashCall : dashCall'[c] \in {"answered", "working"} => dashCall'[c] = dashCall[c]
      BY <1>2, <2>1
    <2> QED BY <1>2, <2>1, <2>2, FileStays DEF Listing
  <1>5. ASSUME NEW x \in DashCall, WriteTemporary(x)
        PROVE  FileInv'
    <2>1. /\ dashCall' = [dashCall EXCEPT ![x] = "working"] /\ UNCHANGED <<activityFile, told>>
          /\ newFile' = [newFile EXCEPT ![x] = Added(Listing(x)', x)] /\ blind' \in {blind, blind \cup {x}}
          /\ dashCall[x] = "waiting" /\ PreviousDone(x)
      BY <1>5 DEF WriteTemporary
    <2> DEFINE L == Listing(x)'
    <2>0. L \in Seq(Activities) /\ \A p, q \in DOMAIN L : L[p] = L[q] => p = q
      <3>1. L = (IF x \in blind' THEN <<>> ELSE activityFile) /\ DOMAIN <<>> = {}
        BY <2>1 DEF Listing
      <3> QED BY <1>0, <3>1 DEF FileInv
    <2>2. Added(Listing(x)', x) \in Seq(Activities)
      <3> HIDE DEF L
      <3>1. Added(L, x) \in Seq(Activities)
        BY <2>0, AddedProperties
      <3> QED BY <3>1 DEF L
    <2>3. newFile' \in [DashCall -> Seq(Activities)]
      BY <1>2, <2>1, <2>2
    <2>4. \A c \in DashCall : /\ dashCall'[c] = "answered" => dashCall[c] = "answered"
                              /\ dashCall'[c] = "working" => newFile'[c] = Added(Listing(c)', c)
      <3> HIDE DEF L
      <3>1. \A c \in DashCall : c # x => Listing(c)' = Listing(c)
        BY <2>1 DEF Listing
      <3> QED BY <1>2, <2>1, <3>1
    <2> QED BY <2>1, <2>3, <2>4, FileStays
  <1>6. ASSUME NEW x \in DashCall, LinkRejects(x)
        PROVE  FileInv'
    <2>1. dashCall' = [dashCall EXCEPT ![x] = "failed"] /\ UNCHANGED <<activityFile, newFile, blind, told>>
      BY <1>6 DEF LinkRejects, SettleLink
    <2>2. \A c \in DashCall : dashCall'[c] \in {"answered", "working"} => dashCall'[c] = dashCall[c]
      BY <1>2, <2>1
    <2> QED BY <1>2, <2>1, <2>2, FileStays DEF Listing
  <1>7. ASSUME DashCrash
        PROVE  FileInv'
    <2>1. /\ dashCall' = [c \in DashCall |-> IF dashCall[c] \in {"waiting", "working"} THEN "lost" ELSE dashCall[c]]
          /\ UNCHANGED <<activityFile, newFile, blind, told>>
      BY <1>7 DEF DashCrash
    <2>2. \A c \in DashCall : dashCall'[c] \in {"answered", "working"} => dashCall'[c] = dashCall[c]
      BY <1>2, <2>1
    <2> QED BY <1>2, <2>1, <2>2, FileStays DEF Listing
  <1>8. FileInv'
    BY <1>3, <1>4, <1>5, <1>6, <1>7, AppendLands, ClearLands DEF DashNext
  <1> QED BY <1>1, <1>8 DEF DashInv

\* From the chain and the file, what is listed is what was answered.
LEMMA DashInvIsSound == DashInv => ActivityIsSound
PROOF
  <1> SUFFICES ASSUME DashInv
               PROVE  ActivityIsSound
    OBVIOUS
  <1>0. ChainInv /\ FileInv
    BY DEF DashInv
  <1>1. \A s, S : s \in Seq(S) => DOMAIN s = 1..Len(s) /\ ToSet(s) = {s[i] : i \in DOMAIN s}
    BY LenProperties DEF ToSet
  <1>2. \A c \in DashCall : ListedOrDisplaced(c) => ActivityOf[c] \in ToSet(activityFile) \/ Cardinality(Displacing(c)) >= ActivityLimit
    BY <1>0, <1>1 DEF ListedOrDisplaced, FileInv
  <1>3. \A a \in ToSet(activityFile) : \E p \in DOMAIN activityFile : activityFile[p] = a
    BY <1>0, <1>1 DEF FileInv
  <1>4. \A a \in ToSet(told) : \E p \in DOMAIN told : told[p] = a
    BY <1>0, <1>1 DEF FileInv
  <1>5. writesTail # NoLink => dashCall[writesTail] \in {"waiting", "working"}
    BY <1>0 DEF ChainInv, Underway
  <1>6. \A c \in DashCall : dashCall[c] = "answered" /\ ~Appends(c) =>
          \A a \in ToSet(activityFile) : \E d \in DashCall : Before(c, d) /\ ActivityOf[d] = a
    <2> SUFFICES ASSUME NEW c \in DashCall, dashCall[c] = "answered", ~Appends(c), NEW a \in ToSet(activityFile)
                 PROVE  \E d \in DashCall : Before(c, d) /\ ActivityOf[d] = a
      OBVIOUS
    <2>1. PICK p \in DOMAIN activityFile : activityFile[p] = a
      BY <1>3
    <2> QED BY <1>0, <2>1 DEF FileInv
  <1>7. \A a \in ToSet(told) : \E c \in DashCall : dashCall[c] = "answered" /\ ActivityOf[c] = a
    BY <1>0, <1>4 DEF FileInv
  <1>8. \A c \in DashCall : dashCall[c] = "answered" /\ Appends(c) => StaysListed(c) \/ Overwriting(c) # {}
    BY <1>0, <1>2 DEF FileInv, ClearedLater, StaysListed
  <1> QED BY <1>5, <1>6, <1>7, <1>8 DEF ActivityIsSound

-----------------------------------------------------------------------------
(* HealthCheck                                                               *)

HealthCall == [at : Host, hop : 0..MAX_REDIRECTS, waits : {"guard", "fetch", "done"},
               pinned : [Host -> SUBSET DnsAnswer], reply : Replies \cup {"none"}]
Clean(answer) == answer # {} /\ answer \cap Blocked = {}

FormInv ==
  /\ rows \in Seq(Host \cup {Blank}) /\ checks \in Seq(Host)
  /\ request \in {"none", "sent", "checking", "answered"}
  /\ request = "sent" => calls = <<>> /\ contacted = {}

\* What the guard keeps is public and stays; each hop that was fetched was
\* allowed by what its call's guard keeps, and a reply needs a fetch.
CallsInv ==
  /\ calls \in Seq(HealthCall)
  /\ request \in {"checking", "answered"} => DOMAIN calls = DOMAIN checks
  /\ ~allowed => \A i \in DOMAIN calls :
       /\ \A h \in Host : calls[i].pinned[h] # {} => Clean(calls[i].pinned[h])
       /\ calls[i].waits = "fetch" => calls[i].pinned[calls[i].at] # {}
  /\ contacted \subseteq (DOMAIN calls) \X (0..MAX_REDIRECTS) \X Host \X (SUBSET DnsAnswer)
  /\ ~allowed => \A f \in contacted : f[4] = calls[f[1]].pinned[f[3]] /\ f[4] # {}
  /\ \A i \in DOMAIN calls : calls[i].reply = "expected" => \E f \in contacted : f[1] = i

\* The list shown is of the calls of the last request.
PanelInv ==
  panel /\ request = "none" =>
    /\ DOMAIN calls = DOMAIN checks
    /\ outcomes = [i \in DOMAIN checks |-> [name |-> checks[i], state |-> EvaluateHealth(calls[i].reply)]]

HealthInv == FormInv /\ CallsInv /\ PanelInv

\* Holds at first: what a probe pinned and what the list shows.
LEMMA HealthInvInit == HealthInit => HealthInv
PROOF
  <1> SUFFICES ASSUME HealthInit
               PROVE  HealthInv
    OBVIOUS
  <1>1. \A S : <<>> \in Seq(S) /\ DOMAIN <<>> = {}
    OBVIOUS
  <1>2. <<Blank>> \in Seq(Host \cup {Blank})
    OBVIOUS
  <1>3. FormInv
    BY <1>1, <1>2 DEF HealthInit, FormInv
  <1>4. CallsInv
    BY <1>1 DEF HealthInit, CallsInv
  <1>5. PanelInv
    BY DEF HealthInit, PanelInv
  <1> QED BY <1>3, <1>4, <1>5 DEF HealthInv

\* The rows of the form stay rows.
LEMMA FormInvStep == HealthInv /\ [HealthNext]_healthVars => FormInv'
PROOF
  <1> SUFFICES ASSUME HealthInv, [HealthNext]_healthVars
               PROVE  FormInv'
    OBVIOUS
  <1>0. FormInv
    BY DEF HealthInv
  <1> DEFINE Cell == Host \cup {Blank}
  <1>1. rows \in Seq(Cell) /\ Len(rows) \in Nat /\ DOMAIN rows = 1..Len(rows) /\ \A i \in 1..Len(rows) : rows[i] \in Cell
    BY <1>0, LenProperties, ElementOfSeq DEF FormInv
  <1>2. <<Blank>> \in Seq(Cell)
    OBVIOUS
  <1> HIDE DEF Cell
  <1>3. ASSUME NEW i \in 1..MAX_HEALTH_CHECKS, RemoveRow(i)
        PROVE  FormInv'
    <2>1. i \in 1..Len(rows) /\ UNCHANGED <<request, checks, calls, contacted>>
      BY <1>1, <1>3 DEF RemoveRow
    <2>2. RemoveAt(rows, i) \in Seq(Cell)
      <3>1. SubSeq(rows, 1, i - 1) \in Seq(Cell)
        <4>1. \A k \in 1..(i - 1) : rows[k] \in Cell
          BY <1>1, <2>1
        <4> QED BY <1>1, <2>1, <4>1, SubSeqProperties
      <3>2. SubSeq(rows, i + 1, Len(rows)) \in Seq(Cell)
        <4>1. \A k \in (i + 1)..Len(rows) : rows[k] \in Cell
          BY <1>1, <2>1
        <4> QED BY <1>1, <2>1, <4>1, SubSeqProperties
      <3> QED BY <3>1, <3>2, ConcatProperties DEF RemoveAt
    <2>3. rows' \in Seq(Cell)
      BY <1>2, <1>3, <2>2 DEF RemoveRow
    <2> QED BY <1>0, <2>1, <2>3 DEF FormInv, Cell
  <1>4. ASSUME NEW i \in 1..MAX_HEALTH_CHECKS, NEW h \in Host, TypeUrl(i, h)
        PROVE  FormInv'
    <2>1. i \in DOMAIN rows /\ rows' = [rows EXCEPT ![i] = h] /\ UNCHANGED <<request, checks, calls, contacted>>
      BY <1>4 DEF TypeUrl
    <2>2. rows' \in Seq(Cell)
      BY <1>1, <2>1, ExceptSeq DEF Cell
    <2> QED BY <1>0, <2>1, <2>2 DEF FormInv, Cell
  <1>5. CASE AddRow
    <2>1. rows' = Append(rows, Blank) /\ UNCHANGED <<request, checks, calls, contacted>>
      BY <1>5 DEF AddRow
    <2>2. rows' \in Seq(Cell)
      BY <1>1, <2>1, AppendProperties DEF Cell
    <2> QED BY <1>0, <2>1, <2>2 DEF FormInv, Cell
  <1>6. CASE ClearAll
    BY <1>0, <1>2, <1>6 DEF ClearAll, FormInv, Cell
  <1>7. CASE Run
    <2>1. request' = "sent" /\ checks' = Filled /\ calls' = <<>> /\ contacted' = {} /\ rows' = rows
      BY <1>7 DEF Run
    <2>2. Filled \in Seq(Host)
      <3> DEFINE I == {i \in DOMAIN rows : rows[i] # Blank}
      <3>1. I \in SUBSET (1..Len(rows))
        BY <1>1
      <3>2. \A i \in I : rows[i] \in Host
        BY <1>1 DEF Cell
      <3>3. Filled = Picked(rows, I)
        BY DEF Filled
      <3> HIDE DEF I
      <3>4. /\ Picked(rows, I) \in Seq(Cell) /\ Len(Picked(rows, I)) = Cardinality(I)
            /\ \A n \in 1..Cardinality(I) : NthOf(I, n) \in I /\ Picked(rows, I)[n] = rows[NthOf(I, n)]
        BY <1>1, <3>1, PickedProperties
      <3>5. \A n \in 1..Len(Picked(rows, I)) : Picked(rows, I)[n] \in Host
        BY <3>2, <3>4
      <3> QED BY <3>3, <3>4, <3>5, SeqDef, LenProperties
    <2> QED BY <1>0, <2>1, <2>2 DEF FormInv
  <1>8. CASE RefuseChecks
    BY <1>0, <1>8 DEF RefuseChecks, FormInv
  <1>9. CASE StartChecks
    BY <1>0, <1>9 DEF StartChecks, pageVars, FormInv
  <1>10. CASE AnswerChecks \/ ChecksArrive \/ ChecksLost
    BY <1>0, <1>10 DEF AnswerChecks, ChecksArrive, ChecksLost, pageVars, FormInv
  <1>11. ASSUME NEW i \in DOMAIN calls,
                \/ \E answer \in SUBSET DnsAnswer : AssertPublic(i, answer)
                \/ \E h \in Host : Redirected(i, h)
                \/ \E reply \in Replies : Replied(i, reply)
         PROVE  FormInv'
    <2>1. request = "checking" /\ UNCHANGED <<request, rows, checks>>
      BY <1>11 DEF AssertPublic, Redirected, Replied, pageVars
    <2> QED BY <1>0, <2>1 DEF FormInv
  <1>12. CASE UNCHANGED healthVars
    BY <1>0, <1>12 DEF healthVars, FormInv
  <1> QED BY <1>3, <1>4, <1>5, <1>6, <1>7, <1>8, <1>9, <1>10, <1>11, <1>12 DEF HealthNext

\* One call moves: its hop is fetched after what its guard keeps, or the guard keeps what
\* DNS answered and the policy allows.
LEMMA CallMoves ==
  ASSUME CallsInv, NEW i \in DOMAIN calls, NEW c \in HealthCall, calls' = [calls EXCEPT ![i] = c],
         UNCHANGED <<allowed, request, checks>>,
         \/ contacted' = contacted
         \/ calls[i].waits = "fetch" /\ Fetched(i),
         ~allowed => \A h \in Host : /\ calls[i].pinned[h] # {} => c.pinned[h] = calls[i].pinned[h]
                                     /\ c.pinned[h] # {} => Clean(c.pinned[h]),
         ~allowed /\ c.waits = "fetch" => c.pinned[c.at] # {},
         c.reply = "expected" => calls[i].reply = "expected" \/ Fetched(i)
  PROVE  CallsInv'
PROOF
  <1>1. /\ calls \in Seq(HealthCall) /\ Len(calls) \in Nat /\ DOMAIN calls = 1..Len(calls)
        /\ \A k \in DOMAIN calls : calls[k] \in HealthCall
    BY LenProperties, ElementOfSeq DEF CallsInv
  <1>2. calls' \in Seq(HealthCall) /\ DOMAIN calls' = DOMAIN calls
    BY <1>1, ExceptSeq
  <1>3. calls'[i] = c /\ \A k \in DOMAIN calls : k # i => calls'[k] = calls[k]
    BY <1>1
  <1>4. contacted \subseteq contacted' /\ contacted' \subseteq contacted \cup {<<i, calls[i].hop, calls[i].at, calls[i].pinned[calls[i].at]>>}
    BY DEF Fetched
  <1>5. /\ calls[i].hop \in 0..MAX_REDIRECTS /\ calls[i].at \in Host /\ calls[i].pinned \in [Host -> SUBSET DnsAnswer]
        /\ calls[i].pinned[calls[i].at] \in SUBSET DnsAnswer
    BY <1>1 DEF HealthCall
  <1>6. contacted' \subseteq (DOMAIN calls') \X (0..MAX_REDIRECTS) \X Host \X (SUBSET DnsAnswer)
    <2>1. <<i, calls[i].hop, calls[i].at, calls[i].pinned[calls[i].at]>> \in (DOMAIN calls) \X (0..MAX_REDIRECTS) \X Host \X (SUBSET DnsAnswer)
      BY <1>5
    <2> QED BY <1>2, <1>4, <2>1 DEF CallsInv
  <1>7. ~allowed' => \A f \in contacted' : f[4] = calls'[f[1]].pinned[f[3]] /\ f[4] # {}
    <2> SUFFICES ASSUME ~allowed, NEW f \in contacted'
                 PROVE  f[4] = calls'[f[1]].pinned[f[3]] /\ f[4] # {}
      OBVIOUS
    <2>1. CASE f \in contacted
      <3>1. f[1] \in DOMAIN calls /\ f[3] \in Host /\ f[4] = calls[f[1]].pinned[f[3]] /\ f[4] # {}
        BY <2>1 DEF CallsInv
      <3>2. CASE f[1] = i
        BY <1>3, <3>1, <3>2
      <3>3. CASE f[1] # i
        BY <1>3, <3>1, <3>3
      <3> QED BY <3>2, <3>3
    <2>2. CASE f \notin contacted
      <3>1. calls[i].waits = "fetch" /\ f = <<i, calls[i].hop, calls[i].at, calls[i].pinned[calls[i].at]>>
        BY <1>4, <2>2
      <3>2. calls[i].pinned[calls[i].at] # {}
        BY <3>1 DEF CallsInv
      <3>3. f[1] = i /\ f[3] = calls[i].at /\ f[4] = calls[i].pinned[calls[i].at]
        BY <3>1
      <3> QED BY <1>3, <1>5, <3>2, <3>3
    <2> QED BY <2>1, <2>2
  <1>8. ~allowed' => \A k \in DOMAIN calls' :
          /\ \A h \in Host : calls'[k].pinned[h] # {} => Clean(calls'[k].pinned[h])
          /\ calls'[k].waits = "fetch" => calls'[k].pinned[calls'[k].at] # {}
    <2> SUFFICES ASSUME ~allowed, NEW k \in DOMAIN calls
                 PROVE  /\ \A h \in Host : calls'[k].pinned[h] # {} => Clean(calls'[k].pinned[h])
                        /\ calls'[k].waits = "fetch" => calls'[k].pinned[calls'[k].at] # {}
      BY <1>2
    <2>1. CASE k = i
      BY <1>3, <2>1
    <2>2. CASE k # i
      BY <1>3, <2>2 DEF CallsInv
    <2> QED BY <2>1, <2>2
  <1>9. \A k \in DOMAIN calls' : calls'[k].reply = "expected" => \E f \in contacted' : f[1] = k
    <2> SUFFICES ASSUME NEW k \in DOMAIN calls, calls'[k].reply = "expected"
                 PROVE  \E f \in contacted' : f[1] = k
      BY <1>2
    <2>1. CASE calls[k].reply = "expected"
      BY <1>4, <2>1 DEF CallsInv
    <2>2. CASE calls[k].reply # "expected"
      <3>1. k = i /\ Fetched(i)
        BY <1>3, <2>2
      <3>2. <<i, calls[i].hop, calls[i].at, calls[i].pinned[calls[i].at]>> \in contacted'
        BY <3>1 DEF Fetched
      <3> QED BY <3>1, <3>2
    <2> QED BY <2>1, <2>2
  <1>10. request' \in {"checking", "answered"} => DOMAIN calls' = DOMAIN checks'
    BY <1>2 DEF CallsInv
  <1> QED BY <1>2, <1>6, <1>7, <1>8, <1>9, <1>10 DEF CallsInv, Clean

\* No step breaks that a hop was fetched after its call's guard allowed it.
LEMMA CallsInvStep == HealthInv /\ [HealthNext]_healthVars => CallsInv'
PROOF
  <1> SUFFICES ASSUME HealthInv, [HealthNext]_healthVars
               PROVE  CallsInv'
    OBVIOUS
  <1>0. FormInv /\ CallsInv
    BY DEF HealthInv
  <1>1. ASSUME UNCHANGED <<allowed, calls, contacted, checks>>, request' = request \/ request' \notin {"checking", "answered"} \/ request = "checking"
        PROVE  CallsInv'
    BY <1>0, <1>1 DEF CallsInv, Clean
  <1>2. CASE Run
    <2>1. \A S : <<>> \in Seq(S) /\ DOMAIN <<>> = {}
      OBVIOUS
    <2>2. request' = "sent" /\ calls' = <<>> /\ contacted' = {}
      BY <1>2 DEF Run
    <2> QED BY <2>1, <2>2 DEF CallsInv
  <1>3. CASE StartChecks
    <2> DEFINE call(i) == [at |-> checks[i], hop |-> 0, waits |-> "guard", pinned |-> [h \in Host |-> Unresolved], reply |-> "none"]
    <2>1. /\ request = "sent" /\ request' = "checking" /\ UNCHANGED <<allowed, checks, contacted>>
          /\ calls' = [i \in DOMAIN checks |-> call(i)]
      BY <1>3 DEF StartChecks
    <2>2. checks \in Seq(Host) /\ Len(checks) \in Nat /\ DOMAIN checks = 1..Len(checks) /\ \A i \in 1..Len(checks) : checks[i] \in Host
      BY <1>0, LenProperties, ElementOfSeq DEF FormInv
    <2>3. \A i \in 1..Len(checks) : call(i) \in HealthCall
      BY <2>2, HealthCheckAssumption DEF HealthCall, Unresolved
    <2>4. contacted' = {}
      BY <1>0, <2>1 DEF FormInv
    <2>5. \A i \in DOMAIN checks : /\ calls'[i].waits = "guard" /\ calls'[i].reply = "none"
                                   /\ \A h \in Host : calls'[i].pinned[h] = {}
      BY <2>1 DEF Unresolved
    <2> HIDE DEF call
    <2>6. calls' \in Seq(HealthCall) /\ DOMAIN calls' = DOMAIN checks
      BY <2>1, <2>2, <2>3, SeqDef
    <2> QED BY <2>1, <2>4, <2>5, <2>6 DEF CallsInv
  <1>4. ASSUME NEW i \in DOMAIN calls, NEW answer \in SUBSET DnsAnswer, AssertPublic(i, answer)
        PROVE  CallsInv'
    <2> DEFINE k == calls[i]
    <2>0. k \in HealthCall
      BY <1>0, ElementOfSeq DEF CallsInv
    <2>1. k \in HealthCall /\ k.pinned \in [Host -> SUBSET DnsAnswer] /\ k.at \in Host
      BY <2>0 DEF HealthCall
    <2>2. /\ UNCHANGED <<allowed, request, checks, contacted>> /\ k.waits = "guard"
          /\ calls' = [calls EXCEPT ![i] =
               IF allowed THEN [k EXCEPT !.waits = "fetch"]
               ELSE IF Public(k, answer) THEN [k EXCEPT !.waits = "fetch", !.pinned[k.at] = answer]
               ELSE [k EXCEPT !.waits = "done", !.reply = "unreached"]]
      BY <1>4 DEF AssertPublic
    <2> HIDE DEF k
    <2>3. CASE allowed
      <3> DEFINE c == [k EXCEPT !.waits = "fetch"]
      <3>1. c \in HealthCall /\ c.reply = k.reply
        BY <2>1 DEF HealthCall
      <3>2. calls' = [calls EXCEPT ![i] = c]
        BY <2>2, <2>3
      <3> HIDE DEF c
      <3> QED BY <1>0, <2>2, <2>3, <3>1, <3>2, CallMoves DEF k
    <2>4. CASE ~allowed /\ Public(k, answer)
      <3> DEFINE c == [k EXCEPT !.waits = "fetch", !.pinned[k.at] = answer]
      <3>1. /\ c \in HealthCall /\ c.reply = k.reply /\ c.at = k.at
            /\ c.pinned = [k.pinned EXCEPT ![k.at] = answer]
        BY <2>1 DEF HealthCall
      <3>2. calls' = [calls EXCEPT ![i] = c]
        BY <2>2, <2>4
      <3>3. Clean(answer) /\ k.pinned[k.at] \in {{}, answer}
        BY <2>4 DEF Public, Clean, Unresolved
      <3>4. \A h \in Host : k.pinned[h] # {} => Clean(k.pinned[h])
        BY <1>0, <2>4 DEF CallsInv, k
      <3>5. c.pinned[c.at] = answer /\ \A h \in Host : h # k.at => c.pinned[h] = k.pinned[h]
        BY <2>1, <3>1
      <3> HIDE DEF c
      <3>6. \A h \in Host : (k.pinned[h] # {} => c.pinned[h] = k.pinned[h]) /\ (c.pinned[h] # {} => Clean(c.pinned[h]))
        BY <3>1, <3>3, <3>4, <3>5
      <3>7. c.pinned[c.at] # {}
        BY <3>3, <3>5 DEF Clean
      <3> QED BY <1>0, <2>2, <3>1, <3>2, <3>6, <3>7, CallMoves DEF k
    <2>5. CASE ~allowed /\ ~Public(k, answer)
      <3> DEFINE c == [k EXCEPT !.waits = "done", !.reply = "unreached"]
      <3>1. c \in HealthCall /\ c.reply = "unreached" /\ c.waits = "done" /\ c.pinned = k.pinned
        BY <2>1 DEF HealthCall, Replies
      <3>2. calls' = [calls EXCEPT ![i] = c]
        BY <2>2, <2>5
      <3>3. \A h \in Host : k.pinned[h] # {} => Clean(k.pinned[h])
        BY <1>0, <2>5 DEF CallsInv, k
      <3> HIDE DEF c
      <3>4. c.reply # "expected" /\ c.waits # "fetch"
        BY <3>1
      <3>5. \A h \in Host : (k.pinned[h] # {} => c.pinned[h] = k.pinned[h]) /\ (c.pinned[h] # {} => Clean(c.pinned[h]))
        BY <3>1, <3>3
      <3> QED BY <1>0, <2>2, <3>1, <3>2, <3>4, <3>5, CallMoves DEF k
    <2> QED BY <2>3, <2>4, <2>5
  <1>5. ASSUME NEW i \in DOMAIN calls, NEW h \in Host, Redirected(i, h)
        PROVE  CallsInv'
    <2> DEFINE k == calls[i]
    <2>0. k \in HealthCall
      BY <1>0, ElementOfSeq DEF CallsInv
    <2>1. k \in HealthCall /\ k.hop \in 0..MAX_REDIRECTS
      BY <2>0 DEF HealthCall
    <2>2a. UNCHANGED <<allowed, request, checks>> /\ k.waits = "fetch" /\ Fetched(i)
      BY <1>5 DEF Redirected
    <2>2. /\ UNCHANGED <<allowed, request, checks>> /\ k.waits = "fetch" /\ Fetched(i)
          /\ calls' = [calls EXCEPT ![i] = IF k.hop = MAX_REDIRECTS
               THEN [k EXCEPT !.waits = "done", !.reply = "unreached"]
               ELSE [k EXCEPT !.at = h, !.hop = k.hop + 1, !.waits = "guard"]]
      BY <1>5, <2>2a DEF Redirected
    <2>3. ~allowed => \A g \in Host : k.pinned[g] # {} => Clean(k.pinned[g])
      BY <1>0 DEF CallsInv
    <2> HIDE DEF k
    <2>4. CASE k.hop = MAX_REDIRECTS
      <3> DEFINE c == [k EXCEPT !.waits = "done", !.reply = "unreached"]
      <3>1. c \in HealthCall /\ c.waits = "done" /\ c.pinned = k.pinned
        BY <2>1 DEF HealthCall, Replies
      <3>2. calls' = [calls EXCEPT ![i] = c]
        BY <2>2, <2>4
      <3> HIDE DEF c
      <3> QED BY <1>0, <2>2, <2>3, <3>1, <3>2, CallMoves DEF k
    <2>5. CASE k.hop # MAX_REDIRECTS
      <3> DEFINE c == [k EXCEPT !.at = h, !.hop = k.hop + 1, !.waits = "guard"]
      <3>1. k.hop + 1 \in 0..MAX_REDIRECTS
        BY <2>1, <2>5, HealthCheckAssumption
      <3>2. c \in HealthCall /\ c.waits = "guard" /\ c.pinned = k.pinned
        BY <2>1, <3>1 DEF HealthCall
      <3>3. calls' = [calls EXCEPT ![i] = c]
        BY <2>2, <2>5
      <3> HIDE DEF c
      <3> QED BY <1>0, <2>2, <2>3, <3>2, <3>3, CallMoves DEF k
    <2> QED BY <2>4, <2>5
  <1>6. ASSUME NEW i \in DOMAIN calls, NEW reply \in Replies, Replied(i, reply)
        PROVE  CallsInv'
    <2> DEFINE k == calls[i]
               c == [k EXCEPT !.waits = "done", !.reply = reply]
    <2>1. k \in HealthCall
      BY <1>0, ElementOfSeq DEF CallsInv
    <2>2. /\ UNCHANGED <<allowed, request, checks>> /\ k.waits = "fetch" /\ Fetched(i)
          /\ calls' = [calls EXCEPT ![i] = c]
      BY <1>6 DEF Replied
    <2>3. ~allowed => \A g \in Host : k.pinned[g] # {} => Clean(k.pinned[g])
      BY <1>0 DEF CallsInv
    <2> HIDE DEF k
    <2>4. c \in HealthCall /\ c.waits = "done" /\ c.pinned = k.pinned
      BY <2>1 DEF HealthCall
    <2> HIDE DEF c
    <2> QED BY <1>0, <2>2, <2>3, <2>4, CallMoves DEF k
  <1>7. ASSUME NEW i \in 1..MAX_HEALTH_CHECKS, RemoveRow(i) \/ \E h \in Host : TypeUrl(i, h)
        PROVE  CallsInv'
    BY <1>1, <1>7 DEF RemoveRow, TypeUrl
  <1>8. CASE AddRow \/ ClearAll \/ RefuseChecks \/ AnswerChecks \/ ChecksArrive \/ ChecksLost \/ UNCHANGED healthVars
    BY <1>1, <1>8 DEF AddRow, ClearAll, RefuseChecks, AnswerChecks, ChecksArrive, ChecksLost, healthVars
  <1> QED BY <1>2, <1>3, <1>4, <1>5, <1>6, <1>7, <1>8 DEF HealthNext

\* No step breaks that the list is of the last request.
LEMMA PanelInvStep == HealthInv /\ [HealthNext]_healthVars => PanelInv'
PROOF
  <1> SUFFICES ASSUME HealthInv, [HealthNext]_healthVars
               PROVE  PanelInv'
    OBVIOUS
  <1>0. FormInv /\ CallsInv /\ PanelInv
    BY DEF HealthInv
  <1>1. ASSUME UNCHANGED <<request, checks, calls, outcomes, panel>>
        PROVE  PanelInv'
    BY <1>0, <1>1 DEF PanelInv, EvaluateHealth
  <1>2. ASSUME request' # "none" \/ ~panel'
        PROVE  PanelInv'
    BY <1>2 DEF PanelInv
  <1>3. CASE ChecksArrive
    <2>1. /\ request = "answered" /\ UNCHANGED <<checks, calls>>
          /\ outcomes' = [i \in DOMAIN checks |-> [name |-> checks[i], state |-> EvaluateHealth(calls[i].reply)]]
      BY <1>3 DEF ChecksArrive
    <2>2. DOMAIN calls = DOMAIN checks
      BY <1>0, <2>1 DEF CallsInv
    <2> QED BY <2>1, <2>2 DEF PanelInv, EvaluateHealth
  <1>4. ASSUME NEW i \in 1..MAX_HEALTH_CHECKS, RemoveRow(i) \/ \E h \in Host : TypeUrl(i, h)
        PROVE  PanelInv'
    BY <1>1, <1>4 DEF RemoveRow, TypeUrl
  <1>5. CASE AddRow \/ UNCHANGED healthVars
    BY <1>1, <1>5 DEF AddRow, healthVars
  <1>6. CASE ClearAll \/ Run \/ RefuseChecks \/ StartChecks \/ AnswerChecks \/ ChecksLost
    BY <1>2, <1>6 DEF ClearAll, Run, RefuseChecks, StartChecks, AnswerChecks, ChecksLost
  <1>7. ASSUME NEW i \in DOMAIN calls,
               \/ \E answer \in SUBSET DnsAnswer : AssertPublic(i, answer)
               \/ \E h \in Host : Redirected(i, h)
               \/ \E reply \in Replies : Replied(i, reply)
        PROVE  PanelInv'
    BY <1>2, <1>7 DEF AssertPublic, Redirected, Replied
  <1> QED BY <1>3, <1>4, <1>5, <1>6, <1>7 DEF HealthNext

\* No step breaks what a probe pinned and what the list shows.
LEMMA HealthInvStep == HealthInv /\ [HealthNext]_healthVars => HealthInv'
PROOF
  BY FormInvStep, CallsInvStep, PanelInvStep DEF HealthInv

\* From what the guards keep, every hop fetched was allowed.
LEMMA HealthInvIsSound == HealthInv => HealthReportIsSound
PROOF
  <1> SUFFICES ASSUME HealthInv
               PROVE  HealthReportIsSound
    OBVIOUS
  <1>0. FormInv /\ CallsInv /\ PanelInv
    BY DEF HealthInv
  <1>1. HopsWereAllowed
    <2> SUFFICES ASSUME ~allowed, NEW f \in contacted
                 PROVE  /\ f[4] # {} /\ f[4] \cap Blocked = {}
                        /\ \A g \in contacted : g[1] = f[1] /\ g[3] = f[3] => g[4] = f[4]
      BY DEF HopsWereAllowed
    <2>1. f[1] \in DOMAIN calls /\ f[3] \in Host /\ f[4] = calls[f[1]].pinned[f[3]] /\ f[4] # {}
      BY <1>0 DEF CallsInv
    <2>2. Clean(f[4])
      BY <1>0, <2>1 DEF CallsInv
    <2>3. \A g \in contacted : g[4] = calls[g[1]].pinned[g[3]]
      BY <1>0 DEF CallsInv
    <2> QED BY <2>1, <2>2, <2>3 DEF Clean
  <1>2. \A f \in contacted : f[2] \in 0..MAX_REDIRECTS
    BY <1>0 DEF CallsInv
  <1>3. ASSUME panel, request = "none"
        PROVE  /\ Len(outcomes) = Len(checks)
               /\ \A i \in DOMAIN checks :
                    outcomes[i].name = checks[i] /\ (outcomes[i].state = "healthy" => \E f \in contacted : f[1] = i)
               /\ (SummarizeHealth(outcomes) = "healthy") = (\A i \in DOMAIN checks : calls[i].reply = "expected")
    <2>1. /\ DOMAIN calls = DOMAIN checks
          /\ outcomes = [i \in DOMAIN checks |-> [name |-> checks[i], state |-> EvaluateHealth(calls[i].reply)]]
      BY <1>0, <1>3 DEF PanelInv
    <2>2. Len(checks) \in Nat /\ DOMAIN checks = 1..Len(checks)
      BY <1>0, LenProperties DEF FormInv
    <2>3. Len(outcomes) = Len(checks) /\ DOMAIN outcomes = DOMAIN checks
      BY <2>1, <2>2
    <2>4. \A r : /\ EvaluateHealth(r) \in {"healthy", "degraded", "failed"}
                 /\ EvaluateHealth(r) = "healthy" <=> r = "expected"
      BY DEF EvaluateHealth
    <2>5. \A i \in DOMAIN checks : outcomes[i].name = checks[i] /\ outcomes[i].state = EvaluateHealth(calls[i].reply)
      BY <2>1
    <2>6. \A i \in DOMAIN checks : outcomes[i].state = "healthy" => \E f \in contacted : f[1] = i
      BY <1>0, <2>1, <2>4, <2>5 DEF CallsInv
    <2>7. SummarizeHealth(outcomes) = "healthy" <=> \A i \in DOMAIN checks : outcomes[i].state \notin {"failed", "degraded"}
      BY <2>3 DEF SummarizeHealth
    <2>8. SummarizeHealth(outcomes) = "healthy" <=> \A i \in DOMAIN checks : calls[i].reply = "expected"
      BY <2>4, <2>5, <2>7
    <2> QED BY <2>3, <2>5, <2>6, <2>8
  <1> QED BY <1>1, <1>2, <1>3 DEF HealthReportIsSound

-----------------------------------------------------------------------------
(* WebhookBins                                                               *)

BinRecord == [id : Bin, createdAt : Nat, expiresAt : Nat, requests : Seq(Webhook), received : Nat]
Living == {i \in DOMAIN bins : bins[i].expiresAt > instant}

\* What a step keeps of a bin: all but its calls.
SameBin(b, d) == b.id = d.id /\ b.createdAt = d.createdAt /\ b.expiresAt = d.expiresAt
FewCalls(b) == Len(b.requests) <= MaxRequestsPerBin /\ b.received >= Len(b.requests)

\* The bins are in the order of their creation, each with an id of its own.
MapInv ==
  /\ bins \in Seq(BinRecord) /\ minted \subseteq Bin /\ instant \in Nat
  /\ \A i \in DOMAIN bins : bins[i].id \in minted /\ bins[i].createdAt <= instant /\ FewCalls(bins[i])
  /\ \A i, j \in DOMAIN bins : bins[i].id = bins[j].id => i = j
  /\ \A i, j \in DOMAIN bins : i < j => bins[i].createdAt <= bins[j].createdAt
  /\ Len(bins) <= MaxBins

\* What is left of the bins when the expired ones go.
LEMMA SweptProperties ==
  ASSUME MapInv
  PROVE  /\ Swept \in Seq(BinRecord) /\ Len(Swept) \in Nat /\ Len(Swept) <= Len(bins) /\ DOMAIN Swept = 1..Len(Swept)
         /\ \A n \in 1..Len(Swept) : \E i \in Living : Swept[n] = bins[i]
         /\ \A i \in Living : \E n \in 1..Len(Swept) : Swept[n] = bins[i]
         /\ \A n, k \in 1..Len(Swept) : Swept[n].id = Swept[k].id => n = k
         /\ \A n, k \in 1..Len(Swept) : n < k => Swept[n].createdAt <= Swept[k].createdAt
PROOF
  <1> DEFINE m == Len(bins)
             I == Living
  <1>1. bins \in Seq(BinRecord) /\ m \in Nat /\ DOMAIN bins = 1..m /\ I \in SUBSET (1..m)
    BY LenProperties DEF MapInv, Living
  <1>2. Swept = Picked(bins, I)
    BY DEF Swept, Living
  <1> HIDE DEF I
  <1>3. /\ Swept \in Seq(BinRecord) /\ Len(Swept) = Cardinality(I) /\ DOMAIN Swept = 1..Cardinality(I)
        /\ \A n \in 1..Cardinality(I) : NthOf(I, n) \in I /\ Swept[n] = bins[NthOf(I, n)]
        /\ \A i \in I : \E n \in 1..Cardinality(I) : Swept[n] = bins[i]
    BY <1>1, <1>2, PickedProperties
  <1>4. IsFiniteSet(I) /\ Cardinality(I) \in Nat
    BY <1>1, PositionsAreFinite
  <1>5. Cardinality(I) <= m
    <2>1. IsFiniteSet(1..m) /\ Cardinality(1..m) = m
      <3>1. IsFiniteSet(1..m) /\ Cardinality(1..m) = IF 1 > m THEN 0 ELSE m - 1 + 1
        BY <1>1, FS_Interval
      <3> QED BY <1>1, <3>1
    <2>2. Cardinality(I) <= Cardinality(1..m)
      BY <1>1, <2>1, FS_Subset
    <2> QED BY <2>1, <2>2
  <1>5a. /\ \A i, j \in 1..m : bins[i].id = bins[j].id => i = j
         /\ \A i, j \in 1..m : i < j => bins[i].createdAt <= bins[j].createdAt
    BY <1>1 DEF MapInv
  <1>5b. \A n \in 1..Cardinality(I) : NthOf(I, n) \in 1..m /\ Swept[n] = bins[NthOf(I, n)]
    BY <1>1, <1>3
  <1>6. \A n, k \in 1..Cardinality(I) : Swept[n].id = Swept[k].id => n = k
    <2> SUFFICES ASSUME NEW n \in 1..Cardinality(I), NEW k \in 1..Cardinality(I), Swept[n].id = Swept[k].id
                 PROVE  n = k
      OBVIOUS
    <2>1. NthOf(I, n) = NthOf(I, k)
      BY <1>5a, <1>5b
    <2> QED BY <1>1, <2>1, NthIsInjective
  <1>7. \A n, k \in 1..Cardinality(I) : n < k => Swept[n].createdAt <= Swept[k].createdAt
    <2> SUFFICES ASSUME NEW n \in 1..Cardinality(I), NEW k \in 1..Cardinality(I), n < k
                 PROVE  Swept[n].createdAt <= Swept[k].createdAt
      OBVIOUS
    <2>1. NthOf(I, n) < NthOf(I, k)
      BY <1>1, NthAscends
    <2>2. bins[NthOf(I, n)].createdAt <= bins[NthOf(I, k)].createdAt
      BY <1>5a, <1>5b, <2>1
    <2> QED BY <1>5b, <2>2
  <1> QED BY <1>3, <1>4, <1>5, <1>6, <1>7 DEF I

\* A sweep that touches at most the calls of what it leaves.
LEMMA SweepsAndTouches ==
  ASSUME MapInv, UNCHANGED <<minted, instant>>,
         bins' \in Seq(BinRecord), Len(bins') = Len(Swept),
         \A n \in 1..Len(Swept) : SameBin(bins'[n], Swept[n]) /\ FewCalls(bins'[n])
  PROVE  MapInv' /\ OnlyLivingStore /\ DroppedByAge
PROOF
  <1>1. /\ Swept \in Seq(BinRecord) /\ Len(Swept) \in Nat /\ Len(Swept) <= Len(bins)
        /\ \A n \in 1..Len(Swept) : \E i \in Living : Swept[n] = bins[i]
        /\ \A i \in Living : \E n \in 1..Len(Swept) : Swept[n] = bins[i]
        /\ \A n, k \in 1..Len(Swept) : Swept[n].id = Swept[k].id => n = k
        /\ \A n, k \in 1..Len(Swept) : n < k => Swept[n].createdAt <= Swept[k].createdAt
    BY SweptProperties
  <1>2. DOMAIN bins' = 1..Len(Swept) /\ DOMAIN bins = 1..Len(bins) /\ Len(bins) \in Nat
    BY LenProperties DEF MapInv
  <1>3. /\ \A n \in DOMAIN bins' : bins'[n].id \in minted /\ bins'[n].createdAt <= instant /\ FewCalls(bins'[n])
    BY <1>1, <1>2 DEF MapInv, Living, SameBin
  <1>4. /\ \A i, j \in DOMAIN bins' : bins'[i].id = bins'[j].id => i = j
        /\ \A i, j \in DOMAIN bins' : i < j => bins'[i].createdAt <= bins'[j].createdAt
    BY <1>1, <1>2 DEF SameBin
  <1>5. Len(bins') <= MaxBins
    BY <1>1, <1>2, BinsAssumption DEF MapInv
  <1>6. MapInv'
    BY <1>3, <1>4, <1>5 DEF MapInv, FewCalls
  <1>7. OnlyLivingStore
    <2> SUFFICES ASSUME NEW i \in 1..Len(bins'), NEW k \in 1..Len(bins), bins'[i].id = bins[k].id
                 PROVE  bins[k].expiresAt > instant
      BY DEF OnlyLivingStore
    <2>1. PICK e \in Living : Swept[i] = bins[e]
      BY <1>1
    <2>2. e \in DOMAIN bins /\ k \in DOMAIN bins /\ bins[e].id = bins[k].id /\ bins[e].expiresAt > instant
      BY <1>2, <2>1 DEF Living, SameBin
    <2>3. e = k
      BY <2>2 DEF MapInv
    <2> QED BY <2>2, <2>3
  <1>8. DroppedByAge
    <2> SUFFICES ASSUME NEW k \in 1..Len(bins), bins[k].id \notin {bins'[i].id : i \in 1..Len(bins')}
                 PROVE  bins[k].expiresAt <= instant
      BY DEF DroppedByAge
    <2>1. k \notin Living
      <3> SUFFICES ASSUME k \in Living
                   PROVE  FALSE
        OBVIOUS
      <3>1. PICK n \in 1..Len(Swept) : Swept[n] = bins[k]
        BY <1>1
      <3>2. bins'[n].id = bins[k].id /\ n \in 1..Len(bins')
        BY <3>1 DEF SameBin
      <3> QED BY <3>2
    <2>2. bins[k] \in BinRecord
      BY <1>2, ElementOfSeq DEF MapInv
    <2>3. bins[k].expiresAt \in Nat /\ instant \in Nat
      BY <2>2 DEF BinRecord, MapInv
    <2> QED BY <1>2, <2>1, <2>3 DEF Living
  <1> QED BY <1>6, <1>7, <1>8

\* The oldest of the bins is the first of them.
LEMMA OldestIsFirst ==
  ASSUME NEW bs \in Seq(BinRecord), Len(bs) > 0,
         \A n, k \in 1..Len(bs) : n < k => bs[n].createdAt <= bs[k].createdAt
  PROVE  Oldest(bs) = 1
PROOF
  <1>1. Len(bs) \in Nat /\ \A i \in 1..Len(bs) : bs[i] \in BinRecord
    BY LenProperties, ElementOfSeq
  <1>2. \A i \in 1..Len(bs) : bs[i].createdAt \in Nat
    BY <1>1 DEF BinRecord
  <1> DEFINE First(i) == \A j \in 1..Len(bs) : bs[i].createdAt < bs[j].createdAt \/ (bs[i].createdAt = bs[j].createdAt /\ i <= j)
  <1>3. 1 \in 1..Len(bs)
    BY <1>1
  <1>4. First(1)
    <2> SUFFICES ASSUME NEW j \in 1..Len(bs)
                 PROVE  bs[1].createdAt < bs[j].createdAt \/ (bs[1].createdAt = bs[j].createdAt /\ 1 <= j)
      OBVIOUS
    <2>1. CASE j = 1
      BY <1>2, <2>1
    <2>2. CASE j # 1
      <3>1. bs[1].createdAt <= bs[j].createdAt /\ 1 <= j
        BY <1>1, <1>3, <2>2
      <3> QED BY <1>2, <1>3, <3>1
    <2> QED BY <2>1, <2>2
  <1>5. \A i \in 1..Len(bs) : First(i) => i = 1
    <2> SUFFICES ASSUME NEW i \in 1..Len(bs), First(i)
                 PROVE  i = 1
      OBVIOUS
    <2>1. bs[i].createdAt < bs[1].createdAt \/ i <= 1
      BY <1>3
    <2>2. i # 1 => bs[1].createdAt <= bs[i].createdAt
      BY <1>1, <1>3
    <2> QED BY <1>1, <1>2, <1>3, <2>1, <2>2
  <1>6. Oldest(bs) = CHOOSE i \in 1..Len(bs) : First(i)
    BY DEF Oldest
  <1> HIDE DEF First
  <1> QED BY <1>3, <1>4, <1>5, <1>6

\* A new bin makes room by dropping the oldest.
LEMMA BinCreated ==
  ASSUME MapInv, NEW b \in Bin, b \notin minted, minted' = minted \cup {b}, instant' = instant,
         NEW new \in BinRecord, new.id = b, new.createdAt = instant, FewCalls(new),
         bins' = Append(WithRoom(Swept), new)
  PROVE  MapInv' /\ OnlyLivingStore /\ DroppedByAge
PROOF
  <1> DEFINE W == WithRoom(Swept)
             s == Swept
  <1>1. /\ s \in Seq(BinRecord) /\ Len(s) \in Nat /\ Len(s) <= Len(bins)
        /\ \A n \in 1..Len(s) : \E i \in Living : s[n] = bins[i]
        /\ \A i \in Living : \E n \in 1..Len(s) : s[n] = bins[i]
        /\ \A n, k \in 1..Len(s) : s[n].id = s[k].id => n = k
        /\ \A n, k \in 1..Len(s) : n < k => s[n].createdAt <= s[k].createdAt
    BY SweptProperties
  <1>2. \A i \in 1..Len(s) : s[i] \in BinRecord
    BY <1>1, ElementOfSeq
  <1>3. MaxBins \in Nat \ {0} /\ Len(bins) <= MaxBins /\ Len(bins) \in Nat /\ DOMAIN bins = 1..Len(bins)
    BY BinsAssumption, LenProperties DEF MapInv
  <1> HIDE DEF s
  \* d bins are dropped from the front, none or the first
  <1>4. PICK d \in {0, 1} : /\ W \in Seq(BinRecord) /\ Len(W) = Len(s) - d /\ Len(W) \in Nat /\ Len(W) + 1 <= MaxBins
                            /\ \A n \in 1..Len(W) : W[n] = s[n + d]
                            /\ d = 1 => Len(W) + 1 = MaxBins
    <2>1. CASE Len(s) >= MaxBins
      <3>1. Len(s) > 0 /\ Len(s) = MaxBins
        BY <1>1, <1>3, <2>1
      <3>2. W = RemoveAt(s, 1)
        BY <1>1, <2>1, <3>1, OldestIsFirst DEF WithRoom, s
      <3>3. SubSeq(s, 1, 0) = <<>>
        BY SubSeqEmpty
      <3>4. SubSeq(s, 2, Len(s)) \in Seq(BinRecord) /\ Len(SubSeq(s, 2, Len(s))) = Len(s) - 1
            /\ \A i \in 1..(Len(s) - 1) : SubSeq(s, 2, Len(s))[i] = s[i + 1]
        <4>1. \A i \in 2..Len(s) : s[i] \in BinRecord
          BY <1>1, <1>2
        <4>2. /\ SubSeq(s, 2, Len(s)) \in Seq(BinRecord)
              /\ Len(SubSeq(s, 2, Len(s))) = IF 2 <= Len(s) THEN Len(s) - 2 + 1 ELSE 0
              /\ \A i \in 1..(Len(s) - 2 + 1) : SubSeq(s, 2, Len(s))[i] = s[2 + i - 1]
          BY <1>1, <4>1, SubSeqProperties
        <4>3. Len(s) - 2 + 1 = Len(s) - 1 /\ \A i \in 1..(Len(s) - 1) : 2 + i - 1 = i + 1
          BY <1>1
        <4> QED BY <3>1, <1>1, <4>2, <4>3
      <3>5. W = SubSeq(s, 2, Len(s))
        <4>1. W = SubSeq(s, 1, 1 - 1) \o SubSeq(s, 1 + 1, Len(s))
          BY <3>2 DEF RemoveAt
        <4>2. 1 - 1 = 0 /\ 1 + 1 = 2
          OBVIOUS
        <4>3. W = <<>> \o SubSeq(s, 2, Len(s))
          BY <3>3, <4>1, <4>2
        <4> QED BY <3>4, <4>3, ConcatEmptySeq
      <3> HIDE DEF W
      <3>6. /\ W \in Seq(BinRecord) /\ Len(W) = Len(s) - 1 /\ Len(W) \in Nat /\ Len(W) + 1 <= MaxBins
            /\ \A n \in 1..Len(W) : W[n] = s[n + 1]
            /\ Len(W) + 1 = MaxBins
        BY <1>1, <1>3, <3>1, <3>4, <3>5
      <3> QED BY <3>6
    <2>2. CASE ~(Len(s) >= MaxBins)
      <3>1. W = s
        BY <2>2 DEF WithRoom, s
      <3> HIDE DEF W
      <3>2. /\ W \in Seq(BinRecord) /\ Len(W) = Len(s) - 0 /\ Len(W) \in Nat /\ Len(W) + 1 <= MaxBins
            /\ \A n \in 1..Len(W) : W[n] = s[n + 0]
        BY <1>1, <1>3, <2>2, <3>1
      <3> QED BY <3>2
    <2> QED BY <2>1, <2>2
  <1> HIDE DEF W
  <1>5. /\ bins' \in Seq(BinRecord) /\ Len(bins') = Len(W) + 1 /\ DOMAIN bins' = 1..(Len(W) + 1)
        /\ bins'[Len(W) + 1] = new /\ \A n \in 1..Len(W) : bins'[n] = W[n]
    <2>1. bins' = Append(W, new)
      BY DEF W
    <2> QED BY <1>4, <2>1, AppendProperties, LenProperties
  <1>6. \A n \in 1..(Len(W) + 1) : n = Len(W) + 1 \/ (n \in 1..Len(W) /\ n + d \in 1..Len(s))
    BY <1>1, <1>4
  <1>7. \A n \in 1..Len(W) : n + d \in 1..Len(s) /\ bins'[n] = s[n + d]
    BY <1>1, <1>4, <1>5
  <1>8. \A n \in 1..Len(s) : s[n].id \in minted /\ s[n].createdAt <= instant /\ FewCalls(s[n])
    BY <1>1 DEF MapInv, Living
  <1>9. \A i \in DOMAIN bins' : bins'[i].id \in minted' /\ bins'[i].createdAt <= instant /\ FewCalls(bins'[i])
    BY <1>5, <1>6, <1>7, <1>8 DEF MapInv
  <1>10. \A i, j \in DOMAIN bins' : bins'[i].id = bins'[j].id => i = j
    <2> SUFFICES ASSUME NEW i \in DOMAIN bins', NEW j \in DOMAIN bins', bins'[i].id = bins'[j].id
                 PROVE  i = j
      OBVIOUS
    <2>1. CASE i = Len(W) + 1 /\ j = Len(W) + 1
      BY <2>1
    <2>2. CASE i \in 1..Len(W) /\ j \in 1..Len(W)
      <3> DEFINE e == i + d
                 h == j + d
      <3>1. e \in 1..Len(s) /\ h \in 1..Len(s) /\ s[e].id = s[h].id
        BY <1>7, <2>2
      <3> HIDE DEF e, h
      <3>2. e = h
        BY <1>1, <3>1
      <3> QED BY <1>4, <2>2, <3>2 DEF e, h
    <2>3. CASE (i = Len(W) + 1 /\ j \in 1..Len(W)) \/ (j = Len(W) + 1 /\ i \in 1..Len(W))
      BY <1>5, <1>7, <1>8, <2>3
    <2> QED BY <1>5, <1>6, <2>1, <2>2, <2>3
  <1>11. \A i, j \in DOMAIN bins' : i < j => bins'[i].createdAt <= bins'[j].createdAt
    <2> SUFFICES ASSUME NEW i \in DOMAIN bins', NEW j \in DOMAIN bins', i < j
                 PROVE  bins'[i].createdAt <= bins'[j].createdAt
      OBVIOUS
    <2>1. i \in 1..Len(W) /\ i + d \in 1..Len(s)
      BY <1>4, <1>5, <1>7
    <2>2. CASE j = Len(W) + 1
      BY <1>5, <1>7, <1>8, <2>1, <2>2
    <2>3. CASE j \in 1..Len(W)
      <3> DEFINE e == i + d
                 h == j + d
      <3>1. e < h /\ e \in 1..Len(s) /\ h \in 1..Len(s)
        BY <1>4, <1>7, <2>1, <2>3
      <3>2. bins'[i] = s[e] /\ bins'[j] = s[h]
        BY <1>7, <2>1, <2>3
      <3> HIDE DEF e, h
      <3>3. s[e].createdAt <= s[h].createdAt
        BY <1>1, <3>1
      <3> QED BY <3>2, <3>3
    <2> QED BY <1>5, <1>6, <2>2, <2>3
  <1>12. MapInv'
    <2>1. minted' \subseteq Bin /\ instant' \in Nat /\ Len(bins') <= MaxBins
      BY <1>4, <1>5 DEF MapInv
    <2> QED BY <1>5, <1>9, <1>10, <1>11, <2>1 DEF MapInv, FewCalls
  <1>13. OnlyLivingStore
    <2> SUFFICES ASSUME NEW i \in 1..Len(bins'), NEW k \in 1..Len(bins),
                        bins'[i].id = bins[k].id, bins'[i].received # bins[k].received
                 PROVE  bins[k].expiresAt > instant
      BY DEF OnlyLivingStore
    <2>1. i \in 1..Len(W)
      BY <1>3, <1>5, <1>6 DEF MapInv
    <2>2. PICK e \in Living : bins'[i] = bins[e]
      BY <1>1, <1>7, <2>1
    <2> QED BY <1>3, <2>2 DEF MapInv, Living
  <1>14. DroppedByAge
    <2> SUFFICES ASSUME NEW k \in 1..Len(bins), bins[k].id \notin {bins'[i].id : i \in 1..Len(bins')}, ~(bins[k].expiresAt <= instant)
                 PROVE  Len(bins') = MaxBins /\ \A i \in 1..Len(bins') : bins'[i].createdAt >= bins[k].createdAt
      BY DEF DroppedByAge
    <2>1. bins[k].expiresAt \in Nat /\ instant \in Nat /\ bins[k].createdAt \in Nat /\ bins[k].createdAt <= instant
      <3>1. bins[k] \in BinRecord
        BY <1>3, ElementOfSeq DEF MapInv
      <3>2. bins[k].createdAt <= instant
        BY <1>3 DEF MapInv
      <3> QED BY <3>1, <3>2 DEF MapInv, BinRecord
    <2>2. PICK n \in 1..Len(s) : s[n] = bins[k]
      BY <1>1, <1>3, <2>1 DEF Living
    <2>3. n <= d
      <3> SUFFICES ASSUME ~(n <= d)
                   PROVE  FALSE
        OBVIOUS
      <3>1. n - d \in 1..Len(W) /\ (n - d) + d = n
        BY <1>1, <1>4
      <3>2. bins'[n - d] = bins[k] /\ n - d \in 1..Len(bins')
        BY <1>4, <1>5, <1>7, <2>2, <3>1
      <3> QED BY <3>2
    <2>4. d = 1 /\ n = 1
      BY <1>1, <2>3
    <2>5. \A i \in 1..Len(bins') : bins'[i].createdAt >= bins[k].createdAt
      <3> SUFFICES ASSUME NEW i \in 1..Len(bins')
                   PROVE  bins'[i].createdAt >= bins[k].createdAt
        OBVIOUS
      <3>1. CASE i = Len(W) + 1
        BY <1>5, <2>1, <3>1
      <3>2. CASE i \in 1..Len(W)
        <4>1. i + 1 \in 1..Len(s) /\ bins'[i] = s[i + 1] /\ 1 < i + 1
          BY <1>4, <1>7, <2>4, <3>2
        <4>2. s[1].createdAt <= s[i + 1].createdAt
          BY <1>1, <2>4, <4>1
        <4>3. s[i + 1].createdAt \in Nat
          BY <1>2, <4>1 DEF BinRecord
        <4> QED BY <2>1, <2>2, <2>4, <4>1, <4>2, <4>3
      <3> QED BY <1>5, <1>6, <3>1, <3>2
    <2> QED BY <1>4, <1>5, <2>4, <2>5
  <1> QED BY <1>12, <1>13, <1>14

\* Of the tokens the limiter gave a client: the last ones, as many as the entry
\* counts, in the window of the entry; those before them no later than its
\* start; and those before the limit's worth of these, a window before that.
Counted1(c) == IF entries[c].count < RateLimit THEN entries[c].count ELSE RateLimit
WindowStart(c) == entries[c].resetAt - RateWindow

LimiterInv ==
  /\ instant \in Nat
  /\ entries \in [Client -> [count : Nat, resetAt : Nat]]
  /\ granted \in [Client -> Seq(Nat)]
  /\ \A c \in Client :
       /\ \A i \in DOMAIN granted[c] : granted[c][i] <= instant
       /\ \A i \in 1..Len(granted[c]) - 2 * RateLimit : granted[c][i + 2 * RateLimit] - granted[c][i] >= RateWindow
       /\ entries[c] # NoEntry =>
            /\ WindowStart(c) <= instant
            /\ \A i \in DOMAIN granted[c] : i <= Len(granted[c]) - Counted1(c) => granted[c][i] <= WindowStart(c)
            /\ \A i \in DOMAIN granted[c] :
                 i <= Len(granted[c]) - Counted1(c) - RateLimit => granted[c][i] <= WindowStart(c) - RateWindow
       /\ entries[c] = NoEntry =>
            \A i \in DOMAIN granted[c] : i <= Len(granted[c]) - RateLimit => granted[c][i] <= instant - RateWindow

\* Once a window is over, its tokens and those before it are old enough.
LEMMA WindowOver ==
  ASSUME LimiterInv, NEW c \in Client, entries[c].resetAt <= instant
  PROVE  \A i \in DOMAIN granted[c] : i <= Len(granted[c]) - RateLimit => granted[c][i] <= instant - RateWindow
PROOF
  <1> SUFFICES ASSUME NEW i \in DOMAIN granted[c], i <= Len(granted[c]) - RateLimit
               PROVE  granted[c][i] <= instant - RateWindow
    OBVIOUS
  <1>1. RateLimit \in Nat \ {0} /\ RateWindow \in Nat \ {0} /\ instant \in Nat /\ entries[c].resetAt \in Nat /\ entries[c].count \in Nat
    BY BinsAssumption DEF LimiterInv
  <1>2. granted[c] \in Seq(Nat) /\ Len(granted[c]) \in Nat /\ DOMAIN granted[c] = 1..Len(granted[c])
    BY LenProperties DEF LimiterInv
  <1>3. granted[c][i] \in Nat
    BY <1>2, ElementOfSeq
  <1>4. CASE entries[c] = NoEntry
    BY <1>4 DEF LimiterInv
  <1>5. CASE entries[c] # NoEntry
    <2>1. Counted1(c) \in Nat /\ Counted1(c) <= RateLimit
      BY <1>1 DEF Counted1
    <2>2. i <= Len(granted[c]) - Counted1(c)
      BY <1>1, <1>2, <2>1
    <2>3. granted[c][i] <= WindowStart(c)
      BY <1>5, <2>2 DEF LimiterInv
    <2> QED BY <1>1, <1>3, <2>3 DEF WindowStart
  <1> QED BY <1>4, <1>5

\* What the entry of the client becomes, and that of any other.
LEMMA EntriesTaken ==
  ASSUME LimiterInv, NEW c \in Client, TakeToken(c)
  PROVE  /\ entries' \in [Client -> [count : Nat, resetAt : Nat]]
         /\ entries[c].resetAt <= instant =>
              entries'[c] = [count |-> 1, resetAt |-> instant + RateWindow] /\ granted' = [granted EXCEPT ![c] = Append(@, instant)]
         /\ ~(entries[c].resetAt <= instant) /\ entries[c].count < RateLimit =>
              entries'[c] = [count |-> entries[c].count + 1, resetAt |-> entries[c].resetAt] /\ granted' = [granted EXCEPT ![c] = Append(@, instant)]
         /\ ~(entries[c].resetAt <= instant) /\ ~(entries[c].count < RateLimit) =>
              entries'[c].resetAt = entries[c].resetAt /\ entries'[c].count >= RateLimit /\ granted' = granted
         /\ \A d \in Client : d # c => entries'[d] = entries[d] \/ (entries'[d] = NoEntry /\ entries[d].resetAt <= instant)
PROOF
  <1>1. /\ RateLimit \in Nat \ {0} /\ RateWindow \in Nat \ {0} /\ instant \in Nat
        /\ entries \in [Client -> [count : Nat, resetAt : Nat]]
    BY BinsAssumption DEF LimiterInv
  <1>2. /\ PruneEntries \in [Client -> [count : Nat, resetAt : Nat]]
        /\ \A d \in Client : PruneEntries[d] = entries[d] \/ (PruneEntries[d] = NoEntry /\ entries[d].resetAt <= instant)
    BY <1>1 DEF PruneEntries, NoEntry
  <1> DEFINE E == Entry(c)
  <1>3. E = IF entries[c].resetAt <= instant THEN [count |-> 0, resetAt |-> instant + RateWindow] ELSE entries[c]
    BY <1>1, <1>2 DEF Entry, NoEntry
  <1>4. E \in [count : Nat, resetAt : Nat]
    BY <1>1, <1>3
  <1>5. /\ entries' = [PruneEntries EXCEPT ![c] = [E EXCEPT !.count = IF E.count > RateLimit THEN E.count ELSE E.count + 1]]
        /\ granted' = IF E.count + 1 <= RateLimit THEN [granted EXCEPT ![c] = Append(@, instant)] ELSE granted
    BY DEF TakeToken, Allowed
  <1> HIDE DEF E
  <1>6. /\ entries' \in [Client -> [count : Nat, resetAt : Nat]]
        /\ entries'[c] = [count |-> IF E.count > RateLimit THEN E.count ELSE E.count + 1, resetAt |-> E.resetAt]
        /\ \A d \in Client : d # c => entries'[d] = PruneEntries[d]
    <2> DEFINE F == [E EXCEPT !.count = IF E.count > RateLimit THEN E.count ELSE E.count + 1]
    <2>1. E.count \in Nat /\ E.resetAt \in Nat /\ E = [count |-> E.count, resetAt |-> E.resetAt]
      BY <1>4
    <2>2. F = [count |-> IF E.count > RateLimit THEN E.count ELSE E.count + 1, resetAt |-> E.resetAt]
      BY <2>1
    <2>3. F \in [count : Nat, resetAt : Nat]
      BY <1>1, <2>1, <2>2
    <2> HIDE DEF F
    <2>4. entries' = [PruneEntries EXCEPT ![c] = F]
      BY <1>5 DEF F
    <2>5. entries' \in [Client -> [count : Nat, resetAt : Nat]] /\ entries'[c] = F
      BY <1>2, <2>3, <2>4
    <2>6. \A d \in Client : d # c => entries'[d] = PruneEntries[d]
      BY <1>2, <2>4
    <2> QED BY <2>2, <2>5, <2>6
  <1>7. ASSUME entries[c].resetAt <= instant
        PROVE  entries'[c] = [count |-> 1, resetAt |-> instant + RateWindow] /\ granted' = [granted EXCEPT ![c] = Append(@, instant)]
    <2>1. E.count = 0 /\ E.resetAt = instant + RateWindow
      BY <1>3, <1>7
    <2> QED BY <1>1, <1>5, <1>6, <2>1
  <1>8. ASSUME ~(entries[c].resetAt <= instant), entries[c].count < RateLimit
        PROVE  entries'[c] = [count |-> entries[c].count + 1, resetAt |-> entries[c].resetAt] /\ granted' = [granted EXCEPT ![c] = Append(@, instant)]
    <2>1. E = entries[c] /\ entries[c].count \in Nat
      BY <1>1, <1>3, <1>8
    <2> QED BY <1>1, <1>5, <1>6, <1>8, <2>1
  <1>9. ASSUME ~(entries[c].resetAt <= instant), ~(entries[c].count < RateLimit)
        PROVE  entries'[c].resetAt = entries[c].resetAt /\ entries'[c].count >= RateLimit /\ granted' = granted
    <2>1. E = entries[c] /\ entries[c].count \in Nat
      BY <1>1, <1>3, <1>9
    <2> QED BY <1>1, <1>5, <1>6, <1>9, <2>1
  <1> QED BY <1>2, <1>6, <1>7, <1>8, <1>9

\* A call let through or refused is counted in the window it came in.
LEMMA TokenTaken ==
  ASSUME LimiterInv, NEW c \in Client, TakeToken(c), instant' = instant
  PROVE  LimiterInv'
PROOF
  <1>1. /\ RateLimit \in Nat \ {0} /\ RateWindow \in Nat \ {0} /\ instant \in Nat
        /\ entries \in [Client -> [count : Nat, resetAt : Nat]] /\ granted \in [Client -> Seq(Nat)]
    BY BinsAssumption DEF LimiterInv
  <1>2. /\ entries' \in [Client -> [count : Nat, resetAt : Nat]]
        /\ entries[c].resetAt <= instant =>
             entries'[c] = [count |-> 1, resetAt |-> instant + RateWindow] /\ granted' = [granted EXCEPT ![c] = Append(@, instant)]
        /\ ~(entries[c].resetAt <= instant) /\ entries[c].count < RateLimit =>
             entries'[c] = [count |-> entries[c].count + 1, resetAt |-> entries[c].resetAt] /\ granted' = [granted EXCEPT ![c] = Append(@, instant)]
        /\ ~(entries[c].resetAt <= instant) /\ ~(entries[c].count < RateLimit) =>
             entries'[c].resetAt = entries[c].resetAt /\ entries'[c].count >= RateLimit /\ granted' = granted
        /\ \A d \in Client : d # c => entries'[d] = entries[d] \/ (entries'[d] = NoEntry /\ entries[d].resetAt <= instant)
    BY EntriesTaken
  <1> DEFINE g == granted[c]
             h == granted'[c]
             n == Len(g)
             s == WindowStart(c)
             s2 == entries'[c].resetAt - RateWindow
             k == Counted1(c)
             k2 == IF entries'[c].count < RateLimit THEN entries'[c].count ELSE RateLimit
  <1>3. g \in Seq(Nat) /\ n \in Nat /\ DOMAIN g = 1..n /\ \A i \in 1..n : g[i] \in Nat /\ g[i] <= instant
    BY <1>1, LenProperties, ElementOfSeq DEF LimiterInv
  <1>4. entries[c].resetAt \in Nat /\ entries[c].count \in Nat /\ k \in Nat /\ s \in Int /\ k <= RateLimit
    BY <1>1 DEF Counted1, WindowStart
  <1>5. ASSUME granted' = [granted EXCEPT ![c] = Append(g, instant)]
        PROVE  /\ granted' \in [Client -> Seq(Nat)] /\ h \in Seq(Nat) /\ Len(h) = n + 1 /\ DOMAIN h = 1..(n + 1)
               /\ h[n + 1] = instant /\ \A i \in 1..n : h[i] = g[i]
    <2>1. Append(g, instant) \in Seq(Nat)
      BY <1>1, <1>3, AppendProperties
    <2>2. h = Append(g, instant) /\ granted' \in [Client -> Seq(Nat)]
      BY <1>1, <1>5, <2>1
    <2> QED BY <1>1, <1>3, <2>1, <2>2, AppendProperties, LenProperties
  \* what LimiterInv' says of the client
  <1> DEFINE Ofc ==
        /\ \A i \in DOMAIN h : h[i] <= instant
        /\ \A i \in 1..Len(h) - 2 * RateLimit : h[i + 2 * RateLimit] - h[i] >= RateWindow
        /\ s2 <= instant
        /\ \A i \in DOMAIN h : i <= Len(h) - k2 => h[i] <= s2
        /\ \A i \in DOMAIN h : i <= Len(h) - k2 - RateLimit => h[i] <= s2 - RateWindow
        /\ entries'[c] # NoEntry
  <1>6. \A i \in 1..n - 2 * RateLimit : g[i + 2 * RateLimit] - g[i] >= RateWindow
    BY DEF LimiterInv
  \* a token more: the one twice the limit before it is a window old
  <1>7. ASSUME granted' = [granted EXCEPT ![c] = Append(g, instant)],
               \A i \in 1..n : i <= n + 1 - 2 * RateLimit => g[i] <= instant - RateWindow
        PROVE  /\ \A i \in DOMAIN h : h[i] <= instant
               /\ \A i \in 1..Len(h) - 2 * RateLimit : h[i + 2 * RateLimit] - h[i] >= RateWindow
    <2>1. /\ Len(h) = n + 1 /\ DOMAIN h = 1..(n + 1) /\ h[n + 1] = instant /\ \A i \in 1..n : h[i] = g[i]
      BY <1>5, <1>7
    <2> HIDE DEF h, g, n
    <2>2. \A i \in DOMAIN h : h[i] <= instant
      BY <1>1, <1>3, <2>1
    <2>3. ASSUME NEW i \in 1..Len(h) - 2 * RateLimit
          PROVE  h[i + 2 * RateLimit] - h[i] >= RateWindow
      <3>1. i \in 1..n /\ h[i] = g[i] /\ g[i] \in Nat
        BY <1>1, <1>3, <2>1
      <3>2. CASE i = n + 1 - 2 * RateLimit
        <4>1. i + 2 * RateLimit = n + 1 /\ g[i] <= instant - RateWindow
          BY <1>1, <1>3, <1>7, <3>1, <3>2
        <4> QED BY <1>1, <2>1, <3>1, <4>1
      <3>3. CASE i # n + 1 - 2 * RateLimit
        <4>1. i \in 1..n - 2 * RateLimit /\ i + 2 * RateLimit \in 1..n
          BY <1>1, <1>3, <2>1, <3>3
        <4>2. g[i + 2 * RateLimit] - g[i] >= RateWindow
          BY <1>6, <4>1
        <4> QED BY <2>1, <3>1, <4>1, <4>2
      <3> QED BY <3>2, <3>3
    <2> QED BY <2>2, <2>3
  <1>8. Ofc
    <2>1. CASE entries[c].resetAt <= instant
      <3>1. entries'[c] = [count |-> 1, resetAt |-> instant + RateWindow] /\ granted' = [granted EXCEPT ![c] = Append(g, instant)]
        BY <1>2, <2>1
      <3>2. \A i \in 1..n : i <= n - RateLimit => g[i] <= instant - RateWindow
        BY <1>3, <2>1, WindowOver
      <3>3. \A i \in 1..n : i <= n + 1 - 2 * RateLimit => g[i] <= instant - RateWindow
        BY <1>1, <1>3, <3>2
      <3>4. s2 = instant /\ k2 = 1
        BY <1>1, <3>1
      <3>5. /\ Len(h) = n + 1 /\ DOMAIN h = 1..(n + 1) /\ \A i \in 1..n : h[i] = g[i]
        BY <1>5, <3>1
      <3>6. entries'[c] # NoEntry
        BY <3>1 DEF NoEntry
      <3>7. /\ \A i \in DOMAIN h : h[i] <= instant
            /\ \A i \in 1..Len(h) - 2 * RateLimit : h[i + 2 * RateLimit] - h[i] >= RateWindow
        BY <1>7, <3>1, <3>3
      <3> HIDE DEF h, g, n, s2, k2
      <3>8. \A i \in DOMAIN h : i <= Len(h) - k2 - RateLimit => h[i] <= s2 - RateWindow
        <4> SUFFICES ASSUME NEW i \in 1..(n + 1), i <= (n + 1) - 1 - RateLimit
                     PROVE  h[i] <= instant - RateWindow
          BY <3>4, <3>5
        <4>1. i \in 1..n /\ i <= n - RateLimit
          BY <1>1, <1>3
        <4> QED BY <3>2, <3>5, <4>1
      <3> QED BY <1>1, <3>4, <3>6, <3>7, <3>8
    <2>2. CASE ~(entries[c].resetAt <= instant)
      <3>0. entries[c] # NoEntry
        BY <1>1, <2>2 DEF NoEntry
      <3>1. /\ s <= instant
            /\ \A i \in 1..n : i <= n - k => g[i] <= s
            /\ \A i \in 1..n : i <= n - k - RateLimit => g[i] <= s - RateWindow
        BY <1>3, <3>0 DEF LimiterInv
      <3>2. CASE entries[c].count < RateLimit
        <4>1. entries'[c] = [count |-> entries[c].count + 1, resetAt |-> entries[c].resetAt] /\ granted' = [granted EXCEPT ![c] = Append(g, instant)]
          BY <1>2, <2>2, <3>2
        <4>2. s2 = s /\ k = entries[c].count /\ k2 = k + 1
          BY <1>1, <1>4, <3>2, <4>1 DEF Counted1, WindowStart
        <4>3. \A i \in 1..n : i <= n + 1 - 2 * RateLimit => g[i] <= instant - RateWindow
          <5> HIDE DEF g, n, s, k, k2, s2
          <5> SUFFICES ASSUME NEW i \in 1..n, i <= n + 1 - 2 * RateLimit
                       PROVE  g[i] <= instant - RateWindow
            OBVIOUS
          <5>1. i <= n - k - RateLimit
            BY <1>1, <1>3, <1>4, <3>2, <4>2
          <5>2. g[i] <= s - RateWindow /\ g[i] \in Nat
            BY <1>3, <3>1, <5>1
          <5> QED BY <1>1, <1>4, <3>1, <5>2
        <4>4. /\ Len(h) = n + 1 /\ DOMAIN h = 1..(n + 1) /\ \A i \in 1..n : h[i] = g[i]
          BY <1>5, <4>1
        <4>5. entries'[c] # NoEntry
          BY <1>1, <2>2, <4>1 DEF NoEntry
        <4>6. /\ \A i \in DOMAIN h : h[i] <= instant
              /\ \A i \in 1..Len(h) - 2 * RateLimit : h[i + 2 * RateLimit] - h[i] >= RateWindow
          BY <1>7, <4>1, <4>3
        <4> HIDE DEF h, g, n, s2, k2, s, k
        <4>7. \A i \in DOMAIN h : i <= Len(h) - k2 => i \in 1..n /\ i <= n - k
          BY <1>3, <1>4, <4>2, <4>4
        <4>8. \A i \in DOMAIN h : i <= Len(h) - k2 - RateLimit => i \in 1..n /\ i <= n - k - RateLimit
          <5> SUFFICES ASSUME NEW i \in 1..(n + 1), i <= (n + 1) - (k + 1) - RateLimit
                       PROVE  i \in 1..n /\ i <= n - k - RateLimit
            BY <4>2, <4>4
          <5> QED BY <1>1, <1>3, <1>4
        <4>9. \A i \in DOMAIN h : i <= Len(h) - k2 => h[i] <= s2
          BY <3>1, <4>2, <4>4, <4>7
        <4>10. \A i \in DOMAIN h : i <= Len(h) - k2 - RateLimit => h[i] <= s2 - RateWindow
          BY <3>1, <4>2, <4>4, <4>8
        <4> QED BY <3>1, <4>2, <4>5, <4>6, <4>9, <4>10
      <3>3. CASE ~(entries[c].count < RateLimit)
        <4>1. entries'[c].resetAt = entries[c].resetAt /\ entries'[c].count >= RateLimit /\ granted' = granted
          BY <1>2, <2>2, <3>3
        <4>2. entries'[c].count \in Nat
          BY <1>2
        <4>3. s2 = s /\ k = RateLimit /\ k2 = k /\ h = g
          BY <1>1, <1>4, <3>3, <4>1, <4>2 DEF Counted1, WindowStart
        <4>4. entries'[c] # NoEntry
          BY <1>1, <2>2, <4>1 DEF NoEntry
        <4> HIDE DEF h, g, s2, k2, s, k
        <4> QED BY <1>3, <1>6, <3>1, <4>3, <4>4 DEF n
      <3> QED BY <3>2, <3>3
    <2> QED BY <2>1, <2>2
  <1>9. granted' \in [Client -> Seq(Nat)] /\ \A d \in Client : d # c => granted'[d] = granted[d]
    <2>1. granted' = granted \/ granted' = [granted EXCEPT ![c] = Append(g, instant)]
      BY <1>2
    <2> QED BY <1>1, <1>5, <2>1
  <1> DEFINE LetThrough(d) ==
        /\ \A i \in DOMAIN granted[d] : granted[d][i] <= instant
        /\ \A i \in 1..Len(granted[d]) - 2 * RateLimit : granted[d][i + 2 * RateLimit] - granted[d][i] >= RateWindow
        /\ entries[d] # NoEntry =>
             /\ WindowStart(d) <= instant
             /\ \A i \in DOMAIN granted[d] : i <= Len(granted[d]) - Counted1(d) => granted[d][i] <= WindowStart(d)
             /\ \A i \in DOMAIN granted[d] :
                  i <= Len(granted[d]) - Counted1(d) - RateLimit => granted[d][i] <= WindowStart(d) - RateWindow
        /\ entries[d] = NoEntry =>
             \A i \in DOMAIN granted[d] : i <= Len(granted[d]) - RateLimit => granted[d][i] <= instant - RateWindow
  <1>10. LetThrough(c)'
    <2>1. Counted1(c)' = k2 /\ WindowStart(c)' = s2
      BY DEF Counted1, WindowStart
    <2> HIDE DEF s2, k2
    <2> QED BY <1>8, <2>1
  <1>11. ASSUME NEW d \in Client, d # c
         PROVE  LetThrough(d)'
    <2>1. granted'[d] = granted[d] /\ LetThrough(d)
      BY <1>9, <1>11 DEF LimiterInv
    <2>2. CASE entries'[d] = entries[d]
      <3>1. Counted1(d)' = Counted1(d) /\ WindowStart(d)' = WindowStart(d)
        BY <2>2 DEF Counted1, WindowStart
      <3> QED BY <2>1, <2>2, <3>1
    <2>3. CASE entries'[d] = NoEntry /\ entries[d].resetAt <= instant
      <3>1. \A i \in DOMAIN granted[d] : i <= Len(granted[d]) - RateLimit => granted[d][i] <= instant - RateWindow
        BY <2>3, WindowOver
      <3> QED BY <2>1, <2>3, <3>1
    <2> QED BY <1>2, <1>11, <2>2, <2>3
  <1>12. \A d \in Client : LetThrough(d)'
    BY <1>10, <1>11
  <1>13. instant' \in Nat
    BY <1>1
  <1> QED BY <1>2, <1>9, <1>12, <1>13 DEF LimiterInv

\* No step breaks what the limiter counted since a window began.
LEMMA LimiterInvStep == LimiterInv /\ [BinsNext]_binVars => LimiterInv'
PROOF
  <1> SUFFICES ASSUME LimiterInv, [BinsNext]_binVars
               PROVE  LimiterInv'
    OBVIOUS
  <1>1. ASSUME UNCHANGED <<instant, entries, granted>>
        PROVE  LimiterInv'
    BY <1>1 DEF LimiterInv, Counted1, WindowStart
  <1>2. ASSUME NEW c \in Client, NEW b \in Bin, CreateBin(c, b)
        PROVE  LimiterInv'
    <2>1. TakeToken(c) /\ instant' = instant
      BY <1>2 DEF CreateBin
    <2> QED BY <2>1, TokenTaken
  <1>3. ASSUME NEW b \in Bin, ReadBin(b) \/ ClearBin(b)
        PROVE  LimiterInv'
    BY <1>1, <1>3 DEF ReadBin, ClearBin
  <1>4. ASSUME NEW w \in Webhook, BodyRead(w) \/ \E b \in Bin : WebhookArrives(w, b)
        PROVE  LimiterInv'
    BY <1>1, <1>4 DEF BodyRead, WebhookArrives
  <1>5. CASE BinsTick
    <2>1. instant' = instant + 1 /\ UNCHANGED <<entries, granted>>
      BY <1>5 DEF BinsTick
    <2>2. /\ instant \in Nat /\ RateWindow \in Nat /\ granted \in [Client -> Seq(Nat)]
          /\ entries \in [Client -> [count : Nat, resetAt : Nat]]
      BY BinsAssumption DEF LimiterInv
    <2>3. \A c \in Client : \A i \in DOMAIN granted[c] : granted[c][i] \in Nat
      BY <2>2, ElementOfSeq
    <2>4. \A c \in Client : WindowStart(c)' = WindowStart(c) /\ Counted1(c)' = Counted1(c) /\ WindowStart(c) \in Int
      BY <2>1, <2>2 DEF WindowStart, Counted1
    <2>5. \A x \in Int : (x <= instant => x <= instant + 1) /\ (x <= instant - RateWindow => x <= (instant + 1) - RateWindow)
      BY <2>2
    <2>6. instant + 1 \in Nat
      BY <2>2
    <2>7. \A c \in Client :
            /\ \A i \in DOMAIN granted[c] : granted[c][i] <= instant + 1
            /\ entries[c] # NoEntry => WindowStart(c) <= instant + 1
            /\ entries[c] = NoEntry =>
                 \A i \in DOMAIN granted[c] : i <= Len(granted[c]) - RateLimit => granted[c][i] <= (instant + 1) - RateWindow
      BY <2>3, <2>4, <2>5 DEF LimiterInv
    <2> QED BY <2>1, <2>2, <2>4, <2>6, <2>7 DEF LimiterInv
  <1>6. CASE UNCHANGED binVars
    BY <1>1, <1>6 DEF binVars
  <1> QED BY <1>2, <1>3, <1>4, <1>5, <1>6 DEF BinsNext

\* The order of the boxes and the counts of the limiter hold at first.
LEMMA BinsInvInit == BinsInit => MapInv /\ LimiterInv
PROOF
  <1> SUFFICES ASSUME BinsInit
               PROVE  MapInv /\ LimiterInv
    OBVIOUS
  <1>1. \A S : <<>> \in Seq(S) /\ DOMAIN <<>> = {} /\ Len(<<>>) = 0
    OBVIOUS
  <1>2. RateLimit \in Nat \ {0} /\ MaxBins \in Nat
    BY BinsAssumption
  <1>3. MapInv
    BY <1>1, <1>2 DEF BinsInit, MapInv
  <1>4. LimiterInv
    <2>1. /\ entries \in [Client -> [count : Nat, resetAt : Nat]] /\ granted \in [Client -> Seq(Nat)] /\ instant \in Nat
          /\ \A c \in Client : granted[c] = <<>> /\ entries[c] = NoEntry
      BY <1>1 DEF BinsInit, NoEntry
    <2>2. 1..(0 - 2 * RateLimit) = {}
      BY <1>2
    <2> QED BY <1>1, <2>1, <2>2 DEF LimiterInv
  <1> QED BY <1>3, <1>4

\* No step breaks the order of the boxes; only living ones take calls, and age
\* alone drops one.
LEMMA MapInvStep == MapInv /\ [BinsNext]_binVars => MapInv' /\ (OnlyLivingStore /\ DroppedByAge)
PROOF
  <1> SUFFICES ASSUME MapInv, [BinsNext]_binVars
               PROVE  MapInv' /\ OnlyLivingStore /\ DroppedByAge
    OBVIOUS
  <1>0. /\ bins \in Seq(BinRecord) /\ Len(bins) \in Nat /\ DOMAIN bins = 1..Len(bins) /\ instant \in Nat
        /\ \A i \in 1..Len(bins) : bins[i] \in BinRecord
    BY LenProperties, ElementOfSeq DEF MapInv
  <1>4. /\ Swept \in Seq(BinRecord) /\ Len(Swept) \in Nat /\ \A n \in 1..Len(Swept) : Swept[n] \in BinRecord /\ FewCalls(Swept[n])
    <2>1. /\ Swept \in Seq(BinRecord) /\ Len(Swept) \in Nat
          /\ \A n \in 1..Len(Swept) : \E i \in Living : Swept[n] = bins[i]
      BY SweptProperties
    <2>2. \A i \in Living : FewCalls(bins[i])
      BY DEF MapInv, Living
    <2> QED BY <2>1, <2>2, ElementOfSeq
  <1>1. ASSUME UNCHANGED <<bins, minted>>, instant' \in Nat, instant <= instant'
        PROVE  MapInv' /\ OnlyLivingStore /\ DroppedByAge
    <2>1. MapInv'
      <3>1. \A i \in DOMAIN bins : bins[i].createdAt <= instant'
        <4> SUFFICES ASSUME NEW i \in DOMAIN bins
                     PROVE  bins[i].createdAt <= instant'
          OBVIOUS
        <4>1. bins[i].createdAt \in Nat /\ bins[i].createdAt <= instant
          BY <1>0 DEF BinRecord, MapInv
        <4> QED BY <1>0, <1>1, <4>1
      <3> QED BY <1>1, <3>1 DEF MapInv, FewCalls
    <2>2. OnlyLivingStore
      <3> SUFFICES ASSUME NEW i \in 1..Len(bins), NEW k \in 1..Len(bins), bins[i].id = bins[k].id
                   PROVE  bins[i].received = bins[k].received
        BY <1>1 DEF OnlyLivingStore
      <3> QED BY <1>0 DEF MapInv
    <2>3. DroppedByAge
      BY <1>1 DEF DroppedByAge
    <2> QED BY <2>1, <2>2, <2>3
  <1>2. ASSUME NEW c \in Client, NEW b \in Bin, CreateBin(c, b)
        PROVE  MapInv' /\ OnlyLivingStore /\ DroppedByAge
    <2>1. b \notin minted /\ instant' = instant
      BY <1>2 DEF CreateBin
    <2>2. CASE ~Allowed(c)
      <3>1. UNCHANGED <<bins, minted>>
        BY <1>2, <2>2 DEF CreateBin
      <3> QED BY <1>0, <1>1, <2>1, <3>1
    <2>3. CASE Allowed(c)
      <3> DEFINE new == [id |-> b, createdAt |-> instant, expiresAt |-> instant + BinTtl, requests |-> <<>>, received |-> 0]
      <3>1. minted' = minted \cup {b} /\ bins' = Append(WithRoom(Swept), new)
        BY <1>2, <2>3 DEF CreateBin
      <3>2. new \in BinRecord /\ new.id = b /\ new.createdAt = instant /\ FewCalls(new)
        <4>1. BinTtl \in Nat /\ MaxRequestsPerBin \in Nat /\ <<>> \in Seq(Webhook) /\ Len(<<>>) = 0
          BY BinsAssumption
        <4> QED BY <1>0, <4>1 DEF BinRecord, FewCalls
      <3> HIDE DEF new
      <3> QED BY <2>1, <3>1, <3>2, BinCreated
    <2> QED BY <2>2, <2>3
  <1>3. ASSUME NEW b \in Bin, ReadBin(b)
        PROVE  MapInv' /\ OnlyLivingStore /\ DroppedByAge
    <2>1. bins' = Swept /\ UNCHANGED <<minted, instant>>
      BY <1>3 DEF ReadBin
    <2>2. \A n \in 1..Len(Swept) : SameBin(Swept[n], Swept[n]) /\ FewCalls(Swept[n])
      BY <1>4 DEF SameBin
    <2> QED BY <1>4, <2>1, <2>2, SweepsAndTouches
  <1>5. ASSUME NEW b \in Bin, ClearBin(b)
        PROVE  MapInv' /\ OnlyLivingStore /\ DroppedByAge
    <2> DEFINE Touched(r) == [r EXCEPT !.requests = <<>>]
    <2>1. /\ bins' = [n \in 1..Len(Swept) |-> IF Swept[n].id = b THEN Touched(Swept[n]) ELSE Swept[n]]
          /\ UNCHANGED <<minted, instant>>
      BY <1>5 DEF ClearBin
    <2>2. \A r \in BinRecord : Touched(r) \in BinRecord /\ SameBin(Touched(r), r) /\ FewCalls(Touched(r))
      <3>1. MaxRequestsPerBin \in Nat /\ <<>> \in Seq(Webhook) /\ Len(<<>>) = 0
        BY BinsAssumption
      <3> SUFFICES ASSUME NEW r \in BinRecord
                   PROVE  Touched(r) \in BinRecord /\ SameBin(Touched(r), r) /\ FewCalls(Touched(r))
        OBVIOUS
      <3>2. /\ Touched(r) = [id |-> r.id, createdAt |-> r.createdAt, expiresAt |-> r.expiresAt, requests |-> <<>>, received |-> r.received]
            /\ r.id \in Bin /\ r.createdAt \in Nat /\ r.expiresAt \in Nat /\ r.received \in Nat
        BY DEF BinRecord
      <3> HIDE DEF Touched
      <3>3. Touched(r) \in BinRecord
        BY <3>1, <3>2 DEF BinRecord
      <3> QED BY <3>1, <3>2, <3>3 DEF SameBin, FewCalls
    <2> HIDE DEF Touched
    <2>3. \A n \in 1..Len(Swept) : bins'[n] \in BinRecord /\ SameBin(bins'[n], Swept[n]) /\ FewCalls(bins'[n])
      BY <1>4, <2>1, <2>2 DEF SameBin
    <2>4. bins' \in Seq(BinRecord) /\ Len(bins') = Len(Swept)
      <3>1. bins' \in [1..Len(Swept) -> BinRecord]
        BY <2>1, <2>3
      <3> QED BY <1>4, <3>1, SeqDef, LenProperties
    <2> QED BY <2>1, <2>3, <2>4, SweepsAndTouches
  <1>6. ASSUME NEW w \in Webhook, BodyRead(w)
        PROVE  MapInv' /\ OnlyLivingStore /\ DroppedByAge
    <2>1. /\ bins' = [n \in 1..Len(Swept) |-> IF Swept[n].id = hook[w].bin THEN Received(Swept[n], w) ELSE Swept[n]]
          /\ UNCHANGED <<minted, instant>>
      BY <1>6 DEF BodyRead
    <2>2. ASSUME NEW r \in BinRecord, FewCalls(r)
          PROVE  Received(r, w) \in BinRecord /\ SameBin(Received(r, w), r) /\ FewCalls(Received(r, w))
      <3> DEFINE more == <<w>> \o r.requests
                 few == UpTo(more, MaxRequestsPerBin)
      <3>1. r.requests \in Seq(Webhook) /\ Len(r.requests) \in Nat /\ r.received \in Nat /\ MaxRequestsPerBin \in Nat
        BY BinsAssumption, LenProperties DEF BinRecord
      <3>2. <<w>> \in Seq(Webhook) /\ Len(<<w>>) = 1
        OBVIOUS
      <3>3. more \in Seq(Webhook) /\ Len(more) = 1 + Len(r.requests)
        BY <3>1, <3>2, ConcatProperties
      <3> HIDE DEF more
      <3>4. few \in Seq(Webhook) /\ Len(few) = IF Len(more) < MaxRequestsPerBin THEN Len(more) ELSE MaxRequestsPerBin
        BY <3>1, <3>3, UpToProperties
      <3>5. Received(r, w) = [r EXCEPT !.received = r.received + 1, !.requests = few]
        BY DEF Received, more
      <3> HIDE DEF few
      <3>6. /\ Received(r, w) \in BinRecord /\ SameBin(Received(r, w), r)
            /\ Received(r, w).received = r.received + 1 /\ Received(r, w).requests = few
        <4>1. /\ Received(r, w) = [id |-> r.id, createdAt |-> r.createdAt, expiresAt |-> r.expiresAt, requests |-> few, received |-> r.received + 1]
              /\ r.id \in Bin /\ r.createdAt \in Nat /\ r.expiresAt \in Nat
          BY <3>5 DEF BinRecord
        <4>2. r.received + 1 \in Nat
          BY <3>1
        <4>3. Received(r, w) \in BinRecord
          BY <3>4, <4>1, <4>2 DEF BinRecord
        <4> QED BY <4>1, <4>3 DEF SameBin
      <3>7. Len(few) <= MaxRequestsPerBin /\ r.received + 1 >= Len(few)
        BY <2>2, <3>1, <3>3, <3>4 DEF FewCalls
      <3> QED BY <3>6, <3>7 DEF FewCalls
    <2>3. \A n \in 1..Len(Swept) : bins'[n] \in BinRecord /\ SameBin(bins'[n], Swept[n]) /\ FewCalls(bins'[n])
      BY <1>4, <2>1, <2>2 DEF SameBin
    <2>4. bins' \in Seq(BinRecord) /\ Len(bins') = Len(Swept)
      <3>1. bins' \in [1..Len(Swept) -> BinRecord]
        BY <2>1, <2>3
      <3> QED BY <1>4, <3>1, SeqDef, LenProperties
    <2> QED BY <2>1, <2>3, <2>4, SweepsAndTouches
  <1>7. ASSUME NEW w \in Webhook, NEW b \in Bin, WebhookArrives(w, b)
        PROVE  MapInv' /\ OnlyLivingStore /\ DroppedByAge
    BY <1>0, <1>1, <1>7 DEF WebhookArrives
  <1>8. CASE BinsTick
    BY <1>0, <1>1, <1>8 DEF BinsTick
  <1>9. CASE UNCHANGED binVars
    BY <1>0, <1>1, <1>9 DEF binVars
  <1> QED BY <1>2, <1>3, <1>5, <1>6, <1>7, <1>8, <1>9 DEF BinsNext

\* In that order and with those counts, boxes, calls and clients are within limits.
LEMMA BinsWithinLimits == MapInv /\ LimiterInv => WithinLimits
PROOF
  <1> SUFFICES ASSUME MapInv, LimiterInv
               PROVE  WithinLimits
    OBVIOUS
  <1>1. DOMAIN bins = 1..Len(bins)
    BY LenProperties DEF MapInv
  <1> QED BY <1>1 DEF MapInv, LimiterInv, WithinLimits, FewCalls

-----------------------------------------------------------------------------
(* Timeline                                                                  *)

\* The two orders of the rows, as sets of pairs.
StoredOrder == {p \in Row \X Row : StoredLater(p[1], p[2])}
ShownOrder == {p \in Row \X Row : ShownLater(p[1], p[2])}

\* What the rows returned are: down the timeline, the account's, of the window.
ReturnedInv ==
  /\ returned \in Seq(Row)
  /\ \A i, j \in DOMAIN returned : i < j => ShownLater(returned[i], returned[j])
  /\ \A i \in DOMAIN returned : row[returned[i]].mine /\ row[returned[i]].ms >= ReaderSince /\ fate[returned[i]] # "future"

\* The cursor is at the last of them.
CursorInv ==
  IF returned = <<>> THEN cursor = NoCursor
  ELSE cursor = [ms |-> row[Last(returned)].ms, id |-> Last(returned)]

\* Rows a table may answer with for the page being read, and those it answered
\* with: all it owes, or so many that what it left out is further down.
MayAnswer(s, q) ==
  row[q].source = s /\ row[q].mine /\ row[q].ms >= ReaderSince /\ fate[q] # "future" /\ BeforeCursor(q)
LeftForLater(s, r) == Cardinality(part[s]) = PageLimit /\ \A q \in part[s] : ShownLater(q, r)
PartInv(s) ==
  part[s] # Unread =>
    /\ \A q \in part[s] : MayAnswer(s, q)
    /\ Cardinality(part[s]) <= PageLimit
    /\ \A r \in Owed : row[r].source = s /\ ~Ambiguous(r) /\ BeforeCursor(r) => r \in part[s] \/ LeftForLater(s, r)

\* What is owed and not returned is still below the cursor; once the walk is
\* over nothing is, but for a list of failures that is full.
BelowAll(r) == \A i \in DOMAIN returned : ShownLater(returned[i], r)
OwedInv ==
  \A r \in Owed : ~Ambiguous(r) /\ r \notin Shown =>
    /\ walk = "reading" => BeforeCursor(r)
    /\ walk = "done" => reader = "failures" /\ Len(Failures(returned)) >= FailureLimit /\ BelowAll(r)

LineTypes ==
  /\ row \in [Row -> Stored] /\ fate \in [Row -> {"stood", "future", "new", "gone"}]
  /\ reader \in {"pages", "summary", "failures"} /\ walk \in {"reading", "done", "truncated"}
  /\ part \in [TimelineSource -> (SUBSET Row) \cup {Unread}]

\* A row was read as running or with the outcome it comes to; those returned
\* and those a table answered with have been read.
ReadInv ==
  /\ readAs \in [Row -> {NotRead, "running", "passed", "failed"}]
  /\ \A r \in Row : readAs[r] \in {NotRead, "running", row[r].outcome}
  /\ \A i \in DOMAIN returned : readAs[returned[i]] # NotRead
  /\ \A s \in TimelineSource : part[s] # Unread => \A q \in part[s] : readAs[q] # NotRead

LineInv ==
  /\ LineTypes /\ ReturnedInv /\ OwedInv /\ ReadInv
  /\ walk = "reading" => CursorInv /\ \A s \in TimelineSource : PartInv(s)

\* Rows of the timeline have an instant, a fraction and a source.
LEMMA RowsAreTyped ==
  ASSUME row \in [Row -> Stored]
  PROVE  \A r \in Row : /\ r \in Nat /\ row[r] \in Stored /\ row[r].ms \in Nat /\ row[r].frac \in Nat
                        /\ row[r].source \in TimelineSource
PROOF
  BY TimelineAssumption

\* Any rows of the timeline are finitely many and in one order.
LEMMA RowsAreOrdered ==
  ASSUME row \in [Row -> Stored], NEW S \in SUBSET Row
  PROVE  InOneOrder(S, StoredOrder) /\ InOneOrder(S, ShownOrder) /\ IsFiniteSet(S) /\ Cardinality(S) \in Nat
PROOF
  <1>1. \A r \in Row : r \in Nat /\ row[r].ms \in Nat /\ row[r].frac \in Nat
    BY RowsAreTyped
  <1>2. IsFiniteSet(S) /\ Cardinality(S) \in Nat
    BY TimelineAssumption, FS_Subset, FS_CardinalityType
  <1>3. \A a, b \in Row : /\ <<a, b>> \in StoredOrder <=> StoredLater(a, b)
                          /\ <<a, b>> \in ShownOrder <=> ShownLater(a, b)
    BY DEF StoredOrder, ShownOrder
  <1>4. \A r \in Row : ~StoredLater(r, r) /\ ~ShownLater(r, r)
    BY <1>1 DEF StoredLater, ShownLater
  <1>5. \A a, b \in Row : /\ a = b \/ StoredLater(a, b) \/ StoredLater(b, a)
                          /\ a = b \/ ShownLater(a, b) \/ ShownLater(b, a)
    BY <1>1 DEF StoredLater, ShownLater
  <1>6. ASSUME NEW a \in Row, NEW b \in Row, NEW c \in Row
        PROVE  /\ StoredLater(a, b) /\ StoredLater(b, c) => StoredLater(a, c)
               /\ ShownLater(a, b) /\ ShownLater(b, c) => ShownLater(a, c)
    BY <1>1 DEF StoredLater, ShownLater
  <1>7. InOneOrder(S, StoredOrder)
    BY <1>3, <1>4, <1>5, <1>6 DEF InOneOrder
  <1>8. InOneOrder(S, ShownOrder)
    BY <1>3, <1>4, <1>5, <1>6 DEF InOneOrder
  <1> QED BY <1>2, <1>7, <1>8

\* The order in which rows are shown is total and strict.
LEMMA ShownOrders ==
  ASSUME row \in [Row -> Stored]
  PROVE  /\ \A a, b, c \in Row : ShownLater(a, b) /\ ShownLater(b, c) => ShownLater(a, c)
         /\ \A a, b \in Row : a = b \/ ShownLater(a, b) \/ ShownLater(b, a)
         /\ \A a, b \in Row : ShownLater(a, b) => ~ShownLater(b, a) /\ a # b
PROOF
  BY RowsAreTyped DEF ShownLater

\* The newest of some rows: as many as a page holds, or all, and those left out
\* are further down.
LEMMA NewestProperties ==
  ASSUME row \in [Row -> Stored], NEW S \in SUBSET Row
  PROVE  /\ Newest(S, StoredLater) \subseteq S /\ Cardinality(Newest(S, StoredLater)) \in Nat
         /\ Cardinality(Newest(S, StoredLater)) <= PageLimit
         /\ \A r \in S \ Newest(S, StoredLater) :
              Cardinality(Newest(S, StoredLater)) = PageLimit /\ \A q \in Newest(S, StoredLater) : StoredLater(q, r)
         /\ Newest(S, ShownLater) \subseteq S
         /\ Cardinality(Newest(S, ShownLater)) = (IF Cardinality(S) < PageLimit THEN Cardinality(S) ELSE PageLimit)
         /\ \A r \in S \ Newest(S, ShownLater) :
              PageLimit < Cardinality(S) /\ \A q \in Newest(S, ShownLater) : ShownLater(q, r)
PROOF
  <1> DEFINE N == Newest(S, StoredLater)
             M == Newest(S, ShownLater)
  <1>1. PageLimit \in Nat /\ IsFiniteSet(S) /\ Cardinality(S) \in Nat
    BY TimelineAssumption, RowsAreOrdered
  <1>2. InOneOrder(S, StoredOrder) /\ InOneOrder(S, ShownOrder)
    BY RowsAreOrdered
  <1>3. \A q, r \in S : /\ <<q, r>> \in StoredOrder <=> StoredLater(q, r)
                        /\ <<q, r>> \in ShownOrder <=> ShownLater(q, r)
    BY DEF StoredOrder, ShownOrder
  <1>4. \A r \in S : /\ {q \in S : StoredLater(q, r)} = Ahead(S, StoredOrder, r)
                     /\ {q \in S : ShownLater(q, r)} = Ahead(S, ShownOrder, r)
    BY <1>3 DEF Ahead
  <1>5. N = FirstFew(S, StoredOrder, PageLimit)
    BY <1>4 DEF Newest, FirstFew
  <1>6. M = FirstFew(S, ShownOrder, PageLimit)
    BY <1>4 DEF Newest, FirstFew
  <1> HIDE DEF N, M
  <1>7. /\ N \subseteq S
        /\ Cardinality(N) = (IF Cardinality(S) < PageLimit THEN Cardinality(S) ELSE PageLimit)
        /\ \A r \in S \ N : PageLimit < Cardinality(S) /\ \A q \in N : <<q, r>> \in StoredOrder
    BY <1>1, <1>2, <1>5, TheFirstFew
  <1>8. /\ M \subseteq S
        /\ Cardinality(M) = (IF Cardinality(S) < PageLimit THEN Cardinality(S) ELSE PageLimit)
        /\ \A r \in S \ M : PageLimit < Cardinality(S) /\ \A q \in M : <<q, r>> \in ShownOrder
    BY <1>1, <1>2, <1>6, TheFirstFew
  <1>9. Cardinality(N) \in Nat /\ Cardinality(N) <= PageLimit
    BY <1>1, <1>7
  <1>10. ASSUME NEW r \in S \ N
         PROVE  Cardinality(N) = PageLimit /\ \A q \in N : StoredLater(q, r)
    <2>1. Cardinality(N) = PageLimit
      BY <1>1, <1>7
    <2> QED BY <1>3, <1>7, <2>1
  <1>11. \A r \in S \ M : PageLimit < Cardinality(S) /\ \A q \in M : ShownLater(q, r)
    BY <1>3, <1>8
  <1> QED BY <1>7, <1>8, <1>9, <1>10, <1>11 DEF N, M

\* A page has each of its rows once, the later ones first.
LEMMA DescendingProperties ==
  ASSUME row \in [Row -> Stored], NEW S \in SUBSET Row
  PROVE  /\ Descending(S) \in Seq(S) /\ Len(Descending(S)) = Cardinality(S)
         /\ DOMAIN Descending(S) = 1..Cardinality(S)
         /\ \A r \in S : \E n \in 1..Cardinality(S) : Descending(S)[n] = r
         /\ \A n, k \in 1..Cardinality(S) : n < k => ShownLater(Descending(S)[n], Descending(S)[k])
PROOF
  <1> DEFINE N == Cardinality(S)
             D == Descending(S)
             Nth(r) == Cardinality(Ahead(S, ShownOrder, r))
  <1>1. IsFiniteSet(S) /\ N \in Nat /\ InOneOrder(S, ShownOrder)
    BY RowsAreOrdered
  <1>2. \A q, r \in S : <<q, r>> \in ShownOrder <=> ShownLater(q, r)
    BY DEF ShownOrder
  <1>3. \A r \in S : {q \in S : ShownLater(q, r)} = Ahead(S, ShownOrder, r)
    BY <1>2 DEF Ahead
  <1>4. /\ D = [n \in 1..N |-> CHOOSE r \in S : Cardinality({q \in S : ShownLater(q, r)}) = n - 1]
        /\ \A n \in 1..N : (CHOOSE r \in S : Cardinality({q \in S : ShownLater(q, r)}) = n - 1) = (CHOOSE r \in S : Nth(r) = n - 1)
    BY <1>3 DEF Descending
  <1>5. /\ \A r \in S : Nth(r) \in Nat /\ Nth(r) < N
        /\ \A q, r \in S : <<q, r>> \in ShownOrder => Nth(q) < Nth(r)
        /\ \A q, r \in S : Nth(q) = Nth(r) => q = r
    BY <1>1, EarlierHasFewerAhead
  <1>6. \A n \in 0..(N - 1) : \E r \in S : Nth(r) = n
    BY <1>1, EachPlaceIsTaken
  <1> HIDE DEF D, Nth, N
  <1>7. \A n \in 1..N : D[n] \in S /\ Nth(D[n]) = n - 1
    <2> SUFFICES ASSUME NEW n \in 1..N
                 PROVE  D[n] \in S /\ Nth(D[n]) = n - 1
      OBVIOUS
    <2>1. n - 1 \in 0..(N - 1)
      BY <1>1
    <2>2. \E r \in S : Nth(r) = n - 1
      BY <1>6, <2>1
    <2>3. D[n] = CHOOSE r \in S : Nth(r) = n - 1
      BY <1>4
    <2> QED BY <2>2, <2>3
  <1>8. D \in [1..N -> S]
    BY <1>4, <1>7
  <1>9. D \in Seq(S) /\ Len(D) = N /\ DOMAIN D = 1..N
    BY <1>1, <1>8, LenProperties DEF Seq
  <1>10. ASSUME NEW r \in S
         PROVE  \E n \in 1..N : D[n] = r
    <2>1. Nth(r) + 1 \in 1..N
      BY <1>1, <1>5
    <2>2. D[Nth(r) + 1] \in S /\ Nth(D[Nth(r) + 1]) = Nth(r)
      BY <1>5, <1>7, <2>1
    <2> QED BY <1>5, <2>1, <2>2
  <1>11. ASSUME NEW n \in 1..N, NEW k \in 1..N, n < k
         PROVE  ShownLater(D[n], D[k])
    <2>1. D[n] \in S /\ D[k] \in S /\ Nth(D[n]) < Nth(D[k])
      BY <1>1, <1>7, <1>11
    <2>2. D[n] # D[k] /\ <<D[k], D[n]>> \notin ShownOrder
      BY <1>5, <2>1
    <2>3. <<D[n], D[k]>> \in ShownOrder
      BY <1>1, <2>1, <2>2 DEF InOneOrder
    <2> QED BY <1>2, <2>1, <2>3
  <1> QED BY <1>9, <1>10, <1>11 DEF D, N

\* The rows the reader is owed only become fewer, and the ambiguous ones more.
LEMMA OwedShrinks ==
  ASSUME LineTypes, UNCHANGED <<row, reader>>, \A r \in Row : fate'[r] = fate[r] \/ (fate'[r] # "future" /\ fate'[r] # "stood")
  PROVE  /\ Owed' \subseteq Owed
         /\ \A r \in Row : Ambiguous(r) => Ambiguous(r)'
         /\ \A q \in Row : fate[q] # "future" => fate'[q] # "future"
         /\ ReaderSince' = ReaderSince
PROOF
  <1>1. \A q \in Row : fate[q] # "future" => fate'[q] # "future"
    OBVIOUS
  <1>2. ReaderSince' = ReaderSince
    BY DEF ReaderSince
  <1>3. Owed' \subseteq Owed
    BY <1>2 DEF Owed
  <1>4. ASSUME NEW r \in Row, Ambiguous(r)
        PROVE  Ambiguous(r)'
    BY <1>1, <1>4 DEF Ambiguous
  <1> QED BY <1>1, <1>2, <1>3, <1>4

\* A row that comes or goes leaves what was returned and what is owed.
LEMMA RowMoves ==
  ASSUME LineInv, NEW r \in Row, RowArrives(r) \/ RowEnds(r) \/ RowRemoved(r)
  PROVE  LineInv'
PROOF
  <1>1. /\ UNCHANGED <<row, reader, part, readAs, cursor, returned, walk>>
        /\ \A q \in Row : fate'[q] = fate[q] \/ (fate'[q] # "future" /\ fate'[q] # "stood")
        /\ fate' \in [Row -> {"stood", "future", "new", "gone"}]
    BY DEF LineInv, LineTypes, RowArrives, RowEnds, RowRemoved
  <1>2. LineTypes
    BY DEF LineInv
  <1>3. /\ Owed' \subseteq Owed /\ \A q \in Row : Ambiguous(q) => Ambiguous(q)'
        /\ \A q \in Row : fate[q] # "future" => fate'[q] # "future"
        /\ ReaderSince' = ReaderSince
    BY <1>1, <1>2, OwedShrinks
  <1>4. LineTypes'
    BY <1>1, <1>2 DEF LineTypes
  <1>5. /\ Shown' = Shown /\ Failures(returned)' = Failures(returned)
        /\ \A a, b : ShownLater(a, b)' = ShownLater(a, b)
        /\ \A q : BeforeCursor(q)' = BeforeCursor(q)
        /\ \A q : BelowAll(q)' = BelowAll(q)
    BY <1>1 DEF Shown, Failures, ShownLater, BeforeCursor, BelowAll
  <1>6. ReturnedInv'
    <2>1. \A i \in DOMAIN returned : returned[i] \in Row
      BY ElementOfSeq, LenProperties DEF LineInv, ReturnedInv
    <2> QED BY <1>1, <1>3, <1>5, <2>1 DEF LineInv, ReturnedInv
  <1>7. Owed \subseteq Row
    BY DEF Owed
  <1>8. OwedInv'
    <2> SUFFICES ASSUME NEW q \in Owed', ~Ambiguous(q)', q \notin Shown'
                 PROVE  /\ walk' = "reading" => BeforeCursor(q)'
                        /\ walk' = "done" => reader' = "failures" /\ Len(Failures(returned)') >= FailureLimit /\ BelowAll(q)'
      BY DEF OwedInv
    <2>1. q \in Owed /\ ~Ambiguous(q) /\ q \notin Shown
      BY <1>3, <1>5, <1>7
    <2> QED BY <1>1, <1>5, <2>1 DEF LineInv, OwedInv
  <1>9. CursorInv' = CursorInv
    BY <1>1 DEF CursorInv
  <1>10. ASSUME NEW s \in TimelineSource, PartInv(s)
         PROVE  PartInv(s)'
    <2> SUFFICES ASSUME part[s] # Unread
                 PROVE  /\ \A q \in part[s] : MayAnswer(s, q)'
                        /\ Cardinality(part[s]) <= PageLimit
                        /\ \A q \in Owed' : row[q].source = s /\ ~Ambiguous(q)' /\ BeforeCursor(q)' => q \in part[s] \/ LeftForLater(s, q)'
      BY <1>1 DEF PartInv
    <2>1. part[s] \subseteq Row
      BY <1>2 DEF LineTypes
    <2>2. \A q \in part[s] : MayAnswer(s, q)'
      BY <1>1, <1>3, <1>5, <1>10, <2>1 DEF PartInv, MayAnswer
    <2>3. \A q : LeftForLater(s, q)' = LeftForLater(s, q)
      BY <1>1, <1>5 DEF LeftForLater
    <2>4. ASSUME NEW q \in Owed', row[q].source = s, ~Ambiguous(q)', BeforeCursor(q)'
          PROVE  q \in part[s] \/ LeftForLater(s, q)'
      <3>1. q \in Owed /\ ~Ambiguous(q) /\ BeforeCursor(q)
        BY <1>3, <1>5, <1>7, <2>4
      <3> QED BY <1>10, <2>3, <2>4, <3>1 DEF PartInv
    <2> QED BY <1>10, <2>2, <2>4 DEF PartInv
  <1>11. ReadInv'
    BY <1>1 DEF LineInv, ReadInv
  <1> QED BY <1>1, <1>4, <1>6, <1>8, <1>9, <1>10, <1>11 DEF LineInv

\* A row below the cursor is below all that was returned.
LEMMA BelowTheCursor ==
  ASSUME LineInv, walk = "reading", NEW r \in Row, BeforeCursor(r)
  PROVE  BelowAll(r)
PROOF
  <1> SUFFICES ASSUME NEW i \in DOMAIN returned
               PROVE  ShownLater(returned[i], r)
    BY DEF BelowAll
  <1>1. returned \in Seq(Row) /\ row \in [Row -> Stored]
    BY DEF LineInv, LineTypes, ReturnedInv
  <1>2. Len(returned) \in Nat /\ DOMAIN returned = 1..Len(returned) /\ \A j \in 1..Len(returned) : returned[j] \in Row
    BY <1>1, LenProperties, ElementOfSeq
  <1>3. i \in 1..Len(returned) /\ Len(returned) \in 1..Len(returned) /\ returned # <<>>
    BY <1>1, <1>2, EmptySeq
  <1> DEFINE l == returned[Len(returned)]
  <1>4. cursor = [ms |-> row[l].ms, id |-> l] /\ l \in Row
    BY <1>2, <1>3 DEF LineInv, CursorInv, Last
  <1>5. l \in Nat /\ r \in Nat /\ row[l].ms \in Nat /\ row[r].ms \in Nat
    BY <1>1, <1>4, RowsAreTyped
  <1>6. cursor # NoCursor /\ cursor.ms = row[l].ms /\ cursor.id = l
    <2>1. cursor.id = l /\ NoCursor.id = -1 /\ cursor.ms = row[l].ms
      BY <1>4 DEF NoCursor
    <2> QED BY <1>5, <2>1
  <1>7. ShownLater(l, r)
    BY <1>5, <1>6 DEF BeforeCursor, ShownLater
  <1>8. i = Len(returned) \/ ShownLater(returned[i], l)
    BY <1>2, <1>3 DEF LineInv, ReturnedInv
  <1> QED BY <1>1, <1>2, <1>3, <1>4, <1>7, <1>8, ShownOrders

\* A table answers with all it owes, or with a whole page of later rows.
LEMMA SourceReads ==
  ASSUME LineInv, NEW s \in TimelineSource, ReadSource(s)
  PROVE  LineInv'
PROOF
  <1> DEFINE M == MatchesHistory(s)
             N == Newest(M, StoredLater)
  <1>1. /\ UNCHANGED <<row, fate, reader, cursor, returned, walk>> /\ part' = [part EXCEPT ![s] = N]
        /\ part[s] = Unread /\ walk = "reading"
        /\ readAs' = [r \in Row |-> IF r \in part'[s] THEN OutcomeNow(r) ELSE readAs[r]]
    BY DEF ReadSource
  <1>2. M \subseteq Row /\ \A q \in M : MayAnswer(s, q)
    BY DEF MatchesHistory, MayAnswer
  <1>3. row \in [Row -> Stored]
    BY DEF LineInv, LineTypes
  <1> HIDE DEF M
  <1>4. /\ N \subseteq M /\ Cardinality(N) <= PageLimit
        /\ \A r \in M \ N : Cardinality(N) = PageLimit /\ \A q \in N : StoredLater(q, r)
    BY <1>2, <1>3, NewestProperties
  <1> HIDE DEF N
  <1>5. /\ part' \in [TimelineSource -> (SUBSET Row) \cup {Unread}] /\ part'[s] = N
        /\ \A t \in TimelineSource : t # s => part'[t] = part[t]
    BY <1>1, <1>2, <1>4 DEF LineInv, LineTypes
  <1>5a. \A q \in Row : readAs'[q] = IF q \in N THEN OutcomeNow(q) ELSE readAs[q]
    BY <1>1, <1>5
  <1>5b. \A i \in DOMAIN returned : returned[i] \in Row /\ readAs'[returned[i]] = readAs[returned[i]]
    <2> SUFFICES ASSUME NEW i \in DOMAIN returned
                 PROVE  returned[i] \in Row /\ readAs'[returned[i]] = readAs[returned[i]]
      OBVIOUS
    <2>1. returned[i] \in Row
      BY ElementOfSeq, LenProperties DEF LineInv, ReturnedInv
    <2>2. \A q \in N : q \in Row /\ BelowAll(q)
      BY <1>1, <1>2, <1>4, BelowTheCursor DEF MayAnswer
    <2>3. ~ShownLater(returned[i], returned[i])
      BY <1>3, <2>1, ShownOrders
    <2>4. returned[i] \notin N
      BY <2>2, <2>3 DEF BelowAll
    <2> QED BY <1>5a, <2>1, <2>4
  <1>5c. ReadInv'
    <2>1. \A q \in Row : row[q].outcome \in {"passed", "failed"}
      BY <1>3, TimelineAssumption
    <2>2. \A q \in Row : OutcomeNow(q) \in {"running", row[q].outcome} /\ OutcomeNow(q) # NotRead
      BY <2>1 DEF OutcomeNow, NotRead
    <2>3. /\ readAs' \in [Row -> {NotRead, "running", "passed", "failed"}]
          /\ \A q \in Row : readAs'[q] \in {NotRead, "running", row[q].outcome}
          /\ \A q \in Row : readAs[q] # NotRead => readAs'[q] # NotRead
      BY <1>1, <1>5, <1>5a, <2>1, <2>2 DEF LineInv, ReadInv
    <2>4. \A i \in DOMAIN returned : readAs'[returned[i]] # NotRead
      BY <1>5b DEF LineInv, ReadInv
    <2>5. ASSUME NEW t \in TimelineSource, part'[t] # Unread, NEW q \in part'[t]
          PROVE  readAs'[q] # NotRead
      <3>1. CASE t = s
        BY <1>2, <1>4, <1>5, <1>5a, <2>2, <2>5, <3>1
      <3>2. CASE t # s
        <4>1. q \in Row /\ readAs[q] # NotRead
          BY <1>5, <2>5, <3>2 DEF LineInv, LineTypes, ReadInv
        <4> QED BY <2>3, <4>1
      <3> QED BY <3>1, <3>2
    <2> QED BY <1>1, <2>3, <2>4, <2>5 DEF ReadInv
  <1>5d. Failures(returned)' = Failures(returned)
    BY <1>1, <1>5b DEF Failures
  <1>6. LineTypes' /\ ReturnedInv' /\ OwedInv' /\ CursorInv'
    BY <1>1, <1>5, <1>5d DEF LineInv, LineTypes, ReturnedInv, OwedInv, CursorInv, ReaderSince, ShownLater, Owed,
       Ambiguous, Shown, BeforeCursor, BelowAll
  <1>7. ASSUME NEW t \in TimelineSource, t # s
        PROVE  PartInv(t)'
    BY <1>1, <1>5, <1>7 DEF LineInv, PartInv, MayAnswer, LeftForLater, Owed, Ambiguous, BeforeCursor, ReaderSince,
       ShownLater
  <1>8. PartInv(s)'
    <2>1. /\ Owed' = Owed /\ \A q : Ambiguous(q)' = Ambiguous(q) /\ BeforeCursor(q)' = BeforeCursor(q)
          /\ \A q : MayAnswer(s, q)' = MayAnswer(s, q)
          /\ \A a, b : ShownLater(a, b)' = ShownLater(a, b)
      BY <1>1 DEF Owed, Ambiguous, BeforeCursor, MayAnswer, ReaderSince, ShownLater
    <2>2. \A q \in N : MayAnswer(s, q)'
      BY <1>2, <1>4, <2>1
    <2>3. ASSUME NEW r \in Owed, row[r].source = s, ~Ambiguous(r), BeforeCursor(r), r \notin N
          PROVE  Cardinality(N) = PageLimit /\ \A q \in N : ShownLater(q, r)
      <3>1. r \in M /\ r \in Row
        BY <2>3 DEF M, MatchesHistory, Owed
      <3>2. Cardinality(N) = PageLimit /\ \A q \in N : StoredLater(q, r)
        BY <1>4, <2>3, <3>1
      <3>3. ASSUME NEW q \in N
            PROVE  ShownLater(q, r)
        <4>1. q \in Row /\ row[q].mine /\ fate[q] # "future" /\ StoredLater(q, r)
          BY <1>2, <1>4, <3>2 DEF MayAnswer
        <4>2. q # r
          BY <2>3
        <4>3. row[q].ms = row[r].ms => ~(row[q].frac + row[r].frac > 0)
          BY <2>3, <4>1, <4>2 DEF Ambiguous
        <4>4. row[q].frac \in Nat /\ row[r].frac \in Nat /\ row[q].ms \in Nat /\ row[r].ms \in Nat
          BY <1>3, <3>1, <4>1, RowsAreTyped
        <4> QED BY <4>1, <4>3, <4>4 DEF StoredLater, ShownLater
      <3> QED BY <3>2, <3>3
    <2> QED BY <1>1, <1>4, <1>5, <2>1, <2>2, <2>3 DEF PartInv, LeftForLater
  <1> QED BY <1>1, <1>5c, <1>6, <1>7, <1>8 DEF LineInv

\* The page a merge makes of what the tables answered.
Answered == UNION {part[s] : s \in TimelineSource}
ThePage == Descending(Newest(Answered, ShownLater))

\* Once all tables answered, what they did is below the cursor.
LEMMA AnswersAreBelow ==
  ASSUME LineInv, walk = "reading", \A s \in TimelineSource : part[s] # Unread
  PROVE  /\ Answered \subseteq Row
         /\ \A q \in Answered : row[q].mine /\ row[q].ms >= ReaderSince /\ fate[q] # "future" /\ BeforeCursor(q)
         /\ \A s \in TimelineSource : part[s] \subseteq Row /\ part[s] \subseteq Answered /\ PartInv(s)
PROOF
  <1>1. \A s \in TimelineSource : part[s] \subseteq Row /\ PartInv(s)
    BY DEF LineInv, LineTypes
  <1>2. \A q \in Answered : \E s \in TimelineSource : q \in part[s] /\ MayAnswer(s, q)
    BY <1>1 DEF PartInv, Answered
  <1>3. \A s \in TimelineSource : part[s] \subseteq Answered
    BY DEF Answered
  <1> QED BY <1>1, <1>2, <1>3 DEF MayAnswer

\* An owed row that no row ambiguous with it hides is on the page, or below all
\* of it; and the page is full then, or a table's answer was.
LEMMA PageTakesOrLeaves ==
  ASSUME LineInv, walk = "reading", \A s \in TimelineSource : part[s] # Unread,
         NEW r \in Owed, ~Ambiguous(r), r \notin Shown, r \notin Newest(Answered, ShownLater)
  PROVE  /\ BelowAll(r) /\ \A q \in Newest(Answered, ShownLater) : ShownLater(q, r)
         /\ MaybeMore /\ Newest(Answered, ShownLater) # {}
PROOF
  <1> DEFINE A == Answered
             N == Newest(A, ShownLater)
             s == row[r].source
  <1>1. A \subseteq Row /\ \A t \in TimelineSource : part[t] \subseteq Row /\ part[t] \subseteq A /\ PartInv(t)
    BY AnswersAreBelow
  <1>2. row \in [Row -> Stored] /\ r \in Row /\ s \in TimelineSource
    BY RowsAreTyped DEF LineInv, LineTypes, Owed
  <1>3. BeforeCursor(r)
    BY DEF LineInv, OwedInv
  <1>4. BelowAll(r)
    BY <1>2, <1>3, BelowTheCursor
  <1>5. r \in part[s] \/ LeftForLater(s, r)
    BY <1>1, <1>2, <1>3 DEF PartInv
  <1>6. PageLimit \in Nat \ {0} /\ IsFiniteSet(A) /\ Cardinality(A) \in Nat
    BY <1>1, <1>2, RowsAreOrdered, TimelineAssumption
  <1>7. /\ N \subseteq A /\ Cardinality(N) = (IF Cardinality(A) < PageLimit THEN Cardinality(A) ELSE PageLimit)
        /\ \A q \in A \ N : PageLimit < Cardinality(A) /\ \A p \in N : ShownLater(p, q)
    BY <1>1, <1>2, NewestProperties
  <1>7a. N = {q \in A : Cardinality({p \in A : ShownLater(p, q)}) < PageLimit}
    BY DEF Newest
  <1>7b. MaybeMore = (Cardinality(A) > PageLimit \/ \E t \in TimelineSource : Cardinality(part[t]) = PageLimit)
    BY DEF MaybeMore, Answered
  <1> HIDE DEF N, A
  <1>8. A # {}
    <2>1. CASE r \in part[s]
      BY <1>1, <1>2, <2>1
    <2>2. CASE LeftForLater(s, r)
      <3>1. part[s] # {}
        BY <1>6, <2>2, FS_EmptySet DEF LeftForLater
      <3> QED BY <1>1, <1>2, <3>1
    <2> QED BY <1>5, <2>1, <2>2
  <1>9. N # {}
    <2>1. Cardinality(A) # 0
      BY <1>6, <1>8, FS_EmptySet
    <2>2. Cardinality(N) # 0
      BY <1>6, <1>7, <2>1
    <2> QED BY <2>2, FS_EmptySet
  <1>10. CASE r \in A
    <2>1. PageLimit < Cardinality(A) /\ \A q \in N : ShownLater(q, r)
      BY <1>7, <1>10 DEF N, A
    <2> QED BY <1>4, <1>6, <1>7b, <1>9, <2>1 DEF N, A
  <1>11. CASE r \notin A
    <2>1. LeftForLater(s, r)
      BY <1>1, <1>2, <1>5, <1>11
    <2>2. MaybeMore
      BY <1>2, <1>7b, <2>1 DEF LeftForLater
    <2>3. ASSUME NEW q \in N, ~ShownLater(q, r)
          PROVE  FALSE
      <3>1. q \in A /\ q \in Row /\ q # r
        BY <1>1, <1>7, <1>11
      <3>2. ShownLater(r, q)
        BY <1>2, <2>3, <3>1, ShownOrders
      <3>3. \A p \in part[s] : p \in A /\ p \in Row /\ ShownLater(p, q)
        <4> SUFFICES ASSUME NEW p \in part[s]
                     PROVE  p \in A /\ p \in Row /\ ShownLater(p, q)
          OBVIOUS
        <4>1. p \in A /\ p \in Row /\ ShownLater(p, r)
          BY <1>1, <1>2, <2>1 DEF LeftForLater
        <4> QED BY <1>2, <3>1, <3>2, <4>1, ShownOrders
      <3> DEFINE before == {p \in A : ShownLater(p, q)}
      <3>4. part[s] \subseteq before /\ before \subseteq A
        BY <3>3
      <3>5. IsFiniteSet(before) /\ Cardinality(before) \in Nat
        BY <1>6, <3>4, FS_Subset, FS_CardinalityType
      <3>6. Cardinality(part[s]) <= Cardinality(before)
        <4> HIDE DEF before
        <4> QED BY <3>4, <3>5, FS_Subset
      <3>7. Cardinality(before) < PageLimit
        BY <1>7a
      <3>8. Cardinality(part[s]) = PageLimit
        BY <2>1 DEF LeftForLater
      <3> HIDE DEF before
      <3> QED BY <1>6, <3>5, <3>6, <3>7, <3>8
    <2> QED BY <1>4, <1>9, <2>2, <2>3 DEF N, A
  <1> QED BY <1>10, <1>11

\* A merged page goes down the timeline, and what it leaves out is below it.
LEMMA PageMerges ==
  ASSUME LineInv, MergePage
  PROVE  LineInv'
PROOF
  <1> DEFINE N == Newest(Answered, ShownLater)
             D == ThePage
             m == Len(returned)
             k == Len(D)
  <1>1. /\ walk = "reading" /\ \A s \in TimelineSource : part[s] # Unread
        /\ UNCHANGED <<row, fate, reader, readAs>> /\ returned' = returned \o D
        /\ part' = [s \in TimelineSource |-> Unread]
        /\ IF MaybeMore /\ D # <<>>
           THEN cursor' = [ms |-> row[Last(D)].ms, id |-> Last(D)] /\ walk' = GoesOn(returned \o D)
           ELSE walk' = "done"
    BY DEF MergePage, ThePage, Answered
  <1>2. LineTypes /\ ReturnedInv /\ OwedInv /\ CursorInv
    BY <1>1 DEF LineInv
  <1>3. row \in [Row -> Stored] /\ returned \in Seq(Row)
    BY <1>2 DEF LineTypes, ReturnedInv
  <1>4. /\ Answered \subseteq Row
        /\ \A q \in Answered : row[q].mine /\ row[q].ms >= ReaderSince /\ fate[q] # "future" /\ BeforeCursor(q)
    BY <1>1, AnswersAreBelow
  <1>5. N \subseteq Answered
    BY <1>3, <1>4, NewestProperties
  <1>6. /\ D \in Seq(N) /\ k = Cardinality(N) /\ DOMAIN D = 1..k
        /\ \A r \in N : \E n \in 1..k : D[n] = r
        /\ \A n, l \in 1..k : n < l => ShownLater(D[n], D[l])
    BY <1>3, <1>4, <1>5, DescendingProperties DEF ThePage
  <1>7. \A r \in Owed : ~Ambiguous(r) /\ r \notin Shown /\ r \notin N =>
          /\ BelowAll(r) /\ \A q \in N : ShownLater(q, r)
          /\ MaybeMore /\ N # {}
    BY <1>1, PageTakesOrLeaves
  <1>8. \A q \in N : BelowAll(q) /\ q \in Row
    BY <1>1, <1>4, <1>5, BelowTheCursor
  <1> HIDE DEF N, D
  <1>9. k \in Nat /\ m \in Nat /\ DOMAIN returned = 1..m /\ D \in Seq(Row) /\ \A n \in 1..k : D[n] \in N
    <2>1. k \in Nat /\ m \in Nat /\ DOMAIN returned = 1..m /\ \A n \in 1..k : D[n] \in N
      BY <1>3, <1>6, LenProperties, ElementOfSeq
    <2>2. D \in [1..k -> Row]
      BY <1>3, <1>6, <1>8, <2>1, LenProperties
    <2> QED BY <2>1, <2>2 DEF Seq
  <1>10. /\ returned' \in Seq(Row) /\ Len(returned') = m + k /\ DOMAIN returned' = 1..(m + k)
         /\ \A i \in 1..(m + k) : returned'[i] = IF i <= m THEN returned[i] ELSE D[i - m]
    <2>1. returned' \in Seq(Row) /\ Len(returned') = m + k
      BY <1>1, <1>3, <1>9, ConcatProperties
    <2>2. DOMAIN returned' = 1..(m + k)
      BY <2>1, LenProperties
    <2>3. \A i \in 1..(m + k) : returned'[i] = IF i <= m THEN returned[i] ELSE D[i - m]
      BY <1>1, <1>3, <1>9, ConcatProperties
    <2> QED BY <2>1, <2>2, <2>3
  <1> HIDE DEF m, k
  <1>11. \A i \in 1..(m + k) : i <= m => i \in 1..m
    BY <1>9
  <1>12. \A i \in 1..(m + k) : ~(i <= m) => i - m \in 1..k
    BY <1>9
  <1>13. /\ Owed' = Owed /\ ReaderSince' = ReaderSince
         /\ \A q : Ambiguous(q)' = Ambiguous(q)
         /\ \A a, b : ShownLater(a, b)' = ShownLater(a, b)
    BY <1>1 DEF Owed, ReaderSince, Ambiguous, ShownLater
  <1>14. ASSUME NEW i \in 1..(m + k), NEW j \in 1..(m + k), i < j
         PROVE  ShownLater(returned'[i], returned'[j])
    <2>1. CASE j <= m
      <3>1. i \in 1..m /\ j \in 1..m /\ returned'[i] = returned[i] /\ returned'[j] = returned[j]
        BY <1>9, <1>10, <1>14, <2>1
      <3> QED BY <1>2, <1>9, <1>14, <3>1 DEF ReturnedInv
    <2>2. CASE i <= m /\ ~(j <= m)
      <3>1. i \in 1..m /\ j - m \in 1..k /\ returned'[i] = returned[i] /\ returned'[j] = D[j - m]
        BY <1>10, <1>11, <1>12, <2>2
      <3>2. D[j - m] \in N
        BY <1>9, <3>1
      <3> QED BY <1>8, <1>9, <3>1, <3>2 DEF BelowAll
    <2>3. CASE ~(i <= m)
      <3>1. i - m \in 1..k /\ j - m \in 1..k /\ i - m < j - m /\ returned'[i] = D[i - m] /\ returned'[j] = D[j - m]
        BY <1>9, <1>10, <1>14, <2>3
      <3> QED BY <1>6, <3>1
    <2> QED BY <1>9, <2>1, <2>2, <2>3
  <1>15. ASSUME NEW i \in 1..(m + k)
         PROVE  row[returned'[i]].mine /\ row[returned'[i]].ms >= ReaderSince /\ fate[returned'[i]] # "future"
    <2>1. CASE i <= m
      BY <1>2, <1>9, <1>10, <1>11, <2>1 DEF ReturnedInv
    <2>2. CASE ~(i <= m)
      <3>1. returned'[i] \in N
        BY <1>9, <1>10, <1>12, <2>2
      <3> QED BY <1>4, <1>5, <3>1
    <2> QED BY <2>1, <2>2
  <1>16. ReturnedInv'
    BY <1>1, <1>10, <1>13, <1>14, <1>15 DEF ReturnedInv
  <1>17. walk' \in {"reading", "done", "truncated"}
    BY <1>1, <1>2 DEF GoesOn, LineTypes
  <1>18. LineTypes'
    BY <1>1, <1>2, <1>17 DEF LineTypes
  <1>19. Shown' = Shown \cup N
    <2>1. ASSUME NEW q \in Shown \cup N
          PROVE  \E i \in 1..(m + k) : returned'[i] = q
      <3>1. CASE q \in Shown
        <4>1. PICK i \in 1..m : returned[i] = q
          BY <1>9, <3>1 DEF Shown, ToSet
        <4>2. i \in 1..(m + k) /\ i <= m
          BY <1>9
        <4> QED BY <1>10, <4>1, <4>2
      <3>2. CASE q \in N
        <4>1. PICK n \in 1..k : D[n] = q
          BY <1>6, <3>2 DEF k
        <4>2. n + m \in 1..(m + k) /\ ~(n + m <= m) /\ (n + m) - m = n
          BY <1>9
        <4> QED BY <1>10, <4>1, <4>2
      <3> QED BY <2>1, <3>1, <3>2
    <2>2. ASSUME NEW i \in 1..(m + k)
          PROVE  returned'[i] \in Shown \cup N
      <3>1. CASE i <= m
        <4>1. i \in DOMAIN returned /\ returned'[i] = returned[i]
          BY <1>9, <1>10, <1>11, <3>1
        <4> QED BY <4>1 DEF Shown, ToSet
      <3>2. CASE ~(i <= m)
        BY <1>9, <1>10, <1>12, <3>2
      <3> QED BY <3>1, <3>2
    <2>3. Shown' = {returned'[i] : i \in 1..(m + k)}
      BY <1>10 DEF Shown, ToSet
    <2> QED BY <2>1, <2>2, <2>3
  <1>20. ASSUME NEW r \in Owed, ~Ambiguous(r), r \notin Shown'
         PROVE  (\A i \in 1..(m + k) : ShownLater(returned'[i], r)) /\ MaybeMore /\ N # {}
    <2>1. BelowAll(r) /\ (\A q \in N : ShownLater(q, r)) /\ MaybeMore /\ N # {}
      BY <1>7, <1>19, <1>20
    <2>2. ASSUME NEW i \in 1..(m + k)
          PROVE  ShownLater(returned'[i], r)
      <3>1. CASE i <= m
        BY <1>9, <1>10, <1>11, <2>1, <3>1 DEF BelowAll
      <3>2. CASE ~(i <= m)
        <4>1. returned'[i] \in N
          BY <1>9, <1>10, <1>12, <3>2
        <4> QED BY <2>1, <4>1
      <3> QED BY <3>1, <3>2
    <2> QED BY <2>1, <2>2
  <1>21. N # {} => D # <<>>
    <2> SUFFICES ASSUME N # {}, D = <<>>
                 PROVE  FALSE
      OBVIOUS
    <2>1. PICK r \in N : TRUE
      OBVIOUS
    <2>2. PICK n \in 1..k : D[n] = r
      BY <1>6, <2>1 DEF k
    <2>3. k = 0
      BY <1>9, EmptySeq DEF k
    <2> QED BY <2>2, <2>3
  <1>22. walk' = "reading" =>
           /\ returned' # <<>> /\ Last(returned)' = Last(D)
           /\ cursor' = [ms |-> row[Last(D)].ms, id |-> Last(D)] /\ Last(D) \in N
           /\ m + k \in 1..(m + k) /\ returned'[m + k] = Last(D)
    <2> SUFFICES ASSUME walk' = "reading"
                 PROVE  /\ returned' # <<>> /\ Last(returned)' = Last(D)
                        /\ cursor' = [ms |-> row[Last(D)].ms, id |-> Last(D)] /\ Last(D) \in N
                        /\ m + k \in 1..(m + k) /\ returned'[m + k] = Last(D)
      OBVIOUS
    <2>1. D # <<>> /\ cursor' = [ms |-> row[Last(D)].ms, id |-> Last(D)]
      BY <1>1
    <2>2. k # 0
      BY <1>9, <2>1, EmptySeq DEF k
    <2>3. k \in 1..k /\ m + k \in 1..(m + k) /\ ~(m + k <= m) /\ (m + k) - m = k /\ m + k # 0
      BY <1>9, <2>2
    <2>4. Last(D) = D[k]
      BY DEF Last, k
    <2>5. returned'[m + k] = D[k]
      BY <1>10, <2>3
    <2>6. Last(returned)' = returned'[m + k]
      BY <1>10 DEF Last
    <2>7. returned' # <<>>
      BY <1>10, <2>3, EmptySeq
    <2> QED BY <1>9, <2>1, <2>3, <2>4, <2>5, <2>6, <2>7
  <1>23. walk' = "reading" => CursorInv'
    BY <1>1, <1>22 DEF CursorInv
  <1>24. ASSUME NEW r \in Owed, ~Ambiguous(r), r \notin Shown', walk' = "reading"
         PROVE  BeforeCursor(r)'
    <2> DEFINE l == Last(D)
    <2>1. ShownLater(l, r) /\ l \in N /\ cursor' = [ms |-> row[l].ms, id |-> l]
      BY <1>20, <1>22, <1>24
    <2>2. l \in Row /\ r \in Row /\ l # r /\ row[l].mine /\ fate[l] # "future"
      BY <1>3, <1>4, <1>5, <1>8, <2>1, ShownOrders DEF Owed
    <2>3. /\ row[l].frac \in Nat /\ row[r].frac \in Nat /\ row[l].ms \in Nat /\ row[r].ms \in Nat
          /\ l \in Nat /\ r \in Nat
      BY <1>3, <2>2, RowsAreTyped
    <2> HIDE DEF l
    <2>4. row[l].ms = row[r].ms => ~(row[l].frac + row[r].frac > 0)
      BY <1>24, <2>2 DEF Ambiguous
    <2>5. cursor'.ms = row[l].ms /\ cursor'.id = l /\ row' = row
      BY <1>1, <2>1
    <2>6. row'[r].ms < cursor'.ms \/ (row'[r].ms = cursor'.ms /\ row'[r].frac = 0 /\ r < cursor'.id)
      BY <2>1, <2>3, <2>4, <2>5 DEF ShownLater
    <2> QED BY <2>6 DEF BeforeCursor
  <1>25. ASSUME NEW r \in Owed, ~Ambiguous(r), r \notin Shown', walk' = "done"
         PROVE  reader = "failures" /\ Len(Failures(returned)') >= FailureLimit /\ BelowAll(r)'
    <2>1. (\A i \in 1..(m + k) : ShownLater(returned'[i], r)) /\ MaybeMore /\ D # <<>>
      BY <1>20, <1>21, <1>25
    <2>2. GoesOn(returned \o D) = "done" /\ walk' = GoesOn(returned \o D)
      BY <1>1, <1>25, <2>1
    <2>3. reader \in {"pages", "summary", "failures"}
      BY <1>2 DEF LineTypes
    <2>4. reader = "failures" /\ Len(Failures(returned \o D)) >= FailureLimit
      BY <2>2, <2>3 DEF GoesOn
    <2>5. Failures(returned)' = Failures(returned \o D)
      BY <1>1 DEF Failures
    <2>6. BelowAll(r)'
      BY <1>10, <1>13, <2>1 DEF BelowAll
    <2> QED BY <2>4, <2>5, <2>6
  <1>26. OwedInv'
    <2>1. \A r \in Owed : ~Ambiguous(r) /\ r \notin Shown' =>
            /\ walk' = "reading" => BeforeCursor(r)'
            /\ walk' = "done" => reader' = "failures" /\ Len(Failures(returned)') >= FailureLimit /\ BelowAll(r)'
      BY <1>1, <1>24, <1>25
    <2> QED BY <1>13, <2>1 DEF OwedInv
  <1>27. \A s \in TimelineSource : PartInv(s)'
    BY <1>1 DEF PartInv
  <1>28. ReadInv'
    <2>1. \A q \in N : readAs[q] # NotRead
      BY <1>1, <1>5 DEF LineInv, ReadInv, Answered
    <2>2. \A i \in 1..m : readAs[returned[i]] # NotRead
      BY <1>9 DEF LineInv, ReadInv
    <2>3. \A i \in 1..(m + k) : readAs[returned'[i]] # NotRead
      BY <1>9, <1>10, <1>11, <1>12, <2>1, <2>2
    <2> QED BY <1>1, <1>10, <2>3 DEF LineInv, ReadInv
  <1> QED BY <1>16, <1>18, <1>23, <1>26, <1>27, <1>28 DEF LineInv

\* Holds at first: what the walk returned and what it still owes.
LEMMA LineInvInit == LineInit => LineInv
PROOF
  <1> SUFFICES ASSUME LineInit
               PROVE  LineInv
    OBVIOUS
  <1>1. returned = <<>> /\ cursor = NoCursor /\ walk = "reading"
    BY DEF LineInit
  <1>2. DOMAIN returned = {} /\ returned \in Seq(Row)
    BY <1>1
  <1>3. LineTypes /\ ReturnedInv /\ CursorInv
    BY <1>1, <1>2 DEF LineInit, LineTypes, ReturnedInv, CursorInv
  <1>4. OwedInv
    BY <1>1 DEF OwedInv, BeforeCursor
  <1>5. \A s \in TimelineSource : PartInv(s)
    BY DEF LineInit, PartInv
  <1>6. ReadInv
    BY <1>2 DEF LineInit, ReadInv
  <1> QED BY <1>3, <1>4, <1>5, <1>6 DEF LineInv

\* No step breaks what the walk returned and what it still owes.
LEMMA LineInvStep == LineInv /\ [LineNext]_lineVars => LineInv'
PROOF
  <1> SUFFICES ASSUME LineInv, [LineNext]_lineVars
               PROVE  LineInv'
    OBVIOUS
  <1>1. CASE UNCHANGED lineVars
    <2>1. UNCHANGED <<row, fate, reader, part, readAs, cursor, returned, walk>>
      BY <1>1 DEF lineVars
    <2>2. LineTypes' = LineTypes /\ ReturnedInv' = ReturnedInv
      BY <2>1 DEF LineTypes, ReturnedInv, ReaderSince, ShownLater
    <2>3. OwedInv' = OwedInv
      BY <2>1 DEF OwedInv, Owed, Ambiguous, Shown, BeforeCursor, Failures, BelowAll, ShownLater, ReaderSince
    <2>4. CursorInv' = CursorInv
      BY <2>1 DEF CursorInv
    <2>5. \A s : PartInv(s)' = PartInv(s)
      BY <2>1 DEF PartInv, MayAnswer, LeftForLater, Owed, Ambiguous, BeforeCursor, ShownLater, ReaderSince
    <2>6. ReadInv' = ReadInv
      BY <2>1 DEF ReadInv
    <2> QED BY <2>1, <2>2, <2>3, <2>4, <2>5, <2>6 DEF LineInv
  <1>2. CASE LineNext
    BY <1>2, RowMoves, SourceReads, PageMerges DEF LineNext
  <1> QED BY <1>1, <1>2

\* Two parts of the positions of a list, or three, count them all.
LEMMA PartsAddUp ==
  ASSUME NEW n \in Nat, NEW I \in SUBSET (1..n), NEW J \in SUBSET (1..n), I \cap J = {}, I \cup J = 1..n
  PROVE  Cardinality(I) \in Nat /\ Cardinality(J) \in Nat /\ Cardinality(I) + Cardinality(J) = n
PROOF
  <1>1. IsFiniteSet(I) /\ IsFiniteSet(J) /\ Cardinality(I) \in Nat /\ Cardinality(J) \in Nat
    BY PositionsAreFinite
  <1>2. Cardinality(I \cup J) = Cardinality(I) + Cardinality(J) - Cardinality(I \cap J)
    BY <1>1, FS_Union
  <1>3. Cardinality(I \cap J) = 0
    BY FS_EmptySet
  <1>4. Cardinality(1..n) = n
    <2>1. Cardinality(1..n) = IF 1 > n THEN 0 ELSE n - 1 + 1
      BY FS_Interval
    <2> QED BY <2>1
  <1>5. Cardinality(I \cup J) = Cardinality(1..n)
    <2>1. I \cup J = 1..n
      OBVIOUS
    <2> QED BY <2>1, Zenon
  <1> QED BY <1>1, <1>2, <1>3, <1>4, <1>5

\* The summary counts each row of the walk in one window, and each row of the
\* current one under one kind.
LEMMA SummaryAddsUp ==
  ASSUME LineInv, reader = "summary"
  PROVE  /\ Counted(CurrentWindow).total + Counted(PreviousWindow).total = Len(returned)
         /\ Counted(CurrentWindow).total = Len(OfKind(CurrentWindow, "scan")) + Len(OfKind(CurrentWindow, "journey")) + Len(OfKind(CurrentWindow, "api"))
PROOF
  <1> DEFINE n == Len(returned)
             I == {i \in 1..n : row[returned[i]].ms >= CurrentSince}
             J == {i \in 1..n : PreviousSince <= row[returned[i]].ms /\ row[returned[i]].ms < CurrentSince}
             C == CurrentWindow
  <1>1. returned \in Seq(Row) /\ row \in [Row -> Stored] /\ n \in Nat /\ DOMAIN returned = 1..n
    BY LenProperties DEF LineInv, LineTypes, ReturnedInv
  <1>2. \A i \in 1..n : /\ returned[i] \in Row /\ row[returned[i]].ms \in Nat /\ row[returned[i]].source \in TimelineSource
                        /\ row[returned[i]].ms >= PreviousSince
    <2>1. \A i \in 1..n : returned[i] \in Row /\ row[returned[i]].ms >= ReaderSince
      BY <1>1, ElementOfSeq DEF LineInv, ReturnedInv
    <2>2. ReaderSince = PreviousSince
      BY DEF ReaderSince
    <2> QED BY <1>1, <2>1, <2>2, RowsAreTyped
  <1>3. CurrentSince \in Nat /\ PreviousSince \in Nat /\ PreviousSince <= CurrentSince
    BY TimelineAssumption
  <1>4. I \cap J = {} /\ I \cup J = 1..n
    BY <1>2, <1>3
  <1>5. C = Picked(returned, I) /\ PreviousWindow = Picked(returned, J)
    BY <1>1 DEF CurrentWindow, PreviousWindow
  <1> HIDE DEF C
  <1>6. I \in SUBSET (1..n) /\ J \in SUBSET (1..n)
    OBVIOUS
  <1> HIDE DEF I, J
  <1>7. Len(C) = Cardinality(I) /\ Len(PreviousWindow) = Cardinality(J)
    BY <1>1, <1>5, <1>6, PickedProperties
  <1>8. Cardinality(I) \in Nat /\ Cardinality(J) \in Nat /\ Cardinality(I) + Cardinality(J) = n
    BY <1>1, <1>4, <1>6, PartsAddUp
  <1>9. Counted(C).total = Len(C) /\ Counted(PreviousWindow).total = Len(PreviousWindow)
    BY DEF Counted
  <1> DEFINE l == Len(C)
             S(s) == {i \in 1..l : row[C[i]].source = s}
             SJ == {i \in 1..l : row[C[i]].source \in {"scan", "journey"}}
  <1>10. C \in Seq(Row) /\ l \in Nat /\ DOMAIN C = 1..l /\ \A i \in 1..l : \E j \in I : C[i] = returned[j]
    <2>1. C \in Seq(Row)
      BY <1>1, <1>5, <1>6, PickedProperties
    <2>2. \A i \in DOMAIN C : \E j \in I : C[i] = returned[j]
      BY <1>1, <1>5, <1>6, PickedFrom
    <2>3. l \in Nat /\ DOMAIN C = 1..l
      BY <2>1, LenProperties
    <2> QED BY <2>1, <2>2, <2>3
  <1>11. \A i \in 1..l : row[C[i]].source \in {"scan", "journey", "api"}
    BY <1>2, <1>6, <1>10 DEF TimelineSource
  <1>12. \A s : OfKind(C, s) = Picked(C, S(s))
    BY <1>10 DEF OfKind
  <1> HIDE DEF l
  <1>13. \A s : S(s) \in SUBSET (1..l)
    OBVIOUS
  <1>14. Len(OfKind(C, "scan")) = Cardinality(S("scan")) /\ Len(OfKind(C, "journey")) = Cardinality(S("journey"))
         /\ Len(OfKind(C, "api")) = Cardinality(S("api"))
    <2> HIDE DEF S
    <2>1. \A s : Len(OfKind(C, s)) = Cardinality(S(s))
      BY <1>10, <1>12, <1>13, PickedProperties DEF l
    <2> QED BY <2>1
  <1>15. Cardinality(SJ) \in Nat /\ Cardinality(S("api")) \in Nat /\ Cardinality(SJ) + Cardinality(S("api")) = l
    <2>1. SJ \in SUBSET (1..l) /\ S("api") \in SUBSET (1..l) /\ SJ \cap S("api") = {} /\ SJ \cup S("api") = 1..l
      BY <1>11
    <2> HIDE DEF SJ, S
    <2> QED BY <1>10, <2>1, PartsAddUp
  <1>16. Cardinality(SJ) = Cardinality(S("scan")) + Cardinality(S("journey"))
    <2>1. SJ = S("scan") \cup S("journey") /\ S("scan") \cap S("journey") = {}
      OBVIOUS
    <2>2. S("scan") \in SUBSET (1..l) /\ S("journey") \in SUBSET (1..l)
      OBVIOUS
    <2> HIDE DEF SJ, S
    <2>3. /\ IsFiniteSet(S("scan")) /\ IsFiniteSet(S("journey"))
          /\ Cardinality(S("scan")) \in Nat /\ Cardinality(S("journey")) \in Nat
      BY <1>10, <2>2, PositionsAreFinite
    <2>4. Cardinality(SJ) = Cardinality(S("scan")) + Cardinality(S("journey")) - Cardinality(S("scan") \cap S("journey"))
      BY <2>1, <2>3, FS_Union
    <2>5. Cardinality(S("scan") \cap S("journey")) = 0
      BY <2>1, FS_EmptySet
    <2> QED BY <2>3, <2>4, <2>5
  <1> HIDE DEF SJ, S
  <1> QED BY <1>7, <1>8, <1>9, <1>14, <1>15, <1>16 DEF C, l

\* The failures listed are the most recent ones of those the walk returned, and
\* what it did not return is further down.
LEMMA ListedAreNewest ==
  ASSUME LineInv, walk = "done", reader = "failures",
         NEW r \in Owed, OutcomeNow(r) = "failed", readAs[r] # "running", ~Ambiguous(r), r \notin ToSet(ListedFailures)
  PROVE  Len(ListedFailures) = FailureLimit /\ \A q \in ToSet(ListedFailures) : ShownLater(q, r)
PROOF
  <1> DEFINE n == Len(returned)
             I == {i \in DOMAIN returned : readAs[returned[i]] = "failed"}
             F == Failures(returned)
             L == ListedFailures
             c == Cardinality(I)
  <1>1. returned \in Seq(Row) /\ n \in Nat /\ DOMAIN returned = 1..n /\ I \in SUBSET (1..n)
    BY LenProperties DEF LineInv, ReturnedInv
  <1>2. FailureLimit \in Nat
    BY TimelineAssumption
  <1>3. F = Picked(returned, I)
    BY DEF Failures
  <1>4. L = UpTo(F, FailureLimit)
    BY DEF ListedFailures
  <1>5. row[r].outcome = "failed" /\ r \in Row
    BY DEF OutcomeNow, Owed
  <1>5a. \A i \in 1..n : returned[i] = r => i \in I
    BY <1>1, <1>5 DEF LineInv, ReadInv
  <1> HIDE DEF I, F, L
  <1>6. /\ F \in Seq(Row) /\ Len(F) = c /\ DOMAIN F = 1..c
        /\ \A k \in 1..c : NthOf(I, k) \in I /\ F[k] = returned[NthOf(I, k)]
        /\ \A i \in I : \E k \in 1..c : F[k] = returned[i]
    BY <1>1, <1>3, PickedProperties
  <1>7. c \in Nat
    BY <1>1, PositionsAreFinite
  <1>8. ASSUME NEW k \in 1..c, NEW l \in 1..c, k < l
        PROVE  ShownLater(F[k], F[l])
    <2>1. NthOf(I, k) < NthOf(I, l) /\ NthOf(I, k) \in DOMAIN returned /\ NthOf(I, l) \in DOMAIN returned
      BY <1>1, <1>6, <1>8, NthAscends
    <2> QED BY <1>6, <2>1 DEF LineInv, ReturnedInv
  <1> HIDE DEF c
  <1>9. /\ Len(L) = (IF c < FailureLimit THEN c ELSE FailureLimit) /\ DOMAIN L = 1..Len(L)
        /\ \A i \in 1..Len(L) : L[i] = F[i]
    BY <1>2, <1>4, <1>6, UpToProperties
  <1>10. \A q \in ToSet(L) : \E k \in 1..Len(L) : q = F[k]
    BY <1>9 DEF ToSet
  <1>11. \A k \in 1..Len(L) : k \in 1..c /\ F[k] \in ToSet(L)
    <2>1. \A k \in 1..Len(L) : k \in 1..c
      BY <1>2, <1>7, <1>9
    <2>2. \A k \in 1..Len(L) : L[k] \in ToSet(L)
      BY <1>9 DEF ToSet
    <2> QED BY <1>9, <2>1, <2>2
  <1>12. CASE r \in Shown
    <2>1. PICK i \in I : returned[i] = r
      BY <1>1, <1>5a, <1>12 DEF Shown, ToSet
    <2>2. PICK l \in 1..c : F[l] = r
      BY <1>6, <2>1
    <2>3. l \notin 1..Len(L)
      BY <1>11, <2>2 DEF L
    <2>4. Len(L) = FailureLimit /\ \A k \in 1..Len(L) : k < l
      BY <1>2, <1>7, <1>9, <2>3
    <2>5. \A k \in 1..Len(L) : ShownLater(F[k], r)
      BY <1>8, <1>11, <2>2, <2>4
    <2> QED BY <1>10, <2>4, <2>5 DEF L
  <1>13. CASE r \notin Shown
    <2>1. c >= FailureLimit /\ BelowAll(r)
      BY <1>6, <1>13 DEF LineInv, OwedInv, F
    <2>2. Len(L) = FailureLimit
      BY <1>2, <1>7, <1>9, <2>1
    <2>3. \A k \in 1..c : ShownLater(F[k], r)
      BY <1>1, <1>6, <2>1 DEF BelowAll
    <2>4. \A k \in 1..Len(L) : ShownLater(F[k], r)
      BY <1>11, <2>3
    <2> QED BY <1>10, <2>2, <2>4 DEF L
  <1> QED BY <1>12, <1>13

\* From what is owed and returned, the walk repeats none and leaves none out.
LEMMA LineInvIsSound == LineInv => WalkIsSound
PROOF
  <1> SUFFICES ASSUME LineInv
               PROVE  WalkIsSound
    OBVIOUS
  <1>1. \A i \in 1..Len(returned) - 1 : ShownLater(returned[i], returned[i + 1])
    <2>1. Len(returned) \in Nat /\ DOMAIN returned = 1..Len(returned)
      BY LenProperties DEF LineInv, ReturnedInv
    <2>2. \A i \in 1..Len(returned) - 1 : i \in DOMAIN returned /\ i + 1 \in DOMAIN returned /\ i < i + 1
      BY <2>1
    <2> QED BY <2>2 DEF LineInv, ReturnedInv
  <1>2. walk = "done" /\ reader # "failures" => \A r \in Owed : Ambiguous(r) \/ r \in Shown
    BY DEF LineInv, OwedInv
  <1> QED BY <1>1, <1>2, SummaryAddsUp, ListedAreNewest DEF WalkIsSound

-----------------------------------------------------------------------------
(* SitemapSuite                                                              *)

\* What the addresses of the site answer.
SiteOK ==
  \A p \in Place : /\ site[p].kind \in {"index", "pages"} => site[p].locations \in Seq(Location)
                   /\ site[p].kind = "redirect" => site[p].to \in Place

\* One list after another.
LEMMA Concatenation ==
  ASSUME NEW S, NEW s \in Seq(S), NEW t \in Seq(S)
  PROVE  /\ s \o t \in Seq(S) /\ Len(s \o t) = Len(s) + Len(t)
         /\ ToSet(s \o t) = ToSet(s) \cup ToSet(t)
         /\ IsInjective(s) /\ IsInjective(t) /\ ToSet(s) \cap ToSet(t) = {} => IsInjective(s \o t)
PROOF
  <1> DEFINE m == Len(s)
             k == Len(t)
             c == s \o t
  <1>1. /\ m \in Nat /\ k \in Nat /\ DOMAIN s = 1..m /\ DOMAIN t = 1..k
    BY LenProperties
  <1>2. c \in Seq(S) /\ Len(c) = m + k
    BY ConcatProperties
  <1>3. DOMAIN c = 1..(m + k)
    BY <1>2, LenProperties
  <1>4. \A i \in 1..(m + k) : c[i] = IF i <= m THEN s[i] ELSE t[i - m]
    BY ConcatProperties
  <1> HIDE DEF m, k, c
  <1>5. \A i \in 1..(m + k) : (i <= m => i \in 1..m) /\ (~(i <= m) => i - m \in 1..k)
    BY <1>1
  <1>6. \A i \in 1..m : i \in 1..(m + k) /\ i <= m
    BY <1>1
  <1>7. \A i \in 1..k : i + m \in 1..(m + k) /\ ~(i + m <= m) /\ (i + m) - m = i
    BY <1>1
  <1>8. \A i \in 1..m : c[i] = s[i]
    BY <1>4, <1>6
  <1>9. \A i \in 1..k : c[i + m] = t[i]
    BY <1>4, <1>7
  <1>10. ToSet(c) = ToSet(s) \cup ToSet(t)
    <2>1. \A i \in 1..(m + k) : c[i] \in ToSet(s) \cup ToSet(t)
      BY <1>1, <1>4, <1>5 DEF ToSet
    <2>2. \A i \in 1..m : s[i] \in ToSet(c)
      BY <1>3, <1>6, <1>8 DEF ToSet
    <2>3. \A i \in 1..k : t[i] \in ToSet(c)
      BY <1>3, <1>7, <1>9 DEF ToSet
    <2>4. ToSet(c) \subseteq ToSet(s) \cup ToSet(t)
      BY <1>3, <2>1 DEF ToSet
    <2>5. ToSet(s) \subseteq ToSet(c) /\ ToSet(t) \subseteq ToSet(c)
      BY <1>1, <2>2, <2>3 DEF ToSet
    <2> QED BY <2>4, <2>5
  <1>11. ASSUME IsInjective(s), IsInjective(t), ToSet(s) \cap ToSet(t) = {}
         PROVE  IsInjective(c)
    <2> SUFFICES ASSUME NEW i \in 1..(m + k), NEW j \in 1..(m + k), c[i] = c[j]
                 PROVE  i = j
      BY <1>3 DEF IsInjective
    <2>1. CASE i <= m /\ j <= m
      BY <1>1, <1>5, <1>8, <1>11, <2>1 DEF IsInjective
    <2>2. CASE ~(i <= m) /\ ~(j <= m)
      <3>1. i - m \in 1..k /\ j - m \in 1..k /\ c[i] = t[i - m] /\ c[j] = t[j - m]
        BY <1>4, <1>5, <2>2
      <3>2. i - m = j - m
        BY <1>1, <1>11, <3>1 DEF IsInjective
      <3> QED BY <1>1, <3>2
    <2>3. CASE i <= m /\ ~(j <= m)
      <3>1. c[i] \in ToSet(s) /\ c[j] \in ToSet(t)
        BY <1>1, <1>4, <1>5, <2>3 DEF ToSet
      <3> QED BY <1>11, <3>1
    <2>4. CASE ~(i <= m) /\ j <= m
      <3>1. c[i] \in ToSet(t) /\ c[j] \in ToSet(s)
        BY <1>1, <1>4, <1>5, <2>4 DEF ToSet
      <3> QED BY <1>11, <3>1
    <2> QED BY <2>1, <2>2, <2>3, <2>4
  <1> QED BY <1>2, <1>10, <1>11 DEF m, k, c

\* A sitemap lists addresses of the site.
LEMMA ListedIsOfTheSite ==
  ASSUME SiteOK, NEW p \in Place, site[p].kind \in {"index", "pages"}
  PROVE  Listed(p) \in Seq(Origin) /\ ToSet(Listed(p)) \subseteq Origin
PROOF
  <1> DEFINE all == site[p].locations
             I == {i \in DOMAIN all : PlaceOf[all[i]] \in Origin}
             own == Picked(all, I)
             c == Cardinality(I)
  <1>1. all \in Seq(Location)
    BY DEF SiteOK
  <1>2. I \in SUBSET (1..Len(all)) /\ \A i \in I : PlaceOf[all[i]] \in Origin
    BY <1>1, LenProperties
  <1>3. Listed(p) = [n \in DOMAIN own |-> PlaceOf[own[n]]]
    BY DEF Listed, Normalized
  <1> HIDE DEF all, I
  <1>4. DOMAIN own = 1..c /\ \A n \in 1..c : NthOf(I, n) \in I /\ own[n] = all[NthOf(I, n)]
    BY <1>1, <1>2, PickedProperties
  <1>5. c \in Nat
    BY <1>1, <1>2, PositionsAreFinite, LenProperties
  <1> HIDE DEF c, own
  <1>6. Listed(p) \in [1..c -> Origin]
    BY <1>2, <1>3, <1>4
  <1>7. Listed(p) \in Seq(Origin)
    BY <1>5, <1>6 DEF Seq
  <1> QED BY <1>6, <1>7 DEF ToSet

\* Sitemaps queued are those listed, within the limit, and none queued goes.
LEMMA SitemapsQueued ==
  ASSUME pending \in Seq(Origin), Len(pending) <= MAX_SITEMAP_FILES, NEW L \in Seq(Origin)
  PROVE  /\ WithSitemaps(L) \in Seq(Origin) /\ Len(WithSitemaps(L)) <= MAX_SITEMAP_FILES
         /\ ToSet(WithSitemaps(L)) \subseteq ToSet(pending) \cup ToSet(L)
         /\ ToSet(pending) \subseteq ToSet(WithSitemaps(L))
PROOF
  <1> DEFINE I == {i \in DOMAIN L : L[i] \notin visited}
             U == Unvisited(L)
             room == MAX_SITEMAP_FILES - Len(pending)
             T == UpTo(U, room)
  <1>1. MAX_SITEMAP_FILES \in Nat /\ Len(pending) \in Nat /\ room \in Nat
    <2>1. MAX_SITEMAP_FILES \in Nat /\ Len(pending) \in Nat
      BY SuiteAssumption, LenProperties
    <2> QED BY <2>1
  <1>2. I \in SUBSET (1..Len(L)) /\ U = Picked(L, I)
    BY LenProperties DEF Unvisited
  <1>3. WithSitemaps(L) = pending \o T
    BY DEF WithSitemaps
  <1> HIDE DEF I, U, room
  <1>4. U \in Seq(Origin) /\ \A n \in DOMAIN U : \E i \in I : U[n] = L[i]
    <2>1. U \in Seq(Origin)
      BY <1>2, PickedProperties
    <2>2. \A n \in DOMAIN U : \E i \in I : U[n] = L[i]
      BY <1>2, PickedFrom
    <2> QED BY <2>1, <2>2
  <1>5. /\ T \in Seq(Origin) /\ Len(T) = (IF Len(U) < room THEN Len(U) ELSE room)
        /\ DOMAIN T = 1..Len(T) /\ \A i \in 1..Len(T) : T[i] = U[i]
    BY <1>1, <1>4, UpToProperties
  <1>6. Len(U) \in Nat /\ DOMAIN U = 1..Len(U)
    BY <1>4, LenProperties
  <1>7. ToSet(T) \subseteq ToSet(L)
    <2>1. \A i \in DOMAIN T : i \in DOMAIN U
      BY <1>1, <1>5, <1>6
    <2>2. \A i \in I : L[i] \in ToSet(L)
      BY <1>2, LenProperties DEF ToSet
    <2> QED BY <1>4, <1>5, <2>1, <2>2 DEF ToSet
  <1> HIDE DEF T
  <1>8. /\ pending \o T \in Seq(Origin) /\ Len(pending \o T) = Len(pending) + Len(T)
        /\ ToSet(pending \o T) = ToSet(pending) \cup ToSet(T)
    BY <1>5, Concatenation
  <1>9. Len(pending) + Len(T) <= MAX_SITEMAP_FILES
    BY <1>1, <1>5, <1>6 DEF room
  <1> QED BY <1>3, <1>7, <1>8, <1>9

\* Pages are found once, as many as fit, and all of a list that fits.
LEMMA PagesFound ==
  ASSUME pages \in Seq(Origin), IsInjective(pages), Len(pages) <= MaxPages, NEW L \in Seq(Origin)
  PROVE  /\ WithPages(L) \in Seq(Origin) /\ IsInjective(WithPages(L))
         /\ Len(WithPages(L)) <= MaxPages /\ Len(pages) <= Len(WithPages(L))
         /\ ToSet(WithPages(L)) \subseteq ToSet(pages) \cup ToSet(L)
         /\ ToSet(pages) \subseteq ToSet(WithPages(L))
         /\ Len(WithPages(L)) = MaxPages \/ ToSet(L) \subseteq ToSet(WithPages(L))
PROOF
  <1> DEFINE l == Len(L)
             I == {i \in DOMAIN L : L[i] \notin ToSet(pages) /\ \A j \in DOMAIN L : j < i => L[j] # L[i]}
             U == NewPages(L)
             room == MaxPages - Len(pages)
             T == UpTo(U, room)
             c == Cardinality(I)
  <1>1. MaxPages \in Nat /\ Len(pages) \in Nat /\ room \in Nat
    <2>1. MaxPages \in Nat /\ Len(pages) \in Nat
      BY SuiteAssumption, LenProperties
    <2> QED BY <2>1
  <1>2. l \in Nat /\ DOMAIN L = 1..l /\ I \in SUBSET (1..l) /\ U = Picked(L, I)
    BY LenProperties DEF NewPages
  <1>3. WithPages(L) = pages \o T
    BY DEF WithPages
  <1>4. /\ \A i \in I : L[i] \notin ToSet(pages)
        /\ \A i \in I, j \in 1..l : j < i => L[j] # L[i]
        /\ \A i \in 1..l : L[i] \notin ToSet(pages) /\ (\A j \in 1..l : j < i => L[j] # L[i]) => i \in I
    BY <1>2
  <1> HIDE DEF I, U, room
  <1>5. /\ U \in Seq(Origin) /\ Len(U) = c /\ DOMAIN U = 1..c
        /\ \A n \in 1..c : NthOf(I, n) \in I /\ U[n] = L[NthOf(I, n)]
        /\ \A i \in I : \E n \in 1..c : U[n] = L[i]
    BY <1>2, PickedProperties
  <1>6. c \in Nat
    BY <1>2, PositionsAreFinite
  <1>7. \A n, k \in 1..c : n < k => U[n] # U[k]
    <2> SUFFICES ASSUME NEW n \in 1..c, NEW k \in 1..c, n < k
                 PROVE  U[n] # U[k]
      OBVIOUS
    <2>1. NthOf(I, n) < NthOf(I, k)
      BY <1>2, NthAscends
    <2>2. NthOf(I, n) \in 1..l /\ NthOf(I, k) \in I /\ U[n] = L[NthOf(I, n)] /\ U[k] = L[NthOf(I, k)]
      BY <1>2, <1>5
    <2> QED BY <1>4, <2>1, <2>2
  <1> HIDE DEF c
  <1>8. /\ T \in Seq(Origin) /\ Len(T) = (IF c < room THEN c ELSE room)
        /\ DOMAIN T = 1..Len(T) /\ \A i \in 1..Len(T) : T[i] = U[i]
    BY <1>1, <1>5, UpToProperties
  <1> HIDE DEF T
  <1>9. \A i \in DOMAIN T : i \in 1..c /\ T[i] = U[i]
    BY <1>1, <1>6, <1>8
  <1>10. IsInjective(T)
    <2> SUFFICES ASSUME NEW i \in DOMAIN T, NEW j \in DOMAIN T, T[i] = T[j]
                 PROVE  i = j
      BY DEF IsInjective
    <2>1. i \in 1..c /\ j \in 1..c /\ U[i] = U[j]
      BY <1>9
    <2>2. ~(i < j) /\ ~(j < i)
      BY <1>7, <2>1
    <2> QED BY <1>6, <2>1, <2>2
  <1>11. ToSet(T) \subseteq ToSet(L) /\ ToSet(pages) \cap ToSet(T) = {}
    <2>1. \A i \in DOMAIN T : \E j \in I : T[i] = L[j]
      BY <1>5, <1>9
    <2>2. \A j \in I : L[j] \in ToSet(L) /\ L[j] \notin ToSet(pages)
      BY <1>2, <1>4 DEF ToSet
    <2>3. \A x \in ToSet(T) : \E i \in DOMAIN T : x = T[i]
      BY DEF ToSet
    <2> QED BY <2>1, <2>2, <2>3
  <1>12. /\ pages \o T \in Seq(Origin) /\ Len(pages \o T) = Len(pages) + Len(T)
         /\ ToSet(pages \o T) = ToSet(pages) \cup ToSet(T) /\ IsInjective(pages \o T)
    BY <1>8, <1>10, <1>11, Concatenation
  <1>13. /\ Len(pages) + Len(T) <= MaxPages /\ Len(pages) <= Len(pages) + Len(T)
         /\ Len(pages) + Len(T) = MaxPages \/ Len(T) = c
    BY <1>1, <1>6, <1>8 DEF room
  <1>14. ASSUME Len(T) = c, NEW x \in ToSet(L)
         PROVE  x \in ToSet(pages) \cup ToSet(T)
    <2> DEFINE K == {j \in 1..l : L[j] = x}
    <2>1. K \in SUBSET (1..l) /\ K # {}
      BY <1>2 DEF ToSet
    <2>2. PICK i \in K : \A j \in K : i <= j
      <3> HIDE DEF K
      <3> QED BY <1>2, <2>1, FirstPosition
    <2>3. i \in 1..l /\ L[i] = x /\ \A j \in 1..l : j < i => L[j] # L[i]
      <3>1. \A j \in 1..l : j < i => j \notin K
        BY <2>2
      <3> QED BY <2>2, <3>1
    <2>4. CASE x \notin ToSet(pages)
      <3>1. i \in I
        BY <1>4, <2>3, <2>4
      <3>2. PICK n \in 1..c : U[n] = x
        BY <1>5, <2>3, <3>1
      <3>3. n \in DOMAIN T /\ T[n] = x
        BY <1>8, <1>14, <3>2
      <3> QED BY <3>3 DEF ToSet
    <2> QED BY <2>4
  <1> QED BY <1>3, <1>11, <1>12, <1>13, <1>14

\* Two ways from one address agree as far as they go, so it leads to one place.
LEMMA WaysAgree ==
  ASSUME NEW p, NEW n \in Nat, NEW k \in Nat, n <= k, NEW v, NEW w, Way(v, n, p), Way(w, k, p)
  PROVE  \A i \in 0..n : v[i] = w[i]
PROOF
  <1> DEFINE D == {i \in 1..n : v[i] # w[i]}
  <1>1. v[0] = w[0]
    BY DEF Way
  <1>2. ASSUME D # {}
        PROVE  FALSE
    <2>1. PICK i \in D : \A j \in D : i <= j
      <3>1. D \in SUBSET (1..n)
        OBVIOUS
      <3> HIDE DEF D
      <3> QED BY <1>2, <3>1, FirstPosition
    <2>2. i \in 1..n /\ v[i] # w[i] /\ i - 1 \in 0..(n - 1) /\ i - 1 \in 0..(k - 1) /\ (i - 1) + 1 = i /\ i - 1 \notin D
      BY <2>1
    <2>3. v[i - 1] = w[i - 1]
      <3>1. i - 1 = 0 \/ i - 1 \in 1..n
        BY <2>2
      <3> QED BY <1>1, <2>2, <3>1
    <2>4. v[(i - 1) + 1] = site[v[i - 1]].to /\ w[(i - 1) + 1] = site[w[i - 1]].to
      BY <2>2 DEF Way
    <2> QED BY <2>2, <2>3, <2>4
  <1>3. \A i \in 0..n : i = 0 \/ i \in 1..n
    OBVIOUS
  <1> QED BY <1>1, <1>2, <1>3

\* A place redirects to one other at most.
LEMMA LeadsToOne ==
  ASSUME NEW p, NEW q \in Leads(p), NEW r \in Leads(p)
  PROVE  q = r
PROOF
  <1>1. ASSUME NEW x \in Leads(p)
        PROVE  \E n \in Nat : \E v : Way(v, n, p) /\ v[n] = x /\ site[x].kind # "redirect"
    <2>1. PICK n \in 0..MAX_SITEMAP_HOPS : x \in Ends(p, n)
      BY DEF Leads
    <2>2. site[x].kind # "redirect"
      BY DEF Leads
    <2>3. n \in Nat
      BY <2>1
    <2> QED BY <2>1, <2>2, <2>3 DEF Ends
  <1>2. PICK n \in Nat : \E v : Way(v, n, p) /\ v[n] = q /\ site[q].kind # "redirect"
    BY <1>1
  <1>3. PICK v : Way(v, n, p) /\ v[n] = q /\ site[q].kind # "redirect"
    BY <1>2
  <1>4. PICK k \in Nat : \E w : Way(w, k, p) /\ w[k] = r /\ site[r].kind # "redirect"
    BY <1>1
  <1>5. PICK w : Way(w, k, p) /\ w[k] = r /\ site[r].kind # "redirect"
    BY <1>4
  <1>6. CASE n < k
    <2>1. v[n] = w[n]
      BY <1>3, <1>5, <1>6, WaysAgree
    <2>2. n \in 0..(k - 1)
      BY <1>6
    <2> QED BY <1>3, <1>5, <2>1, <2>2 DEF Way
  <1>7. CASE k < n
    <2>1. w[k] = v[k]
      BY <1>3, <1>5, <1>7, WaysAgree
    <2>2. k \in 0..(n - 1)
      BY <1>7
    <2> QED BY <1>3, <1>5, <2>1, <2>2 DEF Way
  <1>8. CASE n = k
    <2>1. v[n] = w[n]
      BY <1>3, <1>5, <1>8, WaysAgree
    <2> QED BY <1>3, <1>5, <1>8, <2>1
  <1> QED BY <1>6, <1>7, <1>8

\* A sitemap of the site's own is Read once what it lists is found, or what
\* could not be kept of it is known.
Read(p) ==
  /\ Lists(p, "index") \subseteq visited \cup ToSet(pending) \/ crowded
  /\ Lists(p, "pages") \subseteq ToSet(pages) \/ Len(pages) = MaxPages

DiscoveryInv ==
  /\ SiteOK /\ options.publicOnly \in BOOLEAN
  /\ pending \in Seq(Origin) /\ Len(pending) <= MAX_SITEMAP_FILES /\ ToSet(pending) \subseteq AllSitemaps
  /\ visited \subseteq AllSitemaps /\ Cardinality(visited) <= MAX_SITEMAP_FILES
  /\ FirstSitemap \in visited \cup ToSet(pending)
  /\ pages \in Seq(Origin) /\ IsInjective(pages) /\ Len(pages) <= MaxPages /\ ToSet(pages) \subseteq Published
  /\ options.publicOnly => asked \cap Private = {}

\* The sitemap being fetched is the only one visited and not read.
Following(p) == hop[1] \in Ends(p, hop[2])
ReadingInv ==
  /\ suiteAt \in {"checking", "fetching"} =>
       /\ hop[1] \in Place /\ hop[2] \in 0..MAX_SITEMAP_HOPS
       /\ \E p \in visited : Following(p) /\ \A r \in visited \ {p} : Read(r)
  /\ suiteAt = "fetching" => AllowedSitemap(hop[1])
  /\ suiteAt \notin {"checking", "fetching", "failed"} => \A p \in visited : Read(p)
  /\ suiteAt \notin {"choosing", "checking", "fetching", "failed"} => ~Reads

\* Reports are of the pages, in their order; the analysis ends with all of them.
PageReport == [of : Place, issues : SUBSET SuiteIssue, status : {"completed", "partial"}]
ResultInv ==
  /\ reports \in Seq(PageReport)
  /\ suiteAt \in {"choosing", "checking", "fetching"} => reports = <<>>
  /\ suiteAt \in {"analysing", "writing", "comparing", "reported"} =>
       /\ Len(reports) <= Len(pages) /\ \A i \in 1..Len(reports) : reports[i].of = pages[i]
       /\ \E done \in Nat : progress = [completed |-> done, discovered |-> Len(pages)]
  /\ suiteAt \in {"comparing", "reported"} =>
       Len(reports) = Len(pages) /\ progress = [completed |-> Len(pages), discovered |-> Len(pages)]
  /\ suiteAt = "reported" /\ passed =>
       \A r \in ToSet(reports) : r.status = "completed" /\ (r.issues = {} \/ (options.regressionsOnly /\ r.issues \subseteq options.known))

SuiteInv == DiscoveryInv /\ ReadingInv /\ ResultInv

\* The sitemaps reached are of the site, finitely many, closed under what they
\* list, and the least such set.
LEMMA SitemapsAreOfTheSite ==
  ASSUME SiteOK
  PROVE  /\ AllSitemaps \subseteq Origin /\ FirstSitemap \in AllSitemaps /\ IsFiniteSet(AllSitemaps)
         /\ Published \subseteq Origin /\ IsFiniteSet(Published)
         /\ \A p \in Place : Lists(p, "index") \subseteq Origin /\ Lists(p, "pages") \subseteq Origin
         /\ \A p \in AllSitemaps : Lists(p, "index") \subseteq AllSitemaps /\ Lists(p, "pages") \subseteq Published
         /\ \A S \in SUBSET Origin : Closed(S) => AllSitemaps \subseteq S
PROOF
  <1>1. AllSitemaps \subseteq Origin /\ FirstSitemap \in AllSitemaps
    BY SuiteAssumption DEF AllSitemaps, Closed
  <1>2. ASSUME NEW p \in Place, NEW kind \in {"index", "pages"}
        PROVE  Lists(p, kind) \subseteq Origin
    <2>1. ASSUME NEW q \in Leads(p), site[q].kind = kind
          PROVE  ToSet(Listed(q)) \subseteq Origin
      <3>1. q \in Place
        BY DEF Leads, Ends
      <3> QED BY <2>1, <3>1, ListedIsOfTheSite
    <2> QED BY <2>1 DEF Lists
  <1>3. ASSUME NEW p \in AllSitemaps, NEW q \in Lists(p, "index")
        PROVE  q \in AllSitemaps
    <2>1. q \in Origin
      BY <1>1, <1>2, SuiteAssumption
    <2>2. ASSUME NEW S \in SUBSET Origin, Closed(S)
          PROVE  q \in S
      <3>1. p \in S
        BY <2>2 DEF AllSitemaps
      <3> QED BY <2>2, <3>1 DEF Closed
    <2> QED BY <2>1, <2>2 DEF AllSitemaps
  <1>4. Published \subseteq Origin
    BY <1>1, <1>2, SuiteAssumption DEF Published
  <1>5. \A p \in AllSitemaps : Lists(p, "pages") \subseteq Published
    BY DEF Published
  <1>6. IsFiniteSet(AllSitemaps) /\ IsFiniteSet(Published)
    BY <1>1, <1>4, SuiteAssumption, FS_Subset
  <1>7. \A S \in SUBSET Origin : Closed(S) => AllSitemaps \subseteq S
    BY DEF AllSitemaps
  <1> QED BY <1>1, <1>2, <1>3, <1>4, <1>5, <1>6, <1>7

\* What the site answers never changes, nor does what follows from it.
LEMMA SiteStays ==
  ASSUME UNCHANGED site
  PROVE  /\ SiteOK' = SiteOK /\ AllSitemaps' = AllSitemaps /\ Published' = Published
         /\ \A p, kind : Lists(p, kind)' = Lists(p, kind)
         /\ \A p, n : Ends(p, n)' = Ends(p, n)
PROOF
  <1>1. SiteOK' = SiteOK
    BY DEF SiteOK
  <1>2. \A p, n : Ends(p, n)' = Ends(p, n)
    BY DEF Ends, Way
  <1>3. \A p : Listed(p)' = Listed(p)
    BY DEF Listed, Normalized
  <1>4. \A p : Leads(p)' = Leads(p)
    BY <1>2 DEF Leads
  <1>5. \A p, kind : Lists(p, kind)' = Lists(p, kind)
    BY <1>3, <1>4 DEF Lists
  <1>6. AllSitemaps' = AllSitemaps
    BY <1>5 DEF AllSitemaps, Closed
  <1>7. Published' = Published
    BY <1>5, <1>6 DEF Published
  <1> QED BY <1>1, <1>2, <1>5, <1>6, <1>7

\* The address under way is where the redirects lead.
LEMMA FollowingOn ==
  ASSUME UNCHANGED site, NEW p, NEW q, NEW n, hop' = <<q, n>>, q \in Ends(p, n)
  PROVE  Following(p)'
PROOF
  <1>1. hop'[1] = q /\ hop'[2] = n /\ site' = site
    OBVIOUS
  <1>2. PICK w \in [0..n -> Place] : Way(w, n, p) /\ w[n] = q
    BY DEF Ends
  <1>3. w \in [0..hop'[2] -> Place] /\ w[hop'[2]] = q
    BY <1>1, <1>2
  <1>4. w[0] = p /\ \A i \in 0..(hop'[2] - 1) : site'[w[i]].kind = "redirect" /\ w[i + 1] = site'[w[i]].to
    BY <1>1, <1>2 DEF Way
  <1>5. w \in {way \in [0..hop'[2] -> Place] :
               way[0] = p /\ \A i \in 0..(hop'[2] - 1) : site'[way[i]].kind = "redirect" /\ way[i + 1] = site'[way[i]].to}
    BY <1>3, <1>4
  <1>6. hop'[1] = w[hop'[2]]
    BY <1>1, <1>3
  <1> QED BY <1>5, <1>6 DEF Following, Ends, Way

\* It holds for every site before the first sitemap is asked for.
LEMMA SuiteStarts ==
  ASSUME SiteOK, options.publicOnly \in BOOLEAN, suiteAt = "choosing", pending = <<FirstSitemap>>, visited = {},
         asked = {}, pages = <<>>, reports = <<>>
  PROVE  SuiteInv
PROOF
  <1>1. FirstSitemap \in Origin /\ MAX_SITEMAP_FILES \in Nat \ {0} /\ MaxPages \in Nat
    BY SuiteAssumption
  <1>2. pending \in Seq(Origin) /\ Len(pending) = 1 /\ DOMAIN pending = 1..1 /\ pending[1] = FirstSitemap
    BY <1>1
  <1>3. ToSet(pending) = {FirstSitemap}
    BY <1>2 DEF ToSet
  <1>4. pages \in Seq(Origin) /\ Len(pages) = 0 /\ DOMAIN pages = {} /\ ToSet(pages) = {} /\ IsInjective(pages)
    BY DEF ToSet, IsInjective
  <1>5. Cardinality(visited) = 0
    BY FS_EmptySet
  <1>6. DiscoveryInv
    BY <1>1, <1>2, <1>3, <1>4, <1>5, SitemapsAreOfTheSite DEF DiscoveryInv
  <1>7. ReadingInv
    BY DEF ReadingInv
  <1>8. ResultInv
    BY DEF ResultInv
  <1> QED BY <1>6, <1>7, <1>8 DEF SuiteInv

\* Holds at first: what was discovered, read and reported of a site.
LEMMA SuiteInvInit == SuiteInit => SuiteInv
PROOF
  <1> SUFFICES ASSUME SuiteInit
               PROVE  SuiteInv
    OBVIOUS
  <1>1. SiteOK
    BY SuiteAssumption DEF SuiteInit, SiteOK
  <1>2. options.publicOnly \in BOOLEAN
    BY DEF SuiteInit
  <1> QED BY <1>1, <1>2, SuiteStarts DEF SuiteInit

\* What is found and what is visited grow; so what was Read stays so.
LEMMA ReadStays ==
  ASSUME DiscoveryInv, UNCHANGED site, visited \cup ToSet(pending) \subseteq visited' \cup ToSet(pending)',
         ToSet(pages) \subseteq ToSet(pages)', Len(pages) <= Len(pages'), Len(pages') <= MaxPages,
         pages' \in Seq(Origin), crowded => crowded',
         NEW p, Read(p)
  PROVE  Read(p)'
PROOF
  <1>1. Lists(p, "index")' = Lists(p, "index") /\ Lists(p, "pages")' = Lists(p, "pages")
    BY SiteStays
  <1>2. Lists(p, "index") \subseteq visited' \cup ToSet(pending)' \/ crowded'
    BY DEF Read
  <1>3. Len(pages) = MaxPages => Len(pages') = MaxPages
    <2>1. MaxPages \in Nat /\ Len(pages') \in Nat
      BY SuiteAssumption, LenProperties
    <2> QED BY <2>1
  <1>4. Lists(p, "pages") \subseteq ToSet(pages)' \/ Len(pages') = MaxPages
    BY <1>3 DEF Read
  <1> QED BY <1>1, <1>2, <1>4 DEF Read

\* A sitemap taken from the queue is visited.
LEMMA SitemapTaken ==
  ASSUME SuiteInv, NextSitemap
  PROVE  SuiteInv'
PROOF
  <1>0. PICK h : h = Head(pending)
    OBVIOUS
  <1> DEFINE l == Len(pending)
  <1>1. /\ suiteAt = "choosing" /\ pending # <<>> /\ Cardinality(visited) < MAX_SITEMAP_FILES
        /\ pending' = Tail(pending)
        /\ UNCHANGED <<site, options, asked, pages, crowded, reports, progress, passed>>
        /\ IF h \in visited THEN UNCHANGED <<suiteAt, visited, hop>>
           ELSE suiteAt' = "checking" /\ visited' = visited \cup {h} /\ hop' = <<h, 0>>
    BY <1>0 DEF NextSitemap, Reads, resultVars
  <1>2. DiscoveryInv /\ ReadingInv /\ ResultInv
    BY DEF SuiteInv
  <1>3. /\ pending \in Seq(Origin) /\ l \in Nat /\ l # 0 /\ DOMAIN pending = 1..l /\ h = pending[1]
        /\ Tail(pending) \in Seq(Origin) /\ Len(Tail(pending)) = l - 1
        /\ \A i \in 1..(l - 1) : Tail(pending)[i] = pending[i + 1]
    <2>1. pending \in Seq(Origin) /\ l \in Nat /\ DOMAIN pending = 1..l
      BY <1>2, LenProperties DEF DiscoveryInv
    <2>2. l # 0 /\ h = pending[1]
      BY <1>0, <1>1, <2>1, EmptySeq
    <2>3. /\ Tail(pending) \in Seq(Origin) /\ Len(Tail(pending)) = l - 1
          /\ \A i \in 1..Len(Tail(pending)) : Tail(pending)[i] = pending[i + 1]
      BY <1>1, <2>1, HeadTailProperties
    <2> QED BY <2>1, <2>2, <2>3
  <1> HIDE DEF l
  <1>4. ToSet(pending) = {h} \cup ToSet(Tail(pending)) /\ DOMAIN Tail(pending) = 1..(l - 1)
    <2>1. DOMAIN Tail(pending) = 1..(l - 1)
      BY <1>3, LenProperties
    <2>2. \A i \in 1..l : i = 1 \/ (i - 1 \in 1..(l - 1) /\ (i - 1) + 1 = i)
      BY <1>3
    <2>3. \A i \in 1..(l - 1) : i + 1 \in 1..l
      BY <1>3
    <2>4. ASSUME NEW i \in 1..l
          PROVE  pending[i] \in {h} \cup ToSet(Tail(pending))
      <3>1. CASE i = 1
        BY <1>3, <3>1
      <3>2. CASE i - 1 \in 1..(l - 1) /\ (i - 1) + 1 = i
        BY <1>3, <2>1, <3>2 DEF ToSet
      <3> QED BY <2>2, <3>1, <3>2
    <2>5. \A i \in 1..(l - 1) : Tail(pending)[i] \in ToSet(pending)
      BY <1>3, <2>3 DEF ToSet
    <2>6. h \in ToSet(pending)
      <3>1. 1 \in 1..l
        BY <1>3
      <3> QED BY <1>3, <3>1 DEF ToSet
    <2>7. ToSet(pending) \subseteq {h} \cup ToSet(Tail(pending))
      BY <1>3, <2>4 DEF ToSet
    <2>8. ToSet(Tail(pending)) \subseteq ToSet(pending)
      BY <2>1, <2>5 DEF ToSet
    <2> QED BY <2>1, <2>6, <2>7, <2>8
  <1>5. visited' \cup ToSet(pending)' = visited \cup ToSet(pending)
    BY <1>1, <1>4
  <1>6. /\ SiteOK' = SiteOK /\ AllSitemaps' = AllSitemaps /\ Published' = Published
    BY <1>1, SiteStays
  <1>7. \A p : Read(p) => Read(p)'
    <2>1. pages \in Seq(Origin) /\ Len(pages) <= MaxPages /\ Len(pages) \in Nat
      BY <1>2, LenProperties DEF DiscoveryInv
    <2> QED BY <1>1, <1>2, <1>5, <2>1, ReadStays
  <1>8. h \in AllSitemaps /\ h \in Place
    BY <1>2, <1>4, SitemapsAreOfTheSite, SuiteAssumption DEF DiscoveryInv
  <1>9. Cardinality(visited') <= MAX_SITEMAP_FILES /\ visited' \subseteq AllSitemaps
    <2>1. IsFiniteSet(visited) /\ Cardinality(visited) \in Nat /\ MAX_SITEMAP_FILES \in Nat
      BY <1>2, SitemapsAreOfTheSite, SuiteAssumption, FS_Subset, FS_CardinalityType DEF DiscoveryInv
    <2>2. h \notin visited => Cardinality(visited \cup {h}) = Cardinality(visited) + 1
      BY <2>1, FS_AddElement
    <2>3. CASE h \in visited
      BY <1>1, <1>2, <2>3 DEF DiscoveryInv
    <2>4. CASE h \notin visited
      <3>1. Cardinality(visited') = Cardinality(visited) + 1 /\ visited' = visited \cup {h}
        BY <1>1, <2>2, <2>4
      <3>2. Cardinality(visited') <= MAX_SITEMAP_FILES
        BY <1>1, <2>1, <3>1
      <3> QED BY <1>2, <1>8, <3>1, <3>2 DEF DiscoveryInv
    <2> QED BY <2>3, <2>4
  <1>10. DiscoveryInv'
    <2>1. MAX_SITEMAP_FILES \in Nat
      BY SuiteAssumption
    <2>2. pending' \in Seq(Origin) /\ Len(pending') <= MAX_SITEMAP_FILES /\ ToSet(pending)' \subseteq AllSitemaps
      BY <1>1, <1>2, <1>3, <1>4, <2>1 DEF DiscoveryInv, l
    <2>3. FirstSitemap \in visited' \cup ToSet(pending)'
      BY <1>2, <1>5 DEF DiscoveryInv
    <2>4. ToSet(pages)' = ToSet(pages) /\ IsInjective(pages)' = IsInjective(pages)
      BY <1>1 DEF ToSet, IsInjective
    <2> QED BY <1>1, <1>2, <1>6, <1>9, <2>2, <2>3, <2>4 DEF DiscoveryInv
  <1>11. ReadingInv'
    <2>1. CASE h \in visited
      BY <1>1, <1>2, <1>7, <2>1 DEF ReadingInv
    <2>2. CASE h \notin visited
      <3>1. hop' = <<h, 0>> /\ hop'[1] = h /\ hop'[2] = 0 /\ suiteAt' = "checking" /\ visited' = visited \cup {h}
        BY <1>1, <2>2
      <3>2. h \in Ends(h, 0)
        <4> DEFINE w == [i \in 0..0 |-> h]
        <4>1. w \in [0..0 -> Place] /\ w[0] = h /\ 0..(0 - 1) = {}
          BY <1>8
        <4>2. Way(w, 0, h)
          BY <4>1 DEF Way
        <4> HIDE DEF w
        <4> QED BY <4>1, <4>2 DEF Ends
      <3>3. 0 \in 0..MAX_SITEMAP_HOPS
        BY SuiteAssumption
      <3>4. \A r \in visited' \ {h} : Read(r)'
        BY <1>1, <1>2, <1>7, <3>1 DEF ReadingInv
      <3>5. Following(h)' /\ h \in visited'
        BY <1>1, <2>2, <3>1, <3>2, FollowingOn
      <3> QED BY <1>8, <3>1, <3>3, <3>4, <3>5 DEF ReadingInv
    <2> QED BY <2>1, <2>2
  <1>12. ResultInv'
    BY <1>1, <1>2 DEF ResultInv
  <1> QED BY <1>10, <1>11, <1>12 DEF SuiteInv

\* A redirect taken is one of the limit, to an address of the same site.
LEMMA RedirectTaken ==
  ASSUME SuiteInv, FollowRedirect
  PROVE  SuiteInv'
PROOF
  <1> DEFINE q == hop[1]
             n == hop[2]
             t == site[q].to
  <1>1. /\ suiteAt = "fetching" /\ site[q].kind = "redirect" /\ n < MAX_SITEMAP_HOPS
        /\ asked' = asked \cup {q} /\ hop' = <<t, n + 1>> /\ suiteAt' = "checking"
        /\ UNCHANGED <<site, options, pending, visited, pages, crowded, reports, progress, passed>>
    BY DEF FollowRedirect, resultVars
  <1>2. DiscoveryInv /\ ReadingInv /\ ResultInv /\ AllowedSitemap(q)
    BY <1>1 DEF SuiteInv, ReadingInv
  <1>3. q \in Place /\ n \in 0..MAX_SITEMAP_HOPS /\ t \in Place
    BY <1>1, <1>2 DEF ReadingInv, DiscoveryInv, SiteOK
  <1>4. PICK p \in visited : q \in Ends(p, n) /\ \A r \in visited \ {p} : Read(r)
    BY <1>1, <1>2 DEF ReadingInv, Following
  <1>5. /\ SiteOK' = SiteOK /\ AllSitemaps' = AllSitemaps /\ Published' = Published
        /\ \A x, y : Lists(x, y)' = Lists(x, y)
    BY <1>1, SiteStays
  <1> HIDE DEF q, n, t
  <1>6. n + 1 \in 0..MAX_SITEMAP_HOPS /\ n \in Nat
    BY <1>1, <1>3, SuiteAssumption
  <1>7. t \in Ends(p, n + 1)
    <2>1. PICK w \in [0..n -> Place] : Way(w, n, p) /\ w[n] = q
      BY <1>4 DEF Ends
    <2> DEFINE v == [i \in 0..(n + 1) |-> IF i <= n THEN w[i] ELSE t]
    <2>2. \A i \in 0..(n + 1) : i <= n => i \in 0..n
      BY <1>6
    <2>3. v \in [0..(n + 1) -> Place]
      BY <1>3, <2>1, <2>2
    <2>4. 0 \in 0..(n + 1) /\ 0 <= n /\ n + 1 \in 0..(n + 1) /\ ~(n + 1 <= n) /\ n \in 0..(n + 1) /\ n <= n
      BY <1>6
    <2>5. v[0] = p /\ v[n + 1] = t /\ v[n] = q
      BY <2>1, <2>4 DEF Way
    <2>6. ASSUME NEW i \in 0..n
          PROVE  site[v[i]].kind = "redirect" /\ v[i + 1] = site[v[i]].to
      <3>1. CASE i = n
        BY <1>1, <2>5, <3>1 DEF t
      <3>2. CASE i # n
        <4>1. i \in 0..(n - 1) /\ i \in 0..(n + 1) /\ i <= n /\ i + 1 \in 0..(n + 1) /\ i + 1 <= n
          BY <1>6, <3>2
        <4>2. v[i] = w[i] /\ v[i + 1] = w[i + 1]
          BY <4>1
        <4> HIDE DEF v
        <4> QED BY <2>1, <4>1, <4>2 DEF Way
      <3> QED BY <3>1, <3>2
    <2>7. (n + 1) - 1 = n
      BY <1>6
    <2> HIDE DEF v
    <2>8. Way(v, n + 1, p)
      BY <2>5, <2>6, <2>7 DEF Way
    <2> QED BY <2>3, <2>5, <2>8 DEF Ends
  <1>8. options.publicOnly => q \notin Private
    BY <1>1, <1>2 DEF AllowedSitemap, DiscoveryInv
  <1>9. ToSet(pages)' = ToSet(pages) /\ IsInjective(pages)' = IsInjective(pages) /\ ToSet(pending)' = ToSet(pending)
    BY <1>1 DEF ToSet, IsInjective
  <1>10. DiscoveryInv'
    BY <1>1, <1>2, <1>5, <1>8, <1>9 DEF DiscoveryInv
  <1>11. \A r : Read(r)' = Read(r)
    BY <1>1, <1>5, <1>9 DEF Read
  <1>12. ReadingInv'
    <2>1. hop'[1] = t /\ hop'[2] = n + 1 /\ p \in visited'
      BY <1>1
    <2>2. \A r \in visited' \ {p} : Read(r)'
      BY <1>1, <1>4, <1>11
    <2>3. Following(p)'
      BY <1>1, <1>7, FollowingOn
    <2> QED BY <1>1, <1>3, <1>6, <2>1, <2>2, <2>3 DEF ReadingInv
  <1>13. ResultInv'
    BY <1>1, <1>2 DEF ResultInv
  <1> QED BY <1>10, <1>12, <1>13 DEF SuiteInv

\* Of a sitemap read, everything listed is a page, visited or waiting, unless full.
LEMMA SitemapIsRead ==
  ASSUME SuiteInv, SitemapRead
  PROVE  SuiteInv'
PROOF
  <1> DEFINE q == hop[1]
             L == Listed(q)
  <1>1. /\ suiteAt = "fetching" /\ site[q].kind \in {"index", "pages"}
        /\ asked' = asked \cup {q} /\ suiteAt' = "choosing"
        /\ IF site[q].kind = "index"
           THEN /\ pending' = WithSitemaps(L)
                /\ crowded' = (crowded \/ ~(ToSet(L) \subseteq visited \cup ToSet(pending')))
                /\ UNCHANGED pages
           ELSE pages' = WithPages(L) /\ UNCHANGED <<pending, crowded>>
        /\ UNCHANGED <<site, options, visited, reports, progress, passed>>
    BY DEF SitemapRead, resultVars
  <1>2. DiscoveryInv /\ ReadingInv /\ ResultInv /\ AllowedSitemap(q)
    BY <1>1 DEF SuiteInv, ReadingInv
  <1>3. q \in Place /\ hop[2] \in 0..MAX_SITEMAP_HOPS
    BY <1>1, <1>2 DEF ReadingInv
  <1>4. PICK p \in visited : q \in Ends(p, hop[2]) /\ \A r \in visited \ {p} : Read(r)
    BY <1>1, <1>2 DEF ReadingInv, Following
  <1>5. /\ SiteOK' = SiteOK /\ AllSitemaps' = AllSitemaps /\ Published' = Published
        /\ \A x, y : Lists(x, y)' = Lists(x, y)
    BY <1>1, SiteStays
  <1>6. L \in Seq(Origin)
    BY <1>1, <1>2, <1>3, ListedIsOfTheSite DEF DiscoveryInv
  <1>7. q \in Leads(p)
    BY <1>1, <1>3, <1>4 DEF Leads
  <1>8. \A kind : Lists(p, kind) = IF site[q].kind = kind THEN ToSet(L) ELSE {}
    <2>1. \A r \in Leads(p) : r = q
      BY <1>7, LeadsToOne
    <2> QED BY <1>7, <2>1 DEF Lists
  <1>9. p \in AllSitemaps
    BY <1>2 DEF DiscoveryInv
  <1>10. Lists(p, "index") \subseteq AllSitemaps /\ Lists(p, "pages") \subseteq Published
    BY <1>2, <1>9, SitemapsAreOfTheSite DEF DiscoveryInv
  <1> HIDE DEF q, L
  <1>11. options.publicOnly => q \notin Private
    BY <1>1, <1>2 DEF AllowedSitemap, DiscoveryInv
  <1>12. ResultInv'
    BY <1>1, <1>2 DEF ResultInv
  <1>13. CASE site[q].kind = "index"
    <2>1. /\ pending' \in Seq(Origin) /\ Len(pending') <= MAX_SITEMAP_FILES
          /\ ToSet(pending') \subseteq ToSet(pending) \cup ToSet(L)
          /\ ToSet(pending) \subseteq ToSet(pending')
      BY <1>1, <1>2, <1>6, <1>13, SitemapsQueued DEF DiscoveryInv
    <2>2. ToSet(L) \subseteq AllSitemaps /\ Lists(p, "index") = ToSet(L) /\ Lists(p, "pages") = {}
      BY <1>8, <1>10, <1>13
    <2>3. UNCHANGED pages /\ (crowded => crowded') /\ (ToSet(L) \subseteq visited \cup ToSet(pending') \/ crowded')
      BY <1>1, <1>13
    <2>4. ToSet(pages)' = ToSet(pages) /\ IsInjective(pages)' = IsInjective(pages) /\ ToSet(pending)' = ToSet(pending')
      BY <2>3 DEF ToSet, IsInjective
    <2>5. DiscoveryInv'
      BY <1>1, <1>2, <1>5, <1>11, <2>1, <2>2, <2>3, <2>4 DEF DiscoveryInv
    <2>6. \A r : Read(r) => Read(r)'
      <3>1. pages \in Seq(Origin) /\ Len(pages) <= MaxPages /\ Len(pages) \in Nat
        BY <1>2, LenProperties DEF DiscoveryInv
      <3> QED BY <1>1, <1>2, <2>1, <2>3, <2>4, <3>1, ReadStays
    <2>7. Read(p)'
      BY <1>1, <1>5, <2>2, <2>3, <2>4 DEF Read
    <2>8. ReadingInv'
      BY <1>1, <1>4, <2>6, <2>7 DEF ReadingInv
    <2> QED BY <1>12, <2>5, <2>8 DEF SuiteInv
  <1>14. CASE site[q].kind = "pages"
    <2>1. /\ pages' \in Seq(Origin) /\ IsInjective(pages') /\ Len(pages') <= MaxPages /\ Len(pages) <= Len(pages')
          /\ ToSet(pages') \subseteq ToSet(pages) \cup ToSet(L) /\ ToSet(pages) \subseteq ToSet(pages')
          /\ Len(pages') = MaxPages \/ ToSet(L) \subseteq ToSet(pages')
      BY <1>1, <1>2, <1>6, <1>14, PagesFound DEF DiscoveryInv
    <2>2. ToSet(L) \subseteq Published /\ Lists(p, "pages") = ToSet(L) /\ Lists(p, "index") = {}
      BY <1>8, <1>10, <1>14
    <2>3. UNCHANGED <<pending, crowded>>
      BY <1>1, <1>14
    <2>4. ToSet(pages)' = ToSet(pages') /\ IsInjective(pages)' = IsInjective(pages') /\ ToSet(pending)' = ToSet(pending)
      BY <2>3 DEF ToSet, IsInjective
    <2>5. DiscoveryInv'
      BY <1>1, <1>2, <1>5, <1>11, <2>1, <2>2, <2>3, <2>4 DEF DiscoveryInv
    <2>6. \A r : Read(r) => Read(r)'
      BY <1>1, <1>2, <2>1, <2>3, <2>4, ReadStays
    <2>7. Read(p)'
      BY <1>1, <1>5, <2>1, <2>2, <2>4 DEF Read
    <2>8. ReadingInv'
      BY <1>1, <1>4, <2>6, <2>7 DEF ReadingInv
    <2> QED BY <1>12, <2>5, <2>8 DEF SuiteInv
  <1> QED BY <1>1, <1>13, <1>14

\* What keeps the discovery keeps its invariants.
LEMMA DiscoveryStays ==
  ASSUME DiscoveryInv, UNCHANGED <<site, options, pending, visited, pages, crowded>>,
         asked' = asked \/ (\E q \in Place : AllowedSitemap(q) /\ asked' = asked \cup {q})
  PROVE  /\ DiscoveryInv' /\ \A p : Read(p) => Read(p)'
         /\ Reads' = Reads
PROOF
  <1>1. /\ SiteOK' = SiteOK /\ AllSitemaps' = AllSitemaps /\ Published' = Published
        /\ \A p, kind : Lists(p, kind)' = Lists(p, kind)
    BY SiteStays
  <1>2. ToSet(pages)' = ToSet(pages) /\ IsInjective(pages)' = IsInjective(pages) /\ ToSet(pending)' = ToSet(pending)
    BY DEF ToSet, IsInjective
  <1>3. options.publicOnly => asked' \cap Private = {}
    BY DEF DiscoveryInv, AllowedSitemap
  <1>4. DiscoveryInv'
    BY <1>1, <1>2, <1>3 DEF DiscoveryInv
  <1>5. \A p : Read(p) => Read(p)'
    BY <1>1, <1>2 DEF Read
  <1>6. Reads' = Reads
    BY DEF Reads
  <1> QED BY <1>4, <1>5, <1>6

\* What happens after the sitemaps leaves what was discovered.
LEMMA SuiteMovesOn ==
  ASSUME SuiteInv,
         CheckAddress \/ SitemapFails \/ DiscoveryEnds \/ ScanOnePage \/ PageWritten \/ SuiteThrows \/ Consolidate \/ StopSuite
  PROVE  SuiteInv'
PROOF
  <1>1. DiscoveryInv /\ ReadingInv /\ ResultInv
    BY DEF SuiteInv
  <1>2. /\ UNCHANGED <<site, options, pending, visited, hop, pages, crowded>>
        /\ asked' = asked \/ (suiteAt = "fetching" /\ asked' = asked \cup {hop[1]})
    BY DEF CheckAddress, SitemapFails, DiscoveryEnds, ScanOnePage, PageWritten, SuiteThrows, Consolidate, StopSuite, discoveryVars
  <1>3. suiteAt = "fetching" => hop[1] \in Place /\ AllowedSitemap(hop[1])
    BY <1>1 DEF ReadingInv
  <1>4. /\ DiscoveryInv' /\ \A p : Read(p) => Read(p)'
        /\ Reads' = Reads
    BY <1>1, <1>2, <1>3, DiscoveryStays
  <1>5. pages \in Seq(Origin) /\ Len(pages) \in Nat /\ DOMAIN pages = 1..Len(pages)
    BY <1>1, LenProperties DEF DiscoveryInv
  <1>6. reports \in Seq(PageReport) /\ Len(reports) \in Nat /\ DOMAIN reports = 1..Len(reports)
    BY <1>1, LenProperties DEF ResultInv
  <1>7. CASE SitemapFails \/ SuiteThrows
    <2>1. suiteAt' = "failed" /\ UNCHANGED reports
      BY <1>7 DEF SitemapFails, SuiteThrows, resultVars
    <2> QED BY <1>1, <1>4, <2>1 DEF SuiteInv, ReadingInv, ResultInv
  <1>8. CASE StopSuite
    <2>1. UNCHANGED <<suiteAt, asked, reports, progress, passed>>
      BY <1>8 DEF StopSuite, discoveryVars, resultVars
    <2>2. \A p : Following(p)' = Following(p)
      BY <1>2 DEF Following, Ends, Way
    <2>3. ReadingInv'
      BY <1>1, <1>2, <1>4, <2>1, <2>2 DEF ReadingInv, AllowedSitemap
    <2>4. ResultInv'
      BY <1>1, <1>2, <2>1 DEF ResultInv
    <2> QED BY <1>4, <2>3, <2>4 DEF SuiteInv
  <1>9. CASE DiscoveryEnds
    <2>1. /\ suiteAt = "choosing" /\ ~Reads /\ UNCHANGED reports
          /\ suiteAt' = "failed" \/ (suiteAt' = "analysing" /\ progress' = [completed |-> 0, discovered |-> Len(pages)])
      BY <1>9 DEF DiscoveryEnds
    <2>2. ReadingInv'
      BY <1>1, <1>2, <1>4, <2>1 DEF ReadingInv
    <2>3. reports = <<>> /\ Len(reports) = 0
      BY <1>1, <2>1 DEF ResultInv
    <2>4. ResultInv'
      BY <1>1, <1>2, <1>5, <2>1, <2>3 DEF ResultInv
    <2> QED BY <1>4, <2>2, <2>4 DEF SuiteInv
  <1>10. CASE ScanOnePage
    <2>1. /\ suiteAt = "analysing" /\ Len(reports) < Len(pages) /\ suiteAt' = "writing" /\ UNCHANGED <<progress, passed>>
      BY <1>10 DEF ScanOnePage
    <2>2. PICK issues \in SUBSET SuiteIssue, status \in {"completed", "partial"} :
                 reports' = Append(reports, [of |-> pages[Len(reports) + 1], issues |-> issues, status |-> status])
      BY <1>10 DEF ScanOnePage
    <2> DEFINE n == Len(reports)
               r == [of |-> pages[n + 1], issues |-> issues, status |-> status]
    <2>3. r \in PageReport /\ r.of = pages[n + 1]
      <3>1. n + 1 \in DOMAIN pages
        BY <1>5, <1>6, <2>1
      <3>2. pages[n + 1] \in Place
        BY <1>5, <3>1, SuiteAssumption
      <3> QED BY <3>2 DEF PageReport
    <2> HIDE DEF r
    <2>4. /\ reports' \in Seq(PageReport) /\ Len(reports') = n + 1
          /\ \A i \in 1..n : reports'[i] = reports[i]
          /\ reports'[n + 1] = r
      BY <1>6, <2>2, <2>3, AppendProperties DEF r
    <2>5. Len(reports') <= Len(pages) /\ \A i \in 1..Len(reports') : reports'[i].of = pages[i]
      <3>1. \A i \in 1..(n + 1) : i \in 1..n \/ i = n + 1
        BY <1>6
      <3>2. \A i \in 1..n : reports[i].of = pages[i]
        BY <1>1, <2>1 DEF ResultInv
      <3> QED BY <1>5, <1>6, <2>1, <2>3, <2>4, <3>1, <3>2
    <2>6. ResultInv'
      BY <1>1, <1>2, <2>1, <2>4, <2>5 DEF ResultInv
    <2>7. ReadingInv'
      BY <1>1, <1>2, <1>4, <2>1 DEF ReadingInv
    <2> QED BY <1>4, <2>6, <2>7 DEF SuiteInv
  <1>11. CASE PageWritten
    <2>1. /\ suiteAt = "writing" /\ UNCHANGED <<reports, passed>>
          /\ progress' = [progress EXCEPT !.completed = Len(reports)]
          /\ suiteAt' = IF Len(reports) = Len(pages) THEN "comparing" ELSE "analysing"
      BY <1>11 DEF PageWritten
    <2>2. PICK done \in Nat : progress = [completed |-> done, discovered |-> Len(pages)]
      BY <1>1, <2>1 DEF ResultInv
    <2>3. progress' = [completed |-> Len(reports), discovered |-> Len(pages)]
      BY <2>1, <2>2
    <2>4. ResultInv'
      BY <1>1, <1>2, <1>6, <2>1, <2>3 DEF ResultInv
    <2>5. ReadingInv'
      BY <1>1, <1>2, <1>4, <2>1 DEF ReadingInv
    <2> QED BY <1>4, <2>4, <2>5 DEF SuiteInv
  <1>12. CASE Consolidate
    <2>1. /\ suiteAt = "comparing" /\ suiteAt' = "reported" /\ UNCHANGED <<reports, progress>>
          /\ passed' = (/\ \A r \in ToSet(reports) : r.status = "completed"
                        /\ (IF options.regressionsOnly THEN AllIssues \ options.known ELSE AllIssues) = {})
      BY <1>12 DEF Consolidate
    <2>2. \A r \in ToSet(reports) : r.issues \subseteq AllIssues
      BY DEF AllIssues
    <2>3. passed' => \A r \in ToSet(reports) : r.status = "completed" /\ (r.issues = {} \/ (options.regressionsOnly /\ r.issues \subseteq options.known))
      BY <2>1, <2>2
    <2>4. ToSet(reports)' = ToSet(reports)
      BY <2>1 DEF ToSet
    <2>5. ResultInv'
      BY <1>1, <1>2, <2>1, <2>3, <2>4 DEF ResultInv
    <2>6. ReadingInv'
      BY <1>1, <1>2, <1>4, <2>1 DEF ReadingInv
    <2> QED BY <1>4, <2>5, <2>6 DEF SuiteInv
  <1>13. CASE CheckAddress
    <2>1. /\ suiteAt = "checking" /\ AllowedSitemap(hop[1]) /\ suiteAt' = "fetching"
          /\ UNCHANGED <<asked, reports, progress, passed>>
      BY <1>13 DEF CheckAddress, discoveryVars, resultVars
    <2>2. \A p : Following(p)' = Following(p)
      BY <1>2 DEF Following, Ends, Way
    <2>3. AllowedSitemap(hop[1])'
      BY <1>2, <2>1 DEF AllowedSitemap
    <2>4. ReadingInv'
      BY <1>1, <1>2, <1>4, <2>1, <2>2, <2>3 DEF ReadingInv
    <2>5. ResultInv'
      BY <1>1, <1>2, <2>1 DEF ResultInv
    <2> QED BY <1>4, <2>4, <2>5 DEF SuiteInv
  <1> QED BY <1>7, <1>8, <1>9, <1>10, <1>11, <1>12, <1>13

\* No step breaks what was discovered, read and reported of a site.
LEMMA SuiteInvStep == SuiteInv /\ [SuiteNext]_suiteVars => SuiteInv'
PROOF
  <1> SUFFICES ASSUME SuiteInv, [SuiteNext]_suiteVars
               PROVE  SuiteInv'
    OBVIOUS
  <1>1. CASE UNCHANGED suiteVars
    <2>1. UNCHANGED <<site, options, suiteAt, pending, visited, hop, asked, pages, crowded, reports, progress, passed>>
      BY <1>1 DEF suiteVars
    <2>2. DiscoveryInv' /\ (\A p : Read(p) => Read(p)') /\ Reads' = Reads
      BY <2>1, DiscoveryStays DEF SuiteInv
    <2>3. \A p : Following(p)' = Following(p)
      BY <2>1 DEF Following, Ends, Way
    <2>4. ReadingInv'
      BY <2>1, <2>2, <2>3 DEF SuiteInv, ReadingInv, AllowedSitemap
    <2>5. ResultInv'
      BY <2>1 DEF SuiteInv, ResultInv, ToSet
    <2> QED BY <2>2, <2>4, <2>5 DEF SuiteInv
  <1>2. CASE SuiteNext
    BY <1>2, SitemapTaken, RedirectTaken, SitemapIsRead, SuiteMovesOn DEF SuiteNext
  <1> QED BY <1>1, <1>2

\* A site within the limits has every page it publishes found.
LEMMA AllAreFound ==
  ASSUME SuiteInv, suiteAt \notin {"choosing", "checking", "fetching", "failed"}, ~crowded,
         Cardinality(AllSitemaps) <= MAX_SITEMAP_FILES, Cardinality(Published) <= MaxPages
  PROVE  ToSet(pages) = Published
PROOF
  <1>1. /\ IsFiniteSet(AllSitemaps) /\ IsFiniteSet(Published) /\ AllSitemaps \subseteq Origin
        /\ \A p \in AllSitemaps : Lists(p, "index") \subseteq AllSitemaps
        /\ \A S \in SUBSET Origin : Closed(S) => AllSitemaps \subseteq S
    BY SitemapsAreOfTheSite DEF SuiteInv, DiscoveryInv
  <1>2. /\ pages \in Seq(Origin) /\ IsInjective(pages) /\ Len(pages) <= MaxPages /\ ToSet(pages) \subseteq Published
        /\ visited \subseteq AllSitemaps /\ FirstSitemap \in visited \cup ToSet(pending)
        /\ pending \in Seq(Origin) /\ ~Reads /\ \A p \in visited : Read(p)
    BY DEF SuiteInv, DiscoveryInv, ReadingInv
  <1>3. MaxPages \in Nat /\ MAX_SITEMAP_FILES \in Nat /\ Len(pages) \in Nat /\ DOMAIN pages = 1..Len(pages)
    BY <1>2, SuiteAssumption, LenProperties
  <1>4. CASE Len(pages) = MaxPages
    <2> DEFINE n == Len(pages)
               T == ToSet(pages)
    <2>1. IsFiniteSet(1..n) /\ Cardinality(1..n) = n
      <3>1. 1 \in Int /\ n \in Int /\ n \in Nat
        BY <1>3
      <3> HIDE DEF n
      <3>2. IsFiniteSet(1..n)
        BY <3>1, FS_Interval
      <3>3. Cardinality(1..n) = IF 1 > n THEN 0 ELSE n - 1 + 1
        BY <3>1, FS_Interval
      <3> QED BY <3>1, <3>2, <3>3
    <2>2. IsFiniteSet(T) /\ Cardinality(T) \in Nat /\ Cardinality(Published) \in Nat
      BY <1>1, <1>2, FS_Subset, FS_CardinalityType
    <2>3. pages \in [1..n -> T] /\ \A i, j \in 1..n : pages[i] = pages[j] => i = j
      BY <1>2, <1>3 DEF ToSet, IsInjective
    <2>4. pages \in Injection(1..n, T)
      <3> HIDE DEF n, T
      <3> QED BY <2>3 DEF Injection, IsInjective
    <2>5. n <= Cardinality(T)
      <3> HIDE DEF n, T
      <3>1. Cardinality(1..n) <= Cardinality(T)
        BY <2>1, <2>2, <2>4, FS_Injection
      <3> QED BY <2>1, <3>1
    <2>6. T \subseteq Published /\ Cardinality(T) <= Cardinality(Published) /\ (Cardinality(T) = Cardinality(Published) => T = Published)
      BY <1>1, <1>2, FS_Subset
    <2>7. Cardinality(T) = Cardinality(Published)
      <3> HIDE DEF T
      <3> QED BY <1>3, <1>4, <2>2, <2>5, <2>6 DEF n
    <2> QED BY <2>6, <2>7
  <1>5. CASE Len(pages) # MaxPages
    <2>1. Len(pages) < MaxPages
      <3>1. Len(pages) <= MaxPages
        BY <1>2
      <3>2. \A a, b \in Nat : a <= b /\ a # b => a < b
        OBVIOUS
      <3>3. Len(pages) \in Nat /\ MaxPages \in Nat
        BY <1>3
      <3>4. Len(pages) # MaxPages
        BY <1>5
      <3> QED BY <3>1, <3>2, <3>3, <3>4
    <2>2. visited = AllSitemaps
      <3>1. CASE pending = <<>>
        <4>1. ToSet(pending) = {}
          BY <3>1 DEF ToSet
        <4>2. visited \subseteq Origin /\ Closed(visited)
          BY <1>1, <1>2, <4>1 DEF Closed, Read
        <4> QED BY <1>1, <1>2, <4>2
      <3>2. CASE ~(Cardinality(visited) < MAX_SITEMAP_FILES)
        <4>1. /\ Cardinality(visited) \in Nat /\ Cardinality(AllSitemaps) \in Nat
              /\ Cardinality(visited) <= Cardinality(AllSitemaps)
              /\ (Cardinality(visited) = Cardinality(AllSitemaps) => visited = AllSitemaps)
          BY <1>1, <1>2, FS_Subset, FS_CardinalityType
        <4>2. Cardinality(visited) = Cardinality(AllSitemaps)
          BY <1>3, <3>2, <4>1
        <4> QED BY <4>1, <4>2
      <3> QED BY <1>2, <2>1, <3>1, <3>2 DEF Reads
    <2>3. \A p \in AllSitemaps : Lists(p, "pages") \subseteq ToSet(pages)
      BY <1>2, <1>5, <2>2 DEF Read
    <2>4. Published \subseteq ToSet(pages)
      BY <2>3 DEF Published
    <2> QED BY <1>2, <2>4
  <1> QED BY <1>4, <1>5

\* From what was discovered and reported, the verdict is of all pages.
LEMMA SuiteInvIsSound == SuiteInv => SuiteIsSound
PROOF
  <1> SUFFICES ASSUME SuiteInv
               PROVE  SuiteIsSound
    OBVIOUS
  <1>1. DiscoveryInv /\ ReadingInv /\ ResultInv
    BY DEF SuiteInv
  <1>2. /\ IsInjective(pages) /\ ToSet(pages) \subseteq Origin \cap Published
        /\ Len(pages) <= MaxPages /\ Cardinality(visited) <= MAX_SITEMAP_FILES
        /\ options.publicOnly => asked \cap Private = {}
    BY <1>1, SitemapsAreOfTheSite DEF DiscoveryInv
  <1>3. suiteAt = "reported" => [i \in DOMAIN reports |-> reports[i].of] = pages
    <2> SUFFICES ASSUME suiteAt = "reported"
                 PROVE  [i \in DOMAIN reports |-> reports[i].of] = pages
      OBVIOUS
    <2>1. Len(reports) = Len(pages) /\ \A i \in 1..Len(reports) : reports[i].of = pages[i]
      BY <1>1 DEF ResultInv
    <2>2. DOMAIN reports = 1..Len(reports) /\ DOMAIN pages = 1..Len(pages) /\ pages \in Seq(Origin)
      BY <1>1, LenProperties DEF ResultInv, DiscoveryInv
    <2>3. pages = [i \in DOMAIN pages |-> pages[i]]
      BY <2>2
    <2> QED BY <2>1, <2>2, <2>3
  <1>4. suiteAt = "reported" =>
          /\ progress = [completed |-> Len(pages), discovered |-> Len(pages)]
          /\ passed => \A r \in ToSet(reports) : r.status = "completed" /\ (r.issues = {} \/ (options.regressionsOnly /\ r.issues \subseteq options.known))
    BY <1>1 DEF ResultInv
  <1>5. suiteAt \notin {"choosing", "checking", "fetching", "failed"} /\ ~crowded /\ Cardinality(AllSitemaps) <= MAX_SITEMAP_FILES /\ Cardinality(Published) <= MaxPages =>
          ToSet(pages) = Published
    BY AllAreFound
  <1> QED BY <1>2, <1>3, <1>4, <1>5 DEF SuiteIsSound

\* A site no analysis has asked for answers nothing.
LEMMA SuiteWaits == ServicesInit => SuiteInv
PROOF
  <1> SUFFICES ASSUME ServicesInit
               PROVE  SuiteInv
    OBVIOUS
  <1>1. CASE focus = "suite"
    BY <1>1, SuiteInvInit DEF ServicesInit
  <1>2. CASE focus # "suite"
    <2>1. site = [p \in Place |-> [kind |-> "gone"]] /\ options = [publicOnly |-> TRUE, regressionsOnly |-> FALSE, known |-> {}]
      BY <1>2 DEF ServicesInit
    <2>2. SiteOK /\ options.publicOnly \in BOOLEAN
      BY <2>1 DEF SiteOK
    <2>3. suiteAt = "choosing" /\ pending = <<FirstSitemap>> /\ visited = {} /\ asked = {} /\ pages = <<>> /\ reports = <<>>
      BY <1>2 DEF ServicesInit
    <2> QED BY <2>2, <2>3, SuiteStarts
  <1> QED BY <1>1, <1>2

-----------------------------------------------------------------------------
(* What the services promise                                                 *)

ServicesInv ==
  /\ AuthInv /\ ChildInv /\ CodeInv /\ RecInv /\ NetInv /\ KeptInv
  /\ JourneyInv /\ RunnerInv /\ BoxInv
  /\ RunInv /\ PipelineInv /\ TaskInv /\ ArrivedInv /\ SpaceInv
  /\ EvidenceInv /\ FindingsInv /\ DashInv /\ HealthInv /\ MapInv /\ LimiterInv
  /\ SuiteInv /\ LineInv

\* The invariants of all the services hold in every state.
LEMMA ServicesInvAlways == ServicesSpec => []ServicesInv
PROOF
  <1>1. ServicesInit => ServicesInv
    BY ServicesStart, AuthInvInit, ChildInvInit, CodeInvInit, RecInvInit, NetInvInit, KeptInvInit,
       JourneyInvInit, RunnerInvInit, BoxInvInit, RunInvInit, PipelineInvInit, TaskInvInit, ArrivedInvInit, SpaceInvInit,
       EvidenceInvInit, FindingsInvInit, DashInvInit, HealthInvInit, BinsInvInit, SuiteWaits, LineInvInit
       DEF ServicesInv
  <1>2. ServicesInv /\ [ServicesNext]_servicesVars => ServicesInv'
    BY OneServiceMoves, AuthInvStep, ChildInvStep, CodeInvStep, RecInvStep, NetInvStep, KeptInvStep,
       JourneyInvStep, RunnerInvStep, BoxInvStep, RunInvStep, PipelineInvStep, TaskInvStep, ArrivedInvStep, SpaceInvStep,
       EvidenceInvStep, FindingsInvStep, DashInvStep, HealthInvStep, MapInvStep, LimiterInvStep, SuiteInvStep, LineInvStep
       DEF ServicesInv
  <1> QED BY <1>1, <1>2, PTL DEF ServicesSpec, servicesVars

\* Every service keeps its variables in their types, whatever the order of its
\* requests, processes and timers.
THEOREM ServicesTypeCorrect == ServicesSpec => []ServicesTypeOK
PROOF
  <1>1. ServicesInv => ServicesTypeOK
    BY DEF ServicesInv, ServicesTypeOK, AuthInv, AuthTypes, ChildInv, CodeInv, RecInv, NetInv, KeptInv,
       JourneyInv, RunnerInv, BoxInv
  <1> QED BY <1>1, ServicesInvAlways, PTL

\* The flag of the code runner is held by an execution that is under way and
\* what is remembered of one can be read, a recording holds its slot as long as
\* its process lives, and a journey somebody cancelled ends as cancelled.
THEOREM LocalRunsKeepTheirWord == ServicesSpec => []LocalRunsAreSound
PROOF
  <1>1. ServicesInv => LocalRunsAreSound
    BY DEF ServicesInv, LocalRunsAreSound, CodeInv, RecInv, JourneyInv
  <1> QED BY <1>1, ServicesInvAlways, PTL

\* The hosted runner never runs a signed request twice, however copies of it
\* arrive, unless its client's clock was ahead of the runner's: then the nonce may
\* be pruned while the stamp is still good (sandbox-runner.ts).
THEOREM SandboxRunsOnce == ServicesSpec => []RunsOnce
PROOF
  <1>1. ServicesInv => RunsOnce
    BY DEF ServicesInv, RunnerInv
  <1> QED BY <1>1, ServicesInvAlways, PTL

\* The slots taken at the hosted runner are the sandboxes under way, and its
\* proxy counts what is open and passes nothing beyond its limits but what a
\* CONNECT brought with it and the chunk that cuts a plain answer off.
THEOREM SandboxIsBounded == ServicesSpec => []SandboxKeepsItsLimits
PROOF
  <1>1. ServicesInv => SandboxKeepsItsLimits
    BY RunnerInvCounts, NetInvLimits DEF ServicesInv, SandboxKeepsItsLimits
  <1> QED BY <1>1, ServicesInvAlways, PTL

\* A promise about a child process settles once nothing of it is left, and a
\* sandbox that ended left nothing its report does not name.
THEOREM NothingIsLeftRunning == ServicesSpec => []NothingLeftRunning
PROOF
  <1>1. ServicesInv => NothingLeftRunning
    BY DEF ServicesInv, NothingLeftRunning, ChildInv, BoxInv
  <1> QED BY <1>1, ServicesInvAlways, PTL

\* However sign-ins, links and password changes interleave, an address has one
\* account, a link is used once and a new password ends the older sessions.
THEOREM AccountsStaySound == ServicesSpec => []AccountsAreSound
PROOF
  <1>1. ServicesInv => AccountsAreSound
    BY AuthInvPromises DEF ServicesInv, AccountsAreSound
  <1> QED BY <1>1, ServicesInvAlways, PTL

\* The collections, runs and settings of an account stay its own, and its
\* newest runs are kept whatever calls insert and prune at once.
THEOREM WorkspaceStaysSound == ServicesSpec => WorkspaceIsSound
PROOF
  <1>1. SpaceInv => BelongsToItsOwner /\ NewestRunsKept
    BY DEF SpaceInv, CollectionsInv, RunsInv
  <1>2. ServicesInv => SpaceInv
    BY DEF ServicesInv
  <1>3. ServicesInv /\ [ServicesNext]_servicesVars => [SettingsKept]_spaceVars
    BY <1>2, OneServiceMoves, SettingsKeptStep
  <1> QED BY <1>1, <1>2, <1>3, ServicesInvAlways, PTL DEF ServicesSpec, servicesVars, WorkspaceIsSound

\* What is kept of an execution: nothing answers for one that was erased, each
\* file of evidence is on the step it shows when every step left one, and the
\* report of a journey has a result for each step and hides what a secret filled.
THEOREM EvidenceStaysSound == ServicesSpec => []EvidenceIsSound
PROOF
  <1>1. ServicesInv => EvidenceIsSound
    BY KeptInvErases, FilesAreOfTheirLines, NoPictureIsEarly DEF ServicesInv, EvidenceIsSound, RunInv
  <1> QED BY <1>1, ServicesInvAlways, PTL

\* The verdict of an analysis: no address loses its finding and the gate is of
\* the regressions, it is compared with nothing but a whole promoted run, an
\* analysis of a sitemap has each page its site publishes once, within the limits, and passes only if they
\* do, and a row of the table is run and ended once.
THEOREM ScanVerdictStaysSound == ServicesSpec => []ScanVerdictIsSound
PROOF
  <1>1. ServicesInv => ScanVerdictIsSound
    BY FindingsInvSound, SuiteInvIsSound, ArrivedInvOrders DEF ServicesInv, ScanVerdictIsSound, PipelineInv
  <1> QED BY <1>1, ServicesInvAlways, PTL

\* The history read page by page has every row it owes, in its order and once,
\* while rows arrive, end and expire, and the activity of the panel is what was
\* posted after the last time it was erased or could not be read
\* (execution-history.ts, dashboard-activity-store.ts).
THEOREM HistoryStaysSound == ServicesSpec => []HistoryIsSound
PROOF
  <1>1. ServicesInv => HistoryIsSound
    BY LineInvIsSound, DashInvIsSound DEF ServicesInv, HistoryIsSound
  <1> QED BY <1>1, ServicesInvAlways, PTL

\* The boxes of webhooks and the limiter keep to their limits and drop no living
\* box but for want of room, and a health report answers for the endpoints
\* asked, through the network policy.
THEOREM ToolboxServicesStaySound == ServicesSpec => ToolboxServicesAreSound
PROOF
  <1>1. ServicesInv => WithinLimits /\ (focus = "health" => HealthReportIsSound)
    BY BinsWithinLimits, HealthInvIsSound DEF ServicesInv
  <1>2. ServicesInv /\ [ServicesNext]_servicesVars => [OnlyLivingStore /\ DroppedByAge]_binVars
    <2>1. ServicesInv => MapInv
      BY DEF ServicesInv
    <2>2. MapInv /\ [BinsNext]_binVars => OnlyLivingStore /\ DroppedByAge
      BY MapInvStep
    <2> QED BY <2>1, <2>2, OneServiceMoves
  <1> QED BY <1>1, <1>2, ServicesInvAlways, PTL DEF ServicesSpec, servicesVars, ToolboxServicesAreSound, BinsStaySound

\* Nothing answers for an execution once it was erased, unless an upload under
\* way then or a removal that failed left its objects, or an rm that failed its
\* directory.
THEOREM ErasureIsFinal == KeptSpec => []ErasedIsGone
PROOF
  BY KeptInvInit, KeptInvStep, KeptInvErases, PTL DEF KeptSpec

\* The report of a journey has a passed result for each step or ends with a
\* failed one, no picture shows what a secret filled, and an ended run leaves
\* neither browser nor guard.
THEOREM JourneyReportsAreSound == RunSpec => []JourneyReportIsSound
PROOF
  <1>1. RunInv => JourneyReportIsSound
    BY DEF RunInv
  <1> QED BY <1>1, RunInvInit, RunInvStep, PTL DEF RunSpec

\* However analyses of one project end together, and whichever copies overlap,
\* fail or are cut short by the death of the process, no run is compared with
\* half a file, but with a whole run that was to be promoted (history.ts 60-73,
\* baseline.ts 17-31).
THEOREM BaselineStaysWhole == PipelineSpec => []BaselineIsSound
PROOF
  <1>1. PipelineInv => BaselineIsSound
    BY DEF PipelineInv
  <1> QED BY <1>1, PipelineInvInit, PipelineInvStep, PTL DEF PipelineSpec

\* Instances that share the table give a row to one of them and end it once,
\* though each claims, concludes and erases as if it were alone.
THEOREM RowsGivenAndEndedOnce == TableSpec => []GivenAndEndedOnce
PROOF
  BY TaskInvInit, TaskInvStep, TaskInvOnce, PTL DEF TableSpec

\* Without the database the same rows are in the memory of the process, each once
\* in the order of their arrival, and are given and ended as the table's.
THEOREM TableStaysInOrder == TableSpec => []JobTableIsSound
PROOF
  BY TaskInvInit, TaskInvStep, ArrivedInvInit, ArrivedInvStep, ArrivedInvOrders, PTL DEF TableSpec

\* Correlating, counting, comparing and listing the findings of an analysis lose
\* none of them, for any number of observations: each address observed keeps an
\* issue about it, the comparison with the baseline adds up, and the gate is of
\* the regressions (scanner-evidence.ts, quality.ts, baseline.ts).
THEOREM FindingsStaySound == FindingsSpec => []FindingsAreSound
PROOF
  BY FindingsInvInit, FindingsInvStep, FindingsInvSound, PTL DEF FindingsSpec

\* The evidence of a code execution, for a test of any length: when no capture
\* failed and the fixtures saw every action, each step shows its own
\* (code-step-fixtures.ts, codeReportAsJourney).
THEOREM EvidenceStaysAligned == EvidenceSpec => [](NoEarlierPicture /\ AlignedWhenAllCaptured)
PROOF
  <1>1. EvidenceInv => NoEarlierPicture /\ AlignedWhenAllCaptured
    BY FilesAreOfTheirLines, NoPictureIsEarly
  <1> QED BY <1>1, EvidenceInvInit, EvidenceInvStep, PTL DEF EvidenceSpec

\* An append answered 201 is listed until what came after it clears the file,
\* pushes it out or cannot read it, an answered clear leaves only what came after
\* it, and no stream hears of what never reached the disk
\* (dashboard-activity-store.ts 43-100).
THEOREM ActivityStaysSound == DashSpec => []ActivityIsSound
PROOF
  <1>1. DashInit => DashInv
    BY DashInvInit
  <1>2. DashInv /\ [DashNext]_dashVars => DashInv'
    BY DashInvStep
  <1>3. DashInv => ActivityIsSound
    BY DashInvIsSound
  <1> QED BY <1>1, <1>2, <1>3, PTL DEF DashSpec

\* Under the public-network policy no hop is fetched before the policy was given
\* public addresses for its host, the same ones throughout a call (fetch() asks
\* DNS again, which nothing binds), and the list shown answers for the endpoints
\* of the last request (http-request.ts #guardedFetch, routes/toolbox.ts).
THEOREM HealthStaysSound == HealthSpec => []HealthReportIsSound
PROOF
  <1>1. HealthInit => HealthInv
    BY HealthInvInit
  <1>2. HealthInv /\ [HealthNext]_healthVars => HealthInv'
    BY HealthInvStep
  <1>3. HealthInv => HealthReportIsSound
    BY HealthInvIsSound
  <1> QED BY <1>1, <1>2, <1>3, PTL DEF HealthSpec

\* A bin takes calls only while it lives, a living one is dropped only by
\* younger ones when the map is full, and no client passes more than twice the
\* limit within a window (webhook-bin-store.ts 24-68, rate-limit.ts 25-47).
THEOREM BinsAlwaysStaySound == BinsSpec => BinsStaySound
PROOF
  <1>1. BinsInit => MapInv /\ LimiterInv
    BY BinsInvInit
  <1>2. MapInv /\ LimiterInv /\ [BinsNext]_binVars => MapInv' /\ LimiterInv' /\ (OnlyLivingStore /\ DroppedByAge)
    BY MapInvStep, LimiterInvStep
  <1>3. MapInv /\ LimiterInv => WithinLimits
    BY BinsWithinLimits
  <1> QED BY <1>1, <1>2, <1>3, PTL DEF BinsSpec, BinsStaySound

\* However many rows there are, whatever their instants and however they arrive
\* and expire during the walk, the pages return no row twice or out of order and
\* leave out none that stood all along, but where two rows share a millisecond
\* the database tells apart; the summary and the alerts add up over them
\* (execution-history.ts, quality-summary.ts).
THEOREM TimelineStaysSound == LineSpec => []WalkIsSound
PROOF
  <1>1. LineInit => LineInv
    BY LineInvInit
  <1>2. LineInv /\ [LineNext]_lineVars => LineInv'
    BY LineInvStep
  <1>3. LineInv => WalkIsSound
    BY LineInvIsSound
  <1> QED BY <1>1, <1>2, <1>3, PTL DEF LineSpec

\* However the sitemaps of a site refer and redirect to each other, each page is
\* analysed once and is the site's own, nothing is requested before its address
\* was found public (the request looks it up again), every page published within
\* the limits is found, and the report comes when each page has its result, its
\* verdict no better than theirs (sitemap.ts 46-111, suite.ts 38-112).
THEOREM SuitesStaySound == SuiteSpec => []SuiteIsSound
PROOF
  <1>1. SuiteInit => SuiteInv
    BY SuiteInvInit
  <1>2. SuiteInv /\ [SuiteNext]_suiteVars => SuiteInv'
    BY SuiteInvStep
  <1>3. SuiteInv => SuiteIsSound
    BY SuiteInvIsSound
  <1> QED BY <1>1, <1>2, <1>3, PTL DEF SuiteSpec

=============================================================================

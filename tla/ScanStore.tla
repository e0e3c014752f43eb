----------------------------- MODULE ScanStore -----------------------------
(* ScanQueue beside its table scan_jobs: the row written before an analysis  *)
(* enters the queue, the updates sent without waiting for them, the recovery *)
(* a process runs when it boots while it already serves requests, the crash  *)
(* that loses the memory and keeps the rows, and DELETE /api/scans.          *)
(* Sources: scan-job-persistence.ts, scan-job-repository.ts, the recovery in *)
(* server.ts, routes/scans.ts.                                               *)
EXTENDS ScanQueue

CONSTANTS ServesDuringRecovery,  \* requests may arrive before recovery ends
          OrderedWrites,         \* updates of one object reach the table in order
          WritesMayFail,         \* a swallowed error may lose an update
          QueriesMayFail,        \* and one of recovery, what it would have found
          MaxCrashes, MaxWipes   \* bounds of the exploration

ASSUME StoreAssumption ==
  /\ {ServesDuringRecovery, OrderedWrites, WritesMayFail, QueriesMayFail} \subseteq BOOLEAN
  /\ MaxCrashes \in Nat /\ MaxWipes \in Nat

\* Objects enough for one life of the process: a request and the recovery may
\* each build one for an id.
ASSUME ObjectAssumption ==
  \A id \in Id : \E o, p \in Job : o # p /\ IdOf[o] = id /\ IdOf[p] = id

VARIABLES
  issued,     \* ids drawn so far: randomUUID() never repeats one
  row,        \* status column of each id, "none" without a row
  inserted,   \* objects whose row is in and whose request has not resumed
  writes,     \* updates sent and not yet applied
  recovery,   \* where the boot IIFE is
  orphans,    \* ids its runningJobs() returned and it has not closed
  restored,   \* ids its queuedJobs() returned
  overlooked, \* history: ids a failed query of this boot did not tell it of
  wipe,       \* where DELETE /api/scans is
  wiped,      \* ids whose memory and disk it is going to clear
  crashes, wipes

recoveryVars == <<recovery, orphans, restored, overlooked>>
wipeVars == <<wipe, wiped, wipes>>
storeVars == <<vars, issued, row, inserted, writes, recoveryVars, wipeVars, crashes>>

Live == {"queued", "running"}
RowStatus == JobStatus \cup {"none"}
RowEnded(id) == IsTerminalJobStatus(row[id])

StoreInit ==
  /\ Init
  /\ issued = {} /\ row = [id \in Id |-> "none"]
  /\ inserted = {} /\ writes = {}
  /\ recovery = "readRunning" /\ orphans = {} /\ restored = <<>> /\ overlooked = {}
  /\ wipe = "off" /\ wiped = {} /\ wipes = 0
  /\ crashes = 0

Serving == turn = "io" /\ (ServesDuringRecovery \/ recovery = "ready")

-----------------------------------------------------------------------------
(* POST: insert, and only after it the queue                                 *)

InsertRow(o) ==
  /\ Serving
  /\ IdOf[o] \notin issued /\ issued' = issued \cup {IdOf[o]}
  /\ row' = [row EXCEPT ![IdOf[o]] = "queued"]
  /\ inserted' = inserted \cup {o}
  /\ dirs' = dirs \cup {IdOf[o]}
  /\ UNCHANGED <<queueVars, cancelRequested, aborted, step, deadlines, expiring,
                 posting, turn, writes, recoveryVars, wipeVars, crashes>>

\* The request goes on as soon as its row is in.
AdmitInserted(o) ==
  /\ o \in inserted /\ inserted' = inserted \ {o}
  /\ Admit(o) /\ dirs' = dirs
  /\ UNCHANGED <<row, writes, recoveryVars, wipeVars, issued, crashes>>

-----------------------------------------------------------------------------
(* Updates                                                                   *)

\* `void scanJobs.updated(job)`: a snapshot of every object whose status the
\* step changed is sent, and nobody waits for it.
Send == writes' = writes \cup
          {[job |-> o, status |-> status'[o]] : o \in {p \in Job : status'[p] # status[p]}}

QueueStep ==
  /\ Loop \/ \E o \in Job : JobStep(o)
  /\ Send
  /\ UNCHANGED <<row, inserted, recoveryVars, wipeVars, issued, crashes>>

\* With OrderedWrites the update to "running" precedes the one that ends it.
InOrder(w) == OrderedWrites /\ w.status # "running" =>
                [job |-> w.job, status |-> "running"] \notin writes

\* update ... where id = $1: the status is set whatever it was, and a row that
\* is gone stays gone.
UpdateLands(w) ==
  /\ w \in writes /\ InOrder(w)
  /\ writes' = writes \ {w}
  /\ row' = [row EXCEPT ![IdOf[w.job]] = IF @ = "none" THEN "none" ELSE w.status]
  /\ UNCHANGED <<vars, inserted, recoveryVars, wipeVars, issued, crashes>>

UpdateLost(w) ==
  /\ WritesMayFail /\ w \in writes
  /\ writes' = writes \ {w}
  /\ UNCHANGED <<vars, row, inserted, recoveryVars, wipeVars, issued, crashes>>

-----------------------------------------------------------------------------
(* Boot: recoverOrphans(), then pending(), then enqueue and schedule().  An  *)
(* error of the database is logged and swallowed: the first ends the loop of *)
(* recoverOrphans(), the second makes pending() answer an empty list, and    *)
(* the boot goes on with that.                                               *)

RunningRows == {id \in Id : row[id] = "running"}

ReadRunning ==
  /\ turn = "io" /\ recovery = "readRunning"
  /\ \/ orphans' = RunningRows /\ overlooked' = {}
     \/ QueriesMayFail /\ orphans' = {} /\ overlooked' = RunningRows
  /\ recovery' = "close"
  /\ UNCHANGED <<vars, row, inserted, writes, restored, wipeVars, issued, crashes>>

\* Recovery reads the orphans and does not close them.
LeaveOpen(id) == row' = row

\* transition(id, "failed") is guarded in the UPDATE itself.
CloseRow(id) == row' = [row EXCEPT ![id] =
                  IF row[id] # "none" /\ CanTransitionJob(row[id], "failed") THEN "failed" ELSE @]

CloseOrphan(id) ==
  /\ turn = "io" /\ recovery = "close" /\ id \in orphans
  /\ CloseRow(id)
  /\ orphans' = orphans \ {id}
  /\ UNCHANGED <<vars, inserted, writes, recovery, restored, overlooked, wipeVars, issued, crashes>>

\* The statement fails, or its answer is lost: the ids behind it are not tried.
CloseFails(id) ==
  /\ QueriesMayFail /\ turn = "io" /\ recovery = "close" /\ id \in orphans
  /\ CloseRow(id) \/ LeaveOpen(id)
  /\ orphans' = {} /\ overlooked' = overlooked \cup orphans
  /\ UNCHANGED <<vars, inserted, writes, recovery, restored, wipeVars, issued, crashes>>

\* The query of queuedJobs() without its where clause.
StoredRows == {id \in Id : row[id] # "none"}

QueuedRows == {id \in Id : row[id] = "queued"}

\* queued_at is taken from createdAt, set before the insert is awaited: the
\* order read back need not be the order of the inserts.
ReadQueued ==
  /\ turn = "io" /\ recovery = "close" /\ orphans = {}
  /\ \/ (\E order \in SetToSeqs(QueuedRows) : restored' = order) /\ overlooked' = overlooked
     \/ QueriesMayFail /\ restored' = <<>> /\ overlooked' = overlooked \cup QueuedRows
  /\ recovery' = "enqueue"
  /\ UNCHANGED <<vars, row, inserted, writes, orphans, wipeVars, issued, crashes>>

\* toRuntimeScanJob: a new object for the id.
FreshFor(id) == CHOOSE o \in Job : IdOf[o] = id /\ status[o] = "unborn" /\ o \notin inserted

\* Recovery enqueues and leaves the queue to the next request.
RestoreOnly == turn' = turn

RestoreAndSchedule == turn' = IF restored = <<>> THEN turn ELSE "schedule"

EnqueueRestored ==
  /\ turn = "io" /\ recovery = "enqueue"
  /\ LET ids == ToSet(restored)
         fresh == {FreshFor(id) : id \in ids} IN
       /\ jobs' = [id \in Id |-> IF id \in ids THEN FreshFor(id) ELSE jobs[id]]
       /\ status' = [o \in Job |-> IF o \in fresh THEN "queued" ELSE status[o]]
  /\ pending' = pending \o restored
  /\ RestoreAndSchedule
  /\ recovery' = "ready" /\ restored' = <<>>
  /\ UNCHANGED <<active, cancelRequested, aborted, step, deadlines, expiring, dirs,
                 posting, row, inserted, writes, orphans, overlooked, wipeVars, issued, crashes>>

-----------------------------------------------------------------------------
(* The process dies at any point and another one boots.  Updates on their    *)
(* way are lost with it; the disk may be a new one.                          *)

Crash ==
  /\ crashes < MaxCrashes
  /\ crashes' = crashes + 1
  /\ jobs' = [id \in Id |-> NoJob] /\ pending' = <<>> /\ active' = 0
  /\ status' = [o \in Job |-> "unborn"]
  /\ cancelRequested' = [o \in Job |-> FALSE]
  /\ aborted' = [o \in Job |-> "no"]
  /\ step' = [o \in Job |-> "idle"]
  /\ deadlines' = {} /\ expiring' = {} /\ posting' = {} /\ turn' = "io"
  /\ dirs' \in {dirs, {}}
  /\ inserted' = {} /\ writes' = {}
  /\ recovery' = "readRunning" /\ orphans' = {} /\ restored' = <<>> /\ overlooked' = {}
  /\ wipe' = "off" /\ wiped' = {}
  /\ UNCHANGED <<issued, row, wipes>>

-----------------------------------------------------------------------------
(* DELETE /api/scans: list, delete the rows, then clear memory and disk of   *)
(* what the list showed as ended                                             *)

\* The status of the listed rows is not looked at.
ListEverything == wiped' = {id \in Id : row[id] # "none"}

ListEnded == wiped' = {id \in Id : RowEnded(id)}

ListHistory ==
  /\ Serving /\ wipe = "off" /\ wipes < MaxWipes
  /\ wipe' = "listed" /\ wipes' = wipes + 1
  /\ ListEnded
  /\ UNCHANGED <<vars, row, inserted, writes, recoveryVars, issued, crashes>>

DeleteRows ==
  /\ turn = "io" /\ wipe = "listed"
  /\ row' = [id \in Id |-> "none"]
  /\ wiped' = {id \in wiped : row[id] # "none"}
  /\ wipe' = "deleted"
  /\ UNCHANGED <<vars, inserted, writes, recoveryVars, wipes, issued, crashes>>

ClearWiped ==
  /\ turn = "io" /\ wipe = "deleted"
  /\ jobs' = [id \in Id |-> IF id \in wiped THEN NoJob ELSE jobs[id]]
  /\ dirs' = dirs \ wiped
  /\ wipe' = "off" /\ wiped' = {}
  /\ UNCHANGED <<pending, active, status, cancelRequested, aborted, step, deadlines,
                 expiring, posting, turn, row, inserted, writes, recoveryVars, wipes, issued, crashes>>

-----------------------------------------------------------------------------
StoreNext ==
  \/ QueueStep
  \/ \E o \in Job : InsertRow(o) \/ AdmitInserted(o)
  \/ \E w \in writes : UpdateLands(w) \/ UpdateLost(w)
  \/ ReadRunning \/ ReadQueued \/ EnqueueRestored
  \/ \E id \in Id : CloseOrphan(id) \/ CloseFails(id)
  \/ ListHistory \/ DeleteRows \/ ClearWiped
  \/ Crash

StoreSpec == StoreInit /\ [][StoreNext]_storeVars

\* Queries are answered, the boot goes on, and the queue is as fair as before.
Persisted(action) == action /\ Send /\ UNCHANGED <<row, inserted, recoveryVars, wipeVars, issued, crashes>>

StoreFairness ==
  /\ WF_storeVars(Persisted(Loop))
  /\ WF_storeVars(ReadRunning) /\ WF_storeVars(ReadQueued) /\ WF_storeVars(EnqueueRestored)
  /\ \A id \in Id : WF_storeVars(CloseOrphan(id))
  /\ \A o \in Job :
       /\ WF_storeVars(AdmitInserted(o))
       /\ WF_storeVars(Persisted(KeyCompleted(o)))
       /\ WF_storeVars(Persisted(MustEnd(o)))
       /\ WF_storeVars(Persisted(Deadline(o)))
       /\ \A s \in JobStatus : WF_storeVars(UpdateLands([job |-> o, status |-> s]))

FairStoreSpec == StoreSpec /\ StoreFairness

-----------------------------------------------------------------------------
(* Properties                                                                *)

\* Every variable keeps to its range, and the table stays in step with the
\* phases of boot and deletion.
StoreTypeOK ==
  /\ TypeOK
  /\ issued \in SUBSET Id /\ row \in [Id -> RowStatus]
  /\ inserted \in SUBSET Job
  /\ writes \in SUBSET [job : Job, status : JobStatus \ {"queued"}]
  /\ recovery \in {"readRunning", "close", "enqueue", "ready"}
  /\ orphans \in SUBSET Id /\ restored \in Seq(Id) /\ overlooked \in SUBSET Id
  /\ wipe \in {"off", "listed", "deleted"} /\ wiped \in SUBSET Id
  /\ crashes \in 0..MaxCrashes /\ wipes \in 0..MaxWipes

\* The process still has work to do for the id: an object that runs or that
\* the queue will reach, an update on its way, a request about to enqueue.
Cared(id) ==
  \/ \E o \in Job : IdOf[o] = id /\ status[o] = "running"
  \/ jobs[id] # NoJob /\ status[jobs[id]] = "queued" /\ Contains(pending, id)
  \/ \E w \in writes : IdOf[w.job] = id
  \/ \E o \in inserted : IdOf[o] = id

\* After recovery no row is left saying "queued" or "running" without anybody
\* working on it (README: such analyses "ficariam em execução para sempre"),
\* but those a query of this boot failed to tell of: the next boot may find
\* them.  Holds even when requests arrive during recovery, as long as updates
\* are not lost or overtaken.
NoGhostRow ==
  recovery = "ready" => \A id \in Id : row[id] \in Live => Cared(id) \/ id \in overlooked

\* A stored analysis that has not ended ends, is deleted, or is one that a
\* failed query of the boot left with nobody working on it, across crashes.
EveryRowEnds ==
  \A id \in Id :
    row[id] \in Live ~> (RowEnded(id) \/ row[id] = "none" \/ (id \in overlooked /\ ~Cared(id)))

\* The table agrees with job-state.ts: an ended row changes no more, except by
\* being deleted.
RowTerminalIsFinal ==
  [][\A id \in Id : RowEnded(id) => row'[id] \in {row[id], "none"}]_storeVars

\* One id is never executed twice at once, and the map finds the execution: it
\* can be seen and cancelled.
OneRunPerAnalysis ==
  \A o, p \in Running : /\ IdOf[o] = IdOf[p] => o = p
                        /\ jobs[IdOf[o]] = o

\* Deleting the history never takes the memory entry or the directory of an
\* analysis that has not ended (routes/scans.ts: "mexer no diretório de uma
\* análise em curso quebraria a execução que está rodando").
WipeSparesLiveJobs ==
  [][wipe = "deleted" /\ wipe' = "off" /\ crashes' = crashes =>
       \A o \in Job : status[o] \in Live =>
         jobs'[IdOf[o]] = jobs[IdOf[o]] /\ (IdOf[o] \in dirs => IdOf[o] \in dirs')]_storeVars
=============================================================================

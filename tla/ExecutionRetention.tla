-------------------------- MODULE ExecutionRetention --------------------------
(* One finished code execution of an account: where its record and its files *)
(* are kept (memory, table, disk, object storage), who finds it, and how the *)
(* expiry, "apagar histórico", an evidence report, the uploads in progress   *)
(* and a restart of the process meet.                                        *)
EXTENDS Naturals, FiniteSets

CONSTANT Upload, MaxRestarts       \* names of uploads; bound on the restarts

ASSUME RetentionAssumption == MaxRestarts \in Nat

VARIABLES
  keptMemory,   \* CodeExecutionJobStore has it
  keptRow,      \* code_executions has it
  keptDisk,     \* code-<id>: "none", "report" or "evidence"
  keptObjects,  \* the storage has files under its prefix
  keptTimer,    \* expiry armed in this process
  upload,       \* uploads: "free", "listing" or "putting"
  erase,        \* DELETE /api/scans: "idle", "row", "objects", "disk", "done"
  expiry,       \* what the timer started: subset of {"objects", "disk"}
  report,       \* POST evidence-report: "idle", "reading", "error", "written"
  restarts,     \* bounded by MaxRestarts
  lateUpload, failedRemoval, failedRm   \* history: what left something behind

keptVars == <<keptMemory, keptRow, keptDisk, keptObjects, keptTimer, upload, erase,
              expiry, report, restarts, lateUpload, failedRemoval, failedRm>>
blame == <<lateUpload, failedRemoval, failedRm>>

\* The end of POST /api/code-execution: the row is a best effort, the files are
\* sent without being waited for, the expiry is armed.
KeptInit ==
  /\ keptMemory = TRUE /\ keptRow \in BOOLEAN /\ keptDisk = "report"
  /\ keptObjects = FALSE /\ keptTimer = TRUE
  /\ \E u \in Upload : upload = [v \in Upload |-> IF v = u THEN "listing" ELSE "free"]
  /\ erase = "idle" /\ expiry = {} /\ report = "idle" /\ restarts = 0
  /\ lateUpload = FALSE /\ failedRemoval = FALSE /\ failedRm = FALSE

\* loadCodeExecutionJob: the memory, then the table (whose failure is swallowed),
\* then the report and the token's hash on disk.
FoundIn == IF keptMemory THEN "memory" ELSE IF keptRow THEN "row"
           ELSE IF keptDisk # "none" THEN "disk" ELSE "nowhere"

Removing == erase \in {"objects", "disk", "done"} \/ ~keptTimer

-----------------------------------------------------------------------------
\* upload: the directory is listed once, then each file is read and sent.
ListFiles(u) ==
  /\ upload[u] = "listing"
  /\ upload' = [upload EXCEPT ![u] = IF keptDisk = "none" THEN "free" ELSE "putting"]
  /\ UNCHANGED <<keptMemory, keptRow, keptDisk, keptObjects, keptTimer, erase, expiry,
                 report, restarts, blame>>

\* A file of the list; one that is gone, or a refused call, ends the upload.
PutFile(u) ==
  /\ upload[u] = "putting"
  /\ \/ keptDisk # "none" /\ keptObjects' = TRUE
        /\ lateUpload' = (lateUpload \/ Removing)
     \/ UNCHANGED <<keptObjects, lateUpload>>
  /\ \/ upload' = [upload EXCEPT ![u] = "free"]
     \/ keptDisk # "none" /\ UNCHANGED upload
  /\ UNCHANGED <<keptMemory, keptRow, keptDisk, keptTimer, erase, expiry, report,
                 restarts, failedRemoval, failedRm>>

\* remove: page by page; it fails as a whole or leaves nothing listed behind.
RemoveObjects ==
  \/ keptObjects' = FALSE /\ UNCHANGED failedRemoval
  \/ failedRemoval' = TRUE /\ UNCHANGED keptObjects

\* rm with force: the directory, or a failure nobody waits for.
RemoveFiles ==
  \/ keptDisk' = "none" /\ UNCHANGED failedRm
  \/ failedRm' = TRUE /\ UNCHANGED keptDisk

-----------------------------------------------------------------------------
\* The timer only removes the files.
ForgetLater == UNCHANGED keptMemory

ForgetNow == keptMemory' = FALSE

\* expireCodeExecution: the row stays; objects and files go side by side.
Expire ==
  /\ keptTimer /\ keptTimer' = FALSE
  /\ ForgetNow
  /\ expiry' = {"objects", "disk"}
  /\ UNCHANGED <<keptRow, keptDisk, keptObjects, upload, erase, report, restarts, blame>>

ExpireObjects ==
  /\ "objects" \in expiry /\ expiry' = expiry \ {"objects"}
  /\ RemoveObjects
  /\ UNCHANGED <<keptMemory, keptRow, keptDisk, keptTimer, upload, erase, report, restarts,
                 lateUpload, failedRm>>

ExpireFiles ==
  /\ "disk" \in expiry /\ expiry' = expiry \ {"disk"}
  /\ RemoveFiles
  /\ UNCHANGED <<keptMemory, keptRow, keptObjects, keptTimer, upload, erase, report, restarts,
                 lateUpload, failedRemoval>>

\* DELETE /api/scans: deleteByOwner names the rows it removed, and only those
\* executions are forgotten, then their objects removed, then their files.
EraseRow ==
  /\ erase = "idle" /\ keptRow
  /\ keptRow' = FALSE /\ erase' = "row"
  /\ UNCHANGED <<keptMemory, keptDisk, keptObjects, keptTimer, upload, expiry, report,
                 restarts, blame>>

EraseMemory ==
  /\ erase = "row" /\ erase' = "objects"
  /\ ForgetNow
  /\ UNCHANGED <<keptRow, keptDisk, keptObjects, keptTimer, upload, expiry, report,
                 restarts, blame>>

EraseObjects ==
  /\ erase = "objects" /\ erase' = "disk"
  /\ RemoveObjects
  /\ UNCHANGED <<keptMemory, keptRow, keptDisk, keptTimer, upload, expiry, report, restarts,
                 lateUpload, failedRm>>

EraseFiles ==
  /\ erase = "disk" /\ erase' = "done"
  /\ RemoveFiles
  /\ UNCHANGED <<keptMemory, keptRow, keptObjects, keptTimer, upload, expiry, report, restarts,
                 lateUpload, failedRemoval>>

-----------------------------------------------------------------------------
\* POST evidence-report: the execution is looked up, then its captures read.
LookUp ==
  /\ report \in {"idle", "error", "written"} /\ FoundIn # "nowhere"
  /\ report' = "reading"
  /\ UNCHANGED <<keptMemory, keptRow, keptDisk, keptObjects, keptTimer, upload, erase, expiry,
                 restarts, blame>>

\* The page goes into the directory the record names, and up again; without
\* that directory the request fails.
WriteEvidence ==
  /\ report = "reading"
  /\ IF keptDisk = "none"
     THEN report' = "error" /\ UNCHANGED <<keptDisk, upload>>
     ELSE /\ report' = "written" /\ keptDisk' = "evidence"
          /\ \E u \in Upload : upload[u] = "free" /\ upload' = [upload EXCEPT ![u] = "listing"]
  /\ UNCHANGED <<keptMemory, keptRow, keptObjects, keptTimer, erase, expiry, restarts, blame>>

\* The process ends and another starts, on a disk that may be a new one.
Restart ==
  /\ restarts < MaxRestarts /\ restarts' = restarts + 1
  /\ keptMemory' = FALSE /\ keptTimer' = FALSE /\ expiry' = {}
  /\ keptDisk' \in {keptDisk, "none"}
  /\ lateUpload' = (lateUpload \/ erase \in {"row", "objects"} \/ "objects" \in expiry)
  /\ failedRm' = (failedRm \/ erase \in {"row", "objects", "disk"} \/ "disk" \in expiry)
  /\ erase' = IF erase = "idle" THEN "idle" ELSE "done"
  /\ upload' = [u \in Upload |-> "free"] /\ report' = "idle"
  /\ UNCHANGED <<keptRow, keptObjects, failedRemoval>>

KeptNext ==
  \/ \E u \in Upload : ListFiles(u) \/ PutFile(u)
  \/ Expire \/ ExpireObjects \/ ExpireFiles
  \/ EraseRow \/ EraseMemory \/ EraseObjects \/ EraseFiles
  \/ LookUp \/ WriteEvidence \/ Restart

KeptSpec == KeptInit /\ [][KeptNext]_keptVars

-----------------------------------------------------------------------------

KeptTypeOK ==
  /\ {keptMemory, keptRow, keptObjects, keptTimer} \subseteq BOOLEAN
  /\ keptDisk \in {"none", "report", "evidence"}
  /\ upload \in [Upload -> {"free", "listing", "putting"}]
  /\ erase \in {"idle", "row", "objects", "disk", "done"}
  /\ expiry \subseteq {"objects", "disk"}
  /\ report \in {"idle", "reading", "error", "written"} /\ restarts \in 0..MaxRestarts

\* "apagar não é apagar" if the link still opens (routes/scans.ts): once the
\* history was erased nothing finds the execution any more, unless its files
\* could not be removed; and its objects only survive an upload that was still
\* going on, a removal that failed or one a restart cut short.
ErasedIsGone ==
  erase = "done" =>
    /\ FoundIn \in (IF failedRm THEN {"disk", "nowhere"} ELSE {"nowhere"})
    /\ keptObjects => lateUpload \/ failedRemoval
=============================================================================

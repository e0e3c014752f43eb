----------------------------- MODULE ChildProcess -----------------------------
(* The promises wrapped around a child process, each settled by whichever    *)
(* comes first of its output, its deadline, error and close:                 *)
(*   "playwright"  runPlaywrightCode            (code-execution.ts)          *)
(*   "worker"      runPlaywrightCodeWorker      (code-worker-client.ts)      *)
(*   "cleanup", "command", "proxy", "job"       (sandbox-runtime.ts)         *)
(* The worker runs Playwright in a process group of its own, under the       *)
(* deadline of runPlaywrightCode (code-worker.ts).                           *)

CONSTANT ChildKind
ASSUME ChildKindAssumption ==
  ChildKind \subseteq {"playwright", "worker", "cleanup", "command", "proxy", "job"}

VARIABLES
  childKind,     \* which of the wrappers this is
  childProc,     \* the process: "spawning", "running", "exited" or "gone"
  childTimer,    \* its deadline is armed
  childOutcome,  \* the promise
  childCause,    \* what settled it
  grandchild     \* the Playwright of a worker

childVars == <<childKind, childProc, childTimer, childOutcome, childCause, grandchild>>

HasDeadline(k) == k # "command"
KillsOnDeadline(k) == k \in {"playwright", "worker", "cleanup", "job"}
LimitsOutput(k) == k # "cleanup"
KillsOnOutput(k) == k \in {"playwright", "worker", "command", "job"}
Settled == childOutcome \in {"resolved", "rejected"}

ChildInit ==
  /\ childKind \in ChildKind
  /\ childProc = "spawning"
  /\ childTimer = HasDeadline(childKind)
  /\ childOutcome = "pending"
  /\ childCause = "none"
  /\ grandchild = "none"

\* The process stops; a tree of its own survives it.
KillChild(kills) ==
  childProc' = IF kills /\ childProc # "gone" THEN "exited" ELSE childProc

\* The deadline is left armed.
SettleOnly(outcome, cause) ==
  childOutcome' = outcome /\ childCause' = cause /\ UNCHANGED childTimer

\* settled, and the deadline cleared.
Settle1(outcome, cause) ==
  childOutcome' = outcome /\ childCause' = cause /\ childTimer' = FALSE

ChildStarts ==
  /\ childProc = "spawning"
  /\ childProc' = "running"
  /\ grandchild' = IF childKind = "worker" THEN "unborn" ELSE "none"
  /\ UNCHANGED <<childKind, childTimer, childOutcome, childCause>>

\* error: there is no process.
SpawnError ==
  /\ childProc = "spawning"
  /\ childProc' = "gone"
  /\ IF childOutcome = "pending"
     THEN Settle1(IF childKind = "cleanup" THEN "resolved" ELSE "rejected", "error")
     ELSE UNCHANGED <<childTimer, childOutcome, childCause>>
  /\ UNCHANGED <<childKind, grandchild>>

WorkerSpawnsPlaywright ==
  /\ grandchild = "unborn" /\ childProc = "running"
  /\ grandchild' = "running"
  /\ UNCHANGED <<childKind, childProc, childTimer, childOutcome, childCause>>

\* It ends by itself, or the worker's own deadline kills its group.
PlaywrightEnds ==
  /\ grandchild = "running"
  /\ grandchild' = "gone"
  /\ UNCHANGED <<childKind, childProc, childTimer, childOutcome, childCause>>

\* A worker leaves with its Playwright gone, or dies.
ChildExits ==
  /\ childProc = "running"
  /\ childProc' = "exited"
  /\ UNCHANGED <<childKind, childTimer, childOutcome, childCause, grandchild>>

\* READY was read: the proxy goes on running.
ProxyReady ==
  /\ childKind = "proxy" /\ childProc = "running" /\ childOutcome = "pending"
  /\ Settle1("resolved", "ready")
  /\ UNCHANGED <<childKind, childProc, grandchild>>

\* Too much output.
OutputLimit ==
  /\ LimitsOutput(childKind) /\ childProc = "running" /\ childOutcome = "pending"
  /\ Settle1("rejected", "output")
  /\ KillChild(KillsOnOutput(childKind))
  /\ UNCHANGED <<childKind, grandchild>>

\* The deadline only rejects the promise.
RejectOnly == UNCHANGED childProc

StopAtDeadline == KillChild(KillsOnDeadline(childKind))

ChildDeadline ==
  /\ childTimer
  /\ Settle1(IF childKind = "cleanup" THEN "resolved" ELSE "rejected", "deadline")
  /\ StopAtDeadline
  /\ UNCHANGED <<childKind, grandchild>>

\* The result file is taken for valid whatever the worker left.
AnyResult == {"resolved", "rejected"}

\* The exit code, the result file or the container's answer decides.  A worker
\* writes the file only after its Playwright ended.
CloseOutcomes ==
  CASE childKind = "playwright" -> {"resolved"}
    [] childKind = "cleanup" -> {"resolved"}
    [] childKind = "proxy" -> {"rejected"}
    [] childKind = "worker" /\ grandchild # "gone" -> {"rejected"}
    [] OTHER -> {"resolved", "rejected"}

\* close: the process is gone and its output was read.
ChildCloses ==
  /\ childProc = "exited"
  /\ childProc' = "gone"
  /\ IF childOutcome = "pending"
     THEN \E outcome \in CloseOutcomes : Settle1(outcome, "close")
     ELSE UNCHANGED <<childTimer, childOutcome, childCause>>
  /\ UNCHANGED <<childKind, grandchild>>

ChildNext ==
  \/ ChildStarts \/ SpawnError \/ WorkerSpawnsPlaywright \/ PlaywrightEnds
  \/ ChildExits \/ ProxyReady \/ OutputLimit \/ ChildDeadline \/ ChildCloses

ChildSpec == ChildInit /\ [][ChildNext]_childVars

-----------------------------------------------------------------------------

ChildTypeOK ==
  /\ childKind \in ChildKind
  /\ childProc \in {"spawning", "running", "exited", "gone"}
  /\ childTimer \in BOOLEAN
  /\ childOutcome \in {"pending", "resolved", "rejected"}
  /\ childCause \in {"none", "error", "close", "output", "deadline", "ready"}
  /\ grandchild \in {"none", "unborn", "running", "gone"}

\* A settled promise leaves no process behind it, save the proxy (its caller
\* stops it); a run that yields a result leaves no Playwright either.  The
\* Playwright of a worker that was killed or died outlives the rejection, until
\* it ends by itself: the deadline that watched it died with the worker.
SettledLeavesNothing ==
  Settled =>
    /\ ~childTimer
    /\ childKind # "proxy" => childProc \in {"exited", "gone"}
    /\ childOutcome = "resolved" => grandchild \in {"none", "gone"}
=============================================================================

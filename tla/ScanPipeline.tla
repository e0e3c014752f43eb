----------------------------- MODULE ScanPipeline -----------------------------
(* Analyses of one project side by side: scan (scanner.ts), the reports and   *)
(* the history that runJob (server.ts) writes after it (history.ts), an abort *)
(* by the user or the deadline at any moment.  The baseline they share is     *)
(* copied over in place, and read by whoever starts meanwhile; the copy may   *)
(* fail, and the process may die during it.                                   *)
EXTENDS Naturals, FiniteSets

CONSTANTS Scan, RegressionsOnly, AcceptBaseline   \* the last two: which scans ask for it

ASSUME PipelineAssumption ==
  /\ RegressionsOnly \subseteq Scan /\ AcceptBaseline \subseteq Scan
  /\ Scan \cap {"none", "torn"} = {}   \* what the shared file may be besides a run

VARIABLES
  stage,      \* what each scan awaits
  chrome,     \* scans whose browser is open
  stopped,    \* signals: "no", "cancel" or "deadline"
  knows,      \* scans that found a baseline
  partial,    \* scans that could not inspect the page
  gate,       \* scans that passed their gate
  promotes,   \* scans that copied their run
  baseline,   \* baseline.json: "none", "torn", or the run it is
  overlapped, \* the copies under way overlapped
  against,    \* the run each scan was compared with
  died        \* the process died once

history == <<promotes, baseline, overlapped, against, died>>
pipelineVars == <<stage, chrome, stopped, knows, partial, gate, history>>

Ended == {"completed", "failed", "cancelled"}
InBrowser == {"launched", "navigating", "inspecting", "auditing", "comparing", "capturing"}

PipelineInit ==
  /\ stage = [s \in Scan |-> "queued"] /\ stopped = [s \in Scan |-> "no"]
  /\ chrome = {} /\ knows = {} /\ partial = {} /\ gate = {} /\ promotes = {}
  /\ baseline = "none" /\ overlapped = FALSE
  /\ against = [s \in Scan |-> "none"] /\ died = FALSE

StageOf(s, p) == stage' = [stage EXCEPT ![s] = p]
AtStage(s, p) == stage[s] = p
Running(s) == stopped[s] = "no"

\* runJob's catch: a cancellation asked for is one, whatever was thrown.
Outcome(s) == IF stopped[s] = "cancel" THEN "cancelled" ELSE "failed"

\* The browser closes only after a report.
CloseOnSuccess(s, ok) == IF ok THEN chrome \ {s} ELSE chrome

\* scan's finally
CloseAnyway(s, ok) == chrome \ {s}

ScanThrows(s) ==
  /\ stage[s] \in {"queued", "launching"} \cup InBrowser
  /\ stage[s] \in {"queued"} => ~Running(s)
  /\ chrome' = CloseAnyway(s, FALSE)
  /\ StageOf(s, Outcome(s))
  /\ UNCHANGED <<stopped, knows, partial, gate, history>>

-----------------------------------------------------------------------------
\* findHistoryBaseline
FindBaseline(s) ==
  /\ AtStage(s, "queued") /\ Running(s)
  /\ knows' = IF baseline = "none" THEN knows ELSE knows \cup {s}
  /\ StageOf(s, "launching")
  /\ UNCHANGED <<chrome, stopped, partial, gate, history>>

\* An abort during the launch is noticed by the throwIfAborted after it.
LaunchBrowser(s) ==
  /\ AtStage(s, "launching")
  /\ chrome' = chrome \cup {s}
  /\ StageOf(s, "launched")
  /\ UNCHANGED <<stopped, knows, partial, gate, history>>

OpenPage(s) ==
  /\ AtStage(s, "launched") /\ Running(s)
  /\ StageOf(s, "navigating")
  /\ UNCHANGED <<chrome, stopped, knows, partial, gate, history>>

\* A page that does not open makes the scan partial; it goes on.
Navigate(s) ==
  /\ AtStage(s, "navigating") /\ Running(s)
  /\ partial' \in {partial, partial \cup {s}}
  /\ StageOf(s, "inspecting")
  /\ UNCHANGED <<chrome, stopped, knows, gate, history>>

\* inspectStablePage: read again once after a navigation, then given up.
Inspect(s) ==
  /\ AtStage(s, "inspecting")
  /\ partial' \in {partial, partial \cup {s}}
  /\ StageOf(s, IF s \in partial' THEN "comparing" ELSE "auditing")
  /\ UNCHANGED <<chrome, stopped, knows, gate, history>>

\* Accessibility and performance swallow their failures; Lighthouse does not.
Audit(s) ==
  /\ AtStage(s, "auditing")
  /\ StageOf(s, "comparing")
  /\ UNCHANGED <<chrome, stopped, knows, partial, gate, history>>

\* Whatever lies there is read.
LoadsAnything == baseline # "none"

\* loadBaseline refuses a file that is gone, or that is no whole report.
Loadable == baseline \in Scan

\* A partial scan has an error, which a regressions-only gate may already know.
CompareIssues(s) ==
  /\ AtStage(s, "comparing") /\ (s \in knows => Loadable)
  /\ against' = [against EXCEPT ![s] = IF s \in knows THEN baseline ELSE "none"]
  /\ \/ gate' = gate \cup {s} /\ (s \in partial => s \in RegressionsOnly)
     \/ UNCHANGED gate
  /\ StageOf(s, "capturing")
  /\ UNCHANGED <<chrome, stopped, knows, partial, promotes, baseline, overlapped, died>>

\* The screenshot is taken or given up; the report is returned, and the browser
\* closed, even when the signal came after the last check.
Report(s) ==
  /\ AtStage(s, "capturing")
  /\ chrome' = CloseAnyway(s, TRUE)
  /\ StageOf(s, "returned")
  /\ UNCHANGED <<stopped, knows, partial, gate, history>>

-----------------------------------------------------------------------------
\* A signal seen between two steps of runJob, or a write that fails.
JobThrows(s) ==
  /\ stage[s] \in {"returned", "written", "stored"}
  /\ stage[s] = "stored" => ~Running(s)
  /\ StageOf(s, Outcome(s))
  /\ UNCHANGED <<chrome, stopped, knows, partial, gate, history>>

WriteReports(s) ==
  /\ AtStage(s, "returned") /\ Running(s)
  /\ StageOf(s, "written")
  /\ UNCHANGED <<chrome, stopped, knows, partial, gate, history>>

\* A partial scan that passed is promoted too.
PromotablePassed(s) == s \in gate \/ s \in AcceptBaseline

Promotable(s) == s \notin partial /\ (s \in gate \/ s \in AcceptBaseline)

Copying == {s \in Scan : stage[s] = "copying"}

\* storeRun: the run's file appears at once.
StoreRun(s) ==
  /\ AtStage(s, "written") /\ Running(s)
  /\ StageOf(s, IF Promotable(s) THEN "promoting" ELSE "stored")
  /\ UNCHANGED <<chrome, stopped, knows, partial, gate, history>>

\* copyFile empties the file it copies over.
BeginCopy(s) ==
  /\ AtStage(s, "promoting")
  /\ StageOf(s, "copying")
  /\ baseline' = "torn" /\ overlapped' = (Copying # {})
  /\ UNCHANGED <<chrome, stopped, knows, partial, gate, promotes, against, died>>

\* Alone it leaves its run; of copies that overlapped either run stays, or a
\* mixture, which is taken to be no report, or nothing when one of them failed.
CopyEnds(s) ==
  /\ AtStage(s, "copying")
  /\ StageOf(s, "stored") /\ promotes' = promotes \cup {s}
  /\ IF Copying # {s} THEN UNCHANGED baseline
     ELSE IF overlapped THEN baseline' \in {"none", "torn"} \cup promotes' ELSE baseline' = s
  /\ UNCHANGED <<chrome, stopped, knows, partial, gate, overlapped, against, died>>

\* A failed copy is swallowed.
CopyGivesUp(s) ==
  /\ AtStage(s, "promoting") /\ StageOf(s, "stored")
  /\ UNCHANGED <<chrome, stopped, knows, partial, gate, history>>

\* A copy that fails fails its analysis; one that had begun leaves nothing, or
\* half a file when that cannot be removed either.
CopyFails(s) ==
  /\ \/ AtStage(s, "promoting") /\ UNCHANGED baseline
     \/ AtStage(s, "copying") /\ baseline' \in {"none", "torn"}
  /\ StageOf(s, Outcome(s))
  /\ UNCHANGED <<chrome, stopped, knows, partial, gate, promotes, overlapped, against, died>>

Complete(s) ==
  /\ AtStage(s, "stored") /\ Running(s)
  /\ StageOf(s, "completed")
  /\ UNCHANGED <<chrome, stopped, knows, partial, gate, history>>

\* The signal closes the browser it finds.
StopScan(s) ==
  /\ Running(s) /\ stage[s] \notin Ended
  /\ \E why \in {"cancel", "deadline"} : stopped' = [stopped EXCEPT ![s] = why]
  /\ chrome' = IF stage[s] = "launching" THEN chrome ELSE chrome \ {s}
  /\ UNCHANGED <<stage, knows, partial, gate, history>>

\* The next process closes the rows of analyses that were running, and runs
\* those that waited; a copy that was cut short stays as it was.
ProcessDies ==
  /\ ~died /\ died' = TRUE
  /\ stage' = [s \in Scan |-> IF stage[s] \in {"queued"} \cup Ended THEN stage[s] ELSE "failed"]
  /\ chrome' = {}
  /\ UNCHANGED <<stopped, knows, partial, gate, promotes, baseline, overlapped, against>>

PipelineNext ==
  \/ ProcessDies
  \/ \E s \in Scan :
       \/ FindBaseline(s) \/ LaunchBrowser(s) \/ OpenPage(s) \/ Navigate(s) \/ Inspect(s)
       \/ Audit(s) \/ CompareIssues(s) \/ Report(s) \/ ScanThrows(s) \/ WriteReports(s)
       \/ StoreRun(s) \/ BeginCopy(s) \/ CopyEnds(s) \/ CopyFails(s)
       \/ Complete(s) \/ JobThrows(s) \/ StopScan(s)

PipelineSpec == PipelineInit /\ [][PipelineNext]_pipelineVars

-----------------------------------------------------------------------------

\* No run is compared with half a file: whatever a scan was compared with,
\* however copies overlapped, failed or were cut short, is a run
\* copied whole, of a page that could be inspected; so is the baseline wherever
\* it can be read; a scan that completed was promoted if it was to be; and no
\* browser outlives its scan.
BaselineIsSound ==
  /\ \A s \in Scan : against[s] # "none" => against[s] \in promotes \ partial
  /\ baseline \notin {"none", "torn"} => baseline \in promotes \ partial
  /\ \A s \in Scan : AtStage(s, "completed") =>
       stopped[s] = "no" /\ (Promotable(s) => s \in promotes)
  /\ \A s \in chrome : stage[s] \in InBrowser

\* The code does not keep this: half a file stays where the baseline is, and
\* fails whoever is compared with it, when copies overlapped or one was cut
\* short (history.ts 71).
BaselineStaysReadable == Copying = {} => baseline # "torn"

\* Nor this: a cancelled analysis may have replaced the baseline (server.ts 665).
CancelledLeavesNoBaseline == baseline \in Scan => stage[baseline] # "cancelled"
=============================================================================

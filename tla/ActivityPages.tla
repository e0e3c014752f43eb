--------------------------- MODULE ActivityPages ----------------------------
(***************************************************************************)
(* The pages of the browser that show what it did: the journey it recorded *)
(* and executed, and the overview of its activity.                         *)
(***************************************************************************)
EXTENDS Integers, FiniteSets, SequencesExt

-----------------------------------------------------------------------------
(***************************************************************************)
(* The page of the journey mode (src/browser/journey.ts): record with the  *)
(* Codegen, execute the code of the editor, and ask for the evidence       *)
(* report of the execution on the screen, whose steps are fetched into a   *)
(* modal first.  The server's answers are external.                        *)
(***************************************************************************)
CONSTANTS
  PageExecution,  \* executions the page may run
  MaxStepReads    \* bound: times the steps are fetched

VARIABLES
  codeOff,      \* codeExecute.disabled, while an execution is awaited
  resultOf,     \* the execution codeResult shows, or NoExecution
  resultHidden, \* codeResult.hidden
  executionId,  \* codeResult.dataset.executionId
  completedId,  \* completedCodeExecutionId: whose report the modal is for
  stepsBox,     \* whose steps the modal lists: an execution, Waiting or NoSteps
  stepReads,    \* requests for steps in flight
  stepsAsked,
  modalOpen,
  reportCalls,  \* evidence reports asked for: the execution and its steps
  codegen,      \* the recorder: page's id, its buttons, and the server's side
  editor,       \* where the code in the editor came from
  crossed       \* were steps asked for while others were awaited?

journeyPageVars == <<codeOff, resultOf, resultHidden, executionId, completedId, stepsBox, stepReads, stepsAsked, modalOpen, reportCalls, codegen, editor, crossed>>

NoExecution == "none"
Waiting == "loading"
NoSteps == "no steps"
resultVars == <<resultOf, resultHidden, executionId>>
evidenceUiVars == <<completedId, stepsBox, stepReads, stepsAsked, modalOpen, reportCalls, crossed>>

JourneyPageInit ==
  /\ codeOff = FALSE /\ resultOf = NoExecution /\ resultHidden = TRUE /\ executionId = NoExecution
  /\ completedId = NoExecution /\ stepsBox = NoSteps /\ stepReads = {} /\ stepsAsked = 0
  /\ modalOpen = FALSE /\ reportCalls = {} /\ crossed = FALSE
  /\ codegen = [known |-> FALSE, startOff |-> FALSE, stopOff |-> TRUE, starting |-> 0, stopping |-> FALSE, server |-> "idle"]
  /\ editor = "typed"

\* everything behind an open modal is out of reach
Reachable == ~modalOpen

ClickExecute ==
  /\ Reachable /\ ~codeOff
  /\ codeOff' = TRUE
  /\ resultHidden' = TRUE
  /\ UNCHANGED <<resultOf, executionId, evidenceUiVars, codegen, editor>>

\* the execution passed or failed: the result is written and shown, and the
\* observer of codeResult takes its id
ExecutionAnswered(x) ==
  /\ codeOff /\ x # resultOf
  /\ resultOf' = x /\ executionId' = x
  /\ resultHidden' = FALSE /\ codeOff' = FALSE
  /\ UNCHANGED <<evidenceUiVars, codegen, editor>>

\* refused for want of a session, or failed without a result
ExecutionRefused ==
  /\ codeOff /\ codeOff' = FALSE
  /\ UNCHANGED <<resultVars, evidenceUiVars, codegen, editor>>

\* codeEvidenceButton, on the screen since the first result
AskSteps ==
  /\ Reachable /\ executionId # NoExecution /\ stepsAsked < MaxStepReads
  /\ completedId' = executionId
  /\ stepsBox' = Waiting
  /\ stepReads' = stepReads \cup {[n |-> stepsAsked, of |-> executionId]}
  /\ stepsAsked' = stepsAsked + 1
  /\ crossed' = (crossed \/ stepReads # {})
  /\ UNCHANGED <<codeOff, resultVars, modalOpen, reportCalls, codegen, editor>>

\* the steps, or a hint in their place; either way the modal opens
StepsAnswered(r) ==
  /\ stepReads' = stepReads \ {r}
  /\ stepsBox' \in {r.of, NoSteps}
  /\ modalOpen' = TRUE
  /\ UNCHANGED <<codeOff, resultVars, completedId, stepsAsked, reportCalls, codegen, editor, crossed>>

CloseModal ==
  /\ modalOpen /\ modalOpen' = FALSE
  /\ UNCHANGED <<codeOff, resultVars, completedId, stepsBox, stepReads, stepsAsked, reportCalls, codegen, editor, crossed>>

\* a plausible bug: the report is asked for the execution on the screen
ReportOfResult == executionId

ReportFor == completedId

\* the form of the modal: the descriptions of its steps go with the request
SubmitEvidence ==
  /\ modalOpen /\ completedId # NoExecution
  /\ reportCalls' = reportCalls \cup {[of |-> ReportFor, steps |-> stepsBox]}
  /\ \/ modalOpen' = FALSE
     \/ UNCHANGED modalOpen
  /\ UNCHANGED <<codeOff, resultVars, completedId, stepsBox, stepReads, stepsAsked, codegen, editor, crossed>>

\* the recorder: start posts, and the button goes off only with the answer
StartCodegen ==
  /\ Reachable /\ ~codegen.startOff /\ codegen.starting < 2
  /\ codegen' = [codegen EXCEPT !.starting = @ + 1]
  /\ UNCHANGED <<codeOff, resultVars, evidenceUiVars, editor>>

CodegenStarted ==
  /\ codegen.starting > 0
  /\ \/ /\ codegen.server = "idle"
        /\ codegen' = [codegen EXCEPT !.starting = @ - 1, !.known = TRUE, !.startOff = TRUE, !.stopOff = FALSE, !.server = "recording"]
     \/ codegen' = [codegen EXCEPT !.starting = @ - 1]
  /\ UNCHANGED <<codeOff, resultVars, evidenceUiVars, editor>>

\* external: the recorded browser is closed
BrowserClosed ==
  /\ codegen.server = "recording"
  /\ codegen' = [codegen EXCEPT !.server = "idle"]
  /\ UNCHANGED <<codeOff, resultVars, evidenceUiVars, editor>>

StopCodegen ==
  /\ Reachable /\ ~codegen.stopOff /\ codegen.known
  /\ codegen' = [codegen EXCEPT !.stopOff = TRUE, !.stopping = TRUE]
  /\ UNCHANGED <<codeOff, resultVars, evidenceUiVars, editor>>

\* a recording that has ended brings its code; any other answer leaves the page
\* waiting for it
CodegenStopped ==
  /\ codegen.stopping
  /\ \/ /\ codegen.server = "idle"
        /\ codegen' = [codegen EXCEPT !.stopping = FALSE, !.stopOff = FALSE, !.known = FALSE, !.startOff = FALSE]
        /\ editor' = "recorded"
     \/ codegen' = [codegen EXCEPT !.stopping = FALSE, !.stopOff = FALSE] /\ UNCHANGED editor
  /\ UNCHANGED <<codeOff, resultVars, evidenceUiVars>>

EditCode ==
  /\ Reachable
  /\ \E from \in {"typed", "imported"} : editor # from /\ editor' = from
  /\ UNCHANGED <<codeOff, resultVars, evidenceUiVars, codegen>>

JourneyPageNext ==
  \/ ClickExecute \/ ExecutionRefused \/ AskSteps \/ CloseModal \/ SubmitEvidence
  \/ StartCodegen \/ CodegenStarted \/ BrowserClosed \/ StopCodegen \/ CodegenStopped \/ EditCode
  \/ \E x \in PageExecution : ExecutionAnswered(x)
  \/ \E r \in stepReads : StepsAnswered(r)

JourneyPageSpec == JourneyPageInit /\ [][JourneyPageNext]_journeyPageVars

-----------------------------------------------------------------------------

\* A report is asked for the execution whose steps the modal lists, even when
\* another execution ended while the modal was open, unless steps were asked
\* for while older ones were awaited (the older answer may then come last,
\* journey.ts 80-99); and a recording the page knows of keeps the start
\* button off (151-177).
ReportHasItsSteps ==
  /\ ~crossed => \A r \in reportCalls : r.steps \in {r.of, NoSteps}
  /\ codegen.known => codegen.startOff

-----------------------------------------------------------------------------
(***************************************************************************)
(* Visao geral (src/browser/dashboard.ts): a list added up from three      *)
(* copies of the executions, by id: this browser's localStorage, the       *)
(* session's copy on the server with its event stream, and the account's   *)
(* history.  Another tab of the same browser runs analyses and records     *)
(* them (recordActivity in browser/shared.ts).  The server is external.    *)
(***************************************************************************)
CONSTANTS
  DashScan,      \* analyses the other tab runs
  MaxRecords,    \* bound: times they are recorded (reopening records again)
  MaxPageLoads   \* bound: times the page is loaded

VARIABLES
  signedIn,      \* is there an account?
  localCopy,     \* localStorage: ids, newest first
  sessionCopy,   \* the server's copy of this browser's activity
  accountCopy,   \* analyses in the account
  records,
  posts,         \* POST /api/dashboard/activity in flight
  events,        \* stream messages not yet handled
  storageFires,  \* is a storage event waiting?
  dashList,      \* dashboardActivities: ids
  copyRead,      \* the page's fetch of the session copy
  accountRead,   \* and of the account's history
  sourceShown,   \* #dashboard-source: the page knows of an account
  clearing,      \* where the click on Limpar stands
  clearOk,       \* have its requests succeeded so far?
  cleared,       \* analyses a whole clear has erased
  pageLoads

dashPageVars == <<signedIn, localCopy, sessionCopy, accountCopy, records, posts, events, storageFires, dashList, copyRead, accountRead, sourceShown, clearing, clearOk, cleared, pageLoads>>
remoteVars == <<signedIn, sessionCopy, accountCopy, records, posts>>
clearVars == <<clearing, clearOk, cleared>>

\* recordActivity names an analysis scan-<id>; the account lists it as <id>
LocalId(a) == [prefix |-> "scan-", of |-> a]
AccountId(a) == [prefix |-> "", of |-> a]
Unread == [at |-> "asked", ids |-> {}]
Ended == [at |-> "over", ids |-> {}]

DashPageInit ==
  /\ signedIn \in BOOLEAN
  /\ localCopy = <<>> /\ sessionCopy = {} /\ accountCopy = {}
  /\ records = 0 /\ posts = {} /\ events = {} /\ storageFires = FALSE
  /\ dashList = <<>> /\ copyRead = Unread /\ accountRead = Unread /\ sourceShown = FALSE
  /\ clearing = "no" /\ clearOk = TRUE /\ cleared = {}
  /\ pageLoads = 1

\* the other tab finishes or reopens an analysis and records it; one that was
\* erased everywhere cannot be reopened
RecordActivity(a) ==
  /\ records < MaxRecords /\ a \notin cleared
  /\ records' = records + 1
  /\ localCopy' = <<LocalId(a)>> \o localCopy
  /\ storageFires' = TRUE
  /\ posts' = posts \cup {a}
  /\ accountCopy' = IF signedIn THEN accountCopy \cup {a} ELSE accountCopy
  /\ UNCHANGED <<signedIn, sessionCopy, events, dashList, copyRead, accountRead, sourceShown, clearVars, pageLoads>>

\* external: the server keeps the activity and tells the stream; it may be lost
PostArrives(a) ==
  /\ a \in posts
  /\ posts' = posts \ {a}
  /\ \/ sessionCopy' = sessionCopy \cup {a} /\ events' = events \cup {a}
     \/ UNCHANGED <<sessionCopy, events>>
  /\ UNCHANGED <<signedIn, localCopy, accountCopy, records, storageFires, dashList, copyRead, accountRead, sourceShown, clearVars, pageLoads>>

\* a Map keyed by id: each id once, the newcomers over what was listed
MergeById(list, ids) == SetToSeq(ToSet(list) \cup ids)

StreamMessage(a) ==
  /\ a \in events
  /\ events' = events \ {a}
  /\ dashList' = MergeById(dashList, {LocalId(a)})
  /\ UNCHANGED <<remoteVars, localCopy, storageFires, copyRead, accountRead, sourceShown, clearVars, pageLoads>>

\* storage: the list is only what localStorage has
StorageChanged ==
  /\ storageFires
  /\ storageFires' = FALSE
  /\ dashList' = localCopy
  /\ UNCHANGED <<remoteVars, localCopy, events, copyRead, accountRead, sourceShown, clearVars, pageLoads>>

\* external: the server answers a fetch with what it has now, or fails it
ServerReads ==
  /\ \/ /\ copyRead.at = "asked"
        /\ copyRead' \in {[at |-> "answered", ids |-> {LocalId(a) : a \in sessionCopy}], Ended}
        /\ UNCHANGED accountRead
     \/ /\ accountRead.at = "asked"
        /\ accountRead' \in {Ended} \cup (IF signedIn THEN {[at |-> "answered", ids |-> {AccountId(a) : a \in accountCopy}]} ELSE {})
        /\ UNCHANGED copyRead
  /\ UNCHANGED <<remoteVars, localCopy, events, storageFires, dashList, sourceShown, clearVars, pageLoads>>

CopyAnswered ==
  /\ copyRead.at = "answered"
  /\ copyRead' = Ended
  /\ dashList' = MergeById(dashList, copyRead.ids)
  /\ UNCHANGED <<remoteVars, localCopy, events, storageFires, accountRead, sourceShown, clearVars, pageLoads>>

\* loadAccountHistory: the analyses whose id is not listed yet are appended
AccountAnswered ==
  /\ accountRead.at = "answered"
  /\ accountRead' = Ended
  /\ sourceShown' = TRUE
  /\ dashList' = dashList \o SetToSeq(accountRead.ids \ ToSet(dashList))
  /\ UNCHANGED <<remoteVars, localCopy, events, storageFires, copyRead, clearVars, pageLoads>>

\* Limpar, confirmed: the local copy goes at once
ClickClear ==
  /\ clearing = "no" /\ dashList # <<>>
  /\ localCopy' = <<>>
  /\ clearing' = "activity"
  /\ clearOk' = (sourceShown = signedIn)
  /\ UNCHANGED <<remoteVars, events, storageFires, dashList, copyRead, accountRead, sourceShown, cleared, pageLoads>>

\* a plausible bug: Limpar asks the server for one copy only
OneCopyCleared(hadAccount) == "done"

AfterActivity(hadAccount) == IF hadAccount THEN "account" ELSE "done"

\* DELETE /api/dashboard/activity, answered or failed
ActivityCleared ==
  /\ clearing = "activity"
  /\ \/ sessionCopy' = {} /\ clearOk' = (clearOk /\ posts = {})
     \/ UNCHANGED sessionCopy /\ clearOk' = FALSE
  /\ clearing' = AfterActivity(sourceShown)
  /\ UNCHANGED <<signedIn, accountCopy, records, posts, localCopy, events, storageFires, dashList, copyRead, accountRead, sourceShown, cleared, pageLoads>>

\* DELETE /api/v1/scans
AccountCleared ==
  /\ clearing = "account"
  /\ \/ accountCopy' = {} /\ UNCHANGED clearOk
     \/ UNCHANGED accountCopy /\ clearOk' = FALSE
  /\ clearing' = "done"
  /\ UNCHANGED <<signedIn, sessionCopy, records, posts, localCopy, events, storageFires, dashList, copyRead, accountRead, sourceShown, cleared, pageLoads>>

\* the analyses on the list when everything went are those the clear promised
EndClear ==
  /\ clearing = "done"
  /\ clearing' = "no"
  /\ cleared' = IF clearOk /\ storageFires = FALSE /\ posts = {} /\ localCopy = <<>> THEN cleared \cup {i.of : i \in ToSet(dashList)} ELSE cleared
  /\ dashList' = <<>>
  /\ UNCHANGED <<remoteVars, localCopy, events, storageFires, copyRead, accountRead, sourceShown, clearOk, pageLoads>>

\* the page is loaded again
LoadPage ==
  /\ pageLoads < MaxPageLoads
  /\ pageLoads' = pageLoads + 1
  /\ dashList' = localCopy
  /\ copyRead' = Unread /\ accountRead' = Unread
  /\ events' = {} /\ storageFires' = FALSE /\ sourceShown' = FALSE
  /\ clearing' = "no" /\ UNCHANGED <<clearOk, cleared>>
  /\ UNCHANGED <<remoteVars, localCopy>>

DashPageNext ==
  \/ StorageChanged \/ ServerReads \/ CopyAnswered \/ AccountAnswered
  \/ ClickClear \/ ActivityCleared \/ AccountCleared \/ EndClear \/ LoadPage
  \/ \E a \in DashScan : RecordActivity(a) \/ PostArrives(a) \/ StreamMessage(a)

DashPageSpec == DashPageInit /\ [][DashPageNext]_dashPageVars

-----------------------------------------------------------------------------

\* Limpar reaches the three copies (dashboard.ts 411-418): when each request
\* of a clear succeeded, the page knew of the account and nothing was being
\* recorded meanwhile, no copy keeps what was on the list, so that no later
\* load of the page brings it back.
ClearReachesEveryCopy ==
  \A a \in cleared : LocalId(a) \notin ToSet(localCopy) /\ a \notin sessionCopy \cup accountCopy

\* "A mesma analise aparece em mais de um e nao pode ser listada duas vezes"
\* (dashboard.ts 5-7): no analysis is on the list under two ids.
NoScanListedTwice ==
  \A i, j \in ToSet(dashList) : i.of = j.of => i = j
=============================================================================

------------------------------ MODULE JourneyRun ------------------------------
(* One declarative journey from its file to its report: parseJourney          *)
(* (journey.ts), the browser around it (journey-cli.ts) and the steps with    *)
(* their screenshots (journey-runner.ts), while an abort closes the browser   *)
(* and any call on the page may fail.  A step is what the code distinguishes  *)
(* of it.                                                                     *)
EXTENDS Naturals, Sequences, FiniteSets, SequencesExt

CONSTANTS Selector, MaxSteps

ASSUME JourneyRunAssumption == MaxSteps \in Nat

Actions == {"goto", "click", "fill", "select", "waitFor", "assertVisible", "assertText"}
Sources == {"value", "env", "input"}

RawStep ==
       [action : {"goto"}, known : BOOLEAN]
  \cup [action : {"click"}, known : {TRUE}, destructive : BOOLEAN, allowed : BOOLEAN]
  \cup [action : {"fill"}, known : {TRUE}, selector : Selector, from : SUBSET Sources]
  \cup [action : {"assertText", "apiRequest"}, known : {TRUE}]

VARIABLES
  raw,        \* steps of the file
  runPhase,   \* what the run awaits
  at,         \* the step it is at
  browser,    \* "none", "open" or "closed"
  aborted,    \* the signal
  routed,     \* the navigation guard is installed
  filled,     \* selectors a secret was typed into
  secretSel,  \* secretSelectors
  results,    \* status of the steps so far
  exposed,    \* history: a screenshot showed a secret
  saved       \* journey-report.json: "none", "passed" or "failed"

runVars == <<raw, runPhase, at, browser, aborted, routed, filled, secretSel, results, exposed, saved>>

RunInit ==
  /\ raw \in BoundedSeq(RawStep, MaxSteps)
  /\ runPhase = "loaded" /\ at = 0 /\ browser = "none" /\ aborted = FALSE /\ routed = FALSE
  /\ filled = {} /\ secretSel = {} /\ results = <<>> /\ exposed = FALSE /\ saved = "none"

RunTo(p) == runPhase' = p

-----------------------------------------------------------------------------
\* parseStep: known fields, an action of the list, no destructive selector
\* without permission, and one source for a value.
Accepted(step) ==
  /\ step.known /\ step.action \in Actions
  /\ step.action = "click" => ~step.destructive \/ step.allowed
  /\ step.action = "fill" => Cardinality(step.from) = 1

AcceptedJourney == Len(raw) > 0 /\ \A n \in 1..Len(raw) : Accepted(raw[n])

IsSecret(step) == step.action = "fill" /\ step.from # {"value"}

\* runJourneyDefinition asks the signal, then makes the directory.
Begin ==
  /\ runPhase = "loaded"
  /\ RunTo(IF aborted THEN "over" ELSE "launching")
  /\ UNCHANGED <<raw, at, browser, aborted, routed, filled, secretSel, results, exposed, saved>>

\* The browser is launched before the journey is parsed; whether it was aborted
\* meanwhile is asked once the listener is in place.
Launch ==
  /\ runPhase = "launching"
  /\ \/ browser' = "open" /\ RunTo(IF aborted THEN "closing" ELSE "launched")
     \/ UNCHANGED browser /\ RunTo("over")
  /\ UNCHANGED <<raw, at, aborted, routed, filled, secretSel, results, exposed, saved>>

\* Context, page, network guard; then runJourney parses and routes.
Prepare ==
  /\ runPhase = "launched"
  /\ \/ ~aborted /\ browser = "open" /\ AcceptedJourney /\ routed' = TRUE /\ RunTo("before") /\ at' = 1
     \/ UNCHANGED <<routed, at>> /\ RunTo("closing")
  /\ UNCHANGED <<raw, browser, aborted, filled, secretSel, results, exposed, saved>>

\* captureMasked blurs what secretSelectors names, then takes the picture.
Screenshot == exposed' = (exposed \/ ~(filled \subseteq secretSel))

\* runJourney throws: its guard is removed, and the browser closed.
Throw ==
  /\ routed' = FALSE /\ RunTo("closing")
  /\ UNCHANGED <<at, filled, secretSel, results, exposed>>

BeforeStep ==
  /\ runPhase = "before"
  /\ \/ aborted /\ Throw
     \/ /\ ~aborted /\ browser = "open" /\ Screenshot /\ RunTo("executing")
        /\ UNCHANGED <<at, routed, filled, secretSel, results>>
     \/ RunTo("failing") /\ UNCHANGED <<at, routed, filled, secretSel, results, exposed>>
  /\ UNCHANGED <<raw, browser, aborted, saved>>

\* A failed fill hides nothing.
MaskFilledOnly(ok) == IF ok /\ IsSecret(raw[at]) THEN {raw[at].selector} ELSE {}

\* A secret step's selector is masked from here on, even when the fill failed.
MaskOfStep(ok) == IF IsSecret(raw[at]) THEN {raw[at].selector} ELSE {}

\* executeStep: goto leaves the page; a fill may have typed before it failed.
Execute ==
  /\ runPhase = "executing"
  /\ \/ /\ browser = "open"
        /\ filled' = IF raw[at].action = "goto" THEN {}
                     ELSE filled \cup (IF IsSecret(raw[at]) THEN {raw[at].selector} ELSE {})
        /\ secretSel' = secretSel \cup MaskOfStep(TRUE)
        /\ RunTo("after")
     \/ /\ \/ IsSecret(raw[at]) /\ filled' = filled \cup {raw[at].selector}
           \/ UNCHANGED filled
        /\ RunTo("failing") /\ UNCHANGED secretSel
  /\ UNCHANGED <<raw, at, browser, aborted, routed, results, exposed, saved>>

AfterStep ==
  /\ runPhase = "after"
  /\ \/ browser = "open" /\ Screenshot /\ RunTo("passing")
     \/ UNCHANGED exposed /\ RunTo("failing")
  /\ UNCHANGED <<raw, at, browser, aborted, routed, filled, secretSel, results, saved>>

\* The second throwIfAborted, the result, the next step or the report.
StepPassed ==
  /\ runPhase = "passing"
  /\ IF aborted THEN RunTo("failing") /\ UNCHANGED <<at, routed, results>>
     ELSE /\ results' = Append(results, "passed")
          /\ IF at < Len(raw) THEN at' = at + 1 /\ RunTo("before") /\ UNCHANGED routed
             ELSE UNCHANGED at /\ routed' = FALSE /\ RunTo("saving")
  /\ UNCHANGED <<raw, browser, aborted, filled, secretSel, exposed, saved>>

\* catch: an abort is thrown on; a failure is captured if it can be.
StepFailed ==
  /\ runPhase = "failing"
  /\ \/ aborted /\ Throw
     \/ /\ ~aborted
        /\ secretSel' = secretSel \cup MaskOfStep(FALSE)
        /\ \/ exposed' = (exposed \/ ~(filled \subseteq secretSel'))
           \/ UNCHANGED exposed
        /\ results' = Append(results, "failed")
        /\ routed' = FALSE /\ RunTo("saving")
        /\ UNCHANGED <<at, filled>>
  /\ UNCHANGED <<raw, browser, aborted, saved>>

\* The context closed, the video renamed, the report written; or one throws.
Save ==
  /\ runPhase = "saving" /\ RunTo("closing")
  /\ \/ saved' = IF "failed" \in Range(results) THEN "failed" ELSE "passed"
     \/ UNCHANGED saved
  /\ UNCHANGED <<raw, at, browser, aborted, routed, filled, secretSel, results, exposed>>

\* Closed only when the report was written.
CloseWhenSaved == IF saved # "none" THEN "closed" ELSE browser

CloseBrowser == "closed"

Finally ==
  /\ runPhase = "closing" /\ RunTo("over")
  /\ browser' = CloseBrowser
  /\ UNCHANGED <<raw, at, aborted, routed, filled, secretSel, results, exposed, saved>>

\* The listener only exists between the launch and the end: before it, nothing
\* but the signal changes.
AbortJourney ==
  /\ ~aborted /\ aborted' = TRUE
  /\ browser' = IF browser = "open" /\ runPhase # "over" THEN "closed" ELSE browser
  /\ UNCHANGED <<raw, runPhase, at, routed, filled, secretSel, results, exposed, saved>>

RunNext ==
  \/ Begin \/ Launch \/ Prepare \/ BeforeStep \/ Execute \/ AfterStep \/ StepPassed \/ StepFailed
  \/ Save \/ Finally \/ AbortJourney

RunSpec == RunInit /\ [][RunNext]_runVars

-----------------------------------------------------------------------------

\* No screenshot shows a field a secret was typed into, whatever failed; the
\* report says passed only when every step of the file ran and passed; and an
\* ended run leaves neither a browser nor a guard behind.
JourneyReportIsSound ==
  /\ ~exposed
  /\ saved = "passed" => Len(results) = Len(raw) /\ Range(results) = {"passed"}
  /\ saved = "failed" => results[Len(results)] = "failed"
  /\ runPhase = "over" => browser # "open" /\ ~routed
=============================================================================

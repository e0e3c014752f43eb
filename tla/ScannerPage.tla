----------------------------- MODULE ScannerPage -----------------------------
(***************************************************************************)
(* The page of the scanner (src/browser/scanner.ts): a submission and the  *)
(* analysis reopened from the history each run their own loop (create,     *)
(* poll, render) over one panel, one cancel button and one list of object  *)
(* URLs.  The server's side of an analysis is external.                    *)
(***************************************************************************)
EXTENDS Integers, FiniteSets, Sequences

CONSTANTS
  PageScan,   \* analyses the page may submit
  Reopened    \* the analysis of ?execucao=, not in PageScan

VARIABLES
  loopAt,     \* where each of the two loops stands
  loopScan,   \* the analysis it follows
  fetched,    \* artifacts its render has fetched
  aliveUrls,  \* object URLs not revoked, all of them in artifactUrls
  panel,      \* what the panel says, and of which analysis
  reportLinks,\* the URLs in #actions
  cancelUi,   \* the cancel button
  currentJobId,
  submitOff,  \* button.disabled
  remoteScan, \* the analyses on the server
  cancelSent, \* cancels not yet answered
  mixed,      \* did one loop begin to render while the other was rendering?
  stranded    \* did the last render revoke the URLs and throw before it wrote links?

scannerVars == <<loopAt, loopScan, fetched, aliveUrls, panel, reportLinks, cancelUi, currentJobId, submitOff, remoteScan, cancelSent, mixed, stranded>>

NoScan == "none"
Loop == {"restore", "submit"}
AnyScan == PageScan \cup {Reopened}

ASSUME ScannerAssumption == NoScan \notin AnyScan

Shows(kind, j) == [kind |-> kind, of |-> j]
Following == {"asking", "sleeping", "artifacts", "history"}

\* the page loads with ?execucao=: restoreExecution starts at once
ScannerInit ==
  /\ loopAt = [l \in Loop |-> IF l = "restore" THEN "asking" ELSE "idle"]
  /\ loopScan = [l \in Loop |-> IF l = "restore" THEN Reopened ELSE NoScan]
  /\ fetched = [l \in Loop |-> 0]
  /\ aliveUrls = {} /\ reportLinks = {} /\ cancelSent = {}
  /\ panel = Shows("loading", Reopened)
  /\ cancelUi = [hidden |-> TRUE, disabled |-> FALSE]
  /\ currentJobId = NoScan
  /\ submitOff = FALSE /\ mixed = FALSE /\ stranded = FALSE
  /\ remoteScan \in {[j \in AnyScan |-> IF j = Reopened THEN s ELSE "absent"] : s \in {"running", "completed", "expired"}}

\* the submit handler up to its first await; running() clears the panel
SubmitScan ==
  /\ loopAt["submit"] = "idle" /\ ~submitOff
  /\ submitOff' = TRUE
  /\ loopAt' = [loopAt EXCEPT !["submit"] = "posting"]
  /\ panel' = Shows("running", NoScan)
  /\ reportLinks' = {} /\ stranded' = FALSE
  /\ cancelUi' = [hidden |-> TRUE, disabled |-> FALSE]
  /\ UNCHANGED <<loopScan, fetched, aliveUrls, currentJobId, remoteScan, cancelSent, mixed>>

\* a plausible bug: the finally block of the handler is run only by a failure
AfterFailure(l, failed) == l = "submit" /\ failed

RestoresForm(l, failed) == l = "submit"

\* the loop ends: the catch block writes the failure, finally restores the form
EndLoop(l, failed) ==
  /\ panel' = IF failed THEN Shows("failed", loopScan[l]) ELSE panel
  /\ IF RestoresForm(l, failed)
     THEN /\ currentJobId' = NoScan
          /\ cancelUi' = [cancelUi EXCEPT !.hidden = TRUE]
          /\ submitOff' = FALSE
     ELSE UNCHANGED <<currentJobId, cancelUi, submitOff>>
  /\ loopAt' = [loopAt EXCEPT ![l] = IF l = "submit" THEN "idle" ELSE "over"]

\* POST /api/scans answered: the analysis exists and the page follows it
ScanAccepted(j) ==
  /\ loopAt["submit"] = "posting" /\ remoteScan[j] = "absent"
  /\ remoteScan' = [remoteScan EXCEPT ![j] = "running"]
  /\ loopScan' = [loopScan EXCEPT !["submit"] = j]
  /\ loopAt' = [loopAt EXCEPT !["submit"] = "asking"]
  /\ currentJobId' = j
  /\ cancelUi' = [cancelUi EXCEPT !.hidden = FALSE]
  /\ UNCHANGED <<fetched, aliveUrls, panel, reportLinks, submitOff, cancelSent, mixed, stranded>>

\* it failed, whether or not the server had created the analysis
ScanRefused(j) ==
  /\ loopAt["submit"] = "posting" /\ remoteScan[j] = "absent"
  /\ remoteScan' \in {remoteScan, [remoteScan EXCEPT ![j] = "running"]}
  /\ EndLoop("submit", TRUE)
  /\ UNCHANGED <<loopScan, fetched, aliveUrls, reportLinks, cancelSent, mixed, stranded>>

\* a 401: signInAndReturn leaves the page once finally has run
LeaveForSignIn ==
  /\ loopAt["submit"] = "posting"
  /\ loopAt' = [l \in Loop |-> "left"]
  /\ submitOff' = FALSE
  /\ cancelUi' = [cancelUi EXCEPT !.hidden = TRUE]
  /\ UNCHANGED <<loopScan, fetched, aliveUrls, panel, reportLinks, currentJobId, remoteScan, cancelSent, mixed, stranded>>

Moves(l, at) == loopAt' = [loopAt EXCEPT ![l] = at]

\* poll reads an analysis that has not ended, and sleeps 800 ms
PollWaits(l) ==
  /\ loopAt[l] = "asking" /\ remoteScan[loopScan[l]] = "running"
  /\ Moves(l, "sleeping")
  /\ UNCHANGED <<loopScan, fetched, aliveUrls, panel, reportLinks, cancelUi, currentJobId, submitOff, remoteScan, cancelSent, mixed, stranded>>

PollAgain(l) ==
  /\ loopAt[l] = "sleeping"
  /\ Moves(l, "asking")
  /\ UNCHANGED <<loopScan, fetched, aliveUrls, panel, reportLinks, cancelUi, currentJobId, submitOff, remoteScan, cancelSent, mixed, stranded>>

Rendering(l) == loopAt[l] = "artifacts"

\* render up to its first await: the panel is the analysis's, the cancel button
\* goes and the URLs of the render before are revoked
StartRender(l) ==
  /\ loopAt[l] = "asking" /\ remoteScan[loopScan[l]] = "completed"
  /\ panel' = Shows("result", loopScan[l])
  /\ cancelUi' = [cancelUi EXCEPT !.hidden = TRUE]
  /\ aliveUrls' = {} /\ stranded' = FALSE
  /\ fetched' = [fetched EXCEPT ![l] = 0]
  /\ mixed' = (mixed \/ \E o \in Loop \ {l} : Rendering(o))
  /\ Moves(l, "artifacts")
  /\ UNCHANGED <<loopScan, reportLinks, currentJobId, submitOff, remoteScan, cancelSent>>

\* report.html is fetched as text, the rest become object URLs; the JUnit and
\* SARIF files are fetched as report.json is
Artifacts == <<"report.html", "report.json", "screenshot.png">>
UrlsOf(j, n) == {<<j, Artifacts[i]>> : i \in 2..n}

FetchArtifact(l) ==
  /\ Rendering(l) /\ fetched[l] < Len(Artifacts)
  /\ fetched' = [fetched EXCEPT ![l] = @ + 1]
  /\ aliveUrls' = aliveUrls \cup (UrlsOf(loopScan[l], fetched[l] + 1) \ UrlsOf(loopScan[l], fetched[l]))
  /\ UNCHANGED <<loopAt, loopScan, panel, reportLinks, cancelUi, currentJobId, submitOff, remoteScan, cancelSent, mixed, stranded>>

\* the last artifact is in (screenshot.png only when there is one): the links
\* are written, and the history of the project is read next when there is one
WriteLinks(l) ==
  /\ Rendering(l) /\ fetched[l] \in {Len(Artifacts) - 1, Len(Artifacts)}
  /\ reportLinks' = UrlsOf(loopScan[l], fetched[l]) \cup {<<loopScan[l], "report">>}
  /\ aliveUrls' = aliveUrls \cup {<<loopScan[l], "report">>}
  /\ stranded' = FALSE
  /\ \/ Moves(l, "history") /\ UNCHANGED <<panel, cancelUi, currentJobId, submitOff>>
     \/ EndLoop(l, FALSE)
  /\ UNCHANGED <<loopScan, fetched, remoteScan, cancelSent, mixed>>

\* loadHistory catches its own failures
HistoryAnswered(l) ==
  /\ loopAt[l] = "history"
  /\ EndLoop(l, FALSE)
  /\ UNCHANGED <<loopScan, fetched, aliveUrls, reportLinks, remoteScan, cancelSent, mixed, stranded>>

\* poll or an artifact throws: a bad answer, or an analysis that did not
\* complete.  A render that throws has revoked the URLs and written no links.
LoopFails(l) ==
  /\ loopAt[l] \in {"asking", "artifacts"}
  /\ stranded' = (stranded \/ Rendering(l))
  /\ EndLoop(l, TRUE)
  /\ UNCHANGED <<loopScan, fetched, aliveUrls, reportLinks, remoteScan, cancelSent, mixed>>

ClickCancel ==
  /\ ~cancelUi.hidden /\ ~cancelUi.disabled /\ currentJobId # NoScan
  /\ cancelUi' = [cancelUi EXCEPT !.disabled = TRUE]
  /\ cancelSent' = cancelSent \cup {currentJobId}
  /\ UNCHANGED <<loopAt, loopScan, fetched, aliveUrls, panel, reportLinks, currentJobId, submitOff, remoteScan, mixed, stranded>>

\* the cancel is answered; a refusal gives the button back
CancelAnswered(j, ok) ==
  /\ j \in cancelSent
  /\ cancelSent' = cancelSent \ {j}
  /\ remoteScan' = IF ok /\ remoteScan[j] = "running" THEN [remoteScan EXCEPT ![j] = "cancelled"] ELSE remoteScan
  /\ cancelUi' = IF ok THEN cancelUi ELSE [cancelUi EXCEPT !.disabled = FALSE]
  /\ UNCHANGED <<loopAt, loopScan, fetched, aliveUrls, panel, reportLinks, currentJobId, submitOff, mixed, stranded>>

\* external: the server ends the analysis
RemoteEnds(j) ==
  /\ remoteScan[j] = "running"
  /\ \E s \in {"completed", "failed"} : remoteScan' = [remoteScan EXCEPT ![j] = s]
  /\ UNCHANGED <<loopAt, loopScan, fetched, aliveUrls, panel, reportLinks, cancelUi, currentJobId, submitOff, cancelSent, mixed, stranded>>

OnPage == loopAt["submit"] # "left"

ScannerNext ==
  /\ OnPage
  /\ \/ SubmitScan \/ LeaveForSignIn \/ ClickCancel
     \/ \E j \in PageScan : ScanAccepted(j) \/ ScanRefused(j) \/ \E ok \in BOOLEAN : CancelAnswered(j, ok)
     \/ \E l \in Loop : PollWaits(l) \/ PollAgain(l) \/ StartRender(l) \/ FetchArtifact(l) \/ WriteLinks(l) \/ HistoryAnswered(l) \/ LoopFails(l)
     \/ \E j \in AnyScan : RemoteEnds(j)

ScannerSpec == ScannerInit /\ [][ScannerNext]_scannerVars

-----------------------------------------------------------------------------

\* The form follows the run it started: the submit button is off exactly while
\* the handler runs, currentJobId names the analysis the handler follows and no
\* other, and a cancel button that shows has an analysis to cancel
\* (scanner.ts 424, 445-446, 467-477).
FormFollowsTheRun ==
  OnPage =>
    /\ submitOff <=> loopAt["submit"] # "idle"
    /\ currentJobId # NoScan <=> loopAt["submit"] \in Following
    /\ currentJobId # NoScan => currentJobId = loopScan["submit"]
    /\ ~cancelUi.hidden => currentJobId # NoScan

\* When nothing is in flight the panel says how a run ended, never that one is
\* running or loading (the comments at scanner.ts 387-389 and 457-459).  Every
\* link on the page still opens, beside a failure too, unless two renders
\* overlapped or the last one threw once it had revoked the URLs of the links
\* that stay (318-325): then the panel says that it failed, never a result.
RestMeansAnswered ==
  /\ (loopAt["submit"] = "idle" /\ loopAt["restore"] = "over") => panel.kind \in {"result", "failed"}
  /\ ~mixed /\ (\A l \in Loop : ~Rendering(l)) => reportLinks \subseteq aliveUrls \/ (stranded /\ panel.kind = "failed")

\* Not so: a render that throws leaves the links of an earlier one, whose URLs
\* it has revoked.
EveryLinkOpens == ~mixed /\ (\A l \in Loop : ~Rendering(l)) => reportLinks \subseteq aliveUrls

ScannerPageIsSound == FormFollowsTheRun /\ RestMeansAnswered

=============================================================================

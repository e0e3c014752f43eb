---------------------------- MODULE CodeExecution ----------------------------
(* POST /api/code-execution (routes/code-execution.ts) with several requests *)
(* in progress: the check of the exclusive flag, the awaits that separate it *)
(* from the flag being set, the run, the report, and what is undone when one *)
(* of these fails.  An action is what happens between two awaits.            *)
(* Below it, the evidence an execution leaves.                              *)
EXTENDS Naturals, FiniteSets, SequencesExt

CONSTANTS Execution,     \* requests; each names the execution it may create
          Local,         \* those that come from the machine itself
          HostedRunner   \* config.hostedCodeRunner is set

ASSUME CodeExecutionAssumption == Local \subseteq Execution /\ HostedRunner \in BOOLEAN

VARIABLES
  execPhase,   \* what each request awaits
  execAnswer,  \* what it was answered
  execActive,  \* CodeExecutionJobStore: the flag
  execJob,     \* CodeExecutionJobStore: the executions remembered
  execDir,     \* code-<id>: "none", "sources" or "report"
  execRow,     \* code_executions
  execTimer    \* executions whose expiry is armed

execVars == <<execPhase, execAnswer, execActive, execJob, execDir, execRow, execTimer>>

Started == {"writing", "running", "reporting", "inserting"}

CodeInit ==
  /\ execPhase = [x \in Execution |-> "idle"]
  /\ execAnswer = [x \in Execution |-> "none"]
  /\ execActive = FALSE
  /\ execJob = {}
  /\ execDir = [x \in Execution |-> "none"]
  /\ execRow = {}
  /\ execTimer = {}

Awaits(x, p) == execPhase' = [execPhase EXCEPT ![x] = p]
Answers(x, a) == Awaits(x, "done") /\ execAnswer' = [execAnswer EXCEPT ![x] = a]

\* requireCodeModeCreation: a request from elsewhere awaits its account.
CodeArrive(x) ==
  /\ execPhase[x] = "idle"
  /\ Awaits(x, "gate")
  /\ UNCHANGED <<execAnswer, execActive, execJob, execDir, execRow, execTimer>>

\* The gate, the rate limit and the flag; an open gate and a free flag lead on
\* to the body, the account and the application.
PassGate(x) ==
  /\ execPhase[x] = "gate"
  /\ \/ Answers(x, "refused")
     \/ execActive /\ Answers(x, "inUse")
     \/ ~execActive /\ Awaits(x, "preparing") /\ UNCHANGED execAnswer
  /\ UNCHANGED <<execActive, execJob, execDir, execRow, execTimer>>

\* A bad body, a refused import, a missing runner or a foreign application.
RefuseBody(x) ==
  /\ execPhase[x] = "preparing"
  /\ Answers(x, "refused")
  /\ UNCHANGED <<execActive, execJob, execDir, execRow, execTimer>>

\* The last await is over: the flag is set without being read again.
StartExecution(x) ==
  /\ execPhase[x] = "preparing"
  /\ x \in Local \/ HostedRunner
  /\ execActive' = TRUE
  /\ Awaits(x, "writing")
  /\ UNCHANGED <<execAnswer, execJob, execDir, execRow, execTimer>>

\* The directory and the sources; some of them may be written when one fails.
WriteSources(x) ==
  /\ execPhase[x] = "writing"
  /\ execDir' = [execDir EXCEPT ![x] = "sources"]
  /\ Awaits(x, "running")
  /\ UNCHANGED <<execAnswer, execActive, execJob, execRow, execTimer>>

\* The runner answered; the execution is remembered before its report is written.
RunnerReturns(x) ==
  /\ execPhase[x] = "running"
  /\ execJob' = execJob \cup {x}
  /\ Awaits(x, "reporting")
  /\ UNCHANGED <<execAnswer, execActive, execDir, execRow, execTimer>>

WriteReport(x) ==
  /\ execPhase[x] = "reporting"
  /\ execDir' = [execDir EXCEPT ![x] = "report"]
  /\ Awaits(x, "inserting")
  /\ UNCHANGED <<execAnswer, execActive, execJob, execRow, execTimer>>

\* The flag stays up when a step throws.
FinishOnSuccessOnly(x, ok) == execActive' = IF ok THEN FALSE ELSE execActive

\* finally: the flag comes down whoever set it.
FinishFlag(x, ok) == execActive' = FALSE

\* The row is a best effort; then the expiry is armed and the client answered.
InsertAndAnswer(x) ==
  /\ execPhase[x] = "inserting"
  /\ \/ execRow' = execRow \cup {x}
     \/ UNCHANGED execRow
  /\ execTimer' = execTimer \cup {x}
  /\ FinishFlag(x, TRUE)
  /\ Answers(x, "ran")
  /\ UNCHANGED <<execJob, execDir>>

\* A write or the runner throws, its deadline included.
ExecutionThrows(x) ==
  /\ execPhase[x] \in {"writing", "running", "reporting"}
  /\ \/ execDir' = [execDir EXCEPT ![x] = "sources"]
     \/ UNCHANGED execDir
  /\ FinishFlag(x, FALSE)
  /\ Awaits(x, "removing")
  /\ UNCHANGED <<execAnswer, execJob, execRow, execTimer>>

\* The directory of a run that failed is kept.
KeepDirectory(x) == UNCHANGED execDir

RemoveDirectory(x) == execDir' = [execDir EXCEPT ![x] = "none"]

\* Not retained: the directory goes.
UndoExecution(x) ==
  /\ execPhase[x] = "removing"
  /\ RemoveDirectory(x)
  /\ Answers(x, "error")
  /\ UNCHANGED <<execActive, execJob, execRow, execTimer>>

\* The timer only removes the directory.
ForgetOnDiskOnly(x) == UNCHANGED execJob

ForgetExecution(x) == execJob' = execJob \ {x}

\* expireCodeExecution: the row stays, for the history.
ExpireExecution(x) ==
  /\ x \in execTimer
  /\ execTimer' = execTimer \ {x}
  /\ ForgetExecution(x)
  /\ RemoveDirectory(x)
  /\ UNCHANGED <<execPhase, execAnswer, execActive, execRow>>

ExecutionStep(x) ==
  \/ PassGate(x) \/ RefuseBody(x) \/ StartExecution(x) \/ WriteSources(x)
  \/ RunnerReturns(x) \/ WriteReport(x) \/ InsertAndAnswer(x)
  \/ ExecutionThrows(x) \/ UndoExecution(x)

CodeNext ==
  \E x \in Execution : CodeArrive(x) \/ ExecutionStep(x) \/ ExpireExecution(x)

CodeSpec == CodeInit /\ [][CodeNext]_execVars

-----------------------------------------------------------------------------

CodeTypeOK ==
  /\ execPhase \in [Execution -> {"idle", "gate", "preparing", "removing", "done"} \cup Started]
  /\ execAnswer \in [Execution -> {"none", "refused", "inUse", "ran", "error"}]
  /\ execActive \in BOOLEAN
  /\ execJob \subseteq Execution /\ execRow \subseteq Execution /\ execTimer \subseteq Execution
  /\ execDir \in [Execution -> {"none", "sources", "report"}]

\* "permite apenas uma execução ativa por vez" (tests/code-execution-job-store).
OneExecutionAtATime == Cardinality({x \in Execution : execPhase[x] \in Started}) <= 1

\* The mode is never locked out: while the flag is up some execution is under
\* way and will bring it down, whatever failed and whoever else set the flag.
FlagBelongsToAnExecution ==
  execActive => \E x \in Execution : execPhase[x] \in Started

\* What the memory answers for can be read: its report is on disk until the
\* moment both are forgotten.  The exception is an execution remembered just
\* before its report could not be written: nothing will ever forget it.
RememberedIsReadable ==
  \A x \in execJob :
    \/ execDir[x] = "report" /\ (execPhase[x] = "done" => x \in execTimer)
    \/ execPhase[x] \in {"reporting", "removing"}
    \/ execAnswer[x] = "error" /\ execDir[x] = "none"
-----------------------------------------------------------------------------
(* The evidence of one execution: the fixtures (code-step-fixtures.ts)       *)
(* number what they capture while the test runs, and codeReportAsJourney     *)
(* (server.ts) later gives the files, in name order, to the steps it reads   *)
(* from the source.  A line of the test is a member of LineKind.             *)

CONSTANT MaxLines  \* bound on the lines of a test

ASSUME CodeEvidenceAssumption == MaxLines \in Nat

LineKind == {
  "action",   \* goto, or click/fill/selectOption on a locator of the page
  "chained",  \* the same on .first(), .nth() or a locator of a locator
  "request",  \* request.get, .post, ...
  "assert",   \* toBeVisible, toHaveText, waitFor
  "other"}    \* press, check, an assignment

VARIABLES
  lines,   \* the test
  line,    \* how many of its lines were carried out
  failed,  \* the line that threw, or 0
  counter, \* stepIndex
  capture, \* files of qa-radar-steps: number -> the line captured
  missed   \* history: some capture failed

evidenceVars == <<lines, line, failed, counter, capture, missed>>

EvidenceInit ==
  /\ lines \in BoundedSeq(LineKind, MaxLines)
  /\ line = 0 /\ failed = 0 /\ counter = 0
  /\ capture = <<>> /\ missed = FALSE

Instrumented(kind) == kind \in {"action", "request"}

\* captureStep / captureApiStep: the directory, the number, then the file.
Capture(n) ==
  \/ /\ counter' = counter + 1 /\ UNCHANGED missed
     /\ capture' = [k \in (DOMAIN capture) \cup {counter} |-> IF k = counter THEN n ELSE capture[k]]
  \/ counter' \in {counter, counter + 1} /\ missed' = TRUE /\ UNCHANGED capture

NoCapture == UNCHANGED <<counter, capture, missed>>

\* A page action is captured whether or not it threw; an answered request is.
RunLine ==
  LET n == line + 1 IN
  /\ line < Len(lines) /\ failed = 0
  /\ line' = n
  /\ \/ failed' = 0 /\ IF Instrumented(lines[n]) THEN Capture(n) ELSE NoCapture
     \/ failed' = n /\ IF lines[n] = "action" THEN Capture(n) ELSE NoCapture
  /\ UNCHANGED lines

EvidenceSpec == EvidenceInit /\ [][RunLine]_evidenceVars

-----------------------------------------------------------------------------
(* codeReportAsJourney                                                        *)

\* The lines one of its patterns recognises: the steps of the report.
ReportedLines == {n \in 1..Len(lines) : lines[n] # "other"}

\* Every step moves to the next file.
AnyKind(kind) == TRUE

\* CAPTURABLE_ACTIONS
Capturable(kind) == kind \in {"action", "chained", "request"}

\* As many files as capturable steps before it are used up.
Cursor(n) == Cardinality({m \in ReportedLines : m < n /\ Capturable(lines[m])})

\* The file a step gets: in the order of their names, the one at the cursor.
FileOf(n) ==
  {k \in DOMAIN capture : /\ Capturable(lines[n])
                          /\ Cardinality({j \in DOMAIN capture : j < k}) = Cursor(n)}

TestEnded == failed # 0 \/ line = Len(lines)
GivenToItsStep == \A n \in ReportedLines : \A k \in FileOf(n) : capture[k] = n

-----------------------------------------------------------------------------

\* "associa cada passo capturado pelo fixture à sua própria screenshot, sem
\* desalinhar" (tests/server.test.ts): each step of the report shows its own
\* capture.
EvidenceOfItsStep == TestEnded => GivenToItsStep

\* Whatever was missed or is not seen by the fixtures, no step shows a page
\* captured before it was carried out.
NoEarlierPicture == TestEnded => \A n \in ReportedLines : \A k \in FileOf(n) : capture[k] >= n

\* The alignment the code does keep: no capture failed, and every action the
\* source reader recognises is one the fixtures see, up to the line that threw.
AlignedWhenAllCaptured ==
  TestEnded /\ ~missed /\ (\A n \in 1..line : lines[n] # "chained") =>
    /\ GivenToItsStep
    /\ \A n \in 1..line : lines[n] = "action" => n \in ReportedLines /\ FileOf(n) # {}
=============================================================================

----------------------------- MODULE MCServices -----------------------------
(***************************************************************************)
(* The services of the server around the analyses, each on its own small   *)
(* instance: they share no variable, so one of them, the focus, takes all  *)
(* the steps of a behaviour.  Where a module starts in many states the     *)
(* others wait in one of them.                                             *)
(***************************************************************************)
EXTENDS Accounts, ChildProcess, CodeExecution, Codegen, DashboardActivity, EgressProxy, ExecutionRetention, HealthCheck, JobTable, JourneyRun, LegacyJourneys, SandboxRunner, SandboxRuntime, ScanFindings, ScanPipeline, SitemapSuite, Timeline, WebhookBins, Workspace

VARIABLE focus

Modules == {
  "accounts", "child", "evidence", "execution", "codegen", "activity", "egress", "retention", "health", "job table", "journey run",
  "journeys", "runner", "runtime", "findings", "pipeline", "suite", "timeline", "bins", "applications", "runs", "settings"}

MCAuthMix ==
  LET mix(a, b, c, d) == ("r1" :> a) @@ ("r2" :> b) @@ ("r3" :> c) @@ ("r4" :> d)
  IN  {mix("register", "reset", "reset", "change"), mix("register", "callback", "login", "callback"),
       mix("register", "verify", "change", "login"), mix("callback", "callback", "change", "callback")}
MCEmailOf == [r \in AuthRequest |-> IF r = "r4" THEN "no email" ELSE "e1"]
MCIdentityOf == [r \in AuthRequest |-> "g"]
MCChildKind == {"playwright", "worker", "cleanup", "command", "proxy", "job"}
MCTaskOwnerOf == ("t1" :> "o1") @@ ("t2" :> "o2")
MCActivityOf == ("c1" :> "a") @@ ("c2" :> "b") @@ ("c3" :> "clear") @@ ("c4" :> "a")
MCStamps == {("a" :> 2) @@ ("b" :> 2), ("a" :> 0) @@ ("b" :> 2), ("a" :> 4) @@ ("b" :> 1)}
MCStored ==
  LET stored(source, mine, ms, frac, outcome) == [source |-> source, mine |-> mine, ms |-> ms, frac |-> frac, outcome |-> outcome]
  IN  {stored("scan", TRUE, 1, 0, "passed"), stored("scan", TRUE, 2, 0, "failed"), stored("api", TRUE, 2, 1, "failed"),
       stored("journey", FALSE, 2, 0, "passed")}
MCPlaceOf == ("map" :> "map") @@ ("more" :> "more") @@ ("page" :> "page") @@ ("page#" :> "page") @@ ("home" :> "home") @@ ("other" :> "other")
MCSites ==
  LET noFile     == [kind |-> "gone"]
      anIndex(s)  == [kind |-> "index", locations |-> s]
      aList(s)   == [kind |-> "pages", locations |-> s]
      leads(p)   == [kind |-> "redirect", to |-> p]
      ofMap   == {anIndex(<<"more", "map">>), anIndex(<<"more", "other", "more", "more", "home">>), aList(<<"page", "page#", "home">>), leads("other"), leads("more"), noFile}
      ofMore  == {aList(<<"page#", "other", "page">>), aList(<<"page", "home", "more">>), anIndex(<<"map", "home">>), leads("map"), leads("other")}
      ofHome  == {aList(<<"page">>), anIndex(<<"more">>), noFile}
      ofOther == {aList(<<"page">>), leads("more")}
  IN {("map" :> a) @@ ("more" :> b) @@ ("home" :> c) @@ ("other" :> d) @@ ("page" :> noFile) : a \in ofMap, b \in ofMore, c \in ofHome, d \in ofOther}

ServicesInit ==
  /\ focus \in Modules
  /\ CodeInit /\ JourneyInit /\ RecInit /\ NetInit /\ FindingsInit /\ PipelineInit /\ DashInit /\ BinsInit
  /\ AuthInit /\ (focus # "accounts" => authKind = CHOOSE m \in AuthMix : TRUE)
  /\ ChildInit /\ (focus # "child" => childKind = "command")
  /\ BoxInit /\ (focus # "runtime" => boxEgress)
  /\ RunnerInit /\ (focus # "runner" => stamp = CHOOSE s \in Stamps : TRUE)
  /\ KeptInit /\ (focus # "retention" => keptRow /\ upload = CHOOSE w \in {v \in [Upload -> {"listing", "free"}] : Cardinality({u \in Upload : v[u] = "listing"}) = 1} : TRUE)
  /\ (focus # "egress" => carrier = CHOOSE f \in [PlainRequest -> Connection] : TRUE)
  /\ HealthInit /\ (focus # "health" => ~allowed)
  /\ TableInit /\ (focus # "job table" => tableKind = "memory" /\ createdAt = [t \in TableJob |-> 1])
  /\ SpaceInit /\ (focus \notin {"applications", "runs", "settings"} => \A a \in Application : apps[a] = NoRow)
  /\ IF focus = "evidence" THEN EvidenceInit
     ELSE lines = <<>> /\ line = 0 /\ failed = 0 /\ counter = 0 /\ capture = <<>> /\ missed = FALSE
  /\ IF focus = "journey run" THEN RunInit
     ELSE /\ raw = <<>> /\ runPhase = "loaded" /\ at = 0 /\ browser = "none" /\ aborted = FALSE /\ routed = FALSE
          /\ filled = {} /\ secretSel = {} /\ results = <<>> /\ exposed = FALSE /\ saved = "none"
  /\ IF focus = "suite" THEN SuiteInit
     ELSE /\ site = [p \in Place |-> [kind |-> "gone"]] /\ options = [publicOnly |-> TRUE, regressionsOnly |-> FALSE, known |-> {}]
          /\ suiteAt = "choosing" /\ pending = <<FirstSitemap>> /\ visited = {} /\ hop = NoHop /\ asked = {} /\ pages = <<>> /\ crowded = FALSE
          /\ reports = <<>> /\ progress = [completed |-> 0, discovered |-> 0] /\ suiteStopped = FALSE /\ passed = FALSE
  /\ IF focus = "timeline" THEN LineInit
     ELSE /\ row = [r \in Row |-> CHOOSE s \in Stored : TRUE] /\ open = {} /\ readAs = [r \in Row |-> NotRead] /\ fate = [r \in Row |-> "stood"] /\ reader = "pages"
          /\ part = [s \in TimelineSource |-> Unread] /\ cursor = NoCursor /\ returned = <<>> /\ walk = "reading"

TheOthersWait ==
  /\ UNCHANGED focus
  /\ IF focus = "accounts" THEN TRUE ELSE UNCHANGED authVars
  /\ IF focus = "child" THEN TRUE ELSE UNCHANGED childVars
  /\ IF focus = "evidence" THEN TRUE ELSE UNCHANGED evidenceVars
  /\ IF focus = "execution" THEN TRUE ELSE UNCHANGED execVars
  /\ IF focus = "codegen" THEN TRUE ELSE UNCHANGED recVars
  /\ IF focus = "activity" THEN TRUE ELSE UNCHANGED dashVars
  /\ IF focus = "egress" THEN TRUE ELSE UNCHANGED netVars
  /\ IF focus = "retention" THEN TRUE ELSE UNCHANGED keptVars
  /\ IF focus = "health" THEN TRUE ELSE UNCHANGED healthVars
  /\ IF focus = "job table" THEN TRUE ELSE UNCHANGED tableVars
  /\ IF focus = "journey run" THEN TRUE ELSE UNCHANGED runVars
  /\ IF focus = "journeys" THEN TRUE ELSE UNCHANGED journeyVars
  /\ IF focus = "runner" THEN TRUE ELSE UNCHANGED runnerVars
  /\ IF focus = "runtime" THEN TRUE ELSE UNCHANGED boxVars
  /\ IF focus = "findings" THEN TRUE ELSE UNCHANGED findingsVars
  /\ IF focus = "pipeline" THEN TRUE ELSE UNCHANGED pipelineVars
  /\ IF focus = "suite" THEN TRUE ELSE UNCHANGED suiteVars
  /\ IF focus = "timeline" THEN TRUE ELSE UNCHANGED lineVars
  /\ IF focus = "bins" THEN TRUE ELSE UNCHANGED binVars
  /\ IF focus \in {"applications", "runs", "settings"} THEN TRUE ELSE UNCHANGED spaceVars

ServicesNext ==
  \/ focus = "accounts" /\ AuthNext /\ TheOthersWait
  \/ focus = "child" /\ ChildNext /\ TheOthersWait
  \/ focus = "evidence" /\ RunLine /\ TheOthersWait
  \/ focus = "execution" /\ CodeNext /\ TheOthersWait
  \/ focus = "codegen" /\ RecNext /\ TheOthersWait
  \/ focus = "activity" /\ DashNext /\ TheOthersWait
  \/ focus = "egress" /\ NetNext /\ TheOthersWait
  \/ focus = "retention" /\ KeptNext /\ TheOthersWait
  \/ focus = "health" /\ HealthNext /\ TheOthersWait
  \/ focus = "job table" /\ TableNext /\ TheOthersWait
  \/ focus = "journey run" /\ RunNext /\ TheOthersWait
  \/ focus = "journeys" /\ JourneyNext /\ TheOthersWait
  \/ focus = "runner" /\ RunnerNext /\ TheOthersWait
  \/ focus = "runtime" /\ BoxNext /\ TheOthersWait
  \/ focus = "findings" /\ NextScan /\ TheOthersWait
  \/ focus = "pipeline" /\ PipelineNext /\ TheOthersWait
  \/ focus = "suite" /\ SuiteNext /\ TheOthersWait
  \/ focus = "timeline" /\ LineNext /\ TheOthersWait
  \/ focus = "bins" /\ BinsNext /\ TheOthersWait
  \/ focus = "applications" /\ (ApplicationStep \/ CollectionStep) /\ TheOthersWait
  \/ focus = "runs" /\ RunStep /\ TheOthersWait
  \/ focus = "settings" /\ SettingStep /\ TheOthersWait

ServicesSpec == ServicesInit /\ [][ServicesNext]_<<focus, authVars, childVars, evidenceVars, execVars, recVars, dashVars, netVars, keptVars,
  healthVars, tableVars, runVars, journeyVars, runnerVars, boxVars, findingsVars, pipelineVars, suiteVars, lineVars, binVars, spaceVars>>

-----------------------------------------------------------------------------
(***************************************************************************)
(* The type invariant of every service, while it is the one that moves.    *)
(***************************************************************************)
ServicesTypeOK ==
  CASE focus = "accounts" -> AuthTypeOK [] focus = "child" -> ChildTypeOK [] focus = "execution" -> CodeTypeOK
    [] focus = "codegen" -> RecTypeOK [] focus = "egress" -> NetTypeOK [] focus = "retention" -> KeptTypeOK
    [] focus = "journeys" -> JourneyTypeOK [] focus = "runner" -> RunnerTypeOK [] focus = "runtime" -> BoxTypeOK
    [] OTHER -> TRUE

(***************************************************************************)
(* What the three features that run on this machine promise: the flag of   *)
(* the code runner is held by an execution that is under way, and what is  *)
(* remembered of an execution can be read (CodeExecution); a recording     *)
(* holds its slot exactly as long as its process lives (Codegen); and a    *)
(* journey somebody cancelled ends as cancelled, never as completed        *)
(* (LegacyJourneys).                                                       *)
(***************************************************************************)
LocalRunsAreSound ==
  CASE focus = "execution" -> FlagBelongsToAnExecution /\ RememberedIsReadable
    [] focus = "codegen" -> SlotFollowsProcess
    [] focus = "journeys" -> CancelledJourneyEndsCancelled
    [] OTHER -> TRUE

(***************************************************************************)
(* Every slot of the hosted runner is a sandbox under way                  *)
(* (sandbox-runner.ts), and the proxy of a sandbox counts the connections  *)
(* that are open and passes none beyond its limits                         *)
(* (sandbox-egress-proxy.ts).                                              *)
(***************************************************************************)
SandboxKeepsItsLimits == (focus = "runner" => SlotsMatchSandboxes) /\ (focus = "egress" => EgressWithinLimits)

(***************************************************************************)
(* A promise about a child process settles only once nothing of it is left *)
(* (code-execution.ts, code-worker-client.ts), and a sandbox that ended     *)
(* left no container or volume that its own report does not name           *)
(* (sandbox-runtime.ts).                                                   *)
(***************************************************************************)
NothingLeftRunning == (focus = "child" => SettledLeavesNothing) /\ (focus = "runtime" => NothingLeftBehind)

(***************************************************************************)
(* An address has one account and a callback signs in the account of its   *)
(* identity or address; a link works once, and a new password ends the     *)
(* sessions that were open before (routes/auth.ts, identity.ts).           *)
(***************************************************************************)
AccountsAreSound == focus = "accounts" => OneAccountPerPerson /\ PasswordChangeEndsSessions

(***************************************************************************)
(* What is kept of an execution: nothing answers for it once it was erased *)
(* (ExecutionRetention), no step shows a file of evidence made before it,  *)
(* and each file is on its own step when every step left one               *)
(* (CodeExecution), and a journey's report has a result for each step,     *)
(* hides what a secret filled and leaves no browser open, whenever it was  *)
(* aborted (JourneyRun).  An object sent while its execution was being     *)
(* erased is left behind: nothing names it any more.                       *)
(***************************************************************************)
EvidenceIsSound ==
  CASE focus = "retention" -> ErasedIsGone
    [] focus = "evidence" -> NoEarlierPicture /\ AlignedWhenAllCaptured
    [] focus = "journey run" -> JourneyReportIsSound
    [] OTHER -> TRUE

(***************************************************************************)
(* The verdict of an analysis: no address loses its finding, the counts    *)
(* and the gate are of the findings reported (ScanFindings), whatever an   *)
(* analysis is compared with is one whole promoted run however analyses of *)
(* one project end together or die (ScanPipeline), an analysis of a sitemap has each of its pages once and *)
(* passes only if they do (SitemapSuite), and instances that share the     *)
(* table run and end an analysis once (JobTable).                          *)
(***************************************************************************)
ScanVerdictIsSound ==
  CASE focus = "findings" -> FindingsAreSound
    [] focus = "pipeline" -> BaselineIsSound
    [] focus = "suite" -> SuiteIsSound
    [] focus = "job table" -> JobTableIsSound
    [] OTHER -> TRUE

(***************************************************************************)
(* The history read page by page has every row it owes in its order        *)
(* (Timeline), and the activity of the panel is what was posted after the  *)
(* last time it was erased (DashboardActivity).                            *)
(***************************************************************************)
HistoryIsSound == (focus = "timeline" => WalkIsSound) /\ (focus = "activity" => ActivityIsSound)

(***************************************************************************)
(* The two tools that need the server: boxes of webhooks and the limiter   *)
(* keep to their limits and no living call is dropped but by age           *)
(* (WebhookBins), and a health report answers for each endpoint asked,     *)
(* through the network policy (HealthCheck).                               *)
(***************************************************************************)
ToolboxServicesAreSound == BinsStaySound /\ [](focus = "health" => HealthReportIsSound)
=============================================================================

---------------------------- MODULE PagesProofs -----------------------------
(* What TLAPS proves of the pages of the browser, for every number of        *)
(* analyses, filters, applications, saved requests, boxes and reads out:     *)
(* that each page keeps its word whatever order its answers come in, and     *)
(* that the pages open together do.  And of the two generators of test cases *)
(* of the toolbox page, for every number of parameters and values and for    *)
(* every limits: that the cases they write are those the technique asks for. *)
EXTENDS OpenPages, CaseDesign, FiniteSetTheorems, SequenceTheorems, TLAPS

-----------------------------------------------------------------------------
(* The scanner                                                               *)

RestoreAt == {"asking", "sleeping", "artifacts", "history", "over"}
SubmitAt == {"idle", "posting", "asking", "sleeping", "artifacts", "history"}
Settled == panel.kind \in {"result", "failed"}

ScannerTypeOK ==
  /\ loopAt \in [Loop -> RestoreAt \cup SubmitAt \cup {"left"}]
  /\ OnPage => loopAt["restore"] \in RestoreAt /\ loopAt["submit"] \in SubmitAt
  /\ loopScan \in [Loop -> AnyScan \cup {NoScan}]
  /\ fetched \in [Loop -> Nat]
  /\ cancelUi \in [hidden : BOOLEAN, disabled : BOOLEAN]
  /\ submitOff \in BOOLEAN /\ mixed \in BOOLEAN /\ stranded \in BOOLEAN

\* A loop that began to render has put its result on the panel, and what
\* replaces it there is a failure or another submission.
PanelIsSettled ==
  /\ loopAt["submit"] \in {"artifacts", "history"} => Settled
  /\ loopAt["submit"] = "idle" /\ loopAt["restore"] \in {"artifacts", "history", "over"} => Settled

\* The URLs a render fetched are alive until another render begins; a
\* submission took the links away, and they come back when a render ends.
UrlsAreAlive ==
  /\ \A l \in Loop : ~mixed /\ Rendering(l) => UrlsOf(loopScan[l], fetched[l]) \subseteq aliveUrls
  /\ loopAt["submit"] = "posting" /\ loopAt["restore"] \in {"asking", "sleeping", "artifacts"} => reportLinks = {}

ScannerInv == ScannerTypeOK /\ PanelIsSettled /\ UrlsAreAlive /\ ScannerPageIsSound

\* Holds at first: what the panel, the form and the files of the scanner are.
LEMMA ScannerStarts == ScannerInit => ScannerInv
PROOF
  <1> SUFFICES ASSUME ScannerInit PROVE ScannerInv
    OBVIOUS
  <1>1. loopAt \in [Loop -> RestoreAt \cup SubmitAt] /\ loopAt["restore"] = "asking" /\ loopAt["submit"] = "idle"
    BY DEF ScannerInit, Loop, RestoreAt, SubmitAt
  <1>2. loopScan \in [Loop -> AnyScan \cup {NoScan}] /\ fetched \in [Loop -> Nat]
    BY DEF ScannerInit, AnyScan
  <1>3. ScannerTypeOK
    BY <1>1, <1>2 DEF ScannerInit, ScannerTypeOK, RestoreAt, SubmitAt
  <1>4. PanelIsSettled /\ UrlsAreAlive
    BY <1>1 DEF ScannerInit, PanelIsSettled, UrlsAreAlive, Rendering, Loop
  <1>5. ScannerPageIsSound
    BY <1>1 DEF ScannerInit, ScannerPageIsSound, FormFollowsTheRun, RestMeansAnswered, Shows, Following
  <1> QED BY <1>3, <1>4, <1>5 DEF ScannerInv

\* Where nothing ends, the steps of a loop keep the panel and the form.
LEMMA LoopStepsKeepTheScanner ==
  ASSUME ScannerInv, OnPage, NEW l \in Loop,
         PollWaits(l) \/ PollAgain(l) \/ StartRender(l) \/ FetchArtifact(l)
  PROVE  ScannerInv'
PROOF
  <1> USE DEF ScannerInv, ScannerTypeOK, PanelIsSettled, ScannerPageIsSound, FormFollowsTheRun, RestMeansAnswered,
              RestoreAt, SubmitAt, Loop, OnPage, Rendering, Shows, Following, Moves, Settled
  <1>1. CASE PollWaits(l)
    BY <1>1 DEF PollWaits, UrlsAreAlive
  <1>2. CASE PollAgain(l)
    BY <1>2 DEF PollAgain, UrlsAreAlive
  <1>3. CASE StartRender(l)
    <2>1. UrlsOf(loopScan[l], 0) = {}
      BY DEF UrlsOf
    <2>2. UrlsAreAlive'
      BY <1>3, <2>1 DEF StartRender, UrlsAreAlive
    <2> QED BY <1>3, <2>2 DEF StartRender
  <1>4. CASE FetchArtifact(l)
    BY <1>4 DEF FetchArtifact, UrlsAreAlive
  <1> QED BY <1>1, <1>2, <1>3, <1>4

\* The steps that end a render or a loop keep the panel and the form.
LEMMA EndsKeepTheScanner ==
  ASSUME ScannerInv, OnPage, NEW l \in Loop,
         WriteLinks(l) \/ HistoryAnswered(l) \/ LoopFails(l)
  PROVE  ScannerInv'
PROOF
  <1> USE DEF ScannerInv, ScannerTypeOK, PanelIsSettled, ScannerPageIsSound, FormFollowsTheRun, RestMeansAnswered,
              RestoreAt, SubmitAt, Loop, OnPage, Rendering, Shows, Following, Moves, Settled, EndLoop, RestoresForm, UrlsAreAlive
  <1>1. CASE WriteLinks(l)
    <2>1. UNCHANGED <<loopScan, fetched, mixed, panel>> /\ aliveUrls' = aliveUrls \cup {<<loopScan[l], "report">>}
      BY <1>1 DEF WriteLinks
    <2>2. reportLinks' = UrlsOf(loopScan[l], fetched[l]) \cup {<<loopScan[l], "report">>}
      BY <1>1 DEF WriteLinks
    <2>3. ~mixed => reportLinks' \subseteq aliveUrls'
      BY <1>1, <2>1, <2>2 DEF WriteLinks
    <2>4. loopAt' \in [Loop -> RestoreAt \cup SubmitAt \cup {"left"}] /\ \A o \in Loop : loopAt'[o] = loopAt[o] \/ (o = l /\ loopAt'[o] \in {"history", "idle", "over"})
      BY <1>1 DEF WriteLinks
    <2>5. UrlsAreAlive'
      BY <1>1, <2>1, <2>4 DEF WriteLinks
    <2>6. RestMeansAnswered'
      BY <1>1, <2>1, <2>3, <2>4 DEF WriteLinks
    <2>7. PanelIsSettled'
      BY <1>1, <2>1 DEF WriteLinks
    <2>8. FormFollowsTheRun' /\ ScannerTypeOK'
      <3>1. CASE Moves(l, "history") /\ UNCHANGED <<panel, cancelUi, currentJobId, submitOff>>
        BY <1>1, <3>1 DEF WriteLinks
      <3>2. CASE EndLoop(l, FALSE)
        BY <1>1, <3>2 DEF WriteLinks
      <3> QED BY <1>1, <3>1, <3>2 DEF WriteLinks
    <2> QED BY <2>5, <2>6, <2>7, <2>8
  <1>2. CASE HistoryAnswered(l)
    BY <1>2 DEF HistoryAnswered
  <1>3. CASE LoopFails(l)
    BY <1>3 DEF LoopFails
  <1> QED BY <1>1, <1>2, <1>3

\* No step breaks what the panel, the form and the files of the scanner are.
LEMMA ScannerStep ==
  ASSUME ScannerInv, [ScannerNext]_scannerVars
  PROVE  ScannerInv'
PROOF
  <1> USE DEF ScannerInv, ScannerTypeOK, PanelIsSettled, ScannerPageIsSound, FormFollowsTheRun, RestMeansAnswered,
              RestoreAt, SubmitAt, Loop, OnPage, Rendering, Shows, Following, Moves, Settled, UrlsAreAlive
  <1>1. CASE UNCHANGED scannerVars
    BY <1>1 DEF scannerVars
  <1>2. CASE OnPage /\ SubmitScan
    BY <1>2 DEF SubmitScan
  <1>3. CASE OnPage /\ LeaveForSignIn
    BY <1>3 DEF LeaveForSignIn
  <1>4. CASE OnPage /\ ClickCancel
    BY <1>4 DEF ClickCancel
  <1>5. ASSUME OnPage, NEW j \in PageScan, ScanAccepted(j)
        PROVE  ScannerInv'
    BY <1>5, ScannerAssumption DEF ScanAccepted, AnyScan
  <1>6. ASSUME OnPage, NEW j \in PageScan, ScanRefused(j)
        PROVE  ScannerInv'
    BY <1>6 DEF ScanRefused, EndLoop, RestoresForm
  <1>7. ASSUME OnPage, NEW j \in PageScan, NEW ok \in BOOLEAN, CancelAnswered(j, ok)
        PROVE  ScannerInv'
    BY <1>7 DEF CancelAnswered
  <1>8. ASSUME OnPage, NEW j \in AnyScan, RemoteEnds(j)
        PROVE  ScannerInv'
    BY <1>8 DEF RemoteEnds
  <1> QED BY <1>1, <1>2, <1>3, <1>4, <1>5, <1>6, <1>7, <1>8, LoopStepsKeepTheScanner, EndsKeepTheScanner DEF ScannerNext

\* The form of the scanner follows the run it started, its cancel button names
\* no other, and at rest the panel says how the run ended; every link on the
\* page opens, unless two renders overlapped or the last one threw after it had
\* revoked the URLs, and then the panel says that it failed
\* (browser/scanner.ts).
THEOREM ScannerFollowsItsRun == ScannerSpec => []ScannerPageIsSound
PROOF
  <1>1. ScannerInv => ScannerPageIsSound
    BY DEF ScannerInv
  <1> QED BY <1>1, ScannerStarts, ScannerStep, PTL DEF ScannerSpec
-----------------------------------------------------------------------------
(* The pages that list executions                                            *)

Load == [n : Nat, append : BOOLEAN, filter : PageFilter, page : Nat]
Painted == [filter : PageFilter, page : Nat]

AccountTypeOK ==
  /\ chosen \in PageFilter /\ loading \in BOOLEAN /\ unserved \in BOOLEAN
  /\ loads \subseteq Load /\ sentLoads \in Nat
  /\ loaded \in Seq(Painted) /\ listCursor \in Nat

\* One request at a time; unless a filter was not served it is of the filters
\* on the screen, and one that appends goes on where the list ends.
LoadsFollowTheFilter ==
  /\ \A r, s \in loads : r = s
  /\ ~loading => loads = {}
  /\ \A r \in loads :
       ~unserved => /\ r.filter = chosen
                    /\ ~r.append => r.page = 1
                    /\ r.append => loaded # <<>> /\ r.page = Len(loaded) + 1

\* The list is of the filters on the screen also while one more page of it is
\* asked for.
ListFollowsTheFilter ==
  /\ opened # "left" /\ ~unserved /\ loaded # <<>> /\ (\A r \in loads : r.append) =>
       /\ \A i \in DOMAIN loaded : loaded[i] = [filter |-> chosen, page |-> i]
       /\ listCursor # 0 => listCursor = Len(loaded) + 1
  /\ listCursor # 0 => loaded # <<>>

AccountPagesInv == AccountTypeOK /\ LoadsFollowTheFilter /\ ListFollowsTheFilter

\* A load of other filters begins, or is given up because one is on.
LEMMA LoadOfFilterKeepsTheList ==
  ASSUME AccountPagesInv, NEW f \in PageFilter, chosen' = f, StartLoad(FALSE, f),
         UNCHANGED <<loaded, listCursor>>
  PROVE  AccountPagesInv'
PROOF
  <1> USE DEF AccountPagesInv, AccountTypeOK
  <1>1. CASE MayLoad
    <2> DEFINE r == [n |-> sentLoads, append |-> FALSE, filter |-> f, page |-> 1]
    <2>1. loads' = {r} /\ loading' = TRUE /\ unserved' = FALSE /\ sentLoads' = sentLoads + 1
      BY <1>1 DEF StartLoad, MayLoad, LoadsFollowTheFilter
    <2>2. r \in Load /\ r.append = FALSE /\ r.page = 1 /\ r.filter = f
      BY DEF Load
    <2> HIDE DEF r
    <2>3. AccountTypeOK'
      <3>1. loads' \subseteq Load
        BY <2>1, <2>2
      <3>2. sentLoads' \in Nat
        <4>1. sentLoads \in Nat /\ sentLoads' = sentLoads + 1
          BY <2>1
        <4> QED BY <4>1
      <3>3. loading' \in BOOLEAN /\ unserved' \in BOOLEAN
        BY <2>1, Zenon
      <3>4. loaded' \in Seq(Painted) /\ listCursor' \in Nat /\ chosen' \in PageFilter
        OBVIOUS
      <3> QED BY <3>1, <3>2, <3>3, <3>4
    <2>4. LoadsFollowTheFilter'
      BY <2>1, <2>2 DEF LoadsFollowTheFilter
    <2>5. ListFollowsTheFilter'
      BY <2>1, <2>2 DEF ListFollowsTheFilter
    <2> QED BY <2>3, <2>4, <2>5
  <1>2. CASE ~MayLoad
    <2>1. unserved' = TRUE /\ UNCHANGED <<loading, loads, sentLoads>>
      BY <1>2 DEF StartLoad
    <2>2. LoadsFollowTheFilter' /\ ListFollowsTheFilter'
      BY <2>1, <1>2 DEF LoadsFollowTheFilter, ListFollowsTheFilter, MayLoad
    <2> QED BY <2>1, <2>2
  <1> QED BY <1>1, <1>2

\* Asking for more carries the filter on the screen.
LEMMA LoadMoreKeepsTheList ==
  ASSUME AccountPagesInv, LoadMore
  PROVE  AccountPagesInv'
PROOF
  <1> USE DEF AccountPagesInv, AccountTypeOK
  <1> DEFINE r == [n |-> sentLoads, append |-> TRUE, filter |-> chosen, page |-> listCursor]
  <1>1. loads' = {r} /\ loading' = TRUE /\ unserved' = unserved /\ sentLoads' = sentLoads + 1 /\ UNCHANGED <<thePage, opened, chosen, loaded, listCursor>>
    BY DEF LoadMore, StartLoad, MayLoad, LoadsFollowTheFilter
  <1>2. r \in Load /\ r.append = TRUE /\ r.page = listCursor /\ r.filter = chosen
    BY DEF Load
  <1>3. opened = "ready" /\ listCursor # 0 /\ loads = {}
    BY DEF LoadMore, LoadsFollowTheFilter
  <1> HIDE DEF r
  <1>4. ~unserved => listCursor = Len(loaded) + 1 /\ loaded # <<>>
    BY <1>3 DEF ListFollowsTheFilter
  <1>5. LoadsFollowTheFilter'
    BY <1>1, <1>2, <1>4 DEF LoadsFollowTheFilter
  <1>6. ListFollowsTheFilter'
    BY <1>1, <1>3 DEF ListFollowsTheFilter
  <1> QED BY <1>1, <1>2, <1>5, <1>6

\* An answer is listed if it is of the last load, and passed over otherwise.
LEMMA LoadAnsweredKeepsTheList ==
  ASSUME AccountPagesInv, opened # "left", NEW r \in loads, LoadAnswered(r)
  PROVE  AccountPagesInv'
PROOF
  <1> USE DEF AccountPagesInv, AccountTypeOK
  <1> DEFINE entry == [filter |-> r.filter, page |-> r.page]
  <1>1. entry \in Painted /\ r \in Load
    BY DEF Painted, Load
  <1>2. loads' = {} /\ loading' = FALSE /\ UNCHANGED <<thePage, opened, chosen, sentLoads, unserved>>
    BY DEF LoadAnswered, EndLoad, LoadsFollowTheFilter
  <1>3. listCursor' \in {0, r.page + 1} /\ listCursor' \in Nat
    BY <1>1 DEF LoadAnswered, Load
  <1>4. LoadsFollowTheFilter'
    BY <1>2 DEF LoadsFollowTheFilter
  <1>5. CASE r.append
    <2>1. loaded' = Append(loaded, entry)
      BY <1>5 DEF LoadAnswered
    <2>2. loaded' \in Seq(Painted) /\ Len(loaded') = Len(loaded) + 1 /\ loaded' # <<>>
      BY <2>1, <1>1
    <2>3. ASSUME ~unserved
          PROVE  /\ \A i \in DOMAIN loaded' : loaded'[i] = [filter |-> chosen, page |-> i]
                 /\ listCursor' # 0 => listCursor' = Len(loaded') + 1
      <3>1. r.filter = chosen /\ r.page = Len(loaded) + 1 /\ loaded # <<>>
        BY <2>3, <1>5 DEF LoadsFollowTheFilter
      <3>2. \A i \in DOMAIN loaded : loaded[i] = [filter |-> chosen, page |-> i]
        BY <2>3, <3>1, <1>5 DEF LoadsFollowTheFilter, ListFollowsTheFilter
      <3>3. \A i \in DOMAIN loaded' : i \in DOMAIN loaded \/ i = Len(loaded) + 1
        BY <2>1, <1>1
      <3>4. \A i \in DOMAIN loaded' : loaded'[i] = [filter |-> chosen, page |-> i]
        BY <3>1, <3>2, <3>3, <2>1, <1>1
      <3> QED BY <3>1, <3>4, <2>2, <1>3
    <2>4. ListFollowsTheFilter'
      BY <2>2, <2>3, <1>2 DEF ListFollowsTheFilter
    <2> QED BY <2>2, <2>4, <1>2, <1>3, <1>4
  <1>6. CASE ~r.append
    <2>1. loaded' = <<entry>>
      BY <1>6 DEF LoadAnswered
    <2>2. loaded' \in Seq(Painted) /\ Len(loaded') = 1 /\ loaded' # <<>> /\ loaded'[1] = entry /\ DOMAIN loaded' = {1}
      BY <2>1, <1>1
    <2>3. ~unserved => r.filter = chosen /\ r.page = 1
      BY <1>6 DEF LoadsFollowTheFilter
    <2>4. ListFollowsTheFilter'
      BY <2>2, <2>3, <1>2, <1>3 DEF ListFollowsTheFilter
    <2> QED BY <2>2, <2>4, <1>2, <1>3, <1>4
  <1> QED BY <1>5, <1>6, <1>1 DEF Load

\* Holds at first: that loads are numbered and carry their filter.
LEMMA AccountPagesStart == AccountPagesInit => AccountPagesInv
PROOF
  <1> SUFFICES ASSUME AccountPagesInit PROVE AccountPagesInv
    OBVIOUS
  <1>1. loaded = <<>> /\ <<>> \in Seq(Painted) /\ listCursor = 0 /\ loads = {} /\ sentLoads = 0
    BY DEF AccountPagesInit
  <1>2. loading \in BOOLEAN /\ unserved \in BOOLEAN /\ chosen \in PageFilter
    BY DEF AccountPagesInit
  <1>3. AccountTypeOK
    BY <1>1, <1>2 DEF AccountTypeOK
  <1> QED BY <1>1, <1>3 DEF AccountPagesInv, LoadsFollowTheFilter, ListFollowsTheFilter

\* No step breaks that loads are numbered and carry their filter.
LEMMA AccountPagesStep ==
  ASSUME AccountPagesInv, [AccountPagesNext]_accountPageVars
  PROVE  AccountPagesInv'
PROOF
  <1> USE DEF AccountPagesInv
  <1>1. CASE UNCHANGED accountPageVars
    BY <1>1 DEF accountPageVars, AccountTypeOK, LoadsFollowTheFilter, ListFollowsTheFilter
  <1>2. CASE opened # "left" /\ SessionAnswered
    <2>1. CASE UNCHANGED <<loading, loads, sentLoads, unserved>>
      BY <1>2, <2>1 DEF SessionAnswered, AccountTypeOK, LoadsFollowTheFilter, ListFollowsTheFilter
    <2>2. CASE StartLoad(FALSE, chosen)
      BY <1>2, <2>2, LoadOfFilterKeepsTheList DEF SessionAnswered, AccountTypeOK
    <2> QED BY <1>2, <2>1, <2>2 DEF SessionAnswered
  <1>3. CASE opened # "left" /\ ApplicationsAnswered
    BY <1>3, LoadOfFilterKeepsTheList DEF ApplicationsAnswered
  <1>4. ASSUME NEW f \in PageFilter, ChangeFilter(f)
        PROVE  AccountPagesInv'
    BY <1>4, LoadOfFilterKeepsTheList DEF ChangeFilter
  <1>5. ASSUME NEW r \in loads, opened # "left", LoadFailed(r)
        PROVE  AccountPagesInv'
    BY <1>5 DEF LoadFailed, EndLoad, AccountTypeOK, LoadsFollowTheFilter, ListFollowsTheFilter, Load
  <1>6. ASSUME NEW r \in loads, LoadRefused(r)
        PROVE  AccountPagesInv'
    BY <1>6 DEF LoadRefused, EndLoad, AccountTypeOK, LoadsFollowTheFilter, ListFollowsTheFilter, Load
  <1> QED BY <1>1, <1>2, <1>3, <1>4, <1>5, <1>6, LoadMoreKeepsTheList, LoadAnsweredKeepsTheList DEF AccountPagesNext

\* What a page of executions lists answers the filters on the screen, from the
\* first page on, and "Carregar mais" goes on where it ends (browser/reports.ts,
\* quality.ts).
THEOREM ListFollowsFilter == AccountPagesSpec => []ListAnswersItsFilter
PROOF
  <1>1. AccountPagesInv => ListAnswersItsFilter
    BY DEF AccountPagesInv, ListFollowsTheFilter, ListAnswersItsFilter
  <1> QED BY <1>1, AccountPagesStart, AccountPagesStep, PTL DEF AccountPagesSpec
-----------------------------------------------------------------------------
(* The page of the applications                                              *)

Calls == [n : Nat, kind : {"create", "edit", "archive"}, app : AppId, at : {"sent", "accepted", "refused", "reloading", "ended"}]

\* A call is known by its number, which grows with the calls sent.
CallsAreNumbered ==
  /\ appCalls \subseteq Calls /\ IsFiniteSet(appCalls)
  /\ \A c \in appCalls : c.n < Cardinality(appCalls)
  /\ \A c, d \in appCalls : c.n = d.n => c = d

Items == [app : AppId, as : {"old", "edited"}]
ReadsOf == [by : Nat \cup {Page}, read : BOOLEAN, list : SUBSET Items]

\* A reload is the page's first or belongs to one call, which waits for it.
ReloadsHaveACall ==
  /\ listUnsure \in BOOLEAN
  /\ reloads \subseteq ReadsOf
  /\ \A r \in reloads : r.by = Page \/ \E c \in appCalls : c.n = r.by /\ c.at = "reloading"
  /\ \A r, s \in reloads : r.by = s.by => r = s
  /\ ~listUnsure => \A r, s \in reloads : r = s

\* One save at a time, and the button of the form is off for it; it is off for
\* nothing else but a form that was switched off.
OneSave ==
  /\ submitOffApp \in BOOLEAN /\ appFieldsOff \in BOOLEAN
  /\ \A c, d \in appCalls : Saves(c) /\ Saves(d) /\ c.at # "ended" /\ d.at # "ended" => c = d
  /\ \A c \in appCalls : Saves(c) /\ c.at # "ended" => submitOffApp
  /\ submitOffApp => appFieldsOff \/ \E c \in appCalls : Saves(c) /\ c.at # "ended"

\* With every change answered, what a reload has read and, when none is on,
\* what the page shows is the list of the server.
ListFollowsTheServer ==
  ~listUnsure /\ (\A c \in appCalls : c.at # "accepted") =>
    /\ \A r \in reloads : r.read => r.list = Shown(serverApps)
    /\ reloads = {} => cache = Shown(serverApps)

AppPageInv == CallsAreNumbered /\ ReloadsHaveACall /\ OneSave /\ ListFollowsTheServer

\* A call moves on: it keeps its number and what it is about.
LEMMA CallMovesOn ==
  ASSUME CallsAreNumbered, NEW c \in appCalls, NEW to \in {"accepted", "refused", "reloading", "ended"}, Now(c, to)
  PROVE  LET d == [c EXCEPT !.at = to]
         IN /\ CallsAreNumbered'
            /\ d.n = c.n /\ d.kind = c.kind /\ d.app = c.app /\ d.at = to
            /\ appCalls' = (appCalls \ {c}) \cup {d}
PROOF
  <1> DEFINE d == [c EXCEPT !.at = to]
  <1>1. c \in Calls
    BY DEF CallsAreNumbered
  <1>2. d \in Calls /\ d.n = c.n /\ d.kind = c.kind /\ d.app = c.app /\ d.at = to
    BY <1>1 DEF Calls
  <1>3. appCalls' = (appCalls \ {c}) \cup {d}
    BY DEF Now
  <1> HIDE DEF d
  <1>4. d \notin appCalls \ {c}
    BY <1>2 DEF CallsAreNumbered
  <1>5. IsFiniteSet(appCalls \ {c}) /\ Cardinality(appCalls \ {c}) = Cardinality(appCalls) - 1
    BY FS_RemoveElement DEF CallsAreNumbered
  <1>6. Cardinality(appCalls) \in Nat
    BY FS_CardinalityType DEF CallsAreNumbered
  <1>7. IsFiniteSet(appCalls') /\ Cardinality(appCalls') = Cardinality(appCalls)
    BY <1>3, <1>4, <1>5, <1>6, FS_AddElement
  <1>8. CallsAreNumbered'
    BY <1>2, <1>3, <1>7 DEF CallsAreNumbered
  <1> QED BY <1>2, <1>3, <1>8 DEF d

\* A new call is sent with the next number.
LEMMA CallIsSent ==
  ASSUME CallsAreNumbered, NEW kind \in {"create", "edit", "archive"}, NEW a \in AppId, Send(kind, a)
  PROVE  LET c == [n |-> Sent, kind |-> kind, app |-> a, at |-> "sent"]
         IN /\ CallsAreNumbered'
            /\ appCalls' = appCalls \cup {c} /\ c \notin appCalls
PROOF
  <1> DEFINE c == [n |-> Sent, kind |-> kind, app |-> a, at |-> "sent"]
  <1>1. Cardinality(appCalls) \in Nat
    BY FS_CardinalityType DEF CallsAreNumbered
  <1>2. c \in Calls /\ c.n = Cardinality(appCalls)
    BY <1>1 DEF Calls, Sent
  <1>3. appCalls' = appCalls \cup {c}
    BY DEF Send
  <1> HIDE DEF c
  <1>4. \A e \in appCalls : e.n \in Nat /\ e.n < Cardinality(appCalls)
    BY DEF CallsAreNumbered, Calls
  <1>5. c \notin appCalls
    BY <1>1, <1>2, <1>4
  <1>6. IsFiniteSet(appCalls') /\ Cardinality(appCalls') = Cardinality(appCalls) + 1
    BY <1>3, <1>5, FS_AddElement DEF CallsAreNumbered
  <1>7. \A e \in appCalls' : e.n < Cardinality(appCalls')
    BY <1>1, <1>2, <1>3, <1>4, <1>6
  <1>8. \A e, f \in appCalls' : e.n = f.n => e = f
    BY <1>1, <1>2, <1>3, <1>4 DEF CallsAreNumbered
  <1>9. CallsAreNumbered'
    BY <1>2, <1>3, <1>6, <1>7, <1>8 DEF CallsAreNumbered
  <1> QED BY <1>3, <1>5, <1>9 DEF c

\* A save or an archive is a call of its own.
LEMMA SubmitKeepsTheApps ==
  ASSUME AppPageInv, NEW a \in AppId, SubmitApp(a) \/ ArchiveApp(a)
  PROVE  AppPageInv'
PROOF
  <1>1. PICK kind \in {"create", "edit", "archive"} :
          /\ Send(kind, a)
          /\ kind # "archive" => ~submitOffApp /\ submitOffApp' = TRUE
          /\ kind = "archive" => submitOffApp' = submitOffApp
          /\ UNCHANGED <<serverApps, cache, reloads, appFieldsOff, listUnsure>>
    BY DEF SubmitApp, ArchiveApp
  <1> DEFINE c == [n |-> Sent, kind |-> kind, app |-> a, at |-> "sent"]
  <1>2. CallsAreNumbered' /\ appCalls' = appCalls \cup {c}
    BY <1>1, CallIsSent DEF AppPageInv
  <1>3. c.at = "sent" /\ c.kind = kind
    OBVIOUS
  <1> HIDE DEF c
  <1>4. ReloadsHaveACall'
    BY <1>1, <1>2 DEF AppPageInv, ReloadsHaveACall
  <1>5. OneSave'
    <2>1. CASE kind = "archive"
      BY <1>1, <1>2, <1>3, <2>1 DEF AppPageInv, OneSave, Saves
    <2>2. CASE kind # "archive"
      <3>1. \A e \in appCalls : Saves(e) => e.at = "ended"
        BY <1>1, <2>2 DEF AppPageInv, OneSave
      <3> QED BY <1>1, <1>2, <1>3, <2>2, <3>1 DEF AppPageInv, OneSave, Saves
    <2> QED BY <2>1, <2>2
  <1>6. ListFollowsTheServer'
    BY <1>1, <1>2 DEF AppPageInv, ListFollowsTheServer
  <1> QED BY <1>2, <1>4, <1>5, <1>6 DEF AppPageInv

\* What the server takes, a reload that is still to come will bring.
LEMMA ServerTakesKeepsTheApps ==
  ASSUME AppPageInv, NEW c \in appCalls, ServerTakes(c)
  PROVE  AppPageInv'
PROOF
  <1>1. PICK to \in {"accepted", "refused"} : Now(c, to) /\ (to = "refused" => serverApps' = serverApps)
    BY DEF ServerTakes
  <1>2. c.at = "sent" /\ UNCHANGED <<cache, submitOffApp, reloads, appFieldsOff, listUnsure>>
    BY DEF ServerTakes
  <1> DEFINE d == [c EXCEPT !.at = to]
  <1>3. CallsAreNumbered' /\ d.n = c.n /\ d.kind = c.kind /\ d.at = to /\ appCalls' = (appCalls \ {c}) \cup {d}
    BY <1>1, CallMovesOn DEF AppPageInv
  <1> HIDE DEF d
  <1>4. ReloadsHaveACall'
    BY <1>1, <1>2, <1>3 DEF AppPageInv, ReloadsHaveACall
  <1>5. OneSave'
    BY <1>1, <1>2, <1>3 DEF AppPageInv, OneSave, Saves
  <1>6. ListFollowsTheServer'
    BY <1>1, <1>2, <1>3 DEF AppPageInv, ListFollowsTheServer, Shown, Live
  <1> QED BY <1>3, <1>4, <1>5, <1>6 DEF AppPageInv

\* An accepted call asks for a reload, a failed one shows its error.
LEMMA AnswersKeepTheApps ==
  ASSUME AppPageInv, NEW c \in appCalls, CallAccepted(c) \/ CallFailed(c)
  PROVE  AppPageInv'
PROOF
  <1>1. CASE CallAccepted(c)
    <2> DEFINE d == [c EXCEPT !.at = "reloading"]
               r == [by |-> c.n, read |-> FALSE, list |-> {}]
    <2>1. /\ Now(c, "reloading") /\ c.at = "accepted" /\ reloads' = reloads \cup {r}
          /\ listUnsure' = (listUnsure \/ reloads # {}) /\ UNCHANGED <<serverApps, cache, submitOffApp, appFieldsOff>>
      BY <1>1 DEF CallAccepted, Reloads
    <2>2. CallsAreNumbered' /\ d.n = c.n /\ d.kind = c.kind /\ d.at = "reloading" /\ appCalls' = (appCalls \ {c}) \cup {d}
      BY <2>1, CallMovesOn DEF AppPageInv
    <2>3. r.by = c.n /\ r.read = FALSE /\ r \in ReadsOf
      BY DEF AppPageInv, CallsAreNumbered, Calls, ReadsOf
    <2> HIDE DEF d, r
    <2>4. ReloadsHaveACall'
      <3>1. \A t \in reloads : t.by # c.n
        BY <2>1 DEF AppPageInv, ReloadsHaveACall, CallsAreNumbered, Calls, Page
      <3>2. reloads' \subseteq ReadsOf /\ listUnsure' \in BOOLEAN
        BY <2>1, <2>3 DEF AppPageInv, ReloadsHaveACall
      <3>3. \A t \in reloads' : t.by = Page \/ \E e \in appCalls' : e.n = t.by /\ e.at = "reloading"
        BY <2>1, <2>2, <2>3 DEF AppPageInv, ReloadsHaveACall
      <3>4. \A t, u \in reloads' : t.by = u.by => t = u
        BY <2>1, <2>3, <3>1 DEF AppPageInv, ReloadsHaveACall
      <3>5. ~listUnsure' => \A t, u \in reloads' : t = u
        BY <2>1
      <3> QED BY <3>2, <3>3, <3>4, <3>5 DEF ReloadsHaveACall
    <2>5. OneSave'
      BY <2>1, <2>2 DEF AppPageInv, OneSave, Saves
    <2>6. ListFollowsTheServer'
      BY <2>1, <2>2, <2>3 DEF AppPageInv, ListFollowsTheServer
    <2> QED BY <2>2, <2>4, <2>5, <2>6 DEF AppPageInv
  <1>2. CASE CallFailed(c)
    <2> DEFINE d == [c EXCEPT !.at = "ended"]
    <2>1. /\ Now(c, "ended") /\ c.at \in {"accepted", "refused"} /\ submitOffApp' = (submitOffApp /\ ~Saves(c))
          /\ listUnsure' = (listUnsure \/ c.at = "accepted") /\ UNCHANGED <<serverApps, cache, reloads, appFieldsOff>>
      BY <1>2 DEF CallFailed
    <2>2. CallsAreNumbered' /\ d.n = c.n /\ d.kind = c.kind /\ d.at = "ended" /\ appCalls' = (appCalls \ {c}) \cup {d}
      BY <2>1, CallMovesOn DEF AppPageInv
    <2> HIDE DEF d
    <2>4. ReloadsHaveACall'
      BY <2>1, <2>2 DEF AppPageInv, ReloadsHaveACall
    <2>5. OneSave'
      BY <2>1, <2>2 DEF AppPageInv, OneSave, Saves
    <2>6. ListFollowsTheServer'
      BY <2>1, <2>2 DEF AppPageInv, ListFollowsTheServer
    <2> QED BY <2>2, <2>4, <2>5, <2>6 DEF AppPageInv
  <1> QED BY <1>1, <1>2

\* A reload that read the list brings what the server had.
LEMMA ReloadsKeepTheApps ==
  ASSUME AppPageInv, NEW r \in reloads, ReadList(r) \/ ReloadAnswered(r) \/ ReloadFailed(r)
  PROVE  AppPageInv'
PROOF
  <1>1. r \in ReadsOf /\ (r.by = Page \/ \E c \in appCalls : c.n = r.by /\ c.at = "reloading")
    BY DEF AppPageInv, ReloadsHaveACall
  <1>2. CASE ReadList(r)
    <2> DEFINE s == [r EXCEPT !.read = TRUE, !.list = Shown(serverApps)]
    <2>1. reloads' = (reloads \ {r}) \cup {s} /\ UNCHANGED <<serverApps, cache, submitOffApp, appCalls, appFieldsOff, listUnsure>>
      BY <1>2 DEF ReadList
    <2>2. Shown(serverApps) \in SUBSET Items
      BY DEF Shown, Live, Items
    <2>3. s \in ReadsOf /\ s.by = r.by /\ s.read = TRUE /\ s.list = Shown(serverApps)
      BY <1>1, <2>2 DEF ReadsOf
    <2> HIDE DEF s
    <2>4. ReloadsHaveACall'
      BY <2>1, <2>3 DEF AppPageInv, ReloadsHaveACall
    <2>5. ListFollowsTheServer'
      BY <2>1, <2>3 DEF AppPageInv, ListFollowsTheServer, Shown, Live
    <2> QED BY <2>1, <2>4, <2>5 DEF AppPageInv, CallsAreNumbered, OneSave
  <1>3. ASSUME NEW off \in BOOLEAN, EndReload(r, off), UNCHANGED serverApps, listUnsure' \in BOOLEAN,
               ~listUnsure' => ~listUnsure /\ r.read /\ cache' = r.list,
               \/ off = submitOffApp /\ UNCHANGED appFieldsOff
               \/ off = TRUE /\ appFieldsOff' = TRUE
        PROVE  AppPageInv'
    <2>1. reloads' = reloads \ {r}
      BY <1>3 DEF EndReload
    <2>2. CASE r.by = Page /\ submitOffApp' = off /\ UNCHANGED appCalls
      <3>1. ReloadsHaveACall'
        BY <1>3, <2>1, <2>2 DEF AppPageInv, ReloadsHaveACall
      <3>2. ListFollowsTheServer'
        BY <1>3, <2>1, <2>2 DEF AppPageInv, ListFollowsTheServer, Shown, Live
      <3>3. OneSave'
        <4>1. UNCHANGED <<appCalls, submitOffApp, appFieldsOff>> \/ (UNCHANGED appCalls /\ submitOffApp' = TRUE /\ appFieldsOff' = TRUE)
          BY <1>3, <2>2
        <4>2. CASE UNCHANGED <<appCalls, submitOffApp, appFieldsOff>>
          BY <4>2 DEF AppPageInv, OneSave
        <4>3. CASE UNCHANGED appCalls /\ submitOffApp' = TRUE /\ appFieldsOff' = TRUE
          <5>1. \A c, d \in appCalls : Saves(c) /\ Saves(d) /\ c.at # "ended" /\ d.at # "ended" => c = d
            BY DEF AppPageInv, OneSave
          <5>2. \A c, d \in appCalls' : Saves(c) /\ Saves(d) /\ c.at # "ended" /\ d.at # "ended" => c = d
            BY <4>3, <5>1
          <5> QED BY <4>3, <5>2 DEF OneSave
        <4> QED BY <4>1, <4>2, <4>3
      <3> QED BY <2>2, <3>1, <3>2, <3>3 DEF AppPageInv, CallsAreNumbered
    <2>3. ASSUME NEW c \in appCalls, c.n = r.by, Now(c, "ended"), submitOffApp' = (off /\ ~Saves(c))
          PROVE  AppPageInv'
      <3> DEFINE d == [c EXCEPT !.at = "ended"]
      <3>1. c.n \in Nat /\ c.at = "reloading"
        BY <1>1, <2>3 DEF AppPageInv, CallsAreNumbered, Calls, Page
      <3>2. CallsAreNumbered' /\ d.n = c.n /\ d.kind = c.kind /\ d.at = "ended" /\ appCalls' = (appCalls \ {c}) \cup {d}
        BY <2>3, CallMovesOn DEF AppPageInv
      <3> HIDE DEF d
      <3>3. ReloadsHaveACall'
        <4>1. \A t \in reloads' : t.by # c.n
          BY <2>1, <2>3 DEF AppPageInv, ReloadsHaveACall
        <4>2. \A t \in reloads' : t.by = Page \/ \E e \in appCalls' : e.n = t.by /\ e.at = "reloading"
          BY <2>1, <3>2, <4>1 DEF AppPageInv, ReloadsHaveACall
        <4> QED BY <1>3, <2>1, <4>2 DEF AppPageInv, ReloadsHaveACall
      <3>4. OneSave'
        <4>1. CASE Saves(c)
          <5>1. submitOffApp' = FALSE /\ \A e \in appCalls' : Saves(e) => e.at = "ended"
            BY <2>3, <3>1, <3>2, <4>1 DEF AppPageInv, OneSave, Saves
          <5>2. appFieldsOff' \in BOOLEAN
            BY <1>3 DEF AppPageInv, OneSave
          <5> QED BY <5>1, <5>2 DEF OneSave
        <4>2. CASE ~Saves(c)
          <5>1. submitOffApp' = off /\ \A e \in appCalls' : Saves(e) /\ e.at # "ended" => e \in appCalls
            BY <2>3, <3>1, <3>2, <4>2 DEF Saves
          <5>2. \A e \in appCalls : Saves(e) => e \in appCalls'
            BY <3>2, <4>2
          <5>3. UNCHANGED <<submitOffApp, appFieldsOff>> \/ (submitOffApp' = TRUE /\ appFieldsOff' = TRUE)
            BY <1>3, <5>1
          <5> QED BY <5>1, <5>2, <5>3 DEF AppPageInv, OneSave
        <4> QED BY <4>1, <4>2
      <3>5. ListFollowsTheServer'
        BY <1>3, <2>1, <3>1, <3>2 DEF AppPageInv, ListFollowsTheServer, ReloadsHaveACall, Shown, Live
      <3> QED BY <3>2, <3>3, <3>4, <3>5 DEF AppPageInv
    <2> QED BY <1>3, <2>2, <2>3 DEF EndReload
  <1>4. CASE ReloadAnswered(r)
    BY <1>3, <1>4 DEF ReloadAnswered, AppPageInv, ReloadsHaveACall, OneSave
  <1>5. CASE ReloadFailed(r)
    BY <1>3, <1>5 DEF ReloadFailed
  <1> QED BY <1>2, <1>4, <1>5

\* Holds at first: what saves and reloads of applications know.
LEMMA AppPageStarts == AppPageInit => AppPageInv
PROOF
  <1> SUFFICES ASSUME AppPageInit PROVE AppPageInv
    OBVIOUS
  <1>1. IsFiniteSet(appCalls) /\ appCalls = {}
    BY FS_EmptySet DEF AppPageInit
  <1>2. CallsAreNumbered
    BY <1>1 DEF CallsAreNumbered
  <1>3. ReloadsHaveACall /\ ListFollowsTheServer
    <2> DEFINE first == [by |-> Page, read |-> FALSE, list |-> {}]
    <2>1. reloads = {first} /\ listUnsure = FALSE
      BY DEF AppPageInit
    <2>2. first.by = Page /\ first.read = FALSE /\ first \in ReadsOf
      BY DEF ReadsOf
    <2> HIDE DEF first
    <2> QED BY <2>1, <2>2 DEF ReloadsHaveACall, ListFollowsTheServer
  <1>4. OneSave
    BY <1>1 DEF AppPageInit, OneSave
  <1> QED BY <1>2, <1>3, <1>4 DEF AppPageInv

\* No step breaks what saves and reloads of applications know.
LEMMA AppPageStep ==
  ASSUME AppPageInv, [AppPageNext]_appPageVars
  PROVE  AppPageInv'
PROOF
  <1>1. ASSUME UNCHANGED <<serverApps, cache, submitOffApp, appCalls, reloads, appFieldsOff, listUnsure>>
        PROVE  AppPageInv'
    BY <1>1 DEF AppPageInv, CallsAreNumbered, ReloadsHaveACall, OneSave, ListFollowsTheServer, Shown, Live
  <1>2. UNCHANGED appPageVars => AppPageInv'
    BY <1>1 DEF appPageVars
  <1>3. CancelEdit \/ LeaveApps => AppPageInv'
    BY <1>1 DEF CancelEdit, LeaveApps
  <1>4. \A a \in AppId : EditApp(a) \/ ToggleHistory(a) \/ HistoryLoaded(a) => AppPageInv'
    BY <1>1 DEF EditApp, ToggleHistory, HistoryLoaded
  <1> QED BY <1>2, <1>3, <1>4, SubmitKeepsTheApps, ServerTakesKeepsTheApps, AnswersKeepTheApps, ReloadsKeepTheApps DEF AppPageNext

\* At rest the page lists the applications of the server, unless an answer was
\* lost or two reloads crossed; it never has two saves on, and the button of
\* its form is off for a save or because a load that failed switched the form
\* off, and for nothing else (browser/applications.ts).
THEOREM AppListIsTheServers == AppPageSpec => []ListIsTheServers
PROOF
  <1>1. AppPageInv => ListIsTheServers
    BY DEF AppPageInv, ListFollowsTheServer, OneSave, ListIsTheServers, SavesOn
  <1> QED BY <1>1, AppPageStarts, AppPageStep, PTL DEF AppPageSpec
-----------------------------------------------------------------------------
(* The journey                                                               *)

CodegenButtons == [known : BOOLEAN, startOff : BOOLEAN, stopOff : BOOLEAN, starting : Int, stopping : BOOLEAN, server : {"idle", "recording"}]

\* Steps that cross no others are those of the execution the modal is for,
\* while they are awaited, with the modal closed, as when they are listed.
StepsAreOfTheExecution ==
  ~crossed =>
    /\ \A r, s \in stepReads : r = s
    /\ \A r \in stepReads : r.of = completedId
    /\ stepReads = {} => stepsBox \in {completedId, NoSteps}
    /\ stepReads # {} => ~modalOpen

JourneyPageInv == crossed \in BOOLEAN /\ codegen \in CodegenButtons /\ StepsAreOfTheExecution /\ ReportHasItsSteps

\* Holds at first: what the journeys page shows.
LEMMA JourneyPageStarts == JourneyPageInit => JourneyPageInv
PROOF
  <1> SUFFICES ASSUME JourneyPageInit PROVE JourneyPageInv
    OBVIOUS
  <1>1. codegen \in CodegenButtons /\ ~codegen.known
    BY DEF JourneyPageInit, CodegenButtons
  <1> QED BY <1>1 DEF JourneyPageInit, JourneyPageInv, StepsAreOfTheExecution, ReportHasItsSteps

\* The steps are asked for, answered, and sent with the report.
LEMMA ReportsKeepTheJourney ==
  ASSUME JourneyPageInv,
         AskSteps \/ CloseModal \/ SubmitEvidence \/ \E r \in stepReads : StepsAnswered(r)
  PROVE  JourneyPageInv'
PROOF
  <1>1. CASE AskSteps
    <2> DEFINE r == [n |-> stepsAsked, of |-> executionId]
    <2>1. /\ stepReads' = stepReads \cup {r} /\ r.of = executionId /\ completedId' = executionId /\ ~modalOpen
          /\ crossed' = (crossed \/ stepReads # {}) /\ UNCHANGED <<modalOpen, reportCalls, codegen>>
      BY <1>1 DEF AskSteps, Reachable
    <2> HIDE DEF r
    <2> QED BY <2>1 DEF JourneyPageInv, StepsAreOfTheExecution, ReportHasItsSteps
  <1>2. CASE CloseModal
    BY <1>2 DEF CloseModal, JourneyPageInv, StepsAreOfTheExecution, ReportHasItsSteps
  <1>3. CASE SubmitEvidence
    <2> DEFINE call == [of |-> completedId, steps |-> stepsBox]
    <2>1. /\ reportCalls' = reportCalls \cup {call} /\ call.of = completedId /\ call.steps = stepsBox /\ modalOpen /\ modalOpen' \in {FALSE, modalOpen}
          /\ UNCHANGED <<completedId, stepsBox, stepReads, codegen, crossed>>
      BY <1>3 DEF SubmitEvidence, ReportFor
    <2> HIDE DEF call
    <2>2. ~crossed => call.steps \in {call.of, NoSteps}
      BY <2>1 DEF JourneyPageInv, StepsAreOfTheExecution
    <2> QED BY <2>1, <2>2 DEF JourneyPageInv, StepsAreOfTheExecution, ReportHasItsSteps
  <1>4. ASSUME NEW r \in stepReads, StepsAnswered(r)
        PROVE  JourneyPageInv'
    BY <1>4 DEF StepsAnswered, JourneyPageInv, StepsAreOfTheExecution, ReportHasItsSteps
  <1> QED BY <1>1, <1>2, <1>3, <1>4

\* The recorder: what the page knows of keeps the start button off.
LEMMA RecorderKeepsTheJourney ==
  ASSUME JourneyPageInv,
         StartCodegen \/ CodegenStarted \/ BrowserClosed \/ StopCodegen \/ CodegenStopped
  PROVE  JourneyPageInv'
PROOF
  <1>1. UNCHANGED evidenceUiVars
    BY DEF StartCodegen, CodegenStarted, BrowserClosed, StopCodegen, CodegenStopped
  <1>2. codegen' \in CodegenButtons /\ (codegen'.known => codegen'.startOff)
    <2> USE DEF JourneyPageInv, CodegenButtons, ReportHasItsSteps
    <2>1. CASE StartCodegen
      BY <2>1 DEF StartCodegen
    <2>2. CASE CodegenStarted
      <3>1. CASE codegen' = [codegen EXCEPT !.starting = @ - 1]
        BY <3>1
      <3>2. CASE codegen' = [codegen EXCEPT !.starting = @ - 1, !.known = TRUE, !.startOff = TRUE, !.stopOff = FALSE, !.server = "recording"]
        <4>1. codegen' = [known |-> TRUE, startOff |-> TRUE, stopOff |-> FALSE, starting |-> codegen.starting - 1,
                          stopping |-> codegen.stopping, server |-> "recording"]
          BY <3>2
        <4> QED BY <4>1
      <3> QED BY <2>2, <3>1, <3>2 DEF CodegenStarted
    <2>3. CASE BrowserClosed
      BY <2>3 DEF BrowserClosed
    <2>4. CASE StopCodegen
      BY <2>4 DEF StopCodegen
    <2>5. CASE CodegenStopped
      BY <2>5 DEF CodegenStopped
    <2> QED BY <2>1, <2>2, <2>3, <2>4, <2>5
  <1> QED BY <1>1, <1>2 DEF evidenceUiVars, JourneyPageInv, StepsAreOfTheExecution, ReportHasItsSteps

\* No step breaks what the journeys page shows.
LEMMA JourneyPageStep ==
  ASSUME JourneyPageInv, [JourneyPageNext]_journeyPageVars
  PROVE  JourneyPageInv'
PROOF
  <1>1. ASSUME UNCHANGED <<evidenceUiVars, codegen>>
        PROVE  JourneyPageInv'
    BY <1>1 DEF evidenceUiVars, JourneyPageInv, StepsAreOfTheExecution, ReportHasItsSteps
  <1>2. CASE UNCHANGED journeyPageVars
    BY <1>1, <1>2 DEF journeyPageVars, evidenceUiVars
  <1>3. CASE ClickExecute \/ ExecutionRefused \/ EditCode \/ \E x \in PageExecution : ExecutionAnswered(x)
    BY <1>1, <1>3 DEF ClickExecute, ExecutionRefused, EditCode, ExecutionAnswered
  <1> QED BY <1>2, <1>3, ReportsKeepTheJourney, RecorderKeepsTheJourney DEF JourneyPageNext

\* A report is asked for the execution whose steps were shown, and a recording
\* the page knows of keeps the start button off (browser/journey.ts).
THEOREM ReportsAreOfTheirExecution == JourneyPageSpec => []ReportHasItsSteps
PROOF
  <1>1. JourneyPageInv => ReportHasItsSteps
    BY DEF JourneyPageInv
  <1> QED BY <1>1, JourneyPageStarts, JourneyPageStep, PTL DEF JourneyPageSpec
-----------------------------------------------------------------------------
(* The overview                                                              *)

DashTypeOK ==
  /\ signedIn \in BOOLEAN /\ clearOk \in BOOLEAN /\ sourceShown \in BOOLEAN
  /\ localCopy \in Seq({LocalId(a) : a \in DashScan})

\* Without an account there is nothing in it, and the page learns of none.
AccountIsKnown ==
  ~signedIn => accountCopy = {} /\ ~sourceShown /\ accountRead.at # "answered"

\* How far a clear has got: unless something was recorded since the click, a
\* copy is empty once the request that empties it has succeeded.
ClearGoesOn ==
  clearing # "no" /\ clearOk =>
    /\ sourceShown = signedIn
    /\ clearing \in {"account", "done"} /\ localCopy = <<>> => posts = {} /\ sessionCopy = {}
    /\ clearing = "done" /\ localCopy = <<>> => accountCopy = {}

DashPageInv == DashTypeOK /\ AccountIsKnown /\ ClearGoesOn /\ cleared \cap posts = {} /\ ClearReachesEveryCopy

\* Holds at first: what each copy of the activity may still get.
LEMMA DashPageStarts == DashPageInit => DashPageInv
PROOF
  <1> SUFFICES ASSUME DashPageInit PROVE DashPageInv
    OBVIOUS
  <1>1. localCopy = <<>> /\ localCopy \in Seq({LocalId(a) : a \in DashScan}) /\ clearing = "no" /\ cleared = {} /\ posts = {}
    BY DEF DashPageInit
  <1>2. signedIn \in BOOLEAN /\ clearOk \in BOOLEAN /\ sourceShown \in BOOLEAN /\ ~sourceShown /\ accountCopy = {} /\ accountRead.at = "asked"
    BY DEF DashPageInit, Unread
  <1> QED BY <1>1, <1>2 DEF DashPageInv, DashTypeOK, AccountIsKnown, ClearGoesOn, ClearReachesEveryCopy

\* Another tab records an analysis that no clear has erased.
LEMMA RecordKeepsTheClear ==
  ASSUME DashPageInv, NEW a \in DashScan, RecordActivity(a)
  PROVE  DashPageInv'
PROOF
  <1>1. /\ localCopy' = <<LocalId(a)>> \o localCopy /\ posts' = posts \cup {a} /\ a \notin cleared
        /\ accountCopy' = IF signedIn THEN accountCopy \cup {a} ELSE accountCopy
        /\ UNCHANGED <<signedIn, sessionCopy, accountRead, sourceShown, clearing, clearOk, cleared>>
    BY DEF RecordActivity, clearVars
  <1>2. localCopy \in Seq({LocalId(b) : b \in DashScan}) /\ <<LocalId(a)>> \in Seq({LocalId(b) : b \in DashScan})
    BY DEF DashPageInv, DashTypeOK
  <1> DEFINE more == <<LocalId(a)>> \o localCopy
  <1>3. more \in Seq({LocalId(b) : b \in DashScan}) /\ Len(more) = Len(localCopy) + 1 /\ more # <<>>
    BY <1>2
  <1>4. \A i \in DOMAIN more : more[i] = LocalId(a) \/ \E j \in DOMAIN localCopy : more[i] = localCopy[j]
    BY <1>2
  <1>5. ToSet(more) \subseteq {LocalId(a)} \cup ToSet(localCopy)
    BY <1>4 DEF ToSet
  <1> HIDE DEF more
  <1>6. DashTypeOK' /\ AccountIsKnown' /\ ClearGoesOn'
    BY <1>1, <1>3 DEF DashPageInv, DashTypeOK, AccountIsKnown, ClearGoesOn, more
  <1>7. \A b \in cleared : LocalId(b) # LocalId(a)
    BY <1>1 DEF LocalId
  <1>8. ClearReachesEveryCopy'
    BY <1>1, <1>5, <1>7 DEF DashPageInv, ClearReachesEveryCopy, more
  <1> QED BY <1>1, <1>6, <1>8 DEF DashPageInv

\* Limpar and its two requests, up to the promise that everything went.
LEMMA ClearKeepsItsPromise ==
  ASSUME DashPageInv, ClickClear \/ ActivityCleared \/ AccountCleared \/ EndClear
  PROVE  DashPageInv'
PROOF
  <1> USE DEF DashPageInv, DashTypeOK, AccountIsKnown, ClearGoesOn
  <1>1. CASE ClickClear
    <2>1. localCopy' = <<>> /\ localCopy' \in Seq({LocalId(a) : a \in DashScan}) /\ ToSet(localCopy') = {}
      BY <1>1 DEF ClickClear, ToSet
    <2>2. clearOk' \in BOOLEAN /\ (clearOk' => sourceShown = signedIn) /\ clearing' = "activity"
          /\ UNCHANGED <<signedIn, sessionCopy, accountCopy, posts, accountRead, sourceShown, cleared>>
      BY <1>1 DEF ClickClear, remoteVars
    <2>3. ClearReachesEveryCopy'
      BY <2>1, <2>2 DEF ClearReachesEveryCopy
    <2> QED BY <2>1, <2>2, <2>3
  <1>2. CASE ActivityCleared
    <2>1. /\ sessionCopy' \in {{}, sessionCopy} /\ clearOk' \in BOOLEAN /\ (clearOk' => clearOk /\ posts = {} /\ sessionCopy' = {})
          /\ clearing = "activity" /\ clearing' = IF sourceShown THEN "account" ELSE "done"
          /\ UNCHANGED <<signedIn, accountCopy, posts, localCopy, accountRead, sourceShown, cleared>>
      BY <1>2 DEF ActivityCleared, AfterActivity
    <2>2. ClearReachesEveryCopy'
      BY <2>1 DEF ClearReachesEveryCopy
    <2> QED BY <2>1, <2>2
  <1>3. CASE AccountCleared
    <2>1. /\ clearing = "account" /\ clearing' = "done"
          /\ UNCHANGED <<signedIn, sessionCopy, posts, localCopy, accountRead, sourceShown, cleared>>
      BY <1>3 DEF AccountCleared
    <2>2. CASE accountCopy' = {} /\ clearOk' = clearOk
      <3>1. ClearReachesEveryCopy'
        BY <2>1, <2>2 DEF ClearReachesEveryCopy
      <3> QED BY <2>1, <2>2, <3>1
    <2>3. CASE accountCopy' = accountCopy /\ clearOk' = FALSE
      <3>1. ClearReachesEveryCopy'
        BY <2>1, <2>3 DEF ClearReachesEveryCopy
      <3> QED BY <2>1, <2>3, <3>1
    <2> QED BY <1>3, <2>2, <2>3 DEF AccountCleared
  <1>4. CASE EndClear
    <2>1. /\ clearing = "done" /\ clearing' = "no" /\ UNCHANGED <<signedIn, sessionCopy, accountCopy, posts, localCopy, accountRead, sourceShown, clearOk>>
          /\ cleared' = cleared \/ (clearOk /\ posts = {} /\ localCopy = <<>>)
      BY <1>4 DEF EndClear, remoteVars
    <2>2. CASE cleared' = cleared
      BY <2>1, <2>2 DEF ClearReachesEveryCopy
    <2>3. CASE clearOk /\ posts = {} /\ localCopy = <<>>
      <3>1. sessionCopy' = {} /\ accountCopy' = {} /\ posts' = {} /\ ToSet(localCopy') = {}
        BY <2>1, <2>3 DEF ToSet
      <3>2. ClearReachesEveryCopy'
        BY <3>1 DEF ClearReachesEveryCopy
      <3> QED BY <2>1, <3>1, <3>2
    <2> QED BY <2>1, <2>2, <2>3
  <1> QED BY <1>1, <1>2, <1>3, <1>4

\* No step breaks what each copy of the activity may still get.
LEMMA DashPageStep ==
  ASSUME DashPageInv, [DashPageNext]_dashPageVars
  PROVE  DashPageInv'
PROOF
  <1>9. ASSUME UNCHANGED <<signedIn, sessionCopy, accountCopy, posts, localCopy, accountRead, sourceShown, clearing, clearOk, cleared>>
        PROVE  DashPageInv'
    BY <1>9 DEF DashPageInv, DashTypeOK, AccountIsKnown, ClearGoesOn, ClearReachesEveryCopy
  <1>1. CASE UNCHANGED dashPageVars
    BY <1>1, <1>9 DEF dashPageVars
  <1> USE DEF DashPageInv, DashTypeOK, AccountIsKnown, ClearGoesOn, ClearReachesEveryCopy
  <1>2. ASSUME NEW a \in DashScan, PostArrives(a)
        PROVE  DashPageInv'
    BY <1>2 DEF PostArrives, clearVars
  <1>3. CASE StorageChanged
    BY <1>3, <1>9 DEF StorageChanged, remoteVars, clearVars
  <1>7. CASE CopyAnswered
    BY <1>7, <1>9 DEF CopyAnswered, remoteVars, clearVars
  <1>8. ASSUME NEW a \in DashScan, StreamMessage(a)
        PROVE  DashPageInv'
    BY <1>8, <1>9 DEF StreamMessage, remoteVars, clearVars
  <1>4. CASE ServerReads
    <2>1. ~signedIn => accountRead'.at # "answered"
      BY <1>4 DEF ServerReads, Ended
    <2> QED BY <1>4, <2>1 DEF ServerReads, remoteVars, clearVars
  <1>5. CASE AccountAnswered
    BY <1>5 DEF AccountAnswered, Ended, remoteVars, clearVars
  <1>6. CASE LoadPage
    BY <1>6 DEF LoadPage, Unread, remoteVars
  <1> QED BY <1>1, <1>2, <1>3, <1>4, <1>5, <1>6, <1>7, <1>8, RecordKeepsTheClear, ClearKeepsItsPromise DEF DashPageNext

\* What a whole clear erased is in no copy, nor comes back to one
\* (browser/dashboard.ts).
THEOREM ClearedStaysCleared == DashPageSpec => []ClearReachesEveryCopy
PROOF
  <1>1. DashPageInv => ClearReachesEveryCopy
    BY DEF DashPageInv
  <1> QED BY <1>1, DashPageStarts, DashPageStep, PTL DEF DashPageSpec
-----------------------------------------------------------------------------
(* The saved requests                                                        *)

\* The server keeps requests it was sent, and only valid ones.
LEMMA ShareableKeeps ==
  ASSUME NEW S, NEW s \in Seq(S)
  PROVE  /\ Shareable(s) \in Seq(S)
         /\ \A n \in DOMAIN Shareable(s) : Shareable(s)[n] # Hole /\ \E i \in DOMAIN s : Shareable(s)[n] = s[i]
PROOF
  <1>1. DOMAIN s = 1..Len(s) /\ ShareableAt(s) \in SUBSET (1..Len(s))
    BY LenProperties DEF ShareableAt
  <1>2. \A i \in ShareableAt(s) : s[i] # Hole /\ i \in DOMAIN s
    BY DEF ShareableAt
  <1>3. Shareable(s) \in Seq(S) /\ DOMAIN Shareable(s) = 1..Cardinality(ShareableAt(s))
    BY <1>1, PickedProperties DEF Shareable
  <1> QED BY <1>1, <1>2, <1>3, PickedProperties DEF Shareable

ARequest == [name : RequestName \cup {"hole", "missing"}, home : ApiApp \cup {Browser, NoId}]
AFlight == [n : Nat, kind : {"push", "read"}, app : ApiApp, id : ApiApp \cup {NoId}, requests : Seq(ARequest), at : {"sent", "good", "bad"}]

\* Requests saved for one place, and the holes that may lie between them.
SavedFor(s, place) == \A i \in DOMAIN s : s[i] = Hole \/ s[i].home = place
AllSavedFor(s, place) == \A i \in DOMAIN s : s[i].home = place

CollectionTypeOK ==
  /\ apiApplicationId \in ApiApp \cup {Browser} /\ remoteCollectionId \in ApiApp \cup {NoId}
  /\ collectionCache \in Seq(ARequest) /\ localCollection \in Seq(ARequest)
  /\ currentIndex \in Nat /\ flightsSent \in Nat /\ tangled \in BOOLEAN
  /\ remoteCollection \in [ApiApp -> Seq(ARequest)] /\ flights \subseteq AFlight
  /\ importing # NoFile => importing \in ARequest

\* What a push carries and an answer brings is of the application on the page.
FlightIsSound(f) ==
  /\ f.app = apiApplicationId
  /\ f.kind = "push" => f.id \in {NoId, apiApplicationId} /\ SavedFor(f.requests, apiApplicationId)
  /\ f.kind = "read" => remoteCollectionId = NoId
  /\ f.at = "good" => /\ f.requests = remoteCollection[apiApplicationId]
                      /\ f.id \in {NoId, apiApplicationId}
                      /\ f.id # NoId <=> f.requests # Missing

\* The list at rest is what was saved for the place chosen, and kept there.
RestIsSound ==
  /\ SavedFor(collectionCache, apiApplicationId)
  /\ remoteCollectionId # NoId => remoteCollectionId = apiApplicationId /\ collectionCache = remoteCollection[apiApplicationId]

\* Until something crossed or failed, places keep what was saved for them and
\* at most one push or read is out.
PlacesAreKept ==
  ~tangled =>
    /\ \A a \in ApiApp : remoteCollection[a] # Missing => AllSavedFor(remoteCollection[a], a)
    /\ SavedFor(localCollection, Browser)
    /\ flights = {} => RestIsSound
    /\ flights # {} => apiApplicationId \in ApiApp /\ \E f \in AFlight : flights = {f} /\ FlightIsSound(f)

CollectionInv == CollectionTypeOK /\ PlacesAreKept

\* Holds at first: that saved requests are in their place.
LEMMA CollectionStarts == ApiPageInit => CollectionInv
PROOF
  <1> SUFFICES ASSUME ApiPageInit PROVE CollectionInv
    OBVIOUS
  <1>1. Missing \in Seq(ARequest)
    BY DEF Missing, ARequest
  <1>2. CollectionTypeOK
    <2>1. <<>> \in Seq(ARequest)
      OBVIOUS
    <2>2. remoteCollection \in [ApiApp -> Seq(ARequest)]
      BY <1>1, Zenon DEF ApiPageInit
    <2> QED BY <2>1, <2>2 DEF ApiPageInit, None, CollectionTypeOK
  <1>3. PlacesAreKept
    BY DEF ApiPageInit, PlacesAreKept, RestIsSound, SavedFor
  <1> QED BY <1>2, <1>3 DEF CollectionInv

\* A flight takes off alone, or the page knows that something crossed.
LEMMA TakeOffIsAlone ==
  ASSUME CollectionTypeOK, NEW f \in AFlight, NEW astray,
         flights' = flights \cup {f}, flightsSent' = flightsSent + 1, tangled' = (tangled \/ astray \/ flights # {})
  PROVE  /\ flightsSent' \in Nat /\ flights' \subseteq AFlight /\ tangled' \in BOOLEAN
         /\ ~tangled' => ~tangled /\ ~astray /\ flights = {} /\ flights' = {f}
PROOF
  <1>1. flightsSent' \in Nat /\ flights' \subseteq AFlight /\ tangled' \in BOOLEAN
    BY DEF CollectionTypeOK
  <1>2. ~tangled' => ~tangled /\ ~astray /\ flights = {}
    OBVIOUS
  <1> QED BY <1>1, <1>2

\* What is saved for the place chosen is kept there or on its way.
LEMMA SavingKeepsPlaces ==
  ASSUME CollectionInv, NEW requests \in Seq(ARequest), NEW astray \in BOOLEAN, SaveCollection(requests, astray),
         ~tangled /\ ~astray /\ flights = {} => SavedFor(requests, apiApplicationId),
         importing' # NoFile => importing' \in ARequest,
         UNCHANGED <<apiApplicationId, remoteCollectionId, remoteCollection>>, currentIndex' \in Nat
  PROVE  CollectionInv'
PROOF
  <1>1. collectionCache' = requests
    BY DEF SaveCollection
  <1>2. CASE apiApplicationId = Browser
    <2>1. localCollection' = requests /\ tangled' = (tangled \/ astray) /\ UNCHANGED <<flights, flightsSent>>
      BY <1>2 DEF SaveCollection
    <2>2. CollectionTypeOK'
      BY <1>1, <2>1 DEF CollectionInv, CollectionTypeOK
    <2>3. remoteCollectionId # Browser
      BY ApiTestsAssumption DEF CollectionInv, CollectionTypeOK, Browser, NoId
    <2>4. ~tangled => flights = {}
      BY <1>2, ApiTestsAssumption DEF CollectionInv, PlacesAreKept
    <2>5. ~tangled => remoteCollectionId = NoId
      BY <1>2, <2>3, <2>4 DEF CollectionInv, PlacesAreKept, RestIsSound
    <2>6. PlacesAreKept'
      BY <1>1, <1>2, <2>1, <2>4, <2>5 DEF CollectionInv, PlacesAreKept, RestIsSound, SavedFor, AllSavedFor
    <2> QED BY <2>2, <2>6 DEF CollectionInv
  <1>3. CASE apiApplicationId # Browser
    <2>1. TakeOff("push", apiApplicationId, remoteCollectionId, requests, astray) /\ UNCHANGED localCollection
      BY <1>3 DEF SaveCollection
    <2>2. apiApplicationId \in ApiApp /\ remoteCollectionId \in ApiApp \cup {NoId}
      BY <1>3 DEF CollectionInv, CollectionTypeOK
    <2>3. /\ flightsSent' \in Nat /\ flights' \subseteq AFlight /\ tangled' \in BOOLEAN
          /\ ~tangled' => /\ ~tangled /\ ~astray /\ flights = {}
                          /\ \E f \in AFlight : flights' = {f} /\ f.kind = "push" /\ f.app = apiApplicationId /\ f.id = remoteCollectionId /\ f.requests = requests /\ f.at = "sent"
      <3> DEFINE f == [n |-> flightsSent, kind |-> "push", app |-> apiApplicationId, id |-> remoteCollectionId, requests |-> requests, at |-> "sent"]
      <3>1. f \in AFlight /\ f.kind = "push" /\ f.app = apiApplicationId /\ f.id = remoteCollectionId /\ f.requests = requests /\ f.at = "sent"
        BY <2>2 DEF AFlight, CollectionInv, CollectionTypeOK
      <3>2. flights' = flights \cup {f} /\ flightsSent' = flightsSent + 1 /\ tangled' = (tangled \/ astray \/ flights # {})
        BY <2>1 DEF TakeOff
      <3>3. CollectionTypeOK
        BY DEF CollectionInv
      <3> HIDE DEF f
      <3>4. /\ flightsSent' \in Nat /\ flights' \subseteq AFlight /\ tangled' \in BOOLEAN
            /\ ~tangled' => ~tangled /\ ~astray /\ flights = {} /\ flights' = {f}
        BY <3>1, <3>2, <3>3, TakeOffIsAlone
      <3> QED BY <3>1, <3>4, Zenon
    <2>4. CollectionTypeOK'
      BY <1>1, <2>1, <2>3 DEF CollectionInv, CollectionTypeOK
    <2>5. ASSUME ~tangled'
          PROVE  \E f \in AFlight : flights' = {f} /\ FlightIsSound(f)'
      <3>1. PICK f \in AFlight : flights' = {f} /\ f.kind = "push" /\ f.app = apiApplicationId /\ f.id = remoteCollectionId /\ f.requests = requests /\ f.at = "sent"
        BY <2>3, <2>5
      <3>2. remoteCollectionId \in {NoId, apiApplicationId} /\ SavedFor(requests, apiApplicationId)
        BY <2>3, <2>5 DEF CollectionInv, PlacesAreKept, RestIsSound
      <3>3. FlightIsSound(f)'
        BY <3>1, <3>2 DEF FlightIsSound
      <3> QED BY <3>1, <3>3
    <2>6. PlacesAreKept'
      BY <2>1, <2>2, <2>3, <2>5 DEF CollectionInv, PlacesAreKept
    <2> QED BY <2>4, <2>6 DEF CollectionInv
  <1> QED BY <1>2, <1>3

\* A request saved where Salvar writes, among what was there.
LEMMA WrittenIsSaved ==
  ASSUME CollectionInv, NEW at \in Nat \ {0}, NEW r \in ARequest, r.home = apiApplicationId
  PROVE  /\ Written(at, r) \in Seq(ARequest)
         /\ SavedFor(collectionCache, apiApplicationId) => SavedFor(Written(at, r), apiApplicationId)
PROOF
  <1> DEFINE n == IF at > Len(collectionCache) THEN at ELSE Len(collectionCache)
             W(i) == IF i = at THEN r ELSE IF i \in DOMAIN collectionCache THEN collectionCache[i] ELSE Hole
  <1>1. collectionCache \in Seq(ARequest) /\ Len(collectionCache) \in Nat
    BY LenProperties DEF CollectionInv, CollectionTypeOK
  <1>2. n \in Nat
    BY <1>1
  <1>3. Hole \in ARequest
    BY DEF Hole, ARequest
  <1>4. \A i \in 1..n : W(i) \in ARequest
    BY <1>1, <1>3, ElementOfSeq, LenProperties
  <1>5. Written(at, r) = [i \in 1..n |-> W(i)]
    BY DEF Written
  <1>6. SavedFor(collectionCache, apiApplicationId) => \A i \in 1..n : W(i) = Hole \/ W(i).home = apiApplicationId
    BY DEF SavedFor
  <1> HIDE DEF n, W
  <1>7. Written(at, r) \in Seq(ARequest)
    BY <1>2, <1>4, <1>5, IsASeq
  <1>8. DOMAIN Written(at, r) = 1..n /\ \A i \in 1..n : Written(at, r)[i] = W(i)
    BY <1>5
  <1> QED BY <1>6, <1>7, <1>8 DEF SavedFor

\* A request is saved at a position.
LEMMA SaveTargetIsAPosition ==
  ASSUME CollectionInv, NEW name
  PROVE  SaveTarget(name) \in Nat \ {0}
PROOF
  <1> DEFINE same == {i \in DOMAIN collectionCache : i # currentIndex /\ collectionCache[i].name = name}
             first == CHOOSE i \in same : \A j \in same : i <= j
  <1>1. Len(collectionCache) \in Nat /\ DOMAIN collectionCache = 1..Len(collectionCache) /\ currentIndex \in Nat
    BY LenProperties DEF CollectionInv, CollectionTypeOK
  <1>2. same \in SUBSET (1..Len(collectionCache))
    BY <1>1
  <1>3. same # {} => first \in same
    <2> HIDE DEF same
    <2>1. same # {} => \E i \in same : \A j \in same : i <= j
      BY <1>1, <1>2, FirstPosition
    <2> QED BY <2>1
  <1>4. SaveTarget(name) = IF currentIndex # 0 THEN currentIndex
                           ELSE IF same # {} THEN first ELSE Len(collectionCache) + 1
    BY DEF SaveTarget, None
  <1> HIDE DEF same, first
  <1>5. CASE currentIndex # 0
    BY <1>1, <1>4, <1>5
  <1>6. CASE currentIndex = 0 /\ same # {}
    <2>1. first \in 1..Len(collectionCache) /\ SaveTarget(name) = first
      BY <1>2, <1>3, <1>4, <1>6
    <2> QED BY <1>1, <2>1
  <1>7. CASE currentIndex = 0 /\ same = {}
    BY <1>1, <1>4, <1>7
  <1> QED BY <1>5, <1>6, <1>7

\* A request saved goes to the place chosen for it.
LEMMA SaveKeepsPlaces ==
  ASSUME CollectionInv, NEW name \in RequestName, SaveRequest(name)
  PROVE  CollectionInv'
PROOF
  <1> DEFINE at == SaveTarget(name)
             w == Written(at, Saved(name))
  <1>1. at \in Nat \ {0}
    BY SaveTargetIsAPosition
  <1>2. currentIndex' = at /\ SaveCollection(w, FALSE) /\ UNCHANGED <<apiApplicationId, remoteCollectionId, remoteCollection, importing>>
    BY DEF SaveRequest
  <1>3. Saved(name) \in ARequest /\ Saved(name).home = apiApplicationId
    BY DEF Saved, ARequest, CollectionInv, CollectionTypeOK
  <1> HIDE DEF at
  <1>4. w \in Seq(ARequest) /\ (SavedFor(collectionCache, apiApplicationId) => SavedFor(w, apiApplicationId))
    BY <1>1, <1>3, WrittenIsSaved
  <1>5. ~tangled /\ flights = {} => SavedFor(w, apiApplicationId)
    BY <1>4 DEF CollectionInv, PlacesAreKept, RestIsSound
  <1>6. importing' # NoFile => importing' \in ARequest
    BY <1>2 DEF CollectionInv, CollectionTypeOK
  <1> HIDE DEF w
  <1> QED BY <1>1, <1>2, <1>4, <1>5, <1>6, SavingKeepsPlaces

\* A request removed leaves the others in theirs.
LEMMA RemovalKeepsPlaces ==
  ASSUME CollectionInv, NEW i \in 1..MaxSaved, RemoveSaved(i)
  PROVE  CollectionInv'
PROOF
  <1> DEFINE s == collectionCache
             w == RemoveAt(s, i)
  <1>1. /\ i \in DOMAIN s /\ currentIndex' = IndexAfterRemoval(i) /\ SaveCollection(w, FALSE)
        /\ UNCHANGED <<apiApplicationId, remoteCollectionId, remoteCollection, importing>>
    BY DEF RemoveSaved
  <1>2. s \in Seq(ARequest) /\ Len(s) \in Nat /\ DOMAIN s = 1..Len(s) /\ currentIndex \in Nat /\ i \in 1..Len(s)
    BY <1>1, LenProperties DEF CollectionInv, CollectionTypeOK
  <1>3. currentIndex' \in Nat
    BY <1>1, <1>2 DEF IndexAfterRemoval, None
  <1>4. w = SubSeq(s, 1, i - 1) \o SubSeq(s, i + 1, Len(s))
    BY DEF RemoveAt
  <1> HIDE DEF s
  <1>5. SubSeq(s, 1, i - 1) \in Seq(ARequest) /\ Len(SubSeq(s, 1, i - 1)) = i - 1 /\ \A j \in 1..(i - 1) : SubSeq(s, 1, i - 1)[j] = s[j]
    BY <1>2
  <1>6. SubSeq(s, i + 1, Len(s)) \in Seq(ARequest) /\ Len(SubSeq(s, i + 1, Len(s))) = Len(s) - i
        /\ \A j \in 1..(Len(s) - i) : SubSeq(s, i + 1, Len(s))[j] = s[i + j]
    <2> DEFINE k == i + 1
               n == Len(s)
               q == SubSeq(s, k, n)
    <2>1. k \in Int /\ n \in Int /\ \A j \in k..n : s[j] \in ARequest
      BY <1>2, ElementOfSeq
    <2>2. (IF k <= n THEN n - k + 1 ELSE 0) = n - i /\ n - k + 1 = n - i /\ \A j \in 1..(n - i) : k + j - 1 = i + j
      <3>1. n \in Nat /\ i \in 1..n
        BY <1>2
      <3> HIDE DEF n
      <3> QED BY <3>1
    <2> HIDE DEF k, n
    <2>3. q \in Seq(ARequest) /\ Len(q) = (IF k <= n THEN n - k + 1 ELSE 0) /\ \A j \in 1..(n - k + 1) : q[j] = s[k + j - 1]
      BY <2>1, SubSeqProperties
    <2> HIDE DEF q
    <2>4. q \in Seq(ARequest) /\ Len(q) = n - i /\ \A j \in 1..(n - i) : q[j] = s[i + j]
      BY <2>2, <2>3
    <2> QED BY <2>4 DEF q, k, n
  <1>7. w \in Seq(ARequest) /\ Len(w) = Len(s) - 1 /\ \A j \in 1..(Len(s) - 1) : w[j] = IF j < i THEN s[j] ELSE s[j + 1]
    <2> DEFINE p == SubSeq(s, 1, i - 1)
               q == SubSeq(s, i + 1, Len(s))
    <2>1. /\ p \in Seq(ARequest) /\ Len(p) = i - 1 /\ \A j \in 1..(i - 1) : p[j] = s[j]
          /\ q \in Seq(ARequest) /\ Len(q) = Len(s) - i /\ \A j \in 1..(Len(s) - i) : q[j] = s[i + j]
          /\ w = p \o q
      BY <1>4, <1>5, <1>6
    <2> HIDE DEF p, q, w
    <2>2. w \in Seq(ARequest) /\ Len(w) = Len(s) - 1 /\ Len(p) \in Nat /\ Len(q) \in Nat
      <3>1. w \in Seq(ARequest) /\ Len(w) = Len(p) + Len(q)
        BY <2>1, ConcatProperties
      <3> QED BY <1>2, <2>1, <3>1, LenProperties
    <2>3. \A j \in 1..(Len(s) - 1) : w[j] = IF j <= Len(p) THEN p[j] ELSE q[j - Len(p)]
      BY <1>2, <2>1
    <2>4. ASSUME NEW j \in 1..(Len(s) - 1)
          PROVE  w[j] = IF j < i THEN s[j] ELSE s[j + 1]
      <3>1. CASE j < i
        BY <1>2, <2>1, <2>3, <3>1
      <3>2. CASE j >= i
        <4>1. j - (i - 1) \in 1..(Len(s) - i) /\ i + (j - (i - 1)) = j + 1
          BY <1>2, <3>2
        <4>2. w[j] = q[j - (i - 1)] /\ q[j - (i - 1)] = s[i + (j - (i - 1))]
          BY <1>2, <2>1, <2>3, <3>2, <4>1
        <4> QED BY <1>2, <3>2, <4>1, <4>2
      <3> QED BY <1>2, <3>1, <3>2
    <2> QED BY <2>2, <2>4
  <1> HIDE DEF w
  <1>8. SavedFor(s, apiApplicationId) => SavedFor(w, apiApplicationId)
    BY <1>2, <1>7 DEF SavedFor
  <1>9. ~tangled /\ flights = {} => SavedFor(w, apiApplicationId)
    BY <1>8 DEF CollectionInv, PlacesAreKept, RestIsSound, s
  <1>10. importing' # NoFile => importing' \in ARequest
    BY <1>1 DEF CollectionInv, CollectionTypeOK
  <1> QED BY <1>1, <1>3, <1>7, <1>9, <1>10, SavingKeepsPlaces

\* Among positions there is a last one.
LEMMA LastPosition ==
  ASSUME NEW m \in Nat, NEW I \in SUBSET (1..m), I # {}
  PROVE  \E i \in I : \A j \in I : j <= i
PROOF
  <1> DEFINE J == {m + 1 - i : i \in I}
  <1>0. \A i \in I : i \in 1..m /\ i \in Int /\ m + 1 - i \in 1..m
    OBVIOUS
  <1>1. J \in SUBSET (1..m) /\ J # {}
    BY <1>0
  <1>2. PICK k \in J : \A j \in J : k <= j
    <2> HIDE DEF J
    <2> QED BY <1>1, FirstPosition
  <1>3. PICK i \in I : k = m + 1 - i
    OBVIOUS
  <1>4. \A j \in I : m + 1 - i <= m + 1 - j
    BY <1>2, <1>3
  <1>5. \A j \in I : j <= i
    BY <1>0, <1>4
  <1> QED BY <1>5

\* Merged by name, a list holds nothing but what it held.
LEMMA MergedHoldsNothingElse ==
  ASSUME NEW s \in Seq(ARequest)
  PROVE  /\ ByName(s) \in Seq(ARequest)
         /\ \A n \in DOMAIN ByName(s) : \E i \in DOMAIN s : ByName(s)[n] = s[i]
PROOF
  <1> DEFINE last == [i \in DOMAIN s |-> LastOfItsName(s, i)]
             I == FirstOfItsName(s)
  <1>1. Len(s) \in Nat /\ DOMAIN s = 1..Len(s)
    BY LenProperties
  <1>2. ASSUME NEW i \in DOMAIN s
        PROVE  \E k \in DOMAIN s : LastOfItsName(s, i) = s[k]
    <2> DEFINE K == {k \in DOMAIN s : s[k].name = s[i].name}
    <2>1. K \in SUBSET (1..Len(s)) /\ K # {}
      BY <1>1
    <2>2. \E k \in K : \A j \in K : j <= k
      <3> HIDE DEF K
      <3> QED BY <1>1, <2>1, LastPosition
    <2>3. \E k \in DOMAIN s : s[k].name = s[i].name /\ \A j \in DOMAIN s : s[j].name = s[i].name => j <= k
      BY <2>2
    <2> DEFINE found == CHOOSE k \in DOMAIN s : s[k].name = s[i].name /\ \A j \in DOMAIN s : s[j].name = s[i].name => j <= k
    <2>4. found \in DOMAIN s
      BY <2>3
    <2> QED BY <2>4 DEF LastOfItsName
  <1>3. \A i \in 1..Len(s) : last[i] \in ARequest /\ \E k \in DOMAIN s : last[i] = s[k]
    <2>1. ASSUME NEW i \in 1..Len(s)
          PROVE  last[i] \in ARequest /\ \E k \in DOMAIN s : last[i] = s[k]
      <3>1. PICK k \in DOMAIN s : LastOfItsName(s, i) = s[k]
        BY <1>1, <1>2
      <3>2. s[k] \in ARequest
        BY <1>1, ElementOfSeq
      <3> QED BY <1>1, <3>1, <3>2
    <2> QED BY <2>1
  <1>4. last = [i \in 1..Len(s) |-> last[i]] /\ DOMAIN last = 1..Len(s)
    BY <1>1
  <1>5. I \in SUBSET (1..Len(s)) /\ ByName(s) = Picked(last, I)
    BY <1>1 DEF FirstOfItsName, ByName
  <1> HIDE DEF last, I
  <1>6. last \in Seq(ARequest) /\ Len(last) = Len(s)
    <2>1. last \in Seq(ARequest)
      BY <1>1, <1>3, <1>4, IsASeq
    <2> QED BY <1>1, <1>4, <2>1, LenProperties
  <1>7. Picked(last, I) \in Seq(ARequest) /\ \A n \in DOMAIN Picked(last, I) : \E i \in I : Picked(last, I)[n] = last[i]
    BY <1>5, <1>6, PickedProperties, PickedFrom
  <1> QED BY <1>3, <1>5, <1>7

\* A file that is read goes to the place chosen, among what was there; the
\* page knows when it was meant for another.
LEMMA FileKeepsPlaces ==
  ASSUME CollectionInv, FileRead
  PROVE  CollectionInv'
PROOF
  <1> DEFINE s == Append(collectionCache, importing)
             w == ByName(s)
             astray == importing.home # apiApplicationId
  <1>1. /\ importing # NoFile /\ importing' = NoFile /\ currentIndex' = None /\ SaveCollection(w, astray)
        /\ UNCHANGED <<apiApplicationId, remoteCollectionId, remoteCollection>>
    BY DEF FileRead
  <1>2. collectionCache \in Seq(ARequest) /\ importing \in ARequest /\ Len(collectionCache) \in Nat
    BY <1>1, LenProperties DEF CollectionInv, CollectionTypeOK
  <1>3. s \in Seq(ARequest) /\ \A i \in DOMAIN s : s[i] = importing \/ \E j \in DOMAIN collectionCache : s[i] = collectionCache[j]
    BY <1>2, AppendProperties, LenProperties
  <1> HIDE DEF s
  <1>4. w \in Seq(ARequest) /\ \A n \in DOMAIN w : \E i \in DOMAIN s : w[n] = s[i]
    BY <1>3, MergedHoldsNothingElse
  <1> HIDE DEF w
  <1>5. ~tangled /\ ~astray /\ flights = {} => SavedFor(w, apiApplicationId)
    <2> SUFFICES ASSUME ~tangled, ~astray, flights = {}, NEW n \in DOMAIN w
                 PROVE  w[n] = Hole \/ w[n].home = apiApplicationId
      BY DEF SavedFor
    <2>1. \A j \in DOMAIN collectionCache : collectionCache[j] = Hole \/ collectionCache[j].home = apiApplicationId
      BY DEF CollectionInv, PlacesAreKept, RestIsSound, SavedFor
    <2>2. PICK i \in DOMAIN s : w[n] = s[i]
      BY <1>4
    <2> QED BY <1>3, <2>1, <2>2
  <1>6. astray \in BOOLEAN /\ currentIndex' \in Nat
    BY <1>1 DEF None
  <1> HIDE DEF astray
  <1> QED BY <1>1, <1>4, <1>5, <1>6, SavingKeepsPlaces

\* The place chosen: the browser's list at once, an application's when read.
LEMMA ChoosingKeepsPlaces ==
  ASSUME CollectionInv, NEW a \in ApiApp \cup {Browser}, UseApplication(a)
  PROVE  CollectionInv'
PROOF
  <1>1. a # apiApplicationId /\ apiApplicationId' = a /\ remoteCollectionId' = NoId /\ UNCHANGED <<currentIndex, localCollection, remoteCollection>>
    BY DEF UseApplication
  <1>2. CASE a = Browser
    <2>1. collectionCache' = localCollection /\ tangled' = (tangled \/ flights # {}) /\ UNCHANGED <<flights, flightsSent, importing>>
      BY <1>2 DEF UseApplication
    <2>2. tangled' \in BOOLEAN /\ (~tangled' => ~tangled /\ flights = {})
      BY <2>1
    <2>3. CollectionTypeOK'
      BY <1>1, <2>1, <2>2 DEF CollectionInv, CollectionTypeOK
    <2>4. PlacesAreKept'
      BY <1>1, <1>2, <2>1, <2>2 DEF CollectionInv, PlacesAreKept, RestIsSound, SavedFor
    <2> QED BY <2>3, <2>4 DEF CollectionInv
  <1>3. CASE a # Browser
    <2>1. TakeOff("read", a, NoId, <<>>, FALSE) /\ UNCHANGED <<collectionCache, importing>> /\ a \in ApiApp
      BY <1>3 DEF UseApplication
    <2>2. /\ flightsSent' \in Nat /\ flights' \subseteq AFlight /\ tangled' \in BOOLEAN
          /\ ~tangled' => /\ ~tangled /\ flights = {}
                          /\ \E f \in AFlight : flights' = {f} /\ f.kind = "read" /\ f.app = a /\ f.id = NoId /\ f.requests = <<>> /\ f.at = "sent"
      <3>4. <<>> \in Seq(ARequest)
        OBVIOUS
      <3>1. PICK none \in Seq(ARequest) : none = <<>>
        BY <3>4, Zenon
      <3>2. TakeOff("read", a, NoId, none, FALSE)
        BY <2>1, <3>1
      <3> DEFINE f == [n |-> flightsSent, kind |-> "read", app |-> a, id |-> NoId, requests |-> none, at |-> "sent"]
      <3>3. f \in AFlight /\ f.kind = "read" /\ f.app = a /\ f.id = NoId /\ f.requests = none /\ f.at = "sent"
        BY <2>1 DEF AFlight, CollectionInv, CollectionTypeOK
      <3>5. flights' = flights \cup {f} /\ flightsSent' = flightsSent + 1 /\ tangled' = (tangled \/ FALSE \/ flights # {})
        BY <3>2 DEF TakeOff
      <3>6. CollectionTypeOK
        BY DEF CollectionInv
      <3> HIDE DEF f
      <3>7. /\ flightsSent' \in Nat /\ flights' \subseteq AFlight /\ tangled' \in BOOLEAN
            /\ ~tangled' => ~tangled /\ flights = {} /\ flights' = {f}
        BY <3>3, <3>5, <3>6, TakeOffIsAlone
      <3> QED BY <3>1, <3>3, <3>7, Zenon
    <2>3. CollectionTypeOK'
      BY <1>1, <2>1, <2>2 DEF CollectionInv, CollectionTypeOK
    <2>4. ASSUME ~tangled'
          PROVE  \E f \in AFlight : flights' = {f} /\ FlightIsSound(f)'
      <3>1. PICK f \in AFlight : flights' = {f} /\ f.kind = "read" /\ f.app = a /\ f.id = NoId /\ f.requests = <<>> /\ f.at = "sent"
        BY <2>2, <2>4
      <3>2. FlightIsSound(f)'
        BY <1>1, <3>1 DEF FlightIsSound
      <3> QED BY <3>1, <3>2
    <2>5. PlacesAreKept'
      BY <1>1, <2>1, <2>2, <2>4 DEF CollectionInv, PlacesAreKept
    <2> QED BY <2>3, <2>5 DEF CollectionInv
  <1> QED BY <1>2, <1>3

\* What the server keeps of a list saved for one place.
LEMMA ShareableIsSaved ==
  ASSUME NEW s \in Seq(ARequest), NEW place, place # NoId, SavedFor(s, place)
  PROVE  AllSavedFor(Shareable(s), place) /\ SavedFor(Shareable(s), place) /\ Shareable(s) # Missing
PROOF
  <1>1. AllSavedFor(Shareable(s), place)
    BY ShareableKeeps DEF SavedFor, AllSavedFor
  <1>2. Shareable(s) # Missing
    <2>1. 1 \in DOMAIN Missing /\ Missing[1].home = NoId
      BY DEF Missing
    <2> HIDE DEF Missing
    <2> QED BY <1>1, <2>1 DEF AllSavedFor
  <1> QED BY <1>1, <1>2 DEF SavedFor, AllSavedFor

\* The server writes what it was sent where it was saved for, or answers what
\* it has.
LEMMA ServerKeepsPlaces ==
  ASSUME CollectionInv, NEW f \in flights, ServerHandles(f)
  PROVE  CollectionInv'
PROOF
  <1> DEFINE made == f.kind = "push" /\ f.id = NoId /\ remoteCollection[f.app] = Missing
             put == f.kind = "push" /\ f.id # NoId
             to == IF put THEN f.id ELSE f.app
             sent == IF f.kind = "read" THEN remoteCollection[f.app] ELSE Shareable(f.requests)
             id == IF f.kind = "read" /\ remoteCollection[f.app] = Missing THEN NoId ELSE to
             at == IF made \/ put \/ f.kind = "read" THEN "good" ELSE "bad"
             g == [f EXCEPT !.at = at, !.requests = sent, !.id = id]
  <1>1. f \in AFlight
    BY DEF CollectionInv, CollectionTypeOK
  <1>2. /\ flights' = (flights \ {f}) \cup {g} /\ f.at = "sent"
        /\ remoteCollection' = IF made \/ put THEN [remoteCollection EXCEPT ![to] = Shareable(f.requests)] ELSE remoteCollection
        /\ UNCHANGED <<apiApplicationId, remoteCollectionId, collectionCache, currentIndex, localCollection, flightsSent, tangled, importing>>
    BY DEF ServerHandles
  <1>3. /\ f.app \in ApiApp /\ f.id \in ApiApp \cup {NoId} /\ f.requests \in Seq(ARequest) /\ f.kind \in {"push", "read"}
        /\ remoteCollection[f.app] \in Seq(ARequest) /\ Shareable(f.requests) \in Seq(ARequest)
    BY <1>1, ShareableKeeps DEF AFlight, CollectionInv, CollectionTypeOK
  <1>4. to \in ApiApp /\ id \in ApiApp \cup {NoId} /\ sent \in Seq(ARequest) /\ at \in {"good", "bad"}
    BY <1>3
  <1>5. g \in AFlight /\ g.kind = f.kind /\ g.app = f.app /\ g.id = id /\ g.requests = sent /\ g.at = at
    <2> HIDE DEF to, id, sent, at
    <2> QED BY <1>1, <1>4 DEF AFlight
  <1>9. PICK h \in AFlight : flights' = (flights \ {f}) \cup {h} /\ h.kind = f.kind /\ h.app = f.app /\ h.id = id /\ h.requests = sent /\ h.at = at
    <2> HIDE DEF g, id, sent, at
    <2> QED BY <1>2, <1>5
  <1>6. CollectionTypeOK'
    <2>1. remoteCollection' \in [ApiApp -> Seq(ARequest)]
      <3> HIDE DEF made, put, to
      <3> QED BY <1>2, <1>3, <1>4 DEF CollectionInv, CollectionTypeOK
    <2>2. flights' \subseteq AFlight
      <3> QED BY <1>9 DEF CollectionInv, CollectionTypeOK
    <2> QED BY <1>2, <2>1, <2>2 DEF CollectionInv, CollectionTypeOK
  <1>7. ASSUME ~tangled
        PROVE  /\ \A a \in ApiApp : remoteCollection'[a] # Missing => AllSavedFor(remoteCollection'[a], a)
               /\ flights' = {h} /\ FlightIsSound(h)'
    <2> DEFINE A == apiApplicationId
    <2>1. /\ flights = {f} /\ FlightIsSound(f) /\ A \in ApiApp /\ A # NoId
          /\ \A a \in ApiApp : remoteCollection[a] # Missing => AllSavedFor(remoteCollection[a], a)
      BY <1>7, ApiTestsAssumption DEF CollectionInv, PlacesAreKept
    <2>2. f.app = A /\ flights' = {h}
      <3> QED BY <1>9, <2>1 DEF FlightIsSound
    <2>3. CASE f.kind = "read"
      <3>1. sent = remoteCollection[A] /\ id = (IF remoteCollection[A] = Missing THEN NoId ELSE A) /\ at = "good" /\ remoteCollection' = remoteCollection
        BY <1>2, <2>2, <2>3
      <3> HIDE DEF made, put, to, sent, id, at
      <3>2. FlightIsSound(h)'
        BY <1>2, <1>9, <2>1, <2>2, <2>3, <3>1 DEF FlightIsSound
      <3> QED BY <2>1, <2>2, <3>1, <3>2
    <2>4. CASE f.kind = "push"
      <3>1. f.id \in {NoId, A} /\ SavedFor(f.requests, A)
        BY <2>1, <2>4 DEF FlightIsSound
      <3>2. AllSavedFor(Shareable(f.requests), A) /\ SavedFor(Shareable(f.requests), A) /\ Shareable(f.requests) # Missing
        BY <1>3, <2>1, <3>1, ShareableIsSaved
      <3>3. to = A /\ id = A /\ sent = Shareable(f.requests)
        BY <2>2, <2>4, <3>1
      <3>4. CASE made \/ put
        <4>1. at = "good"
          BY <3>4
        <4>2. remoteCollection' = [remoteCollection EXCEPT ![A] = Shareable(f.requests)]
          BY <1>2, <3>3, <3>4
        <4>3. remoteCollection'[A] = Shareable(f.requests) /\ \A a \in ApiApp : a # A => remoteCollection'[a] = remoteCollection[a]
          BY <2>1, <4>2 DEF CollectionInv, CollectionTypeOK
        <4> HIDE DEF made, put, to, sent, id, at
        <4>4. FlightIsSound(h)'
          BY <1>2, <1>9, <2>1, <2>2, <2>4, <3>2, <3>3, <4>1, <4>3 DEF FlightIsSound
        <4>5. ASSUME NEW a \in ApiApp, remoteCollection'[a] # Missing
              PROVE  AllSavedFor(remoteCollection'[a], a)
          BY <2>1, <3>2, <4>3, <4>5
        <4> QED BY <2>2, <4>4, <4>5
      <3>5. CASE ~(made \/ put)
        <4>1. at = "bad" /\ remoteCollection' = remoteCollection
          BY <1>2, <2>4, <3>5
        <4> HIDE DEF made, put, to, sent, id, at
        <4>2. FlightIsSound(h)'
          BY <1>2, <1>9, <2>1, <2>2, <2>4, <3>2, <3>3, <4>1 DEF FlightIsSound
        <4> QED BY <2>1, <2>2, <4>1, <4>2
      <3> QED BY <3>4, <3>5
    <2> QED BY <1>3, <2>3, <2>4
  <1>8. PlacesAreKept'
    <2> QED BY <1>2, <1>3, <1>7, <1>9, Zenon DEF CollectionInv, PlacesAreKept
  <1> QED BY <1>6, <1>8 DEF CollectionInv

\* An answer adopted is the list the place chosen keeps; a flight that fails
\* leaves an empty list, or is known to have failed.
LEMMA LandingKeepsPlaces ==
  ASSUME CollectionInv, NEW f \in flights, Adopt(f) \/ FlightFails(f)
  PROVE  CollectionInv'
PROOF
  <1>1. f \in AFlight /\ f.requests \in Seq(ARequest) /\ f.id \in ApiApp \cup {NoId} /\ f.kind \in {"push", "read"}
    BY DEF CollectionInv, CollectionTypeOK, AFlight
  <1>2. /\ flights' = flights \ {f}
        /\ UNCHANGED <<apiApplicationId, currentIndex, localCollection, remoteCollection, flightsSent, importing>>
    BY DEF Adopt, FlightFails
  <1>3. ~tangled => /\ flights = {f} /\ FlightIsSound(f) /\ apiApplicationId \in ApiApp
                    /\ \A a \in ApiApp : remoteCollection[a] # Missing => AllSavedFor(remoteCollection[a], a)
    BY DEF CollectionInv, PlacesAreKept
  <1>4. <<>> \in Seq(ARequest)
    OBVIOUS
  <1>5. CASE Adopt(f)
    <2>1. /\ f.at = "good" /\ remoteCollectionId' = f.id /\ tangled' = tangled
          /\ collectionCache' = IF f.requests = Missing THEN <<>> ELSE f.requests
      BY <1>5 DEF Adopt
    <2>2. CollectionTypeOK'
      BY <1>1, <1>2, <1>4, <2>1 DEF CollectionInv, CollectionTypeOK
    <2>3. ASSUME ~tangled
          PROVE  RestIsSound'
      <3>1. f.requests = remoteCollection[apiApplicationId] /\ f.id \in {NoId, apiApplicationId} /\ (f.id # NoId <=> f.requests # Missing)
        BY <1>3, <2>1, <2>3 DEF FlightIsSound
      <3>2. f.requests # Missing => SavedFor(f.requests, apiApplicationId)
        BY <1>3, <2>3, <3>1 DEF SavedFor, AllSavedFor
      <3>3. SavedFor(<<>>, apiApplicationId)
        BY DEF SavedFor
      <3> QED BY <1>2, <2>1, <3>1, <3>2, <3>3 DEF RestIsSound
    <2>4. PlacesAreKept'
      BY <1>2, <1>3, <2>1, <2>3 DEF CollectionInv, PlacesAreKept
    <2> QED BY <2>2, <2>4 DEF CollectionInv
  <1>6. CASE FlightFails(f)
    <2>1. /\ collectionCache' = IF f.kind = "read" THEN <<>> ELSE collectionCache
          /\ remoteCollectionId' = remoteCollectionId
      BY <1>6 DEF FlightFails, CacheAfterFailure
    <2>2. tangled' \in BOOLEAN /\ (~tangled' => ~tangled /\ f.kind = "read")
      BY <1>1, <1>6 DEF FlightFails
    <2>3. CollectionTypeOK'
      BY <1>1, <1>2, <1>4, <2>1, <2>2 DEF CollectionInv, CollectionTypeOK
    <2>4. ASSUME ~tangled'
          PROVE  RestIsSound'
      <3>1. remoteCollectionId' = NoId /\ collectionCache' = <<>>
        BY <1>3, <2>1, <2>2, <2>4 DEF FlightIsSound
      <3> QED BY <3>1 DEF RestIsSound, SavedFor
    <2>5. PlacesAreKept'
      BY <1>2, <1>3, <2>2, <2>4 DEF CollectionInv, PlacesAreKept
    <2> QED BY <2>3, <2>5 DEF CollectionInv
  <1> QED BY <1>5, <1>6

\* No step breaks that saved requests are in their place.
LEMMA CollectionStep ==
  ASSUME CollectionInv, [ApiPageNext]_apiPageVars
  PROVE  CollectionInv'
PROOF
  <1>1. ASSUME UNCHANGED <<apiApplicationId, remoteCollectionId, collectionCache, localCollection, remoteCollection, flights, flightsSent, tangled>>,
               currentIndex' \in Nat, importing' # NoFile => importing' \in ARequest
        PROVE  CollectionInv'
    <2>1. CollectionTypeOK'
      BY <1>1 DEF CollectionInv, CollectionTypeOK
    <2>2. PlacesAreKept'
      BY <1>1 DEF CollectionInv, PlacesAreKept, RestIsSound, FlightIsSound
    <2> QED BY <2>1, <2>2 DEF CollectionInv
  <1>2. currentIndex \in Nat /\ None \in Nat /\ (importing # NoFile => importing \in ARequest)
    BY DEF CollectionInv, CollectionTypeOK, None
  <1>3. CASE UNCHANGED apiPageVars
    BY <1>1, <1>2, <1>3 DEF apiPageVars, collectionVars
  <1>4. ASSUME NEW i \in 1..MaxSaved, OpenSaved(i)
        PROVE  CollectionInv'
    BY <1>1, <1>2, <1>4, ApiTestsAssumption DEF OpenSaved
  <1>5. CASE SendRequest \/ SendEnds \/ ClearHistory
    BY <1>1, <1>2, <1>5 DEF SendRequest, SendEnds, ClearHistory, collectionVars
  <1>6. CASE ClearRequest \/ ReuseSent \/ \E wipes \in BOOLEAN : AbortSend(wipes)
    BY <1>1, <1>2, <1>6 DEF ClearRequest, ReuseSent, AbortSend
  <1>7. ASSUME NEW name \in RequestName, PickFile(name)
        PROVE  CollectionInv'
    <2>1. Saved(name) \in ARequest
      BY DEF Saved, ARequest, CollectionInv, CollectionTypeOK
    <2> QED BY <1>1, <1>2, <1>7, <2>1 DEF PickFile
  <1>8. CASE FileRefused
    BY <1>1, <1>2, <1>8 DEF FileRefused
  <1> QED BY <1>3, <1>4, <1>5, <1>6, <1>7, <1>8, FileKeepsPlaces, SaveKeepsPlaces, RemovalKeepsPlaces, ChoosingKeepsPlaces, ServerKeepsPlaces, LandingKeepsPlaces DEF ApiPageNext

\* What a person saves or imports stays where it was meant, unless a push or a
\* read crossed another, a push failed, or another place was chosen while a file
\* was being read (browser/api-tests.ts).
THEOREM SavedRequestsStay == ApiPageSpec => []SavedWhereChosen
PROOF
  <1>1. CollectionInv => SavedWhereChosen
    <2> SUFFICES ASSUME CollectionInv, ~tangled
                 PROVE  /\ \A a \in ApiApp : remoteCollection[a] # Missing => \A r \in ToSet(remoteCollection[a]) : r.home = a
                        /\ \A r \in ToSet(localCollection) \ {Hole} : r.home = Browser
                        /\ flights = {} /\ remoteCollectionId # NoId => remoteCollectionId = apiApplicationId /\ collectionCache = remoteCollection[apiApplicationId]
      BY DEF SavedWhereChosen
    <2>1. \A a \in ApiApp : remoteCollection[a] # Missing => \A r \in ToSet(remoteCollection[a]) : r.home = a
      BY DEF CollectionInv, PlacesAreKept, AllSavedFor, ToSet
    <2>2. \A r \in ToSet(localCollection) \ {Hole} : r.home = Browser
      BY DEF CollectionInv, PlacesAreKept, SavedFor, ToSet
    <2>3. flights = {} /\ remoteCollectionId # NoId => remoteCollectionId = apiApplicationId /\ collectionCache = remoteCollection[apiApplicationId]
      BY DEF CollectionInv, PlacesAreKept, RestIsSound
    <2> QED BY <2>1, <2>2, <2>3
  <1> QED BY <1>1, CollectionStarts, CollectionStep, PTL DEF ApiPageSpec
-----------------------------------------------------------------------------
(* Sending                                                                   *)

\* The history lists sends that have ended, the newest first.
HistoryOfEndedSends(h) ==
  /\ h \in Seq(Nat) /\ Len(h) <= ApiHistoryLimit
  /\ \A i \in DOMAIN h : h[i] <= sends /\ (sendAt = "sent" => h[i] < sends)
  /\ \A i, j \in DOMAIN h : i < j => h[i] > h[j]

SendInv ==
  /\ sends \in Nat /\ sendAt \in {"idle", "sent"}
  /\ responseOf \in {0, sends} /\ (sendAt = "sent" => responseOf = 0)
  /\ HistoryOfEndedSends(apiHistory)

\* Holds at first: that the history is of ended sends, in falling order.
LEMMA SendStarts == ApiPageInit => SendInv
PROOF
  <1> SUFFICES ASSUME ApiPageInit PROVE SendInv
    OBVIOUS
  <1>1. apiHistory = <<>> /\ sends = 0 /\ sendAt = "idle" /\ responseOf = 0 /\ ApiHistoryLimit \in Nat
    BY ApiTestsAssumption DEF ApiPageInit
  <1> QED BY <1>1 DEF SendInv, HistoryOfEndedSends

\* A send put before the history, cut at the limit.
NewestFirst(h, s, n) == SubSeq(<<s>> \o h, 1, n)

\* A history with a new send in front, cut to n, is in falling order.
LEMMA NewestFirstKeepsOrder ==
  ASSUME NEW h \in Seq(Nat), NEW s \in Nat, NEW n \in Nat, n \in 1..(Len(h) + 1),
         \A i \in DOMAIN h : h[i] < s,
         \A i, j \in DOMAIN h : i < j => h[i] > h[j]
  PROVE  /\ NewestFirst(h, s, n) \in Seq(Nat) /\ Len(NewestFirst(h, s, n)) = n
         /\ \A i \in DOMAIN NewestFirst(h, s, n) : NewestFirst(h, s, n)[i] <= s
         /\ \A i, j \in DOMAIN NewestFirst(h, s, n) : i < j => NewestFirst(h, s, n)[i] > NewestFirst(h, s, n)[j]
PROOF
  <1> DEFINE m == <<s>> \o h
             new == NewestFirst(h, s, n)
  <1>1. m \in Seq(Nat) /\ Len(m) = Len(h) + 1
    OBVIOUS
  <1>2. \A i \in 1..Len(m) : m[i] = IF i = 1 THEN s ELSE h[i - 1]
    OBVIOUS
  <1>3. \A i \in 1..Len(m) : m[i] <= s
    BY <1>1, <1>2
  <1>4. \A i, j \in 1..Len(m) : i < j => m[i] > m[j]
    BY <1>1, <1>2
  <1>5. new = SubSeq(m, 1, n)
    BY DEF NewestFirst
  <1> HIDE DEF m, new
  <1>6. SubSeq(m, 1, n) \in Seq(Nat) /\ Len(SubSeq(m, 1, n)) = n /\ \A i \in 1..n : SubSeq(m, 1, n)[i] = m[i]
    BY <1>1
  <1>7. new \in Seq(Nat) /\ Len(new) = n
    BY <1>5, <1>6
  <1>8. DOMAIN new = 1..n /\ 1..n \subseteq 1..Len(m)
    BY <1>1, <1>7
  <1>9. \A i \in 1..n : new[i] = m[i]
    BY <1>5, <1>6
  <1>10. \A i \in DOMAIN new : new[i] <= s
    BY <1>3, <1>8, <1>9
  <1>11. \A i, j \in DOMAIN new : i < j => new[i] > new[j]
    BY <1>4, <1>8, <1>9
  <1> QED BY <1>7, <1>10, <1>11, Zenon DEF new

\* A request ends with its own record, shown or not.
LEMMA EndKeepsTheHistory ==
  ASSUME SendInv, SendEnds
  PROVE  SendInv'
PROOF
  <1> DEFINE n == IF Len(apiHistory) < ApiHistoryLimit THEN Len(apiHistory) + 1 ELSE ApiHistoryLimit
  <1>1. /\ sendAt = "sent" /\ sendAt' = "idle" /\ responseOf' \in {sends, responseOf} /\ sends' = sends
        /\ apiHistory' = SubSeq(<<sends>> \o apiHistory, 1, n)
    BY DEF SendEnds, RecordSend
  <1>2. /\ apiHistory \in Seq(Nat) /\ Len(apiHistory) <= ApiHistoryLimit /\ sends \in Nat
        /\ \A i \in DOMAIN apiHistory : apiHistory[i] < sends
        /\ \A i, j \in DOMAIN apiHistory : i < j => apiHistory[i] > apiHistory[j]
    BY <1>1 DEF SendInv, HistoryOfEndedSends
  <1>3. ApiHistoryLimit \in Nat /\ ApiHistoryLimit > 0
    BY ApiTestsAssumption
  <1>4. n \in Nat /\ n \in 1..(Len(apiHistory) + 1) /\ n <= ApiHistoryLimit
    BY <1>2, <1>3
  <1> HIDE DEF n
  <1>5. /\ apiHistory' \in Seq(Nat) /\ Len(apiHistory') = n
        /\ \A i \in DOMAIN apiHistory' : apiHistory'[i] <= sends
        /\ \A i, j \in DOMAIN apiHistory' : i < j => apiHistory'[i] > apiHistory'[j]
    <2>1. apiHistory' = NewestFirst(apiHistory, sends, n)
      BY <1>1 DEF NewestFirst
    <2>2. /\ NewestFirst(apiHistory, sends, n) \in Seq(Nat) /\ Len(NewestFirst(apiHistory, sends, n)) = n
          /\ \A i \in DOMAIN NewestFirst(apiHistory, sends, n) : NewestFirst(apiHistory, sends, n)[i] <= sends
          /\ \A i, j \in DOMAIN NewestFirst(apiHistory, sends, n) : i < j => NewestFirst(apiHistory, sends, n)[i] > NewestFirst(apiHistory, sends, n)[j]
      BY <1>2, <1>4, NewestFirstKeepsOrder
    <2> QED BY <2>1, <2>2, Zenon
  <1>6. HistoryOfEndedSends(apiHistory)'
    BY <1>1, <1>4, <1>5 DEF HistoryOfEndedSends
  <1> QED BY <1>1, <1>2, <1>6 DEF SendInv

\* No step breaks that the history is of ended sends, in falling order.
LEMMA SendStep ==
  ASSUME SendInv, [ApiPageNext]_apiPageVars
  PROVE  SendInv'
PROOF
  <1>1. ASSUME UNCHANGED sendVars
        PROVE  SendInv'
    BY <1>1 DEF sendVars, SendInv, HistoryOfEndedSends
  <1>2. CASE UNCHANGED apiPageVars
    BY <1>1, <1>2 DEF apiPageVars
  <1>3. ASSUME (\E x \in RequestName : SaveRequest(x) \/ PickFile(x)) \/ FileRead \/ FileRefused \/ ReuseSent \/ (\E i \in 1..MaxSaved : OpenSaved(i) \/ RemoveSaved(i))
               \/ \E a \in ApiApp \cup {Browser} : UseApplication(a)
        PROVE  SendInv'
    BY <1>1, <1>3 DEF SaveRequest, PickFile, FileRead, FileRefused, ReuseSent, OpenSaved, RemoveSaved, UseApplication
  <1>4. ASSUME \E f \in flights : ServerHandles(f) \/ Adopt(f) \/ FlightFails(f)
        PROVE  SendInv'
    BY <1>1, <1>4 DEF ServerHandles, Adopt, FlightFails
  <1>5. CASE SendRequest
    BY <1>5 DEF SendRequest, SendInv, HistoryOfEndedSends
  <1>6. CASE ClearRequest \/ \E wipes \in BOOLEAN : AbortSend(wipes)
    BY <1>6 DEF ClearRequest, AbortSend, SendInv, HistoryOfEndedSends
  <1>7. CASE ClearHistory
    <2>1. apiHistory' = <<>> /\ UNCHANGED <<sends, sendAt, responseOf>> /\ ApiHistoryLimit \in Nat
      BY <1>7, ApiTestsAssumption DEF ClearHistory
    <2>2. HistoryOfEndedSends(apiHistory)'
      BY <2>1 DEF HistoryOfEndedSends
    <2> QED BY <2>1, <2>2 DEF SendInv
  <1> QED BY <1>2, <1>3, <1>4, <1>5, <1>6, <1>7, EndKeepsTheHistory DEF ApiPageNext

\* The response on the screen is the last request's, and the history holds no
\* request twice, newest first, within its limit (browser/api-tests.ts).
THEOREM ResponseIsTheLastRequests == ApiPageSpec => []ResponseIsOfTheLastSend
PROOF
  <1>1. SendInv => ResponseIsOfTheLastSend
    BY DEF SendInv, HistoryOfEndedSends, ResponseIsOfTheLastSend
  <1> QED BY <1>1, SendStarts, SendStep, PTL DEF ApiPageSpec
-----------------------------------------------------------------------------
(* The webhook box                                                           *)

Call == Box \X Nat
BoxRecord == [state : {"unopened", "open", "expired"}, kept : SUBSET Call, emptied : Nat]

\* A box keeps calls of its own, numbered after the last one it was emptied of.
BoxesKeepTheirCalls ==
  /\ box \in [Box -> BoxRecord]
  /\ \A b \in Box : IsFiniteSet(box[b].kept) /\ \A call \in box[b].kept : call[1] = b /\ call[2] > box[b].emptied

\* The boxes the page names were opened; an answer lists calls of the box it
\* was asked of, or that box is gone.
RequestsAreOfOpenedBoxes ==
  /\ binId \in Box \cup {NoBox} /\ creating \in Box \cup {NoBox}
  /\ binId # NoBox => box[binId].state # "unopened"
  /\ expiredSaid \/ reads # {} => binId # NoBox
  /\ \A r \in reads :
       /\ r = [box |-> r.box, id |-> r.id, got |-> r.got, calls |-> r.calls]
       /\ r.box \in Box /\ box[r.box].state # "unopened" /\ r.got \in {"nothing", "list", "gone"}
       /\ r.calls \subseteq Call /\ \A call \in r.calls : call[1] = r.box
       /\ r.got = "gone" => box[r.box].state = "expired"
  /\ clears \subseteq [box : Box, served : BOOLEAN]

\* Where nothing of before was under way, what is shown and what is about to
\* be is of the box on the page, and of after it was emptied.
ShownIsOfTheBox ==
  ~disturbed =>
    /\ \A call \in chamadas : call[1] = binId
    /\ expiredSaid => creating # NoBox \/ box[binId].state = "expired"
    /\ \A r \in reads : r.box = binId /\ \A call \in r.calls : call[2] > box[binId].emptied

WebhookPageInv ==
  /\ disturbed \in BOOLEAN /\ expiredSaid \in BOOLEAN /\ chamadas \subseteq Call
  /\ BoxesKeepTheirCalls /\ RequestsAreOfOpenedBoxes /\ ShownIsOfTheBox

NothingErasedReturns ==
  ~disturbed' => \A call \in chamadas' \ chamadas : call[2] > box[call[1]].emptied

\* Holds at first: what the page of a box lists.
LEMMA WebhookPageStarts == WebhookPageInit => WebhookPageInv
PROOF
  <1> SUFFICES ASSUME WebhookPageInit PROVE WebhookPageInv
    OBVIOUS
  <1>1. BoxesKeepTheirCalls
    BY FS_EmptySet DEF WebhookPageInit, BoxesKeepTheirCalls, BoxRecord, Call
  <1>2. RequestsAreOfOpenedBoxes /\ ShownIsOfTheBox
    BY DEF WebhookPageInit, RequestsAreOfOpenedBoxes, ShownIsOfTheBox
  <1> QED BY <1>1, <1>2 DEF WebhookPageInit, WebhookPageInv

\* What the page shows stays sound while boxes fill, open and expire.
LEMMA BoxesMayMove ==
  ASSUME WebhookPageInv,
         \A b \in Box : /\ box'[b].emptied = box[b].emptied
                        /\ box[b].state # "unopened" => box'[b].state # "unopened"
                        /\ box[b].state = "expired" => box'[b].state = "expired",
         UNCHANGED <<binId, chamadas, creating, reads, clears, expiredSaid, disturbed>>
  PROVE  RequestsAreOfOpenedBoxes' /\ ShownIsOfTheBox'
PROOF
  <1>1. RequestsAreOfOpenedBoxes'
    BY DEF WebhookPageInv, RequestsAreOfOpenedBoxes
  <1>2. ~disturbed' => \A call \in chamadas' : call[1] = binId'
    BY DEF WebhookPageInv, ShownIsOfTheBox
  <1>3. ~disturbed' /\ expiredSaid' => creating' # NoBox \/ box'[binId'].state = "expired"
    BY DEF WebhookPageInv, ShownIsOfTheBox, RequestsAreOfOpenedBoxes
  <1>4. ASSUME ~disturbed', NEW r \in reads'
        PROVE  r.box = binId' /\ \A call \in r.calls : call[2] > box'[binId'].emptied
    BY <1>4 DEF WebhookPageInv, RequestsAreOfOpenedBoxes, ShownIsOfTheBox
  <1> QED BY <1>1, <1>2, <1>3, <1>4 DEF ShownIsOfTheBox

\* What is outside the page.
LEMMA BoxesKeepThePage ==
  ASSUME WebhookPageInv, BoxOpens \/ \E b \in Box : CallArrives(b) \/ BoxExpires(b)
  PROVE  WebhookPageInv' /\ NothingErasedReturns
PROOF
  <1> USE DEF WebhookPageInv, BoxesKeepTheirCalls
  <1>1. ASSUME NEW b \in Box, CallArrives(b)
        PROVE  WebhookPageInv'
    <2> DEFINE n == Cardinality(box[b].kept) + box[b].emptied + 1
               call == <<b, n>>
    <2>1. n \in Nat /\ n > box[b].emptied
      BY FS_CardinalityType DEF BoxRecord
    <2>2. call \in Call /\ call[1] = b /\ call[2] > box[b].emptied
      BY <2>1 DEF Call
    <2>3. box' = [box EXCEPT ![b].kept = @ \cup {call}] /\ UNCHANGED <<binId, chamadas, timer, creating, reads, clears, expiredSaid, disturbed>>
      BY <1>1 DEF CallArrives
    <2> HIDE DEF n, call
    <2>4. box' \in [Box -> BoxRecord] /\ box'[b].kept = box[b].kept \cup {call} /\ box'[b].emptied = box[b].emptied /\ box'[b].state = box[b].state
          /\ \A c \in Box : c # b => box'[c] = box[c]
      BY <2>2, <2>3 DEF BoxRecord
    <2>5. IsFiniteSet(box'[b].kept)
      <3>1. IsFiniteSet(box[b].kept)
        OBVIOUS
      <3>2. IsFiniteSet(box[b].kept \cup {call})
        BY <3>1, FS_AddElement
      <3> QED BY <2>4, <3>2
    <2>6. BoxesKeepTheirCalls'
      <3>1. ASSUME NEW c \in Box
            PROVE  IsFiniteSet(box'[c].kept) /\ \A x \in box'[c].kept : x[1] = c /\ x[2] > box'[c].emptied
        <4>1. CASE c = b
          BY <4>1, <2>2, <2>4, <2>5
        <4>2. CASE c # b
          BY <4>2, <2>4
        <4> QED BY <4>1, <4>2
      <3> QED BY <2>4, <3>1
    <2>7. RequestsAreOfOpenedBoxes' /\ ShownIsOfTheBox'
      BY <2>3, <2>4, BoxesMayMove
    <2> QED BY <2>3, <2>6, <2>7
  <1>2. ASSUME NEW b \in Box, BoxExpires(b)
        PROVE  WebhookPageInv'
    <2>1. box' \in [Box -> BoxRecord] /\ box'[b].kept = {} /\ box'[b].emptied = box[b].emptied /\ box'[b].state = "expired"
          /\ \A c \in Box : c # b => box'[c] = box[c]
      BY <1>2 DEF BoxExpires, BoxRecord
    <2>2. BoxesKeepTheirCalls'
      BY <2>1, FS_EmptySet
    <2>3. RequestsAreOfOpenedBoxes' /\ ShownIsOfTheBox'
      BY <1>2, <2>1, BoxesMayMove DEF BoxExpires
    <2> QED BY <1>2, <2>2, <2>3 DEF BoxExpires
  <1>3. ASSUME BoxOpens
        PROVE  WebhookPageInv'
    <2>1. creating \in Box /\ box[creating].state = "unopened"
      BY <1>3 DEF BoxOpens, RequestsAreOfOpenedBoxes
    <2>2. box' \in [Box -> BoxRecord] /\ box'[creating].kept = box[creating].kept /\ box'[creating].emptied = box[creating].emptied /\ box'[creating].state = "open"
          /\ \A c \in Box : c # creating => box'[c] = box[c]
      BY <1>3, <2>1 DEF BoxOpens, BoxRecord
    <2>3. BoxesKeepTheirCalls'
      BY <2>1, <2>2
    <2>4. RequestsAreOfOpenedBoxes' /\ ShownIsOfTheBox'
      BY <1>3, <2>1, <2>2, BoxesMayMove DEF BoxOpens
    <2> QED BY <1>3, <2>3, <2>4 DEF BoxOpens
  <1>4. chamadas' = chamadas
    BY DEF BoxOpens, CallArrives, BoxExpires
  <1> QED BY <1>1, <1>2, <1>3, <1>4 DEF NothingErasedReturns

\* A box is opened, in the place of the one before.
LEMMA OpeningKeepsThePage ==
  ASSUME WebhookPageInv, CreateAnswered \/ CreateFails \/ \E b \in Box : ClickCreate(b)
  PROVE  WebhookPageInv' /\ NothingErasedReturns
PROOF
  <1> USE DEF WebhookPageInv, RequestsAreOfOpenedBoxes, ShownIsOfTheBox, NothingErasedReturns
  <1>1. BoxesKeepTheirCalls'
    BY DEF CreateAnswered, CreateFails, ClickCreate, BoxesKeepTheirCalls
  <1>2. ASSUME NEW b \in Box, ClickCreate(b)
        PROVE  WebhookPageInv' /\ NothingErasedReturns
    BY <1>1, <1>2 DEF ClickCreate
  <1>3. CASE CreateFails
    BY <1>1, <1>3 DEF CreateFails
  <1>4. CASE CreateAnswered
    <2>1. /\ creating \in Box /\ box[creating].state # "unopened" /\ binId' = creating /\ chamadas' = {} /\ creating' = NoBox
          /\ UNCHANGED <<box, reads, clears, expiredSaid>>
      BY <1>4 DEF CreateAnswered, ListOnOpening
    <2>2. disturbed' \in BOOLEAN /\ (~disturbed' => reads = {} /\ ~expiredSaid)
      BY <1>4 DEF CreateAnswered
    <2>3. RequestsAreOfOpenedBoxes'
      BY <2>1, WebhookPageAssumption
    <2>4. ShownIsOfTheBox' /\ NothingErasedReturns
      BY <2>1, <2>2
    <2> QED BY <1>1, <2>1, <2>2, <2>3, <2>4
  <1> QED BY <1>2, <1>3, <1>4

\* The questions the page asks are of the box it shows.
LEMMA QuestionsKeepThePage ==
  ASSUME WebhookPageInv, Refresh \/ ToggleTimer \/ ClickEmpty \/ PageHidden \/ \E c \in clears : ClearAnswered(c)
  PROVE  WebhookPageInv' /\ NothingErasedReturns
PROOF
  <1>1. UNCHANGED <<box, binId, chamadas, creating, expiredSaid, disturbed>>
    BY DEF Refresh, ToggleTimer, ClickEmpty, PageHidden, ClearAnswered
  <1>2. BoxesKeepTheirCalls' /\ NothingErasedReturns
    BY <1>1 DEF WebhookPageInv, BoxesKeepTheirCalls, NothingErasedReturns
  <1>3. \/ UNCHANGED reads
        \/ binId \in Box /\ \E i : reads' = reads \cup {[box |-> binId, id |-> i, got |-> "nothing", calls |-> {}]}
    BY DEF Refresh, ToggleTimer, ClickEmpty, PageHidden, ClearAnswered, CanRead, NewRead, WebhookPageInv, RequestsAreOfOpenedBoxes
  <1>4. \/ clears' \subseteq clears
        \/ binId \in Box /\ clears' = {[box |-> binId, served |-> FALSE]}
    BY DEF Refresh, ToggleTimer, ClickEmpty, PageHidden, ClearAnswered, WebhookPageInv, RequestsAreOfOpenedBoxes
  <1>5. \A r \in reads' : r \in reads \/ (binId \in Box /\ \E i : r = [box |-> binId, id |-> i, got |-> "nothing", calls |-> {}])
    BY <1>3
  <1>6. clears' \subseteq [box : Box, served : BOOLEAN]
    <2>1. binId \in Box => [box |-> binId, served |-> FALSE] \in [box : Box, served : BOOLEAN]
      OBVIOUS
    <2> QED BY <1>4, <2>1, Zenon DEF WebhookPageInv, RequestsAreOfOpenedBoxes
  <1>7. binId \in Box => binId # NoBox
    BY WebhookPageAssumption
  <1>8. RequestsAreOfOpenedBoxes'
    BY <1>1, <1>5, <1>6, <1>7 DEF WebhookPageInv, RequestsAreOfOpenedBoxes
  <1>9. ShownIsOfTheBox'
    BY <1>1, <1>5 DEF WebhookPageInv, ShownIsOfTheBox
  <1> QED BY <1>1, <1>2, <1>8, <1>9 DEF WebhookPageInv

\* An answer is what the box kept, and the list is the last answer.
LEMMA AnswersKeepThePage ==
  ASSUME WebhookPageInv, NEW r \in reads, ServeRead(r) \/ ReadAnswered(r) \/ ReadFails(r)
  PROVE  WebhookPageInv' /\ NothingErasedReturns
PROOF
  <1>1. UNCHANGED <<box, binId, creating, clears, disturbed>>
    BY DEF ServeRead, ReadAnswered, ReadFails
  <1>2. BoxesKeepTheirCalls'
    BY <1>1 DEF WebhookPageInv, BoxesKeepTheirCalls
  <1>3. CASE ServeRead(r)
    <2> DEFINE s == IF box[r.box].state = "open" THEN [r EXCEPT !.got = "list", !.calls = box[r.box].kept] ELSE [r EXCEPT !.got = "gone"]
    <2>1. reads' = (reads \ {r}) \cup {s} /\ UNCHANGED <<chamadas, expiredSaid>>
      BY <1>3 DEF ServeRead
    <2>2. /\ r = [box |-> r.box, id |-> r.id, got |-> r.got, calls |-> r.calls]
          /\ r.box \in Box /\ box[r.box].state \in {"open", "expired"} /\ binId # NoBox
          /\ r.calls \subseteq Call /\ \A call \in r.calls : call[1] = r.box
          /\ box[r.box].kept \subseteq Call /\ \A call \in box[r.box].kept : call[1] = r.box /\ call[2] > box[r.box].emptied
      BY DEF WebhookPageInv, RequestsAreOfOpenedBoxes, BoxesKeepTheirCalls, BoxRecord
    <2>3. CASE box[r.box].state = "open"
      <3>1. s = [box |-> r.box, id |-> r.id, got |-> "list", calls |-> box[r.box].kept]
        BY <2>2, <2>3
      <3> HIDE DEF s
      <3>2. RequestsAreOfOpenedBoxes'
        BY <1>1, <2>1, <2>2, <3>1 DEF WebhookPageInv, RequestsAreOfOpenedBoxes
      <3>3. ShownIsOfTheBox'
        BY <1>1, <2>1, <2>2, <3>1 DEF WebhookPageInv, ShownIsOfTheBox
      <3> QED BY <1>1, <1>2, <2>1, <3>2, <3>3 DEF WebhookPageInv, NothingErasedReturns
    <2>4. CASE box[r.box].state # "open"
      <3>1. s = [box |-> r.box, id |-> r.id, got |-> "gone", calls |-> r.calls]
        BY <2>2, <2>4
      <3> HIDE DEF s
      <3>2. RequestsAreOfOpenedBoxes'
        BY <1>1, <2>1, <2>2, <2>4, <3>1 DEF WebhookPageInv, RequestsAreOfOpenedBoxes
      <3>3. ShownIsOfTheBox'
        BY <1>1, <2>1, <2>2, <3>1 DEF WebhookPageInv, ShownIsOfTheBox
      <3> QED BY <1>1, <1>2, <2>1, <3>2, <3>3 DEF WebhookPageInv, NothingErasedReturns
    <2> QED BY <2>3, <2>4
  <1>4. CASE ReadAnswered(r) \/ ReadFails(r)
    <2>1. reads' \subseteq reads /\ r \in reads /\ binId # NoBox /\ r.box \in Box /\ (r.got = "gone" => box[r.box].state = "expired")
          /\ r.calls \subseteq Call /\ \A call \in r.calls : call[1] = r.box
      BY <1>4 DEF ReadAnswered, ReadFails, WebhookPageInv, RequestsAreOfOpenedBoxes
    <2>2. chamadas' = chamadas \/ chamadas' = r.calls
      BY <1>4 DEF ReadAnswered, ReadFails
    <2>3. expiredSaid' \in BOOLEAN /\ (expiredSaid' => expiredSaid \/ r.got = "gone")
      BY <1>4 DEF ReadAnswered, ReadFails, WebhookPageInv
    <2>4. RequestsAreOfOpenedBoxes'
      BY <1>1, <2>1 DEF WebhookPageInv, RequestsAreOfOpenedBoxes
    <2>5. ShownIsOfTheBox'
      BY <1>1, <2>1, <2>2, <2>3 DEF WebhookPageInv, ShownIsOfTheBox
    <2>6. NothingErasedReturns
      BY <1>1, <2>1, <2>2 DEF WebhookPageInv, ShownIsOfTheBox, NothingErasedReturns
    <2> QED BY <1>1, <1>2, <2>1, <2>2, <2>3, <2>4, <2>5, <2>6 DEF WebhookPageInv
  <1> QED BY <1>3, <1>4

\* The box is emptied: what a read under way answers may be of before.
LEMMA EmptyingKeepsThePage ==
  ASSUME WebhookPageInv, NEW c \in clears, ServeClear(c)
  PROVE  WebhookPageInv' /\ NothingErasedReturns
PROOF
  <1> DEFINE n == box[c.box].emptied + Cardinality(box[c.box].kept)
             d == [c EXCEPT !.served = TRUE]
  <1>1. c \in [box : Box, served : BOOLEAN] /\ c.box \in Box
    BY DEF WebhookPageInv, RequestsAreOfOpenedBoxes
  <1>2. n \in Nat /\ n >= box[c.box].emptied
    BY <1>1, FS_CardinalityType DEF WebhookPageInv, BoxesKeepTheirCalls, BoxRecord
  <1>3. d \in [box : Box, served : BOOLEAN]
    BY <1>1
  <1>4. /\ clears' = {d} /\ disturbed' = (disturbed \/ reads # {})
        /\ UNCHANGED <<binId, chamadas, timer, creating, reads, expiredSaid>>
    BY DEF ServeClear
  <1>5. box' = [box EXCEPT ![c.box].kept = {}, ![c.box].emptied = n]
    BY <1>1 DEF ServeClear, WebhookPageInv, BoxesKeepTheirCalls, BoxRecord
  <1> HIDE DEF n, d
  <1>6. /\ box' \in [Box -> BoxRecord] /\ box'[c.box].kept = {} /\ box'[c.box].state = box[c.box].state
        /\ \A b \in Box : b # c.box => box'[b] = box[b]
    BY <1>1, <1>2, <1>5 DEF WebhookPageInv, BoxesKeepTheirCalls, BoxRecord
  <1>7. BoxesKeepTheirCalls'
    BY <1>6, FS_EmptySet DEF WebhookPageInv, BoxesKeepTheirCalls
  <1>8. \A b \in Box : box'[b].state = box[b].state
    BY <1>6
  <1>9. RequestsAreOfOpenedBoxes'
    BY <1>1, <1>3, <1>4, <1>8 DEF WebhookPageInv, RequestsAreOfOpenedBoxes
  <1>10. ShownIsOfTheBox'
    BY <1>4, <1>8 DEF WebhookPageInv, ShownIsOfTheBox, RequestsAreOfOpenedBoxes
  <1> QED BY <1>4, <1>7, <1>9, <1>10 DEF WebhookPageInv, NothingErasedReturns

\* No step breaks what the page of a box lists, nor brings back what was erased.
LEMMA WebhookPageStep ==
  ASSUME WebhookPageInv, [WebhookPageNext]_webhookPageVars
  PROVE  WebhookPageInv' /\ NothingErasedReturns
PROOF
  <1>1. CASE UNCHANGED webhookPageVars
    BY <1>1 DEF webhookPageVars, WebhookPageInv, BoxesKeepTheirCalls, RequestsAreOfOpenedBoxes, ShownIsOfTheBox, NothingErasedReturns
  <1> QED BY <1>1, BoxesKeepThePage, OpeningKeepsThePage, QuestionsKeepThePage, AnswersKeepThePage, EmptyingKeepsThePage DEF WebhookPageNext

\* The page of a webhook box lists no call of another box, says expired of no
\* other one, and lists no call that was erased, when no answer of before was
\* under way (browser/toolbox/webhook-inspector.ts).
THEOREM WebhookPageIsOfItsBox == WebhookPageSpec => WebhookPageIsSound
PROOF
  <1>1. WebhookPageInv => (~disturbed => ~Foreign /\ (expiredSaid => creating # NoBox \/ box[binId].state = "expired"))
    BY DEF WebhookPageInv, ShownIsOfTheBox, Foreign
  <1>2. WebhookPageInv /\ [WebhookPageNext]_webhookPageVars
          => [~disturbed' => \A call \in chamadas' \ chamadas : call[2] > box[call[1]].emptied]_webhookPageVars
    BY WebhookPageStep DEF NothingErasedReturns
  <1> QED BY <1>1, <1>2, WebhookPageStarts, WebhookPageStep, PTL DEF WebhookPageSpec, WebhookPageIsSound
-----------------------------------------------------------------------------
(* The settings                                                              *)

Typed == SettingValue \cup {Blank, Default}
Patch == [form : Forms, value : Typed, at : {"sent", "given up", "saved", "refused", "unauthorized", "answered"}, overlaps : BOOLEAN]

SettingsTypeOK ==
  /\ patches \in Seq(Patch)
  /\ fields \in [Forms -> Typed] /\ account \in [Forms -> Typed]
  /\ message \in [Forms -> {"none", "saved", "failed"}]
  /\ answer \in Seq([Forms -> Typed])

IsLast(P, f, i) == i \in DOMAIN P /\ P[i].form = f /\ \A j \in DOMAIN P : P[j].form = f => j <= i

\* A form whose last request overlaps no other of its own has had the others
\* answered, so that only the last can still write the account.
OthersAreAnswered ==
  /\ \A i, j \in DOMAIN patches : i < j /\ patches[i].form = patches[j].form /\ ~patches[j].overlaps => patches[i].at = "answered"
  /\ \A i \in DOMAIN patches : \E j \in DOMAIN patches : IsLast(patches, patches[i].form, j)

SavedIsWritten ==
  \A f \in Forms :
    /\ account[f] = Default \/ \E i \in DOMAIN patches : patches[i].form = f /\ patches[i].value = account[f]
    /\ message[f] = "saved" => \E i \in DOMAIN patches : patches[i].form = f
    /\ \A i \in DOMAIN patches :
         IsLast(patches, f, i) /\ ~patches[i].overlaps /\ (message[f] = "saved" \/ patches[i].at = "saved") => account[f] = patches[i].value

SettingsInv == SettingsTypeOK /\ OthersAreAnswered /\ SavedIsWritten

\* What the type of the requests says of each.
LEMMA PatchesAreTyped ==
  ASSUME SettingsInv
  PROVE  /\ patches \in Seq(Patch) /\ DOMAIN patches = 1..Len(patches) /\ Len(patches) \in Nat
         /\ \A i \in DOMAIN patches : i \in Nat /\ patches[i] \in Patch /\ patches[i].form \in Forms /\ patches[i].value \in Typed
PROOF
  <1>1. patches \in Seq(Patch)
    BY DEF SettingsInv, SettingsTypeOK
  <1>2. DOMAIN patches = 1..Len(patches) /\ Len(patches) \in Nat
    BY <1>1, LenProperties
  <1>3. \A i \in DOMAIN patches : i \in Nat /\ patches[i] \in Patch
    BY <1>1, <1>2, ElementOfSeq
  <1> QED BY <1>1, <1>2, <1>3 DEF Patch

\* Requests that move on keep their form and value, and the last stays last.
LEMMA PatchMovesOn ==
  ASSUME SettingsInv, NEW i \in DOMAIN patches, NEW to \in {"given up", "saved", "refused", "unauthorized", "answered"},
         patches' = [patches EXCEPT ![i].at = to]
  PROVE  /\ patches' \in Seq(Patch) /\ DOMAIN patches' = DOMAIN patches
         /\ \A j \in DOMAIN patches :
              /\ patches'[j].form = patches[j].form /\ patches'[j].value = patches[j].value /\ patches'[j].overlaps = patches[j].overlaps
              /\ patches'[j].at = IF j = i THEN to ELSE patches[j].at
         /\ \A f, j : IsLast(patches', f, j) <=> IsLast(patches, f, j)
PROOF
  <1> DEFINE p == [patches[i] EXCEPT !.at = to]
  <1>1. p \in Patch /\ p.form = patches[i].form /\ p.value = patches[i].value /\ p.overlaps = patches[i].overlaps /\ p.at = to
    BY PatchesAreTyped DEF Patch
  <1>2. patches' = [patches EXCEPT ![i] = p]
    OBVIOUS
  <1> HIDE DEF p
  <1>3. patches \in Seq(Patch) /\ i \in 1..Len(patches)
    BY PatchesAreTyped
  <1>4. patches' \in Seq(Patch)
    <2>1. [patches EXCEPT ![i] = p] \in Seq(Patch)
      BY <1>1, <1>3, ExceptSeq, Zenon
    <2> QED BY <1>2, <2>1
  <1>5. DOMAIN patches' = DOMAIN patches
    BY <1>2
  <1>6. \A j \in DOMAIN patches :
          /\ patches'[j].form = patches[j].form /\ patches'[j].value = patches[j].value /\ patches'[j].overlaps = patches[j].overlaps
          /\ patches'[j].at = IF j = i THEN to ELSE patches[j].at
    BY <1>1, <1>2
  <1>7. \A f, j : IsLast(patches', f, j) <=> IsLast(patches, f, j)
    BY <1>5, <1>6 DEF IsLast
  <1> QED BY <1>4, <1>5, <1>6, <1>7

\* A request that moves on disturbs nothing the others need.
LEMMA PatchMovesOnAnswered ==
  ASSUME SettingsInv, NEW i \in DOMAIN patches, NEW to \in {"given up", "saved", "refused", "unauthorized", "answered"},
         patches[i].at # "answered", patches' = [patches EXCEPT ![i].at = to]
  PROVE  OthersAreAnswered'
PROOF
  <1>1. /\ DOMAIN patches' = DOMAIN patches
        /\ \A j \in DOMAIN patches :
             /\ patches'[j].form = patches[j].form /\ patches'[j].overlaps = patches[j].overlaps
             /\ patches'[j].at = IF j = i THEN to ELSE patches[j].at
        /\ \A f, j : IsLast(patches', f, j) <=> IsLast(patches, f, j)
    BY PatchMovesOn
  <1>2. ASSUME NEW j \in DOMAIN patches', NEW k \in DOMAIN patches', j < k, patches'[j].form = patches'[k].form, ~patches'[k].overlaps
        PROVE  patches'[j].at = "answered"
    <2>1. patches[j].form = patches[k].form /\ ~patches[k].overlaps /\ j \in DOMAIN patches /\ k \in DOMAIN patches
      BY <1>1, <1>2
    <2>2. patches[j].at = "answered"
      BY <1>2, <2>1 DEF SettingsInv, OthersAreAnswered
    <2> QED BY <1>1, <2>1, <2>2
  <1>3. \A j \in DOMAIN patches' : \E k \in DOMAIN patches' : IsLast(patches', patches'[j].form, k)
    BY <1>1 DEF SettingsInv, OthersAreAnswered
  <1> QED BY <1>2, <1>3 DEF OthersAreAnswered

\* Only the last request of a form, when it overlaps no other, can be under way.
LEMMA UnderWayIsLast ==
  ASSUME SettingsInv, NEW i \in DOMAIN patches, patches[i].at # "answered",
         NEW k \in DOMAIN patches, IsLast(patches, patches[i].form, k), ~patches[k].overlaps
  PROVE  k = i
PROOF
  <1>1. i <= k /\ patches[k].form = patches[i].form /\ i \in Nat /\ k \in Nat
    BY PatchesAreTyped DEF IsLast
  <1>2. ~(i < k)
    BY <1>1 DEF SettingsInv, OthersAreAnswered
  <1> QED BY <1>1, <1>2

\* A patch that is served changes the account as its answer will say.
LEMMA ServeKeepsTheSettings ==
  ASSUME SettingsInv, NEW i \in DOMAIN patches, NEW outcome \in {"saved", "refused", "unauthorized"}, ServePatch(i, outcome)
  PROVE  SettingsInv'
PROOF
  <1> DEFINE to == IF patches[i].at = "sent" THEN outcome ELSE "answered"
             f == patches[i].form
  <1>1. patches[i] \in Patch /\ f \in Forms /\ patches[i].value \in Typed /\ patches[i].at # "answered"
    BY PatchesAreTyped DEF ServePatch
  <1>2. patches' = [patches EXCEPT ![i].at = to] /\ to \in {"saved", "refused", "unauthorized", "answered"} /\ UNCHANGED <<answer, fields, message>>
    BY <1>1 DEF ServePatch, SettingsInv, SettingsTypeOK
  <1>3. account' = IF outcome = "saved" THEN [account EXCEPT ![f] = patches[i].value] ELSE account
    BY DEF ServePatch, RowUpdated
  <1>4. to = "saved" => outcome = "saved"
    OBVIOUS
  <1> HIDE DEF to, f
  <1>5. OthersAreAnswered'
    BY <1>1, <1>2, PatchMovesOnAnswered
  <1>6. patches' \in Seq(Patch) /\ account' \in [Forms -> Typed]
    BY <1>1, <1>2, <1>3, PatchMovesOn DEF SettingsInv, SettingsTypeOK
  <1>7. SettingsTypeOK'
    BY <1>2, <1>6 DEF SettingsInv, SettingsTypeOK
  <1>8. ASSUME NEW g \in Forms
        PROVE  /\ account'[g] = Default \/ \E j \in DOMAIN patches' : patches'[j].form = g /\ patches'[j].value = account'[g]
               /\ message'[g] = "saved" => \E j \in DOMAIN patches' : patches'[j].form = g
               /\ \A j \in DOMAIN patches' :
                    IsLast(patches', g, j) /\ ~patches'[j].overlaps /\ (message'[g] = "saved" \/ patches'[j].at = "saved") => account'[g] = patches'[j].value
    <2>1. /\ account[g] = Default \/ \E j \in DOMAIN patches : patches[j].form = g /\ patches[j].value = account[g]
          /\ message[g] = "saved" => \E j \in DOMAIN patches : patches[j].form = g
          /\ \A j \in DOMAIN patches :
               IsLast(patches, g, j) /\ ~patches[j].overlaps /\ (message[g] = "saved" \/ patches[j].at = "saved") => account[g] = patches[j].value
      BY DEF SettingsInv, SavedIsWritten
    <2>2. /\ DOMAIN patches' = DOMAIN patches
          /\ \A j \in DOMAIN patches :
               /\ patches'[j].form = patches[j].form /\ patches'[j].value = patches[j].value /\ patches'[j].overlaps = patches[j].overlaps
               /\ patches'[j].at = IF j = i THEN to ELSE patches[j].at
               /\ (IsLast(patches', g, j) <=> IsLast(patches, g, j))
      <3>1. /\ DOMAIN patches' = DOMAIN patches
            /\ \A j \in DOMAIN patches :
                 /\ patches'[j].form = patches[j].form /\ patches'[j].value = patches[j].value /\ patches'[j].overlaps = patches[j].overlaps
                 /\ patches'[j].at = IF j = i THEN to ELSE patches[j].at
        <4>1. to \in {"given up", "saved", "refused", "unauthorized", "answered"}
          BY <1>2
        <4> QED BY <1>2, <4>1, PatchMovesOn, Zenon
      <3>2. \A j : IsLast(patches', g, j) <=> IsLast(patches, g, j)
        BY <1>2, PatchMovesOn
      <3> QED BY <3>1, <3>2
    <2>4. account'[g] = IF outcome = "saved" /\ g = f THEN patches[i].value ELSE account[g]
      BY <1>1, <1>3 DEF SettingsInv, SettingsTypeOK
    <2>5. account'[g] = Default \/ \E j \in DOMAIN patches' : patches'[j].form = g /\ patches'[j].value = account'[g]
      BY <2>1, <2>2, <2>4 DEF f
    <2>6. message'[g] = "saved" => \E j \in DOMAIN patches' : patches'[j].form = g
      BY <1>2, <2>1, <2>2
    <2>7. ASSUME NEW j \in DOMAIN patches, IsLast(patches, g, j), ~patches[j].overlaps, message[g] = "saved" \/ patches'[j].at = "saved"
          PROVE  account'[g] = patches[j].value
      <3>1. CASE g = f
        <4>1. j = i
          BY <1>1, <2>7, <3>1, UnderWayIsLast DEF f
        <4>2. CASE outcome = "saved"
          BY <2>4, <3>1, <4>1, <4>2
        <4>3. CASE outcome # "saved"
          BY <1>4, <2>1, <2>2, <2>4, <2>7, <4>1, <4>3
        <4> QED BY <4>2, <4>3
      <3>2. CASE g # f
        <4>1. j # i
          BY <2>7, <3>2 DEF IsLast, f
        <4> QED BY <2>1, <2>2, <2>4, <2>7, <3>2, <4>1
      <3> QED BY <3>1, <3>2
    <2>8. \A j \in DOMAIN patches' :
            IsLast(patches', g, j) /\ ~patches'[j].overlaps /\ (message'[g] = "saved" \/ patches'[j].at = "saved") => account'[g] = patches'[j].value
      BY <1>2, <2>2, <2>7
    <2> QED BY <2>5, <2>6, <2>8
  <1>9. SavedIsWritten'
    BY <1>8 DEF SavedIsWritten
  <1> QED BY <1>5, <1>7, <1>9 DEF SettingsInv

\* An answer, or the loss of one: what the form says is what was written.
LEMMA AnswerKeepsTheSettings ==
  ASSUME SettingsInv, NEW i \in DOMAIN patches, AnswerPatch(i) \/ PatchLost(i)
  PROVE  SettingsInv'
PROOF
  <1> DEFINE f == patches[i].form
  <1>1. patches[i] \in Patch /\ f \in Forms /\ patches[i].at # "answered"
    BY PatchesAreTyped DEF AnswerPatch, PatchLost
  <1>2. PICK to \in {"given up", "answered"} : patches' = [patches EXCEPT ![i].at = to]
    BY <1>1 DEF AnswerPatch, PatchLost, SettingsInv, SettingsTypeOK
  <1>3. UNCHANGED <<answer, account>>
    BY DEF AnswerPatch, PatchLost
  <1>4. PICK says \in {"saved", "failed"} :
          /\ message' \in {message, [message EXCEPT ![f] = says]}
          /\ says = "saved" => patches[i].at = "saved"
    BY DEF AnswerPatch, PatchLost
  <1>5. fields' \in [Forms -> Typed]
    BY DEF AnswerPatch, PatchLost, SettingsInv, SettingsTypeOK, Typed
  <1> HIDE DEF f
  <1>6. OthersAreAnswered'
    BY <1>1, <1>2, PatchMovesOnAnswered
  <1>7. message' \in [Forms -> {"none", "saved", "failed"}]
    BY <1>1, <1>4 DEF SettingsInv, SettingsTypeOK
  <1>8. SettingsTypeOK'
    BY <1>2, <1>3, <1>5, <1>7, PatchMovesOn DEF SettingsInv, SettingsTypeOK
  <1>9. ASSUME NEW g \in Forms
        PROVE  /\ account'[g] = Default \/ \E j \in DOMAIN patches' : patches'[j].form = g /\ patches'[j].value = account'[g]
               /\ message'[g] = "saved" => \E j \in DOMAIN patches' : patches'[j].form = g
               /\ \A j \in DOMAIN patches' :
                    IsLast(patches', g, j) /\ ~patches'[j].overlaps /\ (message'[g] = "saved" \/ patches'[j].at = "saved") => account'[g] = patches'[j].value
    <2>1. /\ account[g] = Default \/ \E j \in DOMAIN patches : patches[j].form = g /\ patches[j].value = account[g]
          /\ message[g] = "saved" => \E j \in DOMAIN patches : patches[j].form = g
          /\ \A j \in DOMAIN patches :
               IsLast(patches, g, j) /\ ~patches[j].overlaps /\ (message[g] = "saved" \/ patches[j].at = "saved") => account[g] = patches[j].value
      BY DEF SettingsInv, SavedIsWritten
    <2>2. /\ DOMAIN patches' = DOMAIN patches
          /\ \A j \in DOMAIN patches :
               /\ patches'[j].form = patches[j].form /\ patches'[j].value = patches[j].value /\ patches'[j].overlaps = patches[j].overlaps
               /\ patches'[j].at = IF j = i THEN to ELSE patches[j].at
               /\ (IsLast(patches', g, j) <=> IsLast(patches, g, j))
      <3>1. /\ DOMAIN patches' = DOMAIN patches
            /\ \A j \in DOMAIN patches :
                 /\ patches'[j].form = patches[j].form /\ patches'[j].value = patches[j].value /\ patches'[j].overlaps = patches[j].overlaps
                 /\ patches'[j].at = IF j = i THEN to ELSE patches[j].at
        <4>1. to \in {"given up", "saved", "refused", "unauthorized", "answered"}
          BY <1>2
        <4> QED BY <1>2, <4>1, PatchMovesOn, Zenon
      <3>2. \A j : IsLast(patches', g, j) <=> IsLast(patches, g, j)
        BY <1>2, PatchMovesOn
      <3> QED BY <3>1, <3>2
    <2>3. message'[g] = "saved" => message[g] = "saved" \/ (g = f /\ says = "saved")
      BY <1>1, <1>4 DEF SettingsInv, SettingsTypeOK
    <2>4. message'[g] = "saved" => \E j \in DOMAIN patches' : patches'[j].form = g
      BY <2>1, <2>2, <2>3 DEF f
    <2>5. ASSUME NEW j \in DOMAIN patches, IsLast(patches, g, j), ~patches[j].overlaps, message'[g] = "saved" \/ patches'[j].at = "saved"
          PROVE  account[g] = patches[j].value
      <3>1. CASE message[g] = "saved" \/ patches[j].at = "saved"
        BY <2>1, <2>5, <3>1
      <3>2. CASE g = f /\ says = "saved"
        <4>1. j = i
          BY <1>1, <2>5, <3>2, UnderWayIsLast DEF f
        <4> QED BY <1>4, <2>1, <2>5, <3>2, <4>1
      <3>3. patches'[j].at = "saved" => patches[j].at = "saved"
        BY <2>2
      <3> QED BY <2>3, <2>5, <3>1, <3>2, <3>3
    <2> QED BY <1>3, <2>1, <2>2, <2>4, <2>5
  <1>10. SavedIsWritten'
    BY <1>9 DEF SavedIsWritten
  <1> QED BY <1>6, <1>8, <1>10 DEF SettingsInv

\* A form submitted sends what it holds, and says nothing until the answer.
LEMMA SubmitKeepsTheSettings ==
  ASSUME SettingsInv, NEW f \in Forms, SubmitForm(f)
  PROVE  SettingsInv'
PROOF
  <1> DEFINE p == [form |-> f, value |-> fields[f], at |-> "sent", overlaps |-> \E i \in DOMAIN patches : patches[i].form = f /\ patches[i].at # "answered"]
             n == Len(patches) + 1
  <1>1. p \in Patch /\ p.form = f /\ p.at = "sent" /\ (~p.overlaps => \A i \in DOMAIN patches : patches[i].form = f => patches[i].at = "answered")
    <2>1. fields[f] \in Typed
      BY DEF SettingsInv, SettingsTypeOK
    <2>2. (\E i \in DOMAIN patches : patches[i].form = f /\ patches[i].at # "answered") \in BOOLEAN
      OBVIOUS
    <2>3. p.overlaps = (\E i \in DOMAIN patches : patches[i].form = f /\ patches[i].at # "answered")
      OBVIOUS
    <2>4. p \in Patch
      BY <2>1, <2>2 DEF Patch
    <2> QED BY <2>3, <2>4
  <1>2. patches' = Append(patches, p) /\ message' = [message EXCEPT ![f] = "none"] /\ UNCHANGED <<answer, fields, account>>
    BY DEF SubmitForm
  <1> HIDE DEF p
  <1>3. /\ patches' \in Seq(Patch) /\ DOMAIN patches' = DOMAIN patches \cup {n} /\ n \in Nat /\ patches'[n] = p
        /\ \A i \in DOMAIN patches : patches'[i] = patches[i] /\ i \in Nat /\ i < n
    BY <1>1, <1>2, PatchesAreTyped, AppendProperties
  <1> HIDE DEF n
  <1>4. SettingsTypeOK'
    BY <1>2, <1>3 DEF SettingsInv, SettingsTypeOK
  <1>5. IsLast(patches', f, n) /\ \A g \in Forms \ {f} : \A i : IsLast(patches', g, i) <=> IsLast(patches, g, i)
    BY <1>1, <1>3 DEF IsLast
  <1>7. OthersAreAnswered'
    <2>1. \A i, j \in DOMAIN patches' : i < j /\ patches'[i].form = patches'[j].form /\ ~patches'[j].overlaps => patches'[i].at = "answered"
      BY <1>1, <1>3 DEF SettingsInv, OthersAreAnswered
    <2>2. ASSUME NEW i \in DOMAIN patches'
          PROVE  \E j \in DOMAIN patches' : IsLast(patches', patches'[i].form, j)
      <3>1. CASE patches'[i].form = f
        BY <1>3, <1>5, <3>1
      <3>2. CASE patches'[i].form # f
        <4>1. i \in DOMAIN patches /\ patches[i].form = patches'[i].form /\ patches[i].form \in Forms
          BY <1>1, <1>3, <3>2, PatchesAreTyped
        <4> QED BY <1>3, <1>5, <3>2, <4>1 DEF SettingsInv, OthersAreAnswered
      <3> QED BY <3>1, <3>2
    <2> QED BY <2>1, <2>2 DEF OthersAreAnswered
  <1>8. ASSUME NEW g \in Forms
        PROVE  /\ account'[g] = Default \/ \E j \in DOMAIN patches' : patches'[j].form = g /\ patches'[j].value = account'[g]
               /\ message'[g] = "saved" => \E j \in DOMAIN patches' : patches'[j].form = g
               /\ \A j \in DOMAIN patches' :
                    IsLast(patches', g, j) /\ ~patches'[j].overlaps /\ (message'[g] = "saved" \/ patches'[j].at = "saved") => account'[g] = patches'[j].value
    <2>1. /\ account[g] = Default \/ \E j \in DOMAIN patches : patches[j].form = g /\ patches[j].value = account[g]
          /\ message[g] = "saved" => \E j \in DOMAIN patches : patches[j].form = g
          /\ \A j \in DOMAIN patches :
               IsLast(patches, g, j) /\ ~patches[j].overlaps /\ (message[g] = "saved" \/ patches[j].at = "saved") => account[g] = patches[j].value
      BY DEF SettingsInv, SavedIsWritten
    <2>2. account'[g] = Default \/ \E j \in DOMAIN patches' : patches'[j].form = g /\ patches'[j].value = account'[g]
      BY <1>2, <1>3, <2>1
    <2>3. message'[g] = IF g = f THEN "none" ELSE message[g]
      BY <1>2 DEF SettingsInv, SettingsTypeOK
    <2>4. message'[g] = "saved" => \E j \in DOMAIN patches' : patches'[j].form = g
      BY <1>3, <2>1, <2>3
    <2>5. ASSUME NEW j \in DOMAIN patches', IsLast(patches', g, j), ~patches'[j].overlaps, message'[g] = "saved" \/ patches'[j].at = "saved"
          PROVE  account'[g] = patches'[j].value
      <3>1. CASE g = f
        <4>1. j = n
          BY <1>1, <1>3, <2>5, <3>1 DEF IsLast
        <4> QED BY <1>1, <1>3, <2>3, <2>5, <3>1, <4>1
      <3>2. CASE g # f
        <4>1. IsLast(patches, g, j) /\ j \in DOMAIN patches
          BY <1>5, <2>5, <3>2 DEF IsLast
        <4> QED BY <1>2, <1>3, <2>1, <2>3, <2>5, <3>2, <4>1
      <3> QED BY <3>1, <3>2
    <2> QED BY <1>2, <2>1, <2>2, <2>4, <2>5
  <1>9. SavedIsWritten'
    BY <1>8 DEF SavedIsWritten
  <1> QED BY <1>4, <1>7, <1>9 DEF SettingsInv

\* Holds at first: what the forms of the settings say.
LEMMA SettingsStart == SettingsPageInit => SettingsInv
PROOF
  <1> SUFFICES ASSUME SettingsPageInit PROVE SettingsInv
    OBVIOUS
  <1>1. patches = <<>> /\ DOMAIN patches = {} /\ patches \in Seq(Patch) /\ answer \in Seq([Forms -> Typed])
    BY DEF SettingsPageInit
  <1>2. fields \in [Forms -> Typed] /\ account \in [Forms -> Typed] /\ message \in [Forms -> {"none", "saved", "failed"}]
    BY DEF SettingsPageInit, Typed
  <1>3. \A f \in Forms : account[f] = Default /\ message[f] = "none"
    BY DEF SettingsPageInit
  <1>4. OthersAreAnswered /\ SavedIsWritten
    BY <1>1, <1>3 DEF OthersAreAnswered, SavedIsWritten
  <1> QED BY <1>1, <1>2, <1>4 DEF SettingsInv, SettingsTypeOK

\* No step breaks what the forms of the settings say.
LEMMA SettingsStep ==
  ASSUME SettingsInv, [SettingsPageNext]_settingsVars
  PROVE  SettingsInv'
PROOF
  <1>1. ASSUME UNCHANGED <<patches, message, account>>, fields' \in [Forms -> Typed], answer' \in Seq([Forms -> Typed])
        PROVE  SettingsInv'
    BY <1>1 DEF SettingsInv, SettingsTypeOK, OthersAreAnswered, SavedIsWritten
  <1>2. CASE UNCHANGED settingsVars
    BY <1>1, <1>2 DEF settingsVars, SettingsInv, SettingsTypeOK
  <1>3. ASSUME NEW outcome \in {"user", "nobody", "no accounts", "failed"}, SessionAnswers(outcome)
        PROVE  SettingsInv'
    BY <1>1, <1>3 DEF SessionAnswers, SettingsInv, SettingsTypeOK
  <1>4. CASE SettingsRead
    BY <1>1, <1>4 DEF SettingsRead, SettingsInv, SettingsTypeOK
  <1>5. CASE PaintSettings
    <2>1. answer[1] \in [Forms -> Typed]
      BY <1>5 DEF PaintSettings, SettingsInv, SettingsTypeOK
    <2>2. fields' \in [Forms -> Typed]
      BY <1>5, <2>1 DEF PaintSettings, SettingsInv, SettingsTypeOK
    <2> QED BY <1>1, <1>5, <2>2 DEF PaintSettings, SettingsInv, SettingsTypeOK
  <1>6. ASSUME NEW unauthorized \in BOOLEAN, SettingsNotRead(unauthorized)
        PROVE  SettingsInv'
    BY <1>1, <1>6 DEF SettingsNotRead, SettingsInv, SettingsTypeOK
  <1>7. ASSUME NEW f \in Forms, NEW v \in SettingValue, Type(f, v)
        PROVE  SettingsInv'
    BY <1>1, <1>7 DEF Type, SettingsInv, SettingsTypeOK, Typed
  <1> QED BY <1>2, <1>3, <1>4, <1>5, <1>6, <1>7, SubmitKeepsTheSettings, ServeKeepsTheSettings, AnswerKeepsTheSettings DEF SettingsPageNext

\* A form of the settings that says saved is right, and no form writes what
\* another one holds (browser/settings.ts, account-settings-repository.ts).
THEOREM SavedSettingsAreStored == SettingsPageSpec => []SavedMeansStored
PROOF
  <1>1. SettingsInv => SavedMeansStored
    <2> SUFFICES ASSUME SettingsInv, NEW f \in Forms
                 PROVE  /\ account[f] \in {Default} \cup SentFrom(f)
                        /\ message[f] = "saved" /\ ~patches[LastOf(f)].overlaps => account[f] = patches[LastOf(f)].value
      BY DEF SavedMeansStored
    <2>1. ASSUME message[f] = "saved"
          PROVE  IsLast(patches, f, LastOf(f))
      <3>1. \E i \in DOMAIN patches : IsLast(patches, f, i)
        BY <2>1 DEF SettingsInv, SavedIsWritten, OthersAreAnswered
      <3> QED BY <3>1 DEF IsLast, LastOf
    <2>2. account[f] \in {Default} \cup SentFrom(f)
      BY DEF SettingsInv, SavedIsWritten, SentFrom
    <2> QED BY <2>1, <2>2 DEF SettingsInv, SavedIsWritten, IsLast
  <1> QED BY <1>1, SettingsStart, SettingsStep, PTL DEF SettingsPageSpec
-----------------------------------------------------------------------------
(* Entering                                                                  *)

EntryPanels == {"signin", "signup", "forgot", "reset", "indisponivel"}

EntryTypeOK ==
  /\ shownPanel \in EntryPanels
  /\ offer \in [login : BOOLEAN, reset : BOOLEAN, link : BOOLEAN] /\ (offer.reset => offer.login)
  /\ started \in {"no", "answered", "failed"} /\ pageLeft \in BOOLEAN

\* Where a lost password can be asked for, it can be answered, and whoever
\* came by the link of a reset is not there.
ForgotIsOffered == started = "answered" /\ offer.reset /\ ~offer.link

PanelsAreOffered ==
  /\ shownPanel = "indisponivel" => ~offer.login
  /\ shownPanel = "forgot" => ForgotIsOffered
  /\ "forgot" \in entering => ForgotIsOffered

EntryInv == EntryTypeOK /\ PanelsAreOffered /\ busy = entering /\ EntryKeepsItsForms

\* Holds at first: what the entry forms show.
LEMMA EntryStarts == EntryInit => EntryInv
PROOF
  BY DEF EntryInit, EntryInv, EntryTypeOK, EntryPanels, PanelsAreOffered, EntryKeepsItsForms

\* No step breaks what the entry forms show.
LEMMA EntryStep ==
  ASSUME EntryInv, [EntryNext]_entryVars
  PROVE  EntryInv'
PROOF
  <1> USE DEF EntryInv, EntryTypeOK, EntryPanels, PanelsAreOffered, ForgotIsOffered, EntryKeepsItsForms
  <1>1. CASE UNCHANGED entryVars
    BY <1>1 DEF entryVars
  <1>2. ASSUME NEW which \in {"signin", "signup", "forgot"}, ChangePanel(which)
        PROVE  EntryInv'
    BY <1>2 DEF ChangePanel, MovesTo, TabsShown, Show
  <1>3. CASE SubmitEntry
    BY <1>3 DEF SubmitEntry
  <1>4. ASSUME NEW form \in {"signin", "signup", "forgot", "reset"}, NEW accepted \in BOOLEAN, EntryAnswered(form, accepted)
        PROVE  EntryInv'
    BY <1>4 DEF EntryAnswered
  <1>5. ASSUME NEW answered \in BOOLEAN, NEW asked \in {"signin", "signup"}, NEW carried \in SUBSET {"error", "notice"},
               StartEntry(answered, asked, carried)
        PROVE  EntryInv'
    BY <1>5 DEF StartEntry, Show
  <1>6. ASSUME NEW button \in {"signout", "verify"},
               PressBar(button) \/ \E failed \in BOOLEAN : BarAnswered(button, failed)
        PROVE  EntryInv'
    BY <1>6 DEF PressBar, BarAnswered
  <1> QED BY <1>1, <1>2, <1>3, <1>4, <1>5, <1>6 DEF EntryNext

\* Whatever answer arrives last, a server without accounts gets no form back,
\* who came by a link keeps the form of the reset, and a button is off exactly
\* while its request is out (browser/auth.ts).
THEOREM EntryFormsAreKept == EntrySpec => []EntryKeepsItsForms
PROOF
  <1>1. EntryInv => EntryKeepsItsForms
    BY DEF EntryInv
  <1> QED BY <1>1, EntryStarts, EntryStep, PTL DEF EntrySpec
\* A step of the browser is a step or a stutter of each page.
LEMMA OnePageMoves ==
  ASSUME [OpenPagesNext]_openPagesVars
  PROVE  /\ [ScannerNext]_scannerVars /\ [AccountPagesNext]_accountPageVars /\ [AppPageNext]_appPageVars
         /\ [JourneyPageNext]_journeyPageVars /\ [DashPageNext]_dashPageVars
         /\ [ApiPageNext]_apiPageVars /\ [WebhookPageNext]_webhookPageVars
         /\ [SettingsPageNext]_settingsVars /\ [EntryNext]_entryVars
PROOF
  <1>1. CASE UNCHANGED openPagesVars
    BY <1>1 DEF openPagesVars
  <1>2. ASSUME NEW page \in Pages, PageMoves(page)
        PROVE  /\ [ScannerNext]_scannerVars /\ [AccountPagesNext]_accountPageVars /\ [AppPageNext]_appPageVars
               /\ [JourneyPageNext]_journeyPageVars /\ [DashPageNext]_dashPageVars
               /\ [ApiPageNext]_apiPageVars /\ [WebhookPageNext]_webhookPageVars
               /\ [SettingsPageNext]_settingsVars /\ [EntryNext]_entryVars
    BY <1>2 DEF PageMoves, OtherPagesWait
  <1> QED BY <1>1, <1>2 DEF OpenPagesNext

\* A behaviour of the browser is one of each page.
LEMMA EachPageBehaves ==
  OpenPagesSpec =>
    /\ ScannerSpec /\ AccountPagesSpec /\ AppPageSpec
    /\ JourneyPageSpec /\ DashPageSpec
    /\ ApiPageSpec /\ WebhookPageSpec
    /\ SettingsPageSpec /\ EntrySpec
PROOF
  <1>1. OpenPagesInit =>
          /\ ScannerInit /\ AccountPagesInit /\ AppPageInit /\ JourneyPageInit /\ DashPageInit
          /\ ApiPageInit /\ WebhookPageInit /\ SettingsPageInit /\ EntryInit
    BY DEF OpenPagesInit
  <1> QED BY <1>1, OnePageMoves, PTL
       DEF OpenPagesSpec, ScannerSpec, AccountPagesSpec, AppPageSpec, JourneyPageSpec, DashPageSpec, ApiPageSpec, WebhookPageSpec, SettingsPageSpec, EntrySpec
-----------------------------------------------------------------------------
(* The pages together                                                        *)

\* Whatever pages are open, and however their steps and the answers they wait
\* for interleave, a page shows what the server has (browser/scanner.ts,
\* reports.ts, quality.ts, applications.ts).
THEOREM OpenPagesFollowTheServer == OpenPagesSpec => []PagesFollowTheServer
PROOF
  <1>1. OpenPagesSpec => [](ScannerPageIsSound /\ ListAnswersItsFilter /\ ListIsTheServers)
    BY EachPageBehaves, ScannerFollowsItsRun, ListFollowsFilter, AppListIsTheServers, PTL
  <1> QED BY <1>1, PTL DEF PagesFollowTheServer

\* Whatever pages are open, a form is right about what it sent
\* (browser/settings.ts, auth.ts, api-tests.ts).
THEOREM OpenFormsKeepTheirWord == OpenPagesSpec => []FormsKeepTheirWord
PROOF
  <1>1. OpenPagesSpec => [](SavedMeansStored /\ EntryKeepsItsForms /\ SavedWhereChosen /\ ResponseIsOfTheLastSend)
    BY EachPageBehaves, SavedSettingsAreStored, EntryFormsAreKept, SavedRequestsStay, ResponseIsTheLastRequests, PTL
  <1> QED BY <1>1, PTL DEF FormsKeepTheirWord

\* Whatever pages are open, nothing of one thing is shown or kept as
\* another's, nor comes back once it was erased (browser/dashboard.ts,
\* journey.ts, toolbox/webhook-inspector.ts).
THEOREM WhatIsErasedStaysErased == OpenPagesSpec => ErasedStaysErased
PROOF
  <1>1. OpenPagesSpec => [](ClearReachesEveryCopy /\ ReportHasItsSteps)
    BY EachPageBehaves, ClearedStaysCleared, ReportsAreOfTheirExecution, PTL
  <1>2. OpenPagesSpec => WebhookPageIsSound
    BY EachPageBehaves, WebhookPageIsOfItsBox
  <1> QED BY <1>1, <1>2 DEF ErasedStaysErased

-----------------------------------------------------------------------------
(* The generator of pairs                                                    *)

\* What is left of what was typed are positive numbers.
LEMMA OnlyWithValues ==
  ASSUME NEW n \in Nat, NEW typed \in [1..n -> 0..(MaxValues + 1)]
  PROVE  /\ WithValues(typed) \in Seq(Nat)
         /\ \A i \in DOMAIN WithValues(typed) : WithValues(typed)[i] > 0
PROOF
  <1> DEFINE I == {i \in DOMAIN typed : typed[i] > 0}
  <1>1. MaxValues \in Nat
    BY PairwiseAssumption
  <1>2. typed \in Seq(Nat) /\ Len(typed) = n
    <2>1. \A i \in 1..n : typed[i] \in Nat
      BY <1>1
    <2>2. typed \in Seq(Nat)
      BY <2>1, IsASeq
    <2> QED BY <2>2, LenProperties
  <1>3. I \in SUBSET (1..Len(typed))
    BY <1>2
  <1>4. Picked(typed, I) \in Seq(Nat) /\ \A k \in DOMAIN Picked(typed, I) : \E i \in I : Picked(typed, I)[k] = typed[i]
    <2> HIDE DEF I
    <2> QED BY <1>2, <1>3, PickedProperties, PickedFrom
  <1> QED BY <1>4 DEF WithValues

\* Whole parts and remainders of natural numbers.
LEMMA Division ==
  ASSUME NEW n \in Nat \ {0}, NEW q \in Nat, NEW r \in 0..(n - 1)
  PROVE  (q * n + r) \div n = q /\ (q * n + r) % n = r
PROOF OBVIOUS

\* Whole part and remainder of a number below a product.
LEMMA DivisionRanges ==
  ASSUME NEW n \in Nat \ {0}, NEW m \in Nat, NEW x \in Nat, x < m * n
  PROVE  x \div n \in 0..(m - 1) /\ x % n \in 0..(n - 1)
PROOF OBVIOUS

Value == 1..MaxValues

\* What the parameters are once they were accepted.
Sizes(ns) == ns \in Seq(Value) /\ Len(ns) \in 2..MaxParameters

\* A row filled in up to the column n.
RowUpTo(row, n) == row \in Seq(Value) /\ Len(row) = n /\ \A c \in 1..n : row[c] <= sizes[c]

\* Which pairs are required, one by one.
LEMMA RequiredPair ==
  ASSUME NEW ns, Sizes(ns), NEW p \in RequiredPairs(ns)
  PROVE  /\ p[1] \in 1..Len(ns) /\ p[3] \in 1..Len(ns) /\ p[1] < p[3]
         /\ p[2] \in Value /\ p[4] \in Value /\ p[2] <= ns[p[1]] /\ p[4] <= ns[p[3]]
         /\ p = <<p[1], p[2], p[3], p[4]>>
PROOF
  <1>1. p \in (1..Len(ns)) \X Value \X (1..Len(ns)) \X Value
    BY DEF RequiredPairs, Pair, Value
  <1>2. p[1] < p[3] /\ p[2] <= ns[p[1]] /\ p[4] <= ns[p[3]]
    BY DEF RequiredPairs, Pair
  <1> QED BY <1>1, <1>2

\* The rows of the seed are rows of the two first columns, and every pair of
\* these is in one of them.
LEMMA SeedCovers ==
  ASSUME NEW ns, Sizes(ns)
  PROVE  /\ Seed(ns) \in Seq(Seq(Value))
         /\ \A k \in DOMAIN Seed(ns) : Len(Seed(ns)[k]) = 2 /\ Seed(ns)[k][1] <= ns[1] /\ Seed(ns)[k][2] <= ns[2]
         /\ \A p \in RequiredPairs(ns) : p[3] = 2 => Covers(Seed(ns), p)
PROOF
  <1>1. ns[1] \in Value /\ ns[2] \in Value /\ MaxValues \in Nat
    BY PairwiseAssumption DEF Sizes, Value
  <1> DEFINE m == ns[1]
             n == ns[2]
  <1>2. m \in Nat \ {0} /\ n \in Nat \ {0} /\ m * n \in Nat
    BY <1>1 DEF Value
  <1>3. ASSUME NEW k \in 1..(m * n)
        PROVE  /\ Seed(ns)[k] \in Seq(Value) /\ Len(Seed(ns)[k]) = 2
               /\ Seed(ns)[k][1] <= m /\ Seed(ns)[k][2] <= n
    <2> DEFINE x == k - 1
               a == (x \div n) + 1
               b == (x % n) + 1
    <2>1. x \in Nat /\ x < m * n
      BY <1>2
    <2>2. x \div n \in 0..(m - 1) /\ x % n \in 0..(n - 1)
      <3> HIDE DEF x, m, n
      <3> QED BY <1>2, <2>1, DivisionRanges
    <2>3. a \in 1..m /\ b \in 1..n
      <3> HIDE DEF x, m, n
      <3> QED BY <1>2, <2>2
    <2>4. Seed(ns)[k] = <<a, b>>
      BY DEF Seed
    <2>5. a \in Value /\ b \in Value /\ a <= m /\ b <= n
      <3> HIDE DEF a, b
      <3> QED BY <1>1, <1>2, <2>3 DEF Value
    <2> HIDE DEF a, b, m, n
    <2> QED BY <2>4, <2>5
  <1>4. DOMAIN Seed(ns) = 1..(m * n)
    BY DEF Seed
  <1>5. Seed(ns) \in Seq(Seq(Value))
    <2>1. Seed(ns) = [k \in 1..(m * n) |-> Seed(ns)[k]]
      BY DEF Seed
    <2> HIDE DEF m, n
    <2> QED BY <1>2, <1>3, <2>1, IsASeq
  <1>6. ASSUME NEW p \in RequiredPairs(ns), p[3] = 2
        PROVE  Covers(Seed(ns), p)
    <2>1. p[1] = 1 /\ p[2] \in Value /\ p[4] \in Value /\ p[2] <= m /\ p[4] <= n
      <3>1. p[1] \in 1..Len(ns) /\ p[1] < 2
        BY <1>6, RequiredPair
      <3>2. Len(ns) \in Nat
        BY DEF Sizes
      <3>3. p[1] = 1
        BY <3>1, <3>2
      <3> QED BY <1>6, <3>3, RequiredPair
    <2> DEFINE q == p[2] - 1
               r == p[4] - 1
               x == q * n + r
    <2>2. q \in Nat /\ r \in 0..(n - 1) /\ q < m
      BY <1>1, <1>2, <2>1 DEF Value
    <2>3. x \div n = q /\ x % n = r
      <3> HIDE DEF q, r, m, n
      <3> QED BY <1>2, <2>2, Division
    <2>4. x + 1 \in 1..(m * n)
      <3>1. q * n \in Nat /\ x \in Nat
        <4> HIDE DEF q, r, m, n
        <4> QED BY <1>2, <2>2
      <3>2. (q + 1) * n <= m * n /\ (q + 1) * n = q * n + n
        <4> HIDE DEF q, r, m, n
        <4> QED BY <1>2, <2>2
      <3>3. x < m * n
        <4> HIDE DEF q, m, n
        <4> QED BY <1>2, <2>2, <3>1, <3>2
      <3> HIDE DEF x, m, n
      <3> QED BY <1>2, <3>1, <3>3
    <2>5. PICK k \in 1..(m * n) : k - 1 = x
      <3>1. x \in Int
        <4> HIDE DEF q, r, m, n
        <4> QED BY <1>2, <2>2
      <3>2. (x + 1) - 1 = x
        <4> HIDE DEF x
        <4> QED BY <3>1
      <3> HIDE DEF x, m, n
      <3> QED BY <2>4, <3>2
    <2>6. Seed(ns)[k] = <<p[2], p[4]>>
      <3>1. Seed(ns)[k] = <<((k - 1) \div n) + 1, ((k - 1) % n) + 1>>
        BY DEF Seed
      <3>2. (k - 1) \div n = q /\ (k - 1) % n = r
        <4> HIDE DEF q, r, m, n
        <4> QED BY <2>3, <2>5
      <3>3. q + 1 = p[2] /\ r + 1 = p[4]
        BY <2>1 DEF Value
      <3> HIDE DEF q, r, n
      <3> QED BY <3>1, <3>2, <3>3
    <2>7. HasPair(Seed(ns)[k], p)
      BY <1>6, <2>1, <2>6 DEF HasPair
    <2> HIDE DEF m, n
    <2> QED BY <1>4, <2>7 DEF Covers
  <1> QED BY <1>3, <1>4, <1>5, <1>6

\* The pairs are finitely many.
LEMMA PairsAreFinite ==
  ASSUME NEW ns, Sizes(ns)
  PROVE  IsFiniteSet(RequiredPairs(ns))
PROOF
  <1> DEFINE A == 1..Len(ns)
             P == A \X Value \X A \X Value
             Q == (A \X Value) \X (A \X Value)
             f == [p \in P |-> <<<<p[1], p[2]>>, <<p[3], p[4]>>>>]
  <1>1. IsFiniteSet(A) /\ IsFiniteSet(Value)
    <2>1. 1 \in Int /\ Len(ns) \in Int /\ MaxValues \in Int
      BY PairwiseAssumption DEF Sizes
    <2> QED BY <2>1, FS_Interval DEF Value
  <1> HIDE DEF A
  <1>2. IsFiniteSet(A \X Value)
    BY <1>1, FS_Product
  <1>3. IsFiniteSet(Q)
    BY <1>2, FS_Product
  <1>4. f \in Injection(P, Q)
    <2>1. f \in [P -> Q]
      OBVIOUS
    <2>2. ASSUME NEW p \in P, NEW q \in P, f[p] = f[q] PROVE p = q
      <3>1. f[p] = <<<<p[1], p[2]>>, <<p[3], p[4]>>>> /\ f[q] = <<<<q[1], q[2]>>, <<q[3], q[4]>>>>
        OBVIOUS
      <3>2. p[1] = q[1] /\ p[2] = q[2] /\ p[3] = q[3] /\ p[4] = q[4]
        BY <2>2, <3>1
      <3> QED BY <3>2
    <2> HIDE DEF f, P, Q
    <2> QED BY <2>1, <2>2 DEF Injection, IsInjective
  <1>5. IsFiniteSet(P)
    <2> HIDE DEF f, P, Q
    <2> QED BY <1>3, <1>4, FS_Injection
  <1>6. RequiredPairs(ns) \in SUBSET P
    BY DEF RequiredPairs, Pair, Value, A
  <1> HIDE DEF P
  <1> QED BY <1>5, <1>6, FS_Subset

\* There is a best value for a column, whatever the row and the pairs.
LEMMA BestIsAValue ==
  ASSUME Sizes(sizes), uncovered \subseteq RequiredPairs(sizes), NEW row, NEW c \in 1..Len(sizes)
  PROVE  BestValue(row, c) \in Value /\ BestValue(row, c) <= sizes[c]
PROOF
  <1> DEFINE n == sizes[c]
             V == 1..n
             top == Cardinality(uncovered) + 1
             gains == {Gain(row, c, v) : v \in V}
             gaps == {top - g : g \in gains}
  <1>1. n \in Nat \ {0} /\ n <= MaxValues /\ MaxValues \in Nat /\ n \in Value
    <2>1. c \in 1..Len(sizes) => sizes[c] \in Value
      BY ElementOfSeq DEF Sizes
    <2> QED BY <2>1, PairwiseAssumption DEF Value
  <1>2. IsFiniteSet(uncovered) /\ Cardinality(uncovered) \in Nat /\ top \in Nat
    <2>1. IsFiniteSet(uncovered)
      BY PairsAreFinite, FS_Subset
    <2>2. Cardinality(uncovered) \in Nat
      BY <2>1, FS_CardinalityType
    <2> QED BY <2>1, <2>2
  <1>3. \A v \in V : Gain(row, c, v) \in Nat /\ Gain(row, c, v) < top
    <2> SUFFICES ASSUME NEW v \in V
                 PROVE  Gain(row, c, v) \in Nat /\ Gain(row, c, v) < top
      OBVIOUS
    <2> DEFINE G == {p \in uncovered : p[3] = c /\ p[4] = v /\ row[p[1]] = p[2]}
    <2>1. G \in SUBSET uncovered /\ Gain(row, c, v) = Cardinality(G)
      BY DEF Gain
    <2> HIDE DEF G
    <2>2. IsFiniteSet(G) /\ Cardinality(G) <= Cardinality(uncovered)
      BY <1>2, <2>1, FS_Subset
    <2>3. Cardinality(G) \in Nat
      BY <2>2, FS_CardinalityType
    <2> QED BY <1>2, <2>1, <2>2, <2>3
  <1>4. gaps \in SUBSET (1..top) /\ gaps # {}
    <2>1. \A g \in gains : g \in Nat /\ g < top
      BY <1>3
    <2>2. gains # {}
      BY <1>1
    <2> HIDE DEF gains, top
    <2> QED BY <1>2, <2>1, <2>2
  <1>5. PICK d \in gaps : \A e \in gaps : d <= e
    <2> HIDE DEF gaps, top
    <2> QED BY <1>2, <1>4, FirstPosition
  <1>6. PICK v \in V : d = top - Gain(row, c, v)
    OBVIOUS
  <1>7. v \in Best(row, c)
    <2>1. ASSUME NEW w \in V PROVE Gain(row, c, w) <= Gain(row, c, v)
      <3>1. d <= top - Gain(row, c, w)
        BY <1>5
      <3> HIDE DEF top
      <3> QED BY <1>2, <1>3, <1>6, <3>1
    <2> QED BY <2>1 DEF Best
  <1>8. Best(row, c) \in SUBSET (1..n) /\ Best(row, c) # {}
    BY <1>7 DEF Best
  <1>9. \E b \in Best(row, c) : \A w \in Best(row, c) : b <= w
    <2> HIDE DEF n
    <2> QED BY <1>1, <1>8, FirstPosition
  <1>10. BestValue(row, c) \in Best(row, c)
    BY <1>9 DEF BestValue
  <1> HIDE DEF n
  <1> QED BY <1>1, <1>8, <1>10 DEF Value, n

\* The pairs left over have a first one.
LEMMA FirstLeftOver ==
  ASSUME Sizes(sizes), uncovered \subseteq RequiredPairs(sizes), LeftOver # {}
  PROVE  \E p \in LeftOver : \A q \in LeftOver \ {p} : Before(p, q)
PROOF
  <1>1. MaxValues \in Nat /\ Len(sizes) \in Nat
    BY PairwiseAssumption DEF Sizes
  <1>2. \A p \in LeftOver : /\ p[1] \in 1..Len(sizes) /\ p[2] \in 1..MaxValues /\ p[3] = column /\ p[4] \in 1..MaxValues
                            /\ p = <<p[1], p[2], p[3], p[4]>>
    BY RequiredPair DEF LeftOver, Value
  <1> DEFINE I == {p[1] : p \in LeftOver}
  <1>3. I \in SUBSET (1..Len(sizes)) /\ I # {}
    BY <1>2
  <1>4. PICK i \in I : \A o \in I : i <= o
    <2> HIDE DEF I
    <2> QED BY <1>1, <1>3, FirstPosition
  <1> DEFINE OfI == {p \in LeftOver : p[1] = i}
             A == {p[2] : p \in OfI}
  <1>5. A \in SUBSET (1..MaxValues) /\ A # {}
    BY <1>2
  <1>6. PICK a \in A : \A o \in A : a <= o
    <2> HIDE DEF A
    <2> QED BY <1>1, <1>5, FirstPosition
  <1> DEFINE OfA == {p \in OfI : p[2] = a}
             B == {p[4] : p \in OfA}
  <1>7. B \in SUBSET (1..MaxValues) /\ B # {}
    BY <1>2
  <1>8. PICK b \in B : \A o \in B : b <= o
    <2> HIDE DEF B
    <2> QED BY <1>1, <1>7, FirstPosition
  <1>9. PICK p \in OfA : p[4] = b
    OBVIOUS
  <1>10. p \in LeftOver /\ p[1] = i /\ p[2] = a /\ p[4] = b
    BY <1>9
  <1>11. ASSUME NEW q \in LeftOver \ {p}
         PROVE  Before(p, q)
    <2>1. i \in Int /\ a \in Int /\ b \in Int /\ q[1] \in Int /\ q[2] \in Int /\ q[4] \in Int
      BY <1>2, <1>10
    <2>2. i <= q[1]
      BY <1>4
    <2>3. q[1] = i => a <= q[2]
      BY <1>6
    <2>4. q[1] = i /\ q[2] = a => b <= q[4]
      BY <1>8
    <2>5. ~(q[1] = i /\ q[2] = a /\ q[4] = b)
      BY <1>2, <1>10
    <2> HIDE DEF I, A, B, OfI, OfA
    <2> QED BY <1>10, <2>1, <2>2, <2>3, <2>4, <2>5 DEF Before
  <1> QED BY <1>10, <1>11

-----------------------------------------------------------------------------
\* While a column is added: the rows so far have it, the others have the
\* columns before, and nothing before it is left uncovered.
ColumnsAreAdded ==
  /\ column \in 3..Len(sizes) /\ kept = <<>> /\ grown \in 0..Len(matrix)
  /\ \A p \in uncovered : p[3] >= column
  /\ \A k \in DOMAIN matrix : RowUpTo(matrix[k], IF casesAt = "horizontal" /\ grown < k THEN column - 1 ELSE column)

\* A row that is being filled in is for a pair of the column.
RowIsFilled ==
  /\ wanted \in RequiredPairs(sizes) /\ wanted[3] = column
  /\ Len(newRow) <= column /\ RowUpTo(newRow, Len(newRow))

\* The rows are complete and cover all; one that was kept has a pair that is
\* in no other, kept or still to be looked at.
RowsAreReduced ==
  /\ uncovered = {}
  /\ \A k \in DOMAIN matrix : RowUpTo(matrix[k], Len(sizes))
  /\ \A k \in DOMAIN kept :
       /\ RowUpTo(kept[k], Len(sizes))
       /\ \E p \in RequiredPairs(sizes) : /\ HasPair(kept[k], p) /\ ~Covers(matrix, p)
                                          /\ \A l \in DOMAIN kept \ {k} : ~HasPair(kept[l], p)

RowsAreWritten ==
  /\ uncovered = {} /\ kept = <<>>
  /\ \A k \in DOMAIN matrix : RowUpTo(matrix[k], Len(sizes)) /\ HasItsOwn(matrix, k)

\* What a row has is covered, and the rest is not.
CoverageIsKept == uncovered = {p \in RequiredPairs(sizes) : ~Covers(matrix, p) /\ ~Covers(kept, p)}

PairwiseInv ==
  /\ casesAt \in {"refused", "horizontal", "vertical", "row", "reduce", "done"}
  /\ casesAt # "refused" =>
       /\ Sizes(sizes) /\ matrix \in Seq(Seq(Value)) /\ kept \in Seq(Seq(Value))
       /\ CoverageIsKept
       /\ casesAt \in {"horizontal", "vertical", "row"} => ColumnsAreAdded
       /\ casesAt = "row" => RowIsFilled
       /\ casesAt = "reduce" => RowsAreReduced
       /\ casesAt = "done" => RowsAreWritten

\* Refused, or with the product of the two first parameters, it holds at first.
LEMMA PairwiseStarts == PairwiseInit => PairwiseInv
PROOF
  <1> SUFFICES ASSUME NEW n \in Nat, NEW typed \in [1..n -> 0..(MaxValues + 1)],
                      IF Accepted(WithValues(typed)) THEN Seeded(WithValues(typed)) ELSE PairwiseRefused
               PROVE  PairwiseInv
    BY PairwiseAssumption DEF PairwiseInit
  <1> DEFINE ns == WithValues(typed)
  <1>1. ns \in Seq(Nat) /\ \A i \in DOMAIN ns : ns[i] > 0
    BY OnlyWithValues
  <1> HIDE DEF ns
  <1>2. CASE PairwiseRefused
    BY <1>2 DEF PairwiseRefused, PairwiseInv
  <1>3. CASE Accepted(ns) /\ Seeded(ns)
    <2>1. Sizes(ns)
      <3>1. Len(ns) \in 2..MaxParameters /\ \A i \in DOMAIN ns : ns[i] \in Value
        <4>1. \A i \in DOMAIN ns : ns[i] \in Nat
          BY <1>1, ElementOfSeq, LenProperties
        <4> QED BY <1>1, <1>3, <4>1, PairwiseAssumption DEF Accepted, Value
      <3>2. ns = [i \in 1..Len(ns) |-> ns[i]] /\ DOMAIN ns = 1..Len(ns) /\ Len(ns) \in Nat
        BY <1>1, LenProperties
      <3>3. ns \in Seq(Value)
        BY <3>1, <3>2, IsASeq
      <3> QED BY <3>1, <3>3 DEF Sizes
    <2>2. /\ Seed(ns) \in Seq(Seq(Value))
          /\ \A k \in DOMAIN Seed(ns) : Len(Seed(ns)[k]) = 2 /\ Seed(ns)[k][1] <= ns[1] /\ Seed(ns)[k][2] <= ns[2]
          /\ \A p \in RequiredPairs(ns) : p[3] = 2 => Covers(Seed(ns), p)
      BY <2>1, SeedCovers
    <2>3. /\ sizes = ns /\ matrix = Seed(ns) /\ uncovered = {p \in RequiredPairs(ns) : ~Covers(Seed(ns), p)}
          /\ column = 3 /\ grown = 0 /\ kept = <<>> /\ casesAt = (IF Len(ns) = 2 THEN "reduce" ELSE "horizontal")
      BY <1>3 DEF Seeded
    <2>4. \A k \in DOMAIN matrix : RowUpTo(matrix[k], 2)
      <3> SUFFICES ASSUME NEW k \in DOMAIN matrix PROVE RowUpTo(matrix[k], 2)
        OBVIOUS
      <3>1. matrix[k] \in Seq(Value)
        BY <2>2, <2>3, ElementOfSeq, LenProperties
      <3>2. \A c \in 1..2 : c = 1 \/ c = 2
        OBVIOUS
      <3> QED BY <2>2, <2>3, <3>1, <3>2 DEF RowUpTo
    <2>5. \A p : ~Covers(kept, p)
      BY <2>3 DEF Covers
    <2>6. CoverageIsKept
      BY <2>3, <2>5 DEF CoverageIsKept
    <2>7. \A p \in uncovered : p[3] \in 1..Len(ns) /\ p[3] >= 3
      <3> SUFFICES ASSUME NEW p \in uncovered PROVE p[3] \in 1..Len(ns) /\ p[3] >= 3
        OBVIOUS
      <3>1. p \in RequiredPairs(ns) /\ p[3] # 2
        BY <2>2, <2>3
      <3>2. p[1] \in 1..Len(ns) /\ p[3] \in 1..Len(ns) /\ p[1] < p[3] /\ Len(ns) \in Nat
        BY <2>1, <3>1, RequiredPair DEF Sizes
      <3> QED BY <3>1, <3>2
    <2>8. matrix \in Seq(Seq(Value)) /\ kept \in Seq(Seq(Value)) /\ Sizes(sizes) /\ DOMAIN kept = {} /\ Len(matrix) \in Nat
      BY <2>1, <2>2, <2>3, LenProperties
    <2>9. CASE Len(ns) = 2
      <3>1. uncovered = {}
        BY <2>7, <2>9
      <3>2. RowsAreReduced
        BY <2>3, <2>4, <2>8, <2>9, <3>1 DEF RowsAreReduced
      <3> QED BY <2>3, <2>6, <2>8, <2>9, <3>2 DEF PairwiseInv
    <2>10. CASE Len(ns) # 2
      <3>1. ColumnsAreAdded
        <4>1. 3 \in 3..Len(ns) /\ 0 \in 0..Len(matrix)
          <5>1. Len(ns) \in 2..MaxParameters /\ MaxParameters \in Nat
            BY <2>1, PairwiseAssumption DEF Sizes
          <5>2. \A l \in 2..MaxParameters : l # 2 => 3 \in 3..l
            BY <5>1
          <5>3. 3 \in 3..Len(ns)
            BY <2>10, <5>1, <5>2
          <5>4. 0 \in 0..Len(matrix)
            BY <2>8
          <5> QED BY <5>3, <5>4
        <4>2. \A k \in DOMAIN matrix : 0 < k
          BY <2>8, LenProperties
        <4> QED BY <2>3, <2>4, <2>7, <2>10, <4>1, <4>2 DEF ColumnsAreAdded
      <3> QED BY <2>3, <2>6, <2>8, <2>10, <3>1 DEF PairwiseInv
    <2> QED BY <2>9, <2>10
  <1> QED BY <1>2, <1>3 DEF ns

\* What one more row, or one more value in a row, covers is no longer uncovered.
LEMMA CoverageGrows ==
  ASSUME CoverageIsKept, NEW row, uncovered' = Unmarked(row), UNCHANGED <<sizes, kept>>,
         \A p \in RequiredPairs(sizes) : Covers(matrix', p) <=> Covers(matrix, p) \/ HasPair(row, p)
  PROVE  CoverageIsKept' /\ uncovered' \subseteq uncovered
PROOF
  <1>1. /\ uncovered = {p \in RequiredPairs(sizes) : ~Covers(matrix, p) /\ ~Covers(kept, p)}
        /\ uncovered' = {p \in uncovered : ~HasPair(row, p)}
    BY DEF CoverageIsKept, Unmarked
  <1>2. uncovered' = {p \in RequiredPairs(sizes) : ~Covers(matrix', p) /\ ~Covers(kept, p)}
    BY <1>1
  <1> QED BY <1>1, <1>2 DEF CoverageIsKept

\* A row that grows by one value of the next column has what it had, and new
\* pairs only with that column.
LEMMA LongerRow ==
  ASSUME Sizes(sizes), NEW n \in Nat, n < Len(sizes), NEW row, RowUpTo(row, n), NEW v \in Value, v <= sizes[n + 1]
  PROVE  /\ RowUpTo(Append(row, v), n + 1)
         /\ \A p \in RequiredPairs(sizes) : HasPair(row, p) => HasPair(Append(row, v), p)
         /\ \A p \in RequiredPairs(sizes) : HasPair(Append(row, v), p) => HasPair(row, p) \/ p[3] = n + 1
PROOF
  <1> DEFINE longer == Append(row, v)
  <1>1. row \in Seq(Value) /\ Len(row) = n /\ DOMAIN row = 1..n /\ \A c \in 1..n : row[c] <= sizes[c]
    BY LenProperties DEF RowUpTo
  <1>2. longer \in Seq(Value) /\ Len(longer) = n + 1 /\ DOMAIN longer = 1..(n + 1) /\ longer[n + 1] = v /\ \A c \in 1..n : longer[c] = row[c]
    BY <1>1, AppendProperties, LenProperties
  <1> HIDE DEF longer
  <1>3. RowUpTo(longer, n + 1)
    BY <1>1, <1>2 DEF RowUpTo
  <1>4. ASSUME NEW p \in RequiredPairs(sizes)
        PROVE  (HasPair(row, p) => HasPair(longer, p)) /\ (HasPair(longer, p) => HasPair(row, p) \/ p[3] = n + 1)
    <2>1. p[1] \in 1..Len(sizes) /\ p[3] \in 1..Len(sizes) /\ p[1] < p[3]
      BY RequiredPair
    <2>2. p[3] \in 1..n => p[1] \in 1..n /\ p[3] \in 1..(n + 1)
      BY <2>1
    <2>3. p[3] \in 1..(n + 1) => p[3] \in 1..n \/ p[3] = n + 1
      BY <2>1
    <2> QED BY <1>1, <1>2, <2>2, <2>3 DEF HasPair
  <1> QED BY <1>3, <1>4 DEF longer

\* A row that takes a value of the column keeps what it covers (pairwise.ts 124-135).
LEMMA HorizontalStep ==
  ASSUME PairwiseInv, GrowHorizontally
  PROVE  PairwiseInv'
PROOF
  <1> DEFINE row == matrix[grown + 1]
             v == BestValue(row, column)
             longer == Append(row, v)
  <1>1. /\ casesAt = "horizontal" /\ grown < Len(matrix) /\ Sizes(sizes) /\ matrix \in Seq(Seq(Value))
        /\ CoverageIsKept /\ ColumnsAreAdded /\ kept \in Seq(Seq(Value))
    BY DEF PairwiseInv, GrowHorizontally
  <1>2. /\ matrix' = [matrix EXCEPT ![grown + 1] = longer] /\ uncovered' = Unmarked(longer) /\ grown' = grown + 1
        /\ UNCHANGED <<sizes, column, wanted, newRow, kept, casesAt>>
    BY DEF GrowHorizontally
  <1>3. /\ column \in 3..Len(sizes) /\ kept = <<>> /\ grown \in 0..Len(matrix)
        /\ \A p \in uncovered : p[3] >= column
        /\ \A k \in DOMAIN matrix : RowUpTo(matrix[k], IF grown < k THEN column - 1 ELSE column)
    BY <1>1 DEF ColumnsAreAdded
  <1>4. /\ Len(matrix) \in Nat /\ DOMAIN matrix = 1..Len(matrix) /\ Len(sizes) \in Nat
        /\ grown + 1 \in 1..Len(matrix) /\ grown < grown + 1 /\ column - 1 \in Nat /\ column - 1 < Len(sizes)
        /\ (column - 1) + 1 = column /\ column \in 1..Len(sizes)
    <2>1. Len(matrix) \in Nat /\ DOMAIN matrix = 1..Len(matrix) /\ Len(sizes) \in Nat
      BY <1>1, LenProperties DEF Sizes
    <2> QED BY <1>1, <1>3, <2>1
  <1>5. RowUpTo(row, column - 1)
    BY <1>3, <1>4
  <1>6. v \in Value /\ v <= sizes[column]
    <2>1. uncovered \subseteq RequiredPairs(sizes)
      BY <1>1 DEF CoverageIsKept
    <2> QED BY <1>1, <1>4, <2>1, BestIsAValue
  <1> HIDE DEF v
  <1>7. /\ RowUpTo(longer, column)
        /\ \A p \in RequiredPairs(sizes) : HasPair(row, p) => HasPair(longer, p)
    BY <1>1, <1>4, <1>5, <1>6, LongerRow
  <1> HIDE DEF longer
  <1>8. /\ matrix' \in Seq(Seq(Value)) /\ Len(matrix') = Len(matrix) /\ DOMAIN matrix' = DOMAIN matrix
        /\ matrix'[grown + 1] = longer /\ \A k \in DOMAIN matrix : k # grown + 1 => matrix'[k] = matrix[k]
    <2>1. longer \in Seq(Value)
      BY <1>7 DEF RowUpTo
    <2> QED BY <1>1, <1>2, <1>4, <2>1, ExceptSeq
  <1>9. ASSUME NEW p \in RequiredPairs(sizes)
        PROVE  Covers(matrix', p) <=> Covers(matrix, p) \/ HasPair(longer, p)
    <2>1. ASSUME Covers(matrix', p) PROVE Covers(matrix, p) \/ HasPair(longer, p)
      BY <1>8, <2>1 DEF Covers
    <2>2. ASSUME Covers(matrix, p) PROVE Covers(matrix', p)
      <3>1. PICK k \in DOMAIN matrix : HasPair(matrix[k], p)
        BY <2>2 DEF Covers
      <3>2. HasPair(matrix'[k], p)
        BY <1>7, <1>8, <3>1
      <3> QED BY <1>8, <3>2 DEF Covers
    <2>3. ASSUME HasPair(longer, p) PROVE Covers(matrix', p)
      BY <1>4, <1>8, <2>3 DEF Covers
    <2> QED BY <2>1, <2>2, <2>3
  <1>10. CoverageIsKept' /\ uncovered' \subseteq uncovered
    BY <1>1, <1>2, <1>9, CoverageGrows
  <1>11. ColumnsAreAdded'
    <2>1. ASSUME NEW k \in DOMAIN matrix
          PROVE  RowUpTo(matrix'[k], IF grown' < k THEN column - 1 ELSE column)
      <3>1. k \in Int /\ grown \in Int
        BY <1>3, <1>4
      <3>2. CASE k = grown + 1
        BY <1>2, <1>7, <1>8, <3>1, <3>2
      <3>3. CASE k # grown + 1
        <4>1. grown' < k <=> grown < k
          BY <1>2, <3>1, <3>3
        <4> QED BY <1>3, <1>8, <3>3, <4>1
      <3> QED BY <3>2, <3>3
    <2>2. \A k \in DOMAIN matrix' : RowUpTo(matrix'[k], IF casesAt' = "horizontal" /\ grown' < k THEN column' - 1 ELSE column')
      BY <1>1, <1>2, <1>8, <2>1
    <2>3. grown' \in 0..Len(matrix')
      BY <1>2, <1>3, <1>4, <1>8
    <2>4. \A k \in DOMAIN matrix' : RowUpTo(matrix[k], IF casesAt = "horizontal" /\ grown < k THEN column - 1 ELSE column)'
      BY <1>2, <2>2 DEF RowUpTo
    <2> QED BY <1>2, <1>3, <1>10, <2>3, <2>4 DEF ColumnsAreAdded
  <1> QED BY <1>1, <1>2, <1>8, <1>10, <1>11 DEF PairwiseInv

\* All rows have the column once the last has it.
LEMMA RowsGrownStep ==
  ASSUME PairwiseInv, RowsGrown
  PROVE  PairwiseInv'
PROOF
  <1>1. /\ casesAt = "horizontal" /\ grown = Len(matrix) /\ casesAt' = "vertical"
        /\ UNCHANGED <<sizes, matrix, uncovered, column, grown, wanted, newRow, kept>>
    BY DEF RowsGrown
  <1>2. /\ Sizes(sizes) /\ matrix \in Seq(Seq(Value)) /\ kept \in Seq(Seq(Value)) /\ CoverageIsKept /\ ColumnsAreAdded
    BY <1>1 DEF PairwiseInv
  <1>3. \A k \in DOMAIN matrix : ~(grown < k)
    BY <1>1, <1>2, LenProperties
  <1>4. ColumnsAreAdded'
    BY <1>1, <1>2, <1>3 DEF ColumnsAreAdded, RowUpTo
  <1>5. CoverageIsKept'
    BY <1>1, <1>2 DEF CoverageIsKept, Covers
  <1> QED BY <1>1, <1>2, <1>4, <1>5 DEF PairwiseInv

\* The pair a new row is for is one of those required.
LEMMA StartRowStep ==
  ASSUME PairwiseInv, StartRow
  PROVE  PairwiseInv'
PROOF
  <1>1. /\ casesAt = "vertical" /\ LeftOver # {} /\ casesAt' = "row" /\ newRow' = <<>>
        /\ wanted' = (CHOOSE p \in LeftOver : \A q \in LeftOver \ {p} : Before(p, q))
        /\ UNCHANGED <<sizes, matrix, uncovered, column, grown, kept>>
    BY DEF StartRow
  <1>2. /\ Sizes(sizes) /\ matrix \in Seq(Seq(Value)) /\ kept \in Seq(Seq(Value)) /\ CoverageIsKept /\ ColumnsAreAdded
    BY <1>1 DEF PairwiseInv
  <1>3. uncovered \subseteq RequiredPairs(sizes)
    BY <1>2 DEF CoverageIsKept
  <1>4. wanted' \in LeftOver
    BY <1>1, <1>2, <1>3, FirstLeftOver
  <1>5. wanted' \in RequiredPairs(sizes) /\ wanted'[3] = column
    BY <1>3, <1>4 DEF LeftOver
  <1>6. RowIsFilled'
    <2>1. <<>> \in Seq(Value) /\ Len(<<>>) = 0
      BY EmptySeq
    <2>2. RowUpTo(newRow, Len(newRow))'
      BY <1>1, <2>1 DEF RowUpTo
    <2>3. Len(newRow') <= column'
      BY <1>1, <1>2, <2>1 DEF ColumnsAreAdded
    <2> QED BY <1>1, <1>5, <2>2, <2>3 DEF RowIsFilled
  <1>7. ColumnsAreAdded'
    BY <1>1, <1>2 DEF ColumnsAreAdded, RowUpTo
  <1>8. CoverageIsKept'
    BY <1>1, <1>2 DEF CoverageIsKept, Covers
  <1> QED BY <1>1, <1>2, <1>6, <1>7, <1>8 DEF PairwiseInv

\* A value filled in, wanted or best, is one of its parameter.
LEMMA FillRowStep ==
  ASSUME PairwiseInv, FillRow
  PROVE  PairwiseInv'
PROOF
  <1> DEFINE c == Len(newRow) + 1
             v == IF c = wanted[1] THEN wanted[2] ELSE IF c = wanted[3] THEN wanted[4] ELSE BestValue(newRow, c)
  <1>1. /\ casesAt = "row" /\ Len(newRow) < column /\ newRow' = Append(newRow, v)
        /\ UNCHANGED <<sizes, matrix, uncovered, column, grown, wanted, kept, casesAt>>
    BY DEF FillRow
  <1>2. /\ Sizes(sizes) /\ matrix \in Seq(Seq(Value)) /\ kept \in Seq(Seq(Value)) /\ CoverageIsKept /\ ColumnsAreAdded /\ RowIsFilled
    BY <1>1 DEF PairwiseInv
  <1>3. /\ wanted \in RequiredPairs(sizes) /\ wanted[3] = column /\ RowUpTo(newRow, Len(newRow)) /\ newRow \in Seq(Value)
        /\ column \in 3..Len(sizes)
    BY <1>2 DEF RowIsFilled, ColumnsAreAdded, RowUpTo
  <1>4. Len(newRow) \in Nat /\ Len(sizes) \in Nat /\ Len(newRow) < Len(sizes) /\ c \in 1..Len(sizes) /\ c <= column
    <2>1. Len(newRow) \in Nat /\ Len(sizes) \in Nat
      BY <1>2, <1>3, LenProperties DEF Sizes
    <2> QED BY <1>1, <1>3, <2>1
  <1>5. v \in Value /\ v <= sizes[c]
    <2>1. BestValue(newRow, c) \in Value /\ BestValue(newRow, c) <= sizes[c]
      <3>1. uncovered \subseteq RequiredPairs(sizes)
        BY <1>2 DEF CoverageIsKept
      <3> HIDE DEF c
      <3> QED BY <1>2, <1>4, <3>1, BestIsAValue
    <2>2. wanted[2] \in Value /\ wanted[4] \in Value /\ wanted[2] <= sizes[wanted[1]] /\ wanted[4] <= sizes[wanted[3]]
      BY <1>2, <1>3, RequiredPair
    <2> HIDE DEF c
    <2> QED BY <2>1, <2>2
  <1>6. RowUpTo(Append(newRow, v), c) /\ Len(Append(newRow, v)) = c
    <2> HIDE DEF v
    <2>1. RowUpTo(Append(newRow, v), c)
      BY <1>2, <1>3, <1>4, <1>5, LongerRow
    <2> QED BY <2>1 DEF RowUpTo
  <1>7. RowIsFilled'
    <2> HIDE DEF c, v
    <2>1. Len(newRow') = c /\ RowUpTo(newRow', Len(newRow'))
      BY <1>1, <1>6
    <2>2. RowUpTo(newRow, Len(newRow))'
      BY <1>1, <2>1 DEF RowUpTo
    <2> QED BY <1>1, <1>3, <1>4, <2>1, <2>2 DEF RowIsFilled
  <1>8. ColumnsAreAdded'
    BY <1>1, <1>2 DEF ColumnsAreAdded, RowUpTo
  <1>9. CoverageIsKept'
    BY <1>1, <1>2 DEF CoverageIsKept, Covers
  <1> HIDE DEF v
  <1> QED BY <1>1, <1>2, <1>7, <1>8, <1>9 DEF PairwiseInv

\* A row added covers its pairs and takes none away (pairwise.ts 163-164).
LEMMA AddRowStep ==
  ASSUME PairwiseInv, AddRow
  PROVE  PairwiseInv'
PROOF
  <1>1. /\ casesAt = "row" /\ Len(newRow) = column /\ matrix' = Append(matrix, newRow) /\ uncovered' = Unmarked(newRow)
        /\ newRow' = <<>> /\ wanted' = <<>> /\ casesAt' = "vertical"
        /\ UNCHANGED <<sizes, column, grown, kept>>
    BY DEF AddRow
  <1>2. /\ Sizes(sizes) /\ matrix \in Seq(Seq(Value)) /\ kept \in Seq(Seq(Value)) /\ CoverageIsKept /\ ColumnsAreAdded /\ RowIsFilled
    BY <1>1 DEF PairwiseInv
  <1>3. RowUpTo(newRow, column) /\ newRow \in Seq(Value)
    BY <1>1, <1>2 DEF RowIsFilled, RowUpTo
  <1>4. /\ matrix' \in Seq(Seq(Value)) /\ Len(matrix') = Len(matrix) + 1 /\ DOMAIN matrix' = 1..(Len(matrix) + 1)
        /\ DOMAIN matrix = 1..Len(matrix) /\ Len(matrix) \in Nat
        /\ matrix'[Len(matrix) + 1] = newRow /\ \A k \in 1..Len(matrix) : matrix'[k] = matrix[k]
    BY <1>1, <1>2, <1>3, AppendProperties, LenProperties
  <1>5. \A k \in DOMAIN matrix' : k \in DOMAIN matrix \/ k = Len(matrix) + 1
    BY <1>4
  <1>6. Len(matrix) + 1 \in DOMAIN matrix' /\ DOMAIN matrix \subseteq DOMAIN matrix'
    BY <1>4
  <1>7. ASSUME NEW p \in RequiredPairs(sizes)
        PROVE  Covers(matrix', p) <=> Covers(matrix, p) \/ HasPair(newRow, p)
    BY <1>4, <1>5, <1>6 DEF Covers
  <1>8. CoverageIsKept' /\ uncovered' \subseteq uncovered
    BY <1>1, <1>2, <1>7, CoverageGrows
  <1>9. /\ column \in 3..Len(sizes) /\ kept = <<>> /\ grown \in 0..Len(matrix) /\ \A p \in uncovered : p[3] >= column
        /\ \A k \in DOMAIN matrix : RowUpTo(matrix[k], column)
    BY <1>1, <1>2 DEF ColumnsAreAdded
  <1>10. \A k \in DOMAIN matrix' : RowUpTo(matrix'[k], column)
    BY <1>3, <1>4, <1>5, <1>9
  <1>11. \A k \in DOMAIN matrix' : RowUpTo(matrix[k], IF casesAt = "horizontal" /\ grown < k THEN column - 1 ELSE column)'
    BY <1>1, <1>10 DEF RowUpTo
  <1>12. grown' \in 0..Len(matrix')
    BY <1>1, <1>4, <1>9
  <1>13. ColumnsAreAdded'
    BY <1>1, <1>8, <1>9, <1>11, <1>12 DEF ColumnsAreAdded
  <1> QED BY <1>1, <1>2, <1>4, <1>8, <1>13 DEF PairwiseInv

\* A column is left with no pair of it uncovered, and the last one with none at all.
LEMMA NextColumnStep ==
  ASSUME PairwiseInv, NextColumn
  PROVE  PairwiseInv'
PROOF
  <1>1. /\ casesAt = "vertical" /\ LeftOver = {} /\ UNCHANGED <<sizes, matrix, uncovered, wanted, newRow, kept>>
        /\ IF column < Len(sizes)
           THEN column' = column + 1 /\ grown' = 0 /\ casesAt' = "horizontal"
           ELSE casesAt' = "reduce" /\ UNCHANGED <<column, grown>>
    BY DEF NextColumn
  <1>2. /\ Sizes(sizes) /\ matrix \in Seq(Seq(Value)) /\ kept \in Seq(Seq(Value)) /\ CoverageIsKept /\ ColumnsAreAdded
    BY <1>1 DEF PairwiseInv
  <1>3. CoverageIsKept'
    BY <1>1, <1>2 DEF CoverageIsKept, Covers
  <1>4. /\ column \in 3..Len(sizes) /\ kept = <<>> /\ grown \in 0..Len(matrix)
        /\ \A k \in DOMAIN matrix : RowUpTo(matrix[k], column)
    BY <1>1, <1>2 DEF ColumnsAreAdded
  <1>5. /\ Len(sizes) \in Nat /\ Len(matrix) \in Nat /\ DOMAIN matrix = 1..Len(matrix) /\ column \in Int
    BY <1>2, <1>4, LenProperties DEF Sizes
  <1>6. \A p \in uncovered : p[3] \in 1..Len(sizes) /\ p[3] > column
    <2> SUFFICES ASSUME NEW p \in uncovered PROVE p[3] \in 1..Len(sizes) /\ p[3] > column
      OBVIOUS
    <2>1. p[3] \in 1..Len(sizes)
      BY <1>2, RequiredPair DEF CoverageIsKept
    <2>2. p[3] >= column /\ p[3] # column
      BY <1>1, <1>2 DEF ColumnsAreAdded, LeftOver
    <2> QED BY <1>5, <2>1, <2>2
  <1>7. CASE column < Len(sizes)
    <2>1. column' = column + 1 /\ grown' = 0 /\ casesAt' = "horizontal" /\ column' - 1 = column
      BY <1>1, <1>5, <1>7
    <2>2. column' \in 3..Len(sizes) /\ grown' \in 0..Len(matrix) /\ \A p \in uncovered : p[3] >= column'
      BY <1>4, <1>5, <1>6, <1>7, <2>1
    <2>3. \A k \in DOMAIN matrix : grown' < k
      BY <1>5, <2>1
    <2>4. \A k \in DOMAIN matrix' : RowUpTo(matrix[k], IF casesAt = "horizontal" /\ grown < k THEN column - 1 ELSE column)'
      BY <1>1, <1>4, <2>1, <2>3 DEF RowUpTo
    <2>5. ColumnsAreAdded'
      BY <1>1, <1>4, <2>2, <2>4 DEF ColumnsAreAdded
    <2> QED BY <1>1, <1>2, <1>3, <2>1, <2>5 DEF PairwiseInv
  <1>8. CASE ~(column < Len(sizes))
    <2>1. column = Len(sizes) /\ casesAt' = "reduce"
      BY <1>1, <1>4, <1>5, <1>8
    <2>2. uncovered' = {}
      BY <1>1, <1>5, <1>6, <2>1
    <2>3. kept' = <<>> /\ DOMAIN kept' = {}
      BY <1>1, <1>4, EmptySeq, LenProperties
    <2>4. \A k \in DOMAIN matrix' : RowUpTo(matrix[k], Len(sizes))'
      BY <1>1, <1>4, <2>1 DEF RowUpTo
    <2>5. RowsAreReduced'
      BY <2>2, <2>3, <2>4 DEF RowsAreReduced
    <2> QED BY <1>1, <1>2, <1>3, <2>1, <2>5 DEF PairwiseInv
  <1> QED BY <1>7, <1>8

\* A row goes only if its pairs are in others, and one that stays has a pair no
\* other has, whatever goes after it (pairwise.ts 184-214).
LEMMA ReduceStep ==
  ASSUME PairwiseInv, Reduce
  PROVE  PairwiseInv'
PROOF
  <1> DEFINE n == Len(matrix)
             row == matrix[n]
             front == SubSeq(matrix, 1, n - 1)
  <1>1. /\ casesAt = "reduce" /\ matrix # <<>> /\ matrix' = front
        /\ kept' = IF Redundant THEN kept ELSE <<row>> \o kept
        /\ UNCHANGED <<sizes, uncovered, column, grown, wanted, newRow, casesAt>>
    BY DEF Reduce
  <1>2. /\ Sizes(sizes) /\ matrix \in Seq(Seq(Value)) /\ kept \in Seq(Seq(Value)) /\ CoverageIsKept /\ RowsAreReduced
    BY <1>1 DEF PairwiseInv
  <1>3. n \in Nat \ {0} /\ DOMAIN matrix = 1..n /\ n \in DOMAIN matrix
    BY <1>1, <1>2, LenProperties, EmptySeq
  <1>4. /\ front \in Seq(Seq(Value)) /\ DOMAIN front = 1..(n - 1) /\ \A k \in 1..(n - 1) : front[k] = matrix[k]
    <2>1. n - 1 \in Nat /\ n - 1 <= n
      BY <1>3
    <2>2. /\ front \in Seq(Seq(Value)) /\ Len(front) = n - 1 /\ \A k \in 1..(n - 1) : front[k] = matrix[k]
      BY <1>2, <1>3, <2>1, SubSeqProperties
    <2> QED BY <2>2, LenProperties
  <1>5. \A k \in DOMAIN matrix : k \in DOMAIN front \/ k = n
    BY <1>3, <1>4
  <1>6. DOMAIN front \subseteq DOMAIN matrix
    BY <1>3, <1>4
  <1>7. \A p : Covers(matrix, p) <=> Covers(front, p) \/ HasPair(row, p)
    <2> HIDE DEF front, n
    <2> QED BY <1>3, <1>4, <1>5, <1>6 DEF Covers, row
  <1>8. row \in Seq(Value) /\ RowUpTo(row, Len(sizes)) /\ \A k \in DOMAIN front : RowUpTo(front[k], Len(sizes))
    <2>1. row \in Seq(Value)
      BY <1>2, <1>3, ElementOfSeq
    <2> QED BY <1>2, <1>3, <1>4, <1>6, <2>1 DEF RowsAreReduced
  <1>9. Redundant <=> \A p \in RequiredPairs(sizes) : HasPair(row, p) => Covers(front, p) \/ Covers(kept, p)
    BY DEF Redundant
  <1>10. /\ uncovered = {}
         /\ \A k \in DOMAIN kept :
              /\ RowUpTo(kept[k], Len(sizes))
              /\ \E p \in RequiredPairs(sizes) : /\ HasPair(kept[k], p) /\ ~Covers(matrix, p)
                                                 /\ \A l \in DOMAIN kept \ {k} : ~HasPair(kept[l], p)
    BY <1>2 DEF RowsAreReduced
  <1>11. \A p \in RequiredPairs(sizes) : Covers(matrix, p) \/ Covers(kept, p)
    BY <1>2, <1>10 DEF CoverageIsKept
  <1> HIDE DEF row, front, n
  <1>12. CASE Redundant
    <2>1. kept' = kept
      BY <1>1, <1>12
    <2>2. \A p \in RequiredPairs(sizes) : Covers(front, p) \/ Covers(kept, p)
      BY <1>7, <1>9, <1>11, <1>12
    <2>3. CoverageIsKept'
      <3>1. \A p : Covers(matrix, p)' = Covers(front, p) /\ Covers(kept, p)' = Covers(kept, p)
        BY <1>1, <2>1 DEF Covers
      <3> QED BY <1>1, <1>10, <2>2, <3>1 DEF CoverageIsKept
    <2>4. RowsAreReduced'
      <3>1. \A k \in DOMAIN kept' :
              /\ RowUpTo(kept'[k], Len(sizes))
              /\ \E p \in RequiredPairs(sizes) : /\ HasPair(kept'[k], p) /\ ~Covers(matrix', p)
                                                 /\ \A l \in DOMAIN kept' \ {k} : ~HasPair(kept'[l], p)
        BY <1>1, <1>7, <1>10, <2>1
      <3>2. \A k \in DOMAIN matrix' : RowUpTo(matrix'[k], Len(sizes))
        BY <1>1, <1>8
      <3> QED BY <1>1, <1>10, <3>1, <3>2 DEF RowsAreReduced, RowUpTo, Covers
    <2> QED BY <1>1, <1>2, <1>4, <2>1, <2>3, <2>4 DEF PairwiseInv
  <1>13. CASE ~Redundant
    <2>1. kept' = <<row>> \o kept
      BY <1>1, <1>13
    <2>2. /\ kept' \in Seq(Seq(Value)) /\ Len(kept') = Len(kept) + 1 /\ Len(kept) \in Nat
          /\ kept'[1] = row /\ \A k \in 1..Len(kept) : kept'[k + 1] = kept[k]
      <3>1. <<row>> \in Seq(Seq(Value)) /\ Len(<<row>>) = 1 /\ <<row>>[1] = row
        BY <1>8
      <3>2. /\ <<row>> \o kept \in Seq(Seq(Value)) /\ Len(<<row>> \o kept) = 1 + Len(kept)
            /\ \A k \in 1..(1 + Len(kept)) : (<<row>> \o kept)[k] = IF k <= 1 THEN <<row>>[k] ELSE kept[k - 1]
        BY <1>2, <3>1, ConcatProperties
      <3>3. Len(kept) \in Nat
        BY <1>2, LenProperties
      <3>4. \A k \in 1..Len(kept) : k + 1 \in 1..(1 + Len(kept)) /\ ~(k + 1 <= 1) /\ (k + 1) - 1 = k
        BY <3>3
      <3>5. 1 \in 1..(1 + Len(kept)) /\ 1 <= 1 /\ 1 + Len(kept) = Len(kept) + 1
        BY <3>3
      <3> QED BY <2>1, <3>1, <3>2, <3>3, <3>4, <3>5
    <2>3. /\ DOMAIN kept = 1..Len(kept) /\ 1 \in DOMAIN kept' /\ \A k \in DOMAIN kept : k + 1 \in DOMAIN kept' /\ k + 1 # 1
          /\ \A k \in DOMAIN kept' : k = 1 \/ (k - 1 \in DOMAIN kept /\ (k - 1) + 1 = k)
      <3>1. DOMAIN kept = 1..Len(kept) /\ DOMAIN kept' = 1..(Len(kept) + 1)
        BY <1>2, <2>2, LenProperties
      <3> QED BY <2>2, <3>1
    <2>4. \A p : Covers(kept', p) <=> Covers(kept, p) \/ HasPair(row, p)
      <3> SUFFICES ASSUME NEW p PROVE Covers(kept', p) <=> Covers(kept, p) \/ HasPair(row, p)
        OBVIOUS
      <3>1. ASSUME NEW k \in DOMAIN kept', HasPair(kept'[k], p) PROVE Covers(kept, p) \/ HasPair(row, p)
        <4>1. CASE k = 1
          BY <2>2, <3>1, <4>1
        <4>2. CASE k # 1
          <5>1. k - 1 \in DOMAIN kept /\ kept'[k] = kept[k - 1]
            BY <2>2, <2>3, <4>2
          <5> QED BY <3>1, <5>1 DEF Covers
        <4> QED BY <4>1, <4>2
      <3>2. ASSUME NEW k \in DOMAIN kept, HasPair(kept[k], p) PROVE Covers(kept', p)
        BY <2>2, <2>3, <3>2 DEF Covers
      <3>3. ASSUME HasPair(row, p) PROVE Covers(kept', p)
        BY <2>2, <2>3, <3>3 DEF Covers
      <3> QED BY <3>1, <3>2, <3>3 DEF Covers
    <2>5. CoverageIsKept'
      <3>1. \A p : Covers(matrix, p)' = Covers(front, p) /\ Covers(kept, p)' = Covers(kept', p)
        BY <1>1 DEF Covers
      <3>2. \A p \in RequiredPairs(sizes) : Covers(front, p) \/ Covers(kept', p)
        BY <1>7, <1>11, <2>4
      <3> QED BY <1>1, <1>10, <3>1, <3>2 DEF CoverageIsKept
    <2>6. ASSUME NEW k \in DOMAIN kept'
          PROVE  /\ RowUpTo(kept'[k], Len(sizes))
                 /\ \E p \in RequiredPairs(sizes) : /\ HasPair(kept'[k], p) /\ ~Covers(front, p)
                                                    /\ \A l \in DOMAIN kept' \ {k} : ~HasPair(kept'[l], p)
      <3>1. CASE k = 1
        <4>1. PICK p \in RequiredPairs(sizes) : HasPair(row, p) /\ ~Covers(front, p) /\ ~Covers(kept, p)
          BY <1>9, <1>13
        <4>2. ASSUME NEW l \in DOMAIN kept' \ {1} PROVE ~HasPair(kept'[l], p)
          <5>1. l - 1 \in DOMAIN kept /\ kept'[l] = kept[l - 1]
            BY <2>2, <2>3, <4>2
          <5> QED BY <4>1, <5>1 DEF Covers
        <4> QED BY <1>8, <2>2, <3>1, <4>1, <4>2
      <3>2. CASE k # 1
        <4>1. k - 1 \in DOMAIN kept /\ kept'[k] = kept[k - 1] /\ (k - 1) + 1 = k
          BY <2>2, <2>3, <3>2
        <4>2. PICK p \in RequiredPairs(sizes) : /\ HasPair(kept[k - 1], p) /\ ~Covers(matrix, p)
                                                /\ \A l \in DOMAIN kept \ {k - 1} : ~HasPair(kept[l], p)
          BY <1>10, <4>1
        <4>3. ~Covers(front, p) /\ ~HasPair(row, p)
          BY <1>7, <4>2
        <4>4. ASSUME NEW l \in DOMAIN kept' \ {k} PROVE ~HasPair(kept'[l], p)
          <5>1. CASE l = 1
            BY <2>2, <4>3, <5>1
          <5>2. CASE l # 1
            <6>1. l - 1 \in DOMAIN kept /\ kept'[l] = kept[l - 1] /\ (l - 1) + 1 = l
              BY <2>2, <2>3, <5>2
            <6>2. l - 1 # k - 1
              BY <4>1, <4>4, <6>1
            <6> QED BY <4>2, <6>1, <6>2
          <5> QED BY <5>1, <5>2
        <4> QED BY <1>10, <4>1, <4>2, <4>3, <4>4
      <3> QED BY <3>1, <3>2
    <2>7. RowsAreReduced'
      <3>1. \A k \in DOMAIN matrix' : RowUpTo(matrix'[k], Len(sizes))
        BY <1>1, <1>8
      <3> QED BY <1>1, <1>10, <2>6, <3>1 DEF RowsAreReduced, RowUpTo, Covers
    <2> QED BY <1>1, <1>2, <1>4, <2>2, <2>5, <2>7 DEF PairwiseInv
  <1> QED BY <1>12, <1>13

\* The rows kept are the suite.
LEMMA WriteRowsStep ==
  ASSUME PairwiseInv, WriteRows
  PROVE  PairwiseInv'
PROOF
  <1>1. /\ casesAt = "reduce" /\ matrix = <<>> /\ matrix' = kept /\ kept' = <<>> /\ casesAt' = "done"
        /\ UNCHANGED <<sizes, uncovered, column, grown, wanted, newRow>>
    BY DEF WriteRows
  <1>2. /\ Sizes(sizes) /\ kept \in Seq(Seq(Value)) /\ CoverageIsKept /\ RowsAreReduced
    BY <1>1 DEF PairwiseInv
  <1>3. \A p : ~Covers(<<>>, p)
    BY DEF Covers
  <1>4. CoverageIsKept'
    <2>1. \A p : Covers(matrix, p)' = Covers(kept, p) /\ ~Covers(kept, p)'
      BY <1>1, <1>3 DEF Covers
    <2> QED BY <1>1, <1>2, <1>3, <2>1 DEF CoverageIsKept
  <1>5. \A k \in DOMAIN kept : RowUpTo(kept[k], Len(sizes)) /\ HasItsOwn(kept, k)
    BY <1>2 DEF RowsAreReduced, HasItsOwn
  <1>6. RowsAreWritten'
    BY <1>1, <1>2, <1>5 DEF RowsAreWritten, RowsAreReduced, RowUpTo, HasItsOwn
  <1>7. <<>> \in Seq(Seq(Value))
    BY EmptySeq
  <1> QED BY <1>1, <1>2, <1>4, <1>6, <1>7 DEF PairwiseInv

\* Every step keeps it.
LEMMA PairwiseStep ==
  ASSUME PairwiseInv, [PairwiseNext]_pairVars
  PROVE  PairwiseInv'
PROOF
  <1>1. CASE UNCHANGED pairVars
    BY <1>1 DEF pairVars, PairwiseInv, CoverageIsKept, Covers, ColumnsAreAdded, RowIsFilled, RowsAreReduced, RowsAreWritten, RowUpTo, HasItsOwn
  <1> QED BY <1>1, HorizontalStep, RowsGrownStep, StartRowStep, FillRowStep, AddRowStep, NextColumnStep, ReduceStep, WriteRowsStep
          DEF PairwiseNext

\* Rows that each have a pair of their own are not more than there are.
LEMMA NoMoreThanTheProduct ==
  ASSUME Sizes(sizes), NEW rows \in Seq(Seq(Value)),
         \A k \in DOMAIN rows : rows[k] \in CompleteRows /\ HasItsOwn(rows, k)
  PROVE  Len(rows) <= Cardinality(CompleteRows)
PROOF
  <1> DEFINE C == 1..Len(sizes)
             graph == [row \in CompleteRows |-> {<<c, row[c]>> : c \in C}]
             D == DOMAIN rows
             f == [k \in D |-> rows[k]]
  <1>1. IsFiniteSet(SUBSET (C \X Value))
    <2>1. 1 \in Int /\ Len(sizes) \in Int /\ MaxValues \in Int
      BY PairwiseAssumption DEF Sizes
    <2>2. IsFiniteSet(C) /\ IsFiniteSet(Value)
      BY <2>1, FS_Interval DEF Value
    <2> HIDE DEF C
    <2> QED BY <2>2, FS_Product, FS_SUBSET
  <1>2. graph \in Injection(CompleteRows, SUBSET (C \X Value))
    <2>1. \A row \in CompleteRows : row \in [C -> Value]
      BY DEF CompleteRows, Value
    <2>2. graph \in [CompleteRows -> SUBSET (C \X Value)]
      <3> HIDE DEF C
      <3> QED BY <2>1
    <2>3. ASSUME NEW row \in CompleteRows, NEW other \in CompleteRows, graph[row] = graph[other]
          PROVE  row = other
      <3>1. {<<c, row[c]>> : c \in C} = {<<c, other[c]>> : c \in C}
        BY <2>3
      <3>2. ASSUME NEW c \in C PROVE row[c] = other[c]
        <4>1. <<c, row[c]>> \in {<<d, other[d]>> : d \in C}
          BY <3>1
        <4> QED BY <4>1
      <3> HIDE DEF C
      <3> QED BY <2>1, <3>2
    <2> HIDE DEF graph, C
    <2> QED BY <2>2, <2>3 DEF Injection, IsInjective
  <1>3. IsFiniteSet(CompleteRows)
    <2> HIDE DEF graph, C
    <2> QED BY <1>1, <1>2, FS_Injection
  <1>4. f \in Injection(D, CompleteRows)
    <2>1. ASSUME NEW k \in D, NEW l \in D, rows[k] = rows[l] PROVE k = l
      <3>1. PICK p \in RequiredPairs(sizes) : HasPair(rows[k], p) /\ \A o \in DOMAIN rows \ {k} : ~HasPair(rows[o], p)
        BY DEF HasItsOwn
      <3> QED BY <2>1, <3>1
    <2> QED BY <2>1 DEF Injection, IsInjective
  <1>5. Cardinality(D) <= Cardinality(CompleteRows)
    <2> HIDE DEF f, D
    <2> QED BY <1>3, <1>4, FS_Injection
  <1>6. Cardinality(D) = Len(rows)
    <2>1. D = 1..Len(rows) /\ Len(rows) \in Nat
      BY LenProperties
    <2>2. 1 \in Int /\ Len(rows) \in Int /\ (1 > Len(rows) <=> Len(rows) = 0) /\ (Len(rows) - 1) + 1 = Len(rows)
      BY <2>1
    <2> HIDE DEF D
    <2> QED BY <2>1, <2>2, FS_Interval
  <1> QED BY <1>5, <1>6

\* The pairwise generator covers every pair of values, with complete cases none
\* of which could be left out, and never more of them than the product has
\* (pairwise.ts 103-214), whatever the parameters are.
THEOREM EveryPairIsCovered == PairwiseSpec => []SuiteCoversEveryPair
PROOF
  <1>1. PairwiseInv => SuiteCoversEveryPair
    <2> SUFFICES ASSUME PairwiseInv, casesAt # "refused" PROVE SuiteCoversEveryPair
      BY DEF SuiteCoversEveryPair
    <2>1. CoverageIsKept /\ Sizes(sizes) /\ matrix \in Seq(Seq(Value))
      BY DEF PairwiseInv
    <2>2. ASSUME casesAt = "done"
          PROVE  /\ uncovered = {}
                 /\ \A k \in DOMAIN matrix : matrix[k] \in CompleteRows /\ HasItsOwn(matrix, k)
                 /\ Len(matrix) <= Cardinality(CompleteRows)
      <3>1. uncovered = {} /\ \A k \in DOMAIN matrix : RowUpTo(matrix[k], Len(sizes)) /\ HasItsOwn(matrix, k)
        BY <2>2 DEF PairwiseInv, RowsAreWritten
      <3>2. \A row : RowUpTo(row, Len(sizes)) => row \in CompleteRows
        <4> SUFFICES ASSUME NEW row, RowUpTo(row, Len(sizes)) PROVE row \in CompleteRows
          OBVIOUS
        <4>1. row \in [1..Len(sizes) -> Value]
          BY LenProperties, ElementOfSeq DEF RowUpTo
        <4> QED BY <4>1 DEF RowUpTo, CompleteRows, Value
      <3> QED BY <2>1, <3>1, <3>2, NoMoreThanTheProduct
    <2> QED BY <2>1, <2>2 DEF SuiteCoversEveryPair, CoverageIsKept
  <1> QED BY <1>1, PairwiseStarts, PairwiseStep, PTL DEF PairwiseSpec

-----------------------------------------------------------------------------
(* The generator of boundary values                                          *)

Limits == {l \in [type : FieldType, minimum : Bounds, maximum : Bounds, step : Steps] : InRange(l) /\ Exact(l)}

\* What has no more decimal places than the step is not rounded.
LEMMA NotRounded ==
  ASSUME NEW v \in Int, v % Grain = 0
  PROVE  RoundToStep(v) = v
PROOF
  <1>1. Grain \in Nat \ {0}
    BY BoundaryAssumption
  <1> DEFINE q == v \div Grain
             a == IF q < 0 THEN -q ELSE q
             w == IF v < 0 THEN -v ELSE v
  <1>2. q \in Int /\ v = Grain * q
    BY <1>1
  <1>3. a \in Nat /\ (q < 0 <=> v < 0) /\ w = Grain * a
    <2> HIDE DEF q
    <2> QED BY <1>1, <1>2
  <1>4. w * 2 + Grain = a * (2 * Grain) + Grain
    <2> HIDE DEF a, w
    <2> QED BY <1>1, <1>3
  <1>5. (a * (2 * Grain) + Grain) \div (2 * Grain) = a
    <2>1. 2 * Grain \in Nat \ {0} /\ Grain \in 0..(2 * Grain - 1)
      BY <1>1
    <2> HIDE DEF a
    <2> QED BY <1>3, <2>1, Division
  <1>6. RoundToStep(v) = Grain * (IF v < 0 THEN -a ELSE a)
    <2>1. RoundToStep(v) = Grain * (IF v < 0 THEN -((w * 2 + Grain) \div (2 * Grain)) ELSE (w * 2 + Grain) \div (2 * Grain))
      BY DEF RoundToStep
    <2> HIDE DEF a, w
    <2> QED BY <1>4, <1>5, <2>1
  <1>7. (IF v < 0 THEN -a ELSE a) = q
    <2> HIDE DEF q
    <2> QED BY <1>2, <1>3
  <1> HIDE DEF q, a
  <1> QED BY <1>2, <1>6, <1>7

\* The i-th of the six points, and whether it is there.
ThePoint(i) == PointAt(limits, Measures(limits)[i], POSITION_ORDER[i])
IsThere(i) == limits.type = "string-length" => Measures(limits)[i] >= 0

\* What the points are where no decimal is rounded: a measure is the neighbour it is
\* named for, or the limit itself at the last exact integer, and it is written as it
\* is, but for the day before the first date and the one after the last.
WrittenAsIs(v) ==
  \/ Text(limits.type, v) = v
  \/ limits.type = "date" /\ limits.minimum = FirstDate /\ v < limits.minimum /\ Text(limits.type, v) = EarlyText
  \/ limits.type = "date" /\ limits.maximum = LastDate /\ v > limits.maximum /\ Text(limits.type, v) = LateText

LEMMA TheSixPoints ==
  ASSUME limits \in Limits, OnGrain
  PROVE  LET s == StepOf(limits)
             lo == limits.minimum
             hi == limits.maximum
             m == Measures(limits)
         IN /\ lo \in Int /\ hi \in Int /\ lo <= hi /\ s \in Int /\ s > 0
            /\ m[1] = lo - s \/ (limits.type = "integer" /\ lo = -ExactInteger /\ m[1] = lo)
            /\ m[2] = lo /\ m[5] = hi
            /\ m[3] = lo + s \/ m[3] = lo
            /\ m[4] = hi - s \/ m[4] = hi
            /\ m[6] = hi + s \/ (limits.type = "integer" /\ hi = ExactInteger /\ m[6] = hi)
            /\ \A i \in 1..6 : /\ m[i] \in Int /\ WrittenAsIs(m[i])
                               /\ ThePoint(i) = [measure |-> m[i], input |-> Text(limits.type, m[i]), from |-> POSITION_ORDER[i]]
PROOF
  <1> DEFINE s == StepOf(limits)
             lo == limits.minimum
             hi == limits.maximum
             near == {lo - s, lo, lo + s, hi - s, hi, hi + s}
             m == Measures(limits)
  <1>1. /\ lo \in Int /\ hi \in Int /\ lo <= hi /\ limits.step \in Steps /\ (limits.type = "decimal" => limits.step > 0)
        /\ limits.type \in FieldType
    BY BoundaryAssumption DEF Limits, InRange, Exact
  <1>2. s \in Int /\ s > 0 /\ (limits.type # "decimal" => s = 1)
    BY <1>1, BoundaryAssumption DEF StepOf
  <1>3. ASSUME limits.type = "decimal", NEW v \in near
        PROVE  RoundToStep(v) = v
    <2>1. Grain \in Nat \ {0} /\ s % Grain = 0 /\ lo % Grain = 0 /\ hi % Grain = 0
      BY <1>1, <1>3, BoundaryAssumption DEF StepOf, OnGrain
    <2>2. v \in Int /\ v % Grain = 0
      <3>1. PICK a \in Int, b \in Int, c \in Int : s = Grain * a /\ lo = Grain * b /\ hi = Grain * c
        <4>1. \A x \in Int : x % Grain = 0 => x \div Grain \in Int /\ x = Grain * (x \div Grain)
          BY <2>1
        <4> HIDE DEF s, lo, hi
        <4> QED BY <1>1, <1>2, <2>1, <4>1
      <3> HIDE DEF s, lo, hi
      <3>2. PICK k \in Int : v = Grain * k
        <4>1. /\ lo - s = Grain * (b - a) /\ lo + s = Grain * (b + a)
              /\ hi - s = Grain * (c - a) /\ hi + s = Grain * (c + a)
          BY <2>1, <3>1
        <4>2. b - a \in Int /\ b + a \in Int /\ c - a \in Int /\ c + a \in Int
          BY <3>1
        <4> QED BY <1>3, <3>1, <4>1, <4>2
      <3>3. (Grain * k) % Grain = 0 /\ Grain * k \in Int
        BY <2>1
      <3> QED BY <3>2, <3>3
    <2> QED BY <2>2, NotRounded
  <1>4. /\ limits.type = "integer" => lo >= -ExactInteger /\ hi <= ExactInteger
        /\ limits.type = "date" => lo >= FirstDate /\ hi <= LastDate
        /\ ExactInteger \in Nat /\ FirstDate \in Int /\ LastDate \in Int
    BY WrittenAssumption DEF Limits, InRange, Exact
  <1>5. ASSUME limits.type # "integer", NEW v \in near
        PROVE  NumberAt(limits.type, v) = v
    BY <1>3, <1>5 DEF NumberAt
  <1>6. ASSUME limits.type = "integer", NEW v \in Int
        PROVE  NumberAt(limits.type, v) = IF v > ExactInteger THEN ExactInteger ELSE IF v < -ExactInteger THEN -ExactInteger ELSE v
    BY <1>4, <1>6 DEF NumberAt
  <1>7. /\ m[1] = NumberAt(limits.type, lo - s) /\ m[2] = lo /\ m[3] = NumberAt(limits.type, lo + s)
        /\ m[4] = NumberAt(limits.type, hi - s) /\ m[5] = hi /\ m[6] = NumberAt(limits.type, hi + s)
    BY DEF Measures
  <1> HIDE DEF s, lo, hi, m
  <1>8. /\ m[1] = lo - s \/ (limits.type = "integer" /\ lo = -ExactInteger /\ m[1] = lo)
        /\ m[3] = lo + s \/ m[3] = lo
        /\ m[4] = hi - s \/ m[4] = hi
        /\ m[6] = hi + s \/ (limits.type = "integer" /\ hi = ExactInteger /\ m[6] = hi)
    <2>1. CASE limits.type # "integer"
      BY <1>5, <1>7, <2>1
    <2>2. CASE limits.type = "integer"
      <3>1. s = 1 /\ lo - 1 \in Int /\ lo + 1 \in Int /\ hi - 1 \in Int /\ hi + 1 \in Int
        BY <1>1, <1>2, <2>2
      <3> QED BY <1>1, <1>4, <1>6, <1>7, <2>2, <3>1
    <2> QED BY <2>1, <2>2
  <1>9. \A i \in 1..6 : m[i] \in near
    <2>1. \A i \in 1..6 : i \in {1, 2, 3, 4, 5, 6}
      OBVIOUS
    <2> QED BY <1>7, <1>8, <2>1
  <1>10. ASSUME NEW v \in near
         PROVE  v \in Int /\ WrittenAsIs(v)
    <2>1. v \in Int
      BY <1>1, <1>2
    <2>2. CASE limits.type = "decimal"
      BY <1>3, <2>1, <2>2 DEF WrittenAsIs, Text
    <2>3. CASE limits.type = "date"
      <3>1. s = 1 /\ Text(limits.type, v) = IF v < FirstDate THEN EarlyText ELSE IF v > LastDate THEN LateText ELSE v
        BY <1>2, <2>3 DEF Text, IsoDate
      <3>2. v < FirstDate => v < lo /\ lo = FirstDate
        BY <1>1, <1>4, <2>3, <3>1
      <3>3. v > LastDate => v > hi /\ hi = LastDate
        BY <1>1, <1>4, <2>3, <3>1
      <3> QED BY <2>3, <3>1, <3>2, <3>3 DEF WrittenAsIs, lo, hi
    <2>4. CASE limits.type \notin {"decimal", "date"}
      BY <2>1, <2>4 DEF WrittenAsIs, Text
    <2> QED BY <2>1, <2>2, <2>3, <2>4
  <1>11. \A i \in 1..6 : ThePoint(i) = [measure |-> m[i], input |-> Text(limits.type, m[i]), from |-> POSITION_ORDER[i]]
    BY DEF ThePoint, PointAt, m
  <1> HIDE DEF near
  <1> QED BY <1>1, <1>2, <1>7, <1>8, <1>9, <1>10, <1>11 DEF s, lo, hi, m

\* A position taken has a point that belongs there, no value is taken twice,
\* and each point is still to come, or its value or its position is taken.
IsAnswered(p) == (\E q \in DOMAIN byPosition : byPosition[q].input = p.input) \/ PositionOf(p) \in DOMAIN byPosition

PointsArePlaced ==
  /\ \A k \in DOMAIN points : \E i \in 1..6 : points[k] = ThePoint(i)
  /\ \A q \in DOMAIN byPosition : PositionOf(byPosition[q]) = q /\ \E i \in 1..6 : byPosition[q] = ThePoint(i)
  /\ \A q, r \in DOMAIN byPosition : byPosition[q].input = byPosition[r].input => q = r
  /\ \A i \in 1..6 : IsThere(i) => (\E k \in DOMAIN points : points[k] = ThePoint(i)) \/ IsAnswered(ThePoint(i))

\* The cases written are the points placed, each once.
CasesAreThePlaces ==
  /\ points = <<>>
  /\ \A n \in DOMAIN cases : cases[n].position \in DOMAIN byPosition /\ cases[n].input = byPosition[cases[n].position].input
  /\ \A n, k \in DOMAIN cases : cases[n].position = cases[k].position => n = k
  /\ \A q \in DOMAIN byPosition : \E n \in DOMAIN cases : cases[n].position = q

BoundaryInv ==
  /\ limits \in Limits /\ casesDone \in BOOLEAN
  /\ \E S : points \in Seq(S)
  /\ OnGrain => PointsArePlaced
  /\ OnGrain /\ casesDone => CasesAreThePlaces

\* At first the points that are there are all still to come.
LEMMA BoundaryStarts == BoundaryInit => BoundaryInv
PROOF
  <1> SUFFICES ASSUME BoundaryInit PROVE BoundaryInv
    OBVIOUS
  <1>1. limits \in Limits /\ points = PointsFor(limits) /\ byPosition = <<>> /\ casesDone = FALSE
    BY DEF BoundaryInit, Limits
  <1> DEFINE six == [i \in 1..6 |-> ThePoint(i)]
             I == {i \in 1..6 : IsThere(i)}
             S == {ThePoint(i) : i \in 1..6}
  <1>2. points = Picked(six, I)
    BY <1>1 DEF PointsFor, ThePoint, IsThere
  <1>3. six \in Seq(S) /\ Len(six) = 6
    <2>1. \A i \in 1..6 : ThePoint(i) \in S
      OBVIOUS
    <2> HIDE DEF S
    <2>2. six \in Seq(S)
      BY <2>1, IsASeq
    <2> QED BY <2>2, LenProperties
  <1>4. I \in SUBSET (1..Len(six))
    BY <1>3
  <1>5. /\ points \in Seq(S) /\ DOMAIN points = 1..Cardinality(I)
        /\ \A i \in I : \E k \in 1..Cardinality(I) : points[k] = six[i]
        /\ \A k \in DOMAIN points : \E i \in I : points[k] = six[i]
    <2> HIDE DEF six, I, S
    <2>1. /\ Picked(six, I) \in Seq(S) /\ DOMAIN Picked(six, I) = 1..Cardinality(I)
          /\ \A i \in I : \E k \in 1..Cardinality(I) : Picked(six, I)[k] = six[i]
      BY <1>3, <1>4, PickedProperties
    <2>2. \A k \in DOMAIN Picked(six, I) : \E i \in I : Picked(six, I)[k] = six[i]
      BY <1>3, <1>4, PickedFrom
    <2> QED BY <1>2, <2>1, <2>2
  <1>6. DOMAIN byPosition = {}
    BY <1>1
  <1>7. PointsArePlaced
    <2>1. \A k \in DOMAIN points : \E i \in 1..6 : points[k] = ThePoint(i)
      BY <1>5
    <2>2. \A i \in 1..6 : IsThere(i) => \E k \in DOMAIN points : points[k] = ThePoint(i)
      BY <1>5
    <2> QED BY <1>6, <2>1, <2>2 DEF PointsArePlaced
  <1> QED BY <1>1, <1>5, <1>7 DEF BoundaryInv

\* A point takes its position if neither that nor its value is taken.
LEMMA PlacePointStep ==
  ASSUME BoundaryInv, PlacePoint
  PROVE  BoundaryInv'
PROOF
  <1> DEFINE p == Head(points)
             o == PositionOf(p)
  <1>1. /\ points # <<>> /\ points' = Tail(points) /\ UNCHANGED <<limits, cases, casesDone>>
        /\ byPosition' = IF IsFree(p) THEN [q \in DOMAIN byPosition \cup {o} |-> IF q = o THEN p ELSE byPosition[q]] ELSE byPosition
    BY DEF PlacePoint
  <1>2. PICK S : points \in Seq(S)
    BY DEF BoundaryInv
  <1>3. /\ points' \in Seq(S) /\ 1 \in DOMAIN points /\ p = points[1]
        /\ \A k \in DOMAIN points' : k + 1 \in DOMAIN points /\ points'[k] = points[k + 1]
        /\ \A k \in DOMAIN points : k = 1 \/ (k - 1 \in DOMAIN points' /\ points'[k - 1] = points[k])
    <2>1. /\ Tail(points) \in Seq(S) /\ Len(Tail(points)) = Len(points) - 1 /\ p = points[1]
          /\ \A k \in 1..Len(Tail(points)) : Tail(points)[k] = points[k + 1]
      BY <1>1, <1>2, HeadTailProperties
    <2>2. DOMAIN points = 1..Len(points) /\ DOMAIN points' = 1..(Len(points) - 1) /\ Len(points) \in Nat \ {0}
      BY <1>1, <1>2, <2>1, LenProperties, EmptySeq
    <2>3. \A k \in 1..Len(points) : k # 1 => k - 1 \in 1..(Len(points) - 1) /\ (k - 1) + 1 = k
      BY <2>2
    <2>4. \A k \in 1..(Len(points) - 1) : k + 1 \in 1..Len(points)
      BY <2>2
    <2> HIDE DEF p
    <2> QED BY <1>1, <2>1, <2>2, <2>3, <2>4
  <1>4. \A r : PositionOf(r)' = PositionOf(r)
    BY <1>1 DEF PositionOf
  <1>5. \A i \in 1..6 : ThePoint(i)' = ThePoint(i) /\ IsThere(i)' = IsThere(i)
    BY <1>1 DEF ThePoint, IsThere
  <1> HIDE DEF p
  <1>6. ASSUME OnGrain PROVE PointsArePlaced'
    <2>1. PointsArePlaced
      BY <1>6 DEF BoundaryInv
    <2>2. PICK j \in 1..6 : p = ThePoint(j)
      BY <1>3, <2>1 DEF PointsArePlaced
    <2>3. \A k \in DOMAIN points' : \E i \in 1..6 : points'[k] = ThePoint(i)
      BY <1>3, <2>1 DEF PointsArePlaced
    <2>4. /\ \A q \in DOMAIN byPosition : PositionOf(byPosition[q]) = q /\ \E i \in 1..6 : byPosition[q] = ThePoint(i)
          /\ \A q, r \in DOMAIN byPosition : byPosition[q].input = byPosition[r].input => q = r
          /\ \A i \in 1..6 : IsThere(i) => (\E k \in DOMAIN points : points[k] = ThePoint(i)) \/ IsAnswered(ThePoint(i))
      BY <2>1 DEF PointsArePlaced
    <2>5. CASE IsFree(p)
      <3>1. /\ DOMAIN byPosition' = DOMAIN byPosition \cup {o} /\ byPosition'[o] = p /\ o \notin DOMAIN byPosition
            /\ \A q \in DOMAIN byPosition : byPosition'[q] = byPosition[q] /\ byPosition[q].input # p.input
        BY <1>1, <2>5 DEF IsFree
      <3> HIDE DEF o
      <3>2. \A q \in DOMAIN byPosition' : PositionOf(byPosition'[q]) = q /\ \E i \in 1..6 : byPosition'[q] = ThePoint(i)
        BY <2>2, <2>4, <3>1 DEF o
      <3>3. \A q, r \in DOMAIN byPosition' : byPosition'[q].input = byPosition'[r].input => q = r
        BY <2>4, <3>1
      <3>4. ASSUME NEW i \in 1..6, IsThere(i)
            PROVE  (\E k \in DOMAIN points' : points'[k] = ThePoint(i)) \/ IsAnswered(ThePoint(i))'
        <4>1. CASE \E k \in DOMAIN points : points[k] = ThePoint(i)
          <5>1. PICK k \in DOMAIN points : points[k] = ThePoint(i)
            BY <4>1
          <5>2. CASE k = 1
            <6>1. p = ThePoint(i)
              BY <1>3, <5>1, <5>2
            <6>2. o \in DOMAIN byPosition' /\ byPosition'[o].input = ThePoint(i).input
              BY <3>1, <6>1
            <6> QED BY <1>5, <6>2 DEF IsAnswered
          <5>3. CASE k # 1
            BY <1>3, <5>1, <5>3
          <5> QED BY <5>2, <5>3
        <4>2. CASE IsAnswered(ThePoint(i))
          BY <1>4, <1>5, <3>1, <4>2 DEF IsAnswered
        <4> QED BY <2>4, <3>4, <4>1, <4>2
      <3> QED BY <1>4, <1>5, <2>3, <3>2, <3>3, <3>4 DEF PointsArePlaced
    <2>6. CASE ~IsFree(p)
      <3>1. byPosition' = byPosition
        BY <1>1, <2>6
      <3>2. IsAnswered(p)
        BY <2>6 DEF IsFree, IsAnswered
      <3>3. ASSUME NEW i \in 1..6, IsThere(i)
            PROVE  (\E k \in DOMAIN points' : points'[k] = ThePoint(i)) \/ IsAnswered(ThePoint(i))
        <4>1. CASE \E k \in DOMAIN points : points[k] = ThePoint(i)
          BY <1>3, <3>2, <4>1
        <4> QED BY <2>4, <3>3, <4>1
      <3>4. \A i \in 1..6 : IsAnswered(ThePoint(i))' = IsAnswered(ThePoint(i))
        BY <1>4, <1>5, <3>1 DEF IsAnswered
      <3> QED BY <1>4, <1>5, <2>3, <2>4, <3>1, <3>3, <3>4 DEF PointsArePlaced
    <2> QED BY <2>5, <2>6
  <1>7. OnGrain' = OnGrain
    BY <1>1 DEF OnGrain
  <1>8. limits \in Limits /\ casesDone \in BOOLEAN
    BY DEF BoundaryInv
  <1>9. OnGrain => ~casesDone
    BY <1>1 DEF BoundaryInv, CasesAreThePlaces
  <1> QED BY <1>1, <1>3, <1>6, <1>7, <1>8, <1>9 DEF BoundaryInv, Limits, InRange, Exact

\* The cases written are the positions taken, each once.
LEMMA WriteCasesStep ==
  ASSUME BoundaryInv, WriteCases
  PROVE  BoundaryInv'
PROOF
  <1> DEFINE I == {i \in DOMAIN POSITION_ORDER : POSITION_ORDER[i] \in DOMAIN byPosition}
             taken == Picked(POSITION_ORDER, I)
             S == {"below-minimum", "minimum", "above-minimum", "below-maximum", "maximum", "above-maximum"}
  <1>1. /\ points = <<>> /\ ~casesDone /\ casesDone' = TRUE /\ UNCHANGED <<limits, points, byPosition>>
        /\ cases' = [n \in DOMAIN taken |-> [input |-> byPosition[taken[n]].input, position |-> taken[n]]]
    BY DEF WriteCases
  <1>2. /\ POSITION_ORDER \in Seq(S) /\ Len(POSITION_ORDER) = 6 /\ DOMAIN POSITION_ORDER = 1..6
        /\ \A i, j \in 1..6 : POSITION_ORDER[i] = POSITION_ORDER[j] => i = j
    <2>1. POSITION_ORDER \in Seq(S) /\ Len(POSITION_ORDER) = 6
      BY DEF POSITION_ORDER
    <2>2. DOMAIN POSITION_ORDER = 1..6
      BY <2>1, LenProperties
    <2>3. \A i \in 1..6 : i \in {1, 2, 3, 4, 5, 6}
      OBVIOUS
    <2>4. \A i, j \in {1, 2, 3, 4, 5, 6} : POSITION_ORDER[i] = POSITION_ORDER[j] => i = j
      BY DEF POSITION_ORDER
    <2> QED BY <2>1, <2>2, <2>3, <2>4
  <1>3. I \in SUBSET (1..Len(POSITION_ORDER))
    BY <1>2
  <1>4. /\ DOMAIN taken = 1..Cardinality(I)
        /\ \A n \in DOMAIN taken : \E i \in I : taken[n] = POSITION_ORDER[i]
        /\ \A i \in I : \E n \in DOMAIN taken : taken[n] = POSITION_ORDER[i]
        /\ \A n, k \in DOMAIN taken : taken[n] = taken[k] => n = k
    <2> HIDE DEF I, S
    <2>1. /\ Picked(POSITION_ORDER, I) \in Seq(S)
          /\ Len(Picked(POSITION_ORDER, I)) = Cardinality(I) /\ DOMAIN Picked(POSITION_ORDER, I) = 1..Cardinality(I)
          /\ \A i \in I : \E n \in 1..Cardinality(I) : Picked(POSITION_ORDER, I)[n] = POSITION_ORDER[i]
      <3>1. POSITION_ORDER \in Seq(S) /\ I \in SUBSET (1..Len(POSITION_ORDER))
        BY <1>2, <1>3
      <3> QED BY <3>1, PickedProperties
    <2>2. \A n \in DOMAIN taken : \E i \in I : taken[n] = POSITION_ORDER[i]
      BY <1>2, <1>3, PickedFrom
    <2>3. \A i, j \in DOMAIN POSITION_ORDER : POSITION_ORDER[i] = POSITION_ORDER[j] => i = j
      BY <1>2
    <2>4. \A n, k \in DOMAIN taken : taken[n] = taken[k] => n = k
      BY <1>2, <1>3, <2>3, PickedFrom
    <2> QED BY <2>1, <2>2, <2>4
  <1>5. \A n \in DOMAIN taken : taken[n] \in DOMAIN byPosition
    BY <1>4
  <1>6. DOMAIN cases' = DOMAIN taken /\ \A n \in DOMAIN taken : cases'[n].position = taken[n] /\ cases'[n].input = byPosition[taken[n]].input
    <2> HIDE DEF taken
    <2> QED BY <1>1
  <1>7. ASSUME OnGrain PROVE PointsArePlaced /\ PointsArePlaced' /\ CasesAreThePlaces'
    <2>1. PointsArePlaced
      BY <1>7 DEF BoundaryInv
    <2>2. PointsArePlaced'
      BY <1>1, <2>1 DEF PointsArePlaced, IsAnswered, PositionOf, ThePoint, IsThere
    <2>3. \A q \in DOMAIN byPosition : \E i \in 1..6 : q = POSITION_ORDER[i]
      <3> SUFFICES ASSUME NEW q \in DOMAIN byPosition PROVE \E i \in 1..6 : q = POSITION_ORDER[i]
        OBVIOUS
      <3>1. PICK i \in 1..6 : byPosition[q] = ThePoint(i) /\ PositionOf(ThePoint(i)) = q
        BY <2>1 DEF PointsArePlaced
      <3>2. ThePoint(i).from = POSITION_ORDER[i]
        BY DEF ThePoint, PointAt
      <3>3. q \in {"below-minimum", "above-maximum", "minimum", "maximum", POSITION_ORDER[i]}
        BY <3>1, <3>2 DEF PositionOf
      <3>4. /\ POSITION_ORDER[1] = "below-minimum" /\ POSITION_ORDER[6] = "above-maximum"
            /\ POSITION_ORDER[2] = "minimum" /\ POSITION_ORDER[5] = "maximum"
        BY DEF POSITION_ORDER
      <3>5. 1 \in 1..6 /\ 2 \in 1..6 /\ 5 \in 1..6 /\ 6 \in 1..6
        OBVIOUS
      <3> QED BY <3>3, <3>4, <3>5
    <2>4. \A q \in DOMAIN byPosition : \E n \in DOMAIN taken : taken[n] = q
      <3> SUFFICES ASSUME NEW q \in DOMAIN byPosition PROVE \E n \in DOMAIN taken : taken[n] = q
        OBVIOUS
      <3>1. PICK i \in 1..6 : q = POSITION_ORDER[i]
        BY <2>3
      <3>2. i \in I
        BY <1>2, <3>1
      <3> QED BY <1>4, <3>1, <3>2
    <2> HIDE DEF taken, I
    <2>5. CasesAreThePlaces'
      BY <1>1, <1>4, <1>5, <1>6, <2>4 DEF CasesAreThePlaces
    <2> QED BY <2>1, <2>2, <2>5
  <1>8. OnGrain' = OnGrain
    BY <1>1 DEF OnGrain
  <1>9. /\ limits \in Limits /\ \E T : points \in Seq(T)
    BY DEF BoundaryInv
  <1> QED BY <1>1, <1>7, <1>8, <1>9 DEF BoundaryInv, Limits, InRange, Exact

\* Every step keeps it.
LEMMA BoundaryStep ==
  ASSUME BoundaryInv, [BoundaryNext]_boundaryVars
  PROVE  BoundaryInv'
PROOF
  <1>1. CASE UNCHANGED boundaryVars
    BY <1>1 DEF boundaryVars, BoundaryInv, Limits, InRange, Exact, OnGrain, PointsArePlaced, IsAnswered, PositionOf, ThePoint, IsThere, CasesAreThePlaces
  <1> QED BY <1>1, PlacePointStep, WriteCasesStep DEF BoundaryNext

\* A position tells where its point is.
LEMMA PositionsTell ==
  ASSUME limits \in Limits, OnGrain, NEW i \in 1..6
  PROVE  LET p == ThePoint(i) IN
         /\ p.measure \in Int /\ p.input = Text(limits.type, p.measure) /\ WrittenAsIs(p.measure)
         /\ PositionOf(p) \in VALID_POSITIONS <=> p.measure \in limits.minimum..limits.maximum
         /\ PositionOf(p) = "minimum" => p.measure = limits.minimum
         /\ PositionOf(p) = "maximum" => p.measure = limits.maximum
         /\ PositionOf(p) = "below-minimum" <=> p.measure < limits.minimum
         /\ PositionOf(p) = "above-maximum" <=> p.measure > limits.maximum
PROOF
  <1> DEFINE s == StepOf(limits)
             lo == limits.minimum
             hi == limits.maximum
             m == Measures(limits)
             p == ThePoint(i)
  <1>1. /\ lo \in Int /\ hi \in Int /\ lo <= hi /\ s \in Int /\ s > 0
        /\ m[1] = lo - s \/ m[1] = lo
        /\ m[2] = lo /\ m[5] = hi
        /\ m[6] = hi + s \/ m[6] = hi
    BY TheSixPoints
  <1>2. /\ p = [measure |-> m[i], input |-> Text(limits.type, m[i]), from |-> POSITION_ORDER[i]]
        /\ m[i] \in Int /\ WrittenAsIs(m[i])
    BY TheSixPoints
  <1>3. p.measure = m[i] /\ p.input = Text(limits.type, m[i]) /\ p.from = POSITION_ORDER[i]
    BY <1>2
  <1> HIDE DEF s, lo, hi, m, p
  <1>4. /\ p.from = "below-minimum" => p.measure <= lo
        /\ p.from = "above-maximum" => p.measure >= hi
        /\ p.from = "minimum" => p.measure = lo
        /\ p.from = "maximum" => p.measure = hi
        /\ p.from \in {"below-minimum", "minimum", "above-minimum", "below-maximum", "maximum", "above-maximum"}
    <2>1. i \in {1, 2, 3, 4, 5, 6}
      OBVIOUS
    <2>2. /\ POSITION_ORDER[1] = "below-minimum" /\ POSITION_ORDER[2] = "minimum" /\ POSITION_ORDER[3] = "above-minimum"
          /\ POSITION_ORDER[4] = "below-maximum" /\ POSITION_ORDER[5] = "maximum" /\ POSITION_ORDER[6] = "above-maximum"
      BY DEF POSITION_ORDER
    <2> QED BY <1>1, <1>3, <2>1, <2>2
  <1>5. p.measure \in Int
    BY <1>2, <1>3
  <1>6. PositionOf(p) = IF p.measure < lo THEN "below-minimum" ELSE IF p.measure > hi THEN "above-maximum"
                        ELSE IF p.measure = lo THEN "minimum" ELSE IF p.measure = hi THEN "maximum" ELSE p.from
    BY DEF PositionOf, lo, hi
  <1>7. p.measure \in lo..hi <=> ~(p.measure < lo) /\ ~(p.measure > hi)
    BY <1>1, <1>5
  <1>8. /\ PositionOf(p) \in VALID_POSITIONS <=> p.measure \in lo..hi
        /\ PositionOf(p) = "minimum" => p.measure = lo
        /\ PositionOf(p) = "maximum" => p.measure = hi
        /\ PositionOf(p) = "below-minimum" <=> p.measure < lo
        /\ PositionOf(p) = "above-maximum" <=> p.measure > hi
    <2>1. CASE p.measure < lo
      BY <1>1, <1>5, <1>6, <1>7, <2>1 DEF VALID_POSITIONS
    <2>2. CASE ~(p.measure < lo) /\ p.measure > hi
      BY <1>1, <1>5, <1>6, <1>7, <2>2 DEF VALID_POSITIONS
    <2>3. CASE ~(p.measure < lo) /\ ~(p.measure > hi)
      BY <1>1, <1>4, <1>5, <1>6, <1>7, <2>3 DEF VALID_POSITIONS
    <2> QED BY <2>1, <2>2, <2>3
  <1> QED BY <1>2, <1>3, <1>5, <1>8 DEF p, lo, hi

\* The boundary generator lists both limits, a value beyond each where there is
\* one, each value once and as what it is (boundary-values.ts 187-239), for any
\* limits within the exact integers and the dates of four-digit years.
THEOREM BoundariesAreClassified == BoundarySpec => []CasesAreTheBoundaries
PROOF
  <1>1. BoundaryInv => CasesAreTheBoundaries
    <2> SUFFICES ASSUME BoundaryInv, casesDone, OnGrain PROVE CasesAreTheBoundaries
      BY DEF CasesAreTheBoundaries
    <2> DEFINE inputs == {cases[n].input : n \in DOMAIN cases}
               texts == {EarlyText, LateText}
               lo == limits.minimum
               hi == limits.maximum
               s == StepOf(limits)
               m == Measures(limits)
    <2>1. limits \in Limits /\ PointsArePlaced /\ CasesAreThePlaces
      BY DEF BoundaryInv
    <2>2. /\ points = <<>>
          /\ \A n \in DOMAIN cases : cases[n].position \in DOMAIN byPosition /\ cases[n].input = byPosition[cases[n].position].input
          /\ \A n, k \in DOMAIN cases : cases[n].position = cases[k].position => n = k
          /\ \A q \in DOMAIN byPosition : \E n \in DOMAIN cases : cases[n].position = q
      BY <2>1 DEF CasesAreThePlaces
    <2>3. /\ \A q \in DOMAIN byPosition : PositionOf(byPosition[q]) = q /\ \E i \in 1..6 : byPosition[q] = ThePoint(i)
          /\ \A q, r \in DOMAIN byPosition : byPosition[q].input = byPosition[r].input => q = r
          /\ \A i \in 1..6 : IsThere(i) => IsAnswered(ThePoint(i))
      BY <2>1, <2>2 DEF PointsArePlaced
    <2>4. /\ lo \in Int /\ hi \in Int /\ lo <= hi /\ s \in Int /\ s > 0
          /\ m[1] = lo - s \/ (limits.type = "integer" /\ lo = -ExactInteger /\ m[1] = lo)
          /\ m[2] = lo /\ m[5] = hi
          /\ m[6] = hi + s \/ (limits.type = "integer" /\ hi = ExactInteger /\ m[6] = hi)
          /\ \A i \in 1..6 : /\ m[i] \in Int /\ WrittenAsIs(m[i])
                             /\ ThePoint(i) = [measure |-> m[i], input |-> Text(limits.type, m[i]), from |-> POSITION_ORDER[i]]
      BY <2>1, TheSixPoints
    <2>5. \A q \in DOMAIN byPosition : byPosition[q].input \in inputs
      BY <2>2
    <2>6. EarlyText \notin Int /\ LateText \notin Int /\ \A v : v \in lo..hi => v \in Int
      BY <2>4, WrittenAssumption
    <2>7. ASSUME NEW q \in DOMAIN byPosition
          PROVE  /\ q \in VALID_POSITIONS <=> byPosition[q].input \in lo..hi
                 /\ q = "minimum" => byPosition[q].input = lo
                 /\ q = "maximum" => byPosition[q].input = hi
                 /\ q = "below-minimum" /\ SomethingBelow(limits) => byPosition[q].input \in Int /\ byPosition[q].input < lo
                 /\ q = "above-maximum" /\ SomethingAbove(limits) => byPosition[q].input \in Int /\ byPosition[q].input > hi
      <3>1. PICK i \in 1..6 : byPosition[q] = ThePoint(i) /\ PositionOf(ThePoint(i)) = q
        BY <2>3
      <3> DEFINE p == byPosition[q]
      <3>2. /\ p.measure \in Int /\ p.input = Text(limits.type, p.measure) /\ WrittenAsIs(p.measure)
            /\ q \in VALID_POSITIONS <=> p.measure \in lo..hi
            /\ q = "minimum" => p.measure = lo
            /\ q = "maximum" => p.measure = hi
            /\ q = "below-minimum" <=> p.measure < lo
            /\ q = "above-maximum" <=> p.measure > hi
        BY <2>1, <3>1, PositionsTell
      <3>3. \/ p.input = p.measure
            \/ ~SomethingBelow(limits) /\ p.measure < lo /\ p.input = EarlyText
            \/ ~SomethingAbove(limits) /\ p.measure > hi /\ p.input = LateText
        <4>1. /\ limits.type = "date" /\ lo = FirstDate => ~SomethingBelow(limits)
              /\ limits.type = "date" /\ hi = LastDate => ~SomethingAbove(limits)
          BY <2>4 DEF SomethingBelow, SomethingAbove
        <4> HIDE DEF p
        <4> QED BY <3>2, <4>1 DEF WrittenAsIs
      <3> HIDE DEF p, lo, hi
      <3>4. CASE p.input = p.measure
        BY <3>2, <3>4 DEF p
      <3>5. CASE ~SomethingBelow(limits) /\ p.measure < lo /\ p.input = EarlyText
        <4>1. q = "below-minimum" /\ q \notin VALID_POSITIONS /\ p.input \notin lo..hi
          BY <2>6, <3>2, <3>5 DEF VALID_POSITIONS
        <4> QED BY <3>5, <4>1 DEF p
      <3>6. CASE ~SomethingAbove(limits) /\ p.measure > hi /\ p.input = LateText
        <4>1. q = "above-maximum" /\ q \notin VALID_POSITIONS /\ p.input \notin lo..hi
          BY <2>6, <3>2, <3>6 DEF VALID_POSITIONS
        <4> QED BY <3>6, <4>1 DEF p
      <3> QED BY <3>3, <3>4, <3>5, <3>6
    <2>8. /\ \A i \in 1..6 : ThePoint(i).measure = m[i] /\ ThePoint(i).input = Text(limits.type, m[i])
          /\ Text(limits.type, lo) = lo /\ Text(limits.type, hi) = hi
      <3>1. WrittenAsIs(lo) /\ WrittenAsIs(hi)
        <4>1. 2 \in 1..6 /\ 5 \in 1..6
          OBVIOUS
        <4> HIDE DEF m, lo, hi
        <4> QED BY <2>4, <4>1
      <3>2. Text(limits.type, lo) = lo /\ Text(limits.type, hi) = hi
        BY <2>4, <3>1 DEF WrittenAsIs
      <3> HIDE DEF m, lo, hi
      <3> QED BY <2>4, <3>2
    <2>9. /\ ThePoint(2).input = lo /\ ThePoint(5).input = hi /\ ThePoint(2).measure = lo /\ ThePoint(5).measure = hi
          /\ SomethingBelow(limits) => ThePoint(1).measure = lo - s /\ ThePoint(1).input = lo - s
          /\ SomethingAbove(limits) => ThePoint(6).measure = hi + s /\ ThePoint(6).input = hi + s
      <3>1. 1 \in 1..6 /\ 2 \in 1..6 /\ 5 \in 1..6 /\ 6 \in 1..6
        OBVIOUS
      <3>2. ASSUME SomethingBelow(limits) PROVE m[1] = lo - s /\ Text(limits.type, lo - s) = lo - s
        <4>1. ~(limits.type = "integer" /\ lo = -ExactInteger) /\ ~(limits.type = "date" /\ lo = FirstDate)
          BY <2>4, <3>2, WrittenAssumption DEF SomethingBelow
        <4>2. m[1] = lo - s /\ WrittenAsIs(lo - s)
          BY <2>4, <3>1, <4>1
        <4>3. ~(lo - s > hi)
          BY <2>4
        <4> QED BY <4>1, <4>2, <4>3 DEF WrittenAsIs
      <3>3. ASSUME SomethingAbove(limits) PROVE m[6] = hi + s /\ Text(limits.type, hi + s) = hi + s
        <4>1. ~(limits.type = "integer" /\ hi = ExactInteger) /\ ~(limits.type = "date" /\ hi = LastDate)
          BY <2>4, <3>3, WrittenAssumption DEF SomethingAbove
        <4>2. m[6] = hi + s /\ WrittenAsIs(hi + s)
          BY <2>4, <3>1, <4>1
        <4>3. ~(hi + s < lo)
          BY <2>4
        <4> QED BY <4>1, <4>2, <4>3 DEF WrittenAsIs
      <3> HIDE DEF m, lo, hi, s
      <3> QED BY <2>4, <2>8, <3>1, <3>2, <3>3
    <2>10. IsThere(2) /\ IsThere(5) /\ IsThere(6) /\ (SomethingBelow(limits) => IsThere(1))
      <3>1. limits.type = "string-length" => lo >= 0 /\ s = 1 /\ (SomethingBelow(limits) => lo > 0)
        BY <2>1 DEF Limits, InRange, Exact, StepOf, SomethingBelow
      <3> HIDE DEF lo, hi, s
      <3> QED BY <2>4, <3>1 DEF IsThere, m
    <2>11. lo \in inputs
      <3>1. PositionOf(ThePoint(2)) = "minimum"
        BY <2>4, <2>9 DEF PositionOf
      <3>2. IsAnswered(ThePoint(2))
        BY <2>3, <2>10
      <3> HIDE DEF lo, inputs
      <3> QED BY <2>5, <2>7, <2>9, <3>1, <3>2 DEF IsAnswered
    <2>12. hi \in inputs
      <3>1. PositionOf(ThePoint(5)) = "maximum" \/ (PositionOf(ThePoint(5)) = "minimum" /\ lo = hi)
        BY <2>4, <2>9 DEF PositionOf
      <3>2. IsAnswered(ThePoint(5))
        BY <2>3, <2>10
      <3> HIDE DEF lo, hi, inputs
      <3> QED BY <2>5, <2>7, <2>9, <3>1, <3>2 DEF IsAnswered
    <2>13. SomethingAbove(limits) => \E v \in inputs : v \notin texts /\ v > hi
      <3> SUFFICES ASSUME SomethingAbove(limits) PROVE \E v \in inputs : v \in Int /\ v > hi
        BY <2>6
      <3>1. ThePoint(6).measure > hi /\ ThePoint(6).input \in Int /\ ThePoint(6).input > hi
        <4> HIDE DEF hi, s
        <4> QED BY <2>4, <2>9
      <3>2. PositionOf(ThePoint(6)) = "above-maximum"
        BY <2>1, <3>1, PositionsTell
      <3>3. IsAnswered(ThePoint(6))
        BY <2>3, <2>10
      <3> HIDE DEF hi, inputs
      <3> QED BY <2>5, <2>7, <3>1, <3>2, <3>3 DEF IsAnswered
    <2>14. SomethingBelow(limits) => \E v \in inputs : v \notin texts /\ v < lo
      <3> SUFFICES ASSUME SomethingBelow(limits) PROVE \E v \in inputs : v \in Int /\ v < lo
        BY <2>6
      <3>1. ThePoint(1).measure < lo /\ ThePoint(1).input \in Int /\ ThePoint(1).input < lo
        <4> HIDE DEF lo, s
        <4> QED BY <2>4, <2>9
      <3>2. PositionOf(ThePoint(1)) = "below-minimum"
        BY <2>1, <3>1, PositionsTell
      <3>3. IsAnswered(ThePoint(1))
        BY <2>3, <2>10
      <3> HIDE DEF lo, inputs
      <3> QED BY <2>5, <2>7, <3>1, <3>2, <3>3 DEF IsAnswered
    <2>15. ASSUME NEW n \in DOMAIN cases
           PROVE  /\ Valid(cases[n]) <=> cases[n].input \in lo..hi
                  /\ cases[n].position = "minimum" => cases[n].input = lo
                  /\ cases[n].position = "maximum" => cases[n].input = hi
      <3> HIDE DEF lo, hi
      <3> QED BY <2>2, <2>7 DEF Valid
    <2>16. ASSUME NEW n \in DOMAIN cases, NEW k \in DOMAIN cases, n # k
           PROVE  cases[n].input # cases[k].input /\ cases[n].position # cases[k].position
      BY <2>2, <2>3, <2>16
    <2> HIDE DEF s, m
    <2> QED BY <2>11, <2>12, <2>13, <2>14, <2>15, <2>16 DEF CasesAreTheBoundaries
  <1> QED BY <1>1, BoundaryStarts, BoundaryStep, PTL DEF BoundarySpec

-----------------------------------------------------------------------------
(***************************************************************************)
(* Both generators of the toolbox (pairwise.ts, boundary-values.ts),       *)
(* whatever they are asked for: the suites they write are those their      *)
(* techniques promise.  This is the property of the run of the pages, for  *)
(* every number of parameters and values and all limits within the exact   *)
(* integers and the dates with a year of four digits.                      *)
(***************************************************************************)
THEOREM SuitesAreDesigned == PairwiseSpec /\ BoundarySpec => []CasesAreDesigned
PROOF
  <1>1. SuiteCoversEveryPair /\ CasesAreTheBoundaries => CasesAreDesigned
    BY DEF CasesAreDesigned
  <1> QED BY <1>1, EveryPairIsCovered, BoundariesAreClassified, PTL
=============================================================================

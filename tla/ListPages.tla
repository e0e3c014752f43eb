----------------------------- MODULE ListPages -----------------------------
(***************************************************************************)
(* The pages of the browser that list what the server has: the executions  *)
(* of an account under three headings, and its applications.               *)
(***************************************************************************)
EXTENDS Integers, Sequences, FiniteSets

-----------------------------------------------------------------------------
(***************************************************************************)
(* The three pages that list an account's executions: Relatorios           *)
(* (src/browser/reports.ts), Central de qualidade (quality.ts) and Alertas *)
(* (alerts.ts).  Each asks for the session, then loads what its filters    *)
(* say, one request at a time; only Relatorios appends further pages.  The *)
(* server's answers are external.                                          *)
(***************************************************************************)
CONSTANTS
  AccountPage,    \* of "reports", "quality", "alerts"
  PageFilter,     \* values of the filters taken together
  LastPage,       \* pages of executions the server has of every filter
  MaxLoads        \* bound: requests a page sends

ASSUME AccountPagesAssumption ==
  /\ AccountPage \subseteq {"reports", "quality", "alerts"}
  /\ LastPage \in Nat \ {0} /\ MaxLoads \in Nat

VARIABLES
  thePage,      \* the page that is open
  opened,       \* "session", "applications", "ready", "offline", "left"
  chosen,       \* what the filter fields say
  loading,
  loads,        \* requests sent and not answered
  sentLoads,
  loaded,       \* what is listed: [filter, page] of each answer painted
  listCursor,   \* where "Carregar mais" goes on: a page number, or 0
  unserved      \* was a change of filter ignored, or its load failed?

accountPageVars == <<thePage, opened, chosen, loading, loads, sentLoads, loaded, listCursor, unserved>>

AccountPagesInit ==
  /\ thePage \in AccountPage
  /\ opened = "session"
  /\ chosen \in PageFilter
  /\ loading = FALSE /\ loads = {} /\ sentLoads = 0
  /\ loaded = <<>> /\ listCursor = 0
  /\ unserved = FALSE

\* a plausible bug: load() without its early return
LoadAnyway == TRUE

MayLoad == ~loading

\* load(append): the request carries the filters, and the cursor of an append
StartLoad(append, filter) ==
  IF MayLoad
  THEN /\ sentLoads < MaxLoads
       /\ loading' = TRUE
       /\ sentLoads' = sentLoads + 1
       /\ loads' = loads \cup {[n |-> sentLoads, append |-> append, filter |-> filter,
                                page |-> IF append /\ listCursor # 0 THEN listCursor ELSE 1]}
       /\ unserved' = (unserved /\ append)
  ELSE /\ unserved' = (unserved \/ ~append)
       /\ UNCHANGED <<loading, loads, sentLoads>>

\* /api/v1/auth/me: no database, no session, or go on (a failed call too);
\* Alertas has no filter of its own and loads at once
SessionAnswered ==
  /\ opened = "session"
  /\ \/ opened' \in {"offline", "left"} /\ UNCHANGED <<loading, loads, sentLoads, unserved>>
     \/ thePage # "alerts" /\ opened' = "applications" /\ UNCHANGED <<loading, loads, sentLoads, unserved>>
     \/ thePage = "alerts" /\ opened' = "ready" /\ StartLoad(FALSE, chosen)
  /\ UNCHANGED <<thePage, chosen, loaded, listCursor>>

\* the list of applications is in, or could not be read; ?aplicacao= may choose
\* one, and the first load follows
ApplicationsAnswered ==
  /\ opened = "applications"
  /\ opened' = "ready"
  /\ \E f \in PageFilter : chosen' = f /\ StartLoad(FALSE, f)
  /\ UNCHANGED <<thePage, loaded, listCursor>>

\* a field, or the environment of the context bar, changes
ChangeFilter(f) ==
  /\ opened # "left" /\ f # chosen
  /\ chosen' = f
  /\ StartLoad(FALSE, f)
  /\ UNCHANGED <<thePage, opened, loaded, listCursor>>

\* the button is hidden without a cursor and disabled while a load is on
LoadMore ==
  /\ thePage = "reports" /\ opened = "ready" /\ listCursor # 0 /\ ~loading
  /\ StartLoad(TRUE, chosen)
  /\ UNCHANGED <<thePage, opened, chosen, loaded, listCursor>>

EndLoad(r) == loads' = loads \ {r} /\ loading' = FALSE

LoadAnswered(r) ==
  /\ LET entry == [filter |-> r.filter, page |-> r.page]
     IN loaded' = IF r.append THEN Append(loaded, entry) ELSE <<entry>>
  /\ listCursor' = IF thePage = "reports" /\ r.page < LastPage THEN r.page + 1 ELSE 0
  /\ EndLoad(r)
  /\ UNCHANGED <<thePage, opened, chosen, sentLoads, unserved>>

LoadFailed(r) ==
  /\ unserved' = (unserved \/ ~r.append)
  /\ EndLoad(r)
  /\ UNCHANGED <<thePage, opened, chosen, sentLoads, loaded, listCursor>>

LoadRefused(r) ==
  /\ opened' = "left"
  /\ EndLoad(r)
  /\ UNCHANGED <<thePage, chosen, sentLoads, loaded, listCursor, unserved>>

AccountPagesNext ==
  /\ opened # "left"
  /\ \/ SessionAnswered \/ ApplicationsAnswered \/ LoadMore
     \/ \E f \in PageFilter : ChangeFilter(f)
     \/ \E r \in loads : LoadAnswered(r) \/ LoadFailed(r) \/ LoadRefused(r)

AccountPagesSpec == AccountPagesInit /\ [][AccountPagesNext]_accountPageVars

-----------------------------------------------------------------------------

\* What is listed answers what was asked: unless a change of filter came while
\* a load was on (load() then returns at once) or its load failed, the list at
\* rest is of the filters on the screen, from the first page on, no page
\* twice and none left out, and "Carregar mais" goes on where it ends
\* (reports.ts 136-170).
ListAnswersItsFilter ==
  loads = {} /\ ~unserved /\ loaded # <<>> /\ opened = "ready" =>
    /\ \A i \in DOMAIN loaded : loaded[i] = [filter |-> chosen, page |-> i]
    /\ listCursor # 0 => listCursor = Len(loaded) + 1

-----------------------------------------------------------------------------
(***************************************************************************)
(* The page of the registered applications (src/browser/applications.ts):  *)
(* one form that creates or edits, one list with archive and history       *)
(* buttons, and a reload after every change.  The server's list is         *)
(* external.                                                               *)
(***************************************************************************)
CONSTANTS
  AppId,        \* applications of the account, registered or yet to be
  Registered,   \* those the server has when the page opens
  MaxAppCalls   \* bound: saves and archives sent

ASSUME ApplicationsPageAssumption == Registered \subseteq AppId /\ MaxAppCalls \in Nat

VARIABLES
  serverApps,   \* external: "none", "old", "edited" or "archived"
  cache,        \* applicationsCache: what the list shows
  formApp,      \* fieldId: the application being edited, or NewApp
  submitOffApp, \* is the submit button disabled?
  archiveOff,   \* archive buttons disabled, of the items on the screen
  appCalls,     \* saves and archives, each with where it stands
  reloads,      \* loadApplications calls, each with the list it was answered
  appFieldsOff, \* disableApplicationForm
  historyBox,   \* the history under each item
  listUnsure,   \* did an answer get lost, or two reloads overlap?
  appLeft       \* signInAndReturn: the browser leaves for /entrar

appPageVars == <<serverApps, cache, formApp, submitOffApp, archiveOff, appCalls, reloads, appFieldsOff, historyBox, listUnsure, appLeft>>

NewApp == "new"
Page == -1
Live(apps) == {a \in AppId : apps[a] \in {"old", "edited"}}
Shown(apps) == {[app |-> a, as |-> apps[a]] : a \in Live(apps)}
Listed == {item.app : item \in cache}
Closed == [a \in AppId |-> "closed"]

\* the page opens: loadApplications runs for nobody
AppPageInit ==
  /\ serverApps = [a \in AppId |-> IF a \in Registered THEN "old" ELSE "none"]
  /\ cache = {}
  /\ formApp = NewApp /\ submitOffApp = FALSE /\ archiveOff = {}
  /\ appCalls = {} /\ appFieldsOff = FALSE /\ historyBox = Closed /\ listUnsure = FALSE /\ appLeft = FALSE
  /\ reloads = {[by |-> Page, read |-> FALSE, list |-> {}]}

EditApp(a) ==
  /\ a \in Listed
  /\ formApp' = a
  /\ UNCHANGED <<serverApps, cache, submitOffApp, archiveOff, appCalls, reloads, appFieldsOff, historyBox, listUnsure, appLeft>>

CancelEdit ==
  /\ formApp # NewApp
  /\ formApp' = NewApp
  /\ UNCHANGED <<serverApps, cache, submitOffApp, archiveOff, appCalls, reloads, appFieldsOff, historyBox, listUnsure, appLeft>>

Sent == Cardinality(appCalls)
Send(kind, a) == appCalls' = appCalls \cup {[n |-> Sent, kind |-> kind, app |-> a, at |-> "sent"]}

\* the form is sent: a POST of a new application or a PATCH of the edited one
SubmitApp(a) ==
  /\ ~submitOffApp /\ Sent < MaxAppCalls
  /\ IF formApp = NewApp THEN serverApps[a] = "none" ELSE a = formApp
  /\ submitOffApp' = TRUE
  /\ Send(IF formApp = NewApp THEN "create" ELSE "edit", a)
  /\ UNCHANGED <<serverApps, cache, formApp, archiveOff, reloads, appFieldsOff, historyBox, listUnsure, appLeft>>

\* archive, once confirmed
ArchiveApp(a) ==
  /\ a \in Listed /\ a \notin archiveOff /\ Sent < MaxAppCalls
  /\ archiveOff' = archiveOff \cup {a}
  /\ Send("archive", a)
  /\ UNCHANGED <<serverApps, cache, formApp, submitOffApp, reloads, appFieldsOff, historyBox, listUnsure, appLeft>>

Now(call, at) == appCalls' = (appCalls \ {call}) \cup {[call EXCEPT !.at = at]}

\* external: the server accepts or refuses a call
ServerTakes(call) ==
  /\ call.at = "sent"
  /\ LET may == IF call.kind = "create" THEN serverApps[call.app] = "none" ELSE call.app \in Live(serverApps)
         to  == CASE call.kind = "create" -> "old" [] call.kind = "edit" -> "edited" [] OTHER -> "archived"
     IN \/ may /\ serverApps' = [serverApps EXCEPT ![call.app] = to] /\ Now(call, "accepted")
        \/ Now(call, "refused") /\ UNCHANGED serverApps
  /\ UNCHANGED <<cache, formApp, submitOffApp, archiveOff, reloads, appFieldsOff, historyBox, listUnsure, appLeft>>

Saves(call) == call.kind # "archive"

\* a plausible bug: only a save refreshes the list
SavesReload(call) == Saves(call)

Reloads(call) == TRUE

\* the answer is good: a save resets the form, and the list is read again; the
\* button of a save stays off until that has ended
CallAccepted(call) ==
  /\ call.at = "accepted"
  /\ formApp' = IF Saves(call) THEN NewApp ELSE formApp
  /\ IF Reloads(call)
     THEN /\ reloads' = reloads \cup {[by |-> call.n, read |-> FALSE, list |-> {}]}
          /\ listUnsure' = (listUnsure \/ reloads # {})
          /\ Now(call, "reloading")
     ELSE Now(call, "ended") /\ UNCHANGED <<reloads, listUnsure>>
  /\ UNCHANGED <<serverApps, cache, submitOffApp, archiveOff, appFieldsOff, historyBox, appLeft>>

\* refused, or the answer was lost: the button comes back, the list stays
CallFailed(call) ==
  /\ call.at \in {"accepted", "refused"}
  /\ Now(call, "ended")
  /\ submitOffApp' = (submitOffApp /\ ~Saves(call))
  /\ archiveOff' = IF Saves(call) THEN archiveOff ELSE archiveOff \ {call.app}
  /\ listUnsure' = (listUnsure \/ call.at = "accepted")
  /\ UNCHANGED <<serverApps, cache, formApp, reloads, appFieldsOff, historyBox, appLeft>>

\* external: the server reads the list
ReadList(r) ==
  /\ ~r.read
  /\ reloads' = (reloads \ {r}) \cup {[r EXCEPT !.read = TRUE, !.list = Shown(serverApps)]}
  /\ UNCHANGED <<serverApps, cache, formApp, submitOffApp, archiveOff, appCalls, appFieldsOff, historyBox, listUnsure, appLeft>>

\* a reload ends and leaves the button as it says; with it ends the call that
\* waited for it, and a save turns the button on whatever became of the reload
EndReload(r, off) ==
  /\ reloads' = reloads \ {r}
  /\ \/ r.by = Page /\ submitOffApp' = off /\ UNCHANGED appCalls
     \/ \E call \in appCalls : call.n = r.by /\ Now(call, "ended") /\ submitOffApp' = (off /\ ~Saves(call))

\* the list is written anew: every item with its buttons on and history closed
ReloadAnswered(r) ==
  /\ r.read
  /\ cache' = r.list
  /\ archiveOff' = {} /\ historyBox' = Closed
  /\ EndReload(r, submitOffApp)
  /\ UNCHANGED <<serverApps, formApp, appFieldsOff, listUnsure, appLeft>>

\* the form is switched off, its button with it
ReloadFailed(r) ==
  /\ appFieldsOff' = TRUE
  /\ listUnsure' = TRUE
  /\ EndReload(r, TRUE)
  /\ UNCHANGED <<serverApps, cache, formApp, archiveOff, historyBox, appLeft>>

\* a reload or a save is answered 401: the page is left as it is
LeaveApps ==
  /\ \/ reloads # {}
     \/ \E call \in appCalls : Saves(call) /\ call.at = "refused"
  /\ appLeft' = TRUE
  /\ UNCHANGED <<serverApps, cache, formApp, submitOffApp, archiveOff, appCalls, reloads, appFieldsOff, historyBox, listUnsure>>

ToggleHistory(a) ==
  /\ a \in Listed
  /\ historyBox' = [historyBox EXCEPT ![a] = IF @ = "closed" THEN "loading" ELSE "closed"]
  /\ UNCHANGED <<serverApps, cache, formApp, submitOffApp, archiveOff, appCalls, reloads, appFieldsOff, listUnsure, appLeft>>

\* an answer for a box that was closed or replaced is written where nobody sees
HistoryLoaded(a) ==
  /\ historyBox[a] = "loading"
  /\ \E what \in {"listed", "unavailable"} : historyBox' = [historyBox EXCEPT ![a] = what]
  /\ UNCHANGED <<serverApps, cache, formApp, submitOffApp, archiveOff, appCalls, reloads, appFieldsOff, listUnsure, appLeft>>

AppPageNext ==
  /\ ~appLeft
  /\ \/ CancelEdit \/ LeaveApps
     \/ \E a \in AppId : EditApp(a) \/ SubmitApp(a) \/ ArchiveApp(a) \/ ToggleHistory(a) \/ HistoryLoaded(a)
     \/ \E call \in appCalls : ServerTakes(call) \/ CallAccepted(call) \/ CallFailed(call)
     \/ \E r \in reloads : ReadList(r) \/ ReloadAnswered(r) \/ ReloadFailed(r)

AppPageSpec == AppPageInit /\ [][AppPageNext]_appPageVars

-----------------------------------------------------------------------------

SavesOn == {call \in appCalls : Saves(call) /\ call.at # "ended"}

\* At rest the list is what the server has, unless the answer to a change or a
\* reload was lost or two reloads crossed (the older answer then wins,
\* applications.ts 239).  No second save is sent while one, or the reload after
\* it, is on (305, 327), and apart from that the submit button is only off once
\* a load that failed has switched the form off (102, 236, 242).
ListIsTheServers ==
  /\ (\A call \in appCalls : call.at = "ended") /\ reloads = {} /\ ~listUnsure => cache = Shown(serverApps)
  /\ \A call, other \in SavesOn : call = other
  /\ SavesOn # {} => submitOffApp
  /\ submitOffApp => SavesOn # {} \/ appFieldsOff

\* Not so: the end of a save turns the button on (327) although the load before
\* it has switched the form off, whose fields stay off.
FormIsOffWhole == appFieldsOff => submitOffApp
=============================================================================

------------------------------ MODULE OpenPages ------------------------------
(***************************************************************************)
(* The pages open in a browser, each in a tab of its own with the server   *)
(* it talks to.  No page has state that another one's steps change (what a *)
(* page shares with other tabs, as localStorage, is in its own model), so  *)
(* a step of the browser is a step of one page.                            *)
(***************************************************************************)
EXTENDS ScannerPage, ListPages, ActivityPages, RequestPages, FormPages

CONSTANT Pages \* those that are open

OpenPagesInit ==
  /\ ScannerInit /\ AccountPagesInit /\ AppPageInit
  /\ JourneyPageInit /\ DashPageInit
  /\ ApiPageInit /\ WebhookPageInit
  /\ SettingsPageInit /\ EntryInit

OtherPagesWait(page) ==
  /\ IF page = "scanner" THEN TRUE ELSE UNCHANGED scannerVars
  /\ IF page = "account pages" THEN TRUE ELSE UNCHANGED accountPageVars
  /\ IF page = "applications page" THEN TRUE ELSE UNCHANGED appPageVars
  /\ IF page = "journey page" THEN TRUE ELSE UNCHANGED journeyPageVars
  /\ IF page = "dashboard page" THEN TRUE ELSE UNCHANGED dashPageVars
  /\ IF page = "api tests page" THEN TRUE ELSE UNCHANGED apiPageVars
  /\ IF page = "settings page" THEN TRUE ELSE UNCHANGED settingsVars
  /\ IF page = "entry page" THEN TRUE ELSE UNCHANGED entryVars
  /\ IF page = "webhook page" THEN TRUE ELSE UNCHANGED webhookPageVars

PageMoves(page) ==
  \/ page = "scanner" /\ ScannerNext /\ OtherPagesWait(page)
  \/ page = "account pages" /\ AccountPagesNext /\ OtherPagesWait(page)
  \/ page = "applications page" /\ AppPageNext /\ OtherPagesWait(page)
  \/ page = "journey page" /\ JourneyPageNext /\ OtherPagesWait(page)
  \/ page = "dashboard page" /\ DashPageNext /\ OtherPagesWait(page)
  \/ page = "api tests page" /\ ApiPageNext /\ OtherPagesWait(page)
  \/ page = "settings page" /\ SettingsPageNext /\ OtherPagesWait(page)
  \/ page = "entry page" /\ EntryNext /\ OtherPagesWait(page)
  \/ page = "webhook page" /\ WebhookPageNext /\ OtherPagesWait(page)

OpenPagesNext == \E page \in Pages : PageMoves(page)

openPagesVars == <<scannerVars, accountPageVars, appPageVars, journeyPageVars, dashPageVars, apiPageVars, settingsVars, entryVars, webhookPageVars>>

OpenPagesSpec == OpenPagesInit /\ [][OpenPagesNext]_openPagesVars

-----------------------------------------------------------------------------
(***************************************************************************)
(* A page shows what the server has: the panel of the scanner follows its  *)
(* analysis to the end, with links that open unless painting them anew     *)
(* failed or crossed (browser/scanner.ts), a list answers the filters on   *)
(* the screen (browser/reports.ts, quality.ts), and the applications       *)
(* listed are the server's (browser/applications.ts).                      *)
(***************************************************************************)
PagesFollowTheServer == ScannerPageIsSound /\ ListAnswersItsFilter /\ ListIsTheServers

(***************************************************************************)
(* A form is right about what it sent: what it says was saved is stored,   *)
(* where the person chose (browser/settings.ts, browser/api-tests.ts), the *)
(* response shown is the last request's beside a history of the newest,    *)
(* and an entry button is off exactly while its request is out             *)
(* (browser/auth.ts).                                                      *)
(***************************************************************************)
FormsKeepTheirWord ==
  /\ SavedMeansStored /\ EntryKeepsItsForms
  /\ SavedWhereChosen /\ ResponseIsOfTheLastSend

(***************************************************************************)
(* Nothing of one thing is shown or kept as another's, nor comes back once *)
(* it was erased: Limpar reaches every copy of the activity                *)
(* (browser/dashboard.ts), a report is of the execution whose steps it     *)
(* lists (browser/journey.ts), and the page of a webhook box lists no call *)
(* of another box nor one that was erased                                  *)
(* (browser/toolbox/webhook-inspector.ts).                                 *)
(***************************************************************************)
ErasedStaysErased ==
  /\ [](ClearReachesEveryCopy /\ ReportHasItsSteps)
  /\ WebhookPageIsSound
=============================================================================

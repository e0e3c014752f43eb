----------------------------- MODULE FormPages -----------------------------
(***************************************************************************)
(* The pages of the browser that are forms, several on one page: settings, *)
(* and the page where a person enters.                                     *)
(***************************************************************************)
EXTENDS Integers, Sequences, FiniteSets

-----------------------------------------------------------------------------
(***************************************************************************)
(* The page of settings (src/browser/settings.ts) with the route and the   *)
(* repository behind it: three forms, each with its own request, over one  *)
(* row of the account.  No button is disabled while its request is out, and*)
(* the values of the account are painted whenever they arrive.             *)
(***************************************************************************)
CONSTANTS
  SettingValue,   \* values a person types
  MaxPatches      \* bound: requests the forms send

ASSUME SettingsPageAssumption == MaxPatches \in Nat

VARIABLES
  progress,     \* "session", "settings", "open", "offline", "left"
  answer,     \* the settings on their way to the page, <<>> before they are read
  fields,     \* what each form holds
  patches,    \* requests sent, in order
  message,    \* what each form says
  account     \* the values of the account: its row and its password

settingsVars == <<progress, answer, fields, patches, message, account>>

Forms == {"alerts", "scanDefaults", "password"}
Row == Forms \ {"password"}
Blank == "blank"
Default == "default"

SettingsPageInit ==
  /\ progress = "session" /\ answer = <<>>
  /\ fields = [f \in Forms |-> Blank]
  /\ patches = <<>>
  /\ message = [f \in Forms |-> "none"]
  /\ account = [f \in Forms |-> Default]

\* the session answers: no accounts on this server and no answer disable the
\* forms, nobody signed in leaves for the sign-in page
SessionAnswers(outcome) ==
  /\ progress = "session"
  /\ progress' = CASE outcome = "user" -> "settings" [] outcome = "nobody" -> "left" [] OTHER -> "offline"
  /\ UNCHANGED <<answer, fields, patches, message, account>>

SettingsRead ==
  /\ progress = "settings" /\ answer = <<>>
  /\ answer' = <<account>>
  /\ UNCHANGED <<progress, fields, patches, message, account>>

\* paintSettings, over whatever was typed meanwhile
PaintSettings ==
  /\ progress = "settings" /\ answer # <<>>
  /\ fields' = [f \in Forms |-> IF f \in Row THEN answer[1][f] ELSE fields[f]]
  /\ progress' = "open"
  /\ UNCHANGED <<answer, patches, message, account>>

\* not read: the forms stay as they are and can be saved
SettingsNotRead(unauthorized) ==
  /\ progress = "settings"
  /\ progress' = IF unauthorized THEN "left" ELSE "open"
  /\ UNCHANGED <<answer, fields, patches, message, account>>

Usable == progress \in {"session", "settings", "open"}

Type(f, v) ==
  /\ Usable /\ fields[f] # v
  /\ fields' = [fields EXCEPT ![f] = v]
  /\ UNCHANGED <<progress, answer, patches, message, account>>

\* a form sends what it holds now, and only its own fields
SubmitForm(f) ==
  /\ Usable /\ Len(patches) < MaxPatches
  /\ message' = [message EXCEPT ![f] = "none"]
  /\ patches' = Append(patches, [form |-> f, value |-> fields[f], at |-> "sent", overlaps |-> \E i \in DOMAIN patches : patches[i].form = f /\ patches[i].at # "answered"])
  /\ UNCHANGED <<progress, answer, fields, account>>

\* a plausible bug: the row is written anew, fields that were not sent included
RowReplaced(row, f, v) == [g \in Forms |-> IF g = f THEN v ELSE IF g \in Row /\ f \in Row THEN Default ELSE row[g]]

\* update: only the fields sent are written
RowUpdated(row, f, v) == [row EXCEPT ![f] = v]

\* parsePatch: an empty number is 0 and is refused, as an empty password is
Accepts(v) == v # Blank

ServePatch(i, outcome) ==
  /\ patches[i].at \in {"sent", "given up"}
  /\ outcome \in IF Accepts(patches[i].value) THEN {"saved", "unauthorized"} ELSE {"refused", "unauthorized"}
  /\ account' = IF outcome = "saved" THEN RowUpdated(account, patches[i].form, patches[i].value) ELSE account
  /\ patches' = [patches EXCEPT ![i].at = IF @ = "sent" THEN outcome ELSE "answered"]
  /\ UNCHANGED <<progress, answer, fields, message>>

\* a session that is gone sends the person to sign in, except from the form of
\* the password, whose 401 is a wrong password
AnswerPatch(i) ==
  /\ progress # "left" /\ patches[i].at \in {"saved", "refused", "unauthorized"}
  /\ patches' = [patches EXCEPT ![i].at = "answered"]
  /\ LET f == patches[i].form
         saved == patches[i].at = "saved"
         away == patches[i].at = "unauthorized" /\ f \in Row
     IN /\ progress' = IF away THEN "left" ELSE progress
        /\ message' = IF away THEN message ELSE [message EXCEPT ![f] = IF saved THEN "saved" ELSE "failed"]
        /\ fields' = IF f = "password" /\ saved THEN [fields EXCEPT ![f] = Blank] ELSE fields
  /\ UNCHANGED <<answer, account>>

\* no answer comes: the server may have written the row, or still do it
PatchLost(i) ==
  /\ progress # "left" /\ patches[i].at \notin {"given up", "answered"}
  /\ patches' = [patches EXCEPT ![i].at = IF @ = "sent" THEN "given up" ELSE "answered"]
  /\ message' = [message EXCEPT ![patches[i].form] = "failed"]
  /\ UNCHANGED <<progress, answer, fields, account>>

SettingsPageNext ==
  \/ \E outcome \in {"user", "nobody", "no accounts", "failed"} : SessionAnswers(outcome)
  \/ SettingsRead \/ PaintSettings \/ (\E unauthorized \in BOOLEAN : SettingsNotRead(unauthorized))
  \/ \E f \in Forms : SubmitForm(f) \/ \E v \in SettingValue : Type(f, v)
  \/ \E i \in DOMAIN patches : \/ \E outcome \in {"saved", "refused", "unauthorized"} : ServePatch(i, outcome)
                               \/ AnswerPatch(i) \/ PatchLost(i)

SettingsPageSpec == SettingsPageInit /\ [][SettingsPageNext]_settingsVars

-----------------------------------------------------------------------------

LastOf(f) == CHOOSE i \in DOMAIN patches : patches[i].form = f /\ \A j \in DOMAIN patches : patches[j].form = f => j <= i
SentFrom(f) == {patches[i].value : i \in {j \in DOMAIN patches : patches[j].form = f}}

\* Saving one form never touches another (settings.ts 3-8 and the comment at
\* account-settings-repository.ts 5-11): the account has of each form its
\* default or a value that form sent, and a form that says it was saved is
\* right, even when another is saved at the same time, unless the same form was
\* sent again before its answer.
SavedMeansStored ==
  \A f \in Forms :
    /\ account[f] \in {Default} \cup SentFrom(f)
    /\ message[f] = "saved" /\ ~patches[LastOf(f)].overlaps => account[f] = patches[LastOf(f)].value

-----------------------------------------------------------------------------
(***************************************************************************)
(* The page where a person enters (src/browser/auth.ts): four forms share  *)
(* one box of errors and one of notices, each has a button that is disabled*)
(* while its request is out, and the answer about the session moves the    *)
(* person whenever it arrives.  The bar of every page (browser/shell.ts)   *)
(* signs out and asks for the confirmation of the address again.           *)
(***************************************************************************)
CONSTANTS
  MaxEntries   \* bound: requests the forms send

ASSUME EntryAssumption == MaxEntries \in Nat

VARIABLES
  shownPanel,      \* the form shown, "indisponivel" when there is none
  boxes,      \* which of "error" and "notice" are shown
  busy,       \* forms whose button is disabled
  entering,   \* forms whose request is out
  sessionOpen,   \* does the browser have a session?
  offer,      \* [login, reset, link]: what the server offers, and the link followed
  started,    \* the answer about the session: "no", "answered", "failed"
  pageLeft, steps,
  bar         \* the buttons of the bar: "ready", "asked", "done"

entryVars == <<shownPanel, boxes, busy, entering, sessionOpen, offer, started, pageLeft, steps, bar>>

EntryInit ==
  /\ shownPanel = "signin" /\ boxes = {}
  /\ busy = {} /\ entering = {}
  /\ sessionOpen \in BOOLEAN
  /\ offer \in [login : BOOLEAN, reset : BOOLEAN, link : BOOLEAN]
  /\ (sessionOpen \/ offer.reset) => offer.login
  /\ started = "no" /\ pageLeft = FALSE /\ steps = 0
  /\ bar = [signout |-> "ready", verify |-> "ready"]

Show(which) == shownPanel' = which /\ boxes' = {}

\* a plausible bug: the tabs stay on every shownPanel
TabsAlways == TRUE

\* the tabs are hidden outside the two paired forms
TabsShown == shownPanel \in {"signin", "signup"}

\* tabs, the link of the forgotten password (inside the form to sign in, and
\* hidden until the server says it offers one) and the way back from it
MovesTo(which) ==
  \/ which \in {"signin", "signup"} /\ TabsShown
  \/ which = "forgot" /\ shownPanel = "signin" /\ started = "answered" /\ offer.reset
  \/ which = "signin" /\ shownPanel = "forgot"

ChangePanel(which) ==
  /\ ~pageLeft /\ MovesTo(which)
  /\ Show(which)
  /\ UNCHANGED <<busy, entering, sessionOpen, offer, started, pageLeft, steps, bar>>

SubmitEntry ==
  /\ ~pageLeft /\ shownPanel # "indisponivel" /\ shownPanel \notin busy /\ steps < MaxEntries
  /\ boxes' = {}
  /\ busy' = busy \cup {shownPanel}
  /\ entering' = entering \cup {shownPanel}
  /\ steps' = steps + 1
  /\ UNCHANGED <<shownPanel, sessionOpen, offer, started, pageLeft, bar>>

\* the request of a form ends, whatever shownPanel is shown by then
EntryAnswered(form, accepted) ==
  /\ ~pageLeft /\ form \in entering
  /\ accepted => offer.login /\ (form = "reset" => offer.link) /\ (form = "forgot" => offer.reset)
  /\ entering' = entering \ {form} /\ busy' = busy \ {form}
  /\ IF accepted /\ form # "forgot"
     THEN sessionOpen' = TRUE /\ pageLeft' = TRUE /\ UNCHANGED <<shownPanel, boxes>>
     ELSE /\ IF accepted THEN shownPanel' = "signin" /\ boxes' = {"notice"} ELSE boxes' = boxes \cup {"error"} /\ UNCHANGED shownPanel
          /\ UNCHANGED <<sessionOpen, pageLeft>>
  /\ UNCHANGED <<offer, started, steps, bar>>

\* start: the link of a reset, or the form the address asked for; the address
\* may carry a failed confirmation (an error) or the page to return to (a notice)
StartEntry(answered, asked, carried) ==
  /\ ~pageLeft /\ started = "no"
  /\ started' = IF answered THEN "answered" ELSE "failed"
  /\ IF answered /\ sessionOpen THEN pageLeft' = TRUE /\ UNCHANGED <<shownPanel, boxes>>
     ELSE /\ UNCHANGED pageLeft
          /\ IF answered /\ ~offer.login THEN Show("indisponivel")
             ELSE IF offer.link THEN Show("reset") ELSE shownPanel' = asked /\ boxes' = carried
  /\ UNCHANGED <<busy, entering, sessionOpen, offer, steps, bar>>

\* a button of the bar is disabled while its call is out, and again offered
\* when it fails; signing out loads the page again
PressBar(button) ==
  /\ bar[button] = "ready" /\ sessionOpen
  /\ bar' = [bar EXCEPT ![button] = "asked"]
  /\ UNCHANGED <<shownPanel, boxes, busy, entering, sessionOpen, offer, started, pageLeft, steps>>

BarAnswered(button, failed) ==
  /\ bar[button] = "asked"
  /\ bar' = IF ~failed /\ button = "signout" THEN [b \in DOMAIN bar |-> "ready"] ELSE [bar EXCEPT ![button] = IF failed THEN "ready" ELSE "done"]
  /\ sessionOpen' = IF ~failed /\ button = "signout" THEN FALSE ELSE sessionOpen
  /\ UNCHANGED <<shownPanel, boxes, busy, entering, offer, started, pageLeft, steps>>

EntryNext ==
  \/ \E which \in {"signin", "signup", "forgot"} : ChangePanel(which)
  \/ SubmitEntry
  \/ \E form \in {"signin", "signup", "forgot", "reset"}, accepted \in BOOLEAN : EntryAnswered(form, accepted)
  \/ \E answered \in BOOLEAN, asked \in {"signin", "signup"}, carried \in SUBSET {"error", "notice"} : StartEntry(answered, asked, carried)
  \/ \E button \in {"signout", "verify"} : PressBar(button) \/ \E failed \in BOOLEAN : BarAnswered(button, failed)

EntrySpec == EntryInit /\ [][EntryNext]_entryVars

-----------------------------------------------------------------------------

\* Requests of several forms may be out together and end under any shownPanel, the
\* late answer about the session among them (auth.ts 82-98, 143-171).  Still a
\* button is disabled exactly while its form's request is out; a server known
\* to have no accounts never gets a form back, and who came by the link of a
\* reset never loses that form, whichever answer arrives last; a form is
\* offered only where it can succeed.
EntryKeepsItsForms ==
  /\ ~pageLeft => busy = entering
  /\ started = "answered" /\ ~pageLeft =>
       /\ ~offer.login <=> shownPanel = "indisponivel"
       /\ offer.login /\ offer.link => shownPanel = "reset"
  /\ shownPanel = "forgot" => offer.reset
  /\ shownPanel = "reset" => offer.link
=============================================================================

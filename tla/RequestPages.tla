---------------------------- MODULE RequestPages ----------------------------
(***************************************************************************)
(* The pages of the browser about HTTP requests: the one that saves and sends *)
(* them, and the one that lists those a webhook box received.              *)
(***************************************************************************)
EXTENDS Positions, SequencesExt

-----------------------------------------------------------------------------
(***************************************************************************)
(* The page of the API tests (src/browser/api-tests.ts): a collection of   *)
(* saved requests, in localStorage or shared through the application the   *)
(* person chose, and the sending of one request at a time with its         *)
(* history.  The server's collections (routes/applications.ts) and the     *)
(* answers of /api/http-request are external.                              *)
(***************************************************************************)
CONSTANTS
  ApiApp,        \* applications of the account
  RequestName,   \* names a request is saved under
  MaxSaved,      \* bound: requests saved in a collection
  MaxPushes,     \* bound: collections pushed and read
  MaxSends,      \* bound: requests sent
  ApiHistoryLimit \* HISTORY_LIMIT, 30 in the code

Browser == "this browser"
NoId == "no id"

ASSUME ApiTestsAssumption ==
  /\ {MaxSaved, MaxPushes, MaxSends, ApiHistoryLimit} \subseteq Nat /\ ApiHistoryLimit > 0
  /\ Browser \notin ApiApp /\ NoId \notin ApiApp

VARIABLES
  apiApplicationId, remoteCollectionId, collectionCache, currentIndex,
  localCollection, \* the copy of localStorage
  remoteCollection,\* external: the collection of each application, or Missing
  flights,         \* pushes and reads in flight
  flightsSent,
  tangled,         \* did a push or a read go out while another was in flight, or a file end up elsewhere?
  importing,       \* the request of the file being read, as it was meant, or NoFile
  sendAt,          \* "idle", "sent", "aborting" of activeHttpRequest
  sends,           \* requests sent
  responseOf,      \* the send whose response is on the screen, or 0
  apiHistory       \* sends of the local history, newest first

collectionVars == <<apiApplicationId, remoteCollectionId, collectionCache, currentIndex, localCollection, remoteCollection, flights, flightsSent, tangled, importing>>
sendVars == <<sendAt, sends, responseOf, apiHistory>>
apiPageVars == <<collectionVars, sendVars>>

Missing == <<[name |-> "missing", home |-> NoId]>>
Hole == [name |-> "hole", home |-> NoId]
NoFile == [name |-> "no file", home |-> NoId]
None == 0

ApiPageInit ==
  /\ apiApplicationId = Browser /\ remoteCollectionId = NoId
  /\ collectionCache = <<>> /\ localCollection = <<>> /\ currentIndex = None
  /\ remoteCollection = [a \in ApiApp |-> Missing]
  /\ flights = {} /\ flightsSent = 0 /\ tangled = FALSE /\ importing = NoFile
  /\ sendAt = "idle" /\ sends = 0 /\ responseOf = 0 /\ apiHistory = <<>>

\* astray: what is saved was meant for another place
TakeOff(kind, app, id, requests, astray) ==
  /\ flightsSent < MaxPushes
  /\ flightsSent' = flightsSent + 1
  /\ flights' = flights \cup {[n |-> flightsSent, kind |-> kind, app |-> app, id |-> id, requests |-> requests, at |-> "sent"]}
  /\ tangled' = (tangled \/ astray \/ flights # {})

\* saveCollection: to localStorage, or pushed to the application
SaveCollection(requests, astray) ==
  /\ collectionCache' = requests
  /\ IF apiApplicationId = Browser
     THEN localCollection' = requests /\ tangled' = (tangled \/ astray) /\ UNCHANGED <<flights, flightsSent>>
     ELSE TakeOff("push", apiApplicationId, remoteCollectionId, requests, astray) /\ UNCHANGED localCollection

\* a saved request and the place it was saved for
Saved(name) == [name |-> name, home |-> apiApplicationId]

\* where Salvar writes: the request being edited, one of the same name, or the end
SaveTarget(name) ==
  LET same == {i \in DOMAIN collectionCache : i # currentIndex /\ collectionCache[i].name = name}
  IN IF currentIndex # None THEN currentIndex
     ELSE IF same # {} THEN CHOOSE i \in same : \A j \in same : i <= j ELSE Len(collectionCache) + 1

\* writing past the end leaves holes: a change of application keeps the index
Written(at, r) ==
  [i \in 1..(IF at > Len(collectionCache) THEN at ELSE Len(collectionCache)) |->
     IF i = at THEN r ELSE IF i \in DOMAIN collectionCache THEN collectionCache[i] ELSE Hole]

\* the search for one of the same name throws at a hole it comes to first
MeetsHole(name) ==
  \E h \in DOMAIN collectionCache :
    /\ collectionCache[h] = Hole /\ h # currentIndex
    /\ \A i \in 1..(h - 1) : i = currentIndex \/ collectionCache[i].name # name

SaveRequest(name) ==
  /\ ~MeetsHole(name) /\ SaveTarget(name) <= MaxSaved
  /\ LET at == SaveTarget(name)
     IN currentIndex' = at /\ SaveCollection(Written(at, Saved(name)), FALSE)
  /\ UNCHANGED <<apiApplicationId, remoteCollectionId, remoteCollection, importing, sendVars>>

\* a file is chosen and read (bounds: one file at a time, of one request); the
\* person means it for the place chosen by then
PickFile(name) ==
  /\ importing = NoFile
  /\ importing' = Saved(name)
  /\ UNCHANGED <<apiApplicationId, remoteCollectionId, collectionCache, currentIndex, localCollection, remoteCollection, flights, flightsSent, tangled, sendVars>>

\* the Map by name: a name once, where it first stood and as it stands last
FirstOfItsName(requests) == {i \in DOMAIN requests : \A j \in DOMAIN requests : requests[j].name = requests[i].name => i <= j}
LastOfItsName(requests, i) ==
  requests[CHOOSE k \in DOMAIN requests : requests[k].name = requests[i].name /\ \A j \in DOMAIN requests : requests[j].name = requests[i].name => j <= k]
ByName(requests) == Picked([i \in DOMAIN requests |-> LastOfItsName(requests, i)], FirstOfItsName(requests))

\* those that are no holes
ShareableAt(requests) == {i \in DOMAIN requests : requests[i] # Hole}

\* the file is read: its request goes to the place chosen by now; a hole in
\* the list throws
FileRead ==
  /\ importing # NoFile /\ ShareableAt(collectionCache) = DOMAIN collectionCache
  /\ LET merged == ByName(Append(collectionCache, importing))
     IN Len(merged) <= MaxSaved /\ SaveCollection(merged, importing.home # apiApplicationId)
  /\ importing' = NoFile /\ currentIndex' = None
  /\ UNCHANGED <<apiApplicationId, remoteCollectionId, remoteCollection, sendVars>>

FileRefused ==
  /\ importing # NoFile /\ importing' = NoFile
  /\ UNCHANGED <<apiApplicationId, remoteCollectionId, collectionCache, currentIndex, localCollection, remoteCollection, flights, flightsSent, tangled, sendVars>>

OpenSaved(i) ==
  /\ i \in DOMAIN collectionCache /\ collectionCache[i] # Hole /\ currentIndex # i
  /\ currentIndex' = i
  /\ UNCHANGED <<apiApplicationId, remoteCollectionId, collectionCache, localCollection, remoteCollection, flights, flightsSent, tangled, importing, sendVars>>

IndexAfterRemoval(i) == IF currentIndex = i THEN None ELSE IF currentIndex > i THEN currentIndex - 1 ELSE currentIndex

RemoveSaved(i) ==
  /\ i \in DOMAIN collectionCache /\ collectionCache[i] # Hole
  /\ currentIndex' = IndexAfterRemoval(i)
  /\ SaveCollection(RemoveAt(collectionCache, i), FALSE)
  /\ UNCHANGED <<apiApplicationId, remoteCollectionId, remoteCollection, importing, sendVars>>

\* useApplication: the id goes at once, the cache when the answer comes
UseApplication(a) ==
  /\ a # apiApplicationId
  /\ apiApplicationId' = a /\ remoteCollectionId' = NoId
  /\ IF a = Browser
     THEN collectionCache' = localCollection /\ tangled' = (tangled \/ flights # {}) /\ UNCHANGED <<flights, flightsSent>>
     ELSE TakeOff("read", a, NoId, <<>>, FALSE) /\ UNCHANGED collectionCache
  /\ UNCHANGED <<currentIndex, localCollection, remoteCollection, importing, sendVars>>

\* the server keeps the valid requests only, in their order (shareableRequests)
Shareable(requests) == Picked(requests, ShareableAt(requests))

\* external: PUT writes the collection it names, whatever the application;
\* POST makes one, of the default name, where the application has none
ServerHandles(f) ==
  /\ f.at = "sent"
  /\ LET made == f.kind = "push" /\ f.id = NoId /\ remoteCollection[f.app] = Missing
         put  == f.kind = "push" /\ f.id # NoId
         to   == IF put THEN f.id ELSE f.app
     IN /\ remoteCollection' = IF made \/ put THEN [remoteCollection EXCEPT ![to] = Shareable(f.requests)] ELSE remoteCollection
        /\ flights' = (flights \ {f}) \cup
             {[f EXCEPT !.at = IF made \/ put \/ f.kind = "read" THEN "good" ELSE "bad",
                        !.requests = IF f.kind = "read" THEN remoteCollection[f.app] ELSE Shareable(@),
                        !.id = IF f.kind = "read" /\ remoteCollection[f.app] = Missing THEN NoId ELSE to]}
  /\ UNCHANGED <<apiApplicationId, remoteCollectionId, collectionCache, currentIndex, localCollection, flightsSent, tangled, importing, sendVars>>

\* a good answer is adopted, whatever has been chosen or saved since
Adopt(f) ==
  /\ f.at = "good"
  /\ flights' = flights \ {f}
  /\ remoteCollectionId' = f.id
  /\ collectionCache' = IF f.requests = Missing THEN <<>> ELSE f.requests
  /\ UNCHANGED <<apiApplicationId, currentIndex, localCollection, remoteCollection, flightsSent, tangled, importing, sendVars>>

\* a plausible bug: a failed read leaves the list of the place left
CacheKept(f) == collectionCache

\* a failed push leaves everything as it is, a failed read empties the list
CacheAfterFailure(f) == IF f.kind = "read" THEN <<>> ELSE collectionCache

FlightFails(f) ==
  /\ flights' = flights \ {f}
  /\ collectionCache' = CacheAfterFailure(f)
  /\ tangled' = (tangled \/ f.kind = "push")
  /\ UNCHANGED <<apiApplicationId, remoteCollectionId, currentIndex, localCollection, remoteCollection, flightsSent, importing, sendVars>>

-----------------------------------------------------------------------------

\* a plausible bug: what was answered stays on the screen while the next is out
SendBesideAnswer ==
  /\ sendAt = "idle" /\ sends < MaxSends
  /\ sendAt' = "sent" /\ sends' = sends + 1
  /\ UNCHANGED <<responseOf, apiHistory, collectionVars>>

\* Enviar, with a request whose variables are all filled in
SendRequest ==
  /\ sendAt = "idle" /\ sends < MaxSends
  /\ sendAt' = "sent" /\ sends' = sends + 1
  /\ responseOf' = 0
  /\ UNCHANGED <<apiHistory, collectionVars>>

\* a second click, or Limpar, aborts what is in flight; the rejection settles
\* before any further click
AbortSend(wipes) ==
  /\ sendAt = "sent"
  /\ sendAt' = "idle"
  /\ responseOf' = IF wipes THEN 0 ELSE responseOf
  /\ currentIndex' = IF wipes THEN None ELSE currentIndex
  /\ UNCHANGED <<sends, apiHistory, apiApplicationId, remoteCollectionId, collectionCache, localCollection, remoteCollection, flights, flightsSent, tangled, importing>>

\* a plausible bug: the newest is put behind the others
RecordBehind == apiHistory' = IF Len(apiHistory) < ApiHistoryLimit THEN Append(apiHistory, sends) ELSE apiHistory

RecordSend == apiHistory' = SubSeq(<<sends>> \o apiHistory, 1, IF Len(apiHistory) < ApiHistoryLimit THEN Len(apiHistory) + 1 ELSE ApiHistoryLimit)

\* answered (shown and recorded), or failed (recorded with status 0)
SendEnds ==
  /\ sendAt = "sent" /\ sendAt' = "idle"
  /\ responseOf' \in {sends, responseOf}
  /\ RecordSend
  /\ UNCHANGED <<sends, collectionVars>>

ClearRequest ==
  /\ sendAt = "idle"
  /\ responseOf' = 0 /\ currentIndex' = None
  /\ UNCHANGED <<sendAt, sends, apiHistory, apiApplicationId, remoteCollectionId, collectionCache, localCollection, remoteCollection, flights, flightsSent, tangled, importing>>

\* a request of the history is put into the form, and is none of the saved ones
ReuseSent ==
  /\ apiHistory # <<>>
  /\ currentIndex' = None
  /\ UNCHANGED <<apiApplicationId, remoteCollectionId, collectionCache, localCollection, remoteCollection, flights, flightsSent, tangled, importing, sendVars>>

ClearHistory ==
  /\ apiHistory # <<>> /\ apiHistory' = <<>>
  /\ UNCHANGED <<sendAt, sends, responseOf, collectionVars>>

ApiPageNext ==
  \/ \E n \in RequestName : SaveRequest(n) \/ PickFile(n)
  \/ FileRead \/ FileRefused
  \/ \E i \in 1..MaxSaved : OpenSaved(i) \/ RemoveSaved(i)
  \/ \E a \in ApiApp \cup {Browser} : UseApplication(a)
  \/ \E f \in flights : ServerHandles(f) \/ Adopt(f) \/ FlightFails(f)
  \/ SendRequest \/ SendEnds \/ ClearRequest \/ ReuseSent \/ ClearHistory
  \/ \E wipes \in BOOLEAN : AbortSend(wipes)

ApiPageSpec == ApiPageInit /\ [][ApiPageNext]_apiPageVars

-----------------------------------------------------------------------------

\* What a person saves or imports stays where it was meant: unless a push or a
\* read crossed another, a push failed, or another place was chosen while a file
\* was being read (695-718), an application's collection holds only what was
\* saved while that application was chosen, the browser's only what was saved
\* for the browser, and at rest the list shows what the chosen place keeps
\* (api-tests.ts 256-343).
SavedWhereChosen ==
  ~tangled =>
    /\ \A a \in ApiApp : remoteCollection[a] # Missing => \A r \in ToSet(remoteCollection[a]) : r.home = a
    /\ \A r \in ToSet(localCollection) \ {Hole} : r.home = Browser
    /\ flights = {} /\ remoteCollectionId # NoId => remoteCollectionId = apiApplicationId /\ collectionCache = remoteCollection[apiApplicationId]

\* The response on the screen is the last request's, never that of an earlier
\* one beside a newer error (api-tests.ts 848-854), and the history holds no
\* request twice, newest first, within its limit.
ResponseIsOfTheLastSend ==
  /\ responseOf \in {0, sends} /\ (sendAt = "sent" => responseOf = 0)
  /\ Len(apiHistory) <= ApiHistoryLimit
  /\ \A i, j \in DOMAIN apiHistory : i < j => apiHistory[i] > apiHistory[j]

-----------------------------------------------------------------------------
(***************************************************************************)
(* The page of the webhook inspector (src/browser/toolbox/                *)
(* webhook-inspector.ts): it opens boxes, lists the calls a box received,  *)
(* refreshes by hand or every three seconds and empties a box.  Reads are  *)
(* not numbered nor cancelled, so their answers arrive in any order, also  *)
(* after another box was opened.  WebhookBins models the server's boxes;   *)
(* here a box only receives calls, is emptied and expires.                 *)
(***************************************************************************)
CONSTANTS
  Box,          \* the boxes the server may open
  MaxCalls,     \* bound: calls a box receives
  MaxReads,     \* bound: reads under way at once
  NoBox

ASSUME WebhookPageAssumption == NoBox \notin Box /\ MaxCalls \in Nat /\ MaxReads \in Nat \ {0}

VARIABLES
  box,       \* the server's boxes: "unopened", "open" or "expired", the calls they keep and lost
  binId,     \* #binId: the box the page shows
  chamadas,  \* #chamadas: the calls it lists
  timer,     \* #timer: whether the page refreshes by itself
  creating,  \* the request that opens a box: "none", "sent" or the box it opened
  reads,     \* the reads under way: which box, since which event, and what was answered
  clears,    \* the requests to empty a box under way
  expiredSaid,  \* whether the page says the box has expired
  disturbed  \* whether something of before was under way when the box was opened or emptied

webhookPageVars == <<box, binId, chamadas, timer, creating, reads, clears, expiredSaid, disturbed>>

WebhookPageInit ==
  /\ box = [b \in Box |-> [state |-> "unopened", kept |-> {}, emptied |-> 0]]
  /\ binId = NoBox /\ chamadas = {} /\ timer = FALSE /\ creating = NoBox
  /\ reads = {} /\ clears = {}
  /\ expiredSaid = FALSE /\ disturbed = FALSE

\* What is outside the page: a call arrives, or the box's time is over.
CallArrives(b) ==
  /\ box[b].state = "open" /\ Cardinality(box[b].kept) + box[b].emptied < MaxCalls
  /\ box' = [box EXCEPT ![b].kept = @ \cup {<<b, Cardinality(@) + box[b].emptied + 1>>}]
  /\ UNCHANGED <<binId, chamadas, timer, creating, reads, clears, expiredSaid, disturbed>>

BoxExpires(b) ==
  /\ box[b].state = "open"
  /\ box' = [box EXCEPT ![b].state = "expired", ![b].kept = {}]
  /\ UNCHANGED <<binId, chamadas, timer, creating, reads, clears, expiredSaid, disturbed>>

\* The button is disabled while its request is under way.
ClickCreate(b) ==
  /\ creating = NoBox /\ box[b].state = "unopened"
  /\ creating' = b /\ expiredSaid' = FALSE
  /\ UNCHANGED <<box, binId, chamadas, timer, reads, clears, disturbed>>

BoxOpens ==
  /\ creating # NoBox /\ box[creating].state = "unopened"
  /\ box' = [box EXCEPT ![creating].state = "open"]
  /\ UNCHANGED <<binId, chamadas, timer, creating, reads, clears, expiredSaid, disturbed>>

\* Mutant: the calls of the box before stay listed.
ListKept(listed) == listed

\* The list a new box starts with.
ListOnOpening(listed) == {}

\* The new box replaces the one shown, without its calls and its timer; its message stays.
CreateAnswered ==
  /\ creating # NoBox /\ box[creating].state # "unopened"
  /\ binId' = creating /\ chamadas' = ListOnOpening(chamadas) /\ timer' = FALSE /\ creating' = NoBox
  /\ disturbed' = (reads # {} \/ expiredSaid)
  /\ UNCHANGED <<box, reads, clears, expiredSaid>>

CreateFails ==
  /\ creating # NoBox
  /\ creating' = NoBox /\ expiredSaid' = FALSE
  /\ UNCHANGED <<box, binId, chamadas, timer, reads, clears, disturbed>>

\* #atualizar: reads are identified by the order in which they leave.
NewRead == [box |-> binId, id |-> CHOOSE i \in 1..MaxReads : \A r \in reads : r.id # i, got |-> "nothing", calls |-> {}]
CanRead == binId # NoBox /\ Cardinality(reads) < MaxReads

\* By hand, or by the timer.
Refresh ==
  /\ CanRead
  /\ reads' = reads \cup {NewRead}
  /\ UNCHANGED <<box, binId, chamadas, timer, creating, clears, expiredSaid, disturbed>>

ToggleTimer ==
  /\ timer' = ~timer
  /\ IF timer THEN UNCHANGED reads ELSE CanRead /\ reads' = reads \cup {NewRead}
  /\ UNCHANGED <<box, binId, chamadas, creating, clears, expiredSaid, disturbed>>

ServeRead(r) ==
  /\ r.got = "nothing"
  /\ reads' = (reads \ {r}) \cup
       {IF box[r.box].state = "open" THEN [r EXCEPT !.got = "list", !.calls = box[r.box].kept] ELSE [r EXCEPT !.got = "gone"]}
  /\ UNCHANGED <<box, binId, chamadas, timer, creating, clears, expiredSaid, disturbed>>

\* An answer is shown whichever box the page is on by now.
ReadAnswered(r) ==
  /\ r.got # "nothing"
  /\ reads' = reads \ {r}
  /\ IF r.got = "gone"
       THEN timer' = FALSE /\ expiredSaid' = TRUE /\ UNCHANGED chamadas
       ELSE chamadas' = r.calls /\ UNCHANGED <<timer, expiredSaid>>
  /\ UNCHANGED <<box, binId, creating, clears, disturbed>>

\* Another message takes the place of the one shown.
ReadFails(r) ==
  /\ reads' = reads \ {r} /\ expiredSaid' = FALSE
  /\ UNCHANGED <<box, binId, chamadas, timer, creating, clears, disturbed>>

\* #webhook-clear, confirmed (bound: one at a time): the box is emptied, then read again, whatever the request gave.
ClickEmpty ==
  /\ binId # NoBox /\ clears = {}
  /\ clears' = {[box |-> binId, served |-> FALSE]}
  /\ UNCHANGED <<box, binId, chamadas, timer, creating, reads, expiredSaid, disturbed>>

ServeClear(c) ==
  /\ ~c.served
  /\ clears' = {[c EXCEPT !.served = TRUE]}
  /\ box' = [box EXCEPT ![c.box].kept = {}, ![c.box].emptied = @ + Cardinality(box[c.box].kept)]
  /\ disturbed' = (disturbed \/ reads # {})
  /\ UNCHANGED <<binId, chamadas, timer, creating, reads, expiredSaid>>

\* A request that fails is ignored; the read that follows is of the box shown by then.
ClearAnswered(c) ==
  /\ CanRead
  /\ clears' = {}
  /\ reads' = reads \cup {NewRead}
  /\ UNCHANGED <<box, binId, chamadas, timer, creating, expiredSaid, disturbed>>

\* The page is left: the timer stops with it.
PageHidden ==
  /\ timer /\ timer' = FALSE
  /\ UNCHANGED <<box, binId, chamadas, creating, reads, clears, expiredSaid, disturbed>>

WebhookPageNext ==
  \/ \E b \in Box : CallArrives(b) \/ BoxExpires(b) \/ ClickCreate(b)
  \/ BoxOpens \/ CreateAnswered \/ CreateFails
  \/ Refresh \/ ToggleTimer \/ ClickEmpty \/ PageHidden
  \/ \E r \in reads : ServeRead(r) \/ ReadAnswered(r) \/ ReadFails(r)
  \/ \E c \in clears : ServeClear(c) \/ ClearAnswered(c)

WebhookPageSpec == WebhookPageInit /\ [][WebhookPageNext]_webhookPageVars

-----------------------------------------------------------------------------
(***************************************************************************)
(* When no answer was under way as the box was opened and emptied, the     *)
(* page lists only calls of the box whose address it shows, says expired   *)
(* only of that box, and no call comes back after it was erased            *)
(* (#atualizar, the handlers of webhook-create and webhook-clear: the list *)
(* is the last answer to arrive, not the answer to the last question).     *)
(***************************************************************************)
Foreign == \E call \in chamadas : call[1] # binId
WebhookPageIsSound ==
  /\ [](~disturbed => ~Foreign /\ (expiredSaid => creating # NoBox \/ box[binId].state = "expired"))
  /\ [][~disturbed' => \A call \in chamadas' \ chamadas : call[2] > box[call[1]].emptied]_webhookPageVars
=============================================================================

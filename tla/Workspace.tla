------------------------------ MODULE Workspace ------------------------------
(***************************************************************************)
(* What an account sets up: applications, the API collections of each, the *)
(* history of API runs and the account settings (routes/applications.ts,   *)
(* routes/settings.ts, routes/http-request.ts and their repositories).     *)
(* Each repository call is one SQL statement; a handler that makes several *)
(* is as many actions.                                                     *)
(***************************************************************************)
EXTENDS Integers, FiniteSets

CONSTANTS
  Person, Application, Collection,
  Label,              \* names, equal up to case and spaces
  ApiCall,            \* POST /api/http-request with an applicationId
  MaxCollections,     \* MAX_COLLECTIONS_PER_APPLICATION
  MaxRuns,            \* MAX_API_RUNS_PER_APPLICATION
  Setting, SettingValue

ASSUME WorkspaceAssumption ==
  /\ {MaxCollections, MaxRuns} \subseteq Nat \ {0}
  /\ "none" \notin Person   \* stands for a row that is not there

VARIABLES
  apps,         \* application -> [owner, name, archived], or NoRow
  collections,  \* collection -> [owner, app, name], or NoRow
  posting,      \* the creation that will insert a collection: [stage, who, app]
  apiCall,      \* of each call: [stage, who, app]
  apiRuns,      \* rows of api_runs: [call, owner, app, at]
  recorded,     \* rows ever inserted and not erased by their owner
  settings      \* person -> setting -> value, or Unset

spaceVars == <<apps, collections, posting, apiCall, apiRuns, recorded, settings>>

NoRow == [owner |-> "none"]
Unset == "unset"
Idle == [stage |-> "idle", who |-> "none", app |-> "none"]

SpaceInit ==
  /\ apps \in [Application -> {NoRow} \cup [owner : Person, name : Label, archived : {FALSE}]]
  /\ \A a, b \in Application : a # b /\ apps[a] # NoRow /\ apps[a].owner = apps[b].owner => apps[a].name # apps[b].name
  /\ collections = [c \in Collection |-> NoRow]
  /\ posting = [c \in Collection |-> Idle]
  /\ apiCall = [r \in ApiCall |-> Idle]
  /\ apiRuns = {} /\ recorded = {}
  /\ settings = [p \in Person |-> [s \in Setting |-> Unset]]

----------------------------------------------------------------------------
(* Applications.                                                           *)

OwnedBy(p, a) == apps[a].owner = p

\* the unique index on (owner_id, lower(name)), archived ones included
FreeName(p, n, except) == \A a \in Application \ {except} : OwnedBy(p, a) => apps[a].name # n

CreateApplication(p, a, n) ==
  /\ apps[a] = NoRow /\ FreeName(p, n, a)
  /\ apps' = [apps EXCEPT ![a] = [owner |-> p, name |-> n, archived |-> FALSE]]
  /\ UNCHANGED <<collections, posting, apiCall, apiRuns, recorded, settings>>

UpdateApplication(p, a, n) ==
  /\ OwnedBy(p, a) /\ FreeName(p, n, a)
  /\ apps' = [apps EXCEPT ![a].name = n]
  /\ UNCHANGED <<collections, posting, apiCall, apiRuns, recorded, settings>>

ArchiveApplication(p, a) ==
  /\ OwnedBy(p, a)
  /\ apps' = [apps EXCEPT ![a].archived = TRUE]
  /\ UNCHANGED <<collections, posting, apiCall, apiRuns, recorded, settings>>

----------------------------------------------------------------------------
(* Collections.                                                            *)

Of(a) == {c \in Collection : collections[c] # NoRow /\ collections[c].app = a}
FreeLabel(a, n, except) == \A c \in Of(a) \ {except} : collections[c].name # n

\* POST: the application is looked up, then the body read and the list counted
AskCollection(p, a, c) ==
  /\ posting[c].stage = "idle" /\ OwnedBy(p, a)
  /\ posting' = [posting EXCEPT ![c] = [stage |-> "asked", who |-> p, app |-> a]]
  /\ UNCHANGED <<apps, collections, apiCall, apiRuns, recorded, settings>>

CountCollections(c) ==
  LET n == Cardinality(Of(posting[c].app)) IN
  /\ posting[c].stage = "asked"
  /\ posting' = [posting EXCEPT ![c].stage = IF n < MaxCollections THEN "counted" ELSE "refused"]
  /\ UNCHANGED <<apps, collections, apiCall, apiRuns, recorded, settings>>

InsertCollection(c, n) ==
  LET w == posting[c] IN
  /\ w.stage = "counted"
  /\ IF FreeLabel(w.app, n, c)
     THEN /\ collections' = [collections EXCEPT ![c] = [owner |-> w.who, app |-> w.app, name |-> n]]
          /\ posting' = [posting EXCEPT ![c].stage = "created"]
     ELSE /\ posting' = [posting EXCEPT ![c].stage = "refused"]
          /\ UNCHANGED collections
  /\ UNCHANGED <<apps, apiCall, apiRuns, recorded, settings>>

\* PUT and DELETE: the path's application must be the account's, the collection
\* is found by its own id and owner
RenameCollection(p, a, c, n) ==
  /\ OwnedBy(p, a) /\ collections[c].owner = p
  /\ FreeLabel(collections[c].app, n, c)
  /\ collections' = [collections EXCEPT ![c].name = n]
  /\ UNCHANGED <<apps, posting, apiCall, apiRuns, recorded, settings>>

RemoveCollection(p, a, c) ==
  /\ OwnedBy(p, a) /\ collections[c].owner = p
  /\ collections' = [collections EXCEPT ![c] = NoRow]
  /\ UNCHANGED <<apps, posting, apiCall, apiRuns, recorded, settings>>

----------------------------------------------------------------------------
(* API runs: inserted and pruned in two statements, best effort.           *)

\* the answer is back; the application is checked against the caller
CallAnswered(p, a, r) ==
  /\ apiCall[r].stage = "idle"
  /\ apiCall' = [apiCall EXCEPT ![r] = [stage |-> IF OwnedBy(p, a) THEN "recording" ELSE "answered", who |-> p, app |-> a]]
  /\ UNCHANGED <<apps, collections, posting, apiRuns, recorded, settings>>

\* the rows inserted so far stand for the clock of created_at
Inserted == Cardinality({r \in ApiCall : apiCall[r].stage \in {"pruning", "unpruned", "answered"}})

InsertRun(r) ==
  LET run == [call |-> r, owner |-> apiCall[r].who, app |-> apiCall[r].app, at |-> Inserted + 1] IN
  /\ apiCall[r].stage = "recording"
  /\ apiCall' = [apiCall EXCEPT ![r].stage = "pruning"]
  /\ apiRuns' = apiRuns \cup {run}
  /\ recorded' = recorded \cup {run}
  /\ UNCHANGED <<apps, collections, posting, settings>>

NewestOf(rows, a) ==
  {x \in rows : x.app = a /\ Cardinality({y \in rows : y.app = a /\ y.at > x.at}) < MaxRuns}

\* a plausible bug: the inner select forgets the application
NewestOfAll(rows, a) ==
  {x \in rows : x.app = a /\ Cardinality({y \in rows : y.at > x.at}) < MaxRuns}

KeptByPrune(rows, a) == NewestOf(rows, a)

PruneRuns(r) ==
  /\ apiCall[r].stage = "pruning"
  /\ apiCall' = [apiCall EXCEPT ![r].stage = "answered"]
  /\ apiRuns' = {x \in apiRuns : x.app # apiCall[r].app} \cup KeptByPrune(apiRuns, apiCall[r].app)
  /\ UNCHANGED <<apps, collections, posting, recorded, settings>>

\* either statement fails: it is logged and the answer goes out
RecordFails(r) ==
  /\ apiCall[r].stage \in {"recording", "pruning"}
  /\ apiCall' = [apiCall EXCEPT ![r].stage = IF @ = "pruning" THEN "unpruned" ELSE "answered"]
  /\ UNCHANGED <<apps, collections, posting, apiRuns, recorded, settings>>

\* DELETE of the account's data (removeRunsForOwner)
EraseRuns(p) ==
  /\ \E x \in apiRuns : x.owner = p
  /\ apiRuns' = {x \in apiRuns : x.owner # p}
  /\ recorded' = {x \in recorded : x.owner # p}
  /\ UNCHANGED <<apps, collections, posting, apiCall, settings>>

----------------------------------------------------------------------------
(* Settings: only the fields the request sent.                             *)

PatchSettings(p, patch) ==
  /\ \E s \in Setting : patch[s] # Unset
  /\ settings' = [settings EXCEPT ![p] = [s \in Setting |-> IF patch[s] = Unset THEN @[s] ELSE patch[s]]]
  /\ UNCHANGED <<apps, collections, posting, apiCall, apiRuns, recorded>>

ApplicationStep ==
  \/ \E p \in Person, a \in Application, n \in Label : CreateApplication(p, a, n) \/ UpdateApplication(p, a, n)
  \/ \E p \in Person, a \in Application : ArchiveApplication(p, a)

CollectionStep ==
  \/ \E p \in Person, a \in Application, c \in Collection : AskCollection(p, a, c) \/ RemoveCollection(p, a, c)
  \/ \E p \in Person, a \in Application, c \in Collection, n \in Label : RenameCollection(p, a, c, n)
  \/ \E c \in Collection : CountCollections(c)
  \/ \E c \in Collection, n \in Label : InsertCollection(c, n)

RunStep ==
  \/ \E p \in Person, a \in Application, r \in ApiCall : CallAnswered(p, a, r)
  \/ \E r \in ApiCall : InsertRun(r) \/ PruneRuns(r) \/ RecordFails(r)
  \/ \E p \in Person : EraseRuns(p)

SettingStep ==
  \E p \in Person, patch \in [Setting -> SettingValue \cup {Unset}] : PatchSettings(p, patch)

SpaceNext == ApplicationStep \/ CollectionStep \/ RunStep \/ SettingStep

SpaceSpec == SpaceInit /\ [][SpaceNext]_spaceVars

----------------------------------------------------------------------------

BelongsToItsOwner ==
  \A c \in Collection : collections[c] # NoRow =>
    /\ OwnedBy(collections[c].owner, collections[c].app)
    /\ FreeLabel(collections[c].app, collections[c].name, c)

NewestRunsKept ==
  \A a \in Application :
    /\ NewestOf(recorded, a) \subseteq apiRuns
    /\ Cardinality({x \in apiRuns : x.app = a})
         <= MaxRuns + Cardinality({r \in ApiCall : apiCall[r].app = a /\ apiCall[r].stage \in {"pruning", "unpruned"}})

SettingsKept == \A p \in Person, s \in Setting : settings[p][s] # Unset => settings'[p][s] # Unset

\* A collection belongs to an application of its own owner under a name of its
\* own, though the handlers look the two up apart; however calls interleave
\* their inserts and prunes the newest MAX_API_RUNS_PER_APPLICATION runs of
\* each application survive, and no more than those and the ones not pruned
\* yet; and a settings request never resets a field it did not send
\* (routes/applications.ts 166-226, api-collection-repository.ts 286-303,
\* account-settings-repository.ts 70-96).
WorkspaceIsSound == [](BelongsToItsOwner /\ NewestRunsKept) /\ [][SettingsKept]_spaceVars

=============================================================================

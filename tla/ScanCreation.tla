---------------------------- MODULE ScanCreation ----------------------------
(* POST /api/scans from the lookup of the Idempotency-Key to the answer      *)
(* (routes/scans.ts, idempotency-store.ts), with several requests in         *)
(* progress and a process that may die under them.  An action is one         *)
(* callback: what a handler does between two awaits, or what the key store   *)
(* does to its record.  The queue is reduced to what the handler reads of    *)
(* it: how many analyses are waiting or running, and whether an analysis is  *)
(* still known.  Each request creates at most one analysis and gives it its  *)
(* name.                                                                     *)
EXTENDS Naturals, FiniteSets

CONSTANTS Request,
          Keyed,        \* requests that carry the Idempotency-Key, the same one
          Body, BodyOf, \* fingerprints of the bodies
          NoRequest, NoRecord,
          MaxQueueSize,
          SharedStore,    \* keys in Postgres: every store call is a round trip
          FailingCalls,   \* calls of the key store that may reject, without effect
          Turnstile,      \* config.turnstileSecretKey is set
          DurableJobs,    \* scan_jobs remembers what the memory forgot
          MaxDeaths       \* bound: deaths of the process

ASSUME CreationAssumption ==
  /\ Keyed \subseteq Request /\ BodyOf \in [Request -> Body]
  /\ NoRequest \notin Request /\ MaxQueueSize \in Nat \ {0}
  /\ NoRecord \notin [fingerprint : Body, job : Request \cup {NoRequest}]
  /\ {SharedStore, Turnstile, DurableJobs} \subseteq BOOLEAN
  /\ DurableJobs => SharedStore \* one database keeps both (web.ts 37-53)
  /\ MaxDeaths \in Nat
  /\ FailingCalls \subseteq {"get", "reserve", "complete", "release"}

VARIABLES
  phase,     \* what each request awaits
  answer,    \* what it was answered
  seen,      \* the record its lookup returned
  replayed,  \* the analysis a replay described
  record,    \* the stored record of the key
  analysis,  \* what became of the analysis each request created
  holder,    \* history: the request that reserved the key last
  deaths

creationVars == <<phase, answer, seen, replayed, record, analysis, holder, deaths>>

KeyRecord == [fingerprint : Body, job : Request \cup {NoRequest}]
Phase == {"idle", "lookup", "found", "loading", "releasing", "turnstile",
          "reserving", "preparing", "completing", "undoing", "done"}
Answer == {"none", "created", "replayed", "conflict", "inProgress", "busy", "error", "unreleased", "lost"}

CreationInit ==
  /\ phase = [r \in Request |-> "idle"]
  /\ answer = [r \in Request |-> "none"]
  /\ seen = [r \in Request |-> NoRecord]
  /\ replayed = [r \in Request |-> NoRequest]
  /\ record = NoRecord
  /\ analysis = [r \in Request |-> "none"]
  /\ holder = NoRequest /\ deaths = 0

LiveAnalyses == {r \in Request : analysis[r] = "live"}
InMemory(j) == analysis[j] \in {"live", "ended"}

\* With the store in memory these awaits end within the same turn of the event
\* loop: no other request gets in between.
Microtask == {"found", "loading", "releasing", "reserving"}
MayRun(r) == SharedStore \/ \A q \in Request \ {r} : phase[q] \notin Microtask

To(r, p) == phase' = [phase EXCEPT ![r] = p]
Reply(r, a) == To(r, "done") /\ answer' = [answer EXCEPT ![r] = a]

-----------------------------------------------------------------------------
\* From the capacity check to the next await.
Proceed(r) ==
  IF Turnstile THEN To(r, "turnstile")
  ELSE To(r, IF r \in Keyed THEN "reserving" ELSE "preparing")

CheckCapacity(r) ==
  \/ /\ Cardinality(LiveAnalyses) >= MaxQueueSize
     /\ Reply(r, "busy")
  \/ /\ Cardinality(LiveAnalyses) < MaxQueueSize
     /\ Proceed(r) /\ UNCHANGED answer

Arrive(r) ==
  /\ phase[r] = "idle" /\ MayRun(r)
  /\ \/ r \in Keyed /\ To(r, "lookup") /\ UNCHANGED answer
     \/ r \notin Keyed /\ CheckCapacity(r)
  /\ UNCHANGED <<seen, replayed, record, analysis, holder, deaths>>

\* idempotencyKeys.get
Lookup(r) ==
  /\ phase[r] = "lookup" /\ MayRun(r)
  /\ seen' = [seen EXCEPT ![r] = record]
  /\ To(r, "found")
  /\ UNCHANGED <<answer, replayed, record, analysis, holder, deaths>>

Replay(r) ==
  /\ replayed' = [replayed EXCEPT ![r] = seen[r].job]
  /\ Reply(r, "replayed")

\* The fingerprint is not compared.
SameBodyAssumed(r) == TRUE

SameBody(r) == seen[r].fingerprint = BodyOf[r]

\* A reservation without an analysis is taken for a free key.
TreatReservationAsFree(r) == CheckCapacity(r)

RefuseWhileInProgress(r) == Reply(r, "inProgress")

FirstUse(r) ==
  /\ phase[r] = "found" /\ MayRun(r) /\ seen[r] = NoRecord
  /\ CheckCapacity(r)
  /\ UNCHANGED <<seen, replayed, record, analysis, holder, deaths>>

Reused(r) ==
  /\ phase[r] = "found" /\ MayRun(r) /\ seen[r] # NoRecord
  /\ \/ /\ ~SameBody(r)
        /\ Reply(r, "conflict") /\ UNCHANGED replayed
     \/ /\ SameBody(r) /\ seen[r].job = NoRequest
        /\ RefuseWhileInProgress(r) /\ UNCHANGED replayed
     \/ /\ SameBody(r) /\ seen[r].job # NoRequest /\ InMemory(seen[r].job)
        /\ Replay(r)
     \/ /\ SameBody(r) /\ seen[r].job # NoRequest /\ ~InMemory(seen[r].job)
        /\ To(r, "loading") /\ UNCHANGED <<answer, replayed, holder, deaths>>
  /\ UNCHANGED <<seen, record, analysis, holder, deaths>>

\* scanJobs.load answers undefined both for a missing row and for an error.
Load(r) ==
  /\ phase[r] = "loading" /\ MayRun(r)
  /\ \/ DurableJobs /\ Replay(r)
     \/ To(r, "releasing") /\ UNCHANGED <<answer, replayed, holder, deaths>>
  /\ UNCHANGED <<seen, record, analysis, holder, deaths>>

ReleaseStale(r) ==
  /\ phase[r] = "releasing" /\ MayRun(r)
  /\ record' = NoRecord
  /\ CheckCapacity(r)
  /\ UNCHANGED <<seen, replayed, analysis, holder, deaths>>

VerifyHuman(r) ==
  /\ phase[r] = "turnstile" /\ MayRun(r)
  /\ \/ To(r, IF r \in Keyed THEN "reserving" ELSE "preparing") /\ UNCHANGED answer
     \/ Reply(r, "error")
  /\ UNCHANGED <<seen, replayed, record, analysis, holder, deaths>>

\* The columns are swapped.
ReserveSwapped(r) == record' = [fingerprint |-> NoRequest, job |-> BodyOf[r]]

\* The reservation overwrites whatever the key held.
ReserveKey(r) == record' = [fingerprint |-> BodyOf[r], job |-> NoRequest]

Reserve(r) ==
  /\ phase[r] = "reserving" /\ MayRun(r)
  /\ ReserveKey(r) /\ holder' = r
  /\ To(r, "preparing")
  /\ UNCHANGED <<answer, seen, replayed, analysis, deaths>>

\* Settings, target check, directory, access hash and row: any may fail.
PrepareFails(r) ==
  /\ phase[r] = "preparing" /\ MayRun(r)
  /\ \/ r \in Keyed /\ To(r, "undoing") /\ UNCHANGED answer
     \/ r \notin Keyed /\ Reply(r, "error")
  /\ UNCHANGED <<seen, replayed, record, analysis, holder, deaths>>

EnqueueAnalysis(r) ==
  /\ phase[r] = "preparing" /\ MayRun(r)
  /\ analysis' = [analysis EXCEPT ![r] = "live"]
  /\ \/ r \in Keyed /\ To(r, "completing") /\ UNCHANGED answer
     \/ r \notin Keyed /\ Reply(r, "created")
  /\ UNCHANGED <<seen, replayed, record, holder, deaths>>

\* The answer goes out and the key never learns of the analysis.
FillNothing(r) == record' = record

\* complete() fills in the record if there is one.
FillKey(r) == record' = IF record = NoRecord THEN NoRecord ELSE [record EXCEPT !.job = r]

CompleteKey(r) ==
  /\ phase[r] = "completing" /\ MayRun(r)
  /\ FillKey(r)
  /\ Reply(r, "created")
  /\ UNCHANGED <<seen, replayed, analysis, holder, deaths>>

\* get and reserve reject outside the try block: the key is as it was.
StoreRejects(r) ==
  /\ MayRun(r)
  /\ \/ phase[r] = "lookup" /\ "get" \in FailingCalls /\ Reply(r, "error")
     \/ phase[r] = "releasing" /\ "release" \in FailingCalls /\ Reply(r, "error")
     \/ phase[r] = "reserving" /\ "reserve" \in FailingCalls /\ Reply(r, "error")
     \/ phase[r] = "completing" /\ "complete" \in FailingCalls
        /\ To(r, "undoing") /\ UNCHANGED answer
  /\ UNCHANGED <<seen, replayed, record, analysis, holder, deaths>>

\* The catch answers with the error and keeps the reservation.
KeepKey(r) == record' = record

ReleaseKey(r) == record' = NoRecord

Undo(r) ==
  /\ phase[r] = "undoing" /\ MayRun(r)
  /\ ReleaseKey(r)
  /\ Reply(r, "error")
  /\ UNCHANGED <<seen, replayed, analysis, holder, deaths>>

\* The release in the catch rejects too: the client gets its error instead of
\* the original one, and the key keeps the reservation.
UndoFails(r) ==
  /\ phase[r] = "undoing" /\ MayRun(r) /\ "release" \in FailingCalls
  /\ Reply(r, "unreleased")
  /\ UNCHANGED <<seen, replayed, record, analysis, holder, deaths>>

-----------------------------------------------------------------------------
(* Around the handler                                                        *)

AnalysisEnds(r) ==
  /\ analysis[r] = "live"
  /\ analysis' = [analysis EXCEPT ![r] = "ended"]
  /\ UNCHANGED <<phase, answer, seen, replayed, record, holder, deaths>>

AnalysisForgotten(r) ==
  /\ analysis[r] = "ended"
  /\ analysis' = [analysis EXCEPT ![r] = "forgotten"]
  /\ UNCHANGED <<phase, answer, seen, replayed, record, holder, deaths>>

\* A key that leads to no analysis is kept past its expiry.
ExpiresIfFilled == record.job # NoRequest

ExpiresAnyhow == TRUE

\* retentionMs is longer than a request and than an analysis.
KeyExpires ==
  /\ record # NoRecord /\ ExpiresAnyhow
  /\ \A r \in Keyed : phase[r] \in {"idle", "done"} /\ analysis[r] # "live"
  /\ record' = NoRecord
  /\ UNCHANGED <<phase, answer, seen, replayed, analysis, holder, deaths>>

-----------------------------------------------------------------------------
(* The process dies between any two steps and another one boots              *)

\* What the new process has of an analysis: without the table nothing; with it
\* a row that waited, which recovery will enqueue, or one it closes or had
\* closed, known to load() only.  The row may be in before its request got to
\* enqueue it.
AfterDeath(r) ==
  IF ~DurableJobs THEN {IF analysis[r] = "none" THEN "none" ELSE "forgotten"}
  ELSE CASE analysis[r] = "live" -> {"stored", "forgotten"}
         [] analysis[r] = "none" /\ phase[r] = "preparing" -> {"none", "stored"}
         [] analysis[r] = "ended" -> {"forgotten"}
         [] OTHER -> {analysis[r]}

\* The keys die with the memory they are kept in.
KeysAfterDeath == record' = IF SharedStore THEN record ELSE NoRecord

Die ==
  /\ deaths < MaxDeaths /\ deaths' = deaths + 1
  /\ LET cut == {r \in Request : phase[r] \notin {"idle", "done"}} IN
       /\ phase' = [r \in Request |-> IF r \in cut THEN "done" ELSE phase[r]]
       /\ answer' = [r \in Request |-> IF r \in cut THEN "lost" ELSE answer[r]]
  /\ \E fate \in [Request -> {"none", "live", "ended", "forgotten", "stored"}] :
       /\ \A r \in Request : fate[r] \in AfterDeath(r)
       /\ analysis' = fate
  /\ KeysAfterDeath
  /\ UNCHANGED <<seen, replayed, holder>>

\* Recovery of server.ts 781; it may fail, and the row waits for another boot.
Restored(r) ==
  /\ analysis[r] = "stored"
  /\ analysis' = [analysis EXCEPT ![r] = "live"]
  /\ UNCHANGED <<phase, answer, seen, replayed, record, holder, deaths>>

CreationNext ==
  \/ \E r \in Request :
       \/ Arrive(r) \/ Lookup(r) \/ FirstUse(r) \/ Reused(r) \/ Load(r)
       \/ ReleaseStale(r) \/ VerifyHuman(r) \/ Reserve(r) \/ PrepareFails(r)
       \/ EnqueueAnalysis(r) \/ CompleteKey(r) \/ StoreRejects(r) \/ Undo(r) \/ UndoFails(r)
       \/ AnalysisEnds(r) \/ AnalysisForgotten(r) \/ Restored(r)
  \/ KeyExpires
  \/ Die

CreationSpec == CreationInit /\ [][CreationNext]_creationVars

\* The event loop serves every request, the store answers, an analysis has its
\* deadline and a key its retention.
HandlerStep(r) ==
  \/ Lookup(r) \/ FirstUse(r) \/ Reused(r) \/ Load(r) \/ ReleaseStale(r)
  \/ VerifyHuman(r) \/ Reserve(r) \/ PrepareFails(r) \/ EnqueueAnalysis(r)
  \/ CompleteKey(r) \/ StoreRejects(r) \/ Undo(r) \/ UndoFails(r)

FairCreationSpec ==
  /\ CreationSpec
  /\ \A r \in Request : WF_creationVars(HandlerStep(r)) /\ WF_creationVars(AnalysisEnds(r))
  /\ WF_creationVars(KeyExpires)

-----------------------------------------------------------------------------
(* Properties                                                                *)

\* Every variable keeps to its range.
CreationTypeOK ==
  /\ phase \in [Request -> Phase]
  /\ answer \in [Request -> Answer]
  /\ seen \in [Request -> KeyRecord \cup {NoRecord}]
  /\ replayed \in [Request -> Request \cup {NoRequest}]
  /\ record \in KeyRecord \cup {NoRecord}
  /\ analysis \in [Request -> {"none", "live", "ended", "forgotten", "stored"}]
  /\ holder \in Request \cup {NoRequest} /\ deaths \in 0..MaxDeaths

\* Repeating a request with its key never puts a second analysis in the queue
\* beside the first (README, "em vez de enfileirar uma segunda"; the comment in
\* routes/scans.ts claims it for simultaneous requests too).
OneLiveAnalysisPerKey == Cardinality(Keyed \cap LiveAnalyses) <= 1

\* A replay describes the analysis of the very body that was sent.
ReplayMatchesBody ==
  \A r \in Request : replayed[r] # NoRequest => BodyOf[replayed[r]] = BodyOf[r]

\* A client told 202 can repeat the request while its analysis lives: the key
\* still leads to that analysis, whatever other requests with the key did.
CreatedIsReplayable ==
  \A r \in Keyed : answer[r] = "created" /\ analysis[r] = "live" =>
    record # NoRecord /\ record.job = r

Reserved == record # NoRecord /\ record.job = NoRequest

\* A reservation without an analysis is that of a request still under way
\* (routes/scans.ts: a failed creation must not leave the key "presa numa
\* reserva que nunca vira job"), whatever other requests did to the key since,
\* unless of all requests it was this one whose release the store refused or
\* whose process died under it.
ReservationHasOwner ==
  Reserved =>
    /\ holder \in Keyed
    /\ phase[holder] \in {"preparing", "completing", "undoing"} \/ answer[holder] \in {"unreleased", "lost"}

\* Seen by the clients: the key that answers 409 "em processamento" stops doing
\* so, at the latest when its retention ends, though the release was refused or
\* the process died between the reservation and the analysis.
ReservationResolves == Reserved ~> ~Reserved

\* The waiting and running analyses stay within config.maxQueueSize.
QueueWithinLimit == Cardinality(LiveAnalyses) <= MaxQueueSize
=============================================================================

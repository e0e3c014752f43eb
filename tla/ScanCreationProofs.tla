------------------------- MODULE ScanCreationProofs -------------------------
(* What TLAPS proves of ScanCreation for every number of requests, every     *)
(* assignment of bodies and every size of the queue: with any key store,     *)
(* that a reservation has an owner; with the store of one process, that a    *)
(* key leads to one analysis, the right one, for as long as it lives.        *)
EXTENDS ScanCreation, FiniteSetTheorems, TLAPS

HandlerActions(r) ==
  \/ Arrive(r) \/ Lookup(r) \/ FirstUse(r) \/ Reused(r) \/ Load(r)
  \/ ReleaseStale(r) \/ VerifyHuman(r) \/ Reserve(r) \/ PrepareFails(r)
  \/ EnqueueAnalysis(r) \/ CompleteKey(r) \/ StoreRejects(r) \/ Undo(r) \/ UndoFails(r)

-----------------------------------------------------------------------------
(* Types, with any key store                                                 *)

\* Only requests with the key meet the store, an answer ends the request, and
\* an analysis is looked for only after a record was found.
HandlerInv ==
  /\ CreationTypeOK
  /\ \A r \in Request :
       /\ phase[r] \in {"lookup", "found", "loading", "releasing", "reserving", "completing", "undoing"}
            => r \in Keyed
       /\ answer[r] # "none" => phase[r] = "done"
       /\ phase[r] = "loading" => seen[r] # NoRecord

\* What the capacity check does to the request that passes it, or not.
LEMMA CapacityOutcome ==
  ASSUME CreationTypeOK, NEW r \in Request, CheckCapacity(r)
  PROVE  \/ phase' = [phase EXCEPT ![r] = "done"] /\ answer' = [answer EXCEPT ![r] = "busy"]
         \/ /\ answer' = answer
            /\ \/ Turnstile /\ phase' = [phase EXCEPT ![r] = "turnstile"]
               \/ r \in Keyed /\ ~Turnstile /\ phase' = [phase EXCEPT ![r] = "reserving"]
               \/ r \notin Keyed /\ ~Turnstile /\ phase' = [phase EXCEPT ![r] = "preparing"]
PROOF
  BY DEF CheckCapacity, Reply, To, Proceed

\* What is left after a death of the process: no request under way, and the
\* record if it was not in memory.
LEMMA DeathOutcome ==
  ASSUME HandlerInv, Die
  PROVE  /\ HandlerInv'
         /\ \A r \in Request :
              \/ phase[r] \in {"idle", "done"} /\ phase'[r] = phase[r] /\ answer'[r] = answer[r]
              \/ phase[r] \notin {"idle", "done"} /\ phase'[r] = "done" /\ answer'[r] = "lost"
         /\ record' = (IF SharedStore THEN record ELSE NoRecord)
         /\ ~SharedStore => \A r \in Request : analysis'[r] \in {"none", "forgotten"}
         /\ UNCHANGED <<seen, replayed, holder>>
PROOF
  <1>1. /\ \A r \in Request :
              \/ phase[r] \in {"idle", "done"} /\ phase'[r] = phase[r] /\ answer'[r] = answer[r]
              \/ phase[r] \notin {"idle", "done"} /\ phase'[r] = "done" /\ answer'[r] = "lost"
        /\ phase' \in [Request -> Phase] /\ answer' \in [Request -> Answer]
    BY DEF Die, HandlerInv, CreationTypeOK, Phase, Answer
  <1>2. record' = (IF SharedStore THEN record ELSE NoRecord) /\ UNCHANGED <<seen, replayed, holder>>
    BY DEF Die, KeysAfterDeath
  <1>3. /\ analysis' \in [Request -> {"none", "live", "ended", "forgotten", "stored"}]
        /\ \A r \in Request : analysis'[r] \in AfterDeath(r)
    BY DEF Die
  <1>4. ~SharedStore => \A r \in Request : analysis'[r] \in {"none", "forgotten"}
    BY <1>3, CreationAssumption DEF AfterDeath
  <1>5. deaths' \in 0..MaxDeaths
    BY CreationAssumption DEF Die, HandlerInv, CreationTypeOK
  <1>6. CreationTypeOK'
    BY <1>1, <1>2, <1>3, <1>5 DEF HandlerInv, CreationTypeOK
  <1>7. HandlerInv'
    BY <1>1, <1>2, <1>6 DEF HandlerInv
  <1> QED BY <1>1, <1>2, <1>4, <1>7

\* Holds at first: what a handler has found by the step it is at.
LEMMA HandlerInvInit == CreationInit => HandlerInv
PROOF
  BY CreationAssumption DEF CreationInit, HandlerInv, CreationTypeOK, Phase, Answer

\* No step breaks what a handler has found by the step it is at.
LEMMA HandlerInvStep == HandlerInv /\ [CreationNext]_creationVars => HandlerInv'
PROOF
  <1> SUFFICES ASSUME HandlerInv, [CreationNext]_creationVars
               PROVE  HandlerInv'
    OBVIOUS
  <1> USE CreationAssumption DEF HandlerInv
  <1>1. ASSUME NEW r \in Request, Arrive(r)
        PROVE  HandlerInv'
    <2>1. CASE To(r, "lookup") /\ UNCHANGED answer /\ r \in Keyed
      BY <1>1, <2>1 DEF Arrive, To, CreationTypeOK, Phase
    <2>2. CASE CheckCapacity(r)
      BY <1>1, <2>2, CapacityOutcome DEF Arrive, CreationTypeOK, Phase, Answer
    <2> QED BY <1>1, <2>1, <2>2 DEF Arrive
  <1>2. ASSUME NEW r \in Request, Lookup(r)
        PROVE  HandlerInv'
    BY <1>2 DEF Lookup, To, CreationTypeOK, Phase
  <1>3. ASSUME NEW r \in Request, FirstUse(r)
        PROVE  HandlerInv'
    BY <1>3, CapacityOutcome DEF FirstUse, CreationTypeOK, Phase, Answer
  <1>4. ASSUME NEW r \in Request, Reused(r)
        PROVE  HandlerInv'
    BY <1>4 DEF Reused, RefuseWhileInProgress, Replay, Reply, To, CreationTypeOK, Phase, Answer, KeyRecord
  <1>5. ASSUME NEW r \in Request, Load(r)
        PROVE  HandlerInv'
    BY <1>5 DEF Load, Replay, Reply, To, CreationTypeOK, Phase, Answer, KeyRecord
  <1>6. ASSUME NEW r \in Request, ReleaseStale(r)
        PROVE  HandlerInv'
    BY <1>6, CapacityOutcome DEF ReleaseStale, CreationTypeOK, Phase, Answer
  <1>7. ASSUME NEW r \in Request, VerifyHuman(r)
        PROVE  HandlerInv'
    BY <1>7 DEF VerifyHuman, Reply, To, CreationTypeOK, Phase, Answer
  <1>8. ASSUME NEW r \in Request, Reserve(r)
        PROVE  HandlerInv'
    BY <1>8 DEF Reserve, ReserveKey, To, CreationTypeOK, Phase, KeyRecord
  <1>9. ASSUME NEW r \in Request, PrepareFails(r)
        PROVE  HandlerInv'
    BY <1>9 DEF PrepareFails, Reply, To, CreationTypeOK, Phase, Answer
  <1>10. ASSUME NEW r \in Request, EnqueueAnalysis(r)
         PROVE  HandlerInv'
    BY <1>10 DEF EnqueueAnalysis, Reply, To, CreationTypeOK, Phase, Answer
  <1>11. ASSUME NEW r \in Request, CompleteKey(r)
         PROVE  HandlerInv'
    BY <1>11 DEF CompleteKey, FillKey, Reply, To, CreationTypeOK, Phase, Answer, KeyRecord
  <1>12. ASSUME NEW r \in Request, StoreRejects(r)
         PROVE  HandlerInv'
    BY <1>12 DEF StoreRejects, Reply, To, CreationTypeOK, Phase, Answer
  <1>13. ASSUME NEW r \in Request, Undo(r) \/ UndoFails(r)
         PROVE  HandlerInv'
    BY <1>13 DEF Undo, UndoFails, ReleaseKey, Reply, To, CreationTypeOK, Phase, Answer
  <1>14. ASSUME NEW r \in Request, AnalysisEnds(r) \/ AnalysisForgotten(r)
         PROVE  HandlerInv'
    BY <1>14 DEF AnalysisEnds, AnalysisForgotten, CreationTypeOK
  <1>15. CASE KeyExpires \/ UNCHANGED creationVars
    BY <1>15 DEF KeyExpires, creationVars, CreationTypeOK
  <1>16. CASE Die
    BY <1>16, DeathOutcome
  <1>17. ASSUME NEW r \in Request, Restored(r)
         PROVE  HandlerInv'
    BY <1>17 DEF Restored, CreationTypeOK
  <1> QED
    BY <1>1, <1>2, <1>3, <1>4, <1>5, <1>6, <1>7, <1>8, <1>9, <1>10, <1>11, <1>12, <1>13, <1>14,
       <1>15, <1>16, <1>17 DEF CreationNext

\* Holds in every state: what a handler has found by the step it is at.
LEMMA HandlerInvAlways == CreationSpec => []HandlerInv
PROOF
  BY HandlerInvInit, HandlerInvStep, PTL DEF CreationSpec

\* Every variable of the creation keeps to its range.
THEOREM CreationTypeCorrect == CreationSpec => []CreationTypeOK
PROOF
  <1>1. HandlerInv => CreationTypeOK
    BY DEF HandlerInv
  <1> QED BY <1>1, HandlerInvAlways, PTL

-----------------------------------------------------------------------------
(* Reservations, with any key store                                          *)

OwnsReservation == {r \in Keyed : phase[r] \in {"preparing", "completing", "undoing"}}

\* What a step of a request leaves of another's answer, and the steps that
\* write no record and move no request away from one.
LEMMA OwnerRemains ==
  ASSUME HandlerInv, ReservationHasOwner, record' = record, holder' = holder,
         NEW r \in Request,
         \A q \in Request \ {r} : phase'[q] = phase[q] /\ answer'[q] = answer[q],
         answer[r] = "none",
         r \in OwnsReservation => phase'[r] \in {"preparing", "completing", "undoing"}
  PROVE  ReservationHasOwner'
PROOF
  BY CreationAssumption DEF ReservationHasOwner, Reserved, OwnsReservation

\* No step breaks that a reservation has its owner.
LEMMA OwnerStep ==
  HandlerInv /\ ReservationHasOwner /\ [CreationNext]_creationVars => ReservationHasOwner'
PROOF
  <1> SUFFICES ASSUME HandlerInv, ReservationHasOwner, [CreationNext]_creationVars
               PROVE  ReservationHasOwner'
    OBVIOUS
  <1> USE CreationAssumption DEF HandlerInv
  <1>2. ASSUME NEW r \in Request, Arrive(r) \/ FirstUse(r)
        PROVE  ReservationHasOwner'
    <2>1. /\ record' = record /\ holder' = holder /\ phase[r] \in {"idle", "found"}
          /\ \A q \in Request \ {r} : phase'[q] = phase[q] /\ answer'[q] = answer[q]
      BY <1>2, CapacityOutcome DEF Arrive, FirstUse, To, CreationTypeOK
    <2> QED BY <2>1, OwnerRemains DEF OwnsReservation
  <1>3. ASSUME NEW r \in Request, Lookup(r) \/ Reused(r) \/ Load(r) \/ VerifyHuman(r)
        PROVE  ReservationHasOwner'
    <2>1. /\ record' = record /\ holder' = holder
          /\ phase[r] \in {"lookup", "found", "loading", "turnstile"}
          /\ \A q \in Request \ {r} : phase'[q] = phase[q] /\ answer'[q] = answer[q]
      BY <1>3 DEF Lookup, Reused, RefuseWhileInProgress, Load, Replay, VerifyHuman, Reply, To,
                  CreationTypeOK
    <2> QED BY <2>1, OwnerRemains DEF OwnsReservation
  <1>4. ASSUME NEW r \in Request, Reserve(r)
        PROVE  ReservationHasOwner'
    <2>1. r \in Keyed /\ holder' = r /\ phase'[r] = "preparing"
      BY <1>4 DEF Reserve, To, CreationTypeOK
    <2> QED BY <2>1 DEF ReservationHasOwner
  <1>5. ASSUME NEW r \in Request, PrepareFails(r) \/ EnqueueAnalysis(r)
        PROVE  ReservationHasOwner'
    <2>1. /\ record' = record /\ holder' = holder /\ phase[r] = "preparing"
          /\ r \in Keyed => phase'[r] \in {"undoing", "completing"}
          /\ \A q \in Request \ {r} : phase'[q] = phase[q] /\ answer'[q] = answer[q]
      BY <1>5 DEF PrepareFails, EnqueueAnalysis, Reply, To, CreationTypeOK
    <2> QED BY <2>1, OwnerRemains DEF OwnsReservation
  <1>6. ASSUME NEW r \in Request, StoreRejects(r)
        PROVE  ReservationHasOwner'
    <2>1. /\ record' = record /\ holder' = holder
          /\ \/ phase[r] \in {"lookup", "releasing", "reserving"}
             \/ phase[r] = "completing" /\ phase'[r] = "undoing"
          /\ \A q \in Request \ {r} : phase'[q] = phase[q] /\ answer'[q] = answer[q]
      BY <1>6 DEF StoreRejects, Reply, To, CreationTypeOK
    <2> QED BY <2>1, OwnerRemains DEF OwnsReservation
  <1>7. ASSUME NEW r \in Request, CompleteKey(r)
        PROVE  ReservationHasOwner'
    <2>1. record' = NoRecord \/ record'.job = r
      BY <1>7 DEF CompleteKey, FillKey, CreationTypeOK, KeyRecord
    <2>2. r # NoRequest
      OBVIOUS
    <2> QED BY <2>1, <2>2 DEF ReservationHasOwner, Reserved
  <1>8. ASSUME NEW r \in Request, ReleaseStale(r) \/ Undo(r)
        PROVE  ReservationHasOwner'
    BY <1>8 DEF ReleaseStale, Undo, ReleaseKey, ReservationHasOwner, Reserved
  <1>9. ASSUME NEW r \in Request, UndoFails(r)
        PROVE  ReservationHasOwner'
    <2>1. /\ record' = record /\ holder' = holder
          /\ answer'[r] = "unreleased"
          /\ \A q \in Request \ {r} : phase'[q] = phase[q] /\ answer'[q] = answer[q]
      BY <1>9 DEF UndoFails, Reply, To, CreationTypeOK
    <2> QED BY <2>1 DEF ReservationHasOwner, Reserved
  <1>10. ASSUME NEW r \in Request, AnalysisEnds(r) \/ AnalysisForgotten(r) \/ Restored(r)
         PROVE  ReservationHasOwner'
    BY <1>10 DEF AnalysisEnds, AnalysisForgotten, Restored, ReservationHasOwner, Reserved
  <1>11. CASE KeyExpires
    BY <1>11 DEF KeyExpires, ReservationHasOwner, Reserved
  <1>12. CASE UNCHANGED creationVars
    BY <1>12 DEF creationVars, ReservationHasOwner, Reserved
  <1>13. CASE Die
    <2>1. record' \in {record, NoRecord} /\ holder' = holder
      BY <1>13, DeathOutcome
    <2>2. \A r \in Request :
            \/ phase[r] \in {"idle", "done"} /\ phase'[r] = phase[r] /\ answer'[r] = answer[r]
            \/ phase[r] \notin {"idle", "done"} /\ answer'[r] = "lost"
      BY <1>13, DeathOutcome
    <2> QED BY <2>1, <2>2 DEF ReservationHasOwner, Reserved
  <1> QED
    BY <1>2, <1>3, <1>4, <1>5, <1>6, <1>7, <1>8, <1>9, <1>10, <1>11, <1>12, <1>13 DEF CreationNext

\* A reservation that leads to no analysis is that of a request under way, or
\* of the very request whose release was refused or whose process died: in
\* memory or in Postgres, with or without the human check, whichever calls of
\* the store fail and however often the process dies.
THEOREM ReservationsHaveOwners == CreationSpec => []ReservationHasOwner
PROOF
  <1>1. CreationInit => ReservationHasOwner
    BY DEF CreationInit, ReservationHasOwner, Reserved
  <1> QED BY <1>1, HandlerInvAlways, OwnerStep, PTL DEF CreationSpec

-----------------------------------------------------------------------------
(* One analysis for a key, with the store of one process                     *)

\* The store in memory never rejects, and without the human check nothing else
\* is awaited between the lookup of a key and its reservation.
KeysInMemory == ~SharedStore /\ ~Turnstile /\ "complete" \notin FailingCalls

HoldsDead(rec) == rec.job # NoRequest /\ ~InMemory(rec.job)

\* No two requests are between the lookup and the reservation at once, so a
\* lookup is still true when it is acted on.
LookupInv ==
  /\ \A r, q \in Request : phase[r] \in Microtask /\ phase[q] \in Microtask => r = q
  /\ \A r \in Request :
       /\ phase[r] # "turnstile"
       /\ phase[r] \in {"found", "loading", "releasing"} => seen[r] = record
       /\ phase[r] = "reserving" => record = NoRecord
       /\ phase[r] \in {"loading", "releasing"} =>
            record # NoRecord /\ record.fingerprint = BodyOf[r] /\ HoldsDead(record)

\* The key is held by the one request that builds an analysis for it, or leads
\* to the analysis that request built, and to no other that lives; no row is
\* there to restore another from.
KeyInv ==
  /\ \A r, q \in OwnsReservation : r = q
  /\ \A r \in OwnsReservation :
       record # NoRecord /\ record.fingerprint = BodyOf[r] /\ record.job = NoRequest
  /\ \A r \in Keyed : analysis[r] = "live" =>
       phase[r] = "completing" \/ (record # NoRecord /\ record.job = r)
  /\ record # NoRecord /\ record.job # NoRequest => record.fingerprint = BodyOf[record.job]
  /\ \A r \in Request : analysis[r] # "stored"

OneKeyInv == LookupInv /\ KeyInv /\ ReplayMatchesBody

\* Holds at first: what the key is held for.
LEMMA OneKeyInvInit == CreationInit => OneKeyInv
PROOF
  BY CreationAssumption
  DEF CreationInit, OneKeyInv, LookupInv, KeyInv, ReplayMatchesBody, OwnsReservation, Microtask

\* No step breaks what the key is held for.
LEMMA OneKeyInvStep ==
  ASSUME KeysInMemory, HandlerInv, OneKeyInv, [CreationNext]_creationVars
  PROVE  OneKeyInv'
PROOF
  <1> USE CreationAssumption DEF OneKeyInv, LookupInv, KeyInv, ReplayMatchesBody, OwnsReservation,
          Microtask, HandlerInv, HoldsDead, InMemory
  <1>0. \A r \in Request : MayRun(r) => \A q \in Request \ {r} : phase[q] \notin Microtask
    BY DEF MayRun, KeysInMemory
  <1>1. ASSUME NEW r \in Request, Arrive(r)
        PROVE  OneKeyInv'
    BY <1>1, <1>0, CapacityOutcome DEF Arrive, To, KeysInMemory, CreationTypeOK
  <1>2. ASSUME NEW r \in Request, Lookup(r)
        PROVE  OneKeyInv'
    BY <1>2, <1>0 DEF Lookup, To, CreationTypeOK
  <1>3. ASSUME NEW r \in Request, FirstUse(r)
        PROVE  OneKeyInv'
    BY <1>3, <1>0, CapacityOutcome DEF FirstUse, KeysInMemory, CreationTypeOK
  <1>4. ASSUME NEW r \in Request, Reused(r)
        PROVE  OneKeyInv'
    BY <1>4, <1>0 DEF Reused, SameBody, RefuseWhileInProgress, Replay, Reply, To, KeyRecord, CreationTypeOK
  <1>5. ASSUME NEW r \in Request, Load(r)
        PROVE  OneKeyInv'
    BY <1>5, <1>0 DEF Load, Replay, Reply, To, KeyRecord, CreationTypeOK
  <1>6. ASSUME NEW r \in Request, ReleaseStale(r)
        PROVE  OneKeyInv'
    BY <1>6, <1>0, CapacityOutcome DEF ReleaseStale, KeysInMemory, CreationTypeOK
  <1>7. ASSUME NEW r \in Request, VerifyHuman(r)
        PROVE  OneKeyInv'
    BY <1>7, <1>0 DEF VerifyHuman, Reply, To, KeysInMemory, CreationTypeOK
  <1>8. ASSUME NEW r \in Request, Reserve(r)
        PROVE  OneKeyInv'
    BY <1>8, <1>0 DEF Reserve, ReserveKey, To, KeyRecord, CreationTypeOK
  <1>9. ASSUME NEW r \in Request, PrepareFails(r)
        PROVE  OneKeyInv'
    BY <1>9, <1>0 DEF PrepareFails, Reply, To, CreationTypeOK
  <1>10. ASSUME NEW r \in Request, EnqueueAnalysis(r)
        PROVE  OneKeyInv'
    BY <1>10, <1>0 DEF EnqueueAnalysis, Reply, To, CreationTypeOK
  <1>11. ASSUME NEW r \in Request, CompleteKey(r)
        PROVE  OneKeyInv'
    BY <1>11, <1>0 DEF CompleteKey, FillKey, Reply, To, KeyRecord, CreationTypeOK
  <1>12. ASSUME NEW r \in Request, StoreRejects(r)
        PROVE  OneKeyInv'
    BY <1>12, <1>0 DEF StoreRejects, KeysInMemory, Reply, To, CreationTypeOK
  <1>13. ASSUME NEW r \in Request, Undo(r)
        PROVE  OneKeyInv'
    BY <1>13, <1>0 DEF Undo, ReleaseKey, Reply, To, CreationTypeOK
  <1>14. ASSUME NEW r \in Request, UndoFails(r)
        PROVE  OneKeyInv'
    BY <1>14, <1>0 DEF UndoFails, Reply, To, CreationTypeOK
  <1>15. ASSUME NEW r \in Request, AnalysisEnds(r) \/ AnalysisForgotten(r)
        PROVE  OneKeyInv'
    BY <1>15 DEF AnalysisEnds, AnalysisForgotten, KeyRecord, CreationTypeOK
  <1>16. CASE KeyExpires
    BY <1>16 DEF KeyExpires
  <1>17. CASE UNCHANGED creationVars
    BY <1>17 DEF creationVars
  <1>18. CASE Die
    <2>1. /\ record' = NoRecord /\ UNCHANGED replayed
          /\ \A r \in Request : /\ phase'[r] \in {"idle", "done"}
                               /\ analysis'[r] \in {"none", "forgotten"}
      BY <1>18, DeathOutcome DEF KeysInMemory
    <2> QED BY <2>1
  <1>19. ASSUME NEW r \in Request, Restored(r)
        PROVE  OneKeyInv'
    BY <1>19 DEF Restored
  <1> QED
    BY <1>1, <1>2, <1>3, <1>4, <1>5, <1>6, <1>7, <1>8, <1>9, <1>10, <1>11, <1>12, <1>13, <1>14,
       <1>15, <1>16, <1>17, <1>18, <1>19 DEF CreationNext

\* Holds in every state: what the key is held for.
LEMMA OneKeyInvAlways ==
  ASSUME KeysInMemory
  PROVE  CreationSpec => []OneKeyInv
PROOF
  <1>1. HandlerInv /\ OneKeyInv /\ [CreationNext]_creationVars => OneKeyInv'
    BY OneKeyInvStep
  <1> QED BY <1>1, HandlerInvAlways, OneKeyInvInit, PTL DEF CreationSpec

\* Repeating a request with its key never puts a second analysis beside the
\* first, for any number of requests at once.
THEOREM OneAnalysisPerKey ==
  ASSUME KeysInMemory
  PROVE  CreationSpec => []OneLiveAnalysisPerKey
PROOF
  <1>1. ASSUME HandlerInv, OneKeyInv
        PROVE  OneLiveAnalysisPerKey
    <2>1. \A r, q \in Keyed \cap LiveAnalyses : r = q
      BY <1>1, CreationAssumption DEF OneKeyInv, KeyInv, OwnsReservation, LiveAnalyses
    <2>2. CASE Keyed \cap LiveAnalyses = {}
      BY <2>2, FS_EmptySet DEF OneLiveAnalysisPerKey
    <2>3. CASE Keyed \cap LiveAnalyses # {}
      <3>1. PICK r : Keyed \cap LiveAnalyses = {r}
        BY <2>1, <2>3
      <3> QED BY <3>1, FS_Singleton DEF OneLiveAnalysisPerKey
    <2> QED BY <2>2, <2>3
  <1> QED BY <1>1, HandlerInvAlways, OneKeyInvAlways, PTL

\* A replay describes the analysis of the very body that was sent.
THEOREM ReplaysMatch ==
  ASSUME KeysInMemory
  PROVE  CreationSpec => []ReplayMatchesBody
PROOF
  <1>1. OneKeyInv => ReplayMatchesBody
    BY DEF OneKeyInv
  <1> QED BY <1>1, OneKeyInvAlways, PTL

\* A client told 202 finds its analysis again by its key while it lives,
\* whatever other requests with the key did since.
THEOREM CreatedStaysReplayable ==
  ASSUME KeysInMemory
  PROVE  CreationSpec => []CreatedIsReplayable
PROOF
  <1>1. HandlerInv /\ OneKeyInv => CreatedIsReplayable
    BY CreationAssumption DEF HandlerInv, OneKeyInv, KeyInv, CreatedIsReplayable
  <1> QED BY <1>1, HandlerInvAlways, OneKeyInvAlways, PTL

=============================================================================

--------------------------- MODULE ScanStoreProofs ---------------------------
(* What TLAPS proves of ScanStore for every number of analyses, crashes and  *)
(* deletions of the history: types and slots whatever the table does and     *)
(* whenever requests arrive; where no request arrives before recovery ended, *)
(* that an analysis runs once, no deletion reaches a live one and, if the    *)
(* updates of an object keep their order, a row that ended stays so; and,    *)
(* where updates are neither lost nor overtaken, that nobody's row is left   *)
(* live.                                                                     *)
EXTENDS ScanStore, ScanQueueProofs

-----------------------------------------------------------------------------
(* What the steps of the queue do to the rest                                *)

\* Only waiting and running analyses change state, to one that is sent to the
\* table; a timer is armed for what ended; a map entry goes only by a timer.
LEMMA QueueEffects ==
  ASSUME SlotInv, Loop \/ \E o \in Job : JobStep(o)
  PROVE  /\ \A o \in Job : status'[o] # status[o] =>
              /\ status[o] \in Live
              /\ status'[o] \in {"running", "completed", "failed", "cancelled"}
              /\ status'[o] = "running" => status[o] = "queued" /\ \E id \in Id : jobs[id] = o
         /\ \A o \in expiring' : o \in expiring \/ Terminal(o)'
         /\ \A id \in Id : jobs'[id] = jobs[id]
                           \/ (jobs'[id] = NoJob /\ \E o \in expiring : IdOf[o] = id)
PROOF
  <1>1. CASE LoopEnds
    BY <1>1 DEF LoopEnds
  <1>2. CASE StartNext
    <2>1. PICK i \in DOMAIN pending :
            /\ Waiting(pending[i])
            /\ status' = [status EXCEPT ![jobs[pending[i]]] = "running"]
      BY <1>2 DEF StartNext, FirstWaiting
    <2>2. pending[i] \in Id
      BY <2>1, LenProperties, ElementOfSeq DEF SlotInv, TypeOK
    <2>3. jobs[pending[i]] \in Job /\ status[jobs[pending[i]]] = "queued"
      BY <2>1, <2>2 DEF Waiting, SlotInv, TypeOK
    <2> QED BY <1>2, <2>1, <2>2, <2>3 DEF StartNext, Live, SlotInv, TypeOK
  <1>3. ASSUME NEW o \in Job,
               KeyCompleted(o) \/ KeyFailed(o) \/ BaselineLookedUp(o) \/ Advance(o)
               \/ Deadline(o) \/ CancelRunning(o)
        PROVE  UNCHANGED <<status, expiring, jobs>>
    BY <1>3 DEF KeyCompleted, KeyFailed, BaselineLookedUp, Advance, Deadline, CancelRunning, queueVars
  <1>4. ASSUME NEW o \in Job, NEW outcome \in {"completed", "failed", "cancelled"},
               status[o] \in Live, status' = [status EXCEPT ![o] = outcome],
               expiring' = expiring \cup {o}, jobs' = jobs
        PROVE  /\ \A p \in Job : status'[p] # status[p] => p = o
               /\ status'[o] = outcome /\ Terminal(o)'
               /\ \A p \in expiring' : p \in expiring \/ p = o
    BY <1>4, StatusValues DEF SlotInv, TypeOK, Terminal
  <1>5. ASSUME NEW o \in Job, Complete(o) \/ Throw(o)
        PROVE  /\ status[o] \in Live /\ expiring' = expiring \cup {o} /\ jobs' = jobs
               /\ \E outcome \in {"completed", "failed", "cancelled"} :
                    status' = [status EXCEPT ![o] = outcome]
    <2>1. step[o] \in InFlightStep
      BY <1>5 DEF Complete, Throw, InFlightStep
    <2>2. status[o] = "running"
      BY <2>1, InFlightOccupiesSlot
    <2> QED BY <1>5, <2>2 DEF Complete, Throw, Settle, ArmExpiry, Live
  <1>6. ASSUME NEW o \in Job, CancelQueued(o)
        PROVE  /\ status[o] \in Live /\ expiring' = expiring \cup {o} /\ jobs' = jobs
               /\ status' = [status EXCEPT ![o] = "cancelled"]
    BY <1>6 DEF CancelQueued, RemoveQueued, ArmExpiry, Live
  <1>7. ASSUME NEW o \in Job, Expire(o)
        PROVE  /\ UNCHANGED status /\ expiring' \subseteq expiring /\ o \in expiring
               /\ jobs' = [jobs EXCEPT ![IdOf[o]] = NoJob]
    BY <1>7 DEF Expire
  <1>8. ASSUME NEW o \in Job, Expire(o)
        PROVE  \A id \in Id : jobs'[id] = jobs[id]
                              \/ (jobs'[id] = NoJob /\ \E p \in expiring : IdOf[p] = id)
    BY <1>7, <1>8 DEF SlotInv, TypeOK
  <1> QED
    BY <1>1, <1>2, <1>3, <1>4, <1>5, <1>6, <1>7, <1>8 DEF Loop, JobStep

-----------------------------------------------------------------------------
(* Types and slots, whatever the table does                                  *)

Used(o) == o \in inserted \/ status[o] # "unborn"

\* Which ids were given out, and to how many objects: until recovery ended at
\* most one object of an id is in use, which leaves one for recovery to build.
IdInv ==
  /\ \A o \in inserted : status[o] = "unborn"
  /\ \A o \in Job : Used(o) => IdOf[o] \in issued
  /\ \A id \in Id : row[id] # "none" => id \in issued
  /\ wiped \subseteq issued
  /\ \A i \in DOMAIN restored : restored[i] \in issued
  /\ recovery # "ready" =>
       \A o, p \in Job : Used(o) /\ Used(p) /\ IdOf[o] = IdOf[p] => o = p
  /\ \A w \in writes : status[w.job] \notin {"unborn", "queued"}

StoreInv == StoreTypeOK /\ SlotAccounting /\ IdInv

\* Ids are as finite as the objects that carry them.
LEMMA IdFinite == IsFiniteSet(Id)
PROOF
  <1>1. IdOf \in Surjection(Job, Id)
    BY JobAssumption, ObjectAssumption DEF Surjection
  <1> QED BY <1>1, JobAssumption, FS_Surjection

\* The objects recovery builds: of the id asked for, and not in use.
LEMMA FreshObject ==
  ASSUME StoreInv, recovery # "ready", NEW id \in Id
  PROVE  /\ FreshFor(id) \in Job /\ IdOf[FreshFor(id)] = id
         /\ status[FreshFor(id)] = "unborn" /\ FreshFor(id) \notin inserted
PROOF
  <1>1. \E o \in Job : IdOf[o] = id /\ status[o] = "unborn" /\ o \notin inserted
    BY ObjectAssumption DEF StoreInv, IdInv, Used
  <1> QED BY <1>1 DEF FreshFor

\* Types, slots and the ids given out hold at first.
LEMMA StoreInvInit == StoreInit => StoreInv
PROOF
  <1> SUFFICES ASSUME StoreInit
               PROVE  StoreInv
    OBVIOUS
  <1>1. SlotInv
    BY SlotInvInit DEF StoreInit
  <1>2. StoreTypeOK
    BY <1>1, EmptySeq, StoreAssumption, StatusValues
    DEF StoreInit, StoreTypeOK, SlotInv, RowStatus
  <1>3. IdInv
    BY DEF StoreInit, Init, IdInv, Used
  <1> QED BY <1>1, <1>2, <1>3 DEF StoreInv, SlotInv

\* A step of the queue keeps the types of the table as well.
LEMMA QueueStepKeepsTypes ==
  ASSUME StoreInv, QueueStep
  PROVE  StoreInv'
PROOF
  <1> USE DEF StoreInv
  <1>1. SlotInv /\ Next
    BY DEF StoreTypeOK, SlotInv, QueueStep, Next
  <1>2. SlotInv'
    BY <1>1, SlotInvStep
  <1>3. /\ \A o \in Job : status'[o] # status[o] =>
              /\ status[o] \in Live
              /\ status'[o] \in {"running", "completed", "failed", "cancelled"}
    BY <1>1, QueueEffects DEF QueueStep
  <1>4. /\ writes' = writes \cup {[job |-> o, status |-> status'[o]] : o \in {p \in Job : status'[p] # status[p]}}
        /\ UNCHANGED <<row, inserted, recovery, orphans, restored, overlooked, wipe, wiped, wipes, issued, crashes>>
    BY DEF QueueStep, Send, recoveryVars, wipeVars
  <1>5. StoreTypeOK'
    <2>1. writes' \in SUBSET [job : Job, status : JobStatus \ {"queued"}]
      BY <1>3, <1>4, StatusValues DEF StoreTypeOK
    <2> QED BY <1>2, <1>4, <2>1 DEF StoreTypeOK, SlotInv
  <1>6. \A o \in Job : status'[o] = "unborn" <=> status[o] = "unborn"
    BY <1>3 DEF Live
  <1>7. \A w \in writes' : status'[w.job] \notin {"unborn", "queued"}
    BY <1>3, <1>4 DEF IdInv, StoreTypeOK
  <1>8. IdInv'
    BY <1>4, <1>6, <1>7 DEF IdInv, Used, StoreTypeOK
  <1> QED BY <1>2, <1>5, <1>8 DEF SlotInv

\* A row inserted has an id that was not given out.
LEMMA InsertKeepsTypes ==
  ASSUME StoreInv, NEW o \in Job, InsertRow(o)
  PROVE  StoreInv'
PROOF
  <1> USE JobAssumption DEF StoreInv
  <1>1. /\ IdOf[o] \in Id /\ IdOf[o] \notin issued /\ issued' = issued \cup {IdOf[o]}
        /\ row' = [row EXCEPT ![IdOf[o]] = "queued"]
        /\ inserted' = inserted \cup {o} /\ dirs' = dirs \cup {IdOf[o]}
        /\ UNCHANGED <<queueVars, cancelRequested, aborted, step, deadlines, expiring,
                       posting, turn, writes, recoveryVars, wipeVars, crashes>>
    BY DEF InsertRow
  <1>2. StoreTypeOK'
    BY <1>1, StatusValues DEF StoreTypeOK, TypeOK, RowStatus, queueVars, recoveryVars, wipeVars
  <1>3. SlotAccounting'
    BY <1>1 DEF SlotAccounting, Running, InFlight, queueVars
  <1>4. IdInv'
    BY <1>1 DEF IdInv, Used, StoreTypeOK, queueVars, recoveryVars, wipeVars
  <1> QED BY <1>2, <1>3, <1>4

\* What is admitted has a row and an object that was not used.
LEMMA AdmitKeepsTypes ==
  ASSUME StoreInv, NEW o \in Job, AdmitInserted(o)
  PROVE  StoreInv'
PROOF
  <1> USE DEF StoreInv
  <1>1. /\ o \in inserted /\ inserted' = inserted \ {o} /\ Admit(o) /\ dirs' = dirs
        /\ UNCHANGED <<row, writes, recoveryVars, wipeVars, issued, crashes>>
    BY DEF AdmitInserted
  <1>2. status[o] = "unborn" /\ status' = [status EXCEPT ![o] = "queued"]
    BY <1>1 DEF IdInv, Admit, Enqueue
  <1>3. SlotInv'
    BY <1>1, <1>2, AdmitKeepsSlots DEF StoreTypeOK, SlotInv, TypeOK
  <1>4. StoreTypeOK'
    BY <1>1, <1>3 DEF StoreTypeOK, SlotInv, recoveryVars, wipeVars
  <1>5. IdInv'
    BY <1>1, <1>2 DEF IdInv, Used, StoreTypeOK, TypeOK, recoveryVars, wipeVars
  <1> QED BY <1>3, <1>4, <1>5 DEF SlotInv

\* Recovery puts what it restored behind what already waits.
LEMMA RestoreKeepsTypes ==
  ASSUME StoreInv, EnqueueRestored
  PROVE  StoreInv'
PROOF
  <1> USE DEF StoreInv
  <1> DEFINE ids == ToSet(restored)
             fresh == {FreshFor(id) : id \in ids}
  <1>1. ids \subseteq Id /\ recovery = "enqueue"
    BY LenProperties, ElementOfSeq DEF ToSet, StoreTypeOK, EnqueueRestored
  <1>2. \A id \in ids : /\ FreshFor(id) \in Job /\ IdOf[FreshFor(id)] = id
                        /\ status[FreshFor(id)] = "unborn" /\ FreshFor(id) \notin inserted
    BY <1>1, FreshObject
  <1>3. /\ jobs' = [id \in Id |-> IF id \in ids THEN FreshFor(id) ELSE jobs[id]]
        /\ status' = [p \in Job |-> IF p \in fresh THEN "queued" ELSE status[p]]
        /\ pending' = pending \o restored
        /\ turn' \in {turn, "schedule"} /\ recovery' = "ready" /\ restored' = <<>>
        /\ UNCHANGED <<active, cancelRequested, aborted, step, deadlines, expiring, dirs,
                       posting, row, inserted, writes, orphans, overlooked, wipeVars, issued, crashes>>
    BY DEF EnqueueRestored, RestoreAndSchedule
  <1> HIDE DEF ids, fresh
  <1>4. \A p \in fresh : p \in Job /\ status[p] = "unborn" /\ p \notin inserted
    BY <1>2 DEF fresh
  <1>5. TypeOK'
    <2>1. pending' \in Seq(Id)
      BY <1>3, ConcatProperties DEF StoreTypeOK, TypeOK
    <2>2. jobs' \in [Id -> Job \cup {NoJob}]
      BY <1>2, <1>3 DEF StoreTypeOK, TypeOK
    <2>3. status' \in [Job -> JobStatus \cup {"unborn"}]
      BY <1>3, StatusValues DEF StoreTypeOK, TypeOK
    <2> QED BY <1>3, <2>1, <2>2, <2>3 DEF StoreTypeOK, TypeOK
  <1>6. StoreTypeOK'
    BY <1>3, <1>5, EmptySeq DEF StoreTypeOK, wipeVars
  <1>7. SlotAccounting'
    <2>1. Running' = Running /\ InFlight' = InFlight
      BY <1>3, <1>4 DEF Running, InFlight, StoreTypeOK, TypeOK
    <2> QED BY <1>3, <2>1 DEF SlotAccounting
  <1>8. \A p \in fresh : IdOf[p] \in issued
    BY <1>1, <1>2 DEF fresh, ids, ToSet, IdInv
  <1>9. IdInv'
    <2>1. \A p \in inserted' : status'[p] = "unborn"
      BY <1>3, <1>4 DEF IdInv, StoreTypeOK
    <2>2. \A p \in Job : Used(p)' => IdOf[p] \in issued'
      BY <1>3, <1>8 DEF IdInv, Used
    <2>3. \A w \in writes' : status'[w.job] \notin {"unborn", "queued"}
      BY <1>3, <1>4 DEF IdInv, StoreTypeOK
    <2> QED BY <1>3, <2>1, <2>2, <2>3 DEF IdInv, wipeVars
  <1> QED BY <1>6, <1>7, <1>9

\* A crash empties the memory and gives all slots back.
LEMMA CrashKeepsTypes ==
  ASSUME StoreInv, Crash
  PROVE  StoreInv'
PROOF
  <1> USE DEF StoreInv
  <1>1. SlotInv'
    <2>1. TypeOK'
      BY EmptySeq DEF Crash, StoreTypeOK, TypeOK, AbortReason, Step
    <2>2. Running' = {} /\ InFlight' = {}
      BY DEF Crash, Running, InFlight, InFlightStep
    <2>3. SlotAccounting'
      BY <2>2, FS_EmptySet, ConcurrencyAssumption DEF SlotAccounting, Crash
    <2> QED BY <2>1, <2>3 DEF SlotInv
  <1>2. StoreTypeOK'
    BY <1>1, EmptySeq, StoreAssumption DEF Crash, StoreTypeOK, SlotInv
  <1>3. IdInv'
    BY DEF Crash, IdInv, Used
  <1> QED BY <1>1, <1>2, <1>3 DEF SlotInv

\* Steps of the table and of the deletion, which leave the queue alone.
LEMMA TableKeepsTypes ==
  ASSUME StoreInv, UNCHANGED <<pending, active, status, cancelRequested, aborted, step,
                               deadlines, expiring, posting, turn, inserted, issued, crashes>>,
         jobs' \in [Id -> Job \cup {NoJob}], dirs' \subseteq dirs,
         row' \in [Id -> RowStatus], \A id \in Id : row'[id] # "none" => row[id] # "none",
         writes' \subseteq writes, recovery' \in {"close", "enqueue", recovery},
         recovery' = "ready" <=> recovery = "ready",
         orphans' \in SUBSET Id, restored' \in Seq(Id), overlooked' \in SUBSET Id,
         \A i \in DOMAIN restored' : restored'[i] \in issued,
         wipe' \in {"off", "listed", "deleted"}, wiped' \in SUBSET Id, wiped' \subseteq issued,
         wipes' \in 0..MaxWipes
  PROVE  StoreInv'
PROOF
  <1>1. StoreTypeOK'
    BY DEF StoreInv, StoreTypeOK, TypeOK
  <1>2. SlotAccounting'
    BY DEF StoreInv, SlotAccounting, Running, InFlight
  <1>3. IdInv'
    BY DEF StoreInv, IdInv, Used
  <1> QED BY <1>1, <1>2, <1>3 DEF StoreInv

\* An update that lands or is lost keeps the types.
LEMMA UpdateKeepsTypes ==
  ASSUME StoreInv, NEW w \in writes, UpdateLands(w) \/ UpdateLost(w)
  PROVE  StoreInv'
PROOF
  <1>1. w.job \in Job /\ IdOf[w.job] \in Id /\ w.status \in JobStatus
    BY JobAssumption DEF StoreInv, StoreTypeOK
  <1>2. /\ writes' \subseteq writes
        /\ \/ row' = row
           \/ row' = [row EXCEPT ![IdOf[w.job]] = IF @ = "none" THEN "none" ELSE w.status]
        /\ UNCHANGED <<vars, inserted, recoveryVars, wipeVars, issued, crashes>>
    BY DEF UpdateLands, UpdateLost
  <1>3. row' \in [Id -> RowStatus] /\ \A id \in Id : row'[id] # "none" => row[id] # "none"
    BY <1>1, <1>2 DEF StoreInv, StoreTypeOK, RowStatus
  <1> QED
    BY <1>2, <1>3, TableKeepsTypes
    DEF vars, queueVars, recoveryVars, wipeVars, StoreInv, StoreTypeOK, TypeOK, IdInv

\* Recovery reads and closes rows, and builds no more objects than there are.
LEMMA RecoveryKeepsTypes ==
  ASSUME StoreInv, ReadRunning \/ ReadQueued \/ \E id \in Id : CloseOrphan(id) \/ CloseFails(id)
  PROVE  StoreInv'
PROOF
  <1> USE DEF vars, queueVars, recoveryVars, wipeVars, StoreInv, StoreTypeOK, TypeOK, IdInv
  <1>1. CASE ReadRunning
    BY <1>1, TableKeepsTypes DEF ReadRunning, RunningRows
  <1>2. CASE ReadQueued
    <2>9. overlooked' \in SUBSET Id
      BY <1>2 DEF ReadQueued, QueuedRows
    <2>10. CASE restored' = <<>>
      <3>1. restored' \in Seq(Id) /\ DOMAIN restored' = {}
        BY <2>10, EmptySeq
      <3> QED BY <1>2, <2>9, <3>1, TableKeepsTypes DEF ReadQueued
    <2> SUFFICES ASSUME \E order \in SetToSeqs(QueuedRows) : restored' = order
                 PROVE  StoreInv'
      BY <1>2, <2>10 DEF ReadQueued
    <2>1. PICK order \in SetToSeqs(QueuedRows) : restored' = order
      OBVIOUS
    <2>2. QueuedRows \subseteq Id /\ Cardinality(QueuedRows) \in Nat
      BY IdFinite, FS_Subset, FS_CardinalityType DEF QueuedRows
    <2>3. order \in [1..Cardinality(QueuedRows) -> QueuedRows]
      BY <2>1 DEF SetToSeqs
    <2>4. order \in Seq(Id) /\ \A i \in DOMAIN order : order[i] \in QueuedRows
      <3> HIDE DEF StoreInv
      <3>1. PICK n \in Nat : n = Cardinality(QueuedRows)
        BY <2>2
      <3>2. order \in [1..n -> Id] /\ \A i \in DOMAIN order : order[i] \in QueuedRows
        BY <2>2, <2>3, <3>1
      <3> QED BY <3>2
    <2>5. \A i \in DOMAIN restored' : restored'[i] \in issued
      BY <2>1, <2>4 DEF QueuedRows
    <2> QED BY <1>2, <2>1, <2>4, <2>5, <2>9, TableKeepsTypes DEF ReadQueued
  <1>3. ASSUME NEW id \in Id, CloseOrphan(id) \/ CloseFails(id)
        PROVE  StoreInv'
    <2>1. row' \in [Id -> RowStatus] /\ \A i \in Id : row'[i] # "none" => row[i] # "none"
      BY <1>3, StatusValues DEF CloseOrphan, CloseFails, CloseRow, LeaveOpen, RowStatus
    <2>2. orphans' \in SUBSET Id /\ overlooked' \in SUBSET Id
      BY <1>3 DEF CloseOrphan, CloseFails
    <2>3. UNCHANGED <<vars, inserted, writes, recovery, restored, wipeVars, issued, crashes>>
      BY <1>3 DEF CloseOrphan, CloseFails
    <2> QED BY <2>1, <2>2, <2>3, TableKeepsTypes
  <1> QED BY <1>1, <1>2, <1>3

\* A deletion of the history only takes away.
LEMMA WipeKeepsTypes ==
  ASSUME StoreInv, ListHistory \/ DeleteRows \/ ClearWiped
  PROVE  StoreInv'
PROOF
  <1> USE DEF vars, queueVars, recoveryVars, wipeVars, StoreInv, StoreTypeOK, TypeOK, IdInv
  <1>1. CASE ListHistory
    <2>1. wiped' \subseteq Id /\ \A id \in wiped' : row[id] # "none"
      BY <1>1, StatusValues DEF ListHistory, ListEnded, RowEnded
    <2>2. wipes' \in 0..MaxWipes
      BY <1>1, StoreAssumption DEF ListHistory
    <2> QED BY <1>1, <2>1, <2>2, TableKeepsTypes DEF ListHistory
  <1>2. CASE DeleteRows
    <2>1. row' \in [Id -> RowStatus] /\ \A id \in Id : row'[id] = "none"
      BY <1>2 DEF DeleteRows, RowStatus
    <2> QED BY <1>2, <2>1, TableKeepsTypes DEF DeleteRows
  <1>3. CASE ClearWiped
    <2>1. jobs' \in [Id -> Job \cup {NoJob}]
      BY <1>3 DEF ClearWiped
    <2> QED BY <1>3, <2>1, TableKeepsTypes DEF ClearWiped
  <1> QED BY <1>1, <1>2, <1>3

\* No step breaks types, slots and the ids given out.
LEMMA StoreInvStep == StoreInv /\ [StoreNext]_storeVars => StoreInv'
PROOF
  <1> SUFFICES ASSUME StoreInv, [StoreNext]_storeVars
               PROVE  StoreInv'
    OBVIOUS
  <1>1. CASE UNCHANGED storeVars
    BY <1>1, TableKeepsTypes
    DEF storeVars, vars, queueVars, recoveryVars, wipeVars, StoreInv, StoreTypeOK, TypeOK, IdInv
  <1> QED
    BY <1>1, QueueStepKeepsTypes, InsertKeepsTypes, AdmitKeepsTypes, UpdateKeepsTypes,
       RecoveryKeepsTypes, RestoreKeepsTypes, WipeKeepsTypes, CrashKeepsTypes
    DEF StoreNext

\* Types, slots and the ids given out hold in every state.
LEMMA StoreInvAlways == StoreSpec => []StoreInv
PROOF
  BY StoreInvInit, StoreInvStep, PTL DEF StoreSpec

\* Every variable keeps to its range, across crashes, recoveries and deletions.
THEOREM StoreTypeCorrect == StoreSpec => []StoreTypeOK
PROOF
  <1>1. StoreInv => StoreTypeOK
    BY DEF StoreInv
  <1> QED BY <1>1, StoreInvAlways, PTL

\* Recovery, crashes and deletions never take a slot nor leave one taken, even
\* when requests arrive while recovery runs.
THEOREM StoreKeepsSlots == StoreSpec => []SlotAccounting
PROOF
  <1>1. StoreInv => SlotAccounting
    BY DEF StoreInv
  <1> QED BY <1>1, StoreInvAlways, PTL

-----------------------------------------------------------------------------
(* The map and the retention timers, whenever requests arrive                *)

\* What the map holds for an id is an object of that id that exists, and only
\* what ended has a retention timer.
MapInv == MapKnowsIds /\ ExpiringEnded

\* Holds at first: what the map holds.
LEMMA MapInvInit == StoreInit => MapInv
PROOF
  BY DEF StoreInit, Init, MapInv, MapKnowsIds, ExpiringEnded

\* A step of the queue leaves the map with objects of the right ids.
LEMMA QueueStepKeepsMap ==
  ASSUME StoreInv, MapInv, QueueStep
  PROVE  MapInv'
PROOF
  <1> USE DEF MapInv
  <1>1. /\ \A o \in Job : status'[o] # status[o] =>
              /\ status[o] \in Live
              /\ status'[o] \in {"running", "completed", "failed", "cancelled"}
        /\ \A o \in expiring' : o \in expiring \/ Terminal(o)'
        /\ \A id \in Id : jobs'[id] = jobs[id] \/ jobs'[id] = NoJob
    BY QueueEffects DEF QueueStep, StoreInv, StoreTypeOK, SlotInv
  <1>2. MapKnowsIds'
    <2> SUFFICES ASSUME NEW id \in Id, jobs'[id] # NoJob
                 PROVE  IdOf[jobs'[id]] = id /\ status'[jobs'[id]] # "unborn"
      BY DEF MapKnowsIds
    <2>1. jobs'[id] = jobs[id] /\ jobs[id] \in Job
      BY <1>1 DEF StoreInv, StoreTypeOK, TypeOK
    <2> QED BY <1>1, <2>1 DEF MapKnowsIds
  <1>3. ExpiringEnded'
    <2>1. \A o \in expiring : o \in Job /\ Terminal(o)
      BY DEF ExpiringEnded, StoreInv, StoreTypeOK, TypeOK
    <2>2. \A o \in expiring : Terminal(o)'
      BY <1>1, <2>1, StatusValues DEF Terminal, Live
    <2> QED BY <1>1, <2>2 DEF ExpiringEnded
  <1> QED BY <1>2, <1>3

\* What is admitted is in the map under its own id.
LEMMA AdmitKeepsMap ==
  ASSUME StoreInv, MapInv, NEW o \in Job, AdmitInserted(o)
  PROVE  MapInv'
PROOF
  <1> USE DEF MapInv
  <1>1. /\ status[o] = "unborn" /\ IdOf[o] \in Id /\ o # NoJob
        /\ status'[o] = "queued" /\ \A p \in Job \ {o} : status'[p] = status[p]
        /\ jobs'[IdOf[o]] = o /\ \A id \in Id \ {IdOf[o]} : jobs'[id] = jobs[id]
        /\ expiring' = expiring
    BY JobAssumption DEF AdmitInserted, Admit, Enqueue, StoreInv, StoreTypeOK, TypeOK, IdInv
  <1>2. MapKnowsIds'
    <2> SUFFICES ASSUME NEW id \in Id, id # IdOf[o], jobs'[id] # NoJob
                 PROVE  IdOf[jobs'[id]] = id /\ status'[jobs'[id]] # "unborn"
      BY <1>1 DEF MapKnowsIds
    <2>1. jobs[id] \in Job /\ IdOf[jobs[id]] = id /\ status[jobs[id]] # "unborn"
      BY <1>1 DEF StoreInv, StoreTypeOK, TypeOK, MapKnowsIds
    <2> QED BY <1>1, <2>1
  <1>3. ExpiringEnded'
    <2>1. \A p \in expiring : p \in Job /\ Terminal(p) /\ p # o
      BY <1>1, StatusValues DEF Terminal, ExpiringEnded, StoreInv, StoreTypeOK, TypeOK
    <2> QED BY <1>1, <2>1 DEF ExpiringEnded, Terminal
  <1> QED BY <1>2, <1>3

\* What recovery does to the objects: those it builds were not in use.
LEMMA RestoreEffects ==
  ASSUME StoreInv, EnqueueRestored
  PROVE  /\ recovery = "enqueue" /\ recovery' = "ready"
         /\ ToSet(restored) \subseteq Id
         /\ \A id \in ToSet(restored) :
              /\ jobs'[id] \in Job /\ IdOf[jobs'[id]] = id
              /\ status[jobs'[id]] = "unborn" /\ status'[jobs'[id]] = "queued"
         /\ \A id \in Id : id \in ToSet(restored) \/ jobs'[id] = jobs[id]
         /\ \A o \in Job : status'[o] = status[o] \/ (status[o] = "unborn" /\ status'[o] = "queued")
         /\ pending' = pending \o restored
         /\ UNCHANGED <<row, inserted, writes, orphans, expiring, wipe, wiped, issued>>
PROOF
  <1> DEFINE ids == ToSet(restored)
             fresh == {FreshFor(id) : id \in ids}
  <1>1. ids \subseteq Id /\ recovery = "enqueue"
    BY LenProperties, ElementOfSeq DEF ToSet, StoreInv, StoreTypeOK, EnqueueRestored
  <1>2. \A id \in ids : /\ FreshFor(id) \in Job /\ IdOf[FreshFor(id)] = id
                        /\ status[FreshFor(id)] = "unborn"
    BY <1>1, FreshObject
  <1>3. /\ jobs' = [id \in Id |-> IF id \in ids THEN FreshFor(id) ELSE jobs[id]]
        /\ status' = [p \in Job |-> IF p \in fresh THEN "queued" ELSE status[p]]
        /\ pending' = pending \o restored /\ recovery' = "ready"
        /\ UNCHANGED <<row, inserted, writes, orphans, expiring, wipe, wiped, issued>>
    BY DEF EnqueueRestored, wipeVars
  <1> HIDE DEF ids
  <1>4. \A id \in ids : jobs'[id] = FreshFor(id) /\ FreshFor(id) \in fresh
    BY <1>1, <1>3
  <1>5. \A p \in fresh : p \in Job /\ status[p] = "unborn"
    BY <1>2
  <1> HIDE DEF fresh
  <1> QED BY <1>1, <1>2, <1>3, <1>4, <1>5 DEF ids

\* No step breaks what the map holds.
LEMMA MapInvStep == StoreInv /\ MapInv /\ [StoreNext]_storeVars => MapInv'
PROOF
  <1> SUFFICES ASSUME StoreInv, MapInv, [StoreNext]_storeVars
               PROVE  MapInv'
    OBVIOUS
  <1>1. ASSUME UNCHANGED <<status, expiring>>,
               \A id \in Id : jobs'[id] \in {jobs[id], NoJob}
        PROVE  MapInv'
    BY <1>1 DEF MapInv, MapKnowsIds, ExpiringEnded, Terminal
  <1>2. CASE UNCHANGED vars
    BY <1>1, <1>2 DEF vars, queueVars
  <1>3. CASE (\E o \in Job : InsertRow(o)) \/ ClearWiped
    BY <1>1, <1>3 DEF InsertRow, ClearWiped, queueVars
  <1>4. CASE EnqueueRestored
    <2>1. MapKnowsIds'
      <3> SUFFICES ASSUME NEW id \in Id, jobs'[id] # NoJob
                   PROVE  IdOf[jobs'[id]] = id /\ status'[jobs'[id]] # "unborn"
        BY DEF MapKnowsIds
      <3>1. CASE id \in ToSet(restored)
        BY <1>4, <3>1, RestoreEffects
      <3>2. CASE jobs'[id] = jobs[id]
        BY <1>4, <3>2, RestoreEffects DEF MapInv, MapKnowsIds, StoreInv, StoreTypeOK, TypeOK
      <3> QED BY <1>4, <3>1, <3>2, RestoreEffects
    <2>2. ASSUME NEW o \in expiring
          PROVE  Terminal(o)'
      <3>1. o \in Job /\ Terminal(o)
        BY DEF MapInv, ExpiringEnded, StoreInv, StoreTypeOK, TypeOK
      <3>2. status'[o] = status[o]
        BY <1>4, <3>1, RestoreEffects, StatusValues DEF Terminal
      <3> QED BY <3>1, <3>2 DEF Terminal
    <2> QED BY <1>4, <2>1, <2>2, RestoreEffects DEF MapInv, ExpiringEnded
  <1>5. CASE Crash
    BY <1>5 DEF Crash, MapInv, MapKnowsIds, ExpiringEnded
  <1>6. CASE (\E w \in writes : UpdateLands(w) \/ UpdateLost(w)) \/ ReadRunning \/ ReadQueued
             \/ (\E id \in Id : CloseOrphan(id) \/ CloseFails(id)) \/ ListHistory \/ DeleteRows
             \/ UNCHANGED storeVars
    BY <1>2, <1>6
    DEF UpdateLands, UpdateLost, ReadRunning, ReadQueued, CloseOrphan, CloseFails, ListHistory, DeleteRows, storeVars
  <1> QED BY <1>3, <1>4, <1>5, <1>6, QueueStepKeepsMap, AdmitKeepsMap DEF StoreNext

-----------------------------------------------------------------------------
(* One object of an id at a time, where requests wait for recovery           *)

\* No object of the id waits, runs or is about to enter the queue.
Past(id) == \A o \in Job : IdOf[o] = id => o \notin inserted /\ status[o] \notin Live

\* Until recovery is through the process has no analysis at all.
BootIsAlone ==
  recovery # "ready" =>
    /\ \A o \in Job : status[o] = "unborn"
    /\ inserted = {} /\ writes = {} /\ expiring = {} /\ wipe = "off"

OneUsed == \A o, p \in Job : Used(o) /\ Used(p) /\ IdOf[o] = IdOf[p] => o = p

\* What ended in the table, or is about to be cleared, ended in memory; what is
\* restored did not.
EndedIsPast ==
  /\ \A id \in Id : RowEnded(id) => Past(id)
  /\ \A id \in wiped : Past(id)
  /\ wipe = "off" => wiped = {}
  /\ \A w \in writes : w.status # "running" => w.status = status[w.job]
  /\ recovery = "enqueue" => \A i \in DOMAIN restored : row[restored[i]] = "queued"

MapHoldsRuns == MapInv /\ \A o \in Running : jobs[IdOf[o]] = o

QuietInv == BootIsAlone /\ OneUsed /\ EndedIsPast /\ MapHoldsRuns

\* Holds at first: what holds where requests wait for recovery.
LEMMA QuietInvInit == StoreInit => QuietInv
PROOF
  BY StatusValues, MapInvInit
  DEF StoreInit, Init, QuietInv, BootIsAlone, OneUsed, EndedIsPast, MapHoldsRuns, Used, Past,
      Running, RowEnded

\* A row has ended when its state is final, before and after a step.
LEMMA EndedRows ==
  /\ \A id \in Id : RowEnded(id) <=> row[id] \in {"completed", "failed", "cancelled"}
  /\ \A id \in Id : RowEnded(id)' <=> row'[id] \in {"completed", "failed", "cancelled"}
PROOF
  BY StatusValues DEF RowEnded

\* A step of the queue uses no second object of an id.
LEMMA QueueStepKeepsQuiet ==
  ASSUME StoreInv, QuietInv, QueueStep
  PROVE  QuietInv'
PROOF
  <1> USE JobAssumption
  <1>1. /\ \A o \in Job : status'[o] # status[o] =>
              /\ status[o] \in Live
              /\ status'[o] \in {"running", "completed", "failed", "cancelled"}
              /\ status'[o] = "running" => status[o] = "queued" /\ \E id \in Id : jobs[id] = o
        /\ \A o \in expiring' : o \in expiring \/ Terminal(o)'
        /\ \A id \in Id : jobs'[id] = jobs[id]
                           \/ (jobs'[id] = NoJob /\ \E o \in expiring : IdOf[o] = id)
    BY QueueEffects DEF QueueStep, StoreInv, StoreTypeOK, SlotInv
  <1>2. /\ writes' = writes \cup {[job |-> o, status |-> status'[o]] : o \in {p \in Job : status'[p] # status[p]}}
        /\ UNCHANGED <<row, inserted, recovery, orphans, restored, overlooked, wipe, wiped, wipes, issued, crashes>>
    BY DEF QueueStep, Send, recoveryVars, wipeVars
  <1>3. BootIsAlone'
    <2> SUFFICES ASSUME recovery # "ready"
                 PROVE  /\ \A o \in Job : status'[o] = "unborn"
                        /\ inserted' = {} /\ writes' = {} /\ expiring' = {} /\ wipe' = "off"
      BY <1>2 DEF BootIsAlone
    <2>1. /\ \A o \in Job : status[o] = "unborn"
          /\ inserted = {} /\ writes = {} /\ expiring = {} /\ wipe = "off"
      BY DEF QuietInv, BootIsAlone
    <2>2. \A o \in Job : status'[o] = "unborn"
      BY <1>1, <2>1 DEF Live
    <2>3. expiring' = {}
      <3>1. expiring' \subseteq Job
        BY StoreInvStep DEF StoreInv, StoreTypeOK, TypeOK, StoreNext
      <3> QED BY <1>1, <2>1, <2>2, <3>1, StatusValues DEF Terminal
    <2> QED BY <1>2, <2>1, <2>2, <2>3
  <1>4. \A o \in Job : status'[o] = "unborn" <=> status[o] = "unborn"
    BY <1>1 DEF Live
  <1>5. OneUsed'
    BY <1>2, <1>4 DEF QuietInv, OneUsed, Used
  <1>6. EndedIsPast'
    <2>1. \A id \in Id : Past(id) => Past(id)'
      BY <1>1, <1>2 DEF Past, Live
    <2>2. \A w \in writes' : w.status # "running" => w.status = status'[w.job]
      <3>1. ASSUME NEW w \in writes, w.status # "running"
            PROVE  w.status = status'[w.job]
        BY <1>1, <3>1, StatusValues DEF Live, QuietInv, EndedIsPast, StoreInv, StoreTypeOK
      <3> QED BY <1>2, <3>1
    <2> QED BY <1>2, <2>1, <2>2 DEF QuietInv, EndedIsPast, RowEnded, StoreInv, StoreTypeOK
  <1>7. MapHoldsRuns'
    <2> USE DEF QuietInv, MapHoldsRuns, MapInv
    <2>1. MapInv'
      BY QueueStepKeepsMap
    <2>3. ASSUME NEW o \in Job, status'[o] = "running"
          PROVE  jobs'[IdOf[o]] = o
      <3>1. jobs[IdOf[o]] = o
        <4>1. CASE status[o] = "running"
          BY <4>1 DEF Running
        <4>2. CASE status[o] # "running"
          <5>1. PICK id \in Id : jobs[id] = o
            BY <1>1, <2>3, <4>2
          <5> QED BY <5>1 DEF MapKnowsIds
        <4> QED BY <4>1, <4>2
      <3>2. status[o] \in Live
        BY <1>1, <2>3 DEF Live
      <3>3. ASSUME NEW p \in expiring, IdOf[p] = IdOf[o]
            PROVE  FALSE
        <4>1. p \in Job /\ status[p] \in {"completed", "failed", "cancelled"}
          BY StatusValues DEF ExpiringEnded, Terminal, StoreInv, StoreTypeOK, TypeOK
        <4> QED BY <3>2, <3>3, <4>1 DEF OneUsed, Used, Live
      <3> QED BY <1>1, <3>1, <3>3
    <2> QED BY <2>1, <2>3 DEF Running
  <1> QED BY <1>3, <1>5, <1>6, <1>7 DEF QuietInv

\* No request inserts a row while the process boots.
LEMMA InsertKeepsQuiet ==
  ASSUME ~ServesDuringRecovery, StoreInv, QuietInv, NEW o \in Job, InsertRow(o)
  PROVE  QuietInv'
PROOF
  <1>1. /\ recovery = "ready" /\ IdOf[o] \in Id /\ IdOf[o] \notin issued
        /\ row' = [row EXCEPT ![IdOf[o]] = "queued"]
        /\ inserted' = inserted \cup {o}
        /\ UNCHANGED <<status, jobs, expiring, writes, recovery, restored, wipe, wiped>>
    BY JobAssumption DEF InsertRow, Serving, queueVars, recoveryVars, wipeVars
  <1>2. \A p \in Job : IdOf[p] = IdOf[o] => ~Used(p)
    BY <1>1 DEF StoreInv, IdInv
  <1>3. BootIsAlone' /\ OneUsed' /\ MapHoldsRuns'
    BY <1>1, <1>2
    DEF QuietInv, BootIsAlone, OneUsed, Used, MapHoldsRuns, MapInv, MapKnowsIds, ExpiringEnded, Running, Terminal
  <1>4. ASSUME NEW id \in Id, Past(id), id # IdOf[o]
        PROVE  Past(id)'
    BY <1>1, <1>4 DEF Past
  <1>5. IdOf[o] \notin wiped /\ wiped \subseteq Id
    BY <1>1 DEF StoreInv, IdInv, StoreTypeOK
  <1>6. \A id \in Id : RowEnded(id)' => RowEnded(id) /\ id # IdOf[o]
    BY <1>1, EndedRows DEF StoreInv, StoreTypeOK
  <1>7. EndedIsPast'
    BY <1>1, <1>4, <1>5, <1>6 DEF QuietInv, EndedIsPast
  <1> QED BY <1>3, <1>7 DEF QuietInv

\* What is admitted is the only object of its id.
LEMMA AdmitKeepsQuiet ==
  ASSUME StoreInv, QuietInv, NEW o \in Job, AdmitInserted(o)
  PROVE  QuietInv'
PROOF
  <1>1. /\ o \in inserted /\ inserted' = inserted \ {o}
        /\ jobs' = [jobs EXCEPT ![IdOf[o]] = o]
        /\ status' = [status EXCEPT ![o] = "queued"]
        /\ UNCHANGED <<row, expiring, writes, recovery, restored, wipe, wiped>>
    BY DEF AdmitInserted, Admit, Enqueue, recoveryVars, wipeVars
  <1>2. status[o] = "unborn" /\ IdOf[o] \in Id /\ o # NoJob
    BY <1>1, JobAssumption DEF StoreInv, IdInv
  <1>3. /\ status'[o] = "queued" /\ \A p \in Job \ {o} : status'[p] = status[p]
        /\ jobs'[IdOf[o]] = o /\ \A id \in Id \ {IdOf[o]} : jobs'[id] = jobs[id]
    BY <1>1, <1>2 DEF StoreInv, StoreTypeOK, TypeOK
  <1>4. \A p \in Job : p # o /\ IdOf[p] = IdOf[o] => p \notin inserted /\ status[p] = "unborn"
    BY <1>1 DEF QuietInv, OneUsed, Used
  <1>5. BootIsAlone'
    BY <1>1 DEF QuietInv, BootIsAlone
  <1>6. OneUsed'
    BY <1>1, <1>3, <1>4 DEF QuietInv, OneUsed, Used
  <1>7. \A id \in Id : Past(id) => Past(id)'
    BY <1>1, <1>3 DEF Past
  <1>8. \A w \in writes : w.job \in Job /\ w.job # o
    BY <1>2 DEF StoreInv, StoreTypeOK, IdInv
  <1>9. EndedIsPast'
    BY <1>1, <1>3, <1>7, <1>8 DEF QuietInv, EndedIsPast, RowEnded, StoreInv, StoreTypeOK
  <1>10. MapInv'
    BY AdmitKeepsMap DEF QuietInv, MapHoldsRuns
  <1>11. \A p \in Running' : jobs'[IdOf[p]] = p
    <2> SUFFICES ASSUME NEW p \in Job, status'[p] = "running"
                 PROVE  jobs'[IdOf[p]] = p
      BY DEF Running
    <2>1. p # o /\ status[p] = "running" /\ IdOf[p] \in Id
      BY <1>3, JobAssumption
    <2>2. jobs[IdOf[p]] = p /\ IdOf[p] # IdOf[o]
      BY <1>4, <2>1 DEF QuietInv, MapHoldsRuns, Running
    <2> QED BY <1>3, <2>1, <2>2
  <1> QED BY <1>5, <1>6, <1>9, <1>10, <1>11 DEF QuietInv, MapHoldsRuns

\* An update that lands ends a row only for an object that ended.
LEMMA UpdateKeepsQuiet ==
  ASSUME StoreInv, QuietInv, NEW w \in writes, UpdateLands(w) \/ UpdateLost(w)
  PROVE  QuietInv'
PROOF
  <1>1. /\ writes' \subseteq writes
        /\ UNCHANGED <<status, jobs, expiring, inserted, recovery, restored, wipe, wiped>>
    BY DEF UpdateLands, UpdateLost, vars, queueVars, recoveryVars, wipeVars
  <1>2. w.job \in Job /\ IdOf[w.job] \in Id /\ recovery = "ready"
    BY JobAssumption DEF StoreInv, StoreTypeOK, QuietInv, BootIsAlone
  <1>3. \A id \in Id : row'[id] = row[id] \/ (id = IdOf[w.job] /\ row'[id] \in {"none", w.status})
    BY <1>2 DEF UpdateLands, UpdateLost, StoreInv, StoreTypeOK
  <1>4. \A id \in Id : Past(id)' <=> Past(id)
    BY <1>1 DEF Past
  <1>5. ASSUME w.status \in {"completed", "failed", "cancelled"}
        PROVE  Past(IdOf[w.job])
    <2>1. status[w.job] \in {"completed", "failed", "cancelled"}
      BY <1>5 DEF QuietInv, EndedIsPast
    <2>2. w.job \notin inserted /\ Used(w.job)
      BY <1>2, <2>1 DEF StoreInv, IdInv, Used
    <2>3. \A o \in Job : o # w.job /\ IdOf[o] = IdOf[w.job] => ~Used(o)
      BY <1>2, <2>2 DEF QuietInv, OneUsed
    <2> QED BY <2>1, <2>2, <2>3 DEF Past, Used, Live
  <1>6. \A id \in Id : RowEnded(id)' => Past(id)'
    BY <1>3, <1>4, <1>5, EndedRows DEF QuietInv, EndedIsPast
  <1>7. EndedIsPast'
    BY <1>1, <1>2, <1>4, <1>6 DEF QuietInv, EndedIsPast, StoreInv, StoreTypeOK
  <1>8. BootIsAlone' /\ OneUsed' /\ MapHoldsRuns'
    BY <1>1, <1>2
    DEF QuietInv, BootIsAlone, OneUsed, Used, MapHoldsRuns, MapInv, MapKnowsIds, ExpiringEnded, Running, Terminal
  <1> QED BY <1>7, <1>8 DEF QuietInv

\* Until recovery is ready there is nothing in memory it could disturb.
LEMMA RecoveryKeepsQuiet ==
  ASSUME StoreInv, QuietInv, ReadRunning \/ ReadQueued \/ \E id \in Id : CloseOrphan(id) \/ CloseFails(id)
  PROVE  QuietInv'
PROOF
  <1>1. /\ recovery \in {"readRunning", "close"} /\ recovery' \in {"close", "enqueue"}
        /\ UNCHANGED <<status, jobs, expiring, inserted, writes, wipe, wiped>>
    BY DEF ReadRunning, ReadQueued, CloseOrphan, CloseFails, vars, queueVars, wipeVars
  <1>2. /\ \A o \in Job : status[o] = "unborn"
        /\ inserted = {} /\ writes = {} /\ expiring = {} /\ wipe = "off"
    BY <1>1 DEF QuietInv, BootIsAlone
  <1>3. \A id \in Id : Past(id)'
    BY <1>1, <1>2 DEF Past, Live
  <1>4. recovery' = "enqueue" => \A i \in DOMAIN restored' : row'[restored'[i]] = "queued"
    <2>1. CASE ReadQueued
      <3> SUFFICES ASSUME \E order \in SetToSeqs(QueuedRows) : restored' = order
                   PROVE  \A i \in DOMAIN restored' : row'[restored'[i]] = "queued"
        BY <2>1 DEF ReadQueued
      <3>1. PICK order \in SetToSeqs(QueuedRows) : restored' = order
        OBVIOUS
      <3>2. \A i \in DOMAIN order : order[i] \in QueuedRows
        BY <3>1 DEF SetToSeqs
      <3> QED BY <2>1, <3>1, <3>2 DEF ReadQueued, QueuedRows
    <2>2. CASE ReadRunning \/ \E id \in Id : CloseOrphan(id) \/ CloseFails(id)
      BY <1>1, <2>2 DEF ReadRunning, CloseOrphan, CloseFails
    <2> QED BY <2>1, <2>2
  <1>5. EndedIsPast'
    BY <1>1, <1>2, <1>3, <1>4 DEF QuietInv, EndedIsPast, StoreInv, StoreTypeOK
  <1>6. BootIsAlone' /\ OneUsed' /\ MapHoldsRuns'
    BY <1>1, <1>2
    DEF QuietInv, BootIsAlone, OneUsed, Used, MapHoldsRuns, MapInv, MapKnowsIds, ExpiringEnded, Running, Terminal
  <1> QED BY <1>5, <1>6 DEF QuietInv

\* Recovery builds one object for an id, and only for rows that wait.
LEMMA RestoreKeepsQuiet ==
  ASSUME StoreInv, QuietInv, EnqueueRestored
  PROVE  QuietInv'
PROOF
  <1> USE JobAssumption
  <1> DEFINE ids == ToSet(restored)
             fresh == {FreshFor(id) : id \in ids}
  <1>1. recovery = "enqueue" /\ ids \subseteq Id /\ \A id \in ids : row[id] = "queued"
    BY LenProperties, ElementOfSeq
    DEF ToSet, StoreInv, StoreTypeOK, EnqueueRestored, QuietInv, EndedIsPast
  <1>2. /\ \A o \in Job : status[o] = "unborn"
        /\ inserted = {} /\ writes = {} /\ expiring = {} /\ wiped = {}
    BY <1>1 DEF QuietInv, BootIsAlone, EndedIsPast
  <1>3. \A id \in ids : FreshFor(id) \in Job /\ IdOf[FreshFor(id)] = id
    BY <1>1, FreshObject
  <1>4. /\ jobs' = [id \in Id |-> IF id \in ids THEN FreshFor(id) ELSE jobs[id]]
        /\ status' = [p \in Job |-> IF p \in fresh THEN "queued" ELSE status[p]]
        /\ recovery' = "ready"
        /\ UNCHANGED <<row, inserted, writes, expiring, wipe, wiped>>
    BY DEF EnqueueRestored, wipeVars
  <1> HIDE DEF ids, fresh
  <1>5. \A o \in Job : status'[o] = IF o \in fresh THEN "queued" ELSE "unborn"
    BY <1>2, <1>4
  <1>6. \A o \in fresh : o \in Job /\ IdOf[o] \in ids /\ o = FreshFor(IdOf[o])
    BY <1>3 DEF fresh
  <1>7. BootIsAlone' /\ OneUsed'
    BY <1>2, <1>4, <1>5, <1>6 DEF BootIsAlone, OneUsed, Used
  <1>8. EndedIsPast'
    <2>1. ASSUME NEW id \in Id, RowEnded(id)'
          PROVE  Past(id)'
      <3>1. id \notin ids
        BY <1>1, <1>4, <2>1, EndedRows
      <3> QED BY <1>2, <1>4, <1>5, <1>6, <3>1 DEF Past, Live
    <2> QED BY <1>2, <1>4, <2>1 DEF EndedIsPast
  <1>9. MapHoldsRuns'
    <2>1. MapInv'
      BY MapInvStep DEF StoreNext, QuietInv, MapHoldsRuns
    <2> QED BY <1>5, <2>1 DEF MapHoldsRuns, Running
  <1> QED BY <1>7, <1>8, <1>9 DEF QuietInv

\* The history is listed once recovery is through, and what it shows as ended
\* is past.
LEMMA WipeKeepsQuiet ==
  ASSUME ~ServesDuringRecovery, StoreInv, QuietInv, ListHistory \/ DeleteRows \/ ClearWiped
  PROVE  QuietInv'
PROOF
  <1>1. /\ recovery = "ready"
        /\ UNCHANGED <<status, expiring, inserted, writes, recovery>>
    BY DEF ListHistory, DeleteRows, ClearWiped, Serving, QuietInv, BootIsAlone,
           vars, queueVars, recoveryVars
  <1>2. \A id \in Id : Past(id)' <=> Past(id)
    BY <1>1 DEF Past
  <1>3. \A id \in Id : RowEnded(id)' => RowEnded(id)
    BY EndedRows DEF ListHistory, DeleteRows, ClearWiped
  <1>4. \A id \in wiped' : id \in Id /\ (id \in wiped \/ RowEnded(id))
    BY DEF ListHistory, ListEnded, DeleteRows, ClearWiped, StoreInv, StoreTypeOK
  <1>5. wipe' = "off" => wiped' = {}
    BY DEF ListHistory, DeleteRows, ClearWiped
  <1>6. EndedIsPast'
    BY <1>1, <1>2, <1>3, <1>4, <1>5 DEF QuietInv, EndedIsPast
  <1>7. BootIsAlone' /\ OneUsed'
    BY <1>1 DEF QuietInv, BootIsAlone, OneUsed, Used
  <1>8. \A id \in Id : jobs'[id] = jobs[id] \/ (jobs'[id] = NoJob /\ Past(id))
    BY DEF ListHistory, DeleteRows, ClearWiped, vars, queueVars, QuietInv, EndedIsPast
  <1>9. MapHoldsRuns'
    <2>1. \A o \in Job : status[o] = "running" => ~Past(IdOf[o]) /\ IdOf[o] \in Id
      BY JobAssumption DEF Past, Live
    <2> QED
      BY <1>1, <1>8, <2>1
      DEF QuietInv, MapHoldsRuns, MapInv, MapKnowsIds, ExpiringEnded, Running, Terminal
  <1> QED BY <1>6, <1>7, <1>9 DEF QuietInv

\* After a crash no object is in use.
LEMMA CrashKeepsQuiet == ASSUME StoreInv, Crash PROVE QuietInv'
PROOF
  <1>1. \A id \in Id : Past(id)'
    BY DEF Crash, Past, Live
  <1> QED
    BY <1>1
    DEF Crash, QuietInv, BootIsAlone, OneUsed, Used, EndedIsPast, MapHoldsRuns, MapInv, MapKnowsIds,
        ExpiringEnded, Running

\* No step breaks what holds where requests wait for recovery.
LEMMA QuietInvStep ==
  ASSUME ~ServesDuringRecovery
  PROVE  StoreInv /\ QuietInv /\ [StoreNext]_storeVars => QuietInv'
PROOF
  <1> SUFFICES ASSUME StoreInv, QuietInv, [StoreNext]_storeVars
               PROVE  QuietInv'
    OBVIOUS
  <1>1. CASE UNCHANGED storeVars
    BY <1>1
    DEF storeVars, vars, queueVars, recoveryVars, wipeVars, QuietInv, BootIsAlone, OneUsed, Used,
        EndedIsPast, Past, RowEnded, MapHoldsRuns, MapInv, MapKnowsIds, ExpiringEnded, Terminal, Running
  <1> QED
    BY <1>1, QueueStepKeepsQuiet, InsertKeepsQuiet, AdmitKeepsQuiet, UpdateKeepsQuiet,
       RecoveryKeepsQuiet, RestoreKeepsQuiet, WipeKeepsQuiet, CrashKeepsQuiet
    DEF StoreNext

\* Holds in every state: what holds where requests wait for recovery.
LEMMA QuietInvAlways ==
  ASSUME ~ServesDuringRecovery
  PROVE  StoreSpec => [](StoreInv /\ QuietInv)
PROOF
  BY StoreInvInit, StoreInvStep, QuietInvInit, QuietInvStep, PTL DEF StoreSpec

\* Where requests wait for recovery an id is never executed twice at once, and
\* the map finds the object that executes.
THEOREM OneRunAtATime ==
  ASSUME ~ServesDuringRecovery
  PROVE  StoreSpec => []OneRunPerAnalysis
PROOF
  <1>1. StoreInv /\ QuietInv => OneRunPerAnalysis
    BY DEF QuietInv, OneUsed, Used, MapHoldsRuns, OneRunPerAnalysis, Running
  <1> QED BY <1>1, QuietInvAlways, PTL

\* Where requests wait for recovery, deleting the history leaves the entry and
\* the directory of every analysis that has not ended.
THEOREM WipeIsSafe ==
  ASSUME ~ServesDuringRecovery
  PROVE  StoreSpec => WipeSparesLiveJobs
PROOF
  <1>1. ASSUME StoreInv, QuietInv, [StoreNext]_storeVars,
               wipe = "deleted", wipe' = "off", crashes' = crashes,
               NEW o \in Job, status[o] \in Live
        PROVE  jobs'[IdOf[o]] = jobs[IdOf[o]] /\ (IdOf[o] \in dirs => IdOf[o] \in dirs')
    <2>1. ClearWiped
      <3>1. ~QueueStep /\ ~ReadRunning /\ ~ReadQueued /\ ~EnqueueRestored
        BY <1>1 DEF QueueStep, ReadRunning, ReadQueued, EnqueueRestored, wipeVars
      <3>2. \A p \in Job : ~InsertRow(p) /\ ~AdmitInserted(p)
        BY <1>1 DEF InsertRow, AdmitInserted, wipeVars
      <3>3. \A w \in writes : ~UpdateLands(w) /\ ~UpdateLost(w)
        BY <1>1 DEF UpdateLands, UpdateLost, wipeVars
      <3>4. \A id \in Id : ~CloseOrphan(id) /\ ~CloseFails(id)
        BY <1>1 DEF CloseOrphan, CloseFails, wipeVars
      <3>5. ~ListHistory /\ ~DeleteRows
        BY <1>1 DEF ListHistory, DeleteRows
      <3>6. ~Crash
        BY <1>1 DEF Crash, StoreInv, StoreTypeOK
      <3> QED BY <1>1, <3>1, <3>2, <3>3, <3>4, <3>5, <3>6 DEF StoreNext, storeVars, wipeVars
    <2>2. IdOf[o] \in Id /\ IdOf[o] \notin wiped
      BY <1>1, JobAssumption DEF QuietInv, EndedIsPast, Past
    <2> QED BY <2>1, <2>2 DEF ClearWiped
  <1>2. StoreInv /\ QuietInv /\ [StoreNext]_storeVars =>
          [wipe = "deleted" /\ wipe' = "off" /\ crashes' = crashes =>
             \A o \in Job : status[o] \in Live =>
               jobs'[IdOf[o]] = jobs[IdOf[o]] /\ (IdOf[o] \in dirs => IdOf[o] \in dirs')]_storeVars
    BY <1>1
  <1> QED BY <1>2, QuietInvAlways, PTL DEF StoreSpec, WipeSparesLiveJobs

-----------------------------------------------------------------------------
(* An ended row stays ended, where the updates of an object keep their order *)

\* No update on its way belongs to an id whose row has ended.
NoLateUpdate == \A w \in writes : ~RowEnded(IdOf[w.job])

\* No step breaks that no update to running lands on what ended.
LEMMA NoLateUpdateStep ==
  ASSUME OrderedWrites, StoreInv, QuietInv, NoLateUpdate, [StoreNext]_storeVars
  PROVE  NoLateUpdate'
PROOF
  <1> USE EndedRows, JobAssumption
  <1>1. \A w \in writes : w.job \in Job /\ IdOf[w.job] \in Id /\ w \in [job : Job, status : JobStatus]
    BY DEF StoreInv, StoreTypeOK
  <1>2. CASE QueueStep
    <2>1. \A o \in Job : status'[o] # status[o] => ~RowEnded(IdOf[o])
      BY <1>2, QueueEffects
      DEF QueueStep, QuietInv, EndedIsPast, Past, StoreInv, StoreTypeOK, SlotInv
    <2>2. row' = row /\ writes' = writes \cup
            {[job |-> o, status |-> status'[o]] : o \in {p \in Job : status'[p] # status[p]}}
      BY <1>2 DEF QueueStep, Send
    <2> QED BY <1>1, <2>1, <2>2 DEF NoLateUpdate
  <1>3. CASE writes' \subseteq writes /\ \A id \in Id : RowEnded(id)' => RowEnded(id)
    BY <1>1, <1>3 DEF NoLateUpdate
  <1>4. ASSUME NEW o \in Job, InsertRow(o) \/ AdmitInserted(o)
        PROVE  writes' \subseteq writes /\ \A id \in Id : RowEnded(id)' => RowEnded(id)
    BY <1>4 DEF InsertRow, AdmitInserted, StoreInv, StoreTypeOK
  <1>5. ASSUME NEW w \in writes, UpdateLands(w)
        PROVE  NoLateUpdate'
    <2>1. /\ writes' = writes \ {w}
          /\ \A id \in Id : id # IdOf[w.job] => row'[id] = row[id]
          /\ row'[IdOf[w.job]] \in {"none", w.status}
      BY <1>1, <1>5 DEF UpdateLands, StoreInv, StoreTypeOK
    <2> SUFFICES ASSUME NEW v \in writes, v # w, RowEnded(IdOf[v.job])'
                 PROVE  FALSE
      BY <2>1 DEF NoLateUpdate
    <2>2. IdOf[v.job] = IdOf[w.job] /\ w.status \in {"completed", "failed", "cancelled"}
      BY <1>1, <2>1 DEF NoLateUpdate
    <2>3. v.job = w.job
      BY <1>1, <2>2 DEF StoreInv, IdInv, QuietInv, OneUsed, Used
    <2>4. v.status # "running"
      BY <1>1, <1>5, <2>2, <2>3 DEF UpdateLands, InOrder
    <2>5. v.status = w.status
      BY <2>2, <2>3, <2>4 DEF QuietInv, EndedIsPast
    <2> QED BY <1>1, <2>3, <2>5
  <1>6. ASSUME NEW w \in writes, UpdateLost(w)
        PROVE  writes' \subseteq writes /\ row' = row
    BY <1>6 DEF UpdateLost
  <1>7. CASE ReadRunning \/ ReadQueued \/ EnqueueRestored \/ \E id \in Id : CloseOrphan(id) \/ CloseFails(id)
    <2>1. writes = {} /\ writes' = writes
      BY <1>7 DEF ReadRunning, ReadQueued, EnqueueRestored, CloseOrphan, CloseFails, QuietInv, BootIsAlone
    <2> QED BY <2>1 DEF NoLateUpdate
  <1>8. CASE ListHistory \/ DeleteRows \/ ClearWiped
    BY <1>3, <1>8 DEF ListHistory, DeleteRows, ClearWiped
  <1>9. CASE Crash
    BY <1>9 DEF Crash, NoLateUpdate
  <1>10. CASE UNCHANGED storeVars
    BY <1>3, <1>10 DEF storeVars
  <1> QED BY <1>2, <1>3, <1>4, <1>5, <1>6, <1>7, <1>8, <1>9, <1>10 DEF StoreNext

\* Where requests wait for recovery and the updates of one object reach the
\* table in order, a row that ended changes no more, except by being deleted:
\* not by a late update, not by recovery, not by an id drawn again.
THEOREM EndedRowStays ==
  ASSUME ~ServesDuringRecovery, OrderedWrites
  PROVE  StoreSpec => RowTerminalIsFinal
PROOF
  <1>1. StoreInit => NoLateUpdate
    BY DEF StoreInit, NoLateUpdate
  <1>2. StoreInv /\ QuietInv /\ NoLateUpdate /\ [StoreNext]_storeVars => NoLateUpdate'
    BY NoLateUpdateStep
  <1>3. ASSUME StoreInv, QuietInv, NoLateUpdate, StoreNext, NEW id \in Id, RowEnded(id)
        PROVE  row'[id] \in {row[id], "none"}
    <2> USE EndedRows
    <2>1. CASE \E o \in Job : InsertRow(o)
      BY <1>3, <2>1, JobAssumption DEF InsertRow, StoreInv, StoreTypeOK, IdInv
    <2>2. CASE \E w \in writes : UpdateLands(w)
      BY <1>3, <2>2 DEF UpdateLands, NoLateUpdate, StoreInv, StoreTypeOK
    <2>3. CASE \E i \in Id : CloseOrphan(i) \/ CloseFails(i)
      <3>1. ~CanTransitionJob(row[id], "failed")
        BY <1>3, StatusValues DEF CanTransitionJob, AllowedTransitions
      <3> QED BY <1>3, <2>3, <3>1 DEF CloseOrphan, CloseFails, CloseRow, LeaveOpen, StoreInv, StoreTypeOK
    <2>4. CASE DeleteRows
      BY <2>4 DEF DeleteRows
    <2>5. CASE QueueStep \/ (\E o \in Job : AdmitInserted(o)) \/ (\E w \in writes : UpdateLost(w))
               \/ ReadRunning \/ ReadQueued \/ EnqueueRestored \/ ListHistory \/ ClearWiped \/ Crash
      BY <2>5 DEF QueueStep, AdmitInserted, UpdateLost, ReadRunning, ReadQueued, EnqueueRestored,
                  ListHistory, ClearWiped, Crash
    <2> QED BY <1>3, <2>1, <2>2, <2>3, <2>4, <2>5 DEF StoreNext
  <1>4. StoreInv /\ QuietInv /\ NoLateUpdate /\ [StoreNext]_storeVars =>
          [\A id \in Id : RowEnded(id) => row'[id] \in {row[id], "none"}]_storeVars
    BY <1>3
  <1>5. StoreSpec => []NoLateUpdate
    BY <1>1, <1>2, QuietInvAlways, PTL DEF StoreSpec
  <1> QED BY <1>4, <1>5, QuietInvAlways, PTL DEF StoreSpec, RowTerminalIsFinal

-----------------------------------------------------------------------------
(* No row without anybody working on it, even where requests do not wait for *)
(* recovery, as long as updates are neither lost nor overtaken               *)

Telling(o) == \E w \in writes : w.job = o

Executing(id) == \E o \in Job : IdOf[o] = id /\ (status[o] = "running" \/ Telling(o))

\* The table follows the memory: the row of an object that started does not
\* wait once its update landed; an update to "running" that is overdue is
\* followed by the one that ends it.
TableInv ==
  /\ \A o \in Job : status[o] \notin {"unborn", "queued"} => row[IdOf[o]] # "queued" \/ Telling(o)
  /\ \A o \in Job : [job |-> o, status |-> "running"] \in writes /\ status[o] # "running" =>
       \E w \in writes : w.job = o /\ w.status # "running"
  /\ \A id \in orphans : id \in issued /\ row[id] # "queued"
  /\ wipe = "deleted" => \A id \in wiped : row[id] = "none"

\* A row "running" without an execution is one recovery is about to close, a
\* row "queued" of which nobody takes care one it is about to restore, unless a
\* query that failed did not tell it of them.
RunningIsCared ==
  \A id \in Id : row[id] = "running" =>
    \/ recovery = "readRunning"
    \/ recovery = "close" /\ id \in orphans
    \/ id \in overlooked
    \/ Executing(id)

QueuedIsCared ==
  \A id \in Id : row[id] = "queued" =>
    \/ recovery \in {"readRunning", "close"}
    \/ recovery = "enqueue" /\ Contains(restored, id)
    \/ id \in overlooked
    \/ Cared(id)

GhostInv == MapInv /\ TableInv /\ RunningIsCared /\ QueuedIsCared

\* Holds at first: what memory and table owe each other.
LEMMA GhostInvInit == StoreInit => GhostInv
PROOF
  BY MapInvInit
  DEF StoreInit, Init, GhostInv, TableInv, RunningIsCared, QueuedIsCared, Telling

\* No step breaks the agreement of table and memory.
LEMMA TableInvStep ==
  ASSUME OrderedWrites, ~WritesMayFail, StoreInv, TableInv, [StoreNext]_storeVars
  PROVE  TableInv'
PROOF
  <1> USE JobAssumption DEF Telling
  \* The step leaves the queue and the updates alone, and makes no row wait.
  <1>1. ASSUME UNCHANGED <<status, writes, issued>>,
               \A id \in Id : row'[id] = "queued" => row[id] = "queued",
               \A id \in orphans' : id \in issued /\ row'[id] # "queued",
               wipe' = "deleted" => \A id \in wiped' : row'[id] = "none"
        PROVE  TableInv'
    BY <1>1 DEF TableInv
  <1>2. CASE QueueStep
    <2>1. /\ writes' = writes \cup {[job |-> o, status |-> status'[o]] : o \in {p \in Job : status'[p] # status[p]}}
          /\ UNCHANGED <<row, orphans, wipe, wiped, issued>>
          /\ \A o \in Job : status'[o] # status[o] =>
               status'[o] \in {"running", "completed", "failed", "cancelled"}
      BY <1>2, QueueEffects
      DEF QueueStep, Send, recoveryVars, wipeVars, StoreInv, StoreTypeOK, SlotInv
    <2>2. \A o \in Job : status'[o] # status[o] => [job |-> o, status |-> status'[o]] \in writes'
      BY <2>1
    <2>3. ASSUME NEW o \in Job, status'[o] \notin {"unborn", "queued"}
          PROVE  row'[IdOf[o]] # "queued" \/ Telling(o)'
      BY <2>1, <2>2, <2>3 DEF TableInv
    <2>4. ASSUME NEW o \in Job, [job |-> o, status |-> "running"] \in writes', status'[o] # "running"
          PROVE  \E w \in writes' : w.job = o /\ w.status # "running"
      <3>1. CASE status'[o] # status[o]
        BY <2>2, <2>4, <3>1
      <3>2. CASE status'[o] = status[o]
        <4>1. [job |-> o, status |-> "running"] \in writes
          BY <2>1, <2>4, <3>2
        <4> QED BY <2>1, <2>4, <3>2, <4>1 DEF TableInv
      <3> QED BY <3>1, <3>2
    <2> QED BY <2>1, <2>3, <2>4 DEF TableInv
  <1>3. ASSUME NEW o \in Job, InsertRow(o)
        PROVE  TableInv'
    <2>1. /\ IdOf[o] \in Id /\ IdOf[o] \notin issued /\ issued' = issued \cup {IdOf[o]}
          /\ row' = [row EXCEPT ![IdOf[o]] = "queued"]
          /\ UNCHANGED <<status, writes, orphans, wipe, wiped>>
      BY <1>3 DEF InsertRow, queueVars, recoveryVars, wipeVars
    <2>2. \A p \in Job : IdOf[p] = IdOf[o] => status[p] = "unborn"
      BY <2>1 DEF StoreInv, IdInv, Used
    <2>3. \A id \in wiped : id \in Id /\ id # IdOf[o]
      BY <2>1 DEF StoreInv, IdInv, StoreTypeOK
    <2>4. \A id \in Id : id # IdOf[o] => row'[id] = row[id]
      BY <2>1 DEF StoreInv, StoreTypeOK
    <2>5. \A id \in orphans : id \in Id
      BY DEF StoreInv, StoreTypeOK
    <2> QED BY <2>1, <2>2, <2>3, <2>4, <2>5 DEF TableInv
  <1>4. ASSUME NEW o \in Job, AdmitInserted(o)
        PROVE  TableInv'
    <2>1. /\ status[o] = "unborn" /\ status'[o] = "queued"
          /\ \A p \in Job \ {o} : status'[p] = status[p]
          /\ UNCHANGED <<row, writes, orphans, wipe, wiped, issued>>
      BY <1>4 DEF AdmitInserted, Admit, Enqueue, recoveryVars, wipeVars, StoreInv, StoreTypeOK, TypeOK, IdInv
    <2>2. [job |-> o, status |-> "running"] \notin writes
      BY <2>1 DEF StoreInv, IdInv
    <2> QED BY <2>1, <2>2 DEF TableInv
  <1>5. ASSUME NEW w \in writes, UpdateLands(w)
        PROVE  TableInv'
    <2>1. /\ w.job \in Job /\ IdOf[w.job] \in Id /\ w.status # "queued"
          /\ writes' = writes \ {w}
          /\ \A id \in Id : id # IdOf[w.job] => row'[id] = row[id]
          /\ row'[IdOf[w.job]] \in {"none", w.status}
          /\ row[IdOf[w.job]] = "none" => row'[IdOf[w.job]] = "none"
          /\ UNCHANGED <<status, orphans, wipe, wiped, issued>>
      BY <1>5 DEF UpdateLands, StoreInv, StoreTypeOK, vars, queueVars, recoveryVars, wipeVars
    <2>2. ASSUME NEW o \in Job, status[o] \notin {"unborn", "queued"}
          PROVE  row'[IdOf[o]] # "queued" \/ Telling(o)'
      <3>1. CASE IdOf[o] = IdOf[w.job]
        BY <2>1, <3>1
      <3>2. CASE IdOf[o] # IdOf[w.job]
        BY <2>1, <2>2, <3>2 DEF TableInv
      <3> QED BY <3>1, <3>2
    <2>3. ASSUME NEW o \in Job, [job |-> o, status |-> "running"] \in writes', status[o] # "running"
          PROVE  \E v \in writes' : v.job = o /\ v.status # "running"
      <3>1. PICK v \in writes : v.job = o /\ v.status # "running"
        BY <2>1, <2>3 DEF TableInv
      <3>2. v # w
        BY <1>5, <2>1, <2>3, <3>1 DEF UpdateLands, InOrder
      <3> QED BY <2>1, <3>1, <3>2
    <2>4. \A id \in Id : /\ row'[id] = "queued" => row[id] = "queued"
                         /\ row[id] = "none" => row'[id] = "none"
      BY <2>1
    <2>5. orphans \subseteq Id /\ wiped \subseteq Id
      BY DEF StoreInv, StoreTypeOK
    <2> QED BY <2>1, <2>2, <2>3, <2>4, <2>5 DEF TableInv
  <1>6. ASSUME NEW w \in writes
        PROVE  ~UpdateLost(w)
    BY DEF UpdateLost
  <1>7. CASE ReadRunning
    BY <1>1, <1>7 DEF ReadRunning, RunningRows, vars, queueVars, wipeVars, TableInv, StoreInv, IdInv
  <1>8. ASSUME NEW id \in Id, CloseOrphan(id) \/ CloseFails(id)
        PROVE  TableInv'
    <2>1. \A i \in Id : /\ row'[i] = "queued" => row[i] = "queued"
                        /\ row[i] = "none" => row'[i] = "none"
      BY <1>8 DEF CloseOrphan, CloseFails, CloseRow, LeaveOpen, StoreInv, StoreTypeOK
    <2>2. orphans \subseteq Id /\ wiped \subseteq Id
      BY DEF StoreInv, StoreTypeOK
    <2> QED
      BY <1>1, <1>8, <2>1, <2>2 DEF CloseOrphan, CloseFails, vars, queueVars, wipeVars, TableInv
  <1>9. CASE ReadQueued \/ ListHistory \/ ClearWiped \/ UNCHANGED storeVars
    BY <1>1, <1>9
    DEF ReadQueued, ListHistory, ClearWiped, storeVars, vars, queueVars, recoveryVars, wipeVars, TableInv
  <1>10. CASE DeleteRows
    <2>1. \A id \in Id : row'[id] = "none"
      BY <1>10 DEF DeleteRows
    <2>2. wiped' \subseteq Id /\ orphans' \subseteq Id
      BY <1>10 DEF DeleteRows, StoreInv, StoreTypeOK, recoveryVars
    <2> QED
      BY <1>1, <1>10, <2>1, <2>2 DEF DeleteRows, vars, queueVars, recoveryVars, TableInv
  <1>11. CASE EnqueueRestored
    <2>1. /\ \A o \in Job : status'[o] = status[o] \/ (status[o] = "unborn" /\ status'[o] = "queued")
          /\ UNCHANGED <<row, writes, orphans, wipe, wiped, issued>>
      BY <1>11, RestoreEffects
    <2>2. \A o \in Job : status[o] = "unborn" => [job |-> o, status |-> "running"] \notin writes
      BY DEF StoreInv, IdInv
    <2> QED BY <2>1, <2>2 DEF TableInv
  <1>12. CASE Crash
    BY <1>12 DEF Crash, TableInv
  <1> QED
    BY <1>2, <1>3, <1>4, <1>5, <1>6, <1>7, <1>8, <1>9, <1>10, <1>11, <1>12 DEF StoreNext

\* No step breaks that a row running has somebody working on it.
LEMMA RunningIsCaredStep ==
  ASSUME OrderedWrites, ~WritesMayFail, StoreInv, TableInv, RunningIsCared, [StoreNext]_storeVars
  PROVE  RunningIsCared'
PROOF
  <1> USE JobAssumption DEF Telling
  <1> SUFFICES ASSUME NEW id \in Id, row'[id] = "running"
               PROVE  \/ recovery' = "readRunning"
                      \/ recovery' = "close" /\ id \in orphans'
                      \/ id \in overlooked'
                      \/ Executing(id)'
    BY DEF RunningIsCared
  <1>1. ASSUME UNCHANGED <<status, writes, recovery, orphans, overlooked>>, row[id] = "running"
        PROVE  \/ recovery' = "readRunning"
               \/ recovery' = "close" /\ id \in orphans'
               \/ id \in overlooked'
               \/ Executing(id)'
    BY <1>1 DEF RunningIsCared, Executing
  <1>2. CASE QueueStep
    <2>1. /\ writes' = writes \cup {[job |-> o, status |-> status'[o]] : o \in {p \in Job : status'[p] # status[p]}}
          /\ UNCHANGED <<row, recovery, orphans, overlooked>>
      BY <1>2 DEF QueueStep, Send, recoveryVars
    <2>2. ASSUME NEW o \in Job, status'[o] # status[o]
          PROVE  \E w \in writes' : w.job = o
      <3>1. [job |-> o, status |-> status'[o]] \in writes'
        BY <2>1, <2>2
      <3> QED BY <3>1
    <2>3. Executing(id) => Executing(id)'
      BY <2>1, <2>2 DEF Executing
    <2> QED BY <2>1, <2>3 DEF RunningIsCared
  <1>3. CASE \E o \in Job : InsertRow(o)
    BY <1>1, <1>3 DEF InsertRow, queueVars, recoveryVars, StoreInv, StoreTypeOK
  <1>4. ASSUME NEW o \in Job, AdmitInserted(o)
        PROVE  \/ recovery' = "readRunning"
               \/ recovery' = "close" /\ id \in orphans'
               \/ id \in overlooked'
               \/ Executing(id)'
    <2>1. /\ status[o] = "unborn" /\ \A p \in Job \ {o} : status'[p] = status[p]
          /\ UNCHANGED <<row, writes, recovery, orphans, overlooked>>
      BY <1>4 DEF AdmitInserted, Admit, Enqueue, recoveryVars, StoreInv, StoreTypeOK, TypeOK, IdInv
    <2> QED BY <2>1 DEF RunningIsCared, Executing
  <1>5. ASSUME NEW w \in writes, UpdateLands(w)
        PROVE  \/ recovery' = "readRunning"
               \/ recovery' = "close" /\ id \in orphans'
               \/ id \in overlooked'
               \/ Executing(id)'
    <2>1. /\ w.job \in Job /\ writes' = writes \ {w}
          /\ w = [job |-> w.job, status |-> w.status]
          /\ id # IdOf[w.job] => row'[id] = row[id]
          /\ row'[IdOf[w.job]] \in {"none", w.status}
          /\ UNCHANGED <<status, recovery, orphans, overlooked>>
      BY <1>5 DEF UpdateLands, StoreInv, StoreTypeOK, vars, queueVars, recoveryVars
    <2>2. CASE id = IdOf[w.job]
      <3>1. [job |-> w.job, status |-> "running"] \in writes /\ w.status = "running"
        BY <2>1, <2>2
      <3>2. status[w.job] # "running" => \E v \in writes' : v.job = w.job
        BY <2>1, <3>1 DEF TableInv
      <3> QED BY <2>1, <2>2, <3>2 DEF Executing
    <2>3. CASE id # IdOf[w.job]
      BY <2>1, <2>3 DEF RunningIsCared, Executing
    <2> QED BY <2>2, <2>3
  <1>6. ASSUME NEW w \in writes
        PROVE  ~UpdateLost(w)
    BY DEF UpdateLost
  <1>7. CASE ReadRunning
    BY <1>7 DEF ReadRunning, RunningRows
  <1>8. ASSUME NEW i \in Id, CloseOrphan(i) \/ CloseFails(i)
        PROVE  \/ recovery' = "readRunning"
               \/ recovery' = "close" /\ id \in orphans'
               \/ id \in overlooked'
               \/ Executing(id)'
    <2>1. row[id] = "running"
      BY <1>8 DEF CloseOrphan, CloseFails, CloseRow, LeaveOpen, StoreInv, StoreTypeOK
    <2>2. UNCHANGED <<status, writes, recovery>> /\ overlooked \subseteq overlooked'
      BY <1>8 DEF CloseOrphan, CloseFails, vars, queueVars
    <2>3. CASE CloseOrphan(i)
      <3>1. row[i] = "running" => row'[i] = "failed"
        BY <2>3 DEF CloseOrphan, CloseRow, CanTransitionJob, AllowedTransitions, StoreInv, StoreTypeOK
      <3>2. id # i /\ orphans' = orphans \ {i}
        BY <2>1, <2>3, <3>1 DEF CloseOrphan
      <3> QED BY <2>1, <2>2, <3>2 DEF RunningIsCared, Executing
    <2>4. CASE CloseFails(i)
      BY <2>1, <2>2, <2>4 DEF CloseFails, RunningIsCared, Executing
    <2> QED BY <1>8, <2>3, <2>4
  <1>9. CASE ReadQueued
    <2>1. id \in overlooked \/ Executing(id)
      BY <1>9 DEF ReadQueued, RunningIsCared
    <2> QED BY <1>9, <2>1 DEF ReadQueued, Executing, vars, queueVars
  <1>10. CASE EnqueueRestored
    <2>1. id \in overlooked \/ Executing(id)
      BY <1>10, RestoreEffects DEF RunningIsCared
    <2> QED BY <1>10, <2>1, RestoreEffects DEF Executing, EnqueueRestored
  <1>11. CASE DeleteRows
    BY <1>11 DEF DeleteRows
  <1>12. CASE ListHistory \/ ClearWiped \/ UNCHANGED storeVars
    BY <1>1, <1>12 DEF ListHistory, ClearWiped, storeVars, vars, queueVars, recoveryVars
  <1>13. CASE Crash
    BY <1>13 DEF Crash
  <1> QED
    BY <1>2, <1>3, <1>4, <1>5, <1>6, <1>7, <1>8, <1>9, <1>10, <1>11, <1>12, <1>13 DEF StoreNext

\* An analysis that waits in memory under a row "queued" stays in the queue,
\* starts, or has an update sent for its id.
LEMMA QueueStepKeepsCared ==
  ASSUME StoreInv, MapInv, TableInv, QueueStep, NEW id \in Id, row[id] = "queued", Cared(id)
  PROVE  Cared(id)'
PROOF
  <1> USE JobAssumption DEF Telling
  <1>1. /\ writes' = writes \cup {[job |-> o, status |-> status'[o]] : o \in {p \in Job : status'[p] # status[p]}}
        /\ inserted' = inserted
        /\ Loop \/ \E o \in Job : JobStep(o)
    BY DEF QueueStep, Send
  <1>2. ASSUME NEW o \in Job, status'[o] # status[o], IdOf[o] = id
        PROVE  Cared(id)'
    <2>1. [job |-> o, status |-> status'[o]] \in writes'
      BY <1>1, <1>2
    <2> QED BY <1>2, <2>1 DEF Cared
  <1>3. CASE (\E w \in writes : IdOf[w.job] = id) \/ (\E o \in inserted : IdOf[o] = id)
    BY <1>1, <1>3 DEF Cared
  <1>4. CASE \E o \in Job : IdOf[o] = id /\ status[o] = "running"
    BY <1>2, <1>4 DEF Cared
  <1>5. ASSUME jobs[id] # NoJob, status[jobs[id]] = "queued", Contains(pending, id)
        PROVE  Cared(id)'
    <2> DEFINE o == jobs[id]
    <2>1. o \in Job /\ IdOf[o] = id
      BY <1>5 DEF StoreInv, StoreTypeOK, TypeOK, MapInv, MapKnowsIds
    <2>2. pending \in Seq(Id) /\ Len(pending) \in Nat /\ DOMAIN pending = 1..Len(pending)
      BY LenProperties DEF StoreInv, StoreTypeOK, TypeOK
    <2>3. PICK k \in 1..Len(pending) : pending[k] = id
      BY <1>5 DEF Contains
    <2>4. jobs'[id] = o /\ status'[o] = "queued" /\ Contains(pending', id) => Cared(id)'
      BY <1>5 DEF Cared
    <2> HIDE DEF o
    <2>5. CASE status'[o] # status[o]
      BY <1>2, <2>1, <2>5
    <2>6. CASE UNCHANGED queueVars
      BY <1>5, <2>4, <2>6 DEF queueVars, o
    <2>7. CASE LoopEnds
      <3>1. Waiting(pending[k])
        BY <1>5, <2>3 DEF Waiting
      <3>2. ~FreeSlot
        BY <2>2, <2>3, <2>7, <3>1 DEF LoopEnds
      <3> QED BY <1>5, <2>4, <2>7, <3>2 DEF LoopEnds, o
    <2>8. CASE StartNext
      <3>1. PICK i \in 1..Len(pending) : /\ FirstWaiting(i)
                                         /\ status' = [status EXCEPT ![jobs[pending[i]]] = "running"]
                                         /\ pending' = SubSeq(pending, i+1, Len(pending))
        BY <2>2, <2>8 DEF StartNext
      <3>2. CASE pending[i] = id
        BY <1>2, <1>5, <2>1, <3>1, <3>2 DEF o, StoreInv, StoreTypeOK, TypeOK
      <3>3. CASE pending[i] # id
        <4>1. Waiting(pending[k])
          BY <1>5, <2>3 DEF Waiting
        <4>2. k > i
          BY <2>3, <3>1, <3>3, <4>1 DEF FirstWaiting
        <4>3. \A j \in (i+1)..Len(pending) : pending[j] \in Id
          BY <2>2, ElementOfSeq
        <4>4. /\ Len(pending') = Len(pending) - i
              /\ \A j \in 1..(Len(pending) - i) : pending'[j] = pending[i+j]
          <5>1. i+1 \in Int /\ Len(pending) \in Int /\ i+1 <= Len(pending)
            BY <2>2, <4>2
          <5>2. /\ Len(pending') = Len(pending) - (i+1) + 1
                /\ \A j \in 1..(Len(pending) - (i+1) + 1) : pending'[j] = pending[(i+1)+j-1]
            BY <3>1, <4>3, <5>1, SubSeqProperties
          <5>3. \A j \in Nat : (i+1)+j-1 = i+j
            OBVIOUS
          <5>4. Len(pending) - (i+1) + 1 = Len(pending) - i
            BY <2>2
          <5> QED BY <5>2, <5>3, <5>4
        <4>5. k - i \in 1..(Len(pending) - i) /\ pending'[k-i] = pending[k]
          BY <2>2, <4>2, <4>4
        <4>6. Contains(pending', id)
          BY <2>3, <4>4, <4>5 DEF Contains
        <4>7. jobs'[id] = o
          BY <2>8 DEF StartNext, o
        <4> QED BY <1>5, <2>4, <2>5, <4>6, <4>7 DEF o
      <3> QED BY <3>2, <3>3
    <2>9. ASSUME NEW p \in Job, Complete(p) \/ Throw(p)
          PROVE  jobs' = jobs /\ pending' = pending
      BY <2>9 DEF Complete, Throw, Settle
    <2>10. ASSUME NEW p \in Job, CancelQueued(p)
           PROVE  Cared(id)'
      <3>1. /\ jobs[IdOf[p]] = p /\ status[p] = "queued" /\ jobs' = jobs
            /\ pending' = RemoveFirst(pending, IdOf[p])
            /\ status' = [status EXCEPT ![p] = "cancelled"]
        BY <2>10 DEF CancelQueued, RemoveQueued
      <3>2. CASE IdOf[p] = id
        BY <1>2, <3>1, <3>2 DEF StoreInv, StoreTypeOK, TypeOK
      <3>3. CASE IdOf[p] # id /\ ~Contains(pending, IdOf[p])
        <4>1. pending' = pending
          BY <3>1, <3>3 DEF RemoveFirst, Contains
        <4> QED BY <1>5, <2>4, <2>5, <3>1, <4>1 DEF o
      <3>4. CASE IdOf[p] # id /\ Contains(pending, IdOf[p])
        <4>1. PICK c \in 1..Len(pending) :
                /\ pending[c] = IdOf[p]
                /\ Len(pending') = Len(pending) - 1
                /\ \A i \in 1..(Len(pending)-1) :
                     pending'[i] = IF i < c THEN pending[i] ELSE pending[i+1]
          <5>1. \E i \in 1..Len(pending) : pending[i] = IdOf[p]
            BY <3>4 DEF Contains
          <5>2. pending \in Seq(Id)
            BY <2>2
          <5>3. \E c \in 1..Len(pending) :
                  /\ pending[c] = IdOf[p]
                  /\ \A j \in 1..(c-1) : pending[j] # IdOf[p]
                  /\ Len(RemoveFirst(pending, IdOf[p])) = Len(pending) - 1
                  /\ \A i \in 1..(Len(pending)-1) :
                       RemoveFirst(pending, IdOf[p])[i] = IF i < c THEN pending[i] ELSE pending[i+1]
            BY <5>1, <5>2, RemoveFirstPositions
          <5> QED BY <3>1, <5>3
        <4>2. k # c
          BY <2>3, <3>4, <4>1
        <4>3. CASE k < c
          <5>1. k \in 1..(Len(pending)-1) /\ pending'[k] = id
            BY <2>2, <2>3, <4>1, <4>3
          <5> QED BY <1>5, <2>4, <2>5, <3>1, <4>1, <5>1 DEF Contains, o
        <4>4. CASE k > c
          <5>1. k-1 \in 1..(Len(pending)-1) /\ pending'[k-1] = id
            BY <2>2, <2>3, <4>1, <4>4
          <5> QED BY <1>5, <2>4, <2>5, <3>1, <4>1, <5>1 DEF Contains, o
        <4> QED BY <2>2, <4>2, <4>3, <4>4
      <3> QED BY <3>2, <3>3, <3>4
    <2>11. ASSUME NEW p \in Job, Expire(p)
           PROVE  Cared(id)'
      <3>1. /\ p \in expiring /\ jobs' = [jobs EXCEPT ![IdOf[p]] = NoJob]
            /\ pending' = pending /\ status' = status
        BY <2>11 DEF Expire
      <3>2. CASE IdOf[p] = id
        <4>1. status[p] \notin {"unborn", "queued"}
          BY <3>1, StatusValues DEF MapInv, ExpiringEnded, Terminal
        <4>2. Telling(p)
          BY <3>2, <4>1 DEF TableInv
        <4> QED BY <1>1, <3>2, <4>2 DEF Cared
      <3>3. CASE IdOf[p] # id
        <4>1. jobs'[id] = o
          BY <3>1, <3>3 DEF o, StoreInv, StoreTypeOK, TypeOK
        <4> QED BY <1>5, <2>4, <3>1, <4>1 DEF o
      <3> QED BY <3>2, <3>3
    <2>12. ASSUME NEW p \in Job, JobStep(p)
           PROVE  Cared(id)'
      <3>1. CASE Complete(p) \/ Throw(p)
        BY <1>5, <2>4, <2>5, <2>9, <3>1 DEF o
      <3>2. CASE KeyCompleted(p) \/ KeyFailed(p) \/ BaselineLookedUp(p) \/ Advance(p)
                 \/ Deadline(p) \/ CancelRunning(p)
        BY <2>6, <3>2 DEF KeyCompleted, KeyFailed, BaselineLookedUp, Advance, Deadline, CancelRunning
      <3> QED BY <2>10, <2>11, <2>12, <3>1, <3>2 DEF JobStep
    <2> QED BY <1>1, <2>7, <2>8, <2>12 DEF Loop
  <1> QED BY <1>3, <1>4, <1>5 DEF Cared

\* A sequence of all elements of a finite set holds each of them.
LEMMA OrderHoldsAll ==
  ASSUME NEW S, IsFiniteSet(S), NEW order \in SetToSeqs(S), NEW e \in S
  PROVE  Contains(order, e)
PROOF
  <1> DEFINE n == Cardinality(S)
  <1>1. n \in Nat
    BY FS_CardinalityType
  <1>2. order \in [1..n -> S] /\ \A i, j \in 1..n : i # j => order[i] # order[j]
    BY DEF SetToSeqs
  <1>3. order \in Injection(1..n, S)
    BY <1>2 DEF Injection, IsInjective
  <1>4. IsFiniteSet(1..n) /\ Cardinality(1..n) = n
    BY <1>1, FS_Interval
  <1>5. order \in Surjection(1..n, S)
    BY <1>3, <1>4, FS_Injection
  <1>6. PICK i \in 1..n : order[i] = e
    BY <1>5 DEF Surjection
  <1>7. Len(order) = n
    <2> HIDE DEF n
    <2> QED BY <1>1, <1>2
  <1> QED BY <1>6, <1>7 DEF Contains

\* No step breaks that a row queued is waiting or about to be restored.
LEMMA QueuedIsCaredStep ==
  ASSUME ~WritesMayFail, StoreInv, MapInv, TableInv, QueuedIsCared, [StoreNext]_storeVars
  PROVE  QueuedIsCared'
PROOF
  <1> USE JobAssumption
  <1> SUFFICES ASSUME NEW id \in Id, row'[id] = "queued"
               PROVE  \/ recovery' \in {"readRunning", "close"}
                      \/ recovery' = "enqueue" /\ Contains(restored, id)'
                      \/ id \in overlooked'
                      \/ Cared(id)'
    BY DEF QueuedIsCared
  \* Where the boot does not move and the row waited before, what took care of
  \* it has to go on.
  <1>1. ASSUME UNCHANGED <<recovery, restored, overlooked>>, row[id] = "queued", Cared(id) => Cared(id)'
        PROVE  \/ recovery' \in {"readRunning", "close"}
               \/ recovery' = "enqueue" /\ Contains(restored, id)'
               \/ id \in overlooked'
               \/ Cared(id)'
    BY <1>1 DEF QueuedIsCared, Contains
  <1>2. ASSUME UNCHANGED <<status, pending, inserted, writes>>, jobs'[id] = jobs[id]
        PROVE  Cared(id)' <=> Cared(id)
    BY <1>2 DEF Cared, Contains
  <1>3. CASE QueueStep
    BY <1>1, <1>3, QueueStepKeepsCared DEF QueueStep, recoveryVars
  <1>4. ASSUME NEW o \in Job, InsertRow(o)
        PROVE  \/ recovery' \in {"readRunning", "close"}
               \/ recovery' = "enqueue" /\ Contains(restored, id)'
               \/ id \in overlooked'
               \/ Cared(id)'
    <2>1. /\ inserted' = inserted \cup {o}
          /\ row' = [row EXCEPT ![IdOf[o]] = "queued"]
          /\ UNCHANGED <<queueVars, writes, recovery, restored, overlooked>>
      BY <1>4 DEF InsertRow, recoveryVars
    <2>2. CASE IdOf[o] = id
      BY <2>1, <2>2 DEF Cared
    <2>3. CASE IdOf[o] # id
      <3>1. row[id] = "queued"
        BY <2>1, <2>3 DEF StoreInv, StoreTypeOK
      <3>2. Cared(id) => Cared(id)'
        BY <2>1 DEF Cared, Contains, queueVars
      <3> QED BY <1>1, <2>1, <3>1, <3>2
    <2> QED BY <2>2, <2>3
  <1>5. ASSUME NEW o \in Job, AdmitInserted(o)
        PROVE  \/ recovery' \in {"readRunning", "close"}
               \/ recovery' = "enqueue" /\ Contains(restored, id)'
               \/ id \in overlooked'
               \/ Cared(id)'
    <2>1. /\ o # NoJob /\ IdOf[o] \in Id /\ status[o] = "unborn" /\ status'[o] = "queued"
          /\ \A p \in Job \ {o} : status'[p] = status[p]
          /\ jobs'[IdOf[o]] = o /\ \A i \in Id \ {IdOf[o]} : jobs'[i] = jobs[i]
          /\ inserted' = inserted \ {o}
          /\ UNCHANGED <<row, writes, recovery, restored, overlooked>>
      BY <1>5 DEF AdmitInserted, Admit, Enqueue, recoveryVars, StoreInv, StoreTypeOK, TypeOK, IdInv
    <2>2. /\ Len(pending) \in Nat /\ Len(pending') = Len(pending) + 1
          /\ \A i \in 1..Len(pending) : pending'[i] = pending[i]
          /\ pending'[Len(pending) + 1] = IdOf[o]
      BY <1>5, <2>1, AppendProperties, LenProperties
      DEF AdmitInserted, Admit, Enqueue, StoreInv, StoreTypeOK, TypeOK
    <2>3. CASE IdOf[o] = id
      <3>1. Contains(pending', id)
        BY <2>2, <2>3 DEF Contains
      <3> QED BY <2>1, <2>3, <3>1 DEF Cared
    <2>4. CASE IdOf[o] # id
      <3>1. Contains(pending, id) => Contains(pending', id)
        BY <2>2 DEF Contains
      <3>2. jobs[id] # NoJob => jobs[id] \in Job
        BY DEF StoreInv, StoreTypeOK, TypeOK
      <3>3. Cared(id) => Cared(id)'
        BY <2>1, <2>4, <3>1, <3>2 DEF Cared
      <3> QED BY <1>1, <2>1, <3>3
    <2> QED BY <2>3, <2>4
  <1>6. ASSUME NEW w \in writes, UpdateLands(w)
        PROVE  \/ recovery' \in {"readRunning", "close"}
               \/ recovery' = "enqueue" /\ Contains(restored, id)'
               \/ id \in overlooked'
               \/ Cared(id)'
    <2>1. /\ w.job \in Job /\ IdOf[w.job] \in Id /\ w.status # "queued"
          /\ writes' = writes \ {w}
          /\ row' = [row EXCEPT ![IdOf[w.job]] = IF @ = "none" THEN "none" ELSE w.status]
          /\ UNCHANGED <<queueVars, inserted, recovery, restored, overlooked>>
      BY <1>6 DEF UpdateLands, StoreInv, StoreTypeOK, vars, queueVars, recoveryVars
    <2>2. IdOf[w.job] # id /\ row[id] = "queued"
      BY <2>1 DEF StoreInv, StoreTypeOK
    <2>3. Cared(id) => Cared(id)'
      BY <2>1, <2>2 DEF Cared, Contains, queueVars
    <2> QED BY <1>1, <2>1, <2>2, <2>3
  <1>7. ASSUME NEW w \in writes
        PROVE  ~UpdateLost(w)
    BY DEF UpdateLost
  <1>8. CASE ReadRunning \/ (\E i \in Id : CloseOrphan(i) \/ CloseFails(i)) \/ Crash
    BY <1>8 DEF ReadRunning, CloseOrphan, CloseFails, Crash
  <1>9. CASE ReadQueued
    <2>1. id \in QueuedRows /\ IsFiniteSet(QueuedRows)
      BY <1>9, IdFinite, FS_Subset DEF ReadQueued, QueuedRows
    <2> SUFFICES ASSUME \E order \in SetToSeqs(QueuedRows) : restored' = order
                 PROVE  recovery' = "enqueue" /\ Contains(restored, id)'
      BY <1>9, <2>1 DEF ReadQueued
    <2>2. PICK order \in SetToSeqs(QueuedRows) : restored' = order
      OBVIOUS
    <2>3. Contains(order, id)
      BY <2>1, <2>2, OrderHoldsAll
    <2> QED BY <1>9, <2>2, <2>3 DEF ReadQueued, Contains
  <1>10. CASE EnqueueRestored
    <2>1. /\ pending \in Seq(Id) /\ restored \in Seq(Id) /\ pending' = pending \o restored
          /\ Len(pending) \in Nat /\ Len(restored) \in Nat
      BY <1>10, RestoreEffects, LenProperties DEF StoreInv, StoreTypeOK, TypeOK
    <2>2. /\ Len(pending') = Len(pending) + Len(restored)
          /\ \A i \in 1..(Len(pending) + Len(restored)) :
               pending'[i] = IF i <= Len(pending) THEN pending[i] ELSE restored[i - Len(pending)]
      BY <2>1, ConcatProperties
    <2>3. CASE Contains(restored, id)
      <3>1. PICK k \in 1..Len(restored) : restored[k] = id
        BY <2>3 DEF Contains
      <3>2. Len(pending) + k \in 1..Len(pending') /\ pending'[Len(pending) + k] = id
        BY <2>1, <2>2, <3>1
      <3>3. id \in ToSet(restored)
        BY <2>1, <3>1, LenProperties DEF ToSet
      <3> QED BY <1>10, <3>2, <3>3, RestoreEffects DEF Cared, Contains
    <2>0. CASE id \in overlooked
      BY <1>10, <2>0 DEF EnqueueRestored
    <2>4. CASE ~Contains(restored, id) /\ id \notin overlooked
      <3>1. Cared(id)
        BY <1>10, <2>4, RestoreEffects DEF QueuedIsCared
      <3>2. id \notin ToSet(restored)
        BY <2>1, <2>4, LenProperties DEF ToSet, Contains
      <3>3. jobs'[id] = jobs[id]
        BY <1>10, <3>2, RestoreEffects
      <3>4. Contains(pending, id) => Contains(pending', id)
        BY <2>1, <2>2 DEF Contains
      <3>5. jobs[id] # NoJob => jobs[id] \in Job
        BY DEF StoreInv, StoreTypeOK, TypeOK
      <3>6. /\ \A o \in Job : status[o] # "unborn" => status'[o] = status[o]
            /\ UNCHANGED <<inserted, writes>>
        BY <1>10, RestoreEffects
      <3> QED BY <3>1, <3>3, <3>4, <3>5, <3>6 DEF Cared
    <2> QED BY <2>0, <2>3, <2>4
  <1>11. CASE DeleteRows
    BY <1>11 DEF DeleteRows
  <1>12. CASE ListHistory \/ UNCHANGED storeVars
    BY <1>1, <1>2, <1>12 DEF ListHistory, storeVars, vars, queueVars, recoveryVars
  <1>13. CASE ClearWiped
    <2>1. id \notin wiped
      BY <1>13 DEF ClearWiped, TableInv
    <2> QED BY <1>1, <1>2, <1>13, <2>1 DEF ClearWiped, recoveryVars
  <1> QED
    BY <1>3, <1>4, <1>5, <1>6, <1>7, <1>8, <1>9, <1>10, <1>11, <1>12, <1>13 DEF StoreNext

\* After recovery no row is left "queued" or "running" without anybody working
\* on it, but those a query of the boot that failed did not tell of: even where
\* requests arrive while recovery runs and whichever queries fail, as long as
\* updates are neither lost nor overtaken.
THEOREM NoRowIsForgotten ==
  ASSUME OrderedWrites, ~WritesMayFail
  PROVE  StoreSpec => []NoGhostRow
PROOF
  <1>1. StoreInv /\ GhostInv /\ [StoreNext]_storeVars => GhostInv'
    BY MapInvStep, TableInvStep, RunningIsCaredStep, QueuedIsCaredStep DEF GhostInv
  <1>2. GhostInv => NoGhostRow
    BY DEF GhostInv, RunningIsCared, QueuedIsCared, NoGhostRow, Live, Cared, Executing, Telling
  <1> QED BY <1>1, <1>2, GhostInvInit, StoreInvAlways, PTL DEF StoreSpec

=============================================================================

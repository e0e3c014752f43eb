-------------------------- MODULE ScanQueueProofs --------------------------
(* What TLAPS proves of ScanQueue for every number of analyses, every limit  *)
(* of concurrency and every assignment of ids to objects: types, the slot    *)
(* accounting, that cancellation and deadline are honoured, that an ended    *)
(* analysis stays as it ended, that the order of the queue is of those that  *)
(* wait, that retention spares who has not ended, that no work is stranded,  *)
(* and that the queue keeps to AnalysisBoard.                                *)
EXTENDS ScanQueue, FiniteSetTheorems, SequenceTheorems, WellFoundedInduction, TLAPS

-----------------------------------------------------------------------------
(* Sequences                                                                 *)

\* Every non-empty set of positions has a least one: the initial segments of
\* 1..n are well-founded under strict inclusion.
LEMMA LeastPosition ==
  ASSUME NEW n \in Nat, NEW I \in SUBSET (1..n), I # {}
  PROVE  \E m \in I : \A k \in I : m <= k
PROOF
  <1> DEFINE T == {1..k : k \in I}
  <1>1. IsFiniteSet(1..n)
    BY FS_Interval
  <1>2. IsWellFoundedOn(StrictSubsetOrdering(1..n), FiniteSubsetsOf(1..n))
    BY FS_StrictSubsetOrderingWellFounded
  <1>3. T # {} /\ T \subseteq FiniteSubsetsOf(1..n)
    <2>1. \A k \in I : 1..k \subseteq 1..n /\ IsFiniteSet(1..k)
      BY FS_Interval
    <2> QED BY <2>1 DEF FiniteSubsetsOf
  <1>4. \E x \in T : \A y \in T : ~(<<y, x>> \in StrictSubsetOrdering(1..n))
    <2> HIDE DEF T
    <2> QED BY <1>2, <1>3, WFMin
  <1>5. PICK m \in I : \A k \in I : <<1..k, 1..m>> \notin StrictSubsetOrdering(1..n)
    BY <1>4
  <1>6. \A k \in I : m <= k
    <2> SUFFICES ASSUME NEW k \in I, k < m
                 PROVE  FALSE
      OBVIOUS
    <2>1. 1..k \subseteq 1..m /\ 1..m \subseteq 1..n
      OBVIOUS
    <2>2. m \in 1..m /\ m \notin 1..k
      OBVIOUS
    <2>3. 1..k # 1..m
      BY <2>2
    <2> QED BY <1>5, <2>1, <2>3 DEF StrictSubsetOrdering
  <1> QED BY <1>6

\* RemoveFirst cuts the sequence at the first position of the element.
LEMMA RemoveFirstCuts ==
  ASSUME NEW S, NEW s \in Seq(S), NEW e, \E i \in 1..Len(s) : s[i] = e
  PROVE  \E i \in 1..Len(s) :
           /\ s[i] = e
           /\ \A k \in 1..(i-1) : s[k] # e
           /\ RemoveFirst(s, e) = SubSeq(s, 1, i-1) \o SubSeq(s, i+1, Len(s))
PROOF
  <1> DEFINE I == {i \in 1..Len(s) : s[i] = e}
  <1>1. I # {} /\ I \in SUBSET (1..Len(s)) /\ Len(s) \in Nat
    BY LenProperties
  <1>2. \E m \in I : \A k \in I : m <= k
    <2> HIDE DEF I
    <2> QED BY <1>1, LeastPosition
  <1>3. Min(I) \in I /\ \A k \in I : Min(I) <= k
    BY <1>2 DEF Min
  <1>4. RemoveFirst(s, e) = RemoveAt(s, Min(I))
    BY <1>1 DEF RemoveFirst, SelectInSeq
  <1>5. \A k \in 1..(Min(I) - 1) : s[k] # e
    BY <1>1, <1>3
  <1> QED BY <1>3, <1>4, <1>5 DEF RemoveAt

\* Cutting one element out of a sequence leaves a sequence over the same set.
LEMMA RemoveFirstType ==
  ASSUME NEW S, NEW s \in Seq(S), NEW e
  PROVE  RemoveFirst(s, e) \in Seq(S)
PROOF
  <1>1. CASE \E i \in 1..Len(s) : s[i] = e
    <2>1. PICK i \in 1..Len(s) :
            RemoveFirst(s, e) = SubSeq(s, 1, i-1) \o SubSeq(s, i+1, Len(s))
      BY <1>1, RemoveFirstCuts
    <2>2. SubSeq(s, 1, i-1) \in Seq(S) /\ SubSeq(s, i+1, Len(s)) \in Seq(S)
      BY SubSeqProperties, LenProperties
    <2> QED BY <2>1, <2>2, ConcatProperties
  <1>2. CASE ~ \E i \in 1..Len(s) : s[i] = e
    BY <1>2 DEF RemoveFirst
  <1> QED BY <1>1, <1>2

-----------------------------------------------------------------------------
(* Types                                                                     *)

\* The states of an analysis, spelt out, and which of them are final.
LEMMA StatusValues ==
  /\ JobStatus = {"queued", "running", "completed", "failed", "cancelled"}
  /\ \A s : IsTerminalJobStatus(s) <=> s \in {"completed", "failed", "cancelled"}
PROOF
  BY DEF JobStatus, IsTerminalJobStatus, AllowedTransitions

\* The three actions on the queue keep its variables in range.
LEMMA EnqueueType ==
  ASSUME TypeOK, NEW o \in Job, Enqueue(o)
  PROVE  /\ jobs' \in [Id -> Job \cup {NoJob}]
         /\ pending' \in Seq(Id)
         /\ active' \in Nat
         /\ status' \in [Job -> JobStatus \cup {"unborn"}]
PROOF
  <1>1. IdOf[o] \in Id
    BY JobAssumption
  <1>2. Append(pending, IdOf[o]) \in Seq(Id)
    BY <1>1, AppendProperties DEF TypeOK
  <1> QED BY <1>1, <1>2, StatusValues DEF TypeOK, Enqueue

\* An analysis taken out of the queue leaves the types as they were.
LEMMA RemoveQueuedType ==
  ASSUME TypeOK, NEW o \in Job, RemoveQueued(o)
  PROVE  /\ jobs' \in [Id -> Job \cup {NoJob}]
         /\ pending' \in Seq(Id)
         /\ active' \in Nat
         /\ status' \in [Job -> JobStatus \cup {"unborn"}]
PROOF
  <1>1. RemoveFirst(pending, IdOf[o]) \in Seq(Id)
    BY RemoveFirstType DEF TypeOK
  <1> QED BY <1>1, StatusValues DEF TypeOK, RemoveQueued

\* A started object is one the map holds, and it was waiting.
LEMMA StartedObject ==
  ASSUME TypeOK, StartNext
  PROVE  /\ pending' \in Seq(Id)
         /\ \E o \in Job : /\ status[o] = "queued"
                           /\ status' = [status EXCEPT ![o] = "running"]
                           /\ step' = [step EXCEPT ![o] = "baseline"]
                           /\ deadlines' = deadlines \cup {o}
PROOF
  <1>1. PICK i \in DOMAIN pending :
          /\ Waiting(pending[i])
          /\ status' = [status EXCEPT ![jobs[pending[i]]] = "running"]
          /\ step' = [step EXCEPT ![jobs[pending[i]]] = "baseline"]
          /\ deadlines' = deadlines \cup {jobs[pending[i]]}
          /\ pending' = SubSeq(pending, i+1, Len(pending))
    BY DEF StartNext, FirstWaiting
  <1>2. i \in 1..Len(pending) /\ Len(pending) \in Nat /\ pending[i] \in Id
    BY LenProperties, ElementOfSeq DEF TypeOK
  <1>3. jobs[pending[i]] \in Job /\ status[jobs[pending[i]]] = "queued"
    BY <1>1, <1>2 DEF Waiting, TypeOK
  <1>4. SubSeq(pending, i+1, Len(pending)) \in Seq(Id)
    BY <1>2, SubSeqProperties DEF TypeOK
  <1> QED BY <1>1, <1>3, <1>4

\* Settling needs an occupied slot to keep #active a natural number.
LEMMA SettleType ==
  ASSUME TypeOK, NEW o \in Job, active > 0,
         NEW outcome \in {"completed", "failed", "cancelled"}, Settle(o, outcome)
  PROVE  TypeOK'
PROOF
  <1>1. active - 1 \in Nat
    BY DEF TypeOK
  <1>2. status' \in [Job -> JobStatus \cup {"unborn"}]
    BY StatusValues DEF TypeOK, Settle
  <1>3. step' \in [Job -> Step]
    BY DEF TypeOK, Settle, Step
  <1> QED BY <1>1, <1>2, <1>3 DEF TypeOK, Settle, Finish, ArmExpiry, Reschedule

-----------------------------------------------------------------------------
(* Slots                                                                     *)

\* The inductive invariant: types alone are not inductive, because #active
\* stays a natural number only while it counts the runs.
SlotInv == TypeOK /\ SlotAccounting

\* Only finitely many analyses run.
LEMMA RunningFinite ==
  ASSUME TypeOK
  PROVE  IsFiniteSet(Running)
PROOF
  <1>1. Running \subseteq Job
    BY DEF Running
  <1> QED BY <1>1, JobAssumption, FS_Subset

\* A run under way occupies a slot, so one can be given back.
LEMMA InFlightOccupiesSlot ==
  ASSUME SlotInv, NEW o \in Job, step[o] \in InFlightStep
  PROVE  /\ status[o] = "running"
         /\ active > 0
         /\ Cardinality(Running \ {o}) = active - 1
PROOF
  <1>1. o \in Running
    BY DEF SlotInv, SlotAccounting, InFlight
  <1>2. Cardinality(Running) # 0
    BY <1>1, RunningFinite, FS_EmptySet DEF SlotInv
  <1>3. active > 0
    BY <1>2 DEF SlotInv, SlotAccounting, TypeOK
  <1>4. Cardinality(Running \ {o}) = active - 1
    BY <1>1, RunningFinite, FS_RemoveElement DEF SlotInv, SlotAccounting
  <1> QED BY <1>1, <1>3, <1>4 DEF Running

\* Steps that touch neither the slots nor the runs.
LEMMA SlotsUntouched ==
  ASSUME SlotAccounting, active' = active,
         \A o \in Job : status'[o] = "running" <=> status[o] = "running",
         \A o \in Job : step'[o] \in InFlightStep <=> step[o] \in InFlightStep
  PROVE  SlotAccounting'
PROOF
  <1>1. Running' = Running /\ InFlight' = InFlight
    BY DEF Running, InFlight
  <1> QED BY <1>1 DEF SlotAccounting

\* An analysis that settles gives back the slot it held, and no other.
LEMMA SettleKeepsSlots ==
  ASSUME SlotInv, NEW o \in Job, step[o] \in InFlightStep,
         NEW outcome \in {"completed", "failed", "cancelled"}, Settle(o, outcome)
  PROVE  SlotInv'
PROOF
  <1>1. active > 0 /\ Cardinality(Running \ {o}) = active - 1
    BY InFlightOccupiesSlot
  <1>2. TypeOK'
    BY <1>1, SettleType DEF SlotInv
  <1>3. Running' = Running \ {o}
    BY DEF Running, Settle, SlotInv, TypeOK
  <1>4. InFlight' = InFlight \ {o}
    BY DEF InFlight, InFlightStep, Settle, SlotInv, TypeOK
  <1>5. active' = active - 1 /\ active' <= Concurrency
    BY ConcurrencyAssumption DEF Settle, Finish, SlotInv, TypeOK, SlotAccounting
  <1>6. SlotAccounting'
    BY <1>1, <1>3, <1>4, <1>5 DEF SlotAccounting, SlotInv
  <1> QED BY <1>2, <1>6 DEF SlotInv

\* An analysis that starts takes a slot that was free.
LEMMA StartKeepsSlots ==
  ASSUME SlotInv, StartNext
  PROVE  SlotInv'
PROOF
  <1>1. PICK o \in Job : /\ status[o] = "queued"
                         /\ status' = [status EXCEPT ![o] = "running"]
                         /\ step' = [step EXCEPT ![o] = "baseline"]
                         /\ deadlines' = deadlines \cup {o}
    BY StartedObject DEF SlotInv
  <1>2. /\ pending' \in Seq(Id) /\ active' = active + 1
        /\ UNCHANGED <<jobs, cancelRequested, aborted, expiring, dirs, posting, turn>>
    BY StartedObject DEF StartNext, SlotInv
  <1>3. TypeOK'
    BY <1>1, <1>2, StatusValues DEF SlotInv, TypeOK, Step, InFlightStep
  <1>4. Running' = Running \cup {o} /\ o \notin Running
    BY <1>1, <1>2 DEF Running, SlotInv, TypeOK
  <1>5. InFlight' = InFlight \cup {o}
    BY <1>1, <1>2 DEF InFlight, InFlightStep, SlotInv, TypeOK
  <1>6. Cardinality(Running') = Cardinality(Running) + 1
    BY <1>4, RunningFinite, FS_AddElement DEF SlotInv
  <1>7. active' <= Concurrency
    BY <1>2, ConcurrencyAssumption DEF StartNext, FreeSlot, SlotInv, TypeOK
  <1>8. SlotAccounting'
    BY <1>2, <1>4, <1>5, <1>6, <1>7 DEF SlotAccounting, SlotInv
  <1> QED BY <1>3, <1>8 DEF SlotInv

\* A new object in the queue takes no slot.
LEMMA AdmitKeepsSlots ==
  ASSUME SlotInv, NEW o \in Job, status[o] = "unborn", Admit(o), dirs' \in SUBSET Id
  PROVE  SlotInv'
PROOF
  <1>1. Enqueue(o)
    BY DEF Admit
  <1>2. TypeOK'
    BY <1>1, EnqueueType DEF SlotInv, Admit, TypeOK
  <1>3. SlotAccounting'
    BY <1>1, SlotsUntouched DEF SlotInv, Admit, Enqueue, TypeOK
  <1> QED BY <1>2, <1>3 DEF SlotInv

\* The types and the count of slots hold at first.
LEMMA SlotInvInit == Init => SlotInv
PROOF
  <1> SUFFICES ASSUME Init
               PROVE  SlotInv
    OBVIOUS
  <1>1. TypeOK
    BY EmptySeq DEF Init, TypeOK, AbortReason, Step
  <1>2. Running = {} /\ InFlight = {}
    BY DEF Init, Running, InFlight, InFlightStep
  <1>3. SlotAccounting
    BY <1>2, FS_EmptySet, ConcurrencyAssumption DEF SlotAccounting, Init
  <1> QED BY <1>1, <1>3 DEF SlotInv

\* One step of Next, action by action.
LEMMA SlotInvStep == SlotInv /\ [Next]_vars => SlotInv'
PROOF
  <1> SUFFICES ASSUME SlotInv, [Next]_vars
               PROVE  SlotInv'
    OBVIOUS
  <1> USE DEF SlotInv
  <1>1. CASE LoopEnds
    <2>1. TypeOK'
      BY <1>1, EmptySeq DEF LoopEnds, TypeOK
    <2> QED BY <1>1, <2>1, SlotsUntouched DEF LoopEnds
  <1>2. CASE StartNext
    BY <1>2, StartKeepsSlots
  <1>3. ASSUME NEW o \in Job, Create(o)
        PROVE  SlotInv'
    <2>1. status[o] = "unborn" /\ Admit(o) /\ dirs' \in SUBSET Id
      BY <1>3, JobAssumption DEF Create, Unused, TypeOK
    <2> QED BY <2>1, AdmitKeepsSlots
  <1>4. ASSUME NEW o \in Job, KeyCompleted(o)
        PROVE  SlotInv'
    <2>1. TypeOK'
      BY <1>4 DEF KeyCompleted, TypeOK, queueVars
    <2> QED BY <1>4, <2>1, SlotsUntouched DEF KeyCompleted, queueVars
  <1>5. ASSUME NEW o \in Job, KeyFailed(o)
        PROVE  SlotInv'
    <2>1. TypeOK'
      BY <1>5 DEF KeyFailed, TypeOK, queueVars
    <2> QED BY <1>5, <2>1, SlotsUntouched DEF KeyFailed, queueVars
  <1>6. ASSUME NEW o \in Job, BaselineLookedUp(o)
        PROVE  SlotInv'
    <2>1. TypeOK'
      BY <1>6 DEF BaselineLookedUp, TypeOK, queueVars, Step, InFlightStep
    <2>2. SlotAccounting'
      BY <1>6, SlotsUntouched DEF BaselineLookedUp, queueVars, InFlightStep, TypeOK
    <2> QED BY <2>1, <2>2
  <1>7. ASSUME NEW o \in Job, Advance(o)
        PROVE  SlotInv'
    <2>1. TypeOK'
      BY <1>7, JobAssumption DEF Advance, TypeOK, queueVars, Step, InFlightStep
    <2>2. SlotAccounting'
      BY <1>7, SlotsUntouched DEF Advance, queueVars, InFlightStep, TypeOK
    <2> QED BY <2>1, <2>2
  <1>8. ASSUME NEW o \in Job, Complete(o)
        PROVE  SlotInv'
    BY <1>8, SettleKeepsSlots DEF Complete, InFlightStep
  <1>9. ASSUME NEW o \in Job, Throw(o)
         PROVE  SlotInv'
    BY <1>9, SettleKeepsSlots DEF Throw, InFlightStep
  <1>10. ASSUME NEW o \in Job, Deadline(o)
         PROVE  SlotInv'
    <2>1. TypeOK'
      BY <1>10 DEF Deadline, AbortWith, AbortReason, TypeOK, queueVars
    <2> QED BY <1>10, <2>1, SlotsUntouched DEF Deadline, queueVars
  <1>11. ASSUME NEW o \in Job, Expire(o)
         PROVE  SlotInv'
    <2>1. TypeOK'
      BY <1>11, JobAssumption DEF Expire, TypeOK
    <2> QED BY <1>11, <2>1, SlotsUntouched DEF Expire
  <1>12. ASSUME NEW o \in Job, CancelQueued(o)
         PROVE  SlotInv'
    <2>1. status[o] = "queued" /\ RemoveQueued(o)
      BY <1>12 DEF CancelQueued
    <2>2. TypeOK'
      BY <1>12, <2>1, RemoveQueuedType
         DEF CancelQueued, AskToCancel, AbortWith, AbortReason, ArmExpiry, TypeOK
    <2>3. SlotAccounting'
      BY <1>12, <2>1, SlotsUntouched DEF CancelQueued, RemoveQueued, TypeOK
    <2> QED BY <2>2, <2>3
  <1>13. ASSUME NEW o \in Job, CancelRunning(o)
         PROVE  SlotInv'
    <2>1. TypeOK'
      BY <1>13 DEF CancelRunning, AskToCancel, AbortWith, AbortReason, TypeOK, queueVars
    <2> QED BY <1>13, <2>1, SlotsUntouched DEF CancelRunning, queueVars
  <1>14. CASE UNCHANGED vars
    <2>1. TypeOK'
      BY <1>14 DEF TypeOK, vars, queueVars
    <2> QED BY <1>14, <2>1, SlotsUntouched DEF vars
  <1> QED
    BY <1>1, <1>2, <1>3, <1>4, <1>5, <1>6, <1>7, <1>8, <1>9, <1>10, <1>11, <1>12,
       <1>13, <1>14
    DEF Next, Loop, JobStep

\* The types and the count of slots hold in every state.
LEMMA SlotInvAlways == Spec => []SlotInv
PROOF
  BY SlotInvInit, SlotInvStep, PTL DEF Spec

\* Every variable of the queue keeps to its range.
THEOREM TypeCorrect == Spec => []TypeOK
PROOF
  <1>1. SlotInv => TypeOK
    BY DEF SlotInv
  <1> QED BY <1>1, SlotInvAlways, PTL

\* #active is the number of running analyses and never exceeds the limit,
\* whatever the interleaving of runs, cancellations, deadlines and retention.
THEOREM SlotsAccounted == Spec => []SlotAccounting
PROOF
  <1>1. SlotInv => SlotAccounting
    BY DEF SlotInv
  <1> QED BY <1>1, SlotInvAlways, PTL

-----------------------------------------------------------------------------
(* Ended analyses                                                            *)

\* An analysis has ended when its state is final.
LEMMA TerminalValues ==
  \A o \in Job : Terminal(o) <=> status[o] \in {"completed", "failed", "cancelled"}
PROOF
  BY StatusValues DEF Terminal

\* Once it exists, an object changes state only while it waits or runs.
LEMMA LiveStatusMoves ==
  ASSUME SlotInv, Loop \/ \E o \in Job : JobStep(o)
  PROVE  \/ status' = status
         \/ \E o \in Job : CancelQueued(o) /\ status[o] = "queued"
                          /\ status' = [status EXCEPT ![o] = "cancelled"]
         \/ \E o \in Job : StartNext /\ status[o] = "queued" /\ deadlines' = deadlines \cup {o}
                          /\ status' = [status EXCEPT ![o] = "running"]
         \/ \E o \in Job : \E outcome \in {"completed", "failed", "cancelled"} :
              (Complete(o) \/ Throw(o)) /\ status[o] = "running"
              /\ status' = [status EXCEPT ![o] = outcome]
PROOF
  <1>1. CASE LoopEnds
    BY <1>1 DEF LoopEnds, queueVars
  <1>2. CASE StartNext
    BY <1>2, StartedObject DEF SlotInv
  <1>3. ASSUME NEW o \in Job, CancelQueued(o)
        PROVE  status[o] = "queued" /\ status' = [status EXCEPT ![o] = "cancelled"]
    BY <1>3 DEF CancelQueued, RemoveQueued
  <1>4. ASSUME NEW o \in Job, Complete(o) \/ Throw(o)
        PROVE  status[o] = "running" /\ \E outcome \in {"completed", "failed", "cancelled"} :
                 status' = [status EXCEPT ![o] = outcome]
    <2>1. step[o] \in InFlightStep
      BY <1>4 DEF Complete, Throw, InFlightStep
    <2> QED BY <1>4, <2>1, InFlightOccupiesSlot DEF Complete, Throw, Settle
  <1>5. ASSUME NEW o \in Job,
               KeyCompleted(o) \/ KeyFailed(o) \/ BaselineLookedUp(o) \/ Advance(o)
               \/ Deadline(o) \/ Expire(o) \/ CancelRunning(o)
        PROVE  status' = status
    BY <1>5 DEF KeyCompleted, KeyFailed, BaselineLookedUp, Advance, Deadline, Expire,
                CancelRunning, queueVars
  <1> QED BY <1>1, <1>2, <1>3, <1>4, <1>5 DEF Loop, JobStep

\* No step changes the state of an analysis that has ended.
LEMMA TerminalStep ==
  SlotInv /\ [Next]_vars => [\A o \in Job : Terminal(o) => status'[o] = status[o]]_vars
PROOF
  <1> SUFFICES ASSUME SlotInv, Next, NEW o \in Job, Terminal(o)
               PROVE  status'[o] = status[o]
    OBVIOUS
  <1>1. status[o] \in {"completed", "failed", "cancelled"}
    BY TerminalValues
  <1>2. CASE Loop \/ \E p \in Job : JobStep(p)
    BY <1>1, <1>2, LiveStatusMoves DEF SlotInv, TypeOK
  <1>3. ASSUME NEW p \in Job, Create(p)
        PROVE  status'[o] = status[o]
    <2>1. status[p] = "unborn" /\ status' = [status EXCEPT ![p] = "queued"]
      BY <1>3 DEF Create, Unused, Admit, Enqueue
    <2> QED BY <1>1, <2>1 DEF SlotInv, TypeOK
  <1> QED BY <1>2, <1>3 DEF Next

\* Once an analysis has ended, no timer, cancellation or run changes how.
THEOREM EndedStaysEnded == Spec => TerminalIsFinal
PROOF
  BY SlotInvAlways, TerminalStep, PTL DEF Spec, TerminalIsFinal

-----------------------------------------------------------------------------
(* Cancellation and deadline                                                 *)

\* A request to cancel always finds the signal aborted, and only runs under
\* way have an armed deadline: without the second part a late deadline could
\* abort the signal of an analysis that has completed.
CancelInv ==
  /\ CancelIsHonoured
  /\ \A o \in Job : cancelRequested[o] => aborted[o] # "no"
  /\ deadlines \subseteq Running

\* The promises to whoever cancelled hold at first.
LEMMA CancelInvInit == Init => CancelInv
PROOF
  BY TerminalValues DEF Init, CancelInv, CancelIsHonoured, Running

\* Steps that change none of what CancelInv speaks of.
LEMMA CancelUntouched ==
  ASSUME CancelInv, UNCHANGED <<status, cancelRequested, aborted, deadlines>>
  PROVE  CancelInv'
PROOF
  BY DEF CancelInv, CancelIsHonoured, Running, Terminal

\* Asking to cancel keeps the signal and the request together.
LEMMA AskedIsAborted ==
  ASSUME SlotInv, CancelInv, NEW o \in Job, AskToCancel(o)
  PROVE  \A p \in Job : /\ cancelRequested'[p] => aborted'[p] # "no"
                        /\ p # o => /\ cancelRequested'[p] = cancelRequested[p]
                                    /\ aborted'[p] = aborted[p]
PROOF
  BY DEF SlotInv, TypeOK, CancelInv, AskToCancel, AbortWith

\* An outcome that agrees with the request to cancel and with the signal keeps
\* the promises to whoever cancelled.
LEMMA SettleHonours ==
  ASSUME SlotInv, CancelInv, NEW o \in Job, NEW outcome \in {"completed", "failed", "cancelled"},
         Settle(o, outcome), outcome = "cancelled" <=> cancelRequested[o],
         outcome = "completed" => aborted[o] = "no"
  PROVE  CancelInv'
PROOF
  <1>1. /\ status' = [status EXCEPT ![o] = outcome]
        /\ deadlines' = deadlines \ {o}
        /\ UNCHANGED <<cancelRequested, aborted>>
    BY DEF Settle
  <1>2. \A p \in Job \ {o} : status'[p] = status[p]
    BY <1>1 DEF SlotInv, TypeOK
  <1>3. status'[o] = outcome
    BY <1>1 DEF SlotInv, TypeOK
  <1>4. CancelIsHonoured'
    BY <1>1, <1>2, <1>3, TerminalValues, StatusValues DEF CancelInv, CancelIsHonoured, Terminal
  <1>5. deadlines' \subseteq Running'
    BY <1>1, <1>2 DEF CancelInv, Running
  <1> QED BY <1>1, <1>4, <1>5 DEF CancelInv

\* No step breaks the promises to whoever cancelled.
LEMMA CancelInvStep == SlotInv /\ CancelInv /\ [Next]_vars => CancelInv'
PROOF
  <1> SUFFICES ASSUME SlotInv, CancelInv, [Next]_vars
               PROVE  CancelInv'
    OBVIOUS
  <1>1. CASE LoopEnds \/ UNCHANGED vars
    BY <1>1, CancelUntouched DEF LoopEnds, queueVars, vars
  <1>2. CASE StartNext
    <2>1. PICK o \in Job : /\ status[o] = "queued"
                           /\ status' = [status EXCEPT ![o] = "running"]
                           /\ deadlines' = deadlines \cup {o}
      BY <1>2, StartedObject DEF SlotInv
    <2>2. status'[o] = "running" /\ \A p \in Job \ {o} : status'[p] = status[p]
      BY <2>1 DEF SlotInv, TypeOK
    <2>3. UNCHANGED <<cancelRequested, aborted>>
      BY <1>2 DEF StartNext
    <2>4. CancelIsHonoured'
      BY <2>2, <2>3, StatusValues DEF CancelInv, CancelIsHonoured, Terminal
    <2>5. deadlines' \subseteq Running'
      BY <2>1, <2>2 DEF CancelInv, Running
    <2> QED BY <2>3, <2>4, <2>5 DEF CancelInv
  <1>3. ASSUME NEW o \in Job, Create(o)
        PROVE  CancelInv'
    <2>1. /\ status[o] = "unborn" /\ status' = [status EXCEPT ![o] = "queued"]
          /\ UNCHANGED <<cancelRequested, aborted, deadlines>>
      BY <1>3 DEF Create, Unused, Admit, Enqueue
    <2>2. status'[o] = "queued" /\ \A p \in Job \ {o} : status'[p] = status[p]
      BY <2>1 DEF SlotInv, TypeOK
    <2>3. CancelIsHonoured'
      BY <2>1, <2>2, StatusValues DEF CancelInv, CancelIsHonoured, Terminal
    <2>4. deadlines' \subseteq Running'
      BY <2>1, <2>2 DEF CancelInv, Running
    <2> QED BY <2>1, <2>3, <2>4 DEF CancelInv
  <1>4. ASSUME NEW o \in Job,
               KeyCompleted(o) \/ KeyFailed(o) \/ BaselineLookedUp(o) \/ Advance(o) \/ Expire(o)
        PROVE  CancelInv'
    BY <1>4, CancelUntouched
       DEF KeyCompleted, KeyFailed, BaselineLookedUp, Advance, Expire, queueVars
  <1>5. ASSUME NEW o \in Job, Complete(o)
        PROVE  CancelInv'
    <2>1. aborted[o] = "no" /\ Settle(o, "completed") /\ ~cancelRequested[o]
      BY <1>5 DEF Complete, CancelInv
    <2> QED BY <2>1, SettleHonours
  <1>6. ASSUME NEW o \in Job, Throw(o)
        PROVE  CancelInv'
    <2>1. CASE cancelRequested[o]
      BY <1>6, <2>1, SettleHonours DEF Throw
    <2>2. CASE ~cancelRequested[o]
      BY <1>6, <2>2, SettleHonours DEF Throw
    <2> QED BY <2>1, <2>2
  <1>7. ASSUME NEW o \in Job, Deadline(o)
        PROVE  CancelInv'
    <2>1. status[o] = "running"
      BY <1>7 DEF Deadline, CancelInv, Running
    <2>2. /\ UNCHANGED <<status, cancelRequested>> /\ deadlines' \subseteq deadlines
          /\ aborted' = [aborted EXCEPT ![o] = IF @ = "no" THEN "deadline" ELSE @]
      BY <1>7 DEF Deadline, AbortWith, queueVars
    <2>3. /\ \A p \in Job \ {o} : aborted'[p] = aborted[p]
          /\ aborted'[o] # "no"
      BY <2>2 DEF SlotInv, TypeOK
    <2>4. CancelIsHonoured'
      BY <2>1, <2>2, <2>3, StatusValues DEF CancelInv, CancelIsHonoured, Terminal
    <2> QED BY <2>2, <2>3, <2>4 DEF CancelInv, Running
  <1>8. ASSUME NEW o \in Job, CancelQueued(o)
        PROVE  CancelInv'
    <2>1. /\ status[o] = "queued" /\ AskToCancel(o) /\ deadlines' = deadlines
          /\ status' = [status EXCEPT ![o] = "cancelled"]
      BY <1>8 DEF CancelQueued, RemoveQueued
    <2>2. /\ status'[o] = "cancelled" /\ \A p \in Job \ {o} : status'[p] = status[p]
          /\ cancelRequested'[o]
      BY <2>1 DEF SlotInv, TypeOK, AskToCancel
    <2>3. CancelIsHonoured'
      BY <2>1, <2>2, AskedIsAborted DEF CancelInv, CancelIsHonoured, Terminal
    <2>4. deadlines' \subseteq Running'
      BY <2>1, <2>2 DEF CancelInv, Running
    <2> QED BY <2>1, <2>3, <2>4, AskedIsAborted DEF CancelInv
  <1>9. ASSUME NEW o \in Job, CancelRunning(o)
        PROVE  CancelInv'
    <2>1. /\ status[o] = "running" /\ AskToCancel(o)
          /\ deadlines' = deadlines /\ status' = status
      BY <1>9 DEF CancelRunning, queueVars
    <2>2. CancelIsHonoured'
      BY <2>1, AskedIsAborted, StatusValues DEF CancelInv, CancelIsHonoured, Terminal
    <2> QED BY <2>1, <2>2, AskedIsAborted DEF CancelInv, Running
  <1> QED
    BY <1>1, <1>2, <1>3, <1>4, <1>5, <1>6, <1>7, <1>8, <1>9 DEF Next, Loop, JobStep

\* A cancellation answered with 202 is never overtaken by another outcome, and
\* no analysis whose signal was aborted completes.
THEOREM CancellationHonoured == Spec => []CancelIsHonoured
PROOF
  <1>1. CancelInv => CancelIsHonoured
    BY DEF CancelInv
  <1>2. Spec => []CancelInv
    BY SlotInvAlways, CancelInvInit, CancelInvStep, PTL DEF Spec
  <1> QED BY <1>1, <1>2, PTL

-----------------------------------------------------------------------------
(* Order and retention                                                       *)

\* Two objects of one id are never both born, so the map cannot hold one of
\* them while a timer forgets the other.
OneObjectPerId ==
  \A o, p \in Job :
    IdOf[o] = IdOf[p] /\ status[o] # "unborn" /\ status[p] # "unborn" => o = p

MapKnowsIds ==
  \A id \in Id : jobs[id] # NoJob => IdOf[jobs[id]] = id /\ status[jobs[id]] # "unborn"

ExpiringEnded == \A o \in expiring : Terminal(o)

\* The order of the queue and the reach of retention need each other: a timer
\* that forgot a waiting analysis would leave an id in #pending without object.
QueueInv ==
  /\ PendingIsTheWaitingJobs
  /\ RetentionSparesLiveJobs
  /\ OneObjectPerId
  /\ MapKnowsIds
  /\ ExpiringEnded

\* The order of the queue and the reach of retention hold at first.
LEMMA QueueInvInit == Init => QueueInv
PROOF
  BY StatusValues, EmptySeq
  DEF Init, QueueInv, PendingIsTheWaitingJobs, RetentionSparesLiveJobs, OneObjectPerId,
      MapKnowsIds, ExpiringEnded, Terminal

\* Steps that leave the map, the queue, the states and the timers alone, and
\* remove no directory.
LEMMA QueueUntouched ==
  ASSUME QueueInv, UNCHANGED <<jobs, pending, status, expiring>>, dirs \subseteq dirs'
  PROVE  QueueInv'
PROOF
  BY DEF QueueInv, PendingIsTheWaitingJobs, RetentionSparesLiveJobs, OneObjectPerId,
         MapKnowsIds, ExpiringEnded, Terminal, Waiting

\* What stands at a position of the queue.
LEMMA PendingObject ==
  ASSUME SlotInv, QueueInv, NEW i \in 1..Len(pending)
  PROVE  /\ pending[i] \in Id /\ jobs[pending[i]] \in Job
         /\ IdOf[jobs[pending[i]]] = pending[i]
         /\ status[jobs[pending[i]]] = "queued"
PROOF
  <1>1. pending[i] \in Id /\ i \in DOMAIN pending
    BY ElementOfSeq, LenProperties DEF SlotInv, TypeOK
  <1>2. jobs[pending[i]] # NoJob /\ status[jobs[pending[i]]] = "queued"
    BY <1>1 DEF QueueInv, PendingIsTheWaitingJobs, Waiting
  <1> QED BY <1>1, <1>2 DEF SlotInv, TypeOK, QueueInv, MapKnowsIds

\* schedule() never skips: the first id of the queue is the one that starts.
LEMMA StartTakesTheFirst ==
  ASSUME SlotInv, QueueInv, StartNext
  PROVE  /\ pending # <<>> /\ pending' = Tail(pending)
         /\ status' = [status EXCEPT ![jobs[pending[1]]] = "running"]
PROOF
  <1>1. PICK i \in DOMAIN pending :
          /\ FirstWaiting(i)
          /\ status' = [status EXCEPT ![jobs[pending[i]]] = "running"]
          /\ pending' = SubSeq(pending, i+1, Len(pending))
    BY DEF StartNext
  <1>2. DOMAIN pending = 1..Len(pending) /\ Len(pending) \in Nat
    BY LenProperties DEF SlotInv, TypeOK
  <1>3. i = 1
    <2>1. 1 \in 1..Len(pending) /\ Waiting(pending[1])
      BY <1>2 DEF QueueInv, PendingIsTheWaitingJobs
    <2> QED BY <1>1, <1>2, <2>1 DEF FirstWaiting
  <1>4. pending # <<>>
    BY <1>2, EmptySeq
  <1> QED BY <1>1, <1>3, <1>4, TailIsSubSeq DEF SlotInv, TypeOK

\* A new analysis goes to the end of the queue and is remembered.
LEMMA CreateKeepsQueue ==
  ASSUME SlotInv, QueueInv, NEW o \in Job, Create(o)
  PROVE  QueueInv'
PROOF
  <1>1. /\ IdOf[o] \in Id /\ o # NoJob
        /\ \A p \in Job : IdOf[p] = IdOf[o] => status[p] = "unborn"
        /\ jobs' = [jobs EXCEPT ![IdOf[o]] = o]
        /\ pending' = Append(pending, IdOf[o])
        /\ status' = [status EXCEPT ![o] = "queued"]
        /\ expiring' = expiring /\ dirs' = dirs \cup {IdOf[o]}
    BY JobAssumption DEF Create, Unused, Admit, Enqueue
  <1>2. /\ status'[o] = "queued" /\ \A p \in Job \ {o} : status'[p] = status[p]
        /\ jobs'[IdOf[o]] = o /\ \A id \in Id \ {IdOf[o]} : jobs'[id] = jobs[id]
    BY <1>1 DEF SlotInv, TypeOK
  <1>3. /\ Len(pending) \in Nat /\ DOMAIN pending = 1..Len(pending)
        /\ DOMAIN pending' = 1..(Len(pending) + 1)
        /\ \A i \in 1..Len(pending) : pending'[i] = pending[i]
        /\ pending'[Len(pending) + 1] = IdOf[o]
    BY <1>1, AppendProperties, LenProperties DEF SlotInv, TypeOK
  <1>4. \A i \in 1..Len(pending) : pending[i] # IdOf[o]
    <2> SUFFICES ASSUME NEW i \in 1..Len(pending), pending[i] = IdOf[o]
                 PROVE  FALSE
      OBVIOUS
    <2>1. jobs[pending[i]] \in Job /\ IdOf[jobs[pending[i]]] = IdOf[o]
          /\ status[jobs[pending[i]]] = "queued"
      BY PendingObject
    <2> QED BY <1>1, <2>1
  <1>5. PendingIsTheWaitingJobs'
    <2>1. \A i \in DOMAIN pending' : Waiting(pending[i])' 
      <3> SUFFICES ASSUME NEW i \in 1..(Len(pending) + 1)
                   PROVE  jobs'[pending'[i]] # NoJob /\ status'[jobs'[pending'[i]]] = "queued"
        BY <1>3 DEF Waiting
      <3>1. CASE i = Len(pending) + 1
        BY <1>1, <1>2, <1>3, <3>1
      <3>2. CASE i \in 1..Len(pending)
        <4>1. /\ pending[i] \in Id /\ jobs[pending[i]] \in Job
              /\ status[jobs[pending[i]]] = "queued"
          BY <3>2, PendingObject
        <4>2. jobs'[pending'[i]] = jobs[pending[i]] /\ pending'[i] = pending[i]
          BY <1>2, <1>3, <1>4, <3>2, <4>1
        <4> QED BY <1>2, <4>1, <4>2, JobAssumption
      <3> QED BY <1>3, <3>1, <3>2
    <2>2. \A i, k \in DOMAIN pending' : pending'[i] = pending'[k] => i = k
      <3>1. \A i, k \in 1..Len(pending) : pending[i] = pending[k] => i = k
        BY <1>3 DEF QueueInv, PendingIsTheWaitingJobs
      <3> QED BY <1>3, <1>4, <3>1
    <2>3. ASSUME NEW p \in Job, status'[p] = "queued"
          PROVE  jobs'[IdOf[p]] = p /\ \E i \in DOMAIN pending' : pending'[i] = IdOf[p]
      <3>1. CASE p = o
        BY <1>2, <1>3, <3>1
      <3>2. CASE p # o
        <4>1. /\ status[p] = "queued" /\ jobs[IdOf[p]] = p
              /\ \E i \in 1..Len(pending) : pending[i] = IdOf[p]
          BY <1>2, <1>3, <2>3, <3>2 DEF QueueInv, PendingIsTheWaitingJobs
        <4>2. IdOf[p] # IdOf[o] /\ IdOf[p] \in Id
          BY <1>1, <4>1, JobAssumption
        <4> QED BY <1>2, <1>3, <4>1, <4>2
      <3> QED BY <3>1, <3>2
    <2> QED BY <2>1, <2>2, <2>3 DEF PendingIsTheWaitingJobs
  <1>6. RetentionSparesLiveJobs'
    <2> SUFFICES ASSUME NEW p \in Job
                 PROVE  /\ status'[p] \in {"queued", "running"} =>
                              jobs'[IdOf[p]] = p /\ IdOf[p] \in dirs' /\ p \notin expiring'
                        /\ Terminal(p)' /\ jobs'[IdOf[p]] = p => p \in expiring'
      BY DEF RetentionSparesLiveJobs
    <2>1. CASE p = o
      <3>1. o \notin expiring
        BY <1>1, TerminalValues DEF QueueInv, ExpiringEnded
      <3> QED BY <1>1, <1>2, <2>1, <3>1, StatusValues DEF Terminal
    <2>2. CASE p # o
      <3>1. status'[p] = status[p] /\ IdOf[p] \in Id
        BY <1>2, <2>2, JobAssumption
      <3>2. status[p] # "unborn" => IdOf[p] # IdOf[o]
        BY <1>1
      <3>3. Terminal(p)' <=> Terminal(p)
        BY <3>1 DEF Terminal
      <3>4. Terminal(p) => status[p] # "unborn"
        BY StatusValues DEF Terminal
      <3> QED BY <1>1, <1>2, <2>2, <3>1, <3>2, <3>3, <3>4 DEF QueueInv, RetentionSparesLiveJobs
    <2> QED BY <2>1, <2>2
  <1>7. OneObjectPerId'
    BY <1>1, <1>2 DEF QueueInv, OneObjectPerId
  <1>8. MapKnowsIds'
    <2> SUFFICES ASSUME NEW id \in Id, jobs'[id] # NoJob
                 PROVE  IdOf[jobs'[id]] = id /\ status'[jobs'[id]] # "unborn"
      BY DEF MapKnowsIds
    <2>1. CASE id = IdOf[o]
      BY <1>2, <2>1
    <2>2. CASE id # IdOf[o]
      <3>1. jobs[id] \in Job /\ IdOf[jobs[id]] = id /\ status[jobs[id]] # "unborn"
        BY <1>2, <2>2 DEF SlotInv, TypeOK, QueueInv, MapKnowsIds
      <3> QED BY <1>2, <2>2, <3>1
    <2> QED BY <2>1, <2>2
  <1>9. ExpiringEnded'
    <2> SUFFICES ASSUME NEW p \in expiring
                 PROVE  Terminal(p)'
      BY <1>1 DEF ExpiringEnded
    <2>1. Terminal(p) /\ p \in Job
      BY DEF SlotInv, TypeOK, QueueInv, ExpiringEnded
    <2>2. p # o
      BY <1>1, <2>1, TerminalValues
    <2> QED BY <1>2, <2>1, <2>2 DEF Terminal
  <1> QED BY <1>5, <1>6, <1>7, <1>8, <1>9 DEF QueueInv

\* RemoveFirst, position by position.
LEMMA RemoveFirstPositions ==
  ASSUME NEW S, NEW s \in Seq(S), NEW e, \E i \in 1..Len(s) : s[i] = e
  PROVE  \E c \in 1..Len(s) :
           /\ s[c] = e
           /\ \A k \in 1..(c-1) : s[k] # e
           /\ Len(RemoveFirst(s, e)) = Len(s) - 1
           /\ \A i \in 1..(Len(s)-1) :
                RemoveFirst(s, e)[i] = IF i < c THEN s[i] ELSE s[i+1]
PROOF
  <1>1. PICK c \in 1..Len(s) :
          /\ s[c] = e
          /\ \A k \in 1..(c-1) : s[k] # e
          /\ RemoveFirst(s, e) = SubSeq(s, 1, c-1) \o SubSeq(s, c+1, Len(s))
    BY RemoveFirstCuts
  <1> DEFINE left == SubSeq(s, 1, c-1)
             right == SubSeq(s, c+1, Len(s))
  <1>2. Len(s) \in Nat /\ \A i \in 1..Len(s) : s[i] \in S
    BY LenProperties, ElementOfSeq
  <1>3. left \in Seq(S) /\ Len(left) = c-1 /\ \A i \in 1..(c-1) : left[i] = s[i]
    BY <1>2, SubSeqProperties
  <1>4. /\ right \in Seq(S) /\ Len(right) = Len(s) - c
        /\ \A i \in 1..(Len(s) - c) : right[i] = s[c+i]
    BY <1>2, SubSeqProperties
  <1>5. /\ Len(left \o right) = Len(s) - 1
        /\ \A i \in 1..(Len(s)-1) :
             (left \o right)[i] = IF i <= c-1 THEN left[i] ELSE right[i - (c-1)]
    <2> HIDE DEF left, right
    <2>1. Len(left) + Len(right) = Len(s) - 1 /\ Len(left) = c-1
      BY <1>2, <1>3, <1>4
    <2>2. /\ Len(left \o right) = Len(left) + Len(right)
          /\ \A i \in 1..(Len(left) + Len(right)) :
               (left \o right)[i] = IF i <= Len(left) THEN left[i] ELSE right[i - Len(left)]
      BY <1>3, <1>4, ConcatProperties
    <2> QED BY <2>1, <2>2
  <1>6. ASSUME NEW i \in 1..(Len(s)-1)
        PROVE  (left \o right)[i] = IF i < c THEN s[i] ELSE s[i+1]
    <2> HIDE DEF left, right
    <2>1. CASE i < c
      <3>1. i <= c-1 /\ i \in 1..(c-1)
        BY <1>2, <2>1
      <3> QED BY <1>3, <1>5, <2>1, <3>1
    <2>2. CASE ~(i < c)
      <3>1. /\ ~(i <= c-1) /\ i - (c-1) \in 1..(Len(s) - c)
            /\ c + (i - (c-1)) = i + 1
        BY <1>2, <2>2
      <3> QED BY <1>4, <1>5, <2>2, <3>1
    <2> QED BY <2>1, <2>2
  <1> QED BY <1>1, <1>5, <1>6

\* One waiting analysis leaves the queue, from whichever position.
LEMMA OneLeavesTheQueue ==
  ASSUME SlotInv, QueueInv, jobs' = jobs, pending' \in Seq(Id),
         NEW c \in 1..Len(pending), NEW o \in Job, jobs[pending[c]] = o,
         status'[o] # "queued", \A p \in Job \ {o} : status'[p] = status[p],
         Len(pending') = Len(pending) - 1,
         \A i \in 1..(Len(pending)-1) :
           pending'[i] = IF i < c THEN pending[i] ELSE pending[i+1]
  PROVE  PendingIsTheWaitingJobs'
PROOF
  <1>1. /\ Len(pending) \in Nat /\ DOMAIN pending = 1..Len(pending)
        /\ DOMAIN pending' = 1..(Len(pending) - 1)
    BY LenProperties DEF SlotInv, TypeOK
  <1>2. \A i, k \in 1..Len(pending) : pending[i] = pending[k] => i = k
    BY <1>1 DEF QueueInv, PendingIsTheWaitingJobs
  <1> DEFINE old(i) == IF i < c THEN i ELSE i+1
  <1>3. \A i \in 1..(Len(pending)-1) :
          old(i) \in 1..Len(pending) /\ old(i) # c /\ pending'[i] = pending[old(i)]
    BY <1>1
  <1>4. \A i \in DOMAIN pending' : Waiting(pending[i])'
    <2> SUFFICES ASSUME NEW i \in 1..(Len(pending)-1)
                 PROVE  jobs[pending'[i]] # NoJob /\ status'[jobs[pending'[i]]] = "queued"
      BY <1>1 DEF Waiting
    <2> HIDE DEF old
    <2>1. /\ jobs[pending[old(i)]] \in Job /\ IdOf[jobs[pending[old(i)]]] = pending[old(i)]
          /\ status[jobs[pending[old(i)]]] = "queued"
      BY <1>3, PendingObject
    <2>2. IdOf[o] = pending[c]
      BY PendingObject
    <2>3. jobs[pending[old(i)]] # o
      BY <1>2, <1>3, <2>1, <2>2
    <2> QED BY <1>3, <2>1, <2>3, JobAssumption
  <1>5. \A i, k \in DOMAIN pending' : pending'[i] = pending'[k] => i = k
    <2>1. \A i, k \in 1..(Len(pending)-1) : old(i) = old(k) => i = k
      BY <1>1
    <2> HIDE DEF old
    <2> QED BY <1>1, <1>2, <1>3, <2>1
  <1>6. ASSUME NEW p \in Job, status'[p] = "queued"
        PROVE  jobs'[IdOf[p]] = p /\ \E i \in DOMAIN pending' : pending'[i] = IdOf[p]
    <2>1. p # o /\ status[p] = "queued"
      BY <1>6
    <2>2. PICK k \in 1..Len(pending) : pending[k] = IdOf[p]
      BY <1>1, <2>1 DEF QueueInv, PendingIsTheWaitingJobs
    <2>3. jobs[IdOf[p]] = p
      BY <2>1 DEF QueueInv, PendingIsTheWaitingJobs
    <2>4. k # c
      BY <2>1, <2>2, <2>3
    <2>5. \E i \in 1..(Len(pending)-1) : old(i) = k
      <3>1. CASE k < c
        <4>1. k \in 1..(Len(pending)-1) /\ old(k) = k
          BY <1>1, <3>1
        <4> QED BY <4>1
      <3>2. CASE k > c
        <4>1. k-1 \in 1..(Len(pending)-1) /\ old(k-1) = k
          BY <1>1, <3>2
        <4> QED BY <4>1
      <3> QED BY <1>1, <2>4, <3>1, <3>2
    <2> HIDE DEF old
    <2>6. PICK i \in 1..(Len(pending)-1) : old(i) = k
      BY <2>5
    <2>7. i \in DOMAIN pending' /\ pending'[i] = IdOf[p]
      BY <1>1, <1>3, <2>2, <2>6
    <2> QED BY <2>3, <2>7
  <1> QED BY <1>4, <1>5, <1>6 DEF PendingIsTheWaitingJobs

\* A live analysis moves on, and its retention timer is armed if it ended.
LEMMA LiveMovesOn ==
  ASSUME SlotInv, QueueInv, UNCHANGED <<jobs, dirs>>,
         NEW o \in Job, status[o] \in {"queued", "running"},
         NEW new \in {"running", "completed", "failed", "cancelled"},
         status' = [status EXCEPT ![o] = new],
         expiring' = IF new = "running" THEN expiring ELSE expiring \cup {o}
  PROVE  RetentionSparesLiveJobs' /\ OneObjectPerId' /\ MapKnowsIds' /\ ExpiringEnded'
PROOF
  <1>1. status'[o] = new /\ \A p \in Job \ {o} : status'[p] = status[p]
    BY DEF SlotInv, TypeOK
  <1>2. /\ \A p \in Job : Terminal(p) <=> status[p] \in {"completed", "failed", "cancelled"}
        /\ \A p \in Job : Terminal(p)' <=> status'[p] \in {"completed", "failed", "cancelled"}
    BY StatusValues DEF Terminal
  <1>3. o \notin expiring /\ expiring \subseteq Job
    BY <1>2 DEF SlotInv, TypeOK, QueueInv, ExpiringEnded
  <1>4. RetentionSparesLiveJobs'
    BY <1>1, <1>2, <1>3 DEF QueueInv, RetentionSparesLiveJobs
  <1>5. OneObjectPerId'
    BY <1>1 DEF QueueInv, OneObjectPerId
  <1>6. MapKnowsIds'
    <2> SUFFICES ASSUME NEW id \in Id, jobs[id] # NoJob
                 PROVE  IdOf[jobs[id]] = id /\ status'[jobs[id]] # "unborn"
      BY DEF MapKnowsIds
    <2>1. jobs[id] \in Job /\ IdOf[jobs[id]] = id /\ status[jobs[id]] # "unborn"
      BY DEF SlotInv, TypeOK, QueueInv, MapKnowsIds
    <2> QED BY <1>1, <2>1
  <1>7. ExpiringEnded'
    BY <1>1, <1>2, <1>3 DEF QueueInv, ExpiringEnded
  <1> QED BY <1>4, <1>5, <1>6, <1>7

\* The first that waits leaves the queue, the others stay in order.
LEMMA StartKeepsQueue ==
  ASSUME SlotInv, QueueInv, StartNext
  PROVE  QueueInv'
PROOF
  <1>1. /\ pending # <<>> /\ pending' = Tail(pending)
        /\ status' = [status EXCEPT ![jobs[pending[1]]] = "running"]
        /\ UNCHANGED <<jobs, expiring, dirs>>
    BY StartTakesTheFirst DEF StartNext
  <1>2. /\ Len(pending) \in Nat /\ 1 \in 1..Len(pending)
        /\ Tail(pending) \in Seq(Id) /\ Len(Tail(pending)) = Len(pending) - 1
        /\ \A i \in 1..(Len(pending)-1) : Tail(pending)[i] = pending[i+1]
    BY <1>1, HeadTailProperties, EmptySeq DEF SlotInv, TypeOK
  <1>3. PICK o \in Job : o = jobs[pending[1]] /\ status[o] = "queued"
    BY <1>2, PendingObject
  <1>4. status'[o] = "running" /\ \A p \in Job \ {o} : status'[p] = status[p]
    BY <1>1, <1>3 DEF SlotInv, TypeOK
  <1>5. PendingIsTheWaitingJobs'
    <2>1. \A i \in 1..(Len(pending)-1) :
            pending'[i] = IF i < 1 THEN pending[i] ELSE pending[i+1]
      BY <1>1, <1>2
    <2> QED BY <1>1, <1>2, <1>3, <1>4, <2>1, OneLeavesTheQueue
  <1>6. RetentionSparesLiveJobs' /\ OneObjectPerId' /\ MapKnowsIds' /\ ExpiringEnded'
    BY <1>1, <1>3, LiveMovesOn
  <1> QED BY <1>5, <1>6 DEF QueueInv

\* An analysis that settles was not waiting, and gets its retention timer.
LEMMA SettleKeepsQueue ==
  ASSUME SlotInv, QueueInv, NEW o \in Job, step[o] \in InFlightStep,
         NEW outcome \in {"completed", "failed", "cancelled"}, Settle(o, outcome)
  PROVE  QueueInv'
PROOF
  <1>1. status[o] = "running"
    BY InFlightOccupiesSlot
  <1>2. /\ status' = [status EXCEPT ![o] = outcome]
        /\ expiring' = expiring \cup {o}
        /\ UNCHANGED <<jobs, pending, dirs>>
    BY DEF Settle, ArmExpiry
  <1>3. status'[o] = outcome /\ \A p \in Job \ {o} : status'[p] = status[p]
    BY <1>2 DEF SlotInv, TypeOK
  <1>4. PendingIsTheWaitingJobs'
    <2>1. \A i \in DOMAIN pending : Waiting(pending[i])'
      <3> SUFFICES ASSUME NEW i \in 1..Len(pending)
                   PROVE  jobs[pending[i]] # NoJob /\ status'[jobs[pending[i]]] = "queued"
        BY <1>2, LenProperties DEF Waiting, SlotInv, TypeOK
      <3>1. jobs[pending[i]] \in Job /\ status[jobs[pending[i]]] = "queued"
        BY PendingObject
      <3> QED BY <1>1, <1>3, <3>1, JobAssumption
    <2>2. \A p \in Job : status'[p] = "queued" => status[p] = "queued"
      BY <1>3
    <2> QED BY <1>2, <2>1, <2>2 DEF QueueInv, PendingIsTheWaitingJobs
  <1>5. RetentionSparesLiveJobs' /\ OneObjectPerId' /\ MapKnowsIds' /\ ExpiringEnded'
    BY <1>1, <1>2, LiveMovesOn
  <1> QED BY <1>4, <1>5 DEF QueueInv

\* An analysis cancelled while it waits leaves the queue, the others in order.
LEMMA CancelKeepsQueue ==
  ASSUME SlotInv, QueueInv, NEW o \in Job, CancelQueued(o)
  PROVE  QueueInv'
PROOF
  <1>1. /\ status[o] = "queued"
        /\ pending' = RemoveFirst(pending, IdOf[o])
        /\ status' = [status EXCEPT ![o] = "cancelled"]
        /\ expiring' = expiring \cup {o}
        /\ UNCHANGED <<jobs, dirs>>
    BY DEF CancelQueued, RemoveQueued, ArmExpiry
  <1>2. status'[o] = "cancelled" /\ \A p \in Job \ {o} : status'[p] = status[p]
    BY <1>1 DEF SlotInv, TypeOK
  <1>3. jobs[IdOf[o]] = o /\ \E i \in 1..Len(pending) : pending[i] = IdOf[o]
    BY <1>1, LenProperties DEF QueueInv, PendingIsTheWaitingJobs, SlotInv, TypeOK
  <1>4. pending \in Seq(Id) /\ pending' \in Seq(Id)
    BY <1>1, RemoveFirstType DEF SlotInv, TypeOK
  <1>5. PICK c \in 1..Len(pending) :
          /\ pending[c] = IdOf[o]
          /\ Len(pending') = Len(pending) - 1
          /\ \A i \in 1..(Len(pending)-1) :
               pending'[i] = IF i < c THEN pending[i] ELSE pending[i+1]
    <2>1. \E c \in 1..Len(pending) :
            /\ pending[c] = IdOf[o]
            /\ \A k \in 1..(c-1) : pending[k] # IdOf[o]
            /\ Len(RemoveFirst(pending, IdOf[o])) = Len(pending) - 1
            /\ \A i \in 1..(Len(pending)-1) :
                 RemoveFirst(pending, IdOf[o])[i] = IF i < c THEN pending[i] ELSE pending[i+1]
      BY <1>3, <1>4, RemoveFirstPositions
    <2> QED BY <1>1, <2>1
  <1>6. PendingIsTheWaitingJobs'
    BY <1>1, <1>2, <1>3, <1>4, <1>5, OneLeavesTheQueue
  <1>7. RetentionSparesLiveJobs' /\ OneObjectPerId' /\ MapKnowsIds' /\ ExpiringEnded'
    BY <1>1, LiveMovesOn
  <1> QED BY <1>6, <1>7 DEF QueueInv

\* The timer forgets an id whose object has ended, and only that.
LEMMA ExpireKeepsQueue ==
  ASSUME SlotInv, QueueInv, NEW o \in Job, Expire(o)
  PROVE  QueueInv'
PROOF
  <1>1. /\ o \in expiring /\ expiring' = expiring \ {o}
        /\ jobs' = [jobs EXCEPT ![IdOf[o]] = NoJob]
        /\ dirs' = dirs \ {IdOf[o]}
        /\ UNCHANGED <<pending, status>>
    BY DEF Expire
  <1>2. /\ IdOf[o] \in Id /\ jobs'[IdOf[o]] = NoJob
        /\ \A id \in Id \ {IdOf[o]} : jobs'[id] = jobs[id]
    BY <1>1, JobAssumption DEF SlotInv, TypeOK
  <1>3. status[o] \in {"completed", "failed", "cancelled"}
    BY <1>1, TerminalValues DEF QueueInv, ExpiringEnded
  <1>4. \A p \in Job : status[p] \in {"queued", "running"} => IdOf[p] # IdOf[o]
    BY <1>3 DEF QueueInv, OneObjectPerId
  <1>5. PendingIsTheWaitingJobs'
    <2>1. \A i \in DOMAIN pending : Waiting(pending[i])'
      <3> SUFFICES ASSUME NEW i \in 1..Len(pending)
                   PROVE  jobs'[pending[i]] # NoJob /\ status[jobs'[pending[i]]] = "queued"
        <4>1. DOMAIN pending = 1..Len(pending)
          BY LenProperties DEF SlotInv, TypeOK
        <4> QED BY <1>1, <4>1 DEF Waiting
      <3>1. /\ pending[i] \in Id /\ jobs[pending[i]] \in Job
            /\ IdOf[jobs[pending[i]]] = pending[i] /\ status[jobs[pending[i]]] = "queued"
        BY PendingObject
      <3> QED BY <1>2, <1>4, <3>1, JobAssumption
    <2>2. \A p \in Job : status[p] = "queued" => jobs'[IdOf[p]] = jobs[IdOf[p]]
      BY <1>2, <1>4, JobAssumption
    <2> QED BY <1>1, <2>1, <2>2 DEF QueueInv, PendingIsTheWaitingJobs
  <1>6. RetentionSparesLiveJobs'
    <2> SUFFICES ASSUME NEW p \in Job
                 PROVE  /\ status[p] \in {"queued", "running"} =>
                              jobs'[IdOf[p]] = p /\ IdOf[p] \in dirs' /\ p \notin expiring'
                        /\ Terminal(p) /\ jobs'[IdOf[p]] = p => p \in expiring'
      BY <1>1 DEF RetentionSparesLiveJobs, Terminal
    <2>1. IdOf[p] \in Id /\ p # NoJob
      BY JobAssumption
    <2>2. ASSUME status[p] \in {"queued", "running"}
          PROVE  jobs'[IdOf[p]] = p /\ IdOf[p] \in dirs' /\ p \notin expiring'
      BY <1>1, <1>2, <1>4, <2>1, <2>2 DEF QueueInv, RetentionSparesLiveJobs
    <2>3. ASSUME Terminal(p), jobs'[IdOf[p]] = p
          PROVE  p \in expiring'
      <3>1. IdOf[p] # IdOf[o]
        BY <1>2, <2>1, <2>3
      <3> QED BY <1>1, <1>2, <2>1, <2>3, <3>1 DEF QueueInv, RetentionSparesLiveJobs
    <2> QED BY <2>2, <2>3
  <1>7. OneObjectPerId'
    BY <1>1 DEF QueueInv, OneObjectPerId
  <1>8. MapKnowsIds'
    BY <1>1, <1>2 DEF QueueInv, MapKnowsIds
  <1>9. ExpiringEnded'
    BY <1>1 DEF QueueInv, ExpiringEnded, Terminal
  <1> QED BY <1>5, <1>6, <1>7, <1>8, <1>9 DEF QueueInv

\* The loop of schedule() stops beside a free slot only when nothing waits.
LEMMA LoopLeavesNothing ==
  ASSUME SlotInv, QueueInv, LoopEnds
  PROVE  pending' = pending /\ (FreeSlot => pending = <<>>)
PROOF
  <1>1. CASE FreeSlot
    <2>1. \A i \in DOMAIN pending : Waiting(pending[i]) /\ ~Waiting(pending[i])
      BY <1>1 DEF LoopEnds, QueueInv, PendingIsTheWaitingJobs
    <2>2. pending \in Seq(Id) /\ 1 \notin 1..Len(pending)
      BY <2>1, LenProperties DEF SlotInv, TypeOK
    <2>3. Len(pending) \notin Nat \ {0}
      BY <2>2
    <2>4. pending = <<>>
      BY <2>2, <2>3, EmptySeq
    <2> QED BY <1>1, <2>4 DEF LoopEnds
  <1>2. CASE ~FreeSlot
    BY <1>2 DEF LoopEnds
  <1> QED BY <1>1, <1>2

\* No step breaks the order of the queue and the reach of retention.
LEMMA QueueInvStep == SlotInv /\ QueueInv /\ [Next]_vars => QueueInv'
PROOF
  <1> SUFFICES ASSUME SlotInv, QueueInv, [Next]_vars
               PROVE  QueueInv'
    OBVIOUS
  <1>1. CASE LoopEnds
    BY <1>1, LoopLeavesNothing, QueueUntouched DEF LoopEnds
  <1>2. CASE StartNext
    BY <1>2, StartKeepsQueue
  <1>3. ASSUME NEW o \in Job, Create(o)
        PROVE  QueueInv'
    BY <1>3, CreateKeepsQueue
  <1>4. ASSUME NEW o \in Job,
               KeyCompleted(o) \/ KeyFailed(o) \/ BaselineLookedUp(o) \/ Advance(o)
               \/ Deadline(o) \/ CancelRunning(o)
        PROVE  QueueInv'
    BY <1>4, QueueUntouched
       DEF KeyCompleted, KeyFailed, BaselineLookedUp, Advance, Deadline, CancelRunning, queueVars
  <1>5. ASSUME NEW o \in Job, Complete(o)
        PROVE  QueueInv'
    BY <1>5, SettleKeepsQueue DEF Complete, InFlightStep
  <1>6. ASSUME NEW o \in Job, Throw(o)
        PROVE  QueueInv'
    BY <1>6, SettleKeepsQueue DEF Throw, InFlightStep
  <1>7. ASSUME NEW o \in Job, Expire(o)
        PROVE  QueueInv'
    BY <1>7, ExpireKeepsQueue
  <1>8. ASSUME NEW o \in Job, CancelQueued(o)
        PROVE  QueueInv'
    BY <1>8, CancelKeepsQueue
  <1>9. CASE UNCHANGED vars
    BY <1>9, QueueUntouched DEF vars, queueVars
  <1> QED
    BY <1>1, <1>2, <1>3, <1>4, <1>5, <1>6, <1>7, <1>8, <1>9 DEF Next, Loop, JobStep

\* The order of the queue and the reach of retention hold in every state.
LEMMA QueueInvAlways == Spec => []QueueInv
PROOF
  BY SlotInvAlways, QueueInvInit, QueueInvStep, PTL DEF Spec

\* #pending is exactly the waiting analyses, each once: the position and the
\* queue length that the routes answer are never off.
THEOREM QueueTellsTheTruth == Spec => []PendingIsTheWaitingJobs
PROOF
  <1>1. QueueInv => PendingIsTheWaitingJobs
    BY DEF QueueInv
  <1> QED BY <1>1, QueueInvAlways, PTL

\* No retention timer forgets an analysis, or removes its directory, before it
\* has ended; and none that ended stays in memory without a timer.
THEOREM RetentionIsSafe == Spec => []RetentionSparesLiveJobs
PROOF
  <1>1. QueueInv => RetentionSparesLiveJobs
    BY DEF QueueInv
  <1> QED BY <1>1, QueueInvAlways, PTL

-----------------------------------------------------------------------------
(* No stranded work                                                          *)

\* Only a failed complete() leaves an analysis waiting beside a free slot.
LEMMA StrandedStep ==
  SlotInv /\ QueueInv /\ [Next]_vars
    => [Stranded' => Stranded \/ \E o \in Job : KeyFailed(o)]_vars
PROOF
  <1> SUFFICES ASSUME SlotInv, QueueInv, Next, Stranded', ~Stranded
               PROVE  \E o \in Job : KeyFailed(o)
    OBVIOUS
  <1>1. CASE LoopEnds
    <2>1. pending' = pending /\ (FreeSlot => pending = <<>>) /\ active' = active
      BY <1>1, LoopLeavesNothing DEF LoopEnds
    <2> QED BY <2>1 DEF Stranded, FreeSlot
  <1>2. CASE StartNext
    BY <1>2 DEF StartNext, Stranded
  <1>3. ASSUME NEW o \in Job, Create(o) \/ KeyCompleted(o)
        PROVE  FALSE
    BY <1>3 DEF Create, Admit, KeyCompleted, Stranded
  <1>4. ASSUME NEW o \in Job, KeyFailed(o)
        PROVE  \E p \in Job : KeyFailed(p)
    BY <1>4
  <1>5. ASSUME NEW o \in Job,
               BaselineLookedUp(o) \/ Advance(o) \/ Deadline(o) \/ Expire(o) \/ CancelRunning(o)
        PROVE  FALSE
    BY <1>5 DEF BaselineLookedUp, Advance, Deadline, Expire, CancelRunning, queueVars,
                Stranded, FreeSlot
  <1>6. ASSUME NEW o \in Job, Complete(o) \/ Throw(o)
        PROVE  FALSE
    <2>1. turn' = "schedule"
      BY <1>6 DEF Complete, Throw, Settle, Reschedule
    <2> QED BY <2>1 DEF Stranded
  <1>7. ASSUME NEW o \in Job, CancelQueued(o)
        PROVE  FALSE
    <2>1. UNCHANGED <<turn, posting, active>>
      BY <1>7 DEF CancelQueued, RemoveQueued
    <2>2. \E i \in DOMAIN pending : pending[i] = IdOf[o]
      BY <1>7 DEF CancelQueued, QueueInv, PendingIsTheWaitingJobs
    <2>3. pending # <<>>
      BY <2>2
    <2> QED BY <2>1, <2>3 DEF Stranded, FreeSlot
  <1> QED BY <1>1, <1>2, <1>3, <1>4, <1>5, <1>6, <1>7 DEF Next, Loop, JobStep

\* Whatever frees a slot or fills the queue looks at the queue again; only a
\* rejected complete() may leave an analysis waiting beside a free slot.
THEOREM NothingStranded == Spec => NoStrandedWork
PROOF
  BY SlotInvAlways, QueueInvAlways, StrandedStep, PTL DEF Spec, NoStrandedWork

-----------------------------------------------------------------------------
(* The queue implements the board                                            *)

Line == [i \in DOMAIN pending |-> jobs[pending[i]]]
Ended == [o \in Job |-> IF Terminal(o) THEN status[o] ELSE "none"]

\* The line of the board, position by position.
LineFollowsQueue ==
  /\ Line \in Seq(Job) /\ Len(Line) = Len(pending) /\ Len(pending) \in Nat
  /\ DOMAIN Line = 1..Len(pending) /\ DOMAIN pending = 1..Len(pending)
  /\ \A i \in 1..Len(pending) :
       /\ Line[i] = jobs[pending[i]] /\ Line[i] \in Job
       /\ IdOf[Line[i]] = pending[i] /\ status[Line[i]] = "queued"

\* The objects that wait are those of the ids of #pending, in its order.
LEMMA LineOfPending == SlotInv /\ QueueInv => LineFollowsQueue
PROOF
  <1> SUFFICES ASSUME SlotInv, QueueInv
               PROVE  LineFollowsQueue
    OBVIOUS
  <1>1. Len(pending) \in Nat /\ DOMAIN pending = 1..Len(pending)
    BY LenProperties DEF SlotInv, TypeOK
  <1>2. \A i \in 1..Len(pending) :
              /\ Line[i] = jobs[pending[i]] /\ Line[i] \in Job
              /\ IdOf[Line[i]] = pending[i] /\ status[Line[i]] = "queued"
    BY <1>1, PendingObject DEF Line
  <1>3. Line \in [1..Len(pending) -> Job]
    BY <1>1, <1>2 DEF Line
  <1>4. Line \in Seq(Job)
    BY <1>1, <1>3
  <1>5. Len(Line) = Len(pending)
    BY <1>1, <1>3, <1>4, LenProperties
  <1> QED BY <1>1, <1>2, <1>3, <1>4, <1>5 DEF LineFollowsQueue

\* The same after a step.
LEMMA LineOfPendingNext == SlotInv' /\ QueueInv' => LineFollowsQueue'
PROOF
  BY LineOfPending, PTL

\* How each analysis ended, before and after a step.
LEMMA EndedValues ==
  /\ \A o \in Job : Ended[o] = IF status[o] \in {"completed", "failed", "cancelled"}
                             THEN status[o] ELSE "none"
  /\ \A o \in Job : Ended'[o] = IF status'[o] \in {"completed", "failed", "cancelled"}
                              THEN status'[o] ELSE "none"
  /\ DOMAIN Ended = Job /\ DOMAIN Ended' = Job
PROOF
  BY StatusValues DEF Ended, Terminal

\* Steps the board does not see.
LEMMA BoardStutters ==
  ASSUME SlotInv, QueueInv, UNCHANGED <<pending, status>>,
         \A i \in 1..Len(pending) : jobs'[pending[i]] = jobs[pending[i]]
  PROVE  UNCHANGED <<Line, Running, Ended>>
PROOF
  <1>1. Line' = Line
    BY LineOfPending DEF Line, LineFollowsQueue
  <1>2. Running' = Running /\ Ended' = Ended
    BY DEF Running, Ended, Terminal
  <1> QED BY <1>1, <1>2

\* A creation is a Submit of the board.
LEMMA CreateSubmits ==
  ASSUME SlotInv, QueueInv, SlotInv', QueueInv', NEW o \in Job, Create(o)
  PROVE  /\ o \notin ToSet(Line) \cup Running /\ Ended[o] = "none"
         /\ Line' = Append(Line, o)
         /\ UNCHANGED <<Running, Ended>>
PROOF
  <1>1. /\ status[o] = "unborn" /\ status' = [status EXCEPT ![o] = "queued"]
        /\ pending' = Append(pending, IdOf[o]) /\ jobs' = [jobs EXCEPT ![IdOf[o]] = o]
        /\ \A p \in Job : IdOf[p] = IdOf[o] => status[p] = "unborn"
    BY DEF Create, Unused, Admit, Enqueue
  <1>2. status'[o] = "queued" /\ \A p \in Job \ {o} : status'[p] = status[p]
    BY <1>1 DEF SlotInv, TypeOK
  <1>3. o \notin ToSet(Line)
    BY <1>1, LineOfPending DEF ToSet, LineFollowsQueue
  <1>4. o \notin Running /\ Running' = Running
    BY <1>1, <1>2 DEF Running
  <1>5. Ended[o] = "none" /\ Ended' = Ended
    BY <1>1, <1>2, StatusValues DEF Ended, Terminal
  <1>6. Line' = Append(Line, o)
    <2>1. /\ Len(pending') = Len(pending) + 1 /\ pending'[Len(pending) + 1] = IdOf[o]
          /\ \A i \in 1..Len(pending) : pending'[i] = pending[i]
      BY <1>1, AppendProperties, JobAssumption DEF SlotInv, TypeOK
    <2>2. /\ Line' \in Seq(Job) /\ Len(Line') = Len(pending')
          /\ \A i \in 1..Len(pending') : Line'[i] = jobs'[pending'[i]]
      BY LineOfPendingNext DEF LineFollowsQueue
    <2>3. /\ Append(Line, o) \in Seq(Job) /\ Len(Append(Line, o)) = Len(pending) + 1
          /\ \A i \in 1..Len(pending) : Append(Line, o)[i] = jobs[pending[i]]
          /\ Append(Line, o)[Len(pending) + 1] = o
      BY LineOfPending, AppendProperties DEF LineFollowsQueue
    <2>4. ASSUME NEW i \in 1..Len(pending)
          PROVE  jobs'[pending'[i]] = jobs[pending[i]]
      <3>1. pending[i] # IdOf[o] /\ pending[i] \in Id
        BY <1>1, PendingObject
      <3> QED BY <1>1, <2>1, <3>1 DEF SlotInv, TypeOK
    <2>5. jobs'[pending'[Len(pending) + 1]] = o
      BY <1>1, <2>1, JobAssumption DEF SlotInv, TypeOK
    <2>6. \A i \in 1..Len(Line') : Line'[i] = Append(Line, o)[i]
      BY LineOfPending, <2>1, <2>2, <2>3, <2>4, <2>5 DEF LineFollowsQueue
    <2> QED BY <2>1, <2>2, <2>3, <2>6, SeqEqual
  <1> QED BY <1>3, <1>4, <1>5, <1>6

\* A start is a StartFirst of the board.
LEMMA StartStartsFirst ==
  ASSUME SlotInv, QueueInv, SlotInv', QueueInv', StartNext
  PROVE  /\ Line # <<>> /\ Cardinality(Running) < Concurrency
         /\ Line' = Tail(Line)
         /\ Running' = Running \cup {Head(Line)}
         /\ Ended' = Ended
PROOF
  <1>1. /\ pending # <<>> /\ pending' = Tail(pending) /\ jobs' = jobs
        /\ status' = [status EXCEPT ![jobs[pending[1]]] = "running"]
    BY StartTakesTheFirst DEF StartNext
  <1>2. /\ 1 \in 1..Len(pending) /\ Tail(pending) \in Seq(Id)
        /\ Len(Tail(pending)) = Len(pending) - 1
        /\ \A i \in 1..(Len(pending)-1) : Tail(pending)[i] = pending[i+1]
    BY <1>1, HeadTailProperties, EmptySeq DEF SlotInv, TypeOK
  <1>3. Line # <<>>
    BY <1>2, LineOfPending DEF LineFollowsQueue
  <1>4. /\ Head(Line) = Line[1] /\ Tail(Line) \in Seq(Job)
        /\ Len(Tail(Line)) = Len(pending) - 1
        /\ \A i \in 1..(Len(pending)-1) : Tail(Line)[i] = Line[i+1]
    BY <1>3, LineOfPending, HeadTailProperties DEF LineFollowsQueue
  <1>5. PICK o \in Job : /\ o = Line[1] /\ o = jobs[pending[1]] /\ status[o] = "queued"
    BY <1>2, LineOfPending DEF LineFollowsQueue
  <1>6. status'[o] = "running" /\ \A p \in Job \ {o} : status'[p] = status[p]
    BY <1>1, <1>5 DEF SlotInv, TypeOK
  <1>7. Cardinality(Running) < Concurrency
    BY DEF StartNext, FreeSlot, SlotInv, SlotAccounting
  <1>8. Line' = Tail(Line)
    <2>1. /\ Line' \in Seq(Job) /\ Len(Line') = Len(pending')
          /\ \A i \in 1..Len(pending') : Line'[i] = jobs'[pending'[i]]
      BY LineOfPendingNext DEF LineFollowsQueue
    <2>2. \A i \in 1..(Len(pending)-1) : i+1 \in 1..Len(pending)
      BY LineOfPending DEF LineFollowsQueue
    <2>3. \A i \in 1..(Len(pending)-1) : Line'[i] = Tail(Line)[i]
      BY <1>1, <1>2, <1>4, <2>1, <2>2, LineOfPending DEF LineFollowsQueue
    <2> QED BY <1>1, <1>2, <1>4, <2>1, <2>3, SeqEqual
  <1>9. Running' = Running \cup {Head(Line)}
    BY <1>4, <1>5, <1>6 DEF Running
  <1>10. Ended' = Ended
    BY <1>5, <1>6, StatusValues DEF Ended, Terminal
  <1> QED BY <1>3, <1>7, <1>8, <1>9, <1>10

\* A cancellation of one that waits is a Withdraw of the board.
LEMMA CancelWithdraws ==
  ASSUME SlotInv, QueueInv, SlotInv', QueueInv', NEW o \in Job, CancelQueued(o)
  PROVE  /\ o \in ToSet(Line)
         /\ Line' = RemoveFirst(Line, o)
         /\ Running' = Running
         /\ Ended' = [Ended EXCEPT ![o] = "cancelled"]
PROOF
  <1>1. /\ status[o] = "queued" /\ jobs' = jobs
        /\ pending' = RemoveFirst(pending, IdOf[o])
        /\ status' = [status EXCEPT ![o] = "cancelled"]
    BY DEF CancelQueued, RemoveQueued
  <1>2. status'[o] = "cancelled" /\ \A p \in Job \ {o} : status'[p] = status[p]
    BY <1>1 DEF SlotInv, TypeOK
  <1>3. jobs[IdOf[o]] = o /\ \E i \in 1..Len(pending) : pending[i] = IdOf[o]
    BY <1>1, LineOfPending DEF QueueInv, PendingIsTheWaitingJobs, LineFollowsQueue
  <1>4. PICK c \in 1..Len(pending) :
          /\ pending[c] = IdOf[o]
          /\ Len(pending') = Len(pending) - 1
          /\ \A i \in 1..(Len(pending)-1) :
               pending'[i] = IF i < c THEN pending[i] ELSE pending[i+1]
    <2>1. pending \in Seq(Id)
      BY DEF SlotInv, TypeOK
    <2>2. \E c \in 1..Len(pending) :
            /\ pending[c] = IdOf[o]
            /\ \A k \in 1..(c-1) : pending[k] # IdOf[o]
            /\ Len(RemoveFirst(pending, IdOf[o])) = Len(pending) - 1
            /\ \A i \in 1..(Len(pending)-1) :
                 RemoveFirst(pending, IdOf[o])[i] = IF i < c THEN pending[i] ELSE pending[i+1]
      BY <1>3, <2>1, RemoveFirstPositions
    <2> QED BY <1>1, <2>2
  <1>5. Line[c] = o
    BY <1>3, <1>4, LineOfPending DEF LineFollowsQueue
  <1>6. o \in ToSet(Line)
    BY <1>5, LineOfPending DEF LineFollowsQueue, ToSet
  <1>7. /\ RemoveFirst(Line, o) \in Seq(Job)
        /\ Len(RemoveFirst(Line, o)) = Len(pending) - 1
        /\ \A i \in 1..(Len(pending)-1) :
             RemoveFirst(Line, o)[i] = IF i < c THEN Line[i] ELSE Line[i+1]
    <2>1. Line \in Seq(Job) /\ Len(Line) = Len(pending)
      BY LineOfPending DEF LineFollowsQueue
    <2>2. RemoveFirst(Line, o) \in Seq(Job)
      BY <2>1, RemoveFirstType
    <2>3. \E i \in 1..Len(Line) : Line[i] = o
      BY <1>5, <2>1
    <2>4. \E d \in 1..Len(Line) :
            /\ Line[d] = o
            /\ \A k \in 1..(d-1) : Line[k] # o
            /\ Len(RemoveFirst(Line, o)) = Len(Line) - 1
            /\ \A i \in 1..(Len(Line)-1) :
                 RemoveFirst(Line, o)[i] = IF i < d THEN Line[i] ELSE Line[i+1]
      BY <2>1, <2>3, RemoveFirstPositions
    <2>5. \A d \in 1..Len(Line) : Line[d] = o => d = c
      BY <1>4, <2>1, LineOfPending DEF LineFollowsQueue, QueueInv, PendingIsTheWaitingJobs
    <2> QED BY <2>1, <2>2, <2>4, <2>5
  <1>8. Line' = RemoveFirst(Line, o)
    <2>1. /\ Line' \in Seq(Job) /\ Len(Line') = Len(pending')
          /\ \A i \in 1..Len(pending') : Line'[i] = jobs'[pending'[i]]
      BY LineOfPendingNext DEF LineFollowsQueue
    <2>2. \A i \in 1..(Len(pending)-1) : i \in 1..Len(pending) /\ i+1 \in 1..Len(pending)
      BY LineOfPending DEF LineFollowsQueue
    <2>3. \A i \in 1..(Len(pending)-1) : Line'[i] = IF i < c THEN Line[i] ELSE Line[i+1]
      <3> SUFFICES ASSUME NEW i \in 1..(Len(pending)-1)
                   PROVE  Line'[i] = IF i < c THEN Line[i] ELSE Line[i+1]
        OBVIOUS
      <3>1. Line'[i] = jobs[pending'[i]]
        BY <1>1, <1>4, <2>1
      <3>2. Line[i] = jobs[pending[i]] /\ Line[i+1] = jobs[pending[i+1]]
        BY <2>2, LineOfPending DEF LineFollowsQueue
      <3> QED BY <1>4, <3>1, <3>2
    <2> QED BY <1>4, <1>7, <2>1, <2>3, SeqEqual
  <1>9. Running' = Running
    BY <1>1, <1>2 DEF Running
  <1>10. Ended' = [Ended EXCEPT ![o] = "cancelled"]
    BY <1>1, <1>2, StatusValues DEF Ended, Terminal
  <1> QED BY <1>6, <1>8, <1>9, <1>10

\* A settlement is an End of the board.
LEMMA SettleEnds ==
  ASSUME SlotInv, QueueInv, NEW o \in Job, step[o] \in InFlightStep,
         NEW outcome \in {"completed", "failed", "cancelled"}, Settle(o, outcome)
  PROVE  /\ o \in Running /\ Running' = Running \ {o}
         /\ Ended' = [Ended EXCEPT ![o] = outcome]
         /\ Line' = Line
PROOF
  <1>1. status[o] = "running"
    BY InFlightOccupiesSlot
  <1>2. UNCHANGED <<jobs, pending>> /\ status' = [status EXCEPT ![o] = outcome]
    BY DEF Settle
  <1>3. status'[o] = outcome /\ \A p \in Job \ {o} : status'[p] = status[p]
    BY <1>2 DEF SlotInv, TypeOK
  <1>4. o \in Running /\ Running' = Running \ {o}
    BY <1>1, <1>3 DEF Running
  <1>5. Ended' = [Ended EXCEPT ![o] = outcome]
    BY <1>1, <1>3, StatusValues DEF Ended, Terminal
  <1>6. Line' = Line
    BY <1>2 DEF Line
  <1> QED BY <1>4, <1>5, <1>6

\* The operators the board takes from the library are the same here and there.
LEMMA BoardLibrary ==
  /\ Board!Cardinality(Running) = Cardinality(Running)
  /\ Board!ToSet(Line) = ToSet(Line)
  /\ \A o : Board!RemoveFirst(Line, o) = RemoveFirst(Line, o)
PROOF
  <1>1. Board!Cardinality(Running) = Cardinality(Running)
    BY DEF Board!Cardinality, Cardinality
  <1>2. Board!ToSet(Line) = ToSet(Line)
    BY DEF Board!ToSet, ToSet
  <1>3. \A o : Board!RemoveFirst(Line, o) = RemoveFirst(Line, o)
    BY DEF Board!RemoveFirst, RemoveFirst, Board!RemoveAt, RemoveAt, Board!SelectInSeq, SelectInSeq,
           Board!Min, Min
  <1> QED BY <1>1, <1>2, <1>3

\* Every step of the queue is a step of the board, or none.
LEMMA BoardStep ==
  SlotInv /\ SlotInv' /\ QueueInv /\ QueueInv' /\ [Next]_vars
    => [Board!BoardNext]_(Board!boardVars)
PROOF
  <1> SUFFICES ASSUME SlotInv, SlotInv', QueueInv, QueueInv', [Next]_vars
               PROVE  Board!BoardNext \/ UNCHANGED <<Line, Running, Ended>>
    BY DEF Board!boardVars, Line, Ended
  <1>1. CASE LoopEnds
    <2>1. pending' = pending /\ status' = status /\ jobs' = jobs
      BY <1>1, LoopLeavesNothing DEF LoopEnds
    <2> QED BY <2>1, BoardStutters
  <1>2. CASE StartNext
    <2>1. Board!StartFirst
      BY <1>2, StartStartsFirst, BoardLibrary DEF Board!StartFirst, Line, Ended
    <2> QED BY <2>1 DEF Board!BoardNext
  <1>3. ASSUME NEW o \in Job, Create(o)
        PROVE  Board!BoardNext
    <2>1. Board!Submit(o)
      <3>1. Ended[o] = IF Terminal(o) THEN status[o] ELSE "none"
        BY DEF Ended
      <3> QED BY <1>3, <3>1, CreateSubmits, BoardLibrary DEF Board!Submit, Line, Ended
    <2> QED BY <2>1 DEF Board!BoardNext
  <1>4. ASSUME NEW o \in Job, CancelQueued(o)
        PROVE  Board!BoardNext
    <2>1. Board!Withdraw(o)
      BY <1>4, CancelWithdraws, BoardLibrary DEF Board!Withdraw, Line, Ended
    <2> QED BY <2>1 DEF Board!BoardNext
  <1>5. ASSUME NEW o \in Job, step[o] \in InFlightStep,
               NEW result \in {"completed", "failed", "cancelled"}, Settle(o, result)
        PROVE  Board!BoardNext
    <2>1. Board!End(o)
      BY <1>5, SettleEnds DEF Board!End, Board!Outcome, Line, Ended
    <2> QED BY <2>1 DEF Board!BoardNext
  <1>6. ASSUME NEW o \in Job, Complete(o) \/ Throw(o)
        PROVE  Board!BoardNext
    <2>1. step[o] \in InFlightStep
      BY <1>6 DEF Complete, Throw, InFlightStep
    <2>2. \E result \in {"completed", "failed", "cancelled"} : Settle(o, result)
      BY <1>6 DEF Complete, Throw
    <2> QED BY <1>5, <2>1, <2>2
  <1>7. ASSUME NEW o \in Job, Expire(o)
        PROVE  UNCHANGED <<Line, Running, Ended>>
    <2>1. /\ o \in expiring /\ UNCHANGED <<pending, status>>
          /\ jobs' = [jobs EXCEPT ![IdOf[o]] = NoJob]
      BY <1>7 DEF Expire
    <2>2. status[o] \in {"completed", "failed", "cancelled"}
      BY <2>1, TerminalValues DEF QueueInv, ExpiringEnded
    <2>3. ASSUME NEW i \in 1..Len(pending)
          PROVE  jobs'[pending[i]] = jobs[pending[i]]
      <3>1. /\ pending[i] \in Id /\ jobs[pending[i]] \in Job
            /\ IdOf[jobs[pending[i]]] = pending[i] /\ status[jobs[pending[i]]] = "queued"
        BY PendingObject
      <3>2. pending[i] # IdOf[o]
        BY <2>2, <3>1 DEF QueueInv, OneObjectPerId
      <3> QED BY <2>1, <3>1, <3>2 DEF SlotInv, TypeOK
    <2> QED BY <2>1, <2>3, BoardStutters
  <1>8. ASSUME NEW o \in Job,
               KeyCompleted(o) \/ KeyFailed(o) \/ BaselineLookedUp(o) \/ Advance(o)
               \/ Deadline(o) \/ CancelRunning(o)
        PROVE  UNCHANGED <<Line, Running, Ended>>
    BY <1>8, BoardStutters
       DEF KeyCompleted, KeyFailed, BaselineLookedUp, Advance, Deadline, CancelRunning, queueVars
  <1>9. CASE UNCHANGED vars
    BY <1>9, BoardStutters DEF vars, queueVars
  <1> QED BY <1>1, <1>2, <1>3, <1>4, <1>6, <1>7, <1>8, <1>9 DEF Next, Loop, JobStep

\* The queue begins as the board does.
LEMMA BoardInitially == Init => Board!BoardInit
PROOF
  <1> SUFFICES ASSUME Init
               PROVE  Board!BoardInit
    OBVIOUS
  <1>1. [i \in DOMAIN pending |-> jobs[pending[i]]] = <<>>
    BY DEF Init
  <1>2. Running = {}
    BY DEF Init, Running
  <1>3. [o \in Job |-> IF Terminal(o) THEN status[o] ELSE "none"] = [o \in Job |-> "none"]
    BY StatusValues DEF Init, Terminal
  <1> QED BY <1>1, <1>2, <1>3 DEF Board!BoardInit

\* Every behaviour of the queue is one of the board: analyses start in order of
\* arrival, within the limit, leave the line only by starting or by being
\* cancelled, and end once.
THEOREM QueueKeepsToTheBoard == Spec => Board!BoardSafety
PROOF
  BY SlotInvAlways, QueueInvAlways, BoardInitially, BoardStep, PTL DEF Spec, Board!BoardSafety

=============================================================================

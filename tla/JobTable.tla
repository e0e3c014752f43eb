------------------------------- MODULE JobTable -------------------------------
(***************************************************************************)
(* The table of analyses as its repository offers it to several instances  *)
(* of the server (src/scan-job-repository.ts), and its stand-in of one     *)
(* process.  A statement is an action, except claimNext: its inner select  *)
(* locks a row and its outer update marks it, and statements that want     *)
(* that row wait.  update, which asks nothing of the row, is in ScanStore. *)
(* Only tests call claimNext at this commit, so who claims, concludes and  *)
(* erases, and when, is left open.                                         *)
(***************************************************************************)
EXTENDS JobState, Positions, SequencesExt

CONSTANTS
  TableJob,    \* analyses, each inserted once
  Instance,    \* instances of the server; the memory has one
  TaskOwner,   \* accounts
  TaskOwnerOf, \* that of each analysis
  MaxStamp     \* bound: instants at which requests were created

ASSUME JobTableAssumption == TaskOwnerOf \in [TableJob -> TaskOwner] /\ MaxStamp \in Nat \ {0}

VARIABLES
  tableKind,  \* "memory" or "postgres"
  createdAt,  \* by the clock of the instance that took the request
  taskStatus, \* of each row, "absent" before insert, "deleted" after
  arrived,    \* #order of the memory: ids by insertion
  claimOf,    \* the row each instance has locked, if any
  due,        \* rows past expires_at
  handed,     \* history: how often each row was given to an instance
  concluded   \* history: how often a transition ended each row

tableVars == <<tableKind, createdAt, taskStatus, arrived, claimOf, due, handed, concluded>>
historyVars == <<handed, concluded>>

TableInit ==
  /\ tableKind \in {"memory", "postgres"}
  /\ createdAt \in [TableJob -> 1..MaxStamp]
  /\ taskStatus = [t \in TableJob |-> "absent"]
  /\ arrived = <<>>
  /\ claimOf = [i \in Instance |-> {}]
  /\ due = {}
  /\ handed = [t \in TableJob |-> 0] /\ concluded = [t \in TableJob |-> 0]

RowsKept == {t \in TableJob : taskStatus[t] \in JobStatus}
RowsWaiting == {t \in TableJob : taskStatus[t] = "queued"}
LockedTasks == UNION {claimOf[i] : i \in Instance}

InsertTask(t) ==
  /\ taskStatus[t] = "absent"
  /\ taskStatus' = [taskStatus EXCEPT ![t] = "queued"]
  /\ arrived' = IF tableKind = "memory" THEN Append(arrived, t) ELSE arrived
  /\ UNCHANGED <<tableKind, createdAt, claimOf, due, historyVars>>

-----------------------------------------------------------------------------
\* claimNext

\* a plausible bug: the select does not skip what another claim has locked
AnyWaiting == RowsWaiting

Claimable == RowsWaiting \ LockedTasks

\* order by queued_at, which is created_at: not the order of insertion, and
\* rows of one instant in any order
FirstByQueuedAt == {t \in Claimable : \A u \in Claimable : createdAt[t] <= createdAt[u]}

LockNext(i) ==
  /\ tableKind = "postgres" /\ claimOf[i] = {}
  /\ \E t \in FirstByQueuedAt : claimOf' = [claimOf EXCEPT ![i] = {t}]
  /\ UNCHANGED <<tableKind, createdAt, taskStatus, arrived, due, historyVars>>

MarkClaimed(i) ==
  /\ \E t \in claimOf[i] :
       /\ taskStatus' = [taskStatus EXCEPT ![t] = "running"]
       /\ handed' = [handed EXCEPT ![t] = @ + 1]
  /\ claimOf' = [claimOf EXCEPT ![i] = {}]
  /\ UNCHANGED <<tableKind, createdAt, arrived, due, concluded>>

\* the connection is lost before the commit: the lock goes and the row stays
ClaimLost(i) ==
  /\ claimOf[i] # {}
  /\ claimOf' = [claimOf EXCEPT ![i] = {}]
  /\ UNCHANGED <<tableKind, createdAt, taskStatus, arrived, due, historyVars>>

\* the memory: the first of #order that waits, in one go
ClaimInMemory ==
  /\ tableKind = "memory"
  /\ \E k \in DOMAIN arrived :
       /\ arrived[k] \in RowsWaiting /\ \A l \in 1..(k - 1) : arrived[l] \notin RowsWaiting
       /\ taskStatus' = [taskStatus EXCEPT ![arrived[k]] = "running"]
       /\ handed' = [handed EXCEPT ![arrived[k]] = @ + 1]
  /\ UNCHANGED <<tableKind, createdAt, arrived, claimOf, due, concluded>>

-----------------------------------------------------------------------------

\* a plausible bug: what the caller read before is not asked again
OriginRead(t, to) == t \in RowsKept

\* status = any(allowedFrom), in the update itself
OriginAllowed(t, to) == CanTransitionJob(taskStatus[t], to)

TransitionTask(t, to) ==
  /\ t \in RowsKept \ LockedTasks /\ to \in JobStatus
  /\ OriginAllowed(t, to)
  /\ taskStatus' = [taskStatus EXCEPT ![t] = to]
  /\ IF to = "running" THEN handed' = [handed EXCEPT ![t] = @ + 1] /\ UNCHANGED concluded
     ELSE concluded' = [concluded EXCEPT ![t] = @ + 1] /\ UNCHANGED handed
  /\ UNCHANGED <<tableKind, createdAt, arrived, claimOf, due>>

\* of the memory's #order as of the rows
Erase(tasks) ==
  /\ tasks # {} /\ tasks \cap LockedTasks = {}
  /\ taskStatus' = [t \in TableJob |-> IF t \in tasks THEN "deleted" ELSE taskStatus[t]]
  /\ arrived' = Picked(arrived, {k \in DOMAIN arrived : arrived[k] \notin tasks})
  /\ UNCHANGED <<tableKind, createdAt, claimOf, due, historyVars>>

DeleteTask(t) == Erase({t} \cap RowsKept)
DeleteByOwner(o) == Erase({t \in RowsKept : TaskOwnerOf[t] = o})
DeleteExpired == Erase(RowsKept \cap due)

FallsDue(t) ==
  /\ t \in RowsKept \ due
  /\ due' = due \cup {t}
  /\ UNCHANGED <<tableKind, createdAt, taskStatus, arrived, claimOf, historyVars>>

TableNext ==
  \/ \E t \in TableJob : InsertTask(t) \/ DeleteTask(t) \/ FallsDue(t)
  \/ \E t \in TableJob, to \in JobStatus : TransitionTask(t, to)
  \/ \E i \in Instance : LockNext(i) \/ MarkClaimed(i) \/ ClaimLost(i)
  \/ ClaimInMemory
  \/ \E o \in TaskOwner : DeleteByOwner(o)
  \/ DeleteExpired

TableSpec == TableInit /\ [][TableNext]_tableVars

-----------------------------------------------------------------------------

\* However many instances claim, conclude and erase at once, an analysis is
\* given to one of them and ended once (the comments at scan-job-repository.ts
\* 42-47, 307-309 and 319-321): a row locked by a claim still waits and is locked by no
\* other, a row that runs was given and has not been ended, one that ended was
\* not given afterwards.
GivenAndEndedOnce ==
  /\ \A t \in TableJob : handed[t] <= 1 /\ concluded[t] <= 1
  /\ LockedTasks \subseteq RowsWaiting /\ \A i, j \in Instance : i # j => claimOf[i] \cap claimOf[j] = {}
  /\ \A t \in RowsKept : taskStatus[t] = "running" <=> handed[t] = 1 /\ concluded[t] = 0
  /\ \A t \in RowsKept : IsTerminalJobStatus(taskStatus[t]) <=> concluded[t] = 1

\* The order of the memory is of the rows it has.
OrderIsOfRows == IsInjective(arrived) /\ ToSet(arrived) = (IF tableKind = "memory" THEN RowsKept ELSE {})

\* An analysis of the table is given and ended once, in the order of its rows.
JobTableIsSound == GivenAndEndedOnce /\ OrderIsOfRows
=============================================================================

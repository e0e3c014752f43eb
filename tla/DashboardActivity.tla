-------------------------- MODULE DashboardActivity --------------------------
(***************************************************************************)
(* The activity file of one browser session (src/dashboard-activity-store  *)
(* .ts and routes/dashboard-activity.ts): appends and clears form a chain  *)
(* of promises, each link reading the file, writing a temporary one and    *)
(* renaming it; event streams hear of an activity once it is on disk.      *)
(***************************************************************************)
EXTENDS Positions, SequencesExt

CONSTANTS
  DashCall,       \* POST and DELETE /api/dashboard/activity
  ActivityOf,     \* the activity id a call posts, or Clearing for a DELETE
  Clearing,
  ActivityLimit   \* activities kept (40 in the code)

NoLink == "none"

ASSUME DashAssumption == ActivityLimit \in Nat \ {0} /\ DOMAIN ActivityOf = DashCall /\ NoLink \notin DashCall

VARIABLES
  dashCall,    \* "unsent", "waiting", "working", "answered", "failed", "lost"
  previous,    \* the link a call waits for, or NoLink
  writesTail,  \* #writes of the session: the last link, or NoLink
  arrival,     \* the calls in the order they arrived
  activityFile,
  newFile,     \* the file a working append is about to rename into place
  blind,       \* history: appends whose read of the file failed
  listening,   \* is an event stream subscribed?
  told         \* what the stream was sent

dashVars == <<dashCall, previous, writesTail, arrival, activityFile, newFile, blind, listening, told>>

Appends(c) == ActivityOf[c] # Clearing

DashInit ==
  /\ dashCall = [c \in DashCall |-> "unsent"]
  /\ previous = [c \in DashCall |-> NoLink]
  /\ writesTail = NoLink
  /\ arrival = <<>>
  /\ activityFile = <<>>
  /\ newFile = [c \in DashCall |-> <<>>]
  /\ blind = {}
  /\ listening = FALSE
  /\ told = <<>>

\* append or clear: the call hangs its link on the tail of the chain
QueueLink(c) ==
  /\ dashCall[c] = "unsent"
  /\ dashCall' = [dashCall EXCEPT ![c] = "waiting"]
  /\ previous' = [previous EXCEPT ![c] = writesTail]
  /\ writesTail' = c
  /\ arrival' = Append(arrival, c)
  /\ UNCHANGED <<activityFile, newFile, blind, listening, told>>

InState(st) == {c \in DashCall : dashCall[c] = st}
PreviousDone(c) == previous[c] \in {NoLink} \cup InState("answered")

\* list(): a read that fails, for whatever reason, is a file with nothing in it
Listing(c) == IF c \in blind THEN <<>> ELSE activityFile

Others(list, a) == Picked(list, {i \in DOMAIN list : list[i] # a})
Added(list, c) == UpTo(<<ActivityOf[c]>> \o Others(list, ActivityOf[c]), ActivityLimit)

\* the body of a link: an append reads the file and writes the temporary one
WriteTemporary(c) ==
  /\ dashCall[c] = "waiting" /\ Appends(c) /\ PreviousDone(c)
  /\ dashCall' = [dashCall EXCEPT ![c] = "working"]
  /\ blind' \in {blind, blind \cup {c}}
  /\ UNCHANGED <<previous, writesTail, arrival, activityFile, listening, told>>
  /\ newFile' = [newFile EXCEPT ![c] = Added(Listing(c)', c)]

\* a plausible bug: the entry of #writes is dropped only when the write succeeded
ForgetOnSuccess(c, outcome) == IF writesTail = c /\ outcome = "answered" THEN NoLink ELSE writesTail

ForgetLink(c, outcome) == IF writesTail = c THEN NoLink ELSE writesTail

\* a link settles; its caller tells the subscribers, forgets the link if it is
\* still the last, and answers
SettleLink(c, outcome) ==
  /\ dashCall' = [dashCall EXCEPT ![c] = outcome]
  /\ writesTail' = ForgetLink(c, outcome)
  /\ UNCHANGED <<previous, arrival, newFile, blind, listening>>

RenameInPlace(c) ==
  /\ dashCall[c] = "working"
  /\ activityFile' = newFile[c]
  /\ told' = IF listening THEN Append(told, ActivityOf[c]) ELSE told
  /\ SettleLink(c, "answered")

RemoveFile(c) ==
  /\ dashCall[c] = "waiting" /\ ~Appends(c) /\ PreviousDone(c)
  /\ activityFile' = <<>>
  /\ SettleLink(c, "answered")
  /\ UNCHANGED told

\* the disk refuses a step of the link, or the link before it was rejected:
\* previous.then() hands the rejection down without running this link
LinkRejects(c) ==
  /\ \/ dashCall[c] = "working"
     \/ dashCall[c] = "waiting" /\ PreviousDone(c)
     \/ dashCall[c] = "waiting" /\ previous[c] \in InState("failed")
  /\ SettleLink(c, "failed")
  /\ UNCHANGED <<activityFile, told>>

Subscribe == ~listening /\ listening' = TRUE
  /\ UNCHANGED <<dashCall, previous, writesTail, arrival, activityFile, newFile, blind, told>>

Unsubscribe == listening /\ listening' = FALSE
  /\ UNCHANGED <<dashCall, previous, writesTail, arrival, activityFile, newFile, blind, told>>

\* the process stops: the chain and the streams go, the renamed file stays
DashCrash ==
  /\ \E c \in DashCall : dashCall[c] \in {"waiting", "working"}
  /\ dashCall' = [c \in DashCall |-> IF dashCall[c] \in {"waiting", "working"} THEN "lost" ELSE dashCall[c]]
  /\ writesTail' = NoLink
  /\ listening' = FALSE
  /\ UNCHANGED <<previous, arrival, activityFile, newFile, blind, told>>

DashNext ==
  \/ \E c \in DashCall : QueueLink(c) \/ WriteTemporary(c) \/ RenameInPlace(c) \/ RemoveFile(c) \/ LinkRejects(c)
  \/ Subscribe \/ Unsubscribe \/ DashCrash

DashSpec == DashInit /\ [][DashNext]_dashVars

----------------------------------------------------------------------------

Before(c, d) == \E i, j \in 1..Len(arrival) : i < j /\ arrival[i] = c /\ arrival[j] = d
Displacing(c) == {ActivityOf[d] : d \in {d \in DashCall : Before(c, d) /\ Appends(d) /\ dashCall[d] # "unsent"}} \ {ActivityOf[c]}

\* what c posted is listed, or later calls cleared it or pushed it out
StaysListed(c) ==
  \/ ActivityOf[c] \in ToSet(activityFile)
  \/ \E d \in DashCall : Before(c, d) /\ ~Appends(d) /\ dashCall[d] = "answered"
  \/ Cardinality(Displacing(c)) >= ActivityLimit

\* appends that came after c and took the file they could not read for an empty one
Overwriting(c) == {d \in blind : Before(c, d) /\ dashCall[d] = "answered"}

\* What the session was told stays true: an append answered 201 is listed
\* until calls that came after it clear the file, push it out or could not read
\* it, an answered clear leaves only what came after it, nobody heard on a stream of an
\* activity that never reached the disk, and a write that failed is not left
\* as the link the next call will wait for (dashboard-activity-store.ts 52-100).
ActivityIsSound ==
  /\ \A c \in DashCall : dashCall[c] = "answered" /\ Appends(c) => StaysListed(c) \/ Overwriting(c) # {}
  /\ \A c \in DashCall : dashCall[c] = "answered" /\ ~Appends(c) =>
       \A a \in ToSet(activityFile) : \E d \in DashCall : Before(c, d) /\ ActivityOf[d] = a
  /\ \A a \in ToSet(told) : \E c \in DashCall : dashCall[c] = "answered" /\ ActivityOf[c] = a
  /\ writesTail # NoLink => dashCall[writesTail] \in {"waiting", "working"}

\* What a history is for, that it is lost only to its limit and to who erases it:
\* not so where a read fails, for the next append replaces the file by itself
\* alone (dashboard-activity-store.ts 43-50, 57-58).
NothingIsOverwritten == \A c \in DashCall : dashCall[c] = "answered" /\ Appends(c) => StaysListed(c)

=============================================================================

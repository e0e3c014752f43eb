------------------------------- MODULE Codegen -------------------------------
(* The recordings of Playwright Codegen (routes/codegen.ts,                  *)
(* codegen-session-store.ts): the exclusive check, the child process, its    *)
(* deadline, and the retention of what was recorded.                         *)
EXTENDS Naturals, FiniteSets

CONSTANT Recording

VARIABLES
  recPhase,     \* the request: what it awaits
  recSession,   \* CodegenSessionStore: "none", "active" or "inactive"
  recChild,     \* the child process
  recDeadline,  \* sessions whose deadline is armed
  recFile,      \* recorded.spec.ts exists
  recTimer      \* sessions whose expiry is armed

recVars == <<recPhase, recSession, recChild, recDeadline, recFile, recTimer>>

RecInit ==
  /\ recPhase = [c \in Recording |-> "idle"]
  /\ recSession = [c \in Recording |-> "none"]
  /\ recChild = [c \in Recording |-> "none"]
  /\ recDeadline = {} /\ recFile = {} /\ recTimer = {}

HasActive == \E c \in Recording : recSession[c] = "active"

RecArrive(c) ==
  /\ recPhase[c] = "idle"
  /\ recPhase' = [recPhase EXCEPT ![c] = IF HasActive THEN "refused" ELSE "preparing"]
  /\ UNCHANGED <<recSession, recChild, recDeadline, recFile, recTimer>>

\* A bad body or URL, or the directory cannot be made.
RecReject(c) ==
  /\ recPhase[c] = "preparing"
  /\ recPhase' = [recPhase EXCEPT ![c] = "refused"]
  /\ UNCHANGED <<recSession, recChild, recDeadline, recFile, recTimer>>

\* After the awaits: spawn, remember, arm the deadline, answer.
StartRecording(c) ==
  /\ recPhase[c] = "preparing"
  /\ recChild' = [recChild EXCEPT ![c] = "spawning"]
  /\ recSession' = [recSession EXCEPT ![c] = "active"]
  /\ recDeadline' = recDeadline \cup {c}
  /\ recPhase' = [recPhase EXCEPT ![c] = "answered"]
  /\ UNCHANGED <<recFile, recTimer>>

ChildRuns(c) ==
  /\ recChild[c] = "spawning"
  /\ recChild' = [recChild EXCEPT ![c] = "running"]
  /\ UNCHANGED <<recPhase, recSession, recDeadline, recFile, recTimer>>

\* Codegen writes the file while it records.
ChildSaves(c) ==
  /\ recChild[c] = "running"
  /\ recFile' = recFile \cup {c}
  /\ UNCHANGED <<recPhase, recSession, recChild, recDeadline, recTimer>>

\* The deadline kills the process tree; only the exit ends the session.
RecDeadline(c) ==
  /\ c \in recDeadline
  /\ recDeadline' = recDeadline \ {c}
  /\ recChild' = [recChild EXCEPT ![c] = IF @ \in {"spawning", "running"} THEN "killed" ELSE @]
  /\ UNCHANGED <<recPhase, recSession, recFile, recTimer>>

\* Only a clean exit is listened to.
FinishOnExit(c, event) ==
  IF event = "error" THEN UNCHANGED <<recSession, recDeadline, recTimer>>
  ELSE /\ recSession' = [recSession EXCEPT ![c] = "inactive"]
       /\ recDeadline' = recDeadline \ {c}
       /\ recTimer' = recTimer \cup {c}

\* finish: the first of error and exit.
FinishRecording(c, event) ==
  /\ recSession' = [recSession EXCEPT ![c] = "inactive"]
  /\ recDeadline' = recDeadline \ {c}
  /\ recTimer' = recTimer \cup {c}

\* error when the process could not be spawned, exit otherwise.
ChildEnds(c) ==
  /\ \/ recChild[c] = "spawning" /\ FinishRecording(c, "error")
     \/ recChild[c] \in {"running", "killed"} /\ FinishRecording(c, "exit")
  /\ recChild' = [recChild EXCEPT ![c] = "gone"]
  /\ UNCHANGED <<recPhase, recFile>>

ExpireRecording(c) ==
  /\ c \in recTimer
  /\ recSession' = [recSession EXCEPT ![c] = "none"]
  /\ recFile' = recFile \ {c}
  /\ recTimer' = recTimer \ {c}
  /\ UNCHANGED <<recPhase, recChild, recDeadline>>

RecNext ==
  \E c \in Recording :
    \/ RecArrive(c) \/ RecReject(c) \/ StartRecording(c) \/ ChildRuns(c)
    \/ ChildSaves(c) \/ RecDeadline(c) \/ ChildEnds(c) \/ ExpireRecording(c)

RecSpec == RecInit /\ [][RecNext]_recVars

-----------------------------------------------------------------------------

RecTypeOK ==
  /\ recPhase \in [Recording -> {"idle", "refused", "preparing", "answered"}]
  /\ recSession \in [Recording -> {"none", "active", "inactive"}]
  /\ recChild \in [Recording -> {"none", "spawning", "running", "killed", "gone"}]
  /\ recDeadline \cup recFile \cup recTimer \subseteq Recording

\* The slot of the recordings follows the child process, whichever event it
\* ends with: it is never held by a process that is gone, never free while one
\* records, and the directory of a session that ended is always due to go.
SlotFollowsProcess ==
  \A c \in Recording :
    /\ recSession[c] = "active" <=> recChild[c] \in {"spawning", "running", "killed"}
    /\ recSession[c] = "inactive" <=> c \in recTimer
=============================================================================

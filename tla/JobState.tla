------------------------------ MODULE JobState ------------------------------
(* The state machine of an analysis (src/src/job-state.ts): the five states, *)
(* the one table of allowed transitions, and the two questions asked of it.  *)

JobStatus == {"queued", "running", "completed", "failed", "cancelled"}

AllowedTransitions ==
  [queued    |-> {"running", "cancelled"},
   running   |-> {"completed", "failed", "cancelled"},
   completed |-> {},
   failed    |-> {},
   cancelled |-> {}]

IsTerminalJobStatus(s) == s \in JobStatus /\ AllowedTransitions[s] = {}

CanTransitionJob(from, to) == to \in AllowedTransitions[from]

=============================================================================

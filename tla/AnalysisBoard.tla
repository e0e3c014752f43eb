--------------------------- MODULE AnalysisBoard ---------------------------
(* What the scan queue promises to whoever submits an analysis: analyses     *)
(* wait in order of arrival, start from the front, at most Slots of them at  *)
(* once, leave the line only by starting or by being cancelled, and end      *)
(* once.  No timers, no scheduler, no ids: ScanQueue implements this module. *)
EXTENDS Naturals, Sequences, FiniteSets, SequencesExt

CONSTANTS Analysis, Slots

VARIABLES line, executing, outcome

boardVars == <<line, executing, outcome>>

Outcome == {"completed", "failed", "cancelled"}

BoardInit ==
  /\ line = <<>>
  /\ executing = {}
  /\ outcome = [a \in Analysis |-> "none"]

Submit(a) ==
  /\ a \notin ToSet(line) \cup executing /\ outcome[a] = "none"
  /\ line' = Append(line, a)
  /\ UNCHANGED <<executing, outcome>>

StartFirst ==
  /\ line # <<>> /\ Cardinality(executing) < Slots
  /\ line' = Tail(line)
  /\ executing' = executing \cup {Head(line)}
  /\ UNCHANGED outcome

Withdraw(a) ==
  /\ a \in ToSet(line)
  /\ line' = RemoveFirst(line, a)
  /\ outcome' = [outcome EXCEPT ![a] = "cancelled"]
  /\ UNCHANGED executing

End(a) ==
  /\ a \in executing
  /\ executing' = executing \ {a}
  /\ \E result \in Outcome : outcome' = [outcome EXCEPT ![a] = result]
  /\ UNCHANGED line

BoardNext ==
  \/ StartFirst
  \/ \E a \in Analysis : Submit(a) \/ Withdraw(a) \/ End(a)

BoardSafety == BoardInit /\ [][BoardNext]_boardVars

\* The line moves whenever it may, and every execution ends.
BoardSpec ==
  /\ BoardSafety
  /\ WF_boardVars(StartFirst)
  /\ \A a \in Analysis : WF_boardVars(End(a))
=============================================================================

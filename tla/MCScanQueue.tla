---------------------------- MODULE MCScanQueue ----------------------------
(* Three analyses, each with an id of its own, and two slots: one analysis   *)
(* waits while two run, so every way of freeing a slot meets a waiting one.  *)
(* The liveness run takes three analyses and one slot.                       *)
EXTENDS ScanQueue

MCIdOf == [o \in Job |-> o]

\* The analyses are interchangeable; used only where no liveness is checked.
Symmetry == Permutations(Job)
=============================================================================

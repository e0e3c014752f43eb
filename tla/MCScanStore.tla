---------------------------- MODULE MCScanStore ----------------------------
(* Two objects for each id: the one a request builds and the one recovery    *)
(* may build for the same row.                                               *)
EXTENDS ScanStore

MCJob == Id \X {"first", "second"}
MCIdOf == [o \in MCJob |-> o[1]]
Symmetry == Permutations(Id)
=============================================================================

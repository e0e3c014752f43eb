--------------------------- MODULE MCScanCreation ---------------------------
(* Three requests with the same key, the third with another body, and two    *)
(* without a key that compete for the places in the queue.                   *)
EXTENDS ScanCreation

CONSTANTS r1, r2, r3, u1, u2, bodyA, bodyB

MCBodyOf == [r \in Request |-> IF r = r3 THEN bodyB ELSE bodyA]
=============================================================================

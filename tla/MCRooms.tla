------------------------------ MODULE MCRooms ------------------------------
(* Two players, one of whom comes back on a second connection, and rooms   *)
(* that get the same code one after the other.                             *)
EXTENDS Rooms

CONSTANTS p1, p2, a1, a2, b1, k1

OwnerOf == [c \in Connection |-> IF c = b1 THEN p2 ELSE p1]
OneCode == [r \in Room |-> k1]
=============================================================================

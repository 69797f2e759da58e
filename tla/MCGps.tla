-------------------------------- MODULE MCGps --------------------------------
(* Small instances of Gps for TLC. *)
EXTENDS Gps

CONSTANTS c1, c2, s1, s2

MCBodies == [type : {OP_ADD, OP_READ}, key : Keys]

\* Even keys to one substructure, odd keys to the other.
TwoRoutes == [k \in Keys |-> IF k % 2 = 0 THEN s1 ELSE s2]

\* Key 2 is left to c2.
LeftToC2 == arg'[c1] # Unset => arg'[c1].op.body.key # 2
==============================================================================

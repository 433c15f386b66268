------------------------- MODULE MCActivityReport --------------------------
(* An instance of ActivityReport for TLC: points that follow soon or late, *)
(* that stay, move or jump; a window around all of them, and one that cuts.*)
EXTENDS ActivityReport

SoonOrLate == {1, 3}
StayMoveJump == {0, 1, 3}
WholeOrPart == {[from |-> 0, to |-> 100], [from |-> 4, to |-> 8]}
=============================================================================

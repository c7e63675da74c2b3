---------------------------- MODULE MCYaspAdapt ----------------------------
(***************************************************************************)
(* Instances of YaspAdapt for TLC: processes in a line, the outer two are  *)
(* not neighbours and can be two levels apart; two neighbours; and a       *)
(* sequential program.                                                     *)
(***************************************************************************)
EXTENDS YaspAdapt

CONSTANTS p1, p2, p3

Alone == [p \in {p1} |-> {}]
Pair == [p \in {p1, p2} |-> {p1, p2} \ {p}]
Line == [p \in {p1, p2, p3} |-> IF p = p2 THEN {p1, p3} ELSE {p2}]
Steps == {-1, 1}
One == {1}
=============================================================================

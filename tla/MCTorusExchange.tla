-------------------------- MODULE MCTorusExchange --------------------------
(***************************************************************************)
(* Instances of TorusExchange for TLC.                                     *)
(***************************************************************************)
EXTENDS TorusExchange

(* Two directions: of the eight tasks of a process two are local and six   *)
(* go to the other process.                                                *)
Dims21 == <<2, 1>>

(* One round among some neighbours only, as communicateCodim() does for    *)
(* intersections that exist: four of the eight tasks, two of them local    *)
(* (process 0 in round 1, process 1 in round 2), or two, one of them local.*)
UsedSome21 == [r \in 1..2 |-> [p \in Ranks(Dims21) |-> IF r = p+1 THEN {1, 2, 4, 7} ELSE {2, 8}]]
=============================================================================

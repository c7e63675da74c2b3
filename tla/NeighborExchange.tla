-------------------------- MODULE NeighborExchange --------------------------
(***************************************************************************)
(* What a caller of Torus::exchange() may rely on, without buffers,        *)
(* requests or messages: every process takes part in a number of rounds;   *)
(* it comes back from a round once all processes it expects something from *)
(* have begun that round, and it then knows, for every task of the round,  *)
(* what the partner of the task sent for it in this round.                 *)
(***************************************************************************)
EXTENDS Integers

CONSTANTS
  Rank, Pos, Rounds,
  Expect,   \* Expect[r][q]: the positions at which q receives in round r
  Partner   \* Partner[q][i]: the process q receives from at position i

VARIABLES
  entered,   \* number of rounds a process has begun
  returned,  \* number of rounds a process has come back from
  result     \* what its last round brought a process, Busy inside a round

absVars == <<entered, returned, result>>

Busy == "busy"

AbsInit ==
  /\ entered = [p \in Rank |-> 0]
  /\ returned = [p \in Rank |-> 0]
  /\ result = [p \in Rank |-> <<>>]

Enter(p) ==
  /\ entered[p] = returned[p] /\ entered[p] < Rounds
  /\ entered' = [entered EXCEPT ![p] = @ + 1]
  /\ result' = [result EXCEPT ![p] = Busy]
  /\ UNCHANGED returned

Return(q) ==
  /\ entered[q] = returned[q] + 1
  /\ \A i \in Expect[entered[q]][q] : entered[Partner[q][i]] >= entered[q]
  /\ returned' = [returned EXCEPT ![q] = @ + 1]
  /\ result' = [result EXCEPT ![q] =
                  [i \in Expect[entered[q]][q] |->
                     [from |-> Partner[q][i], pos |-> i, round |-> entered[q]]]]
  /\ UNCHANGED entered

AbsNext == \E p \in Rank : Enter(p) \/ Return(p)

AbsSpec == AbsInit /\ [][AbsNext]_absVars
           /\ \A p \in Rank : WF_absVars(Enter(p)) /\ WF_absVars(Return(p))
=============================================================================

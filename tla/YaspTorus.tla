----------------------------- MODULE YaspTorus -----------------------------
(***************************************************************************)
(* The torus of processes of YaspGrid (dune/grid/yaspgrid/torus.hh).       *)
(*                                                                         *)
(* A torus is given by its dimensions "dims", a sequence of positive       *)
(* numbers; its processes are numbered lexicographically.  Directions are  *)
(* 1..Len(dims) here and 0..d-1 in the code; ranks and coordinates start   *)
(* at 0 in both.  Everything in this module is a pure function of its      *)
(* arguments.                                                              *)
(***************************************************************************)
EXTENDS Integers, Sequences, Functions

Dirs(dims) == 1..Len(dims)

(* _increment: the lexicographic increments, inc[Len(dims)+1] being the    *)
(* number of processes of the torus.                                       *)
increment(dims) ==
  LET inc[i \in 1..Len(dims)+1] ==
        IF i = 1 THEN 1 ELSE inc[i-1] * dims[i-1]
  IN  inc

procs(dims) == increment(dims)[Len(dims)+1]

Ranks(dims) == 0 .. procs(dims)-1

(* The coordinates the torus has. *)
inside(dims, c) == \A i \in Dirs(dims) : c[i] >= 0 /\ c[i] < dims[i]

(* Lexicographic numbering: peel off the directions from the last to the   *)
(* first, the remainder of one direction being the rank in the next.       *)
rank_to_coord(dims, rank) ==
  [i \in Dirs(dims) |-> (rank % increment(dims)[i+1]) \div increment(dims)[i]]

coord_to_rank(dims, c) ==
  LET rank[i \in 0..Len(dims)] ==
        IF i = 0 THEN 0 ELSE rank[i-1] + (c[i] % dims[i]) * increment(dims)[i]
  IN  rank[Len(dims)]

(* The process at offset cnt in direction dir, the torus being closed. *)
rank_relative(dims, rank, dir, cnt) ==
  coord_to_rank(dims, [rank_to_coord(dims, rank) EXCEPT ![dir] =
                         (@ + dims[dir] + cnt) % dims[dir]])

(* Is there a process in direction delta when only the directions in the   *)
(* set "periodic" are closed?                                              *)
is_neighbor(dims, rank, delta, periodic) ==
  \A i \in Dirs(dims) \ periodic :
     /\ delta[i] < 0 => rank_to_coord(dims, rank)[i] # 0
     /\ delta[i] > 0 => rank_to_coord(dims, rank)[i] # dims[i]-1

(* Two bits per direction: the parity of the coordinate, and whether it is *)
(* the last one of a direction with several processes.                     *)
color(dims, c) ==
  SumFunction([i \in Dirs(dims) |->
      (IF c[i] % 2 = 1 THEN 2^(i-1) ELSE 0)
    + (IF dims[i] > 1 /\ c[i] = dims[i]-1 THEN 2^(Len(dims)+i-1) ELSE 0)])

-----------------------------------------------------------------------------
(* The remainder of the division is dropped. *)
piece_even(n, c, origin, size) ==
  [origin |-> origin + c * (size \div n), size |-> size \div n]

(* partition: the piece of "size" cells starting at "origin" that the      *)
(* process with coordinate c has in one direction with n processes.  The   *)
(* tensor product of the directions is the interior of the process.  The   *)
(* last r processes get one cell more.                                     *)
piece(n, c, origin, size) ==
  LET m == size \div n
      r == size % n
  IN  IF c < n - r
      THEN [origin |-> origin + c*m, size |-> m]
      ELSE [origin |-> origin + (n-r)*m + (c-(n-r))*(m+1), size |-> m+1]

partition(dims, rank, origin, size) ==
  [i \in Dirs(dims) |->
     piece(dims[i], rank_to_coord(dims, rank)[i], origin[i], size[i])]

-----------------------------------------------------------------------------
(* The 3^d-1 neighbours of a process and the order in which proclists()    *)
(* lists them.                                                             *)
threeTimes[n \in Nat] == IF n = 0 THEN 1 ELSE 3 * threeTimes[n-1]

neighbors(dims) == threeTimes[Len(dims)] - 1

(* The k-th distance vector (k = 0..3^d-1) in the order the counting loop  *)
(* produces them, the first direction running fastest; the vector in the   *)
(* middle is zero and is skipped.                                          *)
deltaAt(dims, k) == [i \in Dirs(dims) |-> ((k \div threeTimes[i-1]) % 3) - 1]

nonzeroDelta(dims, j) ==
  deltaAt(dims, IF j <= neighbors(dims) \div 2 THEN j-1 ELSE j)

partner(dims, me, delta) ==
  coord_to_rank(dims, [i \in Dirs(dims) |->
     (rank_to_coord(dims, me)[i] + dims[i] + delta[i]) % dims[i]])

(* _recvlist: entries in the order they are found (push_back). *)
recvlist(dims, me) ==
  [j \in 1..neighbors(dims) |->
     [rank |-> partner(dims, me, nonzeroDelta(dims, j)),
      delta |-> nonzeroDelta(dims, j), index |-> j-1]]

(* _sendlist: the same entries in the opposite order (push_front), with    *)
(* the index counted from the other end.                                   *)
sendlist(dims, me) ==
  LET last == neighbors(dims) - 1
  IN  [j \in 1..neighbors(dims) |->
         [recvlist(dims, me)[neighbors(dims)+1-j] EXCEPT !.index = last - @]]
=============================================================================

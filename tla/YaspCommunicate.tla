-------------------------- MODULE YaspCommunicate --------------------------
(***************************************************************************)
(* YaspGrid::communicate(): data of the entities is carried along the      *)
(* intersections of YaspGrid, codimension by codimension, packed without   *)
(* any description of it into one message per intersection.                *)
(*                                                                         *)
(* Every call of Torus::exchange() is a round: a process appends what it   *)
(* sends to "outbox" and comes back once all processes it receives from    *)
(* have done the same (NeighborExchange).  Messages between two processes  *)
(* are matched by their order.                                             *)
(***************************************************************************)
EXTENDS YaspEntities

CONSTANT Communications   \* arguments of communicate() to consider

VARIABLES
  stage,    \* "idle", or what the process waits for
  left,     \* codimensions communicate() still has to do, the current one first
  outbox,   \* messages of every round, in the order of the send list
  expected, \* receive requests of the round, in the order of the receive list
  sizes,    \* sizes received for the current codimension, per receive request
  got       \* what the data handle was told to scatter since the call began

commVars == <<stage, left, outbox, expected, sizes, got>>
allCommVars == <<vars, commVars>>

IfTypes == {"InteriorBorder_InteriorBorder", "InteriorBorder_All",
            "Overlap_OverlapFront", "Overlap_All", "All_All"}

ASSUME CommunicationsAssumption ==
  \A c \in Communications : /\ c.codims \subseteq Nat /\ c.iftype \in IfTypes
                            /\ c.dir \in {"forward", "backward"}
                            /\ c.fixed \in BOOLEAN /\ c.level \in Nat \ {0}

-----------------------------------------------------------------------------
(* What is sent and where it is received. *)
interface(iftype) ==
  CASE iftype = "InteriorBorder_InteriorBorder" -> <<"interiorborder", "interiorborder">>
    [] iftype = "InteriorBorder_All"            -> <<"interiorborder", "overlapfront">>
    [] iftype \in {"Overlap_OverlapFront", "Overlap_All"} -> <<"overlap", "overlapfront">>
    [] iftype = "All_All"                       -> <<"overlapfront", "overlapfront">>

(* A list of intersections for a codimension: those of its components.     *)
concatenated(list, codim) ==
  FlattenSeq([k \in 1..Len(components(codim)) |->
    [j \in 1..Len(list[components(codim)[k]]) |->
       [shift |-> components(codim)[k], grid |-> list[components(codim)[k]][j].grid,
        rank |-> list[components(codim)[k]][j].rank]]])

sends(p, c, codim) ==
  LET g == level[p][c.level]
      f == interface(c.iftype)
  IN  concatenated(IF c.dir = "forward" THEN g.send[f] ELSE g.recv[f], codim)

recvs(p, c, codim) ==
  LET g == level[p][c.level]
      f == interface(c.iftype)
  IN  concatenated(IF c.dir = "forward" THEN g.recv[f] ELSE g.send[f], codim)

(* The points of an intersection in the order the iterator visits them.    *)
walk(g) ==
  [n \in 1..totalsize(g) |->
     [i \in Dir |-> g.origin[i] + (((n-1) \div superincrement(g, i)) % g.size[i])]]

(* An entry of a list as a message; gather(r, x) is what the handle writes *)
(* for one entity.                                                         *)
message(e, gather(_, _)) ==
  [rank |-> e.rank,
   items |-> FlattenSeq([n \in 1..totalsize(e.grid) |-> gather(e.shift, walk(e.grid)[n])])]

(* The requests of one round, handed to the torus before the exchange.     *)
Post(p, sendlist_, recvlist_, gather(_, _)) ==
  /\ outbox' = [outbox EXCEPT ![p] =
                  Append(@, [j \in 1..Len(sendlist_) |-> message(sendlist_[j], gather)])]
  /\ expected' = [expected EXCEPT ![p] = recvlist_]

(* The messages of this round for p from the process of request j, and     *)
(* which of them is the answer.                                            *)
round(p) == Len(outbox[p])
from(p, j) ==
  LET q == expected[p][j].rank
  IN  IF Len(outbox[q]) >= round(p) THEN With(outbox[q][round(p)], p) ELSE <<>>
(* Every request takes the first message. *)
turn_first(p, j) == 1

turn(p, j) == Cardinality({i \in 1..j : expected[p][i].rank = expected[p][j].rank})

(* The partners must be in the next round already. *)
Arrived_ahead(p) == \A j \in 1..Len(expected[p]) : Len(outbox[expected[p][j].rank]) > round(p)

Arrived(p) == \A j \in 1..Len(expected[p]) : Len(from(p, j)) >= turn(p, j)
incoming(p, j) == from(p, j)[turn(p, j)].items

(* The calls of scatter(), one after the other in the order of requests    *)
(* and points; ns[j][n] items belong to point n of request j.              *)
before(ns, j, n) == SumFunction([k \in 1..n-1 |-> ns[j][k]])

scattered(p, ns) ==
  FlattenSeq([j \in 1..Len(expected[p]) |->
    [n \in 1..totalsize(expected[p][j].grid) |->
      [shift |-> expected[p][j].shift, coord |-> walk(expected[p][j].grid)[n],
       items |-> SubSeq(incoming(p, j), before(ns, j, n) + 1, before(ns, j, n) + ns[j][n])]]])

-----------------------------------------------------------------------------
(* A data handle of the user: the items name the entity they come from;    *)
(* their number is fixed, or differs between entities and may be zero.     *)
size(p, c, r, x) ==
  IF c.fixed THEN 2 ELSE (p + SumFunction([i \in Dir |-> x[i]]) + Cardinality(r)) % 3

gathered(p, c, r, x) ==
  [k \in 1..size(p, c, r, x) |-> [from |-> p, shift |-> r, coord |-> x, nr |-> k]]

-----------------------------------------------------------------------------
call(p) == calls[done[p]].arg

PostData(p, c, codim) ==
  Post(p, sends(p, c, codim), recvs(p, c, codim), LAMBDA r, x : gathered(p, c, r, x))
(* Entities without data are left out. *)
PostSizes_sparse(p, c, codim) ==
  Post(p, sends(p, c, codim), recvs(p, c, codim),
       LAMBDA r, x : SelectSeq(<<size(p, c, r, x)>>, LAMBDA n : n > 0))

PostSizes(p, c, codim) ==
  Post(p, sends(p, c, codim), recvs(p, c, codim), LAMBDA r, x : <<size(p, c, r, x)>>)

(* communicateCodim() up to its first exchange, or the end of the call.    *)
CommunicateCodims(p, c, codims) ==
  /\ left' = [left EXCEPT ![p] = codims]
  /\ IF codims = <<>>
     THEN stage' = [stage EXCEPT ![p] = "idle"] /\ UNCHANGED <<outbox, expected>>
     ELSE IF c.fixed
     THEN stage' = [stage EXCEPT ![p] = "data"] /\ PostData(p, c, Head(codims))
     ELSE stage' = [stage EXCEPT ![p] = "sizes"] /\ PostSizes(p, c, Head(codims))

(* From the vertices to the cells. *)
contained(c) == SetToSortSeq(c.codims \cap Codims, LAMBDA a, b : a > b)

Communicate(p) ==
  /\ stage[p] = "idle"
  /\ \E c \in Communications :
       /\ c.level <= maxLevel(p)
       /\ MakesCall(p, [name |-> "communicate", arg |-> c])
       /\ CommunicateCodims(p, c, contained(c))
  /\ got' = [got EXCEPT ![p] = <<>>]
  /\ UNCHANGED <<args, dims, phase, level, keep_ovlp, todo, published, sizes>>

SizesExchanged(p) ==
  /\ stage[p] = "sizes" /\ Arrived(p)
  /\ sizes' = [sizes EXCEPT ![p] = [j \in 1..Len(expected[p]) |-> incoming(p, j)]]
  /\ PostData(p, call(p), Head(left[p]))
  /\ stage' = [stage EXCEPT ![p] = "data"]
  /\ UNCHANGED <<vars, left, got>>

(* How many items each point of each request gets. *)
numbers(p) ==
  [j \in 1..Len(expected[p]) |->
     [n \in 1..totalsize(expected[p][j].grid) |-> IF call(p).fixed THEN 2 ELSE sizes[p][j][n]]]

DataExchanged(p) ==
  /\ stage[p] = "data" /\ Arrived(p)
  /\ got' = [got EXCEPT ![p] = @ \o scattered(p, numbers(p))]
  /\ sizes' = [sizes EXCEPT ![p] = <<>>]
  /\ CommunicateCodims(p, call(p), Tail(left[p]))
  /\ UNCHANGED vars

CommInit ==
  /\ Init
  /\ stage = [p \in Procs |-> "idle"]
  /\ left = [p \in Procs |-> <<>>]
  /\ outbox = [p \in Procs |-> <<>>]
  /\ expected = [p \in Procs |-> <<>>]
  /\ sizes = [p \in Procs |-> <<>>]
  /\ got = [p \in Procs |-> <<>>]

(* The calls of YaspGrid are not made while another call goes on. *)
GridCall(p) ==
  /\ stage[p] = "idle"
  /\ RefineOptions(p) \/ Coarsen(p) \/ BeginRefine(p)
  /\ UNCHANGED commVars

CommInside(p) == SizesExchanged(p) \/ DataExchanged(p)

-----------------------------------------------------------------------------
(* Types; a process receives as many sizes as it has entities to receive.  *)
CommTypeOK ==
  \A p \in Procs :
    /\ stage[p] # "idle" => phase[p] = "ready" /\ todo[p] = 0
    /\ left[p] # <<>> <=> stage[p] \in {"sizes", "data"}
    /\ \A j \in 1..Len(sizes[p]) :
         Len(sizes[p][j]) = totalsize(expected[p][j].grid)

(* All processes have come back from the same call of communicate(). *)
Communicated ==
  /\ \A p \in Procs : stage[p] = "idle" /\ phase[p] = "ready"
  /\ \A p, q \in Procs : done[p] = done[q]
  /\ calls # <<>> /\ done[0] = Len(calls) /\ calls[done[0]].name = "communicate"

(* Who has what the other wants: <<receiver's entity, owner, its entity>>, *)
(* the two ends of the interface exchanged in the backward direction.      *)
Ends(c) == LET f == interface(c.iftype) IN IF c.dir = "forward" THEN f ELSE <<f[2], f[1]>>

Pairs(q, c) ==
  UNION {{<<r, w>> : w \in Wanted(q, Ends(c), c.level, r)} :
            r \in {s \in Shifts : dim - Cardinality(s) \in c.codims}}

AsScattered(c, w) ==
  [shift |-> w[1], coord |-> w[2][1], items |-> gathered(w[2][2], c, w[1], w[2][3])]

(* A call of communicate() brings to an entity what the other processes    *)
(* gathered for the same entity, each piece as it was gathered and once;   *)
(* if one end of the interface is the interior and border then nothing is  *)
(* missing.  This is so for every codimension, interface and direction,    *)
(* for items of fixed and of variable number (communicateCodim()).         *)
DataArrives ==
  Communicated =>
    LET c == calls[done[0]].arg
    IN  \A q \in Procs :
          LET times(s) == Cardinality({n \in 1..Len(got[q]) : got[q][n] = s})
              wanted(s) == Cardinality({w \in Pairs(q, c) : AsScattered(c, w) = s})
              all == ToSet(got[q]) \cup {AsScattered(c, w) : w \in Pairs(q, c)}
          IN  \A s \in all :
                IF interface(c.iftype)[1] = "interiorborder"
                THEN times(s) = wanted(s)
                ELSE times(s) <= wanted(s)
=============================================================================

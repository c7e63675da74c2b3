------------------------------ MODULE YaspGrid ------------------------------
(***************************************************************************)
(* The levels of a parallel YaspGrid (dune/grid/yaspgrid.hh): construction *)
(* of the coarse level, global refinement and coarsening, the partitions   *)
(* of every level and the intersections with the neighbour processes that  *)
(* communication uses.                                                     *)
(*                                                                         *)
(* All processes run the same program: a sequence of calls, recorded in    *)
(* "calls" by the process that gets there first.  Each runs at its own     *)
(* pace; it waits only inside makelevel(), where intersections() exchanges *)
(* grids with the neighbours of the torus (module TorusExchange).  All     *)
(* exchanges of one makelevel() are one exchange here.                     *)
(***************************************************************************)
EXTENDS YaspPartitioning, YGrid

CONSTANTS
  Cases,      \* constructor arguments to consider
  Counts,     \* arguments of globalRefine() to consider
  LevelLimit, \* bound: number of levels
  MaxProcs    \* bound: number of processes

VARIABLES
  args,       \* arguments of the constructor; "calls" is a bound on the program
  dims,       \* dimensions of the torus
  phase,      \* "start", "exchange" (inside makelevel), "ready", "thrown"
  level,      \* _levels of every process
  keep_ovlp,
  calls,      \* the program, as far as a process has got
  done,       \* number of calls a process has begun
  todo,       \* refinements left to do in globalRefine()
  published   \* grids a process handed to its neighbours, one entry per makelevel()

vars == <<args, dims, phase, level, keep_ovlp, calls, done, todo, published>>

Dir == 1..Len(args.size)
Procs == 0..args.procs-1

(* The constructors: with and without check for a minimal size. *)
Ctors == {"equidistant", "tensor", "deprecated"}

CasesOK(c) ==
  /\ c.procs \in Nat \ {0} /\ c.size \in Seq(Nat \ {0}) /\ c.size # <<>>
  /\ c.lb \in {"default", "power", "fixed"}
  /\ c.fixed \in Seq(Nat \ {0}) /\ (c.lb = "fixed" => Len(c.fixed) = Len(c.size))
  /\ c.periodic \subseteq 1..Len(c.size)
  /\ c.overlap \in Nat /\ c.ctor \in Ctors /\ c.calls \in Nat

ASSUME CasesAssumption == \A c \in Cases : CasesOK(c)
ASSUME CountsAssumption == Counts \subseteq Int
ASSUME BoundsAssumption == LevelLimit \in Nat \ {0} /\ MaxProcs \in Nat

-----------------------------------------------------------------------------
(* Sizes in cells; l is counted from 1 here and from 0 in the code, which  *)
(* shifts by l instead of doubling.                                        *)
twice[l \in Nat \ {0}] == IF l = 1 THEN 1 ELSE 2 * twice[l-1]

levelSize(l) == [i \in Dir |-> args.size[i] * twice[l]]
maxLevel(p) == Len(level[p])

(* The four partitions of a level for the entities with shift r, the set   *)
(* of directions an entity extends in.  In every other direction a grid of *)
(* points has one point more than there are cells, and the boundary points *)
(* of a partition with overlap do not belong to it.                        *)
half(r) == [i \in Dir |-> IF i \in r THEN 0 ELSE 1]

cut(y, g, c) ==
  ygrid([i \in Dir |-> y.origin[i] + (IF i \in g.low THEN c[i] ELSE 0)],
        [i \in Dir |-> y.size[i] - (IF i \in g.low THEN c[i] ELSE 0)
                                   - (IF i \in g.up THEN c[i] ELSE 0)])

overlapfront(g, r) == ygrid(g.origin, [i \in Dir |-> g.size[i] + half(r)[i]])
overlap(g, r) == cut(overlapfront(g, r), g, half(r))
interiorborder(g, r) == cut(overlap(g, r), g, [i \in Dir |-> g.overlap - half(r)[i]])
interior(g, r) == cut(interiorborder(g, r), g, half(r))

part(name, g, r) ==
  CASE name = "overlapfront"   -> overlapfront(g, r)
    [] name = "overlap"        -> overlap(g, r)
    [] name = "interiorborder" -> interiorborder(g, r)
    [] name = "interior"       -> interior(g, r)

(* What is sent, and where it is received. *)
Interfaces == {<<"overlapfront", "overlapfront">>, <<"overlap", "overlapfront">>,
               <<"interiorborder", "interiorborder">>, <<"interiorborder", "overlapfront">>}
Shifts == SUBSET Dir

-----------------------------------------------------------------------------
(* Construction of the coarse level. *)
mine(p) == partition(dims, p, [i \in Dir |-> 0], args.size)

(* Only an empty interior is refused. *)
tooSmall_empty(p) ==
  /\ args.ctor # "deprecated"
  /\ \E i \in Dir : mine(p)[i].size = 0

(* "YaspGrid is too small to be overlapping" *)
tooSmall(p) ==
  /\ args.ctor # "deprecated"
  /\ \E i \in Dir : /\ mine(p)[i].size <= args.overlap
                    /\ \/ i \in args.periodic
                       \/ mine(p)[i].size # args.size[i]

(* Cells of a process with overlap: equidistant grids, ... *)
s_overlap(p) ==
  [i \in Dir |->
     LET low == mine(p)[i].origin - args.overlap
         up  == mine(p)[i].origin + mine(p)[i].size + args.overlap
     IN  mine(p)[i].size
         + (IF low > 0 \/ i \in args.periodic THEN args.overlap ELSE 0)
         + (IF up <= args.size[i] \/ i \in args.periodic THEN args.overlap ELSE 0)]

(* ... and grids that copy their part of a list of coordinates, and wrap   *)
(* around in it at a periodic boundary.                                    *)
newcoords_size(p) ==
  [i \in Dir |->
     LET low == mine(p)[i].origin - args.overlap
         up  == mine(p)[i].origin + mine(p)[i].size + args.overlap
         copied == mine(p)[i].size + (IF low > 0 THEN args.overlap ELSE 0)
                                   + (IF up < args.size[i] THEN args.overlap ELSE 0)
         wrapped == (IF up >= args.size[i] THEN args.overlap ELSE 0)
                    + (IF low <= 0 THEN args.overlap ELSE 0)
     IN  copied + (IF i \in args.periodic THEN wrapped ELSE 0)]

container(p) == IF args.ctor = "tensor" THEN newcoords_size(p) ELSE s_overlap(p)

(* The overlap of the fine level is always trimmed. *)
refine_size_trimmed(g, low, up, keep) ==
  [i \in Dir |-> 2 * g.size[i]
     - (IF i \in low THEN g.overlap ELSE 0) - (IF i \in up THEN g.overlap ELSE 0)]

(* The coordinate container of the next finer level. *)
refine_size(g, low, up, keep) ==
  [i \in Dir |-> 2 * g.size[i]
     - (IF keep THEN 0
        ELSE (IF i \in low THEN g.overlap ELSE 0) + (IF i \in up THEN g.overlap ELSE 0))]

NoLists == [f \in Interfaces |-> [r \in Shifts |-> <<>>]]

(* A level l before its intersections are known. *)
makelevel(l, size, o_interior, ov, keep) ==
  LET atLow == {i \in Dir \ args.periodic : o_interior[i] - ov < 0}
      origin == [i \in Dir |-> IF i \in atLow THEN 0 ELSE o_interior[i] - ov]
  IN  [origin |-> origin, size |-> size,
       low |-> Dir \ atLow,
       up  |-> {i \in Dir : \/ i \in args.periodic
                              \/ origin[i] + size[i] < levelSize(l)[i]},
       overlap |-> ov, keepOverlap |-> keep,
       send |-> NoLists, recv |-> NoLists]

-----------------------------------------------------------------------------
(* intersections(): process p sends its grid to the neighbour in direction *)
(* delta, moved by the size of the domain where that crosses a periodic    *)
(* boundary, and an empty grid where the domain ends.                      *)
outside(p, delta) ==
  [i \in Dir |->
     LET c == rank_to_coord(dims, p)[i] + delta[i]
     IN  IF c < 0 THEN 1 ELSE IF c >= dims[i] THEN -1 ELSE 0]

(* The grid is moved the other way. *)
sentgrid_backwards(p, delta, y, l) ==
  LET o == outside(p, delta)
  IN  IF \E i \in Dir \ args.periodic : o[i] # 0
      THEN nogrid(Len(dims))
      ELSE move(y, [i \in Dir |-> -o[i] * levelSize(l)[i]])

sentgrid(p, delta, y, l) ==
  LET o == outside(p, delta)
  IN  IF \E i \in Dir \ args.periodic : o[i] # 0
      THEN nogrid(Len(dims))
      ELSE move(y, [i \in Dir |-> o[i] * levelSize(l)[i]])

(* The elements of s at the positions in J, in their order. *)
chosen(s, J) == FlattenSeq([k \in 1..Len(s) |-> IF k \in J THEN <<s[k]>> ELSE <<>>])

(* One entry per neighbour: the part of y the received grid meets. *)
met(p, y, q_grid, name, r, l) ==
  LET rl == recvlist(dims, p)
      sl(q) == sendlist(dims, q)
      entry(j) == LET q == rl[j].rank
                  IN  [grid |-> intersection(y, sentgrid(q, sl(q)[j].delta,
                                                         part(name, q_grid[q], r), l)),
                       rank |-> q]
      all == [j \in 1..neighbors(dims) |-> entry(j)]
  IN  chosen(all, {j \in 1..neighbors(dims) : ~empty(all[j].grid)})

(* Both lists in the same order. *)
intersections_sameorder(p, g, q_grid, l) ==
  [g EXCEPT
     !.send = [f \in Interfaces |-> [r \in Shifts |->
                 met(p, part(f[1], g, r), q_grid, f[2], r, l)]],
     !.recv = [f \in Interfaces |-> [r \in Shifts |->
                 met(p, part(f[2], g, r), q_grid, f[1], r, l)]]]

(* q_grid[q]: the level as the neighbour q published it.  Send lists are   *)
(* filled at the front, receive lists at the back.                         *)
intersections(p, g, q_grid, l) ==
  [g EXCEPT
     !.send = [f \in Interfaces |-> [r \in Shifts |->
                 Reverse(met(p, part(f[1], g, r), q_grid, f[2], r, l))]],
     !.recv = [f \in Interfaces |-> [r \in Shifts |->
                 met(p, part(f[2], g, r), q_grid, f[1], r, l)]]]

Partners(p) == {recvlist(dims, p)[j].rank : j \in 1..neighbors(dims)}

-----------------------------------------------------------------------------
Init ==
  /\ args \in Cases
  /\ dims = Torus(loadbalance(args.lb, args.fixed, args.size, args.procs), args.procs)
  /\ phase = [p \in Procs |-> "start"]
  /\ level = [p \in Procs |-> <<>>]
  /\ keep_ovlp = [p \in Procs |-> TRUE]
  /\ calls = <<>>
  /\ done = [p \in Procs |-> 0]
  /\ todo = [p \in Procs |-> 0]
  /\ published = [p \in Procs |-> <<>>]

(* The first half of makelevel(): the level is there, its grids are handed *)
(* to the neighbours.                                                      *)
Publish(p, g) ==
  /\ level' = [level EXCEPT ![p] = Append(@, g)]
  /\ published' = [published EXCEPT ![p] = Append(@, g)]
  /\ phase' = [phase EXCEPT ![p] = "exchange"]

(* The size is checked after the level has been made. *)
Construct_checklate(p) ==
  /\ phase[p] = "start"
  /\ published' = [published EXCEPT ![p] = Append(@, makelevel(1, container(p),
                      [i \in Dir |-> mine(p)[i].origin], args.overlap, keep_ovlp[p]))]
  /\ level' = [level EXCEPT ![p] = published'[p]]
  /\ phase' = [phase EXCEPT ![p] = IF dims = NoDims \/ tooSmall(p) THEN "thrown" ELSE "exchange"]
  /\ UNCHANGED <<args, dims, keep_ovlp, calls, done, todo>>

(* The constructor, up to the exchange in makelevel().  Every process makes*)
(* its own torus; all get the same dimensions from the same arguments.     *)
Construct(p) ==
  /\ phase[p] = "start"
  /\ IF dims = NoDims \/ tooSmall(p)
     THEN /\ phase' = [phase EXCEPT ![p] = "thrown"]
          /\ UNCHANGED <<level, published>>
     ELSE Publish(p, makelevel(1, container(p), [i \in Dir |-> mine(p)[i].origin],
                               args.overlap, keep_ovlp[p]))
  /\ UNCHANGED <<args, dims, keep_ovlp, calls, done, todo>>

(* The second half of makelevel(): the neighbours' grids have arrived. *)
Intersect(p) ==
  LET n == Len(published[p])
      l == maxLevel(p)
  IN  /\ phase[p] = "exchange"
      /\ \A q \in Partners(p) : Len(published[q]) >= n
      /\ level' = [level EXCEPT ![p][l] =
           intersections(p, @, [q \in Partners(p) |-> published[q][n]], l)]
      /\ phase' = [phase EXCEPT ![p] = "ready"]
      /\ UNCHANGED <<args, dims, keep_ovlp, calls, done, todo, published>>

(* Process p makes the call c, the next one of the common program. *)
MakesCall(p, c) ==
  /\ phase[p] = "ready" /\ todo[p] = 0
  /\ IF done[p] < Len(calls)
     THEN c = calls[done[p]+1] /\ UNCHANGED calls
     ELSE Len(calls) < args.calls /\ calls' = Append(calls, c)
  /\ done' = [done EXCEPT ![p] = @ + 1]

RefineOptions(p) ==
  \E keep \in BOOLEAN :
    /\ MakesCall(p, [name |-> "refineOptions", arg |-> keep])
    /\ keep_ovlp' = [keep_ovlp EXCEPT ![p] = keep]
    /\ UNCHANGED <<args, dims, phase, level, todo, published>>

(* globalRefine() with a negative count removes levels, or throws. *)
Coarsen(p) ==
  \E refCount \in {k \in Counts : k < 0} :
    /\ MakesCall(p, [name |-> "globalRefine", arg |-> refCount])
    /\ level' = IF -refCount < maxLevel(p)
                THEN [level EXCEPT ![p] = SubSeq(@, 1, maxLevel(p) + refCount)]
                ELSE level
    /\ UNCHANGED <<args, dims, phase, keep_ovlp, todo, published>>

(* globalRefine() with a positive count begins to add levels. *)
BeginRefine(p) ==
  \E refCount \in {k \in Counts : k > 0} :
    /\ maxLevel(p) + refCount <= LevelLimit
    /\ MakesCall(p, [name |-> "globalRefine", arg |-> refCount])
    /\ todo' = [todo EXCEPT ![p] = refCount]
    /\ UNCHANGED <<args, dims, phase, level, keep_ovlp, published>>

(* One refinement: whether there is an overlap is read off the grid.       *)
Refine(p) ==
  LET l  == maxLevel(p)
      cg == level[p][l]
      cells == overlap(cg, Dir)
      low == {i \in Dir : cells.origin[i] > 0} \cup args.periodic
      up  == {i \in Dir : last(cells, i) + 1 < levelSize(l)[i]} \cup args.periodic
      keep == keep_ovlp[p]
  IN  /\ phase[p] = "ready" /\ todo[p] > 0
      /\ Publish(p, makelevel(l+1, refine_size(cg, low, up, keep),
                              [i \in Dir |-> 2 * interior(cg, Dir).origin[i]],
                              (IF keep THEN 2 ELSE 1) * cg.overlap, keep))
      /\ todo' = [todo EXCEPT ![p] = @ - 1]
      /\ UNCHANGED <<args, dims, keep_ovlp, calls, done>>

(* The program is over, or a process has thrown and others wait for it. *)
Stopped ==
  /\ \/ \A p \in Procs : phase[p] = "ready" /\ todo[p] = 0 /\ done[p] = args.calls
     \/ \E p \in Procs : phase[p] = "thrown"
  /\ UNCHANGED vars

Inside(p) == Construct(p) \/ Intersect(p) \/ Refine(p)

Next ==
  \/ \E p \in Procs : Inside(p) \/ RefineOptions(p) \/ Coarsen(p) \/ BeginRefine(p)
  \/ Stopped

(* A process that is inside a call goes on; the program may end anywhere.  *)
Spec == Init /\ [][Next]_vars /\ \A p \in 0..MaxProcs-1 : WF_vars(p \in Procs /\ Inside(p))

-----------------------------------------------------------------------------
Grids == [origin : [Dir -> Int], size : [Dir -> Int]]
Intersections == [grid : Grids, rank : Procs]
Lists == [Interfaces -> [Shifts -> Seq(Intersections)]]

LevelOK(g) ==
  /\ g.origin \in [Dir -> Int] /\ g.size \in [Dir -> Int]
  /\ g.low \subseteq Dir /\ g.up \subseteq Dir
  /\ g.overlap \in Nat /\ g.keepOverlap \in BOOLEAN
  /\ g.send \in Lists /\ g.recv \in Lists

(* The types of the variables; every rank in an intersection is a rank of  *)
(* the torus, and no process is ahead of the recorded program.             *)
TypeOK ==
  /\ args \in Cases
  /\ dims \in Seq(Nat)
  /\ phase \in [Procs -> {"start", "exchange", "ready", "thrown"}]
  /\ \A p \in Procs : /\ \A l \in 1..maxLevel(p) : LevelOK(level[p][l])
                      /\ Len(published[p]) >= maxLevel(p)
                      /\ (phase[p] \in {"start", "thrown"}) <=> (published[p] = <<>>)
  /\ keep_ovlp \in [Procs -> BOOLEAN]
  /\ done \in [Procs -> 0..Len(calls)] /\ todo \in [Procs -> Nat]

(* The same entity: equal up to the period of the domain. *)
Same(x, y, l) ==
  \A i \in Dir : IF i \in args.periodic THEN (x[i] - y[i]) % levelSize(l)[i] = 0 ELSE x[i] = y[i]

Ready(l) == \A p \in Procs : phase[p] = "ready" /\ maxLevel(p) >= l

(* The processes whose level l belongs to the same call of makelevel(). *)
Together(l) == Ready(l) /\ \A p, q \in Procs : done[p] = done[q] /\ todo[p] = todo[q]

Holders(kind, l, r) ==
  UNION {{<<p, x>> : x \in points(part(kind, level[p][l], r))} : p \in Procs}

(* Every entity of the grid belongs to the interior or the border of some  *)
(* process; if it is interior somewhere then no other process, and no      *)
(* other periodic copy, has it in its interior or border.                  *)
(* (partition(), makelevel(): a cell is computed by exactly one process.)  *)
InteriorOnce ==
  \A l \in 1..LevelLimit : Together(l) =>
    \A r \in Shifts :
      LET owned == Holders("interiorborder", l, r)
      IN  /\ \A h \in Holders("overlapfront", l, r) :
                \E k \in owned : Same(h[2], k[2], l)
          /\ \A h \in Holders("interior", l, r) :
                \A k \in owned : Same(h[2], k[2], l) => h = k

(* The k-th intersection in the send list of p with rank q and the k-th in *)
(* the receive list of q with rank p are the same entities in the same     *)
(* order, and never empty: communicateCodim() sends one message for each   *)
(* and matches them by their order alone.                                  *)
With(list, q) == chosen(list, {k \in 1..Len(list) : list[k].rank = q})

ListsMatch ==
  \A l \in 1..LevelLimit : Together(l) =>
    \A p, q \in Procs, f \in Interfaces, r \in Shifts :
      LET s == With(level[p][l].send[f][r], q)
          t == With(level[q][l].recv[f][r], p)
      IN  /\ Len(s) = Len(t)
          /\ \A k \in 1..Len(s) :
               /\ s[k].grid.size = t[k].grid.size
               /\ \A i \in Dir : s[k].grid.size[i] > 0
               /\ Same(s[k].grid.origin, t[k].grid.origin, l)

(* What scattering on q sees: <<entity on q, process, entity there>>.      *)
Received(q, f, l, r) ==
  UNION {LET s == With(level[p][l].send[f][r], q)
             t == With(level[q][l].recv[f][r], p)
         IN  UNION {{<<x, p, [i \in Dir |-> x[i] + s[k].grid.origin[i] - t[k].grid.origin[i]]>> :
                       x \in points(t[k].grid)} : k \in 1..Len(t)} : p \in Procs}

Copies(q, f, l, r) ==
  {<<x, h[1], h[2]>> : x \in points(part(f[2], level[q][l], r)), h \in Holders(f[1], l, r)}

Wanted(q, f, l, r) ==
  {c \in Copies(q, f, l, r) : Same(c[1], c[3], l) /\ <<q, c[1]>> # <<c[2], c[3]>>}

(* Data of interior and border entities reaches every other copy of them   *)
(* that the interface names, exactly those, and each from the process that *)
(* has it: no copy is missing from the lists, across periodic boundaries,  *)
(* corners, and processes that are neighbours on both sides.               *)
InteriorBorderReaches ==
  \A l \in 1..LevelLimit : Together(l) =>
    \A q \in Procs, r \in Shifts, f \in Interfaces : f[1] = "interiorborder" =>
      Received(q, f, l, r) = Wanted(q, f, l, r)

(* "send all and receive all entities": the same for the All_All interface.*)
AllReaches ==
  \A l \in 1..LevelLimit : Together(l) =>
    \A q \in Procs, r \in Shifts :
      LET f == <<"overlapfront", "overlapfront">>
      IN  Received(q, f, l, r) = Wanted(q, f, l, r)

(* On every level the interior is the refined piece of the process, and    *)
(* exactly overlapSize cells lie around it towards every neighbour and     *)
(* none beyond the boundary of the domain, whatever refineOptions() was    *)
(* when the level and the coarser ones were made; provided every process   *)
(* checked and accepted the size of its piece.                             *)
Accepted == dims # NoDims /\ args.ctor # "deprecated" /\ \A p \in Procs : ~tooSmall(p)

PieceWithOverlap(p, l) ==
  LET g == level[p][l]
      cells == interior(g, Dir)
  IN  \A i \in Dir :
        LET lo == mine(p)[i].origin * twice[l]
            hi == lo + mine(p)[i].size * twice[l]
        IN  /\ cells.origin[i] = lo /\ last(cells, i) + 1 = hi
            /\ g.origin[i] = IF lo = 0 /\ i \notin args.periodic THEN 0 ELSE lo - g.overlap
            /\ g.origin[i] + g.size[i] =
                 IF hi = levelSize(l)[i] /\ i \notin args.periodic THEN hi ELSE hi + g.overlap

OverlapWidth ==
  Accepted => \A p \in Procs : \A l \in 1..maxLevel(p) : PieceWithOverlap(p, l)

(* The default balancer uses every process, and no other way to use all    *)
(* has a smaller weight: the recursion misses no subdivision.              *)
BalancerOptimal ==
  args.lb = "default" =>
    /\ procs(dims) = args.procs
    /\ \A t \in [Dir -> 1..args.procs] :
         procs(t) = args.procs =>
           weight(args.size, args.procs, dims) <= weight(args.size, args.procs, t)

(* The constructor's size check is made by each process for its own piece. *)
(* Some processes throw and others do not, and wait for them forever, only *)
(* at one limit: the smaller pieces are as wide as the overlap.            *)
SizeCheckUniform ==
  \A p, q \in Procs :
    phase[p] = "thrown" /\ phase[q] \in {"exchange", "ready"} =>
      \E i \in Dir : LET m == args.size[i] \div dims[i]
                     IN  /\ args.size[i] % dims[i] # 0
                         /\ m = args.overlap \/ args.size[i] = 1

(* Every piece is wider than the overlap: no process throws. *)
Wide == dims # NoDims /\ \A p \in Procs, i \in Dir : mine(p)[i].size > args.overlap

=============================================================================

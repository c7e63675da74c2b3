-------------------------- MODULE YaspGrid_proofs --------------------------
(***************************************************************************)
(* Proofs about the levels of YaspGrid (module YaspGrid) and the cells on  *)
(* them (module YaspEntities), and about the lists of intersections: the   *)
(* send list of a process and the receive list of its neighbour fit        *)
(* together, and bring the data of interior and border entities to every   *)
(* other copy of them, for all arguments of the constructor and programs;  *)
(* and about the indices the entities of a level have, and their ids.      *)
(***************************************************************************)
EXTENDS YaspEntities, YaspTorus_proofs

YGridLevels ==
  [origin : [Dir -> Int], size : [Dir -> Int], low : SUBSET Dir, up : SUBSET Dir,
   overlap : Nat, keepOverlap : BOOLEAN, send : Lists, recv : Lists]

Calls == [name : {"refineOptions"}, arg : BOOLEAN] \cup [name : {"globalRefine"}, arg : Int]

(* Every process has a torus and made it from the same arguments. *)
Config ==
  /\ args \in Cases
  /\ dims = Torus(loadbalance(args.lb, args.fixed, args.size, args.procs), args.procs)

(* The types, and what is known of a process by where it is. *)
TypeInv ==
  /\ Config
  /\ phase \in [Procs -> {"start", "exchange", "ready", "thrown"}]
  /\ level \in [Procs -> Seq(YGridLevels)]
  /\ published \in [Procs -> Seq(YGridLevels)]
  /\ keep_ovlp \in [Procs -> BOOLEAN]
  /\ calls \in Seq(Calls)
  /\ done \in [Procs -> Nat] /\ todo \in [Procs -> Nat]
  /\ \A p \in Procs :
       /\ done[p] <= Len(calls)
       /\ Len(published[p]) >= Len(level[p])
       /\ phase[p] \in {"start", "thrown"} => published[p] = <<>>
       /\ phase[p] \in {"exchange", "ready"} => Len(level[p]) >= 1
       /\ phase[p] = "thrown" => dims = NoDims \/ tooSmall(p)
       /\ phase[p] \in {"exchange", "ready"} => dims # NoDims /\ ~tooSmall(p)

-----------------------------------------------------------------------------
LEMMA ConfigFacts ==
  ASSUME Config
  PROVE  /\ args.size \in Seq(Nat \ {0}) /\ args.size # <<>>
         /\ Len(args.size) \in Nat \ {0} /\ Dir = 1..Len(args.size)
         /\ \A i \in Dir : args.size[i] \in Nat \ {0}
         /\ args.procs \in Nat \ {0}
         /\ args.lb \in {"default", "power", "fixed"}
         /\ args.overlap \in Nat /\ args.periodic \subseteq Dir
         /\ dims # NoDims => /\ dims \in Seq(Nat \ {0})
                             /\ Len(dims) = Len(args.size)
                             /\ Dirs(dims) = Dir
                             /\ procs(dims) = args.procs
                             /\ Ranks(dims) = Procs
<1>1. CasesOK(args)
  BY CasesAssumption DEF Config
<1>2. /\ args.procs \in Nat \ {0} /\ args.size \in Seq(Nat \ {0}) /\ args.size # <<>>
      /\ args.lb \in {"default", "power", "fixed"}
      /\ args.fixed \in Seq(Nat \ {0}) /\ (args.lb = "fixed" => Len(args.fixed) = Len(args.size))
      /\ args.periodic \subseteq 1..Len(args.size)
      /\ args.overlap \in Nat
  BY <1>1 DEF CasesOK
<1>3. dims = NoDims \/ (dims \in Seq(Nat \ {0}) /\ Len(dims) = Len(args.size) /\ procs(dims) = args.procs)
  BY <1>2, TorusDims DEF Config
<1>4. Len(args.size) \in Nat \ {0}
  BY <1>2
<1>5. QED
  BY <1>2, <1>3, <1>4 DEF Dir, Dirs, Ranks, Procs

-----------------------------------------------------------------------------
(* The piece of the process with coordinate c, of n, in a direction with   *)
(* N cells: Torus::partition() (torus.hh:250-268).                         *)
PieceOK(c, n, N, pc) ==
  /\ pc.origin \in Nat /\ pc.size \in {N \div n, N \div n + 1}
  /\ pc.size # N \div n => (N % n) # 0
  /\ c = 0 => pc.origin = 0 /\ pc.size = N \div n
  /\ c # 0 => pc.origin >= N \div n
  /\ c = n - 1 => pc.origin + pc.size = N
  /\ c # n - 1 => N - (pc.origin + pc.size) >= N \div n

LEMMA Pieces ==
  ASSUME NEW n \in Nat \ {0}, NEW N \in Nat \ {0}, NEW c \in 0..n-1
  PROVE  PieceOK(c, n, N, piece(n, c, 0, N))
<1> DEFINE m == N \div n
           r == N % n
           pc == piece(n, c, 0, N)
<1>1. m \in Nat /\ r \in 0..n-1 /\ N = n * m + r
  BY Division
<1>2. pc = IF c < n - r THEN [origin |-> 0 + c*m, size |-> m]
           ELSE [origin |-> 0 + (n-r)*m + (c-(n-r))*(m+1), size |-> m+1]
  BY DEF piece
<1> HIDE DEF m, r, pc
<1>3. /\ c * m \in Nat /\ n * m \in Nat
      /\ c # 0 => 1 * m <= c * m
      /\ c # n - 1 => 1 * m <= (n - 1 - c) * m
      /\ (n - 1 - c) * m = n * m - m - c * m
  <2>1. c # 0 => m * 1 <= m * c
    BY <1>1, MoreTimes
  <2>2. c # n - 1 => m * 1 <= m * (n - 1 - c)
    <3>1. ASSUME c # n - 1 PROVE 1 <= n - 1 - c
      BY <3>1
    <3>2. QED BY <3>1, <1>1, MoreTimes
  <2>3. QED BY <1>1, <2>1, <2>2
<1>4. CASE c < n - r
  <2>1. pc.origin = c * m /\ pc.size = m
    BY <1>1, <1>2, <1>4
  <2>2. c = n - 1 => r = 0 /\ c * m = n * m - m
    BY <1>1, <1>4
  <2> DEFINE a == c * m
             b == n * m
             e == (n - 1 - c) * m
  <2>3. /\ a \in Nat /\ b \in Nat /\ e = b - m - a /\ N = b + r
        /\ pc.origin = a /\ (c # 0 => m <= a) /\ (c # n - 1 => m <= e)
        /\ (c = 0 => a = 0) /\ (c = n - 1 => r = 0 /\ a = b - m)
    BY <1>1, <1>3, <2>1, <2>2
  <2> HIDE DEF a, b, e
  <2>4. PieceOK(c, n, N, pc)
    BY <1>1, <2>1, <2>3 DEF PieceOK, m, r
  <2>5. QED BY <2>4 DEF pc
<1>5. CASE ~ (c < n - r)
  <2>1. pc.origin = (n-r)*m + (c-(n-r))*(m+1) /\ pc.size = m + 1
    BY <1>1, <1>2, <1>5
  <2>2. (n-r)*m + (c-(n-r))*(m+1) = c * m + (c - n + r)
    BY <1>1
  <2> DEFINE a == c * m
             b == n * m
             e == (n - 1 - c) * m
  <2>3. /\ a \in Nat /\ b \in Nat /\ e = b - m - a /\ N = b + r
        /\ pc.origin = a + (c - n + r) /\ (c # 0 => m <= a) /\ (c # n - 1 => m <= e)
        /\ (c = n - 1 => a = b - m)
    BY <1>1, <1>3, <2>1, <2>2
  <2> HIDE DEF a, b, e
  <2>4. c # 0 /\ r # 0
    BY <1>1, <1>5
  <2>5. PieceOK(c, n, N, pc)
    BY <1>1, <1>5, <2>1, <2>3, <2>4 DEF PieceOK, m, r
  <2>6. QED BY <2>5 DEF pc
<1>6. QED BY <1>4, <1>5

LEMMA MyPiece ==
  ASSUME Config, dims # NoDims, NEW p \in Procs, NEW i \in Dir
  PROVE  /\ dims[i] \in Nat \ {0} /\ args.size[i] \in Nat \ {0}
         /\ rank_to_coord(dims, p)[i] \in 0..dims[i]-1
         /\ PieceOK(rank_to_coord(dims, p)[i], dims[i], args.size[i], mine(p)[i])
         /\ mine(p)[i].origin \in Nat /\ mine(p)[i].size \in Nat
<1> DEFINE c == rank_to_coord(dims, p)[i]
           n == dims[i]
           N == args.size[i]
<1>1. /\ n \in Nat \ {0} /\ N \in Nat \ {0} /\ dims \in Seq(Nat \ {0})
      /\ p \in Nat /\ i \in Dirs(dims)
  BY ConfigFacts DEF Dirs, Procs
<1>2. c \in 0..n-1
  BY <1>1, CoordRange
<1>3. mine(p)[i] = piece(n, c, 0, N)
  BY <1>1, ConfigFacts DEF mine, partition
<1> HIDE DEF c, n, N
<1>4. PieceOK(c, n, N, mine(p)[i])
  BY <1>1, <1>2, <1>3, Pieces
<1>5. N \div n \in Nat
  BY <1>1, Division
<1>6. mine(p)[i].origin \in Nat /\ mine(p)[i].size \in Nat
  BY <1>4, <1>5 DEF PieceOK
<1>7. QED BY <1>1, <1>2, <1>4, <1>6 DEF c, n, N

-----------------------------------------------------------------------------
(* Doubling. *)
LEMMA Twice ==
  /\ twice[1] = 1
  /\ \A l \in Nat \ {0} : twice[l] \in Nat \ {0} /\ twice[l+1] = 2 * twice[l]
<1> DEFINE V == Nat \ {0}
           F == [k \in Nat |-> [x \in V |-> 2 * x]]
<1>1. F \in [Nat -> [V -> V]] /\ 1 \in V
  OBVIOUS
<1>2. PICK g : FollowsForever(g, V, 1, F)
  <2> HIDE DEF F, V
  <2>1. QED BY <1>1, RecursionOnNat
<1> DEFINE h == [l \in Nat \ {0} |-> g[l-1]]
<1>3. ASSUME NEW l \in Nat \ {0} PROVE h[l] = IF l = 1 THEN 1 ELSE 2 * h[l-1]
  <2>1. CASE l = 1
    BY <2>1, <1>2 DEF FollowsForever
  <2>2. CASE l # 1
    <3>1. l - 2 \in Nat /\ l - 1 \in Nat \ {0} /\ (l - 2) + 1 = l - 1 /\ (l - 1) - 1 = l - 2
      BY <2>2
    <3>2. g[(l-2)+1] = F[(l-2)+1][g[l-2]] /\ g[l-2] \in V
      BY <3>1, <1>2 DEF FollowsForever
    <3>3. F[(l-2)+1][g[l-2]] = 2 * g[l-2]
      BY <3>1, <3>2
    <3>4. h[l] = g[l-1] /\ h[l-1] = g[l-2]
      BY <3>1
    <3>5. QED BY <3>1, <3>2, <3>3, <3>4, <2>2
  <2>3. QED BY <2>1, <2>2
<1>4. h = [l \in Nat \ {0} |-> IF l = 1 THEN 1 ELSE 2 * h[l-1]]
  BY <1>3
<1>5. \E f : f = [l \in Nat \ {0} |-> IF l = 1 THEN 1 ELSE 2 * f[l-1]]
  <2> HIDE DEF h
  <2>1. QED BY <1>4
<1>6. twice = [l \in Nat \ {0} |-> IF l = 1 THEN 1 ELSE 2 * twice[l-1]]
  BY <1>5 DEF twice
<1>7. twice[1] = 1
  BY <1>6
<1>8. ASSUME NEW l \in Nat \ {0} PROVE twice[l+1] = 2 * twice[l]
  <2>1. l + 1 \in Nat \ {0} /\ l + 1 # 1 /\ (l + 1) - 1 = l
    OBVIOUS
  <2>2. QED BY <2>1, <1>6
<1> DEFINE T == {k \in Nat : twice[k+1] \in V}
<1>9. 0 \in T
  BY <1>7
<1>10. ASSUME NEW k \in Nat, k \in T PROVE k + 1 \in T
  <2>1. k + 1 \in Nat \ {0} /\ twice[k+1] \in V
    BY <1>10
  <2>2. twice[(k+1)+1] = 2 * twice[k+1]
    BY <2>1, <1>8
  <2>3. QED BY <2>1, <2>2
<1>11. Nat \subseteq T
  <2> HIDE DEF T
  <2>1. QED BY <1>9, <1>10, InductionOn
<1>12. ASSUME NEW l \in Nat \ {0} PROVE twice[l] \in Nat \ {0}
  <2>1. l - 1 \in T /\ (l - 1) + 1 = l
    BY <1>11
  <2>2. QED BY <2>1
<1>13. QED BY <1>7, <1>8, <1>12

-----------------------------------------------------------------------------
(* Types. *)
LEMMA LevelSizes ==
  ASSUME Config, NEW l \in Nat \ {0}
  PROVE  levelSize(l) \in [Dir -> Nat \ {0}]
<1>1. twice[l] \in Nat \ {0}
  BY Twice
<1>2. \A i \in Dir : args.size[i] * twice[l] \in Nat \ {0}
  <2>1. \A i \in Dir : args.size[i] \in Nat \ {0}
    BY ConfigFacts
  <2>2. QED BY <1>1, <2>1
<1>3. QED BY <1>2 DEF levelSize

LEMMA MakelevelType ==
  ASSUME Config, NEW l \in Nat \ {0}, NEW size \in [Dir -> Int], NEW o \in [Dir -> Int],
         NEW ov \in Nat, NEW keep \in BOOLEAN
  PROVE  makelevel(l, size, o, ov, keep) \in YGridLevels
<1> DEFINE g == makelevel(l, size, o, ov, keep)
           atLow == {i \in Dir \ args.periodic : o[i] - ov < 0}
<1>1. g = [origin |-> [i \in Dir |-> IF i \in atLow THEN 0 ELSE o[i] - ov], size |-> size,
           low |-> Dir \ atLow,
           up  |-> {i \in Dir : \/ i \in args.periodic
                                  \/ [j \in Dir |-> IF j \in atLow THEN 0 ELSE o[j] - ov][i] + size[i] < levelSize(l)[i]},
           overlap |-> ov, keepOverlap |-> keep,
           send |-> NoLists, recv |-> NoLists]
  BY DEF makelevel
<1>2. [i \in Dir |-> IF i \in atLow THEN 0 ELSE o[i] - ov] \in [Dir -> Int]
  OBVIOUS
<1>3. NoLists \in Lists
  BY DEF NoLists, Lists
<1> HIDE DEF g, atLow
<1>4. g.origin \in [Dir -> Int] /\ g.low \in SUBSET Dir /\ g.up \in SUBSET Dir
  BY <1>1, <1>2
<1>5. QED BY <1>1, <1>2, <1>3 DEF YGridLevels, g

LEMMA CutType ==
  ASSUME NEW y \in Grids, NEW g \in YGridLevels, NEW c \in [Dir -> Int]
  PROVE  cut(y, g, c) \in Grids
<1>1. /\ y.origin \in [Dir -> Int] /\ y.size \in [Dir -> Int]
      /\ \A i \in Dir : y.origin[i] \in Int /\ y.size[i] \in Int /\ c[i] \in Int
  BY DEF Grids
<1>2. /\ [i \in Dir |-> y.origin[i] + (IF i \in g.low THEN c[i] ELSE 0)] \in [Dir -> Int]
      /\ [i \in Dir |-> y.size[i] - (IF i \in g.low THEN c[i] ELSE 0)
                                  - (IF i \in g.up THEN c[i] ELSE 0)] \in [Dir -> Int]
  BY <1>1
<1>3. QED BY <1>2 DEF cut, ygrid, Grids

LEMMA PartTypes ==
  ASSUME NEW g \in YGridLevels, NEW r \in Shifts
  PROVE  /\ overlapfront(g, r) \in Grids /\ overlap(g, r) \in Grids
         /\ interiorborder(g, r) \in Grids /\ interior(g, r) \in Grids
<1>1. half(r) \in [Dir -> Int]
  BY DEF half
<1>2. /\ g.origin \in [Dir -> Int] /\ g.size \in [Dir -> Int] /\ g.overlap \in Nat
  BY DEF YGridLevels
<1>3. [i \in Dir |-> g.size[i] + half(r)[i]] \in [Dir -> Int]
  <2>1. \A i \in Dir : g.size[i] \in Int /\ half(r)[i] \in Int
    BY <1>1, <1>2
  <2>2. QED BY <2>1
<1>4. overlapfront(g, r) \in Grids
  BY <1>2, <1>3 DEF overlapfront, ygrid, Grids
<1>5. overlap(g, r) \in Grids
  BY <1>1, <1>4, CutType DEF overlap
<1>6. [i \in Dir |-> g.overlap - half(r)[i]] \in [Dir -> Int]
  <2>1. \A i \in Dir : half(r)[i] \in Int
    BY <1>1
  <2>2. QED BY <2>1, <1>2
<1>7. interiorborder(g, r) \in Grids
  BY <1>5, <1>6, CutType DEF interiorborder
<1>8. interior(g, r) \in Grids
  BY <1>1, <1>7, CutType DEF interior
<1>9. QED BY <1>4, <1>5, <1>7, <1>8

PartNames == {"overlapfront", "overlap", "interiorborder", "interior"}

LEMMA PartType ==
  ASSUME NEW g \in YGridLevels, NEW r \in Shifts, NEW name \in PartNames
  PROVE  part(name, g, r) \in Grids
  BY PartTypes DEF part, PartNames

LEMMA NoGridType ==
  ASSUME Config
  PROVE  nogrid(Len(args.size)) \in Grids
  BY DEF nogrid, ygrid, Grids, Dir

LEMMA SentType ==
  ASSUME Config, dims # NoDims, NEW p \in Procs, NEW delta, \A i \in Dir : delta[i] \in Int,
         NEW y \in Grids, NEW l \in Nat \ {0}
  PROVE  sentgrid(p, delta, y, l) \in Grids
<1> DEFINE o == outside(p, delta)
           v == [i \in Dir |-> o[i] * levelSize(l)[i]]
<1>1. \A i \in Dir : o[i] \in {-1, 0, 1}
  BY DEF outside
<1>2. \A i \in Dir : v[i] \in Int
  <2> HIDE DEF o
  <2>1. \A i \in Dir : levelSize(l)[i] \in Int
    BY LevelSizes
  <2>2. QED BY <1>1, <2>1
<1>3. nogrid(Len(dims)) \in Grids
  BY ConfigFacts, NoGridType
<1>4. move(y, v) \in Grids
  <2> HIDE DEF v
  <2>1. /\ y = [origin |-> y.origin, size |-> y.size]
        /\ y.origin \in [Dir -> Int] /\ y.size \in [Dir -> Int] /\ dirs(y) = Dir
    BY DEF Grids, dirs
  <2>2. move(y, v) = [origin |-> [i \in Dir |-> y.origin[i] + v[i]], size |-> y.size]
    BY <2>1 DEF move
  <2>3. [i \in Dir |-> y.origin[i] + v[i]] \in [Dir -> Int]
    BY <2>1, <1>2
  <2>4. QED BY <2>1, <2>2, <2>3 DEF Grids
<1>5. QED BY <1>3, <1>4 DEF sentgrid

LEMMA IntersectionType ==
  ASSUME Config, NEW g \in Grids, NEW h \in Grids
  PROVE  intersection(g, h) \in Grids
<1>1. /\ dirs(g) = Dir /\ dirs(h) = Dir /\ Len(g.size) = Len(args.size)
      /\ \A i \in Dir : /\ g.origin[i] \in Int /\ g.size[i] \in Int
                        /\ h.origin[i] \in Int /\ h.size[i] \in Int
  BY ConfigFacts DEF Grids, dirs
<1>2. nogrid(Len(g.size)) \in Grids
  BY <1>1, NoGridType
<1> DEFINE o == [i \in dirs(g) |-> larger(g.origin[i], h.origin[i])]
           e == [i \in dirs(g) |-> smaller(last(g, i), last(h, i)) - o[i] + 1]
<1>3. o \in [Dir -> Int]
  BY <1>1 DEF larger
<1>4. e \in [Dir -> Int]
  <2> HIDE DEF o
  <2>1. \A i \in Dir : last(g, i) \in Int /\ last(h, i) \in Int /\ o[i] \in Int
    BY <1>1, <1>3 DEF last
  <2>2. QED BY <2>1, <1>1 DEF smaller
<1>5. ygrid(o, e) \in Grids
  BY <1>3, <1>4 DEF ygrid, Grids
<1>6. QED BY <1>2, <1>5 DEF intersection

LEMMA ChosenType ==
  ASSUME NEW X, NEW s \in Seq(X), NEW J
  PROVE  chosen(s, J) \in Seq(X)
<1> DEFINE parts == [k \in 1..Len(s) |-> IF k \in J THEN <<s[k]>> ELSE <<>>]
<1>1. parts \in Seq(Seq(X))
  OBVIOUS
<1>2. QED BY <1>1, FlattenElements DEF chosen

(* What stands at position j of the two lists of a process. *)
LEMMA ListEntries ==
  ASSUME NEW d \in Seq(Nat \ {0}), NEW p, NEW j \in 1..neighbors(d)
  PROVE  /\ neighbors(d) \in Nat /\ neighbors(d) + 1 - j \in 1..neighbors(d)
         /\ recvlist(d, p)[j].rank = partner(d, p, nonzeroDelta(d, j))
         /\ sendlist(d, p)[j].rank = partner(d, p, nonzeroDelta(d, neighbors(d) + 1 - j))
         /\ sendlist(d, p)[j].delta = nonzeroDelta(d, neighbors(d) + 1 - j)
         /\ \A i \in Dirs(d) : /\ nonzeroDelta(d, j)[i] \in {-1, 0, 1}
                              /\ nonzeroDelta(d, neighbors(d) + 1 - j)[i] = -nonzeroDelta(d, j)[i]
<1> DEFINE N == neighbors(d)
           k == N + 1 - j
           e == recvlist(d, p)[k]
<1>1. /\ N \in Nat /\ k \in 1..N
      /\ \A i \in Dirs(d) : /\ nonzeroDelta(d, j)[i] \in {-1, 0, 1}
                           /\ nonzeroDelta(d, k)[i] = -nonzeroDelta(d, j)[i]
  BY OppositeDelta
<1>2. recvlist(d, p)[j].rank = partner(d, p, nonzeroDelta(d, j))
  BY DEF recvlist
<1> HIDE DEF k
<1>3. e = [rank |-> partner(d, p, nonzeroDelta(d, k)), delta |-> nonzeroDelta(d, k), index |-> k-1]
  BY <1>1 DEF recvlist
<1>4. sendlist(d, p)[j] = [e EXCEPT !.index = (N - 1) - @]
  BY DEF sendlist, k
<1> HIDE DEF e, N
<1>5. /\ sendlist(d, p)[j].rank = partner(d, p, nonzeroDelta(d, k))
      /\ sendlist(d, p)[j].delta = nonzeroDelta(d, k)
  BY <1>3, <1>4
<1>6. QED BY <1>1, <1>2, <1>5 DEF k, N

(* The grids q_grid[q] of all neighbours q. *)
HaveGrids(p, q_grid) == \A q \in Partners(p) : q_grid[q] \in YGridLevels

Entry(p, y, q_grid, name, r, l, j) ==
  LET q == recvlist(dims, p)[j].rank
  IN  [grid |-> intersection(y, sentgrid(q, sendlist(dims, q)[j].delta,
                                         part(name, q_grid[q], r), l)),
       rank |-> q]

LEMMA EntryType ==
  ASSUME Config, dims # NoDims, NEW p \in Procs, NEW q_grid, HaveGrids(p, q_grid),
         NEW y \in Grids, NEW name \in PartNames, NEW r \in Shifts, NEW l \in Nat \ {0},
         NEW j \in 1..neighbors(dims)
  PROVE  /\ recvlist(dims, p)[j].rank \in Procs
         /\ Entry(p, y, q_grid, name, r, l, j) \in Intersections
<1> DEFINE q == recvlist(dims, p)[j].rank
           delta == sendlist(dims, q)[j].delta
<1>1. dims \in Seq(Nat \ {0}) /\ Ranks(dims) = Procs /\ Dirs(dims) = Dir
  BY ConfigFacts
<1>2. q \in Procs
  BY <1>1, NeighborListsFit
<1>3. q \in Partners(p)
  BY DEF Partners
<1>4. q_grid[q] \in YGridLevels
  BY <1>3 DEF HaveGrids
<1> HIDE DEF q
<1>5. \A i \in Dir : delta[i] \in Int
  <2>4. neighbors(dims) + 1 - j \in 1..neighbors(dims)
    BY <1>1, OppositeDelta
  <2>1. delta = nonzeroDelta(dims, neighbors(dims) + 1 - j)
    BY <1>1, ListEntries
  <2>2. \A i \in Dirs(dims) : nonzeroDelta(dims, neighbors(dims) + 1 - j)[i] \in {-1, 0, 1}
    BY <1>1, <2>4, OppositeDelta
  <2>3. QED BY <1>1, <2>1, <2>2
<1> HIDE DEF delta
<1> DEFINE z == part(name, q_grid[q], r)
           s == sentgrid(q, delta, z, l)
<1>6. z \in Grids
  BY <1>4, PartType
<1> HIDE DEF z
<1>7. s \in Grids
  BY <1>2, <1>5, <1>6, SentType
<1> HIDE DEF s
<1>8. intersection(y, s) \in Grids
  BY <1>7, IntersectionType
<1>9. Entry(p, y, q_grid, name, r, l, j) = [grid |-> intersection(y, s), rank |-> q]
  BY DEF Entry, s, z, delta, q
<1>10. QED BY <1>2, <1>8, <1>9 DEF Intersections, q

LEMMA MetIsChosen ==
  ASSUME NEW p, NEW y, NEW q_grid, NEW name, NEW r, NEW l
  PROVE  met(p, y, q_grid, name, r, l) =
           LET all == [j \in 1..neighbors(dims) |-> Entry(p, y, q_grid, name, r, l, j)]
           IN  chosen(all, {j \in 1..neighbors(dims) : ~empty(all[j].grid)})
  BY DEF met, Entry

LEMMA MetType ==
  ASSUME Config, dims # NoDims, NEW p \in Procs, NEW q_grid, HaveGrids(p, q_grid),
         NEW y \in Grids, NEW name \in PartNames, NEW r \in Shifts, NEW l \in Nat \ {0}
  PROVE  met(p, y, q_grid, name, r, l) \in Seq(Intersections)
<1> DEFINE N == neighbors(dims)
           all == [j \in 1..N |-> Entry(p, y, q_grid, name, r, l, j)]
<1>1. N \in Nat
  BY ConfigFacts, NeighborListsFit
<1>2. \A j \in 1..N : Entry(p, y, q_grid, name, r, l, j) \in Intersections
  BY EntryType
<1>3. all \in Seq(Intersections)
  <2> HIDE DEF N
  <2>1. QED BY <1>1, <1>2
<1> HIDE DEF all
<1>4. chosen(all, {j \in 1..N : ~empty(all[j].grid)}) \in Seq(Intersections)
  BY <1>3, ChosenType
<1>5. QED BY <1>4, MetIsChosen DEF all, N

LEMMA ReverseType ==
  ASSUME NEW X, NEW s \in Seq(X)
  PROVE  Reverse(s) \in Seq(X)
  BY DEF Reverse

LEMMA IntersectionsType ==
  ASSUME Config, dims # NoDims, NEW p \in Procs, NEW q_grid, HaveGrids(p, q_grid),
         NEW g \in YGridLevels, NEW l \in Nat \ {0}
  PROVE  LET h == intersections(p, g, q_grid, l)
         IN  /\ h \in YGridLevels
             /\ h.origin = g.origin /\ h.size = g.size /\ h.low = g.low /\ h.up = g.up
             /\ h.overlap = g.overlap /\ h.keepOverlap = g.keepOverlap
<1> DEFINE send == [f \in Interfaces |-> [r \in Shifts |->
                      Reverse(met(p, part(f[1], g, r), q_grid, f[2], r, l))]]
           recv == [f \in Interfaces |-> [r \in Shifts |->
                      met(p, part(f[2], g, r), q_grid, f[1], r, l)]]
<1>1. \A f \in Interfaces : f[1] \in PartNames /\ f[2] \in PartNames
  BY DEF Interfaces, PartNames
<1>2. ASSUME NEW f \in Interfaces, NEW r \in Shifts
      PROVE  /\ Reverse(met(p, part(f[1], g, r), q_grid, f[2], r, l)) \in Seq(Intersections)
             /\ met(p, part(f[2], g, r), q_grid, f[1], r, l) \in Seq(Intersections)
  <2>1. part(f[1], g, r) \in Grids /\ part(f[2], g, r) \in Grids
    BY <1>1, PartType
  <2>2. /\ met(p, part(f[1], g, r), q_grid, f[2], r, l) \in Seq(Intersections)
        /\ met(p, part(f[2], g, r), q_grid, f[1], r, l) \in Seq(Intersections)
    BY <1>1, <2>1, MetType
  <2>3. QED BY <2>2, ReverseType
<1>3. send \in Lists /\ recv \in Lists
  BY <1>2 DEF Lists
<1>4. g = [origin |-> g.origin, size |-> g.size, low |-> g.low, up |-> g.up,
           overlap |-> g.overlap, keepOverlap |-> g.keepOverlap, send |-> g.send, recv |-> g.recv]
  BY DEF YGridLevels
<1>5. intersections(p, g, q_grid, l) = [g EXCEPT !.send = send, !.recv = recv]
  BY DEF intersections
<1> HIDE DEF send, recv
<1>6. intersections(p, g, q_grid, l) =
        [origin |-> g.origin, size |-> g.size, low |-> g.low, up |-> g.up,
         overlap |-> g.overlap, keepOverlap |-> g.keepOverlap, send |-> send, recv |-> recv]
  BY <1>4, <1>5
<1>7. QED BY <1>3, <1>6 DEF YGridLevels

LEMMA ContainerType ==
  ASSUME Config, dims # NoDims, NEW p \in Procs
  PROVE  container(p) \in [Dir -> Int] /\ [i \in Dir |-> mine(p)[i].origin] \in [Dir -> Int]
<1>1. /\ args.overlap \in Nat
      /\ \A i \in Dir : /\ mine(p)[i].origin \in Nat /\ mine(p)[i].size \in Nat
                        /\ args.size[i] \in Nat
  BY ConfigFacts, MyPiece
<1>2. s_overlap(p) \in [Dir -> Int]
  BY <1>1 DEF s_overlap
<1>3. newcoords_size(p) \in [Dir -> Int]
  BY <1>1 DEF newcoords_size
<1>4. QED BY <1>1, <1>2, <1>3 DEF container

LEMMA RefineType ==
  ASSUME NEW g \in YGridLevels, NEW low, NEW up, NEW keep
  PROVE  /\ refine_size(g, low, up, keep) \in [Dir -> Int]
         /\ [i \in Dir |-> 2 * interior(g, Dir).origin[i]] \in [Dir -> Int]
<1>1. \A i \in Dir : g.size[i] \in Int /\ g.overlap \in Int
  BY DEF YGridLevels
<1>2. interior(g, Dir) \in Grids
  BY PartTypes DEF Shifts
<1>3. \A i \in Dir : interior(g, Dir).origin[i] \in Int
  BY <1>2 DEF Grids
<1>4. QED BY <1>1, <1>3 DEF refine_size

-----------------------------------------------------------------------------
LEMMA Unchanged ==
  ASSUME UNCHANGED <<args, dims>>
  PROVE  /\ Config' = Config /\ Dir' = Dir /\ Procs' = Procs
         /\ YGridLevels' = YGridLevels
         /\ \A p : mine(p)' = mine(p) /\ (tooSmall(p)' <=> tooSmall(p))
<1>1. Config' = Config
  BY DEF Config
<1>2. Dir' = Dir /\ Procs' = Procs
  BY DEF Dir, Procs
<1>3. YGridLevels' = YGridLevels
  BY <1>2 DEF YGridLevels, Lists, Interfaces, Shifts, Intersections, Grids
<1>4. ASSUME NEW p PROVE mine(p)' = mine(p)
  BY <1>2 DEF mine
<1>5. ASSUME NEW p PROVE tooSmall(p)' <=> tooSmall(p)
  BY <1>2, <1>4 DEF tooSmall
<1>6. QED BY <1>1, <1>2, <1>3, <1>4, <1>5

LEMMA InitTypes == Init => TypeInv
<1> SUFFICES ASSUME Init PROVE TypeInv
  OBVIOUS
<1>1. Config
  BY DEF Init, Config
<1>2. QED
  BY <1>1 DEF Init, TypeInv

(* The first half of makelevel(), in the constructor or in globalRefine(). *)
LEMMA PublishTypes ==
  ASSUME TypeInv, NEW p \in Procs, NEW g \in YGridLevels, Publish(p, g),
         phase[p] \in {"start", "ready"}, dims # NoDims, ~tooSmall(p),
         UNCHANGED <<args, dims, keep_ovlp, calls, done>>, todo' \in [Procs -> Nat]
  PROVE  TypeInv'
<1> USE DEF TypeInv
<1>1. Config' /\ Procs' = Procs /\ YGridLevels' = YGridLevels /\ (\A q : tooSmall(q)' <=> tooSmall(q))
  BY Unchanged
<1>2. phase' = [phase EXCEPT ![p] = "exchange"]
  BY DEF Publish
<1>3. level' = [level EXCEPT ![p] = Append(level[p], g)]
  BY DEF Publish
<1>4. published' = [published EXCEPT ![p] = Append(published[p], g)]
  BY DEF Publish
<1>5. /\ Append(level[p], g) \in Seq(YGridLevels) /\ Len(Append(level[p], g)) = Len(level[p]) + 1
      /\ Append(published[p], g) \in Seq(YGridLevels) /\ Len(Append(published[p], g)) = Len(published[p]) + 1
      /\ Len(level[p]) \in Nat /\ Len(published[p]) \in Nat
  OBVIOUS
<1>6. phase' \in [Procs -> {"start", "exchange", "ready", "thrown"}]
  BY <1>2
<1>7. level' \in [Procs -> Seq(YGridLevels)] /\ published' \in [Procs -> Seq(YGridLevels)]
  BY <1>3, <1>4, <1>5
<1>8. ASSUME NEW q \in Procs
      PROVE  /\ done'[q] <= Len(calls')
             /\ Len(published'[q]) >= Len(level'[q])
             /\ phase'[q] \in {"start", "thrown"} => published'[q] = <<>>
             /\ phase'[q] \in {"exchange", "ready"} => Len(level'[q]) >= 1
             /\ phase'[q] = "thrown" => dims' = NoDims \/ tooSmall(q)'
             /\ phase'[q] \in {"exchange", "ready"} => dims' # NoDims /\ ~tooSmall(q)'
  <2>1. CASE q = p
    <3>1. phase'[q] = "exchange" /\ level'[q] = Append(level[p], g) /\ published'[q] = Append(published[p], g)
      BY <2>1, <1>2, <1>3, <1>4
    <3>2. ~tooSmall(q)'
      BY <2>1, <1>1
    <3>3. Len(published[p]) >= Len(level[p])
      OBVIOUS
    <3>4. QED BY <3>1, <3>2, <3>3, <1>5
  <2>2. CASE q # p
    <3>1. phase'[q] = phase[q] /\ level'[q] = level[q] /\ published'[q] = published[q]
      BY <2>2, <1>2, <1>3, <1>4
    <3>2. QED BY <3>1, <1>1
  <2>3. QED BY <2>1, <2>2
<1>9. QED
  BY <1>1, <1>6, <1>7, <1>8

LEMMA ConstructTypes ==
  ASSUME TypeInv, NEW p \in Procs, Construct(p)
  PROVE  TypeInv'
<1>1. phase[p] = "start" /\ UNCHANGED <<args, dims, keep_ovlp, calls, done, todo>>
  BY DEF Construct
<1>2. CASE dims = NoDims \/ tooSmall(p)
  <2>1. phase' = [phase EXCEPT ![p] = "thrown"] /\ UNCHANGED <<level, published>>
    BY <1>2 DEF Construct
  <2>2. Config' /\ Procs' = Procs /\ YGridLevels' = YGridLevels /\ (\A q : tooSmall(q)' <=> tooSmall(q))
    BY <1>1, Unchanged DEF TypeInv
  <2>3. phase' \in [Procs -> {"start", "exchange", "ready", "thrown"}]
    BY <2>1 DEF TypeInv
  <2>4. ASSUME NEW q \in Procs
        PROVE  /\ done'[q] <= Len(calls')
               /\ Len(published'[q]) >= Len(level'[q])
               /\ phase'[q] \in {"start", "thrown"} => published'[q] = <<>>
               /\ phase'[q] \in {"exchange", "ready"} => Len(level'[q]) >= 1
               /\ phase'[q] = "thrown" => dims' = NoDims \/ tooSmall(q)'
               /\ phase'[q] \in {"exchange", "ready"} => dims' # NoDims /\ ~tooSmall(q)'
    <3>1. CASE q = p
      <4>1. phase'[q] = "thrown" /\ phase[q] = "start"
        BY <3>1, <2>1, <1>1 DEF TypeInv
      <4>2. dims' = NoDims \/ tooSmall(q)'
        BY <3>1, <1>1, <1>2, <2>2
      <4>3. QED BY <4>1, <4>2, <2>1, <1>1 DEF TypeInv
    <3>2. CASE q # p
      <4>1. phase'[q] = phase[q]
        BY <3>2, <2>1 DEF TypeInv
      <4>2. QED BY <4>1, <2>1, <2>2, <1>1 DEF TypeInv
    <3>3. QED BY <3>1, <3>2
  <2>5. QED BY <1>1, <2>1, <2>2, <2>3, <2>4 DEF TypeInv
<1>3. CASE ~ (dims = NoDims \/ tooSmall(p))
  <2> DEFINE g == makelevel(1, container(p), [i \in Dir |-> mine(p)[i].origin],
                            args.overlap, keep_ovlp[p])
  <2>1. Publish(p, g)
    BY <1>3 DEF Construct
  <2>2. g \in YGridLevels
    <3>1. container(p) \in [Dir -> Int] /\ [i \in Dir |-> mine(p)[i].origin] \in [Dir -> Int]
      BY <1>3, ContainerType DEF TypeInv
    <3>2. args.overlap \in Nat /\ keep_ovlp[p] \in BOOLEAN /\ 1 \in Nat \ {0}
      BY ConfigFacts DEF TypeInv
    <3>3. QED BY <3>1, <3>2, MakelevelType DEF TypeInv
  <2> HIDE DEF g
  <2>3. todo' \in [Procs -> Nat]
    BY <1>1 DEF TypeInv
  <2>4. QED BY <1>1, <1>3, <2>1, <2>2, <2>3, PublishTypes
<1>4. QED BY <1>2, <1>3

LEMMA RefineTypes ==
  ASSUME TypeInv, NEW p \in Procs, Refine(p)
  PROVE  TypeInv'
<1> DEFINE l  == Len(level[p])
           cg == level[p][l]
           keep == keep_ovlp[p]
           low == {i \in Dir : overlap(cg, Dir).origin[i] > 0} \cup args.periodic
           up  == {i \in Dir : last(overlap(cg, Dir), i) + 1 < levelSize(l)[i]} \cup args.periodic
           size == refine_size(cg, low, up, keep)
           o == [i \in Dir |-> 2 * interior(cg, Dir).origin[i]]
           ov == (IF keep THEN 2 ELSE 1) * cg.overlap
           g == makelevel(l+1, size, o, ov, keep)
<1>1. /\ phase[p] = "ready" /\ todo[p] > 0 /\ Publish(p, g)
      /\ todo' = [todo EXCEPT ![p] = @ - 1]
      /\ UNCHANGED <<args, dims, keep_ovlp, calls, done>>
  BY DEF Refine, maxLevel
<1> HIDE DEF g
<1>2. /\ Config /\ l \in Nat \ {0} /\ cg \in YGridLevels /\ keep \in BOOLEAN
      /\ dims # NoDims /\ ~tooSmall(p)
  BY <1>1 DEF TypeInv
<1>3. size \in [Dir -> Int] /\ o \in [Dir -> Int]
  <2> HIDE DEF cg, low, up, keep
  <2>1. QED BY <1>2, RefineType
<1>4. ov \in Nat
  <2>1. cg.overlap \in Nat
    BY <1>2 DEF YGridLevels
  <2> HIDE DEF cg, keep
  <2>2. QED BY <2>1
<1> HIDE DEF size, o, ov, keep, l
<1>5. g \in YGridLevels
  <2>1. l + 1 \in Nat \ {0}
    BY <1>2
  <2>2. QED BY <2>1, <1>2, <1>3, <1>4, MakelevelType DEF g
<1>6. todo' \in [Procs -> Nat]
  <2>1. todo[p] - 1 \in Nat
    BY <1>1 DEF TypeInv
  <2>2. QED BY <1>1, <2>1 DEF TypeInv
<1>7. QED BY <1>1, <1>2, <1>5, <1>6, PublishTypes

(* The grids of the neighbours, when they have arrived. *)
LEMMA Arrived ==
  ASSUME TypeInv, NEW p \in Procs, phase[p] = "exchange",
         \A q \in Partners(p) : Len(published[q]) >= Len(published[p])
  PROVE  /\ Len(published[p]) \in Nat \ {0} /\ Len(level[p]) \in Nat \ {0}
         /\ level[p][Len(level[p])] \in YGridLevels
         /\ HaveGrids(p, [q \in Partners(p) |-> published[q][Len(published[p])]])
<1>1. /\ Len(published[p]) \in Nat \ {0} /\ Len(level[p]) \in Nat \ {0}
      /\ level[p][Len(level[p])] \in YGridLevels
  <2>1. /\ level[p] \in Seq(YGridLevels) /\ published[p] \in Seq(YGridLevels)
        /\ Len(level[p]) >= 1 /\ Len(published[p]) >= Len(level[p])
    BY DEF TypeInv
  <2>2. QED BY <2>1
<1>2. Partners(p) \subseteq Procs
  <2>1. dims \in Seq(Nat \ {0}) /\ Ranks(dims) = Procs
    BY ConfigFacts DEF TypeInv
  <2>2. QED BY <2>1, NeighborListsFit DEF Partners
<1>3. ASSUME NEW q \in Partners(p) PROVE published[q][Len(published[p])] \in YGridLevels
  <2>1. published[q] \in Seq(YGridLevels) /\ Len(published[q]) >= Len(published[p])
    BY <1>2 DEF TypeInv
  <2>2. QED BY <2>1, <1>1
<1>4. QED BY <1>1, <1>3 DEF HaveGrids

LEMMA IntersectTypes ==
  ASSUME TypeInv, NEW p \in Procs, Intersect(p)
  PROVE  TypeInv'
<1> DEFINE n == Len(published[p])
           l == Len(level[p])
           q_grid == [q \in Partners(p) |-> published[q][n]]
           h == intersections(p, level[p][l], q_grid, l)
<1>1. /\ phase[p] = "exchange" /\ \A q \in Partners(p) : Len(published[q]) >= n
      /\ level' = [level EXCEPT ![p][l] = h]
      /\ phase' = [phase EXCEPT ![p] = "ready"]
      /\ UNCHANGED <<args, dims, keep_ovlp, calls, done, todo, published>>
  BY DEF Intersect, maxLevel
<1>2. /\ n \in Nat \ {0} /\ l \in Nat \ {0} /\ level[p][l] \in YGridLevels
      /\ HaveGrids(p, q_grid)
  BY <1>1, Arrived
<1> HIDE DEF q_grid
<1>3. h \in YGridLevels
  <2>1. Config /\ dims # NoDims
    BY <1>1 DEF TypeInv
  <2> HIDE DEF l
  <2>2. QED BY <2>1, <1>2, IntersectionsType
<1> HIDE DEF h
<1>4. /\ [level[p] EXCEPT ![l] = h] \in Seq(YGridLevels)
      /\ Len([level[p] EXCEPT ![l] = h]) = Len(level[p])
  <2>1. level[p] \in Seq(YGridLevels) /\ l \in 1..Len(level[p])
    BY <1>2 DEF TypeInv
  <2> HIDE DEF l
  <2>2. QED BY <2>1, <1>3
<1>5. level' = [level EXCEPT ![p] = [level[p] EXCEPT ![l] = h]]
  BY <1>1
<1>6. Config' /\ Procs' = Procs /\ YGridLevels' = YGridLevels /\ (\A q : tooSmall(q)' <=> tooSmall(q))
  BY <1>1, Unchanged DEF TypeInv
<1>7. /\ phase' \in [Procs -> {"start", "exchange", "ready", "thrown"}]
      /\ level' \in [Procs -> Seq(YGridLevels)]
  BY <1>1, <1>4, <1>5 DEF TypeInv
<1>8. ASSUME NEW q \in Procs
      PROVE  /\ done'[q] <= Len(calls')
             /\ Len(published'[q]) >= Len(level'[q])
             /\ phase'[q] \in {"start", "thrown"} => published'[q] = <<>>
             /\ phase'[q] \in {"exchange", "ready"} => Len(level'[q]) >= 1
             /\ phase'[q] = "thrown" => dims' = NoDims \/ tooSmall(q)'
             /\ phase'[q] \in {"exchange", "ready"} => dims' # NoDims /\ ~tooSmall(q)'
  <2>1. CASE q = p
    <3>1. phase'[q] = "ready" /\ level'[q] = [level[p] EXCEPT ![l] = h]
      BY <2>1, <1>1, <1>5 DEF TypeInv
    <3>2. Len(level'[q]) = Len(level[q])
      BY <2>1, <3>1, <1>4
    <3> HIDE DEF l
    <3>3. QED BY <2>1, <3>1, <3>2, <1>1, <1>6 DEF TypeInv
  <2>2. CASE q # p
    <3>1. phase'[q] = phase[q] /\ level'[q] = level[q]
      BY <2>2, <1>1, <1>5 DEF TypeInv
    <3>2. QED BY <3>1, <1>1, <1>6 DEF TypeInv
  <2>3. QED BY <2>1, <2>2
<1>9. QED BY <1>1, <1>6, <1>7, <1>8 DEF TypeInv

LEMMA CallFacts ==
  ASSUME TypeInv, NEW p \in Procs, NEW c \in Calls, MakesCall(p, c)
  PROVE  /\ phase[p] = "ready"
         /\ calls' \in Seq(Calls) /\ Len(calls') >= Len(calls)
         /\ done' = [done EXCEPT ![p] = done[p] + 1] /\ done' \in [Procs -> Nat]
         /\ \A q \in Procs : done'[q] <= Len(calls')
<1>1. /\ calls \in Seq(Calls) /\ done \in [Procs -> Nat] /\ \A q \in Procs : done[q] <= Len(calls)
      /\ Len(calls) \in Nat
  BY DEF TypeInv
<1>2. phase[p] = "ready" /\ done' = [done EXCEPT ![p] = done[p] + 1]
  BY DEF MakesCall
<1>3. CASE done[p] < Len(calls)
  <2>1. calls' = calls
    BY <1>3 DEF MakesCall
  <2>2. QED BY <1>1, <1>2, <1>3, <2>1
<1>4. CASE ~ (done[p] < Len(calls))
  <2>1. calls' = Append(calls, c)
    BY <1>4 DEF MakesCall
  <2>2. calls' \in Seq(Calls) /\ Len(calls') = Len(calls) + 1
    BY <1>1, <2>1
  <2>3. QED BY <1>1, <1>2, <2>2
<1>5. QED BY <1>3, <1>4

(* A call that leaves the levels alone, or removes some. *)
LEMMA CallTypes ==
  ASSUME TypeInv, NEW p \in Procs, NEW c \in Calls, MakesCall(p, c),
         UNCHANGED <<args, dims, phase, published>>,
         keep_ovlp' \in [Procs -> BOOLEAN], todo' \in [Procs -> Nat],
         level' \in [Procs -> Seq(YGridLevels)],
         \A q \in Procs : Len(level'[q]) <= Len(level[q])
                         /\ (Len(level[q]) >= 1 => Len(level'[q]) >= 1)
  PROVE  TypeInv'
<1>1. Config' /\ Procs' = Procs /\ YGridLevels' = YGridLevels /\ (\A q : tooSmall(q)' <=> tooSmall(q))
  BY Unchanged DEF TypeInv
<1>2. /\ calls' \in Seq(Calls) /\ done' \in [Procs -> Nat]
      /\ \A q \in Procs : done'[q] <= Len(calls')
  BY CallFacts
<1>3. ASSUME NEW q \in Procs
      PROVE  /\ Len(published'[q]) >= Len(level'[q])
             /\ phase'[q] \in {"start", "thrown"} => published'[q] = <<>>
             /\ phase'[q] \in {"exchange", "ready"} => Len(level'[q]) >= 1
             /\ phase'[q] = "thrown" => dims' = NoDims \/ tooSmall(q)'
             /\ phase'[q] \in {"exchange", "ready"} => dims' # NoDims /\ ~tooSmall(q)'
  <2>1. Len(level[q]) \in Nat /\ Len(level'[q]) \in Nat /\ Len(published[q]) \in Nat
    BY DEF TypeInv
  <2>2. QED BY <2>1, <1>1 DEF TypeInv
<1>4. Calls' = Calls
  BY DEF Calls
<1>5. QED BY <1>1, <1>2, <1>3, <1>4 DEF TypeInv

LEMMA RefineOptionsTypes ==
  ASSUME TypeInv, NEW p \in Procs, RefineOptions(p)
  PROVE  TypeInv'
<1>1. PICK keep \in BOOLEAN :
        /\ MakesCall(p, [name |-> "refineOptions", arg |-> keep])
        /\ keep_ovlp' = [keep_ovlp EXCEPT ![p] = keep]
        /\ UNCHANGED <<args, dims, phase, level, todo, published>>
  BY DEF RefineOptions
<1>2. [name |-> "refineOptions", arg |-> keep] \in Calls
  BY DEF Calls
<1>3. keep_ovlp' \in [Procs -> BOOLEAN] /\ todo' \in [Procs -> Nat] /\ level' \in [Procs -> Seq(YGridLevels)]
  BY <1>1 DEF TypeInv
<1>4. \A q \in Procs : Len(level'[q]) <= Len(level[q]) /\ (Len(level[q]) >= 1 => Len(level'[q]) >= 1)
  <2>1. \A q \in Procs : Len(level[q]) \in Nat
    BY DEF TypeInv
  <2>2. QED BY <2>1, <1>1
<1>5. QED BY <1>1, <1>2, <1>3, <1>4, CallTypes

LEMMA BeginRefineTypes ==
  ASSUME TypeInv, NEW p \in Procs, BeginRefine(p)
  PROVE  TypeInv'
<1>1. PICK refCount \in {k \in Counts : k > 0} :
        /\ MakesCall(p, [name |-> "globalRefine", arg |-> refCount])
        /\ todo' = [todo EXCEPT ![p] = refCount]
        /\ UNCHANGED <<args, dims, phase, level, keep_ovlp, published>>
  BY DEF BeginRefine
<1>2. refCount \in Nat
  BY CountsAssumption
<1>3. [name |-> "globalRefine", arg |-> refCount] \in Calls
  BY <1>2 DEF Calls
<1>4. keep_ovlp' \in [Procs -> BOOLEAN] /\ todo' \in [Procs -> Nat] /\ level' \in [Procs -> Seq(YGridLevels)]
  BY <1>1, <1>2 DEF TypeInv
<1>5. \A q \in Procs : Len(level'[q]) <= Len(level[q]) /\ (Len(level[q]) >= 1 => Len(level'[q]) >= 1)
  <2>1. \A q \in Procs : Len(level[q]) \in Nat
    BY DEF TypeInv
  <2>2. QED BY <2>1, <1>1
<1>6. QED BY <1>1, <1>3, <1>4, <1>5, CallTypes

(* globalRefine() with a negative count keeps the coarser levels. *)
LEMMA CoarsenFacts ==
  ASSUME TypeInv, NEW p \in Procs, NEW refCount \in {k \in Counts : k < 0},
         level' = IF -refCount < maxLevel(p)
                  THEN [level EXCEPT ![p] = SubSeq(@, 1, maxLevel(p) + refCount)]
                  ELSE level
  PROVE  /\ level' \in [Procs -> Seq(YGridLevels)]
         /\ \A q \in Procs : /\ Len(level'[q]) <= Len(level[q])
                            /\ (Len(level[q]) >= 1 => Len(level'[q]) >= 1)
                            /\ \A l \in 1..Len(level'[q]) : level'[q][l] = level[q][l]
<1>1. refCount \in Int /\ refCount < 0
  BY CountsAssumption
<1>2. level \in [Procs -> Seq(YGridLevels)] /\ \A q \in Procs : Len(level[q]) \in Nat
  BY DEF TypeInv
<1>3. CASE -refCount < maxLevel(p)
  <2> DEFINE k == Len(level[p]) + refCount
             s == SubSeq(level[p], 1, k)
  <2>1. k \in Nat /\ k >= 1 /\ k <= Len(level[p])
    BY <1>1, <1>2, <1>3 DEF maxLevel
  <2>2. level' = [level EXCEPT ![p] = s]
    BY <1>3 DEF maxLevel
  <2>3. s \in Seq(YGridLevels) /\ Len(s) = k /\ \A l \in 1..k : s[l] = level[p][l]
    <3>1. level[p] \in Seq(YGridLevels)
      BY <1>2
    <3> HIDE DEF k
    <3>2. QED BY <3>1, <2>1
  <2> HIDE DEF s, k
  <2>4. level' \in [Procs -> Seq(YGridLevels)]
    BY <1>2, <2>2, <2>3
  <2>5. ASSUME NEW q \in Procs
        PROVE  /\ Len(level'[q]) <= Len(level[q])
               /\ (Len(level[q]) >= 1 => Len(level'[q]) >= 1)
               /\ \A l \in 1..Len(level'[q]) : level'[q][l] = level[q][l]
    <3>1. CASE q = p
      BY <3>1, <1>2, <2>1, <2>2, <2>3
    <3>2. CASE q # p
      BY <3>2, <1>2, <2>2
    <3>3. QED BY <3>1, <3>2
  <2>6. QED BY <2>4, <2>5
<1>4. CASE ~ (-refCount < maxLevel(p))
  <2>1. level' = level
    BY <1>4
  <2>2. ASSUME NEW q \in Procs
        PROVE  /\ Len(level'[q]) <= Len(level[q])
               /\ (Len(level[q]) >= 1 => Len(level'[q]) >= 1)
               /\ \A l \in 1..Len(level'[q]) : level'[q][l] = level[q][l]
    <3> DEFINE v == level'[q]
               n == Len(level[q])
    <3>1. v = level[q] /\ n \in Nat
      BY <2>1, <1>2
    <3> HIDE DEF n, v
    <3>2. Len(v) = n
      BY <3>1 DEF n
    <3>3. Len(v) <= n
      BY <3>1, <3>2
    <3>4. (n >= 1 => Len(v) >= 1) /\ \A l \in 1..Len(v) : v[l] = level[q][l]
      BY <3>1, <3>2
    <3>5. QED BY <3>3, <3>4 DEF n, v
  <2>3. level' \in [Procs -> Seq(YGridLevels)]
    BY <2>1, <1>2
  <2>4. QED BY <2>2, <2>3
<1>5. QED BY <1>3, <1>4

LEMMA CoarsenTypes ==
  ASSUME TypeInv, NEW p \in Procs, Coarsen(p)
  PROVE  TypeInv'
<1>1. PICK refCount \in {k \in Counts : k < 0} :
        /\ MakesCall(p, [name |-> "globalRefine", arg |-> refCount])
        /\ level' = IF -refCount < maxLevel(p)
                    THEN [level EXCEPT ![p] = SubSeq(@, 1, maxLevel(p) + refCount)]
                    ELSE level
        /\ UNCHANGED <<args, dims, phase, keep_ovlp, todo, published>>
  BY DEF Coarsen
<1>2. [name |-> "globalRefine", arg |-> refCount] \in Calls
  BY CountsAssumption DEF Calls
<1>3. keep_ovlp' \in [Procs -> BOOLEAN] /\ todo' \in [Procs -> Nat]
  BY <1>1 DEF TypeInv
<1>4. /\ level' \in [Procs -> Seq(YGridLevels)]
      /\ \A q \in Procs : Len(level'[q]) <= Len(level[q]) /\ (Len(level[q]) >= 1 => Len(level'[q]) >= 1)
  BY <1>1, CoarsenFacts
<1>5. QED BY <1>1, <1>2, <1>3, <1>4, CallTypes

LEMMA NextTypes == TypeInv /\ [Next]_vars => TypeInv'
<1> SUFFICES ASSUME TypeInv, [Next]_vars PROVE TypeInv'
  OBVIOUS
<1>1. CASE UNCHANGED vars
  <2>1. UNCHANGED <<args, dims>>
    BY <1>1 DEF vars
  <2>2. Config' /\ Procs' = Procs /\ YGridLevels' = YGridLevels /\ (\A q : tooSmall(q)' <=> tooSmall(q))
    BY <2>1, Unchanged DEF TypeInv
  <2>3. UNCHANGED <<phase, level, keep_ovlp, calls, done, todo, published>>
    BY <1>1 DEF vars
  <2>4. Calls' = Calls
    BY DEF Calls
  <2>5. QED BY <2>1, <2>2, <2>3, <2>4 DEF TypeInv
<1>2. CASE Next
  <2>1. ASSUME NEW p \in Procs, Inside(p) \/ RefineOptions(p) \/ Coarsen(p) \/ BeginRefine(p)
        PROVE  TypeInv'
    BY <2>1, ConstructTypes, IntersectTypes, RefineTypes, RefineOptionsTypes, CoarsenTypes,
       BeginRefineTypes DEF Inside
  <2>2. CASE Stopped
    BY <2>2, <1>1 DEF Stopped
  <2>3. QED BY <1>2, <2>1, <2>2 DEF Next
<1>3. QED BY <1>1, <1>2

LEMMA Typed == Spec => []TypeInv
<1>1. QED BY InitTypes, NextTypes, PTL DEF Spec

(* Type correctness; a level of a process is one it once published, no     *)
(* process is ahead of the common program, and every rank in a list of     *)
(* intersections is a rank of the torus.                                   *)
THEOREM TypesOK == Spec => []TypeOK
<1>1. TypeInv => TypeOK
  <2> SUFFICES ASSUME TypeInv PROVE TypeOK
    OBVIOUS
  <2>1. args \in Cases /\ dims \in Seq(Nat)
    <3>1. dims = NoDims \/ dims \in Seq(Nat \ {0})
      BY ConfigFacts DEF TypeInv
    <3>2. CASE dims = NoDims
      BY <3>2 DEF NoDims, TypeInv, Config
    <3>3. CASE dims \in Seq(Nat \ {0})
      BY <3>3 DEF TypeInv, Config
    <3>4. QED BY <3>1, <3>2, <3>3
  <2>2. ASSUME NEW p \in Procs
        PROVE  /\ \A l \in 1..maxLevel(p) : LevelOK(level[p][l])
               /\ Len(published[p]) >= maxLevel(p)
               /\ (phase[p] \in {"start", "thrown"}) <=> (published[p] = <<>>)
    <3>1. level[p] \in Seq(YGridLevels) /\ published[p] \in Seq(YGridLevels)
      BY DEF TypeInv
    <3>2. ASSUME NEW l \in 1..maxLevel(p) PROVE LevelOK(level[p][l])
      <4>1. level[p][l] \in YGridLevels
        BY <3>1 DEF maxLevel
      <4>2. QED BY <4>1 DEF YGridLevels, LevelOK
    <3>3. Len(published[p]) >= maxLevel(p)
      BY DEF TypeInv, maxLevel
    <3>4. CASE phase[p] \in {"start", "thrown"}
      BY <3>2, <3>3, <3>4 DEF TypeInv
    <3>5. CASE phase[p] \in {"exchange", "ready"}
      <4>1. Len(published[p]) >= Len(level[p]) /\ Len(level[p]) >= 1
        BY <3>5 DEF TypeInv
      <4>2. Len(level[p]) \in Nat /\ Len(published[p]) \in Nat
        BY <3>1
      <4>3. published[p] # <<>>
        BY <4>1, <4>2
      <4>4. QED BY <3>2, <3>3, <3>5, <4>3
    <3>6. QED BY <3>4, <3>5 DEF TypeInv
  <2>3. done \in [Procs -> 0..Len(calls)]
    <3>1. Len(calls) \in Nat
      BY DEF TypeInv
    <3>2. \A p \in Procs : done[p] \in 0..Len(calls)
      BY <3>1 DEF TypeInv
    <3>3. QED BY <3>2 DEF TypeInv
  <2>4. QED BY <2>1, <2>2, <2>3 DEF TypeInv, TypeOK
<1>2. QED BY <1>1, Typed, PTL

(* The default balancer is optimal: see DefaultOptimal. *)
THEOREM Balanced == Spec => []BalancerOptimal
<1>1. TypeInv => BalancerOptimal
  <2> SUFFICES ASSUME TypeInv, args.lb = "default"
               PROVE  /\ procs(dims) = args.procs
                      /\ \A t \in [Dir -> 1..args.procs] : procs(t) = args.procs =>
                           weight(args.size, args.procs, dims) <= weight(args.size, args.procs, t)
    BY DEF BalancerOptimal
  <2> DEFINE t0 == optimize_dims(args.size, args.procs)
  <2>1. /\ args.size \in Seq(Nat \ {0}) /\ args.size # <<>> /\ args.procs \in Nat \ {0}
        /\ Dir = 1..Len(args.size) /\ Len(args.size) \in Nat
    BY ConfigFacts DEF TypeInv
  <2>2. /\ procs(t0) = args.procs
        /\ \A u \in Seq(Nat \ {0}) : Len(u) = Len(args.size) /\ procs(u) = args.procs =>
             weight(args.size, args.procs, t0) <= weight(args.size, args.procs, u)
    BY <2>1, DefaultOptimal
  <2> HIDE DEF t0
  <2>3. loadbalance(args.lb, args.fixed, args.size, args.procs) = t0
    BY DEF loadbalance, t0
  <2>4. dims = t0
    BY <2>2, <2>3 DEF TypeInv, Config, Torus
  <2>5. ASSUME NEW t \in [Dir -> 1..args.procs]
        PROVE  t \in Seq(Nat \ {0}) /\ Len(t) = Len(args.size)
    <3> DEFINE d == Len(args.size)
               P == args.procs
    <3>1. d \in Nat /\ P \in Nat /\ t \in [1..d -> 1..P]
      BY <2>1
    <3> HIDE DEF d, P
    <3>2. \A i \in 1..d : t[i] \in Nat \ {0}
      BY <3>1
    <3>3. t \in [1..d -> Nat \ {0}]
      BY <3>1, <3>2
    <3>4. t \in Seq(Nat \ {0}) /\ Len(t) = d
      BY <3>1, <3>3
    <3>5. QED BY <3>4 DEF d
  <2>6. QED BY <2>2, <2>4, <2>5
<1>2. QED BY <1>1, Typed, PTL

(* Who accepts what another one refuses. *)
LEMMA SizesDiffer ==
  ASSUME Config, dims # NoDims, NEW p \in Procs, NEW q \in Procs, tooSmall(p), ~tooSmall(q)
  PROVE  \E i \in Dir : LET m == args.size[i] \div dims[i]
                       IN  /\ args.size[i] % dims[i] # 0
                           /\ m = args.overlap \/ args.size[i] = 1
<1>1. PICK i \in Dir : /\ mine(p)[i].size <= args.overlap
                       /\ i \in args.periodic \/ mine(p)[i].size # args.size[i]
  BY DEF tooSmall
<1>2. ~ (mine(q)[i].size <= args.overlap) \/ (i \notin args.periodic /\ mine(q)[i].size = args.size[i])
  BY DEF tooSmall
<1> DEFINE n == dims[i]
           N == args.size[i]
           m == N \div n
           r == N % n
           a == mine(p)[i].size
           b == mine(q)[i].size
<1>3. /\ n \in Nat \ {0} /\ N \in Nat \ {0}
      /\ a \in {m, m + 1} /\ (a # m => r # 0)
      /\ b \in {m, m + 1} /\ (b # m => r # 0)
  BY MyPiece DEF PieceOK
<1>4. m \in Nat /\ r \in 0..n-1 /\ N = n * m + r
  <2> HIDE DEF n, N
  <2>1. QED BY <1>3, Division
<1>5. args.overlap \in Nat /\ a <= args.overlap
  <2>1. mine(p)[i].size <= args.overlap
    BY <1>1
  <2>2. args.overlap \in Nat
    BY ConfigFacts
  <2>3. QED BY <2>1, <2>2
<1> HIDE DEF n, N, m, r
<1>6. CASE ~ (b <= args.overlap)
  <2> HIDE DEF a, b
  <2>1. r # 0 /\ m = args.overlap
    BY <1>3, <1>4, <1>5, <1>6
  <2>2. QED BY <2>1 DEF m, r, n, N
<1>7. CASE b = N /\ a # N
  <2> HIDE DEF a, b
  <2>1. r # 0
    BY <1>3, <1>4, <1>7
  <2>2. b = m + 1 \/ b = m
    BY <1>3
  <2>3. n # 1 /\ n >= 2
    BY <2>1, <1>3, <1>4
  <2>4. m * 2 <= m * n
    BY <2>3, <1>3, <1>4, MoreTimes
  <2>5. N = 1
    <3> DEFINE x == m * n
    <3>1. x \in Int /\ N = x + r /\ 2 * m <= x
      BY <1>3, <1>4, <2>4
    <3> HIDE DEF x
    <3>2. QED BY <3>1, <2>1, <2>2, <1>3, <1>4, <1>7
  <2>6. QED BY <2>1, <2>5 DEF m, r, n, N
<1>8. QED BY <1>1, <1>2, <1>6, <1>7 DEF N

(* The size check is not uniform only at the limit: some processes throw   *)
(* and others wait for them only if the smaller pieces are exactly as wide *)
(* as the overlap, or there is a single cell in a direction.               *)
THEOREM SizeCheck == Spec => []SizeCheckUniform
<1>1. TypeInv => SizeCheckUniform
  <2> SUFFICES ASSUME TypeInv, NEW p \in Procs, NEW q \in Procs,
                      phase[p] = "thrown", phase[q] \in {"exchange", "ready"}
               PROVE  \E i \in Dir : LET m == args.size[i] \div dims[i]
                                    IN  /\ args.size[i] % dims[i] # 0
                                        /\ m = args.overlap \/ args.size[i] = 1
    BY DEF SizeCheckUniform
  <2>1. Config /\ dims # NoDims /\ tooSmall(p) /\ ~tooSmall(q)
    BY DEF TypeInv
  <2>2. QED BY <2>1, SizesDiffer
<1>2. QED BY <1>1, Typed, PTL

-----------------------------------------------------------------------------
(* The width of the overlap.  In direction i, the piece of p on level l    *)
(* reaches from lower() to upper(); it may begin or end at the boundary of *)
(* the domain.                                                             *)
lower(p, i, l) == mine(p)[i].origin * twice[l]
upper(p, i, l) == (mine(p)[i].origin + mine(p)[i].size) * twice[l]
begins(p, i) == mine(p)[i].origin = 0 /\ i \notin args.periodic
ends(p, i) == mine(p)[i].origin + mine(p)[i].size = args.size[i] /\ i \notin args.periodic

WithOverlap(p, g, l, i) ==
  /\ g.origin[i] = IF begins(p, i) THEN 0 ELSE lower(p, i, l) - g.overlap
  /\ g.origin[i] + g.size[i] = IF ends(p, i) THEN upper(p, i, l) ELSE upper(p, i, l) + g.overlap
  /\ ~begins(p, i) => i \in g.low
  /\ begins(p, i) /\ g.overlap # 0 => i \notin g.low
  /\ i \in g.up <=> ~ends(p, i)

(* What a level is, while its overlap is not wider than the smallest piece.*)
LevelInv(p, g, l) ==
  /\ g.overlap <= args.overlap * twice[l]
  /\ \A i \in Dir : WithOverlap(p, g, l, i)

OverlapInv == Accepted => \A p \in Procs : \A l \in 1..Len(level[p]) : LevelInv(p, level[p][l], l)

(* The process with rank 0 has the first piece, which is a smallest one. *)
LEMMA FirstPiece ==
  ASSUME Config, dims # NoDims, NEW i \in Dir
  PROVE  0 \in Procs /\ mine(0)[i].size = args.size[i] \div dims[i]
<1>1. /\ dims \in Seq(Nat \ {0}) /\ i \in Dirs(dims) /\ 0 \in Procs
  BY ConfigFacts DEF Procs
<1>2. increment(dims)[i+1] \in Nat \ {0} /\ increment(dims)[i] \in Nat \ {0}
  <2>1. i + 1 \in 1..Len(dims)+1 /\ i \in 1..Len(dims)+1
    BY <1>1 DEF Dirs
  <2>2. QED BY <1>1, <2>1, Increments
<1>3. rank_to_coord(dims, 0)[i] = 0
  <2> DEFINE a == increment(dims)[i+1]
             b == increment(dims)[i]
  <2>1. rank_to_coord(dims, 0)[i] = (0 % a) \div b
    BY <1>1 DEF rank_to_coord
  <2> HIDE DEF a, b
  <2>2. a \in Nat \ {0} /\ b \in Nat \ {0}
    BY <1>2 DEF a, b
  <2>3. (0 % a) = 0
    BY <2>2, SmallRemainder
  <2>4. 0 \div b = 0
    BY <2>2, Division
  <2>5. QED BY <2>1, <2>3, <2>4
<1>4. PieceOK(0, dims[i], args.size[i], mine(0)[i])
  BY <1>1, <1>3, MyPiece
<1>5. QED BY <1>1, <1>4 DEF PieceOK

(* Where a piece does not touch the boundary of the domain, there is more  *)
(* than the overlap between them.                                          *)
LEMMA Room ==
  ASSUME Config, Accepted, NEW p \in Procs, NEW i \in Dir
  PROVE  LET lo == mine(p)[i].origin
             hi == mine(p)[i].origin + mine(p)[i].size
         IN  /\ lo \in Nat /\ mine(p)[i].size \in Nat \ {0} /\ hi \in Nat
             /\ args.size[i] \in Nat /\ hi <= args.size[i]
             /\ lo # 0 => lo >= args.overlap + 1
             /\ hi # args.size[i] => args.size[i] - hi >= args.overlap + 1
<1> DEFINE n == dims[i]
           N == args.size[i]
           m == N \div n
           c == rank_to_coord(dims, p)[i]
           pc == mine(p)[i]
<1>1. dims # NoDims /\ args.ctor # "deprecated" /\ \A q \in Procs : ~tooSmall(q)
  BY DEF Accepted
<1>2. /\ n \in Nat \ {0} /\ N \in Nat \ {0} /\ c \in 0..n-1 /\ PieceOK(c, n, N, pc)
      /\ pc.origin \in Nat /\ pc.size \in Nat
  BY <1>1, MyPiece
<1>3. 0 \in Procs /\ mine(0)[i].size = m
  BY <1>1, FirstPiece
<1>4. m > args.overlap \/ m = N
  <2>1. ~tooSmall(0)
    BY <1>1, <1>3
  <2>2. ~ (mine(0)[i].size <= args.overlap) \/ mine(0)[i].size = N
    BY <1>1, <2>1 DEF tooSmall
  <2>3. args.overlap \in Nat /\ m \in Nat
    <3>1. args.overlap \in Nat
      BY ConfigFacts
    <3> HIDE DEF n, N
    <3>2. QED BY <3>1, <1>2, Division
  <2> HIDE DEF m
  <2>4. QED BY <1>3, <2>2, <2>3
<1>5. m \in Nat /\ (N % n) \in 0..n-1 /\ N = n * m + (N % n)
  <2> HIDE DEF n, N
  <2>1. QED BY <1>2, Division
<1>6. args.overlap \in Nat
  BY ConfigFacts
<1> HIDE DEF c, n, N, m, pc
<1>7. CASE m > args.overlap
  <2>1. pc.size \in {m, m + 1}
    BY <1>2 DEF PieceOK, m
  <2>2. c # 0 => pc.origin >= m
    BY <1>2 DEF PieceOK, m
  <2>3. c = 0 => pc.origin = 0
    BY <1>2 DEF PieceOK
  <2>4. c = n - 1 => pc.origin + pc.size = N
    BY <1>2 DEF PieceOK
  <2>5. c # n - 1 => N - (pc.origin + pc.size) >= m
    BY <1>2 DEF PieceOK, m
  <2> DEFINE lo == pc.origin
             s == pc.size
             w == args.overlap
  <2>6. lo \in Nat /\ s \in Nat /\ w \in Nat /\ N \in Nat /\ m \in Nat /\ m > w
    BY <1>2, <1>5, <1>6, <1>7
  <2>7. s \in Nat \ {0} /\ (lo # 0 => lo >= w + 1)
    <3>1. s \in {m, m + 1} /\ (c # 0 => lo >= m) /\ (c = 0 => lo = 0)
      BY <2>1, <2>2, <2>3
    <3> HIDE DEF lo, s, w
    <3>2. QED BY <2>6, <3>1
  <2>8. lo + s <= N /\ (lo + s # N => N - (lo + s) >= w + 1)
    <3>1. (c = n - 1 => lo + s = N) /\ (c # n - 1 => N - (lo + s) >= m)
      BY <2>4, <2>5
    <3> HIDE DEF lo, s, w
    <3>2. QED BY <2>6, <3>1
  <2>9. lo + s \in Nat
    <3> HIDE DEF lo, s, w
    <3>1. QED BY <2>6
  <2>10. QED BY <2>6, <2>7, <2>8, <2>9 DEF pc, N
<1>8. CASE m = N
  <2>1. n = 1
    <3>1. n # 1 => m * 2 <= m * n
      <4>1. ASSUME n # 1 PROVE 2 <= n
        BY <4>1, <1>2
      <4>2. QED BY <4>1, <1>2, <1>5, MoreTimes
    <3> DEFINE x == m * n
               r == N % n
    <3>2. x \in Int /\ r \in Nat /\ N = x + r /\ (n # 1 => 2 * m <= x)
      BY <1>2, <1>5, <3>1
    <3> HIDE DEF x, r
    <3>3. QED BY <3>2, <1>2, <1>5, <1>8
  <2>2. c = 0 /\ c = n - 1
    BY <2>1, <1>2
  <2>3. pc.origin = 0 /\ pc.origin + pc.size = N
    BY <2>2, <1>2 DEF PieceOK
  <2>4. QED BY <2>3, <1>2, <1>6 DEF pc, N
<1>9. QED BY <1>4, <1>7, <1>8

(* The same on level l. *)
LEMMA RoomOnLevel ==
  ASSUME Config, Accepted, NEW p \in Procs, NEW i \in Dir, NEW l \in Nat \ {0},
         NEW ov \in Nat, ov <= args.overlap * twice[l]
  PROVE  /\ lower(p, i, l) \in Nat /\ upper(p, i, l) \in Nat /\ levelSize(l)[i] \in Nat
         /\ lower(p, i, l) <= upper(p, i, l)
         /\ upper(p, i, l) - lower(p, i, l) = mine(p)[i].size * twice[l]
         /\ mine(p)[i].origin = 0 => lower(p, i, l) = 0
         /\ mine(p)[i].origin # 0 => lower(p, i, l) > ov
         /\ mine(p)[i].origin + mine(p)[i].size = args.size[i] => upper(p, i, l) = levelSize(l)[i]
         /\ mine(p)[i].origin + mine(p)[i].size # args.size[i] => levelSize(l)[i] - upper(p, i, l) > ov
<1> DEFINE t == twice[l]
           lo == mine(p)[i].origin
           s == mine(p)[i].size
           hi == lo + s
           N == args.size[i]
           w == args.overlap
<1>1. t \in Nat \ {0}
  BY Twice
<1>2. /\ lo \in Nat /\ s \in Nat \ {0} /\ hi \in Nat /\ N \in Nat /\ hi <= N
      /\ (lo # 0 => lo >= w + 1) /\ (hi # N => N - hi >= w + 1)
  BY Room
<1>3. w \in Nat
  BY ConfigFacts
<1>4. lower(p, i, l) = lo * t /\ upper(p, i, l) = hi * t /\ levelSize(l)[i] = N * t
  BY DEF lower, upper, levelSize
<1>5. ov <= w * t
  OBVIOUS
<1>6. hi = lo + s
  OBVIOUS
<1> HIDE DEF t, lo, s, hi, N, w
<1>7. /\ lo * t \in Nat /\ s * t \in Nat /\ hi * t \in Nat /\ N * t \in Nat /\ w * t \in Nat
      /\ hi * t = lo * t + s * t
  BY <1>1, <1>2, <1>3, <1>6
<1>8. lo # 0 => lo * t > ov
  <2>1. ASSUME lo # 0 PROVE t * (w + 1) <= t * lo
    BY <2>1, <1>1, <1>2, <1>3, MoreTimes
  <2>2. t * (w + 1) = w * t + t /\ t * lo = lo * t
    BY <1>1, <1>2, <1>3
  <2> DEFINE x == lo * t
             y == w * t
  <2>3. x \in Nat /\ y \in Nat /\ ov <= y /\ (lo # 0 => y + t <= x)
    BY <2>1, <2>2, <1>5, <1>7
  <2> HIDE DEF x, y
  <2>4. lo # 0 => x > ov
    BY <2>3, <1>1
  <2>5. QED BY <2>4 DEF x
<1>9. hi # N => N * t - hi * t > ov
  <2>1. ASSUME hi # N PROVE t * (w + 1) <= t * (N - hi)
    BY <2>1, <1>1, <1>2, <1>3, MoreTimes
  <2>2. t * (w + 1) = w * t + t /\ t * (N - hi) = N * t - hi * t
    BY <1>1, <1>2, <1>3
  <2> DEFINE x == N * t - hi * t
             y == w * t
  <2>3. x \in Int /\ y \in Nat /\ ov <= y /\ (hi # N => y + t <= x)
    BY <2>1, <2>2, <1>5, <1>7
  <2> HIDE DEF x, y
  <2>4. hi # N => x > ov
    BY <2>3, <1>1
  <2>5. QED BY <2>4 DEF x
<1>10. (lo = 0 => lo * t = 0) /\ (hi = N => hi * t = N * t)
  BY <1>1
<1>11. lo * t <= hi * t /\ hi * t - lo * t = s * t
  BY <1>7
<1>12. QED
  BY <1>4, <1>7, <1>8, <1>9, <1>10, <1>11 DEF lo, s, hi, N, t

(* makelevel() makes such a level from a container of the right size. *)
LEMMA MakeInv ==
  ASSUME Config, Accepted, NEW p \in Procs, NEW l \in Nat \ {0},
         NEW ov \in Nat, ov <= args.overlap * twice[l],
         NEW size \in [Dir -> Int], NEW o \in [Dir -> Int], NEW keep,
         \A i \in Dir : /\ o[i] = lower(p, i, l)
                        /\ size[i] = upper(p, i, l) - lower(p, i, l)
                                     + (IF begins(p, i) THEN 0 ELSE ov)
                                     + (IF ends(p, i) THEN 0 ELSE ov)
  PROVE  LevelInv(p, makelevel(l, size, o, ov, keep), l)
<1> DEFINE g == makelevel(l, size, o, ov, keep)
           atLow == {i \in Dir \ args.periodic : o[i] - ov < 0}
           org == [i \in Dir |-> IF i \in atLow THEN 0 ELSE o[i] - ov]
<1>1. /\ g.origin = org /\ g.size = size /\ g.low = Dir \ atLow /\ g.overlap = ov
      /\ g.up = {i \in Dir : i \in args.periodic \/ org[i] + size[i] < levelSize(l)[i]}
  BY DEF makelevel
<1> HIDE DEF g
<1>2. ASSUME NEW i \in Dir PROVE WithOverlap(p, g, l, i)
  <2> DEFINE lo == lower(p, i, l)
             up == upper(p, i, l)
             N == levelSize(l)[i]
             per == i \in args.periodic
             x == org[i]
  <2>1. /\ lo \in Nat /\ up \in Nat /\ N \in Nat /\ lo <= up
        /\ begins(p, i) => lo = 0 /\ ~per
        /\ ~begins(p, i) /\ ~per => lo > ov
        /\ ends(p, i) => up = N /\ ~per
        /\ ~ends(p, i) /\ ~per => N - up > ov
    BY RoomOnLevel DEF begins, ends
  <2>2. o[i] = lo /\ size[i] = up - lo + (IF begins(p, i) THEN 0 ELSE ov) + (IF ends(p, i) THEN 0 ELSE ov)
    OBVIOUS
  <2>3. /\ (i \in atLow <=> ~per /\ lo - ov < 0)
        /\ x = IF i \in atLow THEN 0 ELSE lo - ov
    BY <2>2
  <2>4. (i \in g.low <=> i \notin atLow) /\ (i \in g.up <=> per \/ x + size[i] < N)
    BY <1>1
  <2> HIDE DEF lo, up, N, per, x, atLow
  <2>5. x = IF begins(p, i) THEN 0 ELSE lo - ov
    BY <2>1, <2>3
  <2>6. x + size[i] = IF ends(p, i) THEN up ELSE up + ov
    BY <2>1, <2>2, <2>5
  <2>7. (~begins(p, i) => i \in g.low) /\ (begins(p, i) /\ ov # 0 => i \notin g.low)
    BY <2>1, <2>3, <2>4
  <2>8. i \in g.up <=> ~ends(p, i)
    BY <2>1, <2>4, <2>6
  <2>9. g.origin[i] = x /\ g.size[i] = size[i] /\ g.overlap = ov
    BY <1>1 DEF x
  <2>10. QED BY <2>5, <2>6, <2>7, <2>8, <2>9 DEF WithOverlap, lo, up
<1>3. QED BY <1>1, <1>2 DEF LevelInv, g

(* The containers of the coarse level have that size. *)
LEMMA ContainerSize ==
  ASSUME Config, Accepted, NEW p \in Procs, NEW i \in Dir
  PROVE  container(p)[i] = mine(p)[i].size + (IF begins(p, i) THEN 0 ELSE args.overlap)
                                           + (IF ends(p, i) THEN 0 ELSE args.overlap)
<1> DEFINE lo == mine(p)[i].origin
           s == mine(p)[i].size
           N == args.size[i]
           w == args.overlap
           per == i \in args.periodic
<1>1. /\ lo \in Nat /\ s \in Nat \ {0} /\ N \in Nat /\ lo + s \in Nat /\ lo + s <= N /\ w \in Nat
      /\ lo # 0 => lo >= w + 1
      /\ lo + s # N => N - (lo + s) >= w + 1
  BY Room, ConfigFacts
<1>2. s_overlap(p)[i] = s + (IF lo - w > 0 \/ per THEN w ELSE 0)
                          + (IF lo + s + w <= N \/ per THEN w ELSE 0)
  BY DEF s_overlap
<1>3. newcoords_size(p)[i] =
        s + (IF lo - w > 0 THEN w ELSE 0) + (IF lo + s + w < N THEN w ELSE 0)
        + (IF per THEN (IF lo + s + w >= N THEN w ELSE 0) + (IF lo - w <= 0 THEN w ELSE 0) ELSE 0)
  BY DEF newcoords_size
<1>4. (begins(p, i) <=> lo = 0 /\ ~per) /\ (ends(p, i) <=> lo + s = N /\ ~per)
  BY DEF begins, ends
<1> HIDE DEF lo, s, N, w, per
<1>5. s_overlap(p)[i] = s + (IF begins(p, i) THEN 0 ELSE w) + (IF ends(p, i) THEN 0 ELSE w)
  <2>1. (IF lo - w > 0 \/ per THEN w ELSE 0) = IF begins(p, i) THEN 0 ELSE w
    BY <1>1, <1>4
  <2>2. (IF lo + s + w <= N \/ per THEN w ELSE 0) = IF ends(p, i) THEN 0 ELSE w
    BY <1>1, <1>4
  <2>3. QED BY <1>2, <2>1, <2>2
<1>6. newcoords_size(p)[i] = s + (IF begins(p, i) THEN 0 ELSE w) + (IF ends(p, i) THEN 0 ELSE w)
  <2>1. CASE per
    <3>1. newcoords_size(p)[i] = s + w + w
      BY <1>1, <1>3, <2>1
    <3>2. QED BY <1>4, <2>1, <3>1
  <2>2. CASE ~per
    <3>1. newcoords_size(p)[i] = s + (IF lo - w > 0 THEN w ELSE 0) + (IF lo + s + w < N THEN w ELSE 0)
      BY <1>1, <1>3, <2>2
    <3>2. (IF lo - w > 0 THEN w ELSE 0) = IF begins(p, i) THEN 0 ELSE w
      BY <1>1, <1>4, <2>2
    <3>3. (IF lo + s + w < N THEN w ELSE 0) = IF ends(p, i) THEN 0 ELSE w
      BY <1>1, <1>4, <2>2
    <3>4. QED BY <3>1, <3>2, <3>3
  <2>3. QED BY <2>1, <2>2
<1>7. QED BY <1>5, <1>6 DEF container, s, w

LEMMA ConstructedInv ==
  ASSUME Config, Accepted, NEW p \in Procs, NEW keep
  PROVE  LevelInv(p, makelevel(1, container(p), [i \in Dir |-> mine(p)[i].origin],
                               args.overlap, keep), 1)
<1> DEFINE o == [i \in Dir |-> mine(p)[i].origin]
           size == container(p)
           w == args.overlap
<1>1. size \in [Dir -> Int] /\ o \in [Dir -> Int]
  BY ContainerType DEF Accepted
<1>2. w \in Nat /\ twice[1] = 1
  BY ConfigFacts, Twice
<1>3. ASSUME NEW i \in Dir
      PROVE  /\ o[i] = lower(p, i, 1)
             /\ size[i] = upper(p, i, 1) - lower(p, i, 1)
                          + (IF begins(p, i) THEN 0 ELSE w) + (IF ends(p, i) THEN 0 ELSE w)
  <2> DEFINE lo == mine(p)[i].origin
             s == mine(p)[i].size
  <2>1. lo \in Nat /\ s \in Nat
    BY Room
  <2>2. lower(p, i, 1) = lo /\ upper(p, i, 1) = lo + s
    BY <1>2, <2>1 DEF lower, upper
  <2>3. size[i] = s + (IF begins(p, i) THEN 0 ELSE w) + (IF ends(p, i) THEN 0 ELSE w)
    BY ContainerSize
  <2>4. o[i] = lo
    OBVIOUS
  <2> HIDE DEF lo, s, size, o, w
  <2>5. QED BY <1>2, <2>1, <2>2, <2>3, <2>4
<1> HIDE DEF size, o, w
<1>4. w <= w * twice[1] /\ 1 \in Nat \ {0}
  BY <1>2
<1>5. LevelInv(p, makelevel(1, size, o, w, keep), 1)
  BY <1>1, <1>2, <1>3, <1>4, MakeInv DEF w
<1>6. QED BY <1>5 DEF size, o, w

(* What refinement reads off the grid of a level: the cells of the process,*)
(* with overlap and without.                                               *)
LEMMA CellGrids ==
  ASSUME NEW g \in YGridLevels, NEW i \in Dir
  PROVE  /\ overlap(g, Dir).origin[i] = g.origin[i]
         /\ last(overlap(g, Dir), i) = g.origin[i] + g.size[i] - 1
         /\ interior(g, Dir).origin[i] = g.origin[i] + (IF i \in g.low THEN g.overlap ELSE 0)
         /\ last(interior(g, Dir), i) = g.origin[i] + g.size[i]
                                        - (IF i \in g.up THEN g.overlap ELSE 0) - 1
<1>1. g.origin \in [Dir -> Int] /\ g.size \in [Dir -> Int] /\ g.overlap \in Nat
  BY DEF YGridLevels
<1>2. half(Dir) = [j \in Dir |-> 0]
  BY DEF half
<1>3. overlap(g, Dir).origin[i] = g.origin[i] /\ overlap(g, Dir).size[i] = g.size[i]
  BY <1>1, <1>2 DEF overlap, overlapfront, cut, ygrid
<1>4. /\ interiorborder(g, Dir).origin[i] = g.origin[i] + (IF i \in g.low THEN g.overlap ELSE 0)
      /\ interiorborder(g, Dir).size[i] = g.size[i] - (IF i \in g.low THEN g.overlap ELSE 0)
                                                    - (IF i \in g.up THEN g.overlap ELSE 0)
  BY <1>1, <1>2, <1>3 DEF interiorborder, cut, ygrid
<1>5. /\ interior(g, Dir).origin[i] = interiorborder(g, Dir).origin[i]
      /\ interior(g, Dir).size[i] = interiorborder(g, Dir).size[i]
  BY <1>1, <1>2, <1>4 DEF interior, cut, ygrid
<1>6. g.origin[i] \in Int /\ g.size[i] \in Int
  BY <1>1
<1>7. QED BY <1>1, <1>3, <1>4, <1>5, <1>6 DEF last

LEMMA RefinedInv ==
  ASSUME Config, Accepted, NEW p \in Procs, NEW l \in Nat \ {0}, NEW cg \in YGridLevels,
         LevelInv(p, cg, l), NEW keep \in BOOLEAN
  PROVE  LET cells == overlap(cg, Dir)
             low == {i \in Dir : cells.origin[i] > 0} \cup args.periodic
             up  == {i \in Dir : last(cells, i) + 1 < levelSize(l)[i]} \cup args.periodic
         IN  LevelInv(p, makelevel(l+1, refine_size(cg, low, up, keep),
                                   [i \in Dir |-> 2 * interior(cg, Dir).origin[i]],
                                   (IF keep THEN 2 ELSE 1) * cg.overlap, keep), l+1)
<1> DEFINE low == {i \in Dir : overlap(cg, Dir).origin[i] > 0} \cup args.periodic
           up  == {i \in Dir : last(overlap(cg, Dir), i) + 1 < levelSize(l)[i]} \cup args.periodic
           o == [i \in Dir |-> 2 * interior(cg, Dir).origin[i]]
           size == refine_size(cg, low, up, keep)
           ov == (IF keep THEN 2 ELSE 1) * cg.overlap
           fine == l + 1
<1>1. /\ cg.overlap \in Nat /\ cg.overlap <= args.overlap * twice[l]
      /\ twice[l] \in Nat \ {0} /\ twice[fine] = 2 * twice[l] /\ fine \in Nat \ {0}
      /\ args.overlap \in Nat
  BY Twice, ConfigFacts DEF LevelInv, YGridLevels
<1>2. ov \in Nat /\ ov <= args.overlap * twice[fine]
  <2> DEFINE x == args.overlap * twice[l]
             y == args.overlap * twice[fine]
             e == cg.overlap
  <2>1. x \in Nat /\ y = 2 * x /\ e \in Nat /\ e <= x
    BY <1>1
  <2> HIDE DEF x, y, e
  <2>2. ov \in Nat /\ ov <= y
    BY <2>1 DEF e
  <2>3. QED BY <2>2 DEF y
<1>3. size \in [Dir -> Int] /\ o \in [Dir -> Int]
  <2> HIDE DEF low, up
  <2>1. QED BY RefineType
<1>4. ASSUME NEW i \in Dir
      PROVE  /\ o[i] = lower(p, i, fine)
             /\ size[i] = upper(p, i, fine) - lower(p, i, fine)
                          + (IF begins(p, i) THEN 0 ELSE ov) + (IF ends(p, i) THEN 0 ELSE ov)
  <2> DEFINE a == lower(p, i, l)
             b == upper(p, i, l)
             N == levelSize(l)[i]
             e == cg.overlap
             per == i \in args.periodic
             x == cg.origin[i]
             z == cg.size[i]
             atLow == i \in low
             atUp == i \in up
  <2>1. /\ a \in Nat /\ b \in Nat /\ N \in Nat /\ a <= b /\ e \in Nat
        /\ begins(p, i) => a = 0 /\ ~per
        /\ ~begins(p, i) /\ ~per => a > e
        /\ ends(p, i) => b = N /\ ~per
        /\ ~ends(p, i) /\ ~per => N - b > e
    BY <1>1, RoomOnLevel DEF begins, ends
  <2>2. /\ x = IF begins(p, i) THEN 0 ELSE a - e
        /\ x + z = IF ends(p, i) THEN b ELSE b + e
        /\ ~begins(p, i) => i \in cg.low
        /\ begins(p, i) /\ e # 0 => i \notin cg.low
    BY DEF LevelInv, WithOverlap
  <2>3. x \in Int /\ z \in Int
    BY DEF YGridLevels
  <2>4. o[i] = 2 * (x + (IF i \in cg.low THEN e ELSE 0))
    BY CellGrids
  <2>5. (atLow <=> x > 0 \/ per) /\ (atUp <=> x + z - 1 + 1 < N \/ per)
    BY CellGrids
  <2>6. size[i] = 2 * z - (IF keep THEN 0 ELSE (IF atLow THEN e ELSE 0) + (IF atUp THEN e ELSE 0))
    <3> HIDE DEF low, up
    <3>1. QED BY DEF refine_size
  <2>7. lower(p, i, fine) = 2 * a /\ upper(p, i, fine) = 2 * b
    <3> DEFINE q == mine(p)[i].origin
               s == mine(p)[i].size
               t == twice[l]
    <3>1. q \in Nat /\ s \in Nat /\ q + s \in Nat
      BY Room
    <3>2. a = q * t /\ b = (q + s) * t /\ lower(p, i, fine) = q * (2 * t) /\ upper(p, i, fine) = (q + s) * (2 * t)
      BY <1>1 DEF lower, upper
    <3>3. t \in Nat
      BY <1>1
    <3> HIDE DEF q, s, t, a, b
    <3>4. QED BY <3>1, <3>2, <3>3
  <2> HIDE DEF a, b, N, e, per, x, z, atLow, atUp, o, size
  <2>8. o[i] = 2 * a
    BY <2>1, <2>2, <2>3, <2>4
  <2>9. (atLow <=> ~begins(p, i)) /\ (atUp <=> ~ends(p, i))
    <3>1. atLow <=> ~begins(p, i)
      BY <2>1, <2>2, <2>3, <2>5
    <3>2. atUp <=> ~ends(p, i)
      BY <2>1, <2>2, <2>3, <2>5
    <3>3. QED BY <3>1, <3>2
  <2>10. z = b - a + (IF begins(p, i) THEN 0 ELSE e) + (IF ends(p, i) THEN 0 ELSE e)
    BY <2>1, <2>2, <2>3
  <2>11. ov = IF keep THEN 2 * e ELSE e
    BY <2>1 DEF e
  <2> HIDE DEF ov
  <2>12. CASE keep
    BY <2>1, <2>3, <2>6, <2>7, <2>8, <2>10, <2>11, <2>12
  <2>13. CASE ~keep
    <3>1. size[i] = 2 * z - ((IF begins(p, i) THEN 0 ELSE e) + (IF ends(p, i) THEN 0 ELSE e))
      BY <2>6, <2>9, <2>13, <2>1, <2>3
    <3>2. QED BY <2>1, <2>3, <2>7, <2>8, <2>10, <2>11, <2>13, <3>1
  <2>14. QED BY <2>12, <2>13
<1> HIDE DEF o, size, ov, low, up, fine
<1>5. LevelInv(p, makelevel(fine, size, o, ov, keep), fine)
  BY <1>1, <1>2, <1>3, <1>4, MakeInv
<1>6. QED BY <1>5 DEF o, size, ov, low, up, fine

(* LevelInv only reads some fields of a level, the arguments and the torus.*)
LEMMA SameFields ==
  ASSUME NEW p \in Procs, NEW l, NEW g, NEW h, LevelInv(p, g, l),
         h.origin = g.origin, h.size = g.size, h.low = g.low, h.up = g.up, h.overlap = g.overlap
  PROVE  LevelInv(p, h, l)
BY DEF LevelInv, WithOverlap

LEMMA UnchangedInv ==
  ASSUME UNCHANGED <<args, dims>>
  PROVE  (Accepted' <=> Accepted) /\ \A p, g, l : LevelInv(p, g, l) <=> LevelInv(p, g, l)'
<1>1. Dir' = Dir /\ Procs' = Procs /\ (\A p : mine(p)' = mine(p) /\ (tooSmall(p)' <=> tooSmall(p)))
  BY Unchanged
<1>2. Accepted' <=> Accepted
  BY <1>1 DEF Accepted
<1>3. ASSUME NEW p, NEW g, NEW l PROVE LevelInv(p, g, l) <=> LevelInv(p, g, l)'
  <2>1. \A i \in Dir : WithOverlap(p, g, l, i) <=> WithOverlap(p, g, l, i)'
    BY <1>1 DEF WithOverlap, begins, ends, lower, upper
  <2>2. QED BY <1>1, <2>1 DEF LevelInv
<1>4. QED BY <1>2, <1>3

(* A new finest level. *)
LEMMA PublishOverlap ==
  ASSUME TypeInv, OverlapInv, NEW p \in Procs, NEW g, Publish(p, g),
         Accepted => LevelInv(p, g, Len(level[p]) + 1), UNCHANGED <<args, dims>>
  PROVE  OverlapInv'
<1>1. Procs' = Procs /\ (Accepted' <=> Accepted) /\ \A q, h, l : LevelInv(q, h, l) <=> LevelInv(q, h, l)'
  BY Unchanged, UnchangedInv
<1>2. level \in [Procs -> Seq(YGridLevels)] /\ level' = [level EXCEPT ![p] = Append(level[p], g)]
  BY DEF TypeInv, Publish
<1>3. ASSUME Accepted, NEW q \in Procs, NEW l \in 1..Len(level'[q])
      PROVE  LevelInv(q, level'[q][l], l)
  <2>1. CASE q = p
    <3> DEFINE s == level[p]
    <3>1. s \in Seq(YGridLevels) /\ level'[q] = Append(s, g)
      BY <1>2, <2>1
    <3>2. \A k \in 1..Len(s) : LevelInv(p, s[k], k)
      BY <1>3 DEF OverlapInv
    <3>3. LevelInv(p, g, Len(s) + 1)
      BY <1>3
    <3> HIDE DEF s
    <3>4. l \in 1..Len(s) + 1
      BY <3>1
    <3>5. CASE l = Len(s) + 1
      BY <2>1, <3>1, <3>3, <3>5
    <3>6. CASE l # Len(s) + 1
      <4>1. l \in 1..Len(s) /\ level'[q][l] = s[l]
        BY <3>1, <3>4, <3>6
      <4>2. QED BY <4>1, <3>2, <2>1
    <3>7. QED BY <3>5, <3>6
  <2>2. CASE q # p
    <3>1. level'[q] = level[q]
      BY <1>2, <2>2
    <3>2. QED BY <3>1, <1>3 DEF OverlapInv
  <2>3. QED BY <2>1, <2>2
<1>4. QED BY <1>1, <1>3 DEF OverlapInv

(* Levels that are kept, or only get their lists of intersections. *)
LEMMA KeptOverlap ==
  ASSUME OverlapInv, UNCHANGED <<args, dims>>,
         Accepted => \A q \in Procs : \A l \in 1..Len(level'[q]) :
           /\ l \in 1..Len(level[q])
           /\ LevelInv(q, level[q][l], l) => LevelInv(q, level'[q][l], l)
  PROVE  OverlapInv'
<1>1. Procs' = Procs /\ (Accepted' <=> Accepted) /\ \A q, h, l : LevelInv(q, h, l) <=> LevelInv(q, h, l)'
  BY Unchanged, UnchangedInv
<1>2. ASSUME Accepted, NEW q \in Procs, NEW l \in 1..Len(level'[q])
      PROVE  LevelInv(q, level'[q][l], l)
  BY <1>2 DEF OverlapInv
<1>3. QED BY <1>1, <1>2 DEF OverlapInv

LEMMA OverlapStep ==
  ASSUME TypeInv, OverlapInv, [Next]_vars
  PROVE  OverlapInv'
<1>1. ASSUME UNCHANGED <<args, dims, level>> PROVE OverlapInv'
  BY <1>1, KeptOverlap
<1>2. ASSUME NEW p \in Procs, Construct(p) PROVE OverlapInv'
  <2>1. UNCHANGED <<args, dims>> /\ phase[p] = "start"
    BY <1>2 DEF Construct
  <2>2. CASE dims = NoDims \/ tooSmall(p)
    BY <1>2, <2>1, <2>2, <1>1 DEF Construct
  <2>3. CASE ~ (dims = NoDims \/ tooSmall(p))
    <3> DEFINE g == makelevel(1, container(p), [i \in Dir |-> mine(p)[i].origin],
                              args.overlap, keep_ovlp[p])
    <3>1. Publish(p, g)
      BY <1>2, <2>3 DEF Construct
    <3>2. Accepted => LevelInv(p, g, 1)
      BY ConstructedInv DEF TypeInv
    <3>3. Len(level[p]) + 1 = 1
      <4>1. published[p] = <<>> /\ Len(published[p]) >= Len(level[p]) /\ Len(level[p]) \in Nat
        BY <2>1 DEF TypeInv
      <4>2. QED BY <4>1
    <3> HIDE DEF g
    <3>4. QED BY <2>1, <3>1, <3>2, <3>3, PublishOverlap
  <2>4. QED BY <2>2, <2>3
<1>3. ASSUME NEW p \in Procs, Refine(p) PROVE OverlapInv'
  <2> DEFINE l  == Len(level[p])
             cg == level[p][l]
             keep == keep_ovlp[p]
             low == {i \in Dir : overlap(cg, Dir).origin[i] > 0} \cup args.periodic
             up  == {i \in Dir : last(overlap(cg, Dir), i) + 1 < levelSize(l)[i]} \cup args.periodic
             g == makelevel(l+1, refine_size(cg, low, up, keep),
                            [i \in Dir |-> 2 * interior(cg, Dir).origin[i]],
                            (IF keep THEN 2 ELSE 1) * cg.overlap, keep)
  <2>1. phase[p] = "ready" /\ Publish(p, g) /\ UNCHANGED <<args, dims>>
    BY <1>3 DEF Refine, maxLevel
  <2>2. Config /\ l \in Nat \ {0} /\ cg \in YGridLevels /\ keep \in BOOLEAN
    BY <2>1 DEF TypeInv
  <2>3. Accepted => LevelInv(p, cg, l)
    <3>1. l \in 1..Len(level[p])
      BY <2>2
    <3>2. QED BY <3>1 DEF OverlapInv
  <2>4. Accepted => LevelInv(p, g, l+1)
    <3> HIDE DEF l, cg, keep
    <3>1. QED BY <2>2, <2>3, RefinedInv
  <2> HIDE DEF g
  <2>5. QED BY <2>1, <2>4, PublishOverlap
<1>4. ASSUME NEW p \in Procs, Intersect(p) PROVE OverlapInv'
  <2> DEFINE n == Len(published[p])
             l == Len(level[p])
             h == intersections(p, level[p][l], [q \in Partners(p) |-> published[q][n]], l)
  <2>1. /\ phase[p] = "exchange" /\ \A q \in Partners(p) : Len(published[q]) >= n
        /\ level' = [level EXCEPT ![p][l] = h] /\ UNCHANGED <<args, dims>>
    BY <1>4 DEF Intersect, maxLevel
  <2>2. l \in Nat \ {0} /\ level[p][l] \in YGridLevels
    BY <2>1, Arrived
  <2>3. /\ h.origin = level[p][l].origin /\ h.size = level[p][l].size
        /\ h.low = level[p][l].low /\ h.up = level[p][l].up /\ h.overlap = level[p][l].overlap
    <3> DEFINE g == level[p][l]
    <3>1. g = [origin |-> g.origin, size |-> g.size, low |-> g.low, up |-> g.up,
               overlap |-> g.overlap, keepOverlap |-> g.keepOverlap, send |-> g.send, recv |-> g.recv]
      BY <2>2 DEF YGridLevels
    <3> HIDE DEF g
    <3>2. QED BY <3>1 DEF intersections
  <2> HIDE DEF h
  <2>4. level' = [level EXCEPT ![p] = [level[p] EXCEPT ![l] = h]]
    BY <2>1
  <2>5. ASSUME NEW q \in Procs, NEW k \in 1..Len(level'[q])
        PROVE  /\ k \in 1..Len(level[q])
               /\ LevelInv(q, level[q][k], k) => LevelInv(q, level'[q][k], k)
    <3>1. CASE q = p
      <4> DEFINE s == level[p]
      <4>1. s \in Seq(YGridLevels) /\ level'[q] = [s EXCEPT ![l] = h]
        BY <3>1, <2>4 DEF TypeInv
      <4>2. l \in 1..Len(s)
        BY <2>2
      <4> HIDE DEF s, l
      <4>3. Len(level'[q]) = Len(s) /\ level'[q][k] = IF k = l THEN h ELSE s[k]
        BY <4>1, <4>2
      <4>4. CASE k = l
        <5>1. LevelInv(q, s[l], l) => LevelInv(q, h, l)
          BY <2>3, SameFields DEF s
        <5>2. QED BY <5>1, <4>2, <4>3, <4>4, <3>1 DEF s
      <4>5. CASE k # l
        BY <4>3, <4>5, <3>1 DEF s
      <4>6. QED BY <4>4, <4>5
    <3>2. CASE q # p
      <4>1. level'[q] = level[q]
        BY <2>4, <3>2 DEF TypeInv
      <4>2. QED BY <4>1
    <3>3. QED BY <3>1, <3>2
  <2>6. QED BY <2>1, <2>5, KeptOverlap
<1>5. ASSUME NEW p \in Procs, Coarsen(p) PROVE OverlapInv'
  <2>1. PICK refCount \in {k \in Counts : k < 0} :
          /\ level' = IF -refCount < maxLevel(p)
                      THEN [level EXCEPT ![p] = SubSeq(@, 1, maxLevel(p) + refCount)]
                      ELSE level
          /\ UNCHANGED <<args, dims>>
    BY <1>5 DEF Coarsen
  <2>2. \A q \in Procs : /\ Len(level'[q]) <= Len(level[q])
                         /\ \A l \in 1..Len(level'[q]) : level'[q][l] = level[q][l]
    BY <2>1, CoarsenFacts
  <2>3. ASSUME NEW q \in Procs, NEW k \in 1..Len(level'[q])
        PROVE  /\ k \in 1..Len(level[q])
               /\ LevelInv(q, level[q][k], k) => LevelInv(q, level'[q][k], k)
    <3>1. Len(level[q]) \in Nat
      BY DEF TypeInv
    <3>2. k \in 1..Len(level[q])
      BY <3>1, <2>2
    <3>3. QED BY <3>2, <2>2
  <2>4. QED BY <2>1, <2>3, KeptOverlap
<1>6. ASSUME NEW p \in Procs, RefineOptions(p) \/ BeginRefine(p) PROVE OverlapInv'
  BY <1>6, <1>1 DEF RefineOptions, BeginRefine
<1>7. CASE UNCHANGED vars
  BY <1>7, <1>1 DEF vars
<1>8. QED BY <1>2, <1>3, <1>4, <1>5, <1>6, <1>7 DEF Next, Inside, Stopped

LEMMA OverlapAlways == Spec => []OverlapInv
<1>1. Init => OverlapInv
  <2> SUFFICES ASSUME Init, NEW p \in Procs PROVE level[p] = <<>>
    BY DEF OverlapInv
  <2>1. QED BY DEF Init
<1>2. TypeInv /\ OverlapInv /\ [Next]_vars => OverlapInv'
  BY OverlapStep
<1>3. QED BY <1>1, <1>2, Typed, PTL DEF Spec

(* On every level, whatever refineOptions() was when it was made, the      *)
(* interior is the refined piece of the process and the overlap lies around*)
(* it towards every neighbour, and none beyond the boundary.               *)
THEOREM Overlaps == Spec => []OverlapWidth
<1>1. TypeInv /\ OverlapInv => OverlapWidth
  <2> SUFFICES ASSUME TypeInv, OverlapInv, Accepted, NEW p \in Procs, NEW l \in 1..maxLevel(p)
               PROVE  PieceWithOverlap(p, l)
    BY DEF OverlapWidth
  <2> DEFINE g == level[p][l]
  <2>1. Config /\ l \in Nat \ {0} /\ g \in YGridLevels /\ LevelInv(p, g, l)
    BY DEF TypeInv, OverlapInv, maxLevel
  <2> HIDE DEF g
  <2>2. ASSUME NEW i \in Dir
        PROVE  LET lo == mine(p)[i].origin * twice[l]
                   hi == lo + mine(p)[i].size * twice[l]
               IN  /\ interior(g, Dir).origin[i] = lo /\ last(interior(g, Dir), i) + 1 = hi
                   /\ g.origin[i] = IF lo = 0 /\ i \notin args.periodic THEN 0 ELSE lo - g.overlap
                   /\ g.origin[i] + g.size[i] =
                        IF hi = levelSize(l)[i] /\ i \notin args.periodic THEN hi ELSE hi + g.overlap
    <3> DEFINE a == lower(p, i, l)
               b == upper(p, i, l)
               N == levelSize(l)[i]
               e == g.overlap
               per == i \in args.periodic
               x == g.origin[i]
               z == g.size[i]
    <3>1. /\ a \in Nat /\ b \in Nat /\ N \in Nat /\ a <= b /\ e \in Nat
          /\ b - a = mine(p)[i].size * twice[l]
          /\ begins(p, i) => a = 0 /\ ~per
          /\ ~begins(p, i) /\ ~per => a > e
          /\ ends(p, i) => b = N /\ ~per
          /\ ~ends(p, i) /\ ~per => N - b > e
      <4>1. e \in Nat /\ e <= args.overlap * twice[l]
        BY <2>1 DEF LevelInv, YGridLevels
      <4>2. QED BY <4>1, <2>1, RoomOnLevel DEF begins, ends
    <3>2. /\ x = IF begins(p, i) THEN 0 ELSE a - e
          /\ x + z = IF ends(p, i) THEN b ELSE b + e
          /\ ~begins(p, i) => i \in g.low
          /\ begins(p, i) /\ e # 0 => i \notin g.low
          /\ i \in g.up <=> ~ends(p, i)
      BY <2>1 DEF LevelInv, WithOverlap
    <3>3. x \in Int /\ z \in Int
      BY <2>1 DEF YGridLevels
    <3>4. /\ interior(g, Dir).origin[i] = x + (IF i \in g.low THEN e ELSE 0)
          /\ last(interior(g, Dir), i) = x + z - (IF i \in g.up THEN e ELSE 0) - 1
      BY <2>1, CellGrids
    <3>5. mine(p)[i].origin * twice[l] = a
      BY DEF lower
    <3> HIDE DEF a, b, N, e, per, x, z
    <3>6. interior(g, Dir).origin[i] = a
      BY <3>1, <3>2, <3>3, <3>4
    <3>7. last(interior(g, Dir), i) + 1 = b
      BY <3>1, <3>2, <3>3, <3>4
    <3>8. x = IF a = 0 /\ ~per THEN 0 ELSE a - e
      BY <3>1, <3>2
    <3>9. x + z = IF b = N /\ ~per THEN b ELSE b + e
      BY <3>1, <3>2
    <3>10. a + mine(p)[i].size * twice[l] = b
      BY <3>1
    <3>11. QED BY <3>5, <3>6, <3>7, <3>8, <3>9, <3>10 DEF N, e, per, x, z
  <2>3. QED BY <2>2 DEF PieceWithOverlap, g
<1>2. QED BY <1>1, Typed, OverlapAlways, PTL

-----------------------------------------------------------------------------
(* The pieces of the processes in one direction are next to each other and *)
(* cover it.                                                               *)
LEMMA PiecesInOrder ==
  ASSUME NEW n \in Nat \ {0}, NEW N \in Nat \ {0}, NEW c \in 0..n-1, NEW d \in 0..n-1, c < d
  PROVE  /\ piece(n, c, 0, N).origin + piece(n, c, 0, N).size <= piece(n, d, 0, N).origin
         /\ d = c + 1 => piece(n, c, 0, N).origin + piece(n, c, 0, N).size = piece(n, d, 0, N).origin
<1> DEFINE m == N \div n
           r == N % n
           b == n - r
           end == piece(n, c, 0, N).origin + piece(n, c, 0, N).size
           next == piece(n, d, 0, N).origin
<1>1. m \in Nat /\ r \in 0..n-1
  BY Division
<1>2. /\ c < b => piece(n, c, 0, N) = [origin |-> 0 + c*m, size |-> m]
      /\ ~(c < b) => piece(n, c, 0, N) = [origin |-> 0 + b*m + (c-b)*(m+1), size |-> m+1]
      /\ d < b => piece(n, d, 0, N) = [origin |-> 0 + d*m, size |-> m]
      /\ ~(d < b) => piece(n, d, 0, N) = [origin |-> 0 + b*m + (d-b)*(m+1), size |-> m+1]
  BY DEF piece
<1>3. /\ c < b => end = 0 + c*m + m
      /\ ~(c < b) => end = 0 + b*m + (c-b)*(m+1) + (m+1)
      /\ d < b => next = 0 + d*m
      /\ ~(d < b) => next = 0 + b*m + (d-b)*(m+1)
  <2> HIDE DEF m, b
  <2>1. QED BY <1>2
<1>4. b \in Int /\ b <= n
  BY <1>1
<1> HIDE DEF m, r, b, end, next
<1>5. CASE d < b
  <2>1. m * (c + 1) <= m * d
    BY <1>1, MoreTimes
  <2>2. m * (c + 1) = c * m + m /\ m * d = d * m
    BY <1>1
  <2>3. c < b /\ end = c * m + m /\ next = d * m
    BY <1>1, <1>3, <1>4, <1>5
  <2>4. d = c + 1 => d * m = c * m + m
    BY <1>1
  <2>5. QED BY <2>1, <2>2, <2>3, <2>4 DEF end, next
<1>6. CASE c < b /\ ~(d < b)
  <2>1. m * (c + 1) <= m * b /\ (m + 1) * 0 <= (m + 1) * (d - b)
    BY <1>1, <1>4, <1>6, MoreTimes
  <2>2. m * (c + 1) = c * m + m /\ m * b = b * m /\ (m + 1) * (d - b) = (d - b) * (m + 1) /\ (m + 1) * 0 = 0
    BY <1>1, <1>4
  <2>3. end = c * m + m /\ next = b * m + (d - b) * (m + 1)
    BY <1>1, <1>3, <1>4, <1>6
  <2>4. d = c + 1 => d = b /\ c + 1 = b
    BY <1>4, <1>6
  <2>5. d = c + 1 => (d - b) * (m + 1) = 0 /\ b * m = c * m + m
    BY <2>2, <2>4, <1>1, <1>4
  <2> DEFINE x == c * m + m
             y == b * m
             z == (d - b) * (m + 1)
  <2>6. x \in Int /\ y \in Int /\ z \in Int /\ x <= y /\ 0 <= z /\ (d = c + 1 => z = 0 /\ y = x)
    BY <1>1, <1>4, <2>1, <2>2, <2>5
  <2>7. end = x /\ next = y + z
    BY <2>3
  <2> HIDE DEF x, y, z
  <2>8. QED BY <2>6, <2>7 DEF end, next
<1>7. CASE ~(c < b)
  <2>1. ~(d < b)
    BY <1>4, <1>7
  <2>2. (m + 1) * (c - b + 1) <= (m + 1) * (d - b)
    BY <1>1, <1>4, MoreTimes
  <2>3. (m + 1) * (c - b + 1) = (c - b) * (m + 1) + (m + 1) /\ (m + 1) * (d - b) = (d - b) * (m + 1)
    BY <1>1, <1>4
  <2> DEFINE x == (c - b) * (m + 1) + (m + 1)
             y == b * m
             z == (d - b) * (m + 1)
  <2>4. d = c + 1 => z = x
    BY <1>1, <1>4
  <2>5. x \in Int /\ y \in Int /\ z \in Int /\ x <= z
    BY <1>1, <1>4, <2>2, <2>3
  <2>6. end = y + x /\ next = y + z
    BY <1>1, <1>3, <1>4, <1>7, <2>1
  <2> HIDE DEF x, y, z
  <2>7. QED BY <2>4, <2>5, <2>6 DEF end, next
<1>8. QED BY <1>5, <1>6, <1>7

LEMMA EveryCell ==
  ASSUME NEW n \in Nat \ {0}, NEW N \in Nat \ {0}, NEW t \in Nat \ {0}, NEW x \in 0..N*t-1
  PROVE  \E c \in 0..n-1 : /\ piece(n, c, 0, N).origin * t <= x
                           /\ x < (piece(n, c, 0, N).origin + piece(n, c, 0, N).size) * t
<1> DEFINE begin(c) == piece(n, c, 0, N).origin
           end(c) == piece(n, c, 0, N).origin + piece(n, c, 0, N).size
           T == {c \in 0..n-1 : x < end(c) * t}
<1>1. ASSUME NEW c \in 0..n-1
      PROVE  begin(c) \in Nat /\ end(c) \in Nat /\ (c = n - 1 => end(c) = N) /\ (c = 0 => begin(c) = 0)
  <2>1. PieceOK(c, n, N, piece(n, c, 0, N)) /\ N \div n \in Nat
    BY Pieces, Division
  <2>2. QED BY <2>1 DEF PieceOK
<1>2. ASSUME NEW c \in 0..n-1, c # 0 PROVE c - 1 \in 0..n-1 /\ begin(c) = end(c-1)
  <2>1. c - 1 \in 0..n-1 /\ c - 1 < c /\ c = (c - 1) + 1
    BY <1>2
  <2>2. QED BY <2>1, PiecesInOrder
<1> HIDE DEF begin, end
<1>3. n - 1 \in T
  <2>1. n - 1 \in 0..n-1
    OBVIOUS
  <2>2. end(n-1) = N
    BY <2>1, <1>1
  <2>3. x < N * t
    <3> DEFINE z == N * t
    <3>1. z \in Int /\ x \in 0..z-1
      OBVIOUS
    <3> HIDE DEF z
    <3>2. x < z
      BY <3>1
    <3>3. QED BY <3>2 DEF z
  <2>4. QED BY <2>1, <2>2, <2>3
<1>4. PICK c \in T : \A k \in T : c <= k
  <2>1. T \subseteq Nat /\ T # {}
    BY <1>3
  <2> HIDE DEF T
  <2>2. QED BY <2>1, Smallest
<1>5. c \in 0..n-1 /\ x < end(c) * t
  OBVIOUS
<1>6. begin(c) * t <= x
  <2>1. CASE c = 0
    <3>1. begin(c) * t = 0
      BY <2>1, <1>1, <1>5
    <3>2. x >= 0
      OBVIOUS
    <3>3. QED BY <3>1, <3>2
  <2>2. CASE c # 0
    <3>1. c - 1 \in 0..n-1 /\ begin(c) = end(c-1)
      BY <2>2, <1>2, <1>5
    <3>2. c - 1 \notin T
      BY <1>4, <1>5, <3>1
    <3>3. ~ (x < end(c-1) * t)
      BY <3>1, <3>2
    <3>4. end(c-1) * t \in Int /\ x \in Int
      BY <1>1, <3>1
    <3>5. QED BY <3>1, <3>3, <3>4
  <2>3. QED BY <2>1, <2>2
<1>7. QED BY <1>5, <1>6 DEF begin, end

(* The coordinate of a process in direction i, and the pieces by it. *)
at(p, i) == rank_to_coord(dims, p)[i]

LEMMA ByCoordinate ==
  ASSUME Config, dims # NoDims, NEW p \in Procs, NEW i \in Dir
  PROVE  /\ dims[i] \in Nat \ {0} /\ args.size[i] \in Nat \ {0}
         /\ at(p, i) \in 0..dims[i]-1
         /\ mine(p)[i] = piece(dims[i], at(p, i), 0, args.size[i])
<1>1. Dirs(dims) = Dir
  BY ConfigFacts
<1>2. mine(p)[i] = piece(dims[i], at(p, i), 0, args.size[i])
  BY <1>1 DEF mine, partition, at
<1>3. QED BY <1>2, MyPiece DEF at

LEMMA BoundsType ==
  ASSUME Config, Accepted, NEW p \in Procs, NEW i \in Dir, NEW l \in Nat \ {0}
  PROVE  lower(p, i, l) \in Nat /\ upper(p, i, l) \in Nat
<1>1. args.overlap \in Nat /\ twice[l] \in Nat
  BY ConfigFacts, Twice
<1>2. args.overlap * twice[l] \in Nat
  BY <1>1
<1>3. 0 \in Nat /\ 0 <= args.overlap * twice[l]
  BY <1>2
<1>4. QED BY <1>3, RoomOnLevel

LEMMA BeforeOrSame ==
  ASSUME Config, Accepted, NEW p \in Procs, NEW q \in Procs, NEW i \in Dir, NEW l \in Nat \ {0}
  PROVE  /\ at(p, i) < at(q, i) => upper(p, i, l) <= lower(q, i, l)
         /\ at(q, i) = at(p, i) + 1 => upper(p, i, l) = lower(q, i, l)
         /\ at(p, i) = at(q, i) => mine(p)[i] = mine(q)[i]
         /\ lower(p, i, l) < upper(p, i, l)
<1>1. /\ at(p, i) \in 0..dims[i]-1 /\ mine(p)[i] = piece(dims[i], at(p, i), 0, args.size[i])
      /\ at(q, i) \in 0..dims[i]-1 /\ mine(q)[i] = piece(dims[i], at(q, i), 0, args.size[i])
      /\ dims[i] \in Nat \ {0} /\ args.size[i] \in Nat \ {0}
  BY ByCoordinate DEF Accepted
<1> DEFINE t == twice[l]
           a == mine(p)[i].origin
           b == mine(p)[i].origin + mine(p)[i].size
           x == mine(q)[i].origin
<1>2. t \in Nat \ {0} /\ a \in Nat /\ b \in Nat /\ a < b /\ x \in Nat
  BY Twice, Room
<1>3. lower(p, i, l) = a * t /\ upper(p, i, l) = b * t /\ lower(q, i, l) = x * t
  BY DEF lower, upper
<1>4. /\ at(p, i) < at(q, i) => b <= x
      /\ at(q, i) = at(p, i) + 1 => b = x
  <2>1. at(q, i) = at(p, i) + 1 => at(p, i) < at(q, i)
    BY <1>1
  <2>2. QED BY <2>1, <1>1, PiecesInOrder
<1>5. at(p, i) = at(q, i) => mine(p)[i] = mine(q)[i]
  BY <1>1
<1> HIDE DEF t, a, b, x
<1>6. b <= x => b * t <= x * t
  <2>1. b <= x => t * b <= t * x
    BY <1>2, MoreTimes
  <2>2. t * b = b * t /\ t * x = x * t
    BY <1>2
  <2>3. QED BY <2>1, <2>2
<1>7. a * t < b * t
  <2>1. t * (a + 1) <= t * b
    BY <1>2, MoreTimes
  <2>2. t * (a + 1) = a * t + t /\ t * b = b * t
    BY <1>2
  <2>3. a * t \in Int /\ b * t \in Int
    BY <1>2
  <2>4. QED BY <2>1, <2>2, <2>3, <1>2
<1>8. QED BY <1>3, <1>4, <1>5, <1>6, <1>7

LEMMA SameProcess ==
  ASSUME Config, dims # NoDims, NEW p \in Procs, NEW q \in Procs,
         \A i \in Dir : at(p, i) = at(q, i)
  PROVE  p = q
<1>1. dims \in Seq(Nat \ {0}) /\ Dirs(dims) = Dir /\ p \in Ranks(dims) /\ q \in Ranks(dims)
  BY ConfigFacts
<1>2. rank_to_coord(dims, p) = rank_to_coord(dims, q)
  BY <1>1 DEF rank_to_coord, at
<1>3. coord_to_rank(dims, rank_to_coord(dims, p)) = p /\ coord_to_rank(dims, rank_to_coord(dims, q)) = q
  BY <1>1, RankOfCoord
<1>4. QED BY <1>2, <1>3

LEMMA ProcessAt ==
  ASSUME Config, dims # NoDims, NEW c, \A i \in Dir : c[i] \in 0..dims[i]-1
  PROVE  \E q \in Procs : \A i \in Dir : at(q, i) = c[i]
<1>1. dims \in Seq(Nat \ {0}) /\ Dirs(dims) = Dir /\ Ranks(dims) = Procs
  BY ConfigFacts
<1>2. \A i \in Dir : c[i] \in Int /\ dims[i] \in Nat \ {0}
  BY <1>1, Increments
<1> DEFINE q == coord_to_rank(dims, c)
<1>3. q \in Procs /\ \A i \in Dir : at(q, i) = (c[i] % dims[i])
  BY <1>1, <1>2, CoordOfRank DEF at
<1>4. \A i \in Dir : (c[i] % dims[i]) = c[i]
  BY <1>2, SmallRemainder
<1>5. QED BY <1>3, <1>4

LEMMA CutAt ==
  ASSUME NEW y, NEW g, NEW c, NEW i \in Dir
  PROVE  /\ cut(y, g, c).origin[i] = y.origin[i] + (IF i \in g.low THEN c[i] ELSE 0)
         /\ cut(y, g, c).size[i] = y.size[i] - (IF i \in g.low THEN c[i] ELSE 0)
                                             - (IF i \in g.up THEN c[i] ELSE 0)
BY DEF cut, ygrid

(* The partitions of a level in one direction. *)
LEMMA PartRanges ==
  ASSUME Config, Accepted, NEW p \in Procs, NEW l \in Nat \ {0}, NEW g \in YGridLevels,
         LevelInv(p, g, l), NEW r \in Shifts, NEW i \in Dir
  PROVE  LET h == half(r)[i]
             a == lower(p, i, l)
             b == upper(p, i, l)
             y(name) == part(name, g, r)
             end(name) == y(name).origin[i] + y(name).size[i]
         IN  /\ h \in {0, 1}
             /\ y("overlapfront").origin[i] = IF begins(p, i) THEN 0 ELSE a - g.overlap
             /\ end("overlapfront") = IF ends(p, i) THEN b + h ELSE b + g.overlap + h
             /\ y("overlap").origin[i] = y("overlapfront").origin[i] + (IF i \in g.low THEN h ELSE 0)
             /\ end("overlap") = end("overlapfront") - (IF ends(p, i) THEN 0 ELSE h)
             /\ y("interiorborder").origin[i] = a /\ end("interiorborder") = b + h
             /\ y("interior").origin[i] = a + (IF i \in g.low THEN h ELSE 0)
             /\ end("interior") = IF ends(p, i) THEN b + h ELSE b
<1> DEFINE h == half(r)[i]
           a == lower(p, i, l)
           b == upper(p, i, l)
           o == g.origin[i]
           s == g.size[i]
           e == g.overlap
           low == i \in g.low
           up == i \in g.up
<1>1. /\ g.origin \in [Dir -> Int] /\ g.size \in [Dir -> Int] /\ e \in Nat
      /\ o \in Int /\ s \in Int
  BY DEF YGridLevels
<1>2. half(r) \in [Dir -> {0, 1}] /\ h \in {0, 1}
  BY DEF half
<1>3. a \in Nat /\ b \in Nat
  <2>1. e <= args.overlap * twice[l]
    BY DEF LevelInv
  <2>2. QED BY <1>1, <2>1, RoomOnLevel
<1>4. /\ o = IF begins(p, i) THEN 0 ELSE a - e
      /\ o + s = IF ends(p, i) THEN b ELSE b + e
      /\ ~begins(p, i) => low
      /\ begins(p, i) /\ e # 0 => ~low
      /\ up <=> ~ends(p, i)
      /\ begins(p, i) => a = 0
  <2>1. begins(p, i) => a = 0
    <3>1. e <= args.overlap * twice[l]
      BY DEF LevelInv
    <3>2. QED BY <1>1, <3>1, RoomOnLevel DEF begins
  <2>2. QED BY <2>1 DEF LevelInv, WithOverlap
<1>5. overlapfront(g, r).origin[i] = o /\ overlapfront(g, r).size[i] = s + h
  BY <1>1 DEF overlapfront, ygrid
<1>6. /\ overlap(g, r).origin[i] = o + (IF low THEN h ELSE 0)
      /\ overlap(g, r).size[i] = s + h - (IF low THEN h ELSE 0) - (IF up THEN h ELSE 0)
  <2>1. overlap(g, r) = cut(overlapfront(g, r), g, half(r))
    BY DEF overlap
  <2>2. /\ overlap(g, r).origin[i] = overlapfront(g, r).origin[i] + (IF low THEN h ELSE 0)
        /\ overlap(g, r).size[i] = overlapfront(g, r).size[i] - (IF low THEN h ELSE 0) - (IF up THEN h ELSE 0)
    BY <2>1, CutAt
  <2> HIDE DEF h, o, s, low, up
  <2>3. QED BY <1>1, <1>2, <1>5, <2>2
<1>7. /\ interiorborder(g, r).origin[i] = o + (IF low THEN h ELSE 0) + (IF low THEN e - h ELSE 0)
      /\ interiorborder(g, r).size[i] = s + h - (IF low THEN h ELSE 0) - (IF up THEN h ELSE 0)
                                          - (IF low THEN e - h ELSE 0) - (IF up THEN e - h ELSE 0)
  <2> DEFINE c == [j \in Dir |-> g.overlap - half(r)[j]]
  <2>1. interiorborder(g, r) = cut(overlap(g, r), g, c) /\ c[i] = e - h
    BY DEF interiorborder
  <2>2. /\ interiorborder(g, r).origin[i] = overlap(g, r).origin[i] + (IF low THEN c[i] ELSE 0)
        /\ interiorborder(g, r).size[i] = overlap(g, r).size[i] - (IF low THEN c[i] ELSE 0) - (IF up THEN c[i] ELSE 0)
    BY <2>1, CutAt
  <2> HIDE DEF c, h, o, s, e, low, up
  <2>3. QED BY <1>1, <1>2, <1>6, <2>1, <2>2
<1>8. /\ interior(g, r).origin[i] = interiorborder(g, r).origin[i] + (IF low THEN h ELSE 0)
      /\ interior(g, r).size[i] = interiorborder(g, r).size[i] - (IF low THEN h ELSE 0) - (IF up THEN h ELSE 0)
  BY CutAt DEF interior
<1>9. /\ part("overlapfront", g, r) = overlapfront(g, r) /\ part("overlap", g, r) = overlap(g, r)
      /\ part("interiorborder", g, r) = interiorborder(g, r) /\ part("interior", g, r) = interior(g, r)
  BY DEF part
<1> HIDE DEF h, a, b, o, s, e, low, up
<1>10. /\ overlapfront(g, r).origin[i] = IF begins(p, i) THEN 0 ELSE a - e
       /\ overlapfront(g, r).origin[i] + overlapfront(g, r).size[i] = IF ends(p, i) THEN b + h ELSE b + e + h
  BY <1>1, <1>2, <1>3, <1>4, <1>5
<1>11. /\ overlap(g, r).origin[i] = overlapfront(g, r).origin[i] + (IF low THEN h ELSE 0)
       /\ overlap(g, r).origin[i] + overlap(g, r).size[i] =
            (overlapfront(g, r).origin[i] + overlapfront(g, r).size[i]) - (IF ends(p, i) THEN 0 ELSE h)
  BY <1>1, <1>2, <1>3, <1>4, <1>5, <1>6
<1>12. /\ interiorborder(g, r).origin[i] = a
       /\ interiorborder(g, r).origin[i] + interiorborder(g, r).size[i] = b + h
  BY <1>1, <1>2, <1>3, <1>4, <1>7
<1>13. /\ interiorborder(g, r).size[i] = b + h - a
  BY <1>1, <1>2, <1>3, <1>4, <1>7
<1>14. /\ interior(g, r).origin[i] = a + (IF low THEN h ELSE 0)
       /\ interior(g, r).origin[i] + interior(g, r).size[i] = IF ends(p, i) THEN b + h ELSE b
  BY <1>2, <1>3, <1>4, <1>8, <1>12, <1>13
<1>15. QED BY <1>2, <1>9, <1>10, <1>11, <1>12, <1>14 DEF h, a, b, e, low

LEMMA PointsOf ==
  ASSUME NEW y \in Grids, NEW x
  PROVE  x \in points(y) <=> /\ x \in [Dir -> Int]
                             /\ \A i \in Dir : x[i] >= y.origin[i] /\ x[i] < y.origin[i] + y.size[i]
<1>1. y.origin \in [Dir -> Int] /\ y.size \in [Dir -> Int] /\ dirs(y) = Dir
  BY DEF Grids, dirs
<1> DEFINE R == UNION {y.origin[i] .. last(y, i) : i \in Dir}
<1>2. points(y) = {z \in [Dir -> R] : contains(y, z)}
  BY <1>1 DEF points
<1>3. ASSUME NEW i \in Dir, NEW k
      PROVE  k \in y.origin[i] .. last(y, i)
               <=> k \in Int /\ k >= y.origin[i] /\ k < y.origin[i] + y.size[i]
  <2>1. y.origin[i] \in Int /\ y.size[i] \in Int
    BY <1>1
  <2>2. QED BY <2>1 DEF last
<1>4. R \subseteq Int
  BY <1>1 DEF last
<1>5. ASSUME x \in points(y)
      PROVE  /\ x \in [Dir -> Int]
             /\ \A i \in Dir : x[i] >= y.origin[i] /\ x[i] < y.origin[i] + y.size[i]
  BY <1>1, <1>2, <1>4, <1>5 DEF contains
<1>6. ASSUME x \in [Dir -> Int],
             \A i \in Dir : x[i] >= y.origin[i] /\ x[i] < y.origin[i] + y.size[i]
      PROVE  x \in points(y)
  <2>1. ASSUME NEW i \in Dir PROVE x[i] \in R
    <3>1. x[i] \in y.origin[i] .. last(y, i)
      BY <1>3, <1>6
    <3>2. QED BY <3>1
  <2>2. x \in [Dir -> R]
    BY <1>6, <2>1
  <2>3. contains(y, x)
    BY <1>1, <1>6 DEF contains
  <2>4. QED BY <1>2, <2>2, <2>3
<1>7. QED BY <1>5, <1>6

(* When all processes are ready and none was made by a deprecated          *)
(* constructor, every size check was made and passed.                      *)
LEMMA ReadyAccepted ==
  ASSUME TypeInv, OverlapInv, args.ctor # "deprecated", NEW l \in 1..LevelLimit, Ready(l)
  PROVE  /\ Config /\ Accepted /\ l \in Nat \ {0}
         /\ \A p \in Procs : level[p][l] \in YGridLevels /\ LevelInv(p, level[p][l], l)
<1>1. l \in Nat \ {0}
  BY BoundsAssumption
<1>2. 0 \in Procs
  BY ConfigFacts DEF TypeInv, Procs
<1>3. ASSUME NEW p \in Procs
      PROVE  dims # NoDims /\ ~tooSmall(p) /\ l \in 1..Len(level[p])
  <2>1. phase[p] = "ready" /\ Len(level[p]) >= l /\ Len(level[p]) \in Nat
    BY DEF Ready, maxLevel, TypeInv
  <2>2. QED BY <1>1, <2>1 DEF TypeInv
<1>4. Accepted
  BY <1>2, <1>3 DEF Accepted
<1>5. QED BY <1>1, <1>3, <1>4 DEF TypeInv, OverlapInv

(* The owner in one direction: a cell or point in the overlap is the same  *)
(* as one that lies in the piece of some coordinate.                       *)
LEMMA OwnerInDirection ==
  ASSUME Config, Accepted, NEW p \in Procs, NEW i \in Dir, NEW l \in Nat \ {0},
         NEW h \in {0, 1}, NEW ov \in Nat, ov <= args.overlap * twice[l], NEW x \in Int,
         x >= IF begins(p, i) THEN 0 ELSE lower(p, i, l) - ov,
         x < IF ends(p, i) THEN upper(p, i, l) + h ELSE upper(p, i, l) + ov + h
  PROVE  \E c \in 0..dims[i]-1, y \in Int :
           /\ IF i \in args.periodic THEN (x - y) % levelSize(l)[i] = 0 ELSE x = y
           /\ piece(dims[i], c, 0, args.size[i]).origin * twice[l] <= y
           /\ y < (piece(dims[i], c, 0, args.size[i]).origin
                   + piece(dims[i], c, 0, args.size[i]).size) * twice[l] + h
<1> DEFINE n == dims[i]
           N == args.size[i]
           t == twice[l]
           M == N * t
           begin(c) == piece(n, c, 0, N).origin * t
           end(c) == (piece(n, c, 0, N).origin + piece(n, c, 0, N).size) * t
<1>1. n \in Nat \ {0} /\ N \in Nat \ {0} /\ t \in Nat \ {0} /\ M \in Nat \ {0} /\ levelSize(l)[i] = M
  <2>1. n \in Nat \ {0} /\ N \in Nat \ {0} /\ t \in Nat \ {0}
    BY ByCoordinate, Twice DEF Accepted
  <2>2. levelSize(l)[i] = M
    BY DEF levelSize
  <2>3. M \in Nat \ {0}
    BY <2>2, LevelSizes
  <2>4. QED BY <2>1, <2>2, <2>3
<1>2. ASSUME NEW y \in 0..M-1
      PROVE  \E c \in 0..n-1 : begin(c) <= y /\ y < end(c) /\ end(c) \in Int
  <2>1. PICK c \in 0..n-1 : begin(c) <= y /\ y < end(c)
    <3> HIDE DEF n, N, t
    <3>1. QED BY <1>1, EveryCell
  <2>2. end(c) \in Int
    <3> DEFINE o == piece(n, c, 0, N).origin
               s == piece(n, c, 0, N).size
    <3>1. PieceOK(c, n, N, piece(n, c, 0, N)) /\ N \div n \in Nat
      <4> HIDE DEF n, N
      <4>1. QED BY <1>1, Pieces, Division
    <3>2. o \in Nat /\ s \in Nat
      BY <3>1 DEF PieceOK
    <3> HIDE DEF o, s, t
    <3>3. (o + s) * t \in Int
      BY <1>1, <3>2
    <3>4. QED BY <3>3 DEF o, s
  <2>3. QED BY <2>1, <2>2
<1>3. CASE i \in args.periodic
  <2> DEFINE y == x % M
  <2>1. y \in 0..M-1 /\ (x - y) % M = 0
    <3> HIDE DEF M
    <3>1. y \in 0..M-1 /\ x - y = M * (x \div M)
      BY <1>1
    <3>2. x \div M \in Int
      BY <1>1
    <3> DEFINE k == x \div M
    <3>3. (M * k) % M = 0
      <4> HIDE DEF k
      <4>1. k \in Int
        BY <3>2 DEF k
      <4>2. QED BY <1>1, <4>1
    <3>4. QED BY <3>1, <3>3
  <2> HIDE DEF y
  <2>2. PICK c \in 0..n-1 : begin(c) <= y /\ y < end(c) /\ end(c) \in Int
    BY <1>2, <2>1
  <2>3. y < end(c) + h /\ y \in Int
    <3> HIDE DEF M, end
    <3>1. QED BY <2>1, <2>2
  <2>4. QED BY <1>1, <1>3, <2>1, <2>2, <2>3
<1>4. CASE i \notin args.periodic
  <2> DEFINE a == lower(p, i, l)
             b == upper(p, i, l)
  <2>1. /\ a \in Nat /\ b \in Nat
        /\ ~begins(p, i) => a > ov
        /\ ends(p, i) => b = M
        /\ ~ends(p, i) => M - b > ov
    BY <1>1, <1>4, RoomOnLevel DEF begins, ends
  <2>2. x >= 0 /\ x < M + h
    <3> HIDE DEF a, b, M
    <3>1. QED BY <1>1, <2>1 DEF a, b
  <2>3. CASE x < M
    <3>1. x \in 0..M-1
      <4> HIDE DEF M
      <4>1. QED BY <1>1, <2>2, <2>3
    <3>2. PICK c \in 0..n-1 : begin(c) <= x /\ x < end(c) /\ end(c) \in Int
      BY <1>2, <3>1
    <3>3. x < end(c) + h
      <4> HIDE DEF end
      <4>1. QED BY <3>2
    <3>4. QED BY <1>4, <3>2, <3>3
  <2>4. CASE ~(x < M)
    <3>1. M - 1 \in 0..M-1
      <4> HIDE DEF M
      <4>1. QED BY <1>1
    <3>2. PICK c \in 0..n-1 : begin(c) <= M - 1 /\ M - 1 < end(c) /\ end(c) \in Int
      BY <1>2, <3>1
    <3>3. begin(c) \in Int
      <4> DEFINE o == piece(n, c, 0, N).origin
      <4>1. PieceOK(c, n, N, piece(n, c, 0, N)) /\ N \div n \in Nat
        <5> HIDE DEF n, N
        <5>1. QED BY <1>1, Pieces, Division
      <4>2. o \in Nat
        BY <4>1 DEF PieceOK
      <4> HIDE DEF o, t
      <4>3. o * t \in Int
        BY <1>1, <4>2
      <4>4. QED BY <4>3 DEF o
    <3>4. begin(c) <= x /\ x < end(c) + h
      <4> HIDE DEF begin, end, M
      <4>1. QED BY <1>1, <2>2, <2>4, <3>2, <3>3
    <3>5. QED BY <1>4, <3>2, <3>4
  <2>5. QED BY <2>3, <2>4
<1>5. QED BY <1>3, <1>4

(* A cell or interior point is not a copy of another one in the domain.    *)
LEMMA NoWrap ==
  ASSUME NEW M \in Nat \ {0}, NEW h \in {0, 1}, NEW x \in Int, NEW y \in Int,
         h <= x, x < M, 0 <= y, y < M + h, (x - y) % M = 0
  PROVE  x = y
<1> DEFINE k == (x - y) \div M
<1>1. k \in Int /\ x - y = M * k
  BY DEF k
<1> HIDE DEF k
<1>2. k >= 1 => x - y >= M
  <2>1. k >= 1 => M * 1 <= M * k
    BY <1>1, MoreTimes
  <2>2. QED BY <1>1, <2>1
<1>3. k <= -1 => x - y <= -M
  <2>1. k <= -1 => M * k <= M * (-1)
    BY <1>1, MoreTimes
  <2>2. QED BY <1>1, <2>1
<1>4. k = 0 => x = y
  BY <1>1
<1>5. k >= 1 \/ k <= -1 \/ k = 0
  BY <1>1
<1>6. QED BY <1>2, <1>3, <1>4, <1>5

LEMMA OneOwner ==
  ASSUME Config, Accepted, NEW p \in Procs, NEW q \in Procs, NEW i \in Dir, NEW l \in Nat \ {0},
         NEW h \in {0, 1}, NEW x \in Int, NEW y \in Int,
         x >= lower(p, i, l) + (IF begins(p, i) THEN 0 ELSE h),
         x < IF ends(p, i) THEN upper(p, i, l) + h ELSE upper(p, i, l),
         y >= lower(q, i, l), y < upper(q, i, l) + h,
         IF i \in args.periodic THEN (x - y) % levelSize(l)[i] = 0 ELSE x = y
  PROVE  at(p, i) = at(q, i) /\ x = y
<1> DEFINE a == lower(p, i, l)
           b == upper(p, i, l)
           u == lower(q, i, l)
           v == upper(q, i, l)
           M == levelSize(l)[i]
           per == i \in args.periodic
<1>1. 0 <= args.overlap * twice[l] /\ 0 \in Nat
  <2>1. args.overlap \in Nat /\ twice[l] \in Nat
    BY ConfigFacts, Twice
  <2>2. args.overlap * twice[l] \in Nat
    BY <2>1
  <2>3. QED BY <2>2
<1>2. /\ a \in Nat /\ b \in Nat /\ u \in Nat /\ v \in Nat /\ M \in Nat \ {0}
      /\ a < b /\ u < v /\ b <= M /\ v <= M
      /\ begins(p, i) => a = 0 /\ ~per
      /\ a = 0 => begins(p, i) \/ per
      /\ ends(p, i) => b = M /\ ~per
      /\ b = M => ends(p, i) \/ per
  <2>1. M \in Nat \ {0}
    BY LevelSizes
  <2>2. /\ a \in Nat /\ b \in Nat /\ u \in Nat /\ v \in Nat /\ a < b /\ u < v
    BY <1>1, RoomOnLevel, BeforeOrSame
  <2>3. b <= M /\ v <= M
    <3>1. (mine(p)[i].origin + mine(p)[i].size = args.size[i] => b = M)
          /\ (mine(p)[i].origin + mine(p)[i].size # args.size[i] => M - b > 0)
      BY <1>1, RoomOnLevel
    <3>2. (mine(q)[i].origin + mine(q)[i].size = args.size[i] => v = M)
          /\ (mine(q)[i].origin + mine(q)[i].size # args.size[i] => M - v > 0)
      BY <1>1, RoomOnLevel
    <3> HIDE DEF b, v, M
    <3>3. QED BY <2>1, <2>2, <3>1, <3>2
  <2>4. /\ begins(p, i) => a = 0 /\ ~per
        /\ ~begins(p, i) /\ ~per => a > 0
        /\ ends(p, i) => b = M /\ ~per
        /\ ~ends(p, i) /\ ~per => M - b > 0
    BY <1>1, RoomOnLevel DEF begins, ends
  <2> HIDE DEF a, b, u, v, M, per
  <2>5. QED BY <2>1, <2>2, <2>3, <2>4
<1>3. /\ at(p, i) < at(q, i) => b <= u
      /\ at(q, i) < at(p, i) => v <= a
      /\ at(p, i) \in Int /\ at(q, i) \in Int
  BY BeforeOrSame, ByCoordinate DEF Accepted
<1>4. /\ x >= a + (IF begins(p, i) THEN 0 ELSE h)
      /\ x < IF ends(p, i) THEN b + h ELSE b
      /\ y >= u /\ y < v + h
      /\ IF per THEN (x - y) % M = 0 ELSE x = y
  OBVIOUS
<1> HIDE DEF a, b, u, v, M, per
<1>5. x = y
  <2>1. CASE per
    <3>1. h <= x /\ x < M /\ 0 <= y /\ y < M + h
      BY <1>2, <1>4, <2>1
    <3>2. (x - y) % M = 0
      BY <1>4, <2>1
    <3>3. QED BY <1>2, <3>1, <3>2, NoWrap
  <2>2. CASE ~per
    BY <1>4, <2>2
  <2>3. QED BY <2>1, <2>2
<1>6. ~(at(p, i) < at(q, i))
  <2>1. SUFFICES ASSUME at(p, i) < at(q, i) PROVE FALSE
    OBVIOUS
  <2>2. ~ends(p, i)
    BY <1>2, <1>3, <2>1
  <2>3. x < b
    BY <1>4, <2>2
  <2>4. QED BY <1>2, <1>3, <1>4, <1>5, <2>1, <2>3
<1>7. ~(at(q, i) < at(p, i))
  <2>1. SUFFICES ASSUME at(q, i) < at(p, i) PROVE FALSE
    OBVIOUS
  <2>2. ~begins(p, i)
    BY <1>2, <1>3, <2>1
  <2>3. x >= a + h
    BY <1>4, <2>2
  <2>4. QED BY <1>2, <1>3, <1>4, <1>5, <2>1, <2>3
<1>8. QED BY <1>3, <1>5, <1>6, <1>7

(* The pieces of the processes tile the domain: on every level that all    *)
(* processes have, every entity, also one that is only in the overlap of a *)
(* process or beyond a periodic boundary, lies in the interior or on the   *)
(* border of some process, and an interior one of no other.                *)
THEOREM Owners == Spec => [](args.ctor # "deprecated" => InteriorOnce)
<1>1. TypeInv /\ OverlapInv => (args.ctor # "deprecated" => InteriorOnce)
  <2> SUFFICES ASSUME TypeInv, OverlapInv, args.ctor # "deprecated",
                      NEW l \in 1..LevelLimit, Ready(l), NEW r \in Shifts
               PROVE  LET owned == Holders("interiorborder", l, r)
                      IN  /\ \A h \in Holders("overlapfront", l, r) :
                                \E k \in owned : Same(h[2], k[2], l)
                          /\ \A h \in Holders("interior", l, r) :
                                \A k \in owned : Same(h[2], k[2], l) => h = k
    BY DEF InteriorOnce, Together
  <2>1. /\ Config /\ Accepted /\ l \in Nat \ {0}
        /\ \A p \in Procs : level[p][l] \in YGridLevels /\ LevelInv(p, level[p][l], l)
    BY ReadyAccepted
  <2> DEFINE Of(p, name) == part(name, level[p][l], r)
  <2>2. ASSUME NEW p \in Procs, NEW name \in PartNames, NEW x
        PROVE  x \in points(Of(p, name)) <=>
                 /\ x \in [Dir -> Int]
                 /\ \A i \in Dir : /\ x[i] >= Of(p, name).origin[i]
                                   /\ x[i] < Of(p, name).origin[i] + Of(p, name).size[i]
    BY <2>1, PartType, PointsOf
  <2>3. \A name, z : z \in Holders(name, l, r) <=> \E p \in Procs : \E x \in points(Of(p, name)) : z = <<p, x>>
    BY DEF Holders
  <2> HIDE DEF Of
  <2>4. ASSUME NEW p \in Procs, NEW x \in points(Of(p, "overlapfront"))
        PROVE  \E q \in Procs : \E y \in points(Of(q, "interiorborder")) : Same(x, y, l)
    <3> DEFINE good(i, c, y) ==
                 /\ IF i \in args.periodic THEN (x[i] - y) % levelSize(l)[i] = 0 ELSE x[i] = y
                 /\ piece(dims[i], c, 0, args.size[i]).origin * twice[l] <= y
                 /\ y < (piece(dims[i], c, 0, args.size[i]).origin
                         + piece(dims[i], c, 0, args.size[i]).size) * twice[l] + half(r)[i]
    <3>1. ASSUME NEW i \in Dir PROVE \E c \in 0..dims[i]-1, y \in Int : good(i, c, y)
      <4> DEFINE ov == level[p][l].overlap
      <4>1. ov \in Nat /\ ov <= args.overlap * twice[l]
        BY <2>1 DEF LevelInv, YGridLevels
      <4>2. /\ half(r)[i] \in {0, 1} /\ x[i] \in Int
            /\ x[i] >= IF begins(p, i) THEN 0 ELSE lower(p, i, l) - ov
            /\ x[i] < IF ends(p, i) THEN upper(p, i, l) + half(r)[i] ELSE upper(p, i, l) + ov + half(r)[i]
        <5>1. /\ x[i] \in Int /\ x[i] >= Of(p, "overlapfront").origin[i]
              /\ x[i] < Of(p, "overlapfront").origin[i] + Of(p, "overlapfront").size[i]
          BY <2>2 DEF PartNames
        <5>2. QED BY <5>1, <2>1, PartRanges DEF Of
      <4> HIDE DEF ov
      <4>3. QED BY <2>1, <4>1, <4>2, OwnerInDirection
    <3> DEFINE c == [i \in Dir |-> CHOOSE d \in 0..dims[i]-1 : \E y \in Int : good(i, d, y)]
               y == [i \in Dir |-> CHOOSE k \in Int : good(i, c[i], k)]
    <3>2. ASSUME NEW i \in Dir PROVE c[i] \in 0..dims[i]-1 /\ y[i] \in Int /\ good(i, c[i], y[i])
      <4> HIDE DEF good
      <4>1. c[i] \in 0..dims[i]-1 /\ \E k \in Int : good(i, c[i], k)
        BY <3>1
      <4>2. QED BY <4>1
    <3>3. y \in [Dir -> Int]
      BY <3>2
    <3> HIDE DEF c, y
    <3>4. PICK q \in Procs : \A i \in Dir : at(q, i) = c[i]
      BY <2>1, <3>2, ProcessAt DEF Accepted
    <3>5. ASSUME NEW i \in Dir
          PROVE  /\ y[i] >= Of(q, "interiorborder").origin[i]
                 /\ y[i] < Of(q, "interiorborder").origin[i] + Of(q, "interiorborder").size[i]
      <4>1. mine(q)[i] = piece(dims[i], c[i], 0, args.size[i])
        BY <2>1, <3>4, ByCoordinate DEF Accepted
      <4>2. lower(q, i, l) <= y[i] /\ y[i] < upper(q, i, l) + half(r)[i]
        BY <3>2, <4>1 DEF lower, upper
      <4>3. /\ Of(q, "interiorborder").origin[i] = lower(q, i, l)
            /\ Of(q, "interiorborder").origin[i] + Of(q, "interiorborder").size[i] = upper(q, i, l) + half(r)[i]
        BY <2>1, PartRanges DEF Of
      <4>4. lower(q, i, l) \in Int
        BY <2>1, BoundsType
      <4>5. QED BY <3>2, <4>2, <4>3, <4>4
    <3>6. y \in points(Of(q, "interiorborder"))
      BY <2>2, <3>3, <3>5 DEF PartNames
    <3>7. Same(x, y, l)
      BY <3>2 DEF Same
    <3>8. QED BY <3>6, <3>7
  <2>5. ASSUME NEW p \in Procs, NEW x \in points(Of(p, "interior")),
               NEW q \in Procs, NEW y \in points(Of(q, "interiorborder")), Same(x, y, l)
        PROVE  p = q /\ x = y
    <3>1. x \in [Dir -> Int] /\ y \in [Dir -> Int]
      BY <2>2 DEF PartNames
    <3>2. ASSUME NEW i \in Dir PROVE at(p, i) = at(q, i) /\ x[i] = y[i]
      <4>1. /\ x[i] \in Int /\ y[i] \in Int
            /\ x[i] >= Of(p, "interior").origin[i]
            /\ x[i] < Of(p, "interior").origin[i] + Of(p, "interior").size[i]
            /\ y[i] >= Of(q, "interiorborder").origin[i]
            /\ y[i] < Of(q, "interiorborder").origin[i] + Of(q, "interiorborder").size[i]
        BY <2>2, <3>1 DEF PartNames
      <4>2. /\ half(r)[i] \in {0, 1}
            /\ Of(p, "interior").origin[i] = lower(p, i, l) + (IF i \in level[p][l].low THEN half(r)[i] ELSE 0)
            /\ Of(p, "interior").origin[i] + Of(p, "interior").size[i] =
                 IF ends(p, i) THEN upper(p, i, l) + half(r)[i] ELSE upper(p, i, l)
        BY <2>1, PartRanges DEF Of
      <4>3. /\ Of(q, "interiorborder").origin[i] = lower(q, i, l)
            /\ Of(q, "interiorborder").origin[i] + Of(q, "interiorborder").size[i] = upper(q, i, l) + half(r)[i]
        BY <2>1, PartRanges DEF Of
      <4>4. ~begins(p, i) => i \in level[p][l].low
        BY <2>1 DEF LevelInv, WithOverlap
      <4>5. lower(p, i, l) \in Int
        BY <2>1, BoundsType
      <4>6. x[i] >= lower(p, i, l) + (IF begins(p, i) THEN 0 ELSE half(r)[i])
        BY <4>1, <4>2, <4>4, <4>5
      <4>7. IF i \in args.periodic THEN (x[i] - y[i]) % levelSize(l)[i] = 0 ELSE x[i] = y[i]
        BY <2>5 DEF Same
      <4>8. /\ x[i] < IF ends(p, i) THEN upper(p, i, l) + half(r)[i] ELSE upper(p, i, l)
            /\ y[i] >= lower(q, i, l) /\ y[i] < upper(q, i, l) + half(r)[i]
        BY <4>1, <4>2, <4>3
      <4>9. QED BY <2>1, <4>1, <4>2, <4>6, <4>7, <4>8, OneOwner
    <3>3. p = q
      BY <2>1, <3>2, SameProcess DEF Accepted
    <3>4. QED BY <3>1, <3>2, <3>3
  <2>6. \A z \in Holders("overlapfront", l, r) : \E k \in Holders("interiorborder", l, r) : Same(z[2], k[2], l)
    <3>1. SUFFICES ASSUME NEW z \in Holders("overlapfront", l, r)
                   PROVE  \E k \in Holders("interiorborder", l, r) : Same(z[2], k[2], l)
      OBVIOUS
    <3>2. PICK p \in Procs : \E x \in points(Of(p, "overlapfront")) : z = <<p, x>>
      BY <2>3
    <3>3. PICK x \in points(Of(p, "overlapfront")) : z = <<p, x>>
      BY <3>2
    <3>4. PICK q \in Procs : \E y \in points(Of(q, "interiorborder")) : Same(x, y, l)
      BY <2>4
    <3>5. PICK y \in points(Of(q, "interiorborder")) : Same(x, y, l)
      BY <3>4
    <3> DEFINE k == <<q, y>>
    <3>6. k \in Holders("interiorborder", l, r) /\ z[2] = x /\ k[2] = y
      BY <2>3, <3>3
    <3> HIDE DEF k
    <3>7. QED BY <3>5, <3>6
  <2>7. \A z \in Holders("interior", l, r) : \A k \in Holders("interiorborder", l, r) :
          Same(z[2], k[2], l) => z = k
    BY <2>3, <2>5
  <2>8. QED BY <2>6, <2>7
<1>2. QED BY <1>1, Typed, OverlapAlways, PTL

-----------------------------------------------------------------------------
(* The overlap of a level is that of the coarser one, counted in the cells *)
(* of either level, and never vanishes.                                    *)
Widths(s) ==
  \A l \in 1..Len(s) :
    /\ args.overlap > 0 => s[l].overlap > 0
    /\ l > 1 => s[l].overlap \in {s[l-1].overlap, 2 * s[l-1].overlap}

WidthInv == \A p \in Procs : Widths(level[p])

LEMMA WidthsKept ==
  ASSUME TypeInv, WidthInv, UNCHANGED args,
         \A q \in Procs : \A l \in 1..Len(level'[q]) :
           l \in 1..Len(level[q]) /\ level'[q][l].overlap = level[q][l].overlap
  PROVE  WidthInv'
<1>1. Procs' = Procs
  BY DEF Procs
<1>2. ASSUME NEW q \in Procs, NEW l \in 1..Len(level'[q])
      PROVE  /\ args.overlap > 0 => level'[q][l].overlap > 0
             /\ l > 1 => level'[q][l].overlap \in {level'[q][l-1].overlap, 2 * level'[q][l-1].overlap}
  <2>1. Widths(level[q]) /\ l \in 1..Len(level[q]) /\ level'[q][l].overlap = level[q][l].overlap
    BY DEF WidthInv
  <2>2. l > 1 => l-1 \in 1..Len(level'[q])
    <3>1. l \in Int /\ l >= 1 /\ l <= Len(level'[q])
      BY <2>1
    <3>2. CASE Len(level'[q]) \in Int
      BY <3>1, <3>2
    <3>3. QED BY <3>1, <3>2
  <2>3. QED BY <2>1, <2>2 DEF Widths
<1>3. QED BY <1>1, <1>2 DEF WidthInv, Widths

LEMMA WidthsPublished ==
  ASSUME TypeInv, WidthInv, UNCHANGED args, NEW p \in Procs, NEW g, Publish(p, g),
         args.overlap > 0 => g.overlap > 0,
         level[p] # <<>> =>
           g.overlap \in {level[p][Len(level[p])].overlap, 2 * level[p][Len(level[p])].overlap}
  PROVE  WidthInv'
<1>1. Procs' = Procs
  BY DEF Procs
<1>2. level \in [Procs -> Seq(YGridLevels)] /\ level' = [level EXCEPT ![p] = Append(level[p], g)]
  BY DEF TypeInv, Publish
<1>3. ASSUME NEW q \in Procs, NEW l \in 1..Len(level'[q])
      PROVE  /\ args.overlap > 0 => level'[q][l].overlap > 0
             /\ l > 1 => level'[q][l].overlap \in {level'[q][l-1].overlap, 2 * level'[q][l-1].overlap}
  <2>1. CASE q = p
    <3> DEFINE s == level[p]
    <3>1. s \in Seq(YGridLevels) /\ level'[q] = Append(s, g)
      BY <1>2, <2>1
    <3>2. Widths(s)
      BY DEF WidthInv
    <3>3. s # <<>> => g.overlap \in {s[Len(s)].overlap, 2 * s[Len(s)].overlap}
      OBVIOUS
    <3> HIDE DEF s
    <3>4. l \in 1..Len(s) + 1 /\ Len(s) \in Nat
      BY <3>1
    <3>5. CASE l = Len(s) + 1
      <4>1. level'[q][l] = g
        BY <3>1, <3>5
      <4>2. ASSUME l > 1 PROVE s # <<>> /\ l-1 = Len(s) /\ level'[q][l-1] = s[Len(s)]
        BY <4>2, <3>1, <3>4, <3>5
      <4>3. QED BY <4>1, <4>2, <3>3
    <3>6. CASE l # Len(s) + 1
      <4>1. l \in 1..Len(s) /\ level'[q][l] = s[l]
        BY <3>1, <3>4, <3>6
      <4>2. l > 1 => level'[q][l-1] = s[l-1]
        BY <4>1, <3>1, <3>4
      <4>3. QED BY <4>1, <4>2, <3>2 DEF Widths
    <3>7. QED BY <3>5, <3>6
  <2>2. CASE q # p
    <3>1. level'[q] = level[q]
      BY <1>2, <2>2
    <3>2. QED BY <3>1, <1>3 DEF WidthInv, Widths
  <2>3. QED BY <2>1, <2>2
<1>4. QED BY <1>1, <1>3 DEF WidthInv, Widths

LEMMA WidthStep ==
  ASSUME TypeInv, WidthInv, [Next]_vars
  PROVE  WidthInv'
<1>1. ASSUME UNCHANGED <<args, level>> PROVE WidthInv'
  BY <1>1, WidthsKept
<1>2. ASSUME NEW p \in Procs, Construct(p) PROVE WidthInv'
  <2> DEFINE g == makelevel(1, container(p), [i \in Dir |-> mine(p)[i].origin],
                            args.overlap, keep_ovlp[p])
  <2>1. UNCHANGED args /\ phase[p] = "start"
    BY <1>2 DEF Construct
  <2>2. CASE dims = NoDims \/ tooSmall(p)
    BY <1>2, <2>1, <2>2, <1>1 DEF Construct
  <2>3. CASE ~ (dims = NoDims \/ tooSmall(p))
    <3>1. Publish(p, g)
      BY <1>2, <2>3 DEF Construct
    <3>2. g.overlap = args.overlap
      BY DEF makelevel
    <3>3. level[p] = <<>>
      <4>1. published[p] = <<>> /\ Len(published[p]) >= Len(level[p]) /\ level[p] \in Seq(YGridLevels)
        BY <2>1 DEF TypeInv
      <4>2. QED BY <4>1
    <3> HIDE DEF g
    <3>4. QED BY <2>1, <3>1, <3>2, <3>3, WidthsPublished
  <2>4. QED BY <2>2, <2>3
<1>3. ASSUME NEW p \in Procs, Refine(p) PROVE WidthInv'
  <2> DEFINE l  == Len(level[p])
             cg == level[p][l]
             keep == keep_ovlp[p]
             low == {i \in Dir : overlap(cg, Dir).origin[i] > 0} \cup args.periodic
             up  == {i \in Dir : last(overlap(cg, Dir), i) + 1 < levelSize(l)[i]} \cup args.periodic
             g == makelevel(l+1, refine_size(cg, low, up, keep),
                            [i \in Dir |-> 2 * interior(cg, Dir).origin[i]],
                            (IF keep THEN 2 ELSE 1) * cg.overlap, keep)
  <2>1. phase[p] = "ready" /\ Publish(p, g) /\ UNCHANGED args
    BY <1>3 DEF Refine, maxLevel
  <2>2. l \in Nat \ {0} /\ cg \in YGridLevels /\ l \in 1..Len(level[p])
    BY <2>1 DEF TypeInv
  <2>3. g.overlap = (IF keep THEN 2 ELSE 1) * cg.overlap
    BY DEF makelevel
  <2>4. cg.overlap \in Nat /\ (args.overlap > 0 => cg.overlap > 0)
    BY <2>2 DEF YGridLevels, WidthInv, Widths
  <2> HIDE DEF g
  <2>5. g.overlap \in {cg.overlap, 2 * cg.overlap} /\ (args.overlap > 0 => g.overlap > 0)
    <3> HIDE DEF cg
    <3>1. QED BY <2>3, <2>4
  <2>6. QED BY <2>1, <2>5, WidthsPublished
<1>4. ASSUME NEW p \in Procs, Intersect(p) PROVE WidthInv'
  <2> DEFINE n == Len(published[p])
             l == Len(level[p])
             h == intersections(p, level[p][l], [q \in Partners(p) |-> published[q][n]], l)
  <2>1. /\ phase[p] = "exchange" /\ \A q \in Partners(p) : Len(published[q]) >= n
        /\ level' = [level EXCEPT ![p][l] = h] /\ UNCHANGED args
    BY <1>4 DEF Intersect, maxLevel
  <2>2. l \in Nat \ {0} /\ level[p][l] \in YGridLevels
    BY <2>1, Arrived
  <2>3. h.overlap = level[p][l].overlap
    <3> DEFINE g == level[p][l]
    <3>1. g = [origin |-> g.origin, size |-> g.size, low |-> g.low, up |-> g.up,
               overlap |-> g.overlap, keepOverlap |-> g.keepOverlap, send |-> g.send, recv |-> g.recv]
      BY <2>2 DEF YGridLevels
    <3> HIDE DEF g
    <3>2. QED BY <3>1 DEF intersections
  <2> HIDE DEF h
  <2>4. level' = [level EXCEPT ![p] = [level[p] EXCEPT ![l] = h]]
    BY <2>1
  <2>5. ASSUME NEW q \in Procs, NEW k \in 1..Len(level'[q])
        PROVE  k \in 1..Len(level[q]) /\ level'[q][k].overlap = level[q][k].overlap
    <3>1. CASE q = p
      <4> DEFINE s == level[p]
      <4>1. s \in Seq(YGridLevels) /\ level'[q] = [s EXCEPT ![l] = h] /\ l \in 1..Len(s)
        BY <3>1, <2>2, <2>4 DEF TypeInv
      <4>2. h.overlap = s[l].overlap
        BY <2>3
      <4> HIDE DEF s, l
      <4>3. Len(level'[q]) = Len(s) /\ level'[q][k] = IF k = l THEN h ELSE s[k]
        BY <4>1
      <4>4. level'[q][k].overlap = s[k].overlap
        BY <4>2, <4>3
      <4>5. QED BY <4>3, <4>4, <3>1 DEF s
    <3>2. CASE q # p
      <4>1. level'[q] = level[q]
        BY <2>4, <3>2 DEF TypeInv
      <4>2. QED BY <4>1
    <3>3. QED BY <3>1, <3>2
  <2>6. QED BY <2>1, <2>5, WidthsKept
<1>5. ASSUME NEW p \in Procs, Coarsen(p) PROVE WidthInv'
  <2>1. PICK refCount \in {k \in Counts : k < 0} :
          /\ level' = IF -refCount < maxLevel(p)
                      THEN [level EXCEPT ![p] = SubSeq(@, 1, maxLevel(p) + refCount)]
                      ELSE level
          /\ UNCHANGED args
    BY <1>5 DEF Coarsen
  <2>2. /\ level' \in [Procs -> Seq(YGridLevels)]
        /\ \A q \in Procs : /\ Len(level'[q]) <= Len(level[q])
                            /\ \A l \in 1..Len(level'[q]) : level'[q][l] = level[q][l]
    BY <2>1, CoarsenFacts
  <2>3. ASSUME NEW q \in Procs, NEW k \in 1..Len(level'[q])
        PROVE  k \in 1..Len(level[q]) /\ level'[q][k].overlap = level[q][k].overlap
    <3>1. Len(level[q]) \in Nat /\ Len(level'[q]) \in Nat /\ Len(level'[q]) <= Len(level[q])
      BY <2>2 DEF TypeInv
    <3>2. k \in 1..Len(level[q])
      BY <3>1
    <3>3. QED BY <3>2, <2>2
  <2>4. QED BY <2>1, <2>3, WidthsKept
<1>6. ASSUME NEW p \in Procs, RefineOptions(p) \/ BeginRefine(p) PROVE WidthInv'
  BY <1>6, <1>1 DEF RefineOptions, BeginRefine
<1>7. CASE UNCHANGED vars
  BY <1>7, <1>1 DEF vars
<1>8. QED BY <1>2, <1>3, <1>4, <1>5, <1>6, <1>7 DEF Next, Inside, Stopped

LEMMA WidthAlways == Spec => []WidthInv
<1>1. Init => WidthInv
  <2> SUFFICES ASSUME Init, NEW p \in Procs PROVE level[p] = <<>>
    BY DEF WidthInv, Widths
  <2>1. QED BY DEF Init
<1>2. TypeInv /\ WidthInv /\ [Next]_vars => WidthInv'
  BY WidthStep
<1>3. QED BY <1>1, <1>2, Typed, PTL DEF Spec

-----------------------------------------------------------------------------
(* The cells of a level in one direction. *)
LEMMA CellRange ==
  ASSUME Config, Accepted, NEW p \in Procs, NEW l \in Nat \ {0}, NEW g \in YGridLevels,
         LevelInv(p, g, l), NEW x
  PROVE  /\ x \in points(overlapfront(g, Dir)) <=>
              /\ x \in [Dir -> Int]
              /\ \A i \in Dir : /\ x[i] >= IF begins(p, i) THEN 0 ELSE lower(p, i, l) - g.overlap
                                /\ x[i] < IF ends(p, i) THEN upper(p, i, l) ELSE upper(p, i, l) + g.overlap
         /\ x \in points(interior(g, Dir)) <=>
              /\ x \in [Dir -> Int]
              /\ \A i \in Dir : x[i] >= lower(p, i, l) /\ x[i] < upper(p, i, l)
<1>1. Dir \in Shifts /\ \A i \in Dir : half(Dir)[i] = 0
  BY DEF Shifts, half
<1>2. ASSUME NEW i \in Dir
      PROVE  /\ lower(p, i, l) \in Nat /\ upper(p, i, l) \in Nat
             /\ g.overlap \in Nat /\ g.overlap <= args.overlap * twice[l]
  <2>1. g.overlap \in Nat /\ g.overlap <= args.overlap * twice[l]
    BY DEF LevelInv, YGridLevels
  <2>2. QED BY <2>1, RoomOnLevel
<1>3. part("overlapfront", g, Dir) = overlapfront(g, Dir) /\ part("interior", g, Dir) = interior(g, Dir)
  BY DEF part
<1>4. overlapfront(g, Dir) \in Grids /\ interior(g, Dir) \in Grids
  BY <1>1, <1>3, PartType DEF PartNames
<1>5. ASSUME NEW i \in Dir
      PROVE  /\ overlapfront(g, Dir).origin[i] = IF begins(p, i) THEN 0 ELSE lower(p, i, l) - g.overlap
             /\ overlapfront(g, Dir).origin[i] + overlapfront(g, Dir).size[i]
                  = IF ends(p, i) THEN upper(p, i, l) ELSE upper(p, i, l) + g.overlap
             /\ interior(g, Dir).origin[i] = lower(p, i, l)
             /\ interior(g, Dir).origin[i] + interior(g, Dir).size[i] = upper(p, i, l)
  <2>1. /\ overlapfront(g, Dir).origin[i] = IF begins(p, i) THEN 0 ELSE lower(p, i, l) - g.overlap
        /\ overlapfront(g, Dir).origin[i] + overlapfront(g, Dir).size[i]
             = IF ends(p, i) THEN upper(p, i, l) + 0 ELSE upper(p, i, l) + g.overlap + 0
        /\ interior(g, Dir).origin[i] = lower(p, i, l) + (IF i \in g.low THEN 0 ELSE 0)
        /\ interior(g, Dir).origin[i] + interior(g, Dir).size[i]
             = IF ends(p, i) THEN upper(p, i, l) + 0 ELSE upper(p, i, l)
    BY <1>1, <1>3, PartRanges
  <2>2. QED BY <2>1, <1>2
<1>6. QED BY <1>4, <1>5, PointsOf

(* The grid the sons are looked up in has the same points. *)
LEMMA OverlapContains ==
  ASSUME NEW g \in YGridLevels, NEW x \in [Dir -> Int]
  PROVE  contains(overlap(g, Dir), x) <=> x \in points(overlapfront(g, Dir))
<1>1. /\ g.origin \in [Dir -> Int] /\ g.size \in [Dir -> Int]
      /\ half(Dir) = [j \in Dir |-> 0]
  BY DEF YGridLevels, half
<1>2. overlapfront(g, Dir) \in Grids
  <2>1. overlapfront(g, Dir) = [origin |-> g.origin, size |-> [i \in Dir |-> g.size[i] + 0]]
    BY <1>1 DEF overlapfront, ygrid
  <2>2. QED BY <1>1, <2>1 DEF Grids
<1>3. \A i \in Dir : /\ overlapfront(g, Dir).origin[i] = g.origin[i]
                     /\ overlapfront(g, Dir).size[i] = g.size[i]
                     /\ overlap(g, Dir).origin[i] = g.origin[i]
                     /\ overlap(g, Dir).size[i] = g.size[i]
  BY <1>1 DEF overlap, overlapfront, cut, ygrid
<1>4. dirs(overlap(g, Dir)) = Dir
  BY DEF overlap, cut, ygrid, dirs
<1>5. contains(overlap(g, Dir), x) <=> \A i \in Dir : x[i] >= g.origin[i] /\ x[i] < g.origin[i] + g.size[i]
  BY <1>3, <1>4 DEF contains
<1>6. QED BY <1>2, <1>3, <1>5, PointsOf

(* Two levels, one above the other. *)
LEMMA Finer ==
  ASSUME TypeInv, OverlapInv, WidthInv, args.ctor # "deprecated", Settled,
         NEW p \in Procs, NEW l \in 1..maxLevel(p)
  PROVE  /\ Config /\ Accepted /\ l \in Nat \ {0}
         /\ level[p][l] \in YGridLevels /\ LevelInv(p, level[p][l], l)
         /\ args.overlap > 0 => level[p][l].overlap > 0
         /\ l # maxLevel(p) =>
              /\ l + 1 \in 1..maxLevel(p)
              /\ level[p][l+1].overlap \in {level[p][l].overlap, 2 * level[p][l].overlap}
<1>1. Config /\ Accepted
  <2>1. \A q \in Procs : phase[q] = "ready"
    BY DEF Settled, Together, Ready
  <2>2. 0 \in Procs
    BY ConfigFacts DEF TypeInv, Procs
  <2>3. QED BY <2>1, <2>2 DEF TypeInv, Accepted
<1>2. Len(level[p]) \in Nat /\ l \in Nat \ {0} /\ l \in 1..Len(level[p])
  BY DEF TypeInv, maxLevel
<1>3. level[p][l] \in YGridLevels /\ LevelInv(p, level[p][l], l)
  BY <1>1, <1>2 DEF TypeInv, OverlapInv
<1>4. args.overlap > 0 => level[p][l].overlap > 0
  BY <1>2 DEF WidthInv, Widths
<1>5. ASSUME l # maxLevel(p)
      PROVE  /\ l + 1 \in 1..maxLevel(p)
             /\ level[p][l+1].overlap \in {level[p][l].overlap, 2 * level[p][l].overlap}
  <2>1. l + 1 \in 1..Len(level[p]) /\ l + 1 > 1 /\ (l + 1) - 1 = l
    BY <1>2, <1>5 DEF maxLevel
  <2>2. QED BY <2>1 DEF WidthInv, Widths, maxLevel
<1>6. QED BY <1>1, <1>2, <1>3, <1>4, <1>5

(* In one direction: half of a number lies in the coarse range if the      *)
(* number lies in the fine one.                                            *)
LEMMA HalfInRange ==
  ASSUME NEW a \in Int, NEW b \in Int, NEW o \in Nat, NEW w \in {o, 2 * o}, NEW c \in Int,
         NEW A \in BOOLEAN, NEW B \in BOOLEAN,
         c >= (IF A THEN 0 ELSE 2 * a - w), c < (IF B THEN 2 * b ELSE 2 * b + w)
  PROVE  /\ c \div 2 \in Int /\ (c % 2) \in {0, 1} /\ c = 2 * (c \div 2) + (c % 2)
         /\ c \div 2 >= (IF A THEN 0 ELSE a - o)
         /\ c \div 2 < (IF B THEN b ELSE b + o)
<1>1. c \div 2 \in Int /\ (c % 2) \in {0, 1} /\ c = 2 * (c \div 2) + (c % 2)
  OBVIOUS
<1> DEFINE d == c \div 2
           e == c % 2
<1> HIDE DEF d, e
<1>2. d \in Int /\ e \in {0, 1} /\ c = 2 * d + e
  BY <1>1 DEF d, e
<1>3. w \in Int /\ w <= 2 * o
  OBVIOUS
<1>4. d >= (IF A THEN 0 ELSE a - o)
  BY <1>2, <1>3
<1>5. d < (IF B THEN b ELSE b + o)
  BY <1>2, <1>3
<1>6. QED BY <1>1, <1>4, <1>5 DEF d

(* The sons of the cells of a level are the cells of the next, each the    *)
(* son of one; the father of a son is the cell itself.                     *)
THEOREM Sons == Spec => [](args.ctor # "deprecated" => SonsPartition)
<1>1. TypeInv /\ OverlapInv /\ WidthInv => (args.ctor # "deprecated" => SonsPartition)
  <2> SUFFICES ASSUME TypeInv, OverlapInv, WidthInv, args.ctor # "deprecated", Settled,
                      NEW p \in Procs, NEW l \in 1..maxLevel(p)-1
               PROVE  /\ UNION {sons(p, l, x) : x \in Cells(p, l)} = Cells(p, l+1)
                      /\ \A x \in Cells(p, l) : \A c \in sons(p, l, x) :
                           (\A i \in Dir : c[i] >= 0) => father(c) = x
    BY DEF SonsPartition
  <2> DEFINE g == level[p][l]
             h == level[p][l+1]
  <2>1. maxLevel(p) \in Nat
    BY DEF maxLevel, TypeInv
  <2>2. l \in 1..maxLevel(p) /\ l # maxLevel(p) /\ l + 1 \in 1..maxLevel(p)
    BY <2>1
  <2>3. /\ Config /\ Accepted /\ l \in Nat \ {0} /\ l + 1 \in Nat \ {0}
        /\ g \in YGridLevels /\ LevelInv(p, g, l)
        /\ h \in YGridLevels /\ LevelInv(p, h, l+1)
        /\ h.overlap \in {g.overlap, 2 * g.overlap}
    BY <2>2, Finer
  <2>4. ASSUME NEW i \in Dir
        PROVE  /\ lower(p, i, l) \in Nat /\ upper(p, i, l) \in Nat /\ g.overlap \in Nat
               /\ lower(p, i, l+1) = 2 * lower(p, i, l) /\ upper(p, i, l+1) = 2 * upper(p, i, l)
    <3>1. g.overlap \in Nat /\ g.overlap <= args.overlap * twice[l]
      BY <2>3 DEF LevelInv, YGridLevels
    <3>2. lower(p, i, l) \in Nat /\ upper(p, i, l) \in Nat
      BY <2>3, <3>1, RoomOnLevel
    <3>3. twice[l] \in Nat /\ twice[l+1] = 2 * twice[l]
      BY <2>3, Twice
    <3>4. mine(p)[i].origin \in Int /\ mine(p)[i].size \in Int
      BY <2>3, MyPiece DEF Accepted
    <3>5. QED BY <3>1, <3>2, <3>3, <3>4 DEF lower, upper
  <2>5. ASSUME NEW c
        PROVE  /\ c \in Cells(p, l) <=>
                    /\ c \in [Dir -> Int]
                    /\ \A i \in Dir : /\ c[i] >= IF begins(p, i) THEN 0 ELSE lower(p, i, l) - g.overlap
                                      /\ c[i] < IF ends(p, i) THEN upper(p, i, l) ELSE upper(p, i, l) + g.overlap
               /\ c \in Cells(p, l+1) <=>
                    /\ c \in [Dir -> Int]
                    /\ \A i \in Dir : /\ c[i] >= IF begins(p, i) THEN 0 ELSE 2 * lower(p, i, l) - h.overlap
                                      /\ c[i] < IF ends(p, i) THEN 2 * upper(p, i, l) ELSE 2 * upper(p, i, l) + h.overlap
    <3>1. Cells(p, l) = points(overlapfront(g, Dir)) /\ Cells(p, l+1) = points(overlapfront(h, Dir))
      BY DEF Cells, Held
    <3> HIDE DEF g, h
    <3>2. c \in points(overlapfront(g, Dir)) <=>
            /\ c \in [Dir -> Int]
            /\ \A i \in Dir : /\ c[i] >= IF begins(p, i) THEN 0 ELSE lower(p, i, l) - g.overlap
                              /\ c[i] < IF ends(p, i) THEN upper(p, i, l) ELSE upper(p, i, l) + g.overlap
      BY <2>3, CellRange
    <3>3. c \in points(overlapfront(h, Dir)) <=>
            /\ c \in [Dir -> Int]
            /\ \A i \in Dir : /\ c[i] >= IF begins(p, i) THEN 0 ELSE lower(p, i, l+1) - h.overlap
                              /\ c[i] < IF ends(p, i) THEN upper(p, i, l+1) ELSE upper(p, i, l+1) + h.overlap
      BY <2>3, CellRange
    <3>4. QED BY <3>1, <3>2, <3>3, <2>4
  <2>6. ASSUME NEW c \in [Dir -> Int]
        PROVE  contains(overlap(h, Dir), c) <=> c \in Cells(p, l+1)
    BY <2>3, OverlapContains DEF Cells, Held
  <2>7. \A x, c : c \in sons(p, l, x) <=> /\ \E s \in [Dir -> {0, 1}] : c = [k \in Dir |-> 2 * x[k] + s[k]]
                                          /\ contains(overlap(h, Dir), c)
    BY DEF sons
  <2> HIDE DEF g, h
  <2>8. ASSUME NEW x \in Cells(p, l), NEW c \in sons(p, l, x)
        PROVE  /\ c \in Cells(p, l+1)
               /\ (\A i \in Dir : c[i] >= 0) => father(c) = x
    <3>1. PICK s \in [Dir -> {0, 1}] : c = [k \in Dir |-> 2 * x[k] + s[k]]
      BY <2>7
    <3>2. x \in [Dir -> Int]
      BY <2>5
    <3>3. \A k \in Dir : x[k] \in Int /\ s[k] \in {0, 1} /\ c[k] = 2 * x[k] + s[k] /\ c[k] \in Int
      BY <3>1, <3>2
    <3>4. c \in [Dir -> Int]
      BY <3>1, <3>3
    <3>5. c \in Cells(p, l+1)
      BY <3>4, <2>6, <2>7
    <3>6. ASSUME \A i \in Dir : c[i] >= 0 PROVE father(c) = x
      <4>1. ASSUME NEW i \in Dir PROVE tozero(c[i], 2) = x[i]
        <5>1. tozero(c[i], 2) = c[i] \div 2
          BY <3>6 DEF tozero
        <5> DEFINE m == c[i]
                   n == x[i]
                   e == s[i]
        <5>2. n \in Int /\ e \in {0, 1} /\ m = 2 * n + e
          BY <3>3
        <5> HIDE DEF m, n, e
        <5>3. m \div 2 = n
          BY <5>2
        <5>4. QED BY <5>1, <5>3 DEF m, n
      <4>2. QED BY <4>1, <3>2 DEF father
    <3>7. QED BY <3>5, <3>6
  <2>9. ASSUME NEW c \in Cells(p, l+1)
        PROVE  \E x \in Cells(p, l) : c \in sons(p, l, x)
    <3> DEFINE x == [k \in Dir |-> c[k] \div 2]
               s == [k \in Dir |-> c[k] % 2]
    <3>1. c \in [Dir -> Int]
      BY <2>5
    <3>2. ASSUME NEW i \in Dir
          PROVE  /\ c[i] \div 2 \in Int /\ (c[i] % 2) \in {0, 1} /\ c[i] = 2 * (c[i] \div 2) + (c[i] % 2)
                 /\ c[i] \div 2 >= IF begins(p, i) THEN 0 ELSE lower(p, i, l) - g.overlap
                 /\ c[i] \div 2 < IF ends(p, i) THEN upper(p, i, l) ELSE upper(p, i, l) + g.overlap
      <4> DEFINE a == lower(p, i, l)
                 b == upper(p, i, l)
                 A == begins(p, i)
                 B == ends(p, i)
                 y == c[i]
                 o == g.overlap
                 w == h.overlap
      <4>1. /\ a \in Int /\ b \in Int /\ o \in Nat /\ w \in {o, 2 * o} /\ y \in Int
            /\ A \in BOOLEAN /\ B \in BOOLEAN
        BY <2>3, <2>4, <3>1 DEF begins, ends
      <4>2. y >= (IF A THEN 0 ELSE 2 * a - w) /\ y < (IF B THEN 2 * b ELSE 2 * b + w)
        BY <2>5
      <4> HIDE DEF a, b, A, B, y, o, w
      <4>3. /\ y \div 2 \in Int /\ (y % 2) \in {0, 1} /\ y = 2 * (y \div 2) + (y % 2)
            /\ y \div 2 >= (IF A THEN 0 ELSE a - o)
            /\ y \div 2 < (IF B THEN b ELSE b + o)
        BY <4>1, <4>2, HalfInRange
      <4>4. QED BY <4>3 DEF a, b, A, B, y, o
    <3>3. x \in [Dir -> Int] /\ s \in [Dir -> {0, 1}]
      BY <3>2
    <3>4. x \in Cells(p, l)
      BY <2>5, <3>2, <3>3
    <3>5. c = [k \in Dir |-> 2 * x[k] + s[k]]
      BY <3>1, <3>2
    <3>6. contains(overlap(h, Dir), c)
      BY <3>1, <2>6
    <3> HIDE DEF x, s
    <3>7. QED BY <2>7, <3>3, <3>4, <3>5, <3>6
  <2>10. QED BY <2>8, <2>9
<1>2. QED BY <1>1, Typed, OverlapAlways, WidthAlways, PTL

-----------------------------------------------------------------------------
(* Through every face of a cell there is a neighbour exactly if the        *)
(* process holds it; an interior cell has the boundary or a neighbour at   *)
(* every face, never both, once there is an overlap: on every level, which *)
(* may be made with or without keeping the width of the overlap.           *)
THEOREM FacesHaveNeighbors == Spec => [](args.ctor # "deprecated" => FacesComplete)
<1>1. TypeInv /\ OverlapInv /\ WidthInv => (args.ctor # "deprecated" => FacesComplete)
  <2> SUFFICES ASSUME TypeInv, OverlapInv, WidthInv, args.ctor # "deprecated", Settled,
                      NEW p \in Procs, NEW l \in Levels(p), NEW f \in Faces
               PROVE  LET g == level[p][l]
                      IN  /\ \A x \in Cells(p, l) :
                                neighbor(g, x, f) <=> outside_cell(x, f) \in Cells(p, l)
                          /\ args.overlap > 0 =>
                               \A x \in points(interior(g, Dir)) : boundary(l, x, f) # neighbor(g, x, f)
    BY DEF FacesComplete
  <2> DEFINE g == level[p][l]
             i == f[1]
             k == f[2]
             a == lower(p, i, l)
             b == upper(p, i, l)
             o == g.overlap
             N == levelSize(l)[i]
             per == i \in args.periodic
             A == begins(p, i)
             B == ends(p, i)
  <2>1. /\ Config /\ Accepted /\ l \in Nat \ {0} /\ g \in YGridLevels /\ LevelInv(p, g, l)
        /\ args.overlap > 0 => g.overlap > 0
    BY Finer DEF Levels
  <2>2. i \in Dir /\ k \in {0, 1} /\ f = <<i, k>>
    BY DEF Faces
  <2>3. /\ o \in Nat /\ a \in Nat /\ b \in Nat /\ N \in Nat /\ a <= b
        /\ A => a = 0 /\ ~per
        /\ ~A /\ ~per => a > o
        /\ B => b = N /\ ~per
        /\ ~B /\ ~per => N - b > o
    <3>1. g.overlap \in Nat /\ g.overlap <= args.overlap * twice[l]
      BY <2>1 DEF LevelInv, YGridLevels
    <3> HIDE DEF i, k
    <3>2. QED BY <2>1, <2>2, <3>1, RoomOnLevel DEF begins, ends
  <2>4. /\ overlap(g, Dir).origin[i] = IF A THEN 0 ELSE a - o
        /\ last(overlap(g, Dir), i) + 1 = IF B THEN b ELSE b + o
    <3>1. /\ overlap(g, Dir).origin[i] = g.origin[i]
          /\ last(overlap(g, Dir), i) = g.origin[i] + g.size[i] - 1
      BY <2>1, <2>2, CellGrids
    <3>2. /\ g.origin[i] = IF A THEN 0 ELSE a - o
          /\ g.origin[i] + g.size[i] = IF B THEN b ELSE b + o
      BY <2>1, <2>2 DEF LevelInv, WithOverlap
    <3>3. g.origin[i] \in Int /\ g.size[i] \in Int
      BY <2>1, <2>2 DEF YGridLevels
    <3> HIDE DEF i, k, a, b, o, A, B
    <3>4. QED BY <3>1, <3>2, <3>3
  <2>5. Cells(p, l) = points(overlapfront(g, Dir))
    BY DEF Cells, Held
  <2>6. \A x : x \in Cells(p, l) <=>
            /\ x \in [Dir -> Int]
            /\ \A j \in Dir : /\ x[j] >= IF begins(p, j) THEN 0 ELSE lower(p, j, l) - g.overlap
                              /\ x[j] < IF ends(p, j) THEN upper(p, j, l) ELSE upper(p, j, l) + g.overlap
    <3> HIDE DEF g
    <3>1. QED BY <2>1, <2>5, CellRange
  <2>7. \A x : x \in points(interior(g, Dir)) =>
            x \in [Dir -> Int] /\ \A j \in Dir : x[j] >= lower(p, j, l) /\ x[j] < upper(p, j, l)
    <3> HIDE DEF g
    <3>1. QED BY <2>1, CellRange
  <2>8. \A x : neighbor(g, x, f) <=> x[i] + k > overlap(g, Dir).origin[i] /\ x[i] + k <= last(overlap(g, Dir), i)
    BY DEF neighbor
  <2>9. last(overlap(g, Dir), i) \in Int
    <3>1. g.origin[i] \in Int /\ g.size[i] \in Int /\ last(overlap(g, Dir), i) = g.origin[i] + g.size[i] - 1
      BY <2>1, <2>2, CellGrids DEF YGridLevels
    <3> HIDE DEF g, i
    <3>2. QED BY <3>1
  <2>10. ASSUME NEW x \in Cells(p, l)
         PROVE  neighbor(g, x, f) <=> outside_cell(x, f) \in Cells(p, l)
    <3> DEFINE z == outside_cell(x, f)
               n == x[i]
    <3>1. x \in [Dir -> Int] /\ n \in Int
      BY <2>2, <2>6
    <3>2. z = [x EXCEPT ![i] = n + 2 * k - 1]
      BY DEF outside_cell
    <3>3. z \in [Dir -> Int] /\ z[i] = n + 2 * k - 1 /\ \A j \in Dir \ {i} : z[j] = x[j]
      <4> HIDE DEF i, k, n, z
      <4>1. n + 2 * k - 1 \in Int
        BY <3>1, <2>2
      <4>2. QED BY <3>1, <3>2, <4>1, <2>2
    <3> HIDE DEF z
    <3>4. z \in Cells(p, l) <=> /\ z[i] >= IF A THEN 0 ELSE a - o
                                /\ z[i] < IF B THEN b ELSE b + o
      BY <2>2, <2>6, <3>3
    <3>5. n >= (IF A THEN 0 ELSE a - o) /\ n < (IF B THEN b ELSE b + o)
      BY <2>2, <2>6
    <3>6. neighbor(g, x, f) <=> n + k > (IF A THEN 0 ELSE a - o) /\ n + k <= last(overlap(g, Dir), i)
      BY <2>8, <2>4
    <3> DEFINE m == last(overlap(g, Dir), i)
    <3>7. m \in Int /\ m + 1 = IF B THEN b ELSE b + o
      BY <2>4, <2>9
    <3>8. CASE k = 0
      <4> HIDE DEF a, b, o, A, B, n, m, i, k
      <4>1. n + k > (IF A THEN 0 ELSE a - o) /\ n + k <= m <=> n > (IF A THEN 0 ELSE a - o)
        BY <2>3, <3>1, <3>5, <3>7, <3>8
      <4>2. z[i] >= (IF A THEN 0 ELSE a - o) /\ z[i] < (IF B THEN b ELSE b + o) <=> n > (IF A THEN 0 ELSE a - o)
        BY <2>3, <3>1, <3>3, <3>5, <3>8
      <4>3. QED BY <3>4, <3>6, <4>1, <4>2 DEF m, z
    <3>9. CASE k = 1
      <4> HIDE DEF a, b, o, A, B, n, m, i, k
      <4>1. n + k > (IF A THEN 0 ELSE a - o) /\ n + k <= m <=> n + 1 < (IF B THEN b ELSE b + o)
        BY <2>3, <3>1, <3>5, <3>7, <3>9
      <4>2. z[i] >= (IF A THEN 0 ELSE a - o) /\ z[i] < (IF B THEN b ELSE b + o) <=> n + 1 < (IF B THEN b ELSE b + o)
        BY <2>3, <3>1, <3>3, <3>5, <3>9
      <4>3. QED BY <3>4, <3>6, <4>1, <4>2 DEF m, z
    <3>10. QED BY <2>2, <3>8, <3>9
  <2>11. ASSUME args.overlap > 0, NEW x \in points(interior(g, Dir))
         PROVE  boundary(l, x, f) # neighbor(g, x, f)
    <3> DEFINE n == x[i]
               m == last(overlap(g, Dir), i)
               bd == ~per /\ n + k \in {0, N}
               nb == n + k > (IF A THEN 0 ELSE a - o) /\ n + k <= m
    <3>1. x \in [Dir -> Int] /\ n \in Int /\ n >= a /\ n < b
      BY <2>2, <2>7
    <3>2. o > 0 /\ m \in Int /\ m + 1 = IF B THEN b ELSE b + o
      BY <2>1, <2>4, <2>9, <2>11
    <3>3. boundary(l, x, f) = bd
      BY DEF boundary
    <3>4. neighbor(g, x, f) = nb
      BY <2>4 DEF neighbor
    <3>5. bd <=> ~nb
      <4> HIDE DEF a, b, o, A, B, n, m, i, k, N, per
      <4>1. CASE k = 0
        BY <4>1, <2>3, <3>1, <3>2
      <4>2. CASE k = 1
        BY <4>2, <2>3, <3>1, <3>2
      <4>3. QED BY <2>2, <4>1, <4>2
    <3>6. bd \in BOOLEAN /\ nb \in BOOLEAN
      OBVIOUS
    <3> HIDE DEF bd, nb
    <3>7. QED BY <3>3, <3>4, <3>5, <3>6
  <2>12. QED BY <2>10, <2>11
<1>2. QED BY <1>1, Typed, OverlapAlways, WidthAlways, PTL

-----------------------------------------------------------------------------
(* The lists of intersections *)

(* s consists of the elements of u at the positions in K, in their order;  *)
(* pos[a] is the position of the a-th.                                     *)
Picks(s, u, pos, K) ==
  /\ pos \in [1..Len(s) -> K]
  /\ \A a, b \in 1..Len(s) : a < b => pos[a] < pos[b]
  /\ \A j \in K : \E a \in 1..Len(s) : pos[a] = j
  /\ \A a \in 1..Len(s) : s[a] = u[pos[a]]

(* There is one way to do so: two sequences that pick the same positions   *)
(* pick them in the same order.                                            *)
LEMMA SamePrefix ==
  ASSUME NEW s, Len(s) \in Nat, NEW t, Len(t) \in Nat, NEW u, NEW v, NEW pos, NEW rho,
         NEW K \in SUBSET Int, Picks(s, u, pos, K), Picks(t, v, rho, K)
  PROVE  \A a \in 1..Len(s) : a \in 1..Len(t) /\ pos[a] = rho[a]
<1> DEFINE agree(a) == a \in 1..Len(t) /\ pos[a] = rho[a]
           T == {a \in Nat : \A b \in 1..a : b \in 1..Len(s) => agree(b)}
<1>1. 0 \in T
  OBVIOUS
<1>2. ASSUME NEW a \in Nat, a \in T PROVE a + 1 \in T
  <2>1. \A b \in 1..a : b \in 1..Len(s) => agree(b)
    BY <1>2
  <2> SUFFICES ASSUME a + 1 \in 1..Len(s) PROVE agree(a + 1)
    <3>1. \A b \in 1..a+1 : b \in 1..a \/ b = a + 1
      OBVIOUS
    <3>2. QED BY <2>1, <3>1
  <2>2. /\ \A b \in 1..Len(s) : pos[b] \in K /\ pos[b] \in Int
        /\ \A b \in 1..Len(t) : rho[b] \in K /\ rho[b] \in Int
    BY DEF Picks
  <2>3. PICK c \in 1..Len(t) : rho[c] = pos[a+1]
    BY <2>2 DEF Picks
  <2>4. c >= a + 1
    <3>1. SUFFICES ASSUME c <= a PROVE FALSE
      OBVIOUS
    <3>2. c \in 1..a /\ c \in 1..Len(s) /\ c < a + 1
      BY <3>1
    <3>3. rho[c] = pos[c] /\ pos[c] < pos[a+1]
      BY <2>1, <3>2 DEF Picks
    <3>4. QED BY <2>2, <2>3, <3>2, <3>3
  <2>5. a + 1 \in 1..Len(t)
    BY <2>4
  <2>6. rho[a+1] <= pos[a+1]
    <3>1. CASE c = a + 1
      BY <2>2, <2>3, <3>1
    <3>2. CASE c > a + 1
      <4>1. rho[a+1] < rho[c]
        BY <2>5, <3>2 DEF Picks
      <4>2. QED BY <2>2, <2>3, <2>5, <4>1
    <3>3. QED BY <2>4, <3>1, <3>2
  <2>7. PICK d \in 1..Len(s) : pos[d] = rho[a+1]
    BY <2>2, <2>5 DEF Picks
  <2>8. d >= a + 1
    <3>1. SUFFICES ASSUME d <= a PROVE FALSE
      OBVIOUS
    <3>2. d \in 1..a /\ d < a + 1
      BY <3>1
    <3>3. d \in 1..Len(t) /\ rho[d] = pos[d]
      BY <2>1, <3>2
    <3>4. rho[d] < rho[a+1]
      BY <2>5, <3>2, <3>3 DEF Picks
    <3>5. QED BY <2>2, <2>5, <2>7, <3>3, <3>4
  <2>9. pos[a+1] <= rho[a+1]
    <3>1. CASE d = a + 1
      BY <2>2, <2>7, <3>1
    <3>2. CASE d > a + 1
      <4>1. pos[a+1] < pos[d]
        BY <3>2 DEF Picks
      <4>2. QED BY <2>2, <2>7, <4>1
    <3>3. QED BY <2>8, <3>1, <3>2
  <2>10. QED BY <2>2, <2>5, <2>6, <2>9
<1>3. Nat \subseteq T
  <2> HIDE DEF T
  <2>1. QED BY <1>1, <1>2, InductionOn
<1>4. ASSUME NEW a \in 1..Len(s) PROVE agree(a)
  <2>1. a \in T /\ a \in 1..a
    BY <1>3
  <2>2. QED BY <2>1
<1>5. QED BY <1>4

LEMMA SamePositions ==
  ASSUME NEW s, Len(s) \in Nat, NEW t, Len(t) \in Nat, NEW u, NEW v, NEW pos, NEW rho,
         NEW K \in SUBSET Int, Picks(s, u, pos, K), Picks(t, v, rho, K)
  PROVE  Len(s) = Len(t) /\ \A a \in 1..Len(s) : pos[a] = rho[a]
<1>1. \A a \in 1..Len(s) : a \in 1..Len(t) /\ pos[a] = rho[a]
  BY SamePrefix
<1>2. \A a \in 1..Len(t) : a \in 1..Len(s)
  BY SamePrefix
<1>3. Len(s) <= Len(t)
  <2>1. Len(s) # 0 => Len(s) \in 1..Len(s)
    OBVIOUS
  <2>2. QED BY <1>1, <2>1
<1>4. Len(t) <= Len(s)
  <2>1. Len(t) # 0 => Len(t) \in 1..Len(t)
    OBVIOUS
  <2>2. QED BY <1>2, <2>1
<1>5. QED BY <1>1, <1>3, <1>4

LEMMA PickNext ==
  ASSUME NEW X, NEW s \in Seq(X), NEW u, NEW i \in Nat, NEW pos, NEW K, K \subseteq 1..i,
         u[i+1] \in X, Picks(s, u, pos, K)
  PROVE  \E rho : Picks(s \o <<u[i+1]>>, u, rho, K \cup {i+1})
<1> DEFINE n == Len(s)
           t == s \o <<u[i+1]>>
           rho == [a \in 1..n+1 |-> IF a = n + 1 THEN i + 1 ELSE pos[a]]
<1>1. n \in Nat /\ Len(t) = n + 1 /\ t[n+1] = u[i+1] /\ \A a \in 1..n : t[a] = s[a]
  OBVIOUS
<1> HIDE DEF t, n
<1>2. \A a \in 1..n+1 : a = n + 1 \/ (a \in 1..n /\ a # n + 1)
  BY <1>1
<1>3. /\ pos \in [1..n -> K] /\ \A a, b \in 1..n : a < b => pos[a] < pos[b]
      /\ \A j \in K : \E a \in 1..n : pos[a] = j
      /\ \A a \in 1..n : s[a] = u[pos[a]]
  BY DEF Picks, n
<1>4. rho \in [1..n+1 -> K \cup {i+1}]
  BY <1>2, <1>3
<1>5. n + 1 \in 1..n+1 /\ rho[n+1] = i + 1 /\ \A a \in 1..n : a \in 1..n+1 /\ rho[a] = pos[a]
  BY <1>1
<1> HIDE DEF rho
<1>6. ASSUME NEW a \in 1..n+1, NEW b \in 1..n+1, a < b PROVE rho[a] < rho[b]
  <2>1. a \in 1..n
    BY <1>1, <1>6
  <2>2. CASE b = n + 1
    <3>1. pos[a] \in K /\ pos[a] \in 1..i
      BY <2>1, <1>3
    <3>2. QED BY <3>1, <2>1, <2>2, <1>5
  <2>3. CASE b # n + 1
    <3>1. b \in 1..n
      BY <2>3, <1>2
    <3>2. QED BY <2>1, <3>1, <1>3, <1>5, <1>6
  <2>4. QED BY <2>2, <2>3
<1>7. \A j \in K \cup {i+1} : \E a \in 1..n+1 : rho[a] = j
  <2>1. ASSUME NEW j \in K PROVE \E a \in 1..n+1 : rho[a] = j
    <3>1. PICK a \in 1..n : pos[a] = j
      BY <1>3
    <3>2. QED BY <3>1, <1>5
  <2>2. QED BY <2>1, <1>5
<1>8. \A a \in 1..n+1 : t[a] = u[rho[a]]
  BY <1>1, <1>2, <1>3, <1>5
<1>9. Picks(t, u, rho, K \cup {i+1})
  BY <1>1, <1>4, <1>6, <1>7, <1>8 DEF Picks
<1>10. QED BY <1>9 DEF t

(* chosen() picks what it should.                                          *)
LEMMA ChosenPicks ==
  ASSUME NEW X, NEW u \in Seq(X), NEW J
  PROVE  \E pos : Picks(chosen(u, J), u, pos, {k \in 1..Len(u) : k \in J})
<1> DEFINE n == Len(u)
           parts == [k \in 1..n |-> IF k \in J THEN <<u[k]>> ELSE <<>>]
           upto(i) == {k \in 1..i : k \in J}
<1>1. /\ n \in Nat /\ parts \in Seq(Seq(X)) /\ Len(parts) = n
      /\ \A k \in 1..n : u[k] \in X /\ parts[k] = IF k \in J THEN <<u[k]>> ELSE <<>>
  OBVIOUS
<1>2. chosen(u, J) = FlattenSeq(parts)
  BY DEF chosen
<1> HIDE DEF parts
<1>3. Picks(<<>>, u, <<>>, upto(0))
  BY DEF Picks
<1>4. ASSUME NEW s \in Seq(X), NEW i \in Nat, i + 1 <= n, \E pos : Picks(s, u, pos, upto(i))
      PROVE  \E pos : Picks(s \o parts[i+1], u, pos, upto(i+1))
  <2>1. i + 1 \in 1..n /\ u[i+1] \in X /\ upto(i) \subseteq 1..i
    BY <1>1, <1>4
  <2>2. PICK pos : Picks(s, u, pos, upto(i))
    BY <1>4
  <2>3. CASE i + 1 \in J
    <3>1. parts[i+1] = <<u[i+1]>>
      BY <1>1, <2>1, <2>3
    <3>2. upto(i+1) = upto(i) \cup {i+1}
      BY <2>3
    <3> HIDE DEF upto
    <3>3. \E rho : Picks(s \o <<u[i+1]>>, u, rho, upto(i) \cup {i+1})
      BY <2>1, <2>2, PickNext
    <3>4. QED BY <3>1, <3>2, <3>3
  <2>4. CASE i + 1 \notin J
    <3>1. s \o parts[i+1] = s
      <4>1. parts[i+1] = <<>>
        BY <1>1, <2>1, <2>4
      <4>2. s \o <<>> = s
        OBVIOUS
      <4>3. QED BY <4>1, <4>2
    <3>2. upto(i+1) = upto(i)
      BY <2>4
    <3> HIDE DEF upto
    <3>3. QED BY <2>2, <3>1, <3>2
  <2>5. QED BY <2>3, <2>4
<1>5. CASE n = 0
  <2>1. FlattenSeq(parts) = parts /\ parts = <<>>
    BY <1>1, <1>5 DEF FlattenSeq
  <2>2. {k \in 1..Len(u) : k \in J} = upto(0)
    BY <1>5
  <2>3. QED BY <1>2, <1>3, <2>1, <2>2
<1>6. CASE n # 0
  <2>1. PICK f : Concatenates(f, X, parts)
    BY <1>1, <1>6, FlattenRec
  <2>2. /\ \A i \in 1..n : f[i] \in Seq(X)
        /\ f[1] = parts[1] /\ FlattenSeq(parts) = f[n]
        /\ \A i \in 1..n : i # 1 => f[i] = f[i-1] \o parts[i]
    BY <1>1, <2>1 DEF Concatenates
  <2> DEFINE T == {i \in Nat : i + 1 <= n => \E pos : Picks(f[i+1], u, pos, upto(i+1))}
  <2>3. 0 \in T
    <3>1. <<>> \in Seq(X) /\ 0 + 1 <= n /\ 0 \in Nat
      BY <1>1, <1>6
    <3>2. \E pos : Picks(<<>>, u, pos, upto(0))
      BY <1>3
    <3> HIDE DEF upto
    <3>3. \E pos : Picks(<<>> \o parts[0+1], u, pos, upto(0+1))
      BY <1>4, <3>1, <3>2
    <3>4. <<>> \o parts[0+1] = f[0+1]
      <4>1. f[1] \in Seq(X) /\ f[1] = parts[1]
        BY <1>1, <1>6, <2>2
      <4>2. <<>> \o f[1] = f[1]
        BY <4>1
      <4>3. QED BY <4>1, <4>2
    <3>5. QED BY <3>3, <3>4
  <2>4. ASSUME NEW i \in Nat, i \in T PROVE i + 1 \in T
    <3> SUFFICES ASSUME (i + 1) + 1 <= n PROVE \E pos : Picks(f[(i+1)+1], u, pos, upto((i+1)+1))
      <4> HIDE DEF upto
      <4>1. QED OBVIOUS
    <3>1. i + 1 <= n /\ i + 1 \in Nat /\ i + 1 \in 1..n /\ (i + 1) + 1 \in 1..n /\ (i + 1) + 1 # 1
          /\ ((i + 1) + 1) - 1 = i + 1
      BY <1>1
    <3>2. f[i+1] \in Seq(X) /\ f[(i+1)+1] = f[i+1] \o parts[(i+1)+1]
      BY <2>2, <3>1
    <3>3. \E pos : Picks(f[i+1], u, pos, upto(i+1))
      BY <2>4, <3>1
    <3> HIDE DEF upto
    <3>4. QED BY <1>4, <3>1, <3>2, <3>3
  <2>5. Nat \subseteq T
    <3> HIDE DEF T
    <3>1. QED BY <2>3, <2>4, InductionOn
  <2>6. n - 1 \in Nat /\ (n - 1) + 1 = n
    BY <1>1, <1>6
  <2>7. \E pos : Picks(f[n], u, pos, upto(n))
    <3>1. n - 1 \in T
      <4> HIDE DEF T, n
      <4>1. QED BY <2>5, <2>6
    <3>2. (n - 1) + 1 <= n
      BY <1>1
    <3> HIDE DEF upto, n
    <3>3. \E pos : Picks(f[(n-1)+1], u, pos, upto((n-1)+1))
      BY <3>1, <3>2
    <3>4. QED BY <2>6, <3>3
  <2>8. QED BY <1>2, <2>2, <2>7
<1>7. QED BY <1>5, <1>6

(* Picking from what was picked. *)
Image(pos, R) == {pos[a] : a \in R}

LEMMA PickedFrom ==
  ASSUME NEW s, Len(s) \in Nat, NEW t, Len(t) \in Nat, NEW u, NEW K \in SUBSET Int,
         NEW pos, Picks(s, u, pos, K),
         NEW R, R \subseteq 1..Len(s), NEW rho, Picks(t, s, rho, R)
  PROVE  \E sig : Picks(t, u, sig, Image(pos, R))
<1> DEFINE sig == [a \in 1..Len(t) |-> pos[rho[a]]]
           K2 == {pos[a] : a \in R}
<1>1. /\ \A a \in 1..Len(t) : rho[a] \in R /\ rho[a] \in 1..Len(s)
      /\ \A a, b \in 1..Len(t) : a < b => rho[a] < rho[b]
      /\ \A j \in R : \E a \in 1..Len(t) : rho[a] = j
      /\ \A a \in 1..Len(t) : t[a] = s[rho[a]]
  BY DEF Picks
<1>2. /\ \A a, b \in 1..Len(s) : a < b => pos[a] < pos[b]
      /\ \A a \in 1..Len(s) : s[a] = u[pos[a]]
  BY DEF Picks
<1>3. sig \in [1..Len(t) -> K2]
  BY <1>1
<1>4. \A a, b \in 1..Len(t) : a < b => sig[a] < sig[b]
  BY <1>1, <1>2
<1>5. \A j \in K2 : \E a \in 1..Len(t) : sig[a] = j
  <2>1. SUFFICES ASSUME NEW c \in R PROVE \E a \in 1..Len(t) : sig[a] = pos[c]
    OBVIOUS
  <2>2. PICK a \in 1..Len(t) : rho[a] = c
    BY <1>1
  <2>3. QED BY <2>2
<1>6. \A a \in 1..Len(t) : t[a] = u[sig[a]]
  BY <1>1, <1>2
<1>7. QED BY <1>3, <1>4, <1>5, <1>6 DEF Picks, Image

(* The same from the other end. *)
LEMMA PickedBack ==
  ASSUME NEW X, NEW s \in Seq(X), NEW u, NEW N \in Nat, NEW K, K \subseteq 1..N,
         NEW pos, Picks(s, u, pos, K)
  PROVE  \E rho : Picks(Reverse(s), [j \in 1..N |-> u[N+1-j]], rho, {N+1-j : j \in K})
<1> DEFINE n == Len(s)
           t == Reverse(s)
           v == [j \in 1..N |-> u[N+1-j]]
           K2 == {N+1-j : j \in K}
           rho == [a \in 1..n |-> N + 1 - pos[n+1-a]]
<1>1. n \in Nat /\ Len(t) = n /\ \A a \in 1..n : t[a] = s[n+1-a]
  BY DEF Reverse
<1>2. \A a \in 1..n : n + 1 - a \in 1..n
  BY <1>1
<1>3. /\ \A a \in 1..n : pos[a] \in K /\ pos[a] \in 1..N
      /\ \A a, b \in 1..n : a < b => pos[a] < pos[b]
      /\ \A j \in K : \E a \in 1..n : pos[a] = j
      /\ \A a \in 1..n : s[a] = u[pos[a]]
  BY DEF Picks
<1> HIDE DEF t, n
<1>4. rho \in [1..n -> K2]
  BY <1>2, <1>3
<1>5. ASSUME NEW a \in 1..n, NEW b \in 1..n, a < b PROVE rho[a] < rho[b]
  <2>1. n + 1 - b < n + 1 - a /\ n + 1 - b \in 1..n /\ n + 1 - a \in 1..n
    BY <1>1, <1>2, <1>5
  <2>2. pos[n+1-b] < pos[n+1-a] /\ pos[n+1-b] \in 1..N /\ pos[n+1-a] \in 1..N
    BY <2>1, <1>3
  <2>3. QED BY <2>2
<1>6. ASSUME NEW j \in K PROVE \E a \in 1..n : rho[a] = N + 1 - j
  <2>1. PICK c \in 1..n : pos[c] = j
    BY <1>3
  <2>2. n + 1 - c \in 1..n /\ n + 1 - (n + 1 - c) = c
    BY <1>1
  <2>3. QED BY <2>1, <2>2
<1>7. ASSUME NEW a \in 1..n PROVE t[a] = v[rho[a]]
  <2>1. n + 1 - a \in 1..n
    BY <1>2
  <2>2. t[a] = u[pos[n+1-a]] /\ pos[n+1-a] \in 1..N
    BY <2>1, <1>1, <1>3
  <2> DEFINE j == pos[n+1-a]
  <2>3. N + 1 - j \in 1..N /\ N + 1 - (N + 1 - j) = j
    BY <2>2
  <2> HIDE DEF j
  <2>4. v[N+1-j] = u[j]
    BY <2>3
  <2>5. QED BY <2>2, <2>4 DEF j
<1>8. \A j \in K2 : \E a \in 1..n : rho[a] = j
  BY <1>6
<1>9. Picks(t, v, rho, K2)
  <2> HIDE DEF rho, v, K2
  <2>1. QED BY <1>1, <1>4, <1>5, <1>7, <1>8 DEF Picks
<1>10. QED BY <1>9 DEF t

(* The entries of a list with a given rank. *)
WithRank(u, K, q) == {j \in K : u[j].rank = q}

LEMMA WithPicks ==
  ASSUME NEW X, NEW s \in Seq(X), NEW u, NEW K \in SUBSET Int,
         NEW pos, Picks(s, u, pos, K), NEW q
  PROVE  /\ Len(With(s, q)) \in Nat
         /\ \E sig : Picks(With(s, q), u, sig, WithRank(u, K, q))
<1> DEFINE J == {k \in 1..Len(s) : s[k].rank = q}
           t == chosen(s, J)
           R == {k \in 1..Len(s) : k \in J}
<1>1. t = With(s, q)
  BY DEF With
<1>2. t \in Seq(X)
  <2> HIDE DEF J
  <2>1. QED BY ChosenType
<1>3. PICK rho : Picks(t, s, rho, R)
  <2> HIDE DEF J
  <2>1. QED BY ChosenPicks
<1>4. R \subseteq 1..Len(s) /\ Len(s) \in Nat /\ Len(t) \in Nat
  BY <1>2
<1>5. \E sig : Picks(t, u, sig, Image(pos, R))
  <2> HIDE DEF t, R
  <2>1. QED BY <1>3, <1>4, PickedFrom
<1>6. Image(pos, R) = WithRank(u, K, q)
  <2>1. /\ \A a \in 1..Len(s) : pos[a] \in K /\ s[a] = u[pos[a]]
        /\ \A j \in K : \E a \in 1..Len(s) : pos[a] = j
    BY DEF Picks
  <2>2. ASSUME NEW j \in K, u[j].rank = q PROVE j \in Image(pos, R)
    <3>1. PICK a \in 1..Len(s) : pos[a] = j
      BY <2>1
    <3>2. s[a].rank = q
      BY <2>1, <2>2, <3>1
    <3>3. QED BY <3>1, <3>2 DEF Image
  <2>3. ASSUME NEW a \in R PROVE pos[a] \in K /\ u[pos[a]].rank = q
    BY <2>1
  <2>4. QED BY <2>2, <2>3 DEF Image, WithRank
<1>7. QED BY <1>1, <1>4, <1>5, <1>6

-----------------------------------------------------------------------------
(* One step around the torus. *)
LEMMA Stepped ==
  ASSUME NEW b \in Nat \ {0}, NEW x \in 0..b-1, NEW e \in {-1, 0, 1}
  PROVE  ((x + b + e) % b) = IF x + e < 0 THEN b - 1 ELSE IF x + e >= b THEN 0 ELSE x + e
<1> DEFINE a == x + b + e
<1>1. a \in Nat
  OBVIOUS
<1>2. CASE x + e < 0
  <2>1. a = b * 0 + (b - 1) /\ b - 1 \in 0..b-1 /\ 0 \in Int
    BY <1>2
  <2>2. QED BY <1>1, <1>2, <2>1, DivisionUnique
<1>3. CASE x + e >= b
  <2>1. a = b * 2 + 0 /\ 0 \in 0..b-1 /\ 2 \in Int
    BY <1>3
  <2>2. ~(x + e < 0)
    BY <1>3
  <2>3. (a % b) = 0
    <3> HIDE DEF a
    <3>1. QED BY <1>1, <2>1, DivisionUnique
  <2>4. QED BY <1>3, <2>2, <2>3
<1>4. CASE ~(x + e < 0) /\ ~(x + e >= b)
  <2>1. a = b * 1 + (x + e) /\ x + e \in 0..b-1 /\ 1 \in Int
    BY <1>4
  <2>2. (a % b) = x + e
    <3> HIDE DEF a
    <3>1. QED BY <1>1, <2>1, DivisionUnique
  <2>3. QED BY <1>4, <2>2
<1>5. QED BY <1>2, <1>3, <1>4

(* Where the neighbour in direction delta is, and that it sees this        *)
(* process beyond the opposite end of the domain.                          *)
LEMMA PartnerCoord ==
  ASSUME Config, dims # NoDims, NEW p \in Procs, NEW delta, NEW back,
         \A i \in Dir : delta[i] \in {-1, 0, 1} /\ back[i] = -delta[i],
         NEW i \in Dir
  PROVE  LET q == partner(dims, p, delta)
             c == at(p, i) + delta[i]
             n == dims[i]
         IN  /\ q \in Procs
             /\ at(q, i) = IF c < 0 THEN n - 1 ELSE IF c >= n THEN 0 ELSE c
             /\ outside(q, back)[i] = IF c < 0 THEN -1 ELSE IF c >= n THEN 1 ELSE 0
             /\ outside(p, delta)[i] = IF c < 0 THEN 1 ELSE IF c >= n THEN -1 ELSE 0
<1> DEFINE q == partner(dims, p, delta)
           c == at(p, i) + delta[i]
           n == dims[i]
           y == [j \in Dirs(dims) |-> (rank_to_coord(dims, p)[j] + dims[j] + delta[j]) % dims[j]]
<1>1. dims \in Seq(Nat \ {0}) /\ Dirs(dims) = Dir /\ Ranks(dims) = Procs
  BY ConfigFacts
<1>2. \A j \in Dir : dims[j] \in Nat \ {0} /\ rank_to_coord(dims, p)[j] \in 0..dims[j]-1
  BY MyPiece
<1>3. ASSUME NEW j \in Dir
      PROVE  y[j] = (rank_to_coord(dims, p)[j] + dims[j] + delta[j]) % dims[j] /\ y[j] \in 0..dims[j]-1
  <2>1. y[j] = (rank_to_coord(dims, p)[j] + dims[j] + delta[j]) % dims[j]
    BY <1>1
  <2>2. ((rank_to_coord(dims, p)[j] + dims[j] + delta[j]) % dims[j]) \in 0..dims[j]-1
    BY <1>2, Around
  <2>3. QED BY <2>1, <2>2
<1>4. q = coord_to_rank(dims, y)
  BY DEF partner
<1> HIDE DEF q, y
<1>5. /\ q \in Procs /\ at(q, i) = (y[i] % n)
  <2>1. \A j \in Dirs(dims) : y[j] \in Int
    BY <1>1, <1>3
  <2>2. QED BY <1>1, <1>4, <2>1, CoordOfRank DEF at
<1>6. at(q, i) = IF c < 0 THEN n - 1 ELSE IF c >= n THEN 0 ELSE c
  <2>1. (y[i] % n) = y[i]
    BY <1>2, <1>3, SmallRemainder
  <2>2. y[i] = (at(p, i) + n + delta[i]) % n
    BY <1>3 DEF at
  <2>3. n \in Nat \ {0} /\ at(p, i) \in 0..n-1 /\ delta[i] \in {-1, 0, 1}
    BY <1>2 DEF at
  <2>4. QED BY <1>5, <2>1, <2>2, <2>3, Stepped
<1>7. outside(p, delta)[i] = IF c < 0 THEN 1 ELSE IF c >= n THEN -1 ELSE 0
  BY DEF outside, at
<1>8. outside(q, back)[i] = IF at(q, i) + back[i] < 0 THEN 1 ELSE IF at(q, i) + back[i] >= n THEN -1 ELSE 0
  BY DEF outside, at
<1>9. outside(q, back)[i] = IF c < 0 THEN -1 ELSE IF c >= n THEN 1 ELSE 0
  <2>1. n \in Nat \ {0} /\ at(p, i) \in 0..n-1 /\ delta[i] \in {-1, 0, 1} /\ back[i] = -delta[i]
    BY <1>2 DEF at
  <2> DEFINE d == delta[i]
             k == at(p, i)
             o == outside(q, back)[i]
             b == back[i]
             m == at(q, i)
  <2>2. /\ n \in Nat \ {0} /\ k \in 0..n-1 /\ d \in {-1, 0, 1} /\ b = -d /\ c = k + d
        /\ m = IF c < 0 THEN n - 1 ELSE IF c >= n THEN 0 ELSE c
        /\ o = IF m + b < 0 THEN 1 ELSE IF m + b >= n THEN -1 ELSE 0
    BY <1>6, <1>8, <2>1
  <2> HIDE DEF d, k, o, b, m, c, n
  <2>3. CASE c < 0
    <3>1. d = -1 /\ k = 0 /\ m = n - 1 /\ b = 1
      BY <2>2, <2>3
    <3>2. QED BY <2>2, <2>3, <3>1 DEF o
  <2>4. CASE c >= n
    <3>1. d = 1 /\ k = n - 1 /\ m = 0 /\ b = -1
      BY <2>2, <2>4
    <3>2. QED BY <2>2, <2>4, <3>1 DEF o
  <2>5. CASE ~(c < 0) /\ ~(c >= n)
    <3>1. m + b = k
      BY <2>2, <2>5
    <3>2. QED BY <2>2, <2>5, <3>1 DEF o
  <2>6. QED BY <2>3, <2>4, <2>5
<1>10. QED BY <1>5, <1>6, <1>7, <1>9 DEF q

(* In every direction the piece of the neighbour, shifted to where this    *)
(* process sees it, is the same one or next to it.                         *)
LEMMA PiecesTouch ==
  ASSUME Config, Accepted, NEW p \in Procs, NEW delta, NEW back,
         \A i \in Dir : delta[i] \in {-1, 0, 1} /\ back[i] = -delta[i],
         NEW i \in Dir, NEW l \in Nat \ {0}
  PROVE  LET q == partner(dims, p, delta)
             v == outside(q, back)[i] * levelSize(l)[i]
         IN  /\ v \in Int
             /\ lower(q, i, l) + v <= upper(p, i, l)
             /\ lower(p, i, l) <= upper(q, i, l) + v
<1> DEFINE q == partner(dims, p, delta)
           M == levelSize(l)[i]
           o == outside(q, back)[i]
           n == dims[i]
           c == at(p, i) + delta[i]
           a == lower(p, i, l)
           b == upper(p, i, l)
           x == lower(q, i, l)
           y == upper(q, i, l)
<1>1. dims # NoDims
  BY DEF Accepted
<1>2. /\ q \in Procs
      /\ at(q, i) = IF c < 0 THEN n - 1 ELSE IF c >= n THEN 0 ELSE c
      /\ o = IF c < 0 THEN -1 ELSE IF c >= n THEN 1 ELSE 0
  BY <1>1, PartnerCoord
<1>3. n \in Nat \ {0} /\ at(p, i) \in 0..n-1 /\ delta[i] \in {-1, 0, 1} /\ M \in Nat \ {0}
  BY <1>1, ByCoordinate, LevelSizes
<1> HIDE DEF q
<1>4. /\ a \in Nat /\ b \in Nat /\ x \in Nat /\ y \in Nat
      /\ a < b /\ x < y
  BY <1>2, BoundsType, BeforeOrSame
<1>5. /\ at(q, i) = at(p, i) + 1 => b = x
      /\ at(p, i) = at(q, i) + 1 => y = a
      /\ at(p, i) = at(q, i) => a = x /\ b = y
  <2>1. /\ at(q, i) = at(p, i) + 1 => b = x
        /\ at(p, i) = at(q, i) + 1 => y = a
        /\ at(p, i) = at(q, i) => mine(p)[i] = mine(q)[i]
    BY <1>2, BeforeOrSame
  <2>2. mine(p)[i] = mine(q)[i] => a = x /\ b = y
    BY DEF lower, upper
  <2>3. QED BY <2>1, <2>2
<1>6. /\ at(p, i) = 0 => a = 0
      /\ at(q, i) = 0 => x = 0
      /\ at(p, i) = n - 1 => b = M
      /\ at(q, i) = n - 1 => y = M
  <2>1. ASSUME NEW k \in Procs
        PROVE  /\ at(k, i) = 0 => lower(k, i, l) = 0
               /\ at(k, i) = n - 1 => upper(k, i, l) = M
    <3>1. PieceOK(at(k, i), n, args.size[i], mine(k)[i])
      BY <1>1, MyPiece DEF at
    <3>2. /\ at(k, i) = 0 => mine(k)[i].origin = 0
          /\ at(k, i) = n - 1 => mine(k)[i].origin + mine(k)[i].size = args.size[i]
      BY <3>1 DEF PieceOK
    <3>3. twice[l] \in Nat
      BY Twice
    <3>4. QED BY <3>2, <3>3 DEF lower, upper, levelSize
  <2>2. QED BY <1>2, <2>1
<1> HIDE DEF a, b, x, y, M, n, o
<1>7. CASE c < 0
  <2>1. at(p, i) = 0 /\ at(q, i) = n - 1 /\ o = -1
    BY <1>2, <1>3, <1>7
  <2>2. o * M = -M /\ a = 0 /\ y = M /\ x < M
    BY <1>3, <1>4, <1>6, <2>1
  <2>3. o * M \in Int /\ x + o * M <= b /\ a <= y + o * M
    BY <1>3, <1>4, <2>2
  <2>4. QED BY <2>3 DEF a, b, x, y, M, o, q
<1>8. CASE c >= n
  <2>1. at(p, i) = n - 1 /\ at(q, i) = 0 /\ o = 1
    BY <1>2, <1>3, <1>8
  <2>2. o * M = M /\ x = 0 /\ b = M
    BY <1>3, <1>4, <1>6, <2>1
  <2>3. o * M \in Int /\ x + o * M <= b /\ a <= y + o * M
    BY <1>3, <1>4, <2>2
  <2>4. QED BY <2>3 DEF a, b, x, y, M, o, q
<1>9. CASE ~(c < 0) /\ ~(c >= n)
  <2>1. o = 0 /\ at(q, i) = c /\ o * M = 0
    BY <1>2, <1>3, <1>9
  <2>2. at(q, i) = at(p, i) + 1 \/ at(p, i) = at(q, i) + 1 \/ at(p, i) = at(q, i)
    BY <1>3, <2>1
  <2>3. x <= b /\ a <= y
    BY <1>4, <1>5, <2>2
  <2>4. o * M \in Int /\ x + o * M <= b /\ a <= y + o * M
    BY <1>4, <2>1, <2>3
  <2>5. QED BY <2>4 DEF a, b, x, y, M, o, q
<1>10. QED BY <1>7, <1>8, <1>9

-----------------------------------------------------------------------------
(* What the two neighbours see of each other. *)
LEMMA GridFacts ==
  ASSUME Config, NEW y \in Grids
  PROVE  /\ y = [origin |-> y.origin, size |-> y.size] /\ dirs(y) = Dir
         /\ y.origin \in [Dir -> Int] /\ y.size \in [Dir -> Int]
         /\ Len(y.size) = Len(args.size)
         /\ empty(y) <=> \E i \in Dir : y.size[i] = 0
<1>1. /\ y = [origin |-> y.origin, size |-> y.size] /\ dirs(y) = Dir
      /\ y.origin \in [Dir -> Int] /\ y.size \in [Dir -> Int]
  BY DEF Grids, dirs
<1>2. Len(y.size) = Len(args.size)
  BY <1>1, ConfigFacts
<1>3. QED BY <1>1, <1>2 DEF empty

LEMMA NoGridEmpty ==
  ASSUME Config
  PROVE  empty(nogrid(Len(args.size))) /\ nogrid(Len(args.size)) \in Grids
<1>1. nogrid(Len(args.size)) \in Grids
  BY NoGridType
<1>2. 1 \in Dir
  BY ConfigFacts
<1>3. nogrid(Len(args.size)).size[1] = 0
  BY <1>2 DEF nogrid, ygrid, Dir
<1>4. QED BY <1>1, <1>2, <1>3, GridFacts

LEMMA MoveAt ==
  ASSUME Config, NEW y \in Grids, NEW v, \A i \in Dir : v[i] \in Int
  PROVE  /\ move(y, v) \in Grids /\ move(y, v).size = y.size
         /\ \A i \in Dir : move(y, v).origin[i] = y.origin[i] + v[i]
         /\ empty(move(y, v)) <=> empty(y)
<1>1. y = [origin |-> y.origin, size |-> y.size] /\ dirs(y) = Dir
      /\ y.origin \in [Dir -> Int] /\ y.size \in [Dir -> Int]
  BY GridFacts
<1> DEFINE w == [i \in Dir |-> y.origin[i] + v[i]]
<1>2. move(y, v) = [origin |-> w, size |-> y.size]
  BY <1>1 DEF move
<1>3. w \in [Dir -> Int] /\ \A i \in Dir : w[i] = y.origin[i] + v[i]
  BY <1>1
<1> HIDE DEF w
<1>4. move(y, v) \in Grids /\ move(y, v).size = y.size /\ move(y, v).origin = w
  BY <1>1, <1>2, <1>3 DEF Grids
<1>5. empty(move(y, v)) <=> empty(y)
  BY <1>4 DEF empty, dirs
<1>6. QED BY <1>3, <1>4, <1>5

LEMMA IntersectionAt ==
  ASSUME Config, NEW g \in Grids, NEW h \in Grids
  PROVE  /\ empty(g) \/ empty(h) => intersection(g, h) = nogrid(Len(args.size))
         /\ ~empty(g) /\ ~empty(h) => \A i \in Dir :
              /\ intersection(g, h).origin[i] = larger(g.origin[i], h.origin[i])
              /\ intersection(g, h).size[i] =
                   smaller(g.origin[i] + g.size[i] - 1, h.origin[i] + h.size[i] - 1)
                   - larger(g.origin[i], h.origin[i]) + 1
<1>1. dirs(g) = Dir /\ Len(g.size) = Len(args.size)
  BY GridFacts
<1>2. empty(g) \/ empty(h) => intersection(g, h) = nogrid(Len(args.size))
  BY <1>1 DEF intersection
<1>3. ASSUME ~empty(g), ~empty(h), NEW i \in Dir
      PROVE  /\ intersection(g, h).origin[i] = larger(g.origin[i], h.origin[i])
             /\ intersection(g, h).size[i] =
                  smaller(g.origin[i] + g.size[i] - 1, h.origin[i] + h.size[i] - 1)
                  - larger(g.origin[i], h.origin[i]) + 1
  <2> DEFINE o == [j \in Dir |-> larger(g.origin[j], h.origin[j])]
             e == [j \in Dir |-> smaller(last(g, j), last(h, j)) - o[j] + 1]
  <2>1. intersection(g, h) = ygrid(o, e)
    BY <1>1, <1>3 DEF intersection
  <2>2. o[i] = larger(g.origin[i], h.origin[i])
    OBVIOUS
  <2>3. e[i] = smaller(last(g, i), last(h, i)) - o[i] + 1
    OBVIOUS
  <2> HIDE DEF o, e
  <2>4. intersection(g, h).origin = o /\ intersection(g, h).size = e
    BY <2>1 DEF ygrid
  <2>5. QED BY <2>2, <2>3, <2>4 DEF last
<1>4. QED BY <1>2, <1>3

(* How far the process in direction delta is shifted where this process sees *)
(* it beyond the boundary of the domain, and whether there is none.        *)
shifted(q, back, l) == [i \in Dir |-> outside(q, back)[i] * levelSize(l)[i]]
nobody(q, back) == \E i \in Dir \ args.periodic : outside(q, back)[i] # 0

(* X is what A and B, shifted by v, have in common. *)
Common(X, A, B, v) ==
  \A i \in Dir : /\ X.origin[i] = larger(A.origin[i], B.origin[i] + v[i])
                 /\ X.size[i] = smaller(A.origin[i] + A.size[i] - 1, B.origin[i] + v[i] + B.size[i] - 1)
                                - X.origin[i] + 1

(* The grids X and Y that one exchange makes on its two sides.             *)
Sides(X, Y, A, B, v, none, l) ==
  /\ X \in Grids /\ Y \in Grids /\ v \in [Dir -> Int]
  /\ \A i \in Dir : (v[i] % levelSize(l)[i]) = 0
  /\ ~none => \A i \in Dir \ args.periodic : v[i] = 0
  /\ none \/ empty(A) \/ empty(B) => X = nogrid(Len(args.size)) /\ Y = nogrid(Len(args.size))
  /\ ~none /\ ~empty(A) /\ ~empty(B) =>
       /\ Common(X, A, B, v)
       /\ \A i \in Dir : X.size[i] = Y.size[i] /\ X.origin[i] = Y.origin[i] + v[i]

(* p has A and the neighbour in direction delta has B.                     *)
LEMMA BothSides ==
  ASSUME Config, dims # NoDims, NEW p \in Procs, NEW delta, NEW back,
         \A i \in Dir : delta[i] \in {-1, 0, 1} /\ back[i] = -delta[i],
         NEW A \in Grids, NEW B \in Grids, NEW l \in Nat \ {0}
  PROVE  LET q == partner(dims, p, delta)
         IN  Sides(intersection(A, sentgrid(q, back, B, l)), intersection(B, sentgrid(p, delta, A, l)),
                   A, B, shifted(q, back, l), nobody(q, back), l)
<1> DEFINE q == partner(dims, p, delta)
           oq == outside(q, back)
           op == outside(p, delta)
           v == shifted(q, back, l)
           w == [i \in Dir |-> op[i] * levelSize(l)[i]]
           X == intersection(A, sentgrid(q, back, B, l))
           Y == intersection(B, sentgrid(p, delta, A, l))
           none == nobody(q, back)
<1>1. ASSUME NEW i \in Dir PROVE oq[i] \in {-1, 0, 1} /\ op[i] = -oq[i]
  BY PartnerCoord
<1>2. q \in Procs
  <2>1. 1 \in Dir
    BY ConfigFacts
  <2>2. QED BY <2>1, PartnerCoord
<1>3. v = [i \in Dir |-> oq[i] * levelSize(l)[i]] /\ (none <=> \E i \in Dir \ args.periodic : oq[i] # 0)
  BY DEF shifted, nobody
<1> HIDE DEF q, oq, op, v, none
<1>4. ASSUME NEW i \in Dir
      PROVE  v[i] \in Int /\ w[i] = -v[i] /\ (v[i] % levelSize(l)[i]) = 0 /\ (oq[i] = 0 => v[i] = 0)
  <2>1. levelSize(l)[i] \in Nat \ {0} /\ oq[i] \in {-1, 0, 1} /\ op[i] = -oq[i]
    BY <1>1, LevelSizes
  <2> DEFINE M == levelSize(l)[i]
             a == oq[i]
             b == op[i]
  <2>2. v[i] = a * M /\ w[i] = b * M
    BY <1>3
  <2> HIDE DEF M, a, b, w
  <2>3. M \in Nat \ {0} /\ a \in {-1, 0, 1} /\ b = -a
    BY <2>1 DEF M, a, b
  <2>4. b * M = -(a * M) /\ a * M \in Int /\ (a = 0 => a * M = 0) /\ ((a * M) % M) = 0
    BY <2>3
  <2>5. QED BY <2>2, <2>4 DEF M, a
<1>5. Len(dims) = Len(args.size)
  BY ConfigFacts
<1>6. sentgrid(q, back, B, l) = IF none THEN nogrid(Len(args.size)) ELSE move(B, v)
  BY <1>3, <1>5 DEF sentgrid, oq
<1>7. sentgrid(p, delta, A, l) = IF none THEN nogrid(Len(args.size)) ELSE move(A, w)
  <2>1. none <=> \E i \in Dir \ args.periodic : op[i] # 0
    BY <1>1, <1>3
  <2>2. QED BY <1>5, <2>1 DEF sentgrid, op
<1>8. v \in [Dir -> Int] /\ (\A i \in Dir : w[i] \in Int)
  <2> HIDE DEF w
  <2>1. \A i \in Dir : v[i] \in Int /\ w[i] \in Int
    BY <1>4
  <2>2. QED BY <1>3, <2>1
<1>9. (\A i \in Dir : v[i] \in Int) /\ (\A i \in Dir : w[i] \in Int)
  BY <1>8
<1> HIDE DEF w
<1>10. sentgrid(q, back, B, l) \in Grids /\ sentgrid(p, delta, A, l) \in Grids
  BY <1>6, <1>7, <1>9, MoveAt, NoGridEmpty
<1>11. X \in Grids /\ Y \in Grids
  BY <1>10, IntersectionType
<1>12. ASSUME none \/ empty(A) \/ empty(B)
       PROVE  X = nogrid(Len(args.size)) /\ Y = nogrid(Len(args.size))
  <2>1. empty(A) \/ empty(sentgrid(q, back, B, l))
    BY <1>6, <1>9, <1>12, MoveAt, NoGridEmpty
  <2>2. empty(B) \/ empty(sentgrid(p, delta, A, l))
    BY <1>7, <1>9, <1>12, MoveAt, NoGridEmpty
  <2>3. QED BY <1>10, <2>1, <2>2, IntersectionAt
<1>13. ASSUME ~none, ~empty(A), ~empty(B)
       PROVE  /\ Common(X, A, B, v)
              /\ \A i \in Dir : X.size[i] = Y.size[i] /\ X.origin[i] = Y.origin[i] + v[i]
  <2>1. sentgrid(q, back, B, l) = move(B, v) /\ sentgrid(p, delta, A, l) = move(A, w)
    BY <1>6, <1>7, <1>13
  <2>2. /\ move(B, v) \in Grids /\ move(B, v).size = B.size /\ ~empty(move(B, v))
        /\ \A i \in Dir : move(B, v).origin[i] = B.origin[i] + v[i]
        /\ move(A, w) \in Grids /\ move(A, w).size = A.size /\ ~empty(move(A, w))
        /\ \A i \in Dir : move(A, w).origin[i] = A.origin[i] + w[i]
    BY <1>9, <1>13, MoveAt
  <2>3. ASSUME NEW i \in Dir
        PROVE  /\ X.origin[i] = larger(A.origin[i], B.origin[i] + v[i])
               /\ X.size[i] = smaller(A.origin[i] + A.size[i] - 1, B.origin[i] + v[i] + B.size[i] - 1)
                              - larger(A.origin[i], B.origin[i] + v[i]) + 1
    BY <2>1, <2>2, <1>13, IntersectionAt
  <2>4. ASSUME NEW i \in Dir
        PROVE  X.size[i] = Y.size[i] /\ X.origin[i] = Y.origin[i] + v[i]
    <3>1. /\ X.origin[i] = larger(A.origin[i], B.origin[i] + v[i])
          /\ X.size[i] = smaller(A.origin[i] + A.size[i] - 1, B.origin[i] + v[i] + B.size[i] - 1)
                         - larger(A.origin[i], B.origin[i] + v[i]) + 1
      BY <2>3
    <3>2. /\ Y.origin[i] = larger(B.origin[i], A.origin[i] + w[i])
          /\ Y.size[i] = smaller(B.origin[i] + B.size[i] - 1, A.origin[i] + w[i] + A.size[i] - 1)
                         - larger(B.origin[i], A.origin[i] + w[i]) + 1
      BY <2>1, <2>2, <1>13, IntersectionAt
    <3>3. /\ A.origin[i] \in Int /\ A.size[i] \in Int /\ B.origin[i] \in Int /\ B.size[i] \in Int
          /\ v[i] \in Int /\ w[i] = -v[i]
      BY <1>4 DEF Grids
    <3> DEFINE a == A.origin[i]
               b == A.size[i]
               x == B.origin[i]
               y == B.size[i]
               u == v[i]
               z == w[i]
    <3>4. /\ a \in Int /\ b \in Int /\ x \in Int /\ y \in Int /\ u \in Int /\ z = -u
          /\ X.origin[i] = larger(a, x + u)
          /\ X.size[i] = smaller(a + b - 1, x + u + y - 1) - larger(a, x + u) + 1
          /\ Y.origin[i] = larger(x, a + z)
          /\ Y.size[i] = smaller(x + y - 1, a + z + b - 1) - larger(x, a + z) + 1
      BY <3>1, <3>2, <3>3
    <3> HIDE DEF X, Y, a, b, x, y, u, z
    <3>5. a \in Int /\ b \in Int /\ x \in Int /\ y \in Int /\ u \in Int /\ z \in Int /\ z = -u
      BY <3>4
    <3>6. X.size[i] = Y.size[i] /\ X.origin[i] = Y.origin[i] + u
      <4>1. larger(a, x + u) = larger(x, a + z) + u
        BY <3>5 DEF larger
      <4>2. smaller(a + b - 1, x + u + y - 1) = smaller(x + y - 1, a + z + b - 1) + u
        BY <3>5 DEF smaller
      <4> DEFINE e == smaller(x + y - 1, a + z + b - 1)
                 d == larger(x, a + z)
      <4>3. d \in Int /\ e \in Int
        BY <3>5 DEF larger, smaller
      <4>4. /\ X.origin[i] = d + u /\ X.size[i] = (e + u) - (d + u) + 1
            /\ Y.origin[i] = d /\ Y.size[i] = e - d + 1
        BY <3>4, <4>1, <4>2
      <4> HIDE DEF d, e
      <4>5. QED BY <3>5, <4>3, <4>4
    <3>7. QED BY <3>6 DEF u
  <2> HIDE DEF X, Y
  <2>5. Common(X, A, B, v)
    BY <2>3 DEF Common
  <2>6. QED BY <2>4, <2>5
<1>14. ~none => \A i \in Dir \ args.periodic : v[i] = 0
  BY <1>3, <1>4
<1> HIDE DEF X, Y
<1>15. Sides(X, Y, A, B, v, none, l)
  BY <1>4, <1>8, <1>11, <1>12, <1>13, <1>14 DEF Sides
<1>16. QED BY <1>15 DEF X, Y, v, none, q

(* The two views of one exchange. *)
Views(X, Y, l) == X.size = Y.size /\ Same(X.origin, Y.origin, l) /\ (empty(X) <=> empty(Y))

LEMMA TwoViews ==
  ASSUME Config, dims # NoDims, NEW p \in Procs, NEW delta, NEW back,
         \A i \in Dir : delta[i] \in {-1, 0, 1} /\ back[i] = -delta[i],
         NEW A \in Grids, NEW B \in Grids, NEW l \in Nat \ {0}
  PROVE  Views(intersection(A, sentgrid(partner(dims, p, delta), back, B, l)),
               intersection(B, sentgrid(p, delta, A, l)), l)
<1> DEFINE q == partner(dims, p, delta)
           v == shifted(q, back, l)
           X == intersection(A, sentgrid(q, back, B, l))
           Y == intersection(B, sentgrid(p, delta, A, l))
           none == nobody(q, back)
<1>1. Sides(X, Y, A, B, v, none, l)
  BY BothSides
<1> HIDE DEF v, X, Y, none
<1>2. /\ X \in Grids /\ Y \in Grids /\ v \in [Dir -> Int]
      /\ \A i \in Dir : (v[i] % levelSize(l)[i]) = 0
      /\ ~none => \A i \in Dir \ args.periodic : v[i] = 0
      /\ none \/ empty(A) \/ empty(B) => X = Y
      /\ ~none /\ ~empty(A) /\ ~empty(B) =>
           \A i \in Dir : X.size[i] = Y.size[i] /\ X.origin[i] = Y.origin[i] + v[i]
  BY <1>1 DEF Sides
<1>3. /\ X.size \in [Dir -> Int] /\ Y.size \in [Dir -> Int]
      /\ X.origin \in [Dir -> Int] /\ Y.origin \in [Dir -> Int]
  BY <1>2 DEF Grids
<1>4. X.size = Y.size
  BY <1>2, <1>3
<1>5. ASSUME NEW i \in Dir
      PROVE  IF i \in args.periodic THEN (X.origin[i] - Y.origin[i]) % levelSize(l)[i] = 0
                                    ELSE X.origin[i] = Y.origin[i]
  <2>1. levelSize(l)[i] \in Nat \ {0} /\ X.origin[i] \in Int /\ Y.origin[i] \in Int /\ v[i] \in Int
    BY <1>2, <1>3, LevelSizes
  <2>2. CASE none \/ empty(A) \/ empty(B)
    <3>1. X.origin[i] - Y.origin[i] = 0 /\ X.origin[i] = Y.origin[i]
      BY <1>2, <2>1, <2>2
    <3>2. (0 % levelSize(l)[i]) = 0
      BY <2>1
    <3>3. QED BY <3>1, <3>2
  <2>3. CASE ~none /\ ~empty(A) /\ ~empty(B)
    <3>1. X.origin[i] = Y.origin[i] + v[i]
      BY <1>2, <2>3
    <3>2. X.origin[i] - Y.origin[i] = v[i]
      BY <2>1, <3>1
    <3>3. CASE i \in args.periodic
      BY <1>2, <3>2, <3>3
    <3>4. CASE i \notin args.periodic
      <4>1. v[i] = 0
        BY <1>2, <2>3, <3>4
      <4>2. QED BY <2>1, <3>1, <3>4, <4>1
    <3>5. QED BY <3>3, <3>4
  <2>4. QED BY <2>2, <2>3
<1>6. Same(X.origin, Y.origin, l)
  BY <1>5 DEF Same
<1>7. empty(X) <=> empty(Y)
  BY <1>2, <1>4, GridFacts
<1>8. Views(X, Y, l)
  BY <1>4, <1>6, <1>7 DEF Views
<1>9. QED BY <1>8 DEF X, Y, q

(* An empty grid has no points. *)
LEMMA NoPoints ==
  ASSUME Config, NEW y \in Grids, empty(y), NEW x
  PROVE  x \notin points(y)
<1>1. PICK i \in Dir : y.size[i] = 0
  BY GridFacts
<1>2. y.origin[i] \in Int
  BY DEF Grids
<1>3. x \in points(y) => x[i] \in Int /\ x[i] >= y.origin[i] /\ x[i] < y.origin[i] + 0
  BY <1>1, PointsOf
<1>4. QED BY <1>2, <1>3

(* The points that are sent and received: x on the side of p and y on the  *)
(* side of its neighbour q, as far apart as the two see each other shifted.  *)
Opposite(delta, back) == \A i \in Dir : delta[i] \in {-1, 0, 1} /\ back[i] = -delta[i]
Apart(x, y, v) == \A i \in Dir : x[i] - y[i] = v[i]
Meet(x, y, A, B, q, back, l) ==
  x \in points(intersection(A, sentgrid(q, back, B, l)))
    <=> ~nobody(q, back) /\ x \in points(A) /\ y \in points(B)

LEMMA CommonPoints ==
  ASSUME Config, dims # NoDims, NEW p \in Procs, NEW delta, NEW back, Opposite(delta, back),
         NEW A \in Grids, NEW B \in Grids, NEW l \in Nat \ {0},
         NEW q, q = partner(dims, p, delta),
         NEW x \in [Dir -> Int], NEW y \in [Dir -> Int], Apart(x, y, shifted(q, back, l))
  PROVE  Meet(x, y, A, B, q, back, l)
<1> DEFINE v == shifted(q, back, l)
           X == intersection(A, sentgrid(q, back, B, l))
           none == nobody(q, back)
           Y == intersection(B, sentgrid(p, delta, A, l))
<1>0. Sides(X, Y, A, B, v, none, l)
  <2>1. \A i \in Dir : delta[i] \in {-1, 0, 1} /\ back[i] = -delta[i]
    BY DEF Opposite
  <2>2. Sides(intersection(A, sentgrid(partner(dims, p, delta), back, B, l)),
              intersection(B, sentgrid(p, delta, A, l)),
              A, B, shifted(partner(dims, p, delta), back, l), nobody(partner(dims, p, delta), back), l)
    BY <2>1, BothSides
  <2>3. QED BY <2>2
<1>1. /\ X \in Grids /\ v \in [Dir -> Int]
      /\ none \/ empty(A) \/ empty(B) => X = nogrid(Len(args.size))
      /\ ~none /\ ~empty(A) /\ ~empty(B) => Common(X, A, B, v)
  <2> HIDE DEF v, X, Y, none
  <2>1. QED BY <1>0 DEF Sides
<1>2. \A i \in Dir : x[i] - y[i] = v[i]
  BY DEF Apart
<1> HIDE DEF v, X, Y, none
<1>3. \A G \in Grids : empty(G) => \A z : z \notin points(G)
  BY NoPoints
<1>4. CASE none \/ empty(A) \/ empty(B)
  <2>1. empty(X)
    BY <1>1, <1>4, NoGridEmpty
  <2>2. x \notin points(X)
    BY <1>1, <1>3, <2>1
  <2>3. none \/ x \notin points(A) \/ y \notin points(B)
    BY <1>3, <1>4
  <2>4. QED BY <2>2, <2>3 DEF X, none, Meet
<1>5. CASE ~none /\ ~empty(A) /\ ~empty(B)
  <2>1. ASSUME NEW i \in Dir
        PROVE  (x[i] >= X.origin[i] /\ x[i] < X.origin[i] + X.size[i])
                 <=> /\ x[i] >= A.origin[i] /\ x[i] < A.origin[i] + A.size[i]
                     /\ y[i] >= B.origin[i] /\ y[i] < B.origin[i] + B.size[i]
    <3>1. /\ A.origin[i] \in Int /\ A.size[i] \in Int /\ B.origin[i] \in Int /\ B.size[i] \in Int
          /\ v[i] \in Int /\ x[i] \in Int /\ y[i] \in Int /\ x[i] - y[i] = v[i]
          /\ X.origin[i] \in Int /\ X.size[i] \in Int
      BY <1>1, <1>2 DEF Grids
    <3>2. /\ X.origin[i] = larger(A.origin[i], B.origin[i] + v[i])
          /\ X.size[i] = smaller(A.origin[i] + A.size[i] - 1, B.origin[i] + v[i] + B.size[i] - 1)
                         - X.origin[i] + 1
      BY <1>1, <1>5 DEF Common
    <3> DEFINE Ao == A.origin[i]
               As == A.size[i]
               Bo == B.origin[i]
               Bs == B.size[i]
               Xo == X.origin[i]
               Xs == X.size[i]
               u == v[i]
               a == x[i]
               b == y[i]
    <3> HIDE DEF Ao, As, Bo, Bs, Xo, Xs, u, a, b
    <3>3. /\ Ao \in Int /\ As \in Int /\ Bo \in Int /\ Bs \in Int /\ u \in Int /\ a \in Int /\ b \in Int
          /\ Xo \in Int /\ Xs \in Int /\ a - b = u
          /\ Xo = larger(Ao, Bo + u) /\ Xs = smaller(Ao + As - 1, Bo + u + Bs - 1) - Xo + 1
      BY <3>1, <3>2 DEF Ao, As, Bo, Bs, Xo, Xs, u, a, b
    <3>4. (a >= Xo /\ a < Xo + Xs) <=> (a >= Ao /\ a < Ao + As /\ b >= Bo /\ b < Bo + Bs)
      BY <3>3 DEF larger, smaller
    <3>5. QED BY <3>4 DEF Ao, As, Bo, Bs, Xo, Xs, a, b
  <2>2. x \in points(X) <=> \A i \in Dir : x[i] >= X.origin[i] /\ x[i] < X.origin[i] + X.size[i]
    BY <1>1, PointsOf
  <2>3. x \in points(A) <=> \A i \in Dir : x[i] >= A.origin[i] /\ x[i] < A.origin[i] + A.size[i]
    BY PointsOf
  <2>4. y \in points(B) <=> \A i \in Dir : y[i] >= B.origin[i] /\ y[i] < B.origin[i] + B.size[i]
    BY PointsOf
  <2>5. x \in points(X) <=> x \in points(A) /\ y \in points(B)
    BY <2>1, <2>2, <2>3, <2>4
  <2>6. QED BY <1>5, <2>5 DEF X, none, Meet
<1>6. QED BY <1>4, <1>5

(* A partition reaches as far as the piece of the process; the two that    *)
(* are received on contain its whole border.                               *)
LEMMA PartReach ==
  ASSUME Config, Accepted, NEW p \in Procs, NEW l \in Nat \ {0}, NEW g \in YGridLevels,
         LevelInv(p, g, l), NEW r \in Shifts, NEW name \in PartNames, NEW i \in Dir
  PROVE  LET y == part(name, g, r)
             h == half(r)[i]
         IN  /\ y \in Grids /\ h \in {0, 1}
             /\ y.origin[i] <= lower(p, i, l) + h
             /\ y.origin[i] + y.size[i] >= upper(p, i, l)
             /\ name \in {"overlapfront", "interiorborder"} =>
                  /\ y.origin[i] <= lower(p, i, l)
                  /\ y.origin[i] + y.size[i] >= upper(p, i, l) + h
<1> DEFINE h == half(r)[i]
           a == lower(p, i, l)
           b == upper(p, i, l)
           e == g.overlap
           o(x) == part(x, g, r).origin[i]
           end(x) == part(x, g, r).origin[i] + part(x, g, r).size[i]
<1>1. a \in Nat /\ b \in Nat /\ e \in Nat
  BY BoundsType DEF YGridLevels
<1>2. begins(p, i) => a = 0
  <2>1. twice[l] \in Nat
    BY Twice
  <2>2. QED BY <2>1 DEF begins, lower
<1>3. /\ h \in {0, 1}
      /\ o("overlapfront") = IF begins(p, i) THEN 0 ELSE a - e
      /\ end("overlapfront") = IF ends(p, i) THEN b + h ELSE b + e + h
      /\ o("overlap") = o("overlapfront") + (IF i \in g.low THEN h ELSE 0)
      /\ end("overlap") = end("overlapfront") - (IF ends(p, i) THEN 0 ELSE h)
      /\ o("interiorborder") = a /\ end("interiorborder") = b + h
      /\ o("interior") = a + (IF i \in g.low THEN h ELSE 0)
      /\ end("interior") = IF ends(p, i) THEN b + h ELSE b
  BY PartRanges
<1>4. part(name, g, r) \in Grids
  BY PartType
<1> HIDE DEF h, a, b, e, o, end
<1>5. /\ o("overlapfront") <= a /\ end("overlapfront") >= b + h
      /\ o("interiorborder") <= a /\ end("interiorborder") >= b + h
      /\ o("overlap") <= a + h /\ end("overlap") >= b
      /\ o("interior") <= a + h /\ end("interior") >= b
  BY <1>1, <1>2, <1>3
<1>6. o(name) <= a + h /\ end(name) >= b
  <2>1. o("overlapfront") <= a + h /\ o("interiorborder") <= a + h
        /\ end("overlapfront") >= b /\ end("interiorborder") >= b
    BY <1>1, <1>2, <1>3
  <2>2. QED BY <2>1, <1>5 DEF PartNames
<1>7. name \in {"overlapfront", "interiorborder"} => o(name) <= a /\ end(name) >= b + h
  BY <1>5
<1>8. QED BY <1>3, <1>4, <1>6, <1>7 DEF h, a, b, o, end

(* An intersection that is not empty has no negative size.                 *)
LEMMA PositiveSize ==
  ASSUME Config, Accepted, NEW p \in Procs, NEW delta, NEW back,
         \A i \in Dir : delta[i] \in {-1, 0, 1} /\ back[i] = -delta[i],
         NEW l \in Nat \ {0},
         NEW g \in YGridLevels, LevelInv(p, g, l),
         NEW k \in YGridLevels, LevelInv(partner(dims, p, delta), k, l),
         NEW f \in Interfaces, NEW r \in Shifts, NEW i \in Dir,
         ~empty(intersection(part(f[1], g, r),
                             sentgrid(partner(dims, p, delta), back, part(f[2], k, r), l)))
  PROVE  intersection(part(f[1], g, r),
                      sentgrid(partner(dims, p, delta), back, part(f[2], k, r), l)).size[i] > 0
<1> DEFINE q == partner(dims, p, delta)
           A == part(f[1], g, r)
           B == part(f[2], k, r)
           v == [j \in Dir |-> outside(q, back)[j] * levelSize(l)[j]]
           none == \E j \in Dir \ args.periodic : outside(q, back)[j] # 0
           S == sentgrid(q, back, B, l)
           X == intersection(A, S)
           h == half(r)[i]
<1>1. f[1] \in PartNames /\ f[2] \in PartNames /\ f[2] \in {"overlapfront", "interiorborder"}
  BY DEF Interfaces, PartNames
<1>2. dims # NoDims /\ q \in Procs
  BY PartnerCoord DEF Accepted
<1>3. /\ v[i] \in Int
      /\ lower(q, i, l) + v[i] <= upper(p, i, l)
      /\ lower(p, i, l) <= upper(q, i, l) + v[i]
  BY PiecesTouch
<1>4. \A j \in Dir : v[j] \in Int
  BY PiecesTouch
<1> HIDE DEF q
<1>5. /\ A \in Grids /\ B \in Grids /\ h \in {0, 1}
      /\ A.origin[i] <= lower(p, i, l) + h /\ A.origin[i] + A.size[i] >= upper(p, i, l)
      /\ B.origin[i] <= lower(q, i, l) /\ B.origin[i] + B.size[i] >= upper(q, i, l) + h
  BY <1>1, <1>2, PartReach DEF q
<1>6. /\ lower(p, i, l) \in Nat /\ upper(p, i, l) \in Nat /\ lower(p, i, l) < upper(p, i, l)
      /\ lower(q, i, l) \in Nat /\ upper(q, i, l) \in Nat /\ lower(q, i, l) < upper(q, i, l)
  BY <1>2, BoundsType, BeforeOrSame
<1>7. S = IF none THEN nogrid(Len(args.size)) ELSE move(B, v)
  <2>1. Len(dims) = Len(args.size)
    BY <1>2, ConfigFacts
  <2>2. QED BY <2>1 DEF sentgrid
<1> HIDE DEF A, B, v, none, h, S
<1>8. S \in Grids
  BY <1>4, <1>5, <1>7, MoveAt, NoGridEmpty
<1>9. X \in Grids /\ ~empty(X)
  BY <1>5, <1>8, IntersectionType DEF A, B, S, q
<1>10. ~empty(A) /\ ~empty(S)
  <2>1. empty(A) \/ empty(S) => X = nogrid(Len(args.size))
    BY <1>5, <1>8, IntersectionAt
  <2>2. QED BY <2>1, <1>9, NoGridEmpty
<1>11. ~none
  BY <1>7, <1>10, NoGridEmpty
<1>12. S.origin[i] = B.origin[i] + v[i] /\ S.size[i] = B.size[i]
  <2>1. S = move(B, v)
    BY <1>7, <1>11
  <2>2. QED BY <2>1, <1>4, <1>5, MoveAt
<1>13. X.size[i] = smaller(A.origin[i] + A.size[i] - 1, S.origin[i] + S.size[i] - 1)
                   - larger(A.origin[i], S.origin[i]) + 1
  BY <1>5, <1>8, <1>10, IntersectionAt
<1>14. A.origin[i] \in Int /\ A.size[i] \in Int /\ B.origin[i] \in Int /\ B.size[i] \in Int
  BY <1>5 DEF Grids
<1>15. X.size[i] >= 0 /\ X.size[i] \in Int
  <2> DEFINE A0 == A.origin[i]
             As == A.size[i]
             B0 == B.origin[i]
             Bs == B.size[i]
             u == v[i]
             a == lower(p, i, l)
             b == upper(p, i, l)
             x == lower(q, i, l)
             y == upper(q, i, l)
             z == X.size[i]
  <2>1. /\ A0 \in Int /\ As \in Int /\ B0 \in Int /\ Bs \in Int /\ u \in Int /\ h \in {0, 1}
        /\ a \in Nat /\ b \in Nat /\ x \in Nat /\ y \in Nat /\ a < b /\ x < y
        /\ x + u <= b /\ a <= y + u
        /\ A0 <= a + h /\ A0 + As >= b /\ B0 <= x /\ B0 + Bs >= y + h
        /\ z = smaller(A0 + As - 1, B0 + u + Bs - 1) - larger(A0, B0 + u) + 1
    BY <1>3, <1>5, <1>6, <1>12, <1>13, <1>14
  <2> HIDE DEF A0, As, B0, Bs, u, a, b, x, y, z
  <2>2. z >= 0 /\ z \in Int
    BY <2>1 DEF smaller, larger
  <2>3. QED BY <2>2 DEF z
<1>16. X.size[i] # 0
  BY <1>9, GridFacts
<1>17. X.size[i] > 0
  <2> HIDE DEF X
  <2>1. QED BY <1>15, <1>16
<1>18. QED BY <1>17 DEF X, A, S, B, q

-----------------------------------------------------------------------------
(* The entry of p at position j for the grids A that it sends or receives  *)
(* on, and the entry of its neighbour at the position counted from the     *)
(* other end.  G are the grids of all processes on level l.                *)
GridsOn(G, l) == \A p \in Procs : G[p] \in YGridLevels /\ LevelInv(p, G[p], l)
Neighbours(G, p) == [q \in Partners(p) |-> G[q]]

SendEntry(G, p, f, r, l, j) == Entry(p, part(f[1], G[p], r), Neighbours(G, p), f[2], r, l, j)
RecvEntry(G, p, f, r, l, j) == Entry(p, part(f[2], G[p], r), Neighbours(G, p), f[1], r, l, j)

LEMMA HaveNeighbours ==
  ASSUME Config, dims # NoDims, NEW G, NEW l, GridsOn(G, l), NEW p \in Procs
  PROVE  HaveGrids(p, Neighbours(G, p))
<1>1. Partners(p) \subseteq Procs
  <2>1. dims \in Seq(Nat \ {0}) /\ Ranks(dims) = Procs
    BY ConfigFacts
  <2>2. QED BY <2>1, NeighborListsFit DEF Partners
<1>2. QED BY <1>1 DEF HaveGrids, Neighbours, GridsOn

LEMMA EntryIs ==
  ASSUME Config, dims # NoDims, NEW G, NEW l, GridsOn(G, l), NEW p \in Procs,
         NEW y, NEW name, NEW r, NEW j \in 1..neighbors(dims)
  PROVE  LET e == Entry(p, y, Neighbours(G, p), name, r, l, j)
             q == partner(dims, p, nonzeroDelta(dims, j))
         IN  /\ e.rank = q /\ q = recvlist(dims, p)[j].rank
             /\ e.grid = intersection(y, sentgrid(q, nonzeroDelta(dims, neighbors(dims) + 1 - j),
                                                  part(name, G[q], r), l))
<1> DEFINE q == recvlist(dims, p)[j].rank
<1>1. dims \in Seq(Nat \ {0})
  BY ConfigFacts
<1>2. /\ q = partner(dims, p, nonzeroDelta(dims, j))
      /\ sendlist(dims, q)[j].delta = nonzeroDelta(dims, neighbors(dims) + 1 - j)
  BY <1>1, ListEntries
<1>3. q \in Partners(p)
  BY DEF Partners
<1>4. Neighbours(G, p)[q] = G[q]
  BY <1>3 DEF Neighbours
<1>5. Entry(p, y, Neighbours(G, p), name, r, l, j) =
        [grid |-> intersection(y, sentgrid(q, sendlist(dims, q)[j].delta,
                                           part(name, Neighbours(G, p)[q], r), l)),
         rank |-> q]
  BY DEF Entry
<1> HIDE DEF q
<1>6. QED BY <1>2, <1>4, <1>5 DEF q

LEMMA EntriesFit ==
  ASSUME Config, Accepted, NEW G, NEW l \in Nat \ {0}, GridsOn(G, l),
         NEW p \in Procs, NEW q \in Procs, NEW f \in Interfaces, NEW r \in Shifts,
         NEW j \in 1..neighbors(dims), NEW k \in 1..neighbors(dims), k = neighbors(dims) + 1 - j
  PROVE  LET x == SendEntry(G, p, f, r, l, j)
             y == RecvEntry(G, q, f, r, l, k)
         IN  /\ x.rank = q <=> y.rank = p
             /\ x.rank = q =>
                  /\ empty(x.grid) <=> empty(y.grid)
                  /\ x.grid.size = y.grid.size /\ Same(x.grid.origin, y.grid.origin, l)
                  /\ ~empty(x.grid) => \A i \in Dir : x.grid.size[i] > 0
<1> DEFINE x == SendEntry(G, p, f, r, l, j)
           y == RecvEntry(G, q, f, r, l, k)
           N == neighbors(dims)
           delta == nonzeroDelta(dims, j)
           back == nonzeroDelta(dims, k)
           A == part(f[1], G[p], r)
           B == part(f[2], G[q], r)
<1>1. dims # NoDims /\ dims \in Seq(Nat \ {0}) /\ Ranks(dims) = Procs /\ Dirs(dims) = Dir
  BY ConfigFacts DEF Accepted
<1>2. N \in Nat /\ j = N + 1 - k /\ j \in 1..N /\ k \in 1..N
  BY <1>1, NeighborListsFit
<1> HIDE DEF N
<1>3. /\ x.rank = partner(dims, p, delta) /\ x.rank = recvlist(dims, p)[j].rank
      /\ x.grid = intersection(A, sentgrid(partner(dims, p, delta), back,
                                           part(f[2], G[partner(dims, p, delta)], r), l))
  BY <1>1, EntryIs DEF SendEntry
<1>4. /\ y.rank = partner(dims, q, back) /\ y.rank = recvlist(dims, q)[k].rank
      /\ y.grid = intersection(B, sentgrid(partner(dims, q, back), nonzeroDelta(dims, N + 1 - k),
                                           part(f[1], G[partner(dims, q, back)], r), l))
  BY <1>1, EntryIs DEF RecvEntry, N
<1>5. x.rank = q <=> y.rank = p
  <2>1. sendlist(dims, p)[k].rank = q <=> recvlist(dims, q)[k].rank = p
    BY <1>1, NeighborListsFit
  <2>2. sendlist(dims, p)[k].rank = partner(dims, p, nonzeroDelta(dims, N + 1 - k))
    BY <1>1, ListEntries DEF N
  <2>3. QED BY <1>2, <1>3, <1>4, <2>1, <2>2
<1> SUFFICES ASSUME x.rank = q
             PROVE  /\ empty(x.grid) <=> empty(y.grid)
                    /\ x.grid.size = y.grid.size /\ Same(x.grid.origin, y.grid.origin, l)
                    /\ ~empty(x.grid) => \A i \in Dir : x.grid.size[i] > 0
  <2> HIDE DEF x, y
  <2>1. QED BY <1>5 DEF x, y
<1>6. q = partner(dims, p, delta) /\ p = partner(dims, q, back)
  BY <1>3, <1>4, <1>5
<1>7. x.grid = intersection(A, sentgrid(q, back, B, l)) /\ y.grid = intersection(B, sentgrid(p, delta, A, l))
  BY <1>2, <1>3, <1>4, <1>6
<1>8. \A i \in Dir : delta[i] \in {-1, 0, 1} /\ back[i] = -delta[i]
  BY <1>1, ListEntries
<1>9. /\ G[p] \in YGridLevels /\ LevelInv(p, G[p], l) /\ G[q] \in YGridLevels /\ LevelInv(q, G[q], l)
      /\ f[1] \in PartNames /\ f[2] \in PartNames
  BY DEF GridsOn, Interfaces, PartNames
<1>10. A \in Grids /\ B \in Grids
  BY <1>9, PartType
<1> HIDE DEF x, y, delta, back
<1>11. /\ x.grid.size = y.grid.size /\ Same(x.grid.origin, y.grid.origin, l)
       /\ empty(x.grid) <=> empty(y.grid)
  <2> HIDE DEF A, B
  <2> DEFINE X == intersection(A, sentgrid(partner(dims, p, delta), back, B, l))
             Y == intersection(B, sentgrid(p, delta, A, l))
  <2> DEFINE fits(e, d) == e.size = d.size /\ Same(e.origin, d.origin, l) /\ (empty(e) <=> empty(d))
  <2>1. fits(X, Y)
    <3>1. \A i \in Dir : delta[i] \in {-1, 0, 1} /\ back[i] = -delta[i]
      BY <1>8
    <3>2. Views(X, Y, l)
      BY <1>1, <3>1, <1>10, TwoViews
    <3> HIDE DEF X, Y
    <3>3. QED BY <3>2 DEF Views
  <2>2. x.grid = X /\ y.grid = Y
    BY <1>6, <1>7
  <2> HIDE DEF X, Y
  <2>3. QED BY <2>1, <2>2
<1>12. ASSUME ~empty(x.grid), NEW i \in Dir PROVE x.grid.size[i] > 0
  <2>1. ~empty(intersection(A, sentgrid(partner(dims, p, delta), back, B, l)))
    BY <1>6, <1>7, <1>12
  <2>2. intersection(A, sentgrid(partner(dims, p, delta), back, B, l)).size[i] > 0
    BY <1>6, <1>8, <1>9, <2>1, PositiveSize
  <2>3. QED BY <1>6, <1>7, <2>2
<1>13. QED BY <1>11, <1>12

(* The two lists of a process and its neighbour, made from the same grids. *)
MatchedLists(s, t, l) ==
  /\ Len(s) = Len(t)
  /\ \A k \in 1..Len(s) :
       /\ s[k].grid.size = t[k].grid.size
       /\ \A i \in Dir : s[k].grid.size[i] > 0
       /\ Same(s[k].grid.origin, t[k].grid.origin, l)

Entries(p, y, q_grid, name, r, l) ==
  [j \in 1..neighbors(dims) |-> Entry(p, y, q_grid, name, r, l, j)]
Nonempty(u) == {j \in 1..neighbors(dims) : ~empty(u[j].grid)}

LEMMA MetPicks ==
  ASSUME Config, dims # NoDims, NEW p \in Procs, NEW q_grid, HaveGrids(p, q_grid),
         NEW y \in Grids, NEW name \in PartNames, NEW r \in Shifts, NEW l \in Nat \ {0}
  PROVE  /\ neighbors(dims) \in Nat /\ met(p, y, q_grid, name, r, l) \in Seq(Intersections)
         /\ \E pos : Picks(met(p, y, q_grid, name, r, l), Entries(p, y, q_grid, name, r, l), pos,
                           Nonempty(Entries(p, y, q_grid, name, r, l)))
<1> DEFINE N == neighbors(dims)
           all == Entries(p, y, q_grid, name, r, l)
           J == Nonempty(all)
<1>1. N \in Nat
  BY ConfigFacts, NeighborListsFit
<1>2. \A j \in 1..N : Entry(p, y, q_grid, name, r, l, j) \in Intersections
  BY EntryType
<1>3. all \in Seq(Intersections) /\ Len(all) = N
  <2>1. all = [j \in 1..N |-> Entry(p, y, q_grid, name, r, l, j)]
    BY DEF Entries
  <2> HIDE DEF N, all
  <2>2. QED BY <1>1, <1>2, <2>1
<1>4. met(p, y, q_grid, name, r, l) = chosen(all, J)
  BY MetIsChosen DEF Entries, Nonempty
<1>5. {k \in 1..N : k \in J} = J
  BY DEF Nonempty
<1> HIDE DEF all, J, N
<1>6. chosen(all, J) \in Seq(Intersections)
  BY <1>3, ChosenType
<1>7. \E pos : Picks(chosen(all, J), all, pos, J)
  BY <1>3, <1>5, ChosenPicks
<1>8. QED BY <1>1, <1>4, <1>6, <1>7 DEF all, N, J

(* The messages from p to q: what p sends and q receives at opposite       *)
(* positions of their lists of neighbours, where they are each other's     *)
(* neighbours and their grids meet.                                        *)
Pairs(s, t, G, p, q, f, r, l) ==
  /\ Len(s) \in Nat /\ Len(s) = Len(t)
  /\ \A a \in 1..Len(s) : \E k \in 1..neighbors(dims) :
       /\ s[a] = SendEntry(G, p, f, r, l, neighbors(dims) + 1 - k)
       /\ t[a] = RecvEntry(G, q, f, r, l, k) /\ t[a].rank = p /\ ~empty(t[a].grid)
  /\ \A k \in 1..neighbors(dims) :
       RecvEntry(G, q, f, r, l, k).rank = p /\ ~empty(RecvEntry(G, q, f, r, l, k).grid) =>
         \E a \in 1..Len(s) : /\ s[a] = SendEntry(G, p, f, r, l, neighbors(dims) + 1 - k)
                              /\ t[a] = RecvEntry(G, q, f, r, l, k)

LEMMA ListsPaired ==
  ASSUME Config, Accepted, NEW G, NEW l \in Nat \ {0}, GridsOn(G, l),
         NEW p \in Procs, NEW q \in Procs, NEW f \in Interfaces, NEW r \in Shifts
  PROVE  Pairs(With(Reverse(met(p, part(f[1], G[p], r), Neighbours(G, p), f[2], r, l)), q),
               With(met(q, part(f[2], G[q], r), Neighbours(G, q), f[1], r, l), p), G, p, q, f, r, l)
<1> DEFINE N == neighbors(dims)
           sent == met(p, part(f[1], G[p], r), Neighbours(G, p), f[2], r, l)
           received == met(q, part(f[2], G[q], r), Neighbours(G, q), f[1], r, l)
           s == With(Reverse(sent), q)
           t == With(received, p)
           x == Entries(p, part(f[1], G[p], r), Neighbours(G, p), f[2], r, l)
           y == Entries(q, part(f[2], G[q], r), Neighbours(G, q), f[1], r, l)
           z == [j \in 1..N |-> x[N+1-j]]
           J == Nonempty(x)
           K == Nonempty(y)
           L == {N + 1 - j : j \in J}
<1>1. dims # NoDims /\ f[1] \in PartNames /\ f[2] \in PartNames
  BY DEF Accepted, Interfaces, PartNames
<1>2. /\ part(f[1], G[p], r) \in Grids /\ part(f[2], G[q], r) \in Grids
      /\ HaveGrids(p, Neighbours(G, p)) /\ HaveGrids(q, Neighbours(G, q))
  <2>1. G[p] \in YGridLevels /\ G[q] \in YGridLevels
    BY DEF GridsOn
  <2>2. QED BY <1>1, <2>1, PartType, HaveNeighbours
<1>3. N \in Nat /\ sent \in Seq(Intersections) /\ \E pos : Picks(sent, x, pos, J)
  BY <1>1, <1>2, MetPicks
<1>4. received \in Seq(Intersections) /\ \E pos : Picks(received, y, pos, K)
  BY <1>1, <1>2, MetPicks
<1>5. Reverse(sent) \in Seq(Intersections)
  BY <1>3, ReverseType
<1>6. \E pos : Picks(Reverse(sent), z, pos, L)
  <2>1. J \subseteq 1..N
    BY DEF Nonempty
  <2> HIDE DEF N, sent, x, J
  <2>2. PICK pos : Picks(sent, x, pos, J)
    BY <1>3
  <2>3. QED BY <1>3, <2>1, <2>2, PickedBack
<1> HIDE DEF sent, received
<1>7. L \in SUBSET Int /\ K \in SUBSET Int
  <2>1. J \subseteq 1..N /\ K \subseteq 1..N
    BY DEF Nonempty
  <2> HIDE DEF J, K, N
  <2>2. QED BY <1>3, <2>1
<1>8. Len(s) \in Nat /\ \E pos : Picks(s, z, pos, WithRank(z, L, q))
  <2> HIDE DEF z, L
  <2>1. PICK pos : Picks(Reverse(sent), z, pos, L)
    BY <1>6
  <2>2. QED BY <1>5, <1>7, <2>1, WithPicks
<1>9. Len(t) \in Nat /\ \E pos : Picks(t, y, pos, WithRank(y, K, p))
  <2> HIDE DEF y, K
  <2>1. PICK pos : Picks(received, y, pos, K)
    BY <1>4
  <2>2. QED BY <1>4, <1>7, <2>1, WithPicks
<1>10. ASSUME NEW k \in 1..N
       PROVE  /\ z[k] = SendEntry(G, p, f, r, l, N + 1 - k) /\ y[k] = RecvEntry(G, q, f, r, l, k)
              /\ z[k].rank = q <=> y[k].rank = p
              /\ z[k].rank = q => (empty(z[k].grid) <=> empty(y[k].grid))
  <2> DEFINE j == N + 1 - k
  <2>1. j \in 1..N /\ k = N + 1 - j
    BY <1>3
  <2>2. z[k] = SendEntry(G, p, f, r, l, j) /\ y[k] = RecvEntry(G, q, f, r, l, k)
    BY <2>1 DEF Entries, SendEntry, RecvEntry
  <2> HIDE DEF j, z, y
  <2>3. /\ z[k].rank = q <=> y[k].rank = p
        /\ z[k].rank = q => (empty(z[k].grid) <=> empty(y[k].grid))
    BY <2>1, <2>2, EntriesFit DEF N
  <2>4. QED BY <2>2, <2>3 DEF j
<1> HIDE DEF x, y, N
<1>11. L = {k \in 1..N : ~empty(z[k].grid)}
  <2>1. ASSUME NEW j \in J PROVE N + 1 - j \in 1..N /\ ~empty(z[N+1-j].grid)
    <3>1. N + 1 - j \in 1..N /\ N + 1 - (N + 1 - j) = j /\ j \in 1..N /\ ~empty(x[j].grid)
      BY <1>3 DEF Nonempty, N
    <3>2. z[N+1-j] = x[j]
      BY <3>1
    <3>3. QED BY <3>1, <3>2
  <2>2. ASSUME NEW k \in 1..N, ~empty(z[k].grid) PROVE \E j \in J : k = N + 1 - j
    <3>1. N + 1 - k \in 1..N /\ k = N + 1 - (N + 1 - k)
      BY <1>3
    <3>2. z[k] = x[N+1-k]
      OBVIOUS
    <3>3. QED BY <3>1, <3>2, <2>2 DEF Nonempty, N
  <2> HIDE DEF z, J
  <2>3. QED BY <2>1, <2>2
<1> HIDE DEF z, L
<1>12. WithRank(z, L, q) = WithRank(y, K, p)
  <2>1. K = {k \in 1..N : ~empty(y[k].grid)}
    BY DEF Nonempty, N
  <2>2. QED BY <1>10, <1>11, <2>1 DEF WithRank
<1> DEFINE P == WithRank(y, K, p)
<1>13. P \in SUBSET Int /\ \A k \in 1..N : k \in P <=> y[k].rank = p /\ ~empty(y[k].grid)
  <2>1. K = {k \in 1..N : ~empty(y[k].grid)}
    BY DEF Nonempty, N
  <2> HIDE DEF K
  <2>2. QED BY <1>7, <2>1 DEF WithRank
<1>14. P \subseteq 1..N
  BY DEF Nonempty, N, WithRank
<1> HIDE DEF K, P, s, t
<1>15. PICK pos : Picks(s, z, pos, P)
  BY <1>8, <1>12 DEF P
<1>16. PICK rho : Picks(t, y, rho, P)
  BY <1>9 DEF P
<1>17. Len(s) = Len(t) /\ \A a \in 1..Len(s) : pos[a] = rho[a]
  BY <1>8, <1>9, <1>13, <1>15, <1>16, SamePositions
<1>18. ASSUME NEW a \in 1..Len(s)
       PROVE  pos[a] \in P /\ pos[a] \in 1..N /\ s[a] = z[pos[a]] /\ t[a] = y[pos[a]]
  BY <1>14, <1>15, <1>16, <1>17 DEF Picks
<1>19. ASSUME NEW a \in 1..Len(s)
       PROVE  \E k \in 1..N : /\ s[a] = SendEntry(G, p, f, r, l, N + 1 - k)
                              /\ t[a] = RecvEntry(G, q, f, r, l, k) /\ t[a].rank = p /\ ~empty(t[a].grid)
  <2> DEFINE k == pos[a]
  <2>1. k \in 1..N /\ k \in P /\ s[a] = z[k] /\ t[a] = y[k]
    BY <1>18
  <2> HIDE DEF k
  <2>2. QED BY <1>10, <1>13, <2>1
<1>20. ASSUME NEW k \in 1..N, RecvEntry(G, q, f, r, l, k).rank = p, ~empty(RecvEntry(G, q, f, r, l, k).grid)
       PROVE  \E a \in 1..Len(s) : /\ s[a] = SendEntry(G, p, f, r, l, N + 1 - k)
                                   /\ t[a] = RecvEntry(G, q, f, r, l, k)
  <2>1. k \in P
    BY <1>10, <1>13, <1>20
  <2>2. PICK a \in 1..Len(s) : pos[a] = k
    BY <1>15, <2>1 DEF Picks
  <2>3. QED BY <1>10, <1>18, <2>2
<1>21. Pairs(s, t, G, p, q, f, r, l)
  BY <1>8, <1>17, <1>19, <1>20 DEF Pairs, N
<1>22. QED BY <1>21 DEF s, t, sent, received

LEMMA ListsFit ==
  ASSUME Config, Accepted, NEW G, NEW l \in Nat \ {0}, GridsOn(G, l),
         NEW p \in Procs, NEW q \in Procs, NEW f \in Interfaces, NEW r \in Shifts,
         NEW s, NEW t, Pairs(s, t, G, p, q, f, r, l)
  PROVE  MatchedLists(s, t, l)
<1> DEFINE N == neighbors(dims)
<1>1. N \in Nat
  BY ConfigFacts, NeighborListsFit DEF Accepted
<1>2. ASSUME NEW a \in 1..Len(s)
      PROVE  /\ s[a].grid.size = t[a].grid.size
             /\ \A i \in Dir : s[a].grid.size[i] > 0
             /\ Same(s[a].grid.origin, t[a].grid.origin, l)
  <2>1. PICK k \in 1..N : /\ s[a] = SendEntry(G, p, f, r, l, N + 1 - k)
                          /\ t[a] = RecvEntry(G, q, f, r, l, k) /\ t[a].rank = p /\ ~empty(t[a].grid)
    BY <1>2 DEF Pairs
  <2> DEFINE j == N + 1 - k
  <2>2. j \in 1..N /\ k = N + 1 - j
    BY <1>1
  <2> HIDE DEF j, N
  <2>3. QED BY <2>1, <2>2, EntriesFit DEF j, N
<1>3. QED BY <1>2 DEF Pairs, MatchedLists

-----------------------------------------------------------------------------
(* What the calls of the common program have made, up to the k-th: the     *)
(* number of levels, the number of grids published, and of every level the *)
(* number of the grid it was made from.  All processes use it, each at its *)
(* own place in the program.                                               *)
Histories == [height : [Nat -> Nat], made : [Nat -> Nat], of : [Nat -> [Nat -> Nat]]]

Grows(c) == c.name = "globalRefine" /\ c.arg > 0

HeightAfter(c, n) == IF c.name = "globalRefine" /\ -c.arg < n THEN n + c.arg ELSE n
MadeAfter(c, m) == IF Grows(c) THEN m + c.arg ELSE m
OfAfter(c, of, n, m) ==
  IF Grows(c) THEN [l \in Nat |-> IF l <= n THEN of[l] ELSE m + (l - n)] ELSE of

Recorded(h, k, c) ==
  /\ h.height[k] = HeightAfter(c, h.height[k-1])
  /\ h.made[k] = MadeAfter(c, h.made[k-1])
  /\ h.of[k] = OfAfter(c, h.of[k-1], h.height[k-1], h.made[k-1])

History(h) ==
  /\ h \in Histories
  /\ h.height[0] = 1 /\ h.made[0] = 1 /\ h.of[0][1] = 1
  /\ \A k \in 1..Len(calls) : Recorded(h, k, calls[k])

SameUpTo(n, g, h) ==
  \A k \in 0..n : g.height[k] = h.height[k] /\ g.made[k] = h.made[k] /\ g.of[k] = h.of[k]

(* Level l of p was made from the n-th grids that p and its neighbours     *)
(* published; while p waits for them, the finest level is its own grid.    *)
Arriving(p, n) == [q \in Partners(p) |-> published[q][n]]

Arrives(p, l, n) ==
  /\ \A q \in Partners(p) : Len(published[q]) >= n
  /\ level[p][l] = intersections(p, published[p][n], Arriving(p, n), l)

Content(p, l, n) ==
  IF phase[p] = "exchange" /\ l = Len(level[p])
  THEN n = Len(published[p]) /\ level[p][l] = published[p][n]
  ELSE Arrives(p, l, n)

(* Where a process is that has begun done[p] calls and has still todo[p]   *)
(* levels to make in the last.                                             *)
Stands(p, h) ==
  /\ phase[p] = "start" => done[p] = 0 /\ todo[p] = 0
  /\ phase[p] \in {"exchange", "ready"} =>
       /\ Len(level[p]) + todo[p] = h.height[done[p]]
       /\ Len(published[p]) + todo[p] = h.made[done[p]]
       /\ todo[p] # 0 => done[p] >= 1 /\ Grows(calls[done[p]]) /\ todo[p] <= calls[done[p]].arg
       /\ \A l \in 1..Len(level[p]) : /\ h.of[done[p]][l] \in 1..Len(published[p])
                                      /\ Content(p, l, h.of[done[p]][l])

HistoryInv == \E h \in Histories : History(h) /\ \A p \in Procs : Stands(p, h)

LEMMA HistoryTypes ==
  ASSUME NEW h \in Histories, NEW k \in Nat
  PROVE  h.height[k] \in Nat /\ h.made[k] \in Nat /\ h.of[k] \in [Nat -> Nat]
  BY DEF Histories

(* A record of the calls can be continued with any call. *)
LEMMA AfterTypes ==
  ASSUME NEW c \in Calls, NEW n \in Nat, NEW m \in Nat, NEW of \in [Nat -> Nat]
  PROVE  /\ HeightAfter(c, n) \in Nat /\ MadeAfter(c, m) \in Nat
         /\ OfAfter(c, of, n, m) \in [Nat -> Nat]
<1>1. c.name = "globalRefine" => c.arg \in Int
  BY DEF Calls
<1>2. HeightAfter(c, n) \in Nat
  BY <1>1 DEF HeightAfter
<1>3. MadeAfter(c, m) \in Nat
  BY <1>1 DEF MadeAfter, Grows
<1>4. OfAfter(c, of, n, m) \in [Nat -> Nat]
  <2>1. \A l \in Nat : (IF l <= n THEN of[l] ELSE m + (l - n)) \in Nat
    OBVIOUS
  <2>2. [l \in Nat |-> IF l <= n THEN of[l] ELSE m + (l - n)] \in [Nat -> Nat]
    BY <2>1
  <2>3. QED BY <2>2 DEF OfAfter
<1>5. QED BY <1>2, <1>3, <1>4

LEMMA Continued ==
  ASSUME NEW h \in Histories, NEW J \in Nat, NEW c \in Calls
  PROVE  \E g \in Histories : SameUpTo(J, g, h) /\ Recorded(g, J + 1, c)
<1> DEFINE n == HeightAfter(c, h.height[J])
           m == MadeAfter(c, h.made[J])
           of == OfAfter(c, h.of[J], h.height[J], h.made[J])
           height == [k \in Nat |-> IF k = J + 1 THEN n ELSE h.height[k]]
           made == [k \in Nat |-> IF k = J + 1 THEN m ELSE h.made[k]]
           ofs == [k \in Nat |-> IF k = J + 1 THEN of ELSE h.of[k]]
           g == [height |-> height, made |-> made, of |-> ofs]
<1>1. n \in Nat /\ m \in Nat /\ of \in [Nat -> Nat]
  BY HistoryTypes, AfterTypes
<1> HIDE DEF n, m, of
<1>2. height \in [Nat -> Nat] /\ made \in [Nat -> Nat] /\ ofs \in [Nat -> [Nat -> Nat]]
  BY <1>1, HistoryTypes
<1>3. g.height = height /\ g.made = made /\ g.of = ofs /\ g \in Histories
  BY <1>2 DEF Histories
<1> HIDE DEF g
<1>4. ASSUME NEW k \in 0..J
      PROVE  g.height[k] = h.height[k] /\ g.made[k] = h.made[k] /\ g.of[k] = h.of[k]
  <2>1. k \in Nat /\ k # J + 1
    OBVIOUS
  <2>2. QED BY <1>3, <2>1
<1>5. SameUpTo(J, g, h)
  BY <1>4 DEF SameUpTo
<1>6. g.height[J+1] = n /\ g.made[J+1] = m /\ g.of[J+1] = of
  BY <1>3
<1>7. J \in 0..J /\ (J + 1) - 1 = J
  OBVIOUS
<1>8. g.height[(J+1)-1] = h.height[J] /\ g.made[(J+1)-1] = h.made[J] /\ g.of[(J+1)-1] = h.of[J]
  BY <1>4, <1>7
<1>9. Recorded(g, J + 1, c)
  BY <1>6, <1>8 DEF Recorded, n, m, of
<1>10. QED BY <1>3, <1>5, <1>9

(* The calls that are there are never changed, and the next call of a      *)
(* process is the one it makes.                                            *)
LEMMA NextHistory ==
  ASSUME TypeInv, NEW h, History(h), NEW p \in Procs, NEW c \in Calls, MakesCall(p, c)
  PROVE  /\ done[p] + 1 \in 1..Len(calls') /\ calls'[done[p]+1] = c
         /\ \A k \in 1..Len(calls) : calls'[k] = calls[k]
         /\ \E g \in Histories : History(g)' /\ SameUpTo(Len(calls), g, h)
<1>1. /\ calls \in Seq(Calls) /\ Len(calls) \in Nat /\ done[p] \in Nat /\ done[p] <= Len(calls)
      /\ h \in Histories
  BY DEF TypeInv, History
<1>2. CASE done[p] < Len(calls)
  <2>1. calls' = calls /\ c = calls[done[p]+1]
    BY <1>2 DEF MakesCall
  <2>2. History(h)'
    BY <2>1 DEF History
  <2>3. SameUpTo(Len(calls), h, h)
    BY DEF SameUpTo
  <2>4. QED BY <1>1, <1>2, <2>1, <2>2, <2>3
<1>3. CASE ~ (done[p] < Len(calls))
  <2> DEFINE J == Len(calls)
  <2>1. calls' = Append(calls, c)
    BY <1>3 DEF MakesCall
  <2>2. Len(calls') = J + 1 /\ calls'[J+1] = c /\ \A k \in 1..J : calls'[k] = calls[k]
    BY <1>1, <2>1
  <2>3. done[p] = J /\ J \in Nat
    BY <1>1, <1>3
  <2> HIDE DEF J
  <2>4. PICK g \in Histories : SameUpTo(J, g, h) /\ Recorded(g, J + 1, c)
    BY <1>1, <2>3, Continued
  <2>5. g.height[0] = 1 /\ g.made[0] = 1 /\ g.of[0][1] = 1
    <3>1. 0 \in 0..J
      BY <2>3
    <3>2. QED BY <2>4, <3>1 DEF SameUpTo, History
  <2>6. ASSUME NEW k \in 1..J+1 PROVE Recorded(g, k, calls'[k])
    <3>1. CASE k = J + 1
      BY <2>2, <2>4, <3>1
    <3>2. CASE k # J + 1
      <4>1. k \in 1..J /\ k \in 0..J /\ k - 1 \in 0..J
        BY <2>3, <3>2
      <4>2. Recorded(h, k, calls[k]) /\ calls'[k] = calls[k]
        BY <4>1, <2>2 DEF History, J
      <4>3. /\ g.height[k] = h.height[k] /\ g.made[k] = h.made[k] /\ g.of[k] = h.of[k]
            /\ g.height[k-1] = h.height[k-1] /\ g.made[k-1] = h.made[k-1] /\ g.of[k-1] = h.of[k-1]
        BY <2>4, <4>1 DEF SameUpTo
      <4>4. QED BY <4>2, <4>3 DEF Recorded
    <3>3. QED BY <3>1, <3>2
  <2>7. History(g)'
    BY <2>2, <2>5, <2>6 DEF History
  <2>8. QED BY <2>2, <2>3, <2>4, <2>7 DEF J
<1>4. QED BY <1>2, <1>3

LEMMA MetNext ==
  ASSUME NEW p, NEW y, NEW q_grid, NEW name, NEW r, NEW l
  PROVE  (met(p, y, q_grid, name, r, l) =
            chosen(Entries(p, y, q_grid, name, r, l), Nonempty(Entries(p, y, q_grid, name, r, l))))'
<1>1. met(p, y, q_grid, name, r, l) =
        chosen(Entries(p, y, q_grid, name, r, l), Nonempty(Entries(p, y, q_grid, name, r, l)))
  BY MetIsChosen DEF Entries, Nonempty
<1>2. QED BY <1>1, PTL

(* No step changes what intersections() makes of the same grids, and a     *)
(* grid once published stays.                                              *)
LEMMA SameIntersections ==
  ASSUME UNCHANGED <<args, dims>>
  PROVE  /\ \A p : Partners(p)' = Partners(p)
         /\ \A p, g, q_grid, l : intersections(p, g, q_grid, l)' = intersections(p, g, q_grid, l)
<1>1. Dir' = Dir
  BY DEF Dir
<1>2. \A name, g, r : part(name, g, r)' = part(name, g, r)
  BY <1>1 DEF part, interior, interiorborder, overlap, overlapfront, cut, half
<1>3. \A p, d : outside(p, d)' = outside(p, d)
  BY <1>1 DEF outside
<1>4. \A l : levelSize(l)' = levelSize(l)
  BY <1>1 DEF levelSize
<1>5. \A p, d, y, l : sentgrid(p, d, y, l)' = sentgrid(p, d, y, l)
  BY <1>1, <1>3, <1>4 DEF sentgrid
<1>6. ASSUME NEW p, NEW y, NEW q_grid, NEW name, NEW r, NEW l
      PROVE  met(p, y, q_grid, name, r, l)' = met(p, y, q_grid, name, r, l)
  <2>1. \A j : Entry(p, y, q_grid, name, r, l, j)' = Entry(p, y, q_grid, name, r, l, j)
    BY <1>2, <1>5 DEF Entry
  <2>2. Entries(p, y, q_grid, name, r, l)' = Entries(p, y, q_grid, name, r, l)
    BY <2>1 DEF Entries
  <2>3. \A u : Nonempty(u)' = Nonempty(u)
    BY DEF Nonempty
  <2> DEFINE u == Entries(p, y, q_grid, name, r, l)
  <2>4. met(p, y, q_grid, name, r, l) = chosen(u, Nonempty(u))
    BY MetIsChosen DEF Entries, Nonempty
  <2>5. met(p, y, q_grid, name, r, l)' = chosen(u, Nonempty(u))'
    BY MetNext
  <2>6. QED BY <2>2, <2>3, <2>4, <2>5
<1>7. Shifts' = Shifts
  BY <1>1 DEF Shifts
<1>8. ASSUME NEW p, NEW g, NEW q_grid, NEW l
      PROVE  intersections(p, g, q_grid, l)' = intersections(p, g, q_grid, l)
  BY <1>2, <1>6, <1>7 DEF intersections
<1>9. \A p : Partners(p)' = Partners(p)
  BY DEF Partners
<1>10. QED BY <1>8, <1>9

Keeps(s, t) == Len(t) \in Nat /\ Len(t) >= Len(s) /\ \A n \in 1..Len(s) : t[n] = s[n]

LEMMA PartnersAre ==
  ASSUME Config, dims # NoDims, NEW p \in Procs
  PROVE  Partners(p) \subseteq Procs
<1>1. dims \in Seq(Nat \ {0}) /\ Ranks(dims) = Procs
  BY ConfigFacts
<1>2. QED BY <1>1, NeighborListsFit DEF Partners

LEMMA ArrivesKept ==
  ASSUME TypeInv, dims # NoDims, UNCHANGED <<args, dims>>, NEW p \in Procs, NEW l,
         NEW n \in 1..Len(published[p]), Arrives(p, l, n), level'[p][l] = level[p][l],
         \A q \in Procs : Keeps(published[q], published'[q])
  PROVE  Arrives(p, l, n)'
<1>1. Partners(p) \subseteq Procs /\ Partners(p)' = Partners(p)
  BY PartnersAre, SameIntersections DEF TypeInv
<1>2. \A q \in Procs : Len(published[q]) \in Nat
  BY DEF TypeInv
<1>3. ASSUME NEW q \in Procs, Len(published[q]) >= n
      PROVE  Len(published'[q]) >= n /\ published'[q][n] = published[q][n]
  <2>1. n \in 1..Len(published[q]) /\ Len(published'[q]) \in Nat /\ Len(published'[q]) >= Len(published[q])
    BY <1>2, <1>3 DEF Keeps
  <2>2. QED BY <1>2, <2>1 DEF Keeps
<1>4. Len(published[p]) >= n
  BY <1>2
<1>5. \A q \in Partners(p) : Len(published[q]) >= n
  BY DEF Arrives
<1>6. published'[p][n] = published[p][n] /\ Arriving(p, n)' = Arriving(p, n)
  BY <1>1, <1>3, <1>4, <1>5 DEF Arriving
<1>7. level[p][l] = intersections(p, published[p][n], Arriving(p, n), l)
  BY DEF Arrives
<1>8. \A g, q_grid : intersections(p, g, q_grid, l)' = intersections(p, g, q_grid, l)
  BY SameIntersections
<1>9. QED BY <1>1, <1>3, <1>5, <1>6, <1>7, <1>8 DEF Arrives

(* A process that does nothing keeps its place. *)
LEMMA PlaceKept ==
  ASSUME TypeInv, UNCHANGED <<args, dims>>, NEW q \in Procs, NEW h, NEW g, Stands(q, h),
         SameUpTo(Len(calls), g, h), \A k \in 1..Len(calls) : calls'[k] = calls[k],
         phase'[q] = phase[q], level'[q] = level[q], done'[q] = done[q], todo'[q] = todo[q],
         published'[q] = published[q], \A x \in Procs : Keeps(published[x], published'[x])
  PROVE  Stands(q, g)'
<1>0. PICK k : k = done[q]
  OBVIOUS
<1>1. k \in Nat /\ k <= Len(calls) /\ Len(calls) \in Nat /\ todo[q] \in Nat
  BY <1>0 DEF TypeInv
<1>2. g.height[k] = h.height[k] /\ g.made[k] = h.made[k] /\ g.of[k] = h.of[k]
  <2>1. k \in 0..Len(calls)
    BY <1>1
  <2>2. QED BY <2>1 DEF SameUpTo
<1>3. k >= 1 => calls'[k] = calls[k]
  BY <1>1
<1>4. ASSUME phase[q] \in {"exchange", "ready"}, NEW l \in 1..Len(level[q])
      PROVE  /\ h.of[k][l] \in 1..Len(published[q])
             /\ Content(q, l, h.of[k][l])'
  <2> DEFINE n == h.of[k][l]
  <2>1. n \in 1..Len(published[q]) /\ Content(q, l, n)
    BY <1>0, <1>4 DEF Stands
  <2> HIDE DEF n
  <2>2. CASE phase[q] = "exchange" /\ l = Len(level[q])
    <3>1. n = Len(published[q]) /\ level[q][l] = published[q][n]
      BY <2>1, <2>2 DEF Content
    <3>2. Content(q, l, n)'
      BY <2>2, <3>1 DEF Content
    <3>3. QED BY <2>1, <3>2 DEF n
  <2>3. CASE ~ (phase[q] = "exchange" /\ l = Len(level[q]))
    <3>1. Arrives(q, l, n)
      BY <2>1, <2>3 DEF Content
    <3>2. dims # NoDims
      BY <1>4 DEF TypeInv
    <3>3. Arrives(q, l, n)'
      BY <2>1, <3>1, <3>2, ArrivesKept
    <3>4. Content(q, l, n)'
      BY <2>3, <3>3 DEF Content
    <3>5. QED BY <2>1, <3>4 DEF n
  <2>4. QED BY <2>2, <2>3
<1>5. phase[q] = "start" => k = 0 /\ todo[q] = 0
  BY <1>0 DEF Stands
<1>6. phase[q] \in {"exchange", "ready"} =>
        /\ Len(level[q]) + todo[q] = h.height[k]
        /\ Len(published[q]) + todo[q] = h.made[k]
        /\ todo[q] # 0 => k >= 1 /\ Grows(calls[k]) /\ todo[q] <= calls[k].arg
  BY <1>0 DEF Stands
<1>7. done'[q] = k
  BY <1>0
<1>8. QED BY <1>2, <1>3, <1>4, <1>5, <1>6, <1>7 DEF Stands

LEMMA KeepsSelf ==
  ASSUME TypeInv, NEW x \in Procs
  PROVE  Keeps(published[x], published[x])
<1>1. Len(published[x]) \in Nat
  BY DEF TypeInv
<1>2. QED BY <1>1 DEF Keeps

(* refineOptions(), and globalRefine() before it makes a level. *)
LEMMA CallPlaces ==
  ASSUME TypeInv, HistoryInv, NEW p \in Procs, NEW c \in Calls, MakesCall(p, c),
         UNCHANGED <<args, dims, phase, published>>,
         \A q \in Procs \ {p} : level'[q] = level[q] /\ todo'[q] = todo[q],
         Len(level'[p]) \in Nat, Len(level'[p]) <= Len(level[p]), todo'[p] \in Nat,
         \A l \in 1..Len(level'[p]) : level'[p][l] = level[p][l],
         Len(level'[p]) + todo'[p] = HeightAfter(c, Len(level[p])),
         Len(published[p]) + todo'[p] = MadeAfter(c, Len(published[p])),
         todo'[p] # 0 => Grows(c) /\ todo'[p] <= c.arg
  PROVE  HistoryInv'
<1>1. PICK h \in Histories : History(h) /\ \A q \in Procs : Stands(q, h)
  BY DEF HistoryInv
<1>2. /\ done[p] + 1 \in 1..Len(calls') /\ calls'[done[p]+1] = c
      /\ \A k \in 1..Len(calls) : calls'[k] = calls[k]
      /\ \E g \in Histories : History(g)' /\ SameUpTo(Len(calls), g, h)
  BY <1>1, NextHistory
<1>3. PICK g \in Histories : History(g)' /\ SameUpTo(Len(calls), g, h)
  BY <1>2
<1>4. phase[p] = "ready" /\ todo[p] = 0
  BY DEF MakesCall
<1>5. done' = [done EXCEPT ![p] = done[p] + 1]
  BY CallFacts
<1>6. \A x \in Procs : Keeps(published[x], published'[x])
  BY KeepsSelf
<1>7. ASSUME NEW q \in Procs \ {p} PROVE Stands(q, g)'
  <2>1. done'[q] = done[q]
    BY <1>5 DEF TypeInv
  <2>2. QED BY <1>1, <1>2, <1>3, <1>6, <2>1, PlaceKept
<1>a. PICK k : k = done[p]
  OBVIOUS
<1>b. PICK m : m = Len(level[p])
  OBVIOUS
<1>c. PICK n : n = Len(published[p])
  OBVIOUS
<1>8. k \in Nat /\ k <= Len(calls) /\ m \in Nat /\ n \in Nat /\ dims # NoDims
  BY <1>a, <1>b, <1>c, <1>4 DEF TypeInv
<1>9. done'[p] = k + 1
  BY <1>a, <1>5 DEF TypeInv
<1>10. m = h.height[k] /\ n = h.made[k]
  BY <1>a, <1>b, <1>c, <1>1, <1>4, <1>8 DEF Stands
<1>11. ASSUME NEW l \in 1..m PROVE h.of[k][l] \in 1..n /\ Arrives(p, l, h.of[k][l])
  BY <1>a, <1>b, <1>c, <1>1, <1>4 DEF Stands, Content
<1>12. Recorded(g, k + 1, c)
  BY <1>a, <1>2, <1>3 DEF History
<1>13. g.height[k] = h.height[k] /\ g.made[k] = h.made[k] /\ g.of[k] = h.of[k]
  <2>1. k \in 0..Len(calls)
    BY <1>8
  <2>2. QED BY <1>3, <2>1 DEF SameUpTo
<1>14. /\ g.height[k+1] = HeightAfter(c, m) /\ g.made[k+1] = MadeAfter(c, n)
       /\ g.of[k+1] = OfAfter(c, h.of[k], m, n)
  <2>1. (k + 1) - 1 = k
    BY <1>8
  <2>2. QED BY <1>10, <1>12, <1>13, <2>1 DEF Recorded
<1>15. ASSUME NEW l \in 1..Len(level'[p])
       PROVE  g.of[k+1][l] \in 1..n /\ Content(p, l, g.of[k+1][l])'
  <2>1. l \in 1..m /\ l \in Nat /\ l <= m
    BY <1>b, <1>8
  <2>2. g.of[k+1][l] = h.of[k][l]
    BY <1>14, <2>1 DEF OfAfter
  <2>3. Arrives(p, l, h.of[k][l])'
    BY <1>c, <1>6, <1>8, <1>11, <2>1, ArrivesKept
  <2>4. phase'[p] # "exchange"
    BY <1>4
  <2>5. Content(p, l, h.of[k][l])'
    BY <2>3, <2>4 DEF Content
  <2>6. QED BY <1>11, <2>1, <2>2, <2>5
<1>16. Stands(p, g)'
  <2>1. /\ Len(level'[p]) + todo'[p] = g.height[k+1] /\ Len(published'[p]) + todo'[p] = g.made[k+1]
        /\ todo'[p] # 0 => k + 1 >= 1 /\ Grows(calls'[k+1]) /\ todo'[p] <= calls'[k+1].arg
    BY <1>a, <1>b, <1>c, <1>2, <1>8, <1>14
  <2>2. phase'[p] = "ready" /\ published'[p] = published[p]
    BY <1>4
  <2>3. QED BY <1>c, <1>9, <1>15, <2>1, <2>2 DEF Stands
<1>17. Procs' = Procs
  BY Unchanged
<1>18. \A q \in Procs : Stands(q, g)'
  BY <1>7, <1>16
<1>19. QED BY <1>3, <1>17, <1>18 DEF HistoryInv

(* A new finest level, made by the constructor or by globalRefine(). *)
LEMMA PublishPlaces ==
  ASSUME TypeInv, NEW p \in Procs, NEW g, Publish(p, g), g \in YGridLevels,
         UNCHANGED <<args, dims, calls, done>>, dims # NoDims,
         NEW h \in Histories, History(h), \A q \in Procs : Stands(q, h),
         \A q \in Procs \ {p} : todo'[q] = todo[q],
         NEW k, k = done[p], NEW m, m = Len(level[p]), NEW n, n = Len(published[p]),
         m + 1 + todo'[p] = h.height[k], n + 1 + todo'[p] = h.made[k], h.of[k][m+1] = n + 1,
         todo'[p] # 0 => k >= 1 /\ Grows(calls[k]) /\ todo'[p] <= calls[k].arg,
         \A l \in 1..m : h.of[k][l] \in 1..n /\ Arrives(p, l, h.of[k][l])
  PROVE  HistoryInv'
<1>1. /\ level' = [level EXCEPT ![p] = Append(level[p], g)]
      /\ published' = [published EXCEPT ![p] = Append(published[p], g)]
      /\ phase' = [phase EXCEPT ![p] = "exchange"]
  BY DEF Publish
<1>2. /\ level \in [Procs -> Seq(YGridLevels)] /\ published \in [Procs -> Seq(YGridLevels)]
      /\ phase \in [Procs -> {"start", "exchange", "ready", "thrown"}] /\ m \in Nat /\ n \in Nat
  BY DEF TypeInv
<1>3. /\ Len(level'[p]) = m + 1 /\ level'[p][m+1] = g /\ \A l \in 1..m : level'[p][l] = level[p][l]
      /\ Len(published'[p]) = n + 1 /\ published'[p][n+1] = g
      /\ \A l \in 1..n : published'[p][l] = published[p][l]
      /\ phase'[p] = "exchange"
  BY <1>1, <1>2
<1>4. ASSUME NEW q \in Procs \ {p}
      PROVE  level'[q] = level[q] /\ published'[q] = published[q] /\ phase'[q] = phase[q]
  BY <1>1, <1>2
<1>5. ASSUME NEW x \in Procs PROVE Keeps(published[x], published'[x])
  <2>1. CASE x = p
    BY <2>1, <1>2, <1>3 DEF Keeps
  <2>2. CASE x # p
    BY <2>2, <1>4, KeepsSelf
  <2>3. QED BY <2>1, <2>2
<1>6. SameUpTo(Len(calls), h, h)
  BY DEF SameUpTo
<1>7. ASSUME NEW q \in Procs \ {p} PROVE Stands(q, h)'
  BY <1>4, <1>5, <1>6, PlaceKept
<1>8. ASSUME NEW l \in 1..m+1
      PROVE  h.of[k][l] \in 1..n+1 /\ Content(p, l, h.of[k][l])'
  <2>1. CASE l = m + 1
    <3>1. h.of[k][l] = n + 1 /\ n + 1 \in 1..n+1
      BY <2>1, <1>2
    <3>2. Content(p, l, n + 1)'
      BY <2>1, <1>3 DEF Content
    <3>3. QED BY <3>1, <3>2
  <2>2. CASE l # m + 1
    <3>1. l \in 1..m /\ l # Len(level'[p])
      BY <2>2, <1>2, <1>3
    <3>2. h.of[k][l] \in 1..n /\ Arrives(p, l, h.of[k][l]) /\ h.of[k][l] \in 1..n+1
      BY <3>1, <1>2
    <3>3. Arrives(p, l, h.of[k][l])'
      BY <1>3, <1>5, <3>1, <3>2, ArrivesKept
    <3>4. QED BY <3>1, <3>2, <3>3 DEF Content
  <2>3. QED BY <2>1, <2>2
<1>9. done'[p] = k /\ calls' = calls
  OBVIOUS
<1>10. Stands(p, h)'
  BY <1>3, <1>8, <1>9 DEF Stands
<1>11. History(h)'
  BY DEF History
<1>12. Procs' = Procs
  BY Unchanged
<1>13. \A q \in Procs : Stands(q, h)'
  BY <1>7, <1>10
<1>14. QED BY <1>11, <1>12, <1>13 DEF HistoryInv

LEMMA ConstructPlaces ==
  ASSUME TypeInv, HistoryInv, NEW p \in Procs, Construct(p)
  PROVE  HistoryInv'
<1>1. phase[p] = "start" /\ UNCHANGED <<args, dims, keep_ovlp, calls, done, todo>>
  BY DEF Construct
<1>2. PICK h \in Histories : History(h) /\ \A q \in Procs : Stands(q, h)
  BY DEF HistoryInv
<1>3. done[p] = 0 /\ todo[p] = 0 /\ published[p] = <<>>
  BY <1>1, <1>2 DEF Stands, TypeInv
<1>4. CASE dims = NoDims \/ tooSmall(p)
  <2>1. phase' = [phase EXCEPT ![p] = "thrown"] /\ UNCHANGED <<level, published>>
    BY <1>4 DEF Construct
  <2>2. phase'[p] = "thrown" /\ \A q \in Procs \ {p} : phase'[q] = phase[q]
    BY <2>1 DEF TypeInv
  <2>3. SameUpTo(Len(calls), h, h)
    BY DEF SameUpTo
  <2>4. \A x \in Procs : Keeps(published[x], published'[x])
    BY <2>1, KeepsSelf
  <2>5. ASSUME NEW q \in Procs \ {p} PROVE Stands(q, h)'
    BY <1>1, <1>2, <2>1, <2>2, <2>3, <2>4, PlaceKept
  <2>6. Stands(p, h)'
    BY <2>2 DEF Stands
  <2>7. Procs' = Procs /\ History(h)'
    BY <1>1, <1>2, Unchanged DEF History
  <2>8. \A q \in Procs : Stands(q, h)'
    BY <2>5, <2>6
  <2>9. QED BY <2>7, <2>8 DEF HistoryInv
<1>5. CASE ~ (dims = NoDims \/ tooSmall(p))
  <2> DEFINE g == makelevel(1, container(p), [i \in Dir |-> mine(p)[i].origin],
                            args.overlap, keep_ovlp[p])
  <2>1. Publish(p, g) /\ dims # NoDims
    BY <1>5 DEF Construct
  <2>2. g \in YGridLevels
    <3>1. container(p) \in [Dir -> Int] /\ [i \in Dir |-> mine(p)[i].origin] \in [Dir -> Int]
      BY <1>5, ContainerType DEF TypeInv
    <3>2. args.overlap \in Nat /\ keep_ovlp[p] \in BOOLEAN /\ 1 \in Nat \ {0}
      BY ConfigFacts DEF TypeInv
    <3>3. QED BY <3>1, <3>2, MakelevelType DEF TypeInv
  <2> HIDE DEF g
  <2>3. Len(published[p]) = 0 /\ Len(level[p]) = 0
    <3>1. Len(level[p]) \in Nat /\ Len(published[p]) >= Len(level[p]) /\ Len(published[p]) = 0
      BY <1>3 DEF TypeInv
    <3>2. QED BY <3>1
  <2>4. h.height[0] = 1 /\ h.made[0] = 1 /\ h.of[0][1] = 1
    BY <1>2 DEF History
  <2>5. todo'[p] = 0 /\ \A q \in Procs \ {p} : todo'[q] = todo[q]
    BY <1>1, <1>3
  <2>6. 0 + 1 + todo'[p] = h.height[0] /\ h.made[0] = 0 + 1 + todo'[p] /\ h.of[0][0+1] = 0 + 1
    BY <2>4, <2>5
  <2>7. \A l \in 1..0 : h.of[0][l] \in 1..0 /\ Arrives(p, l, h.of[0][l])
    OBVIOUS
  <2>8. QED BY <1>1, <1>2, <1>3, <2>1, <2>2, <2>3, <2>5, <2>6, <2>7, PublishPlaces
<1>6. QED BY <1>4, <1>5

(* The level that globalRefine() makes next is recorded as made from the   *)
(* next grid that the process publishes.                                   *)
LEMMA NextLevel ==
  ASSUME NEW c \in Calls, Grows(c), NEW h \in Histories, NEW k \in Nat, k >= 1, Recorded(h, k, c),
         NEW m \in Nat, NEW n \in Nat, NEW t \in Nat, t # 0, t <= c.arg,
         m + t = h.height[k], n + t = h.made[k], NEW l, l = m + 1
  PROVE  h.of[k][l] = n + 1
<1>1. c.arg \in Int /\ c.arg > 0 /\ c.name = "globalRefine"
  BY DEF Calls, Grows
<1> DEFINE x == h.height[k-1]
           y == h.made[k-1]
           a == c.arg
<1>2. x \in Nat /\ y \in Nat
  BY HistoryTypes
<1>3. h.height[k] = x + a /\ h.made[k] = y + a
  <2>1. -a < x
    BY <1>1, <1>2
  <2>2. QED BY <1>1, <2>1 DEF Recorded, HeightAfter, MadeAfter
<1>4. h.of[k] = [j \in Nat |-> IF j <= x THEN h.of[k-1][j] ELSE y + (j - x)]
  BY DEF Recorded, OfAfter
<1> HIDE DEF x, y, a
<1>5. l > x /\ y + (l - x) = n + 1 /\ l \in Nat
  BY <1>1, <1>2, <1>3 DEF a
<1>6. h.of[k][l] = y + (l - x)
  BY <1>2, <1>4, <1>5
<1>7. QED BY <1>5, <1>6

LEMMA RefinePlaces ==
  ASSUME TypeInv, HistoryInv, NEW p \in Procs, Refine(p)
  PROVE  HistoryInv'
<1> DEFINE l  == Len(level[p])
           cg == level[p][l]
           keep == keep_ovlp[p]
           low == {i \in Dir : overlap(cg, Dir).origin[i] > 0} \cup args.periodic
           up  == {i \in Dir : last(overlap(cg, Dir), i) + 1 < levelSize(l)[i]} \cup args.periodic
           size == refine_size(cg, low, up, keep)
           o == [i \in Dir |-> 2 * interior(cg, Dir).origin[i]]
           ov == (IF keep THEN 2 ELSE 1) * cg.overlap
           g == makelevel(l+1, size, o, ov, keep)
<1>1. /\ phase[p] = "ready" /\ todo[p] > 0 /\ Publish(p, g)
      /\ todo' = [todo EXCEPT ![p] = @ - 1]
      /\ UNCHANGED <<args, dims, keep_ovlp, calls, done>>
  BY DEF Refine, maxLevel
<1> HIDE DEF g
<1>2. /\ Config /\ l \in Nat \ {0} /\ cg \in YGridLevels /\ keep \in BOOLEAN
      /\ dims # NoDims
  BY <1>1 DEF TypeInv
<1>3. size \in [Dir -> Int] /\ o \in [Dir -> Int]
  <2> HIDE DEF cg, low, up, keep
  <2>1. QED BY <1>2, RefineType
<1>4. ov \in Nat
  <2>1. cg.overlap \in Nat
    BY <1>2 DEF YGridLevels
  <2> HIDE DEF cg, keep
  <2>2. QED BY <2>1
<1> HIDE DEF size, o, ov, keep, l
<1>5. g \in YGridLevels
  <2>1. l + 1 \in Nat \ {0}
    BY <1>2
  <2>2. QED BY <2>1, <1>2, <1>3, <1>4, MakelevelType DEF g
<1>6. PICK h \in Histories : History(h) /\ \A q \in Procs : Stands(q, h)
  BY DEF HistoryInv
<1>7. PICK k : k = done[p]
  OBVIOUS
<1>8. PICK m : m = Len(level[p])
  OBVIOUS
<1>9. PICK n : n = Len(published[p])
  OBVIOUS
<1>10. PICK t : t = todo[p]
  OBVIOUS
<1>11. m \in Nat /\ n \in Nat /\ k \in Nat /\ t \in Nat /\ t # 0 /\ k <= Len(calls) /\ calls \in Seq(Calls)
  BY <1>1, <1>7, <1>8, <1>9, <1>10 DEF TypeInv
<1>12. todo'[p] = t - 1 /\ \A q \in Procs \ {p} : todo'[q] = todo[q]
  BY <1>1, <1>10 DEF TypeInv
<1>13. /\ m + t = h.height[k] /\ n + t = h.made[k]
       /\ k >= 1 /\ Grows(calls[k]) /\ t <= calls[k].arg
  BY <1>1, <1>6, <1>7, <1>8, <1>9, <1>10, <1>11 DEF Stands
<1>14. ASSUME NEW j \in 1..m PROVE h.of[k][j] \in 1..n /\ Arrives(p, j, h.of[k][j])
  BY <1>1, <1>6, <1>7, <1>8, <1>9 DEF Stands, Content
<1>15. calls[k] \in Calls /\ Recorded(h, k, calls[k])
  BY <1>6, <1>11, <1>13 DEF History
<1>16. h.of[k][m+1] = n + 1
  <2>1. PICK j : j = m + 1
    OBVIOUS
  <2>2. PICK c \in Calls : c = calls[k]
    BY <1>15
  <2>3. Grows(c) /\ Recorded(h, k, c) /\ t <= c.arg
    BY <1>13, <1>15, <2>2
  <2>4. h \in Histories /\ k \in Nat /\ m \in Nat /\ n \in Nat /\ t \in Nat
    BY <1>6, <1>11
  <2>5. t # 0 /\ k >= 1 /\ m + t = h.height[k] /\ n + t = h.made[k]
    BY <1>11, <1>13
  <2>6. h.of[k][j] = n + 1
    BY <2>1, <2>3, <2>4, <2>5, NextLevel
  <2>7. QED BY <2>1, <2>6
<1>17. m + 1 + todo'[p] = h.height[k] /\ n + 1 + todo'[p] = h.made[k]
  BY <1>11, <1>12, <1>13
<1>18. todo'[p] # 0 => k >= 1 /\ Grows(calls[k]) /\ todo'[p] <= calls[k].arg
  <2>1. calls[k].arg \in Int
    BY <1>13, <1>15 DEF Calls, Grows
  <2>2. QED BY <1>11, <1>12, <1>13, <2>1
<1>19. Publish(p, g) /\ g \in YGridLevels /\ dims # NoDims /\ UNCHANGED <<args, dims, calls, done>>
  BY <1>1, <1>2, <1>5
<1> HIDE DEF cg
<1>20. QED
  BY <1>6, <1>7, <1>8, <1>9, <1>12, <1>14, <1>16, <1>17, <1>18, <1>19, PublishPlaces

LEMMA IntersectPlaces ==
  ASSUME TypeInv, HistoryInv, NEW p \in Procs, Intersect(p)
  PROVE  HistoryInv'
<1>1. PICK m : m = Len(level[p])
  OBVIOUS
<1>2. PICK n : n = Len(published[p])
  OBVIOUS
<1> DEFINE x == intersections(p, level[p][m], Arriving(p, n), m)
<1>3. /\ phase[p] = "exchange" /\ \A q \in Partners(p) : Len(published[q]) >= n
      /\ level' = [level EXCEPT ![p][m] = x]
      /\ phase' = [phase EXCEPT ![p] = "ready"]
      /\ UNCHANGED <<args, dims, keep_ovlp, calls, done, todo, published>>
  BY <1>1, <1>2 DEF Intersect, maxLevel, Arriving
<1>4. m \in Nat \ {0} /\ n \in Nat \ {0} /\ dims # NoDims /\ level[p] \in Seq(YGridLevels)
  BY <1>1, <1>2, <1>3, Arrived DEF TypeInv
<1> HIDE DEF x
<1>5. level' = [level EXCEPT ![p] = [level[p] EXCEPT ![m] = x]]
  BY <1>3
<1>6. /\ Len(level'[p]) = m /\ level'[p][m] = x
      /\ \A l \in 1..m-1 : level'[p][l] = level[p][l]
  <2> DEFINE s == [level[p] EXCEPT ![m] = x]
  <2>1. level'[p] = s
    BY <1>5 DEF TypeInv
  <2>2. Len(s) = m /\ s[m] = x /\ \A l \in 1..m-1 : s[l] = level[p][l]
    BY <1>1, <1>4
  <2> HIDE DEF s
  <2>3. QED BY <2>1, <2>2
<1>7. ASSUME NEW q \in Procs \ {p} PROVE level'[q] = level[q] /\ phase'[q] = phase[q]
  BY <1>3, <1>5 DEF TypeInv
<1>8. phase'[p] = "ready"
  BY <1>3 DEF TypeInv
<1>9. PICK h \in Histories : History(h) /\ \A q \in Procs : Stands(q, h)
  BY DEF HistoryInv
<1>10. SameUpTo(Len(calls), h, h)
  BY DEF SameUpTo
<1>11. \A q \in Procs : Keeps(published[q], published'[q])
  BY <1>3, KeepsSelf
<1>12. ASSUME NEW q \in Procs \ {p} PROVE Stands(q, h)'
  BY <1>3, <1>7, <1>9, <1>10, <1>11, PlaceKept
<1>13. PICK k : k = done[p]
  OBVIOUS
<1>14. ASSUME NEW l \in 1..m
       PROVE  h.of[k][l] \in 1..n /\ Content(p, l, h.of[k][l])'
  <2>1. h.of[k][l] \in 1..n /\ Content(p, l, h.of[k][l])
    BY <1>1, <1>2, <1>3, <1>9, <1>13 DEF Stands
  <2>2. CASE l = m
    <3>1. h.of[k][l] = n /\ level[p][m] = published[p][n]
      BY <1>1, <1>2, <1>3, <2>1, <2>2 DEF Content
    <3>2. Arriving(p, n)' = Arriving(p, n) /\ Partners(p)' = Partners(p)
      BY <1>3, SameIntersections DEF Arriving
    <3>3. \A g, q_grid : intersections(p, g, q_grid, m)' = intersections(p, g, q_grid, m)
      BY <1>3, SameIntersections
    <3>4. level'[p][m] = intersections(p, published[p][n], Arriving(p, n), m)
      BY <1>6, <3>1 DEF x
    <3>5. Arrives(p, m, n)'
      BY <1>3, <3>2, <3>3, <3>4 DEF Arrives
    <3>6. Content(p, m, n)'
      BY <1>8, <3>5 DEF Content
    <3>7. QED BY <2>1, <2>2, <3>1, <3>6
  <2>3. CASE l # m
    <3>1. l \in 1..m-1
      BY <1>4, <2>3
    <3>2. Arrives(p, l, h.of[k][l])
      BY <1>1, <2>1, <2>3 DEF Content
    <3>3. Arrives(p, l, h.of[k][l])'
      BY <1>2, <1>3, <1>4, <1>6, <1>11, <2>1, <3>1, <3>2, ArrivesKept
    <3>4. Content(p, l, h.of[k][l])'
      BY <1>8, <3>3 DEF Content
    <3>5. QED BY <2>1, <3>4
  <2>4. QED BY <2>2, <2>3
<1>15. /\ m + todo[p] = h.height[k] /\ n + todo[p] = h.made[k]
       /\ todo[p] # 0 => k >= 1 /\ Grows(calls[k]) /\ todo[p] <= calls[k].arg
  BY <1>1, <1>2, <1>3, <1>9, <1>13 DEF Stands
<1>16. Stands(p, h)'
  <2>1. done'[p] = k /\ todo'[p] = todo[p] /\ calls' = calls /\ Len(published'[p]) = n
    BY <1>2, <1>3, <1>13
  <2>2. QED BY <1>6, <1>8, <1>14, <1>15, <2>1 DEF Stands
<1>17. Procs' = Procs /\ History(h)'
  BY <1>3, <1>9, Unchanged DEF History
<1>18. \A q \in Procs : Stands(q, h)'
  BY <1>12, <1>16
<1>19. QED BY <1>17, <1>18 DEF HistoryInv

LEMMA RefineOptionsPlaces ==
  ASSUME TypeInv, HistoryInv, NEW p \in Procs, RefineOptions(p)
  PROVE  HistoryInv'
<1>1. PICK keep \in BOOLEAN :
        /\ MakesCall(p, [name |-> "refineOptions", arg |-> keep])
        /\ UNCHANGED <<args, dims, phase, level, todo, published>>
  BY DEF RefineOptions
<1>2. PICK c : c = [name |-> "refineOptions", arg |-> keep]
  OBVIOUS
<1>3. c \in Calls /\ c.name # "globalRefine" /\ MakesCall(p, c)
  BY <1>1, <1>2 DEF Calls
<1>4. /\ todo'[p] = 0 /\ Len(level'[p]) = Len(level[p]) /\ Len(level[p]) \in Nat
      /\ Len(published[p]) \in Nat
  BY <1>1 DEF TypeInv, MakesCall
<1>5. HeightAfter(c, Len(level[p])) = Len(level[p]) /\ MadeAfter(c, Len(published[p])) = Len(published[p])
  BY <1>3 DEF HeightAfter, MadeAfter, Grows
<1>6. /\ Len(level'[p]) + todo'[p] = HeightAfter(c, Len(level[p]))
      /\ Len(published[p]) + todo'[p] = MadeAfter(c, Len(published[p]))
      /\ Len(level'[p]) \in Nat /\ Len(level'[p]) <= Len(level[p]) /\ todo'[p] \in Nat
  BY <1>4, <1>5
<1>7. \A q \in Procs \ {p} : level'[q] = level[q] /\ todo'[q] = todo[q]
  BY <1>1
<1>8. \A l \in 1..Len(level'[p]) : level'[p][l] = level[p][l]
  BY <1>1
<1>9. QED BY <1>1, <1>3, <1>4, <1>6, <1>7, <1>8, CallPlaces

LEMMA BeginRefinePlaces ==
  ASSUME TypeInv, HistoryInv, NEW p \in Procs, BeginRefine(p)
  PROVE  HistoryInv'
<1>1. PICK refCount \in {k \in Counts : k > 0} :
        /\ MakesCall(p, [name |-> "globalRefine", arg |-> refCount])
        /\ todo' = [todo EXCEPT ![p] = refCount]
        /\ UNCHANGED <<args, dims, phase, level, published>>
  BY DEF BeginRefine
<1>2. refCount \in Nat /\ refCount > 0
  BY CountsAssumption
<1>3. PICK c : c = [name |-> "globalRefine", arg |-> refCount]
  OBVIOUS
<1>4. c \in Calls /\ c.name = "globalRefine" /\ c.arg = refCount /\ MakesCall(p, c)
  BY <1>1, <1>2, <1>3 DEF Calls
<1>5. /\ todo'[p] = refCount /\ Len(level'[p]) = Len(level[p]) /\ Len(level[p]) \in Nat
      /\ Len(published[p]) \in Nat
  BY <1>1 DEF TypeInv
<1>6. Grows(c)
  BY <1>2, <1>4 DEF Grows
<1>7. HeightAfter(c, Len(level[p])) = Len(level[p]) + refCount
  <2>1. -refCount < Len(level[p])
    BY <1>2, <1>5
  <2>2. QED BY <1>4, <2>1 DEF HeightAfter
<1>8. MadeAfter(c, Len(published[p])) = Len(published[p]) + refCount
  BY <1>4, <1>6 DEF MadeAfter
<1>9. /\ Len(level'[p]) + todo'[p] = HeightAfter(c, Len(level[p]))
      /\ Len(published[p]) + todo'[p] = MadeAfter(c, Len(published[p]))
      /\ Len(level'[p]) \in Nat /\ Len(level'[p]) <= Len(level[p]) /\ todo'[p] \in Nat
      /\ todo'[p] # 0 => Grows(c) /\ todo'[p] <= c.arg
  BY <1>2, <1>4, <1>5, <1>6, <1>7, <1>8
<1>10. \A q \in Procs \ {p} : level'[q] = level[q] /\ todo'[q] = todo[q]
  BY <1>1 DEF TypeInv
<1>11. \A l \in 1..Len(level'[p]) : level'[p][l] = level[p][l]
  BY <1>1
<1>12. QED BY <1>1, <1>4, <1>9, <1>10, <1>11, CallPlaces

LEMMA CoarsenPlaces ==
  ASSUME TypeInv, HistoryInv, NEW p \in Procs, Coarsen(p)
  PROVE  HistoryInv'
<1>1. PICK refCount \in {k \in Counts : k < 0} :
        /\ MakesCall(p, [name |-> "globalRefine", arg |-> refCount])
        /\ level' = IF -refCount < maxLevel(p)
                    THEN [level EXCEPT ![p] = SubSeq(@, 1, maxLevel(p) + refCount)]
                    ELSE level
        /\ UNCHANGED <<args, dims, phase, keep_ovlp, todo, published>>
  BY DEF Coarsen
<1>2. refCount \in Int /\ refCount < 0
  BY CountsAssumption
<1>3. PICK c : c = [name |-> "globalRefine", arg |-> refCount]
  OBVIOUS
<1>4. c \in Calls /\ c.name = "globalRefine" /\ c.arg = refCount /\ MakesCall(p, c)
  BY <1>1, <1>2, <1>3 DEF Calls
<1>5. level \in [Procs -> Seq(YGridLevels)] /\ Len(level[p]) \in Nat /\ Len(published[p]) \in Nat
  BY DEF TypeInv
<1>6. \A q \in Procs : /\ Len(level'[q]) <= Len(level[q])
                       /\ \A l \in 1..Len(level'[q]) : level'[q][l] = level[q][l]
  BY <1>1, CoarsenFacts
<1>7. Len(level'[p]) = HeightAfter(c, Len(level[p])) /\ Len(level'[p]) \in Nat
  <2>1. CASE -refCount < Len(level[p])
    <3> DEFINE k == Len(level[p]) + refCount
               s == SubSeq(level[p], 1, k)
    <3>1. level' = [level EXCEPT ![p] = s]
      BY <1>1, <2>1 DEF maxLevel
    <3>2. k \in Nat /\ k <= Len(level[p])
      BY <1>2, <1>5, <2>1
    <3>3. Len(s) = k
      <4>1. level[p] \in Seq(YGridLevels)
        BY <1>5
      <4> HIDE DEF k
      <4>2. QED BY <3>2, <4>1
    <3> HIDE DEF s
    <3>4. level'[p] = s
      BY <1>5, <3>1
    <3>5. HeightAfter(c, Len(level[p])) = k
      BY <1>4, <2>1 DEF HeightAfter
    <3> HIDE DEF k
    <3>6. QED BY <3>2, <3>3, <3>4, <3>5
  <2>2. CASE ~ (-refCount < Len(level[p]))
    <3>1. level' = level
      BY <1>1, <2>2 DEF maxLevel
    <3>2. HeightAfter(c, Len(level[p])) = Len(level[p])
      BY <1>4, <2>2 DEF HeightAfter
    <3>3. QED BY <1>5, <3>1, <3>2
  <2>3. QED BY <2>1, <2>2
<1>8. MadeAfter(c, Len(published[p])) = Len(published[p])
  BY <1>2, <1>4 DEF MadeAfter, Grows
<1>9. todo'[p] = 0
  BY <1>1, <1>4 DEF MakesCall
<1>10. /\ Len(level'[p]) + todo'[p] = HeightAfter(c, Len(level[p]))
       /\ Len(published[p]) + todo'[p] = MadeAfter(c, Len(published[p]))
       /\ todo'[p] \in Nat
  BY <1>5, <1>7, <1>8, <1>9
<1>11. \A q \in Procs \ {p} : level'[q] = level[q] /\ todo'[q] = todo[q]
  BY <1>1, <1>5 DEF TypeInv
<1>12. QED BY <1>1, <1>4, <1>6, <1>7, <1>9, <1>10, <1>11, CallPlaces

LEMMA HistoryStep ==
  ASSUME TypeInv, HistoryInv, [Next]_vars
  PROVE  HistoryInv'
<1>1. CASE UNCHANGED vars
  <2>1. PICK h \in Histories : History(h) /\ \A q \in Procs : Stands(q, h)
    BY DEF HistoryInv
  <2>2. /\ UNCHANGED <<args, dims>> /\ UNCHANGED <<calls, phase, level, done, todo, published>>
        /\ Procs' = Procs
    BY <1>1, Unchanged DEF vars
  <2>3. SameUpTo(Len(calls), h, h) /\ \A x \in Procs : Keeps(published[x], published'[x])
    BY <2>2, KeepsSelf DEF SameUpTo
  <2>4. \A q \in Procs : Stands(q, h)'
    BY <2>1, <2>2, <2>3, PlaceKept
  <2>5. History(h)'
    BY <2>1, <2>2 DEF History
  <2>6. QED BY <2>2, <2>4, <2>5 DEF HistoryInv
<1>2. CASE Next
  <2>1. ASSUME NEW p \in Procs, Inside(p) \/ RefineOptions(p) \/ Coarsen(p) \/ BeginRefine(p)
        PROVE  HistoryInv'
    BY <2>1, ConstructPlaces, IntersectPlaces, RefinePlaces, RefineOptionsPlaces, CoarsenPlaces,
       BeginRefinePlaces DEF Inside
  <2>2. CASE Stopped
    BY <2>2, <1>1 DEF Stopped
  <2>3. QED BY <1>2, <2>1, <2>2 DEF Next
<1>3. QED BY <1>1, <1>2

LEMMA HistoryInit == Init => HistoryInv
<1> SUFFICES ASSUME Init PROVE HistoryInv
  OBVIOUS
<1> DEFINE h == [height |-> [k \in Nat |-> 1], made |-> [k \in Nat |-> 1],
                 of |-> [k \in Nat |-> [l \in Nat |-> 1]]]
<1>1. h \in Histories /\ h.height[0] = 1 /\ h.made[0] = 1 /\ h.of[0][1] = 1
  BY DEF Histories
<1> HIDE DEF h
<1>2. Len(calls) = 0 /\ (1..Len(calls)) = {}
  BY DEF Init
<1>3. History(h)
  BY <1>1, <1>2 DEF History
<1>4. ASSUME NEW p \in Procs PROVE Stands(p, h)
  <2>1. phase[p] = "start" /\ done[p] = 0 /\ todo[p] = 0
    BY DEF Init
  <2>2. QED BY <2>1 DEF Stands
<1>5. QED BY <1>1, <1>3, <1>4 DEF HistoryInv

LEMMA HistoryAlways == Spec => []HistoryInv
<1>1. TypeInv /\ HistoryInv /\ [Next]_vars => HistoryInv'
  BY HistoryStep
<1>2. QED BY <1>1, HistoryInit, Typed, PTL DEF Spec

-----------------------------------------------------------------------------
(* intersections() as the lists of both sides see it. *)
LEMMA TheLists ==
  ASSUME NEW p, NEW g \in YGridLevels, NEW q_grid, NEW l, NEW f \in Interfaces, NEW r \in Shifts
  PROVE  /\ intersections(p, g, q_grid, l).send[f][r] = Reverse(met(p, part(f[1], g, r), q_grid, f[2], r, l))
         /\ intersections(p, g, q_grid, l).recv[f][r] = met(p, part(f[2], g, r), q_grid, f[1], r, l)
<1> DEFINE send == [e \in Interfaces |-> [s \in Shifts |->
                      Reverse(met(p, part(e[1], g, s), q_grid, e[2], s, l))]]
           recv == [e \in Interfaces |-> [s \in Shifts |->
                      met(p, part(e[2], g, s), q_grid, e[1], s, l)]]
<1>1. intersections(p, g, q_grid, l) = [g EXCEPT !.send = send, !.recv = recv]
  BY DEF intersections
<1>2. /\ send[f][r] = Reverse(met(p, part(f[1], g, r), q_grid, f[2], r, l))
      /\ recv[f][r] = met(p, part(f[2], g, r), q_grid, f[1], r, l)
  OBVIOUS
<1>3. g = [origin |-> g.origin, size |-> g.size, low |-> g.low, up |-> g.up,
           overlap |-> g.overlap, keepOverlap |-> g.keepOverlap, send |-> g.send, recv |-> g.recv]
  BY DEF YGridLevels
<1> HIDE DEF send, recv
<1>4. intersections(p, g, q_grid, l).send = send /\ intersections(p, g, q_grid, l).recv = recv
  BY <1>1, <1>3
<1>5. QED BY <1>2, <1>4

(* Processes at the same point of the program have made level l from the   *)
(* same published grids.                                                   *)
LEMMA MadeTogether ==
  ASSUME TypeInv, OverlapInv, HistoryInv, args.ctor # "deprecated",
         NEW l \in 1..LevelLimit, Together(l)
  PROVE  \E G : /\ GridsOn(G, l)
                /\ \A p \in Procs : level[p][l] = intersections(p, G[p], Neighbours(G, p), l)
<1>1. /\ Config /\ Accepted /\ dims # NoDims /\ l \in Nat \ {0}
      /\ \A p \in Procs : level[p][l] \in YGridLevels /\ LevelInv(p, level[p][l], l)
  BY ReadyAccepted DEF Together, Accepted
<1>2. 0 \in Procs
  BY ConfigFacts DEF TypeInv, Procs
<1>3. PICK h \in Histories : History(h) /\ \A p \in Procs : Stands(p, h)
  BY DEF HistoryInv
<1> DEFINE n == h.of[done[0]][l]
           G == [p \in Procs |-> published[p][n]]
<1>4. ASSUME NEW p \in Procs
      PROVE  /\ phase[p] = "ready" /\ l \in 1..Len(level[p])
             /\ n \in 1..Len(published[p]) /\ Arrives(p, l, n) /\ published[p] \in Seq(YGridLevels)
  <2>1. phase[p] = "ready" /\ Len(level[p]) >= l /\ Len(level[p]) \in Nat /\ done[p] = done[0]
    BY <1>2 DEF Together, Ready, maxLevel, TypeInv
  <2>2. l \in 1..Len(level[p])
    BY <1>1, <2>1
  <2>3. n \in 1..Len(published[p]) /\ Content(p, l, n)
    BY <1>3, <2>1, <2>2 DEF Stands
  <2>4. QED BY <2>1, <2>2, <2>3 DEF Content, TypeInv
<1> HIDE DEF n
<1>5. ASSUME NEW p \in Procs
      PROVE  /\ G[p] \in YGridLevels /\ Neighbours(G, p) = Arriving(p, n)
             /\ level[p][l] = intersections(p, G[p], Neighbours(G, p), l)
             /\ HaveGrids(p, Neighbours(G, p))
  <2>1. Partners(p) \subseteq Procs
    BY <1>1, PartnersAre
  <2>2. \A q \in Procs : G[q] = published[q][n] /\ G[q] \in YGridLevels
    BY <1>4
  <2> HIDE DEF G
  <2>3. Neighbours(G, p) = Arriving(p, n)
    BY <2>1, <2>2 DEF Neighbours, Arriving
  <2>4. level[p][l] = intersections(p, published[p][n], Arriving(p, n), l)
    BY <1>4 DEF Arrives
  <2>5. HaveGrids(p, Neighbours(G, p))
    BY <2>1, <2>2 DEF HaveGrids, Neighbours
  <2>6. QED BY <2>2, <2>3, <2>4, <2>5
<1> HIDE DEF G
<1>6. ASSUME NEW p \in Procs PROVE LevelInv(p, G[p], l)
  <2>1. PICK u : u = intersections(p, G[p], Neighbours(G, p), l)
    OBVIOUS
  <2>2. /\ u.origin = G[p].origin /\ u.size = G[p].size /\ u.low = G[p].low /\ u.up = G[p].up
        /\ u.overlap = G[p].overlap
    BY <1>1, <1>5, <2>1, IntersectionsType
  <2>3. LevelInv(p, u, l)
    BY <1>1, <1>5, <2>1
  <2>4. QED BY <2>2, <2>3, SameFields
<1>7. QED BY <1>5, <1>6 DEF GridsOn

(* Every message that a process sends meets the receive that its neighbour *)
(* has posted for it: whatever the torus, the periodic directions and the  *)
(* program, also where a process is its neighbour's neighbour on several   *)
(* sides, or its own.                                                      *)
THEOREM Matched == Spec => [](args.ctor # "deprecated" => ListsMatch)
<1>1. TypeInv /\ OverlapInv /\ HistoryInv => (args.ctor # "deprecated" => ListsMatch)
  <2> SUFFICES ASSUME TypeInv, OverlapInv, HistoryInv, args.ctor # "deprecated",
                      NEW l \in 1..LevelLimit, Together(l),
                      NEW p \in Procs, NEW q \in Procs, NEW f \in Interfaces, NEW r \in Shifts
               PROVE  MatchedLists(With(level[p][l].send[f][r], q), With(level[q][l].recv[f][r], p), l)
    BY DEF ListsMatch, MatchedLists
  <2>1. Config /\ Accepted /\ l \in Nat \ {0}
    BY ReadyAccepted DEF Together
  <2>2. PICK G : /\ GridsOn(G, l)
                 /\ \A x \in Procs : level[x][l] = intersections(x, G[x], Neighbours(G, x), l)
    BY MadeTogether
  <2>3. \A x \in Procs : G[x] \in YGridLevels
    BY <2>2 DEF GridsOn
  <2>4. level[p][l].send[f][r] = Reverse(met(p, part(f[1], G[p], r), Neighbours(G, p), f[2], r, l))
    BY <2>2, <2>3, TheLists
  <2>5. level[q][l].recv[f][r] = met(q, part(f[2], G[q], r), Neighbours(G, q), f[1], r, l)
    BY <2>2, <2>3, TheLists
  <2>6. Pairs(With(level[p][l].send[f][r], q), With(level[q][l].recv[f][r], p), G, p, q, f, r, l)
    BY <2>1, <2>2, <2>4, <2>5, ListsPaired
  <2>7. QED BY <2>1, <2>2, <2>6, ListsFit
<1>2. QED BY <1>1, Typed, OverlapAlways, HistoryAlways, PTL

-----------------------------------------------------------------------------
(* Where a piece ends, by its coordinate; and between two pieces that are  *)
(* not next to each other there is one that is wider than the overlap.     *)
LEMMA FromEnds ==
  ASSUME Config, Accepted, NEW p \in Procs, NEW i \in Dir, NEW l \in Nat \ {0},
         NEW ov \in Nat, ov <= args.overlap * twice[l]
  PROVE  /\ at(p, i) = 0 => lower(p, i, l) = 0
         /\ at(p, i) # 0 => lower(p, i, l) > ov
         /\ at(p, i) = dims[i] - 1 => upper(p, i, l) = levelSize(l)[i]
         /\ at(p, i) # dims[i] - 1 => levelSize(l)[i] - upper(p, i, l) > ov
<1> DEFINE n == dims[i]
           N == args.size[i]
           m == N \div n
           lo == mine(p)[i].origin
           hi == mine(p)[i].origin + mine(p)[i].size
<1>1. PieceOK(at(p, i), n, N, mine(p)[i])
  BY MyPiece DEF at, Accepted
<1>2. 0 \in Procs /\ mine(0)[i].size = m
  BY FirstPiece DEF Accepted
<1>3. m \in Nat \ {0}
  BY <1>2, Room
<1>4. lo \in Nat /\ hi \in Nat /\ N \in Nat
  BY Room
<1>5. /\ at(p, i) = 0 => lo = 0
      /\ at(p, i) # 0 => lo >= m
      /\ at(p, i) = n - 1 => hi = N
      /\ at(p, i) # n - 1 => N - hi >= m
  BY <1>1 DEF PieceOK
<1> HIDE DEF n, N, m, lo, hi
<1>6. /\ at(p, i) # 0 => lo # 0
      /\ at(p, i) # n - 1 => hi # N
  BY <1>3, <1>4, <1>5
<1>7. /\ lo = 0 => lower(p, i, l) = 0
      /\ lo # 0 => lower(p, i, l) > ov
      /\ hi = N => upper(p, i, l) = levelSize(l)[i]
      /\ hi # N => levelSize(l)[i] - upper(p, i, l) > ov
  BY RoomOnLevel DEF lo, hi, N
<1>8. QED BY <1>5, <1>6, <1>7 DEF n

LEMMA WidePiece ==
  ASSUME Config, Accepted, NEW p \in Procs, NEW i \in Dir, NEW l \in Nat \ {0},
         NEW ov \in Nat, ov <= args.overlap * twice[l],
         i \in args.periodic \/ dims[i] # 1
  PROVE  upper(p, i, l) - lower(p, i, l) > ov
<1> DEFINE s == mine(p)[i].size
           t == twice[l]
           w == args.overlap
           N == args.size[i]
<1>1. t \in Nat \ {0} /\ w \in Nat /\ s \in Nat
  BY Twice, ConfigFacts, Room
<1>2. upper(p, i, l) - lower(p, i, l) = s * t
  BY RoomOnLevel
<1>3. s > w
  <2>1. args.ctor # "deprecated" /\ ~tooSmall(p)
    BY DEF Accepted
  <2>2. ~ (s <= w) \/ (i \notin args.periodic /\ s = N)
    BY <2>1 DEF tooSmall
  <2>3. CASE i \in args.periodic
    BY <1>1, <2>2, <2>3
  <2>4. CASE i \notin args.periodic /\ s = N
    <3>1. dims[i] # 1 /\ dims[i] \in Nat \ {0} /\ at(p, i) \in 0..dims[i]-1
      BY <2>4, ByCoordinate DEF Accepted
    <3>2. at(p, i) # 0 \/ at(p, i) # dims[i] - 1
      BY <3>1
    <3>3. mine(p)[i].origin # 0 \/ mine(p)[i].origin + s # N
      <4>1. PieceOK(at(p, i), dims[i], N, mine(p)[i])
        BY MyPiece DEF at, Accepted
      <4>2. N \div dims[i] \in Nat \ {0}
        <5>1. 0 \in Procs /\ mine(0)[i].size = N \div dims[i]
          BY FirstPiece DEF Accepted
        <5>2. QED BY <5>1, Room
      <4>3. mine(p)[i].origin \in Nat /\ N \in Nat /\ mine(p)[i].origin + s \in Nat
        BY Room
      <4>4. /\ at(p, i) # 0 => mine(p)[i].origin >= N \div dims[i]
            /\ at(p, i) # dims[i] - 1 => N - (mine(p)[i].origin + s) >= N \div dims[i]
        BY <4>1 DEF PieceOK
      <4> DEFINE o == mine(p)[i].origin
                 m == N \div dims[i]
                 e == o + s
      <4> HIDE DEF o, m, N, e
      <4>5. QED BY <3>2, <4>2, <4>3, <4>4 DEF o, m, e
    <3>4. mine(p)[i].origin \in Nat /\ N \in Nat /\ mine(p)[i].origin + s <= N
      BY Room
    <3> DEFINE o == mine(p)[i].origin
    <3> HIDE DEF o, s, N
    <3>5. FALSE
      BY <1>1, <2>4, <3>3, <3>4 DEF o
    <3>6. QED BY <3>5
  <2>5. QED BY <1>1, <2>2, <2>3, <2>4
<1> HIDE DEF s, t, w
<1>4. t * (w + 1) <= t * s
  BY <1>1, <1>3, MoreTimes
<1>5. t * (w + 1) = w * t + t /\ t * s = s * t /\ w * t \in Nat /\ s * t \in Nat
  BY <1>1
<1>6. ov <= w * t
  BY DEF w, t
<1> DEFINE x == w * t
           y == s * t
<1> HIDE DEF x, y
<1>7. y > ov
  <2>1. x \in Nat /\ y \in Nat /\ ov <= x /\ x + t <= y
    BY <1>4, <1>5, <1>6 DEF x, y
  <2>2. QED BY <2>1, <1>1
<1>8. QED BY <1>2, <1>7 DEF y

LEMMA FarApart ==
  ASSUME Config, Accepted, NEW p \in Procs, NEW q \in Procs, NEW i \in Dir, NEW l \in Nat \ {0},
         NEW ov \in Nat, ov <= args.overlap * twice[l], at(p, i) + 1 < at(q, i)
  PROVE  lower(q, i, l) > upper(p, i, l) + ov
<1>1. dims # NoDims
  BY DEF Accepted
<1>2. \A j \in Dir : at(p, j) \in 0..dims[j]-1 /\ at(q, j) \in 0..dims[j]-1 /\ dims[j] \in Nat \ {0}
  BY <1>1, ByCoordinate
<1> DEFINE c == [j \in Dir |-> IF j = i THEN at(p, i) + 1 ELSE at(p, j)]
<1>3. \A j \in Dir : c[j] \in 0..dims[j]-1
  BY <1>2
<1>4. c[i] = at(p, i) + 1
  OBVIOUS
<1> HIDE DEF c
<1>5. PICK k \in Procs : \A j \in Dir : at(k, j) = c[j]
  BY <1>1, <1>3, ProcessAt
<1>6. at(k, i) = at(p, i) + 1 /\ at(k, i) < at(q, i)
  BY <1>2, <1>4, <1>5
<1>7. upper(p, i, l) = lower(k, i, l) /\ upper(k, i, l) <= lower(q, i, l)
  BY <1>6, BeforeOrSame
<1>8. upper(k, i, l) - lower(k, i, l) > ov
  <2>1. dims[i] # 1
    BY <1>2
  <2>2. QED BY <2>1, WidePiece
<1>9. /\ lower(k, i, l) \in Int /\ upper(k, i, l) \in Int /\ lower(q, i, l) \in Int
  BY BoundsType
<1>10. QED BY <1>7, <1>8, <1>9

(* Two copies of an entity in one direction, x in the overlap of q and y   *)
(* in the interior or border of p: p is where one step from q leads, and   *)
(* the copies are as far apart as the two processes see each other shifted.  *)
Step(q, p, i, l, x, y, d) ==
  LET c == at(q, i) + d
  IN  /\ at(p, i) = IF c < 0 THEN dims[i] - 1 ELSE IF c >= dims[i] THEN 0 ELSE c
      /\ x - y = IF c < 0 THEN -levelSize(l)[i] ELSE IF c >= dims[i] THEN levelSize(l)[i] ELSE 0
      /\ c < 0 \/ c >= dims[i] => i \in args.periodic

LEMMA OneStep ==
  ASSUME Config, Accepted, NEW q \in Procs, NEW p \in Procs, NEW i \in Dir, NEW l \in Nat \ {0},
         NEW h \in {0, 1}, NEW ov \in Nat, ov <= args.overlap * twice[l], NEW x \in Int, NEW y \in Int,
         x >= IF begins(q, i) THEN 0 ELSE lower(q, i, l) - ov,
         x < IF ends(q, i) THEN upper(q, i, l) + h ELSE upper(q, i, l) + ov + h,
         y >= lower(p, i, l), y < upper(p, i, l) + h,
         IF i \in args.periodic THEN (x - y) % levelSize(l)[i] = 0 ELSE x = y
  PROVE  \E d \in {-1, 0, 1} : Step(q, p, i, l, x, y, d)
<1> DEFINE a == lower(q, i, l)
           b == upper(q, i, l)
           u == lower(p, i, l)
           v == upper(p, i, l)
           M == levelSize(l)[i]
           n == dims[i]
           s == at(q, i)
           t == at(p, i)
           per == i \in args.periodic
<1>1. /\ a \in Nat /\ b \in Nat /\ u \in Nat /\ v \in Nat /\ M \in Nat \ {0} /\ a < b /\ u < v
      /\ n \in Nat \ {0} /\ s \in 0..n-1 /\ t \in 0..n-1
  BY BoundsType, BeforeOrSame, LevelSizes, ByCoordinate DEF Accepted
<1>2. /\ s = 0 => a = 0
      /\ s # 0 => a > ov
      /\ s = n - 1 => b = M
      /\ s # n - 1 => M - b > ov
      /\ t = 0 => u = 0
      /\ t # 0 => u > ov
      /\ t = n - 1 => v = M
      /\ t # n - 1 => M - v > ov
  BY FromEnds
<1>3. per => b - a > ov
  BY WidePiece
<1>4. (s + 1 < t => u > b + ov) /\ (t + 1 < s => a > v + ov)
  BY FarApart
<1>5. /\ x >= a - ov /\ x < b + ov + h /\ y >= u /\ y < v + h
      /\ IF per THEN (x - y) % M = 0 ELSE x = y
  <2>1. begins(q, i) => a = 0
    <3>1. mine(q)[i].origin = 0 => a = 0
      BY RoomOnLevel
    <3>2. QED BY <3>1 DEF begins
  <2>2. /\ x >= IF begins(q, i) THEN 0 ELSE a - ov
        /\ x < IF ends(q, i) THEN b + h ELSE b + ov + h
        /\ y >= u /\ y < v + h
        /\ IF per THEN (x - y) % M = 0 ELSE x = y
    OBVIOUS
  <2> HIDE DEF a, b, u, v, M, per
  <2>3. QED BY <1>1, <2>1, <2>2
<1> HIDE DEF a, b, u, v, M, n, s, t, per
<1> DEFINE goal(d) == LET c == s + d
                      IN  /\ t = IF c < 0 THEN n - 1 ELSE IF c >= n THEN 0 ELSE c
                          /\ x - y = IF c < 0 THEN -M ELSE IF c >= n THEN M ELSE 0
                          /\ c < 0 \/ c >= n => per
<1>6. b <= M /\ v <= M
  BY <1>1, <1>2
<1>7. CASE x = y
  <2>1. ~(s + 1 < t)
    BY <1>1, <1>4, <1>5, <1>7
  <2>2. ~(t + 1 < s)
    BY <1>1, <1>4, <1>5, <1>7
  <2> DEFINE d == t - s
  <2>3. d \in {-1, 0, 1} /\ s + d = t
    BY <1>1, <2>1, <2>2
  <2>4. goal(d)
    <3> HIDE DEF d
    <3>1. QED BY <1>1, <1>7, <2>3
  <2> HIDE DEF d, goal
  <2>5. \E e \in {-1, 0, 1} : goal(e)
    BY <2>3, <2>4
  <2>6. QED BY <2>5 DEF goal, Step, s, t, n, M, per
<1>8. CASE x # y
  <2>1. per /\ (x - y) % M = 0
    BY <1>5, <1>8
  <2> DEFINE k == (x - y) \div M
  <2>2. k \in Int /\ x - y = M * k
    BY <1>1, <2>1
  <2> HIDE DEF k
  <2>3. k # 0
    <3>1. k = 0 => M * k = 0
      BY <1>1
    <3>2. QED BY <2>2, <3>1, <1>8
  <2>4. k >= 1 => x - y >= M
    <3>1. k >= 1 => M * 1 <= M * k
      BY <1>1, <2>2, MoreTimes
    <3>2. QED BY <1>1, <2>2, <3>1
  <2>5. k >= 2 => x - y >= 2 * M
    <3>1. k >= 2 => M * 2 <= M * k
      BY <1>1, <2>2, MoreTimes
    <3>2. QED BY <1>1, <2>2, <3>1
  <2>6. k <= -1 => x - y <= -M
    <3>1. k <= -1 => M * k <= M * (-1)
      BY <1>1, <2>2, MoreTimes
    <3>2. QED BY <1>1, <2>2, <3>1
  <2>7. k <= -2 => x - y <= -(2 * M)
    <3>1. k <= -2 => M * k <= M * (-2)
      BY <1>1, <2>2, MoreTimes
    <3>2. QED BY <1>1, <2>2, <3>1
  <2>8. b - a > ov
    BY <1>3, <2>1
  <2>9. CASE k >= 1
    <3>1. ~(k >= 2)
      BY <1>1, <1>5, <1>6, <2>5, <2>8
    <3>2. k = 1 /\ x - y = M
      <4>1. k = 1
        BY <2>2, <2>9, <3>1
      <4>2. QED BY <4>1, <2>2, <1>1
    <3>3. s = n - 1
      BY <1>1, <1>2, <1>5, <3>2
    <3>4. t = 0
      BY <1>1, <1>2, <1>5, <1>6, <3>2
    <3>5. goal(1)
      BY <1>1, <2>1, <3>2, <3>3, <3>4
    <3> HIDE DEF goal
    <3>6. \E e \in {-1, 0, 1} : goal(e)
      BY <3>5
    <3>7. QED BY <3>6 DEF goal, Step, s, t, n, M, per
  <2>10. CASE k <= -1
    <3>1. s = 0
      BY <1>1, <1>2, <1>5, <1>6, <2>6, <2>10
    <3>2. a = 0
      BY <1>2, <3>1
    <3>3. ~(k <= -2)
      BY <1>1, <1>5, <1>6, <2>7, <2>8, <3>2
    <3>4. x - y = -M
      <4>1. k = -1
        BY <2>2, <2>10, <3>3
      <4>2. QED BY <4>1, <2>2, <1>1
    <3>5. t = n - 1
      BY <1>1, <1>2, <1>5, <3>2, <3>4
    <3>6. goal(-1)
      BY <1>1, <2>1, <3>1, <3>4, <3>5
    <3> HIDE DEF goal
    <3>7. \E e \in {-1, 0, 1} : goal(e)
      BY <3>6
    <3>8. QED BY <3>7 DEF goal, Step, s, t, n, M, per
  <2>11. QED BY <2>2, <2>3, <2>9, <2>10
<1>9. QED BY <1>7, <1>8

(* What q receives from p at position k and p sends at the position        *)
(* counted from the other end.                                             *)
LEMMA EntryGrids ==
  ASSUME Config, dims # NoDims, NEW G, NEW l, GridsOn(G, l), NEW p \in Procs, NEW q \in Procs,
         NEW f \in Interfaces, NEW r \in Shifts, NEW k \in 1..neighbors(dims)
  PROVE  LET y == RecvEntry(G, q, f, r, l, k)
             x == SendEntry(G, p, f, r, l, neighbors(dims) + 1 - k)
             delta == nonzeroDelta(dims, k)
             back == nonzeroDelta(dims, neighbors(dims) + 1 - k)
         IN  /\ y.rank = partner(dims, q, delta)
             /\ \A i \in Dir : delta[i] \in {-1, 0, 1} /\ back[i] = -delta[i]
             /\ y.rank = p =>
                  /\ y.grid = intersection(part(f[2], G[q], r), sentgrid(p, back, part(f[1], G[p], r), l))
                  /\ x.grid = intersection(part(f[1], G[p], r), sentgrid(q, delta, part(f[2], G[q], r), l))
<1> DEFINE N == neighbors(dims)
           j == N + 1 - k
           y == RecvEntry(G, q, f, r, l, k)
           x == SendEntry(G, p, f, r, l, j)
           delta == nonzeroDelta(dims, k)
           back == nonzeroDelta(dims, j)
<1>1. dims \in Seq(Nat \ {0}) /\ Ranks(dims) = Procs /\ Dirs(dims) = Dir
  BY ConfigFacts
<1>2. N \in Nat /\ k = N + 1 - j /\ j \in 1..N /\ k \in 1..N
  <2>1. N \in Nat /\ k \in 1..N
    BY <1>1, NeighborListsFit
  <2>2. j = N + 1 - k
    OBVIOUS
  <2> HIDE DEF N, j
  <2>3. QED BY <2>1, <2>2
<1> HIDE DEF N, j
<1>3. \A i \in Dir : delta[i] \in {-1, 0, 1} /\ back[i] = -delta[i]
  BY <1>1, ListEntries DEF N, j
<1>4. /\ y.rank = partner(dims, q, delta) /\ y.rank = recvlist(dims, q)[k].rank
      /\ y.grid = intersection(part(f[2], G[q], r),
                               sentgrid(partner(dims, q, delta), back,
                                        part(f[1], G[partner(dims, q, delta)], r), l))
  BY EntryIs DEF RecvEntry, N, j
<1>5. /\ x.rank = partner(dims, p, back)
      /\ x.grid = intersection(part(f[1], G[p], r),
                               sentgrid(partner(dims, p, back), delta,
                                        part(f[2], G[partner(dims, p, back)], r), l))
  BY <1>2, EntryIs DEF SendEntry, N
<1>6. ASSUME y.rank = p PROVE partner(dims, q, delta) = p /\ partner(dims, p, back) = q
  <2>1. partner(dims, q, delta) = p
    BY <1>4, <1>6
  <2>2. sendlist(dims, p)[k].rank = q
    BY <1>1, <1>4, <1>6, NeighborListsFit
  <2>3. sendlist(dims, p)[k].rank = partner(dims, p, back)
    BY <1>1, ListEntries DEF N, j
  <2>4. QED BY <2>1, <2>2, <2>3
<1> HIDE DEF x, y, delta, back
<1>7. y.rank = p =>
        /\ y.grid = intersection(part(f[2], G[q], r), sentgrid(p, back, part(f[1], G[p], r), l))
        /\ x.grid = intersection(part(f[1], G[p], r), sentgrid(q, delta, part(f[2], G[q], r), l))
  BY <1>4, <1>5, <1>6
<1>8. QED BY <1>3, <1>4, <1>7 DEF x, y, delta, back, j, N

(* What is sent and received at one position: a on the side of q that      *)
(* receives it, b on the side of p.  They are copies of one entity, and    *)
(* not the same copy.                                                      *)
Carried(a, b, p, q, A, B, l) ==
  /\ a \in points(B) /\ b \in points(A)
  /\ Same(a, b, l) /\ <<q, a>> # <<p, b>>

LEMMA OnePair ==
  ASSUME Config, Accepted, NEW G, NEW l \in Nat \ {0}, GridsOn(G, l),
         NEW p \in Procs, NEW q \in Procs, NEW f \in Interfaces, NEW r \in Shifts,
         NEW k \in 1..neighbors(dims),
         NEW y, y = RecvEntry(G, q, f, r, l, k), NEW x, x = SendEntry(G, p, f, r, l, neighbors(dims) + 1 - k),
         y.rank = p, NEW a \in points(y.grid),
         NEW b, b = [i \in Dir |-> a[i] + x.grid.origin[i] - y.grid.origin[i]]
  PROVE  Carried(a, b, p, q, part(f[1], G[p], r), part(f[2], G[q], r), l)
<1> DEFINE delta == nonzeroDelta(dims, k)
           back == nonzeroDelta(dims, neighbors(dims) + 1 - k)
           A == part(f[1], G[p], r)
           B == part(f[2], G[q], r)
           v == shifted(p, back, l)
           none == nobody(p, back)
<1>1. dims # NoDims /\ dims \in Seq(Nat \ {0}) /\ Dirs(dims) = Dir
  BY ConfigFacts DEF Accepted
<1>2. /\ p = partner(dims, q, delta)
      /\ \A i \in Dir : delta[i] \in {-1, 0, 1} /\ back[i] = -delta[i]
      /\ y.grid = intersection(B, sentgrid(p, back, A, l))
      /\ x.grid = intersection(A, sentgrid(q, delta, B, l))
  BY <1>1, EntryGrids
<1>3. \E i \in Dir : delta[i] # 0
  BY <1>1, EveryNeighborListed
<1>4. A \in Grids /\ B \in Grids
  <2>1. G[p] \in YGridLevels /\ G[q] \in YGridLevels /\ f[1] \in PartNames /\ f[2] \in PartNames
    BY DEF GridsOn, Interfaces, PartNames
  <2>2. QED BY <2>1, PartType
<1> HIDE DEF delta, back, A, B
<1>5. Sides(y.grid, x.grid, B, A, v, none, l)
  <2>1. Sides(intersection(B, sentgrid(partner(dims, q, delta), back, A, l)),
              intersection(A, sentgrid(q, delta, B, l)),
              B, A, shifted(partner(dims, q, delta), back, l), nobody(partner(dims, q, delta), back), l)
    BY <1>1, <1>2, <1>4, BothSides
  <2>2. QED BY <1>2, <2>1
<1> HIDE DEF v, none
<1>6. y.grid \in Grids /\ x.grid \in Grids /\ ~empty(y.grid) /\ a \in [Dir -> Int]
  <2>1. y.grid \in Grids /\ x.grid \in Grids
    BY <1>5 DEF Sides
  <2>2. QED BY <2>1, NoPoints, PointsOf
<1>7. ~none /\ ~empty(A) /\ ~empty(B)
  BY <1>5, <1>6, NoGridEmpty DEF Sides
<1>8. \A i \in Dir : /\ y.grid.origin[i] = x.grid.origin[i] + v[i] /\ v[i] \in Int
                     /\ y.grid.origin[i] \in Int /\ x.grid.origin[i] \in Int
  BY <1>5, <1>6, <1>7 DEF Sides, Grids
<1>9. b \in [Dir -> Int] /\ \A i \in Dir : a[i] - b[i] = v[i]
  <2>1. \A i \in Dir : b[i] = a[i] + x.grid.origin[i] - y.grid.origin[i] /\ a[i] \in Int
    BY <1>6
  <2>2. \A i \in Dir : b[i] \in Int /\ a[i] - b[i] = v[i]
    BY <1>8, <2>1
  <2>3. QED BY <2>2
<1>10. a \in points(B) /\ b \in points(A)
  <2>1. Opposite(delta, back)
    BY <1>2 DEF Opposite
  <2>2. Apart(a, b, shifted(p, back, l))
    BY <1>9 DEF Apart, v
  <2>3. p = partner(dims, q, delta) /\ a \in [Dir -> Int] /\ b \in [Dir -> Int] /\ dims # NoDims
    BY <1>1, <1>2, <1>6, <1>9
  <2>4. Meet(a, b, B, A, p, back, l)
    BY <1>4, <2>1, <2>2, <2>3, CommonPoints
  <2>5. QED BY <1>2, <2>4 DEF Meet
<1>11. Same(a, b, l)
  <2>1. \A i \in Dir : (v[i] % levelSize(l)[i]) = 0
    BY <1>5 DEF Sides
  <2>2. \A i \in Dir \ args.periodic : v[i] = 0
    BY <1>5, <1>7 DEF Sides
  <2>3. ASSUME NEW i \in Dir
        PROVE  IF i \in args.periodic THEN (a[i] - b[i]) % levelSize(l)[i] = 0 ELSE a[i] = b[i]
    <3>1. CASE i \in args.periodic
      BY <1>9, <2>1, <3>1
    <3>2. CASE i \notin args.periodic
      <4>1. a[i] - b[i] = 0 /\ a[i] \in Int /\ b[i] \in Int
        BY <1>6, <1>9, <2>2, <3>2
      <4>2. QED BY <3>2, <4>1
    <3>3. QED BY <3>1, <3>2
  <2>4. QED BY <2>3 DEF Same
<1>12. <<q, a>> # <<p, b>>
  <2>1. SUFFICES ASSUME q = p, a = b PROVE FALSE
    OBVIOUS
  <2>2. PICK i \in Dir : delta[i] # 0
    BY <1>3
  <2>3. v[i] = 0
    <3>1. a[i] - a[i] = v[i] /\ a[i] \in Int
      BY <1>6, <1>9, <2>1
    <3>2. QED BY <3>1
  <2> DEFINE c == at(q, i) + delta[i]
             n == dims[i]
             o == outside(p, back)[i]
             M == levelSize(l)[i]
  <2>4. /\ at(p, i) = IF c < 0 THEN n - 1 ELSE IF c >= n THEN 0 ELSE c
        /\ o = IF c < 0 THEN -1 ELSE IF c >= n THEN 1 ELSE 0
    BY <1>1, <1>2, PartnerCoord
  <2>5. v[i] = o * M /\ M \in Nat \ {0}
    BY LevelSizes DEF v, shifted
  <2>6. n \in Nat \ {0} /\ at(q, i) \in 0..n-1 /\ delta[i] \in {-1, 0, 1}
    BY <1>1, <1>2, ByCoordinate
  <2> HIDE DEF o, M, n
  <2>7. o = 0
    BY <2>3, <2>4, <2>5
  <2>8. at(p, i) = c
    BY <2>4, <2>7
  <2>9. QED BY <2>1, <2>2, <2>6, <2>8
<1>13. Carried(a, b, p, q, A, B, l)
  BY <1>10, <1>11, <1>12 DEF Carried
<1>14. QED BY <1>13 DEF A, B

(* A copy on q and one in the interior or border of p are one step apart   *)
(* in every direction.                                                     *)
LEMMA InDirection ==
  ASSUME Config, Accepted, NEW G, NEW l \in Nat \ {0}, GridsOn(G, l),
         NEW p \in Procs, NEW q \in Procs, NEW f \in Interfaces, f[1] = "interiorborder",
         NEW r \in Shifts, NEW a \in points(part(f[2], G[q], r)), NEW b \in points(part(f[1], G[p], r)),
         Same(a, b, l), NEW i \in Dir
  PROVE  \E d \in {-1, 0, 1} : Step(q, p, i, l, a[i], b[i], d)
<1> DEFINE g == G[q]
           ov == g.overlap
           h == half(r)[i]
           lo == lower(q, i, l)
           hi == upper(q, i, l)
<1>1. /\ g \in YGridLevels /\ G[p] \in YGridLevels /\ LevelInv(q, g, l) /\ LevelInv(p, G[p], l)
      /\ ov \in Nat /\ ov <= args.overlap * twice[l]
  BY DEF GridsOn, LevelInv, YGridLevels
<1>2. f[2] \in {"overlapfront", "interiorborder"} /\ f[1] \in PartNames /\ f[2] \in PartNames
  BY DEF Interfaces, PartNames
<1>3. /\ h \in {0, 1}
      /\ part("overlapfront", g, r).origin[i] = IF begins(q, i) THEN 0 ELSE lo - ov
      /\ part("overlapfront", g, r).origin[i] + part("overlapfront", g, r).size[i] =
           IF ends(q, i) THEN hi + h ELSE hi + ov + h
      /\ part("interiorborder", g, r).origin[i] = lo
      /\ part("interiorborder", g, r).origin[i] + part("interiorborder", g, r).size[i] = hi + h
  BY <1>1, PartRanges
<1>4. /\ part("interiorborder", G[p], r).origin[i] = lower(p, i, l)
      /\ part("interiorborder", G[p], r).origin[i] + part("interiorborder", G[p], r).size[i] =
           upper(p, i, l) + h
  BY <1>1, PartRanges
<1>5. part(f[1], G[p], r) \in Grids /\ part(f[2], g, r) \in Grids
  BY <1>1, <1>2, PartType
<1>6. /\ a[i] \in Int /\ b[i] \in Int
      /\ a[i] >= part(f[2], g, r).origin[i]
      /\ a[i] < part(f[2], g, r).origin[i] + part(f[2], g, r).size[i]
      /\ b[i] >= lower(p, i, l) /\ b[i] < upper(p, i, l) + h
  BY <1>4, <1>5, PointsOf
<1>7. lo \in Nat /\ hi \in Nat /\ (begins(q, i) => lo = 0)
  <2>1. mine(q)[i].origin = 0 => lo = 0
    BY <1>1, RoomOnLevel
  <2>2. QED BY <2>1, BoundsType DEF begins
<1> HIDE DEF g, ov, h, lo, hi
<1>8. /\ a[i] >= IF begins(q, i) THEN 0 ELSE lo - ov
      /\ a[i] < IF ends(q, i) THEN hi + h ELSE hi + ov + h
  <2>1. CASE f[2] = "overlapfront"
    BY <1>3, <1>6, <2>1
  <2>2. CASE f[2] = "interiorborder"
    <3>1. a[i] >= lo /\ a[i] < hi + h
      BY <1>3, <1>6, <2>2
    <3>2. ov \in Nat
      BY <1>1
    <3>3. QED BY <3>1, <3>2, <1>3, <1>6, <1>7
  <2>3. QED BY <1>2, <2>1, <2>2
<1>9. IF i \in args.periodic THEN (a[i] - b[i]) % levelSize(l)[i] = 0 ELSE a[i] = b[i]
  BY DEF Same
<1>10. QED BY <1>1, <1>3, <1>6, <1>8, <1>9, OneStep DEF lo, hi

(* The direction in which a process finds the owner of a copy. *)
Towards(q, p, a, b, delta, l) ==
  /\ delta \in [Dir -> {-1, 0, 1}]
  /\ \A i \in Dir : Step(q, p, i, l, a[i], b[i], delta[i])

(* Two copies are either at the same place of the same process, or it is   *)
(* a real direction; and the torus leads there.                            *)
LEMMA ThereIs ==
  ASSUME Config, Accepted, NEW l \in Nat \ {0}, NEW p \in Procs, NEW q \in Procs,
         NEW a \in [Dir -> Int], NEW b \in [Dir -> Int], <<q, a>> # <<p, b>>,
         NEW delta, Towards(q, p, a, b, delta, l)
  PROVE  \E i \in Dir : delta[i] # 0
<1> SUFFICES ASSUME \A i \in Dir : delta[i] = 0 PROVE FALSE
  OBVIOUS
<1>1. dims # NoDims
  BY DEF Accepted
<1>2. ASSUME NEW i \in Dir PROVE at(p, i) = at(q, i) /\ a[i] = b[i]
  <2>1. at(q, i) \in 0..dims[i]-1 /\ dims[i] \in Nat \ {0}
    BY <1>1, ByCoordinate
  <2>2. a[i] \in Int /\ b[i] \in Int
    OBVIOUS
  <2>3. at(q, i) + 0 = at(q, i) /\ ~(at(q, i) < 0) /\ ~(at(q, i) >= dims[i])
    BY <2>1
  <2>4. at(p, i) = at(q, i) /\ a[i] - b[i] = 0
    BY <2>3 DEF Towards, Step
  <2>5. QED BY <2>2, <2>4
<1>3. p = q
  BY <1>1, <1>2, SameProcess
<1>4. a = b
  BY <1>2
<1>5. QED BY <1>3, <1>4

LEMMA LeadsThere ==
  ASSUME Config, Accepted, NEW l \in Nat \ {0}, NEW p \in Procs, NEW q \in Procs,
         NEW a \in [Dir -> Int], NEW b \in [Dir -> Int],
         NEW delta, Towards(q, p, a, b, delta, l),
         NEW back, \A i \in Dir : back[i] = -delta[i]
  PROVE  p = partner(dims, q, delta) /\ Apart(a, b, shifted(p, back, l)) /\ ~nobody(p, back)
<1>1. dims # NoDims
  BY DEF Accepted
<1>2. \A i \in Dir : delta[i] \in {-1, 0, 1} /\ back[i] = -delta[i]
  BY DEF Towards
<1> DEFINE s == partner(dims, q, delta)
<1>3. ASSUME NEW i \in Dir
      PROVE  LET c == at(q, i) + delta[i]
             IN  /\ s \in Procs
                 /\ at(s, i) = IF c < 0 THEN dims[i] - 1 ELSE IF c >= dims[i] THEN 0 ELSE c
                 /\ outside(s, back)[i] = IF c < 0 THEN -1 ELSE IF c >= dims[i] THEN 1 ELSE 0
  BY <1>1, <1>2, PartnerCoord
<1> HIDE DEF s
<1>4. s = p
  <2>1. s \in Procs
    <3>1. 1 \in Dir
      BY ConfigFacts
    <3>2. QED BY <3>1, <1>3
  <2>2. \A i \in Dir : at(s, i) = at(p, i)
    BY <1>3 DEF Towards, Step
  <2>3. QED BY <1>1, <2>1, <2>2, SameProcess
<1>5. ASSUME NEW i \in Dir
      PROVE  /\ a[i] - b[i] = outside(p, back)[i] * levelSize(l)[i]
             /\ i \notin args.periodic => outside(p, back)[i] = 0
  <2> DEFINE c == at(q, i) + delta[i]
             M == levelSize(l)[i]
             o == outside(p, back)[i]
             n == dims[i]
             d == a[i] - b[i]
  <2>1. /\ o = IF c < 0 THEN -1 ELSE IF c >= n THEN 1 ELSE 0
        /\ d = IF c < 0 THEN -M ELSE IF c >= n THEN M ELSE 0
        /\ (c < 0 \/ c >= n) => i \in args.periodic
    BY <1>3, <1>4 DEF Towards, Step
  <2>2. M \in Nat
    BY LevelSizes
  <2> HIDE DEF c, M, o, n, d
  <2>3. d = o * M /\ (i \notin args.periodic => o = 0)
    BY <2>1, <2>2
  <2>4. QED BY <2>3 DEF d, o, M
<1>6. Apart(a, b, shifted(p, back, l))
  BY <1>5 DEF Apart, shifted
<1>7. ~nobody(p, back)
  BY <1>5 DEF nobody
<1>8. QED BY <1>4, <1>6, <1>7 DEF s

(* q receives a from p at position k of its neighbours, and it is b there. *)
Brings(G, a, b, p, q, f, r, l, k) ==
  LET y == RecvEntry(G, q, f, r, l, k)
      x == SendEntry(G, p, f, r, l, neighbors(dims) + 1 - k)
  IN  /\ y.rank = p /\ a \in points(y.grid)
      /\ b = [i \in Dir |-> a[i] + x.grid.origin[i] - y.grid.origin[i]]

LEMMA Found ==
  ASSUME Config, Accepted, NEW G, NEW l \in Nat \ {0}, GridsOn(G, l),
         NEW p \in Procs, NEW q \in Procs, NEW f \in Interfaces, f[1] = "interiorborder",
         NEW r \in Shifts, NEW a, NEW b,
         Carried(a, b, p, q, part(f[1], G[p], r), part(f[2], G[q], r), l)
  PROVE  \E k \in 1..neighbors(dims) : Brings(G, a, b, p, q, f, r, l, k)
<1> DEFINE A == part(f[1], G[p], r)
           B == part(f[2], G[q], r)
<1>1. dims # NoDims /\ dims \in Seq(Nat \ {0}) /\ Dirs(dims) = Dir
  BY ConfigFacts DEF Accepted
<1>2. A \in Grids /\ B \in Grids
  <2>1. G[p] \in YGridLevels /\ G[q] \in YGridLevels /\ f[1] \in PartNames /\ f[2] \in PartNames
    BY DEF GridsOn, Interfaces, PartNames
  <2>2. QED BY <2>1, PartType
<1>3. /\ a \in points(B) /\ b \in points(A) /\ Same(a, b, l) /\ <<q, a>> # <<p, b>>
      /\ a \in [Dir -> Int] /\ b \in [Dir -> Int]
  BY <1>2, PointsOf DEF Carried
<1>4. PICK delta \in [Dir -> {-1, 0, 1}] : Towards(q, p, a, b, delta, l)
  <2> DEFINE delta == [i \in Dir |-> CHOOSE d \in {-1, 0, 1} : Step(q, p, i, l, a[i], b[i], d)]
  <2>1. ASSUME NEW i \in Dir PROVE delta[i] \in {-1, 0, 1} /\ Step(q, p, i, l, a[i], b[i], delta[i])
    <3>1. \E d \in {-1, 0, 1} : Step(q, p, i, l, a[i], b[i], d)
      BY <1>3, InDirection
    <3>2. QED BY <3>1
  <2>2. delta \in [Dir -> {-1, 0, 1}]
    BY <2>1
  <2> HIDE DEF delta
  <2>3. QED BY <2>1, <2>2 DEF Towards
<1>5. \E i \in Dir : delta[i] # 0
  BY <1>3, <1>4, ThereIs
<1>6. PICK k \in 1..neighbors(dims) : nonzeroDelta(dims, k) = delta
  BY <1>1, <1>5, EveryNeighborListed
<1> DEFINE back == nonzeroDelta(dims, neighbors(dims) + 1 - k)
           y == RecvEntry(G, q, f, r, l, k)
           x == SendEntry(G, p, f, r, l, neighbors(dims) + 1 - k)
<1>7. /\ y.rank = partner(dims, q, delta)
      /\ \A i \in Dir : delta[i] \in {-1, 0, 1} /\ back[i] = -delta[i]
      /\ y.rank = p =>
           /\ y.grid = intersection(B, sentgrid(p, back, A, l))
           /\ x.grid = intersection(A, sentgrid(q, delta, B, l))
  BY <1>1, <1>6, EntryGrids
<1> HIDE DEF A, B, back, x, y
<1>8. p = partner(dims, q, delta) /\ Apart(a, b, shifted(p, back, l)) /\ ~nobody(p, back)
  BY <1>3, <1>4, <1>7, LeadsThere
<1>9. y.rank = p /\ y.grid = intersection(B, sentgrid(p, back, A, l))
      /\ x.grid = intersection(A, sentgrid(q, delta, B, l))
  BY <1>7, <1>8
<1>10. a \in points(y.grid)
  <2>1. Opposite(delta, back)
    BY <1>7 DEF Opposite
  <2>2. Meet(a, b, B, A, p, back, l)
    BY <1>1, <1>2, <1>3, <1>8, <2>1, CommonPoints
  <2>3. QED BY <1>3, <1>8, <1>9, <2>2 DEF Meet
<1>11. b = [i \in Dir |-> a[i] + x.grid.origin[i] - y.grid.origin[i]]
  <2> DEFINE v == shifted(p, back, l)
             none == nobody(p, back)
  <2>1. Sides(y.grid, x.grid, B, A, v, none, l)
    <3>1. Sides(intersection(B, sentgrid(partner(dims, q, delta), back, A, l)),
                intersection(A, sentgrid(q, delta, B, l)),
                B, A, shifted(partner(dims, q, delta), back, l), nobody(partner(dims, q, delta), back), l)
      BY <1>1, <1>2, <1>7, BothSides
    <3>2. QED BY <1>8, <1>9, <3>1
  <2>2. ~empty(A) /\ ~empty(B) /\ ~none
    BY <1>2, <1>3, <1>8, NoPoints
  <2>3. \A i \in Dir : a[i] - b[i] = v[i]
    BY <1>8 DEF Apart
  <2> HIDE DEF v, none
  <2>4. ASSUME NEW i \in Dir PROVE b[i] = a[i] + x.grid.origin[i] - y.grid.origin[i]
    <3>1. /\ y.grid.origin[i] = x.grid.origin[i] + v[i] /\ v[i] \in Int
          /\ x.grid.origin[i] \in Int
      BY <2>1, <2>2 DEF Sides, Grids
    <3>2. a[i] \in Int /\ b[i] \in Int /\ a[i] - b[i] = v[i]
      BY <1>3, <2>3
    <3>3. QED BY <3>1, <3>2
  <2>5. QED BY <1>3, <2>4
<1>12. Brings(G, a, b, p, q, f, r, l, k)
  BY <1>9, <1>10, <1>11 DEF Brings, x, y
<1>13. QED BY <1>12

(* The lists of a level are not looked at where its partitions are made.   *)
LEMMA SameParts ==
  ASSUME NEW g, NEW u, u.origin = g.origin, u.size = g.size, u.low = g.low, u.up = g.up,
         u.overlap = g.overlap, NEW name, NEW r
  PROVE  part(name, u, r) = part(name, g, r)
<1>1. overlapfront(u, r) = overlapfront(g, r)
  BY DEF overlapfront
<1>2. \A y, c : cut(y, u, c) = cut(y, g, c)
  BY DEF cut
<1>3. overlap(u, r) = overlap(g, r)
  BY <1>1, <1>2 DEF overlap
<1>4. interiorborder(u, r) = interiorborder(g, r)
  BY <1>2, <1>3 DEF interiorborder
<1>5. interior(u, r) = interior(g, r)
  BY <1>2, <1>4 DEF interior
<1>6. QED BY <1>1, <1>3, <1>4, <1>5 DEF part

(* c is among what p sends with the list s and q receives with t.          *)
Delivers(s, t, p, c) ==
  \E k \in 1..Len(t) : \E x \in points(t[k].grid) :
    c = <<x, p, [i \in Dir |-> x[i] + s[k].grid.origin[i] - t[k].grid.origin[i]]>>

LEMMA ReceivedFrom ==
  ASSUME NEW q, NEW f, NEW l, NEW r, NEW c
  PROVE  c \in Received(q, f, l, r)
           <=> \E p \in Procs : Delivers(With(level[p][l].send[f][r], q), With(level[q][l].recv[f][r], p), p, c)
<1> DEFINE S(p) == With(level[p][l].send[f][r], q)
           T(p) == With(level[q][l].recv[f][r], p)
           M(p, k) == {<<x, p, [i \in Dir |-> x[i] + S(p)[k].grid.origin[i] - T(p)[k].grid.origin[i]]>> :
                         x \in points(T(p)[k].grid)}
           L(p) == UNION {M(p, k) : k \in 1..Len(T(p))}
<1>1. Received(q, f, l, r) = UNION {L(p) : p \in Procs}
  BY DEF Received
<1>2. ASSUME NEW p PROVE c \in L(p) <=> Delivers(S(p), T(p), p, c)
  <2>1. c \in L(p) <=> \E k \in 1..Len(T(p)) : c \in M(p, k)
    OBVIOUS
  <2>2. ASSUME NEW k
        PROVE  c \in M(p, k) <=> \E x \in points(T(p)[k].grid) :
                 c = <<x, p, [i \in Dir |-> x[i] + S(p)[k].grid.origin[i] - T(p)[k].grid.origin[i]]>>
    OBVIOUS
  <2> HIDE DEF S, T, M, L
  <2>3. QED BY <2>1, <2>2 DEF Delivers
<1> HIDE DEF L
<1>3. c \in Received(q, f, l, r) <=> \E p \in Procs : c \in L(p)
  BY <1>1
<1>4. QED BY <1>2, <1>3

LEMMA WantedFrom ==
  ASSUME NEW q, NEW f, NEW l, NEW r, NEW c
  PROVE  c \in Wanted(q, f, l, r)
           <=> \E p \in Procs : \E a, b :
                 /\ c = <<a, p, b>>
                 /\ Carried(a, b, p, q, part(f[1], level[p][l], r), part(f[2], level[q][l], r), l)
<1> DEFINE A(p) == part(f[1], level[p][l], r)
           B == part(f[2], level[q][l], r)
<1>1. ASSUME NEW h PROVE h \in Holders(f[1], l, r) <=> \E p \in Procs : \E b \in points(A(p)) : h = <<p, b>>
  BY DEF Holders
<1>2. c \in Copies(q, f, l, r) <=> \E a \in points(B), h \in Holders(f[1], l, r) : c = <<a, h[1], h[2]>>
  BY DEF Copies
<1> HIDE DEF A, B
<1>3. c \in Copies(q, f, l, r)
        <=> \E a \in points(B) : \E p \in Procs : \E b \in points(A(p)) : c = <<a, p, b>>
  <2>1. ASSUME c \in Copies(q, f, l, r)
        PROVE  \E a \in points(B) : \E p \in Procs : \E b \in points(A(p)) : c = <<a, p, b>>
    <3>1. PICK a \in points(B), h \in Holders(f[1], l, r) : c = <<a, h[1], h[2]>>
      BY <1>2, <2>1
    <3>2. PICK p \in Procs : \E b \in points(A(p)) : h = <<p, b>>
      BY <1>1
    <3>3. PICK b \in points(A(p)) : h = <<p, b>>
      BY <3>2
    <3>4. h[1] = p /\ h[2] = b
      BY <3>3
    <3>5. QED BY <3>1, <3>4
  <2>2. ASSUME NEW a \in points(B), NEW p \in Procs, NEW b \in points(A(p)), c = <<a, p, b>>
        PROVE  c \in Copies(q, f, l, r)
    <3>1. PICK h : h = <<p, b>>
      OBVIOUS
    <3>2. h \in Holders(f[1], l, r)
      BY <1>1, <3>1
    <3>3. h[1] = p /\ h[2] = b
      BY <3>1
    <3>4. QED BY <1>2, <2>2, <3>2, <3>3
  <2>3. QED BY <2>1, <2>2
<1>4. c \in Wanted(q, f, l, r)
        <=> c \in Copies(q, f, l, r) /\ Same(c[1], c[3], l) /\ <<q, c[1]>> # <<c[2], c[3]>>
  BY DEF Wanted
<1>5. ASSUME NEW p \in Procs, NEW a, NEW b, c = <<a, p, b>>, Carried(a, b, p, q, A(p), B, l)
      PROVE  c \in Wanted(q, f, l, r)
  <2>1. c[1] = a /\ c[2] = p /\ c[3] = b
    BY <1>5
  <2>2. a \in points(B) /\ b \in points(A(p)) /\ Same(a, b, l) /\ <<q, a>> # <<p, b>>
    BY <1>5 DEF Carried
  <2>3. QED BY <1>3, <1>4, <1>5, <2>1, <2>2
<1>6. ASSUME c \in Wanted(q, f, l, r)
      PROVE  \E p \in Procs : \E a, b : c = <<a, p, b>> /\ Carried(a, b, p, q, A(p), B, l)
  <2>1. PICK a \in points(B), p \in Procs : \E b \in points(A(p)) : c = <<a, p, b>>
    BY <1>3, <1>4, <1>6
  <2>2. PICK b \in points(A(p)) : c = <<a, p, b>>
    BY <2>1
  <2>3. c[1] = a /\ c[2] = p /\ c[3] = b
    BY <2>2
  <2>4. Carried(a, b, p, q, A(p), B, l)
    BY <1>4, <1>6, <2>3 DEF Carried
  <2>5. QED BY <2>2, <2>4
<1>7. QED BY <1>5, <1>6 DEF A, B

LEMMA ReceivedGrid ==
  ASSUME Config, Accepted, NEW G, NEW l \in Nat \ {0}, GridsOn(G, l),
         NEW q \in Procs, NEW f \in Interfaces, NEW r \in Shifts, NEW k \in 1..neighbors(dims)
  PROVE  RecvEntry(G, q, f, r, l, k).grid \in Grids
<1>1. dims # NoDims /\ f[1] \in PartNames /\ f[2] \in PartNames
  BY DEF Accepted, Interfaces, PartNames
<1>2. part(f[2], G[q], r) \in Grids /\ HaveGrids(q, Neighbours(G, q))
  <2>1. G[q] \in YGridLevels
    BY DEF GridsOn
  <2>2. QED BY <1>1, <2>1, PartType, HaveNeighbours
<1>3. RecvEntry(G, q, f, r, l, k) \in Intersections
  BY <1>1, <1>2, EntryType DEF RecvEntry
<1>4. QED BY <1>3 DEF Intersections

(* The lists of p and q bring q what it wants from p, and nothing else.    *)
LEMMA PairsBring ==
  ASSUME Config, Accepted, NEW G, NEW l \in Nat \ {0}, GridsOn(G, l),
         NEW p \in Procs, NEW q \in Procs, NEW f \in Interfaces, f[1] = "interiorborder",
         NEW r \in Shifts, NEW s, NEW t, Pairs(s, t, G, p, q, f, r, l), NEW c
  PROVE  Delivers(s, t, p, c)
           <=> \E a, b : /\ c = <<a, p, b>>
                         /\ Carried(a, b, p, q, part(f[1], G[p], r), part(f[2], G[q], r), l)
<1> DEFINE A == part(f[1], G[p], r)
           B == part(f[2], G[q], r)
<1> HIDE DEF A, B
<1>1. ASSUME Delivers(s, t, p, c)
      PROVE  \E a, b : c = <<a, p, b>> /\ Carried(a, b, p, q, A, B, l)
  <2>1. PICK n \in 1..Len(t) : \E a \in points(t[n].grid) :
          c = <<a, p, [i \in Dir |-> a[i] + s[n].grid.origin[i] - t[n].grid.origin[i]]>>
    BY <1>1 DEF Delivers
  <2>2. PICK a \in points(t[n].grid) :
          c = <<a, p, [i \in Dir |-> a[i] + s[n].grid.origin[i] - t[n].grid.origin[i]]>>
    BY <2>1
  <2>3. PICK k \in 1..neighbors(dims) :
          /\ s[n] = SendEntry(G, p, f, r, l, neighbors(dims) + 1 - k)
          /\ t[n] = RecvEntry(G, q, f, r, l, k) /\ t[n].rank = p
    BY DEF Pairs
  <2>4. PICK b : b = [i \in Dir |-> a[i] + s[n].grid.origin[i] - t[n].grid.origin[i]]
    OBVIOUS
  <2>5. Carried(a, b, p, q, part(f[1], G[p], r), part(f[2], G[q], r), l)
    BY <2>3, <2>4, OnePair
  <2>6. QED BY <2>2, <2>4, <2>5 DEF A, B
<1>2. ASSUME NEW a, NEW b, c = <<a, p, b>>, Carried(a, b, p, q, A, B, l)
      PROVE  Delivers(s, t, p, c)
  <2>1. PICK k \in 1..neighbors(dims) : Brings(G, a, b, p, q, f, r, l, k)
    BY <1>2, Found DEF A, B
  <2> DEFINE y == RecvEntry(G, q, f, r, l, k)
             x == SendEntry(G, p, f, r, l, neighbors(dims) + 1 - k)
  <2>2. /\ y.rank = p /\ a \in points(y.grid)
        /\ b = [i \in Dir |-> a[i] + x.grid.origin[i] - y.grid.origin[i]]
    BY <2>1 DEF Brings
  <2>3. ~empty(y.grid)
    <3>1. y.grid \in Grids
      BY ReceivedGrid
    <3> HIDE DEF y
    <3>2. QED BY <2>2, <3>1, NoPoints
  <2>4. PICK n \in 1..Len(s) : s[n] = x /\ t[n] = y
    BY <2>2, <2>3 DEF Pairs
  <2>5. n \in 1..Len(t)
    BY DEF Pairs
  <2> HIDE DEF x, y
  <2>6. QED BY <1>2, <2>2, <2>4, <2>5 DEF Delivers
<1>3. QED BY <1>1, <1>2 DEF A, B

(* Data of interior and border entities reaches every other copy that the  *)
(* interface names, exactly those, and from the process that has it: over  *)
(* all sides, edges and corners, through periodic boundaries, and also     *)
(* where two processes, or one and itself, meet on several sides           *)
(* (intersections(), whose lists communicateCodim() walks).                *)
THEOREM Reached == Spec => [](args.ctor # "deprecated" => InteriorBorderReaches)
<1>1. TypeInv /\ OverlapInv /\ HistoryInv => (args.ctor # "deprecated" => InteriorBorderReaches)
  <2> SUFFICES ASSUME TypeInv, OverlapInv, HistoryInv, args.ctor # "deprecated",
                      NEW l \in 1..LevelLimit, Together(l),
                      NEW q \in Procs, NEW r \in Shifts, NEW f \in Interfaces, f[1] = "interiorborder"
               PROVE  Received(q, f, l, r) = Wanted(q, f, l, r)
    BY DEF InteriorBorderReaches
  <2>1. Config /\ Accepted /\ l \in Nat \ {0}
    BY ReadyAccepted DEF Together
  <2>2. PICK G : /\ GridsOn(G, l)
                 /\ \A x \in Procs : level[x][l] = intersections(x, G[x], Neighbours(G, x), l)
    BY MadeTogether
  <2>3. ASSUME NEW x \in Procs, NEW name PROVE part(name, level[x][l], r) = part(name, G[x], r)
    <3>1. G[x] \in YGridLevels /\ HaveGrids(x, Neighbours(G, x)) /\ dims # NoDims
      BY <2>1, <2>2, HaveNeighbours DEF GridsOn, Accepted
    <3>2. PICK u : u = intersections(x, G[x], Neighbours(G, x), l)
      OBVIOUS
    <3>3. /\ u.origin = G[x].origin /\ u.size = G[x].size /\ u.low = G[x].low /\ u.up = G[x].up
          /\ u.overlap = G[x].overlap
      BY <2>1, <3>1, <3>2, IntersectionsType
    <3>4. part(name, u, r) = part(name, G[x], r)
      BY <3>3, SameParts
    <3>5. QED BY <2>2, <3>2, <3>4
  <2>4. ASSUME NEW p \in Procs
        PROVE  Pairs(With(level[p][l].send[f][r], q), With(level[q][l].recv[f][r], p), G, p, q, f, r, l)
    <3>1. \A x \in Procs : G[x] \in YGridLevels
      BY <2>2 DEF GridsOn
    <3>2. level[p][l].send[f][r] = Reverse(met(p, part(f[1], G[p], r), Neighbours(G, p), f[2], r, l))
      BY <2>2, <3>1, TheLists
    <3>3. level[q][l].recv[f][r] = met(q, part(f[2], G[q], r), Neighbours(G, q), f[1], r, l)
      BY <2>2, <3>1, TheLists
    <3>4. QED BY <2>1, <2>2, <3>2, <3>3, ListsPaired
  <2>5. ASSUME NEW p \in Procs, NEW c
        PROVE  Delivers(With(level[p][l].send[f][r], q), With(level[q][l].recv[f][r], p), p, c)
                 <=> \E a, b : /\ c = <<a, p, b>>
                               /\ Carried(a, b, p, q, part(f[1], level[p][l], r), part(f[2], level[q][l], r), l)
    <3>1. PICK s, t : s = With(level[p][l].send[f][r], q) /\ t = With(level[q][l].recv[f][r], p)
      OBVIOUS
    <3>2. Pairs(s, t, G, p, q, f, r, l)
      BY <2>4, <3>1
    <3>3. Delivers(s, t, p, c)
            <=> \E a, b : /\ c = <<a, p, b>>
                          /\ Carried(a, b, p, q, part(f[1], G[p], r), part(f[2], G[q], r), l)
      BY <2>1, <2>2, <3>2, PairsBring
    <3>4. QED BY <2>3, <3>1, <3>3
  <2>6. ASSUME NEW c PROVE c \in Received(q, f, l, r) <=> c \in Wanted(q, f, l, r)
    BY <2>5, ReceivedFrom, WantedFrom
  <2>7. QED BY <2>6
<1>2. QED BY <1>1, Typed, OverlapAlways, HistoryAlways, PTL
-----------------------------------------------------------------------------
(* Numbers of entities                                                     *)

(* A loop that adds up n numbers. *)
Terms(w, n) == \A i \in 1..n : w[i] \in Int
Adds(g, a, w, n) == g \in [0..n -> Int] /\ g[0] = a /\ \A i \in 1..n : g[i] = g[i-1] + w[i]

LEMMA SumUpTo ==
  ASSUME NEW n \in Nat, NEW a \in Int, NEW w, Terms(w, n)
  PROVE  \E g : Adds(g, a, w, n)
<1> DEFINE F == [k \in 1..n |-> [z \in Int |-> z + w[k]]]
<1>1. F \in [1..n -> [Int -> Int]]
  BY DEF Terms
<1>2. PICK g : Follows(g, Int, a, F, n)
  <2> HIDE DEF F
  <2>1. QED BY <1>1, RecursionUpTo
<1>3. g \in [0..n -> Int] /\ g[0] = a
  BY <1>2 DEF Follows
<1>4. ASSUME NEW i \in 1..n PROVE g[i] = g[i-1] + w[i]
  <2>1. i - 1 \in 0..n
    OBVIOUS
  <2>2. g[i] = F[i][g[i-1]] /\ g[i-1] \in Int
    BY <1>2, <2>1 DEF Follows
  <2>3. w[i] \in Int
    BY DEF Terms
  <2>4. QED BY <2>2, <2>3
<1>5. QED BY <1>3, <1>4 DEF Adds

(* Two loops that agree in every step. *)
Parallel(f, g, n) == f[0] = g[0] /\ \A i \in 1..n : f[i-1] = g[i-1] => f[i] = g[i]

LEMMA StepsAgree ==
  ASSUME NEW n \in Nat, NEW f, NEW g, Parallel(f, g, n)
  PROVE  \A i \in 0..n : f[i] = g[i]
<1> DEFINE T == {i \in Nat : i <= n => f[i] = g[i]}
<1>1. 0 \in T
  BY DEF Parallel
<1>2. ASSUME NEW i \in Nat, i \in T PROVE i + 1 \in T
  <2>1. CASE i + 1 <= n
    <3>1. i + 1 \in 1..n /\ (i + 1) - 1 = i /\ f[i] = g[i]
      BY <1>2, <2>1
    <3>2. QED BY <3>1 DEF Parallel
  <2>2. QED BY <2>1
<1>3. Nat \subseteq T
  <2> HIDE DEF T
  <2>1. QED BY <1>1, <1>2, InductionOn
<1>4. QED BY <1>3

-----------------------------------------------------------------------------
(* The number of a point in its grid *)

(* A grid with at least one point in every direction. *)
Boxes == [origin : [Dir -> Int], size : [Dir -> Nat \ {0}]]

from_origin(y, x) == [i \in Dir |-> x[i] - y.origin[i]]

LEMMA BoxFacts ==
  ASSUME Config, NEW y \in Boxes
  PROVE  /\ y \in Grids /\ y.size \in Seq(Nat \ {0}) /\ Len(y.size) = dim /\ Dirs(y.size) = Dir
         /\ dim \in Nat \ {0} /\ Dir = 1..dim
         /\ totalsize(y) \in Nat \ {0} /\ Ranks(y.size) = 0..totalsize(y)-1
<1>1. dim \in Nat \ {0} /\ Dir = 1..dim
  BY ConfigFacts DEF dim
<1>2. y \in Grids /\ y.size \in [1..dim -> Nat \ {0}]
  BY <1>1 DEF Boxes, Grids
<1>3. y.size \in Seq(Nat \ {0}) /\ Len(y.size) = dim
  BY <1>1, <1>2
<1>4. totalsize(y) \in Nat \ {0}
  <2>1. dim + 1 \in 1..dim+1
    BY <1>1
  <2>2. QED BY <1>3, <2>1, Increments DEF totalsize, procs
<1>5. QED BY <1>1, <1>2, <1>3, <1>4 DEF Dirs, Ranks, totalsize

(* superindex() counts like the ranks of a torus of the size of the grid.  *)
LEMMA SuperindexIs ==
  ASSUME Config, NEW g, NEW r, overlapfront(g, r) \in Boxes, NEW x \in points(overlapfront(g, r))
  PROVE  superindex(g, r, x) = coord_to_rank(overlapfront(g, r).size, from_origin(overlapfront(g, r), x))
<1> DEFINE y == overlapfront(g, r)
           s == y.size
           c == from_origin(y, x)
           Body(si) == [i \in 0..dim |-> IF i = 0 THEN 0
                          ELSE si[i-1] + (x[i] - y.origin[i]) * superincrement(y, i)]
           S == CHOOSE si : si = Body(si)
           P == Partial(s, c)
<1>1. /\ y \in Grids /\ s \in Seq(Nat \ {0}) /\ Len(s) = dim /\ Dirs(s) = Dir
      /\ dim \in Nat \ {0} /\ Dir = 1..dim
  BY BoxFacts
<1>2. superindex(g, r, x) = S[dim]
  BY DEF superindex
<1> HIDE DEF y
<1>3. \A i \in Dir : /\ x[i] \in Int /\ y.origin[i] \in Int /\ s[i] \in Nat \ {0}
                     /\ c[i] = x[i] - y.origin[i] /\ c[i] \in 0..s[i]-1
  <2>1. x \in [Dir -> Int] /\ \A i \in Dir : x[i] >= y.origin[i] /\ x[i] < y.origin[i] + y.size[i]
    BY <1>1, PointsOf DEF y
  <2>2. \A i \in Dir : y.origin[i] \in Int /\ s[i] \in Nat \ {0}
    BY DEF Boxes, y
  <2>3. QED BY <2>1, <2>2 DEF from_origin
<1>4. \A i \in Dir : superincrement(y, i) \in Int /\ superincrement(y, i) = increment(s)[i]
  BY <1>1, Increments DEF superincrement
<1>5. /\ coord_to_rank(s, c) = P[dim] /\ P[0] = 0
      /\ \A i \in Dir : P[i] = P[i-1] + (c[i] % s[i]) * increment(s)[i]
  <2>1. \A i \in Dirs(s) : c[i] \in Int
    BY <1>1, <1>3
  <2> HIDE DEF c, s
  <2>2. QED BY <1>1, <2>1, PartialRec
<1>6. \A i \in Dir : (c[i] % s[i]) = c[i]
  BY <1>3, SmallRemainder
<1> HIDE DEF c, s, P
<1> DEFINE w == [i \in Dir |-> (x[i] - y.origin[i]) * superincrement(y, i)]
<1>7. Terms(w, dim)
  BY <1>1, <1>3, <1>4 DEF Terms
<1>8. PICK f : Adds(f, 0, w, dim)
  <2> HIDE DEF w
  <2>1. QED BY <1>1, <1>7, SumUpTo
<1>9. f = Body(f)
  BY <1>1, <1>8 DEF Adds
<1>10. S = Body(S)
  <2> HIDE DEF Body
  <2>1. QED BY <1>9
<1> HIDE DEF S
<1>11. S[0] = 0 /\ \A i \in 1..dim : S[i] = S[i-1] + (x[i] - y.origin[i]) * superincrement(y, i)
  BY <1>1, <1>10
<1>12. ASSUME NEW i \in 1..dim PROVE S[i-1] = P[i-1] => S[i] = P[i]
  <2>1. i \in Dir
    BY <1>1
  <2>2. x[i] - y.origin[i] = (c[i] % s[i]) /\ superincrement(y, i) = increment(s)[i]
    BY <2>1, <1>3, <1>4, <1>6
  <2>3. S[i] = S[i-1] + (c[i] % s[i]) * increment(s)[i]
    BY <2>2, <1>11
  <2>4. P[i] = P[i-1] + (c[i] % s[i]) * increment(s)[i]
    BY <2>1, <1>5
  <2>5. QED BY <2>3, <2>4
<1>13. S[dim] = P[dim]
  <2>1. dim \in Nat /\ S[0] = P[0]
    BY <1>1, <1>5, <1>11
  <2>2. Parallel(S, P, dim)
    BY <2>1, <1>12 DEF Parallel
  <2>3. QED BY <2>1, <2>2, StepsAgree
<1>14. QED BY <1>2, <1>5, <1>13 DEF c, s, y

(* The points of a grid have the numbers 0..totalsize-1, each has one.     *)
LEMMA BoxNumbered ==
  ASSUME Config, NEW g, NEW r, overlapfront(g, r) \in Boxes
  PROVE  LET Y == points(overlapfront(g, r))
             m == totalsize(overlapfront(g, r))
         IN  /\ \A x \in Y : superindex(g, r, x) \in 0..m-1
             /\ \A x, z \in Y : superindex(g, r, x) = superindex(g, r, z) => x = z
             /\ \A v \in 0..m-1 : \E x \in Y : superindex(g, r, x) = v
<1> DEFINE y == overlapfront(g, r)
           s == y.size
           m == totalsize(y)
<1>1. /\ y \in Grids /\ s \in Seq(Nat \ {0}) /\ Dirs(s) = Dir /\ Ranks(s) = 0..m-1
  BY BoxFacts
<1>2. \A x \in points(y) : superindex(g, r, x) = coord_to_rank(s, from_origin(y, x))
  BY SuperindexIs
<1>3. \A i \in Dir : y.origin[i] \in Int /\ s[i] \in Nat \ {0}
  BY DEF Boxes
<1> HIDE DEF y, m
<1>4. \A x : x \in points(y) <=> /\ x \in [Dir -> Int]
                                 /\ \A i \in Dir : x[i] >= y.origin[i] /\ x[i] < y.origin[i] + y.size[i]
  BY <1>1, PointsOf
<1>5. ASSUME NEW x \in points(y)
      PROVE  /\ coord_to_rank(s, from_origin(y, x)) \in 0..m-1
             /\ x \in [Dir -> Int]
             /\ \A i \in Dir : rank_to_coord(s, coord_to_rank(s, from_origin(y, x)))[i] = x[i] - y.origin[i]
  <2> DEFINE c == from_origin(y, x)
  <2>1. \A i \in Dir : c[i] = x[i] - y.origin[i] /\ c[i] \in 0..s[i]-1 /\ s[i] \in Nat \ {0}
    BY <1>3, <1>4 DEF from_origin
  <2>2. \A i \in Dir : (c[i] % s[i]) = c[i]
    BY <2>1, SmallRemainder
  <2>3. \A i \in Dirs(s) : c[i] \in Int
    BY <1>1, <2>1
  <2> HIDE DEF c, s
  <2>4. coord_to_rank(s, c) \in Ranks(s) /\ \A i \in Dirs(s) : rank_to_coord(s, coord_to_rank(s, c))[i] = (c[i] % s[i])
    BY <1>1, <2>3, CoordOfRank
  <2>5. QED BY <1>1, <1>4, <2>1, <2>2, <2>4 DEF c
<1>6. ASSUME NEW x \in points(y), NEW z \in points(y),
             coord_to_rank(s, from_origin(y, x)) = coord_to_rank(s, from_origin(y, z))
      PROVE  x = z
  <2>1. \A i \in Dir : x[i] - y.origin[i] = z[i] - y.origin[i]
    BY <1>5, <1>6
  <2>2. x \in [Dir -> Int] /\ z \in [Dir -> Int]
    BY <1>5
  <2>3. \A i \in Dir : x[i] = z[i]
    BY <1>3, <2>1, <2>2
  <2>4. QED BY <2>2, <2>3
<1>7. ASSUME NEW v \in 0..m-1 PROVE \E x \in points(y) : coord_to_rank(s, from_origin(y, x)) = v
  <2> DEFINE c == rank_to_coord(s, v)
             x == [i \in Dir |-> y.origin[i] + c[i]]
  <2>1. v \in Ranks(s) /\ v \in Nat
    BY <1>1
  <2>2. coord_to_rank(s, c) = v
    <3> HIDE DEF s
    <3>1. QED BY <1>1, <2>1, RankOfCoord
  <2>3. \A i \in Dir : c[i] \in 0..s[i]-1
    <3> HIDE DEF s
    <3>1. QED BY <1>1, <2>1, CoordRange
  <2>4. c = [i \in Dir |-> c[i]]
    BY <1>1 DEF rank_to_coord
  <2> HIDE DEF c
  <2>5. x \in points(y)
    BY <1>3, <1>4, <2>3
  <2>6. from_origin(y, x) = c
    <3>1. \A i \in Dir : from_origin(y, x)[i] = c[i]
      BY <1>3, <2>3 DEF from_origin
    <3>2. from_origin(y, x) = [i \in Dir |-> from_origin(y, x)[i]]
      BY DEF from_origin
    <3> HIDE DEF x
    <3>3. QED BY <2>4, <3>1, <3>2
  <2>7. QED BY <2>2, <2>5, <2>6
<1>8. QED BY <1>2, <1>5, <1>6, <1>7 DEF y, m
-----------------------------------------------------------------------------
(* The shifts and their numbers *)

Twos == [i \in Dir |-> 2]
bits(r) == [i \in Dir |-> IF i \in r THEN 1 ELSE 0]

(* The places of the bits are the increments of a torus with two processes *)
(* in every direction.                                                     *)
LEMMA BitPlaces ==
  ASSUME Config
  PROVE  /\ dim \in Nat \ {0} /\ Dir = 1..dim /\ 2^dim \in Nat \ {0}
         /\ Twos \in Seq(Nat \ {0}) /\ Len(Twos) = dim /\ Dirs(Twos) = Dir /\ procs(Twos) = 2^dim
         /\ \A i \in Dir : Twos[i] = 2 /\ 2^(i-1) \in Nat \ {0} /\ increment(Twos)[i] = 2^(i-1)
                           /\ increment(Twos)[i+1] = 2^(i-1) * 2
<1>1. dim \in Nat \ {0} /\ Dir = 1..dim
  BY ConfigFacts DEF dim
<1>2. Twos \in [1..dim -> Nat \ {0}]
  BY <1>1 DEF Twos
<1>3. Twos \in Seq(Nat \ {0}) /\ Len(Twos) = dim
  BY <1>1, <1>2
<1> DEFINE inc == increment(Twos)
           T == {k \in Nat : k <= dim => inc[k+1] = 2^k}
<1>4. inc[1] = 1 /\ \A i \in Dir : inc[i+1] = inc[i] * Twos[i]
  BY <1>1, <1>3, Increments DEF Dirs
<1> HIDE DEF inc
<1>5. 0 \in T
  BY <1>4, PowerZero
<1>6. ASSUME NEW k \in Nat, k \in T PROVE k + 1 \in T
  <2> SUFFICES ASSUME k + 1 <= dim PROVE inc[(k+1)+1] = 2^(k+1)
    OBVIOUS
  <2>1. inc[k+1] = 2^k /\ k + 1 \in Dir
    BY <1>1, <1>6
  <2>2. inc[(k+1)+1] = 2^k * 2
    BY <1>4, <2>1 DEF Twos
  <2>3. 2^(k+1) = 2 * 2^k /\ 2^k \in Nat
    BY PowerNext, PowerOfTwo
  <2>4. QED BY <2>2, <2>3
<1>7. Nat \subseteq T
  <2> HIDE DEF T
  <2>1. QED BY <1>5, <1>6, InductionOn
<1>8. procs(Twos) = 2^dim /\ 2^dim \in Nat \ {0}
  <2>1. inc[dim+1] = 2^dim
    BY <1>1, <1>7
  <2>2. procs(Twos) = inc[dim+1]
    BY <1>3 DEF procs, inc
  <2>3. 2^dim \in Nat \ {0}
    BY <1>1, PowerOfTwo
  <2>4. QED BY <2>1, <2>2, <2>3
<1>9. ASSUME NEW i \in Dir
      PROVE  /\ Twos[i] = 2 /\ 2^(i-1) \in Nat \ {0} /\ inc[i] = 2^(i-1)
             /\ inc[i+1] = 2^(i-1) * 2
  <2>1. i - 1 \in Nat /\ i - 1 <= dim /\ (i - 1) + 1 = i
    BY <1>1
  <2>2. inc[i] = 2^(i-1)
    BY <1>7, <2>1
  <2>3. Twos[i] = 2
    BY DEF Twos
  <2>4. QED BY <1>4, <2>1, <2>2, <2>3, PowerOfTwo
<1>10. QED BY <1>1, <1>3, <1>8, <1>9 DEF inc, Dirs

(* to_ulong() counts like the ranks of that torus.                         *)
LEMMA UlongIs ==
  ASSUME Config, NEW r \in Shifts
  PROVE  to_ulong(r) = coord_to_rank(Twos, bits(r))
<1> DEFINE c == bits(r)
           w == [i \in Dir |-> IF i \in r THEN 2^(i-1) ELSE 0]
           Body(f) == [i \in 0..dim |-> IF i = 0 THEN 0 ELSE f[i-1] + (IF i \in r THEN 2^(i-1) ELSE 0)]
           S == CHOOSE f : f = Body(f)
           P == Partial(Twos, c)
<1>1. /\ dim \in Nat \ {0} /\ Dir = 1..dim
      /\ Twos \in Seq(Nat \ {0}) /\ Len(Twos) = dim /\ Dirs(Twos) = Dir
      /\ \A i \in Dir : Twos[i] = 2 /\ 2^(i-1) \in Nat \ {0} /\ increment(Twos)[i] = 2^(i-1)
  BY BitPlaces
<1>2. to_ulong(r) = S[dim]
  BY DEF to_ulong
<1>3. \A i \in Dir : c[i] \in 0..1 /\ (c[i] % 2) = c[i] /\ c[i] = IF i \in r THEN 1 ELSE 0
  BY DEF bits
<1>4. /\ coord_to_rank(Twos, c) = P[dim] /\ P[0] = 0
      /\ \A i \in Dir : P[i] = P[i-1] + (c[i] % Twos[i]) * increment(Twos)[i]
  <2>1. \A i \in Dirs(Twos) : c[i] \in Int
    BY <1>1, <1>3
  <2> HIDE DEF c
  <2>2. QED BY <1>1, <2>1, PartialRec
<1> HIDE DEF P
<1>5. Terms(w, dim)
  BY <1>1 DEF Terms
<1>6. PICK f : Adds(f, 0, w, dim)
  <2> HIDE DEF w
  <2>1. QED BY <1>1, <1>5, SumUpTo
<1>7. f = Body(f)
  BY <1>1, <1>6 DEF Adds
<1>8. S = Body(S)
  <2> HIDE DEF Body
  <2>1. QED BY <1>7
<1> HIDE DEF S
<1>9. S[0] = 0 /\ \A i \in 1..dim : S[i] = S[i-1] + (IF i \in r THEN 2^(i-1) ELSE 0)
  BY <1>1, <1>8
<1>10. ASSUME NEW i \in 1..dim PROVE S[i-1] = P[i-1] => S[i] = P[i]
  <2>1. i \in Dir /\ 2^(i-1) \in Nat
    BY <1>1
  <2>2. (c[i] % Twos[i]) * increment(Twos)[i] = c[i] * 2^(i-1)
    BY <1>1, <1>3, <2>1
  <2>3. c[i] * 2^(i-1) = IF i \in r THEN 2^(i-1) ELSE 0
    <3> DEFINE q == 2^(i-1)
    <3> HIDE DEF q
    <3>1. c[i] * q = IF i \in r THEN q ELSE 0
      BY <1>3, <2>1 DEF q
    <3>2. QED BY <3>1 DEF q
  <2>4. QED BY <1>4, <1>9, <2>1, <2>2, <2>3
<1>11. Parallel(S, P, dim)
  BY <1>4, <1>9, <1>10 DEF Parallel
<1>12. S[dim] = P[dim]
  BY <1>1, <1>11, StepsAgree
<1>13. QED BY <1>2, <1>4, <1>12

(* One digit. *)
LEMMA BitOf ==
  ASSUME NEW k \in Nat, NEW a \in Nat \ {0}
  PROVE  (k % (a * 2)) \div a = (k \div a) % 2
<1> DEFINE Q == k \div (a * 2)
           m == k % (a * 2)
           q == m \div a
           R == m % a
<1>1. a * 2 \in Nat \ {0}
  OBVIOUS
<1>2. Q \in Nat /\ m \in 0..a*2-1 /\ k = (a * 2) * Q + m
  BY <1>1, Division
<1> HIDE DEF Q, m
<1>3. q \in Nat /\ R \in 0..a-1 /\ m = a * q + R
  <2>1. m \in Nat
    BY <1>1, <1>2
  <2>2. QED BY <2>1, Division
<1> HIDE DEF q, R
<1>4. q < 2
  <2> SUFFICES ASSUME q >= 2 PROVE FALSE
    BY <1>3
  <2>1. a * 2 <= a * q
    BY <1>3, MoreTimes
  <2>2. a * q \in Nat
    BY <1>3
  <2>3. QED BY <2>1, <2>2, <1>2, <1>3
<1>5. k = a * (2 * Q + q) + R
  <2>1. (a * 2) * Q = a * (2 * Q) /\ a * (2 * Q + q) = a * (2 * Q) + a * q
    BY <1>2, <1>3
  <2>2. a * (2 * Q) \in Nat /\ a * q \in Nat
    BY <1>2, <1>3
  <2>3. QED BY <1>2, <1>3, <2>1, <2>2
<1>6. k \div a = 2 * Q + q
  <2>1. 2 * Q + q \in Int
    BY <1>2, <1>3
  <2>2. QED BY <1>3, <1>5, <2>1, DivisionUnique
<1>7. ((2 * Q + q) % 2) = q
  BY <1>2, <1>3, <1>4
<1>8. QED BY <1>6, <1>7 DEF q, m

(* to_ulong() and bitset() are inverse to each other.                      *)
LEMMA BitsCorrespond ==
  ASSUME Config
  PROVE  /\ 2^dim \in Nat \ {0}
         /\ \A r \in Shifts : to_ulong(r) \in 0..2^dim-1 /\ bitset(to_ulong(r)) = r
         /\ \A k \in 0..2^dim-1 : bitset(k) \in Shifts /\ to_ulong(bitset(k)) = k
<1>1. /\ 2^dim \in Nat \ {0} /\ Dir = 1..dim
      /\ Twos \in Seq(Nat \ {0}) /\ Dirs(Twos) = Dir /\ Ranks(Twos) = 0..2^dim-1
      /\ \A i \in Dir : Twos[i] = 2 /\ 2^(i-1) \in Nat \ {0} /\ increment(Twos)[i] = 2^(i-1)
                        /\ increment(Twos)[i+1] = 2^(i-1) * 2
  BY BitPlaces DEF Ranks
<1>2. ASSUME NEW k \in Nat, NEW i \in Dir
      PROVE  rank_to_coord(Twos, k)[i] = (k \div 2^(i-1)) % 2
  <2>1. rank_to_coord(Twos, k)[i] = (k % increment(Twos)[i+1]) \div increment(Twos)[i]
    BY <1>1 DEF rank_to_coord
  <2> DEFINE a == 2^(i-1)
  <2>2. a \in Nat \ {0} /\ increment(Twos)[i+1] = a * 2 /\ increment(Twos)[i] = a
    BY <1>1
  <2> HIDE DEF a
  <2>3. (k % (a * 2)) \div a = (k \div a) % 2
    BY <2>2, BitOf
  <2>4. QED BY <2>1, <2>2, <2>3 DEF a
<1>3. ASSUME NEW r \in Shifts PROVE to_ulong(r) \in 0..2^dim-1 /\ bitset(to_ulong(r)) = r
  <2> DEFINE c == bits(r)
             k == coord_to_rank(Twos, c)
  <2>1. \A i \in Dir : c[i] \in 0..1 /\ (c[i] % 2) = c[i] /\ (c[i] = 1 <=> i \in r)
    BY DEF bits
  <2>2. \A i \in Dirs(Twos) : c[i] \in Int
    BY <1>1, <2>1
  <2>3. k \in Ranks(Twos) /\ \A i \in Dirs(Twos) : rank_to_coord(Twos, k)[i] = (c[i] % Twos[i])
    <3> HIDE DEF c
    <3>1. Twos \in Seq(Nat \ {0})
      BY <1>1
    <3>2. QED BY <3>1, <2>2, CoordOfRank
  <2> HIDE DEF c
  <2>4. to_ulong(r) = k
    BY UlongIs DEF c
  <2> HIDE DEF k
  <2>5. k \in 0..2^dim-1 /\ k \in Nat
    BY <1>1, <2>3
  <2>6. \A i \in Dir : (k \div 2^(i-1)) % 2 = c[i]
    BY <1>1, <1>2, <2>1, <2>3, <2>5
  <2>7. bitset(k) = r
    BY <2>1, <2>6 DEF bitset, Shifts
  <2>8. QED BY <2>4, <2>5, <2>7
<1>4. ASSUME NEW k \in 0..2^dim-1 PROVE bitset(k) \in Shifts /\ to_ulong(bitset(k)) = k
  <2>1. k \in Nat /\ k \in Ranks(Twos)
    BY <1>1
  <2>2. bitset(k) \in Shifts
    BY DEF bitset, Shifts
  <2> DEFINE c == rank_to_coord(Twos, k)
  <2>3. coord_to_rank(Twos, c) = k
    BY <1>1, <2>1, RankOfCoord
  <2>4. \A i \in Dir : c[i] \in 0..1 /\ c[i] = (k \div 2^(i-1)) % 2
    <3>1. \A i \in Dirs(Twos) : c[i] \in 0..Twos[i]-1
      BY <1>1, <2>1, CoordRange
    <3>2. ASSUME NEW i \in Dir PROVE c[i] \in 0..1
      <4>1. Twos[i] = 2 /\ i \in Dirs(Twos)
        BY <1>1
      <4>2. c[i] \in 0..Twos[i]-1
        BY <3>1, <4>1
      <4> HIDE DEF c
      <4>3. QED BY <4>1, <4>2
    <3>3. \A i \in Dir : c[i] = (k \div 2^(i-1)) % 2
      BY <1>2, <2>1
    <3>4. QED BY <3>2, <3>3
  <2>5. c = [i \in Dir |-> c[i]]
    BY <1>1 DEF rank_to_coord
  <2> HIDE DEF c
  <2>6. bits(bitset(k)) = c
    <3>1. \A i \in Dir : bits(bitset(k))[i] = c[i]
      BY <2>4 DEF bits, bitset
    <3>2. bits(bitset(k)) = [i \in Dir |-> bits(bitset(k))[i]]
      BY DEF bits
    <3>3. QED BY <2>5, <3>1, <3>2
  <2>7. QED BY <2>2, <2>3, <2>6, UlongIs
<1>5. QED BY <1>1, <1>3, <1>4
-----------------------------------------------------------------------------
(* The numbers of the entities of a codimension *)

(* The grid of all points of a level that have the shift r has some.       *)
LEMMA LevelBoxes ==
  ASSUME Config, Accepted, NEW p \in Procs, NEW l \in Nat \ {0}, NEW g \in YGridLevels,
         LevelInv(p, g, l), NEW r \in Shifts
  PROVE  overlapfront(g, r) \in Boxes
<1> DEFINE y == overlapfront(g, r)
<1>1. g.origin \in [Dir -> Int] /\ g.size \in [Dir -> Int]
  BY DEF YGridLevels
<1>2. y.origin = g.origin /\ y.size = [i \in Dir |-> g.size[i] + half(r)[i]]
      /\ y = [origin |-> y.origin, size |-> y.size]
  BY DEF overlapfront, ygrid
<1>3. ASSUME NEW i \in Dir PROVE y.size[i] \in Nat \ {0}
  <2>0. /\ half(r)[i] \in {0, 1}
        /\ overlapfront(g, r).origin[i] = IF begins(p, i) THEN 0 ELSE lower(p, i, l) - g.overlap
        /\ overlapfront(g, r).origin[i] + overlapfront(g, r).size[i]
             = IF ends(p, i) THEN upper(p, i, l) + half(r)[i]
               ELSE upper(p, i, l) + g.overlap + half(r)[i]
    <3>1. part("overlapfront", g, r) = overlapfront(g, r)
      BY DEF part
    <3>2. QED BY <3>1, PartRanges
  <2> DEFINE a == lower(p, i, l)
             b == upper(p, i, l)
             h == half(r)[i]
             o == g.overlap
             z == y.origin[i]
             e == y.size[i]
  <2>1. a \in Nat /\ b \in Nat /\ a < b
    BY BoundsType, BeforeOrSame
  <2>2. o \in Nat /\ (begins(p, i) => a = 0)
    <3>1. g.overlap \in Nat /\ g.overlap <= args.overlap * twice[l]
      BY DEF LevelInv, YGridLevels
    <3>2. QED BY <3>1, RoomOnLevel DEF begins
  <2>3. /\ h \in {0, 1}
        /\ z = IF begins(p, i) THEN 0 ELSE a - o
        /\ z + e = IF ends(p, i) THEN b + h ELSE b + o + h
    BY <2>0 DEF h, z, e, a, b, o
  <2>4. z \in Int /\ e \in Int
    BY <1>1, <1>2, <2>3
  <2> HIDE DEF a, b, h, o, z, e
  <2>5. e \in Nat \ {0}
    BY <2>1, <2>2, <2>3, <2>4
  <2>6. QED BY <2>5 DEF e
<1>4. y.size \in [Dir -> Nat \ {0}]
  BY <1>2, <1>3
<1>5. QED BY <1>1, <1>2, <1>4 DEF Boxes

(* Intervals one after the other: n[k] numbers belong to the first k, the  *)
(* k-th has w[k].                                                          *)
Sizes(w, N) == \A i \in 1..N : w[i] \in Nat

LEMMA Ascending ==
  ASSUME NEW N \in Nat, NEW w, Sizes(w, N), NEW n, Adds(n, 0, w, N)
  PROVE  \A j \in 0..N : \A k \in j..N : n[j] \in Nat /\ n[k] \in Nat /\ n[j] <= n[k]
<1> DEFINE T == {k \in Nat : k <= N => n[k] \in Nat /\ \A j \in 0..k : n[j] \in Nat /\ n[j] <= n[k]}
<1>1. 0 \in T
  BY DEF Adds
<1>2. ASSUME NEW k \in Nat, k \in T PROVE k + 1 \in T
  <2> SUFFICES ASSUME k + 1 <= N
               PROVE  n[k+1] \in Nat /\ \A j \in 0..k+1 : n[j] \in Nat /\ n[j] <= n[k+1]
    OBVIOUS
  <2>1. k + 1 \in 1..N /\ (k + 1) - 1 = k
    OBVIOUS
  <2>2. n[k+1] = n[k] + w[k+1] /\ w[k+1] \in Nat
    BY <2>1 DEF Adds, Sizes
  <2>3. n[k] \in Nat /\ \A j \in 0..k : n[j] \in Nat /\ n[j] <= n[k]
    BY <1>2
  <2>4. n[k+1] \in Nat /\ n[k] <= n[k+1]
    BY <2>2, <2>3
  <2>5. QED BY <2>3, <2>4
<1>3. Nat \subseteq T
  <2> HIDE DEF T
  <2>1. QED BY <1>1, <1>2, InductionOn
<1>4. QED BY <1>3

LEMMA Intervals ==
  ASSUME NEW N \in Nat, NEW w, Sizes(w, N), NEW n, Adds(n, 0, w, N)
  PROVE  /\ n[N] \in Nat
         /\ \A k \in 1..N : \A v \in 0..w[k]-1 : n[k-1] + v \in 0..n[N]-1
         /\ \A u \in 0..n[N]-1 : \E k \in 1..N : \E v \in 0..w[k]-1 : u = n[k-1] + v
         /\ \A j, k \in 1..N : \A u \in 0..w[j]-1, v \in 0..w[k]-1 :
              n[j-1] + u = n[k-1] + v => j = k
<1>1. \A j \in 0..N : \A k \in j..N : n[j] \in Nat /\ n[k] \in Nat /\ n[j] <= n[k]
  BY Ascending
<1>2. \A k \in 1..N : n[k] = n[k-1] + w[k] /\ w[k] \in Nat
  BY DEF Adds, Sizes
<1>3. n[N] \in Nat
  BY <1>1
<1>4. ASSUME NEW k \in 1..N, NEW v \in 0..w[k]-1 PROVE n[k-1] + v \in 0..n[N]-1
  <2>1. k \in 0..N /\ N \in k..N /\ k - 1 \in 0..N /\ k \in (k-1)..N
    OBVIOUS
  <2>2. n[k] <= n[N] /\ n[k-1] \in Nat /\ n[k] \in Nat
    BY <1>1, <2>1
  <2>3. QED BY <1>2, <1>3, <2>2
<1>5. \A u \in 0..n[N]-1 : \E k \in 1..N : \E v \in 0..w[k]-1 : u = n[k-1] + v
  <2> DEFINE In(u, m) == \E k \in 1..m : \E v \in 0..w[k]-1 : u = n[k-1] + v
             T == {m \in Nat : m <= N => \A u \in 0..n[m]-1 : In(u, m)}
  <2>1. 0 \in T
    BY DEF Adds
  <2>2. ASSUME NEW m \in Nat, m \in T PROVE m + 1 \in T
    <3> SUFFICES ASSUME m + 1 <= N, NEW u \in 0..n[m+1]-1 PROVE In(u, m+1)
      OBVIOUS
    <3>1. m + 1 \in 1..N /\ (m + 1) - 1 = m /\ m \in 0..N /\ m \in m..N
      OBVIOUS
    <3>2. n[m+1] = n[m] + w[m+1] /\ w[m+1] \in Nat /\ n[m] \in Nat
      BY <1>1, <1>2, <3>1
    <3>3. CASE u < n[m]
      <4>1. u \in 0..n[m]-1
        BY <3>2, <3>3
      <4>2. In(u, m)
        BY <2>2, <3>1, <4>1
      <4>3. PICK k \in 1..m : \E v \in 0..w[k]-1 : u = n[k-1] + v
        BY <4>2
      <4>4. k \in 1..m+1
        OBVIOUS
      <4>5. QED BY <4>3, <4>4
    <3>4. CASE u >= n[m]
      <4>1. u - n[m] \in 0..w[m+1]-1 /\ u = n[m] + (u - n[m])
        BY <3>2, <3>4
      <4>2. m + 1 \in 1..m+1
        OBVIOUS
      <4>3. QED BY <3>1, <4>1, <4>2
    <3>5. QED BY <3>2, <3>3, <3>4
  <2>3. Nat \subseteq T
    <3> HIDE DEF T
    <3>1. QED BY <2>1, <2>2, InductionOn
  <2>4. QED BY <2>3
<1>6. ASSUME NEW j \in 1..N, NEW k \in 1..N, NEW u \in 0..w[j]-1, NEW v \in 0..w[k]-1, j < k
      PROVE  n[j-1] + u < n[k-1] + v
  <2>1. j \in 0..N /\ k - 1 \in j..N /\ j - 1 \in 0..N /\ j \in (j-1)..N
    BY <1>6
  <2>2. n[j] <= n[k-1] /\ n[j] \in Nat /\ n[k-1] \in Nat /\ n[j-1] \in Nat
    BY <1>1, <2>1
  <2>3. n[j] = n[j-1] + w[j] /\ w[j] \in Nat /\ w[k] \in Nat
    BY <1>2
  <2>4. u \in Nat /\ u < w[j] /\ v \in Nat
    BY <2>3
  <2>5. QED BY <2>2, <2>3, <2>4
<1>7. ASSUME NEW j \in 1..N, NEW k \in 1..N, NEW u \in 0..w[j]-1, NEW v \in 0..w[k]-1,
             n[j-1] + u = n[k-1] + v
      PROVE  j = k
  <2>1. j - 1 \in 0..N /\ k - 1 \in 0..N /\ N \in (j-1)..N /\ N \in (k-1)..N
    OBVIOUS
  <2>2. n[j-1] \in Nat /\ n[k-1] \in Nat /\ u \in Int /\ v \in Int /\ w[j] \in Nat /\ w[k] \in Nat
    BY <1>1, <1>2, <2>1
  <2>3. ~ (j < k)
    <3> SUFFICES ASSUME j < k PROVE FALSE
      OBVIOUS
    <3>1. n[j-1] + u < n[k-1] + v
      BY <1>6
    <3>2. QED BY <1>7, <2>2, <3>1
  <2>4. ~ (k < j)
    <3> SUFFICES ASSUME k < j PROVE FALSE
      OBVIOUS
    <3>1. n[k-1] + v < n[j-1] + u
      BY <1>6
    <3>2. QED BY <1>7, <2>2, <3>1
  <2>5. QED BY <2>3, <2>4
<1>8. QED BY <1>3, <1>4, <1>5, <1>7
-----------------------------------------------------------------------------
(* The entities of the component whose shift has the number k-1. *)
Weights(g, codim) ==
  [k \in 1..2^dim |-> IF bitset(k-1) \in ShiftsOf(codim)
                      THEN totalsize(overlapfront(g, bitset(k-1))) ELSE 0]

(* _indexOffset adds up the components. *)
LEMMA SizesBeforeIs ==
  ASSUME Config, NEW g, NEW codim, Sizes(Weights(g, codim), 2^dim)
  PROVE  Adds(sizesBefore("overlapfront", g, codim), 0, Weights(g, codim), 2^dim)
<1> DEFINE N == 2^dim
           w == Weights(g, codim)
           v(k) == IF bitset(k-1) \in ShiftsOf(codim)
                   THEN totalsize(part("overlapfront", g, bitset(k-1))) ELSE 0
           Body(n) == [k \in 0..N |-> IF k = 0 THEN 0 ELSE n[k-1] + v(k)]
           S == CHOOSE n : n = Body(n)
<1>1. N \in Nat \ {0}
  BY BitPlaces
<1>2. sizesBefore("overlapfront", g, codim) = S
  BY DEF sizesBefore
<1>3. \A k \in 1..N : w[k] = v(k)
  BY DEF Weights, part
<1> HIDE DEF v
<1>4. Terms(w, N)
  BY DEF Terms, Sizes
<1>5. PICK f : Adds(f, 0, w, N)
  <2> HIDE DEF w, N
  <2>1. QED BY <1>1, <1>4, SumUpTo
<1> HIDE DEF w, N
<1>6. f = Body(f)
  <2>1. f \in [0..N -> Int] /\ f[0] = 0 /\ \A k \in 1..N : f[k] = f[k-1] + w[k]
    BY <1>5 DEF Adds
  <2>2. ASSUME NEW k \in 0..N PROVE f[k] = IF k = 0 THEN 0 ELSE f[k-1] + v(k)
    <3>1. CASE k = 0
      BY <2>1, <3>1
    <3>2. CASE k # 0
      <4>1. k \in 1..N
        BY <1>1, <3>2
      <4>2. QED BY <1>3, <2>1, <3>2, <4>1
    <3>3. QED BY <3>1, <3>2
  <2>3. f = [k \in 0..N |-> f[k]]
    BY <2>1
  <2>4. QED BY <2>2, <2>3
<1>7. S = Body(S)
  <2> HIDE DEF Body
  <2>1. QED BY <1>6
<1> HIDE DEF S
<1>8. S[0] = 0 /\ \A k \in 1..N : S[k] = S[k-1] + w[k]
  BY <1>1, <1>3, <1>7
<1>9. \A k \in 0..N : S[k] = f[k]
  <2>1. \A k \in 1..N : f[k] = f[k-1] + w[k]
    BY <1>5 DEF Adds
  <2>2. f[0] = 0
    BY <1>5 DEF Adds
  <2>3. Parallel(S, f, N)
    BY <1>8, <2>1, <2>2 DEF Parallel
  <2>4. QED BY <1>1, <2>3, StepsAgree
<1>10. S = f
  <2>1. S = [k \in 0..N |-> S[k]]
    <3>1. DOMAIN S = 0..N
      BY <1>7
    <3>2. S = [k \in DOMAIN S |-> S[k]]
      BY <1>7
    <3>3. QED BY <3>1, <3>2
  <2>2. f = [k \in 0..N |-> f[k]]
    BY <1>5 DEF Adds
  <2>3. QED BY <1>9, <2>1, <2>2
<1>11. QED BY <1>2, <1>5, <1>10 DEF w, N

(* The numbers of the entities of a codimension: each has one of           *)
(* 0..entities-1, each of these is the number of one.                      *)
LEMMA EntitiesNumbered ==
  ASSUME Config, Accepted, NEW p \in Procs, NEW l \in Nat \ {0}, NEW g \in YGridLevels,
         LevelInv(p, g, l), NEW codim \in Codims
  PROVE  /\ \A r \in ShiftsOf(codim) : \A x \in points(overlapfront(g, r)) :
              compressedIndex("overlapfront", g, r, x) \in 0..entities(g, codim)-1
         /\ \A u \in 0..entities(g, codim)-1 :
              \E r \in ShiftsOf(codim) : \E x \in points(overlapfront(g, r)) :
                u = compressedIndex("overlapfront", g, r, x)
         /\ \A r, s \in ShiftsOf(codim) :
              \A x \in points(overlapfront(g, r)), z \in points(overlapfront(g, s)) :
                compressedIndex("overlapfront", g, r, x) = compressedIndex("overlapfront", g, s, z)
                  => r = s /\ x = z
<1> DEFINE N == 2^dim
           w == Weights(g, codim)
           n == sizesBefore("overlapfront", g, codim)
           m(r) == totalsize(overlapfront(g, r))
           k(r) == to_ulong(r) + 1
           Y(r) == points(overlapfront(g, r))
           si(r, x) == superindex(g, r, x)
           ci(r, x) == compressedIndex("overlapfront", g, r, x)
           E == entities(g, codim)
<1>1. /\ N \in Nat \ {0}
      /\ \A r \in Shifts : to_ulong(r) \in 0..N-1 /\ bitset(to_ulong(r)) = r
      /\ \A j \in 0..N-1 : bitset(j) \in Shifts /\ to_ulong(bitset(j)) = j
  BY BitsCorrespond
<1>2. ShiftsOf(codim) \subseteq Shifts
  BY DEF ShiftsOf
<1>3. ASSUME NEW r \in ShiftsOf(codim)
      PROVE  /\ m(r) \in Nat
             /\ \A x \in Y(r) : si(r, x) \in 0..m(r)-1
             /\ \A x, z \in Y(r) : si(r, x) = si(r, z) => x = z
             /\ \A v \in 0..m(r)-1 : \E x \in Y(r) : si(r, x) = v
  <2>1. overlapfront(g, r) \in Boxes
    BY <1>2, LevelBoxes
  <2>2. m(r) \in Nat
    BY <2>1, BoxFacts
  <2>3. QED BY <2>1, <2>2, BoxNumbered
<1>4. Sizes(w, N)
  <2> SUFFICES ASSUME NEW j \in 1..N PROVE w[j] \in Nat
    BY DEF Sizes
  <2>1. w[j] = IF bitset(j-1) \in ShiftsOf(codim) THEN m(bitset(j-1)) ELSE 0
    BY DEF Weights
  <2> HIDE DEF w, m
  <2>2. QED BY <2>1, <1>3
<1>5. Adds(n, 0, w, N)
  BY <1>4, SizesBeforeIs
<1>6. ASSUME NEW r \in ShiftsOf(codim)
      PROVE  /\ k(r) \in 1..N /\ bitset(k(r)-1) = r /\ w[k(r)] = m(r)
             /\ \A x : ci(r, x) = n[k(r)-1] + si(r, x)
  <2>1. to_ulong(r) \in 0..N-1 /\ bitset(to_ulong(r)) = r
    BY <1>1, <1>2
  <2>2. k(r) \in 1..N /\ k(r) - 1 = to_ulong(r)
    BY <1>1, <2>1
  <2>3. w[k(r)] = m(r)
    <3>1. w[k(r)] = IF bitset(k(r)-1) \in ShiftsOf(codim) THEN m(bitset(k(r)-1)) ELSE 0
      BY <2>2 DEF Weights
    <3> HIDE DEF w, m, k
    <3>2. QED BY <3>1, <2>1, <2>2
  <2>4. dim - Cardinality(r) = codim
    <3>1. Cardinality(r) = dim - codim /\ codim \in 0..dim /\ dim \in Nat
      BY BitPlaces DEF ShiftsOf, Codims
    <3>2. QED BY <3>1
  <2>5. indexOffset("overlapfront", g, r) = n[k(r)-1]
    BY <2>2, <2>4 DEF indexOffset
  <2>6. \A x : ci(r, x) = n[k(r)-1] + si(r, x)
    BY <2>5 DEF compressedIndex
  <2>7. QED BY <2>1, <2>2, <2>3, <2>6
<1>7. E = n[N]
  BY DEF entities
<1> HIDE DEF N, w, n, m, k, Y, si, ci, E
<1>8. /\ n[N] \in Nat
      /\ \A j \in 1..N : \A v \in 0..w[j]-1 : n[j-1] + v \in 0..n[N]-1
      /\ \A u \in 0..n[N]-1 : \E j \in 1..N : \E v \in 0..w[j]-1 : u = n[j-1] + v
      /\ \A j, i \in 1..N : \A u \in 0..w[j]-1, v \in 0..w[i]-1 :
           n[j-1] + u = n[i-1] + v => j = i
  BY <1>1, <1>4, <1>5, Intervals
<1>9. \A r \in ShiftsOf(codim) : \A x \in Y(r) : ci(r, x) \in 0..E-1
  BY <1>3, <1>6, <1>7, <1>8
<1>10. ASSUME NEW u \in 0..E-1
       PROVE  \E r \in ShiftsOf(codim) : \E x \in Y(r) : u = ci(r, x)
  <2>0. PICK j \in 1..N : \E v \in 0..w[j]-1 : u = n[j-1] + v
    BY <1>7, <1>8
  <2>1. PICK v \in 0..w[j]-1 : u = n[j-1] + v
    BY <2>0
  <2>2. bitset(j-1) \in ShiftsOf(codim)
    <3>1. w[j] = IF bitset(j-1) \in ShiftsOf(codim) THEN m(bitset(j-1)) ELSE 0
      BY DEF Weights, w, m, N
    <3>2. w[j] # 0
      BY <2>1, <1>4 DEF Sizes
    <3>3. QED BY <3>1, <3>2
  <2>3. k(bitset(j-1)) = j
    <3>1. j - 1 \in 0..N-1 /\ (j - 1) + 1 = j
      BY <1>1
    <3>2. to_ulong(bitset(j-1)) = j - 1
      BY <1>1, <3>1
    <3>3. QED BY <3>1, <3>2 DEF k
  <2>4. PICK r \in ShiftsOf(codim) : k(r) = j
    BY <2>2, <2>3
  <2>5. v \in 0..m(r)-1
    BY <1>6, <2>1, <2>4
  <2>6. PICK x \in Y(r) : si(r, x) = v
    BY <1>3, <2>5
  <2>7. u = ci(r, x)
    BY <1>6, <2>1, <2>4, <2>6
  <2>8. QED BY <2>7
<1>11. ASSUME NEW r \in ShiftsOf(codim), NEW s \in ShiftsOf(codim), NEW x \in Y(r), NEW z \in Y(s),
              ci(r, x) = ci(s, z)
       PROVE  r = s /\ x = z
  <2>1. n[k(r)-1] + si(r, x) = n[k(s)-1] + si(s, z)
    BY <1>6, <1>11
  <2>2. si(r, x) \in 0..w[k(r)]-1 /\ si(s, z) \in 0..w[k(s)]-1 /\ k(r) \in 1..N /\ k(s) \in 1..N
    BY <1>3, <1>6
  <2>3. k(r) = k(s)
    BY <1>8, <2>1, <2>2
  <2>4. r = s
    BY <1>6, <2>3
  <2>5. si(r, x) = si(r, z)
    <3>1. n[k(r)-1] \in Int
      BY <1>1, <1>5, <2>2 DEF Adds
    <3>2. si(r, x) \in Int /\ si(r, z) \in Int
      BY <1>3, <2>4
    <3>3. n[k(r)-1] + si(r, x) = n[k(r)-1] + si(r, z)
      BY <2>1, <2>4
    <3>4. \A a, b, c \in Int : a + b = a + c => b = c
      OBVIOUS
    <3>5. QED BY <3>1, <3>2, <3>3, <3>4
  <2>6. x = z
    BY <1>3, <2>4, <2>5
  <2>7. QED BY <2>4, <2>6
<1>12. QED BY <1>9, <1>10, <1>11 DEF Y, ci, E

(* The indices of a codimension are 0..size-1 on every level of every      *)
(* process.                                                                *)
THEOREM Indices == Spec => [](args.ctor # "deprecated" => IndicesConsecutive)
<1>1. TypeInv /\ OverlapInv /\ WidthInv => (args.ctor # "deprecated" => IndicesConsecutive)
  <2> SUFFICES ASSUME TypeInv, OverlapInv, WidthInv, args.ctor # "deprecated", Settled,
                      NEW codim \in Codims, NEW p \in Procs, NEW l \in 1..maxLevel(p)
               PROVE  UNION {{compressedIndex("overlapfront", level[p][l], r, x) : x \in Held(p, l, r)} :
                               r \in ShiftsOf(codim)} = 0..entities(level[p][l], codim)-1
    BY DEF IndicesConsecutive, Levels
  <2> DEFINE g == level[p][l]
             ci(r, x) == compressedIndex("overlapfront", g, r, x)
             E == entities(g, codim)
             R == ShiftsOf(codim)
  <2>1. /\ Config /\ Accepted /\ l \in Nat \ {0} /\ g \in YGridLevels /\ LevelInv(p, g, l)
    BY Finer
  <2>2. /\ \A r \in R : \A x \in Held(p, l, r) : ci(r, x) \in 0..E-1
        /\ \A u \in 0..E-1 : \E r \in R : \E x \in Held(p, l, r) : u = ci(r, x)
    <3> HIDE DEF g
    <3>1. /\ \A r \in R : \A x \in points(overlapfront(g, r)) : ci(r, x) \in 0..E-1
          /\ \A u \in 0..E-1 : \E r \in R : \E x \in points(overlapfront(g, r)) : u = ci(r, x)
      BY <2>1, EntitiesNumbered
    <3>2. \A r : Held(p, l, r) = points(overlapfront(g, r))
      BY DEF Held, g
    <3>3. QED BY <3>1, <3>2
  <2> HIDE DEF ci, E, R
  <2>3. UNION {{ci(r, x) : x \in Held(p, l, r)} : r \in R} = 0..E-1
    BY <2>2
  <2>4. QED BY <2>3 DEF ci, E, R
<1>2. QED BY <1>1, Typed, OverlapAlways, WidthAlways, PTL

(* No two entities of a codimension share an index.                        *)
IndicesDistinct ==
  Settled =>
    \A codim \in Codims, p \in Procs : \A l \in Levels(p) :
      \A r, s \in ShiftsOf(codim) : \A x \in Held(p, l, r), z \in Held(p, l, s) :
        compressedIndex("overlapfront", level[p][l], r, x)
          = compressedIndex("overlapfront", level[p][l], s, z) => r = s /\ x = z

THEOREM IndicesApart == Spec => [](args.ctor # "deprecated" => IndicesDistinct)
<1>1. TypeInv /\ OverlapInv /\ WidthInv => (args.ctor # "deprecated" => IndicesDistinct)
  <2> SUFFICES ASSUME TypeInv, OverlapInv, WidthInv, args.ctor # "deprecated", Settled,
                      NEW codim \in Codims, NEW p \in Procs, NEW l \in 1..maxLevel(p),
                      NEW r \in ShiftsOf(codim), NEW s \in ShiftsOf(codim),
                      NEW x \in Held(p, l, r), NEW z \in Held(p, l, s),
                      compressedIndex("overlapfront", level[p][l], r, x)
                        = compressedIndex("overlapfront", level[p][l], s, z)
               PROVE  r = s /\ x = z
    BY DEF IndicesDistinct, Levels
  <2> DEFINE g == level[p][l]
  <2>1. /\ Config /\ Accepted /\ l \in Nat \ {0} /\ g \in YGridLevels /\ LevelInv(p, g, l)
    BY Finer
  <2>2. x \in points(overlapfront(g, r)) /\ z \in points(overlapfront(g, s))
        /\ compressedIndex("overlapfront", g, r, x) = compressedIndex("overlapfront", g, s, z)
    BY DEF Held
  <2> HIDE DEF g
  <2>3. QED BY <2>1, <2>2, EntitiesNumbered
<1>2. QED BY <1>1, Typed, OverlapAlways, WidthAlways, PTL

-----------------------------------------------------------------------------
(* The number of levels stays in its bound.                                *)
Heights(p) ==
  /\ phase[p] = "start" => todo[p] = 0
  /\ Len(level[p]) + todo[p] <= LevelLimit

HeightInv == \A p \in Procs : Heights(p)

LEMMA HeightsKept ==
  ASSUME TypeInv, HeightInv, UNCHANGED args, NEW p \in Procs,
         phase'[p] = "start" => todo'[p] = 0, Len(level'[p]) + todo'[p] <= LevelLimit,
         \A q \in Procs \ {p} : phase'[q] = phase[q] /\ level'[q] = level[q] /\ todo'[q] = todo[q]
  PROVE  HeightInv'
<1>1. Procs' = Procs
  BY DEF Procs
<1>2. ASSUME NEW q \in Procs PROVE Heights(q)'
  <2>1. CASE q = p
    BY <2>1 DEF Heights
  <2>2. CASE q # p
    BY <2>2 DEF Heights, HeightInv
  <2>3. QED BY <2>1, <2>2
<1>3. QED BY <1>1, <1>2 DEF HeightInv

LEMMA HeightStep ==
  ASSUME TypeInv, HeightInv, [Next]_vars
  PROVE  HeightInv'
<1>1. ASSUME UNCHANGED <<args, phase, level, todo>> PROVE HeightInv'
  BY <1>1 DEF HeightInv, Heights, Procs
<1>2. ASSUME NEW p \in Procs
      PROVE  /\ level[p] \in Seq(YGridLevels) /\ Len(level[p]) \in Nat /\ todo[p] \in Nat
             /\ Len(level[p]) + todo[p] <= LevelLimit /\ LevelLimit \in Nat \ {0}
             /\ (phase[p] = "start" => level[p] = <<>> /\ todo[p] = 0)
  <2>1. level[p] \in Seq(YGridLevels) /\ published[p] \in Seq(YGridLevels) /\ todo[p] \in Nat
    BY DEF TypeInv
  <2>2. phase[p] = "start" => level[p] = <<>>
    <3> SUFFICES ASSUME phase[p] = "start" PROVE level[p] = <<>>
      OBVIOUS
    <3>1. published[p] = <<>> /\ Len(published[p]) >= Len(level[p])
      BY DEF TypeInv
    <3>2. QED BY <2>1, <3>1
  <2>3. QED BY <2>1, <2>2, BoundsAssumption DEF HeightInv, Heights
<1>3. ASSUME NEW p \in Procs, NEW g, Publish(p, g), UNCHANGED args,
             todo' = IF phase[p] = "start" THEN todo ELSE [todo EXCEPT ![p] = @ - 1],
             phase[p] # "start" => todo[p] > 0
      PROVE  HeightInv'
  <2>1. /\ level' = [level EXCEPT ![p] = Append(@, g)] /\ phase' = [phase EXCEPT ![p] = "exchange"]
        /\ level \in [Procs -> Seq(YGridLevels)] /\ todo \in [Procs -> Nat]
        /\ DOMAIN phase = Procs
    BY <1>3 DEF Publish, TypeInv
  <2>2. phase'[p] = "exchange" /\ level'[p] = Append(level[p], g)
    BY <2>1
  <2>3. Len(level'[p]) = Len(level[p]) + 1
    BY <1>2, <2>2
  <2>4. Len(level'[p]) + todo'[p] <= LevelLimit
    <3>1. CASE phase[p] = "start"
      <4>1. todo'[p] = 0 /\ Len(level[p]) = 0
        BY <1>2, <1>3, <3>1
      <4>2. QED BY <1>2, <2>3, <4>1
    <3>2. CASE phase[p] # "start"
      <4>1. todo'[p] = todo[p] - 1
        BY <1>3, <2>1, <3>2
      <4>2. QED BY <1>2, <2>3, <4>1
    <3>3. QED BY <3>1, <3>2
  <2>5. \A q \in Procs \ {p} : phase'[q] = phase[q] /\ level'[q] = level[q] /\ todo'[q] = todo[q]
    BY <1>3, <2>1
  <2>6. QED BY <1>3, <2>2, <2>4, <2>5, HeightsKept
<1>4. ASSUME NEW p \in Procs, Construct(p) PROVE HeightInv'
  <2> DEFINE g == makelevel(1, container(p), [i \in Dir |-> mine(p)[i].origin],
                            args.overlap, keep_ovlp[p])
  <2>1. phase[p] = "start" /\ UNCHANGED <<args, todo>>
    BY <1>4 DEF Construct
  <2>2. CASE dims = NoDims \/ tooSmall(p)
    <3>1. phase' = [phase EXCEPT ![p] = "thrown"] /\ UNCHANGED level /\ DOMAIN phase = Procs
      BY <1>4, <2>2 DEF Construct, TypeInv
    <3>2. phase'[p] # "start" /\ \A q \in Procs \ {p} : phase'[q] = phase[q]
      BY <3>1
    <3>3. QED BY <1>2, <2>1, <3>1, <3>2, HeightsKept
  <2>3. CASE ~ (dims = NoDims \/ tooSmall(p))
    <3>1. Publish(p, g)
      BY <1>4, <2>3 DEF Construct
    <3> HIDE DEF g
    <3>2. QED BY <1>3, <2>1, <3>1
  <2>4. QED BY <2>2, <2>3
<1>5. ASSUME NEW p \in Procs, Refine(p) PROVE HeightInv'
  <2> DEFINE l  == Len(level[p])
             cg == level[p][l]
             keep == keep_ovlp[p]
             low == {i \in Dir : overlap(cg, Dir).origin[i] > 0} \cup args.periodic
             up  == {i \in Dir : last(overlap(cg, Dir), i) + 1 < levelSize(l)[i]} \cup args.periodic
             g == makelevel(l+1, refine_size(cg, low, up, keep),
                            [i \in Dir |-> 2 * interior(cg, Dir).origin[i]],
                            (IF keep THEN 2 ELSE 1) * cg.overlap, keep)
  <2>1. /\ phase[p] = "ready" /\ todo[p] > 0 /\ Publish(p, g) /\ UNCHANGED args
        /\ todo' = [todo EXCEPT ![p] = @ - 1]
    BY <1>5 DEF Refine, maxLevel
  <2> HIDE DEF g
  <2>2. QED BY <1>3, <2>1
<1>6. ASSUME NEW p \in Procs, Intersect(p) PROVE HeightInv'
  <2> DEFINE n == Len(published[p])
             l == Len(level[p])
             h == intersections(p, level[p][l], [q \in Partners(p) |-> published[q][n]], l)
  <2>1. /\ phase[p] = "exchange" /\ \A q \in Partners(p) : Len(published[q]) >= n
        /\ level' = [level EXCEPT ![p][l] = h] /\ UNCHANGED <<args, todo>>
        /\ phase' = [phase EXCEPT ![p] = "ready"]
    BY <1>6 DEF Intersect, maxLevel
  <2> HIDE DEF h
  <2>2. level' = [level EXCEPT ![p] = [level[p] EXCEPT ![l] = h]]
    BY <2>1
  <2>3. DOMAIN level = Procs /\ DOMAIN phase = Procs
    BY DEF TypeInv
  <2>4. level'[p] = [level[p] EXCEPT ![l] = h] /\ phase'[p] = "ready"
    BY <2>1, <2>2, <2>3
  <2>5. Len(level'[p]) = Len(level[p])
    <3> DEFINE s == level[p]
    <3>1. s \in Seq(YGridLevels)
      BY <1>2
    <3> HIDE DEF s
    <3>2. DOMAIN [s EXCEPT ![l] = h] = 1..Len(s) /\ Len(s) \in Nat
      BY <3>1
    <3>3. Len([s EXCEPT ![l] = h]) = Len(s)
      BY <3>1, <3>2
    <3>4. QED BY <2>4, <3>3 DEF s
  <2>6. Len(level'[p]) + todo'[p] <= LevelLimit
    BY <1>2, <2>1, <2>5
  <2>7. \A q \in Procs \ {p} : phase'[q] = phase[q] /\ level'[q] = level[q] /\ todo'[q] = todo[q]
    BY <2>1, <2>2, <2>3
  <2>8. QED BY <2>1, <2>4, <2>6, <2>7, HeightsKept
<1>7. ASSUME NEW p \in Procs, Coarsen(p) PROVE HeightInv'
  <2>1. PICK refCount \in {k \in Counts : k < 0} :
          /\ level' = IF -refCount < maxLevel(p)
                      THEN [level EXCEPT ![p] = SubSeq(@, 1, maxLevel(p) + refCount)]
                      ELSE level
          /\ UNCHANGED <<args, phase, todo>>
    BY <1>7 DEF Coarsen
  <2>2. /\ level' \in [Procs -> Seq(YGridLevels)]
        /\ \A q \in Procs : Len(level'[q]) <= Len(level[q])
    BY <2>1, CoarsenFacts
  <2>3. Len(level'[p]) \in Nat /\ Len(level'[p]) <= Len(level[p])
    BY <2>2
  <2>4. Len(level'[p]) + todo'[p] <= LevelLimit
    <3>1. todo'[p] = todo[p]
      BY <2>1
    <3>2. /\ Len(level[p]) \in Nat /\ todo[p] \in Nat /\ Len(level[p]) + todo[p] <= LevelLimit
          /\ LevelLimit \in Nat
      BY <1>2
    <3> HIDE DEF HeightInv
    <3>3. QED BY <2>3, <3>1, <3>2
  <2>5. \A q \in Procs \ {p} : level'[q] = level[q]
    <3>1. DOMAIN level = Procs
      BY DEF TypeInv
    <3>2. QED BY <2>1, <3>1
  <2>6. phase'[p] = "start" => todo'[p] = 0
    BY <1>2, <2>1
  <2>7. QED BY <2>1, <2>4, <2>5, <2>6, HeightsKept
<1>8. ASSUME NEW p \in Procs, BeginRefine(p) PROVE HeightInv'
  <2>1. PICK refCount \in {k \in Counts : k > 0} :
          /\ maxLevel(p) + refCount <= LevelLimit
          /\ todo' = [todo EXCEPT ![p] = refCount]
          /\ phase[p] = "ready"
          /\ UNCHANGED <<args, phase, level>>
    BY <1>8 DEF BeginRefine, MakesCall
  <2>2. todo'[p] = refCount /\ \A q \in Procs \ {p} : todo'[q] = todo[q]
    BY <2>1 DEF TypeInv
  <2>3. Len(level'[p]) + todo'[p] <= LevelLimit
    BY <2>1, <2>2 DEF maxLevel
  <2>4. QED BY <2>1, <2>2, <2>3, HeightsKept
<1>9. ASSUME NEW p \in Procs, RefineOptions(p) PROVE HeightInv'
  BY <1>9, <1>1 DEF RefineOptions
<1>10. CASE UNCHANGED vars
  BY <1>10, <1>1 DEF vars
<1>11. QED BY <1>4, <1>5, <1>6, <1>7, <1>8, <1>9, <1>10 DEF Next, Inside, Stopped

LEMMA HeightAlways == Spec => []HeightInv
<1>1. Init => HeightInv
  <2> SUFFICES ASSUME Init, NEW p \in Procs PROVE Heights(p)
    BY DEF HeightInv
  <2>1. level[p] = <<>> /\ todo[p] = 0 /\ Len(<<>>) = 0
    BY DEF Init
  <2>2. QED BY <2>1, BoundsAssumption DEF Heights
<1>2. TypeInv /\ HeightInv /\ [Next]_vars => HeightInv'
  BY HeightStep
<1>3. QED BY <1>1, <1>2, Typed, PTL DEF Spec

-----------------------------------------------------------------------------
(* Ids are numbers with the shift, the level and the coordinates as digits *)

Coordinates == [Dir -> 0..2^DimBits-1]

(* The loop over the coordinates, that starts from u. *)
Digits(f, u, x) ==
  /\ f \in [0..dim -> Int] /\ f[0] = u
  /\ \A j \in 1..dim : f[j] = f[j-1] * 2^DimBits + x[dim+1-j]

LEMMA DigitsUnique ==
  ASSUME NEW D \in Nat \ {0}, NEW a \in Nat, NEW c \in Nat, NEW b \in 0..D-1, NEW e \in 0..D-1,
         a * D + b = c * D + e
  PROVE  a = c /\ b = e
<1> DEFINE n == a * D + b
<1>1. n \in Nat /\ n = D * a + b /\ n = D * c + e
  OBVIOUS
<1> HIDE DEF n
<1>2. n \div D = a /\ (n % D) = b
  BY <1>1, DivisionUnique
<1>3. n \div D = c /\ (n % D) = e
  BY <1>1, DivisionUnique
<1>4. QED BY <1>2, <1>3

LEMMA DigitAdded ==
  ASSUME NEW D \in Nat \ {0}, NEW P \in Nat \ {0}, NEW a \in 0..P-1, NEW b \in 0..D-1
  PROVE  a * D + b \in 0..P*D-1
<1>1. a \in Nat /\ P - 1 \in Nat /\ a <= P - 1 /\ b \in Nat /\ b <= D - 1
  OBVIOUS
<1>2. D * a <= D * (P - 1)
  BY <1>1, MoreTimes
<1>3. D * (P - 1) = P * D - D /\ D * a = a * D /\ a * D \in Nat /\ P * D \in Nat
  BY <1>1
<1>4. QED BY <1>1, <1>2, <1>3

LEMMA BitNumbers ==
  ASSUME Config
  PROVE  /\ dim \in Nat \ {0} /\ Dir = 1..dim
         /\ DimBits \in Nat /\ LevelBits \in Nat
         /\ 2^DimBits \in Nat \ {0} /\ 2^LevelBits \in Nat \ {0} /\ 2^dim \in Nat \ {0}
         /\ 2^(dim + LevelBits) = 2^dim * 2^LevelBits
         /\ 2^(dim + LevelBits) \in Nat \ {0}
<1>1. dim \in Nat \ {0} /\ Dir = 1..dim /\ DimBits \in Nat /\ LevelBits \in Nat
  BY BitPlaces, BitsAssumption
<1>2. dim + LevelBits \in Nat
  BY <1>1
<1>3. 2^(dim + LevelBits) = 2^dim * 2^LevelBits
  BY <1>1, ExponentSum
<1>4. QED BY <1>1, <1>2, <1>3, PowerOfTwo

LEMMA EncodeIs ==
  ASSUME Config, NEW r \in Shifts, NEW lev \in Nat, NEW x \in Coordinates
  PROVE  \E f : /\ Digits(f, to_ulong(r) * 2^LevelBits + lev, x)
                /\ encode(r, lev, x) = f[dim] % 2^(dim * DimBits + LevelBits + dim)
<1> DEFINE D == 2^DimBits
           u == to_ulong(r) * 2^LevelBits + lev
           W == 2^(dim * DimBits + LevelBits + dim)
           Body(f) == [j \in 0..dim |-> IF j = 0 THEN u ELSE f[j-1] * D + x[dim+1-j]]
           S == CHOOSE f : f = Body(f)
           F == [k \in 1..dim |-> [z \in Int |-> z * D + x[dim+1-k]]]
<1>1. dim \in Nat \ {0} /\ Dir = 1..dim /\ D \in Nat \ {0} /\ 2^LevelBits \in Nat
  BY BitNumbers
<1>2. u \in Int
  <2>1. to_ulong(r) \in 0..2^dim-1 /\ 2^dim \in Nat
    BY BitsCorrespond
  <2>2. to_ulong(r) \in Int
    BY <2>1
  <2>3. QED BY <1>1, <2>2
<1>3. encode(r, lev, x) = S[dim] % W
  BY DEF encode
<1> HIDE DEF u, W, D
<1>4. \A k \in 1..dim : x[dim+1-k] \in Int
  <2> SUFFICES ASSUME NEW k \in 1..dim PROVE x[dim+1-k] \in Int
    OBVIOUS
  <2>1. dim + 1 - k \in Dir
    BY <1>1
  <2>2. x \in [Dir -> 0..D-1]
    BY DEF Coordinates, D
  <2>3. QED BY <2>1, <2>2
<1>5. F \in [1..dim -> [Int -> Int]]
  BY <1>1, <1>4
<1>6. PICK f : Follows(f, Int, u, F, dim)
  <2> HIDE DEF F
  <2>1. QED BY <1>1, <1>2, <1>5, RecursionUpTo
<1>7. f \in [0..dim -> Int] /\ f[0] = u
  BY <1>6 DEF Follows
<1>8. ASSUME NEW j \in 1..dim PROVE f[j] = f[j-1] * D + x[dim+1-j]
  <2>1. j - 1 \in 0..dim
    BY <1>1
  <2>2. f[j] = F[j][f[j-1]] /\ f[j-1] \in Int
    BY <1>6, <1>7, <2>1 DEF Follows
  <2>3. QED BY <2>2
<1>9. f = Body(f)
  <2>1. ASSUME NEW j \in 0..dim PROVE f[j] = IF j = 0 THEN u ELSE f[j-1] * D + x[dim+1-j]
    <3>1. CASE j = 0
      BY <1>7, <3>1
    <3>2. CASE j # 0
      <4>1. j \in 1..dim
        BY <1>1, <3>2
      <4>2. QED BY <1>8, <3>2, <4>1
    <3>3. QED BY <3>1, <3>2
  <2>2. f = [j \in 0..dim |-> f[j]]
    BY <1>7
  <2>3. QED BY <2>1, <2>2
<1>10. S = Body(S)
  <2> HIDE DEF Body
  <2>1. QED BY <1>9
<1> HIDE DEF S, F
<1>11. \A j \in 0..dim : S[j] = IF j = 0 THEN u ELSE S[j-1] * D + x[dim+1-j]
  BY <1>10
<1>12. S[0] = u /\ \A j \in 1..dim : S[j] = S[j-1] * D + x[dim+1-j]
  BY <1>1, <1>11
<1>13. \A j \in 0..dim : S[j] = f[j]
  <2>1. ASSUME NEW j \in 1..dim, S[j-1] = f[j-1] PROVE S[j] = f[j]
    BY <1>8, <1>12, <2>1
  <2>2. Parallel(S, f, dim)
    BY <1>7, <1>12, <2>1 DEF Parallel
  <2>3. QED BY <1>1, <2>2, StepsAgree
<1>14. S[dim] = f[dim]
  BY <1>1, <1>13
<1>15. Digits(f, u, x)
  BY <1>7, <1>8 DEF Digits, D
<1>16. encode(r, lev, x) = f[dim] % W
  BY <1>3, <1>14
<1>17. QED BY <1>15, <1>16 DEF u, W

LEMMA DigitsBounded ==
  ASSUME Config, NEW u \in 0..2^(dim + LevelBits)-1, NEW x \in Coordinates, NEW f, Digits(f, u, x)
  PROVE  \A j \in 0..dim : /\ 2^(dim + LevelBits + j * DimBits) \in Nat \ {0}
                           /\ f[j] \in 0..2^(dim + LevelBits + j * DimBits)-1
<1> DEFINE D == 2^DimBits
           E(j) == dim + LevelBits + j * DimBits
           P(j) == 2^E(j)
           T == {k \in Nat : k <= dim => f[k] \in 0..P(k)-1}
<1>1. /\ dim \in Nat \ {0} /\ Dir = 1..dim /\ DimBits \in Nat /\ LevelBits \in Nat /\ D \in Nat \ {0}
  BY BitNumbers
<1>2. \A j \in Nat : E(j) \in Nat /\ E(j+1) = E(j) + DimBits
  BY <1>1
<1>3. \A j \in Nat : P(j) \in Nat \ {0} /\ P(j+1) = P(j) * D
  <2> HIDE DEF E
  <2>1. QED BY <1>1, <1>2, PowerOfTwo, ExponentSum
<1>4. E(0) = dim + LevelBits
  BY <1>1
<1>5. 0 \in T
  <2> HIDE DEF E
  <2>1. QED BY <1>4 DEF Digits
<1> HIDE DEF E
<1>6. ASSUME NEW k \in Nat, k \in T PROVE k + 1 \in T
  <2> SUFFICES ASSUME k + 1 <= dim PROVE f[k+1] \in 0..P(k+1)-1
    OBVIOUS
  <2>1. k + 1 \in 1..dim /\ (k + 1) - 1 = k /\ dim + 1 - (k + 1) \in Dir
    BY <1>1
  <2>2. x[dim+1-(k+1)] \in 0..D-1
    BY <2>1 DEF Coordinates
  <2>3. f[k] \in 0..P(k)-1
    <3>1. k <= dim
      BY <1>1
    <3> HIDE DEF P
    <3>2. QED BY <1>6, <3>1
  <2>4. f[k+1] = f[k] * D + x[dim+1-(k+1)]
    BY <2>1 DEF Digits
  <2> HIDE DEF P, D
  <2>5. f[k] * D + x[dim+1-(k+1)] \in 0..P(k)*D-1
    BY <1>1, <1>3, <2>2, <2>3, DigitAdded
  <2>6. QED BY <1>3, <2>4, <2>5
<1>7. Nat \subseteq T
  <2> HIDE DEF T
  <2>1. QED BY <1>5, <1>6, InductionOn
<1>8. \A j \in 0..dim : P(j) \in Nat \ {0} /\ f[j] \in 0..P(j)-1
  <2> SUFFICES ASSUME NEW j \in 0..dim PROVE P(j) \in Nat \ {0} /\ f[j] \in 0..P(j)-1
    OBVIOUS
  <2>1. j \in Nat /\ j <= dim
    BY <1>1
  <2>2. j \in T
    BY <1>7, <2>1
  <2> HIDE DEF P
  <2>3. QED BY <1>3, <2>1, <2>2
<1>9. QED BY <1>8 DEF P, E

LEMMA DigitsDetermined ==
  ASSUME Config, NEW u \in Nat, NEW v \in Nat, NEW x \in Coordinates, NEW y \in Coordinates,
         NEW f, Digits(f, u, x), NEW g, Digits(g, v, y),
         \A j \in 0..dim : f[j] \in Nat, \A j \in 0..dim : g[j] \in Nat,
         f[dim] = g[dim]
  PROVE  u = v /\ x = y
<1> DEFINE D == 2^DimBits
           T == {k \in Nat : k <= dim => f[dim-k] = g[dim-k]}
<1>1. dim \in Nat \ {0} /\ Dir = 1..dim /\ D \in Nat \ {0}
  BY BitNumbers
<1>2. ASSUME NEW j \in 1..dim, f[j] = g[j]
      PROVE  f[j-1] = g[j-1] /\ x[dim+1-j] = y[dim+1-j]
  <2>1. j - 1 \in 0..dim /\ dim + 1 - j \in Dir
    BY <1>1
  <2>2. f[j-1] \in Nat /\ g[j-1] \in Nat
    BY <2>1
  <2>3. x[dim+1-j] \in 0..D-1 /\ y[dim+1-j] \in 0..D-1
    BY <2>1 DEF Coordinates
  <2>4. f[j-1] * D + x[dim+1-j] = g[j-1] * D + y[dim+1-j]
    BY <1>2 DEF Digits
  <2> DEFINE a == f[j-1]
             c == g[j-1]
             b == x[dim+1-j]
             e == y[dim+1-j]
  <2>5. a \in Nat /\ c \in Nat /\ D \in Nat \ {0} /\ b \in 0..D-1 /\ e \in 0..D-1
        /\ a * D + b = c * D + e
    BY <1>1, <2>2, <2>3, <2>4
  <2> HIDE DEF D, a, b, c, e
  <2>6. a = c /\ b = e
    BY ONLY <2>5, DigitsUnique
  <2>7. QED BY <2>6 DEF a, b, c, e
<1>3. 0 \in T
  <2>1. dim - 0 = dim
    BY <1>1
  <2>2. QED BY <2>1
<1>4. ASSUME NEW k \in Nat, k \in T PROVE k + 1 \in T
  <2> SUFFICES ASSUME k + 1 <= dim PROVE f[dim-(k+1)] = g[dim-(k+1)]
    OBVIOUS
  <2>1. dim - k \in 1..dim /\ (dim - k) - 1 = dim - (k + 1)
    BY <1>1
  <2>2. f[dim-k] = g[dim-k]
    BY <1>1, <1>4
  <2>3. f[(dim-k)-1] = g[(dim-k)-1]
    BY <1>2, <2>1, <2>2
  <2>4. QED BY <2>1, <2>3
<1>5. Nat \subseteq T
  <2> HIDE DEF T
  <2>1. QED BY <1>3, <1>4, InductionOn
<1>6. \A j \in 0..dim : f[j] = g[j]
  <2> SUFFICES ASSUME NEW j \in 0..dim PROVE f[j] = g[j]
    OBVIOUS
  <2>1. dim - j \in Nat /\ dim - j <= dim /\ dim - (dim - j) = j
    BY <1>1
  <2>2. QED BY <1>5, <2>1
<1>7. u = v
  BY <1>1, <1>6 DEF Digits
<1>8. ASSUME NEW i \in Dir PROVE x[i] = y[i]
  <2>1. dim + 1 - i \in 1..dim /\ dim + 1 - (dim + 1 - i) = i /\ dim + 1 - i \in 0..dim
    BY <1>1
  <2>2. f[dim+1-i] = g[dim+1-i]
    BY <1>6, <2>1
  <2>3. x[dim+1-(dim+1-i)] = y[dim+1-(dim+1-i)]
    BY <1>2, <2>1, <2>2
  <2>4. QED BY <2>1, <2>3
<1>9. x = y
  BY <1>8 DEF Coordinates
<1>10. QED BY <1>7, <1>9

(* encode() loses nothing as long as level and coordinates fit their bits. *)
IdBound == 2^(dim * DimBits + LevelBits + dim)

LEMMA EncodeInjective ==
  ASSUME Config
  PROVE  /\ IdBound \in Nat \ {0}
         /\ \A r \in Shifts, m \in 0..2^LevelBits-1, x \in Coordinates : encode(r, m, x) \in 0..IdBound-1
         /\ \A r, s \in Shifts, m, n \in 0..2^LevelBits-1, x, y \in Coordinates :
              encode(r, m, x) = encode(s, n, y) => r = s /\ m = n /\ x = y
<1> DEFINE L == 2^LevelBits
           B == 2^(dim + LevelBits)
           u(r, m) == to_ulong(r) * L + m
<1>1. /\ dim \in Nat \ {0} /\ DimBits \in Nat /\ LevelBits \in Nat /\ L \in Nat \ {0}
      /\ 2^dim \in Nat \ {0} /\ B = 2^dim * L /\ B \in Nat \ {0}
  BY BitNumbers
<1>2. /\ \A r \in Shifts : to_ulong(r) \in 0..2^dim-1
      /\ \A r, s \in Shifts : to_ulong(r) = to_ulong(s) => r = s
  BY BitsCorrespond
<1>3. ASSUME NEW r \in Shifts, NEW m \in 0..L-1 PROVE u(r, m) \in 0..B-1
  <2>1. to_ulong(r) \in 0..2^dim-1
    BY <1>2
  <2> HIDE DEF L, B
  <2>2. QED BY <1>1, <2>1, DigitAdded
<1>4. ASSUME NEW r \in Shifts, NEW m \in 0..L-1, NEW x \in Coordinates
      PROVE  \E f : /\ Digits(f, u(r, m), x)
                    /\ \A j \in 0..dim : f[j] \in Nat
                    /\ f[dim] \in 0..IdBound-1 /\ IdBound \in Nat \ {0}
                    /\ encode(r, m, x) = f[dim]
  <2>1. m \in Nat
    BY <1>1
  <2>2. PICK f : /\ Digits(f, u(r, m), x)
                 /\ encode(r, m, x) = f[dim] % IdBound
    BY <2>1, EncodeIs DEF IdBound
  <2>3. u(r, m) \in 0..2^(dim + LevelBits)-1
    BY <1>3
  <2> HIDE DEF u
  <2>4. \A j \in 0..dim : /\ 2^(dim + LevelBits + j * DimBits) \in Nat \ {0}
                          /\ f[j] \in 0..2^(dim + LevelBits + j * DimBits)-1
    BY <2>2, <2>3, DigitsBounded
  <2>5. IdBound = 2^(dim + LevelBits + dim * DimBits)
    <3>1. dim * DimBits + LevelBits + dim = dim + LevelBits + dim * DimBits
      BY <1>1
    <3>2. QED BY <3>1 DEF IdBound
  <2>6. IdBound \in Nat \ {0} /\ f[dim] \in 0..IdBound-1
    BY <1>1, <2>4, <2>5
  <2>7. f[dim] % IdBound = f[dim]
    BY <2>6, SmallRemainder
  <2>8. \A j \in 0..dim : f[j] \in Nat
    BY <2>4
  <2>9. QED BY <2>2, <2>6, <2>7, <2>8
<1>5. IdBound \in Nat \ {0}
  <2>1. {} \in Shifts /\ 0 \in 0..L-1
    BY <1>1 DEF Shifts
  <2>2. [i \in Dir |-> 0] \in Coordinates
    BY BitNumbers DEF Coordinates
  <2>3. QED BY <1>4, <2>1, <2>2
<1>6. ASSUME NEW r \in Shifts, NEW m \in 0..L-1, NEW x \in Coordinates
      PROVE  encode(r, m, x) \in 0..IdBound-1
  BY <1>4
<1>7. ASSUME NEW r \in Shifts, NEW s \in Shifts, NEW m \in 0..L-1, NEW n \in 0..L-1,
             NEW x \in Coordinates, NEW y \in Coordinates, encode(r, m, x) = encode(s, n, y)
      PROVE  r = s /\ m = n /\ x = y
  <2>1. PICK f : Digits(f, u(r, m), x) /\ (\A j \in 0..dim : f[j] \in Nat) /\ encode(r, m, x) = f[dim]
    BY <1>4
  <2>2. PICK g : Digits(g, u(s, n), y) /\ (\A j \in 0..dim : g[j] \in Nat) /\ encode(s, n, y) = g[dim]
    BY <1>4
  <2>3. u(r, m) \in Nat /\ u(s, n) \in Nat
    BY <1>1, <1>3
  <2>4. f[dim] = g[dim]
    BY <1>7, <2>1, <2>2
  <2>5. u(r, m) = u(s, n) /\ x = y
    <3> HIDE DEF u
    <3>1. QED BY <2>1, <2>2, <2>3, <2>4, DigitsDetermined
  <2>6. to_ulong(r) = to_ulong(s) /\ m = n
    <3>1. to_ulong(r) \in Nat /\ to_ulong(s) \in Nat
      BY <1>1, <1>2
    <3>2. to_ulong(r) * L + m = to_ulong(s) * L + n
      BY <2>5
    <3> DEFINE a == to_ulong(r)
               c == to_ulong(s)
    <3> HIDE DEF L, a, c
    <3>3. a \in Nat /\ c \in Nat /\ L \in Nat \ {0} /\ m \in 0..L-1 /\ n \in 0..L-1
          /\ a * L + m = c * L + n
      BY <1>1, <3>1, <3>2 DEF a, c
    <3>4. a = c /\ m = n
      BY ONLY <3>3, DigitsUnique
    <3>5. QED BY <3>4 DEF a, c
  <2>7. QED BY <1>2, <2>5, <2>6
<1>8. QED BY <1>5, <1>6, <1>7

-----------------------------------------------------------------------------
(* Vertices of several levels at the same place *)

LEMMA Divided ==
  ASSUME NEW a \in Nat, NEW b \in Nat \ {0}, (a % b) = 0
  PROVE  a \div b \in Nat /\ a = b * (a \div b)
<1>1. a \div b \in Nat /\ a = b * (a \div b) + (a % b)
  BY Division
<1>2. b * (a \div b) \in Nat
  BY <1>1
<1> DEFINE m == b * (a \div b)
<1> HIDE DEF m
<1>3. a = m
  BY <1>1, <1>2 DEF m
<1>4. QED BY <1>1, <1>3 DEF m

LEMMA MultipleOf ==
  ASSUME NEW a \in Nat, NEW b \in Nat \ {0}, NEW q \in Nat, a = b * q
  PROVE  (a % b) = 0
<1>1. a = b * q + 0 /\ 0 \in 0..b-1 /\ q \in Int
  OBVIOUS
<1>2. QED BY <1>1, DivisionUnique

LEMMA Cancel ==
  ASSUME NEW a \in Nat, NEW b \in Nat, NEW c \in Nat \ {0}, a * c = b * c
  PROVE  a = b
<1>1. a * c + 0 = b * c + 0 /\ 0 \in 0..c-1
  OBVIOUS
<1>2. QED BY <1>1, DigitsUnique

(* The zero bits n ends with, up to lev.                                   *)
LEMMA ZerosAre ==
  ASSUME NEW n \in Nat, NEW lev \in Nat
  PROVE  /\ zeros(n, lev) \in 0..lev
         /\ (n % 2^zeros(n, lev)) = 0
         /\ \A k \in 0..lev : (n % 2^k) = 0 => k <= zeros(n, lev)
<1> DEFINE S == {k \in 0..lev : (n % 2^k) = 0}
           T == {j \in 0..lev : lev - j \in S}
<1>1. 0 \in S
  <2>1. (n % 1) = 0
    OBVIOUS
  <2>2. QED BY <2>1, PowerZero
<1>2. lev \in T /\ T \subseteq Nat
  <2>1. lev - lev = 0
    OBVIOUS
  <2> HIDE DEF S
  <2>2. QED BY <1>1, <2>1
<1>3. PICK j \in T : \A i \in T : j <= i
  <2> HIDE DEF T
  <2>1. QED BY <1>2, Smallest
<1>4. \E m \in S : \A k \in S : m >= k
  <2>1. lev - j \in S /\ j \in 0..lev
    BY <1>3
  <2>2. ASSUME NEW k \in S PROVE lev - j >= k
    <3>1. k \in 0..lev
      OBVIOUS
    <3>2. lev - k \in 0..lev /\ lev - (lev - k) = k
      BY <3>1
    <3> HIDE DEF S
    <3>3. lev - k \in T
      BY <3>2
    <3> HIDE DEF T
    <3>4. j <= lev - k
      BY <1>3, <3>3
    <3>5. QED BY <2>1, <3>1, <3>4
  <2>3. QED BY <2>1, <2>2
<1>5. zeros(n, lev) = CHOOSE m \in S : \A k \in S : m >= k
  BY DEF zeros, Max
<1>6. zeros(n, lev) \in S /\ \A k \in S : zeros(n, lev) >= k
  <2> HIDE DEF S
  <2>1. QED BY <1>4, <1>5
<1>7. \A k \in 0..lev : (n % 2^k) = 0 => k <= zeros(n, lev)
  <2> SUFFICES ASSUME NEW k \in 0..lev, (n % 2^k) = 0 PROVE k <= zeros(n, lev)
    OBVIOUS
  <2>1. k \in S
    OBVIOUS
  <2>2. zeros(n, lev) \in 0..lev
    BY <1>6
  <2> HIDE DEF S
  <2>3. zeros(n, lev) >= k
    BY <1>6, <2>1
  <2>4. QED BY <2>2, <2>3
<1>8. QED BY <1>6, <1>7

LEMMA TrailingIs ==
  ASSUME Config, NEW x \in Coordinates, NEW lev \in Nat
  PROVE  /\ trailing(x, lev) \in 0..lev
         /\ \A i \in Dir : (x[i] % 2^trailing(x, lev)) = 0
         /\ trailing(x, lev) < lev => \E i \in Dir : (x[i] % 2^(trailing(x, lev) + 1)) # 0
<1> DEFINE Z(i) == zeros(x[i], lev)
           S == {Z(i) : i \in Dir}
           t == trailing(x, lev)
<1>1. \A i \in Dir : x[i] \in Nat
  BY BitNumbers DEF Coordinates
<1>2. ASSUME NEW i \in Dir
      PROVE  /\ Z(i) \in 0..lev /\ (x[i] % 2^Z(i)) = 0
             /\ \A k \in 0..lev : (x[i] % 2^k) = 0 => k <= Z(i)
  BY <1>1, ZerosAre
<1>3. t = CHOOSE m \in S : \A k \in S : m <= k
  BY DEF trailing, Min
<1> HIDE DEF Z, t
<1>4. 1 \in Dir
  BY BitNumbers
<1>5. S \subseteq Nat /\ S # {}
  BY <1>2, <1>4
<1>6. \E m \in S : \A k \in S : m <= k
  <2> HIDE DEF S
  <2>1. QED BY <1>5, Smallest
<1>7. t \in S /\ \A k \in S : t <= k
  <2> HIDE DEF S
  <2>1. QED BY <1>3, <1>6
<1>8. PICK j \in Dir : t = Z(j)
  BY <1>7
<1>9. \A i \in Dir : t <= Z(i)
  BY <1>7
<1>10. t \in 0..lev
  BY <1>2, <1>8
<1>11. ASSUME NEW i \in Dir PROVE (x[i] % 2^t) = 0
  <2>1. Z(i) \in Nat /\ t \in Nat /\ Z(i) - t \in Nat /\ t + (Z(i) - t) = Z(i)
    BY <1>2, <1>9, <1>10
  <2>2. 2^Z(i) = 2^t * 2^(Z(i) - t)
    BY <2>1, ExponentSum
  <2>3. 2^t \in Nat \ {0} /\ 2^(Z(i) - t) \in Nat \ {0} /\ 2^Z(i) \in Nat \ {0}
    BY <2>1, PowerOfTwo
  <2> DEFINE q == x[i] \div 2^Z(i)
             u == 2^t
             w == 2^(Z(i) - t)
  <2>4. q \in Nat /\ x[i] = 2^Z(i) * q
    BY <1>1, <1>2, <2>3, Divided
  <2>5. \A a, b, c \in Nat : (a * b) * c = a * (b * c) /\ b * c \in Nat
    OBVIOUS
  <2>6. u \in Nat \ {0} /\ w \in Nat /\ x[i] = (u * w) * q
    BY <2>2, <2>3, <2>4
  <2> HIDE DEF q, u, w
  <2>7. x[i] = u * (w * q) /\ w * q \in Nat
    BY <2>4, <2>5, <2>6
  <2>8. (x[i] % u) = 0
    BY <1>1, <2>6, <2>7, MultipleOf
  <2>9. QED BY <2>8 DEF u
<1>12. ASSUME t < lev PROVE (x[j] % 2^(t+1)) # 0
  <2>1. t + 1 \in 0..lev
    BY <1>10, <1>12
  <2>2. ~ (t + 1 <= t)
    BY <1>10
  <2>3. QED BY <1>2, <1>8, <2>1, <2>2
<1>13. QED BY <1>10, <1>11, <1>12 DEF t

(* The level and the coordinates in the id of a vertex.                    *)
Coarsest(l, x) == l - 1 - trailing(x, l-1)
CoarsestCoord(l, x) == [i \in Dir |-> x[i] \div 2^trailing(x, l-1)]

(* The place of a vertex in the finest grid there can be, of which it is   *)
(* on the level m of all those it is on.                                   *)
Reduced(m, y) == m > 0 => \E i \in Dir : (y[i] % 2) # 0

LEMMA CoarsestIs ==
  ASSUME Config, NEW l \in 1..LevelLimit, NEW x \in Coordinates
  PROVE  /\ Coarsest(l, x) \in 0..l-1 /\ CoarsestCoord(l, x) \in Coordinates
         /\ \A i \in Dir : x[i] * 2^(LevelLimit - l) = CoarsestCoord(l, x)[i] * 2^(LevelLimit - 1 - Coarsest(l, x))
         /\ Reduced(Coarsest(l, x), CoarsestCoord(l, x))
<1> DEFINE t == trailing(x, l-1)
           m == Coarsest(l, x)
           y == CoarsestCoord(l, x)
           K == LevelLimit
<1>1. K \in Nat \ {0} /\ l \in Nat /\ l - 1 \in Nat /\ K - l \in Nat
  BY BoundsAssumption
<1>2. /\ t \in 0..l-1
      /\ \A i \in Dir : (x[i] % 2^t) = 0
      /\ t < l-1 => \E i \in Dir : (x[i] % 2^(t+1)) # 0
  BY <1>1, TrailingIs
<1>3. m = l - 1 - t /\ y = [i \in Dir |-> x[i] \div 2^t]
  BY DEF Coarsest, CoarsestCoord
<1> HIDE DEF t, m, y, K
<1>4. t \in Nat /\ m \in 0..l-1 /\ t + 1 \in Nat /\ K - 1 - m \in Nat /\ t + (K - l) = K - 1 - m
  BY <1>1, <1>2, <1>3
<1>5. 2^t \in Nat \ {0} /\ 2^(K-l) \in Nat \ {0} /\ 2^(K-1-m) = 2^t * 2^(K-l) /\ 2^(t+1) = 2 * 2^t
  <2>1. 2^(t+(K-l)) = 2^t * 2^(K-l)
    BY <1>1, <1>4, ExponentSum
  <2>2. QED BY <1>1, <1>4, <2>1, PowerOfTwo, PowerNext
<1>6. ASSUME NEW i \in Dir
      PROVE  /\ x[i] \in 0..2^DimBits-1 /\ x[i] \in Nat /\ y[i] \in Nat /\ x[i] = 2^t * y[i]
             /\ y[i] <= x[i]
  <2>1. x[i] \in 0..2^DimBits-1 /\ x[i] \in Nat
    BY BitNumbers DEF Coordinates
  <2>2. y[i] = x[i] \div 2^t
    BY <1>3
  <2>3. y[i] \in Nat /\ x[i] = 2^t * y[i]
    <3>1. x[i] \div 2^t \in Nat /\ x[i] = 2^t * (x[i] \div 2^t) + (x[i] % 2^t)
      BY <1>5, <2>1, Division
    <3>2. (x[i] % 2^t) = 0
      BY <1>2
    <3>3. QED BY <1>5, <2>2, <3>1, <3>2
  <2>4. y[i] <= x[i]
    <3>1. y[i] * 1 <= y[i] * 2^t
      BY <1>5, <2>3, MoreTimes
    <3>2. QED BY <1>5, <2>3, <3>1
  <2>5. QED BY <2>1, <2>3, <2>4
<1>7. y \in Coordinates
  <2>1. ASSUME NEW i \in Dir PROVE y[i] \in 0..2^DimBits-1
    <3> DEFINE D == 2^DimBits
    <3>1. D \in Nat /\ x[i] \in 0..D-1 /\ y[i] \in Nat /\ y[i] <= x[i]
      BY <1>6, BitNumbers
    <3> HIDE DEF D
    <3>2. y[i] \in 0..D-1
      BY <3>1
    <3>3. QED BY <3>2 DEF D
  <2>2. QED BY <1>3, <2>1 DEF Coordinates
<1>8. ASSUME NEW i \in Dir PROVE x[i] * 2^(K-l) = y[i] * 2^(K-1-m)
  <2>1. \A a, b, c \in Nat : (a * b) * c = b * (a * c)
    OBVIOUS
  <2>2. QED BY <1>5, <1>6, <2>1
<1>9. Reduced(m, y)
  <2> SUFFICES ASSUME m > 0 PROVE \E i \in Dir : (y[i] % 2) # 0
    BY DEF Reduced
  <2>1. t < l-1
    BY <1>1, <1>2, <1>3
  <2>2. PICK i \in Dir : (x[i] % 2^(t+1)) # 0
    BY <1>2, <2>1
  <2>3. (y[i] % 2) # 0
    <3> SUFFICES ASSUME (y[i] % 2) = 0 PROVE FALSE
      OBVIOUS
    <3> DEFINE q == y[i] \div 2
               u == 2^(t+1)
               w == 2^t
    <3>1. 2 \in Nat \ {0} /\ y[i] \in Nat
      BY <1>6
    <3>2. q \in Nat /\ y[i] = 2 * q
      BY <3>1, Divided
    <3>3. w \in Nat /\ u = 2 * w /\ u \in Nat \ {0} /\ x[i] = w * y[i] /\ x[i] \in Nat
      BY <1>5, <1>6
    <3> HIDE DEF q, u, w
    <3>4. \A a, b \in Nat : a * (2 * b) = (2 * a) * b
      OBVIOUS
    <3>5. x[i] = u * q
      BY <3>2, <3>3, <3>4
    <3>6. (x[i] % u) = 0
      BY <3>2, <3>3, <3>5, MultipleOf
    <3>7. QED BY <2>2, <3>6 DEF u
  <2>4. QED BY <2>3
<1>10. QED BY <1>4, <1>7, <1>8, <1>9 DEF m, y, K

LEMMA NotCoarser ==
  ASSUME NEW K \in Nat \ {0}, NEW m \in 0..K-1, NEW n \in 0..K-1, m < n,
         NEW y \in Coordinates, NEW z \in Coordinates, Reduced(n, z), Config,
         \A i \in Dir : y[i] * 2^(K-1-m) = z[i] * 2^(K-1-n)
  PROVE  FALSE
<1> DEFINE a == K - 1 - n
           b == n - m - 1
<1>1. PICK i \in Dir : (z[i] % 2) # 0
  <2>1. n > 0
    OBVIOUS
  <2>2. QED BY <2>1 DEF Reduced
<1>2. a \in Nat /\ b \in Nat /\ b + 1 \in Nat /\ K - 1 - m = a + (b + 1)
  OBVIOUS
<1>3. y[i] \in Nat /\ z[i] \in Nat
  BY BitNumbers DEF Coordinates
<1>4. y[i] * 2^(K-1-m) = z[i] * 2^a
  OBVIOUS
<1> HIDE DEF a, b
<1>5. 2^(K-1-m) = 2^a * (2 * 2^b) /\ 2^a \in Nat \ {0} /\ 2^b \in Nat \ {0}
  <2>1. 2^(a+(b+1)) = 2^a * 2^(b+1)
    BY <1>2, ExponentSum
  <2>2. 2^(b+1) = 2 * 2^b
    BY <1>2, PowerNext
  <2>3. QED BY <1>2, <2>1, <2>2, PowerOfTwo
<1>6. \A c, d, e \in Nat : c * (d * (2 * e)) = (2 * (c * e)) * d /\ c * e \in Nat /\ 2 * (c * e) \in Nat
  OBVIOUS
<1>7. (2 * (y[i] * 2^b)) * 2^a = z[i] * 2^a /\ y[i] * 2^b \in Nat /\ 2 * (y[i] * 2^b) \in Nat
  BY <1>3, <1>4, <1>5, <1>6
<1>8. 2 * (y[i] * 2^b) = z[i]
  <2> DEFINE c == 2 * (y[i] * 2^b)
             w == z[i]
             d == 2^a
  <2>1. c \in Nat /\ w \in Nat /\ d \in Nat \ {0} /\ c * d = w * d
    BY <1>3, <1>5, <1>7
  <2> HIDE DEF c, w, d
  <2>2. c = w
    BY <2>1, Cancel
  <2>3. QED BY <2>2 DEF c, w
<1>9. (z[i] % 2) = 0
  <2> DEFINE q == y[i] * 2^b
             w == z[i]
  <2>1. q \in Nat /\ w \in Nat /\ w = 2 * q /\ 2 \in Nat \ {0}
    BY <1>3, <1>7, <1>8
  <2> HIDE DEF q, w
  <2>2. (w % 2) = 0
    BY <2>1, MultipleOf
  <2>3. QED BY <2>2 DEF w
<1>10. QED BY <1>1, <1>9

LEMMA ReducedUnique ==
  ASSUME Config, NEW K \in Nat \ {0}, NEW m \in 0..K-1, NEW n \in 0..K-1,
         NEW y \in Coordinates, NEW z \in Coordinates, Reduced(m, y), Reduced(n, z),
         \A i \in Dir : y[i] * 2^(K-1-m) = z[i] * 2^(K-1-n)
  PROVE  m = n /\ y = z
<1>1. ~ (m < n)
  BY NotCoarser
<1>2. ~ (n < m)
  <2>1. \A i \in Dir : z[i] * 2^(K-1-n) = y[i] * 2^(K-1-m)
    OBVIOUS
  <2>2. QED BY <2>1, NotCoarser
<1>3. m = n
  BY <1>1, <1>2
<1>4. ASSUME NEW i \in Dir PROVE y[i] = z[i]
  <2>1. y[i] \in Nat /\ z[i] \in Nat
    BY BitNumbers DEF Coordinates
  <2>2. K - 1 - m \in Nat
    OBVIOUS
  <2>3. 2^(K-1-m) \in Nat \ {0}
    BY <2>2, PowerOfTwo
  <2>4. y[i] * 2^(K-1-m) = z[i] * 2^(K-1-m)
    BY <1>3
  <2>5. QED BY <2>1, <2>3, <2>4, Cancel
<1>5. y = z
  BY <1>4 DEF Coordinates
<1>6. QED BY <1>3, <1>5

-----------------------------------------------------------------------------
(* Places and ids *)

LEMMA VertexPlace ==
  ASSUME NEW l, NEW x
  PROVE  /\ Place(l, {}, x) = <<{}, 0, [i \in Dir |-> x[i] * 2^(LevelLimit - l)]>>
         /\ persistentIndex(l, {}, x) = encode({}, Coarsest(l, x), CoarsestCoord(l, x))
  BY DEF Place, persistentIndex, Coarsest, CoarsestCoord

LEMMA OtherPlace ==
  ASSUME Config, NEW l \in Nat, NEW r \in Shifts, r # {}, NEW x \in Coordinates
  PROVE  Place(l, r, x) = <<r, l, x>> /\ persistentIndex(l, r, x) = encode(r, l-1, x)
<1>1. Place(l, r, x) = <<r, l, x>>
  BY DEF Place
<1>2. l - 1 - 0 = l - 1
  OBVIOUS
<1>3. [i \in Dir |-> x[i] \div 2^0] = x
  <2>1. ASSUME NEW i \in Dir PROVE x[i] \div 2^0 = x[i]
    <3>1. x[i] \in Nat
      BY BitNumbers DEF Coordinates
    <3>2. x[i] \div 1 = x[i]
      BY <3>1
    <3>3. QED BY <3>2, PowerZero
  <2>2. x = [i \in Dir |-> x[i]]
    BY DEF Coordinates
  <2>3. QED BY <2>1, <2>2
<1>4. persistentIndex(l, r, x) = encode(r, l - 1 - 0, [i \in Dir |-> x[i] \div 2^0])
  BY DEF persistentIndex
<1>5. QED BY <1>1, <1>2, <1>3, <1>4

(* An entity that fits its bits. *)
Fitting(l, r, x) == l \in 1..LevelLimit /\ l - 1 < 2^LevelBits /\ r \in Shifts /\ x \in Coordinates

LEMMA IdRange ==
  ASSUME Config, NEW l, NEW r, NEW x, Fitting(l, r, x)
  PROVE  persistentIndex(l, r, x) \in 0..IdBound-1
<1>1. l \in 1..LevelLimit /\ r \in Shifts /\ x \in Coordinates /\ l - 1 \in 0..2^LevelBits-1 /\ l \in Nat
  BY BitNumbers, BoundsAssumption DEF Fitting
<1>2. CASE r = {}
  <2>1. Coarsest(l, x) \in 0..l-1 /\ CoarsestCoord(l, x) \in Coordinates
    BY <1>1, CoarsestIs
  <2>2. Coarsest(l, x) \in 0..2^LevelBits-1
    BY <1>1, <2>1, BitNumbers
  <2>3. {} \in Shifts
    BY DEF Shifts
  <2>4. encode({}, Coarsest(l, x), CoarsestCoord(l, x)) \in 0..IdBound-1
    BY <2>1, <2>2, <2>3, EncodeInjective
  <2>5. QED BY <1>2, <2>4, VertexPlace
<1>3. CASE r # {}
  BY <1>1, <1>3, EncodeInjective, OtherPlace
<1>4. QED BY <1>2, <1>3

(* Two ids agree exactly if the places do. *)
LEMMA SamePlaceSameId ==
  ASSUME Config, NEW k, NEW r, NEW x, Fitting(k, r, x), NEW l, NEW s, NEW z, Fitting(l, s, z)
  PROVE  Place(k, r, x) = Place(l, s, z) <=> persistentIndex(k, r, x) = persistentIndex(l, s, z)
<1>1. /\ k \in 1..LevelLimit /\ r \in Shifts /\ x \in Coordinates /\ k - 1 \in 0..2^LevelBits-1
      /\ l \in 1..LevelLimit /\ s \in Shifts /\ z \in Coordinates /\ l - 1 \in 0..2^LevelBits-1
      /\ k \in Nat /\ l \in Nat /\ LevelLimit \in Nat \ {0} /\ {} \in Shifts
  BY BitNumbers, BoundsAssumption DEF Fitting, Shifts
<1>2. \A q, t \in Shifts, m, n \in 0..2^LevelBits-1, y, w \in Coordinates :
        encode(q, m, y) = encode(t, n, w) => q = t /\ m = n /\ y = w
  BY EncodeInjective
<1>3. CASE r # {} /\ s # {}
  <2>1. /\ Place(k, r, x) = <<r, k, x>> /\ persistentIndex(k, r, x) = encode(r, k-1, x)
        /\ Place(l, s, z) = <<s, l, z>> /\ persistentIndex(l, s, z) = encode(s, l-1, z)
    BY <1>1, <1>3, OtherPlace
  <2>2. encode(r, k-1, x) = encode(s, l-1, z) => r = s /\ k - 1 = l - 1 /\ x = z
    BY <1>1, <1>2
  <2>3. k - 1 = l - 1 => k = l
    BY <1>1
  <2>4. QED BY <2>1, <2>2, <2>3
<1> DEFINE m == Coarsest(k, x)
           y == CoarsestCoord(k, x)
           n == Coarsest(l, z)
           w == CoarsestCoord(l, z)
           K == LevelLimit
<1>4. /\ m \in 0..k-1 /\ y \in Coordinates /\ Reduced(m, y)
      /\ \A i \in Dir : x[i] * 2^(K - k) = y[i] * 2^(K - 1 - m)
      /\ n \in 0..l-1 /\ w \in Coordinates /\ Reduced(n, w)
      /\ \A i \in Dir : z[i] * 2^(K - l) = w[i] * 2^(K - 1 - n)
  BY <1>1, CoarsestIs
<1>5. /\ Place(k, {}, x) = <<{}, 0, [i \in Dir |-> x[i] * 2^(K - k)]>>
      /\ persistentIndex(k, {}, x) = encode({}, m, y)
      /\ Place(l, {}, z) = <<{}, 0, [i \in Dir |-> z[i] * 2^(K - l)]>>
      /\ persistentIndex(l, {}, z) = encode({}, n, w)
  BY VertexPlace
<1> HIDE DEF m, y, n, w, K
<1>6. m \in 0..2^LevelBits-1 /\ n \in 0..2^LevelBits-1 /\ m \in 0..K-1 /\ n \in 0..K-1 /\ K \in Nat \ {0}
  <2> DEFINE L == 2^LevelBits
  <2>1. L \in Nat /\ k - 1 \in 0..L-1 /\ l - 1 \in 0..L-1 /\ k \in 1..K /\ l \in 1..K
        /\ K \in Nat \ {0} /\ m \in 0..k-1 /\ n \in 0..l-1
    BY <1>1, <1>4, BitNumbers DEF K
  <2> HIDE DEF L
  <2>2. m \in 0..L-1 /\ n \in 0..L-1 /\ m \in 0..K-1 /\ n \in 0..K-1
    BY <2>1
  <2>3. QED BY <2>1, <2>2 DEF L
<1>7. CASE r = {} /\ s = {}
  <2>1. ASSUME Place(k, r, x) = Place(l, s, z)
        PROVE  persistentIndex(k, r, x) = persistentIndex(l, s, z)
    <3>1. [i \in Dir |-> x[i] * 2^(K - k)] = [i \in Dir |-> z[i] * 2^(K - l)]
      BY <1>5, <1>7, <2>1
    <3>2. ASSUME NEW i \in Dir PROVE y[i] * 2^(K - 1 - m) = w[i] * 2^(K - 1 - n)
      <4>1. x[i] * 2^(K - k) = z[i] * 2^(K - l)
        BY <3>1
      <4>2. QED BY <1>4, <4>1
    <3>3. m = n /\ y = w
      BY <1>4, <1>6, <3>2, ReducedUnique
    <3>4. QED BY <1>5, <1>7, <3>3
  <2>2. ASSUME persistentIndex(k, r, x) = persistentIndex(l, s, z)
        PROVE  Place(k, r, x) = Place(l, s, z)
    <3>1. encode({}, m, y) = encode({}, n, w)
      BY <1>5, <1>7, <2>2
    <3>2. m = n /\ y = w
      BY <1>1, <1>2, <1>4, <1>6, <3>1
    <3>3. ASSUME NEW i \in Dir PROVE x[i] * 2^(K - k) = z[i] * 2^(K - l)
      BY <1>4, <3>2
    <3>4. [i \in Dir |-> x[i] * 2^(K - k)] = [i \in Dir |-> z[i] * 2^(K - l)]
      BY <3>3
    <3>5. QED BY <1>5, <1>7, <3>4
  <2>3. QED BY <2>1, <2>2
<1>8. CASE r = {} /\ s # {}
  <2>1. Place(l, s, z) = <<s, l, z>> /\ persistentIndex(l, s, z) = encode(s, l-1, z)
    BY <1>1, <1>8, OtherPlace
  <2>2. Place(k, r, x) # Place(l, s, z)
    BY <1>5, <1>8, <2>1
  <2>3. encode({}, m, y) = encode(s, l-1, z) => {} = s
    BY <1>1, <1>2, <1>4, <1>6
  <2>4. QED BY <1>5, <1>8, <2>1, <2>2, <2>3
<1>9. CASE r # {} /\ s = {}
  <2>1. Place(k, r, x) = <<r, k, x>> /\ persistentIndex(k, r, x) = encode(r, k-1, x)
    BY <1>1, <1>9, OtherPlace
  <2>2. Place(k, r, x) # Place(l, s, z)
    BY <1>5, <1>9, <2>1
  <2>3. encode(r, k-1, x) = encode({}, n, w) => r = {}
    BY <1>1, <1>2, <1>4, <1>6
  <2>4. QED BY <1>5, <1>9, <2>1, <2>2, <2>3
<1>10. QED BY <1>3, <1>7, <1>8, <1>9

(* Where all pairs of a finite set differ in a component, there are as     *)
(* many values of it as pairs.                                             *)
LEMMA AsMany ==
  ASSUME NEW S, IsFiniteSet(S), NEW j \in {1, 2},
         \A a, b \in S : a[j] = b[j] => a = b
  PROVE  Cardinality({a[j] : a \in S}) = Cardinality(S)
<1> DEFINE T == {a[j] : a \in S}
           f == [a \in S |-> a[j]]
<1>1. f \in Bijection(S, T)
  BY DEF Bijection, Injection, IsInjective, Surjection
<1>2. ExistsBijection(S, T)
  BY <1>1 DEF ExistsBijection
<1> HIDE DEF T
<1>3. Cardinality(T) = Cardinality(S)
  BY <1>2, FS_Bijection
<1>4. QED BY <1>3 DEF T

(* The ids of a grid of any size and number of levels, as long as its      *)
(* coordinates fit their bits.                                             *)
THEOREM Ids == Spec => []IdsUnique
<1>1. TypeInv /\ HeightInv => IdsUnique
  <2> SUFFICES ASSUME TypeInv, HeightInv PROVE IdsUnique
    OBVIOUS
  <2> DEFINE names == UNION {UNION {Named(p, l, r) : l \in Levels(p), r \in Shifts} : p \in Procs}
  <2>1. Config
    BY DEF TypeInv
  <2>2. ASSUME NEW n \in names
        PROVE  \E l, r, x : Fitting(l, r, x) /\ n = <<Place(l, r, x), persistentIndex(l, r, x)>>
    <3>1. PICK p \in Procs : \E l \in Levels(p), r \in Shifts : n \in Named(p, l, r)
      OBVIOUS
    <3>2. PICK l \in Levels(p), r \in Shifts : n \in Named(p, l, r)
      BY <3>1
    <3>3. PICK x \in Held(p, l, r) : Fits(l, x) /\ n = <<Place(l, r, x), persistentIndex(l, r, x)>>
      BY <3>2 DEF Named
    <3>4. l \in 1..Len(level[p]) /\ level[p] \in Seq(YGridLevels) /\ level[p][l] \in YGridLevels
      BY DEF Levels, maxLevel, TypeInv
    <3>5. l \in 1..LevelLimit
      <4>1. Len(level[p]) + todo[p] <= LevelLimit /\ todo[p] \in Nat /\ Len(level[p]) \in Nat
        BY <3>4 DEF HeightInv, Heights, TypeInv
      <4>2. QED BY <3>4, <4>1, BoundsAssumption
    <3>6. x \in [Dir -> Int]
      <4>1. overlapfront(level[p][l], r) \in Grids
        BY <3>4, PartTypes
      <4>2. x \in points(overlapfront(level[p][l], r))
        BY DEF Held
      <4>3. QED BY <4>1, <4>2, PointsOf
    <3>7. x \in Coordinates /\ l - 1 < 2^LevelBits
      BY <3>3, <3>6 DEF Fits, Coordinates
    <3>8. Fitting(l, r, x)
      BY <3>5, <3>7 DEF Fitting
    <3>9. QED BY <3>3, <3>8
  <2> HIDE DEF names
  <2>3. ASSUME NEW a \in names, NEW b \in names
        PROVE  /\ a[1] = b[1] => a = b
               /\ a[2] = b[2] => a = b
    <3>1. PICK k, r, x : Fitting(k, r, x) /\ a = <<Place(k, r, x), persistentIndex(k, r, x)>>
      BY <2>2
    <3>2. PICK l, s, z : Fitting(l, s, z) /\ b = <<Place(l, s, z), persistentIndex(l, s, z)>>
      BY <2>2
    <3>3. Place(k, r, x) = Place(l, s, z) <=> persistentIndex(k, r, x) = persistentIndex(l, s, z)
      BY <2>1, <3>1, <3>2, SamePlaceSameId
    <3>4. QED BY <3>1, <3>2, <3>3
  <2>4. \A a \in names : a[2] \in 0..IdBound-1
    <3> SUFFICES ASSUME NEW a \in names PROVE a[2] \in 0..IdBound-1
      OBVIOUS
    <3>1. PICK k, r, x : Fitting(k, r, x) /\ a = <<Place(k, r, x), persistentIndex(k, r, x)>>
      BY <2>2
    <3>2. persistentIndex(k, r, x) \in 0..IdBound-1
      BY <2>1, <3>1, IdRange
    <3>3. QED BY <3>1, <3>2
  <2>5. IsFiniteSet(names)
    <3> DEFINE B == 0..IdBound-1
               f == [a \in names |-> a[2]]
    <3>1. IsFiniteSet(B)
      <4>1. IdBound \in Nat
        BY <2>1, EncodeInjective
      <4>2. 0 \in Int /\ IdBound - 1 \in Int
        BY <4>1
      <4>3. QED BY <4>2, FS_Interval
    <3> HIDE DEF B
    <3>2. f \in Injection(names, B)
      BY <2>3, <2>4 DEF Injection, IsInjective, B
    <3> HIDE DEF f
    <3>3. QED BY <3>1, <3>2, FS_Injection
  <2>6. Cardinality({n[1] : n \in names}) = Cardinality(names)
    BY <2>3, <2>5, AsMany
  <2>7. Cardinality({n[2] : n \in names}) = Cardinality(names)
    BY <2>3, <2>5, AsMany
  <2>8. QED BY <2>6, <2>7 DEF IdsUnique, names
<1>2. QED BY <1>1, Typed, HeightAlways, PTL
=============================================================================

---------------------------- MODULE YaspEntities ----------------------------
(***************************************************************************)
(* The entities of a YaspGrid (yaspgridentity.hh, yaspgridintersection.hh, *)
(* yaspgridhierarchiciterator.hh, yaspgridindexsets.hh): their indices and *)
(* ids, the subentities of a cell, its faces, its father and its sons, all *)
(* computed from the level, the shift and the integer coordinates of the   *)
(* entity whenever they are asked for.                                     *)
(*                                                                         *)
(* An entity is a shift r, the set of directions it extends in, and a      *)
(* point x of the grid part("overlapfront", level, r).                     *)
(***************************************************************************)
EXTENDS YaspGrid

CONSTANTS
  DimBits,    \* yaspgrid_dim_bits, 24 in the code
  LevelBits   \* yaspgrid_level_bits, 5 in the code

ASSUME BitsAssumption == DimBits \in Nat \ {0} /\ LevelBits \in Nat \ {0}

dim == Len(args.size)
Codims == 0..dim

(* A shift as a number and back: one bit for every direction.              *)
to_ulong(r) ==
  LET bits[i \in 0..dim] == IF i = 0 THEN 0 ELSE bits[i-1] + (IF i \in r THEN 2^(i-1) ELSE 0)
  IN  bits[dim]

bitset(k) == {i \in Dir : (k \div 2^(i-1)) % 2 = 1}

(* The shifts of a codimension, and the order of the components.           *)
ShiftsOf(codim) == {r \in Shifts : Cardinality(r) = dim - codim}

components(codim) ==
  SetToSortSeq(ShiftsOf(codim), LAMBDA a, b : to_ulong(a) < to_ulong(b))

-----------------------------------------------------------------------------
prod(f, S) == FoldFunctionOnSet(LAMBDA a, b : a * b, 1, f, S)

(* The subentities of a cell: i-th of codimension cc.                      *)
binomial(d, c) ==
  prod([i \in d-c+1..d |-> i], d-c+1..d) \div prod([i \in 1..c |-> i], 1..c)

subEnt(d, c) == IF d < c THEN 0 ELSE binomial(d, c) * 2^c

(* Directions are peeled off from the last to the first; a subentity is    *)
(* the extrusion of one of the lower-dimensional cube, or lies in its      *)
(* bottom or top.                                                          *)
peel(d, s) ==
  [s EXCEPT !.index = (@ - subEnt(d-1, s.cc)) % subEnt(d-1, s.cc-1), !.cc = @ - 1]

shiftStep(s, d) ==
  IF s.cc >= d THEN s
  ELSE IF s.index < subEnt(d-1, s.cc) THEN [s EXCEPT !.result = @ \cup {d}]
  ELSE peel(d, s)

moveVertex(s, d) ==
  IF s.cc # d THEN s
  ELSE [s EXCEPT !.result = IF (s.index \div 2^(d-1)) % 2 = 1 THEN @ \cup {d} ELSE @,
                 !.index = @ - ((@ \div 2^(d-1)) % 2) * 2^(d-1)]

moveFace(s, d) ==
  IF s.index < subEnt(d-1, s.cc) THEN s
  ELSE [peel(d, s) EXCEPT !.result =
          IF (s.index - subEnt(d-1, s.cc)) \div subEnt(d-1, s.cc-1) = 1
          THEN s.result \cup {d} ELSE s.result]

unravel(Step(_, _), i, cc) ==
  FoldLeft(LAMBDA s, d : Step(s, d), [index |-> i, cc |-> cc, result |-> {}],
           [j \in Dir |-> dim + 1 - j]).result

entityShift(i, cc) == unravel(shiftStep, i, cc)
entityMove(i, cc) == unravel(LAMBDA s, d : moveFace(moveVertex(s, d), d), i, cc)

moved(x, m) == [j \in Dir |-> IF j \in m THEN x[j] + 1 ELSE x[j]]

subEntity(x, i, cc) == [shift |-> entityShift(i, cc), coord |-> moved(x, entityMove(i, cc))]

-----------------------------------------------------------------------------
(* Indices.  The increments of a grid are computed like those of the torus.*)
superincrement(g, i) == increment(g.size)[i]

totalsize(g) == procs(g.size)

(* The number of a point in the enclosing grid, the first direction        *)
(* running fastest.                                                        *)
superindex(g, r, x) ==
  LET y == overlapfront(g, r)
      si[i \in 0..dim] ==
        IF i = 0 THEN 0 ELSE si[i-1] + (x[i] - y.origin[i]) * superincrement(y, i)
  IN  si[dim]

(* _indexOffset: the entities of the components before that of shift r,    *)
(* counted in the partition the iterator runs over.  The components are    *)
(* made in the order of their numbers.                                     *)
sizesBefore(kind, g, codim) ==
  LET n[k \in 0..2^dim] ==
        IF k = 0 THEN 0
        ELSE n[k-1] + (IF bitset(k-1) \in ShiftsOf(codim)
                       THEN totalsize(part(kind, g, bitset(k-1))) ELSE 0)
  IN  n

indexOffset_restart(kind, g, r) == 0

indexOffset(kind, g, r) == sizesBefore(kind, g, dim - Cardinality(r))[to_ulong(r)]

(* The index of an entity an iterator over the partition "kind" is at.     *)
compressedIndex(kind, g, r, x) == indexOffset(kind, g, r) + superindex(g, r, x)

subCompressedIndex(g, x, i, cc) ==
  LET e == subEntity(x, i, cc)
  IN  indexOffset("overlapfront", g, e.shift) + superindex(g, e.shift, e.coord)

(* size(level, codim) *)
entities(g, codim) == sizesBefore("overlapfront", g, codim)[2^dim]

-----------------------------------------------------------------------------
(* Ids: shift, level and coordinates, one behind the other.                *)
encode(r, lev, x) ==
  LET id[j \in 0..dim] ==
        IF j = 0 THEN to_ulong(r) * 2^LevelBits + lev ELSE id[j-1] * 2^DimBits + x[dim+1-j]
  IN  id[dim] % 2^(dim * DimBits + LevelBits + dim)

(* The coarsest level a vertex belongs to is found by the zero bits its    *)
(* coordinates end with, as far as there are levels.                       *)
zeros(x, lev) == Max({k \in 0..lev : x % 2^k = 0})
trailing(x, lev) == Min({zeros(x[i], lev) : i \in Dir})

persistentIndex_anylevel(l, r, x) == encode(r, l-1, x)

persistentIndex(l, r, x) ==
  LET t == IF r = {} THEN trailing(x, l-1) ELSE 0
  IN  encode(r, l-1 - t, [i \in Dir |-> x[i] \div 2^t])

subPersistentIndex_unmoved(l, x, i, cc) ==
  LET e == subEntity(x, i, cc)
      t == IF cc = dim THEN trailing(x, l-1) ELSE 0
  IN  encode(e.shift, l-1 - t, [j \in Dir |-> e.coord[j] \div 2^t])

subPersistentIndex(l, x, i, cc) ==
  LET e == subEntity(x, i, cc)
      t == IF cc = dim THEN trailing(e.coord, l-1) ELSE 0
  IN  encode(e.shift, l-1 - t, [j \in Dir |-> e.coord[j] \div 2^t])

-----------------------------------------------------------------------------
(* Hierarchy.  The division of the code rounds towards zero.               *)
tozero(n, d) == IF n >= 0 THEN n \div d ELSE -((-n) \div d)

father(x) == [i \in Dir |-> tozero(x[i], 2)]

(* The sons the hierarchic iterator visits: where refinement has trimmed   *)
(* the overlap some do not exist.                                          *)
sons_all(p, l, x) == {[k \in Dir |-> 2 * x[k] + s[k]] : s \in [Dir -> {0, 1}]}

sons(p, l, x) ==
  {c \in {[k \in Dir |-> 2 * x[k] + s[k]] : s \in [Dir -> {0, 1}]} :
     contains(overlap(level[p][l+1], Dir), c)}

-----------------------------------------------------------------------------
(* The faces of a cell: direction d, face 0 at the lower end, 1 at the     *)
(* upper.                                                                  *)
Faces == Dir \X {0, 1}

outside_cell(x, f) == [x EXCEPT ![f[1]] = @ + 2 * f[2] - 1]

boundary(l, x, f) ==
  /\ f[1] \notin args.periodic
  /\ x[f[1]] + f[2] \in {0, levelSize(l)[f[1]]}

neighbor(g, x, f) ==
  LET y == overlap(g, Dir)
  IN  x[f[1]] + f[2] > y.origin[f[1]] /\ x[f[1]] + f[2] <= last(y, f[1])

(* Boundary segments of the coarse level, the overlap included: those of   *)
(* a process that reaches an end of the domain.                            *)
sides(y) ==
  [i \in Dir |-> (IF y.origin[i] = 0 THEN 1 ELSE 0)
               + (IF last(y, i) + 1 = levelSize(1)[i] THEN 1 ELSE 0)]

fsize(y) == [k \in Dir |-> totalsize(y) \div y.size[k]]

boundarysegmentssize(y) ==
  SumFunction([k \in Dir |-> sides(y)[k] * fsize(y)[k]])

facepos(y, pos, d) ==
  SumFunctionOnSet(
    [k \in Dir |-> pos[k] * prod(y.size, (k+1..dim) \ {d})],
    Dir \ {d})

facestart_upper(y, f) ==
  SumFunctionOnSet( [k \in Dir |-> sides(y)[k] * fsize(y)[k]], 1..f[1]-1)
    + f[2] * fsize(y)[f[1]]

(* Only where both ends belong to the process the upper follows the lower. *)
facestart(y, f) ==
  SumFunctionOnSet( [k \in Dir |-> sides(y)[k] * fsize(y)[k]], 1..f[1]-1)
    + (IF sides(y)[f[1]] > 1 THEN f[2] * fsize(y)[f[1]] ELSE 0)

boundarySegmentIndex(p, l, x, f) ==
  LET y == overlap(level[p][1], Dir)
  IN  facepos(y, [i \in Dir |-> tozero(x[i], 2^(l-1)) - y.origin[i]], f[1]) + facestart(y, f)
-----------------------------------------------------------------------------
Settled == Together(1)
Levels(p) == 1..maxLevel(p)
Held(p, l, r) == points(overlapfront(level[p][l], r))
Cells(p, l) == Held(p, l, Dir)

(* Within the bits the code reserves. *)
Fits(l, x) == l-1 < 2^LevelBits /\ \A i \in Dir : x[i] \in 0..2^DimBits-1

(* An entity has one id on every process; two entities share an id exactly *)
(* if they are vertices of different levels at the same place.             *)
(* (persistentIndex(), as long as level and coordinates fit their bits.)   *)
Place(l, r, x) ==
  IF r = {} THEN <<{}, 0, [i \in Dir |-> x[i] * 2^(LevelLimit - l)]>> ELSE <<r, l, x>>

Named(p, l, r) ==
  {<<Place(l, r, x), persistentIndex(l, r, x)>> : x \in {y \in Held(p, l, r) : Fits(l, y)}}

IdsUnique ==
  Settled =>
    LET names == UNION {UNION {Named(p, l, r) : l \in Levels(p), r \in Shifts} : p \in Procs}
    IN  /\ Cardinality({n[1] : n \in names}) = Cardinality(names)
        /\ Cardinality({n[2] : n \in names}) = Cardinality(names)

(* The numbers 0..subEntities(cc)-1 run through all corners, edges, ... of *)
(* a cell, each once, and the id asked of the cell is the one the          *)
(* subentity itself gives.  (subEntity(), subPersistentIndex().)           *)
SubEntities ==
  Settled =>
    \A cc \in Codims, p \in Procs : \A l \in Levels(p) : \A x \in Cells(p, l) :
      LET subs == {subEntity(x, i, cc) : i \in 0..subEnt(dim, cc)-1}
      IN  /\ subs = UNION {{[shift |-> r, coord |-> moved(x, m)] : m \in SUBSET (Dir \ r)} :
                             r \in ShiftsOf(cc)}
          /\ Cardinality(subs) = subEnt(dim, cc)
          /\ \A i \in 0..subEnt(dim, cc)-1 :
               LET e == subEntity(x, i, cc)
               IN  Fits(l, e.coord) /\ Fits(l, x) =>
                     subPersistentIndex(l, x, i, cc) = persistentIndex(l, e.shift, e.coord)

(* The indices of the entities of a codimension are 0..size-1 on every     *)
(* level of every process, overlap and front included: no two share one.   *)
IndicesConsecutive ==
  Settled =>
    \A codim \in Codims, p \in Procs : \A l \in Levels(p) :
      LET g == level[p][l]
      IN  UNION {{compressedIndex("overlapfront", g, r, x) : x \in Held(p, l, r)} :
                   r \in ShiftsOf(codim)} = 0..entities(g, codim)-1

(* "consecutive, codim-wise, level-wise index": an entity has one index,   *)
(* whichever partition it is iterated in.                                  *)
IndexOfEntity ==
  Settled =>
    \A p \in Procs, r \in Shifts, kind \in {"interior", "interiorborder", "overlap"} :
      \A l \in Levels(p) : \A x \in points(part(kind, level[p][l], r)) :
        compressedIndex(kind, level[p][l], r, x)
          = compressedIndex("overlapfront", level[p][l], r, x)

(* The cells of a level are the sons of those of the coarser one, each the *)
(* son of one cell, wherever refinement trimmed the overlap; and father()  *)
(* returns that cell unless a coordinate is negative.                      *)
SonsPartition ==
  Settled =>
    \A p \in Procs : \A l \in 1..maxLevel(p)-1 :
      /\ UNION {sons(p, l, x) : x \in Cells(p, l)} = Cells(p, l+1)
      /\ \A x \in Cells(p, l) : \A c \in sons(p, l, x) :
           (\A i \in Dir : c[i] >= 0) => father(c) = x

(* "Inter-level access to father element on coarser grid": a cell is among *)
(* the sons of its father.                                                 *)
FatherOfSon ==
  Settled =>
    \A p \in Procs : \A l \in 1..maxLevel(p)-1 : \A c \in Cells(p, l+1) :
      c \in sons(p, l, father(c))

(* A face has a neighbour cell exactly if the process holds that cell, up  *)
(* to the period; an interior cell has at each face either the boundary or *)
(* a neighbour, if there is an overlap.                                    *)
FacesComplete ==
  Settled =>
    \A p \in Procs : \A l \in Levels(p) : \A f \in Faces :
      LET g == level[p][l]
      IN  /\ \A x \in Cells(p, l) :
                neighbor(g, x, f) <=> outside_cell(x, f) \in Cells(p, l)
          /\ args.overlap > 0 =>
               \A x \in points(interior(g, Dir)) : boundary(l, x, f) # neighbor(g, x, f)

(* The boundary faces of the coarse cells of a process are numbered from 0 *)
(* to numBoundarySegments()-1, each once; those of a finer cell have the   *)
(* number of the coarse face they lie in.                                  *)
BoundaryFaces(p, l) == {h \in Cells(p, l) \X Faces : boundary(l, h[1], h[2])}

BoundarySegments ==
  Settled /\ (args.periodic # {} => args.overlap > 0) =>
    \A p \in Procs :
      LET n == boundarysegmentssize(overlap(level[p][1], Dir))
      IN  /\ {boundarySegmentIndex(p, 1, h[1], h[2]) : h \in BoundaryFaces(p, 1)} = 0..n-1
          /\ Cardinality(BoundaryFaces(p, 1)) = n
          /\ \A l \in 2..maxLevel(p) : \A h \in BoundaryFaces(p, l) :
               (\A i \in Dir : h[1][i] >= 0) =>
                  boundarySegmentIndex(p, l, h[1], h[2])
                    = boundarySegmentIndex(p, l-1, father(h[1]), h[2])

(* What the intersections of the cells say of neighbours and boundary.     *)
FacesNumbered == FacesComplete /\ BoundarySegments
=============================================================================

------------------------------- MODULE YGrid -------------------------------
(***************************************************************************)
(* Axis-parallel boxes of integer points (dune/grid/yaspgrid/ygrid.hh):    *)
(* what is left of a YGridComponent when the coordinates are forgotten.    *)
(* origin and size are functions on the directions 1..d.                   *)
(***************************************************************************)
EXTENDS Integers, Sequences

ygrid(origin, size) == [origin |-> origin, size |-> size]

(* The grid the default constructor makes. *)
nogrid(d) == ygrid([i \in 1..d |-> 0], [i \in 1..d |-> 0])

dirs(g) == DOMAIN g.size

(* The last point in direction i ("max" in the code). *)
last(g, i) == g.origin[i] + g.size[i] - 1

(* Only a size of exactly 0 counts, not a negative one. *)
empty(g) == \E i \in dirs(g) : g.size[i] = 0

contains(g, x) == \A i \in dirs(g) : x[i] >= g.origin[i] /\ x[i] < g.origin[i] + g.size[i]

move(g, v) == [g EXCEPT !.origin = [i \in dirs(g) |-> @[i] + v[i]]]

larger(a, b) == IF a > b THEN a ELSE b
smaller(a, b) == IF a < b THEN a ELSE b

intersection(g, h) ==
  IF empty(g) \/ empty(h) THEN nogrid(Len(g.size))
  ELSE LET o == [i \in dirs(g) |-> larger(g.origin[i], h.origin[i])]
       IN  ygrid(o, [i \in dirs(g) |-> smaller(last(g, i), last(h, i)) - o[i] + 1])

(* The points of a grid, as a set. *)
points(g) ==
  {x \in [dirs(g) -> UNION {g.origin[i] .. last(g, i) : i \in dirs(g)}] : contains(g, x)}
=============================================================================

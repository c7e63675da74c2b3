-------------------------- MODULE YaspPartitioning --------------------------
(***************************************************************************)
(* The load balancers of YaspGrid (dune/grid/yaspgrid/partitioning.hh):    *)
(* how many processes each direction of a grid of "size" cells gets when   *)
(* there are P of them.  The result is a sequence of dimensions, or        *)
(* NoDims when the balancer throws.                                        *)
(***************************************************************************)
EXTENDS YaspTorus, SequencesExt

NoDims == <<>>

(* The subdivisions that optimize_dims() tries, in its order: recursion    *)
(* from the last direction to the first, which takes what is left.         *)
tries(d, P) ==
  LET f[i \in 1..d] ==
        IF i = 1 THEN [n \in 1..P |-> <<<<n>>>>]
        ELSE [n \in 1..P |-> FlattenSeq([k \in 1..n |->
               IF n % k # 0 THEN <<>>
               ELSE LET g == f[i-1][n \div k] IN [m \in 1..Len(g) |-> Append(g[m], k)]])]
  IN  f[d][P]

(* The width of the widest piece, three times as much where the division   *)
(* leaves a remainder; times P, to be a whole number.                      *)
weight(size, P, t) ==
  LET w(i) == size[i] * (P \div t[i]) * (IF size[i] % t[i] = 0 THEN 1 ELSE 3)
  IN  Max({w(i) : i \in DOMAIN size})

(* opt is not updated: every subdivision is compared with the first one. *)
optimize_dims_noopt(size, P) ==
  LET all == tries(Len(size), P)
      opt[n \in 1..Len(all)] ==
        IF n = 1 \/ weight(size, P, all[n]) < weight(size, P, all[1]) THEN all[n] ELSE opt[n-1]
  IN  opt[Len(all)]

(* The first subdivision of the least weight. *)
optimize_dims(size, P) ==
  LET all == tries(Len(size), P)
      opt[n \in 1..Len(all)] ==
        IF n = 1 \/ weight(size, P, all[n]) < weight(size, P, opt[n-1]) THEN all[n] ELSE opt[n-1]
  IN  opt[Len(all)]

power_dims(d, P) ==
  LET roots == {i \in 1..P : procs([j \in 1..d |-> i]) = P}
  IN  IF roots = {} THEN NoDims ELSE [j \in 1..d |-> Min(roots)]

fixed_dims(fixed, P) == IF procs(fixed) = P THEN fixed ELSE NoDims

loadbalance(lb, fixed, size, P) ==
  CASE lb = "default" -> optimize_dims(size, P)
    [] lb = "power"   -> power_dims(Len(size), P)
    [] lb = "fixed"   -> fixed_dims(fixed, P)

(* The constructor of the torus refuses dimensions that do not make up P. *)
Torus(dims, P) == IF procs(dims) = P THEN dims ELSE NoDims
=============================================================================

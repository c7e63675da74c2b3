--------------------------- MODULE BisectionTree ---------------------------
(***************************************************************************)
(* What the adaptation of OneDGrid promises: a forest of binary trees, of  *)
(* which only the leaves are kept.  The node <<l, k>> is the k-th of the   *)
(* intervals that the roots fall into when each is halved l times.         *)
(* adapt() replaces two brothers that are both marked for coarsening by    *)
(* their father, and a leaf marked for refinement by its two sons.         *)
(***************************************************************************)
EXTENDS Integers

CONSTANTS
  numElements,  \* number of roots, positive
  Counts        \* arguments of globalRefine() to consider

VARIABLES
  leaves,
  mark       \* the mark of each leaf

MarkStates == {"DO_NOTHING", "COARSEN", "REFINE"}

Father(x)  == <<x[1] - 1, x[2] \div 2>>
Brother(x) == <<x[1], IF x[2] % 2 = 0 THEN x[2] + 1 ELSE x[2] - 1>>
Sons(x)    == {<<x[1] + 1, 2 * x[2]>>, <<x[1] + 1, 2 * x[2] + 1>>}

Roots == {<<0, k>> : k \in 0..numElements-1}

Init ==
  /\ leaves = Roots
  /\ mark = [x \in leaves |-> "DO_NOTHING"]

Mark ==
  \E x \in leaves, m \in MarkStates :
    /\ m = "COARSEN" => x[1] > 0
    /\ mark' = [mark EXCEPT ![x] = m]
    /\ UNCHANGED leaves

coarsened == {x \in leaves : x[1] > 0 /\ \A y \in {x, Brother(x)} : y \in leaves /\ mark[y] = "COARSEN"}
refined   == {x \in leaves : mark[x] = "REFINE"}

(* A new leaf is not marked; the others keep their marks until postAdapt().*)
Adapt ==
  /\ leaves' = (leaves \ (coarsened \cup refined))
                 \cup {Father(x) : x \in coarsened} \cup UNION {Sons(x) : x \in refined}
  /\ mark' = [x \in leaves' |-> IF x \in leaves THEN mark[x] ELSE "DO_NOTHING"]

PostAdapt ==
  /\ mark' = [x \in leaves |-> "DO_NOTHING"]
  /\ UNCHANGED leaves

power2[n \in Nat] == IF n = 0 THEN 1 ELSE 2 * power2[n-1]

(* The nodes n levels below x. *)
Descendants(x, n) == {<<x[1] + n, power2[n] * x[2] + j>> : j \in 0..power2[n]-1}

GlobalRefine ==
  \E n \in {n \in Counts : n > 0} :
  /\ leaves' = UNION {Descendants(x, n) : x \in leaves}
  /\ mark' = [x \in leaves' |-> "DO_NOTHING"]

Next == Mark \/ Adapt \/ PostAdapt \/ GlobalRefine

vars == <<leaves, mark>>

Spec == Init /\ [][Next]_vars
=============================================================================

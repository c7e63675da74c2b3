----------------------------- MODULE MCYaspGrid -----------------------------
(***************************************************************************)
(* Instances of YaspGrid for TLC.                                          *)
(***************************************************************************)
EXTENDS YaspEntities

Prod(t) == FoldLeft(LAMBDA a, b : a * b, 1, t)

(* A grid on a given torus. *)
Case(torus, size, per, ov, ctor, n) ==
  [lb |-> "fixed", fixed |-> torus, procs |-> Prod(torus), size |-> size,
   periodic |-> per, overlap |-> ov, ctor |-> ctor, calls |-> n]

(* One direction: pieces of different size, a piece with neighbours on     *)
(* both sides, a process that is its own neighbour, or its neighbour twice.*)
Line == {Case(<<2>>, <<5>>, {}, 1, "equidistant", 3), Case(<<3>>, <<7>>, {}, 1, "tensor", 3),
         Case(<<2>>, <<7>>, {}, 2, "equidistant", 3), Case(<<2>>, <<5>>, {}, 1, "deprecated", 1)}
Ring == {Case(<<1>>, <<3>>, {1}, 1, "equidistant", 3), Case(<<2>>, <<5>>, {1}, 1, "tensor", 3),
         Case(<<2>>, <<6>>, {1}, 2, "equidistant", 3), Case(<<3>>, <<6>>, {1}, 1, "equidistant", 3)}

(* Two directions. *)
TwoDim == {Case(<<2, 1>>, <<4, 3>>, {2}, 1, "equidistant", 1),
           Case(<<1, 2>>, <<2, 5>>, {}, 1, "tensor", 1),
           Case(<<2, 2>>, <<4, 5>>, {1}, 1, "equidistant", 0),
           Case(<<2, 1>>, <<5, 2>>, {1}, 1, "deprecated", 1),
           Case(<<1, 1, 1>>, <<1, 2, 1>>, {}, 1, "equidistant", 1)}

Refined == Line \cup Ring \cup TwoDim

(* Grids around the limit of the size check, and load balancers. *)
Small == {[lb |-> "default", fixed |-> <<>>, procs |-> n, size |-> <<s>>, periodic |-> per,
           overlap |-> ov, ctor |-> ctor, calls |-> 0] :
            n \in 1..3, s \in 1..7, per \in SUBSET {1}, ov \in 0..2,
            ctor \in {"equidistant", "tensor"}}

Balance == {[lb |-> lb, fixed |-> <<1, 2>>, procs |-> n, size |-> size, periodic |-> {},
             overlap |-> 1, ctor |-> "equidistant", calls |-> 0] :
               lb \in {"default", "power", "fixed"}, n \in {1, 2, 4},
               size \in {<<1, 6>>, <<6, 1>>, <<4, 4>>, <<3, 5>>}}

Setups == Small \cup Balance

AllCases == Refined \cup Setups

(* The domain in two halves. *)
Halves == {Case(<<2, 1>>, <<4, 2>>, {}, 1, "equidistant", 0)}

(* A closed line, one process. *)
Closed == {Case(<<1>>, <<2>>, {1}, 1, "equidistant", 1)}

(* Three processes, the overlaps of the outer ones meet. *)
Meeting == {Case(<<3>>, <<6>>, {}, 1, "equidistant", 0)}

Steps == {-1, 1, 2}

=============================================================================

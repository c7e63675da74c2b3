-------------------------- MODULE MCGlobalIndexSet --------------------------
(***************************************************************************)
(* Instances of GlobalIndexSet for TLC.                                    *)
(***************************************************************************)
EXTENDS GlobalIndexSet

Case(procs_, size_, per, ov, n) ==
  [lb |-> "fixed", fixed |-> procs_, procs |-> FoldLeft(LAMBDA a, b : a * b, 1, procs_),
   size |-> size_, periodic |-> per, overlap |-> ov, ctor |-> "equidistant", calls |-> n]

(* Lines: two processes, two that are each other's neighbour twice, one    *)
(* that is its own neighbour; with refinement before communication.        *)
Lines == {Case(<<2>>, <<5>>, {}, 1, 2), Case(<<2>>, <<5>>, {1}, 1, 1),
          Case(<<1>>, <<2>>, {1}, 1, 1)}

(* No overlap; three processes; two directions. *)
Others == {Case(<<2>>, <<3>>, {1}, 0, 1), Case(<<3>>, <<6>>, {}, 1, 1),
           Case(<<2, 1>>, <<4, 1>>, {}, 1, 1), Case(<<1, 2>>, <<1, 2>>, {1}, 0, 1)}

Grids_ == Lines \cup Others

Args ==
  {[codims |-> cs, iftype |-> t, dir |-> d, fixed |-> f, level |-> l] :
     cs \in {{0, 1}, {1, 2}}, t \in IfTypes, d \in {"forward", "backward"},
     f \in BOOLEAN, l \in {1}}
=============================================================================

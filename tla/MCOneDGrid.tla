----------------------------- MODULE MCOneDGrid -----------------------------
(* Instances of OneDGrid for TLC. *)
EXTENDS OneDGrid

UpToTwo == {-1, 1, 2}
One == {1}
=============================================================================

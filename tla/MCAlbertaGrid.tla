--------------------------- MODULE MCAlbertaGrid ---------------------------
(* An instance of AlbertaGrid for TLC: two triangles with a common edge,   *)
(* which is the refinement edge of the second only.                        *)
EXTENDS AlbertaGrid

Fan == << <<1, 2, 3>>, <<3, 1, 4>> >>
FanNumbers == update(macroElements)
Once == {-1, 1}
=============================================================================

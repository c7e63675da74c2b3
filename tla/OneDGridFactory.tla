-------------------------- MODULE OneDGridFactory --------------------------
(***************************************************************************)
(* GridFactory<OneDGrid> (onedgrid/onedgridfactory.cc): a grid of one      *)
(* level from vertices, elements and boundary segments that are inserted   *)
(* in any order.  insertVertex(), insertElement() and                      *)
(* insertBoundarySegment() only remember what they are given, so that a    *)
(* factory is the three lists; numbers count from 0, as in the source.     *)
(***************************************************************************)
EXTENDS Integers, FiniteSets, FiniteSetsExt, SequencesExt

null == <<>>

(* The map vertexPositions_: a position twice is kept once. *)
vertexPositions(positions) ==
  [p \in ToSet(positions) |-> Min({k \in DOMAIN positions : positions[k] = p}) - 1]

sorted(S) == CHOOSE s \in [1..Cardinality(S) -> S] : \A j, k \in DOMAIN s : j < k => s[j] < s[k]

vertexPositionsByIndex(vp) == [i \in {vp[p] : p \in DOMAIN vp} |-> CHOOSE p \in DOMAIN vp : vp[p] = i]

(* The numbers of the elements by their left vertices. *)
elementsByPosition(vp, elements_) ==
  LET leftEnd(i) == vertexPositionsByIndex(vp)[elements_[i + 1][1]]
      inserted == 0..Len(elements_)-1
  IN  [p \in {leftEnd(i) : i \in inserted} |-> Min({i \in inserted : leftEnd(i) = p})]

(* More than two segments are refused. *)
reversedBoundarySegmentNumbering(vp, boundarySegments_) ==
  /\ Len(boundarySegments_) > 1
  /\ vertexPositionsByIndex(vp)[boundarySegments_[1]] > Min(DOMAIN vp)

(* The grid is connected: its elements lie between neighbouring vertices.  *)
createGrid(vp, boundarySegments_) ==
  LET n == Cardinality(DOMAIN vp)
      reversed == reversedBoundarySegmentNumbering(vp, boundarySegments_)
  IN  [elements |-> [i \in {0} |-> [k \in 1..n-1 |-> <<0, k - 1>>]],
       vertices |-> [i \in {0} |-> [k \in 1..n |-> <<0, k - 1>>]],
       element  |-> [e \in {0} \X (0..n-2) |->
                       [vertex |-> <<e, <<0, e[2] + 1>>>>, father |-> null, sons |-> <<null, null>>,
                        markState |-> "DO_NOTHING", isNew |-> FALSE, reversed |-> reversed]],
       vertex   |-> [v \in {0} \X (0..n-1) |-> [pos |-> sorted(DOMAIN vp)[v[2] + 1], son |-> null]],
       freeVertexId |-> n, freeElementId |-> n - 1,
       reversed |-> reversed,
       failed |-> FALSE]

(* The indices of a new grid are the numbers of insertion; the k-th vertex *)
(* and the k-th element from the left meet the k-th entries of the maps.   *)
initialIndices(vp, elements_) ==
  LET byPosition == elementsByPosition(vp, elements_)
  IN  [element |-> [e \in {0} \X (0..Cardinality(DOMAIN vp)-2) |->
                      byPosition[sorted(DOMAIN byPosition)[e[2] + 1]]],
       vertex  |-> [v \in {0} \X (0..Cardinality(DOMAIN vp)-1) |-> vp[sorted(DOMAIN vp)[v[2] + 1]]]]
=============================================================================

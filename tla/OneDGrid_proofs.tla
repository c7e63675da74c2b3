-------------------------- MODULE OneDGrid_proofs --------------------------
(***************************************************************************)
(* Proofs about OneDGrid (module OneDGrid), for every number of elements,  *)
(* every order of their insertion and every program: adapt() keeps the     *)
(* lists, the pointers and the ids consistent.  Standing is the inductive  *)
(* invariant; refinement and coarsening are in OneDGridRefine_proofs, the  *)
(* steps of the program, the indices and the tree of leaves are here.      *)
(***************************************************************************)
EXTENDS OneDGridRefine_proofs

(* What adapt() is given, and what it leaves. *)
Safe(g) == WF(g) /\ Full(g) /\ g.failed = FALSE

(* adapt(): an assertion fails, or the grid is again well-formed.  *)
LEMMA AdaptedKeeps ==
  ASSUME NEW g, Safe(g), NEW h, h = Adapted(g)
  PROVE  \/ Shape(h) /\ h.failed = TRUE
         \/ /\ Safe(h) /\ maxLevel(h) <= maxLevel(g) + 1 /\ h.reversed = g.reversed
            /\ Unannounced(g) => Es(g) \subseteq Es(h)
<1>1. PICK c : c = Coarsened(g)
  OBVIOUS
<1>2. WF(g) /\ Full(g) /\ g.failed = FALSE /\ h = Grown(c)
  BY <1>1 DEF Safe, Adapted
<1>3. Shape(c) /\ (c.failed = TRUE \/ (c.failed = FALSE /\ WF(c) /\ Almost(c) /\ maxLevel(c) = maxLevel(g)
                                   /\ c.reversed = g.reversed))
  BY <1>1, <1>2, CoarsenedKeeps
<1>4. CASE c.failed = TRUE
  BY <1>2, <1>3, <1>4 DEF Grown
<1>5. CASE c.failed = FALSE /\ WF(c) /\ Almost(c) /\ maxLevel(c) = maxLevel(g) /\ c.reversed = g.reversed
  <2>1. WF(h) /\ Full(h) /\ Es(c) \subseteq Es(h) /\ h.failed = FALSE /\ maxLevel(h) <= maxLevel(c) + 1
        /\ h.reversed = c.reversed
    BY <1>2, <1>5, GrownKeeps
  <2>2. ASSUME Unannounced(g) PROVE Es(g) \subseteq Es(h)
    <3>1. Unmoved(g, c) /\ Shape(g)
      BY <1>1, <1>2, <2>2, CoarsenedUnmoved, WFRecords
    <3>2. c.element = g.element
      BY <3>1, UnmovedFields
    <3>3. QED BY <2>1, <3>2 DEF Es
  <2>3. QED BY <1>5, <2>1, <2>2 DEF Safe
<1>6. QED BY <1>3, <1>4, <1>5

-----------------------------------------------------------------------------
(* The grid h is g but for the marks, and for what is new. *)
Remarked(g, h) ==
  /\ Shape(h) /\ h.elements = g.elements /\ h.vertices = g.vertices /\ h.vertex = g.vertex
  /\ h.freeVertexId = g.freeVertexId /\ h.freeElementId = g.freeElementId
  /\ h.reversed = g.reversed /\ h.failed = g.failed
  /\ h.element \in [Es(g) -> ElementType(Vs(g), Es(g))]
  /\ \A e \in Es(g) :
       /\ h.element[e].vertex = g.element[e].vertex /\ h.element[e].father = g.element[e].father
       /\ h.element[e].sons = g.element[e].sons /\ h.element[e].reversed = g.element[e].reversed
       /\ h.element[e].markState = "REFINE" => level(e) < LevelLimit

(* Marks do not matter to consistency. *)
LEMMA RemarkedKeeps ==
  ASSUME NEW g, WF(g), NEW h, Remarked(g, h)
  PROVE  /\ WF(h) /\ Es(h) = Es(g) /\ maxLevel(h) = maxLevel(g) /\ (Full(g) => Full(h))
         /\ \A e \in Es(g) : isLeaf(h, e) <=> isLeaf(g, e)
<1>1. Es(h) = Es(g) /\ Vs(h) = Vs(g) /\ maxLevel(h) = maxLevel(g)
  BY DEF Remarked, Es, Vs, maxLevel
<1>2. \A v : Pos(h, v) = Pos(g, v) /\ son(h, v) = son(g, v)
  BY DEF Remarked, Pos, son
<1>3. \A e \in Es(g) : /\ V0(h, e) = V0(g, e) /\ V1(h, e) = V1(g, e)
                       /\ Lo(h, e) = Lo(g, e) /\ Hi(h, e) = Hi(g, e)
                       /\ isLeaf(h, e) <=> isLeaf(g, e)
                       /\ h.element[e].sons = g.element[e].sons /\ h.element[e].father = g.element[e].father
  BY <1>2 DEF Remarked, V0, V1, Lo, Hi, isLeaf
<1>4. Forest(g) /\ Lists(g)
  BY DEF WF
<1>5. Typed(h)
  <2>1. Typed(g)
    BY <1>4 DEF Forest
  <2>2. h.vertex = g.vertex /\ h.elements = g.elements /\ h.vertices = g.vertices
    BY DEF Remarked
  <2>3. h.vertex \in [Vs(h) -> VertexType(Vs(h))] /\ h.element \in [Es(h) -> ElementType(Vs(h), Es(h))]
    BY <1>1, <2>1, <2>2 DEF Typed, Remarked
  <2>4. QED BY <1>1, <2>1, <2>2, <2>3 DEF Typed, Remarked
<1>6. Sized(h)
  BY <1>1, <1>3, <1>4 DEF Forest, Sized
<1>7. Nested(h)
  <2>1. \A e, f \in Es(g) : (Apart(h, e, f) <=> Apart(g, e, f)) /\ (Within(h, f, e) <=> Within(g, f, e))
    BY <1>3 DEF Apart, Within
  <2>2. QED BY <1>1, <1>3, <1>4, <2>1 DEF Forest, Nested
<1>8. AllEnds(h)
  BY <1>1, <1>3, <1>4 DEF Forest, AllEnds
<1>9. Covered(h)
  <2> DEFINE D == 0..numElements * meshSize - 1
  <2>1. \A c \in D : \E e \in Es(g) : isLeaf(g, e) /\ Lo(g, e) <= c /\ c < Hi(g, e)
    BY <1>4 DEF Forest, Covered
  <2> HIDE DEF D
  <2>2. \A c \in D : \E e \in Es(h) : isLeaf(h, e) /\ Lo(h, e) <= c /\ c < Hi(h, e)
    BY <1>1, <1>3, <2>1
  <2>3. QED BY <2>2 DEF D, Covered
<1>10. Fathers(h)
  <2>1. ASSUME NEW e \in Es(g)
        PROVE  LET F == h.element[e].father IN
               /\ (F = null) <=> (level(e) = 0)
               /\ F # null => level(F) = level(e) - 1 /\ (h.element[F].sons[1] = e \/ h.element[F].sons[2] = e)
    <3>1. PICK F : F = g.element[e].father
      OBVIOUS
    <3>2. /\ (F = null) <=> (level(e) = 0)
          /\ F # null => level(F) = level(e) - 1 /\ (g.element[F].sons[1] = e \/ g.element[F].sons[2] = e)
      BY <1>4, <3>1 DEF Forest, Fathers
    <3>3. F \in Es(g) \cup {null}
      BY <1>4, <3>1, Basics DEF Forest
    <3>4. F # null => h.element[F].sons = g.element[F].sons
      BY <1>3, <3>3
    <3>5. h.element[e].father = F
      BY <1>3, <3>1
    <3>6. QED BY <3>2, <3>4, <3>5
  <2>2. QED BY <1>1, <2>1 DEF Fathers
<1>11. SonsOf(h)
  <2>1. ASSUME NEW e \in Es(g), ~isLeaf(g, e)
        PROVE  LET s == h.element[e].sons IN
               /\ s[1] \in Es(h) /\ s[2] \in Es(h)
               /\ h.element[s[1]].father = e /\ h.element[s[2]].father = e
               /\ son(h, V0(h, e)) = V0(h, s[1]) /\ son(h, V1(h, e)) = V1(h, s[2])
               /\ s[1] # s[2] => V1(h, s[1]) = V0(h, s[2])
    <3>1. PICK s : s = g.element[e].sons
      OBVIOUS
    <3>2. /\ s[1] \in Es(g) /\ s[2] \in Es(g)
          /\ g.element[s[1]].father = e /\ g.element[s[2]].father = e
          /\ son(g, V0(g, e)) = V0(g, s[1]) /\ son(g, V1(g, e)) = V1(g, s[2])
          /\ s[1] # s[2] => V1(g, s[1]) = V0(g, s[2])
      BY <1>4, <2>1, <3>1 DEF Forest, SonsOf
    <3>3. h.element[e].sons = s
      BY <1>3, <3>1
    <3>4. QED BY <1>1, <1>2, <1>3, <3>2, <3>3
  <2>2. QED BY <1>1, <1>3, <2>1 DEF SonsOf
<1>12. Copies(h)
  <2>1. ASSUME NEW v \in Vs(g), son(g, v) # null
        PROVE  LET w == son(h, v) IN
               /\ level(w) = level(v) + 1 /\ id(w) = id(v) /\ Pos(h, w) = Pos(h, v)
               /\ \E e \in Es(h) : ~isLeaf(h, e) /\ (V0(h, e) = v \/ V1(h, e) = v)
    <3>1. PICK w : w = son(g, v)
      OBVIOUS
    <3>2. /\ level(w) = level(v) + 1 /\ id(w) = id(v) /\ Pos(g, w) = Pos(g, v)
          /\ \E e \in Es(g) : ~isLeaf(g, e) /\ (V0(g, e) = v \/ V1(g, e) = v)
      BY <1>4, <2>1, <3>1 DEF Forest, Copies
    <3>3. \E e \in Es(h) : ~isLeaf(h, e) /\ (V0(h, e) = v \/ V1(h, e) = v)
      BY <1>1, <1>3, <3>2
    <3>4. son(h, v) = w /\ Pos(h, w) = Pos(h, v)
      BY <1>2, <3>1, <3>2
    <3>5. QED BY <3>2, <3>3, <3>4
  <2>2. QED BY <1>1, <1>2, <2>1 DEF Copies
<1>13. Ids(h)
  BY <1>1, <1>2, <1>3, <1>4 DEF Forest, Ids, Remarked
<1>14. Marks(h)
  BY <1>1 DEF Marks, Remarked
<1>15. Flags(h)
  BY <1>1, <1>4 DEF Forest, Flags, Remarked
<1>16. Forest(h)
  BY <1>5, <1>6, <1>7, <1>8, <1>9, <1>10, <1>11, <1>12, <1>13, <1>14, <1>15 DEF Forest
<1>17. Lists(h)
  <2>1. \A i : PosAt(h, i) = PosAt(g, i)
    BY <1>1, <1>2 DEF PosAt
  <2>2. \A i : LoAt(h, i) = LoAt(g, i)
    <3> TAKE i
    <3>1. \A e \in Es(g) : Lo(h, e) = Lo(g, e)
      BY <1>3
    <3>2. QED BY <1>1, <3>1 DEF LoAt
  <2>3. QED BY <1>1, <1>4, <2>1, <2>2 DEF Lists, Remarked
<1>18. Full(g) => Full(h)
  BY <1>1 DEF Full
<1>19. QED BY <1>1, <1>3, <1>16, <1>17, <1>18 DEF WF

(* The fields of an element. *)
LEMMA ElementParts ==
  ASSUME NEW g, WF(g), NEW e \in Es(g)
  PROVE  /\ g.element[e] \in ElementType(Vs(g), Es(g))
         /\ DOMAIN g.element[e] = {"vertex", "father", "sons", "markState", "isNew", "reversed"}
         /\ g.element[e].markState = "REFINE" => level(e) < LevelLimit
<1> DEFINE q == g.element[e]
<1>1. q \in ElementType(Vs(g), Es(g))
  BY DEF WF, Forest, Typed
<1>2. q.markState = "REFINE" => level(e) < LevelLimit
  BY DEF WF, Forest, Marks
<1> HIDE DEF q
<1>3. DOMAIN q = {"vertex", "father", "sons", "markState", "isNew", "reversed"}
  BY <1>1 DEF ElementType
<1>4. QED BY <1>1, <1>2, <1>3 DEF q

(* mark() changes the mark of one element, ... *)
LEMMA MarkKeeps ==
  ASSUME NEW g, WF(g), NEW e \in Es(g), NEW m \in MarkStates, m = "REFINE" => level(e) < LevelLimit,
         NEW h, h = [g EXCEPT !.element[e].markState = m]
  PROVE  Remarked(g, h)
<1>1. Shape(g)
  BY WFRecords
<1>2. PICK G : G = [g.element EXCEPT ![e].markState = m]
  OBVIOUS
<1>3. h = [g EXCEPT !.element = G]
  BY <1>1, <1>2 DEF Shape
<1>4. /\ DOMAIN G = Es(g) /\ \A x \in Es(g) : x # e => G[x] = g.element[x]
      /\ G[e] = [g.element[e] EXCEPT !.markState = m]
  BY <1>2 DEF Es
<1>5. ASSUME NEW x \in Es(g)
      PROVE  /\ G[x] \in ElementType(Vs(g), Es(g))
             /\ G[x].vertex = g.element[x].vertex /\ G[x].father = g.element[x].father
             /\ G[x].sons = g.element[x].sons /\ G[x].reversed = g.element[x].reversed
             /\ G[x].markState = "REFINE" => level(x) < LevelLimit
  <2>1. CASE x # e
    BY <1>4, <2>1, ElementParts
  <2>2. CASE x = e
    <3>1. PICK q : q = g.element[e]
      OBVIOUS
    <3>2. q \in ElementType(Vs(g), Es(g)) /\ G[x] = [q EXCEPT !.markState = m]
      BY <1>4, <2>2, <3>1, ElementParts
    <3>3. /\ G[x] \in ElementType(Vs(g), Es(g))
          /\ G[x].vertex = q.vertex /\ G[x].father = q.father
          /\ G[x].sons = q.sons /\ G[x].reversed = q.reversed /\ G[x].markState = m
      BY <3>2 DEF ElementType
    <3>4. QED BY <2>2, <3>1, <3>3
  <2>3. QED BY <2>1, <2>2
<1>6. G \in [Es(g) -> ElementType(Vs(g), Es(g))]
  BY <1>2, <1>4, <1>5 DEF Es
<1>7. h.element = G /\ Shape(h) /\ h.elements = g.elements /\ h.vertices = g.vertices /\ h.vertex = g.vertex
      /\ h.freeVertexId = g.freeVertexId /\ h.freeElementId = g.freeElementId
      /\ h.reversed = g.reversed /\ h.failed = g.failed
  BY <1>1, <1>3 DEF Shape
<1>8. QED BY <1>5, <1>6, <1>7 DEF Remarked

(* m are the marks and n tells what is new. *)
Marking(g, G, m, n) ==
  /\ DOMAIN G = Es(g) /\ G = [e \in Es(g) |-> G[e]]
  /\ \A e \in Es(g) : /\ m[e] \in MarkStates /\ n[e] \in BOOLEAN /\ (m[e] = "REFINE" => level(e) < LevelLimit)
                       /\ G[e] = [g.element[e] EXCEPT !.isNew = n[e], !.markState = m[e]]

Marked(g, h, m) == Remarked(g, h) /\ \A e \in Es(g) : h.element[e].markState = m[e]

(* To mark some elements is only to mark. *)
LEMMA ElementsRemarked ==
  ASSUME NEW g, WF(g), NEW G, NEW m, NEW n, Marking(g, G, m, n), NEW h, h = [g EXCEPT !.element = G]
  PROVE  Marked(g, h, m)
<1>1. Shape(g)
  BY WFRecords
<1>2. ASSUME NEW x \in Es(g)
      PROVE  /\ G[x] \in ElementType(Vs(g), Es(g))
             /\ G[x].vertex = g.element[x].vertex /\ G[x].father = g.element[x].father
             /\ G[x].sons = g.element[x].sons /\ G[x].reversed = g.element[x].reversed
             /\ G[x].markState = m[x] /\ (G[x].markState = "REFINE" => level(x) < LevelLimit)
  <2>1. PICK q, y, z : q = g.element[x] /\ y = n[x] /\ z = m[x]
    OBVIOUS
  <2>2. q \in ElementType(Vs(g), Es(g)) /\ G[x] = [q EXCEPT !.isNew = y, !.markState = z]
    BY <2>1, ElementParts DEF Marking
  <2>3. y \in BOOLEAN /\ z \in MarkStates
    BY <2>1 DEF Marking
  <2>4. /\ G[x] \in ElementType(Vs(g), Es(g))
        /\ G[x].vertex = q.vertex /\ G[x].father = q.father
        /\ G[x].sons = q.sons /\ G[x].reversed = q.reversed /\ G[x].markState = z
    BY <2>2, <2>3 DEF ElementType
  <2>6. m[x] = "REFINE" => level(x) < LevelLimit
    BY DEF Marking
  <2>7. QED BY <2>1, <2>4, <2>6
<1>3. G \in [Es(g) -> ElementType(Vs(g), Es(g))]
  BY <1>2 DEF Marking
<1>4. h.element = G /\ Shape(h) /\ h.elements = g.elements /\ h.vertices = g.vertices /\ h.vertex = g.vertex
      /\ h.freeVertexId = g.freeVertexId /\ h.freeElementId = g.freeElementId
      /\ h.reversed = g.reversed /\ h.failed = g.failed
  BY <1>1 DEF Shape
<1>5. QED BY <1>2, <1>3, <1>4 DEF Remarked, Marked

(* ... postAdapt() takes all marks away ... *)
LEMMA ClearedKeeps ==
  ASSUME NEW g, WF(g), NEW h, h = Cleared(g)
  PROVE  Remarked(g, h) /\ \A e \in Es(g) : h.element[e].markState = "DO_NOTHING"
<1>1. PICK G : G = [e \in Es(g) |-> [g.element[e] EXCEPT !.isNew = FALSE, !.markState = "DO_NOTHING"]]
  OBVIOUS
<1>2. h = [g EXCEPT !.element = G]
  BY <1>1 DEF Cleared, Es
<1>3. PICK m, n : m = [e \in Es(g) |-> "DO_NOTHING"] /\ n = [e \in Es(g) |-> FALSE]
  OBVIOUS
<1>4. \A e \in Es(g) : /\ m[e] \in MarkStates /\ n[e] \in BOOLEAN /\ (m[e] = "REFINE" => level(e) < LevelLimit)
                       /\ G[e] = [g.element[e] EXCEPT !.isNew = n[e], !.markState = m[e]]
  BY <1>1, <1>3 DEF MarkStates
<1>5. DOMAIN G = Es(g) /\ G = [e \in Es(g) |-> G[e]]
  BY <1>1
<1>6. Marking(g, G, m, n)
  BY <1>4, <1>5 DEF Marking
<1>a. Marked(g, h, m)
  BY <1>2, <1>6, ElementsRemarked
<1>b. Remarked(g, h) /\ \A e \in Es(g) : h.element[e].markState = m[e]
  BY <1>a DEF Marked
<1>7. QED BY <1>3, <1>b

(* ... and globalRefine() marks every leaf. *)
LEMMA MarkedAllKeeps ==
  ASSUME NEW g, WF(g), maxLevel(g) < LevelLimit, NEW h, h = MarkedAll(g)
  PROVE  Remarked(g, h) /\ Unannounced(h)
<1>1. PICK G : G = [e \in Es(g) |-> IF isLeaf(g, e) THEN [g.element[e] EXCEPT !.markState = "REFINE"] ELSE g.element[e]]
  OBVIOUS
<1>2. h = [g EXCEPT !.element = G]
  BY <1>1 DEF MarkedAll, Es
<1>3. PICK m, n : /\ m = [e \in Es(g) |-> IF isLeaf(g, e) THEN "REFINE" ELSE g.element[e].markState]
                  /\ n = [e \in Es(g) |-> g.element[e].isNew]
  OBVIOUS
<1>4. ASSUME NEW e \in Es(g)
      PROVE  /\ m[e] \in MarkStates /\ n[e] \in BOOLEAN /\ (m[e] = "REFINE" => level(e) < LevelLimit)
             /\ G[e] = [g.element[e] EXCEPT !.isNew = n[e], !.markState = m[e]]
  <2>1. PICK q : q = g.element[e]
    OBVIOUS
  <2>2. q \in ElementType(Vs(g), Es(g)) /\ (q.markState = "REFINE" => level(e) < LevelLimit)
    BY <2>1, ElementParts
  <2>3. q.markState \in MarkStates /\ q.isNew \in BOOLEAN
    BY <2>2 DEF ElementType
  <2>4. level(e) < LevelLimit
    <3>1. level(e) \in 0..maxLevel(g) /\ maxLevel(g) \in Nat /\ LevelLimit \in Nat
      BY Basics DEF WF, Forest
    <3>2. QED BY <3>1
  <2>5. n[e] = q.isNew /\ m[e] = IF isLeaf(g, e) THEN "REFINE" ELSE q.markState
    BY <1>3, <2>1
  <2>6. G[e] = IF isLeaf(g, e) THEN [q EXCEPT !.markState = "REFINE"] ELSE q
    BY <1>1, <2>1
  <2>7. G[e] = [q EXCEPT !.isNew = n[e], !.markState = m[e]]
    <3>1. CASE isLeaf(g, e)
      BY <2>2, <2>5, <2>6, <3>1 DEF ElementType
    <3>2. CASE ~isLeaf(g, e)
      BY <2>2, <2>5, <2>6, <3>2 DEF ElementType
    <3>3. QED BY <3>1, <3>2
  <2>8. m[e] \in MarkStates
    BY <2>3, <2>5 DEF MarkStates
  <2>9. QED BY <2>1, <2>3, <2>4, <2>5, <2>7, <2>8
<1>5. DOMAIN G = Es(g) /\ G = [e \in Es(g) |-> G[e]]
  BY <1>1
<1>6. Marking(g, G, m, n)
  BY <1>4, <1>5 DEF Marking
<1>a. Marked(g, h, m)
  BY <1>2, <1>6, ElementsRemarked
<1>b. Remarked(g, h) /\ \A e \in Es(g) : h.element[e].markState = m[e]
  BY <1>a DEF Marked
<1>7. Es(h) = Es(g) /\ \A e \in Es(g) : isLeaf(h, e) <=> isLeaf(g, e)
  BY <1>b, RemarkedKeeps
<1>8. QED BY <1>3, <1>7, <1>b DEF Unannounced

(* Marks do not matter to safety. *)
LEMMA RemarkedSafe ==
  ASSUME NEW g, Safe(g), NEW h, Remarked(g, h)
  PROVE  Safe(h) /\ Es(h) = Es(g) /\ maxLevel(h) = maxLevel(g)
<1>1. WF(g) /\ Full(g) /\ g.failed = FALSE
  BY DEF Safe
<1>2. h.failed = g.failed
  BY DEF Remarked
<1>3. QED BY <1>1, <1>2, RemarkedKeeps DEF Safe

(* A step of globalRefine(). *)
LEMMA RefinedOnceKeeps ==
  ASSUME NEW g, Safe(g), maxLevel(g) < LevelLimit, NEW h, h = RefinedOnce(g)
  PROVE  h.failed = TRUE \/ (Safe(h) /\ maxLevel(h) <= maxLevel(g) + 1 /\ Es(g) \subseteq Es(h) /\ h.reversed = g.reversed)
<1>1. PICK m, a : m = MarkedAll(g) /\ a = Adapted(m)
  OBVIOUS
<1>2. h = Cleared(a)
  BY <1>1 DEF RefinedOnce, Safe
<1>3. Safe(m) /\ Es(m) = Es(g) /\ maxLevel(m) = maxLevel(g) /\ m.reversed = g.reversed /\ Unannounced(m)
  <2>1. Remarked(g, m) /\ Unannounced(m)
    BY <1>1, MarkedAllKeeps DEF Safe
  <2>2. m.reversed = g.reversed
    BY <2>1 DEF Remarked
  <2>3. QED BY <2>1, <2>2, RemarkedSafe
<1>4. (Shape(a) /\ a.failed = TRUE) \/ (Safe(a) /\ maxLevel(a) <= maxLevel(m) + 1 /\ Es(m) \subseteq Es(a) /\ a.reversed = m.reversed)
  BY <1>1, <1>3, AdaptedKeeps
<1>5. CASE Shape(a) /\ a.failed = TRUE
  BY <1>2, <1>5 DEF Cleared, Shape
<1>6. CASE Safe(a) /\ maxLevel(a) <= maxLevel(m) + 1 /\ Es(m) \subseteq Es(a) /\ a.reversed = m.reversed
  <2>1. Remarked(a, h)
    BY <1>2, <1>6, ClearedKeeps DEF Safe
  <2>2. h.reversed = a.reversed
    BY <2>1 DEF Remarked
  <2>3. QED BY <1>3, <1>6, <2>1, <2>2, RemarkedSafe
<1>7. QED BY <1>4, <1>5, <1>6

(* globalRefine() fails or keeps the grid consistent and all its elements. *)
LEMMA RefinedTimesKeeps ==
  ASSUME NEW g, Safe(g), NEW n \in Nat, maxLevel(g) + n <= LevelLimit, NEW h, h = RefinedTimes(g, n)
  PROVE  h.failed = TRUE \/ (Safe(h) /\ Es(g) \subseteq Es(h) /\ h.reversed = g.reversed)
<1>0. maxLevel(g) \in Nat /\ LevelLimit \in Nat
  BY Basics DEF Safe, WF, Forest
<1>1. PICK f : h = f[n] /\ f[0] = g /\ \A k \in 1..n : f[k] = RefinedOnce(f[k-1])
  BY RefinedTimesIs
<1> DEFINE Fine(k) == f[k].failed = TRUE \/ (Safe(f[k]) /\ maxLevel(f[k]) <= maxLevel(g) + k /\ Es(g) \subseteq Es(f[k])
                                                 /\ f[k].reversed = g.reversed)
           T == {k \in Nat : k <= n => Fine(k)}
<1>2. 0 \in T
  BY <1>0, <1>1
<1>3. ASSUME NEW k \in Nat, k \in T PROVE k + 1 \in T
  <2> SUFFICES ASSUME k + 1 <= n
               PROVE  Fine(k + 1)
    <3> HIDE DEF Fine
    <3>1. QED OBVIOUS
  <2>1. f[k].failed = TRUE \/ (Safe(f[k]) /\ maxLevel(f[k]) <= maxLevel(g) + k /\ Es(g) \subseteq Es(f[k])
                              /\ f[k].reversed = g.reversed)
    <3>1. k <= n
      OBVIOUS
    <3>2. QED BY <1>3, <3>1
  <2>2. f[k+1] = RefinedOnce(f[k])
    <3>1. k + 1 \in 1..n /\ (k + 1) - 1 = k
      OBVIOUS
    <3>2. f[k+1] = RefinedOnce(f[(k+1)-1])
      BY <1>1, <3>1
    <3>3. QED BY <3>1, <3>2
  <2>3. CASE f[k].failed = TRUE
    BY <2>2, <2>3 DEF RefinedOnce
  <2>4. CASE Safe(f[k]) /\ maxLevel(f[k]) <= maxLevel(g) + k /\ Es(g) \subseteq Es(f[k]) /\ f[k].reversed = g.reversed
    <3>1. maxLevel(f[k]) < LevelLimit /\ maxLevel(f[k]) \in Nat
      <4>1. maxLevel(f[k]) \in Nat
        BY <2>4, Basics DEF Safe, WF, Forest
      <4>2. QED BY <4>1, <2>4, <1>0
    <3>2. f[k+1].failed = TRUE \/ (Safe(f[k+1]) /\ maxLevel(f[k+1]) <= maxLevel(f[k]) + 1 /\ Es(f[k]) \subseteq Es(f[k+1])
                                     /\ f[k+1].reversed = f[k].reversed)
      BY <2>2, <2>4, <3>1, RefinedOnceKeeps
    <3>3. Safe(f[k+1]) => maxLevel(f[k+1]) \in Nat
      BY Basics DEF Safe, WF, Forest
    <3>4. QED BY <1>0, <2>4, <3>1, <3>2, <3>3
  <2>5. QED BY <2>1, <2>3, <2>4
<1> HIDE DEF T
<1>4. n \in T
  BY <1>2, <1>3, InductionOn
<1>5. QED BY <1>1, <1>4 DEF T

-----------------------------------------------------------------------------
(* The macro grid *)

(* Multiples of m are ordered as the factors are. *)
LEMMA TimesOrder ==
  ASSUME NEW m \in Nat, m >= 1, NEW a \in Int, NEW b \in Int
  PROVE  /\ a * m \in Int /\ b * m \in Int
         /\ (a < b) <=> (a * m < b * m)
         /\ (a = b) <=> (a * m = b * m)
         /\ a < b => b * m - a * m >= m
<1>1. m * a \in Int /\ m * b \in Int /\ a * m = m * a /\ b * m = m * b
  OBVIOUS
<1>2. a < b => m * a + m <= m * b
  <2> SUFFICES ASSUME a < b PROVE m * a + m <= m * b
    OBVIOUS
  <2>1. m * (a + 1) <= m * b
    BY MoreTimes
  <2>2. m * (a + 1) = m * a + m
    OBVIOUS
  <2>3. QED BY <2>1, <2>2
<1>3. b < a => m * b + m <= m * a
  <2> SUFFICES ASSUME b < a PROVE m * b + m <= m * a
    OBVIOUS
  <2>1. m * (b + 1) <= m * a
    BY MoreTimes
  <2>2. m * (b + 1) = m * b + m
    OBVIOUS
  <2>3. QED BY <2>1, <2>2
<1>4. a < b \/ a = b \/ b < a
  OBVIOUS
<1> DEFINE A == m * a
           B == m * b
<1>5. A \in Int /\ B \in Int /\ a * m = A /\ b * m = B /\ (a < b => A + m <= B) /\ (b < a => B + m <= A)
      /\ (a = b => A = B)
  BY <1>1, <1>2, <1>3
<1> HIDE DEF A, B
<1>6. (a < b) <=> (A < B)
  BY <1>4, <1>5
<1>7. (a = b) <=> (A = B)
  BY <1>4, <1>5
<1>8. QED BY <1>5, <1>6, <1>7

(* The mesh size of the macro grid is positive. *)
LEMMA MeshSize == meshSize \in Nat /\ meshSize >= 1 /\ meshSize = power2[LevelLimit]
BY PowerPositive, LimitsAssumption DEF meshSize

Multiples(N) == {k * meshSize : k \in 0..N}

(* The multiples of the mesh size are as many as their factors. *)
LEMMA MultiplesCount ==
  ASSUME NEW N \in Nat
  PROVE  IsFiniteSet(Multiples(N)) /\ Cardinality(Multiples(N)) = N + 1 /\ Multiples(N) \subseteq Nat
<1> DEFINE f == [k \in 0..N |-> k * meshSize]
<1>0. N \in Nat
  OBVIOUS
<1>1. \A j, k \in 0..N : /\ f[j] = j * meshSize /\ f[j] \in Nat
                         /\ f[j] = f[k] => j = k
  <2> TAKE j, k \in 0..N
  <2>1. j \in Int /\ k \in Int /\ 0 * meshSize = 0 /\ (j = 0 \/ 0 < j)
    BY <1>0, MeshSize
  <2>2. j * meshSize = k * meshSize => j = k
    BY <2>1, MeshSize, TimesOrder
  <2>3. j * meshSize \in Int /\ (0 < j => 0 * meshSize < j * meshSize)
    BY <2>1, MeshSize, TimesOrder
  <2>4. j * meshSize \in Nat
    BY <2>1, <2>3
  <2>5. f[j] = j * meshSize /\ f[k] = k * meshSize
    OBVIOUS
  <2> HIDE DEF f
  <2>6. QED BY <2>2, <2>4, <2>5
<1>a. \A x : x \in Multiples(N) <=> \E k \in 0..N : f[k] = x
  BY DEF Multiples
<1>b. f = [k \in 0..N |-> f[k]]
  OBVIOUS
<1> HIDE DEF f
<1>2. f \in Bijection(0..N, Multiples(N))
  <2>1. \A k \in 0..N : f[k] \in Multiples(N)
    BY <1>a
  <2>2. f \in [0..N -> Multiples(N)]
    BY <1>b, <2>1
  <2>3. \A j, k \in 0..N : f[j] = f[k] => j = k
    BY <1>1
  <2>4. \A p \in Multiples(N) : \E k \in 0..N : f[k] = p
    BY <1>a
  <2>5. QED BY <2>2, <2>3, <2>4 DEF Bijection, Injection, IsInjective, Surjection
<1>3. IsFiniteSet(0..N) /\ Cardinality(0..N) = N + 1
  BY <1>0, FS_Interval
<1>4. ExistsBijection(0..N, Multiples(N))
  BY <1>2 DEF ExistsBijection
<1>5. Multiples(N) \subseteq Nat
  BY <1>a, <1>1
<1>6. QED BY <1>3, <1>4, <1>5, FS_Bijection

(* There is one way to sort them. *)
LEMMA SortedMultiples ==
  ASSUME NEW N \in Nat
  PROVE  /\ sorted(Multiples(N)) \in [1..N + 1 -> Multiples(N)]
         /\ \A k \in 1..N + 1 : sorted(Multiples(N))[k] = (k - 1) * meshSize
<1> DEFINE n == N + 1
           s == sorted(Multiples(N))
           t == [k \in 1..n |-> (k - 1) * meshSize]
<1>0. n \in Nat /\ n = Cardinality(Multiples(N)) /\ N = n - 1 /\ n >= 1
  BY MultiplesCount
<1>1. \A k \in 1..n : (k - 1) \in 0..N /\ t[k] = (k - 1) * meshSize
  BY <1>0
<1>2. t \in [1..n -> Multiples(N)]
  BY <1>1 DEF Multiples
<1>3. \A j, k \in 1..n : j < k => t[j] < t[k]
  <2> TAKE j, k \in 1..n
  <2>1. j - 1 \in Int /\ k - 1 \in Int /\ (j < k => j - 1 < k - 1)
    BY <1>0
  <2>2. j - 1 < k - 1 => (j - 1) * meshSize < (k - 1) * meshSize
    BY <2>1, MeshSize, TimesOrder
  <2>3. QED BY <1>1, <2>1, <2>2
<1> HIDE DEF t
<1>4. t \in [1..Cardinality(Multiples(N)) -> Multiples(N)] /\ \A j, k \in DOMAIN t : j < k => t[j] < t[k]
  BY <1>0, <1>2, <1>3
<1>5. s \in [1..Cardinality(Multiples(N)) -> Multiples(N)] /\ \A j, k \in DOMAIN s : j < k => s[j] < s[k]
  BY <1>4 DEF sorted
<1>6. s \in [1..n -> Multiples(N)] /\ \A j, k \in 1..n : j < k => s[j] < s[k]
  BY <1>0, <1>5
<1> HIDE DEF s
<1>7. PICK a : a = [k \in 1..n |-> CHOOSE q \in 0..N : s[k] = q * meshSize]
  OBVIOUS
<1>8. \A k \in 1..n : a[k] \in 0..N /\ s[k] = a[k] * meshSize
  BY <1>6, <1>7 DEF Multiples
<1>9. \A j, k \in 1..n : j < k => a[j] < a[k]
  <2> TAKE j, k \in 1..n
  <2>1. a[j] \in Int /\ a[k] \in Int /\ s[j] = a[j] * meshSize /\ s[k] = a[k] * meshSize
    BY <1>8
  <2>2. a[j] < a[k] <=> a[j] * meshSize < a[k] * meshSize
    BY <2>1, MeshSize, TimesOrder
  <2>3. QED BY <1>6, <2>1, <2>2
<1>10. \A k \in 1..n : k + 1 \in 1..n => a[k] + 1 <= a[k+1]
  <2> TAKE k \in 1..n
  <2>1. k + 1 \in 1..n => a[k] < a[k+1] /\ a[k] \in Int /\ a[k+1] \in Int
    BY <1>8, <1>9
  <2>2. QED BY <2>1
<1> HIDE DEF n
<1>11. \A k \in 1..n : a[k] >= k - 1
  <2> DEFINE T == {k \in Nat : k + 1 <= n => a[k+1] >= k}
  <2>1. 0 \in T
    <3>1. 0 + 1 \in 1..n
      BY <1>0
    <3>2. a[0+1] \in 0..N
      BY <1>8, <3>1
    <3>3. QED BY <3>2
  <2>2. ASSUME NEW k \in Nat, k \in T PROVE k + 1 \in T
    <3> SUFFICES ASSUME (k + 1) + 1 <= n PROVE a[(k+1)+1] >= k + 1
      OBVIOUS
    <3>1. k + 1 \in 1..n /\ (k + 1) + 1 \in 1..n
      BY <1>0
    <3>2. a[k+1] >= k
      BY <1>0, <2>2, <3>1
    <3>3. a[k+1] + 1 <= a[(k+1)+1] /\ a[k+1] \in Int /\ a[(k+1)+1] \in Int
      BY <1>8, <1>10, <3>1
    <3>4. QED BY <3>2, <3>3
  <2> HIDE DEF T
  <2>3. Nat \subseteq T
    BY <2>1, <2>2, InductionOn
  <2>4. ASSUME NEW k \in 1..n PROVE a[k] >= k - 1
    <3>1. PICK j \in Nat : k = j + 1 /\ j = k - 1
      BY <1>0
    <3>2. QED BY <2>3, <3>1, <1>0 DEF T
  <2>5. QED BY <2>4
<1>12. \A k \in 1..n : a[k] <= k - 1
  <2> DEFINE T == {k \in Nat : k < n => a[n-k] <= (n - k) - 1}
  <2>1. 0 \in T
    <3>1. n \in 1..n /\ n - 0 = n
      BY <1>0
    <3>2. a[n] \in 0..N
      BY <1>8, <3>1
    <3>3. QED BY <3>1, <3>2, <1>0
  <2>2. ASSUME NEW k \in Nat, k \in T PROVE k + 1 \in T
    <3> SUFFICES ASSUME k + 1 < n PROVE a[n-(k+1)] <= (n - (k + 1)) - 1
      OBVIOUS
    <3>1. n - k \in 1..n /\ n - (k + 1) \in 1..n /\ (n - (k + 1)) + 1 = n - k
      BY <1>0
    <3>2. a[n-k] <= (n - k) - 1
      BY <1>0, <2>2, <3>1
    <3>3. a[n-(k+1)] + 1 <= a[n-k] /\ a[n-k] \in Int /\ a[n-(k+1)] \in Int
      BY <1>8, <1>10, <3>1
    <3>4. QED BY <1>0, <3>2, <3>3
  <2> HIDE DEF T
  <2>3. Nat \subseteq T
    BY <2>1, <2>2, InductionOn
  <2>4. ASSUME NEW k \in 1..n PROVE a[k] <= k - 1
    <3>1. PICK j \in Nat : k = n - j /\ j < n
      <4>1. n - k \in Nat /\ k = n - (n - k) /\ n - k < n
        BY <1>0
      <4>2. QED BY <4>1
    <3>2. QED BY <2>3, <3>1, <1>0 DEF T
  <2>5. QED BY <2>4
<1>13. \A k \in 1..n : a[k] = k - 1
  <2> TAKE k \in 1..n
  <2>1. a[k] \in Int /\ a[k] >= k - 1 /\ a[k] <= k - 1 /\ k \in Int
    BY <1>0, <1>8, <1>11, <1>12
  <2>2. QED BY <2>1
<1>14. \A k \in 1..n : s[k] = (k - 1) * meshSize
  BY <1>8, <1>13
<1>15. QED BY <1>6, <1>14 DEF n, s

(* The vertices of the macro grid are one more than its elements. *)
LEMMA PositionsCount ==
  /\ Positions = Multiples(numElements)
  /\ IsFiniteSet(Positions) /\ Cardinality(Positions) = numElements + 1 /\ Positions \subseteq Nat
<1>1. Positions = Multiples(numElements) /\ numElements \in Nat
  BY numElementsAssumption DEF Positions, Multiples
<1>2. QED BY <1>1, MultiplesCount

(* There is one way to sort the positions. *)
LEMMA SortedPositions ==
  /\ sorted(Positions) \in [1..numElements + 1 -> Positions]
  /\ \A k \in 1..numElements + 1 : sorted(Positions)[k] = (k - 1) * meshSize
<1>1. Positions = Multiples(numElements) /\ numElements \in Nat
  BY PositionsCount, numElementsAssumption
<1>2. QED BY <1>1, SortedMultiples

(* The factory knows the positions, whatever the order of insertion. *)
LEMMA InsertedPositions ==
  ASSUME NEW positions \in SetToSeqs(Positions)
  PROVE  DOMAIN vertexPositions(positions) = Positions
<1> DEFINE D == 1..Cardinality(Positions)
<1>1. positions \in [D -> Positions] /\ \A i, j \in D : i # j => positions[i] # positions[j]
  BY DEF SetToSeqs
<1>2. Cardinality(Positions) \in Nat /\ IsFiniteSet(Positions) /\ Cardinality(D) = Cardinality(Positions)
  <2>1. Cardinality(Positions) \in Nat /\ IsFiniteSet(Positions)
    BY PositionsCount, FS_CardinalityType
  <2>2. QED BY <2>1, FS_Interval
<1> HIDE DEF D
<1>3. positions \in Injection(D, Positions)
  BY <1>1 DEF Injection, IsInjective
<1>4. positions \in Surjection(D, Positions)
  BY <1>2, <1>3, FS_Injection
<1>5. ToSet(positions) = Positions
  BY <1>1, <1>4 DEF ToSet, Surjection
<1>6. QED BY <1>5 DEF vertexPositions

MacroVertices(V) == [v \in V |-> [pos |-> sorted(Positions)[v[2] + 1], son |-> null]]

MacroElements(E, reversed) ==
  [e \in E |-> [vertex |-> <<e, <<0, e[2] + 1>>>>, father |-> null, sons |-> <<null, null>>,
                markState |-> "DO_NOTHING", isNew |-> FALSE, reversed |-> reversed]]

(* The grid that the factory makes from these positions. *)
Macro(g) ==
  /\ Shape(g) /\ DOMAIN g.elements = {0} /\ DOMAIN g.vertices = {0}
  /\ g.vertices[0] = [k \in 1..numElements + 1 |-> <<0, k - 1>>]
  /\ g.elements[0] = [k \in 1..numElements |-> <<0, k - 1>>]
  /\ Vs(g) = {0} \X (0..numElements) /\ Es(g) = {0} \X (0..numElements - 1)
  /\ g.vertex = MacroVertices(Vs(g)) /\ g.element = MacroElements(Es(g), g.reversed)
  /\ g.freeVertexId = numElements + 1 /\ g.freeElementId = numElements
  /\ g.reversed \in BOOLEAN /\ g.failed = FALSE

(* createGrid() makes the macro grid, whatever the order of insertion. *)
LEMMA CreatedMacro ==
  ASSUME NEW vp, DOMAIN vp = Positions, NEW segments, NEW g, g = createGrid(vp, segments)
  PROVE  Macro(g)
<1> DEFINE rev == reversedBoundarySegmentNumbering(vp, segments)
<1>1. numElements \in Nat /\ Cardinality(DOMAIN vp) = numElements + 1
  BY PositionsCount, numElementsAssumption
<1>2. (numElements + 1) - 1 = numElements /\ (numElements + 1) - 2 = numElements - 1
  BY <1>1
<1>3. rev \in BOOLEAN
  BY DEF reversedBoundarySegmentNumbering
<1> HIDE DEF rev
<1>4. g = [elements |-> [i \in {0} |-> [k \in 1..numElements |-> <<0, k - 1>>]],
           vertices |-> [i \in {0} |-> [k \in 1..numElements + 1 |-> <<0, k - 1>>]],
           element  |-> [e \in {0} \X (0..numElements - 1) |->
                           [vertex |-> <<e, <<0, e[2] + 1>>>>, father |-> null, sons |-> <<null, null>>,
                            markState |-> "DO_NOTHING", isNew |-> FALSE, reversed |-> rev]],
           vertex   |-> [v \in {0} \X (0..numElements) |-> [pos |-> sorted(Positions)[v[2] + 1], son |-> null]],
           freeVertexId |-> numElements + 1, freeElementId |-> numElements,
           reversed |-> rev, failed |-> FALSE]
  BY <1>1, <1>2 DEF createGrid, rev
<1>5. Vs(g) = {0} \X (0..numElements) /\ Es(g) = {0} \X (0..numElements - 1)
  BY <1>4 DEF Vs, Es
<1>6. Shape(g)
  BY <1>4 DEF Shape
<1>7. /\ DOMAIN g.elements = {0} /\ DOMAIN g.vertices = {0}
      /\ g.vertices[0] = [k \in 1..numElements + 1 |-> <<0, k - 1>>]
      /\ g.elements[0] = [k \in 1..numElements |-> <<0, k - 1>>]
  BY <1>4
<1>8. g.freeVertexId = numElements + 1 /\ g.freeElementId = numElements /\ g.reversed = rev /\ g.failed = FALSE
  BY <1>4
<1>9. g.vertex = MacroVertices(Vs(g)) /\ g.element = MacroElements(Es(g), g.reversed)
  <2>1. g.vertex = MacroVertices({0} \X (0..numElements)) /\ g.element = MacroElements({0} \X (0..numElements - 1), rev)
    BY <1>4 DEF MacroVertices, MacroElements
  <2>2. QED BY <2>1, <1>5, <1>8
<1>10. QED BY <1>3, <1>5, <1>6, <1>7, <1>8, <1>9 DEF Macro

(* The entities of the macro grid. *)
LEMMA MacroFacts ==
  ASSUME NEW g, Macro(g)
  PROVE  /\ maxLevel(g) = 0
         /\ \A v \in Vs(g) : /\ v = <<0, id(v)>> /\ level(v) = 0 /\ id(v) \in 0..numElements
                             /\ Pos(g, v) = id(v) * meshSize /\ Pos(g, v) \in Nat /\ son(g, v) = null
         /\ \A e \in Es(g) : /\ e = <<0, id(e)>> /\ level(e) = 0 /\ id(e) \in 0..numElements - 1
                             /\ V0(g, e) = e /\ V1(g, e) = <<0, id(e) + 1>> /\ e \in Vs(g) /\ V1(g, e) \in Vs(g)
                             /\ Lo(g, e) = id(e) * meshSize /\ Hi(g, e) = (id(e) + 1) * meshSize
                             /\ Lo(g, e) \in Nat /\ Hi(g, e) \in Nat
                             /\ g.element[e].father = null /\ isLeaf(g, e)
         /\ \A k \in 0..numElements : <<0, k>> \in Vs(g) /\ id(<<0, k>>) = k
         /\ \A k \in 0..numElements - 1 : <<0, k>> \in Es(g)
<1>0. numElements \in Nat
  BY numElementsAssumption
<1>1. maxLevel(g) = 0
  <2>1. Cardinality(DOMAIN g.elements) = 1
    BY FS_Singleton DEF Macro
  <2>2. QED BY <2>1 DEF maxLevel
<1>2. \A v \in {0} \X (0..numElements) : v = <<0, id(v)>> /\ level(v) = 0 /\ id(v) \in 0..numElements /\ v[2] = id(v)
  BY DEF id, level
<1>3. \A v \in Vs(g) : /\ v = <<0, id(v)>> /\ level(v) = 0 /\ id(v) \in 0..numElements
                       /\ Pos(g, v) = id(v) * meshSize /\ Pos(g, v) \in Nat /\ son(g, v) = null
  <2> TAKE v \in Vs(g)
  <2>1. v = <<0, id(v)>> /\ level(v) = 0 /\ id(v) \in 0..numElements /\ v[2] = id(v)
    BY <1>2 DEF Macro
  <2>2. Pos(g, v) = sorted(Positions)[id(v) + 1] /\ son(g, v) = null
    BY <2>1 DEF Macro, MacroVertices, Pos, son
  <2>3. id(v) + 1 \in 1..numElements + 1 /\ (id(v) + 1) - 1 = id(v)
    BY <1>0, <2>1
  <2>4. sorted(Positions)[id(v) + 1] = ((id(v) + 1) - 1) * meshSize /\ sorted(Positions)[id(v) + 1] \in Positions
    BY <2>3, SortedPositions
  <2>5. Pos(g, v) \in Nat
    BY <2>2, <2>4, PositionsCount
  <2>6. Pos(g, v) = id(v) * meshSize
    <3> DEFINE k == id(v)
    <3>1. (k + 1) - 1 = k /\ Pos(g, v) = ((k + 1) - 1) * meshSize
      BY <2>2, <2>3, <2>4
    <3> HIDE DEF k
    <3>2. Pos(g, v) = k * meshSize
      BY <3>1
    <3>3. QED BY <3>2 DEF k
  <2>7. QED BY <2>1, <2>2, <2>5, <2>6
<1>4. \A k \in 0..numElements : <<0, k>> \in Vs(g) /\ id(<<0, k>>) = k
  BY DEF Macro, id
<1>5. \A k \in 0..numElements - 1 : <<0, k>> \in Es(g)
  BY DEF Macro
<1>6. ASSUME NEW e \in Es(g)
      PROVE  /\ e = <<0, id(e)>> /\ level(e) = 0 /\ id(e) \in 0..numElements - 1
             /\ V0(g, e) = e /\ V1(g, e) = <<0, id(e) + 1>> /\ e \in Vs(g) /\ V1(g, e) \in Vs(g)
             /\ Lo(g, e) = id(e) * meshSize /\ Hi(g, e) = (id(e) + 1) * meshSize
             /\ Lo(g, e) \in Nat /\ Hi(g, e) \in Nat
             /\ g.element[e].father = null /\ isLeaf(g, e)
  <2>1. e \in {0} \X (0..numElements - 1)
    BY DEF Macro
  <2>2. e = <<0, id(e)>> /\ level(e) = 0 /\ id(e) \in 0..numElements - 1 /\ e[2] = id(e)
    BY <2>1 DEF id, level
  <2>3. id(e) \in 0..numElements /\ id(e) + 1 \in 0..numElements
    BY <1>0, <2>2
  <2>4. e \in Vs(g)
    BY <1>4, <2>2, <2>3
  <2>5. V0(g, e) = e /\ V1(g, e) = <<0, id(e) + 1>> /\ g.element[e].father = null /\ isLeaf(g, e)
    BY <2>2 DEF Macro, MacroElements, V0, V1, isLeaf
  <2>6. <<0, id(e) + 1>> \in Vs(g) /\ id(<<0, id(e) + 1>>) = id(e) + 1
    BY <1>4, <2>3
  <2>7. Lo(g, e) = id(e) * meshSize /\ Lo(g, e) \in Nat
    BY <1>3, <2>4, <2>5 DEF Lo
  <2>8. Hi(g, e) = (id(e) + 1) * meshSize /\ Hi(g, e) \in Nat
    BY <1>3, <2>5, <2>6 DEF Hi
  <2>9. QED BY <2>2, <2>4, <2>5, <2>6, <2>7, <2>8
<1>7. QED BY <1>1, <1>3, <1>4, <1>5, <1>6

(* The types of the macro grid. *)
LEMMA MacroTyped ==
  ASSUME NEW g, Macro(g)
  PROVE  Typed(g)
<1>0. numElements \in Nat /\ LevelLimit \in Nat
  BY numElementsAssumption, LimitsAssumption
<1>1. maxLevel(g) = 0 /\ 0..0 = {0}
  BY MacroFacts
<1>2. DOMAIN g.elements = 0..maxLevel(g) /\ DOMAIN g.vertices = 0..maxLevel(g) /\ maxLevel(g) \in 0..LevelLimit
  BY <1>0, <1>1 DEF Macro
<1>3. Vs(g) \subseteq (0..maxLevel(g)) \X Int /\ Es(g) \subseteq (0..maxLevel(g)) \X Int
  BY <1>0, <1>1 DEF Macro
<1>4. g.vertex \in [Vs(g) -> VertexType(Vs(g))]
  <2>1. \A v \in Vs(g) : [pos |-> sorted(Positions)[v[2] + 1], son |-> null] \in VertexType(Vs(g))
    <3> TAKE v \in Vs(g)
    <3>1. Pos(g, v) = sorted(Positions)[v[2] + 1] /\ Pos(g, v) \in Nat
      <4>1. Pos(g, v) = sorted(Positions)[v[2] + 1]
        BY DEF Macro, MacroVertices, Pos
      <4>2. Pos(g, v) \in Nat
        BY MacroFacts
      <4>3. QED BY <4>1, <4>2
    <3>2. QED BY <3>1 DEF VertexType
  <2>2. QED BY <2>1 DEF Macro, MacroVertices
<1>5. g.element \in [Es(g) -> ElementType(Vs(g), Es(g))]
  <2>1. ASSUME NEW e \in Es(g)
        PROVE  [vertex |-> <<e, <<0, e[2] + 1>>>>, father |-> null, sons |-> <<null, null>>,
                markState |-> "DO_NOTHING", isNew |-> FALSE, reversed |-> g.reversed] \in ElementType(Vs(g), Es(g))
    <3>1. V0(g, e) = e /\ V1(g, e) = <<0, e[2] + 1>> /\ e \in Vs(g) /\ V1(g, e) \in Vs(g)
      BY MacroFacts DEF id
    <3>2. <<e, <<0, e[2] + 1>>>> \in Vs(g) \X Vs(g) /\ g.reversed \in BOOLEAN /\ "DO_NOTHING" \in MarkStates
      BY <3>1 DEF Macro, MarkStates
    <3>3. QED BY <3>2 DEF ElementType
  <2>2. QED BY <2>1 DEF Macro, MacroElements
<1>6. Shape(g) /\ g.freeVertexId \in Int /\ g.freeElementId \in Int /\ g.reversed \in BOOLEAN
  BY <1>0 DEF Macro
<1>7. QED BY <1>2, <1>3, <1>4, <1>5, <1>6 DEF Typed

(* The macro grid is a forest of leaves. *)
LEMMA MacroForest ==
  ASSUME NEW g, Macro(g)
  PROVE  Forest(g)
<1>0. numElements \in Nat /\ numElements >= 1 /\ LevelLimit \in Nat /\ meshSize \in Nat /\ meshSize >= 1
  BY numElementsAssumption, LimitsAssumption, MeshSize
<1>1. Typed(g)
  BY MacroTyped
<1>2. ASSUME NEW e \in Es(g)
      PROVE  Hi(g, e) - Lo(g, e) >= meshSize
  <2>1. PICK k \in 0..numElements - 1 : k = id(e) /\ Lo(g, e) = k * meshSize /\ Hi(g, e) = (k + 1) * meshSize
    BY MacroFacts
  <2>2. k \in Int /\ k + 1 \in Int /\ k < k + 1
    BY <1>0
  <2>3. QED BY <1>0, <2>1, <2>2, TimesOrder
<1>3. ASSUME NEW e \in Es(g), NEW f \in Es(g), id(e) < id(f)
      PROVE  Hi(g, e) <= Lo(g, f) /\ Lo(g, e) < Lo(g, f)
  <2>1. PICK j, k \in 0..numElements - 1 : /\ j = id(e) /\ k = id(f) /\ Hi(g, e) = (j + 1) * meshSize
                                           /\ Lo(g, e) = j * meshSize /\ Lo(g, f) = k * meshSize
    BY MacroFacts
  <2>2. j \in Int /\ j + 1 \in Int /\ k \in Int /\ j < k /\ (j + 1 < k \/ j + 1 = k)
    BY <1>0, <1>3, <2>1
  <2>3. j * meshSize < k * meshSize
    BY <1>0, <2>2, TimesOrder
  <2>4. (j + 1) * meshSize < k * meshSize \/ (j + 1) * meshSize = k * meshSize
    BY <1>0, <2>2, TimesOrder
  <2>5. (j + 1) * meshSize \in Int /\ k * meshSize \in Int
    BY <1>0, <2>2, TimesOrder
  <2> DEFINE A == (j + 1) * meshSize
             B == k * meshSize
  <2>6. A \in Int /\ B \in Int /\ (A < B \/ A = B) /\ Hi(g, e) = A /\ Lo(g, f) = B
    BY <2>1, <2>4, <2>5
  <2> HIDE DEF A, B
  <2>7. Hi(g, e) <= Lo(g, f)
    BY <2>6
  <2>8. QED BY <2>1, <2>3, <2>7
<1>4. \A e, f \in Es(g) : e # f => id(e) < id(f) \/ id(f) < id(e)
  <2> TAKE e, f \in Es(g)
  <2>1. e = <<0, id(e)>> /\ f = <<0, id(f)>> /\ id(e) \in 0..numElements - 1 /\ id(f) \in 0..numElements - 1
    BY MacroFacts
  <2>2. QED BY <1>0, <2>1
<1>5. Sized(g)
  <2>1. \A e \in Es(g) : V0(g, e) \in Vs(g) /\ V1(g, e) \in Vs(g) /\ level(e) = 0
    BY MacroFacts
  <2>2. \A v \in Vs(g) : level(v) = 0
    BY MacroFacts
  <2>3. LevelLimit - 0 = LevelLimit
    BY <1>0
  <2>4. \A e \in Es(g) : Root(Lo(g, e), Hi(g, e), id(e))
    BY MacroFacts DEF Root
  <2>5. QED BY <1>2, <2>1, <2>2, <2>3, <2>4, MeshSize DEF Sized
<1>6. Nested(g)
  BY <1>3, <1>4 DEF Nested, Apart
<1>7. AllEnds(g)
  <2>1. ASSUME NEW v \in Vs(g)
        PROVE  \E e \in Es(g) : level(e) = level(v) /\ (V0(g, e) = v \/ V1(g, e) = v)
    <3>1. PICK k \in 0..numElements : k = id(v) /\ v = <<0, k>> /\ level(v) = 0
      BY MacroFacts
    <3>2. CASE k < numElements
      <4>1. k \in 0..numElements - 1
        BY <1>0, <3>2
      <4>2. v \in Es(g) /\ V0(g, v) = v
        BY <3>1, <4>1, MacroFacts
      <4>3. QED BY <4>2
    <3>3. CASE k = numElements
      <4>1. PICK j \in 0..numElements - 1 : j + 1 = k
        <5>1. numElements - 1 \in 0..numElements - 1 /\ (numElements - 1) + 1 = numElements
          BY <1>0
        <5>2. QED BY <3>3, <5>1
      <4>2. PICK e \in Es(g) : e = <<0, j>>
        BY MacroFacts
      <4>3. id(e) = j
        BY <4>2 DEF id
      <4>4. V1(g, e) = <<0, j + 1>> /\ level(e) = 0
        BY <4>3, MacroFacts
      <4>5. V1(g, e) = v
        BY <3>1, <4>1, <4>4
      <4>6. QED BY <3>1, <4>4, <4>5
    <3>4. QED BY <1>0, <3>2, <3>3
  <2>2. QED BY <2>1 DEF AllEnds
<1>8. Covered(g)
  <2> DEFINE m == meshSize
  <2>1. ASSUME NEW c \in 0..numElements * m - 1
        PROVE  \E e \in Es(g) : isLeaf(g, e) /\ Lo(g, e) <= c /\ c < Hi(g, e)
    <3>1. numElements * m \in Int /\ c \in Nat /\ c < numElements * m
      <4>1. numElements * m \in Int
        BY <1>0, TimesOrder
      <4> DEFINE x == numElements * m
      <4> HIDE DEF x
      <4>2. x \in Int /\ c \in 0..x - 1
        BY <4>1 DEF x
      <4>3. c \in Nat /\ c < x
        BY <4>2
      <4>4. QED BY <4>1, <4>3 DEF x
    <3>2. PICK q \in Nat, r \in 0..m-1 : c = m * q + r
      <4>1. m \in Nat \ {0}
        BY <1>0
      <4> HIDE DEF m
      <4>2. c \div m \in Nat /\ (c % m) \in 0..m-1 /\ c = m * (c \div m) + (c % m)
        BY <3>1, <4>1, Division
      <4>3. QED BY <4>2
    <3>3. q * m <= c /\ c < (q + 1) * m
      <4>0. m \in Nat
        BY <1>0
      <4> HIDE DEF m
      <4>1. m * q \in Int /\ q * m = m * q /\ (q + 1) * m = m * q + m
        BY <4>0
      <4> DEFINE y == m * q
      <4>2. y \in Int /\ q * m = y /\ (q + 1) * m = y + m /\ c = y + r
        BY <3>2, <4>1
      <4> HIDE DEF y
      <4>3. QED BY <4>0, <4>2
    <3>4. q < numElements
      <4>1. q * m < numElements * m
        <5> DEFINE x == numElements * m
                   y == q * m
        <5>1. x \in Int /\ y \in Int /\ y <= c /\ c < x /\ c \in Int
          BY <1>0, <3>1, <3>3, TimesOrder
        <5> HIDE DEF x, y
        <5>2. y < x
          BY <5>1
        <5>3. QED BY <5>2 DEF x, y
      <4>2. QED BY <1>0, <4>1, TimesOrder
    <3>5. q \in 0..numElements - 1
      BY <1>0, <3>4
    <3>6. PICK e \in Es(g) : e = <<0, q>>
      BY <3>5, MacroFacts
    <3>7. id(e) = q
      BY <3>6 DEF id
    <3>8. Lo(g, e) = q * m /\ Hi(g, e) = (q + 1) * m /\ isLeaf(g, e)
      BY <3>7, MacroFacts
    <3>9. QED BY <3>3, <3>8
  <2>2. QED BY <2>1 DEF Covered
<1>9. Fathers(g)
  BY MacroFacts DEF Fathers
<1>10. SonsOf(g)
  BY MacroFacts DEF SonsOf
<1>11. Copies(g)
  BY MacroFacts DEF Copies
<1>12. Ids(g)
  <2>1. \A v \in Vs(g) : id(v) < g.freeVertexId
    <3> TAKE v \in Vs(g)
    <3>1. id(v) \in 0..numElements /\ g.freeVertexId = numElements + 1
      BY MacroFacts DEF Macro
    <3>2. QED BY <1>0, <3>1
  <2>2. \A e \in Es(g) : id(e) < g.freeElementId
    <3> TAKE e \in Es(g)
    <3>1. id(e) \in 0..numElements - 1 /\ g.freeElementId = numElements
      BY MacroFacts DEF Macro
    <3>2. QED BY <1>0, <3>1
  <2>3. \A v, w \in Vs(g) : (id(v) = id(w)) <=> (Pos(g, v) = Pos(g, w))
    <3> TAKE v, w \in Vs(g)
    <3>1. id(v) \in Int /\ id(w) \in Int /\ Pos(g, v) = id(v) * meshSize /\ Pos(g, w) = id(w) * meshSize
      BY <1>0, MacroFacts
    <3>2. QED BY <1>0, <3>1, TimesOrder
  <2>4. \A e, f \in Es(g) : (id(e) = id(f)) <=> (Lo(g, e) = Lo(g, f) /\ Hi(g, e) = Hi(g, f))
    <3> TAKE e, f \in Es(g)
    <3>1. e = <<0, id(e)>> /\ f = <<0, id(f)>> /\ Lo(g, e) \in Nat /\ Lo(g, f) \in Nat
      BY MacroFacts
    <3>2. id(e) = id(f) <=> e = f
      BY <3>1
    <3>3. e # f => Lo(g, e) # Lo(g, f)
      BY <1>3, <1>4, <3>1
    <3>4. QED BY <3>2, <3>3
  <2>5. QED BY <2>1, <2>2, <2>3, <2>4 DEF Ids
<1>13. Marks(g)
  BY DEF Macro, MacroElements, Marks
<1>14. Flags(g)
  BY DEF Macro, MacroElements, Flags
<1>15. QED BY <1>1, <1>5, <1>6, <1>7, <1>8, <1>9, <1>10, <1>11, <1>12, <1>13, <1>14 DEF Forest

(* The lists of the macro grid are in order. *)
LEMMA MacroLists ==
  ASSUME NEW g, Macro(g)
  PROVE  Lists(g)
<1>0. numElements \in Nat /\ meshSize \in Nat /\ meshSize >= 1
  BY numElementsAssumption, MeshSize
<1>1. maxLevel(g) = 0
  BY MacroFacts
<1> DEFINE vs == [k \in 1..numElements + 1 |-> <<0, k - 1>>]
           es == [k \in 1..numElements |-> <<0, k - 1>>]
           P == PosAt(g, 0)
           L == LoAt(g, 0)
<1>2. DOMAIN P = Vs(g) /\ (\A v \in Vs(g) : P[v] = id(v) * meshSize)
  <2>1. \A v \in Vs(g) : level(v) = 0 /\ Pos(g, v) = id(v) * meshSize
    BY MacroFacts
  <2>2. QED BY <2>1 DEF PosAt
<1>3. DOMAIN L = Es(g) /\ (\A e \in Es(g) : L[e] = id(e) * meshSize)
  <2>1. \A e \in Es(g) : level(e) = 0 /\ Lo(g, e) = id(e) * meshSize
    BY MacroFacts
  <2>2. QED BY <2>1 DEF LoAt
<1> HIDE DEF P, L
<1>4. \A j, k \in Int : j < k => j * meshSize < k * meshSize
  BY <1>0, TimesOrder
<1>5. Listed(vs, P)
  <2>1. \A k \in 1..numElements + 1 : k - 1 \in 0..numElements
    BY <1>0
  <2>2. \A k \in 1..numElements + 1 : vs[k] \in Vs(g) /\ id(vs[k]) = k - 1
    BY <2>1, MacroFacts
  <2>3. vs \in Seq(Vs(g)) /\ Len(vs) = numElements + 1
    <3>1. vs \in [1..numElements + 1 -> Vs(g)] /\ numElements + 1 \in Nat
      BY <1>0, <2>2
    <3> HIDE DEF vs
    <3>2. QED BY <3>1, SeqDef, LenProperties
  <2>4. \A v \in Vs(g) : \E k \in 1..numElements + 1 : vs[k] = v
    <3> TAKE v \in Vs(g)
    <3>1. v = <<0, id(v)>> /\ id(v) \in 0..numElements
      BY MacroFacts
    <3>2. id(v) + 1 \in 1..numElements + 1 /\ (id(v) + 1) - 1 = id(v)
      BY <1>0, <3>1
    <3>3. vs[id(v) + 1] = v
      BY <3>1, <3>2
    <3>4. QED BY <3>2, <3>3
  <2> HIDE DEF vs
  <2>5. \A j, k \in 1..numElements + 1 : j < k => P[vs[j]] < P[vs[k]]
    <3> TAKE j, k \in 1..numElements + 1
    <3>1. j - 1 \in Int /\ k - 1 \in Int /\ (j < k => j - 1 < k - 1)
      BY <1>0
    <3>2. P[vs[j]] = (j - 1) * meshSize /\ P[vs[k]] = (k - 1) * meshSize
      BY <1>2, <2>2
    <3>3. QED BY <1>4, <3>1, <3>2
  <2>6. QED BY <1>2, <2>3, <2>4, <2>5 DEF Listed
<1>6. Listed(es, L)
  <2>1. \A k \in 1..numElements : k - 1 \in 0..numElements - 1 /\ k - 1 \in 0..numElements
    BY <1>0
  <2>2. \A k \in 1..numElements : es[k] \in Es(g) /\ id(es[k]) = k - 1
    BY <2>1, MacroFacts
  <2>3. es \in Seq(Es(g)) /\ Len(es) = numElements
    <3>1. es \in [1..numElements -> Es(g)] /\ numElements \in Nat
      BY <1>0, <2>2
    <3> HIDE DEF es
    <3>2. QED BY <3>1, SeqDef, LenProperties
  <2>4. \A e \in Es(g) : \E k \in 1..numElements : es[k] = e
    <3> TAKE e \in Es(g)
    <3>1. e = <<0, id(e)>> /\ id(e) \in 0..numElements - 1
      BY MacroFacts
    <3>2. id(e) + 1 \in 1..numElements /\ (id(e) + 1) - 1 = id(e)
      BY <1>0, <3>1
    <3>3. es[id(e) + 1] = e
      BY <3>1, <3>2
    <3>4. QED BY <3>2, <3>3
  <2> HIDE DEF es
  <2>5. \A j, k \in 1..numElements : j < k => L[es[j]] < L[es[k]]
    <3> TAKE j, k \in 1..numElements
    <3>1. j - 1 \in Int /\ k - 1 \in Int /\ (j < k => j - 1 < k - 1)
      BY <1>0
    <3>2. L[es[j]] = (j - 1) * meshSize /\ L[es[k]] = (k - 1) * meshSize
      BY <1>3, <2>2
    <3>3. QED BY <1>4, <3>1, <3>2
  <2>6. QED BY <1>3, <2>3, <2>4, <2>5 DEF Listed
<1>7. g.vertices[0] = vs /\ g.elements[0] = es
  BY DEF Macro
<1> HIDE DEF vs, es
<1>8. \A i \in 0..maxLevel(g) : i = 0
  BY <1>1
<1>9. QED BY <1>5, <1>6, <1>7, <1>8 DEF Lists, P, L

(* The macro grid is consistent. *)
LEMMA MacroSafe ==
  ASSUME NEW g, Macro(g)
  PROVE  Safe(g)
<1>1. Forest(g) /\ Lists(g)
  BY MacroForest, MacroLists
<1>2. Full(g)
  <2>1. 0 \in 0..numElements - 1
    BY numElementsAssumption
  <2>2. <<0, 0>> \in Es(g) /\ level(<<0, 0>>) = 0
    BY <2>1, MacroFacts
  <2>3. \A i \in 0..maxLevel(g) : i = 0
    BY MacroFacts
  <2>4. QED BY <2>2, <2>3 DEF Full
<1>3. QED BY <1>1, <1>2 DEF Safe, WF, Macro

-----------------------------------------------------------------------------
(* The inductive invariant.  An assertion that fails leaves the grid as it *)
(* was; the program goes no further.                                       *)
Standing ==
  /\ WF(entities) /\ Full(entities) /\ entities.failed \in BOOLEAN
  /\ refinementType \in {"LOCAL", "COPY"}

(* A grid whose assertion failed stays consistent. *)
LEMMA FailedKeeps ==
  ASSUME NEW g, WF(g), Full(g), NEW h, h = [g EXCEPT !.failed = TRUE]
  PROVE  WF(h) /\ Full(h) /\ h.failed = TRUE /\ Es(h) = Es(g)
<1> DEFINE t == maxLevel(g)
<1>1. Shape(g) /\ Forest(g) /\ Lists(g)
  BY WFRecords DEF WF
<1>2. /\ Shape(h) /\ h.element = g.element /\ h.vertex = g.vertex /\ h.reversed = g.reversed
      /\ h.freeVertexId = g.freeVertexId /\ h.freeElementId = g.freeElementId
      /\ h.elements = g.elements /\ h.vertices = g.vertices /\ h.failed = TRUE
  BY <1>1 DEF Shape
<1>3. t \in 0..LevelLimit /\ DOMAIN h.elements = 0..t /\ DOMAIN h.vertices = 0..t /\ t \in Nat
  BY <1>1, <1>2, Basics DEF Forest, Typed
<1>4. (\A v \in Vs(g) : level(v) <= t) /\ (\A e \in Es(g) : level(e) <= t)
  <2>1. (\A v \in Vs(g) : level(v) \in 0..t) /\ (\A e \in Es(g) : level(e) \in 0..t)
    BY <1>1, Basics DEF Forest
  <2>2. QED BY <2>1, <1>3
<1>5. Forest(h) /\ maxLevel(h) = t
  <2> HIDE DEF t
  <2>1. QED BY <1>1, <1>2, <1>3, <1>4, ForestAgain
<1>6. Lists(h)
  <2>1. \A i \in 0..t : PosAt(h, i) = PosAt(g, i) /\ LoAt(h, i) = LoAt(g, i)
    BY <1>2, ListsSame
  <2>2. QED BY <1>1, <1>2, <1>5, <2>1 DEF Lists
<1>7. Es(h) = Es(g)
  BY <1>2 DEF Es
<1>8. Full(h)
  BY <1>5, <1>7 DEF Full
<1>9. QED BY <1>2, <1>5, <1>6, <1>7, <1>8 DEF WF

(* The inductive invariant holds when the factory has made the grid. *)
LEMMA InitStanding == Init => Standing
<1> SUFFICES ASSUME Init PROVE Standing
  OBVIOUS
<1>1. PICK vp, segments : DOMAIN vp = Positions /\ entities = createGrid(vp, segments)
  <2>1. PICK positions, segments : positions \in SetToSeqs(Positions) /\
          entities = createGrid(vertexPositions(positions), segments)
    BY DEF Init
  <2>2. DOMAIN vertexPositions(positions) = Positions
    BY <2>1, InsertedPositions
  <2>3. QED BY <2>1, <2>2
<1>2. Macro(entities)
  BY <1>1, CreatedMacro
<1>3. Safe(entities)
  BY <1>2, MacroSafe
<1>4. refinementType = "LOCAL"
  BY DEF Init
<1>5. QED BY <1>3, <1>4 DEF Standing, Safe

(* What the actions do with the grid: it stays, it is marked, an assertion *)
(* fails, or adapt() and globalRefine() make another one.                  *)
Moves ==
  \/ UNCHANGED entities
  \/ Remarked(entities, entities') /\ Safe(entities)
  \/ entities' = [entities EXCEPT !.failed = TRUE] /\ Safe(entities)
  \/ /\ Safe(entities) /\ Safe(entities') /\ entities'.reversed = entities.reversed
     /\ Unannounced(entities) => Es(entities) \subseteq Es(entities')

(* What adapt() and globalRefine() do at their end. *)
LEMMA BecomesMoves ==
  ASSUME NEW g, Becomes(g), Safe(entities),
         g.failed = TRUE \/ (Safe(g) /\ g.reversed = entities.reversed /\ (Unannounced(entities) => Es(entities) \subseteq Es(g)))
  PROVE  Moves
<1>1. CASE g.failed = TRUE
  BY <1>1 DEF Becomes, Moves
<1>2. CASE Safe(g) /\ g.reversed = entities.reversed /\ (Unannounced(entities) => Es(entities) \subseteq Es(g))
  <2>1. g.failed = FALSE
    BY <1>2 DEF Safe
  <2>2. entities' = g
    BY <2>1 DEF Becomes
  <2>3. QED BY <1>2, <2>2 DEF Moves
<1>3. QED BY <1>1, <1>2

(* Every step is one of these moves. *)
LEMMA NextMoves ==
  ASSUME Standing, [Next]_vars
  PROVE  Moves
<1>1. ~entities.failed => Safe(entities)
  BY DEF Standing, Safe
<1>2. CASE SetRefinementType
  BY <1>2 DEF SetRefinementType, Moves
<1>3. CASE Mark
  <2>1. PICK e \in leaves, m \in MarkStates :
          /\ ~entities.failed /\ (m = "REFINE" => level(e) < LevelLimit)
          /\ entities' = [entities EXCEPT !.element[e].markState = m]
    BY <1>3 DEF Mark
  <2>2. e \in Es(entities)
    BY DEF leaves, Es
  <2>3. Remarked(entities, entities')
    BY <2>1, <2>2, MarkKeeps DEF Standing
  <2>4. QED BY <1>1, <2>1, <2>3 DEF Moves
<1>4. CASE Adapt
  <2>1. Safe(entities) /\ Becomes(Adapted(entities))
    BY <1>1, <1>4 DEF Adapt
  <2>2. PICK g : g = Adapted(entities)
    OBVIOUS
  <2>3. g.failed = TRUE \/ (Safe(g) /\ g.reversed = entities.reversed /\ (Unannounced(entities) => Es(entities) \subseteq Es(g)))
    BY <2>1, <2>2, AdaptedKeeps
  <2>4. Becomes(g)
    BY <2>1, <2>2
  <2>5. QED BY <2>1, <2>3, <2>4, BecomesMoves
<1>5. CASE PostAdapt
  <2>1. Safe(entities) /\ entities' = Cleared(entities)
    BY <1>1, <1>5 DEF PostAdapt
  <2>2. Remarked(entities, entities')
    BY <2>1, ClearedKeeps DEF Standing
  <2>3. QED BY <2>1, <2>2 DEF Moves
<1>6. CASE GlobalRefine
  <2>1. PICK refCount \in Counts :
          /\ ~entities.failed /\ maxLevel(entities) + refCount <= LevelLimit
          /\ IF refCount > 0 THEN Becomes(RefinedTimes(entities, refCount)) ELSE UNCHANGED entities
    BY <1>6 DEF GlobalRefine
  <2>2. CASE ~(refCount > 0)
    BY <2>1, <2>2 DEF Moves
  <2>3. CASE refCount > 0
    <3>1. refCount \in Nat
      BY <2>3, CountsAssumption
    <3>2. PICK g : g = RefinedTimes(entities, refCount)
      OBVIOUS
    <3>3. Safe(entities) /\ Becomes(g)
      BY <1>1, <2>1, <2>3, <3>2
    <3>4. g.failed = TRUE \/ (Safe(g) /\ g.reversed = entities.reversed /\ Es(entities) \subseteq Es(g))
      BY <2>1, <3>1, <3>2, <3>3, RefinedTimesKeeps
    <3>5. QED BY <3>3, <3>4, BecomesMoves
  <2>4. QED BY <2>2, <2>3
<1>7. CASE Stopped \/ UNCHANGED vars
  BY <1>7 DEF Stopped, vars, Moves
<1>8. QED BY <1>2, <1>3, <1>4, <1>5, <1>6, <1>7 DEF Next

(* The refinement type is one of the two. *)
LEMMA NextType ==
  ASSUME Standing, [Next]_vars
  PROVE  refinementType' \in {"LOCAL", "COPY"}
<1>1. SetRefinementType => refinementType' \in {"LOCAL", "COPY"}
  BY TypesAssumption DEF SetRefinementType
<1>2. Mark \/ Adapt \/ PostAdapt \/ GlobalRefine \/ Stopped \/ UNCHANGED vars => UNCHANGED refinementType
  BY DEF Mark, Adapt, PostAdapt, GlobalRefine, Stopped, vars
<1>3. QED BY <1>1, <1>2 DEF Next, Standing

(* Every step keeps the inductive invariant. *)
LEMMA NextStanding == Standing /\ [Next]_vars => Standing'
<1> SUFFICES ASSUME Standing, [Next]_vars PROVE Standing'
  OBVIOUS
<1>1. Moves /\ refinementType' \in {"LOCAL", "COPY"}
  BY NextMoves, NextType
<1>2. WF(entities) /\ Full(entities) /\ entities.failed \in BOOLEAN
  BY DEF Standing
<1>3. WF(entities') /\ Full(entities') /\ entities'.failed \in BOOLEAN
  <2>1. CASE UNCHANGED entities
    BY <1>2, <2>1
  <2>2. CASE Remarked(entities, entities') /\ Safe(entities)
    <3>1. Safe(entities')
      BY <2>2, RemarkedSafe
    <3>2. QED BY <3>1 DEF Safe
  <2>3. CASE entities' = [entities EXCEPT !.failed = TRUE]
    <3>1. WF(entities') /\ Full(entities') /\ entities'.failed = TRUE
      BY <1>2, <2>3, FailedKeeps
    <3>2. QED BY <3>1
  <2>4. CASE Safe(entities')
    BY <2>4 DEF Safe
  <2>5. QED BY <1>1, <2>1, <2>2, <2>3, <2>4 DEF Moves
<1>4. QED BY <1>1, <1>3 DEF Standing

(* After any marks, any adapt() and any globalRefine(), refined and        *)
(* coarsened or not, with both refinement types: the lists are in order,   *)
(* the pointers agree, the leaves cover the domain and the ids are right.  *)
THEOREM StandingInvariant == Spec => []Standing
BY InitStanding, NextStanding, PTL DEF Spec

-----------------------------------------------------------------------------
(* What Standing says of the grid, by the names of the model. *)

LEMMA Names ==
  ASSUME WF(entities)
  PROVE  /\ elem = entities.element /\ vert = entities.vertex
         /\ DOMAIN elem = Es(entities) /\ DOMAIN vert = Vs(entities)
         /\ \A e : left(e) = Lo(entities, e) /\ right(e) = Hi(entities, e)
         /\ \A e : elem[e].vertex[1] = V0(entities, e) /\ elem[e].vertex[2] = V1(entities, e)
         /\ \A v : vert[v].pos = Pos(entities, v) /\ vert[v].son = son(entities, v)
         /\ \A e : e \in leaves <=> e \in Es(entities) /\ isLeaf(entities, e)
BY DEF elem, vert, Es, Vs, left, right, Lo, Hi, V0, V1, Pos, son, leaves

(* The parts of consistency. *)
LEMMA Parts ==
  ASSUME NEW g, WF(g)
  PROVE  /\ Typed(g) /\ Sized(g) /\ Nested(g) /\ AllEnds(g) /\ Covered(g)
         /\ Fathers(g) /\ SonsOf(g) /\ Copies(g) /\ Ids(g) /\ Lists(g) /\ Flags(g)
BY DEF WF, Forest

(* The list of a level holds the entities of the level. *)
LEMMA ListSet ==
  ASSUME NEW f, NEW s, Listed(s, f)
  PROVE  ToSet(s) = DOMAIN f
<1>1. DOMAIN s = 1..Len(s) /\ \A k \in 1..Len(s) : s[k] \in DOMAIN f
  BY ListedMembers
<1>2. \A x \in DOMAIN f : \E k \in 1..Len(s) : s[k] = x
  BY DEF Listed
<1>3. ToSet(s) = {s[k] : k \in 1..Len(s)}
  BY <1>1 DEF ToSet
<1>4. (\A x \in ToSet(s) : x \in DOMAIN f) /\ (\A x \in DOMAIN f : x \in ToSet(s))
  BY <1>1, <1>2, <1>3
<1>5. QED BY <1>4

(* The lists of a level hold its vertices and its elements. *)
LEMMA LevelSets ==
  ASSUME NEW g, WF(g), NEW i \in 0..maxLevel(g)
  PROVE  /\ ToSet(g.vertices[i]) = {v \in Vs(g) : level(v) = i}
         /\ ToSet(g.elements[i]) = {e \in Es(g) : level(e) = i}
<1>1. Typed(g) /\ Lists(g)
  BY Parts
<1>2. ToSet(g.vertices[i]) = DOMAIN PosAt(g, i) /\ \A v : v \in DOMAIN PosAt(g, i) <=> v \in Vs(g) /\ level(v) = i
  BY <1>1, ListedVertices, ListSet
<1>3. ToSet(g.elements[i]) = DOMAIN LoAt(g, i) /\ \A e : e \in DOMAIN LoAt(g, i) <=> e \in Es(g) /\ level(e) = i
  BY <1>1, ListedElements, ListSet
<1>4. \A v : v \in ToSet(g.vertices[i]) <=> v \in {v_ \in Vs(g) : level(v_) = i}
  BY <1>2
<1>5. \A e : e \in ToSet(g.elements[i]) <=> e \in {e_ \in Es(g) : level(e_) = i}
  BY <1>3
<1>6. QED BY <1>4, <1>5

(* The types follow. *)
LEMMA StandingTypeOK == Standing => TypeOK
<1> SUFFICES ASSUME Standing PROVE TypeOK
  OBVIOUS
<1>1. PICK g : g = entities
  OBVIOUS
<1>2. WF(g) /\ Full(g)
  BY <1>1 DEF Standing
<1>3. Typed(g)
  BY <1>2, Parts
<1>4. refinementType \in {"LOCAL", "COPY"}
  BY DEF Standing
<1>5. DOMAIN g.elements = 0..maxLevel(g) /\ DOMAIN g.vertices = 0..maxLevel(g)
  BY <1>3 DEF Typed
<1>6. ASSUME NEW i \in 0..maxLevel(g)
      PROVE  /\ g.elements[i] # <<>>
             /\ ToSet(g.elements[i]) = {e \in Es(g) : level(e) = i}
             /\ ToSet(g.vertices[i]) = {v \in Vs(g) : level(v) = i}
  <2>1. ToSet(g.elements[i]) = {e \in Es(g) : level(e) = i} /\ ToSet(g.vertices[i]) = {v \in Vs(g) : level(v) = i}
    BY <1>2, LevelSets
  <2>2. PICK e \in Es(g) : level(e) = i
    BY <1>2 DEF Full
  <2>3. e \in ToSet(g.elements[i])
    BY <2>1, <2>2
  <2>4. g.elements[i] # <<>>
    BY <2>3 DEF ToSet
  <2>5. QED BY <2>1, <2>4
<1>7. ASSUME NEW v \in Vs(g)
      PROVE  g.vertex[v].pos \in Nat /\ g.vertex[v].son \in Vs(g) \cup {null}
  BY <1>3, Basics DEF Pos, son
<1>8. ASSUME NEW e \in Es(g)
      PROVE  /\ g.element[e].markState \in MarkStates /\ g.element[e].isNew \in BOOLEAN
             /\ g.element[e].father \in Es(g) \cup {null}
             /\ \A s \in 1..2 : g.element[e].sons[s] \in Es(g) \cup {null}
             /\ \A s \in 1..2 : g.element[e].vertex[s] \in Vs(g)
  <2>1. g.element[e] \in ElementType(Vs(g), Es(g))
    BY <1>3 DEF Typed
  <2>2. g.element[e].markState \in MarkStates /\ g.element[e].isNew \in BOOLEAN
    BY <2>1 DEF ElementType
  <2>3. /\ g.element[e].father \in Es(g) \cup {null}
        /\ g.element[e].sons[1] \in Es(g) \cup {null} /\ g.element[e].sons[2] \in Es(g) \cup {null}
        /\ g.element[e].vertex[1] \in Vs(g) /\ g.element[e].vertex[2] \in Vs(g)
    BY <1>3, Basics DEF V0, V1
  <2>4. \A s \in 1..2 : s = 1 \/ s = 2
    OBVIOUS
  <2>5. QED BY <2>2, <2>3, <2>4
<1>9. elem = g.element /\ vert = g.vertex /\ DOMAIN elem = Es(g) /\ DOMAIN vert = Vs(g)
  BY <1>1, <1>2, Names
<1>10. QED BY <1>1, <1>4, <1>5, <1>6, <1>7, <1>8, <1>9 DEF TypeOK

(* Pointers lead to entities of the grid, the lists of a level hold its    *)
(* entities and no level is empty, however many elements and levels there  *)
(* are.                                                                    *)
THEOREM TypeInvariant == Spec => []TypeOK
BY StandingInvariant, StandingTypeOK, PTL

-----------------------------------------------------------------------------
(* Neighbours *)

LEMMA NextVertex ==
  ASSUME NEW g, WF(g), NEW e \in Es(g)
  PROVE  succ(g.vertices[level(e)], V0(g, e)) = V1(g, e)
<1> DEFINE i == level(e)
           f == PosAt(g, i)
           a == V0(g, e)
           b == V1(g, e)
           y == succ(g.vertices[i], a)
<1>1. Typed(g) /\ Sized(g) /\ Nested(g) /\ AllEnds(g) /\ Lists(g) /\ Ids(g)
  BY Parts
<1>2. i \in 0..maxLevel(g) /\ a \in Vs(g) /\ b \in Vs(g) /\ level(a) = i /\ level(b) = i
  BY <1>1, Basics, Positive
<1>3. Pos(g, a) < Pos(g, b) /\ Pos(g, a) \in Nat /\ Pos(g, b) \in Nat
  <2>1. Lo(g, e) < Hi(g, e)
    BY <1>1, Positive
  <2>2. QED BY <2>1, <1>1, <1>2, Basics DEF Lo, Hi
<1>4. /\ Listed(g.vertices[i], f) /\ Numbering(f)
      /\ \A v : v \in DOMAIN f <=> v \in Vs(g) /\ level(v) = i
      /\ \A v \in Vs(g) : level(v) = i => f[v] = Pos(g, v)
  BY <1>1, <1>2, ListedVertices
<1> HIDE DEF f
<1>5. a \in DOMAIN f /\ b \in DOMAIN f /\ f[a] = Pos(g, a) /\ f[b] = Pos(g, b)
  BY <1>2, <1>4
<1>6. Follower(f, a, y)
  BY <1>4, <1>5, SuccIsFollower
<1> HIDE DEF i, a, b, y
<1>7. y \in DOMAIN f /\ f[y] > f[a] /\ \A z \in DOMAIN f : f[z] < f[y] => f[z] <= f[a]
  <2>1. CASE y = null /\ \A z \in DOMAIN f : f[z] <= f[a]
    BY <2>1, <1>5, <1>3
  <2>2. QED BY <2>1, <1>6 DEF Follower
<1>8. y \in Vs(g) /\ level(y) = i /\ f[y] = Pos(g, y) /\ Pos(g, y) \in Nat
  BY <1>7, <1>4, <1>1, Basics
<1>9. ~(Pos(g, b) < Pos(g, y))
  BY <1>7, <1>8, <1>5, <1>3
<1>10. ~(Pos(g, y) < Pos(g, b))
  <2>1. ASSUME Pos(g, y) < Pos(g, b) PROVE FALSE
    <3>1. Lo(g, e) < Pos(g, y) /\ Pos(g, y) < Hi(g, e)
      BY <2>1, <1>7, <1>8, <1>5 DEF Lo, Hi, a, b
    <3>2. level(e) < level(y)
      BY <3>1, <1>1, <1>8, NoVertexInside
    <3>3. i \in Nat
      BY <1>1, Basics DEF i
    <3>4. QED BY <3>2, <3>3, <1>8 DEF i
  <2>2. QED BY <2>1
<1>11. Pos(g, y) = Pos(g, b)
  BY <1>9, <1>10, <1>8, <1>3
<1>12. y = b
  BY <1>11, <1>8, <1>2, <1>1, SameVertex
<1>13. QED BY <1>12 DEF y, b, i, a

(* Elements of a level do not overlap. *)
LEMMA NextElement ==
  ASSUME NEW g, WF(g), NEW e \in Es(g), NEW f \in Es(g), level(e) = level(f), Lo(g, e) < Lo(g, f)
  PROVE  Hi(g, e) <= Lo(g, f)
<1>1. Typed(g) /\ Sized(g) /\ Nested(g)
  BY Parts
<1>2. Lo(g, e) \in Nat /\ Lo(g, f) \in Nat /\ Hi(g, e) \in Nat /\ Hi(g, f) \in Nat /\ level(e) \in Nat
  BY <1>1, Basics
<1>3. Lo(g, f) < Hi(g, f)
  BY <1>1, Positive
<1>4. Apart(g, e, f)
  <2>1. e # f /\ level(e) <= level(f) /\ ~(level(e) < level(f))
    BY <1>2
  <2>2. QED BY <2>1, <1>1 DEF Nested
<1>5. QED BY <1>2, <1>3, <1>4 DEF Apart

(* The members of a pair. *)
LEMMA PairSet ==
  ASSUME NEW p, NEW V, p \in V \X V
  PROVE  \A x : x \in ToSet(p) <=> x = p[1] \/ x = p[2]
<1>1. DOMAIN p = {1, 2}
  OBVIOUS
<1>2. QED BY <1>1 DEF ToSet

(* The ends of an element. *)
LEMMA EndSet ==
  ASSUME NEW g, Typed(g), NEW e \in Es(g)
  PROVE  \A x : x \in ToSet(g.element[e].vertex) <=> x = V0(g, e) \/ x = V1(g, e)
<1>1. g.element[e] \in ElementType(Vs(g), Es(g))
  BY DEF Typed
<1>2. g.element[e].vertex \in Vs(g) \X Vs(g)
  BY <1>1 DEF ElementType
<1>3. QED BY <1>2, PairSet DEF V0, V1

(* The sons of an element. *)
LEMMA SonSet ==
  ASSUME NEW g, Typed(g), NEW e \in Es(g)
  PROVE  \A x : x \in ToSet(g.element[e].sons) <=> x = g.element[e].sons[1] \/ x = g.element[e].sons[2]
<1>1. g.element[e] \in ElementType(Vs(g), Es(g))
  BY DEF Typed
<1>2. g.element[e].sons \in (Es(g) \cup {null}) \X (Es(g) \cup {null})
  BY <1>1 DEF ElementType
<1>3. QED BY <1>2, PairSet

(* The ends of the elements of the list es. *)
EndsOf(g, es) == UNION {ToSet(g.element[es[k]].vertex) : k \in DOMAIN es}

(* The lists of a level are in order. *)
LEMMA LevelOrdered ==
  ASSUME NEW g, WF(g), NEW i \in 0..maxLevel(g), NEW vs, NEW es, vs = g.vertices[i], es = g.elements[i]
  PROVE  /\ \A k \in 1..Len(vs)-1 : Pos(g, vs[k]) < Pos(g, vs[k+1])
         /\ \A k \in 1..Len(es)-1 : Hi(g, es[k]) <= Lo(g, es[k+1])
         /\ \A k \in 1..Len(es) : succ(vs, V0(g, es[k])) = V1(g, es[k])
         /\ ToSet(vs) = EndsOf(g, es)
<1>1. Typed(g) /\ Sized(g) /\ Lists(g) /\ AllEnds(g)
  BY Parts
<1>2. PICK f : /\ Listed(vs, f) /\ Numbering(f)
               /\ \A v : v \in DOMAIN f <=> v \in Vs(g) /\ level(v) = i
               /\ \A v \in Vs(g) : level(v) = i => f[v] = Pos(g, v)
  BY <1>1, ListedVertices
<1>3. PICK h : /\ Listed(es, h) /\ Numbering(h)
               /\ \A e : e \in DOMAIN h <=> e \in Es(g) /\ level(e) = i
               /\ \A e \in Es(g) : level(e) = i => h[e] = Lo(g, e)
  BY <1>1, ListedElements
<1>4. ASSUME NEW k \in 1..Len(vs)-1 PROVE Pos(g, vs[k]) < Pos(g, vs[k+1])
  <2>1. k \in 1..Len(vs) /\ k + 1 \in 1..Len(vs) /\ k < k + 1
    BY <1>2, ListedMembers
  <2>2. /\ vs[k] \in DOMAIN f /\ vs[k+1] \in DOMAIN f /\ f[vs[k]] < f[vs[k+1]]
    BY <2>1, <1>2, ListedOrder
  <2>3. QED BY <2>2, <1>2
<1>5. ASSUME NEW k \in 1..Len(es) PROVE es[k] \in Es(g) /\ level(es[k]) = i
  BY <1>3, ListedMembers
<1>6. ASSUME NEW k \in 1..Len(es)-1 PROVE Hi(g, es[k]) <= Lo(g, es[k+1])
  <2>1. k \in 1..Len(es) /\ k + 1 \in 1..Len(es) /\ k < k + 1
    BY <1>3, ListedMembers
  <2>2. h[es[k]] < h[es[k+1]]
    BY <2>1, <1>3, ListedOrder
  <2>3. Lo(g, es[k]) < Lo(g, es[k+1])
    BY <2>1, <2>2, <1>3, <1>5
  <2>4. QED BY <2>1, <2>3, <1>5, NextElement
<1>7. ASSUME NEW k \in 1..Len(es) PROVE succ(vs, V0(g, es[k])) = V1(g, es[k])
  BY <1>5, NextVertex
<1>8. DOMAIN es = 1..Len(es)
  BY <1>3, ListedMembers
<1>9. ASSUME NEW v \in ToSet(vs) PROVE v \in EndsOf(g, es)
  <2>1. v \in Vs(g) /\ level(v) = i
    BY <1>2, ListSet
  <2>2. PICK e \in Es(g) : level(e) = i /\ (V0(g, e) = v \/ V1(g, e) = v)
    BY <2>1, <1>1 DEF AllEnds
  <2>3. e \in DOMAIN h
    BY <2>2, <1>3
  <2>4. PICK k \in 1..Len(es) : es[k] = e
    BY <2>3, <1>3 DEF Listed
  <2>5. v \in ToSet(g.element[es[k]].vertex)
    BY <2>2, <2>4, <1>1, EndSet
  <2>6. QED BY <2>5, <1>8 DEF EndsOf
<1>10. ASSUME NEW v \in EndsOf(g, es) PROVE v \in ToSet(vs)
  <2>1. PICK k \in 1..Len(es) : v \in ToSet(g.element[es[k]].vertex)
    BY <1>8 DEF EndsOf
  <2>2. v = V0(g, es[k]) \/ v = V1(g, es[k])
    BY <2>1, <1>5, <1>1, EndSet
  <2>3. PICK e : e = es[k] /\ e \in Es(g) /\ level(e) = i
    BY <1>5
  <2>4. V0(g, e) \in Vs(g) /\ level(V0(g, e)) = i /\ V1(g, e) \in Vs(g) /\ level(V1(g, e)) = i
    BY <2>3, <1>1, Positive, Basics
  <2>5. v \in Vs(g) /\ level(v) = i
    BY <2>2, <2>3, <2>4
  <2>6. ToSet(vs) = DOMAIN f
    BY <1>2, ListSet
  <2>7. QED BY <2>5, <2>6, <1>2
<1>11. ToSet(vs) = EndsOf(g, es)
  BY <1>9, <1>10
<1>12. QED BY <1>4, <1>6, <1>7, <1>11

(* The order of the lists follows. *)
LEMMA StandingListsOrdered == Standing => ListsOrdered
<1> SUFFICES ASSUME Standing PROVE ListsOrdered
  OBVIOUS
<1> DEFINE g == entities
<1>1. g = entities
  OBVIOUS
<1> HIDE DEF g
<1>2. WF(g)
  BY <1>1 DEF Standing
<1>3. /\ elem = g.element /\ vert = g.vertex
      /\ \A e : left(e) = Lo(g, e) /\ right(e) = Hi(g, e)
      /\ \A e : elem[e].vertex[1] = V0(g, e) /\ elem[e].vertex[2] = V1(g, e)
      /\ \A v : vert[v].pos = Pos(g, v)
  BY <1>1, <1>2, Names
<1>4. ASSUME NEW i \in 0..maxLevel(g)
      PROVE  /\ \A k \in 1..Len(g.vertices[i])-1 : vert[g.vertices[i][k]].pos < vert[g.vertices[i][k+1]].pos
             /\ \A k \in 1..Len(g.elements[i])-1 : right(g.elements[i][k]) <= left(g.elements[i][k+1])
             /\ \A k \in 1..Len(g.elements[i]) :
                  succ(g.vertices[i], elem[g.elements[i][k]].vertex[1]) = elem[g.elements[i][k]].vertex[2]
             /\ ToSet(g.vertices[i]) = UNION {ToSet(elem[g.elements[i][k]].vertex) : k \in DOMAIN g.elements[i]}
  <2>1. PICK vs, es : vs = g.vertices[i] /\ es = g.elements[i]
    OBVIOUS
  <2>2. /\ \A k \in 1..Len(vs)-1 : Pos(g, vs[k]) < Pos(g, vs[k+1])
        /\ \A k \in 1..Len(es)-1 : Hi(g, es[k]) <= Lo(g, es[k+1])
        /\ \A k \in 1..Len(es) : succ(vs, V0(g, es[k])) = V1(g, es[k])
        /\ ToSet(vs) = EndsOf(g, es)
    BY <1>2, <2>1, LevelOrdered
  <2>3. /\ \A k \in 1..Len(vs)-1 : vert[vs[k]].pos < vert[vs[k+1]].pos
        /\ \A k \in 1..Len(es)-1 : right(es[k]) <= left(es[k+1])
        /\ \A k \in 1..Len(es) : succ(vs, elem[es[k]].vertex[1]) = elem[es[k]].vertex[2]
    BY <2>2, <1>3
  <2>4. ToSet(vs) = UNION {ToSet(elem[es[k]].vertex) : k \in DOMAIN es}
    <3>1. elem = g.element /\ ToSet(vs) = EndsOf(g, es)
      BY <2>2, <1>3
    <3>2. EndsOf(g, es) = UNION {ToSet(elem[es[k]].vertex) : k \in DOMAIN es}
      BY <3>1 DEF EndsOf
    <3>3. QED BY <3>1, <3>2
  <2>5. QED BY <2>1, <2>3, <2>4
<1>5. QED BY <1>4, Zenon DEF g, ListsOrdered

(* adapt() never leaves a list out of order: every vertex and every son    *)
(* goes to its place although the neighbour that is asked for it may be    *)
(* far off.                                                                *)
THEOREM ListsOrderedInvariant == Spec => []ListsOrdered
BY StandingInvariant, StandingListsOrdered, PTL

-----------------------------------------------------------------------------
(* The leaves cover the domain without overlapping. *)

LEMMA OneLeaf ==
  ASSUME NEW g, WF(g), NEW c \in Int, NEW e \in Es(g), NEW f \in Es(g), isLeaf(g, e), isLeaf(g, f),
         Lo(g, e) <= c, c < Hi(g, e), Lo(g, f) <= c, c < Hi(g, f)
  PROVE  e = f
<1>1. Typed(g) /\ Nested(g)
  BY Parts
<1>2. /\ Lo(g, e) \in Nat /\ Hi(g, e) \in Nat /\ Lo(g, f) \in Nat /\ Hi(g, f) \in Nat
      /\ level(e) \in Nat /\ level(f) \in Nat
  BY <1>1, Basics
<1>3. ~Apart(g, e, f) /\ ~Apart(g, f, e)
  BY <1>2 DEF Apart
<1>4. level(e) <= level(f) \/ level(f) <= level(e)
  BY <1>2
<1>5. QED BY <1>1, <1>3, <1>4 DEF Nested

(* A set of one member. *)
LEMMA SingleLeaf ==
  ASSUME NEW S, NEW e \in S, \A f \in S : f = e
  PROVE  Cardinality(S) = 1
<1>1. S = {e}
  OBVIOUS
<1>2. QED BY <1>1, FS_Singleton

(* The leaves cover the domain. *)
LEMMA StandingLeavesCover == Standing => LeavesCover
<1> SUFFICES ASSUME Standing PROVE LeavesCover
  OBVIOUS
<1>1. PICK g : g = entities
  OBVIOUS
<1>2. WF(g) /\ Covered(g)
  BY <1>1, Parts DEF Standing
<1>3. /\ \A e : left(e) = Lo(g, e) /\ right(e) = Hi(g, e)
      /\ \A e : e \in leaves <=> e \in Es(g) /\ isLeaf(g, e)
  BY <1>1, <1>2, Names
<1>4. ASSUME NEW c \in 0..numElements * meshSize - 1
      PROVE  Cardinality({e \in leaves : left(e) <= c /\ c < right(e)}) = 1
  <2>1. PICK e \in Es(g) : isLeaf(g, e) /\ Lo(g, e) <= c /\ c < Hi(g, e)
    BY <1>2 DEF Covered
  <2>2. c \in Int
    OBVIOUS
  <2> DEFINE S == {f \in leaves : left(f) <= c /\ c < right(f)}
  <2>3. e \in S
    BY <2>1, <1>3
  <2>4. \A f \in S : f = e
    <3>1. \A f \in S : f \in Es(g) /\ isLeaf(g, f) /\ Lo(g, f) <= c /\ c < Hi(g, f)
      BY <1>3
    <3>2. QED BY <3>1, <2>1, <2>2, <1>2, OneLeaf
  <2> HIDE DEF S
  <2>5. Cardinality(S) = 1
    BY <2>3, <2>4, SingleLeaf
  <2>6. QED BY <2>5 DEF S
<1>5. QED BY <1>4 DEF LeavesCover

-----------------------------------------------------------------------------
(* Fathers, sons and copies *)

(* The ties of an element, and those of a vertex, as in FamilyTies. *)
ElementTies(g, e) ==
  LET s == g.element[e].sons IN
  /\ (g.element[e].father = null) <=> level(e) = 0
  /\ g.element[e].father # null => e \in ToSet(g.element[g.element[e].father].sons)
  /\ ~isLeaf(g, e) =>
       /\ g.element[s[1]].father = e /\ g.element[s[2]].father = e
       /\ g.vertex[g.element[e].vertex[1]].son = g.element[s[1]].vertex[1]
       /\ g.vertex[g.element[e].vertex[2]].son = g.element[s[2]].vertex[2]
       /\ s[1] # s[2] => g.element[s[1]].vertex[2] = g.element[s[2]].vertex[1]

VertexTie(g, v) ==
  (g.vertex[v].son # null) <=> \E e \in Es(g) : ~isLeaf(g, e) /\ v \in ToSet(g.element[e].vertex)

(* Fathers and sons, vertices and copies. *)
LEMMA Ties ==
  ASSUME NEW g, WF(g)
  PROVE  (\A e \in Es(g) : ElementTies(g, e)) /\ (\A v \in Vs(g) : VertexTie(g, v))
<1>1. Typed(g) /\ Fathers(g) /\ SonsOf(g) /\ Copies(g)
  BY Parts
<1>2. ASSUME NEW e \in Es(g) PROVE ElementTies(g, e)
  <2>1. PICK F : F = g.element[e].father
    OBVIOUS
  <2>2. (F = null) <=> level(e) = 0
    BY <1>1, <2>1 DEF Fathers
  <2>3. F # null => e \in ToSet(g.element[F].sons)
    <3>1. ASSUME F # null PROVE e \in ToSet(g.element[F].sons)
      <4>1. F \in Es(g)
        BY <3>1, <2>1, <1>1, Basics
      <4>2. g.element[F].sons[1] = e \/ g.element[F].sons[2] = e
        BY <3>1, <2>1, <1>1 DEF Fathers
      <4>3. QED BY <4>1, <4>2, <1>1, SonSet
    <3>2. QED BY <3>1
  <2>4. PICK s : s = g.element[e].sons
    OBVIOUS
  <2>5. ~isLeaf(g, e) =>
          /\ g.element[s[1]].father = e /\ g.element[s[2]].father = e
          /\ son(g, V0(g, e)) = V0(g, s[1]) /\ son(g, V1(g, e)) = V1(g, s[2])
          /\ s[1] # s[2] => V1(g, s[1]) = V0(g, s[2])
    BY <1>1, <2>4 DEF SonsOf
  <2>6. QED BY <2>1, <2>2, <2>3, <2>4, <2>5 DEF ElementTies, son, V0, V1
<1>3. ASSUME NEW v \in Vs(g) PROVE VertexTie(g, v)
  <2>1. ASSUME son(g, v) # null
        PROVE  \E e \in Es(g) : ~isLeaf(g, e) /\ v \in ToSet(g.element[e].vertex)
    <3>1. PICK e \in Es(g) : ~isLeaf(g, e) /\ (V0(g, e) = v \/ V1(g, e) = v)
      BY <1>1, <2>1 DEF Copies
    <3>2. QED BY <3>1, <1>1, EndSet
  <2>2. ASSUME NEW e \in Es(g), ~isLeaf(g, e), v \in ToSet(g.element[e].vertex)
        PROVE  son(g, v) # null
    <3>1. v = V0(g, e) \/ v = V1(g, e)
      BY <2>2, <1>1, EndSet
    <3>2. QED BY <3>1, <2>2, <1>1, SonOfEnd
  <2>3. QED BY <2>1, <2>2 DEF VertexTie, son
<1>4. QED BY <1>2, <1>3

(* The ties follow. *)
LEMMA StandingFamilyTies == Standing => FamilyTies
<1> SUFFICES ASSUME Standing PROVE FamilyTies
  OBVIOUS
<1>1. PICK g : g = entities
  OBVIOUS
<1>2. WF(g)
  BY <1>1 DEF Standing
<1>3. /\ elem = g.element /\ vert = g.vertex /\ DOMAIN elem = Es(g) /\ DOMAIN vert = Vs(g)
      /\ \A e : e \in leaves <=> e \in Es(g) /\ isLeaf(g, e)
  BY <1>1, <1>2, Names
<1>4. LeavesCover
  BY StandingLeavesCover
<1>5. ASSUME NEW e \in DOMAIN elem
      PROVE  LET s == elem[e].sons IN
             /\ (elem[e].father = null) <=> level(e) = 0
             /\ elem[e].father # null => e \in ToSet(elem[elem[e].father].sons)
             /\ e \notin leaves =>
                  /\ elem[s[1]].father = e /\ elem[s[2]].father = e
                  /\ \A k \in 1..2 : vert[elem[e].vertex[k]].son = elem[s[k]].vertex[k]
                  /\ s[1] # s[2] => elem[s[1]].vertex[2] = elem[s[2]].vertex[1]
  <2>1. ElementTies(g, e) /\ e \in Es(g)
    BY <1>2, <1>3, Ties
  <2>2. \A k \in 1..2 : k = 1 \/ k = 2
    OBVIOUS
  <2>3. QED BY <2>1, <2>2, <1>3 DEF ElementTies
<1>6. ASSUME NEW v \in DOMAIN vert
      PROVE  (vert[v].son # null) <=> \E e \in DOMAIN elem \ leaves : v \in ToSet(elem[e].vertex)
  <2>1. VertexTie(g, v)
    BY <1>2, <1>3, Ties
  <2>2. \A e : e \in DOMAIN elem \ leaves <=> e \in Es(g) /\ ~isLeaf(g, e)
    BY <1>3
  <2>3. QED BY <2>1, <2>2, <1>3 DEF VertexTie
<1>7. QED BY <1>4, <1>5, <1>6 DEF FamilyTies

(* The leaves cover the domain exactly once, fathers and sons know each    *)
(* other, and a vertex has a copy exactly if an element at it has sons.    *)
THEOREM FamilyTiesInvariant == Spec => []FamilyTies
BY StandingInvariant, StandingFamilyTies, PTL

(* The ids follow. *)
LEMMA StandingSharedIds == Standing => SharedIds
<1> SUFFICES ASSUME Standing PROVE SharedIds
  OBVIOUS
<1>1. PICK g : g = entities
  OBVIOUS
<1>2. WF(g) /\ Ids(g)
  BY <1>1, Parts DEF Standing
<1>3. /\ DOMAIN elem = Es(g) /\ DOMAIN vert = Vs(g)
      /\ \A e : left(e) = Lo(g, e) /\ right(e) = Hi(g, e)
      /\ \A v : vert[v].pos = Pos(g, v)
  BY <1>1, <1>2, Names
<1>4. QED BY <1>2, <1>3 DEF Ids, SharedIds

(* Copies of a vertex and of an element share an id, and nothing else      *)
(* does.                                                                   *)
THEOREM SharedIdsInvariant == Spec => []SharedIds
BY StandingInvariant, StandingSharedIds, PTL

-----------------------------------------------------------------------------
(* An element vanishes only when a leaf was marked for coarsening. *)

LEMMA MovesAnnounced ==
  ASSUME Standing, Moves
  PROVE  DOMAIN elem \subseteq DOMAIN elem' \/ preAdapt
<1>1. DOMAIN elem = Es(entities) /\ DOMAIN elem' = Es(entities')
  BY DEF elem, Es
<1>2. CASE UNCHANGED entities
  BY <1>2 DEF elem
<1>3. CASE Remarked(entities, entities')
  <2>1. Es(entities') = Es(entities)
    BY <1>3 DEF Remarked, Es
  <2>2. QED BY <2>1, <1>1
<1>4. CASE entities' = [entities EXCEPT !.failed = TRUE]
  <2>1. WF(entities) /\ Full(entities)
    BY DEF Standing
  <2>2. Es(entities') = Es(entities)
    BY <1>4, <2>1, FailedKeeps
  <2>3. QED BY <2>2, <1>1
<1>5. CASE Unannounced(entities) /\ Es(entities) \subseteq Es(entities')
  BY <1>5, <1>1
<1>6. CASE ~Unannounced(entities)
  <2>1. PICK e \in Es(entities) : isLeaf(entities, e) /\ entities.element[e].markState = "COARSEN"
    BY <1>6 DEF Unannounced
  <2>2. e \in leaves /\ getMark(e) = "COARSEN"
    BY <2>1 DEF leaves, getMark, Es
  <2>3. QED BY <2>2 DEF preAdapt
<1>7. QED BY <1>2, <1>3, <1>4, <1>5, <1>6 DEF Moves

(* An element vanishes only in a step before which a leaf was marked for   *)
(* coarsening.                                                             *)
LEMMA NextAnnounced ==
  Standing /\ [Next]_vars => [DOMAIN elem \subseteq DOMAIN elem' \/ preAdapt]_vars
<1> SUFFICES ASSUME Standing, [Next]_vars PROVE DOMAIN elem \subseteq DOMAIN elem' \/ preAdapt
  OBVIOUS
<1>1. Moves
  BY NextMoves
<1>2. QED BY <1>1, MovesAnnounced

(* No element vanishes that preAdapt() has not announced. *)
THEOREM OnlyAnnouncedHolds == Spec => OnlyAnnounced
BY StandingInvariant, NextAnnounced, PTL DEF Spec, OnlyAnnounced

-----------------------------------------------------------------------------
(* The order of insertion *)

(* The two conditions on the first indices ... *)
FirstIndices ==
  /\ inserted.vertices # <<>> =>
       \A v \in DOMAIN vert : inserted.vertices[leafIndex.vertex[v] + 1] = vert[v].pos
  /\ inserted.elements # <<>> =>
       \A e \in DOMAIN elem : inserted.elements[leafIndex.element[e] + 1] * meshSize = left(e)

(* ... and what the flag of the grid says of the boundary segments. *)
SegmentOrder ==
  /\ DOMAIN inserted = {"vertices", "elements", "segments"}
  /\ inserted.segments = IF entities.reversed THEN <<numElements * meshSize, 0>> ELSE <<0, numElements * meshSize>>

Inserted == Standing /\ FirstIndices /\ SegmentOrder

(* The ends of the domain differ. *)
LEMMA TwoEnds ==
  /\ Min(Ends) = 0 /\ Max(Ends) = numElements * meshSize /\ 0 < numElements * meshSize
  /\ numElements * meshSize \in Int
  /\ IsFiniteSet(Ends) /\ Cardinality(Ends) = 2
<1> DEFINE z == numElements * meshSize
<1>1. z \in Int /\ 0 < z
  <2>1. numElements \in Int /\ 0 < numElements /\ 0 \in Int /\ 0 * meshSize = 0
    BY numElementsAssumption, MeshSize
  <2>2. numElements * meshSize \in Int /\ 0 * meshSize < numElements * meshSize
    BY <2>1, MeshSize, TimesOrder
  <2>3. QED BY <2>1, <2>2
<1>2. Ends = {0, z}
  BY DEF Ends
<1> HIDE DEF z
<1>3. Min(Ends) = 0
  <2>1. 0 \in Ends /\ \A y \in Ends : 0 <= y
    BY <1>1, <1>2
  <2>2. \A x \in Ends : (\A y \in Ends : x <= y) => x = 0
    BY <1>1, <1>2
  <2>3. QED BY <2>1, <2>2 DEF Min
<1>4. Max(Ends) = z
  <2>1. z \in Ends /\ \A y \in Ends : z >= y
    BY <1>1, <1>2
  <2>2. \A x \in Ends : (\A y \in Ends : x >= y) => x = z
    BY <1>1, <1>2
  <2>3. QED BY <2>1, <2>2 DEF Max
<1>5. IsFiniteSet(Ends) /\ Cardinality(Ends) = 2
  <2>1. IsFiniteSet({0}) /\ Cardinality({0}) = 1
    BY FS_Singleton
  <2>2. z \notin {0} /\ Ends = {0} \cup {z}
    BY <1>1, <1>2
  <2>3. QED BY <2>1, <2>2, FS_AddElement
<1>6. QED BY <1>1, <1>3, <1>4, <1>5 DEF z

(* It follows. *)
LEMMA InsertedOrder == Inserted => InsertionOrder
<1> SUFFICES ASSUME Inserted PROVE InsertionOrder
  OBVIOUS
<1>1. FirstIndices /\ SegmentOrder /\ Standing
  BY DEF Inserted
<1>2. PICK z : /\ z = numElements * meshSize /\ 0 < z /\ z \in Int /\ Min(Ends) = 0 /\ Max(Ends) = z
               /\ inserted.segments = IF entities.reversed THEN <<z, 0>> ELSE <<0, z>>
  BY <1>1, TwoEnds DEF SegmentOrder
<1>3. \A e \in DOMAIN elem : elem[e].reversed = entities.reversed
  <2>1. Flags(entities)
    BY <1>1, Parts DEF Standing
  <2>2. QED BY <2>1 DEF Flags, elem, Es
<1>4. entities.reversed \in BOOLEAN
  <2>1. Typed(entities)
    BY <1>1, Parts DEF Standing
  <2>2. QED BY <2>1 DEF Typed
<1>5. ASSUME NEW e \in DOMAIN elem
      PROVE  /\ inserted.segments[boundarySegmentIndex(e, 0) + 1] = 0
             /\ inserted.segments[boundarySegmentIndex(e, 1) + 1] = z
  <2>1. CASE entities.reversed = TRUE
    <3>1. boundarySegmentIndex(e, 0) = 1 /\ boundarySegmentIndex(e, 1) = 0
      BY <1>3, <2>1 DEF boundarySegmentIndex
    <3>2. inserted.segments = <<z, 0>>
      BY <1>2, <2>1
    <3>3. QED BY <3>1, <3>2
  <2>2. CASE entities.reversed = FALSE
    <3>1. boundarySegmentIndex(e, 0) = 0 /\ boundarySegmentIndex(e, 1) = 1
      BY <1>3, <2>2 DEF boundarySegmentIndex
    <3>2. inserted.segments = <<0, z>>
      BY <1>2, <2>2
    <3>3. QED BY <3>1, <3>2
  <2>3. QED BY <1>4, <2>1, <2>2
<1>6. \A e \in DOMAIN elem :
        /\ left(e)  = Min(Ends) => inserted.segments[boundarySegmentIndex(e, 0) + 1] = left(e)
        /\ right(e) = Max(Ends) => inserted.segments[boundarySegmentIndex(e, 1) + 1] = right(e)
  BY <1>2, <1>5
<1>7. QED BY <1>1, <1>6 DEF InsertionOrder, FirstIndices

-----------------------------------------------------------------------------
(* The factory *)

(* The numbers of the vertices are their places in the order of insertion. *)
LEMMA NumbersOfPositions ==
  ASSUME NEW positions \in SetToSeqs(Positions), NEW vp, vp = vertexPositions(positions)
  PROVE  /\ DOMAIN vp = Positions
         /\ \A p \in Positions : vp[p] \in 0..numElements /\ positions[vp[p] + 1] = p
         /\ \A p, q \in Positions : vp[p] = vp[q] => p = q
         /\ \A p \in Positions : vertexPositionsByIndex(vp)[vp[p]] = p
<1> DEFINE D == 1..numElements + 1
           at_(p) == {k \in DOMAIN positions : positions[k] = p}
<1>0. numElements \in Nat
  BY numElementsAssumption
<1>1. positions \in [D -> Positions] /\ \A i, j \in D : i # j => positions[i] # positions[j]
  BY PositionsCount DEF SetToSeqs
<1>2. DOMAIN vp = Positions
  BY InsertedPositions
<1>3. \A p \in Positions : vp[p] = Min(at_(p)) - 1 /\ \E k \in D : positions[k] = p
  <2>1. vp = [p \in ToSet(positions) |-> Min(at_(p)) - 1]
    BY DEF vertexPositions
  <2>2. ToSet(positions) = Positions
    BY <1>2, <2>1
  <2>3. \A p \in Positions : \E k \in DOMAIN positions : positions[k] = p
    BY <2>2 DEF ToSet
  <2>4. QED BY <1>1, <2>1, <2>2, <2>3
<1>4. ASSUME NEW p \in Positions
      PROVE  vp[p] \in 0..numElements /\ positions[vp[p] + 1] = p
  <2>1. PICK k \in D : positions[k] = p
    BY <1>3
  <2>2. \A x : x \in at_(p) <=> x = k
    BY <1>1, <2>1
  <2>3. k \in Nat /\ k >= 1
    BY <1>0
  <2> DEFINE A == at_(p)
  <2>4. \A x : x \in A <=> x = k
    BY <2>2
  <2> HIDE DEF A
  <2>5. k \in A /\ (\A y \in A : k <= y) /\ \A x \in A : x = k
    BY <2>3, <2>4
  <2>6. Min(A) = k
    BY <2>5 DEF Min
  <2>7. vp[p] = k - 1
    BY <1>3, <2>6 DEF A
  <2>8. vp[p] \in 0..numElements /\ vp[p] + 1 = k
    BY <1>0, <2>3, <2>7
  <2>9. QED BY <2>1, <2>8
<1>5. \A p, q \in Positions : vp[p] = vp[q] => p = q
  BY <1>4
<1>6. ASSUME NEW p \in Positions
      PROVE  vertexPositionsByIndex(vp)[vp[p]] = p
  <2>1. vp[p] \in {vp[q] : q \in DOMAIN vp}
    BY <1>2
  <2>2. vertexPositionsByIndex(vp)[vp[p]] = CHOOSE q \in DOMAIN vp : vp[q] = vp[p]
    BY <2>1 DEF vertexPositionsByIndex
  <2>3. p \in DOMAIN vp /\ \A q \in DOMAIN vp : vp[q] = vp[p] => q = p
    BY <1>2, <1>5
  <2>4. QED BY <2>2, <2>3
<1>7. QED BY <1>2, <1>4, <1>5, <1>6

(* A function on 1..n is a sequence of the length n. *)
LEMMA FunctionLen ==
  ASSUME NEW n \in Nat, NEW f, f = [i \in 1..n |-> f[i]]
  PROVE  Len(f) = n
<1>1. PICK S : S = {f[i] : i \in 1..n}
  OBVIOUS
<1>2. f \in [1..n -> S]
  BY <1>1
<1>3. f \in Seq(S)
  BY <1>2, SeqDef
<1>4. QED BY <1>2, <1>3, LenProperties

(* The flag of a new grid tells the order of the boundary segments. *)
LEMMA FirstSegments ==
  ASSUME NEW positions \in SetToSeqs(Positions), NEW vp, vp = vertexPositions(positions),
         NEW ends, ends \in {<<>>} \cup {<<x>> : x \in Ends} \cup SetToSeqs(Ends),
         NEW r, r = reversedBoundarySegmentNumbering(vp, [i \in DOMAIN ends |-> vp[ends[i]]])
  PROVE  Segments(ends) = IF r THEN <<numElements * meshSize, 0>> ELSE <<0, numElements * meshSize>>
<1>1. PICK z, s : /\ z = numElements * meshSize /\ 0 < z /\ z \in Int /\ Ends = {0, z} /\ Cardinality(Ends) = 2
                  /\ s = [i \in DOMAIN ends |-> vp[ends[i]]]
  BY TwoEnds DEF Ends
<1>2. DOMAIN vp = Positions /\ 0 \in Positions /\ z \in Positions /\ Positions \subseteq Nat
  <2>1. 0 \in 0..numElements /\ numElements \in 0..numElements /\ 0 * meshSize = 0
    BY numElementsAssumption, MeshSize
  <2>2. 0 * meshSize \in Positions /\ numElements * meshSize \in Positions
    BY <2>1 DEF Positions
  <2>3. QED BY <1>1, <2>1, <2>2, PositionsCount, NumbersOfPositions
<1>3. Min(DOMAIN vp) = 0
  <2>1. 0 \in Positions /\ \A y \in Positions : 0 <= y
    BY <1>2
  <2>2. \A x \in Positions : (\A y \in Positions : x <= y) => x = 0
    BY <1>2
  <2>3. QED BY <1>2, <2>1, <2>2 DEF Min
<1>4. r \in BOOLEAN /\ (r <=> Len(s) > 1 /\ vertexPositionsByIndex(vp)[s[1]] > 0)
  <2>1. r = (Len(s) > 1 /\ vertexPositionsByIndex(vp)[s[1]] > 0)
    BY <1>1, <1>3 DEF reversedBoundarySegmentNumbering
  <2>2. QED BY <2>1
<1>5. CASE ends \in SetToSeqs(Ends)
  <2>1. ends \in [1..2 -> Ends] /\ ends[1] # ends[2] /\ ends[1] \in Ends /\ ends[2] \in Ends
    <3>1. PICK E : E = Ends
      OBVIOUS
    <3>2. ends \in [1..2 -> E] /\ \A i, j \in 1..2 : i # j => ends[i] # ends[j]
      BY <1>1, <1>5, <3>1 DEF SetToSeqs
    <3>3. 1 \in 1..2 /\ 2 \in 1..2 /\ 1 # 2
      OBVIOUS
    <3>4. QED BY <3>1, <3>2, <3>3
  <2>2. Len(ends) = 2 /\ DOMAIN ends = 1..2
    <3>1. ends = [i \in 1..2 |-> ends[i]]
      BY <2>1
    <3>2. QED BY <3>1, <2>1, FunctionLen
  <2>3. Len(s) = 2
    <3>1. s = [i \in 1..2 |-> s[i]]
      BY <1>1, <2>2
    <3>2. QED BY <3>1, FunctionLen
  <2>4. s[1] = vp[ends[1]] /\ ends[1] \in Positions
    BY <1>1, <1>2, <2>1
  <2>5. vertexPositionsByIndex(vp)[s[1]] = ends[1]
    BY <2>4, NumbersOfPositions
  <2>6. r <=> ends[1] > 0
    BY <1>4, <2>3, <2>5
  <2>7. Segments(ends) = ends /\ ends = <<ends[1], ends[2]>>
    <3>1. Segments(ends) = ends
      BY <2>2 DEF Segments
    <3>2. ends = <<ends[1], ends[2]>>
      BY <2>1
    <3>3. QED BY <3>1, <3>2
  <2>8. CASE ends[1] = 0
    <3>1. ends[2] = z /\ ~r
      BY <1>1, <2>1, <2>6, <2>8
    <3>2. QED BY <1>1, <2>7, <2>8, <3>1
  <2>9. CASE ends[1] = z
    <3>1. ends[2] = 0 /\ r
      BY <1>1, <2>1, <2>6, <2>9
    <3>2. QED BY <1>1, <2>7, <2>9, <3>1
  <2>10. QED BY <1>1, <2>1, <2>8, <2>9
<1>6. CASE ends = <<>>
  <2>1. Len(ends) = 0 /\ Len(s) = 0
    <3>1. s = <<>>
      BY <1>1, <1>6
    <3>2. QED BY <1>6, <3>1
  <2>2. ~r
    BY <1>4, <2>1
  <2>3. QED BY <2>1, <2>2 DEF Segments
<1>7. CASE \E x \in Ends : ends = <<x>>
  <2>1. PICK x \in Ends : ends = <<x>>
    BY <1>7
  <2>2. DOMAIN ends = 1..1 /\ ends[1] = x /\ Len(ends) = 1
    BY <2>1
  <2>3. Len(s) = 1
    <3>1. s = [i \in 1..1 |-> s[i]]
      BY <1>1, <2>2
    <3>2. QED BY <3>1, FunctionLen
  <2>4. ~r
    BY <1>4, <2>3
  <2>5. QED BY <2>2, <2>4 DEF Segments
<1>8. QED BY <1>5, <1>6, <1>7

(* The elements are found by their left ends. *)
LEMMA ElementsFound ==
  ASSUME NEW positions \in SetToSeqs(Positions), NEW vp, vp = vertexPositions(positions),
         NEW cells \in SetToSeqs(0..numElements-1), NEW elements_,
         elements_ = [i \in DOMAIN cells |-> <<vp[cells[i] * meshSize], vp[(cells[i] + 1) * meshSize]>>],
         NEW by, by = elementsByPosition(vp, elements_)
  PROVE  /\ DOMAIN by = Multiples(numElements - 1)
         /\ \A k \in 0..numElements - 1 : by[k * meshSize] \in 0..numElements-1 /\ cells[by[k * meshSize] + 1] = k
<1> DEFINE n == numElements
           C == 0..n-1
           D == 1..n
           I == 0..n-1
<1>0. n \in Nat /\ n >= 1
  BY numElementsAssumption
<1>1. cells \in [D -> C] /\ (\A i, j \in D : i # j => cells[i] # cells[j]) /\ DOMAIN cells = D
  <2>1. Cardinality(C) = n /\ IsFiniteSet(C)
    BY <1>0, FS_Interval
  <2>2. QED BY <2>1 DEF SetToSeqs
<1>2. ToSet(cells) = C
  <2>1. IsFiniteSet(C) /\ IsFiniteSet(D) /\ Cardinality(C) = Cardinality(D)
    BY <1>0, FS_Interval
  <2> HIDE DEF D, C
  <2>2. cells \in Injection(D, C)
    BY <1>1 DEF Injection, IsInjective
  <2>3. cells \in Surjection(D, C)
    BY <2>1, <2>2, FS_Injection
  <2>4. QED BY <1>1, <2>3 DEF ToSet, Surjection
<1>3. Len(elements_) = n /\ DOMAIN elements_ = D
  <2>1. DOMAIN elements_ = D /\ elements_ = [i \in D |-> elements_[i]]
    BY <1>1
  <2>2. QED BY <1>0, <2>1, FunctionLen
<1> DEFINE leftEnd(i) == vertexPositionsByIndex(vp)[elements_[i + 1][1]]
<1>4. \A i \in I : i + 1 \in D /\ leftEnd(i) = cells[i + 1] * meshSize /\ cells[i + 1] \in C
  <2> TAKE i \in I
  <2>1. i + 1 \in D
    BY <1>0
  <2>2. cells[i + 1] \in C /\ elements_[i + 1][1] = vp[cells[i + 1] * meshSize]
    BY <1>1, <2>1
  <2>3. cells[i + 1] * meshSize \in Positions
    <3>1. cells[i + 1] \in 0..numElements
      BY <1>0, <2>2
    <3>2. QED BY <3>1 DEF Positions
  <2>4. vertexPositionsByIndex(vp)[vp[cells[i + 1] * meshSize]] = cells[i + 1] * meshSize
    BY <2>3, NumbersOfPositions
  <2>5. QED BY <2>1, <2>2, <2>4
<1>5. by = [p \in {leftEnd(i) : i \in I} |-> Min({i \in I : leftEnd(i) = p})]
  <2>1. 0..Len(elements_)-1 = I
    BY <1>3
  <2>2. QED BY <2>1 DEF elementsByPosition
<1> HIDE DEF leftEnd
<1>6. \A k \in C : \E i \in I : cells[i + 1] = k
  <2> TAKE k \in C
  <2>1. PICK j \in D : cells[j] = k
    BY <1>1, <1>2 DEF ToSet
  <2>2. j - 1 \in I /\ (j - 1) + 1 = j
    BY <1>0
  <2>3. QED BY <2>1, <2>2
<1>7. DOMAIN by = Multiples(n - 1)
  <2>1. \A p : (\E i \in I : leftEnd(i) = p) <=> \E k \in C : p = k * meshSize
    BY <1>4, <1>6
  <2>2. \A p : p \in DOMAIN by <=> p \in Multiples(n - 1)
    BY <1>5, <2>1 DEF Multiples
  <2>3. DOMAIN by = {leftEnd(i) : i \in I}
    BY <1>5
  <2>4. QED BY <2>2, <2>3 DEF Multiples
<1>8. ASSUME NEW k \in C
      PROVE  by[k * meshSize] \in I /\ cells[by[k * meshSize] + 1] = k
  <2>1. PICK i \in I : cells[i + 1] = k
    BY <1>6
  <2>2. \A j \in I : leftEnd(j) = k * meshSize <=> j = i
    <3> TAKE j \in I
    <3>1. cells[j + 1] \in Int /\ k \in Int
      <4>1. cells[j + 1] \in C /\ k \in C
        BY <1>4
      <4>2. C \subseteq Int
        BY <1>0
      <4> HIDE DEF C, I
      <4>3. QED BY <4>1, <4>2
    <3>2. leftEnd(j) = cells[j + 1] * meshSize
      BY <1>4
    <3>3. (cells[j + 1] = k) <=> (cells[j + 1] * meshSize = k * meshSize)
      BY <3>1, MeshSize, TimesOrder
    <3>4. cells[j + 1] = k <=> j = i
      <4>1. j + 1 \in D /\ i + 1 \in D /\ (j # i => j + 1 # i + 1)
        BY <1>4
      <4>2. QED BY <1>1, <2>1, <4>1
    <3>5. QED BY <3>2, <3>3, <3>4
  <2> DEFINE A == {j \in I : leftEnd(j) = k * meshSize}
  <2>3. i \in Nat /\ \A x : x \in A <=> x = i
    BY <1>0, <2>2
  <2>4. k * meshSize \in {leftEnd(j) : j \in I}
    BY <2>2
  <2>5. by[k * meshSize] = Min(A)
    BY <1>5, <2>4
  <2> HIDE DEF A
  <2>6. i \in A /\ (\A y \in A : i <= y) /\ \A x \in A : x = i
    BY <2>3
  <2>7. Min(A) = i
    BY <2>6 DEF Min
  <2>8. QED BY <2>1, <2>5, <2>7
<1>9. QED BY <1>7, <1>8

(* The indices of a new grid are the numbers of insertion. *)
LEMMA InitialIndices ==
  ASSUME NEW positions \in SetToSeqs(Positions), NEW vp, vp = vertexPositions(positions),
         NEW cells \in SetToSeqs(0..numElements-1), NEW elements_,
         elements_ = [i \in DOMAIN cells |-> <<vp[cells[i] * meshSize], vp[(cells[i] + 1) * meshSize]>>],
         NEW x, x = initialIndices(vp, elements_), NEW g, Macro(g)
  PROVE  /\ DOMAIN x.element = Es(g) /\ DOMAIN x.vertex = Vs(g)
         /\ \A v \in Vs(g) : x.vertex[v] \in 0..numElements /\ positions[x.vertex[v] + 1] = Pos(g, v)
         /\ \A e \in Es(g) : x.element[e] \in 0..numElements-1 /\ cells[x.element[e] + 1] * meshSize = Lo(g, e)
<1> DEFINE n == numElements
           by == elementsByPosition(vp, elements_)
<1>0. n \in Nat /\ n >= 1 /\ n - 1 \in Nat /\ (n - 1) + 1 = n /\ (n + 1) - 1 = n /\ (n + 1) - 2 = n - 1
  BY numElementsAssumption
<1>1. DOMAIN vp = Positions /\ Cardinality(DOMAIN vp) = n + 1
  BY PositionsCount, NumbersOfPositions
<1>2. DOMAIN by = Multiples(n - 1) /\ \A k \in 0..n-1 : by[k * meshSize] \in 0..n-1 /\ cells[by[k * meshSize] + 1] = k
  BY ElementsFound
<1>3. x = [element |-> [e \in {0} \X (0..n-1) |-> by[sorted(Multiples(n - 1))[e[2] + 1]]],
           vertex  |-> [v \in {0} \X (0..n) |-> vp[sorted(Positions)[v[2] + 1]]]]
  <2> HIDE DEF by
  <2>1. x = [element |-> [e \in {0} \X (0..Cardinality(DOMAIN vp)-2) |-> by[sorted(DOMAIN by)[e[2] + 1]]],
             vertex  |-> [v \in {0} \X (0..Cardinality(DOMAIN vp)-1) |-> vp[sorted(DOMAIN vp)[v[2] + 1]]]]
    BY DEF initialIndices, by
  <2>2. QED BY <1>0, <1>1, <1>2, <2>1
<1> HIDE DEF by
<1>4. Vs(g) = {0} \X (0..n) /\ Es(g) = {0} \X (0..n-1)
  BY DEF Macro
<1>a. /\ x.element = [e \in {0} \X (0..n-1) |-> by[sorted(Multiples(n - 1))[e[2] + 1]]]
      /\ x.vertex = [v \in {0} \X (0..n) |-> vp[sorted(Positions)[v[2] + 1]]]
  <2>1. PICK E, V : /\ E = [e \in {0} \X (0..n-1) |-> by[sorted(Multiples(n - 1))[e[2] + 1]]]
                    /\ V = [v \in {0} \X (0..n) |-> vp[sorted(Positions)[v[2] + 1]]]
    OBVIOUS
  <2>2. x = [element |-> E, vertex |-> V]
    BY <1>3, <2>1
  <2>3. x.element = E /\ x.vertex = V
    BY <2>2
  <2>4. QED BY <2>1, <2>3
<1>5. DOMAIN x.element = Es(g) /\ DOMAIN x.vertex = Vs(g)
  BY <1>a, <1>4
<1>6. ASSUME NEW v \in Vs(g)
      PROVE  x.vertex[v] \in 0..numElements /\ positions[x.vertex[v] + 1] = Pos(g, v)
  <2>1. PICK p : p = sorted(Positions)[v[2] + 1]
    OBVIOUS
  <2>2. x.vertex[v] = vp[p]
    BY <1>a, <1>4, <2>1
  <2>3. Pos(g, v) = p
    BY <2>1 DEF Macro, MacroVertices, Pos
  <2>4. p \in Positions
    <3>1. v[2] \in 0..n
      BY <1>4
    <3>2. v[2] + 1 \in 1..n + 1
      BY <1>0, <3>1
    <3>3. QED BY <2>1, <3>2, SortedPositions
  <2>5. QED BY <2>2, <2>3, <2>4, NumbersOfPositions
<1>7. ASSUME NEW e \in Es(g)
      PROVE  x.element[e] \in 0..numElements-1 /\ cells[x.element[e] + 1] * meshSize = Lo(g, e)
  <2>1. PICK k \in 0..n-1 : k = e[2] /\ k = id(e)
    BY <1>4 DEF id
  <2>2. Lo(g, e) = k * meshSize
    BY <2>1, MacroFacts
  <2>3. sorted(Multiples(n - 1))[k + 1] = k * meshSize
    <3>1. k + 1 \in 1..(n - 1) + 1 /\ (k + 1) - 1 = k
      BY <1>0
    <3>2. PICK j \in 1..(n - 1) + 1 : j = k + 1 /\ j - 1 = k
      BY <3>1
    <3>3. sorted(Multiples(n - 1))[j] = (j - 1) * meshSize
      BY <1>0, SortedMultiples
    <3>4. QED BY <3>2, <3>3
  <2>4. x.element[e] = by[k * meshSize]
    <3>1. e \in {0} \X (0..n-1)
      BY <1>4
    <3>2. x.element[e] = by[sorted(Multiples(n - 1))[e[2] + 1]]
      BY <1>a, <3>1
    <3>3. QED BY <2>1, <2>3, <3>2
  <2>5. QED BY <1>2, <2>2, <2>4
<1>8. QED BY <1>5, <1>6, <1>7

(* The order is right when the factory has made the grid. *)
LEMMA InitInserted == Init => Inserted
<1> SUFFICES ASSUME Init PROVE Inserted
  OBVIOUS
<1>1. PICK positions \in SetToSeqs(Positions), cells \in SetToSeqs(0..numElements-1),
           ends \in {<<>>} \cup {<<x>> : x \in Ends} \cup SetToSeqs(Ends) :
        LET vp == vertexPositions(positions)
            number(k) == vp[k * meshSize]
            elements_ == [i \in DOMAIN cells |-> <<number(cells[i]), number(cells[i] + 1)>>]
        IN  /\ entities = createGrid(vp, [i \in DOMAIN ends |-> vp[ends[i]]])
            /\ leafIndex = initialIndices(vp, elements_)
            /\ inserted = [vertices |-> positions, elements |-> cells, segments |-> Segments(ends)]
  BY DEF Init
<1>2. PICK vp, segments, elements_ :
        /\ vp = vertexPositions(positions) /\ segments = [i \in DOMAIN ends |-> vp[ends[i]]]
        /\ elements_ = [i \in DOMAIN cells |-> <<vp[cells[i] * meshSize], vp[(cells[i] + 1) * meshSize]>>]
        /\ entities = createGrid(vp, segments)
        /\ leafIndex = initialIndices(vp, elements_)
        /\ inserted = [vertices |-> positions, elements |-> cells, segments |-> Segments(ends)]
  BY <1>1
<1>3. Macro(entities) /\ Standing
  <2>1. DOMAIN vp = Positions
    BY <1>2, InsertedPositions
  <2>2. QED BY <1>2, <2>1, CreatedMacro, InitStanding
<1>4. FirstIndices
  <2>1. /\ DOMAIN leafIndex.element = Es(entities) /\ DOMAIN leafIndex.vertex = Vs(entities)
        /\ \A v \in Vs(entities) : positions[leafIndex.vertex[v] + 1] = Pos(entities, v)
        /\ \A e \in Es(entities) : cells[leafIndex.element[e] + 1] * meshSize = Lo(entities, e)
    <3>1. PICK x, g : x = leafIndex /\ g = entities
      OBVIOUS
    <3>2. x = initialIndices(vp, elements_) /\ Macro(g) /\ vp = vertexPositions(positions)
          /\ elements_ = [i \in DOMAIN cells |-> <<vp[cells[i] * meshSize], vp[(cells[i] + 1) * meshSize]>>]
      BY <1>2, <1>3, <3>1
    <3>3. /\ DOMAIN x.element = Es(g) /\ DOMAIN x.vertex = Vs(g)
          /\ \A v \in Vs(g) : positions[x.vertex[v] + 1] = Pos(g, v)
          /\ \A e \in Es(g) : cells[x.element[e] + 1] * meshSize = Lo(g, e)
      BY <3>2, InitialIndices
    <3>4. QED BY <3>1, <3>3
  <2>2. /\ DOMAIN elem = Es(entities) /\ DOMAIN vert = Vs(entities)
        /\ \A e : left(e) = Lo(entities, e)
        /\ \A v : vert[v].pos = Pos(entities, v)
    BY <1>3, Names DEF Standing
  <2>3. inserted.vertices = positions /\ inserted.elements = cells
    BY <1>2
  <2>4. QED BY <2>1, <2>2, <2>3 DEF FirstIndices
<1>5. SegmentOrder
  <2>1. PICK r : r = reversedBoundarySegmentNumbering(vp, segments)
    OBVIOUS
  <2>2. entities.reversed = r
    BY <1>2, <2>1 DEF createGrid
  <2>3. Segments(ends) = IF r THEN <<numElements * meshSize, 0>> ELSE <<0, numElements * meshSize>>
    BY <1>2, <2>1, FirstSegments
  <2>4. inserted.segments = Segments(ends) /\ DOMAIN inserted = {"vertices", "elements", "segments"}
    BY <1>2
  <2>5. QED BY <2>2, <2>3, <2>4 DEF SegmentOrder
<1>6. QED BY <1>3, <1>4, <1>5 DEF Inserted

-----------------------------------------------------------------------------
(* Steps *)

(* The flag stays. *)
LEMMA MovesReversed ==
  ASSUME Standing, Moves
  PROVE  entities'.reversed = entities.reversed
<1>1. CASE UNCHANGED entities
  BY <1>1
<1>2. CASE Remarked(entities, entities')
  BY <1>2 DEF Remarked
<1>3. CASE entities' = [entities EXCEPT !.failed = TRUE]
  <2>1. Shape(entities)
    BY WFRecords DEF Standing
  <2>2. QED BY <1>3, <2>1 DEF Shape
<1>4. QED BY <1>1, <1>2, <1>3 DEF Moves

(* The grid stays but for marks and the flag of failure, or the order of   *)
(* insertion is forgotten.                                                 *)
Forgets ==
  /\ DOMAIN inserted' = DOMAIN inserted /\ inserted'.segments = inserted.segments
  /\ \/ inserted'.vertices = <<>> /\ inserted'.elements = <<>>
     \/ /\ UNCHANGED <<leafIndex, inserted>>
        /\ \/ UNCHANGED entities
           \/ Remarked(entities, entities')
           \/ entities' = [entities EXCEPT !.failed = TRUE]

(* What globalRefine() and adapt() become in the end is such a step. *)
LEMMA BecomesForgets ==
  ASSUME NEW g, Becomes(g), DOMAIN inserted = {"vertices", "elements", "segments"}
  PROVE  Forgets
<1>1. CASE g.failed
  BY <1>1 DEF Becomes, Forgets
<1>2. CASE ~g.failed
  <2>1. inserted' = [inserted EXCEPT !.vertices = <<>>, !.elements = <<>>]
    BY <1>2 DEF Becomes
  <2>2. DOMAIN inserted' = DOMAIN inserted /\ inserted'.segments = inserted.segments
        /\ inserted'.vertices = <<>> /\ inserted'.elements = <<>>
    BY <2>1
  <2>3. QED BY <2>2 DEF Forgets
<1>3. QED BY <1>1, <1>2

(* Every step is of this kind. *)
LEMMA NextForgets ==
  ASSUME Standing, [Next]_vars, DOMAIN inserted = {"vertices", "elements", "segments"}
  PROVE  Forgets
<1>1. CASE SetRefinementType
  BY <1>1 DEF SetRefinementType, Forgets
<1>2. CASE Mark
  <2>1. PICK e \in leaves, m \in MarkStates :
          /\ m = "REFINE" => level(e) < LevelLimit
          /\ entities' = [entities EXCEPT !.element[e].markState = m]
          /\ UNCHANGED <<leafIndex, inserted>>
    BY <1>2 DEF Mark
  <2>2. e \in Es(entities)
    BY DEF leaves, Es
  <2>3. Remarked(entities, entities')
    BY <2>1, <2>2, MarkKeeps DEF Standing
  <2>4. QED BY <2>1, <2>3 DEF Forgets
<1>3. CASE Adapt
  <2>1. Becomes(Adapted(entities))
    BY <1>3 DEF Adapt
  <2>2. PICK g : g = Adapted(entities)
    OBVIOUS
  <2>3. Becomes(g)
    BY <2>1, <2>2
  <2>4. QED BY <2>3, BecomesForgets
<1>4. CASE PostAdapt
  <2>1. entities' = Cleared(entities) /\ UNCHANGED <<leafIndex, inserted>>
    BY <1>4 DEF PostAdapt
  <2>2. Remarked(entities, entities')
    BY <2>1, ClearedKeeps DEF Standing
  <2>3. QED BY <2>1, <2>2 DEF Forgets
<1>5. CASE GlobalRefine
  <2>1. PICK refCount \in Counts :
          IF refCount > 0 THEN Becomes(RefinedTimes(entities, refCount)) ELSE UNCHANGED <<entities, leafIndex, inserted>>
    BY <1>5 DEF GlobalRefine
  <2>2. CASE ~(refCount > 0)
    BY <2>1, <2>2 DEF Forgets
  <2>3. CASE refCount > 0
    <3>1. PICK g : g = RefinedTimes(entities, refCount)
      OBVIOUS
    <3>2. Becomes(g)
      BY <2>1, <2>3, <3>1
    <3>3. QED BY <3>2, BecomesForgets
  <2>4. QED BY <2>2, <2>3
<1>6. CASE Stopped \/ UNCHANGED vars
  BY <1>6 DEF Stopped, vars, Forgets
<1>7. QED BY <1>1, <1>2, <1>3, <1>4, <1>5, <1>6 DEF Next

(* Every step keeps the order. *)
LEMMA NextInserted == Inserted /\ [Next]_vars => Inserted'
<1> SUFFICES ASSUME Inserted, [Next]_vars PROVE Inserted'
  OBVIOUS
<1>1. Standing /\ FirstIndices /\ SegmentOrder /\ DOMAIN inserted = {"vertices", "elements", "segments"}
  BY DEF Inserted, SegmentOrder
<1>2. Standing' /\ Forgets /\ entities'.reversed = entities.reversed
  BY <1>1, NextStanding, NextForgets, NextMoves, MovesReversed
<1>3. SegmentOrder'
  BY <1>1, <1>2 DEF SegmentOrder, Forgets
<1>4. ASSUME entities'.element = entities.element \/ Remarked(entities, entities'), entities'.vertex = entities.vertex,
             UNCHANGED <<leafIndex, inserted>>
      PROVE  FirstIndices'
  <2>1. DOMAIN elem' = DOMAIN elem /\ \A e \in DOMAIN elem : elem'[e].vertex = elem[e].vertex
    <3>1. CASE entities'.element = entities.element
      BY <3>1 DEF elem
    <3>2. CASE Remarked(entities, entities')
      BY <3>2 DEF elem, Remarked, Es
    <3>3. QED BY <1>4, <3>1, <3>2
  <2>2. vert' = vert
    BY <1>4 DEF vert
  <2>3. \A e \in DOMAIN elem : left(e)' = left(e)
    BY <2>1, <2>2 DEF left
  <2>4. QED BY <1>1, <1>4, <2>1, <2>2, <2>3 DEF FirstIndices
<1>5. CASE inserted'.vertices = <<>> /\ inserted'.elements = <<>>
  <2>1. FirstIndices'
    BY <1>5 DEF FirstIndices
  <2>2. QED BY <1>2, <1>3, <2>1 DEF Inserted
<1>6. CASE UNCHANGED <<leafIndex, inserted>> /\ UNCHANGED entities
  <2>1. FirstIndices'
    BY <1>4, <1>6
  <2>2. QED BY <1>2, <1>3, <2>1 DEF Inserted
<1>7. CASE UNCHANGED <<leafIndex, inserted>> /\ Remarked(entities, entities')
  <2>1. FirstIndices'
    BY <1>4, <1>7 DEF Remarked
  <2>2. QED BY <1>2, <1>3, <2>1 DEF Inserted
<1>8. CASE UNCHANGED <<leafIndex, inserted>> /\ entities' = [entities EXCEPT !.failed = TRUE]
  <2>1. Shape(entities)
    BY <1>1, WFRecords DEF Standing
  <2>2. entities'.element = entities.element /\ entities'.vertex = entities.vertex
    BY <1>8, <2>1 DEF Shape
  <2>3. FirstIndices'
    BY <1>4, <1>8, <2>2
  <2>4. QED BY <1>2, <1>3, <2>3 DEF Inserted
<1>9. QED BY <1>2, <1>5, <1>6, <1>7, <1>8 DEF Forgets

(* A new grid numbers vertices and elements in the order of their          *)
(* insertion, and the boundary segments are so numbered whatever is        *)
(* refined, coarsened or copied later.                                     *)
THEOREM InsertionOrderInvariant == Spec => []InsertionOrder
<1>1. Spec => []Inserted
  BY InitInserted, NextInserted, PTL DEF Spec
<1>2. QED BY <1>1, InsertedOrder, PTL

-----------------------------------------------------------------------------
(* The assertions hold where nothing has been copied. *)

(* No element is copied ... *)
Twofold(g) == \A e \in Es(g) : ~isLeaf(g, e) => g.element[e].sons[1] # g.element[e].sons[2]

(* ... so that each has a brother. *)
Brothers(g, l, r, i) ==
  /\ l \in Es(g) /\ r \in Es(g) /\ level(l) = i /\ level(r) = i /\ l # r
  /\ \E F \in Es(g) : /\ g.element[l].father = F /\ g.element[r].father = F
                      /\ g.element[F].sons[1] = l /\ g.element[F].sons[2] = r

(* Two sons follow each other in the list of their level. *)
LEMMA SonsAdjacent ==
  ASSUME NEW g, WF(g), NEW F \in Es(g), ~isLeaf(g, F), NEW l, NEW r, l # r,
         l = g.element[F].sons[1], r = g.element[F].sons[2],
         NEW i \in 0..maxLevel(g), NEW list, list = g.elements[i], NEW n, n = Len(list)
  PROVE  /\ l \in Es(g) /\ r \in Es(g) /\ level(l) = level(F) + 1 /\ level(r) = level(F) + 1
         /\ g.element[l].father = F /\ g.element[r].father = F
         /\ \A j \in 1..n : list[j] = l => j + 1 \in 1..n /\ list[j + 1] = r
         /\ \A j \in 1..n : list[j] = r => j - 1 \in 1..n /\ list[j - 1] = l
<1>1. /\ l \in Es(g) /\ r \in Es(g)
      /\ g.element[l].father = F /\ g.element[r].father = F /\ V1(g, l) = V0(g, r)
  BY DEF WF, Forest, SonsOf
<1>2. F # null /\ level(F) \in Nat /\ \A x \in Es(g) : level(x) \in Nat /\ x # null
  BY Basics DEF WF, Forest
<1>3. level(l) = level(F) + 1 /\ level(r) = level(F) + 1
  <2>1. \A e \in Es(g) : g.element[e].father # null => level(g.element[e].father) = level(e) - 1
    BY DEF WF, Forest, Fathers
  <2>2. level(F) = level(l) - 1 /\ level(F) = level(r) - 1
    BY <2>1, <1>1, <1>2
  <2>3. QED BY <2>2, <1>1, <1>2
<1>4. /\ r = succ(g.elements[level(l)], l) /\ l = pred(g.elements[level(r)], r)
  BY <1>1, RightNeighbor, LeftNeighbor
<1>5. /\ Listed(list, LoAt(g, i)) /\ Numbering(LoAt(g, i))
      /\ \A x : x \in DOMAIN LoAt(g, i) <=> x \in Es(g) /\ level(x) = i
  BY ListedElements DEF WF, Forest
<1>6. n \in Nat /\ DOMAIN list = 1..n /\ \A k \in 1..n : list[k] \in DOMAIN LoAt(g, i)
  BY <1>5, ListedMembers
<1>7. ASSUME NEW x \in Es(g), NEW j \in 1..n, list[j] = x
      PROVE  index(list, x) = j /\ level(x) = i
  <2>1. level(x) = i /\ x \in DOMAIN LoAt(g, i)
    BY <1>5, <1>6, <1>7
  <2>2. index(list, x) \in 1..n /\ list[index(list, x)] = x
    BY <2>1, <1>5, ListedIndex
  <2>3. index(list, x) = j
    BY <2>2, <1>5, <1>7, ListedOrder
  <2>4. QED BY <2>1, <2>3
<1>8. ASSUME NEW j \in 1..n, list[j] = l PROVE j + 1 \in 1..n /\ list[j + 1] = r
  <2>1. index(list, l) = j /\ level(l) = i
    BY <1>1, <1>7, <1>8
  <2>2. r = at(list, j + 1)
    BY <2>1, <1>4 DEF succ
  <2>3. QED BY <2>2, <1>1, <1>2, <1>6 DEF at
<1>9. ASSUME NEW j \in 1..n, list[j] = r PROVE j - 1 \in 1..n /\ list[j - 1] = l
  <2>1. index(list, r) = j /\ level(r) = i
    BY <1>1, <1>7, <1>9
  <2>2. l = at(list, j - 1)
    BY <2>1, <1>4 DEF pred
  <2>3. QED BY <2>2, <1>1, <1>2, <1>6 DEF at
<1>10. QED BY <1>1, <1>3, <1>8, <1>9

(* The lists above the macro grid consist of pairs of brothers. *)
LEMMA BrothersListed ==
  ASSUME NEW g, WF(g), Twofold(g), NEW i \in 1..maxLevel(g),
         NEW list, list = g.elements[i], NEW n, n = Len(list)
  PROVE  /\ n \in Nat
         /\ \A k \in Nat : 2 * k + 1 <= n =>
              2 * k + 2 <= n /\ Brothers(g, list[2 * k + 1], list[2 * k + 2], i)
<1>0. maxLevel(g) \in Nat /\ i \in 0..maxLevel(g)
  BY Basics DEF WF, Forest
<1>1. n \in Nat /\ \A k \in 1..n : list[k] \in Es(g) /\ level(list[k]) = i
  BY <1>0, LevelList
<1>2. ASSUME NEW x \in Es(g), level(x) = i
      PROVE  \E F \in Es(g) : /\ g.element[x].father = F /\ ~isLeaf(g, F)
                              /\ g.element[F].sons[1] # g.element[F].sons[2]
                              /\ x = g.element[F].sons[1] \/ x = g.element[F].sons[2]
  <2>1. level(x) # 0
    BY <1>2
  <2>2. PICK F : F = g.element[x].father
    OBVIOUS
  <2>3. F \in Es(g) /\ ~isLeaf(g, F)
    BY <2>1, <2>2, SonWithin DEF WF, Forest
  <2>4. F # null
    BY <2>3, Basics DEF WF, Forest
  <2>5. g.element[F].sons[1] = x \/ g.element[F].sons[2] = x
    BY <2>2, <2>4 DEF WF, Forest, Fathers
  <2>6. QED BY <2>2, <2>3, <2>5 DEF Twofold
<1> DEFINE T == {k \in Nat : 2 * k + 1 <= n =>
                   2 * k + 2 <= n /\ Brothers(g, list[2 * k + 1], list[2 * k + 2], i)}
<1>3. ASSUME NEW k \in Nat, 2 * k + 1 <= n,
             k > 0 => Brothers(g, list[2 * k - 1], list[2 * k], i)
      PROVE  2 * k + 2 <= n /\ Brothers(g, list[2 * k + 1], list[2 * k + 2], i)
  <2>1. PICK j : j = 2 * k + 1 /\ j \in 1..n
    BY <1>1, <1>3
  <2>2. PICK x : x = list[j] /\ x \in Es(g) /\ level(x) = i
    BY <1>1, <2>1
  <2>3. PICK F \in Es(g) : /\ g.element[x].father = F /\ ~isLeaf(g, F)
                           /\ g.element[F].sons[1] # g.element[F].sons[2]
                           /\ x = g.element[F].sons[1] \/ x = g.element[F].sons[2]
    BY <1>2, <2>2
  <2>4. PICK l, r : l = g.element[F].sons[1] /\ r = g.element[F].sons[2]
    OBVIOUS
  <2>5. /\ l \in Es(g) /\ r \in Es(g) /\ level(l) = level(F) + 1 /\ level(r) = level(F) + 1
        /\ g.element[l].father = F /\ g.element[r].father = F
        /\ \A m \in 1..n : list[m] = l => m + 1 \in 1..n /\ list[m + 1] = r
        /\ \A m \in 1..n : list[m] = r => m - 1 \in 1..n /\ list[m - 1] = l
    <3>1. l # r
      BY <2>3, <2>4
    <3>2. /\ F \in Es(g) /\ ~isLeaf(g, F) /\ l # r /\ i \in 0..maxLevel(g)
          /\ l = g.element[F].sons[1] /\ r = g.element[F].sons[2]
      BY <1>0, <2>3, <2>4, <3>1
    <3>3. QED BY ONLY WF(g), list = g.elements[i], n = Len(list), <3>2, SonsAdjacent, SMTT(30)
  <2>6. x # r
    <3> SUFFICES ASSUME x = r PROVE FALSE
      OBVIOUS
    <3>1. j - 1 \in 1..n /\ list[j - 1] = l
      BY <2>1, <2>2, <2>5
    <3>2. k > 0 /\ j - 1 = 2 * k
      BY <2>1, <3>1, <1>3
    <3>3. Brothers(g, list[2 * k - 1], l, i)
      BY <1>3, <3>1, <3>2
    <3>4. \E G \in Es(g) : g.element[l].father = G /\ g.element[G].sons[2] = l
      BY <3>3 DEF Brothers
    <3>5. g.element[F].sons[2] = l
      BY <3>4, <2>5
    <3>6. QED BY <3>5, <2>3, <2>4
  <2>7. x = l
    BY <2>3, <2>4, <2>6
  <2>8. j + 1 \in 1..n /\ list[j + 1] = r
    BY <2>1, <2>2, <2>5, <2>7
  <2>9. level(l) = i /\ level(r) = i /\ l # r
    BY <2>2, <2>3, <2>4, <2>5, <2>7
  <2>10. Brothers(g, l, r, i)
    BY <2>4, <2>5, <2>9 DEF Brothers
  <2>11. 2 * k + 2 = j + 1 /\ 2 * k + 2 <= n /\ j = 2 * k + 1
    BY <2>1, <2>8, <1>1
  <2>12. list[2 * k + 1] = l /\ list[2 * k + 2] = r
    BY <2>2, <2>7, <2>8, <2>11
  <2>13. QED BY <2>10, <2>11, <2>12
<1>4. 0 \in T
  BY <1>3
<1>5. ASSUME NEW k \in Nat, k \in T PROVE k + 1 \in T
  <2> SUFFICES ASSUME 2 * (k + 1) + 1 <= n
               PROVE  2 * (k + 1) + 2 <= n /\ Brothers(g, list[2 * (k + 1) + 1], list[2 * (k + 1) + 2], i)
    OBVIOUS
  <2>1. 2 * k + 1 <= n /\ 2 * (k + 1) - 1 = 2 * k + 1 /\ 2 * (k + 1) = 2 * k + 2 /\ k + 1 \in Nat
    BY <1>1
  <2>2. Brothers(g, list[2 * k + 1], list[2 * k + 2], i)
    BY <1>5, <2>1
  <2>3. Brothers(g, list[2 * (k + 1) - 1], list[2 * (k + 1)], i)
    BY <2>1, <2>2
  <2>4. PICK m : m = k + 1 /\ m \in Nat
    BY <2>1
  <2>5. 2 * m + 1 <= n /\ Brothers(g, list[2 * m - 1], list[2 * m], i)
    BY <2>3, <2>4
  <2>6. 2 * m + 2 <= n /\ Brothers(g, list[2 * m + 1], list[2 * m + 2], i)
    BY <1>3, <2>4, <2>5
  <2>7. QED BY <2>4, <2>6
<1> HIDE DEF T
<1>6. Nat \subseteq T
  BY <1>4, <1>5, InductionOn
<1>7. QED BY <1>1, <1>6 DEF T

(* What is carried through the coarsening of a level: the grid is          *)
(* consistent, no element has a copy, no assertion has failed.             *)
Whole(g) == WF(g) /\ Twofold(g) /\ g.failed = FALSE

(* The assertions hold for two brothers. *)
LEMMA BrothersAssert ==
  ASSUME NEW g, WF(g), NEW l, NEW r, NEW F, NEW i, Sons(g, l, r, F, i)
  PROVE  pairAsserts(g, l, r)
<1>1. /\ son(g, V0(g, F)) = V0(g, l) /\ son(g, V1(g, F)) = V1(g, r) /\ V1(g, l) = V0(g, r)
  BY SonsFacts
<1>2. g.element[l].father = F /\ g.element[r].father = F /\ g.element[F].sons[2] = r
  BY DEF Sons
<1>3. QED BY <1>1, <1>2 DEF pairAsserts, son, V0, V1

(* Two brothers stay, or go together; other brothers stay brothers. *)
LEMMA BrothersKeep ==
  ASSUME NEW g, Whole(g), NEW i \in 1..maxLevel(g), NEW l, NEW r, Brothers(g, l, r, i),
         NEW h, h = CoarsenPair(g, l, r)
  PROVE  /\ Whole(h) /\ Beyond(g, h, i)
         /\ \A x, y : Brothers(g, x, y, i) /\ x \notin {l, r} /\ y \notin {l, r} => Brothers(h, x, y, i)
<1>0. WF(g) /\ Twofold(g) /\ g.failed = FALSE /\ Shape(g) /\ Records(g)
  BY WFRecords DEF Whole
<1>1. l \in Es(g) /\ r \in Es(g) /\ level(l) = i /\ level(r) = i /\ l # r /\ r # null
  BY <1>0, Basics DEF Brothers, WF, Forest
<1>2. PICK F \in Es(g) : /\ g.element[l].father = F /\ g.element[r].father = F
                         /\ g.element[F].sons[1] = l /\ g.element[F].sons[2] = r
  BY DEF Brothers
<1>3. CASE ~removable(g, l, r)
  <2>1. h = g
    BY <1>0, <1>1, <1>3 DEF CoarsenPair
  <2>2. QED BY <1>0, <2>1, BeyondItself
<1>4. CASE removable(g, l, r)
  <2>1. isLeaf(g, l) /\ isLeaf(g, r)
    BY <1>4 DEF removable
  <2>2. level(F) = i - 1
    <3>1. F # null
      BY <1>0, Basics DEF WF, Forest
    <3>2. \A e \in Es(g) : g.element[e].father # null => level(g.element[e].father) = level(e) - 1
      BY <1>0 DEF WF, Forest, Fathers
    <3>3. QED BY <1>1, <1>2, <3>1, <3>2
  <2>3. Sons(g, l, r, F, i)
    BY <1>1, <1>2, <2>1, <2>2 DEF Sons
  <2>4. pairAsserts(g, l, r)
    BY <1>0, <2>3, BrothersAssert
  <2>5. h = Removed(g, l, r)
    BY <1>0, <1>1, <1>4, <2>4 DEF CoarsenPair
  <2>6. WF(h) /\ h.failed = FALSE /\ Es(h) = Es(g) \ {l, r}
    BY <1>0, <2>3, <2>5, RemovedKeeps
  <2>7. /\ Beyond(g, h, i)
        /\ \A x \in Es(h) :
             /\ h.element[x].father = g.element[x].father
             /\ x # F => h.element[x].sons = g.element[x].sons
             /\ x = F => h.element[x].sons[1] = null
    BY <1>0, <1>1, <1>2, <2>5, RemovedFields
  <2>8. Twofold(h)
    <3> SUFFICES ASSUME NEW x \in Es(h), ~isLeaf(h, x) PROVE h.element[x].sons[1] # h.element[x].sons[2]
      BY DEF Twofold
    <3>1. leafOrNot(h, x)
      BY <2>6, TwoSonsOrNone
    <3>2. x # F
      BY <2>7, <3>1 DEF leafOrNot
    <3>3. h.element[x].sons = g.element[x].sons /\ x \in Es(g)
      BY <2>6, <2>7, <3>2
    <3>4. ~isLeaf(g, x)
      BY <3>3 DEF isLeaf
    <3>5. QED BY <1>0, <3>3, <3>4 DEF Twofold
  <2>9. ASSUME NEW x, NEW y, Brothers(g, x, y, i), x \notin {l, r}, y \notin {l, r} PROVE Brothers(h, x, y, i)
    <3>1. x \in Es(h) /\ y \in Es(h) /\ level(x) = i /\ level(y) = i /\ x # y
      BY <2>6, <2>9 DEF Brothers
    <3>2. PICK G \in Es(g) : /\ g.element[x].father = G /\ g.element[y].father = G
                             /\ g.element[G].sons[1] = x /\ g.element[G].sons[2] = y
      BY <2>9 DEF Brothers
    <3>3. G # F /\ ~isLeaf(g, G)
      <4>1. G # F
        BY <1>2, <2>9, <3>2
      <4>2. leafOrNot(g, G) /\ x # null
        BY <1>0, <2>9, TwoSonsOrNone, Basics DEF Brothers, WF, Forest
      <4>3. QED BY <3>2, <4>1, <4>2 DEF leafOrNot
    <3>4. G \in Es(h)
      BY <2>1, <2>6, <3>3
    <3>5. h.element[G].sons = g.element[G].sons /\ h.element[x].father = G /\ h.element[y].father = G
      BY <2>7, <3>1, <3>2, <3>3, <3>4
    <3>6. QED BY <3>1, <3>2, <3>4, <3>5 DEF Brothers
  <2>10. Whole(h)
    BY <2>6, <2>8 DEF Whole
  <2>11. QED BY <2>7, <2>9, <2>10
<1>5. QED BY <1>3, <1>4

(* The pairs of brothers are taken one after the other. *)
LEMMA LevelWhole ==
  ASSUME NEW g, Whole(g), NEW i \in 1..maxLevel(g), NEW h, h = CoarsenLevel(g, i)
  PROVE  Whole(h) /\ Beyond(g, h, i)
<1> DEFINE list == g.elements[i]
           n == Len(list)
           m == (n + 1) \div 2
<1>0. WF(g) /\ Twofold(g) /\ Shape(g) /\ i \in 0..maxLevel(g)
  BY WFRecords, Basics DEF Whole, WF, Forest
<1>1. n \in Nat
      /\ \A k \in Nat : 2 * k + 1 <= n =>
           2 * k + 2 <= n /\ Brothers(g, list[2 * k + 1], list[2 * k + 2], i)
  BY <1>0, BrothersListed
<1>2. DOMAIN list = 1..n /\ \A j, k \in 1..n : j # k => list[j] # list[k]
  <2>1. /\ Listed(list, LoAt(g, i)) /\ Numbering(LoAt(g, i))
    BY <1>0, ListedElements DEF WF, Forest
  <2>2. QED BY <2>1, ListedMembers, ListedOrder
<1>3. m \in Nat /\ \A k \in Nat : k + 1 <= m => 2 * k + 1 <= n
  <2>1. m \in Nat /\ \A k \in Nat : k + 1 <= m => 2 * (k + 1) - 1 \in 1..n
    BY <1>1, PairNumbers
  <2> HIDE DEF m
  <2> HIDE DEF n
  <2>2. QED BY <1>1, <2>1
<1>4. PICK p : h = p[m] /\ p[0] = g /\ \A k \in 1..m : p[k] = CoarsenPair(p[k-1], list[2 * k - 1], at(list, 2 * k))
  <2>1. PICK p : CoarsenLevel(g, i) = p[m] /\ Pairs(p, g, list, m)
    BY <1>3, CoarsenLevelIs
  <2>2. QED BY <2>1 DEF Pairs
<1> HIDE DEF m
<1> HIDE DEF n
<1> HIDE DEF list
<1>5. ASSUME NEW k \in Nat, k + 1 <= m
      PROVE  /\ Brothers(g, list[2 * k + 1], list[2 * k + 2], i)
             /\ 2 * k + 1 \in 1..n /\ 2 * k + 2 \in 1..n
             /\ p[k+1] = CoarsenPair(p[k], list[2 * k + 1], list[2 * k + 2])
  <2>1. 2 * k + 1 <= n /\ 2 * k + 2 <= n /\ Brothers(g, list[2 * k + 1], list[2 * k + 2], i)
    BY <1>1, <1>3, <1>5
  <2>2. 2 * k + 1 \in 1..n /\ 2 * k + 2 \in 1..n
    BY <1>1, <2>1
  <2>3. PICK j : j = k + 1 /\ j \in 1..m /\ j - 1 = k /\ 2 * j - 1 = 2 * k + 1 /\ 2 * j = 2 * k + 2
    BY <1>3, <1>5
  <2>4. p[j] = CoarsenPair(p[j-1], list[2 * j - 1], at(list, 2 * j))
    BY <1>4, <2>3
  <2>5. at(list, 2 * k + 2) = list[2 * k + 2]
    BY <1>2, <2>2 DEF at
  <2>6. QED BY <2>1, <2>2, <2>3, <2>4, <2>5
<1> DEFINE T == {k \in Nat : k <= m =>
                   /\ Whole(p[k]) /\ Beyond(g, p[k], i)
                   /\ \A j \in Nat : j >= k /\ j + 1 <= m => Brothers(p[k], list[2 * j + 1], list[2 * j + 2], i)}
<1>6. 0 \in T
  <2>1. Beyond(g, g, i)
    BY <1>0, BeyondItself
  <2>2. QED BY <1>4, <1>5, <2>1
<1>7. ASSUME NEW k \in Nat, k \in T PROVE k + 1 \in T
  <2> SUFFICES ASSUME k + 1 <= m
               PROVE  /\ Whole(p[k+1]) /\ Beyond(g, p[k+1], i)
                      /\ \A j \in Nat : j >= k + 1 /\ j + 1 <= m => Brothers(p[k+1], list[2 * j + 1], list[2 * j + 2], i)
    OBVIOUS
  <2>1. PICK f, q, l, r : f = p[k] /\ q = p[k+1] /\ l = list[2 * k + 1] /\ r = list[2 * k + 2]
    OBVIOUS
  <2>2. /\ Whole(f) /\ Beyond(g, f, i)
        /\ \A j \in Nat : j >= k /\ j + 1 <= m => Brothers(f, list[2 * j + 1], list[2 * j + 2], i)
    BY <1>3, <1>7, <2>1
  <2>3. Brothers(f, l, r, i) /\ q = CoarsenPair(f, l, r)
    BY <1>5, <2>1, <2>2
  <2>4. i \in 1..maxLevel(f)
    <3>1. DOMAIN f.elements = DOMAIN g.elements
      BY <2>2 DEF Beyond
    <3>2. QED BY <3>1 DEF maxLevel
  <2>5. /\ Whole(q) /\ Beyond(f, q, i)
        /\ \A x, y : Brothers(f, x, y, i) /\ x \notin {l, r} /\ y \notin {l, r} => Brothers(q, x, y, i)
    BY <2>2, <2>3, <2>4, BrothersKeep
  <2>6. Beyond(g, q, i)
    BY <2>2, <2>5, BeyondAgain
  <2>7. ASSUME NEW j \in Nat, j >= k + 1, j + 1 <= m PROVE Brothers(q, list[2 * j + 1], list[2 * j + 2], i)
    <3>1. Brothers(f, list[2 * j + 1], list[2 * j + 2], i)
      BY <2>2, <2>7
    <3>2. PICK a, b, c, d : a = 2 * k + 1 /\ b = 2 * k + 2 /\ c = 2 * j + 1 /\ d = 2 * j + 2
      OBVIOUS
    <3>3. a \in 1..n /\ b \in 1..n /\ c \in 1..n /\ d \in 1..n
      BY <1>5, <2>7, <3>2
    <3>4. c # a /\ c # b /\ d # a /\ d # b
      BY <2>7, <3>2
    <3>5. list[c] \notin {l, r} /\ list[d] \notin {l, r}
      BY <1>2, <2>1, <3>2, <3>3, <3>4
    <3>6. QED BY <2>5, <3>1, <3>2, <3>5
  <2>8. QED BY <2>1, <2>5, <2>6, <2>7
<1> HIDE DEF T
<1>8. m \in T
  BY <1>3, <1>6, <1>7, InductionOn
<1>9. QED BY <1>3, <1>4, <1>8 DEF T

(* Coarsening takes brothers only, and both of them. *)
LEMMA WholeCoarsens ==
  ASSUME NEW g, Safe(g), Twofold(g), NEW d, d = Coarsened(g)
  PROVE  Whole(d) /\ Almost(d) /\ maxLevel(d) = maxLevel(g)
<1> DEFINE n == maxLevel(g)
<1>1. n \in Nat /\ WF(g) /\ Full(g) /\ g.failed = FALSE /\ Whole(g)
  BY Basics DEF Safe, Whole, WF, Forest
<1>2. PICK c, f : c = CoarsenedLevels(g) /\ c = f[n] /\ f[0] = g /\ \A k \in 1..n : f[k] = CoarsenLevel(f[k-1], k)
  BY <1>1, CoarsenedLevelsIs
<1> HIDE DEF n
<1> DEFINE T == {k \in Nat : k <= n => Whole(f[k]) /\ maxLevel(f[k]) = n}
<1>3. 0 \in T
  BY <1>1, <1>2 DEF n
<1>4. ASSUME NEW k \in Nat, k \in T PROVE k + 1 \in T
  <2> SUFFICES ASSUME k + 1 <= n PROVE Whole(f[k+1]) /\ maxLevel(f[k+1]) = n
    OBVIOUS
  <2>1. PICK i, a, b : i = k + 1 /\ a = f[k] /\ b = f[i]
    OBVIOUS
  <2>2. i \in 1..n /\ i - 1 = k /\ Whole(a) /\ maxLevel(a) = n
    BY <1>1, <1>4, <2>1
  <2>3. b = CoarsenLevel(a, i) /\ i \in 1..maxLevel(a)
    BY <1>2, <2>1, <2>2
  <2>4. Whole(b) /\ Beyond(a, b, i)
    BY <2>2, <2>3, LevelWhole
  <2>5. maxLevel(b) = maxLevel(a)
    BY <2>4 DEF Beyond, maxLevel
  <2>6. QED BY <2>1, <2>2, <2>4, <2>5
<1> HIDE DEF T
<1>5. n \in T
  BY <1>1, <1>3, <1>4, InductionOn
<1>6. Whole(c)
  BY <1>1, <1>2, <1>5 DEF T
<1>8. d = c
  BY <1>2, <1>6, TwoSonsOrNone DEF Coarsened, Checked, Whole, Es
<1>9. d.failed = FALSE
  BY <1>6, <1>8 DEF Whole
<1>10. Almost(d) /\ maxLevel(d) = maxLevel(g)
  BY <1>1, <1>9, CoarsenedKeeps
<1>11. QED BY <1>6, <1>8, <1>10

(* So adapt() fails no assertion. *)
LEMMA WholeAdapts ==
  ASSUME NEW g, Safe(g), Twofold(g), NEW h, h = Adapted(g)
  PROVE  h.failed = FALSE
<1>1. PICK d : d = Coarsened(g)
  OBVIOUS
<1>2. WF(d) /\ d.failed = FALSE /\ Almost(d)
  BY <1>1, WholeCoarsens DEF Whole
<1>3. h = Grown(d)
  BY <1>1 DEF Adapted
<1>4. QED BY <1>2, <1>3, GrownKeeps

-----------------------------------------------------------------------------
(* globalRefine() takes no pair apart: its levels have even lists.         *)

(* A set whose members come in twos. *)
LEMMA InvolutionEven ==
  ASSUME NEW t, NEW S, IsFiniteSet(S), \A x \in S : t[x] \in S /\ t[x] # x /\ t[t[x]] = x
  PROVE  Cardinality(S) \in Nat /\ Cardinality(S) % 2 = 0
<1> DEFINE Bad(R, n) == /\ IsFiniteSet(R) /\ Cardinality(R) = n /\ n % 2 = 1
                        /\ \A x \in R : t[x] \in R /\ t[x] # x /\ t[t[x]] = x
           T == {n \in Nat : \E R : Bad(R, n)}
<1>1. T = {}
  <2> SUFFICES ASSUME T # {} PROVE FALSE
    OBVIOUS
  <2>1. PICK n \in T : \A k \in T : n <= k
    BY Smallest
  <2>2. PICK R : Bad(R, n)
    BY <2>1
  <2>3. n \in Nat /\ n # 0 /\ n % 2 = 1
    BY <2>1, <2>2
  <2>4. PICK x : x \in R
    BY <2>2, <2>3, FS_EmptySet
  <2>5. PICK y : y = t[x]
    OBVIOUS
  <2>6. y \in R /\ y # x /\ t[y] = x /\ t[x] = y
    BY <2>2, <2>4, <2>5
  <2>7. IsFiniteSet(R \ {x}) /\ Cardinality(R \ {x}) = n - 1
    BY <2>2, <2>4, FS_RemoveElement
  <2>8. PICK P : P = R \ {x} /\ y \in P /\ IsFiniteSet(P) /\ Cardinality(P) = n - 1
    BY <2>6, <2>7
  <2>9. PICK Q : Q = P \ {y} /\ IsFiniteSet(Q) /\ Cardinality(Q) = (n - 1) - 1
    <3>1. IsFiniteSet(P \ {y}) /\ Cardinality(P \ {y}) = Cardinality(P) - 1
      BY ONLY <2>8, FS_RemoveElement
    <3>2. QED BY <2>8, <3>1
  <2>10. Q = (R \ {x}) \ {y}
    BY <2>8, <2>9
  <2>11. (n - 1) - 1 \in Nat
    BY <2>9, FS_CardinalityType
  <2>12. \A z \in Q : t[z] \in Q /\ t[z] # z /\ t[t[z]] = z
    <3> SUFFICES ASSUME NEW z \in Q PROVE t[z] \in Q /\ t[z] # z /\ t[t[z]] = z
      OBVIOUS
    <3>1. z \in R /\ z # x /\ z # y
      BY <2>10
    <3>2. t[z] \in R /\ t[z] # z /\ t[t[z]] = z
      BY <2>2, <3>1
    <3>3. t[z] # x /\ t[z] # y
      BY <2>6, <3>1, <3>2
    <3>4. QED BY <2>10, <3>2, <3>3
  <2>13. ((n - 1) - 1) % 2 = 1
    BY <2>3, <2>11
  <2>14. Bad(Q, (n - 1) - 1)
    BY <2>9, <2>10, <2>12, <2>13
  <2>15. (n - 1) - 1 \in T
    BY <2>11, <2>14
  <2>16. n <= (n - 1) - 1
    BY <2>1, <2>15
  <2>17. QED BY <2>3, <2>16
<1>2. Cardinality(S) \in Nat
  BY FS_CardinalityType
<1>3. Cardinality(S) % 2 # 1
  <2> SUFFICES ASSUME Cardinality(S) % 2 = 1 PROVE FALSE
    OBVIOUS
  <2>1. Bad(S, Cardinality(S))
    OBVIOUS
  <2>2. QED BY <1>1, <1>2, <2>1
<1>4. QED BY <1>2, <1>3

(* Every element above the macro grid has another one of its level that it *)
(* goes with: its brother, or the copy of the brother of its origin.       *)
Twins(g, t) ==
  \A x \in Above(g, 0) : /\ t[x] \in Above(g, 0) /\ level(t[x]) = level(x)
                         /\ t[x] # x /\ t[t[x]] = x

(* An element that has not been copied has its brother. *)
LEMMA TwofoldTwins ==
  ASSUME NEW g, WF(g), Twofold(g)
  PROVE  \E t : Twins(g, t)
<1> DEFINE q(x) == g.element[g.element[x].father].sons
           other(x) == IF q(x)[1] = x THEN q(x)[2] ELSE q(x)[1]
           t == [x \in Above(g, 0) |-> other(x)]
<1>0. \A x \in Es(g) : level(x) \in Nat /\ x # null
  BY Basics DEF WF, Forest
<1>1. ASSUME NEW x \in Above(g, 0)
      PROVE  /\ x \in Es(g) /\ level(x) > 0
             /\ \E F \in Es(g) : \E l, r \in Es(g) :
                  /\ g.element[x].father = F /\ l = g.element[F].sons[1] /\ r = g.element[F].sons[2]
                  /\ l # r /\ x \in {l, r} /\ level(l) = level(x) /\ level(r) = level(x)
                  /\ g.element[l].father = F /\ g.element[r].father = F
  <2>1. x \in Es(g) /\ level(x) > 0 /\ level(x) # 0
    BY <1>0 DEF Above
  <2>2. PICK F : F = g.element[x].father
    OBVIOUS
  <2>3. F \in Es(g) /\ ~isLeaf(g, F) /\ level(F) = level(x) - 1
    BY <2>1, <2>2, SonWithin DEF WF, Forest
  <2>4. x = g.element[F].sons[1] \/ x = g.element[F].sons[2]
    BY <1>0, <2>1, <2>2, <2>3 DEF WF, Forest, Fathers
  <2>5. PICK l, r : l = g.element[F].sons[1] /\ r = g.element[F].sons[2]
    OBVIOUS
  <2>6. l # r
    BY <2>3, <2>5 DEF Twofold
  <2>7. l \in Es(g) /\ r \in Es(g) /\ g.element[l].father = F /\ g.element[r].father = F
    BY <2>3, <2>5 DEF WF, Forest, SonsOf
  <2>8. \A e \in Es(g) : g.element[e].father # null => level(g.element[e].father) = level(e) - 1
    BY DEF WF, Forest, Fathers
  <2>9. level(F) = level(l) - 1 /\ level(F) = level(r) - 1
    BY <1>0, <2>3, <2>7, <2>8
  <2>10. level(l) = level(x) /\ level(r) = level(x)
    BY <1>0, <2>1, <2>3, <2>7, <2>9
  <2>11. QED BY <2>1, <2>2, <2>3, <2>4, <2>5, <2>6, <2>7, <2>10
<1>2. ASSUME NEW x \in Above(g, 0)
      PROVE  t[x] \in Above(g, 0) /\ level(t[x]) = level(x) /\ t[x] # x /\ t[t[x]] = x
  <2>1. PICK F \in Es(g), l \in Es(g), r \in Es(g) :
                  /\ g.element[x].father = F /\ l = g.element[F].sons[1] /\ r = g.element[F].sons[2]
                  /\ l # r /\ x \in {l, r} /\ level(l) = level(x) /\ level(r) = level(x)
                  /\ g.element[l].father = F /\ g.element[r].father = F
    BY <1>1
  <2>2. l \in Above(g, 0) /\ r \in Above(g, 0)
    BY <1>1, <2>1 DEF Above
  <2>3. t[l] = r /\ t[r] = l
    BY <2>1, <2>2
  <2>4. QED BY <2>1, <2>2, <2>3
<1> HIDE DEF t
<1>3. QED BY <1>2 DEF Twins

(* So the list of a level has an even number of elements. *)
LEMMA TwinsEven ==
  ASSUME NEW g, WF(g), NEW t, Twins(g, t), NEW i \in 1..maxLevel(g),
         NEW list, list = g.elements[i], NEW n, n = Len(list)
  PROVE  n \in Nat /\ n % 2 = 0 /\ DOMAIN list = 1..n /\ \A k \in 1..n : list[k] \in Es(g)
<1> DEFINE S == {e \in Es(g) : level(e) = i}
<1>0. maxLevel(g) \in Nat /\ i \in 0..maxLevel(g) /\ i > 0
  BY Basics DEF WF, Forest
<1>1. /\ Listed(list, LoAt(g, i)) /\ Numbering(LoAt(g, i))
      /\ \A x : x \in DOMAIN LoAt(g, i) <=> x \in Es(g) /\ level(x) = i
  BY <1>0, ListedElements DEF WF, Forest
<1>2. n \in Nat /\ DOMAIN list = 1..n /\ \A k \in 1..n : list[k] \in DOMAIN LoAt(g, i)
  BY <1>1, ListedMembers
<1>3. /\ \A k \in 1..n : list[k] \in S
      /\ \A x \in S : \E k \in 1..n : list[k] = x
      /\ \A j, k \in 1..n : list[j] = list[k] => j = k
  <2>1. \A k \in 1..n : list[k] \in S
    BY <1>1, <1>2
  <2>2. \A x \in S : \E k \in 1..n : list[k] = x
    BY <1>1 DEF Listed
  <2>3. \A j, k \in 1..n : list[j] = list[k] => j = k
    BY <1>1, ListedOrder
  <2>4. QED BY <2>1, <2>2, <2>3
<1>4. \A x \in S : t[x] \in S /\ t[x] # x /\ t[t[x]] = x
  <2>1. \A x \in S : x \in Above(g, 0)
    BY <1>0 DEF Above
  <2>2. QED BY <2>1 DEF Twins, Above
<1> HIDE DEF S
<1>5. IsFiniteSet(S) /\ Cardinality(S) = n
  <2> DEFINE f == [k \in 1..n |-> list[k]]
  <2>1. f \in [1..n -> S] /\ \A k \in 1..n : f[k] = list[k]
    BY <1>3
  <2> HIDE DEF f
  <2>2. f \in Bijection(1..n, S)
    BY <1>3, <2>1 DEF Bijection, Injection, IsInjective, Surjection
  <2>3. IsFiniteSet(1..n) /\ Cardinality(1..n) = n
    BY <1>2, FS_Interval
  <2>4. QED BY <2>2, <2>3, FS_Bijection DEF ExistsBijection
<1>6. n % 2 = 0
  BY <1>4, <1>5, InvolutionEven
<1>7. QED BY <1>1, <1>2, <1>6

(* Where the lists are even and no leaf is marked for coarsening, nothing  *)
(* is taken and no assertion fails.                                        *)
LEMMA CoarsenedStays ==
  ASSUME NEW g, WF(g), NEW t, Twins(g, t), Unannounced(g), g.failed = FALSE, NEW h, h = Coarsened(g)
  PROVE  h = g
<1> DEFINE n == maxLevel(g)
<1>1. n \in Nat
  BY Basics DEF WF, Forest
<1>2. PICK c, f : c = CoarsenedLevels(g) /\ c = f[n] /\ f[0] = g /\ \A k \in 1..n : f[k] = CoarsenLevel(f[k-1], k)
  BY <1>1, CoarsenedLevelsIs
<1>3. ASSUME NEW i \in 1..maxLevel(g) PROVE CoarsenLevel(g, i) = g
  <2> DEFINE list == g.elements[i]
             l == Len(list)
             m == (l + 1) \div 2
  <2>1. l \in Nat /\ l % 2 = 0 /\ DOMAIN list = 1..l /\ \A k \in 1..l : list[k] \in Es(g)
    BY TwinsEven
  <2>2. m \in Nat /\ \A k \in 1..m : 2 * k - 1 \in 1..l /\ 2 * k \in 1..l
    <3> HIDE DEF l
    <3>1. l \in Nat /\ l % 2 = 0
      BY <2>1
    <3>2. m \in Nat /\ 2 * m = l
      BY <3>1
    <3> HIDE DEF m
    <3>3. QED BY <3>1, <3>2
  <2>3. PICK p : CoarsenLevel(g, i) = p[m] /\ p[0] = g /\ \A k \in 1..m : p[k] = CoarsenPair(p[k-1], list[2 * k - 1], at(list, 2 * k))
    <3>1. PICK p : CoarsenLevel(g, i) = p[m] /\ Pairs(p, g, list, m)
      BY <2>2, CoarsenLevelIs
    <3>2. QED BY <3>1 DEF Pairs
  <2> HIDE DEF m
  <2> HIDE DEF l
  <2> HIDE DEF list
  <2> DEFINE T == {k \in Nat : k <= m => p[k] = g}
  <2>4. 0 \in T
    BY <2>3
  <2>5. ASSUME NEW k \in Nat, k \in T PROVE k + 1 \in T
    <3> SUFFICES ASSUME k + 1 <= m PROVE p[k+1] = g
      OBVIOUS
    <3>1. PICK j : j = k + 1 /\ j \in 1..m /\ j - 1 = k
      BY <2>2
    <3>2. p[j] = CoarsenPair(g, list[2 * j - 1], at(list, 2 * j))
      BY <2>2, <2>3, <2>5, <3>1
    <3>3. PICK x, y : x = list[2 * j - 1] /\ y = at(list, 2 * j)
      OBVIOUS
    <3>4. x \in Es(g) /\ y \in Es(g)
      BY <2>1, <2>2, <3>1, <3>3 DEF at
    <3>5. y # null
      BY <3>4, Basics DEF WF, Forest
    <3>6. ~removable(g, x, y)
      BY <3>4 DEF removable, Unannounced
    <3>7. QED BY <3>1, <3>2, <3>3, <3>5, <3>6 DEF CoarsenPair
  <2> HIDE DEF T
  <2>6. m \in T
    BY <2>2, <2>4, <2>5, InductionOn
  <2>7. QED BY <2>2, <2>3, <2>6 DEF T
<1>4. \A k \in 1..n : CoarsenLevel(g, k) = g
  BY <1>3
<1> HIDE DEF n
<1> DEFINE T == {k \in Nat : k <= n => f[k] = g}
<1>5. 0 \in T
  BY <1>2
<1>6. ASSUME NEW k \in Nat, k \in T PROVE k + 1 \in T
  <2> SUFFICES ASSUME k + 1 <= n PROVE f[k+1] = g
    OBVIOUS
  <2>1. PICK j : j = k + 1 /\ j \in 1..n /\ j - 1 = k
    BY <1>1
  <2>2. f[j] = CoarsenLevel(g, j)
    BY <1>1, <1>2, <1>6, <2>1
  <2>3. QED BY <1>4, <2>1, <2>2
<1> HIDE DEF T
<1>7. n \in T
  BY <1>1, <1>5, <1>6, InductionOn
<1>8. c = g
  BY <1>1, <1>2, <1>7 DEF T
<1>9. \A e \in DOMAIN g.element : leafOrNot(g, e)
  BY TwoSonsOrNone DEF Es
<1>10. QED BY <1>2, <1>8, <1>9 DEF Coarsened, Checked

-----------------------------------------------------------------------------
(* What refinement adds to a grid: pairs of brothers that are not marked.  *)
Sprouts(g, h) ==
  /\ Es(g) \subseteq Es(h)
  /\ \A x \in Es(g) :
       /\ h.element[x].father = g.element[x].father /\ h.element[x].markState = g.element[x].markState
       /\ ~isLeaf(g, x) => ~isLeaf(h, x) /\ h.element[x].sons = g.element[x].sons
       /\ isLeaf(g, x) /\ g.element[x].markState # "REFINE" => isLeaf(h, x)
  /\ \A x \in Es(h) : x \notin Es(g) =>
       /\ isLeaf(h, x) /\ h.element[x].markState = "DO_NOTHING"
       /\ \E l, r : Brothers(h, l, r, level(x)) /\ x \in {l, r} /\ l \notin Es(g) /\ r \notin Es(g)
  /\ Twofold(g) => Twofold(h)

(* Or nothing. *)
LEMMA SproutsNot ==
  ASSUME NEW g
  PROVE  Sprouts(g, g)
BY DEF Sprouts

(* One addition after another. *)
LEMMA SproutsAgain ==
  ASSUME NEW f, WF(f), NEW g, WF(g), NEW h, Sprouts(f, g), Sprouts(g, h)
  PROVE  Sprouts(f, h)
<1>1. Es(f) \subseteq Es(g) /\ Es(g) \subseteq Es(h)
  BY DEF Sprouts
<1>2. ASSUME NEW x \in Es(f)
      PROVE  /\ h.element[x].father = f.element[x].father /\ h.element[x].markState = f.element[x].markState
             /\ ~isLeaf(f, x) => ~isLeaf(h, x) /\ h.element[x].sons = f.element[x].sons
             /\ isLeaf(f, x) /\ f.element[x].markState # "REFINE" => isLeaf(h, x)
  BY <1>1, <1>2 DEF Sprouts
<1>3. ASSUME NEW x \in Es(h), x \notin Es(f)
      PROVE  /\ isLeaf(h, x) /\ h.element[x].markState = "DO_NOTHING"
             /\ \E l, r : Brothers(h, l, r, level(x)) /\ x \in {l, r} /\ l \notin Es(f) /\ r \notin Es(f)
  <2>1. CASE x \notin Es(g)
    BY <1>1, <2>1 DEF Sprouts
  <2>2. CASE x \in Es(g)
    <3>1. isLeaf(g, x) /\ g.element[x].markState = "DO_NOTHING"
      BY <1>3, <2>2 DEF Sprouts
    <3>2. PICK l, r : Brothers(g, l, r, level(x)) /\ x \in {l, r} /\ l \notin Es(f) /\ r \notin Es(f)
      BY <1>3, <2>2 DEF Sprouts
    <3>3. l \in Es(g) /\ r \in Es(g) /\ l # null
      BY <3>2, Basics DEF Brothers, WF, Forest
    <3>4. PICK F \in Es(g) : /\ g.element[l].father = F /\ g.element[r].father = F
                             /\ g.element[F].sons[1] = l /\ g.element[F].sons[2] = r
      BY <3>2 DEF Brothers
    <3>5. ~isLeaf(g, F)
      BY <3>3, <3>4, TwoSonsOrNone DEF leafOrNot
    <3>6. h.element[F].sons = g.element[F].sons /\ h.element[l].father = F /\ h.element[r].father = F
      BY <3>3, <3>4, <3>5 DEF Sprouts
    <3>7. l \in Es(h) /\ r \in Es(h) /\ F \in Es(h) /\ level(l) = level(x) /\ level(r) = level(x) /\ l # r
      BY <1>1, <3>2, <3>3, <3>4 DEF Brothers
    <3>8. Brothers(h, l, r, level(x))
      BY <3>4, <3>6, <3>7 DEF Brothers
    <3>9. isLeaf(h, x) /\ h.element[x].markState = "DO_NOTHING"
      BY <2>2, <3>1 DEF Sprouts
    <3>10. QED BY <3>2, <3>8, <3>9
  <2>3. QED BY <2>1, <2>2
<1>4. Twofold(f) => Twofold(h)
  BY DEF Sprouts
<1>5. QED BY <1>1, <1>2, <1>3, <1>4 DEF Sprouts

(* Refining a leaf that is marked. *)
LEMMA RefineMarkedSprouts ==
  ASSUME NEW g, WF(g), TopUnmarked(g), NEW e \in Es(g), NEW h, h = RefineMarked(g, e)
  PROVE  /\ Sprouts(g, h)
         /\ g.element[e].markState = "REFINE" => ~isLeaf(h, e)
<1>1. CASE g.element[e].markState = "REFINE" /\ isLeaf(g, e)
  <2> DEFINE i == level(e) + 1
             u0 == Upper(g, V0(g, e))
             u1 == Upper(g, V1(g, e))
             s0 == <<i, g.freeElementId>>
             s1 == <<i, g.freeElementId + 1>>
             m == <<i, g.freeVertexId>>
  <2>1. h = Refined(g, e)
    BY <1>1 DEF RefineMarked
  <2>2. level(e) < maxLevel(g)
    <3>1. level(e) # maxLevel(g)
      BY <1>1 DEF TopUnmarked
    <3>2. level(e) \in 0..maxLevel(g) /\ maxLevel(g) \in Nat
      BY Basics DEF WF, Forest
    <3>3. QED BY <3>1, <3>2
  <2>3. Leaf(g, e, i, u0, u1)
    BY <1>1, <2>2 DEF Leaf
  <2> HIDE DEF i, u0, u1
  <2>4. Growth(g, h, e, s0, s1, m) /\ s0 # s1
    BY <2>1, <2>3, RefinedMaps
  <2> HIDE DEF s0, s1, m
  <2>5. /\ Es(h) = Es(g) \cup {s0, s1} /\ s0 \notin Es(g) /\ s1 \notin Es(g)
        /\ level(s0) = level(e) + 1 /\ level(s1) = level(e) + 1
        /\ \A x \in Es(g) : /\ h.element[x].father = g.element[x].father
                            /\ h.element[x].markState = g.element[x].markState
                            /\ x # e => h.element[x].sons = g.element[x].sons
                            /\ isLeaf(h, x) <=> isLeaf(g, x) /\ x # e
        /\ h.element[e].sons = <<s0, s1>>
        /\ \A s \in {s0, s1} : isLeaf(h, s) /\ h.element[s].father = e /\ h.element[s].markState = "DO_NOTHING"
    BY <1>1, <2>2, <2>4, GrowthElements DEF WF
  <2>6. Brothers(h, s0, s1, level(e) + 1)
    BY <2>4, <2>5 DEF Brothers
  <2>7. ASSUME NEW x \in Es(h), x \notin Es(g)
        PROVE  /\ isLeaf(h, x) /\ h.element[x].markState = "DO_NOTHING"
               /\ \E l, r : Brothers(h, l, r, level(x)) /\ x \in {l, r} /\ l \notin Es(g) /\ r \notin Es(g)
    <3>1. x \in {s0, s1}
      BY <2>5, <2>7
    <3>2. level(x) = level(e) + 1
      BY <2>5, <3>1
    <3>3. isLeaf(h, x) /\ h.element[x].markState = "DO_NOTHING"
      BY <2>5, <3>1
    <3>4. QED BY <2>5, <2>6, <3>1, <3>2, <3>3
  <2>8. ASSUME NEW x \in Es(g)
        PROVE  /\ h.element[x].father = g.element[x].father /\ h.element[x].markState = g.element[x].markState
               /\ ~isLeaf(g, x) => ~isLeaf(h, x) /\ h.element[x].sons = g.element[x].sons
               /\ isLeaf(g, x) /\ g.element[x].markState # "REFINE" => isLeaf(h, x)
    BY <1>1, <2>5
  <2>8a. ASSUME Twofold(g) PROVE Twofold(h)
    <3> SUFFICES ASSUME NEW x \in Es(h), ~isLeaf(h, x) PROVE h.element[x].sons[1] # h.element[x].sons[2]
      BY DEF Twofold
    <3>1. x \in Es(g)
      BY <2>5
    <3>2. CASE x = e
      BY <2>4, <2>5, <3>2
    <3>3. CASE x # e
      BY <2>5, <2>8a, <3>1, <3>3 DEF Twofold
    <3>4. QED BY <3>2, <3>3
  <2>9. Sprouts(g, h)
    BY <2>5, <2>7, <2>8, <2>8a DEF Sprouts
  <2>10. QED BY <2>5, <2>9
<1>2. CASE ~(g.element[e].markState = "REFINE" /\ isLeaf(g, e))
  BY <1>2, SproutsNot DEF RefineMarked
<1>3. QED BY <1>1, <1>2

(* After a level has been refined no leaf of it is marked. *)
LEMMA RefineLevelSprouts ==
  ASSUME NEW g, WF(g), TopUnmarked(g), NEW i \in 0..maxLevel(g), NEW h, h = RefineLevel(g, i)
  PROVE  /\ Sprouts(g, h)
         /\ \A x \in Es(g) : level(x) = i /\ g.element[x].markState = "REFINE" => ~isLeaf(h, x)
<1> DEFINE list == g.elements[i]
           n == Len(list)
<1>1. n \in Nat /\ \A k \in 1..n : list[k] \in Es(g)
  BY LevelList
<1>2. PICK f : h = f[n] /\ f[0] = g /\ \A k \in 1..n : f[k] = RefineMarked(f[k-1], list[k])
  BY <1>1, RefineLevelIs
<1>3. \A x \in Es(g) : level(x) = i => \E k \in 1..n : list[k] = x
  BY ListedElements DEF Listed, WF, Forest
<1> HIDE DEF n, list
<1> DEFINE Done(q, k) == \A j \in 1..k : g.element[list[j]].markState = "REFINE" => ~isLeaf(q, list[j])
           T == {k \in Nat : k <= n => WF(f[k]) /\ Grows(g, f[k]) /\ Sprouts(g, f[k]) /\ Done(f[k], k)}
<1>4. 0 \in T
  BY <1>2, GrowsNot, SproutsNot
<1>5. ASSUME NEW k \in Nat, k \in T PROVE k + 1 \in T
  <2> SUFFICES ASSUME k + 1 <= n
               PROVE  WF(f[k+1]) /\ Grows(g, f[k+1]) /\ Sprouts(g, f[k+1]) /\ Done(f[k+1], k + 1)
    OBVIOUS
  <2>0. PICK p, q, e : p = f[k] /\ q = f[k+1] /\ e = list[k+1]
    OBVIOUS
  <2>1. WF(p) /\ Grows(g, p) /\ Sprouts(g, p) /\ Done(p, k)
    BY <1>1, <1>5, <2>0
  <2>2. k + 1 \in 1..n /\ (k + 1) - 1 = k
    BY <1>1
  <2>3. q = RefineMarked(p, e) /\ e \in Es(g)
    BY <1>1, <1>2, <2>0, <2>2
  <2>4. TopUnmarked(p) /\ e \in Es(p)
    BY <2>1, <2>3 DEF Grows
  <2>5. WF(q) /\ Grows(p, q)
    BY <2>1, <2>3, <2>4, RefineMarkedKeeps
  <2>6. Sprouts(p, q) /\ (p.element[e].markState = "REFINE" => ~isLeaf(q, e))
    BY <2>1, <2>3, <2>4, RefineMarkedSprouts
  <2>7. Grows(g, q) /\ Sprouts(g, q)
    BY <2>1, <2>5, <2>6, GrowsAgain, SproutsAgain
  <2>8. Done(q, k + 1)
    <3> SUFFICES ASSUME NEW j \in 1..(k + 1), g.element[list[j]].markState = "REFINE" PROVE ~isLeaf(q, list[j])
      OBVIOUS
    <3>1. CASE j = k + 1
      <4>1. p.element[e].markState = g.element[e].markState
        BY <2>1, <2>3 DEF Sprouts
      <4>2. QED BY <2>0, <2>6, <3>1, <4>1
    <3>2. CASE j # k + 1
      <4>1. j \in 1..k /\ j \in 1..n
        BY <1>1, <2>2, <3>2
      <4>2. ~isLeaf(p, list[j]) /\ list[j] \in Es(p)
        BY <1>1, <2>1, <4>1 DEF Grows
      <4>3. QED BY <2>6, <4>2 DEF Sprouts
    <3>3. QED BY <3>1, <3>2
  <2>9. QED BY <2>0, <2>5, <2>7, <2>8
<1> HIDE DEF T
<1>6. n \in T
  BY <1>1, <1>4, <1>5, InductionOn
<1>7. Sprouts(g, h) /\ Done(h, n)
  BY <1>1, <1>2, <1>6 DEF T
<1>8. QED BY <1>3, <1>7

(* WithTopLevel() only touches the lists. *)
LEMMA TopLevelElements ==
  ASSUME NEW g, Shape(g), NEW h, h = WithTopLevel(g)
  PROVE  h.element = g.element
BY DEF WithTopLevel, Shape

(* After all levels have been refined no marked leaf is left. *)
LEMMA RefinedAllSprouts ==
  ASSUME NEW g, WF(g), Almost(g), NEW h, h = RefinedAll(g)
  PROVE  /\ WF(h) /\ Sprouts(g, h)
         /\ \A x \in Es(g) : g.element[x].markState = "REFINE" => ~isLeaf(h, x)
<1> DEFINE w == WithTopLevel(g)
           n == maxLevel(g) + 1
<1>1. /\ WF(w) /\ TopUnmarked(w) /\ Es(w) = Es(g) /\ w.element = g.element
      /\ maxLevel(w) = maxLevel(g) \/ maxLevel(w) = maxLevel(g) + 1
  BY WithTopLevelKeeps, TopLevelElements, WFRecords
<1>2. n \in Nat /\ maxLevel(g) \in Nat /\ \A x \in Es(g) : level(x) \in 0..maxLevel(g)
  BY Basics DEF WF, Forest
<1>3. PICK f : h = f[n] /\ f[0] = w /\ \A k \in 1..n : f[k] = RefineLevel(f[k-1], k - 1)
  <2>1. PICK f : RefinedAll(g) = f[n] /\ f[0] = WithTopLevel(g) /\ \A k \in 1..n : f[k] = RefineLevel(f[k-1], k - 1)
    BY <1>2, RefinedAllIs
  <2>2. QED BY <2>1
<1>4. \A k \in 1..n : k - 1 \in 0..maxLevel(w)
  BY <1>1, <1>2
<1>5. \A x \in Es(g) : level(x) < n /\ level(x) \in Nat
  BY <1>2
<1> HIDE DEF n, w
<1> DEFINE Done(q, k) == \A x \in Es(w) : level(x) < k /\ w.element[x].markState = "REFINE" => ~isLeaf(q, x)
           T == {k \in Nat : k <= n => WF(f[k]) /\ Grows(w, f[k]) /\ Sprouts(w, f[k]) /\ Done(f[k], k)}
<1>6. 0 \in T
  <2>1. \A x \in Es(w) : ~(level(x) < 0)
    BY <1>1, <1>5
  <2>2. QED BY <1>1, <1>3, <2>1, GrowsNot, SproutsNot
<1>7. ASSUME NEW k \in Nat, k \in T PROVE k + 1 \in T
  <2> SUFFICES ASSUME k + 1 <= n
               PROVE  WF(f[k+1]) /\ Grows(w, f[k+1]) /\ Sprouts(w, f[k+1]) /\ Done(f[k+1], k + 1)
    OBVIOUS
  <2>0. PICK p, q : p = f[k] /\ q = f[k+1]
    OBVIOUS
  <2>1. WF(p) /\ Grows(w, p) /\ Sprouts(w, p) /\ Done(p, k)
    BY <1>2, <1>7, <2>0
  <2>2. k + 1 \in 1..n /\ (k + 1) - 1 = k
    BY <1>2
  <2>3. q = RefineLevel(p, k) /\ k \in 0..maxLevel(w)
    <3>1. f[k+1] = RefineLevel(f[(k+1)-1], (k+1)-1) /\ (k+1)-1 \in 0..maxLevel(w)
      BY <1>3, <1>4, <2>2
    <3>2. QED BY <3>1, <2>0, <2>2
  <2>4. TopUnmarked(p) /\ k \in 0..maxLevel(p)
    BY <2>1, <2>3, <1>1 DEF Grows
  <2>5. WF(q) /\ Grows(p, q)
    BY <2>1, <2>3, <2>4, RefineLevelKeeps
  <2>6. /\ Sprouts(p, q)
        /\ \A x \in Es(p) : level(x) = k /\ p.element[x].markState = "REFINE" => ~isLeaf(q, x)
    BY <2>1, <2>3, <2>4, RefineLevelSprouts
  <2>7. Grows(w, q) /\ Sprouts(w, q)
    BY <1>1, <2>1, <2>5, <2>6, GrowsAgain, SproutsAgain
  <2>8. Done(q, k + 1)
    <3> SUFFICES ASSUME NEW x \in Es(w), level(x) < k + 1, w.element[x].markState = "REFINE" PROVE ~isLeaf(q, x)
      OBVIOUS
    <3>1. x \in Es(p) /\ p.element[x].markState = "REFINE" /\ level(x) \in Nat
      BY <1>1, <1>5, <2>1 DEF Sprouts
    <3>2. CASE level(x) = k
      BY <2>6, <3>1, <3>2
    <3>3. CASE level(x) < k
      BY <2>1, <2>6, <3>1, <3>3 DEF Sprouts
    <3>4. QED BY <3>1, <3>2, <3>3
  <2>9. QED BY <2>0, <2>5, <2>7, <2>8
<1> HIDE DEF T
<1>8. n \in T
  BY <1>2, <1>6, <1>7, InductionOn
<1>9. WF(h) /\ Sprouts(w, h) /\ Done(h, n)
  BY <1>2, <1>3, <1>8 DEF T
<1>10. Sprouts(g, h)
  BY <1>1, <1>9 DEF Sprouts, Twofold, isLeaf
<1>11. QED BY <1>1, <1>5, <1>9, <1>10

(* The macro grid has no leaf, and of two that go together both are leaves *)
(* or none.                                                                *)
Settled(g, t) ==
  /\ \A x \in Es(g) : level(x) = 0 => ~isLeaf(g, x)
  /\ \A x \in Above(g, 0) : isLeaf(g, x) <=> isLeaf(g, t[x])

Marched(g) == \A x \in Es(g) : isLeaf(g, x) => g.element[x].markState = "REFINE"

(* When every leaf is refined, the new ones go with their brothers. *)
LEMMA RefinedAllTwins ==
  ASSUME NEW g, WF(g), Almost(g), Marched(g), NEW t, Twins(g, t), NEW h, h = RefinedAll(g)
  PROVE  \E s : Twins(h, s) /\ Settled(h, s)
<1>1. WF(h) /\ Sprouts(g, h) /\ \A x \in Es(g) : g.element[x].markState = "REFINE" => ~isLeaf(h, x)
  BY RefinedAllSprouts
<1>2. Es(g) \subseteq Es(h) /\ \A x \in Es(g) : ~isLeaf(h, x)
  BY <1>1 DEF Marched, Sprouts
<1>3. \A x \in Es(h) : x \notin Es(g) => isLeaf(h, x)
  BY <1>1 DEF Sprouts
<1>4. ASSUME NEW x \in Es(h), x \notin Es(g)
      PROVE  \E y : /\ y \in Es(h) /\ y \notin Es(g) /\ level(y) = level(x) /\ level(x) > 0 /\ y # x
                    /\ \E F : \E l, r : /\ h.element[x].father = F /\ h.element[y].father = F
                                        /\ h.element[F].sons[1] = l /\ h.element[F].sons[2] = r /\ l # r
                                        /\ (x = l /\ y = r) \/ (x = r /\ y = l)
  <2>1. PICK l, r : Brothers(h, l, r, level(x)) /\ x \in {l, r} /\ l \notin Es(g) /\ r \notin Es(g)
    BY <1>1, <1>4 DEF Sprouts
  <2>2. PICK F \in Es(h) : /\ h.element[l].father = F /\ h.element[r].father = F
                           /\ h.element[F].sons[1] = l /\ h.element[F].sons[2] = r
    BY <2>1 DEF Brothers
  <2>3. F # null /\ level(x) \in Nat
    BY <1>1, Basics DEF WF, Forest
  <2>4. h.element[x].father = F
    BY <2>1, <2>2
  <2>5. level(x) # 0
    BY <1>1, <2>3, <2>4 DEF WF, Forest, Fathers
  <2>6. l \in Es(h) /\ r \in Es(h) /\ level(l) = level(x) /\ level(r) = level(x) /\ l # r
    BY <2>1 DEF Brothers
  <2>7. CASE x = l
    BY <2>1, <2>2, <2>3, <2>5, <2>6, <2>7
  <2>8. CASE x = r
    BY <2>1, <2>2, <2>3, <2>5, <2>6, <2>8
  <2>9. QED BY <2>1, <2>7, <2>8
<1> DEFINE q(x) == h.element[h.element[x].father].sons
           s == [x \in Above(h, 0) |-> IF x \in Es(g) THEN t[x] ELSE IF q(x)[1] = x THEN q(x)[2] ELSE q(x)[1]]
<1>5. ASSUME NEW x \in Above(h, 0)
      PROVE  /\ s[x] \in Above(h, 0) /\ level(s[x]) = level(x) /\ s[x] # x /\ s[s[x]] = x
             /\ isLeaf(h, x) <=> isLeaf(h, s[x])
  <2>1. CASE x \in Es(g)
    <3>1. x \in Above(g, 0) /\ s[x] = t[x]
      BY <1>5, <2>1 DEF Above
    <3>2. t[x] \in Es(g) /\ level(t[x]) = level(x) /\ t[x] # x /\ t[t[x]] = x /\ level(t[x]) > 0
      BY <3>1 DEF Twins, Above
    <3>3. t[x] \in Above(h, 0)
      BY <1>2, <3>2 DEF Above
    <3>4. s[t[x]] = x
      BY <3>2, <3>3
    <3> HIDE DEF s
    <3>5. QED BY <1>2, <2>1, <3>1, <3>2, <3>3, <3>4
  <2>2. CASE x \notin Es(g)
    <3>1. x \in Es(h)
      BY DEF Above
    <3>2. PICK y : /\ y \in Es(h) /\ y \notin Es(g) /\ level(y) = level(x) /\ level(x) > 0 /\ y # x
                   /\ \E F : \E l, r : /\ h.element[x].father = F /\ h.element[y].father = F
                                       /\ h.element[F].sons[1] = l /\ h.element[F].sons[2] = r /\ l # r
                                       /\ (x = l /\ y = r) \/ (x = r /\ y = l)
      BY <1>4, <2>2, <3>1
    <3>3. y \in Above(h, 0)
      BY <3>2 DEF Above
    <3>4. s[x] = y
      BY <2>2, <3>2
    <3>5. s[y] = x
      BY <3>2, <3>3
    <3> HIDE DEF s
    <3>6. QED BY <1>3, <2>2, <3>1, <3>2, <3>3, <3>4, <3>5
  <2>3. QED BY <2>1, <2>2
<1> HIDE DEF s
<1>6. \A x \in Es(h) : level(x) = 0 => ~isLeaf(h, x)
  <2> SUFFICES ASSUME NEW x \in Es(h), level(x) = 0, x \notin Es(g) PROVE FALSE
    BY <1>2
  <2>1. level(x) > 0
    BY <1>4
  <2>2. QED BY <2>1
<1>7. Twins(h, s) /\ Settled(h, s)
  BY <1>5, <1>6 DEF Twins, Settled
<1>8. QED BY <1>7

Clone(x) == <<level(x) + 1, id(x)>>

(* What COPY adds to a grid: a son for each of the leaves L.               *)
Clones(g, h, L) ==
  /\ Es(g) \subseteq Es(h)
  /\ \A x \in Es(g) : isLeaf(h, x) <=> isLeaf(g, x) /\ x \notin L
  /\ \A x \in L : x \in Es(g) /\ isLeaf(g, x) /\ Clone(x) \in Es(h)
  /\ \A y \in Es(h) : y \notin Es(g) => isLeaf(h, y) /\ \E x \in L : y = Clone(x)

(* Or nothing. *)
LEMMA ClonesNone ==
  ASSUME NEW g
  PROVE  Clones(g, g, {})
BY DEF Clones

(* Copying an element, if it is a leaf. *)
LEMMA CopyLeafClones ==
  ASSUME NEW g, WF(g), NEW e \in Es(g), level(e) < maxLevel(g), NEW h, h = CopyLeaf(g, e)
  PROVE  Clones(g, h, IF isLeaf(g, e) THEN {e} ELSE {})
<1>1. CASE isLeaf(g, e)
  <2> DEFINE i == level(e) + 1
             u0 == Upper(g, V0(g, e))
             u1 == Upper(g, V1(g, e))
             s == <<i, id(e)>>
  <2>1. h = Copied(g, e)
    BY <1>1 DEF CopyLeaf
  <2>2. Leaf(g, e, i, u0, u1)
    BY <1>1 DEF Leaf
  <2> HIDE DEF i, u0, u1
  <2>3. Growth(g, h, e, s, s, u0)
    BY <2>1, <2>2, CopiedMaps
  <2>4. s = Clone(e)
    BY DEF i, Clone
  <2> HIDE DEF s
  <2>5. /\ Es(h) = Es(g) \cup {s} /\ s \notin Es(g)
        /\ \A x \in Es(g) : isLeaf(h, x) <=> isLeaf(g, x) /\ x # e
        /\ isLeaf(h, s)
    BY <1>1, <2>3, GrowthElements DEF WF
  <2>6. Clones(g, h, {e})
    BY <1>1, <2>4, <2>5 DEF Clones
  <2>7. QED BY <1>1, <2>6
<1>2. CASE ~isLeaf(g, e)
  BY <1>2, ClonesNone DEF CopyLeaf
<1>3. QED BY <1>1, <1>2

(* Copying one element after the others. *)
LEMMA ClonesAgain ==
  ASSUME NEW f, NEW g, NEW h, NEW L, NEW K, Clones(f, g, L), Clones(g, h, K), K \subseteq Es(f)
  PROVE  Clones(f, h, L \cup K)
<1>1. Es(f) \subseteq Es(g) /\ Es(g) \subseteq Es(h) /\ Es(f) \subseteq Es(h)
  BY DEF Clones
<1>2. \A x \in Es(f) : isLeaf(h, x) <=> isLeaf(f, x) /\ x \notin L \cup K
  BY <1>1 DEF Clones
<1>3. ASSUME NEW x \in L \cup K PROVE x \in Es(f) /\ isLeaf(f, x) /\ Clone(x) \in Es(h)
  <2>1. CASE x \in L
    BY <1>1, <2>1 DEF Clones
  <2>2. CASE x \in K
    <3>1. x \in Es(f) /\ x \in Es(g) /\ isLeaf(g, x) /\ Clone(x) \in Es(h)
      BY <1>1, <2>2 DEF Clones
    <3>2. isLeaf(f, x)
      BY <3>1 DEF Clones
    <3>3. QED BY <3>1, <3>2
  <2>3. QED BY <2>1, <2>2
<1>4. ASSUME NEW y \in Es(h), y \notin Es(f) PROVE isLeaf(h, y) /\ \E x \in L \cup K : y = Clone(x)
  <2>1. CASE y \notin Es(g)
    BY <2>1 DEF Clones
  <2>2. CASE y \in Es(g)
    <3>1. isLeaf(g, y) /\ \E x \in L : y = Clone(x)
      BY <1>4, <2>2 DEF Clones
    <3>2. y \notin K
      BY <1>4
    <3>3. isLeaf(h, y)
      BY <2>2, <3>1, <3>2 DEF Clones
    <3>4. QED BY <3>1, <3>3
  <2>3. QED BY <2>1, <2>2
<1>5. QED BY <1>1, <1>2, <1>3, <1>4 DEF Clones

LeavesAt(g, i) == {x \in Es(g) : level(x) = i /\ isLeaf(g, x)}

(* COPY on a level copies its leaves. *)
LEMMA CopyLevelClones ==
  ASSUME NEW g, WF(g), NEW i \in 0..maxLevel(g), i < maxLevel(g), NEW h, h = CopyLevel(g, i)
  PROVE  Clones(g, h, LeavesAt(g, i))
<1> DEFINE list == g.elements[i]
           n == Len(list)
           L(k) == {x \in LeavesAt(g, i) : \E j \in 1..k : list[j] = x}
<1>1. n \in Nat /\ \A k \in 1..n : list[k] \in Es(g) /\ level(list[k]) = i
  BY LevelList
<1>2. PICK f : h = f[n] /\ f[0] = g /\ \A k \in 1..n : f[k] = CopyLeaf(f[k-1], list[k])
  BY <1>1, CopyLevelIs
<1>3. /\ \A x \in Es(g) : level(x) = i => \E k \in 1..n : list[k] = x
      /\ \A j, k \in 1..n : list[j] = list[k] => j = k
  <2>1. /\ Listed(list, LoAt(g, i)) /\ Numbering(LoAt(g, i))
        /\ \A x : x \in DOMAIN LoAt(g, i) <=> x \in Es(g) /\ level(x) = i
    BY ListedElements DEF WF, Forest
  <2>2. \A x \in Es(g) : level(x) = i => \E k \in 1..n : list[k] = x
    BY <2>1 DEF Listed
  <2>3. \A j, k \in 1..n : list[j] = list[k] => j = k
    BY <2>1, ListedOrder
  <2>4. QED BY <2>2, <2>3
<1> HIDE DEF n, list
<1> DEFINE T == {k \in Nat : k <= n => WF(f[k]) /\ Grows(g, f[k]) /\ Clones(g, f[k], L(k))}
<1>4. 0 \in T
  <2>1. L(0) = {}
    OBVIOUS
  <2>2. QED BY <1>2, <2>1, GrowsNot, ClonesNone
<1>5. ASSUME NEW k \in Nat, k \in T PROVE k + 1 \in T
  <2> SUFFICES ASSUME k + 1 <= n PROVE WF(f[k+1]) /\ Grows(g, f[k+1]) /\ Clones(g, f[k+1], L(k+1))
    OBVIOUS
  <2>0. PICK p, q, e : p = f[k] /\ q = f[k+1] /\ e = list[k+1]
    OBVIOUS
  <2>1. WF(p) /\ Grows(g, p) /\ Clones(g, p, L(k))
    BY <1>1, <1>5, <2>0
  <2>2. k + 1 \in 1..n /\ (k + 1) - 1 = k
    BY <1>1
  <2>3. q = CopyLeaf(p, e) /\ e \in Es(g) /\ level(e) = i
    BY <1>1, <1>2, <2>0, <2>2
  <2>4. e \in Es(p) /\ level(e) < maxLevel(p)
    BY <2>1, <2>3 DEF Grows
  <2>5. WF(q) /\ Grows(p, q)
    BY <2>1, <2>3, <2>4, CopyLeafKeeps
  <2>6. Grows(g, q)
    BY <2>1, <2>5, GrowsAgain
  <2>7. PICK K : K = (IF isLeaf(p, e) THEN {e} ELSE {}) /\ Clones(p, q, K) /\ K \subseteq Es(g)
    <3>1. WF(p) /\ e \in Es(p) /\ level(e) < maxLevel(p) /\ q = CopyLeaf(p, e)
      BY <2>1, <2>3, <2>4
    <3>2. Clones(p, q, IF isLeaf(p, e) THEN {e} ELSE {})
      BY ONLY <3>1, CopyLeafClones
    <3>3. PICK K : K = IF isLeaf(p, e) THEN {e} ELSE {}
      OBVIOUS
    <3>4. K \subseteq Es(g)
      BY <2>3, <3>3
    <3>5. Clones(p, q, K)
      BY <3>2, <3>3
    <3>6. QED BY <3>3, <3>4, <3>5
  <2>8. Clones(g, q, L(k) \cup K)
    BY <2>1, <2>7, ClonesAgain
  <2>9. e \notin L(k)
    <3>1. \A j \in 1..k : j \in 1..n /\ j # k + 1
      BY <1>1, <2>2
    <3>2. QED BY <1>3, <2>0, <2>2, <3>1
  <2>10. isLeaf(p, e) <=> isLeaf(g, e)
    BY <2>1, <2>3, <2>9 DEF Clones
  <2>11. L(k) \cup K = L(k+1)
    <3>1. \A x : x \in L(k+1) => x \in L(k) \cup K
      <4> SUFFICES ASSUME NEW x \in L(k+1) PROVE x \in L(k) \cup K
        OBVIOUS
      <4>1. PICK j \in 1..(k+1) : list[j] = x
        OBVIOUS
      <4>2. CASE j = k + 1
        BY <2>0, <2>7, <2>10, <4>1, <4>2 DEF LeavesAt
      <4>3. CASE j # k + 1
        <5>1. j \in 1..k
          BY <4>3
        <5>2. QED BY <4>1, <5>1
      <4>4. QED BY <4>2, <4>3
    <3>2. \A x : x \in L(k) => x \in L(k+1)
      <4>1. \A j \in 1..k : j \in 1..(k+1)
        OBVIOUS
      <4>2. QED BY <4>1
    <3>3. \A x : x \in K => x \in L(k+1)
      <4>1. k + 1 \in 1..(k+1)
        OBVIOUS
      <4>2. QED BY <2>0, <2>3, <2>7, <2>10, <4>1 DEF LeavesAt
    <3>4. QED BY <3>1, <3>2, <3>3
  <2>12. QED BY <2>0, <2>5, <2>6, <2>8, <2>11
<1> HIDE DEF T
<1>6. n \in T
  BY <1>1, <1>4, <1>5, InductionOn
<1>7. Clones(g, h, L(n))
  BY <1>1, <1>2, <1>6 DEF T
<1>8. L(n) = LeavesAt(g, i)
  BY <1>3 DEF LeavesAt
<1>9. QED BY <1>7, <1>8

(* The copies of two that go together go together. *)
LEMMA CopyLevelTwins ==
  ASSUME NEW g, WF(g), NEW i \in 0..maxLevel(g), i < maxLevel(g), NEW h, h = CopyLevel(g, i),
         NEW t, Twins(g, t), Settled(g, t)
  PROVE  \E s : Twins(h, s) /\ Settled(h, s)
<1> DEFINE L == LeavesAt(g, i)
           s == [x \in Above(h, 0) |-> IF x \in Es(g) THEN t[x] ELSE Clone(t[<<i, id(x)>>])]
<1>1. Clones(g, h, L)
  BY CopyLevelClones
<1>2. /\ Es(g) \subseteq Es(h) /\ i \in Nat
      /\ \A x \in Es(g) : x = <<level(x), id(x)>> /\ level(x) \in Nat
  BY <1>1, Basics DEF Clones, WF, Forest
<1>3. ASSUME NEW x \in L
      PROVE  /\ x \in Es(g) /\ isLeaf(g, x) /\ level(x) = i /\ x = <<i, id(x)>>
             /\ Clone(x) = <<i + 1, id(x)>> /\ level(Clone(x)) = i + 1 /\ id(Clone(x)) = id(x)
             /\ Clone(x) \in Above(h, 0) /\ Clone(x) \notin Es(g)
             /\ t[x] \in L /\ t[x] # x /\ t[t[x]] = x
  <2>1. x \in Es(g) /\ isLeaf(g, x) /\ level(x) = i /\ x = <<i, id(x)>>
    BY <1>2 DEF LeavesAt
  <2>2. Clone(x) = <<i + 1, id(x)>> /\ level(Clone(x)) = i + 1 /\ id(Clone(x)) = id(x)
    BY <2>1 DEF Clone, level, id
  <2>3. Clone(x) \in Es(h)
    BY <1>1 DEF Clones
  <2>4. Clone(x) \notin Es(g)
    BY <2>1, FreshSons DEF WF, Clone
  <2>5. Clone(x) \in Above(h, 0)
    BY <1>2, <2>2, <2>3 DEF Above
  <2>6. x \in Above(g, 0)
    BY <1>2, <2>1 DEF Settled, Above
  <2>7. t[x] \in Es(g) /\ level(t[x]) = i /\ t[x] # x /\ t[t[x]] = x
    BY <2>1, <2>6 DEF Twins, Above
  <2>8. isLeaf(g, t[x])
    BY <2>1, <2>6 DEF Settled
  <2>9. t[x] \in L
    BY <2>7, <2>8 DEF LeavesAt
  <2>10. QED BY <2>1, <2>2, <2>4, <2>5, <2>7, <2>9
<1>4. \A x \in Es(g) : isLeaf(h, x) <=> isLeaf(g, x) /\ x \notin L
  BY <1>1 DEF Clones
<1>5. \A y \in Es(h) : y \notin Es(g) => isLeaf(h, y) /\ \E x \in L : y = Clone(x)
  BY <1>1 DEF Clones
<1>6. ASSUME NEW x \in L PROVE s[Clone(x)] = Clone(t[x])
  <2>1. <<i, id(Clone(x))>> = x /\ Clone(x) \in Above(h, 0) /\ Clone(x) \notin Es(g)
    BY <1>3
  <2>2. QED BY <2>1
<1>7. ASSUME NEW x \in Above(g, 0)
      PROVE  x \in Es(g) /\ x \in Above(h, 0) /\ s[x] = t[x]
  BY <1>2 DEF Above
<1> HIDE DEF s
<1>8. ASSUME NEW x \in Above(h, 0)
      PROVE  /\ s[x] \in Above(h, 0) /\ level(s[x]) = level(x) /\ s[x] # x /\ s[s[x]] = x
             /\ isLeaf(h, x) <=> isLeaf(h, s[x])
  <2>1. CASE x \in Es(g)
    <3>1. x \in Above(g, 0)
      BY <2>1 DEF Above
    <3>2. t[x] \in Above(g, 0) /\ level(t[x]) = level(x) /\ t[x] # x /\ t[t[x]] = x
      BY <3>1 DEF Twins
    <3>3. s[x] = t[x] /\ s[t[x]] = x /\ t[x] \in Above(h, 0) /\ t[x] \in Es(g)
      BY <1>7, <3>1, <3>2
    <3>4. isLeaf(g, x) <=> isLeaf(g, t[x])
      BY <3>1 DEF Settled
    <3>5. x \in L <=> t[x] \in L
      BY <2>1, <3>2, <3>3, <3>4 DEF LeavesAt
    <3>6. isLeaf(h, x) <=> isLeaf(h, t[x])
      BY <1>4, <2>1, <3>3, <3>4, <3>5
    <3>7. QED BY <3>2, <3>3, <3>6
  <2>2. CASE x \notin Es(g)
    <3>1. PICK y \in L : x = Clone(y)
      BY <1>5, <2>2 DEF Above
    <3>2. PICK z : z = t[y] /\ z \in L /\ z # y /\ t[z] = y
      BY <1>3, <3>1
    <3>3. s[x] = Clone(z) /\ s[Clone(z)] = x
      BY <1>6, <3>1, <3>2
    <3>4. Clone(z) \in Above(h, 0) /\ Clone(z) \notin Es(g) /\ level(Clone(z)) = level(x)
      BY <1>3, <3>1, <3>2
    <3>5. Clone(z) # x
      BY <1>3, <3>1, <3>2
    <3>6. isLeaf(h, x) /\ isLeaf(h, Clone(z))
      BY <1>5, <2>2, <3>4 DEF Above
    <3>7. QED BY <3>3, <3>4, <3>5, <3>6
  <2>3. QED BY <2>1, <2>2
<1>9. ASSUME NEW x \in Es(h), level(x) = 0 PROVE ~isLeaf(h, x)
  <2>1. CASE x \in Es(g)
    BY <1>4, <1>9, <2>1 DEF Settled
  <2>2. CASE x \notin Es(g)
    <3>1. PICK y \in L : x = Clone(y)
      BY <1>5, <2>2
    <3>2. level(x) = i + 1
      BY <1>3, <3>1
    <3>3. QED BY <1>2, <1>9, <3>2
  <2>3. QED BY <2>1, <2>2
<1>10. Twins(h, s) /\ Settled(h, s)
  BY <1>8, <1>9 DEF Twins, Settled
<1>11. QED BY <1>10

(* Every element above the macro grid has one that it goes with, and the   *)
(* leaves go together.                                                     *)
Coupled(g) == \E t : Twins(g, t) /\ Settled(g, t)

(* COPY on all levels. *)
LEMMA WithCopiesTwins ==
  ASSUME NEW g, WF(g), Coupled(g), NEW h, h = WithCopies(g)
  PROVE  Coupled(h)
<1>1. CASE refinementType # "COPY"
  BY <1>1 DEF WithCopies
<1>2. CASE refinementType = "COPY"
  <2> DEFINE n == maxLevel(g)
  <2>1. n \in Nat
    BY Basics DEF WF, Forest
  <2>2. PICK f : h = f[n] /\ f[0] = g /\ \A k \in 1..n : f[k] = CopyLevel(f[k-1], k - 1)
    BY <2>1, <1>2, WithCopiesIs
  <2>3. \A k \in 1..n : k - 1 \in 0..maxLevel(g) /\ k - 1 < maxLevel(g)
    BY <2>1
  <2> HIDE DEF n
  <2> DEFINE T == {k \in Nat : k <= n => WF(f[k]) /\ Grows(g, f[k]) /\ Coupled(f[k])}
  <2>4. 0 \in T
    BY <2>2, GrowsNot
  <2>5. ASSUME NEW k \in Nat, k \in T PROVE k + 1 \in T
    <3> SUFFICES ASSUME k + 1 <= n PROVE WF(f[k+1]) /\ Grows(g, f[k+1]) /\ Coupled(f[k+1])
      OBVIOUS
    <3>0. PICK p, q : p = f[k] /\ q = f[k+1]
      OBVIOUS
    <3>1. WF(p) /\ Grows(g, p) /\ Coupled(p)
      BY <2>5, <2>1, <3>0
    <3>2. k + 1 \in 1..n /\ (k + 1) - 1 = k
      BY <2>1
    <3>3. q = CopyLevel(p, k) /\ k \in 0..maxLevel(g) /\ k < maxLevel(g)
      <4>1. f[k+1] = CopyLevel(f[(k+1)-1], (k+1)-1) /\ (k+1)-1 \in 0..maxLevel(g) /\ (k+1)-1 < maxLevel(g)
        BY <2>2, <2>3, <3>2
      <4>2. QED BY <4>1, <3>0, <3>2
    <3>4. k \in 0..maxLevel(p) /\ k < maxLevel(p)
      BY <3>1, <3>3 DEF Grows
    <3>5. WF(q) /\ Grows(p, q)
      BY <3>1, <3>3, <3>4, CopyLevelKeeps
    <3>6. PICK t : Twins(p, t) /\ Settled(p, t)
      BY <3>1 DEF Coupled
    <3>7. \E s : Twins(q, s) /\ Settled(q, s)
      BY <3>1, <3>3, <3>4, <3>6, CopyLevelTwins
    <3>8. QED BY <3>0, <3>1, <3>5, <3>7, GrowsAgain DEF Coupled
  <2> HIDE DEF T
  <2>6. n \in T
    BY <2>1, <2>4, <2>5, InductionOn
  <2>7. QED BY <2>1, <2>2, <2>6 DEF T
<1>3. QED BY <1>1, <1>2

(* Marks and empty levels do not matter. *)
LEMMA SameTwins ==
  ASSUME NEW g, NEW h, Es(h) = Es(g), NEW t, Twins(g, t)
  PROVE  Twins(h, t)
<1>1. Above(h, 0) = Above(g, 0)
  BY DEF Above
<1>2. QED BY <1>1 DEF Twins

(* The elements stay when an empty level goes. *)
LEMMA WithoutEmptyLevelTwins ==
  ASSUME NEW g, Shape(g), NEW t, Twins(g, t), Settled(g, t), NEW h, h = WithoutEmptyLevel(g)
  PROVE  Twins(h, t) /\ Settled(h, t)
<1>1. h.element = g.element
  BY DEF WithoutEmptyLevel, Shape
<1>2. Es(h) = Es(g) /\ Above(h, 0) = Above(g, 0) /\ \A x : isLeaf(h, x) <=> isLeaf(g, x)
  BY <1>1 DEF Es, Above, isLeaf
<1>3. QED BY <1>2, SameTwins DEF Settled

(* Refinement of all leaves. *)
LEMMA GrownTwins ==
  ASSUME NEW g, WF(g), Almost(g), g.failed = FALSE, Marched(g), NEW t, Twins(g, t), NEW h, h = Grown(g)
  PROVE  Coupled(h)
<1> DEFINE r == RefinedAll(g)
           w == WithoutEmptyLevel(r)
<1>1. h = WithCopies(w)
  BY DEF Grown
<1>2. WF(r) /\ Almost(r) /\ r.failed = FALSE
  BY RefinedAllKeeps
<1>3. PICK s : Twins(r, s) /\ Settled(r, s)
  BY RefinedAllTwins
<1> HIDE DEF r
<1>4. WF(w)
  BY <1>2, WithoutEmptyLevelKeeps
<1>5. Shape(r)
  BY <1>2, WFRecords
<1>6. Twins(w, s) /\ Settled(w, s)
  BY <1>3, <1>5, WithoutEmptyLevelTwins
<1>7. Coupled(w)
  BY <1>6 DEF Coupled
<1> HIDE DEF w
<1>8. QED BY <1>1, <1>4, <1>7, WithCopiesTwins

(* globalRefine() marks the leaves. *)
LEMMA MarkedAllMarches ==
  ASSUME NEW g, WF(g), NEW h, h = MarkedAll(g), Es(h) = Es(g)
  PROVE  Marched(h)
<1>1. PICK G : G = [e \in Es(g) |-> IF isLeaf(g, e) THEN [g.element[e] EXCEPT !.markState = "REFINE"] ELSE g.element[e]]
  OBVIOUS
<1>2. h = [g EXCEPT !.element = G] /\ Shape(g)
  BY <1>1, WFRecords DEF MarkedAll, Es
<1>3. h.element = G
  BY <1>2 DEF Shape
<1>4. ASSUME NEW e \in Es(h), isLeaf(h, e) PROVE h.element[e].markState = "REFINE"
  <2>1. PICK q : q = g.element[e] /\ q \in ElementType(Vs(g), Es(g))
    BY ElementParts
  <2>2. h.element[e] = IF isLeaf(g, e) THEN [q EXCEPT !.markState = "REFINE"] ELSE q
    BY <1>1, <1>3, <2>1
  <2>3. CASE isLeaf(g, e)
    BY <2>1, <2>2, <2>3 DEF ElementType
  <2>4. CASE ~isLeaf(g, e)
    BY <1>4, <2>1, <2>2, <2>4 DEF isLeaf
  <2>5. QED BY <2>3, <2>4
<1>5. QED BY <1>4 DEF Marched

Even(g) == \E t : Twins(g, t)

(* A step of globalRefine() on even lists fails no assertion, and leaves   *)
(* even lists.                                                             *)
LEMMA RefinedOnceEven ==
  ASSUME NEW g, Safe(g), maxLevel(g) < LevelLimit, Even(g), NEW h, h = RefinedOnce(g)
  PROVE  h.failed = FALSE /\ Even(h)
<1>1. PICK m, a : m = MarkedAll(g) /\ a = Adapted(m)
  OBVIOUS
<1>2. h = Cleared(a)
  BY <1>1 DEF RefinedOnce, Safe
<1>3. PICK t : Twins(g, t)
  BY DEF Even
<1>4. Safe(m) /\ Es(m) = Es(g) /\ maxLevel(m) = maxLevel(g) /\ Unannounced(m)
  <2>1. Remarked(g, m) /\ Unannounced(m)
    BY <1>1, MarkedAllKeeps DEF Safe
  <2>2. QED BY <2>1, RemarkedSafe
<1>5. Twins(m, t) /\ Marched(m)
  BY <1>1, <1>3, <1>4, SameTwins, MarkedAllMarches DEF Safe
<1>6. WF(m) /\ Full(m) /\ m.failed = FALSE
  BY <1>4 DEF Safe
<1>7. Coarsened(m) = m
  BY <1>4, <1>5, <1>6, CoarsenedStays
<1>8. a = Grown(m)
  BY <1>1, <1>7 DEF Adapted
<1>9. Almost(m)
  BY <1>6 DEF Full, Almost
<1>10. WF(a) /\ a.failed = FALSE
  BY <1>6, <1>8, <1>9, GrownKeeps
<1>11. Coupled(a)
  BY <1>5, <1>6, <1>8, <1>9, GrownTwins
<1>12. PICK s : Twins(a, s)
  BY <1>11 DEF Coupled
<1>13. Remarked(a, h)
  BY <1>2, <1>10, ClearedKeeps
<1>14. Es(h) = Es(a)
  BY <1>10, <1>13, RemarkedKeeps
<1>15. h.failed = FALSE
  BY <1>10, <1>13 DEF Remarked
<1>16. Twins(h, s)
  BY <1>12, <1>14, SameTwins
<1>17. QED BY <1>15, <1>16 DEF Even

(* So globalRefine() fails no assertion, with copies or without. *)
LEMMA RefinedTimesEven ==
  ASSUME NEW g, Safe(g), Even(g), NEW n \in Nat, maxLevel(g) + n <= LevelLimit, NEW h, h = RefinedTimes(g, n)
  PROVE  h.failed = FALSE
<1>0. maxLevel(g) \in Nat /\ LevelLimit \in Nat
  BY Basics DEF Safe, WF, Forest
<1>1. PICK f : h = f[n] /\ f[0] = g /\ \A k \in 1..n : f[k] = RefinedOnce(f[k-1])
  BY RefinedTimesIs
<1> DEFINE T == {k \in Nat : k <= n => Safe(f[k]) /\ Even(f[k]) /\ maxLevel(f[k]) <= maxLevel(g) + k}
<1>2. 0 \in T
  BY <1>0, <1>1
<1>3. ASSUME NEW k \in Nat, k \in T PROVE k + 1 \in T
  <2> SUFFICES ASSUME k + 1 <= n
               PROVE  Safe(f[k+1]) /\ Even(f[k+1]) /\ maxLevel(f[k+1]) <= maxLevel(g) + (k + 1)
    OBVIOUS
  <2>0. PICK p, q : p = f[k] /\ q = f[k+1]
    OBVIOUS
  <2>1. Safe(p) /\ Even(p) /\ maxLevel(p) <= maxLevel(g) + k
    BY <1>3, <2>0
  <2>2. q = RefinedOnce(p)
    <3>1. k + 1 \in 1..n /\ (k + 1) - 1 = k
      OBVIOUS
    <3>2. f[k+1] = RefinedOnce(f[(k+1)-1])
      BY <1>1, <3>1
    <3>3. QED BY <2>0, <3>1, <3>2
  <2>3. maxLevel(p) \in Nat /\ maxLevel(p) < LevelLimit
    <3>1. maxLevel(p) \in Nat
      BY <2>1, Basics DEF Safe, WF, Forest
    <3>2. QED BY <3>1, <2>1, <1>0
  <2>4. q.failed = FALSE /\ Even(q)
    BY <2>1, <2>2, <2>3, RefinedOnceEven
  <2>5. Safe(q) /\ maxLevel(q) <= maxLevel(p) + 1
    BY <2>1, <2>2, <2>3, <2>4, RefinedOnceKeeps
  <2>6. maxLevel(q) \in Nat
    BY <2>5, Basics DEF Safe, WF, Forest
  <2>7. maxLevel(q) <= maxLevel(g) + (k + 1)
    BY <1>0, <2>1, <2>3, <2>5, <2>6
  <2>8. QED BY <2>0, <2>4, <2>5, <2>7
<1> HIDE DEF T
<1>4. n \in T
  BY <1>2, <1>3, InductionOn
<1>5. QED BY <1>1, <1>4 DEF T, Safe

-----------------------------------------------------------------------------
(* The assertions of adapt() and isLeaf() hold as long as no element has   *)
(* been copied.                                                            *)

LEMMA UncopiedTwofold == Standing => (Uncopied <=> Twofold(entities))
<1> SUFFICES ASSUME Standing PROVE Uncopied <=> Twofold(entities)
  OBVIOUS
<1>1. /\ elem = entities.element /\ DOMAIN elem = Es(entities)
      /\ \A e : e \in leaves <=> e \in Es(entities) /\ isLeaf(entities, e)
  BY Names DEF Standing
<1>2. QED BY <1>1 DEF Uncopied, Twofold

(* A step that turns an assertion false meets a copied element. *)
LEMMA FailureIsCopied ==
  ASSUME Standing, ~entities.failed, NEW g, Becomes(g), Twofold(entities) => g.failed = FALSE
  PROVE  AssertionsHoldUncopied'
<1>1. CASE g.failed
  <2>1. entities' = [entities EXCEPT !.failed = TRUE]
    BY <1>1 DEF Becomes
  <2>2. ~Twofold(entities) /\ Shape(entities)
    BY <1>1, WFRecords DEF Standing
  <2>3. ~Uncopied
    BY <2>2, UncopiedTwofold
  <2>4. entities'.element = entities.element
    BY <2>1, <2>2 DEF Shape
  <2>5. ~Uncopied'
    BY <2>3, <2>4 DEF Uncopied, elem, leaves, isLeaf
  <2>6. QED BY <2>5 DEF AssertionsHoldUncopied
<1>2. CASE ~g.failed
  BY <1>2 DEF Becomes, AssertionsHoldUncopied, AssertionsHold
<1>3. QED BY <1>1, <1>2

(* Every step keeps the assertions until an element is copied. *)
LEMMA NextUncopied == Standing /\ AssertionsHoldUncopied /\ [Next]_vars => AssertionsHoldUncopied'
<1> SUFFICES ASSUME Standing, AssertionsHoldUncopied, [Next]_vars PROVE AssertionsHoldUncopied'
  OBVIOUS
<1>1. CASE UNCHANGED entities
  BY <1>1 DEF AssertionsHoldUncopied, AssertionsHold, Uncopied, elem, leaves, isLeaf
<1>2. CASE Adapt
  <2>1. ~entities.failed /\ Becomes(Adapted(entities))
    BY <1>2 DEF Adapt
  <2>2. PICK g : g = Adapted(entities)
    OBVIOUS
  <2>3. Safe(entities)
    BY <2>1 DEF Standing, Safe
  <2>4. Twofold(entities) => g.failed = FALSE
    BY <2>2, <2>3, WholeAdapts
  <2>5. Becomes(g)
    BY <2>1, <2>2
  <2>6. QED BY <2>1, <2>4, <2>5, FailureIsCopied
<1>3. CASE GlobalRefine
  <2>1. PICK refCount \in Counts :
          /\ ~entities.failed /\ maxLevel(entities) + refCount <= LevelLimit
          /\ IF refCount > 0 THEN Becomes(RefinedTimes(entities, refCount)) ELSE UNCHANGED <<entities, leafIndex, inserted>>
    BY <1>3 DEF GlobalRefine
  <2>2. CASE ~(refCount > 0)
    BY <1>1, <2>1, <2>2
  <2>3. CASE refCount > 0
    <3>1. PICK g : g = RefinedTimes(entities, refCount)
      OBVIOUS
    <3>2. Becomes(g)
      BY <2>1, <2>3, <3>1
    <3>3. Safe(entities) /\ refCount \in Nat
      BY <2>1, <2>3, CountsAssumption DEF Standing, Safe
    <3>4. Twofold(entities) => Even(entities)
      BY <3>3, TwofoldTwins DEF Even, Safe
    <3>5. Twofold(entities) => g.failed = FALSE
      BY <2>1, <3>1, <3>3, <3>4, RefinedTimesEven
    <3>6. QED BY <2>1, <3>2, <3>5, FailureIsCopied
  <2>4. QED BY <2>2, <2>3
<1>4. CASE ~entities.failed /\ Remarked(entities, entities')
  BY <1>4 DEF Remarked, AssertionsHoldUncopied, AssertionsHold
<1>5. CASE Mark
  <2>1. PICK e \in leaves, m \in MarkStates :
          ~entities.failed /\ entities' = [entities EXCEPT !.element[e].markState = m] /\ (m = "REFINE" => level(e) < LevelLimit)
    BY <1>5 DEF Mark
  <2>2. e \in Es(entities)
    BY DEF leaves, Es
  <2>3. QED BY <1>4, <2>1, <2>2, MarkKeeps DEF Standing
<1>6. CASE PostAdapt
  <2>1. ~entities.failed /\ entities' = Cleared(entities)
    BY <1>6 DEF PostAdapt
  <2>2. QED BY <1>4, <2>1, ClearedKeeps DEF Standing
<1>7. CASE SetRefinementType \/ Stopped \/ UNCHANGED vars
  BY <1>1, <1>7 DEF SetRefinementType, Stopped, vars
<1>8. QED BY <1>2, <1>3, <1>5, <1>6, <1>7 DEF Next

(* No assertion of adapt() and isLeaf() fails as long as no element has    *)
(* been copied: the pairs that adapt() takes from the lists are brothers.  *)
THEOREM AssertionsHoldUncopiedInvariant == Spec => []AssertionsHoldUncopied
<1>1. Init => AssertionsHoldUncopied
  <2> SUFFICES ASSUME Init PROVE AssertionsHoldUncopied
    OBVIOUS
  <2>1. PICK vp, segments : entities = createGrid(vp, segments)
    BY DEF Init
  <2>2. entities.failed = FALSE
    BY <2>1 DEF createGrid
  <2>3. QED BY <2>2 DEF AssertionsHoldUncopied, AssertionsHold
<1>2. Spec => []Standing
  BY StandingInvariant
<1>3. QED BY <1>1, <1>2, NextUncopied, PTL DEF Spec

(* Without COPY no element is ever copied. *)
LEMMA GrownTwofold ==
  ASSUME NEW g, Whole(g), Almost(g), refinementType = "LOCAL", NEW h, h = Grown(g)
  PROVE  Twofold(h)
<1>1. PICK r, w : r = RefinedAll(g) /\ w = WithoutEmptyLevel(r)
  OBVIOUS
<1>2. WF(g) /\ g.failed = FALSE /\ Twofold(g)
  BY DEF Whole
<1>3. h = w
  BY <1>1, <1>2 DEF Grown, WithCopies
<1>4. Twofold(r) /\ Shape(r)
  BY <1>1, <1>2, RefinedAllSprouts, WFRecords DEF Sprouts
<1>5. w.element = r.element
  BY <1>1, <1>4 DEF WithoutEmptyLevel, Shape
<1>6. QED BY <1>3, <1>4, <1>5 DEF Twofold, Es, isLeaf

(* Nor by adapt() ... *)
LEMMA AdaptedTwofold ==
  ASSUME NEW g, Safe(g), Twofold(g), refinementType = "LOCAL", NEW h, h = Adapted(g)
  PROVE  Twofold(h) /\ h.failed = FALSE
<1>1. PICK d : d = Coarsened(g)
  OBVIOUS
<1>2. Whole(d) /\ Almost(d)
  BY <1>1, WholeCoarsens
<1>3. h = Grown(d)
  BY <1>1 DEF Adapted
<1>4. QED BY <1>2, <1>3, GrownTwofold, WholeAdapts

(* Marks do not matter. *)
LEMMA RemarkedTwofold ==
  ASSUME NEW g, WF(g), Twofold(g), NEW h, Remarked(g, h)
  PROVE  Twofold(h)
<1>1. Es(h) = Es(g) /\ \A e \in Es(g) : (isLeaf(h, e) <=> isLeaf(g, e)) /\ h.element[e].sons = g.element[e].sons
  BY RemarkedKeeps DEF Remarked
<1>2. QED BY <1>1 DEF Twofold

(* ... nor in a step of globalRefine() ... *)
LEMMA RefinedOnceTwofold ==
  ASSUME NEW g, Safe(g), Twofold(g), maxLevel(g) < LevelLimit, refinementType = "LOCAL", NEW h, h = RefinedOnce(g)
  PROVE  Twofold(h) /\ h.failed = FALSE
<1>1. PICK m, a : m = MarkedAll(g) /\ a = Adapted(m)
  OBVIOUS
<1>2. h = Cleared(a)
  BY <1>1 DEF RefinedOnce, Safe
<1>3. Remarked(g, m)
  BY <1>1, MarkedAllKeeps DEF Safe
<1>4. Safe(m) /\ Twofold(m)
  BY <1>3, RemarkedSafe, RemarkedTwofold DEF Safe
<1>5. Twofold(a) /\ a.failed = FALSE
  BY <1>1, <1>4, AdaptedTwofold
<1>6. WF(a)
  BY <1>1, <1>4, <1>5, AdaptedKeeps DEF Safe
<1>7. Remarked(a, h)
  BY <1>2, <1>6, ClearedKeeps
<1>8. QED BY <1>5, <1>6, <1>7, RemarkedTwofold DEF Remarked

(* ... nor in all of them. *)
LEMMA RefinedTimesTwofold ==
  ASSUME NEW g, Safe(g), Twofold(g), refinementType = "LOCAL", NEW n \in Nat, maxLevel(g) + n <= LevelLimit,
         NEW h, h = RefinedTimes(g, n)
  PROVE  Twofold(h) /\ h.failed = FALSE
<1>0. maxLevel(g) \in Nat /\ LevelLimit \in Nat
  BY Basics DEF Safe, WF, Forest
<1>1. PICK f : h = f[n] /\ f[0] = g /\ \A k \in 1..n : f[k] = RefinedOnce(f[k-1])
  BY RefinedTimesIs
<1> DEFINE T == {k \in Nat : k <= n => Safe(f[k]) /\ Twofold(f[k]) /\ maxLevel(f[k]) <= maxLevel(g) + k}
<1>2. 0 \in T
  BY <1>0, <1>1
<1>3. ASSUME NEW k \in Nat, k \in T PROVE k + 1 \in T
  <2> SUFFICES ASSUME k + 1 <= n
               PROVE  Safe(f[k+1]) /\ Twofold(f[k+1]) /\ maxLevel(f[k+1]) <= maxLevel(g) + (k + 1)
    OBVIOUS
  <2>0. PICK p, q : p = f[k] /\ q = f[k+1]
    OBVIOUS
  <2>1. Safe(p) /\ Twofold(p) /\ maxLevel(p) <= maxLevel(g) + k
    BY <1>3, <2>0
  <2>2. q = RefinedOnce(p)
    <3>1. k + 1 \in 1..n /\ (k + 1) - 1 = k
      OBVIOUS
    <3>2. f[k+1] = RefinedOnce(f[(k+1)-1])
      BY <1>1, <3>1
    <3>3. QED BY <2>0, <3>1, <3>2
  <2>3. maxLevel(p) \in Nat /\ maxLevel(p) < LevelLimit
    <3>1. maxLevel(p) \in Nat
      BY <2>1, Basics DEF Safe, WF, Forest
    <3>2. QED BY <3>1, <2>1, <1>0
  <2>4. q.failed = FALSE /\ Twofold(q)
    BY <2>1, <2>2, <2>3, RefinedOnceTwofold
  <2>5. Safe(q) /\ maxLevel(q) <= maxLevel(p) + 1
    BY <2>1, <2>2, <2>3, <2>4, RefinedOnceKeeps
  <2>6. maxLevel(q) \in Nat
    BY <2>5, Basics DEF Safe, WF, Forest
  <2>7. maxLevel(q) <= maxLevel(g) + (k + 1)
    BY <1>0, <2>1, <2>3, <2>5, <2>6
  <2>8. QED BY <2>0, <2>4, <2>5, <2>7
<1> HIDE DEF T
<1>4. n \in T
  BY <1>2, <1>3, InductionOn
<1>5. QED BY <1>1, <1>4 DEF T, Safe

(* So it is from the start and after every step. *)
Local == refinementType = "LOCAL" /\ Twofold(entities) /\ entities.failed = FALSE

(* No macro element has sons. *)
LEMMA InitLocal == Init => Local
<1> SUFFICES ASSUME Init PROVE Local
  OBVIOUS
<1>1. PICK vp, segments : entities = createGrid(vp, segments)
  BY DEF Init
<1>2. entities.failed = FALSE /\ refinementType = "LOCAL"
  BY <1>1 DEF createGrid, Init
<1>3. \A e \in Es(entities) : isLeaf(entities, e)
  BY <1>1 DEF createGrid, Es, isLeaf
<1>4. QED BY <1>2, <1>3 DEF Local, Twofold

(* The grid that adapt() or globalRefine() makes. *)
LEMMA BecomesLocal ==
  ASSUME NEW g, Becomes(g), Twofold(g), g.failed = FALSE, refinementType' = "LOCAL"
  PROVE  Local'
BY DEF Becomes, Local

(* Every step. *)
LEMMA NextLocal == "COPY" \notin Types /\ Standing /\ Local /\ [Next]_vars => Local'
<1> SUFFICES ASSUME "COPY" \notin Types, Standing, Local, [Next]_vars PROVE Local'
  OBVIOUS
<1>1. Safe(entities) /\ Twofold(entities) /\ refinementType = "LOCAL" /\ WF(entities)
  BY DEF Standing, Safe, Local
<1>2. CASE SetRefinementType
  BY <1>1, <1>2, TypesAssumption DEF SetRefinementType, Local
<1>3. CASE Adapt
  <2>1. Becomes(Adapted(entities)) /\ refinementType' = refinementType
    BY <1>3 DEF Adapt
  <2>2. PICK g : g = Adapted(entities)
    OBVIOUS
  <2>3. Twofold(g) /\ g.failed = FALSE
    BY <1>1, <2>2, AdaptedTwofold
  <2>4. Becomes(g)
    BY <2>1, <2>2
  <2>5. QED BY <1>1, <2>1, <2>3, <2>4, BecomesLocal
<1>4. CASE GlobalRefine
  <2>1. PICK refCount \in Counts :
          /\ maxLevel(entities) + refCount <= LevelLimit /\ refinementType' = refinementType
          /\ IF refCount > 0 THEN Becomes(RefinedTimes(entities, refCount)) ELSE UNCHANGED <<entities, leafIndex, inserted>>
    BY <1>4 DEF GlobalRefine
  <2>2. CASE ~(refCount > 0)
    BY <1>1, <2>1, <2>2 DEF Local, Safe
  <2>3. CASE refCount > 0
    <3>1. PICK g : g = RefinedTimes(entities, refCount)
      OBVIOUS
    <3>2. refCount \in Nat
      BY <2>1, <2>3, CountsAssumption
    <3>3. Twofold(g) /\ g.failed = FALSE
      BY <1>1, <2>1, <3>1, <3>2, RefinedTimesTwofold
    <3>4. Becomes(g)
      BY <2>1, <2>3, <3>1
    <3>5. QED BY <1>1, <2>1, <3>3, <3>4, BecomesLocal
  <2>4. QED BY <2>2, <2>3
<1>5. ASSUME Remarked(entities, entities'), refinementType' = refinementType PROVE Local'
  <2>1. entities'.failed = FALSE
    BY <1>5 DEF Remarked, Local
  <2>2. PICK h : h = entities'
    OBVIOUS
  <2>3. Twofold(h)
    BY <1>1, <1>5, <2>2, RemarkedTwofold
  <2>4. QED BY <1>1, <1>5, <2>1, <2>2, <2>3 DEF Local
<1>6. CASE Mark
  <2>1. PICK e \in leaves, m \in MarkStates :
          entities' = [entities EXCEPT !.element[e].markState = m] /\ (m = "REFINE" => level(e) < LevelLimit)
    BY <1>6 DEF Mark
  <2>2. e \in Es(entities)
    BY DEF leaves, Es
  <2>3. QED BY <1>1, <1>5, <1>6, <2>1, <2>2, MarkKeeps DEF Mark
<1>7. CASE PostAdapt
  BY <1>1, <1>5, <1>7, ClearedKeeps DEF PostAdapt
<1>8. CASE Stopped \/ UNCHANGED vars
  BY <1>8 DEF Stopped, vars, Local
<1>9. QED BY <1>2, <1>3, <1>4, <1>6, <1>7, <1>8 DEF Next

(* A program that never asks for COPY copies no element and fails no       *)
(* assertion of adapt() and isLeaf().                                      *)
THEOREM LocalNeverFails ==
  ASSUME "COPY" \notin Types
  PROVE  Spec => [](Uncopied /\ AssertionsHold)
<1>1. Standing /\ Local => Uncopied /\ AssertionsHold
  BY UncopiedTwofold DEF Local, AssertionsHold
<1>2. Spec => []Standing
  BY StandingInvariant
<1>3. Standing /\ Local /\ [Next]_vars => Local'
  BY NextLocal
<1>4. QED BY <1>1, <1>2, <1>3, InitLocal, PTL DEF Spec

-----------------------------------------------------------------------------
(* The leaf index set.  Its loops: *)

(* The leaves of a level get their numbers from left to right. *)
LEMMA NumberElementsIs ==
  ASSUME NEW g, NEW s, NEW i, Len(g.elements[i]) \in Nat
  PROVE  \E f : /\ NumberElements(g, s, i) = f[Len(g.elements[i])] /\ f[0] = s
               /\ \A k \in 1..Len(g.elements[i]) : f[k] = NumberElement(g, f[k-1], g.elements[i][k])
<1> DEFINE n == Len(g.elements[i])
<1>1. \E f : f = [k \in 0..n |-> IF k = 0 THEN s ELSE NumberElement(g, f[k-1], g.elements[i][k])]
  <2> HIDE DEF n
  <2>1. n \in Nat
    BY DEF n
  <2>2. PICK f : Rounds("NumberElements", f, s, <<g, g.elements[i]>>, n)
    BY <2>1, RoundsExist
  <2>3. \A k \in 0..n : Round("NumberElements", f[k-1], <<g, g.elements[i]>>, k) = NumberElement(g, f[k-1], g.elements[i][k])
    BY DEF Round
  <2> DEFINE F == [k \in 0..n |-> IF k = 0 THEN s ELSE NumberElement(g, f[k-1], g.elements[i][k])]
  <2>4. f = [k \in 0..n |-> IF k = 0 THEN s ELSE Round("NumberElements", f[k-1], <<g, g.elements[i]>>, k)]
    BY <2>2 DEF Rounds
  <2>5. \A k \in 0..n : f[k] = F[k]
    BY <2>3, <2>4
  <2>6. f = F
    BY <2>4, <2>5
  <2>7. QED BY <2>6
<1>2. PICK f : f = [k \in 0..n |-> IF k = 0 THEN s ELSE NumberElement(g, f[k-1], g.elements[i][k])] /\ NumberElements(g, s, i) = f[n]
  BY <1>1 DEF NumberElements
<1>3. f[0] = s /\ \A k \in 1..n : f[k] = NumberElement(g, f[k-1], g.elements[i][k])
  <2>1. n \in Nat
    BY DEF n
  <2> HIDE DEF n
  <2>2. QED BY <2>1, <1>2
<1>4. QED BY <1>2, <1>3

(* Level by level. *)
LEMMA ElementIndicesIs ==
  ASSUME NEW g, maxLevel(g) + 1 \in Nat
  PROVE  \E f : /\ ElementIndices(g) = f[(maxLevel(g) + 1)].index /\ f[0] = NoIndices
               /\ \A k \in 1..(maxLevel(g) + 1) : f[k] = NumberElements(g, f[k-1], k - 1)
<1> DEFINE n == (maxLevel(g) + 1)
<1>1. \E f : f = [k \in 0..n |-> IF k = 0 THEN NoIndices ELSE NumberElements(g, f[k-1], k - 1)]
  <2> HIDE DEF n
  <2>1. n \in Nat
    BY DEF n
  <2>2. PICK f : Rounds("ElementIndices", f, NoIndices, g, n)
    BY <2>1, RoundsExist
  <2>3. \A k \in 0..n : Round("ElementIndices", f[k-1], g, k) = NumberElements(g, f[k-1], k - 1)
    BY DEF Round
  <2> DEFINE F == [k \in 0..n |-> IF k = 0 THEN NoIndices ELSE NumberElements(g, f[k-1], k - 1)]
  <2>4. f = [k \in 0..n |-> IF k = 0 THEN NoIndices ELSE Round("ElementIndices", f[k-1], g, k)]
    BY <2>2 DEF Rounds
  <2>5. \A k \in 0..n : f[k] = F[k]
    BY <2>3, <2>4
  <2>6. f = F
    BY <2>4, <2>5
  <2>7. QED BY <2>6
<1>2. PICK f : f = [k \in 0..n |-> IF k = 0 THEN NoIndices ELSE NumberElements(g, f[k-1], k - 1)] /\ ElementIndices(g) = f[n].index
  BY <1>1 DEF ElementIndices
<1>3. f[0] = NoIndices /\ \A k \in 1..n : f[k] = NumberElements(g, f[k-1], k - 1)
  <2>1. n \in Nat
    BY DEF n
  <2> HIDE DEF n
  <2>2. QED BY <2>1, <1>2
<1>4. QED BY <1>2, <1>3

(* So do the vertices. *)
LEMMA NumberVerticesIs ==
  ASSUME NEW g, NEW s, NEW i, Len(g.vertices[i]) \in Nat
  PROVE  \E f : /\ NumberVertices(g, s, i) = f[Len(g.vertices[i])] /\ f[0] = s
               /\ \A k \in 1..Len(g.vertices[i]) : f[k] = NumberVertex(g, f[k-1], g.vertices[i][k])
<1> DEFINE n == Len(g.vertices[i])
<1>1. \E f : f = [k \in 0..n |-> IF k = 0 THEN s ELSE NumberVertex(g, f[k-1], g.vertices[i][k])]
  <2> HIDE DEF n
  <2>1. n \in Nat
    BY DEF n
  <2>2. PICK f : Rounds("NumberVertices", f, s, <<g, g.vertices[i]>>, n)
    BY <2>1, RoundsExist
  <2>3. \A k \in 0..n : Round("NumberVertices", f[k-1], <<g, g.vertices[i]>>, k) = NumberVertex(g, f[k-1], g.vertices[i][k])
    BY DEF Round
  <2> DEFINE F == [k \in 0..n |-> IF k = 0 THEN s ELSE NumberVertex(g, f[k-1], g.vertices[i][k])]
  <2>4. f = [k \in 0..n |-> IF k = 0 THEN s ELSE Round("NumberVertices", f[k-1], <<g, g.vertices[i]>>, k)]
    BY <2>2 DEF Rounds
  <2>5. \A k \in 0..n : f[k] = F[k]
    BY <2>3, <2>4
  <2>6. f = F
    BY <2>4, <2>5
  <2>7. QED BY <2>6
<1>2. PICK f : f = [k \in 0..n |-> IF k = 0 THEN s ELSE NumberVertex(g, f[k-1], g.vertices[i][k])] /\ NumberVertices(g, s, i) = f[n]
  BY <1>1 DEF NumberVertices
<1>3. f[0] = s /\ \A k \in 1..n : f[k] = NumberVertex(g, f[k-1], g.vertices[i][k])
  <2>1. n \in Nat
    BY DEF n
  <2> HIDE DEF n
  <2>2. QED BY <2>1, <1>2
<1>4. QED BY <1>2, <1>3

(* From the top level down. *)
LEMMA VertexIndicesIs ==
  ASSUME NEW g, maxLevel(g) + 1 \in Nat
  PROVE  \E f : /\ VertexIndices(g) = f[(maxLevel(g) + 1)].index /\ f[0] = NoIndices
               /\ \A k \in 1..(maxLevel(g) + 1) : f[k] = NumberVertices(g, f[k-1], (maxLevel(g) + 1) - k)
<1> DEFINE n == (maxLevel(g) + 1)
<1>1. \E f : f = [k \in 0..n |-> IF k = 0 THEN NoIndices ELSE NumberVertices(g, f[k-1], (maxLevel(g) + 1) - k)]
  <2> HIDE DEF n
  <2>1. n \in Nat
    BY DEF n
  <2>2. PICK f : Rounds("VertexIndices", f, NoIndices, g, n)
    BY <2>1, RoundsExist
  <2>3. \A k \in 0..n : Round("VertexIndices", f[k-1], g, k) = NumberVertices(g, f[k-1], (maxLevel(g) + 1) - k)
    BY DEF Round
  <2> DEFINE F == [k \in 0..n |-> IF k = 0 THEN NoIndices ELSE NumberVertices(g, f[k-1], (maxLevel(g) + 1) - k)]
  <2>4. f = [k \in 0..n |-> IF k = 0 THEN NoIndices ELSE Round("VertexIndices", f[k-1], g, k)]
    BY <2>2 DEF Rounds
  <2>5. \A k \in 0..n : f[k] = F[k]
    BY <2>3, <2>4
  <2>6. f = F
    BY <2>4, <2>5
  <2>7. QED BY <2>6
<1>2. PICK f : f = [k \in 0..n |-> IF k = 0 THEN NoIndices ELSE NumberVertices(g, f[k-1], (maxLevel(g) + 1) - k)] /\ VertexIndices(g) = f[n].index
  BY <1>1 DEF VertexIndices
<1>3. f[0] = NoIndices /\ \A k \in 1..n : f[k] = NumberVertices(g, f[k-1], (maxLevel(g) + 1) - k)
  <2>1. n \in Nat
    BY DEF n
  <2> HIDE DEF n
  <2>2. QED BY <2>1, <1>2
<1>4. QED BY <1>2, <1>3

(* The members of D have the numbers 0..n-1, and two have the same exactly *)
(* if they have the same key.                                              *)
Keyed(f, n, D, key) ==
  /\ n \in Nat /\ DOMAIN f = D
  /\ \A x \in D : f[x] \in 0..n-1
  /\ \A m \in 0..n-1 : \E x \in D : f[x] = m
  /\ \A x, y \in D : f[x] = f[y] <=> key[x] = key[y]

(* Nothing has no number. *)
LEMMA KeyedNone ==
  ASSUME NEW key
  PROVE  Keyed(NoIndices.index, NoIndices.next, {}, key)
<1>1. NoIndices.index = <<>> /\ NoIndices.next = 0
  BY DEF NoIndices
<1>2. DOMAIN <<>> = {} /\ 0..0-1 = {}
  OBVIOUS
<1>3. QED BY <1>1, <1>2 DEF Keyed

(* A new key gets the next number ... *)
LEMMA KeyedNew ==
  ASSUME NEW s, NEW D, NEW key, Keyed(s.index, s.next, D, key), NEW x, \A z \in D : key[z] # key[x],
         NEW h, h = Number(s, x)
  PROVE  Keyed(h.index, h.next, D \cup {x}, key)
<1>1. PICK f, n : f = s.index /\ n = s.next
  OBVIOUS
<1>2. PICK F : F = With(f, x, n)
  OBVIOUS
<1>3. h.index = F /\ h.next = n + 1
  BY <1>1, <1>2 DEF Number
<1>4. n \in Nat /\ DOMAIN f = D
  BY <1>1 DEF Keyed
<1>5. DOMAIN F = D \cup {x} /\ F[x] = n /\ x \notin D /\ \A z \in D : F[z] = f[z]
  <2>1. F = [z \in D \cup {x} |-> IF z = x THEN n ELSE f[z]] /\ x \notin D
    BY <1>2, <1>4 DEF With
  <2>2. QED BY <2>1
<1>6. /\ \A z \in D : f[z] \in 0..n-1
      /\ \A m \in 0..n-1 : \E z \in D : f[z] = m
      /\ \A y, z \in D : f[y] = f[z] <=> key[y] = key[z]
  BY <1>1 DEF Keyed
<1>7. \A z \in D \cup {x} : F[z] \in 0..(n+1)-1
  <2>1. \A m \in 0..n-1 : m \in 0..(n+1)-1
    BY <1>4
  <2>2. n \in 0..(n+1)-1
    BY <1>4
  <2>3. QED BY <1>5, <1>6, <2>1, <2>2
<1>8. \A m \in 0..(n+1)-1 : \E z \in D \cup {x} : F[z] = m
  <2>1. \A m \in 0..(n+1)-1 : m = n \/ m \in 0..n-1
    BY <1>4
  <2>2. QED BY <1>5, <1>6, <2>1
<1>9. \A y, z \in D \cup {x} : F[y] = F[z] <=> key[y] = key[z]
  <2>1. \A z \in D : F[z] # n
    <3>1. n \notin 0..n-1
      BY <1>4
    <3>2. QED BY <1>5, <1>6, <3>1
  <2>2. \A y, z \in D : F[y] = F[z] <=> key[y] = key[z]
    BY <1>5, <1>6
  <2>3. QED BY <1>5, <2>1, <2>2
<1>10. n + 1 \in Nat
  BY <1>4
<1>11. QED BY <1>3, <1>5, <1>7, <1>8, <1>9, <1>10 DEF Keyed

(* ... and one that has been met the number it has. *)
LEMMA KeyedSame ==
  ASSUME NEW f, NEW n, NEW D, NEW key, Keyed(f, n, D, key), NEW x, x \notin D, NEW y \in D, key[x] = key[y],
         NEW F, F = With(f, x, f[y])
  PROVE  Keyed(F, n, D \cup {x}, key)
<1>1. n \in Nat /\ DOMAIN f = D
  BY DEF Keyed
<1>2. DOMAIN F = D \cup {x} /\ F[x] = f[y] /\ \A z \in D : F[z] = f[z]
  <2>1. F = [z \in D \cup {x} |-> IF z = x THEN f[y] ELSE f[z]]
    BY <1>1 DEF With
  <2>2. QED BY <2>1
<1>3. /\ \A z \in D : f[z] \in 0..n-1
      /\ \A m \in 0..n-1 : \E z \in D : f[z] = m
      /\ \A v, z \in D : f[v] = f[z] <=> key[v] = key[z]
  BY DEF Keyed
<1>4. \A v, z \in D \cup {x} : F[v] = F[z] <=> key[v] = key[z]
  BY <1>2, <1>3
<1>5. QED BY <1>1, <1>2, <1>3, <1>4 DEF Keyed

(* There are as many numbers as keys. *)
LEMMA KeyedCount ==
  ASSUME NEW f, NEW n, NEW D, NEW key, Keyed(f, n, D, key), NEW K,
         \A x \in D : key[x] \in K, \A y \in K : \E x \in D : y = key[x]
  PROVE  {f[x] : x \in D} = 0..Cardinality(K)-1
<1>1. /\ n \in Nat
      /\ \A x \in D : f[x] \in 0..n-1
      /\ \A m \in 0..n-1 : \E x \in D : f[x] = m
      /\ \A x, y \in D : f[x] = f[y] <=> key[x] = key[y]
  BY DEF Keyed
<1>2. {f[x] : x \in D} = 0..n-1
  BY <1>1
<1> DEFINE F == [m \in 0..n-1 |-> key[CHOOSE x \in D : f[x] = m]]
<1>3. \A m \in 0..n-1 : \E x \in D : f[x] = m /\ F[m] = key[x]
  BY <1>1
<1>4. DOMAIN F = 0..n-1 /\ F = [m \in 0..n-1 |-> F[m]]
  OBVIOUS
<1> HIDE DEF F
<1>5. F \in [0..n-1 -> K]
  <2>1. \A m \in 0..n-1 : F[m] \in K
    BY <1>3
  <2>2. QED BY <1>4, <2>1
<1>6. \A m, k \in 0..n-1 : F[m] = F[k] => m = k
  BY <1>1, <1>3
<1>7. \A y \in K : \E m \in 0..n-1 : F[m] = y
  <2> SUFFICES ASSUME NEW y \in K PROVE \E m \in 0..n-1 : F[m] = y
    OBVIOUS
  <2>1. PICK x \in D : y = key[x]
    OBVIOUS
  <2>2. f[x] \in 0..n-1
    BY <1>1
  <2>3. PICK z \in D : f[z] = f[x] /\ F[f[x]] = key[z]
    BY <1>3, <2>2
  <2>4. key[z] = key[x]
    BY <1>1, <2>3
  <2>5. QED BY <2>1, <2>2, <2>3, <2>4
<1>8. F \in Bijection(0..n-1, K)
  BY <1>5, <1>6, <1>7 DEF Bijection, Injection, IsInjective, Surjection
<1>9. IsFiniteSet(0..n-1) /\ Cardinality(0..n-1) = n
  <2>1. n - 1 \in Int /\ 0 \in Int
    BY <1>1
  <2>2. IsFiniteSet(0..n-1) /\ Cardinality(0..n-1) = IF 0 > n - 1 THEN 0 ELSE (n - 1) - 0 + 1
    BY ONLY <2>1, FS_Interval
  <2>3. QED BY <1>1, <2>2
<1>10. Cardinality(K) = n
  BY <1>8, <1>9, FS_Bijection DEF ExistsBijection
<1>11. QED BY <1>2, <1>10

(* The leaves below level i. *)
LeavesBelow(g, i) == {e \in Es(g) : isLeaf(g, e) /\ level(e) < i}

Self(g) == [e \in Es(g) |-> e]

(* The leaves of a level get the next numbers. *)
LEMMA NumberElementsKeyed ==
  ASSUME NEW g, WF(g), NEW i \in 0..maxLevel(g), NEW s, Keyed(s.index, s.next, LeavesBelow(g, i), Self(g)),
         NEW h, h = NumberElements(g, s, i)
  PROVE  Keyed(h.index, h.next, LeavesBelow(g, i + 1), Self(g))
<1> DEFINE list == g.elements[i]
           n == Len(list)
           D(k) == LeavesBelow(g, i) \cup {x \in Es(g) : isLeaf(g, x) /\ \E j \in 1..k : list[j] = x}
<1>1. n \in Nat /\ \A k \in 1..n : list[k] \in Es(g) /\ level(list[k]) = i
  BY LevelList
<1>2. PICK f : h = f[n] /\ f[0] = s /\ \A k \in 1..n : f[k] = NumberElement(g, f[k-1], list[k])
  BY <1>1, NumberElementsIs
<1>3. /\ \A x \in Es(g) : level(x) = i => \E k \in 1..n : list[k] = x
      /\ \A j, k \in 1..n : list[j] = list[k] => j = k
  <2>1. /\ Listed(list, LoAt(g, i)) /\ Numbering(LoAt(g, i))
        /\ \A x : x \in DOMAIN LoAt(g, i) <=> x \in Es(g) /\ level(x) = i
    BY ListedElements DEF WF, Forest
  <2>2. \A x \in Es(g) : level(x) = i => \E k \in 1..n : list[k] = x
    BY <2>1 DEF Listed
  <2>3. \A j, k \in 1..n : list[j] = list[k] => j = k
    BY <2>1, ListedOrder
  <2>4. QED BY <2>2, <2>3
<1>4. i \in Nat /\ maxLevel(g) \in Nat /\ \A x \in Es(g) : level(x) \in Nat
  BY Basics DEF WF, Forest
<1> HIDE DEF n, list
<1> DEFINE K(k) == Keyed(f[k].index, f[k].next, D(k), Self(g))
           T == {k \in Nat : k <= n => K(k)}
<1>5. 0 \in T
  <2>1. D(0) = LeavesBelow(g, i)
    OBVIOUS
  <2> HIDE DEF D
  <2>2. QED BY <1>2, <2>1
<1> HIDE DEF K
<1>6. ASSUME NEW k \in Nat, k \in T PROVE k + 1 \in T
  <2> SUFFICES ASSUME k + 1 <= n PROVE K(k + 1)
    OBVIOUS
  <2>k. K(k)
    BY <1>1, <1>6
  <2> USE DEF K
  <2>0. PICK p, q, e : p = f[k] /\ q = f[k+1] /\ e = list[k+1]
    OBVIOUS
  <2>1. Keyed(p.index, p.next, D(k), Self(g))
    BY <2>k, <2>0
  <2>2. k + 1 \in 1..n /\ (k + 1) - 1 = k
    BY <1>1
  <2>3. q = NumberElement(g, p, e) /\ e \in Es(g) /\ level(e) = i
    BY <1>1, <1>2, <2>0, <2>2
  <2>4. \A j \in 1..(k+1) : j = k + 1 \/ j \in 1..k
    OBVIOUS
  <2>5. \A j \in 1..k : j \in 1..(k+1) /\ j \in 1..n /\ j # k + 1
    BY <1>1, <2>2
  <2>6. k + 1 \in 1..(k+1)
    OBVIOUS
  <2>7. e \notin D(k)
    <3>1. ~(level(e) < i)
      BY <1>4, <2>3
    <3>2. \A j \in 1..k : list[j] # e
      BY <1>3, <2>0, <2>2, <2>5
    <3>3. QED BY <3>1, <3>2 DEF LeavesBelow
  <2>8. CASE isLeaf(g, e)
    <3>1. D(k+1) = D(k) \cup {e}
      <4>1. \A x : x \in D(k+1) => x \in D(k) \cup {e}
        BY <2>0, <2>4
      <4>2. \A x : x \in D(k) => x \in D(k+1)
        BY <2>5
      <4>3. e \in D(k+1)
        BY <2>0, <2>3, <2>6, <2>8
      <4>4. QED BY <4>1, <4>2, <4>3
    <3>2. \A x \in D(k) : Self(g)[x] # Self(g)[e]
      BY <2>3, <2>7 DEF Self, LeavesBelow
    <3>3. q = Number(p, e)
      BY <2>3, <2>8 DEF NumberElement
    <3>4. Keyed(q.index, q.next, D(k) \cup {e}, Self(g))
      <4> HIDE DEF D
      <4>1. QED BY <2>1, <3>2, <3>3, KeyedNew
    <3>5. QED BY <2>0, <3>1, <3>4
  <2>9. CASE ~isLeaf(g, e)
    <3>1. D(k+1) = D(k)
      <4>1. \A x : x \in D(k+1) => x \in D(k)
        BY <2>0, <2>4, <2>9
      <4>2. \A x : x \in D(k) => x \in D(k+1)
        BY <2>5
      <4>3. QED BY <4>1, <4>2
    <3>2. q = p
      BY <2>3, <2>9 DEF NumberElement
    <3>3. QED BY <2>0, <2>1, <3>1, <3>2
  <2>10. QED BY <2>8, <2>9
<1> HIDE DEF T, K
<1>7. n \in T
  BY <1>1, <1>5, <1>6, InductionOn
<1>8. D(n) = LeavesBelow(g, i + 1)
  <2>1. \A x : x \in D(n) => x \in LeavesBelow(g, i + 1)
    <3>1. \A x \in Es(g) : level(x) < i \/ level(x) = i => level(x) < i + 1
      BY <1>4
    <3>2. QED BY <1>1, <3>1 DEF LeavesBelow
  <2>2. \A x : x \in LeavesBelow(g, i + 1) => x \in D(n)
    <3>1. \A x \in Es(g) : level(x) < i + 1 => level(x) < i \/ level(x) = i
      BY <1>4
    <3>2. QED BY <1>3, <3>1 DEF LeavesBelow
  <2>3. QED BY <2>1, <2>2
<1> HIDE DEF D
<1>9. Keyed(f[n].index, f[n].next, D(n), Self(g))
  BY <1>1, <1>7 DEF T, K
<1>10. QED BY <1>2, <1>8, <1>9

(* So the numbers of the leaf elements are consecutive from 0. *)
LEMMA ElementIndicesKeyed ==
  ASSUME NEW g, WF(g), NEW L, L = {e \in Es(g) : isLeaf(g, e)}, NEW x, x = ElementIndices(g)
  PROVE  \E n : Keyed(x, n, L, Self(g))
<1> DEFINE n == maxLevel(g) + 1
<1>1. n \in Nat /\ maxLevel(g) \in Nat /\ \A e \in Es(g) : level(e) \in 0..maxLevel(g)
  BY Basics DEF WF, Forest
<1>2. PICK f : x = f[n].index /\ f[0] = NoIndices /\ \A k \in 1..n : f[k] = NumberElements(g, f[k-1], k - 1)
  BY <1>1, ElementIndicesIs
<1>3. \A k \in 1..n : k - 1 \in 0..maxLevel(g)
  BY <1>1
<1>4. LeavesBelow(g, 0) = {} /\ LeavesBelow(g, n) = L
  <2>1. \A e \in Es(g) : ~(level(e) < 0) /\ level(e) < n
    BY <1>1
  <2> HIDE DEF n
  <2>2. QED BY <2>1 DEF LeavesBelow
<1> HIDE DEF n
<1> DEFINE K(k) == Keyed(f[k].index, f[k].next, LeavesBelow(g, k), Self(g))
           T == {k \in Nat : k <= n => K(k)}
<1>5. 0 \in T
  BY <1>2, <1>4, KeyedNone
<1> HIDE DEF K
<1>6. ASSUME NEW k \in Nat, k \in T PROVE k + 1 \in T
  <2> SUFFICES ASSUME k + 1 <= n PROVE K(k + 1)
    OBVIOUS
  <2>k. K(k)
    BY <1>1, <1>6
  <2> USE DEF K
  <2>0. PICK p, q : p = f[k] /\ q = f[k+1]
    OBVIOUS
  <2>1. Keyed(p.index, p.next, LeavesBelow(g, k), Self(g))
    BY <2>k, <2>0
  <2>2. k + 1 \in 1..n /\ (k + 1) - 1 = k
    BY <1>1
  <2>3. q = NumberElements(g, p, k) /\ k \in 0..maxLevel(g)
    <3>1. f[k+1] = NumberElements(g, f[(k+1)-1], (k+1)-1) /\ (k+1)-1 \in 0..maxLevel(g)
      BY <1>2, <1>3, <2>2
    <3>2. QED BY <2>0, <2>2, <3>1
  <2>4. QED BY <2>0, <2>1, <2>3, NumberElementsKeyed
<1> HIDE DEF T, K
<1>7. n \in T
  BY <1>1, <1>5, <1>6, InductionOn
<1>8. Keyed(f[n].index, f[n].next, LeavesBelow(g, n), Self(g))
  BY <1>1, <1>7 DEF T, K
<1>9. QED BY <1>2, <1>4, <1>8

(* A vertex without a copy on the next level has none on any. *)
LEMMA NoCopyAbove ==
  ASSUME NEW g, WF(g), NEW v \in Vs(g), son(g, v) = null, NEW w \in Vs(g), level(v) < level(w)
  PROVE  Pos(g, w) # Pos(g, v)
<1> DEFINE T == {n \in Nat : level(v) < n /\ \E u \in Vs(g) : level(u) = n /\ Pos(g, u) = Pos(g, v)}
<1> SUFFICES ASSUME Pos(g, w) = Pos(g, v) PROVE FALSE
  OBVIOUS
<1>1. Typed(g) /\ Sized(g) /\ Nested(g) /\ AllEnds(g) /\ Fathers(g) /\ SonsOf(g) /\ Copies(g) /\ Ids(g)
  BY Parts
<1>2. /\ \A u \in Vs(g) : level(u) \in Nat /\ Pos(g, u) \in Nat /\ u # null
      /\ \A e \in Es(g) : /\ level(e) \in Nat /\ V0(g, e) \in Vs(g) /\ V1(g, e) \in Vs(g)
                          /\ level(V0(g, e)) = level(e) /\ level(V1(g, e)) = level(e)
                          /\ Lo(g, e) = Pos(g, V0(g, e)) /\ Hi(g, e) = Pos(g, V1(g, e))
  BY <1>1, Basics DEF Sized, Lo, Hi
<1>3. \A e \in Es(g) : Lo(g, e) \in Nat /\ Hi(g, e) \in Nat /\ Lo(g, e) < Hi(g, e)
  BY <1>1, Basics, Positive
<1>4. T \subseteq Nat /\ T # {}
  <2>1. level(w) \in T
    BY <1>2
  <2>2. QED BY <2>1
<1>5. PICK n \in T : \A k \in T : n <= k
  BY <1>4, Smallest
<1>6. PICK u \in Vs(g) : level(u) = n /\ Pos(g, u) = Pos(g, v) /\ level(v) < n /\ n \in Nat
  BY <1>5
<1>7. PICK e \in Es(g) : level(e) = n /\ (V0(g, e) = u \/ V1(g, e) = u)
  BY <1>1, <1>6 DEF AllEnds
<1>8. PICK d \in Es(g) : level(d) = level(v) /\ (V0(g, d) = v \/ V1(g, d) = v)
  BY <1>1 DEF AllEnds
<1>9. PICK F : F = g.element[e].father
  OBVIOUS
<1>10. F \in Es(g) /\ level(F) = n - 1 /\ ~isLeaf(g, F) /\ Within(g, e, F)
  <2>1. level(e) # 0
    BY <1>2, <1>6, <1>7
  <2>2. QED BY <1>1, <1>7, <1>9, <2>1, SonWithin
<1>11. PICK p : p = Pos(g, v) /\ p \in Nat
  BY <1>2
<1>12. (p = Lo(g, e) \/ p = Hi(g, e)) /\ (p = Lo(g, d) \/ p = Hi(g, d))
  BY <1>2, <1>6, <1>7, <1>8, <1>11
<1>13. Lo(g, F) <= p /\ p <= Hi(g, F)
  BY <1>3, <1>7, <1>10, <1>12 DEF Within
<1>14. ASSUME NEW z \in Vs(g), level(z) = n - 1, Pos(g, z) = p PROVE z = v
  <2>1. n - 1 \notin T
    BY <1>2, <1>5, <1>6
  <2>2. ~(level(v) < n - 1)
    BY <1>2, <1>6, <1>11, <1>14, <2>1
  <2>3. level(v) = n - 1
    BY <1>2, <1>6, <2>2
  <2>4. QED BY <1>1, <1>11, <1>14, <2>3, SameVertex
<1>15. CASE p = Lo(g, F) \/ p = Hi(g, F)
  <2>1. V0(g, F) = v \/ V1(g, F) = v
    BY <1>2, <1>10, <1>14, <1>15
  <2>2. PICK l, r : l = g.element[F].sons[1] /\ r = g.element[F].sons[2]
    OBVIOUS
  <2>3. l \in Es(g) /\ r \in Es(g) /\ son(g, V0(g, F)) = V0(g, l) /\ son(g, V1(g, F)) = V1(g, r)
    BY <1>1, <1>10, <2>2 DEF SonsOf
  <2>4. son(g, v) # null
    BY <1>2, <2>1, <2>3
  <2>5. QED BY <2>4
<1>16. CASE Lo(g, F) < p /\ p < Hi(g, F)
  <2>1. level(d) <= level(F)
    BY <1>2, <1>6, <1>8, <1>10
  <2>2. d # F
    BY <1>3, <1>10, <1>12, <1>16
  <2>3. Apart(g, d, F) \/ Within(g, F, d)
    BY <1>1, <1>10, <2>1, <2>2 DEF Nested
  <2>4. /\ Lo(g, d) \in Nat /\ Hi(g, d) \in Nat /\ Lo(g, d) < Hi(g, d)
        /\ Lo(g, F) \in Nat /\ Hi(g, F) \in Nat
    BY <1>3, <1>10
  <2>5. CASE Apart(g, d, F)
    BY <1>11, <1>12, <1>16, <2>4, <2>5 DEF Apart
  <2>6. CASE Within(g, F, d)
    BY <1>11, <1>12, <1>16, <2>4, <2>6 DEF Within
  <2>7. QED BY <2>3, <2>5, <2>6
<1>17. QED BY <1>3, <1>10, <1>11, <1>13, <1>15, <1>16

(* The vertices from level i up. *)
VerticesFrom(g, i) == {v \in Vs(g) : level(v) >= i}

Place(g) == [v \in Vs(g) |-> Pos(g, v)]

(* The vertices of a level get the numbers of their copies or the next. *)
LEMMA NumberVerticesKeyed ==
  ASSUME NEW g, WF(g), NEW i \in 0..maxLevel(g), NEW s, Keyed(s.index, s.next, VerticesFrom(g, i + 1), Place(g)),
         NEW h, h = NumberVertices(g, s, i)
  PROVE  Keyed(h.index, h.next, VerticesFrom(g, i), Place(g))
<1> DEFINE list == g.vertices[i]
           n == Len(list)
           D(k) == VerticesFrom(g, i + 1) \cup {x \in Vs(g) : \E j \in 1..k : list[j] = x}
<1>0. Typed(g) /\ Lists(g) /\ Ids(g) /\ Copies(g)
  BY Parts
<1>1. /\ n \in Nat /\ \A k \in 1..n : list[k] \in Vs(g) /\ level(list[k]) = i
      /\ \A x \in Vs(g) : level(x) = i => \E k \in 1..n : list[k] = x
      /\ \A j, k \in 1..n : list[j] = list[k] => j = k
  <2>1. /\ Listed(list, PosAt(g, i)) /\ Numbering(PosAt(g, i))
        /\ \A x : x \in DOMAIN PosAt(g, i) <=> x \in Vs(g) /\ level(x) = i
    BY <1>0, ListedVertices
  <2>2. n \in Nat /\ \A k \in 1..n : list[k] \in DOMAIN PosAt(g, i)
    BY <2>1, ListedMembers
  <2>3. \A x \in Vs(g) : level(x) = i => \E k \in 1..n : list[k] = x
    BY <2>1 DEF Listed
  <2>4. \A j, k \in 1..n : list[j] = list[k] => j = k
    BY <2>1, ListedOrder
  <2>5. QED BY <2>1, <2>2, <2>3, <2>4
<1>2. PICK f : h = f[n] /\ f[0] = s /\ \A k \in 1..n : f[k] = NumberVertex(g, f[k-1], list[k])
  <2>1. Len(g.vertices[i]) \in Nat
    BY <1>1
  <2>2. PICK f : /\ NumberVertices(g, s, i) = f[Len(g.vertices[i])] /\ f[0] = s
                 /\ \A k \in 1..Len(g.vertices[i]) : f[k] = NumberVertex(g, f[k-1], g.vertices[i][k])
    BY ONLY <2>1, NumberVerticesIs, SMTT(30)
  <2>3. QED BY <2>2
<1>4. i \in Nat /\ \A x \in Vs(g) : level(x) \in Nat /\ son(g, x) \in Vs(g) \cup {null}
  BY <1>0, Basics
<1> HIDE DEF n, list
<1> DEFINE K(k) == Keyed(f[k].index, f[k].next, D(k), Place(g))
           T == {k \in Nat : k <= n => K(k)}
<1>5. 0 \in T
  <2>1. D(0) = VerticesFrom(g, i + 1)
    OBVIOUS
  <2> HIDE DEF D
  <2>2. QED BY <1>2, <2>1
<1> HIDE DEF K
<1>6. ASSUME NEW k \in Nat, k \in T PROVE k + 1 \in T
  <2> SUFFICES ASSUME k + 1 <= n PROVE K(k + 1)
    OBVIOUS
  <2>k. K(k)
    BY <1>1, <1>6
  <2> USE DEF K
  <2>0. PICK p, q, v : p = f[k] /\ q = f[k+1] /\ v = list[k+1]
    OBVIOUS
  <2>1. Keyed(p.index, p.next, D(k), Place(g))
    BY <2>k, <2>0
  <2>2. k + 1 \in 1..n /\ (k + 1) - 1 = k
    BY <1>1
  <2>3. q = NumberVertex(g, p, v) /\ v \in Vs(g) /\ level(v) = i
    BY <1>1, <1>2, <2>0, <2>2
  <2>4. \A j \in 1..(k+1) : j = k + 1 \/ j \in 1..k
    OBVIOUS
  <2>5. \A j \in 1..k : j \in 1..(k+1) /\ j \in 1..n /\ j # k + 1
    BY <1>1, <2>2
  <2>6. k + 1 \in 1..(k+1)
    OBVIOUS
  <2>7. \A x \in D(k) : x \in Vs(g) /\ x # v /\ (level(x) = i \/ level(v) < level(x))
    <3>1. \A x \in VerticesFrom(g, i + 1) : x \in Vs(g) /\ level(v) < level(x)
      BY <1>4, <2>3 DEF VerticesFrom
    <3>2. \A j \in 1..k : list[j] # v /\ level(list[j]) = i
      BY <1>1, <2>0, <2>2, <2>5
    <3>3. \A x \in VerticesFrom(g, i + 1) : x # v
      BY <1>4, <3>1
    <3>4. QED BY <3>1, <3>2, <3>3
  <2>8. D(k+1) = D(k) \cup {v}
    <3>1. \A x : x \in D(k+1) => x \in D(k) \cup {v}
      BY <2>0, <2>4
    <3>2. \A x : x \in D(k) => x \in D(k+1)
      BY <2>5
    <3>3. v \in D(k+1)
      BY <2>0, <2>3, <2>6
    <3>4. QED BY <3>1, <3>2, <3>3
  <2>9. \A x \in Vs(g) : Place(g)[x] = Pos(g, x)
    BY DEF Place
  <2>10. CASE son(g, v) = null
    <3>1. ASSUME NEW x \in D(k) PROVE Pos(g, x) # Pos(g, v)
      <4>1. x \in Vs(g) /\ x # v /\ (level(x) = i \/ level(v) < level(x))
        BY <2>7
      <4>2. CASE level(x) = i
        BY <1>0, <2>3, <4>1, <4>2, SameVertex
      <4>3. CASE level(v) < level(x)
        BY <2>3, <2>10, <4>1, <4>3, NoCopyAbove
      <4>4. QED BY <4>1, <4>2, <4>3
    <3>2. \A x \in D(k) : Place(g)[x] # Place(g)[v]
      BY <2>3, <2>7, <2>9, <3>1
    <3>3. q = Number(p, v)
      BY <2>3, <2>10 DEF NumberVertex
    <3> HIDE DEF D
    <3>4. Keyed(q.index, q.next, D(k) \cup {v}, Place(g))
      BY <2>1, <3>2, <3>3, KeyedNew
    <3>5. QED BY <2>0, <2>8, <3>4
  <2>11. CASE son(g, v) # null
    <3>1. PICK y : y = son(g, v)
      OBVIOUS
    <3>2. y \in Vs(g) /\ level(y) = i + 1 /\ Pos(g, y) = Pos(g, v)
      BY <1>0, <1>4, <2>3, <2>11, <3>1 DEF Copies
    <3>3. y \in D(k)
      BY <1>4, <3>2 DEF VerticesFrom
    <3>4. Place(g)[v] = Place(g)[y] /\ v \notin D(k)
      BY <2>3, <2>7, <2>9, <3>2
    <3>5. PICK F : F = With(p.index, v, p.index[y])
      OBVIOUS
    <3>6. q.index = F /\ q.next = p.next
      BY <2>3, <2>11, <3>1, <3>5 DEF NumberVertex
    <3>7. PICK b, m : b = p.index /\ m = p.next
      OBVIOUS
    <3> HIDE DEF D
    <3>8. Keyed(b, m, D(k), Place(g)) /\ F = With(b, v, b[y])
      BY <2>1, <3>5, <3>7
    <3>9. Keyed(F, m, D(k) \cup {v}, Place(g))
      BY <3>3, <3>4, <3>8, KeyedSame
    <3>10. QED BY <2>0, <2>8, <3>6, <3>7, <3>9
  <2>12. QED BY <2>10, <2>11
<1> HIDE DEF T, K
<1>7. n \in T
  BY <1>1, <1>5, <1>6, InductionOn
<1>8. D(n) = VerticesFrom(g, i)
  <2>1. \A x : x \in D(n) => x \in VerticesFrom(g, i)
    <3>1. \A x \in Vs(g) : level(x) >= i + 1 \/ level(x) = i => level(x) >= i
      BY <1>4
    <3>2. QED BY <1>1, <3>1 DEF VerticesFrom
  <2>2. \A x : x \in VerticesFrom(g, i) => x \in D(n)
    <3>1. \A x \in Vs(g) : level(x) >= i => level(x) >= i + 1 \/ level(x) = i
      BY <1>4
    <3>2. QED BY <1>1, <3>1 DEF VerticesFrom
  <2>3. QED BY <2>1, <2>2
<1> HIDE DEF D
<1>9. Keyed(f[n].index, f[n].next, D(n), Place(g))
  BY <1>1, <1>7 DEF T, K
<1>10. QED BY <1>2, <1>8, <1>9

(* So the numbers of the points are consecutive from 0, and the copies of  *)
(* a vertex share one.                                                     *)
LEMMA VertexIndicesKeyed ==
  ASSUME NEW g, WF(g), NEW x, x = VertexIndices(g)
  PROVE  \E n : Keyed(x, n, Vs(g), Place(g))
<1> DEFINE n == maxLevel(g) + 1
<1>1. n \in Nat /\ maxLevel(g) \in Nat /\ \A v \in Vs(g) : level(v) \in 0..maxLevel(g)
  BY Basics DEF WF, Forest
<1>2. PICK f : x = f[n].index /\ f[0] = NoIndices /\ \A k \in 1..n : f[k] = NumberVertices(g, f[k-1], n - k)
  BY <1>1, VertexIndicesIs
<1>3. \A k \in 1..n : n - k \in 0..maxLevel(g) /\ (n - k) + 1 = n - (k - 1)
  BY <1>1
<1>4. VerticesFrom(g, n) = {} /\ VerticesFrom(g, 0) = Vs(g)
  <2>1. \A v \in Vs(g) : level(v) >= 0 /\ ~(level(v) >= n)
    BY <1>1
  <2> HIDE DEF n
  <2>2. QED BY <2>1 DEF VerticesFrom
<1> HIDE DEF n
<1> DEFINE K(k) == Keyed(f[k].index, f[k].next, VerticesFrom(g, n - k), Place(g))
           T == {k \in Nat : k <= n => K(k)}
<1>5. 0 \in T
  <2>1. n - 0 = n
    BY <1>1
  <2>2. QED BY <1>2, <1>4, <2>1, KeyedNone
<1> HIDE DEF K
<1>6. ASSUME NEW k \in Nat, k \in T PROVE k + 1 \in T
  <2> SUFFICES ASSUME k + 1 <= n PROVE K(k + 1)
    OBVIOUS
  <2>k. K(k)
    BY <1>1, <1>6
  <2> USE DEF K
  <2>0. PICK p, q, i : p = f[k] /\ q = f[k+1] /\ i = n - (k + 1)
    OBVIOUS
  <2>1. k + 1 \in 1..n /\ (k + 1) - 1 = k /\ i \in 0..maxLevel(g) /\ i + 1 = n - k
    BY <1>1, <1>3, <2>0
  <2>2. Keyed(p.index, p.next, VerticesFrom(g, i + 1), Place(g))
    BY <2>k, <2>0, <2>1
  <2>3. q = NumberVertices(g, p, i)
    <3>1. f[k+1] = NumberVertices(g, f[(k+1)-1], n - (k + 1))
      BY <1>2, <2>1
    <3>2. QED BY <2>0, <2>1, <3>1
  <2>4. QED BY <2>0, <2>1, <2>2, <2>3, NumberVerticesKeyed
<1> HIDE DEF T, K
<1>7. n \in T
  BY <1>1, <1>5, <1>6, InductionOn
<1>8. Keyed(f[n].index, f[n].next, VerticesFrom(g, n - n), Place(g))
  BY <1>1, <1>7 DEF T, K
<1>9. n - n = 0
  BY <1>1
<1>10. QED BY <1>2, <1>4, <1>8, <1>9

-----------------------------------------------------------------------------
(* The leaf index set *)

Leafs(g) == {e \in Es(g) : isLeaf(g, e)}

(* The leaf elements have the numbers from 0, and so have the points. *)
Indexed(x, g) ==
  /\ \E n : Keyed(x.element, n, Leafs(g), Self(g))
  /\ \E n : Keyed(x.vertex, n, Vs(g), Place(g))

(* What adapt() numbers is so numbered ... *)
LEMMA SetIndexed ==
  ASSUME NEW g, WF(g), NEW x, x = setIndices(g)
  PROVE  Indexed(x, g)
<1>1. PICK e, v : e = ElementIndices(g) /\ v = VertexIndices(g)
  OBVIOUS
<1>2. x.element = e /\ x.vertex = v
  BY <1>1 DEF setIndices
<1>3. \E n : Keyed(e, n, Leafs(g), Self(g))
  BY <1>1, ElementIndicesKeyed DEF Leafs
<1>4. \E n : Keyed(v, n, Vs(g), Place(g))
  BY <1>1, VertexIndicesKeyed
<1>5. QED BY <1>2, <1>3, <1>4 DEF Indexed

(* ... and stays so as long as the leaves and the vertices stay. *)
LEMMA IndexedAgain ==
  ASSUME NEW g, NEW h, NEW x, Indexed(x, g), Leafs(h) = Leafs(g), h.vertex = g.vertex, Es(h) = Es(g)
  PROVE  Indexed(x, h)
<1>1. Vs(h) = Vs(g) /\ Place(h) = Place(g)
  BY DEF Vs, Place, Pos
<1>2. Self(h) = Self(g)
  BY DEF Self
<1>3. QED BY <1>1, <1>2 DEF Indexed

(* The numbers of insertion are the numbers from 0. *)
LEMMA InitialKeyed ==
  ASSUME NEW positions \in SetToSeqs(Positions), NEW vp, vp = vertexPositions(positions),
         NEW cells \in SetToSeqs(0..numElements-1), NEW elements_,
         elements_ = [i \in DOMAIN cells |-> <<vp[cells[i] * meshSize], vp[(cells[i] + 1) * meshSize]>>],
         NEW x, x = initialIndices(vp, elements_), NEW g, Macro(g)
  PROVE  Indexed(x, g)
<1> DEFINE n == numElements
           C == 0..n-1
           D == 1..n+1
<1>0. n \in Nat /\ n >= 1
  BY numElementsAssumption
<1>1. /\ DOMAIN x.element = Es(g) /\ DOMAIN x.vertex = Vs(g)
      /\ \A v \in Vs(g) : x.vertex[v] \in 0..n /\ positions[x.vertex[v] + 1] = Pos(g, v)
      /\ \A e \in Es(g) : x.element[e] \in 0..n-1 /\ cells[x.element[e] + 1] * meshSize = Lo(g, e)
  BY InitialIndices
<1>2. positions \in [D -> Positions] /\ \A i, j \in D : i # j => positions[i] # positions[j]
  BY PositionsCount DEF SetToSeqs
<1>3. cells \in [1..n -> C] /\ \A i, j \in 1..n : i # j => cells[i] # cells[j]
  <2>1. Cardinality(C) = n /\ IsFiniteSet(C)
    BY <1>0, FS_Interval
  <2>2. QED BY <2>1 DEF SetToSeqs
<1>4. /\ Vs(g) = {0} \X (0..n) /\ Es(g) = {0} \X C
      /\ \A k \in 0..n : <<0, k>> \in Vs(g) /\ Pos(g, <<0, k>>) = k * meshSize
      /\ \A e \in Es(g) : e = <<0, e[2]>> /\ e[2] \in C /\ Lo(g, e) = e[2] * meshSize /\ isLeaf(g, e)
  <2>1. Vs(g) = {0} \X (0..n) /\ Es(g) = {0} \X C
    BY DEF Macro
  <2>2. \A k \in 0..n : <<0, k>> \in Vs(g) /\ Pos(g, <<0, k>>) = k * meshSize
    BY MacroFacts
  <2>3. \A e \in Es(g) : e = <<0, e[2]>> /\ e[2] \in C /\ Lo(g, e) = e[2] * meshSize /\ isLeaf(g, e)
    BY MacroFacts DEF id
  <2>4. QED BY <2>1, <2>2, <2>3
<1>5. Keyed(x.vertex, n + 1, Vs(g), Place(g))
  <2>1. \A v \in Vs(g) : x.vertex[v] \in 0..(n+1)-1 /\ x.vertex[v] + 1 \in D
    BY <1>0, <1>1
  <2>2. ASSUME NEW m \in 0..(n+1)-1 PROVE \E v \in Vs(g) : x.vertex[v] = m
    <3>1. m + 1 \in D /\ m \in Int
      BY <1>0
    <3>2. PICK k \in 0..n : positions[m + 1] = k * meshSize
      BY <1>2, <3>1 DEF Positions
    <3>3. PICK v \in Vs(g) : Pos(g, v) = k * meshSize
      BY <1>4
    <3>4. positions[x.vertex[v] + 1] = positions[m + 1] /\ x.vertex[v] \in Int
      BY <1>1, <3>2, <3>3
    <3>5. x.vertex[v] + 1 = m + 1
      BY <1>2, <2>1, <3>1, <3>4
    <3>6. QED BY <3>1, <3>4, <3>5
  <2>3. \A v, w \in Vs(g) : x.vertex[v] = x.vertex[w] <=> Place(g)[v] = Place(g)[w]
    <3> TAKE v, w \in Vs(g)
    <3>1. x.vertex[v] \in Int /\ x.vertex[w] \in Int
      BY <1>1
    <3>2. positions[x.vertex[v] + 1] = positions[x.vertex[w] + 1] => x.vertex[v] + 1 = x.vertex[w] + 1
      BY <1>2, <2>1
    <3>3. Place(g)[v] = positions[x.vertex[v] + 1] /\ Place(g)[w] = positions[x.vertex[w] + 1]
      BY <1>1 DEF Place
    <3>4. positions[x.vertex[v] + 1] = positions[x.vertex[w] + 1] => x.vertex[v] = x.vertex[w]
      <4>1. PICK a, b : a = x.vertex[v] /\ b = x.vertex[w]
        OBVIOUS
      <4>2. a \in Int /\ b \in Int /\ (positions[a + 1] = positions[b + 1] => a + 1 = b + 1)
        BY <3>1, <3>2, <4>1
      <4>3. positions[a + 1] = positions[b + 1] => a = b
        BY ONLY <4>2
      <4>4. QED BY ONLY <4>1, <4>3
    <3>5. x.vertex[v] = x.vertex[w] => positions[x.vertex[v] + 1] = positions[x.vertex[w] + 1]
      OBVIOUS
    <3>6. QED BY ONLY <3>3, <3>4, <3>5
  <2>4. n + 1 \in Nat
    BY <1>0
  <2>5. QED BY <1>1, <2>1, <2>2, <2>3, <2>4 DEF Keyed
<1>6. Keyed(x.element, n, Es(g), Self(g))
  <2>1. \A e \in Es(g) : x.element[e] \in C /\ x.element[e] + 1 \in 1..n
    BY <1>0, <1>1
  <2>2. \A e \in Es(g) : cells[x.element[e] + 1] = e[2] /\ e = <<0, e[2]>>
    <3> TAKE e \in Es(g)
    <3>1. e[2] \in C /\ e = <<0, e[2]>> /\ Lo(g, e) = e[2] * meshSize
      BY <1>4
    <3>2. cells[x.element[e] + 1] * meshSize = e[2] * meshSize
      BY <1>1, <3>1
    <3>3. cells[x.element[e] + 1] \in C
      BY <1>3, <2>1
    <3>4. cells[x.element[e] + 1] \in Int /\ e[2] \in Int
      <4>1. C \subseteq Int
        BY <1>0
      <4> HIDE DEF C
      <4>2. QED BY <3>1, <3>3, <4>1
    <3>5. cells[x.element[e] + 1] = e[2]
      BY <3>2, <3>4, MeshSize, TimesOrder
    <3>6. QED BY <3>1, <3>5
  <2>3. ASSUME NEW m \in 0..n-1 PROVE \E e \in Es(g) : x.element[e] = m
    <3>1. m + 1 \in 1..n /\ m \in Int
      BY <1>0
    <3>2. PICK e \in Es(g) : e = <<0, cells[m + 1]>> /\ e[2] = cells[m + 1]
      <4>1. PICK c \in C : c = cells[m + 1]
        BY <1>3, <3>1
      <4>2. <<0, c>> \in Es(g) /\ <<0, c>>[2] = c
        BY <1>4
      <4>3. QED BY <4>1, <4>2
    <3>3. x.element[e] + 1 = m + 1 /\ x.element[e] \in Int
      BY <1>1, <1>3, <2>1, <2>2, <3>1, <3>2
    <3>4. QED BY <3>1, <3>3
  <2>4. \A e, f \in Es(g) : x.element[e] = x.element[f] <=> Self(g)[e] = Self(g)[f]
    <3> TAKE e, f \in Es(g)
    <3>1. Self(g)[e] = e /\ Self(g)[f] = f
      BY DEF Self
    <3>2. x.element[e] = x.element[f] => e = f
      BY <2>2
    <3>3. QED BY <3>1, <3>2
  <2>5. QED BY <1>0, <1>1, <2>1, <2>3, <2>4 DEF Keyed
<1>7. Leafs(g) = Es(g)
  BY <1>4 DEF Leafs
<1>8. QED BY <1>5, <1>6, <1>7 DEF Indexed

(* A new grid is so numbered. *)
LEMMA InitIndexed == Init => Indexed(leafIndex, entities)
<1> SUFFICES ASSUME Init PROVE Indexed(leafIndex, entities)
  OBVIOUS
<1>1. PICK positions \in SetToSeqs(Positions), cells \in SetToSeqs(0..numElements-1),
           ends \in {<<>>} \cup {<<x>> : x \in Ends} \cup SetToSeqs(Ends) :
        LET vp == vertexPositions(positions)
            number(k) == vp[k * meshSize]
            elements_ == [i \in DOMAIN cells |-> <<number(cells[i]), number(cells[i] + 1)>>]
        IN  /\ entities = createGrid(vp, [i \in DOMAIN ends |-> vp[ends[i]]])
            /\ leafIndex = initialIndices(vp, elements_)
  BY DEF Init
<1>2. PICK vp, segments, elements_ :
        /\ vp = vertexPositions(positions)
        /\ elements_ = [i \in DOMAIN cells |-> <<vp[cells[i] * meshSize], vp[(cells[i] + 1) * meshSize]>>]
        /\ entities = createGrid(vp, segments)
        /\ leafIndex = initialIndices(vp, elements_)
  BY <1>1
<1>3. Macro(entities)
  BY <1>2, InsertedPositions, CreatedMacro
<1>4. PICK x, g : x = leafIndex /\ g = entities
  OBVIOUS
<1>5. Indexed(x, g)
  BY <1>2, <1>3, <1>4, InitialKeyed
<1>6. QED BY <1>4, <1>5

(* A step numbers the new grid, or keeps the grid and its numbers but for  *)
(* marks and the flag of failure.                                          *)
Numbers ==
  \/ leafIndex' = setIndices(entities')
  \/ /\ UNCHANGED leafIndex
     /\ \/ UNCHANGED entities
        \/ Remarked(entities, entities')
        \/ entities' = [entities EXCEPT !.failed = TRUE]

(* What globalRefine() and adapt() become in the end is such a step. *)
LEMMA BecomesNumbers ==
  ASSUME NEW g, Becomes(g)
  PROVE  Numbers
BY DEF Becomes, Numbers

(* Every step is of this kind. *)
LEMMA NextNumbers ==
  ASSUME Standing, [Next]_vars
  PROVE  Numbers
<1>1. CASE SetRefinementType
  BY <1>1 DEF SetRefinementType, Numbers
<1>2. CASE Mark
  <2>1. PICK e \in leaves, m \in MarkStates :
          /\ m = "REFINE" => level(e) < LevelLimit
          /\ entities' = [entities EXCEPT !.element[e].markState = m]
          /\ UNCHANGED leafIndex
    BY <1>2 DEF Mark
  <2>2. e \in Es(entities)
    BY DEF leaves, Es
  <2>3. Remarked(entities, entities')
    BY <2>1, <2>2, MarkKeeps DEF Standing
  <2>4. QED BY <2>1, <2>3 DEF Numbers
<1>3. CASE Adapt
  <2>1. PICK g : g = Adapted(entities)
    OBVIOUS
  <2>2. Becomes(g)
    BY <1>3, <2>1 DEF Adapt
  <2>3. QED BY <2>2, BecomesNumbers
<1>4. CASE PostAdapt
  <2>1. entities' = Cleared(entities) /\ UNCHANGED leafIndex
    BY <1>4 DEF PostAdapt
  <2>2. Remarked(entities, entities')
    BY <2>1, ClearedKeeps DEF Standing
  <2>3. QED BY <2>1, <2>2 DEF Numbers
<1>5. CASE GlobalRefine
  <2>1. PICK refCount \in Counts :
          IF refCount > 0 THEN Becomes(RefinedTimes(entities, refCount)) ELSE UNCHANGED <<entities, leafIndex, inserted>>
    BY <1>5 DEF GlobalRefine
  <2>2. CASE ~(refCount > 0)
    BY <2>1, <2>2 DEF Numbers
  <2>3. CASE refCount > 0
    <3>1. PICK g : g = RefinedTimes(entities, refCount)
      OBVIOUS
    <3>2. Becomes(g)
      BY <2>1, <2>3, <3>1
    <3>3. QED BY <3>2, BecomesNumbers
  <2>4. QED BY <2>2, <2>3
<1>6. CASE Stopped \/ UNCHANGED vars
  BY <1>6 DEF Stopped, vars, Numbers
<1>7. QED BY <1>1, <1>2, <1>3, <1>4, <1>5, <1>6 DEF Next

(* Every step leaves the grid so numbered. *)
LEMMA NextIndexed ==
  Standing /\ Indexed(leafIndex, entities) /\ [Next]_vars => Indexed(leafIndex, entities)'
<1> SUFFICES ASSUME Standing, Indexed(leafIndex, entities), [Next]_vars PROVE Indexed(leafIndex', entities')
  OBVIOUS
<1>1. Numbers /\ WF(entities) /\ WF(entities')
  BY NextNumbers, NextStanding DEF Standing
<1>2. PICK g, h, x, y : g = entities /\ h = entities' /\ x = leafIndex /\ y = leafIndex'
  OBVIOUS
<1>3. Indexed(x, g)
  BY <1>2
<1>4. CASE y = setIndices(h)
  BY <1>1, <1>2, <1>4, SetIndexed
<1>5. CASE y = x /\ h = g
  BY <1>2, <1>3, <1>5
<1>6. CASE y = x /\ Remarked(g, h)
  <2>1. h.vertex = g.vertex /\ Es(h) = Es(g) /\ Leafs(h) = Leafs(g)
    BY <1>6 DEF Remarked, Leafs, Es, isLeaf
  <2>2. Indexed(x, h)
    BY <1>3, <2>1, IndexedAgain
  <2>3. QED BY <1>2, <1>6, <2>2
<1>7. CASE y = x /\ h = [g EXCEPT !.failed = TRUE]
  <2>1. Shape(g)
    BY <1>1, <1>2, WFRecords
  <2>2. h.element = g.element /\ h.vertex = g.vertex
    BY <1>7, <2>1 DEF Shape
  <2>3. Es(h) = Es(g) /\ Leafs(h) = Leafs(g)
    BY <2>2 DEF Leafs, Es, isLeaf
  <2>4. Indexed(x, h)
    BY <1>3, <2>2, <2>3, IndexedAgain
  <2>5. QED BY <1>2, <1>7, <2>4
<1>8. QED BY <1>1, <1>2, <1>4, <1>5, <1>6, <1>7 DEF Numbers

(* The property follows. *)
LEMMA StandingLeafIndices == Standing /\ Indexed(leafIndex, entities) => LeafIndices
<1> SUFFICES ASSUME Standing, Indexed(leafIndex, entities) PROVE LeafIndices
  OBVIOUS
<1>1. PICK g, x : g = entities /\ x = leafIndex
  OBVIOUS
<1>2. PICK ne, nv : Keyed(x.element, ne, Leafs(g), Self(g)) /\ Keyed(x.vertex, nv, Vs(g), Place(g))
  BY <1>1 DEF Indexed
<1>3. /\ DOMAIN elem = Es(g) /\ DOMAIN vert = Vs(g)
      /\ \A v : vert[v].pos = Pos(g, v)
      /\ \A e : e \in leaves <=> e \in Es(g) /\ isLeaf(g, e)
  BY <1>1, Names DEF Standing
<1>4. leaves = Leafs(g)
  <2>1. \A e : e \in leaves <=> e \in Leafs(g)
    BY <1>3 DEF Leafs
  <2>2. QED BY <2>1
<1>5. {x.element[e] : e \in Leafs(g)} = 0..Cardinality(Leafs(g))-1
  <2>1. \A e \in Leafs(g) : Self(g)[e] = e
    BY DEF Self, Leafs
  <2>2. QED BY <1>2, <2>1, KeyedCount
<1>6. {x.vertex[v] : v \in Vs(g)} = 0..Cardinality({Pos(g, v) : v \in Vs(g)})-1
  <2>1. PICK K : K = {Pos(g, v) : v \in Vs(g)}
    OBVIOUS
  <2>2. (\A v \in Vs(g) : Place(g)[v] \in K) /\ \A y \in K : \E v \in Vs(g) : y = Place(g)[v]
    BY <2>1 DEF Place
  <2>3. {x.vertex[v] : v \in Vs(g)} = 0..Cardinality(K)-1
    <3>1. PICK f, D, key : f = x.vertex /\ D = Vs(g) /\ key = Place(g)
      OBVIOUS
    <3>2. Keyed(f, nv, D, key) /\ (\A v \in D : key[v] \in K) /\ \A y \in K : \E v \in D : y = key[v]
      BY <1>2, <2>2, <3>1
    <3>3. {f[v] : v \in D} = 0..Cardinality(K)-1
      BY ONLY <3>2, KeyedCount
    <3>4. QED BY <3>1, <3>3
  <2>4. QED BY <2>1, <2>3
<1>7. DOMAIN x.element = Leafs(g) /\ DOMAIN x.vertex = Vs(g)
  BY <1>2 DEF Keyed
<1>8. \A v, w \in Vs(g) : x.vertex[v] = x.vertex[w] <=> Pos(g, v) = Pos(g, w)
  BY <1>2 DEF Keyed, Place
<1>9. {vert[v].pos : v \in DOMAIN vert} = {Pos(g, v) : v \in Vs(g)}
  BY <1>3
<1>10. /\ DOMAIN leafIndex.element = leaves
       /\ {leafIndex.element[e] : e \in leaves} = 0..Cardinality(leaves)-1
  BY <1>1, <1>4, <1>5, <1>7
<1>11. /\ DOMAIN leafIndex.vertex = DOMAIN vert
       /\ \A v, w \in DOMAIN vert :
            (leafIndex.vertex[v] = leafIndex.vertex[w]) <=> (vert[v].pos = vert[w].pos)
  BY <1>1, <1>3, <1>7, <1>8
<1>12. {leafIndex.vertex[v] : v \in DOMAIN vert} = 0..Cardinality({vert[v].pos : v \in DOMAIN vert}) - 1
  <2>1. {leafIndex.vertex[v] : v \in DOMAIN vert} = {x.vertex[v] : v \in Vs(g)}
    BY <1>1, <1>3
  <2>2. QED BY <1>6, <1>9, <2>1
<1>13. QED BY <1>10, <1>11, <1>12 DEF LeafIndices

(* The leaf index set is consecutive from 0 for the elements and for the   *)
(* points, and all copies of a vertex share one index, after any adapt().  *)
THEOREM LeafIndicesInvariant == Spec => []LeafIndices
<1>1. Spec => [](Standing /\ Indexed(leafIndex, entities))
  BY InitStanding, NextStanding, InitIndexed, NextIndexed, PTL DEF Spec
<1>2. QED BY <1>1, StandingLeafIndices, PTL

-----------------------------------------------------------------------------
(* The leaves as the nodes of a forest of binary trees                     *)

(* The nodes of the leaves of g and their marks, which BisectionTree       *)
(* speaks of.                                                              *)
Node(g, e) == <<level(e), (Lo(g, e) * power2[level(e)]) \div meshSize>>
Nodes(g) == {Node(g, e) : e \in Leafs(g)}
NodeMarks(g) == [x \in Nodes(g) |-> g.element[CHOOSE e \in Leafs(g) : Node(g, e) = x].markState]

(* The extent of an element of level l that has been halved exactly. *)
Width(l) == power2[LevelLimit - l]

(* The powers of two multiply. *)
LEMMA PowerSum == \A a, b \in Nat : power2[a + b] = power2[a] * power2[b]
<1> SUFFICES ASSUME NEW a \in Nat PROVE \A b \in Nat : power2[a + b] = power2[a] * power2[b]
  OBVIOUS
<1> DEFINE T == {b \in Nat : power2[a + b] = power2[a] * power2[b]}
<1>0. \A n \in Nat : power2[n] \in Nat
  BY PowerPositive
<1>1. 0 \in T
  <2>1. a + 0 = a /\ power2[0] = 1 /\ power2[a] \in Nat
    BY PowerRecursion, <1>0
  <2>2. power2[a] = power2[a] * 1
    BY <2>1
  <2>3. power2[a + 0] = power2[a] * power2[0]
    BY <2>1, <2>2
  <2>4. QED BY <2>3
<1>2. ASSUME NEW b \in Nat, b \in T PROVE b + 1 \in T
  <2>1. power2[a + b] = power2[a] * power2[b] /\ power2[b + 1] = 2 * power2[b]
    BY <1>2, PowerRecursion
  <2>2. a + b \in Nat /\ a + (b + 1) = (a + b) + 1
    OBVIOUS
  <2> DEFINE c == a + b
  <2>3. power2[c + 1] = 2 * power2[c]
    BY <2>2, PowerRecursion
  <2>4. power2[a + (b + 1)] = 2 * (power2[a] * power2[b])
    BY <2>1, <2>2, <2>3
  <2>5. \A x, y \in Nat : 2 * (x * y) = x * (2 * y)
    OBVIOUS
  <2>6. 2 * (power2[a] * power2[b]) = power2[a] * (2 * power2[b])
    BY <1>0, <2>5
  <2>7. power2[a + (b + 1)] = power2[a] * power2[b + 1]
    BY <2>1, <2>4, <2>6
  <2>8. QED BY <2>7
<1> HIDE DEF T
<1>3. Nat \subseteq T
  BY <1>1, <1>2, InductionOn
<1>4. QED BY <1>3 DEF T

(* The widths of the levels halve, and fill the mesh size of level 0. *)
LEMMA Widths ==
  ASSUME NEW l \in 0..LevelLimit
  PROVE  /\ Width(l) \in Nat /\ Width(l) >= 1 /\ power2[l] \in Nat /\ power2[l] * Width(l) = meshSize
         /\ l < LevelLimit => Width(l) = 2 * Width(l + 1)
<1> DEFINE n == LevelLimit - l
<1>1. l \in Nat /\ n \in Nat /\ l + n = LevelLimit
  BY LimitsAssumption
<1>2. power2[n] \in Nat /\ power2[n] >= 1 /\ power2[l] \in Nat
  BY <1>1, PowerPositive
<1>3. power2[l + n] = power2[l] * power2[n]
  BY <1>1, PowerSum
<1>4. ASSUME l < LevelLimit PROVE power2[n] = 2 * power2[LevelLimit - (l + 1)]
  <2> DEFINE k == LevelLimit - (l + 1)
  <2>1. k \in Nat /\ k + 1 = n
    BY <1>1, <1>4, LimitsAssumption
  <2> HIDE DEF k
  <2>2. power2[k + 1] = 2 * power2[k]
    BY <2>1, PowerRecursion
  <2>3. QED BY <2>1, <2>2 DEF k
<1>5. QED BY <1>1, <1>2, <1>3, <1>4 DEF Width, meshSize

(* The element e is the k-th of the intervals of its width. *)
OnCell(g, e, k) == Lo(g, e) = k * Width(level(e)) /\ Hi(g, e) = (k + 1) * Width(level(e))

(* Its node says so. *)
LEMMA CellNode ==
  ASSUME NEW g, NEW e, level(e) \in 0..LevelLimit, NEW k \in Nat, OnCell(g, e, k)
  PROVE  Node(g, e) = <<level(e), k>>
<1> DEFINE W == Width(level(e))
           P == power2[level(e)]
           M == meshSize
<1>1. W \in Nat /\ P \in Nat /\ P * W = M /\ M \in Nat /\ M >= 1
  BY Widths, MeshSize
<1>2. Lo(g, e) = k * W
  BY DEF OnCell
<1>3. \A a, b, c \in Nat : (a * b) * c = (c * b) * a
  OBVIOUS
<1> HIDE DEF W, P, M
<1>4. (k * W) * P = M * k
  BY <1>1, <1>3
<1>5. M * k \in Nat /\ M * k = M * k + 0 /\ 0 \in 0..M-1 /\ M \in Nat \ {0}
  BY <1>1
<1>6. (M * k) \div M = k
  <2> DEFINE a == M * k
  <2>1. a \in Nat /\ M \in Nat \ {0} /\ k \in Int /\ 0 \in 0..M-1 /\ a = M * k + 0
    BY <1>5
  <2> HIDE DEF a
  <2>2. a \div M = k
    BY ONLY <2>1, DivisionUnique
  <2>3. QED BY <2>2 DEF a
<1>7. (Lo(g, e) * P) \div M = k
  BY <1>2, <1>4, <1>6
<1>8. QED BY <1>7 DEF Node, P, M

(* What the two sons of F share with F, whether they are leaves or not. *)
LEMMA TwoSons ==
  ASSUME NEW g, WF(g), Twofold(g), NEW F \in Es(g), ~isLeaf(g, F),
         NEW l, l = g.element[F].sons[1], NEW r, r = g.element[F].sons[2]
  PROVE  /\ l \in Es(g) /\ r \in Es(g) /\ l # r
         /\ g.element[l].father = F /\ g.element[r].father = F
         /\ level(F) \in Nat /\ level(F) < LevelLimit /\ level(l) = level(F) + 1 /\ level(r) = level(F) + 1
         /\ Lo(g, l) = Lo(g, F) /\ Hi(g, r) = Hi(g, F) /\ Hi(g, l) = Lo(g, r)
<1>0. Typed(g) /\ Fathers(g) /\ SonsOf(g) /\ Copies(g)
  BY Parts
<1>1. l \in Es(g) /\ r \in Es(g) /\ l # r /\ g.element[l].father = F /\ g.element[r].father = F
  BY <1>0 DEF SonsOf, Twofold
<1>2. F # null /\ level(F) \in Nat /\ level(l) \in Nat /\ level(r) \in Nat /\ level(l) <= LevelLimit /\ LevelLimit \in Nat
  <2>1. level(l) \in 0..maxLevel(g) /\ maxLevel(g) \in Nat /\ maxLevel(g) <= LevelLimit /\ LevelLimit \in Nat
    BY <1>0, <1>1, Basics
  <2>2. F # null /\ level(F) \in Nat /\ level(l) \in Nat /\ level(r) \in Nat
    BY <1>0, <1>1, Basics
  <2>3. QED BY <2>1, <2>2
<1>3. level(F) = level(l) - 1 /\ level(F) = level(r) - 1
  BY <1>0, <1>1, <1>2 DEF Fathers
<1>4. son(g, V0(g, F)) = V0(g, l) /\ son(g, V1(g, F)) = V1(g, r) /\ V1(g, l) = V0(g, r)
  BY <1>0, <1>1 DEF SonsOf
<1>5. /\ V0(g, F) \in Vs(g) /\ V1(g, F) \in Vs(g) /\ V0(g, l) # null /\ V1(g, r) # null
  BY <1>0, <1>1, Basics
<1>6. Pos(g, V0(g, l)) = Pos(g, V0(g, F)) /\ Pos(g, V1(g, r)) = Pos(g, V1(g, F))
  BY <1>0, <1>4, <1>5 DEF Copies
<1>7. Lo(g, l) = Lo(g, F) /\ Hi(g, r) = Hi(g, F) /\ Hi(g, l) = Lo(g, r)
  BY <1>4, <1>6 DEF Lo, Hi
<1>8. QED BY <1>1, <1>2, <1>3, <1>7

(* The sons are the halves of the father. *)
LEMMA CellSons ==
  ASSUME NEW g, WF(g), Twofold(g), NEW F \in Es(g), ~isLeaf(g, F), NEW k \in Nat, OnCell(g, F, k),
         NEW l, l = g.element[F].sons[1], NEW r, r = g.element[F].sons[2]
  PROVE  OnCell(g, l, 2 * k) /\ OnCell(g, r, 2 * k + 1)
<1> DEFINE W == Width(level(F))
           w == Width(level(F) + 1)
<1>0. Typed(g) /\ Sized(g)
  BY Parts
<1>1. /\ l \in Es(g) /\ r \in Es(g) /\ level(F) \in Nat /\ level(F) < LevelLimit
      /\ level(l) = level(F) + 1 /\ level(r) = level(F) + 1
      /\ Lo(g, l) = Lo(g, F) /\ Hi(g, r) = Hi(g, F) /\ Hi(g, l) = Lo(g, r)
  BY TwoSons
<1>2. /\ Lo(g, l) \in Nat /\ Hi(g, l) \in Nat /\ Hi(g, r) \in Nat
      /\ Hi(g, l) - Lo(g, l) >= w /\ Hi(g, r) - Lo(g, r) >= w
  <2>1. Hi(g, l) - Lo(g, l) >= Width(level(l)) /\ Hi(g, r) - Lo(g, r) >= Width(level(r))
    BY <1>0, <1>1 DEF Sized, Width
  <2>2. QED BY <1>0, <1>1, <2>1, Basics
<1>3. W \in Nat /\ w \in Nat /\ W = 2 * w
  <2>1. LevelLimit \in Nat /\ level(F) \in 0..LevelLimit /\ level(F) + 1 \in 0..LevelLimit
    BY <1>1, LimitsAssumption
  <2>2. QED BY <1>1, <2>1, Widths
<1>4. Lo(g, F) = k * W /\ Hi(g, F) = (k + 1) * W
  BY DEF OnCell
<1> DEFINE a == Lo(g, l)
           b == Hi(g, l)
           c == Hi(g, r)
<1> HIDE DEF W, w
<1>5. /\ k * W = (2 * k) * w /\ (k + 1) * W = (2 * k + 1 + 1) * w
      /\ (2 * k + 1) * w = (2 * k) * w + w /\ (2 * k + 1 + 1) * w = (2 * k) * w + 2 * w
      /\ (2 * k) * w \in Nat
  <2>1. \A x, y \in Nat : /\ x * (2 * y) = (2 * x) * y /\ (x + 1) * (2 * y) = (2 * x + 1 + 1) * y
                          /\ (2 * x + 1) * y = (2 * x) * y + y /\ (2 * x + 1 + 1) * y = (2 * x) * y + 2 * y
                          /\ (2 * x) * y \in Nat
    OBVIOUS
  <2>2. QED BY <1>3, <2>1
<1> DEFINE A == (2 * k) * w
<1>6. a = A /\ c = A + 2 * w /\ b - a >= w /\ c - b >= w /\ a \in Nat /\ b \in Nat /\ c \in Nat /\ A \in Nat
  BY <1>1, <1>2, <1>4, <1>5
<1> HIDE DEF A, a, b, c
<1>7. b = A + w
  BY <1>3, <1>6
<1>8. Lo(g, l) = (2 * k) * w /\ Hi(g, l) = (2 * k + 1) * w /\ Lo(g, r) = (2 * k + 1) * w /\ Hi(g, r) = (2 * k + 1 + 1) * w
  BY <1>1, <1>5, <1>6, <1>7 DEF A, a, b, c
<1>9. QED BY <1>1, <1>8 DEF OnCell, w

(* Every element is on a cell: halving is exact. *)
LEMMA Placement ==
  ASSUME NEW g, WF(g), Twofold(g)
  PROVE  /\ \A e \in Es(g) : \E k \in Nat : OnCell(g, e, k)
         /\ \A e \in Es(g) : level(e) = 0 => id(e) \in Nat /\ OnCell(g, e, id(e))
<1> DEFINE S(n) == \A e \in Es(g) : level(e) = n => \E k \in Nat : OnCell(g, e, k)
           T == {n \in Nat : S(n)}
<1>0. Typed(g) /\ Sized(g) /\ Nested(g) /\ Fathers(g) /\ SonsOf(g) /\ Copies(g) /\ LevelLimit \in Nat
  BY Parts, LimitsAssumption
<1>1. ASSUME NEW e \in Es(g), level(e) = 0 PROVE id(e) \in Nat /\ OnCell(g, e, id(e))
  <2>1. Root(Lo(g, e), Hi(g, e), id(e)) /\ Lo(g, e) \in Nat /\ id(e) \in Int
    BY <1>0, <1>1, Basics DEF Sized
  <2>2. LevelLimit - 0 = LevelLimit
    BY <1>0
  <2>3. Width(level(e)) = meshSize
    BY <1>1, <2>2, MeshSize DEF Width
  <2>4. Lo(g, e) = id(e) * meshSize /\ Hi(g, e) = (id(e) + 1) * meshSize
    BY <2>1 DEF Root
  <2>5. ~(id(e) < 0)
    <3> SUFFICES ASSUME id(e) < 0 PROVE FALSE
      OBVIOUS
    <3>1. id(e) * meshSize < 0 * meshSize
      BY <2>1, MeshSize, TimesOrder
    <3>2. 0 * meshSize = 0
      BY MeshSize
    <3>3. QED BY <2>1, <2>4, <3>1, <3>2
  <2>6. QED BY <2>1, <2>3, <2>4, <2>5 DEF OnCell
<1>2. S(0)
  BY <1>1
<1>3. ASSUME NEW n \in Nat, S(n) PROVE S(n + 1)
  <2> SUFFICES ASSUME NEW e \in Es(g), level(e) = n + 1 PROVE \E k \in Nat : OnCell(g, e, k)
    OBVIOUS
  <2> DEFINE F == g.element[e].father
  <2>1. level(e) # 0
    OBVIOUS
  <2>2. F \in Es(g) /\ level(F) = level(e) - 1 /\ ~isLeaf(g, F)
    BY <1>0, <2>1, SonWithin
  <2>3. level(F) = n /\ F # null
    BY <1>0, <2>2, Basics
  <2>4. g.element[F].sons[1] = e \/ g.element[F].sons[2] = e
    BY <1>0, <2>3 DEF Fathers
  <2>5. PICK k \in Nat : OnCell(g, F, k)
    BY <1>3, <2>2, <2>3
  <2> HIDE DEF F
  <2>6. OnCell(g, e, 2 * k) \/ OnCell(g, e, 2 * k + 1)
    BY <2>2, <2>4, <2>5, CellSons
  <2>7. 2 * k \in Nat /\ 2 * k + 1 \in Nat
    OBVIOUS
  <2>8. QED BY <2>6, <2>7
<1> HIDE DEF S
<1>4. 0 \in T /\ \A n \in Nat : n \in T => n + 1 \in T
  BY <1>2, <1>3
<1> HIDE DEF T
<1>5. Nat \subseteq T
  BY <1>4, InductionOn
<1>6. \A e \in Es(g) : level(e) \in Nat
  BY <1>0, Basics
<1>7. QED BY <1>1, <1>5, <1>6 DEF T, S

(* What the nodes are: different for different elements, numbered from     *)
(* the left on level 0, and halved from there.                             *)
LEMMA NodeFacts ==
  ASSUME NEW g, WF(g), Twofold(g)
  PROVE  /\ \A e \in Es(g) : \E k \in Nat : Node(g, e) = <<level(e), k>>
         /\ \A e \in Es(g) : level(e) = 0 => Node(g, e) = <<0, id(e)>>
         /\ \A e, f \in Es(g) : Node(g, e) = Node(g, f) => e = f
         /\ \A F \in Es(g) : ~isLeaf(g, F) =>
              /\ Node(g, g.element[F].sons[1]) = <<level(F) + 1, 2 * Node(g, F)[2]>>
              /\ Node(g, g.element[F].sons[2]) = <<level(F) + 1, 2 * Node(g, F)[2] + 1>>
<1>0. Typed(g) /\ Sized(g) /\ Nested(g) /\ LevelLimit \in Nat
  BY Parts, LimitsAssumption
<1>1. \A e \in Es(g) : level(e) \in 0..LevelLimit
  BY <1>0, Basics
<1>2. \A e \in Es(g) : \E k \in Nat : OnCell(g, e, k) /\ Node(g, e) = <<level(e), k>>
  BY <1>1, Placement, CellNode
<1>3. ASSUME NEW e \in Es(g), level(e) = 0 PROVE Node(g, e) = <<0, id(e)>>
  <2>1. id(e) \in Nat /\ OnCell(g, e, id(e))
    BY <1>3, Placement
  <2>2. QED BY <1>1, <1>3, <2>1, CellNode
<1>4. ASSUME NEW e \in Es(g), NEW f \in Es(g), Node(g, e) = Node(g, f) PROVE e = f
  <2>1. PICK k \in Nat : OnCell(g, e, k) /\ Node(g, e) = <<level(e), k>>
    BY <1>2
  <2>2. PICK j \in Nat : OnCell(g, f, j) /\ Node(g, f) = <<level(f), j>>
    BY <1>2
  <2>3. level(e) = level(f) /\ k = j
    <3>1. \A a, b, c, d : <<a, b>> = <<c, d>> => a = c /\ b = d
      OBVIOUS
    <3>2. <<level(e), k>> = <<level(f), j>>
      BY <1>4, <2>1, <2>2
    <3>3. QED BY ONLY <3>1, <3>2
  <2>4. Lo(g, e) = Lo(g, f)
    BY <2>1, <2>2, <2>3 DEF OnCell
  <2>5. QED BY <1>0, <2>3, <2>4, SameElement
<1>5. ASSUME NEW F \in Es(g), ~isLeaf(g, F)
      PROVE  /\ Node(g, g.element[F].sons[1]) = <<level(F) + 1, 2 * Node(g, F)[2]>>
             /\ Node(g, g.element[F].sons[2]) = <<level(F) + 1, 2 * Node(g, F)[2] + 1>>
  <2>1. PICK k \in Nat : OnCell(g, F, k) /\ Node(g, F) = <<level(F), k>>
    BY <1>2
  <2>2. PICK l, r : l = g.element[F].sons[1] /\ r = g.element[F].sons[2]
    OBVIOUS
  <2>3. l \in Es(g) /\ r \in Es(g) /\ level(l) = level(F) + 1 /\ level(r) = level(F) + 1
    BY <1>5, <2>2, TwoSons
  <2>4. OnCell(g, l, 2 * k) /\ OnCell(g, r, 2 * k + 1)
    BY <1>5, <2>1, <2>2, CellSons
  <2>5. 2 * k \in Nat /\ 2 * k + 1 \in Nat
    OBVIOUS
  <2>6. Node(g, l) = <<level(l), 2 * k>> /\ Node(g, r) = <<level(r), 2 * k + 1>>
    BY <1>1, <2>3, <2>4, <2>5, CellNode
  <2>7. Node(g, F)[2] = k
    BY <2>1
  <2>8. QED BY <2>2, <2>3, <2>6, <2>7
<1>6. \A e \in Es(g) : \E k \in Nat : Node(g, e) = <<level(e), k>>
  BY <1>2
<1>7. QED BY <1>3, <1>4, <1>5, <1>6

(* The father, the brother and the sons of a node. *)
Trunk(x) == <<x[1] - 1, x[2] \div 2>>
Twin(x)  == <<x[1], IF x[2] % 2 = 0 THEN x[2] + 1 ELSE x[2] - 1>>
Twigs(x) == {<<x[1] + 1, 2 * x[2]>>, <<x[1] + 1, 2 * x[2] + 1>>}

(* Arithmetic of the tree: the sons of a node. *)
LEMMA TwigFacts ==
  ASSUME NEW i \in Nat, NEW k \in Nat, NEW x, x = <<i, k>>,
         NEW y, y = <<i + 1, 2 * k>>, NEW z, z = <<i + 1, 2 * k + 1>>
  PROVE  /\ Twigs(x) = {y, z} /\ Trunk(y) = x /\ Trunk(z) = x /\ Twin(y) = z /\ Twin(z) = y
         /\ y[1] = i + 1 /\ z[1] = i + 1 /\ x[1] = i
<1>1. /\ (2 * k) \div 2 = k /\ (2 * k + 1) \div 2 = k /\ ((2 * k) % 2) = 0 /\ ((2 * k + 1) % 2) = 1
      /\ (i + 1) - 1 = i /\ (2 * k + 1) - 1 = 2 * k
  OBVIOUS
<1>2. x[1] = i /\ x[2] = k /\ y[1] = i + 1 /\ y[2] = 2 * k /\ z[1] = i + 1 /\ z[2] = 2 * k + 1
  OBVIOUS
<1>3. Twigs(x) = {y, z} /\ Trunk(y) = x /\ Trunk(z) = x
  BY <1>1, <1>2 DEF Twigs, Trunk
<1>4. Twin(y) = z /\ Twin(z) = y
  BY <1>1, <1>2 DEF Twin
<1>5. QED BY <1>2, <1>3, <1>4

(* A family in the grid is one in the tree. *)
LEMMA NodeFamily ==
  ASSUME NEW g, WF(g), Twofold(g), NEW F \in Es(g), ~isLeaf(g, F),
         NEW l, l = g.element[F].sons[1], NEW r, r = g.element[F].sons[2]
  PROVE  /\ l \in Es(g) /\ r \in Es(g) /\ l # r /\ g.element[l].father = F /\ g.element[r].father = F
         /\ level(l) = level(F) + 1 /\ level(r) = level(F) + 1 /\ level(F) \in Nat
         /\ Twigs(Node(g, F)) = {Node(g, l), Node(g, r)}
         /\ Trunk(Node(g, l)) = Node(g, F) /\ Trunk(Node(g, r)) = Node(g, F)
         /\ Twin(Node(g, l)) = Node(g, r) /\ Twin(Node(g, r)) = Node(g, l)
         /\ Node(g, l)[1] > 0 /\ Node(g, r)[1] > 0
<1>1. /\ l \in Es(g) /\ r \in Es(g) /\ l # r /\ g.element[l].father = F /\ g.element[r].father = F
      /\ level(l) = level(F) + 1 /\ level(r) = level(F) + 1 /\ level(F) \in Nat
  BY TwoSons
<1>2. PICK k \in Nat : Node(g, F) = <<level(F), k>>
  BY NodeFacts
<1>3. Node(g, F)[2] = k
  BY <1>2
<1>4. Node(g, l) = <<level(F) + 1, 2 * k>> /\ Node(g, r) = <<level(F) + 1, 2 * k + 1>>
  BY <1>3, NodeFacts
<1>5. PICK i, x, y, z : i = level(F) /\ x = Node(g, F) /\ y = Node(g, l) /\ z = Node(g, r)
  BY <1>1
<1>6. i \in Nat /\ k \in Nat /\ x = <<i, k>> /\ y = <<i + 1, 2 * k>> /\ z = <<i + 1, 2 * k + 1>>
  BY <1>1, <1>2, <1>4, <1>5
<1>7. /\ Twigs(x) = {y, z} /\ Trunk(y) = x /\ Trunk(z) = x /\ Twin(y) = z /\ Twin(z) = y
      /\ y[1] = i + 1 /\ z[1] = i + 1
  BY ONLY <1>6, TwigFacts
<1>8. y[1] > 0 /\ z[1] > 0
  BY <1>6, <1>7
<1>9. QED BY <1>1, <1>5, <1>7, <1>8

(* Above level 0 there is a father, and the element is one of its sons. *)
LEMMA FatherOf ==
  ASSUME NEW g, WF(g), NEW x \in Es(g), level(x) # 0, NEW F, F = g.element[x].father
  PROVE  /\ F \in Es(g) /\ ~isLeaf(g, F) /\ level(F) = level(x) - 1
         /\ x = g.element[F].sons[1] \/ x = g.element[F].sons[2]
<1>1. Typed(g) /\ Sized(g) /\ Nested(g) /\ Fathers(g) /\ SonsOf(g) /\ Copies(g)
  BY Parts
<1>2. F \in Es(g) /\ level(F) = level(x) - 1 /\ ~isLeaf(g, F)
  BY <1>1, SonWithin
<1>3. F # null
  BY <1>1, <1>2, Basics
<1>4. QED BY <1>1, <1>2, <1>3 DEF Fathers

(* What g and h both have has its father and its sons in both. *)
Kin(g, h) ==
  \A x \in Es(g) : x \in Es(h) =>
    /\ h.element[x].father = g.element[x].father
    /\ ~isLeaf(g, x) /\ ~isLeaf(h, x) => h.element[x].sons = g.element[x].sons

(* So it has the same node. *)
LEMMA SameNode ==
  ASSUME NEW g, WF(g), Twofold(g), NEW h, WF(h), Twofold(h), Kin(g, h)
  PROVE  \A x \in Es(g) : x \in Es(h) => Node(h, x) = Node(g, x)
<1> DEFINE S(n) == \A x \in Es(g) : x \in Es(h) /\ level(x) = n => Node(h, x) = Node(g, x)
           T == {n \in Nat : S(n)}
<1>1. S(0)
  BY NodeFacts
<1>2. ASSUME NEW n \in Nat, S(n) PROVE S(n + 1)
  <2> SUFFICES ASSUME NEW x \in Es(g), x \in Es(h), level(x) = n + 1 PROVE Node(h, x) = Node(g, x)
    OBVIOUS
  <2>1. PICK F : F = g.element[x].father
    OBVIOUS
  <2>2. F = h.element[x].father
    BY <2>1 DEF Kin
  <2>3. level(x) # 0 /\ level(x) - 1 = n
    OBVIOUS
  <2>4. F \in Es(g) /\ ~isLeaf(g, F) /\ level(F) = n /\ (x = g.element[F].sons[1] \/ x = g.element[F].sons[2])
    BY <2>1, <2>3, FatherOf
  <2>5. F \in Es(h) /\ ~isLeaf(h, F)
    BY <2>2, <2>3, FatherOf
  <2>6. h.element[F].sons = g.element[F].sons
    BY <2>4, <2>5 DEF Kin
  <2>7. Node(h, F) = Node(g, F)
    BY <1>2, <2>4, <2>5
  <2>8. CASE x = g.element[F].sons[1]
    <3>1. Node(g, x) = <<level(F) + 1, 2 * Node(g, F)[2]>> /\ Node(h, x) = <<level(F) + 1, 2 * Node(h, F)[2]>>
      BY <2>4, <2>5, <2>6, <2>8, NodeFacts
    <3>2. QED BY <2>7, <3>1
  <2>9. CASE x = g.element[F].sons[2]
    <3>1. Node(g, x) = <<level(F) + 1, 2 * Node(g, F)[2] + 1>> /\ Node(h, x) = <<level(F) + 1, 2 * Node(h, F)[2] + 1>>
      BY <2>4, <2>5, <2>6, <2>9, NodeFacts
    <3>2. QED BY <2>7, <3>1
  <2>10. QED BY <2>4, <2>8, <2>9
<1> HIDE DEF S
<1>3. 0 \in T /\ \A n \in Nat : n \in T => n + 1 \in T
  BY <1>1, <1>2
<1> HIDE DEF T
<1>4. Nat \subseteq T
  BY <1>3, InductionOn
<1>5. \A x \in Es(g) : level(x) \in Nat
  BY Parts, Basics
<1>6. QED BY <1>4, <1>5 DEF T, S

-----------------------------------------------------------------------------
(* COPY, or not *)

(* Nothing is copied on the way from g to h, or h has an element with one son. *)
NoneCopied(g, h) == h = g \/ ~Twofold(h)

(* An element that is copied has one son. *)
LEMMA CopyLeafNone ==
  ASSUME NEW g, WF(g), NEW e \in Es(g), level(e) < maxLevel(g), NEW h, h = CopyLeaf(g, e)
  PROVE  NoneCopied(g, h)
<1>1. CASE isLeaf(g, e)
  <2> DEFINE i == level(e) + 1
             u0 == Upper(g, V0(g, e))
             u1 == Upper(g, V1(g, e))
             s == <<i, id(e)>>
  <2>1. h = Copied(g, e)
    BY <1>1 DEF CopyLeaf
  <2>2. Leaf(g, e, i, u0, u1)
    BY <1>1 DEF Leaf
  <2> HIDE DEF i, u0, u1
  <2>3. Growth(g, h, e, s, s, u0)
    BY <2>1, <2>2, CopiedMaps
  <2> HIDE DEF s
  <2>4. /\ Es(h) = Es(g) \cup {s} /\ h.element[e].sons = <<s, s>> /\ ~isLeaf(h, e)
    BY <1>1, <2>3, GrowthElements DEF WF
  <2>5. h.element[e].sons[1] = h.element[e].sons[2]
    BY <2>4
  <2>6. ~Twofold(h)
    BY <2>4, <2>5 DEF Twofold
  <2>7. QED BY <2>6 DEF NoneCopied
<1>2. CASE ~isLeaf(g, e)
  BY <1>2 DEF CopyLeaf, NoneCopied
<1>3. QED BY <1>1, <1>2

(* One copy after the other. *)
LEMMA NoneCopiedAgain ==
  ASSUME NEW f, NEW g, NEW h, NoneCopied(f, g), NoneCopied(g, h)
  PROVE  NoneCopied(f, h)
BY DEF NoneCopied

(* A level. *)
LEMMA CopyLevelNone ==
  ASSUME NEW g, WF(g), NEW i \in 0..maxLevel(g), i < maxLevel(g), NEW h, h = CopyLevel(g, i)
  PROVE  NoneCopied(g, h)
<1> DEFINE list == g.elements[i]
           n == Len(list)
<1>1. n \in Nat /\ \A k \in 1..n : list[k] \in Es(g) /\ level(list[k]) = i
  BY LevelList
<1>2. PICK f : h = f[n] /\ f[0] = g /\ \A k \in 1..n : f[k] = CopyLeaf(f[k-1], list[k])
  BY <1>1, CopyLevelIs
<1> HIDE DEF n, list
<1> DEFINE T == {k \in Nat : k <= n => WF(f[k]) /\ Grows(g, f[k]) /\ NoneCopied(g, f[k])}
<1>3. 0 \in T
  BY <1>2, GrowsNot DEF NoneCopied
<1>4. ASSUME NEW k \in Nat, k \in T PROVE k + 1 \in T
  <2> SUFFICES ASSUME k + 1 <= n PROVE WF(f[k+1]) /\ Grows(g, f[k+1]) /\ NoneCopied(g, f[k+1])
    OBVIOUS
  <2>1. WF(f[k]) /\ Grows(g, f[k]) /\ NoneCopied(g, f[k])
    BY <1>4, <1>1
  <2>2. k + 1 \in 1..n /\ (k + 1) - 1 = k
    BY <1>1
  <2>3. f[k+1] = CopyLeaf(f[k], list[k+1]) /\ list[k+1] \in Es(g) /\ level(list[k+1]) = i
    BY <1>1, <1>2, <2>2
  <2>4. list[k+1] \in Es(f[k]) /\ level(list[k+1]) < maxLevel(f[k])
    BY <2>1, <2>3 DEF Grows
  <2>5. WF(f[k+1]) /\ Grows(f[k], f[k+1]) /\ NoneCopied(f[k], f[k+1])
    BY <2>1, <2>3, <2>4, CopyLeafKeeps, CopyLeafNone
  <2>6. QED BY <2>1, <2>5, GrowsAgain, NoneCopiedAgain
<1> HIDE DEF T
<1>5. n \in T
  BY <1>1, <1>3, <1>4, InductionOn
<1>6. QED BY <1>1, <1>2, <1>5 DEF T

(* All levels. *)
LEMMA WithCopiesNone ==
  ASSUME NEW g, WF(g), NEW h, h = WithCopies(g)
  PROVE  NoneCopied(g, h)
<1>1. CASE refinementType # "COPY"
  BY <1>1 DEF WithCopies, NoneCopied
<1>2. CASE refinementType = "COPY"
  <2> DEFINE n == maxLevel(g)
  <2>1. n \in Nat
    BY Basics DEF WF, Forest
  <2>2. PICK f : h = f[n] /\ f[0] = g /\ \A k \in 1..n : f[k] = CopyLevel(f[k-1], k - 1)
    BY <2>1, <1>2, WithCopiesIs
  <2>3. \A k \in 1..n : k - 1 \in 0..maxLevel(g) /\ k - 1 < maxLevel(g)
    BY <2>1
  <2> HIDE DEF n
  <2> DEFINE T == {k \in Nat : k <= n => WF(f[k]) /\ Grows(g, f[k]) /\ NoneCopied(g, f[k])}
  <2>4. 0 \in T
    BY <2>2, GrowsNot DEF NoneCopied
  <2>5. ASSUME NEW k \in Nat, k \in T PROVE k + 1 \in T
    <3> SUFFICES ASSUME k + 1 <= n PROVE WF(f[k+1]) /\ Grows(g, f[k+1]) /\ NoneCopied(g, f[k+1])
      OBVIOUS
    <3>1. WF(f[k]) /\ Grows(g, f[k]) /\ NoneCopied(g, f[k])
      BY <2>5, <2>1
    <3>2. k + 1 \in 1..n /\ (k + 1) - 1 = k
      BY <2>1
    <3>3. f[k+1] = CopyLevel(f[k], k) /\ k \in 0..maxLevel(g) /\ k < maxLevel(g)
      <4>1. f[k+1] = CopyLevel(f[(k+1)-1], (k+1)-1) /\ (k+1)-1 \in 0..maxLevel(g) /\ (k+1)-1 < maxLevel(g)
        BY <2>2, <2>3, <3>2
      <4>2. QED BY <4>1, <3>2
    <3>4. k \in 0..maxLevel(f[k]) /\ k < maxLevel(f[k])
      BY <3>1, <3>3 DEF Grows
    <3>5. WF(f[k+1]) /\ Grows(f[k], f[k+1]) /\ NoneCopied(f[k], f[k+1])
      BY <3>1, <3>3, <3>4, CopyLevelKeeps, CopyLevelNone
    <3>6. QED BY <3>1, <3>5, GrowsAgain, NoneCopiedAgain
  <2> HIDE DEF T
  <2>6. n \in T
    BY <2>1, <2>4, <2>5, InductionOn
  <2>7. QED BY <2>1, <2>2, <2>6 DEF T
<1>3. QED BY <1>1, <1>2

(* A level more or less changes no element. *)
LEMMA WithoutEmptyLevelElements ==
  ASSUME NEW g, Shape(g), NEW h, h = WithoutEmptyLevel(g)
  PROVE  h.element = g.element
BY DEF WithoutEmptyLevel, Shape

(* If no element of Adapted(g) has been copied, it is what coarsening and  *)
(* refinement have made of g.                                              *)
LEMMA AdaptedUncopied ==
  ASSUME NEW c, WF(c), Almost(c), c.failed = FALSE, NEW r, r = RefinedAll(c), NEW h, h = Grown(c), Twofold(h)
  PROVE  h.element = r.element /\ Es(h) = Es(r) /\ Twofold(r)
<1>1. WF(r) /\ Almost(r) /\ r.failed = FALSE
  BY RefinedAllKeeps
<1>2. PICK w : w = WithoutEmptyLevel(r)
  OBVIOUS
<1>3. h = WithCopies(w)
  BY <1>2 DEF Grown
<1>4. WF(w)
  BY <1>1, <1>2, WithoutEmptyLevelKeeps
<1>5. h = w
  BY <1>3, <1>4, WithCopiesNone DEF NoneCopied
<1>6. Shape(r)
  BY <1>1 DEF WF, Forest, Typed
<1>7. h.element = r.element
  BY <1>2, <1>5, <1>6, WithoutEmptyLevelElements
<1>8. QED BY <1>7 DEF Es, Twofold, isLeaf

-----------------------------------------------------------------------------
(* What coarsening takes away, exactly                                     *)

(* h is g without the elements S; their fathers have become leaves that    *)
(* are not marked, and the others are as they were.                        *)
Cut(g, h, S) ==
  /\ S \subseteq Es(g)
  /\ \A x : x \in Es(h) <=> x \in Es(g) /\ x \notin S
  /\ \A x \in Es(h) :
       /\ h.element[x].father = g.element[x].father
       /\ (\E y \in S : g.element[y].father = x) => isLeaf(h, x) /\ h.element[x].markState = "DO_NOTHING"
       /\ (\A y \in S : g.element[y].father # x) =>
            h.element[x].sons = g.element[x].sons /\ h.element[x].markState = g.element[x].markState

(* Nothing is taken away. *)
LEMMA CutNot ==
  ASSUME NEW g
  PROVE  Cut(g, g, {})
BY DEF Cut

(* Some elements are taken away, then others. *)
LEMMA CutAgain ==
  ASSUME NEW f, NEW g, NEW h, NEW S, NEW T, Cut(f, g, S), Cut(g, h, T)
  PROVE  Cut(f, h, S \cup T)
<1>1. S \cup T \subseteq Es(f)
  BY DEF Cut
<1>2. \A x : x \in Es(h) <=> x \in Es(f) /\ x \notin S \cup T
  BY DEF Cut
<1>3. \A y \in T : y \in Es(g) /\ g.element[y].father = f.element[y].father
  BY DEF Cut
<1>4. ASSUME NEW x \in Es(h)
      PROVE  /\ h.element[x].father = f.element[x].father
             /\ (\E y \in S \cup T : f.element[y].father = x) => isLeaf(h, x) /\ h.element[x].markState = "DO_NOTHING"
             /\ (\A y \in S \cup T : f.element[y].father # x) =>
                  h.element[x].sons = f.element[x].sons /\ h.element[x].markState = f.element[x].markState
  <2>1. x \in Es(g) /\ h.element[x].father = f.element[x].father
    BY DEF Cut
  <2>2. CASE \E y \in T : f.element[y].father = x
    <3>1. \E y \in T : g.element[y].father = x
      BY <1>3, <2>2
    <3>2. isLeaf(h, x) /\ h.element[x].markState = "DO_NOTHING"
      BY <3>1 DEF Cut
    <3>3. QED BY <2>1, <2>2, <3>2
  <2>3. CASE \A y \in T : f.element[y].father # x
    <3>1. \A y \in T : g.element[y].father # x
      BY <1>3, <2>3
    <3>2. h.element[x].sons = g.element[x].sons /\ h.element[x].markState = g.element[x].markState
      BY <3>1 DEF Cut
    <3>3. /\ (\E y \in S : f.element[y].father = x) => isLeaf(g, x) /\ g.element[x].markState = "DO_NOTHING"
          /\ (\A y \in S : f.element[y].father # x) =>
               g.element[x].sons = f.element[x].sons /\ g.element[x].markState = f.element[x].markState
      BY <2>1 DEF Cut
    <3>4. isLeaf(h, x) <=> isLeaf(g, x)
      BY <3>2 DEF isLeaf
    <3>5. QED BY <2>1, <2>3, <3>2, <3>3, <3>4
  <2>4. QED BY <2>2, <2>3
<1>5. QED BY <1>1, <1>2, <1>4 DEF Cut

(* x and its brother are leaves that are marked for coarsening. *)
Coarse(g, x) ==
  LET s == g.element[g.element[x].father].sons IN level(x) # 0 /\ removable(g, s[1], s[2])

(* Two brothers go together, or the grid stays as it is. *)
LEMMA PairCut ==
  ASSUME NEW g, Whole(g), NEW i \in 1..maxLevel(g), NEW l, NEW r, Brothers(g, l, r, i),
         NEW h, h = CoarsenPair(g, l, r)
  PROVE  IF removable(g, l, r) THEN Cut(g, h, {l, r}) ELSE h = g
<1>0. WF(g) /\ g.failed = FALSE
  BY DEF Whole
<1>1. l \in Es(g) /\ r \in Es(g) /\ level(l) = i /\ level(r) = i /\ l # r /\ r # null
  BY <1>0, Basics DEF Brothers, WF, Forest
<1>2. PICK F \in Es(g) : /\ g.element[l].father = F /\ g.element[r].father = F
                         /\ g.element[F].sons[1] = l /\ g.element[F].sons[2] = r
  BY DEF Brothers
<1>3. CASE ~removable(g, l, r)
  BY <1>0, <1>1, <1>3 DEF CoarsenPair
<1>4. CASE removable(g, l, r)
  <2>1. isLeaf(g, l) /\ isLeaf(g, r)
    BY <1>4 DEF removable
  <2>2. level(F) = i - 1
    <3>1. F # null
      BY <1>0, Basics DEF WF, Forest
    <3>2. \A e \in Es(g) : g.element[e].father # null => level(g.element[e].father) = level(e) - 1
      BY <1>0 DEF WF, Forest, Fathers
    <3>3. QED BY <1>1, <1>2, <3>1, <3>2
  <2>3. Sons(g, l, r, F, i)
    BY <1>1, <1>2, <2>1, <2>2 DEF Sons
  <2>4. pairAsserts(g, l, r)
    BY <1>0, <2>3, BrothersAssert
  <2>5. h = Removed(g, l, r)
    BY <1>0, <1>1, <1>4, <2>4 DEF CoarsenPair
  <2>6. Pruned(g, h, l, r, F, obsolete(g, l, r), copied(g, l, r))
    BY <1>0, <2>3, <2>5, RemovedMaps
  <2>7. /\ Es(h) = Es(g) \ {l, r}
        /\ \A x \in Es(h) :
             h.element[x] = IF x = F THEN [g.element[F] EXCEPT !.sons = <<null, null>>, !.markState = "DO_NOTHING"]
                            ELSE g.element[x]
    BY <2>6 DEF Pruned
  <2>8. DOMAIN g.element[F] = {"vertex", "father", "sons", "markState", "isNew", "reversed"}
    BY <1>0, ElementParts
  <2>9. ASSUME NEW x \in Es(h), x = F
        PROVE  h.element[x].father = g.element[x].father /\ isLeaf(h, x) /\ h.element[x].markState = "DO_NOTHING"
    <3>1. h.element[x] = [g.element[F] EXCEPT !.sons = <<null, null>>, !.markState = "DO_NOTHING"]
      BY <2>7, <2>9
    <3>2. h.element[x].sons = <<null, null>> /\ h.element[x].markState = "DO_NOTHING" /\ h.element[x].father = g.element[F].father
      BY <2>8, <3>1
    <3>3. QED BY <2>9, <3>2 DEF isLeaf
  <2>10. ASSUME NEW x \in Es(h), x # F PROVE h.element[x] = g.element[x]
    BY <2>7, <2>10
  <2>11. Cut(g, h, {l, r})
    BY <1>1, <1>2, <2>7, <2>9, <2>10 DEF Cut
  <2>12. QED BY <1>4, <2>11
<1>5. QED BY <1>3, <1>4

(* A mark and the sons are not changed by what is taken away two levels    *)
(* higher, or lower.                                                       *)
LEMMA CutElsewhere ==
  ASSUME NEW g, WF(g), NEW h, NEW S, Cut(g, h, S), NEW x \in Es(h), \A y \in S : level(y) # level(x) + 1
  PROVE  /\ h.element[x].sons = g.element[x].sons /\ h.element[x].markState = g.element[x].markState
         /\ isLeaf(h, x) <=> isLeaf(g, x)
<1>1. ASSUME NEW y \in S PROVE g.element[y].father # x
  <2>1. x \in Es(g) /\ y \in Es(g)
    BY DEF Cut
  <2>2. Fathers(g) /\ x # null /\ level(y) \in Nat /\ level(x) \in Nat
    BY <2>1, Parts, Basics
  <2>3. SUFFICES ASSUME g.element[y].father = x PROVE FALSE
    OBVIOUS
  <2>4. level(x) = level(y) - 1
    BY <2>1, <2>2, <2>3 DEF Fathers
  <2>5. level(y) = level(x) + 1
    BY <2>2, <2>4
  <2>6. QED BY <2>5
<1>2. h.element[x].sons = g.element[x].sons /\ h.element[x].markState = g.element[x].markState
  BY <1>1 DEF Cut
<1>3. QED BY <1>2 DEF isLeaf

(* One of two brothers goes if it can go with the other. *)
LEMMA BrothersCoarse ==
  ASSUME NEW g, NEW i, i # 0, NEW l, NEW r, Brothers(g, l, r, i)
  PROVE  (Coarse(g, l) <=> removable(g, l, r)) /\ (Coarse(g, r) <=> removable(g, l, r))
BY DEF Brothers, Coarse

(* On a level it is the pairs of which both are marked leaves that go. *)
LEMMA LevelCut ==
  ASSUME NEW g, Whole(g), NEW i \in 1..maxLevel(g), NEW h, h = CoarsenLevel(g, i)
  PROVE  \E S : Cut(g, h, S) /\ \A x : x \in S <=> x \in Es(g) /\ level(x) = i /\ Coarse(g, x)
<1> DEFINE list == g.elements[i]
           n == Len(list)
           m == (n + 1) \div 2
<1>0. WF(g) /\ Twofold(g) /\ Shape(g) /\ i \in 0..maxLevel(g) /\ i # 0
  <2>1. WF(g) /\ Twofold(g) /\ Shape(g)
    BY WFRecords DEF Whole
  <2>2. maxLevel(g) \in Nat
    BY <2>1, Basics DEF WF, Forest
  <2>3. QED BY <2>1, <2>2
<1>1. n \in Nat
      /\ \A k \in Nat : 2 * k + 1 <= n =>
           2 * k + 2 <= n /\ Brothers(g, list[2 * k + 1], list[2 * k + 2], i)
  BY <1>0, BrothersListed
<1>2. /\ DOMAIN list = 1..n /\ \A j, k \in 1..n : j # k => list[j] # list[k]
      /\ \A x \in Es(g) : level(x) = i => \E k \in 1..n : list[k] = x
  <2>1. /\ Listed(list, LoAt(g, i)) /\ Numbering(LoAt(g, i))
        /\ \A x : x \in DOMAIN LoAt(g, i) <=> x \in Es(g) /\ level(x) = i
    BY <1>0, ListedElements DEF WF, Forest
  <2>2. DOMAIN list = 1..n /\ \A j, k \in 1..n : j # k => list[j] # list[k]
    BY <2>1, ListedMembers, ListedOrder
  <2>3. \A x \in DOMAIN LoAt(g, i) : \E k \in 1..n : list[k] = x
    BY <2>1 DEF Listed
  <2>4. QED BY <2>1, <2>2, <2>3
<1>3. m \in Nat /\ (\A k \in Nat : k + 1 <= m => 2 * k + 1 <= n) /\ 2 * m >= n
  <2>1. m \in Nat /\ \A k \in Nat : k + 1 <= m => 2 * (k + 1) - 1 \in 1..n
    BY <1>1, PairNumbers
  <2>2. 2 * m >= n
    <3>1. \A a \in Nat : 2 * ((a + 1) \div 2) >= a
      OBVIOUS
    <3> HIDE DEF n
    <3>2. QED BY <1>1, <3>1
  <2> HIDE DEF m
  <2> HIDE DEF n
  <2>3. QED BY <1>1, <2>1, <2>2
<1>4. PICK p : h = p[m] /\ p[0] = g /\ \A k \in 1..m : p[k] = CoarsenPair(p[k-1], list[2 * k - 1], at(list, 2 * k))
  <2>1. PICK p : CoarsenLevel(g, i) = p[m] /\ Pairs(p, g, list, m)
    BY <1>3, CoarsenLevelIs
  <2>2. QED BY <2>1 DEF Pairs
<1> HIDE DEF m
<1> HIDE DEF n
<1> HIDE DEF list
<1>5. ASSUME NEW k \in Nat, k + 1 <= m
      PROVE  /\ Brothers(g, list[2 * k + 1], list[2 * k + 2], i)
             /\ 2 * k + 1 \in 1..n /\ 2 * k + 2 \in 1..n
             /\ p[k+1] = CoarsenPair(p[k], list[2 * k + 1], list[2 * k + 2])
  <2>1. 2 * k + 1 <= n /\ 2 * k + 2 <= n /\ Brothers(g, list[2 * k + 1], list[2 * k + 2], i)
    BY <1>1, <1>3, <1>5
  <2>2. 2 * k + 1 \in 1..n /\ 2 * k + 2 \in 1..n
    BY <1>1, <2>1
  <2>3. PICK j : j = k + 1 /\ j \in 1..m /\ j - 1 = k /\ 2 * j - 1 = 2 * k + 1 /\ 2 * j = 2 * k + 2
    BY <1>3, <1>5
  <2>4. p[j] = CoarsenPair(p[j-1], list[2 * j - 1], at(list, 2 * j))
    BY <1>4, <2>3
  <2>5. at(list, 2 * k + 2) = list[2 * k + 2]
    BY <1>2, <2>2 DEF at
  <2>6. QED BY <2>1, <2>2, <2>3, <2>4, <2>5
<1> DEFINE D(k, S) == /\ Cut(g, p[k], S)
                      /\ \A x \in S : x \in Es(g) /\ level(x) = i /\ Coarse(g, x)
                      /\ \A j \in 1..n : j <= 2 * k /\ Coarse(g, list[j]) => list[j] \in S
                      /\ \A j \in 1..n : j > 2 * k => list[j] \notin S
           T == {k \in Nat : k <= m =>
                   /\ Whole(p[k]) /\ Beyond(g, p[k], i)
                   /\ \A j \in Nat : j >= k /\ j + 1 <= m => Brothers(p[k], list[2 * j + 1], list[2 * j + 2], i)
                   /\ \E S : D(k, S)}
<1>6. 0 \in T
  <2>1. Beyond(g, g, i)
    BY <1>0, BeyondItself
  <2>2. Cut(g, g, {})
    BY CutNot
  <2>3. D(0, {})
    BY <1>1, <1>4, <2>2
  <2> HIDE DEF D
  <2>4. QED BY <1>4, <1>5, <2>1, <2>3
<1> HIDE DEF D
<1>7. ASSUME NEW k \in Nat, k \in T PROVE k + 1 \in T
  <2> SUFFICES ASSUME k + 1 <= m
               PROVE  /\ Whole(p[k+1]) /\ Beyond(g, p[k+1], i)
                      /\ \A j \in Nat : j >= k + 1 /\ j + 1 <= m => Brothers(p[k+1], list[2 * j + 1], list[2 * j + 2], i)
                      /\ \E S : D(k + 1, S)
    OBVIOUS
  <2>1. PICK f, q, l, r : f = p[k] /\ q = p[k+1] /\ l = list[2 * k + 1] /\ r = list[2 * k + 2]
    OBVIOUS
  <2>2. /\ Whole(f) /\ Beyond(g, f, i)
        /\ \A j \in Nat : j >= k /\ j + 1 <= m => Brothers(f, list[2 * j + 1], list[2 * j + 2], i)
        /\ \E S : D(k, S)
    BY <1>3, <1>7, <2>1
  <2>3. Brothers(f, l, r, i) /\ q = CoarsenPair(f, l, r) /\ Brothers(g, l, r, i)
    BY <1>5, <2>1, <2>2
  <2>4. i \in 1..maxLevel(f)
    <3>1. DOMAIN f.elements = DOMAIN g.elements
      BY <2>2 DEF Beyond
    <3>2. QED BY <3>1 DEF maxLevel
  <2>5. /\ Whole(q) /\ Beyond(f, q, i)
        /\ \A x, y : Brothers(f, x, y, i) /\ x \notin {l, r} /\ y \notin {l, r} => Brothers(q, x, y, i)
    BY <2>2, <2>3, <2>4, BrothersKeep
  <2>6. Beyond(g, q, i)
    BY <2>2, <2>5, BeyondAgain
  <2>7. ASSUME NEW j \in Nat, j >= k + 1, j + 1 <= m PROVE Brothers(q, list[2 * j + 1], list[2 * j + 2], i)
    <3>1. Brothers(f, list[2 * j + 1], list[2 * j + 2], i)
      BY <2>2, <2>7
    <3>2. PICK a, b, c, d : a = 2 * k + 1 /\ b = 2 * k + 2 /\ c = 2 * j + 1 /\ d = 2 * j + 2
      OBVIOUS
    <3>3. a \in 1..n /\ b \in 1..n /\ c \in 1..n /\ d \in 1..n
      BY <1>5, <2>7, <3>2
    <3>4. c # a /\ c # b /\ d # a /\ d # b
      BY <2>7, <3>2
    <3>5. list[c] \notin {l, r} /\ list[d] \notin {l, r}
      BY <1>2, <2>1, <3>2, <3>3, <3>4
    <3>6. QED BY <2>5, <3>1, <3>2, <3>5
  <2>8. PICK S : D(k, S)
    BY <2>2
  <2>9. PICK a, b : a = 2 * k + 1 /\ b = 2 * k + 2 /\ a \in 1..n /\ b \in 1..n /\ a > 2 * k /\ b > 2 * k /\ l = list[a] /\ r = list[b]
    <3>1. 2 * k + 1 \in 1..n /\ 2 * k + 2 \in 1..n
      BY <1>5
    <3>2. 2 * k + 1 > 2 * k /\ 2 * k + 2 > 2 * k
      OBVIOUS
    <3>3. QED BY <2>1, <3>1, <3>2
  <2>10. \A j \in 1..n : (j <= 2 * (k + 1) <=> j <= 2 * k \/ j = a \/ j = b) /\ (j > 2 * (k + 1) => j > 2 * k /\ j # a /\ j # b)
    BY <1>1, <2>9
  <2>11. /\ Cut(g, f, S) /\ \A x \in S : x \in Es(g) /\ level(x) = i /\ Coarse(g, x)
         /\ \A j \in 1..n : j <= 2 * k /\ Coarse(g, list[j]) => list[j] \in S
         /\ \A j \in 1..n : j > 2 * k => list[j] \notin S
    BY <2>1, <2>8 DEF D
  <2>12. /\ l \in Es(g) /\ r \in Es(g) /\ l \in Es(f) /\ r \in Es(f) /\ level(l) = i /\ level(r) = i /\ i \in Int
    BY <2>3 DEF Brothers
  <2>13. /\ f.element[l].markState = g.element[l].markState /\ (isLeaf(f, l) <=> isLeaf(g, l))
         /\ f.element[r].markState = g.element[r].markState /\ (isLeaf(f, r) <=> isLeaf(g, r))
    BY <1>0, <2>11, <2>12, CutElsewhere
  <2>14. removable(f, l, r) <=> removable(g, l, r)
    BY <2>13 DEF removable
  <2>15. (Coarse(g, l) <=> removable(g, l, r)) /\ (Coarse(g, r) <=> removable(g, l, r))
    BY <1>0, <2>3, BrothersCoarse
  <2>16. IF removable(f, l, r) THEN Cut(f, q, {l, r}) ELSE q = f
    BY <2>2, <2>3, <2>4, PairCut
  <2>17. CASE removable(f, l, r)
    <3>1. Cut(g, q, S \cup {l, r})
      BY <2>11, <2>16, <2>17, CutAgain
    <3>2. \A x \in S \cup {l, r} : x \in Es(g) /\ level(x) = i /\ Coarse(g, x)
      BY <2>11, <2>12, <2>14, <2>15, <2>17
    <3>3. \A j \in 1..n : j <= 2 * (k + 1) /\ Coarse(g, list[j]) => list[j] \in S \cup {l, r}
      BY <2>9, <2>10, <2>11
    <3>4. \A j \in 1..n : j > 2 * (k + 1) => list[j] \notin S \cup {l, r}
      BY <1>2, <2>9, <2>10, <2>11
    <3>5. D(k + 1, S \cup {l, r})
      BY <2>1, <3>1, <3>2, <3>3, <3>4 DEF D
    <3>6. QED BY <2>1, <2>5, <2>6, <2>7, <3>5
  <2>18. CASE ~removable(f, l, r)
    <3>1. Cut(g, q, S)
      BY <2>11, <2>16, <2>18
    <3>2. ~Coarse(g, l) /\ ~Coarse(g, r)
      BY <2>14, <2>15, <2>18
    <3>3. \A j \in 1..n : j <= 2 * (k + 1) /\ Coarse(g, list[j]) => list[j] \in S
      BY <2>9, <2>10, <2>11, <3>2
    <3>4. \A j \in 1..n : j > 2 * (k + 1) => list[j] \notin S
      BY <2>10, <2>11
    <3>5. D(k + 1, S)
      BY <2>1, <2>11, <3>1, <3>3, <3>4 DEF D
    <3>6. QED BY <2>1, <2>5, <2>6, <2>7, <3>5
  <2>19. QED BY <2>17, <2>18
<1> HIDE DEF T
<1>8. m \in T
  BY <1>3, <1>6, <1>7, InductionOn
<1>9. PICK S : D(m, S)
  BY <1>3, <1>8 DEF T
<1>10. /\ Cut(g, p[m], S) /\ \A x \in S : x \in Es(g) /\ level(x) = i /\ Coarse(g, x)
       /\ \A j \in 1..n : j <= 2 * m /\ Coarse(g, list[j]) => list[j] \in S
  BY <1>9 DEF D
<1>11. \A j \in 1..n : j <= 2 * m
  BY <1>1, <1>3
<1>12. \A x : x \in S <=> x \in Es(g) /\ level(x) = i /\ Coarse(g, x)
  BY <1>2, <1>10, <1>11
<1>13. QED BY <1>4, <1>10, <1>12

(* Whether an element of level i + 1 goes does not depend on what has gone *)
(* on the levels up to i.                                                  *)
LEMMA CoarseAbove ==
  ASSUME NEW g, WF(g), NEW h, WF(h), NEW S, Cut(g, h, S), NEW i \in Nat, \A y \in S : level(y) <= i,
         NEW x \in Es(g), level(x) > i
  PROVE  x \in Es(h) /\ (Coarse(h, x) <=> Coarse(g, x))
<1>0. /\ \A y \in Es(g) : level(y) \in Nat
      /\ S \subseteq Es(g)
  BY Parts, Basics DEF Cut
<1>1. x \in Es(h) /\ level(x) # 0 /\ h.element[x].father = g.element[x].father
  BY <1>0 DEF Cut
<1>2. PICK F : F = g.element[x].father
  OBVIOUS
<1>3. F \in Es(g) /\ ~isLeaf(g, F) /\ level(F) = level(x) - 1
  BY <1>1, <1>2, FatherOf
<1>4. F \in Es(h)
  BY <1>1, <1>2, FatherOf
<1>5. PICK l, r : l = g.element[F].sons[1] /\ r = g.element[F].sons[2]
  OBVIOUS
<1>6. h.element[F].sons = g.element[F].sons
  <2>1. level(F) + 1 > i
    BY <1>0, <1>3
  <2>2. \A y \in S : level(y) # level(F) + 1
    BY <1>0, <1>3, <2>1
  <2>3. QED BY <1>4, <2>2, CutElsewhere
<1>7. ASSUME NEW y \in {l, r} PROVE h.element[y].markState = g.element[y].markState /\ (isLeaf(h, y) <=> isLeaf(g, y))
  <2>1. y \in Es(g) /\ g.element[y].father = F
    BY <1>3, <1>5, Parts DEF SonsOf
  <2>2. F # null /\ level(F) = level(y) - 1
    <3>1. F # null /\ Fathers(g)
      BY <1>3, Parts, Basics
    <3>2. QED BY <2>1, <3>1 DEF Fathers
  <2>3. level(y) = level(x)
    BY <1>0, <1>3, <2>1, <2>2
  <2>4. y \in Es(h)
    BY <1>0, <2>1, <2>3 DEF Cut
  <2>5. \A z \in S : level(z) # level(y) + 1
    BY <1>0, <2>1, <2>3
  <2>6. QED BY <2>4, <2>5, CutElsewhere
<1>8. Coarse(g, x) <=> removable(g, l, r)
  BY <1>1, <1>2, <1>5 DEF Coarse
<1>9. Coarse(h, x) <=> removable(h, l, r)
  BY <1>1, <1>2, <1>5, <1>6 DEF Coarse
<1>10. removable(h, l, r) <=> removable(g, l, r)
  BY <1>7 DEF removable
<1>11. QED BY <1>1, <1>8, <1>9, <1>10

(* Coarsening takes away the pairs of brothers that are leaves and marked, *)
(* and nothing else.                                                       *)
LEMMA CoarsenedCut ==
  ASSUME NEW g, Safe(g), Twofold(g), NEW d, d = Coarsened(g)
  PROVE  \E S : Cut(g, d, S) /\ \A x : x \in S <=> x \in Es(g) /\ Coarse(g, x)
<1> DEFINE n == maxLevel(g)
<1>1. n \in Nat /\ WF(g) /\ Full(g) /\ g.failed = FALSE /\ Whole(g)
  BY Basics DEF Safe, Whole, WF, Forest
<1>2. PICK c, f : c = CoarsenedLevels(g) /\ c = f[n] /\ f[0] = g /\ \A k \in 1..n : f[k] = CoarsenLevel(f[k-1], k)
  BY <1>1, CoarsenedLevelsIs
<1>0. \A x \in Es(g) : level(x) \in Nat /\ level(x) <= n
  <2>1. \A x \in Es(g) : level(x) \in 0..maxLevel(g)
    BY <1>1, Basics DEF WF, Forest
  <2>2. QED BY <1>1, <2>1
<1> HIDE DEF n
<1> DEFINE D(k, S) == Cut(g, f[k], S) /\ \A x : x \in S <=> x \in Es(g) /\ level(x) <= k /\ Coarse(g, x)
           T == {k \in Nat : k <= n => Whole(f[k]) /\ maxLevel(f[k]) = n /\ \E S : D(k, S)}
<1>3. 0 \in T
  <2>1. D(0, {})
    <3>1. \A x \in Es(g) : level(x) <= 0 => ~Coarse(g, x)
      BY <1>0 DEF Coarse
    <3>2. QED BY <1>2, <3>1, CutNot
  <2> HIDE DEF D
  <2>2. QED BY <1>1, <1>2, <2>1 DEF n
<1> HIDE DEF D
<1>4. ASSUME NEW k \in Nat, k \in T PROVE k + 1 \in T
  <2> SUFFICES ASSUME k + 1 <= n PROVE Whole(f[k+1]) /\ maxLevel(f[k+1]) = n /\ \E S : D(k+1, S)
    OBVIOUS
  <2>1. PICK i, a, b : i = k + 1 /\ a = f[k] /\ b = f[i]
    OBVIOUS
  <2>2. i \in 1..n /\ i - 1 = k /\ Whole(a) /\ maxLevel(a) = n /\ \E S : D(k, S)
    BY <1>1, <1>4, <2>1
  <2>3. b = CoarsenLevel(a, i) /\ i \in 1..maxLevel(a)
    BY <1>2, <2>1, <2>2
  <2>4. Whole(b) /\ Beyond(a, b, i)
    BY <2>2, <2>3, LevelWhole
  <2>5. maxLevel(b) = maxLevel(a)
    BY <2>4 DEF Beyond, maxLevel
  <2>6. PICK S : Cut(g, a, S) /\ \A x : x \in S <=> x \in Es(g) /\ level(x) <= k /\ Coarse(g, x)
    BY <2>1, <2>2 DEF D
  <2>7. PICK U : Cut(a, b, U) /\ \A x : x \in U <=> x \in Es(a) /\ level(x) = i /\ Coarse(a, x)
    BY <2>2, <2>3, LevelCut
  <2>8. Cut(g, b, S \cup U)
    BY <2>6, <2>7, CutAgain
  <2>9. WF(a)
    BY <2>2 DEF Whole
  <2>10. \A x \in Es(g) : level(x) = i => x \in Es(a) /\ (Coarse(a, x) <=> Coarse(g, x))
    <3>1. \A y \in S : level(y) <= k
      BY <2>6
    <3>2. \A x \in Es(g) : level(x) = i => level(x) > k
      BY <2>1
    <3>3. QED BY <1>1, <2>6, <2>9, <3>1, <3>2, CoarseAbove
  <2>11. \A x \in Es(g) : level(x) <= i <=> level(x) <= k \/ level(x) = i
    BY <1>0, <2>1
  <2>12. \A x : x \in S \cup U <=> x \in Es(g) /\ level(x) <= i /\ Coarse(g, x)
    <3>1. \A x \in Es(a) : x \in Es(g)
      BY <2>6 DEF Cut
    <3>2. QED BY <2>6, <2>7, <2>10, <2>11, <3>1
  <2>13. D(i, S \cup U)
    BY <2>1, <2>8, <2>12 DEF D
  <2>14. QED BY <2>1, <2>2, <2>4, <2>5, <2>13
<1> HIDE DEF T
<1>5. n \in T
  BY <1>1, <1>3, <1>4, InductionOn
<1>6. Whole(c) /\ \E S : D(n, S)
  BY <1>1, <1>2, <1>5 DEF T
<1>7. d = c
  BY <1>2, <1>6, TwoSonsOrNone DEF Coarsened, Checked, Whole, Es
<1>8. PICK S : Cut(g, d, S) /\ \A x : x \in S <=> x \in Es(g) /\ level(x) <= n /\ Coarse(g, x)
  BY <1>2, <1>6, <1>7 DEF D
<1>9. QED BY <1>0, <1>8

-----------------------------------------------------------------------------
(* adapt() on the tree                                                     *)

(* What goes and what is refined in a tree with the leaves L and marks M.  *)
Vanishing(L, M) == {x \in L : x[1] > 0 /\ \A y \in {x, Twin(x)} : y \in L /\ M[y] = "COARSEN"}
Splitting(L, M) == {x \in L : M[x] = "REFINE"}

(* The leaf of a node is one, and its mark is that of the node. *)
LEMMA LeafNode ==
  ASSUME NEW g, WF(g), Twofold(g)
  PROVE  \A e \in Leafs(g) : Node(g, e) \in Nodes(g) /\ NodeMarks(g)[Node(g, e)] = g.element[e].markState
<1> SUFFICES ASSUME NEW e \in Leafs(g)
             PROVE  Node(g, e) \in Nodes(g) /\ NodeMarks(g)[Node(g, e)] = g.element[e].markState
  OBVIOUS
<1>1. Node(g, e) \in Nodes(g)
  BY DEF Nodes
<1>2. \A f \in Leafs(g) : Node(g, f) = Node(g, e) => f = e
  BY NodeFacts DEF Leafs
<1>3. PICK c : c = CHOOSE f \in Leafs(g) : Node(g, f) = Node(g, e)
  OBVIOUS
<1>4. c \in Leafs(g) /\ Node(g, c) = Node(g, e)
  BY <1>3
<1>5. c = e
  BY <1>2, <1>4
<1>6. NodeMarks(g)[Node(g, e)] = g.element[c].markState
  BY <1>1, <1>3 DEF NodeMarks
<1>7. QED BY <1>1, <1>5, <1>6

(* The father of a leaf is the father in the tree, and its brother the     *)
(* brother there.                                                          *)
LEMMA NodeFather ==
  ASSUME NEW g, WF(g), Twofold(g), NEW x \in Es(g), level(x) # 0
  PROVE  \E F, l, r \in Es(g) :
           /\ F = g.element[x].father /\ ~isLeaf(g, F) /\ Trunk(Node(g, x)) = Node(g, F)
           /\ l = g.element[F].sons[1] /\ r = g.element[F].sons[2] /\ x \in {l, r}
           /\ \A y \in {l, r} : {Node(g, y), Twin(Node(g, y))} = {Node(g, l), Node(g, r)} /\ Node(g, y)[1] > 0
<1>1. PICK F : F = g.element[x].father
  OBVIOUS
<1>2. F \in Es(g) /\ ~isLeaf(g, F) /\ (x = g.element[F].sons[1] \/ x = g.element[F].sons[2])
  BY <1>1, FatherOf
<1>3. PICK l, r : l = g.element[F].sons[1] /\ r = g.element[F].sons[2]
  OBVIOUS
<1>4. /\ l \in Es(g) /\ r \in Es(g)
      /\ Trunk(Node(g, l)) = Node(g, F) /\ Trunk(Node(g, r)) = Node(g, F)
      /\ Twin(Node(g, l)) = Node(g, r) /\ Twin(Node(g, r)) = Node(g, l)
      /\ Node(g, l)[1] > 0 /\ Node(g, r)[1] > 0
  BY <1>2, <1>3, NodeFamily
<1>5. \A y \in {l, r} : {Node(g, y), Twin(Node(g, y))} = {Node(g, l), Node(g, r)} /\ Node(g, y)[1] > 0
  BY <1>4
<1>6. x \in {l, r} /\ Trunk(Node(g, x)) = Node(g, F)
  BY <1>2, <1>3, <1>4
<1>7. /\ F = g.element[x].father /\ ~isLeaf(g, F) /\ Trunk(Node(g, x)) = Node(g, F)
      /\ l = g.element[F].sons[1] /\ r = g.element[F].sons[2] /\ x \in {l, r}
      /\ \A y \in {l, r} : {Node(g, y), Twin(Node(g, y))} = {Node(g, l), Node(g, r)} /\ Node(g, y)[1] > 0
  BY <1>1, <1>2, <1>3, <1>5, <1>6
<1>8. F \in Es(g) /\ l \in Es(g) /\ r \in Es(g)
  BY <1>2, <1>4
<1>9. QED BY ONLY <1>7, <1>8

(* What can go in the grid is what can go in the tree, and what is to be   *)
(* refined there is to be refined here.                                    *)
LEMMA VanishingIs ==
  ASSUME NEW g, WF(g), Twofold(g), NEW L, L = Nodes(g), NEW M, M = NodeMarks(g)
  PROVE  /\ \A x \in Es(g) : Coarse(g, x) => x \in Leafs(g)
         /\ \A x \in Leafs(g) : Node(g, x) \in Vanishing(L, M) <=> Coarse(g, x)
         /\ \A x \in Leafs(g) : Node(g, x) \in Splitting(L, M) <=> g.element[x].markState = "REFINE"
<1>0. /\ \A e \in Leafs(g) : e \in Es(g) /\ isLeaf(g, e) /\ Node(g, e) \in L /\ M[Node(g, e)] = g.element[e].markState
      /\ \A e, f \in Es(g) : Node(g, e) = Node(g, f) => e = f
      /\ \A y \in L : \E e \in Leafs(g) : y = Node(g, e)
  BY LeafNode, NodeFacts DEF Leafs, Nodes
<1>1. ASSUME NEW x \in Es(g), level(x) # 0
      PROVE  /\ Coarse(g, x) => x \in Leafs(g)
             /\ Node(g, x) \in Vanishing(L, M) <=> Coarse(g, x)
  <2>1. PICK F, l, r \in Es(g) :
           /\ F = g.element[x].father
           /\ l = g.element[F].sons[1] /\ r = g.element[F].sons[2] /\ x \in {l, r}
           /\ \A y \in {l, r} : {Node(g, y), Twin(Node(g, y))} = {Node(g, l), Node(g, r)} /\ Node(g, y)[1] > 0
    BY <1>1, NodeFather
  <2>2. Coarse(g, x) <=> removable(g, l, r)
    BY <1>1, <2>1 DEF Coarse
  <2>3. ASSUME NEW y \in {l, r}
        PROVE  Node(g, y) \in L /\ M[Node(g, y)] = "COARSEN" <=> g.element[y].markState = "COARSEN" /\ isLeaf(g, y)
    <3>1. y \in Es(g)
      BY <2>1
    <3>2. Node(g, y) \in L <=> isLeaf(g, y)
      BY <1>0, <3>1 DEF Leafs
    <3>3. isLeaf(g, y) => M[Node(g, y)] = g.element[y].markState
      BY <1>0, <3>1 DEF Leafs
    <3>4. QED BY <3>2, <3>3
  <2>4. removable(g, l, r) <=> \A z \in {Node(g, l), Node(g, r)} : z \in L /\ M[z] = "COARSEN"
    BY <2>3 DEF removable
  <2>5. \A z : z \in {Node(g, x), Twin(Node(g, x))} <=> z \in {Node(g, l), Node(g, r)}
    BY <2>1
  <2>6. Node(g, x) \in Vanishing(L, M) <=> removable(g, l, r)
    BY <2>1, <2>4, <2>5 DEF Vanishing
  <2>7. Coarse(g, x) => x \in Leafs(g)
    BY <2>1, <2>2 DEF removable, Leafs
  <2>8. QED BY <2>2, <2>6, <2>7
<1>2. ASSUME NEW x \in Es(g), level(x) = 0 PROVE ~Coarse(g, x) /\ Node(g, x) \notin Vanishing(L, M)
  <2>1. Node(g, x) = <<0, id(x)>>
    BY <1>2, NodeFacts
  <2>2. Node(g, x)[1] = 0
    BY <2>1
  <2>3. QED BY <1>2, <2>2 DEF Coarse, Vanishing
<1>3. \A x \in Leafs(g) : Node(g, x) \in Splitting(L, M) <=> g.element[x].markState = "REFINE"
  BY <1>0 DEF Splitting
<1>4. QED BY <1>0, <1>1, <1>2, <1>3

(* g is coarsened to c, from which S is taken away, and c is refined to h. *)
Graft(g, c, h, S) ==
  /\ WF(g) /\ Twofold(g) /\ WF(c) /\ Twofold(c) /\ WF(h) /\ Twofold(h)
  /\ Cut(g, c, S) /\ \A x : x \in S <=> x \in Es(g) /\ Coarse(g, x)
  /\ Sprouts(c, h) /\ \A x \in Es(c) : c.element[x].markState = "REFINE" => ~isLeaf(h, x)

(* What stays is the same node. *)
LEMMA GraftNodes ==
  ASSUME NEW g, NEW c, NEW h, NEW S, Graft(g, c, h, S)
  PROVE  \A x \in Es(c) : x \in Es(g) /\ x \in Es(h) /\ Node(h, x) = Node(g, x)
<1>0. /\ WF(g) /\ Twofold(g) /\ WF(c) /\ Twofold(c) /\ WF(h) /\ Twofold(h)
      /\ Cut(g, c, S) /\ Sprouts(c, h)
  BY DEF Graft
<1>1. Kin(g, c)
  <2> SUFFICES ASSUME NEW x \in Es(g), x \in Es(c)
               PROVE  /\ c.element[x].father = g.element[x].father
                      /\ ~isLeaf(g, x) /\ ~isLeaf(c, x) => c.element[x].sons = g.element[x].sons
    BY DEF Kin
  <2>1. CASE \E y \in S : g.element[y].father = x
    BY <1>0, <2>1 DEF Cut
  <2>2. CASE \A y \in S : g.element[y].father # x
    BY <1>0, <2>2 DEF Cut
  <2>3. QED BY <2>1, <2>2
<1>2. Kin(c, h)
  BY <1>0 DEF Kin, Sprouts
<1>3. \A x \in Es(c) : x \in Es(g) /\ x \in Es(h)
  BY <1>0 DEF Cut, Sprouts
<1>4. (\A x \in Es(g) : x \in Es(c) => Node(c, x) = Node(g, x)) /\ (\A x \in Es(c) : x \in Es(h) => Node(h, x) = Node(c, x))
  BY <1>0, <1>1, <1>2, SameNode
<1>5. QED BY <1>3, <1>4

(* The elements that go are leaves; what they leave of g is as it was, but *)
(* for their fathers.                                                      *)
LEMMA GraftFathers ==
  ASSUME NEW g, NEW c, NEW h, NEW S, Graft(g, c, h, S), NEW x \in Es(c)
  PROVE  \/ /\ \E y \in S : g.element[y].father = x
            /\ ~isLeaf(g, x) /\ isLeaf(c, x) /\ c.element[x].markState = "DO_NOTHING"
         \/ /\ \A y \in S : g.element[y].father # x
            /\ isLeaf(c, x) <=> isLeaf(g, x)
            /\ c.element[x].markState = g.element[x].markState
<1>1. CASE \E y \in S : g.element[y].father = x
  <2>1. isLeaf(c, x) /\ c.element[x].markState = "DO_NOTHING"
    BY <1>1 DEF Graft, Cut
  <2>2. PICK y \in S : g.element[y].father = x
    BY <1>1
  <2>3. y \in Es(g) /\ level(y) # 0 /\ WF(g)
    BY DEF Graft, Coarse
  <2>4. ~isLeaf(g, x)
    BY <2>2, <2>3, FatherOf
  <2>5. QED BY <1>1, <2>1, <2>4
<1>2. CASE \A y \in S : g.element[y].father # x
  BY <1>2 DEF Graft, Cut, isLeaf
<1>3. QED BY <1>1, <1>2

(* Where a leaf of h comes from: it was one, or its sons have gone, or its *)
(* father has been refined.                                                *)
LEMMA GraftLeaf ==
  ASSUME NEW g, NEW c, NEW h, NEW S, Graft(g, c, h, S), NEW x \in Leafs(h),
         NEW L, L = Nodes(g), NEW M, M = NodeMarks(g), NEW y, y = Node(h, x)
  PROVE  \/ /\ y \in L /\ y \notin Vanishing(L, M) /\ y \notin Splitting(L, M)
            /\ h.element[x].markState = M[y]
         \/ /\ y \notin L /\ h.element[x].markState = "DO_NOTHING"
            /\ \/ \E z \in Vanishing(L, M) : y = Trunk(z)
               \/ \E z \in Splitting(L, M) : y \in Twigs(z)
<1>0. /\ WF(g) /\ Twofold(g) /\ WF(c) /\ Twofold(c) /\ WF(h) /\ Twofold(h)
      /\ Cut(g, c, S) /\ Sprouts(c, h) /\ (\A z : z \in S <=> z \in Es(g) /\ Coarse(g, z))
      /\ \A z \in Es(c) : c.element[z].markState = "REFINE" => ~isLeaf(h, z)
  BY DEF Graft
<1>1. x \in Es(h) /\ isLeaf(h, x)
  BY DEF Leafs
<1>2. /\ \A e \in Leafs(g) : e \in Es(g) /\ isLeaf(g, e) /\ Node(g, e) \in L /\ M[Node(g, e)] = g.element[e].markState
      /\ \A e \in Es(g) : isLeaf(g, e) => e \in Leafs(g)
      /\ \A e, f \in Es(g) : Node(g, e) = Node(g, f) => e = f
      /\ \A z \in L : \E e \in Leafs(g) : z = Node(g, e)
  BY <1>0, LeafNode, NodeFacts DEF Leafs, Nodes
<1>3. /\ \A z \in Es(g) : Coarse(g, z) => z \in Leafs(g)
      /\ \A z \in Leafs(g) : Node(g, z) \in Vanishing(L, M) <=> Coarse(g, z)
      /\ \A z \in Leafs(g) : Node(g, z) \in Splitting(L, M) <=> g.element[z].markState = "REFINE"
  BY <1>0, VanishingIs
<1>4. CASE x \in Es(c)
  <2>1. x \in Es(g) /\ y = Node(g, x)
    BY <1>4, GraftNodes
  <2>2. isLeaf(c, x) /\ c.element[x].markState # "REFINE" /\ h.element[x].markState = c.element[x].markState
    BY <1>0, <1>1, <1>4 DEF Sprouts
  <2>3. CASE \E z \in S : g.element[z].father = x
    <3>1. ~isLeaf(g, x) /\ c.element[x].markState = "DO_NOTHING"
      BY <1>4, <2>3, GraftFathers
    <3>2. y \notin L
      BY <1>2, <2>1, <3>1
    <3>3. PICK z \in S : g.element[z].father = x
      BY <2>3
    <3>4. z \in Es(g) /\ Coarse(g, z) /\ level(z) # 0
      BY <1>0 DEF Coarse
    <3>5. Node(g, z) \in Vanishing(L, M)
      BY <1>3, <3>4
    <3>6. Trunk(Node(g, z)) = Node(g, x)
      BY <1>0, <3>3, <3>4, NodeFather
    <3>7. QED BY <2>1, <2>2, <3>1, <3>2, <3>5, <3>6
  <2>4. CASE \A z \in S : g.element[z].father # x
    <3>1. isLeaf(g, x) /\ c.element[x].markState = g.element[x].markState
      BY <1>4, <2>2, <2>4, GraftFathers
    <3>2. x \in Leafs(g) /\ x \notin S
      BY <1>0, <1>2, <1>4, <2>1, <3>1 DEF Cut
    <3>3. y \in L /\ M[y] = g.element[x].markState
      BY <1>2, <2>1, <3>2
    <3>4. y \notin Vanishing(L, M) /\ y \notin Splitting(L, M)
      BY <1>0, <1>3, <2>1, <2>2, <3>1, <3>2
    <3>5. QED BY <2>2, <3>1, <3>3, <3>4
  <2>5. QED BY <2>3, <2>4
<1>5. CASE x \notin Es(c)
  <2>1. h.element[x].markState = "DO_NOTHING"
    BY <1>0, <1>1, <1>5 DEF Sprouts
  <2>2. PICK l, r : Brothers(h, l, r, level(x)) /\ x \in {l, r} /\ l \notin Es(c) /\ r \notin Es(c)
    BY <1>0, <1>1, <1>5 DEF Sprouts
  <2>3. PICK F \in Es(h) : /\ h.element[l].father = F /\ h.element[r].father = F
                           /\ h.element[F].sons[1] = l /\ h.element[F].sons[2] = r
    BY <2>2 DEF Brothers
  <2>4. l \in Es(h) /\ l # null
    BY <1>0, <2>2, Parts, Basics DEF Brothers
  <2>5. ~isLeaf(h, F)
    BY <1>0, <2>3, <2>4, TwoSonsOrNone DEF leafOrNot
  <2>6. F \in Es(c)
    BY <1>0, <2>5 DEF Sprouts
  <2>7. isLeaf(c, F)
    <3> SUFFICES ASSUME ~isLeaf(c, F) PROVE FALSE
      OBVIOUS
    <3>1. c.element[F].sons[1] = l
      BY <1>0, <2>3, <2>6 DEF Sprouts
    <3>2. c.element[F].sons[1] \in Es(c)
      BY <1>0, <2>6, Parts DEF SonsOf
    <3>3. QED BY <2>2, <3>1, <3>2
  <2>8. c.element[F].markState = "REFINE"
    BY <1>0, <2>5, <2>6, <2>7 DEF Sprouts
  <2>9. isLeaf(g, F) /\ g.element[F].markState = "REFINE"
    <3>1. c.element[F].markState # "DO_NOTHING"
      BY <2>8
    <3>2. QED BY <2>6, <2>7, <2>8, <3>1, GraftFathers
  <2>10. F \in Es(g) /\ Node(h, F) = Node(g, F)
    BY <2>6, GraftNodes
  <2>11. Node(g, F) \in Splitting(L, M)
    BY <1>2, <1>3, <2>9, <2>10
  <2>12. /\ Twigs(Node(h, F)) = {Node(h, l), Node(h, r)} /\ level(l) = level(F) + 1 /\ level(r) = level(F) + 1
         /\ level(F) \in Nat /\ Trunk(Node(h, l)) = Node(h, F) /\ Trunk(Node(h, r)) = Node(h, F)
    BY <1>0, <2>3, <2>5, NodeFamily
  <2>13. y \in Twigs(Node(g, F)) /\ Trunk(y) = Node(g, F) /\ level(x) # 0
    BY <2>2, <2>10, <2>12
  <2>14. y \notin L
    <3> SUFFICES ASSUME y \in L PROVE FALSE
      OBVIOUS
    <3>1. PICK e \in Leafs(g) : y = Node(g, e)
      BY <1>2
    <3>2. PICK i \in Nat, j \in Nat : Node(g, e) = <<level(e), i>> /\ Node(h, x) = <<level(x), j>>
      BY <1>0, <1>1, <1>2, NodeFacts
    <3>3. level(e) = level(x)
      <4>1. \A a, b, d, f : <<a, b>> = <<d, f>> => a = d
        OBVIOUS
      <4>2. <<level(e), i>> = <<level(x), j>>
        BY <3>1, <3>2
      <4>3. QED BY ONLY <4>1, <4>2
    <3>4. e \in Es(g) /\ level(e) # 0
      BY <1>2, <2>13, <3>3
    <3>5. PICK G \in Es(g) : ~isLeaf(g, G) /\ Trunk(Node(g, e)) = Node(g, G)
      BY <1>0, <3>4, NodeFather
    <3>6. G = F
      BY <1>2, <2>10, <2>13, <3>1, <3>5
    <3>7. QED BY <2>9, <3>5, <3>6
  <2>15. QED BY <2>1, <2>11, <2>13, <2>14
<1>6. QED BY <1>4, <1>5

(* What the tree says is a leaf afterwards is one of h. *)
LEMMA GraftReaches ==
  ASSUME NEW g, NEW c, NEW h, NEW S, Graft(g, c, h, S),
         NEW L, L = Nodes(g), NEW M, M = NodeMarks(g), NEW K, K = Nodes(h)
  PROVE  /\ \A y \in L : y \notin Vanishing(L, M) /\ y \notin Splitting(L, M) => y \in K
         /\ \A y \in Vanishing(L, M) : Trunk(y) \in K
         /\ \A y \in Splitting(L, M) : \A z \in Twigs(y) : z \in K
<1>0. /\ WF(g) /\ Twofold(g) /\ WF(c) /\ Twofold(c) /\ WF(h) /\ Twofold(h)
      /\ Cut(g, c, S) /\ Sprouts(c, h) /\ (\A z : z \in S <=> z \in Es(g) /\ Coarse(g, z))
      /\ \A z \in Es(c) : c.element[z].markState = "REFINE" => ~isLeaf(h, z)
  BY DEF Graft
<1>1. /\ \A e \in Leafs(g) : e \in Es(g) /\ isLeaf(g, e)
      /\ \A z \in L : \E e \in Leafs(g) : z = Node(g, e)
      /\ \A e \in Es(h) : isLeaf(h, e) => Node(h, e) \in K
  BY DEF Leafs, Nodes
<1>2. /\ \A z \in Es(g) : Coarse(g, z) => z \in Leafs(g)
      /\ \A z \in Leafs(g) : Node(g, z) \in Vanishing(L, M) <=> Coarse(g, z)
      /\ \A z \in Leafs(g) : Node(g, z) \in Splitting(L, M) <=> g.element[z].markState = "REFINE"
      /\ Vanishing(L, M) \subseteq L /\ Splitting(L, M) \subseteq L
  BY <1>0, VanishingIs DEF Vanishing, Splitting
<1>3. \A x \in Es(c) : x \in Es(g) /\ x \in Es(h) /\ Node(h, x) = Node(g, x)
  BY GraftNodes
<1>4. \A x \in Es(g) : x \notin S => x \in Es(c)
  BY <1>0 DEF Cut
<1>5. \A x \in Leafs(g) : x \notin S => isLeaf(c, x) /\ c.element[x].markState = g.element[x].markState
  <2> SUFFICES ASSUME NEW x \in Leafs(g), x \notin S PROVE isLeaf(c, x) /\ c.element[x].markState = g.element[x].markState
    OBVIOUS
  <2>1. x \in Es(c) /\ isLeaf(g, x)
    BY <1>1, <1>4
  <2>2. QED BY <2>1, GraftFathers
<1>6. ASSUME NEW y \in L, y \notin Vanishing(L, M), y \notin Splitting(L, M) PROVE y \in K
  <2>1. PICK x \in Leafs(g) : y = Node(g, x)
    BY <1>1
  <2>2. x \notin S /\ g.element[x].markState # "REFINE"
    BY <1>0, <1>2, <1>6, <2>1
  <2>3. x \in Es(c) /\ isLeaf(c, x) /\ c.element[x].markState # "REFINE"
    BY <1>1, <1>4, <1>5, <2>2
  <2>4. isLeaf(h, x)
    BY <1>0, <2>3 DEF Sprouts
  <2>5. QED BY <1>1, <1>3, <2>1, <2>3, <2>4
<1>7. ASSUME NEW y \in Vanishing(L, M) PROVE Trunk(y) \in K
  <2>1. PICK x \in Leafs(g) : y = Node(g, x)
    BY <1>1, <1>2
  <2>2. x \in S /\ x \in Es(g) /\ level(x) # 0
    BY <1>0, <1>1, <1>2, <2>1 DEF Coarse
  <2>3. PICK F \in Es(g) : F = g.element[x].father /\ ~isLeaf(g, F) /\ Trunk(Node(g, x)) = Node(g, F)
    BY <1>0, <2>2, NodeFather
  <2>4. F \notin S
    BY <1>0, <1>1, <1>2, <2>3
  <2>5. F \in Es(c)
    BY <1>4, <2>4
  <2>6. isLeaf(c, F) /\ c.element[F].markState = "DO_NOTHING"
    BY <1>0, <2>2, <2>3, <2>5 DEF Cut
  <2>7. isLeaf(h, F)
    BY <1>0, <2>5, <2>6 DEF Sprouts
  <2>8. QED BY <1>1, <1>3, <2>1, <2>3, <2>5, <2>7
<1>8. ASSUME NEW y \in Splitting(L, M), NEW z \in Twigs(y) PROVE z \in K
  <2>1. PICK F \in Leafs(g) : y = Node(g, F)
    BY <1>1, <1>2
  <2>2. g.element[F].markState = "REFINE" /\ F \in Es(g)
    BY <1>1, <1>2, <2>1
  <2>3. F \notin S
    <3> SUFFICES ASSUME Coarse(g, F) PROVE FALSE
      BY <1>0
    <3>1. level(F) # 0
      BY DEF Coarse
    <3>2. PICK l, r \in Es(g) : F \in {l, r} /\ l = g.element[g.element[F].father].sons[1] /\ r = g.element[g.element[F].father].sons[2]
      BY <1>0, <2>2, <3>1, NodeFather
    <3>3. g.element[F].markState = "COARSEN"
      BY <3>2 DEF Coarse, removable
    <3>4. QED BY <2>2, <3>3
  <2>4. F \in Es(c) /\ isLeaf(c, F) /\ c.element[F].markState = "REFINE"
    BY <1>4, <1>5, <2>2, <2>3
  <2>5. F \in Es(h) /\ ~isLeaf(h, F) /\ Node(h, F) = y
    BY <1>0, <1>3, <2>1, <2>4
  <2>6. PICK l, r : l = h.element[F].sons[1] /\ r = h.element[F].sons[2]
    OBVIOUS
  <2>7. /\ l \in Es(h) /\ r \in Es(h) /\ h.element[l].father = F /\ h.element[r].father = F
        /\ Twigs(y) = {Node(h, l), Node(h, r)} /\ level(l) = level(F) + 1 /\ level(r) = level(F) + 1 /\ level(F) \in Nat
    BY <1>0, <2>5, <2>6, NodeFamily
  <2>8. ASSUME NEW s \in {l, r} PROVE isLeaf(h, s)
    <3>1. s \in Es(h) /\ h.element[s].father = F /\ level(s) # 0
      BY <2>7
    <3>2. CASE s \notin Es(c)
      BY <1>0, <3>1, <3>2 DEF Sprouts
    <3>3. CASE s \in Es(c)
      <4>1. c.element[s].father = F
        BY <1>0, <3>1, <3>3 DEF Sprouts
      <4>2. ~isLeaf(c, F)
        BY <1>0, <3>1, <3>3, <4>1, FatherOf
      <4>3. QED BY <2>4, <4>2
    <3>4. QED BY <3>2, <3>3
  <2>9. QED BY <1>1, <2>7, <2>8
<1>9. QED BY <1>6, <1>7, <1>8

(* Adapt of the tree, from the leaves L with marks M to the leaves K with  *)
(* marks N.                                                                *)
AdaptedTree(L, M, K, N) ==
  /\ K = (L \ (Vanishing(L, M) \cup Splitting(L, M)))
           \cup {Trunk(x) : x \in Vanishing(L, M)} \cup UNION {Twigs(x) : x \in Splitting(L, M)}
  /\ N = [x \in K |-> IF x \in L THEN M[x] ELSE "DO_NOTHING"]

(* Coarsening and refining are adapt() of the tree. *)
LEMMA GraftTree ==
  ASSUME NEW g, NEW c, NEW h, NEW S, Graft(g, c, h, S)
  PROVE  AdaptedTree(Nodes(g), NodeMarks(g), Nodes(h), NodeMarks(h))
<1>0. PICK L, M, K, N : L = Nodes(g) /\ M = NodeMarks(g) /\ K = Nodes(h) /\ N = NodeMarks(h)
  OBVIOUS
<1>1. WF(h) /\ Twofold(h)
  BY DEF Graft
<1>2. \A y \in K : \E x \in Leafs(h) : y = Node(h, x)
  BY <1>0 DEF Nodes
<1>3. \A x \in Leafs(h) : N[Node(h, x)] = h.element[x].markState
  BY <1>0, <1>1, LeafNode
<1>4. ASSUME NEW y \in K
      PROVE  /\ \/ y \in L /\ y \notin Vanishing(L, M) /\ y \notin Splitting(L, M)
                \/ \E z \in Vanishing(L, M) : y = Trunk(z)
                \/ \E z \in Splitting(L, M) : y \in Twigs(z)
             /\ N[y] = IF y \in L THEN M[y] ELSE "DO_NOTHING"
  <2>1. PICK x \in Leafs(h) : y = Node(h, x)
    BY <1>2
  <2>2. \/ /\ y \in L /\ y \notin Vanishing(L, M) /\ y \notin Splitting(L, M)
           /\ h.element[x].markState = M[y]
        \/ /\ y \notin L /\ h.element[x].markState = "DO_NOTHING"
           /\ \/ \E z \in Vanishing(L, M) : y = Trunk(z)
              \/ \E z \in Splitting(L, M) : y \in Twigs(z)
    BY <1>0, <2>1, GraftLeaf
  <2>3. N[y] = h.element[x].markState
    BY <1>3, <2>1
  <2>4. QED BY <2>2, <2>3
<1>5. /\ \A y \in L : y \notin Vanishing(L, M) /\ y \notin Splitting(L, M) => y \in K
      /\ \A y \in Vanishing(L, M) : Trunk(y) \in K
      /\ \A y \in Splitting(L, M) : \A z \in Twigs(y) : z \in K
  BY <1>0, GraftReaches
<1>6. PICK V, P : V = Vanishing(L, M) /\ P = Splitting(L, M)
  OBVIOUS
<1>7. \A y : y \in K <=> \/ y \in L /\ y \notin V /\ y \notin P
                         \/ \E z \in V : y = Trunk(z)
                         \/ \E z \in P : y \in Twigs(z)
  BY <1>4, <1>5, <1>6
<1>8. K = (L \ (V \cup P)) \cup {Trunk(x) : x \in V} \cup UNION {Twigs(x) : x \in P}
  <2>1. \A y : y \in (L \ (V \cup P)) \cup {Trunk(x) : x \in V} \cup UNION {Twigs(x) : x \in P}
                 <=> \/ y \in L /\ y \notin V /\ y \notin P
                     \/ \E z \in V : y = Trunk(z)
                     \/ \E z \in P : y \in Twigs(z)
    OBVIOUS
  <2>2. QED BY <1>7, <2>1
<1>9. N = [x \in K |-> IF x \in L THEN M[x] ELSE "DO_NOTHING"]
  <2>1. N = [x \in K |-> h.element[CHOOSE e \in Leafs(h) : Node(h, e) = x].markState]
    BY <1>0 DEF NodeMarks
  <2>2. \A y \in K : h.element[CHOOSE e \in Leafs(h) : Node(h, e) = y].markState = N[y]
    BY <2>1
  <2>3. N = [x \in K |-> N[x]]
    BY <2>1, <2>2
  <2>4. QED BY <1>4, <2>3
<1>10. QED BY <1>0, <1>6, <1>8, <1>9 DEF AdaptedTree

(* adapt() is that of the tree when nothing is copied. *)
LEMMA AdaptTree ==
  ASSUME NEW g, Safe(g), Twofold(g), NEW h, h = Adapted(g), Twofold(h), h.failed = FALSE
  PROVE  AdaptedTree(Nodes(g), NodeMarks(g), Nodes(h), NodeMarks(h))
<1>0. WF(g)
  BY DEF Safe
<1>1. PICK c : c = Coarsened(g)
  OBVIOUS
<1>2. Whole(c) /\ Almost(c)
  BY <1>1, WholeCoarsens
<1>3. WF(c) /\ Twofold(c) /\ c.failed = FALSE
  BY <1>2 DEF Whole
<1>4. h = Grown(c)
  BY <1>1 DEF Adapted
<1>5. WF(h)
  BY <1>2, <1>3, <1>4, GrownKeeps
<1>6. PICK r : r = RefinedAll(c)
  OBVIOUS
<1>7. h.element = r.element /\ Es(h) = Es(r) /\ Twofold(r)
  BY <1>2, <1>3, <1>4, <1>6, AdaptedUncopied
<1>8. /\ Sprouts(c, r)
      /\ \A x \in Es(c) : c.element[x].markState = "REFINE" => ~isLeaf(r, x)
  BY <1>2, <1>3, <1>6, RefinedAllSprouts
<1>9. (\A x : isLeaf(h, x) <=> isLeaf(r, x)) /\ (\A l, q, i : Brothers(h, l, q, i) <=> Brothers(r, l, q, i))
  BY <1>7 DEF isLeaf, Brothers
<1>10. Sprouts(c, h)
  BY <1>7, <1>8, <1>9 DEF Sprouts
<1>11. \A x \in Es(c) : c.element[x].markState = "REFINE" => ~isLeaf(h, x)
  BY <1>8, <1>9
<1>12. PICK S : Cut(g, c, S) /\ \A x : x \in S <=> x \in Es(g) /\ Coarse(g, x)
  BY <1>1, CoarsenedCut
<1>13. Graft(g, c, h, S)
  BY <1>0, <1>3, <1>5, <1>10, <1>11, <1>12 DEF Graft
<1>14. QED BY <1>13, GraftTree

-----------------------------------------------------------------------------
(* globalRefine() on the tree                                              *)

(* The nodes n levels below x, as in the tree. *)
Below(x, n) == {<<x[1] + n, power2[n] * x[2] + j>> : j \in 0..power2[n]-1}

(* They are those of the tree. *)
LEMMA TreeBelow == \A x, n : Tree!Descendants(x, n) = Below(x, n)
BY DEF Tree!Descendants, Tree!power2, Below, power2

(* A node is alone on its own level. *)
LEMMA BelowNone ==
  ASSUME NEW i \in Nat, NEW k \in Nat, NEW x, x = <<i, k>>
  PROVE  Below(x, 0) = {x}
<1>1. power2[0] = 1
  BY PowerRecursion
<1>2. Below(x, 0) = {<<i + 0, 1 * k + j>> : j \in 0..1-1}
  BY <1>1 DEF Below
<1>3. 0..1-1 = {0}
  OBVIOUS
<1>4. {<<i + 0, 1 * k + j>> : j \in {0}} = {<<i, k>>}
  OBVIOUS
<1>5. QED BY <1>2, <1>3, <1>4

(* The sons of the nodes n levels below x are those n + 1 levels below. *)
LEMMA BelowAgain ==
  ASSUME NEW i \in Nat, NEW k \in Nat, NEW x, x = <<i, k>>, NEW n \in Nat
  PROVE  UNION {Twigs(y) : y \in Below(x, n)} = Below(x, n + 1)
<1>1. PICK p, q : p = power2[n] /\ q = power2[n] * k
  OBVIOUS
<1>2. p \in Nat /\ q \in Nat /\ p >= 1 /\ power2[n+1] = 2 * p
  BY <1>1, PowerRecursion, PowerPositive
<1>3. power2[n+1] * k = 2 * q
  <2>1. \A a \in Nat : (2 * a) * k = 2 * (a * k)
    OBVIOUS
  <2>2. QED BY <1>1, <1>2, <2>1
<1>4. \A y : y \in Below(x, n) <=> \E j \in 0..p-1 : y = <<i + n, q + j>>
  BY <1>1 DEF Below
<1>5. \A z : z \in Below(x, n + 1) <=> \E j \in 0..2*p-1 : z = <<i + (n + 1), 2 * q + j>>
  BY <1>2, <1>3 DEF Below
<1>6. ASSUME NEW y \in Below(x, n), NEW z \in Twigs(y) PROVE z \in Below(x, n + 1)
  <2>1. PICK j \in 0..p-1 : y = <<i + n, q + j>>
    BY <1>4
  <2>2. z = <<(i + n) + 1, 2 * (q + j)>> \/ z = <<(i + n) + 1, 2 * (q + j) + 1>>
    BY <2>1 DEF Twigs
  <2>3. /\ (i + n) + 1 = i + (n + 1) /\ 2 * (q + j) = 2 * q + 2 * j /\ 2 * (q + j) + 1 = 2 * q + (2 * j + 1)
        /\ 2 * j \in 0..2*p-1 /\ 2 * j + 1 \in 0..2*p-1
    BY <1>2
  <2>4. QED BY <1>5, <2>2, <2>3
<1>7. ASSUME NEW z \in Below(x, n + 1) PROVE \E y \in Below(x, n) : z \in Twigs(y)
  <2>1. PICK j \in 0..2*p-1 : z = <<i + (n + 1), 2 * q + j>>
    BY <1>5
  <2>2. PICK d : d = j \div 2
    OBVIOUS
  <2>3. d \in 0..p-1 /\ (j = 2 * d \/ j = 2 * d + 1)
    BY <1>2, <2>2
  <2>4. PICK y : y = <<i + n, q + d>>
    OBVIOUS
  <2>5. y \in Below(x, n)
    BY <1>4, <2>3, <2>4
  <2>6. (i + n) + 1 = i + (n + 1) /\ (2 * q + j = 2 * (q + d) \/ 2 * q + j = 2 * (q + d) + 1)
    BY <1>2, <2>3
  <2>7. z = <<(i + n) + 1, 2 * (q + d)>> \/ z = <<(i + n) + 1, 2 * (q + d) + 1>>
    BY <2>1, <2>6
  <2>8. z \in Twigs(y)
    BY <2>4, <2>7 DEF Twigs
  <2>9. QED BY <2>5, <2>8
<1>8. QED BY <1>6, <1>7

(* Marks do not move the leaves. *)
LEMMA RemarkedNodes ==
  ASSUME NEW g, WF(g), NEW h, Remarked(g, h)
  PROVE  /\ Leafs(h) = Leafs(g) /\ Nodes(h) = Nodes(g) /\ (Twofold(h) <=> Twofold(g))
         /\ \A e \in Es(g) : Node(h, e) = Node(g, e)
<1>1. Es(h) = Es(g) /\ \A e \in Es(g) : (isLeaf(h, e) <=> isLeaf(g, e)) /\ h.element[e].sons = g.element[e].sons
  BY RemarkedKeeps DEF Remarked
<1>2. Leafs(h) = Leafs(g) /\ (Twofold(h) <=> Twofold(g))
  BY <1>1 DEF Leafs, Twofold
<1>3. \A e \in Es(g) : Node(h, e) = Node(g, e)
  BY DEF Node, Lo, V0, Pos, Remarked
<1>4. \A e \in Leafs(g) : e \in Es(g)
  BY DEF Leafs
<1>5. \A y : y \in Nodes(h) <=> y \in Nodes(g)
  BY <1>2, <1>3, <1>4 DEF Nodes
<1>6. QED BY <1>2, <1>3, <1>5

(* A step of globalRefine() replaces every leaf by its sons. *)
LEMMA RefinedOnceTree ==
  ASSUME NEW g, Safe(g), maxLevel(g) < LevelLimit, Even(g), NEW h, h = RefinedOnce(g), Twofold(h)
  PROVE  /\ Twofold(g) /\ Nodes(h) = UNION {Twigs(x) : x \in Nodes(g)}
         /\ \A e \in Es(h) : h.element[e].markState = "DO_NOTHING"
<1>1. PICK m, a : m = MarkedAll(g) /\ a = Adapted(m)
  OBVIOUS
<1>2. h = Cleared(a)
  BY <1>1 DEF RefinedOnce, Safe
<1>3. PICK t : Twins(g, t)
  BY DEF Even
<1>4. Safe(m) /\ Es(m) = Es(g) /\ Unannounced(m) /\ Remarked(g, m) /\ WF(g)
  <2>1. Remarked(g, m) /\ Unannounced(m) /\ WF(g)
    BY <1>1, MarkedAllKeeps DEF Safe
  <2>2. QED BY <2>1, RemarkedSafe
<1>5. Twins(m, t) /\ Marched(m)
  BY <1>1, <1>3, <1>4, SameTwins, MarkedAllMarches DEF Safe
<1>6. WF(m) /\ Full(m) /\ m.failed = FALSE
  BY <1>4 DEF Safe
<1>7. Coarsened(m) = m
  BY <1>4, <1>5, <1>6, CoarsenedStays
<1>8. a = Grown(m)
  BY <1>1, <1>7 DEF Adapted
<1>9. Almost(m)
  BY <1>6 DEF Full, Almost
<1>10. WF(a) /\ a.failed = FALSE
  BY <1>6, <1>8, <1>9, GrownKeeps
<1>11. Remarked(a, h) /\ \A e \in Es(a) : h.element[e].markState = "DO_NOTHING"
  BY <1>2, <1>10, ClearedKeeps
<1>12. Twofold(a) /\ Nodes(h) = Nodes(a) /\ Es(h) = Es(a)
  BY <1>10, <1>11, RemarkedNodes, RemarkedKeeps
<1>13. PICK r : r = RefinedAll(m)
  OBVIOUS
<1>14. Twofold(r)
  BY <1>6, <1>8, <1>9, <1>12, <1>13, AdaptedUncopied
<1>15. Sprouts(m, r)
  BY <1>6, <1>9, <1>13, RefinedAllSprouts
<1>16. Twofold(m)
  BY <1>14, <1>15 DEF Twofold, Sprouts
<1>17. Twofold(g) /\ Nodes(m) = Nodes(g)
  BY <1>4, <1>16, RemarkedNodes
<1>18. PICK L, M, K, N : L = Nodes(m) /\ M = NodeMarks(m) /\ K = Nodes(a) /\ N = NodeMarks(a)
  OBVIOUS
<1>19. AdaptedTree(L, M, K, N)
  BY <1>1, <1>4, <1>10, <1>12, <1>16, <1>18, AdaptTree
<1>20. \A y \in L : M[y] = "REFINE"
  <2>1. \A y \in L : \E e \in Leafs(m) : y = Node(m, e)
    BY <1>18 DEF Nodes
  <2>2. \A e \in Leafs(m) : M[Node(m, e)] = m.element[e].markState /\ m.element[e].markState = "REFINE"
    BY <1>5, <1>6, <1>16, <1>18, LeafNode DEF Marched, Leafs
  <2>3. QED BY <2>1, <2>2
<1>21. Splitting(L, M) = L /\ Vanishing(L, M) = {}
  BY <1>20 DEF Splitting, Vanishing
<1>22. K = (L \ ({} \cup L)) \cup {Trunk(x) : x \in {}} \cup UNION {Twigs(x) : x \in L}
  BY <1>19, <1>21 DEF AdaptedTree
<1>23. K = UNION {Twigs(x) : x \in L}
  BY <1>22
<1>24. QED BY <1>11, <1>12, <1>17, <1>18, <1>23

(* A node is a level and a number. *)
LEMMA NodeNumbers ==
  ASSUME NEW g, WF(g), Twofold(g)
  PROVE  \A x \in Nodes(g) : \E i, k \in Nat : x = <<i, k>>
<1> SUFFICES ASSUME NEW x \in Nodes(g) PROVE \E i, k \in Nat : x = <<i, k>>
  OBVIOUS
<1>1. PICK e \in Leafs(g) : x = Node(g, e)
  BY DEF Nodes
<1>2. e \in Es(g) /\ level(e) \in Nat
  BY Parts, Basics DEF Leafs
<1>3. PICK k \in Nat : x = <<level(e), k>>
  BY <1>1, <1>2, NodeFacts
<1>4. QED BY <1>2, <1>3

(* One level more below many nodes. *)
LEMMA AllBelowAgain ==
  ASSUME NEW L, \A x \in L : \E i, k \in Nat : x = <<i, k>>, NEW n \in Nat,
         NEW K, \A y : y \in K <=> \E x \in L : y \in Below(x, n)
  PROVE  \A z : (\E y \in K : z \in Twigs(y)) <=> \E x \in L : z \in Below(x, n + 1)
<1>1. \A x \in L : UNION {Twigs(y) : y \in Below(x, n)} = Below(x, n + 1)
  BY BelowAgain
<1>2. \A x \in L : \A z : z \in Below(x, n + 1) <=> \E y \in Below(x, n) : z \in Twigs(y)
  BY <1>1
<1>3. QED BY <1>2

(* globalRefine() is that of the tree when nothing is copied. *)
LEMMA RefinedTimesTree ==
  ASSUME NEW g, Safe(g), Twofold(g), NEW n \in Nat, n > 0, maxLevel(g) + n <= LevelLimit,
         NEW h, h = RefinedTimes(g, n), Twofold(h)
  PROVE  /\ Nodes(h) = UNION {Below(x, n) : x \in Nodes(g)}
         /\ \A e \in Es(h) : h.element[e].markState = "DO_NOTHING"
<1>0. maxLevel(g) \in Nat /\ LevelLimit \in Nat /\ WF(g) /\ Even(g)
  BY Basics, TwofoldTwins DEF Safe, WF, Forest, Even
<1>1. PICK f : h = f[n] /\ f[0] = g /\ \A k \in 1..n : f[k] = RefinedOnce(f[k-1])
  BY RefinedTimesIs
<1>a. PICK L : L = Nodes(g)
  OBVIOUS
<1>b. \A x \in L : \E i, k \in Nat : x = <<i, k>>
  BY <1>0, <1>a, NodeNumbers
<1> DEFINE D(k) == Twofold(f[k]) =>
                     /\ Nodes(f[k]) = UNION {Below(x, k) : x \in L}
                     /\ k > 0 => \A e \in Es(f[k]) : f[k].element[e].markState = "DO_NOTHING"
           T == {k \in Nat : k <= n => Safe(f[k]) /\ Even(f[k]) /\ maxLevel(f[k]) <= maxLevel(g) + k /\ D(k)}
<1>2. 0 \in T
  <2>1. \A x \in L : Below(x, 0) = {x}
    BY <1>b, BelowNone
  <2>2. \A y : y \in UNION {Below(x, 0) : x \in L} <=> y \in L
    BY <2>1
  <2>3. UNION {Below(x, 0) : x \in L} = L
    BY <2>2
  <2>4. D(0)
    BY <1>1, <1>a, <2>3
  <2> HIDE DEF D
  <2>5. QED BY <1>0, <1>1, <2>4
<1>3. ASSUME NEW k \in Nat, k \in T PROVE k + 1 \in T
  <2> HIDE DEF D
  <2> SUFFICES ASSUME k + 1 <= n
               PROVE  Safe(f[k+1]) /\ Even(f[k+1]) /\ maxLevel(f[k+1]) <= maxLevel(g) + (k + 1) /\ D(k + 1)
    OBVIOUS
  <2>0. PICK p, q : p = f[k] /\ q = f[k+1]
    OBVIOUS
  <2>1. Safe(p) /\ Even(p) /\ maxLevel(p) <= maxLevel(g) + k /\ D(k)
    BY <1>3, <2>0
  <2>2. q = RefinedOnce(p)
    <3>1. k + 1 \in 1..n /\ (k + 1) - 1 = k
      OBVIOUS
    <3>2. f[k+1] = RefinedOnce(f[(k+1)-1])
      BY <1>1, <3>1
    <3>3. QED BY <2>0, <3>1, <3>2
  <2>3. maxLevel(p) \in Nat /\ maxLevel(p) < LevelLimit
    <3>1. maxLevel(p) \in Nat
      BY <2>1, Basics DEF Safe, WF, Forest
    <3>2. QED BY <3>1, <2>1, <1>0
  <2>4. q.failed = FALSE /\ Even(q)
    BY <2>1, <2>2, <2>3, RefinedOnceEven
  <2>5. Safe(q) /\ maxLevel(q) <= maxLevel(p) + 1
    BY <2>1, <2>2, <2>3, <2>4, RefinedOnceKeeps
  <2>6. maxLevel(q) \in Nat
    BY <2>5, Basics DEF Safe, WF, Forest
  <2>7. maxLevel(q) <= maxLevel(g) + (k + 1)
    BY <1>0, <2>1, <2>3, <2>5, <2>6
  <2>8. ASSUME Twofold(q)
        PROVE  Nodes(q) = UNION {Below(x, k + 1) : x \in L} /\ \A e \in Es(q) : q.element[e].markState = "DO_NOTHING"
    <3>1. Twofold(p) /\ Nodes(q) = UNION {Twigs(x) : x \in Nodes(p)} /\ \A e \in Es(q) : q.element[e].markState = "DO_NOTHING"
      BY <2>1, <2>2, <2>3, <2>8, RefinedOnceTree
    <3>2. Nodes(p) = UNION {Below(x, k) : x \in L}
      BY <2>0, <2>1, <3>1 DEF D
    <3>3. PICK K : K = Nodes(p)
      OBVIOUS
    <3>4. UNION {Twigs(y) : y \in K} = UNION {Below(x, k + 1) : x \in L}
      <4>1. /\ k \in Nat /\ (\A x \in L : \E i, j \in Nat : x = <<i, j>>)
            /\ \A y : y \in K <=> \E x \in L : y \in Below(x, k)
        BY <1>b, <3>2, <3>3
      <4>2. \A z : (\E y \in K : z \in Twigs(y)) <=> \E x \in L : z \in Below(x, k + 1)
        BY ONLY <4>1, AllBelowAgain
      <4>3. \A z : z \in UNION {Twigs(y) : y \in K} <=> z \in UNION {Below(x, k + 1) : x \in L}
        BY <4>2
      <4>4. QED BY <4>3
    <3>5. QED BY <3>1, <3>3, <3>4
  <2>9. D(k + 1)
    BY <2>0, <2>8 DEF D
  <2>10. QED BY <2>0, <2>4, <2>5, <2>7, <2>9
<1> HIDE DEF D
<1> HIDE DEF T
<1>4. n \in T
  BY <1>2, <1>3, InductionOn
<1>5. D(n)
  BY <1>4 DEF T
<1>6. QED BY <1>1, <1>5, <1>a DEF D

(* The marks of a tree with none. *)
LEMMA UnmarkedNodes ==
  ASSUME NEW g, WF(g), Twofold(g), \A e \in Es(g) : g.element[e].markState = "DO_NOTHING"
  PROVE  NodeMarks(g) = [x \in Nodes(g) |-> "DO_NOTHING"]
<1>1. PICK N, L : N = NodeMarks(g) /\ L = Nodes(g)
  OBVIOUS
<1>2. \A y \in L : \E e \in Leafs(g) : y = Node(g, e)
  BY <1>1 DEF Nodes
<1>3. \A e \in Leafs(g) : N[Node(g, e)] = "DO_NOTHING"
  BY <1>1, LeafNode DEF Leafs
<1>4. \A y \in L : N[y] = "DO_NOTHING"
  BY <1>2, <1>3
<1>5. N = [x \in L |-> g.element[CHOOSE e \in Leafs(g) : Node(g, e) = x].markState]
  BY <1>1 DEF NodeMarks
<1>6. N = [x \in L |-> N[x]]
  BY <1>5
<1>7. QED BY <1>1, <1>4, <1>6

(* What a mark does to the tree. *)
LEMMA MarkedNode ==
  ASSUME NEW g, WF(g), Twofold(g), NEW h, Remarked(g, h), NEW e \in Leafs(g), NEW m,
         \A x \in Es(g) : h.element[x].markState = IF x = e THEN m ELSE g.element[x].markState
  PROVE  /\ Nodes(h) = Nodes(g) /\ Node(g, e) \in Nodes(g)
         /\ NodeMarks(h) = [NodeMarks(g) EXCEPT ![Node(g, e)] = m]
<1>1. WF(h) /\ Twofold(h) /\ Nodes(h) = Nodes(g) /\ Leafs(h) = Leafs(g) /\ \A x \in Es(g) : Node(h, x) = Node(g, x)
  BY RemarkedKeeps, RemarkedNodes
<1>2. PICK L, M, N, y : L = Nodes(g) /\ M = NodeMarks(g) /\ N = NodeMarks(h) /\ y = Node(g, e)
  OBVIOUS
<1>3. \A z \in L : \E x \in Leafs(g) : z = Node(g, x)
  BY <1>2 DEF Nodes
<1>4. \A x \in Leafs(g) : /\ x \in Es(g) /\ M[Node(g, x)] = g.element[x].markState
                           /\ N[Node(g, x)] = h.element[x].markState
  BY <1>1, <1>2, LeafNode DEF Leafs
<1>5. \A x \in Leafs(g) : Node(g, x) = y <=> x = e
  BY <1>2, NodeFacts DEF Leafs
<1>6. ASSUME NEW z \in L PROVE N[z] = IF z = y THEN m ELSE M[z]
  <2>1. PICK x \in Leafs(g) : z = Node(g, x)
    BY <1>3
  <2>2. QED BY <1>4, <1>5, <2>1
<1>7. y \in L
  BY <1>2 DEF Nodes
<1>8. DOMAIN M = L /\ N = [x \in L |-> N[x]] /\ M = [x \in L |-> M[x]]
  <2>1. M = [x \in L |-> g.element[CHOOSE q \in Leafs(g) : Node(g, q) = x].markState]
    BY <1>2 DEF NodeMarks
  <2>2. N = [x \in L |-> h.element[CHOOSE q \in Leafs(h) : Node(h, q) = x].markState]
    BY <1>1, <1>2 DEF NodeMarks
  <2>3. QED BY <2>1, <2>2
<1>9. [M EXCEPT ![y] = m] = [x \in L |-> IF x = y THEN m ELSE M[x]]
  BY <1>7, <1>8
<1>10. N = [M EXCEPT ![y] = m]
  BY <1>6, <1>8, <1>9
<1>11. QED BY <1>1, <1>2, <1>7, <1>10

-----------------------------------------------------------------------------
(* Every step is one of the tree                                           *)

(* The leaves of the tree and their marks are those of the grid ... *)
LEMMA TreeLeaves == /\ {node(e) : e \in leaves} = Nodes(entities)
                    /\ [x \in {node(e) : e \in leaves} |-> getMark(CHOOSE e \in leaves : node(e) = x)] = NodeMarks(entities)
<1>1. leaves = Leafs(entities)
  BY DEF leaves, Leafs, Es
<1>2. \A e : node(e) = Node(entities, e)
  BY DEF node, Node, left, elem, vert, Lo, Pos, V0
<1>3. {node(e) : e \in leaves} = Nodes(entities)
  BY <1>1, <1>2 DEF Nodes
<1>4. \A x : getMark(CHOOSE e \in leaves : node(e) = x) = entities.element[CHOOSE e \in Leafs(entities) : Node(entities, e) = x].markState
  BY <1>1, <1>2 DEF getMark
<1>5. [x \in {node(e) : e \in leaves} |-> getMark(CHOOSE e \in leaves : node(e) = x)]
       = [x \in Nodes(entities) |-> getMark(CHOOSE e \in leaves : node(e) = x)]
  BY <1>3
<1>6. [x \in Nodes(entities) |-> getMark(CHOOSE e \in leaves : node(e) = x)]
       = [x \in Nodes(entities) |-> entities.element[CHOOSE e \in Leafs(entities) : Node(entities, e) = x].markState]
  BY <1>4
<1>7. QED BY <1>3, <1>5, <1>6 DEF NodeMarks

(* ... and after a step. *)
LEMMA TreeLeaves_ == /\ ({node(e) : e \in leaves})' = Nodes(entities')
                    /\ ([x \in {node(e) : e \in leaves} |-> getMark(CHOOSE e \in leaves : node(e) = x)])' = NodeMarks(entities')
<1>1. leaves' = Leafs(entities')
  BY DEF leaves, Leafs, Es
<1>2. \A e : node(e)' = Node(entities', e)
  BY DEF node, Node, left, elem, vert, Lo, Pos, V0
<1>3. ({node(e) : e \in leaves})' = Nodes(entities')
  BY <1>1, <1>2 DEF Nodes
<1>4. \A x : (getMark(CHOOSE e \in leaves : node(e) = x))' = entities'.element[CHOOSE e \in Leafs(entities') : Node(entities', e) = x].markState
  BY <1>1, <1>2 DEF getMark
<1>5. ([x \in {node(e) : e \in leaves} |-> getMark(CHOOSE e \in leaves : node(e) = x)])'
       = [x \in Nodes(entities') |-> (getMark(CHOOSE e \in leaves : node(e) = x))']
  BY <1>3
<1>6. [x \in Nodes(entities') |-> (getMark(CHOOSE e \in leaves : node(e) = x))']
       = [x \in Nodes(entities') |-> entities'.element[CHOOSE e \in Leafs(entities') : Node(entities', e) = x].markState]
  BY <1>4
<1>7. QED BY <1>3, <1>5, <1>6 DEF NodeMarks

(* Adapting the grid is adapting the tree, ... *)
LEMMA TreeAdapt ==
  ASSUME AdaptedTree(Nodes(entities), NodeMarks(entities), Nodes(entities'), NodeMarks(entities'))
  PROVE Tree!Adapt
<1> DEFINE TL == {node(e) : e \in leaves}
          TM == [x \in {node(e) : e \in leaves} |-> getMark(CHOOSE e \in leaves : node(e) = x)]
<1>1. TL = Nodes(entities) /\ TM = NodeMarks(entities) /\ TL' = Nodes(entities') /\ TM' = NodeMarks(entities')
  BY TreeLeaves, TreeLeaves_
<1>2. Tree!Adapt <=> AdaptedTree(TL, TM, TL', TM')
  <2> QED BY Zenon DEF Tree!Adapt, Tree!coarsened, Tree!refined, AdaptedTree, Vanishing, Splitting, Trunk, Twin, Twigs, Tree!Father, Tree!Brother, Tree!Sons
<1>3. QED BY <1>1, <1>2

(* ... marking is marking, ... *)
LEMMA TreeMark ==
  ASSUME NEW x \in Nodes(entities), NEW m \in MarkStates, m = "COARSEN" => x[1] > 0,
         Nodes(entities') = Nodes(entities), NodeMarks(entities') = [NodeMarks(entities) EXCEPT ![x] = m]
  PROVE Tree!Mark
<1> DEFINE TL == {node(e) : e \in leaves}
          TM == [y \in {node(e) : e \in leaves} |-> getMark(CHOOSE e \in leaves : node(e) = y)]
<1>1. TL = Nodes(entities) /\ TM = NodeMarks(entities) /\ TL' = Nodes(entities') /\ TM' = NodeMarks(entities')
  BY TreeLeaves, TreeLeaves_
<1>2. m \in {"DO_NOTHING", "COARSEN", "REFINE"}
  BY DEF MarkStates
<1>3. x \in TL /\ TL' = TL /\ TM' = [TM EXCEPT ![x] = m]
  BY <1>1
<1>4. Tree!Mark <=> \E y \in TL, s \in {"DO_NOTHING", "COARSEN", "REFINE"} :
                      /\ s = "COARSEN" => y[1] > 0
                      /\ TM' = [TM EXCEPT ![y] = s]
                      /\ TL' = TL
  <2> QED BY Zenon DEF Tree!Mark, Tree!MarkStates
<1> HIDE DEF TL
<1> HIDE DEF TM
<1>5. \E y \in TL, s \in {"DO_NOTHING", "COARSEN", "REFINE"} :
        /\ s = "COARSEN" => y[1] > 0
        /\ TM' = [TM EXCEPT ![y] = s]
        /\ TL' = TL
  BY <1>2, <1>3
<1>6. QED BY <1>4, <1>5

(* ... postAdapt() is postAdapt(), ... *)
LEMMA TreePostAdapt ==
  ASSUME Nodes(entities') = Nodes(entities), NodeMarks(entities') = [x \in Nodes(entities) |-> "DO_NOTHING"]
  PROVE Tree!PostAdapt
<1> DEFINE TL == {node(e) : e \in leaves}
          TM == [y \in {node(e) : e \in leaves} |-> getMark(CHOOSE e \in leaves : node(e) = y)]
<1>1. TL = Nodes(entities) /\ TM = NodeMarks(entities) /\ TL' = Nodes(entities') /\ TM' = NodeMarks(entities')
  BY TreeLeaves, TreeLeaves_
<1>2. Tree!PostAdapt <=> TM' = [x \in TL |-> "DO_NOTHING"] /\ TL' = TL
  <2> QED BY Zenon DEF Tree!PostAdapt
<1>3. QED BY <1>1, <1>2

(* ... globalRefine() is globalRefine(), ... *)
LEMMA TreeGlobalRefine ==
  ASSUME NEW n \in Counts, n > 0,
         \A y : y \in Nodes(entities') <=> \E x \in Nodes(entities) : y \in Below(x, n),
         NodeMarks(entities') = [x \in Nodes(entities') |-> "DO_NOTHING"]
  PROVE Tree!GlobalRefine
<1> DEFINE TL == {node(e) : e \in leaves}
          TM == [y \in {node(e) : e \in leaves} |-> getMark(CHOOSE e \in leaves : node(e) = y)]
<1>1. TL = Nodes(entities) /\ TM = NodeMarks(entities) /\ TL' = Nodes(entities') /\ TM' = NodeMarks(entities')
  BY TreeLeaves, TreeLeaves_
<1>2. Tree!GlobalRefine <=> \E k \in {k \in Counts : k > 0} :
                              /\ TL' = UNION {Tree!Descendants(x, k) : x \in TL}
                              /\ TM' = [x \in TL' |-> "DO_NOTHING"]
  <2> QED BY Zenon DEF Tree!GlobalRefine
<1> HIDE DEF TL
<1> HIDE DEF TM
<1>3. \A x : Tree!Descendants(x, n) = Below(x, n)
  BY TreeBelow
<1>4. \A y : y \in TL' <=> y \in UNION {Tree!Descendants(x, n) : x \in TL}
  BY <1>1, <1>3
<1>5. TL' = UNION {Tree!Descendants(x, n) : x \in TL}
  BY <1>4
<1>6. TM' = [x \in TL' |-> "DO_NOTHING"]
  BY <1>1
<1>7. QED BY <1>2, <1>5, <1>6

(* ... and the tree stays when the grid stays. *)
LEMMA TreeUnchanged ==
  ASSUME Nodes(entities') = Nodes(entities), NodeMarks(entities') = NodeMarks(entities)
  PROVE UNCHANGED Tree!vars
<1> DEFINE TL == {node(e) : e \in leaves}
          TM == [y \in {node(e) : e \in leaves} |-> getMark(CHOOSE e \in leaves : node(e) = y)]
<1>1. TL = Nodes(entities) /\ TM = NodeMarks(entities) /\ TL' = Nodes(entities') /\ TM' = NodeMarks(entities')
  BY TreeLeaves, TreeLeaves_
<1>2. Tree!vars = <<TL, TM>> /\ (Tree!vars)' = <<TL', TM'>>
  <2> QED BY Zenon DEF Tree!vars
<1> HIDE DEF TL
<1> HIDE DEF TM
<1>3. QED BY <1>1, <1>2

(* The macro grid is the roots. *)
LEMMA TreeInit == Init => Tree!Init
<1> SUFFICES ASSUME Init PROVE Tree!Init
  OBVIOUS
<1> DEFINE TL == {node(e) : e \in leaves}
          TM == [y \in {node(e) : e \in leaves} |-> getMark(CHOOSE e \in leaves : node(e) = y)]
<1>1. PICK vp, segments : DOMAIN vp = Positions /\ entities = createGrid(vp, segments)
  <2>1. PICK positions, segments : positions \in SetToSeqs(Positions) /\
          entities = createGrid(vertexPositions(positions), segments)
    BY DEF Init
  <2>2. DOMAIN vertexPositions(positions) = Positions
    BY <2>1, InsertedPositions
  <2>3. QED BY <2>1, <2>2
<1>2. PICK g : g = entities
  OBVIOUS
<1>3. Macro(g)
  BY <1>1, <1>2, CreatedMacro
<1>4. WF(g) /\ Local
  BY <1>2, <1>3, MacroSafe, InitLocal DEF Safe
<1>5. Twofold(g)
  BY <1>2, <1>4 DEF Local
<1>6. \A e \in Es(g) : isLeaf(g, e) /\ g.element[e].markState = "DO_NOTHING"
  BY <1>1, <1>2 DEF createGrid, Es, isLeaf
<1>7. \A e \in Es(g) : Node(g, e) = <<0, id(e)>>
  BY <1>3, <1>4, <1>5, MacroFacts, NodeFacts
<1>8. \A k \in 0..numElements-1 : <<0, k>> \in Es(g) /\ id(<<0, k>>) = k
  BY <1>3 DEF Macro, id
<1>9. \A e \in Es(g) : id(e) \in 0..numElements-1
  BY <1>3, MacroFacts
<1>10. \A y : y \in Nodes(g) <=> y \in {<<0, k>> : k \in 0..numElements-1}
  <2>1. \A y : y \in Nodes(g) <=> \E e \in Es(g) : y = <<0, id(e)>>
    BY <1>6, <1>7 DEF Nodes, Leafs
  <2>2. QED BY <1>8, <1>9, <2>1
<1>11. NodeMarks(g) = [x \in Nodes(g) |-> "DO_NOTHING"]
  BY <1>4, <1>5, <1>6, UnmarkedNodes
<1>12. TL = Nodes(g) /\ TM = NodeMarks(g)
  BY <1>2, TreeLeaves
<1>13. Tree!Init <=> TL = {<<0, k>> : k \in 0..numElements-1} /\ TM = [x \in TL |-> "DO_NOTHING"]
  <2> QED BY Zenon DEF Tree!Init, Tree!Roots
<1> HIDE DEF TL
<1> HIDE DEF TM
<1>14. QED BY <1>10, <1>11, <1>12, <1>13

(* No element is copied, before and after a step. *)
LEMMA UncopiedIs == (Uncopied => Twofold(entities)) /\ (Uncopied' => Twofold(entities'))
BY DEF Uncopied, elem, leaves, Twofold, Es

(* A step that copies nothing, from a grid without copies, is one of the   *)
(* tree or leaves it as it is.                                             *)
LEMMA NextTree ==
  ASSUME Standing, [Next]_vars, Uncopied, Uncopied', ~entities'.failed
  PROVE  Tree!Next \/ UNCHANGED Tree!vars
<1>1. PICK g, h : g = entities /\ h = entities'
  BY Zenon
<1>2. WF(g) /\ Full(g) /\ Shape(g) /\ Twofold(g) /\ Twofold(h) /\ ~h.failed
  BY <1>1, UncopiedIs, WFRecords DEF Standing
<1>3. CASE UNCHANGED entities
  BY <1>3, TreeUnchanged
<1>4. CASE Mark
  <2>1. PICK e \in leaves, m \in MarkStates :
          /\ entities' = [entities EXCEPT !.element[e].markState = m]
          /\ m = "COARSEN" => level(e) > 0
          /\ m = "REFINE" => level(e) < LevelLimit
    BY <1>4 DEF Mark
  <2>2. e \in Leafs(g) /\ e \in Es(g) /\ h = [g EXCEPT !.element[e].markState = m]
    BY <1>1, <2>1 DEF leaves, Leafs, Es
  <2>3. Remarked(g, h)
    BY <1>2, <2>1, <2>2, MarkKeeps
  <2>4. \A x \in Es(g) : h.element[x].markState = IF x = e THEN m ELSE g.element[x].markState
    <3>1. PICK E, q : E = g.element /\ q = g.element[e]
      OBVIOUS
    <3>2. q \in ElementType(Vs(g), Es(g))
      BY <1>2, <2>2, <3>1, ElementParts
    <3>3. [q EXCEPT !.markState = m].markState = m
      BY <3>2 DEF ElementType
    <3>4. h.element = [E EXCEPT ![e] = [q EXCEPT !.markState = m]]
      BY <1>2, <2>2, <3>1 DEF Shape
    <3>5. DOMAIN E = Es(g)
      BY <3>1 DEF Es
    <3>6. QED BY <3>1, <3>3, <3>4, <3>5
  <2>5. PICK x : x = Node(g, e)
    OBVIOUS
  <2>6. /\ Nodes(h) = Nodes(g) /\ x \in Nodes(g)
        /\ NodeMarks(h) = [NodeMarks(g) EXCEPT ![x] = m]
    <3>1. /\ WF(g) /\ Twofold(g) /\ Remarked(g, h) /\ e \in Leafs(g)
          /\ \A y \in Es(g) : h.element[y].markState = IF y = e THEN m ELSE g.element[y].markState
      BY <1>2, <2>2, <2>3, <2>4
    <3>2. /\ Nodes(h) = Nodes(g) /\ Node(g, e) \in Nodes(g)
          /\ NodeMarks(h) = [NodeMarks(g) EXCEPT ![Node(g, e)] = m]
      BY ONLY <3>1, MarkedNode
    <3>3. QED BY <2>5, <3>2
  <2>7. x[1] = level(e)
    BY <1>2, <2>2, <2>5, NodeFacts
  <2>8. Tree!Mark
    BY <1>1, <2>1, <2>6, <2>7, TreeMark
  <2>9. QED BY <2>8 DEF Tree!Next
<1>5. CASE PostAdapt
  <2>1. h = Cleared(g)
    BY <1>1, <1>5 DEF PostAdapt
  <2>2. Remarked(g, h) /\ \A e \in Es(g) : h.element[e].markState = "DO_NOTHING"
    BY <1>2, <2>1, ClearedKeeps
  <2>3. WF(h) /\ Es(h) = Es(g) /\ Nodes(h) = Nodes(g)
    BY <1>2, <2>2, RemarkedKeeps, RemarkedNodes
  <2>4. NodeMarks(h) = [x \in Nodes(h) |-> "DO_NOTHING"]
    BY <1>2, <2>2, <2>3, UnmarkedNodes
  <2>5. Nodes(entities') = Nodes(entities) /\ NodeMarks(entities') = [x \in Nodes(entities) |-> "DO_NOTHING"]
    BY <1>1, <2>3, <2>4
  <2>6. Tree!PostAdapt
    BY <2>5, TreePostAdapt
  <2>7. QED BY <2>6 DEF Tree!Next
<1>6. ASSUME NEW a, Becomes(a), ~entities.failed PROVE h = a /\ a.failed = FALSE /\ Safe(g)
  <2>1. ~a.failed
    <3> SUFFICES ASSUME a.failed PROVE FALSE
      OBVIOUS
    <3>1. h = [g EXCEPT !.failed = TRUE]
      BY <1>1, <1>6 DEF Becomes
    <3>2. QED BY <1>2, <3>1 DEF Shape
  <2>2. QED BY <1>1, <1>2, <1>6, <2>1 DEF Becomes, Standing, Safe
<1>7. CASE Adapt
  <2>1. PICK a : a = Adapted(entities)
    OBVIOUS
  <2>2. Becomes(a) /\ ~entities.failed
    BY <1>7, <2>1 DEF Adapt
  <2>3. Safe(g) /\ h = Adapted(g) /\ h.failed = FALSE
    BY <1>1, <1>6, <2>1, <2>2
  <2>4. AdaptedTree(Nodes(g), NodeMarks(g), Nodes(h), NodeMarks(h))
    BY <1>2, <2>3, AdaptTree
  <2>5. Tree!Adapt
    BY <1>1, <2>4, TreeAdapt
  <2>6. QED BY <2>5 DEF Tree!Next
<1>8. CASE GlobalRefine
  <2>1. PICK refCount \in Counts :
          /\ ~entities.failed /\ maxLevel(entities) + refCount <= LevelLimit
          /\ IF refCount > 0 THEN Becomes(RefinedTimes(entities, refCount)) ELSE UNCHANGED <<entities, leafIndex, inserted>>
    BY <1>8 DEF GlobalRefine
  <2>2. CASE ~(refCount > 0)
    BY <1>3, <2>1, <2>2
  <2>3. CASE refCount > 0
    <3>1. PICK a : a = RefinedTimes(entities, refCount)
      OBVIOUS
    <3>2. Becomes(a) /\ ~entities.failed
      BY <2>1, <2>3, <3>1
    <3>3. Safe(g) /\ h = RefinedTimes(g, refCount) /\ h.failed = FALSE
      BY <1>1, <1>6, <3>1, <3>2
    <3>4. refCount \in Nat /\ maxLevel(g) + refCount <= LevelLimit
      BY <1>1, <2>1, <2>3, CountsAssumption
    <3>5. /\ Nodes(h) = UNION {Below(x, refCount) : x \in Nodes(g)}
          /\ \A e \in Es(h) : h.element[e].markState = "DO_NOTHING"
      BY <1>2, <2>3, <3>3, <3>4, RefinedTimesTree
    <3>6. WF(h)
      BY <3>3, <3>4, RefinedTimesKeeps DEF Safe
    <3>7. NodeMarks(h) = [x \in Nodes(h) |-> "DO_NOTHING"]
      BY <1>2, <3>5, <3>6, UnmarkedNodes
    <3>8. \A y : y \in Nodes(h) <=> \E x \in Nodes(g) : y \in Below(x, refCount)
      BY <3>5
    <3>9. /\ \A y : y \in Nodes(entities') <=> \E x \in Nodes(entities) : y \in Below(x, refCount)
          /\ NodeMarks(entities') = [x \in Nodes(entities') |-> "DO_NOTHING"]
      BY <1>1, <3>7, <3>8
    <3>10. Tree!GlobalRefine
      BY <2>1, <2>3, <3>9, TreeGlobalRefine
    <3>11. QED BY <3>10 DEF Tree!Next
  <2>4. QED BY <2>2, <2>3
<1>9. CASE SetRefinementType \/ Stopped \/ UNCHANGED vars
  BY <1>3, <1>9 DEF SetRefinementType, Stopped, vars
<1>10. QED BY <1>4, <1>5, <1>7, <1>8, <1>9 DEF Next

(* OneDGrid implements BisectionTree as long as no element is copied: from *)
(* the macro grid, mark(), adapt(), postAdapt() and globalRefine() are the *)
(* actions of the tree on the leaves and their marks.                      *)
THEOREM TreeImplemented == Spec => ImplementsTree
<1> DEFINE Step == Uncopied /\ Uncopied' /\ ~entities'.failed => [Tree!Next]_(Tree!vars)
<1>1. Standing /\ [Next]_vars => [Step]_vars
  BY NextTree
<1>2. Spec => []Standing
  BY StandingInvariant
<1>3. Spec => [][Step]_vars
  <2> HIDE DEF Step
  <2>1. QED BY <1>1, <1>2, PTL DEF Spec
<1>4. Spec => Tree!Init
  BY TreeInit, PTL DEF Spec
<1>5. QED BY <1>3, <1>4, PTL DEF ImplementsTree
=============================================================================

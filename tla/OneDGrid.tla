------------------------------ MODULE OneDGrid ------------------------------
(***************************************************************************)
(* OneDGrid (dune/grid/onedgrid): a grid in one dimension, refined element *)
(* by element.  Every level has a list of elements and a list of vertices, *)
(* doubly linked and ordered from left to right; pointers lead from a      *)
(* vertex to its copy on the next level and between father and sons.       *)
(* adapt() keeps all of it consistent by hand.                             *)
(*                                                                         *)
(* An entity is named by its level and its id.  A vertex is at a multiple  *)
(* of the finest mesh size, 1 here, so that halving is exact.              *)
(***************************************************************************)
EXTENDS OneDGridFactory

CONSTANTS
  numElements,  \* elements of the macro grid
  Types,        \* arguments of setRefinementType() to consider
  Counts,       \* arguments of globalRefine() to consider
  LevelLimit,   \* bound: maxLevel()
  MaxAdapts,    \* bound: calls of adapt() and globalRefine()
  MaxMarks      \* bound: leaf elements that are marked at a time

ASSUME numElementsAssumption == numElements \in Nat \ {0}
ASSUME TypesAssumption == Types \subseteq {"LOCAL", "COPY"}
ASSUME CountsAssumption == Counts \subseteq Int
ASSUME LimitsAssumption == LevelLimit \in Nat /\ MaxAdapts \in Nat /\ MaxMarks \in Nat

VARIABLES
  refinementType,
  entities,       \* entityImps_ and the counters of free ids
  leafIndex,      \* leafIndex_ of the leaf elements and of the vertices
  inserted,       \* what the factory was given, in order
  adapts          \* calls of adapt() so far, one per step of globalRefine()

vars == <<refinementType, entities, leafIndex, inserted, adapts>>

power2[n \in Nat] == IF n = 0 THEN 1 ELSE 2 * power2[n-1]

MarkStates == {"DO_NOTHING", "COARSEN", "REFINE"}
-----------------------------------------------------------------------------
(* The lists *)

index(list, x) == IF x \in ToSet(list) THEN CHOOSE k \in DOMAIN list : list[k] = x ELSE 0
at(list, k)    == IF k \in DOMAIN list THEN list[k] ELSE null
first(list)    == at(list, 1)
pred(list, x)  == at(list, index(list, x) - 1)
succ(list, x)  == at(list, index(list, x) + 1)

(* Before the element i, or at the end. *)
insert(list, i, x) == IF i = null THEN Append(list, x) ELSE InsertAt(list, index(list, i), x)

erase(list, x) == RemoveAt(list, index(list, x))

With(f, x, y) == [z \in DOMAIN f \cup {x} |-> IF z = x THEN y ELSE f[z]]
Without(f, S) == [x \in DOMAIN f \ S |-> f[x]]

(* The grid g is a record like the variable entities. *)
maxLevel(g) == Cardinality(DOMAIN g.elements) - 1
level(x)    == x[1]
id(x)       == x[2]

isLeaf(g, e)  == g.element[e].sons = <<null, null>>
leafOrNot(g, e) == \A s \in 1..2 : (g.element[e].sons[s] = null) <=> isLeaf(g, e)

(* A new vertex v, before i in the list of its level. *)
WithVertex(g, v, pos, i) ==
  [g EXCEPT !.vertices[level(v)] = insert(@, i, v),
            !.vertex = With(@, v, [pos |-> pos, son |-> null])]

(* The flag of the grid is not handed on. *)
WithElement_unreversed(g, e, v0, v1, father, i) ==
  [g EXCEPT !.elements[level(e)] = insert(@, i, e),
            !.element = With(@, e, [vertex |-> <<v0, v1>>, father |-> father, sons |-> <<null, null>>,
                                    markState |-> "DO_NOTHING", isNew |-> father # null,
                                    reversed |-> FALSE])]

(* A new element e, before i in the list of its level. *)
WithElement(g, e, v0, v1, father, i) ==
  [g EXCEPT !.elements[level(e)] = insert(@, i, e),
            !.element = With(@, e, [vertex |-> <<v0, v1>>, father |-> father, sons |-> <<null, null>>,
                                    markState |-> "DO_NOTHING", isNew |-> father # null,
                                    reversed |-> g.reversed])]
-----------------------------------------------------------------------------
(* Coarsening.  l and its successor r are taken from the list together;    *)
(* they go when both are leaves marked for coarsening, with the vertices   *)
(* that no other element of the level has.                                 *)

(* Both are marked. *)
removable(g, l, r) ==
  \A x \in {l, r} : g.element[x].markState = "COARSEN" /\ isLeaf(g, x)

leftObsolete(g, l) ==
  LET p == pred(g.elements[level(l)], l)
  IN  p = null \/ g.element[p].vertex[2] # g.element[l].vertex[1]

rightObsolete(g, r) ==
  LET s == succ(g.elements[level(r)], r)
  IN  s = null \/ g.element[s].vertex[1] # g.element[r].vertex[2]

(* The vertices of the fathers whose copies become obsolete. *)
copied_both(g, l, r) ==
  {g.element[g.element[l].father].vertex[1], g.element[g.element[r].father].vertex[2]}

copied(g, l, r) ==
     (IF leftObsolete(g, l) THEN {g.element[g.element[l].father].vertex[1]} ELSE {})
       \cup (IF rightObsolete(g, r) THEN {g.element[g.element[r].father].vertex[2]} ELSE {})

obsolete(g, l, r) ==
     (IF leftObsolete(g, l) THEN {g.element[l].vertex[1]} ELSE {})
       \cup (IF rightObsolete(g, r) THEN {g.element[r].vertex[2]} ELSE {})
       \cup {g.element[l].vertex[2]}

(* The assertions of the source that the pointers agree. *)
pairAsserts(g, l, r) ==
  LET lf == g.element[l].father
      rf == g.element[r].father
  IN  /\ leftObsolete(g, l) => g.vertex[g.element[lf].vertex[1]].son = g.element[l].vertex[1]
      /\ rightObsolete(g, r) => g.vertex[g.element[rf].vertex[2]].son = g.element[r].vertex[2]
      /\ g.element[l].vertex[2] = g.element[r].vertex[1]
      /\ g.element[rf].sons[2] = r

(* The vertices of the level that stay. *)
verticesKept(g, l, r) ==
  LET list == g.vertices[level(l)]
      left_ == IF leftObsolete(g, l) THEN erase(list, g.element[l].vertex[1]) ELSE list
      right_ == IF rightObsolete(g, r) THEN erase(left_, g.element[r].vertex[2]) ELSE left_
  IN  erase(right_, g.element[l].vertex[2])

Unlinked(g, l, r) ==
  LET i  == level(l)
      gone == obsolete(g, l, r)
      was  == copied(g, l, r)
      lf == g.element[l].father
      rf == g.element[r].father
  IN  [g EXCEPT
        !.vertices[i] = verticesKept(g, l, r),
        !.vertex   = [v \in DOMAIN @ \ gone |-> IF v \in was THEN [@[v] EXCEPT !.son = null] ELSE @[v]],
        !.elements[i] = erase(erase(@, l), r),
        !.element  = Without([g.element EXCEPT ![lf].sons[1] = null, ![rf].sons[2] = null], {l, r})]

(* The father keeps its mark. *)
Removed_marked(g, l, r) == Unlinked(g, l, r)

(* "Make sure the father is not marked for refinement": it may be, from an *)
(* adapt() that no postAdapt() followed.                                   *)
Removed(g, l, r) ==
  [Unlinked(g, l, r) EXCEPT !.element[g.element[r].father].markState = "DO_NOTHING"]

CoarsenPair(g, l, r) ==
  IF g.failed THEN g
  ELSE IF r = null THEN [g EXCEPT !.failed = TRUE]
  ELSE IF ~removable(g, l, r) THEN g
  ELSE IF ~pairAsserts(g, l, r) THEN [g EXCEPT !.failed = TRUE]
  ELSE Removed(g, l, r)

(* The first two elements of the list, the next two, and so on. *)
CoarsenLevel(g, i) ==
  LET list == g.elements[i]
      pairs == (Len(list) + 1) \div 2
      h[k \in 0..pairs] ==
        IF k = 0 THEN g ELSE CoarsenPair(h[k-1], list[2 * k - 1], at(list, 2 * k))
  IN  h[pairs]

CoarsenedLevels(g) ==
  LET h[i \in 0..maxLevel(g)] == IF i = 0 THEN g ELSE CoarsenLevel(h[i-1], i)
  IN  h[maxLevel(g)]

(* isLeaf() asserts that there are two sons or none; a son that is left    *)
(* alone is met when the leaves are numbered, or before.                   *)
Checked(g) ==
  IF g.failed \/ (\A e \in DOMAIN g.element : leafOrNot(g, e)) THEN g
  ELSE [g EXCEPT !.failed = TRUE]

Coarsened(g) == Checked(CoarsenedLevels(g))
-----------------------------------------------------------------------------
(* Refinement *)

(* The end of the sons of l, if there are any, above v, the k-th end of l. *)
upperEnd(g, l, k, v) ==
  IF l = null \/ g.element[l].vertex[k] # v \/ isLeaf(g, l)
  THEN null
  ELSE g.element[g.element[l].sons[k]].vertex[k]

(* The vertex that the left (right) neighbour has already made above the   *)
(* left (right) vertex of e.  The neighbour in the list may be farther off.*)
getLeftUpperVertex(g, e) ==
  upperEnd(g, pred(g.elements[level(e)], e), 2, g.element[e].vertex[1])

getRightUpperVertex(g, e) ==
  upperEnd(g, succ(g.elements[level(e)], e), 1, g.element[e].vertex[2])

getLeftNeighborWithSon(g, e) ==
  LET list == g.elements[level(e)]
  IN  at(list, Max({0} \cup {k \in 1..index(list, e)-1 : ~isLeaf(g, list[k])}))

(* The copy has an id of its own. *)
WithUpper_newid(g, v, found, i) ==
  LET copy == <<level(v) + 1, g.freeVertexId>>
      h == IF found = null
           THEN [WithVertex(g, copy, g.vertex[v].pos, i) EXCEPT !.freeVertexId = @ + 1] ELSE g
  IN  [h EXCEPT !.vertex[v].son = IF found = null THEN copy ELSE found]

(* The copy of v on the next level, found or else made before i. *)
WithUpper(g, v, found, i) ==
  LET copy == <<level(v) + 1, id(v)>>
      h == IF found = null THEN WithVertex(g, copy, g.vertex[v].pos, i) ELSE g
  IN  [h EXCEPT !.vertex[v].son = IF found = null THEN copy ELSE found]

behind(list, x) == IF x = null THEN first(list) ELSE succ(list, x)
lastSon(g, l)   == IF l = null THEN null ELSE g.element[l].sons[2]
lastEnd(g, s)   == IF s = null THEN null ELSE g.element[s].vertex[2]

(* The neighbour is the one in the list, with sons or without. *)
LeftPlace_listneighbor(g, e) ==
  behind(g.vertices[level(e) + 1], lastEnd(g, lastSon(g, pred(g.elements[level(e)], e))))

(* Behind everything that belongs to elements further left. *)
LeftPlace(g, e) ==
  behind(g.vertices[level(e) + 1], lastEnd(g, lastSon(g, getLeftNeighborWithSon(g, e))))

SonPlace(g, e) ==
  behind(g.elements[level(e) + 1], lastSon(g, getLeftNeighborWithSon(g, e)))

WithLeft(g, e) ==
  WithUpper(g, g.element[e].vertex[1], getLeftUpperVertex(g, e), LeftPlace(g, e))

WithRight(g, e, v) ==
  WithUpper(g, g.element[e].vertex[2], getRightUpperVertex(g, e), succ(g.vertices[level(v)], v))

son(g, v) == g.vertex[v].son
leftSon(g, e)  == son(g, g.element[e].vertex[1])
rightSon(g, e) == son(g, g.element[e].vertex[2])
middle(g, e) == (g.vertex[g.element[e].vertex[1]].pos + g.vertex[g.element[e].vertex[2]].pos) \div 2

(* What follows the left vertex on the next level: the place for the new   *)
(* vertex, and afterwards the new vertex.                                  *)
centre(g, e) == succ(g.vertices[level(e) + 1], leftSon(g, e))

WithCentre(g, e) ==
  [WithVertex(g, <<level(e) + 1, g.freeVertexId>>, middle(g, e), centre(g, e))
   EXCEPT !.freeVertexId = @ + 1]

WithRightOfCentre(g, e) == WithRight(g, e, centre(g, e))

(* The second son comes behind the first, before what was there. *)
WithSons(g, e) ==
  LET s0 == <<level(e) + 1, g.freeElementId>>
      s1 == <<level(e) + 1, g.freeElementId + 1>>
  IN  [WithElement(WithElement(g, s0, leftSon(g, e), centre(g, e), e, SonPlace(g, e)),
                   s1, centre(g, e), rightSon(g, e), e, SonPlace(g, e))
       EXCEPT !.element[e].sons = <<s0, s1>>, !.freeElementId = @ + 2]

Refined(g, e) == WithSons(WithRightOfCentre(WithCentre(WithLeft(g, e), e), e), e)

(* A new level if an element of the top level is marked. *)
WithTopLevel(g) ==
  IF \E e \in ToSet(g.elements[maxLevel(g)]) : g.element[e].markState = "REFINE"
  THEN [g EXCEPT !.elements = With(@, maxLevel(g) + 1, <<>>),
                 !.vertices = With(@, maxLevel(g) + 1, <<>>)]
  ELSE g

RefineMarked(g, e) == IF g.element[e].markState = "REFINE" /\ isLeaf(g, e) THEN Refined(g, e) ELSE g

RefineLevel(g, i) ==
  LET list == g.elements[i]
      h[k \in 0..Len(list)] == IF k = 0 THEN g ELSE RefineMarked(h[k-1], list[k])
  IN  h[Len(list)]

(* Level by level, up to the one that was the last.  What a level gets on  *)
(* the way is not marked.                                                  *)
RefinedAll(g) ==
  LET levels == maxLevel(g) + 1
      h[i \in 0..levels] == IF i = 0 THEN WithTopLevel(g) ELSE RefineLevel(h[i-1], i - 1)
  IN  h[levels]

(* Empty levels stay. *)
WithoutEmptyLevel_kept(g) == g

(* The last level goes when it is empty, one level per adapt(). *)
WithoutEmptyLevel(g) ==
  LET top == maxLevel(g)
  IN  IF g.elements[top] # <<>> THEN g
      ELSE [g EXCEPT !.failed = (g.vertices[top] # <<>>),
                     !.elements = Without(@, {top}), !.vertices = Without(@, {top})]

(* COPY: a leaf below the top level gets one son that is its copy. *)
WithCopy(g, e) ==
  LET copy == <<level(e) + 1, id(e)>>
  IN  [WithElement(g, copy, leftSon(g, e), rightSon(g, e), e, SonPlace(g, e))
       EXCEPT !.element[e].sons = <<copy, copy>>]

WithRightOfLeft(g, e) == WithRight(g, e, leftSon(g, e))

Copied(g, e) == WithCopy(WithRightOfLeft(WithLeft(g, e), e), e)

CopyLeaf(g, e) == IF isLeaf(g, e) THEN Copied(g, e) ELSE g

CopyLevel(g, i) ==
  LET list == g.elements[i]
      h[k \in 0..Len(list)] == IF k = 0 THEN g ELSE CopyLeaf(h[k-1], list[k])
  IN  h[Len(list)]

WithCopies(g) ==
  LET h[i \in 0..maxLevel(g)] == IF i = 0 THEN g ELSE CopyLevel(h[i-1], i - 1)
  IN  IF refinementType = "COPY" THEN h[maxLevel(g)] ELSE g

Grown(g) == IF g.failed THEN g ELSE WithCopies(WithoutEmptyLevel(RefinedAll(g)))

Adapted(g) == Grown(Coarsened(g))
-----------------------------------------------------------------------------
(* Indices of the leaf grid (onedgridindexsets.hh) *)

NoIndices == [next |-> 0, index |-> <<>>]
Number(s, x) == [next |-> s.next + 1, index |-> With(s.index, x, s.next)]

(* The leaf iterator: level by level, each from left to right. *)
NumberElement(g, s, e) == IF isLeaf(g, e) THEN Number(s, e) ELSE s

NumberElements(g, s, i) ==
  LET list == g.elements[i]
      h[k \in 0..Len(list)] == IF k = 0 THEN s ELSE NumberElement(g, h[k-1], list[k])
  IN  h[Len(list)]

ElementIndices(g) ==
  LET levels == maxLevel(g) + 1
      h[i \in 0..levels] == IF i = 0 THEN NoIndices ELSE NumberElements(g, h[i-1], i - 1)
  IN  h[levels].index

(* Every vertex has a number of its own. *)
NumberVertex_own(g, s, v) == Number(s, v)

(* Vertices are numbered from the top level down; one that has a copy on   *)
(* the next level gets the index of the copy.                              *)
NumberVertex(g, s, v) ==
  IF son(g, v) = null THEN Number(s, v)
  ELSE [next |-> s.next, index |-> With(s.index, v, s.index[son(g, v)])]

NumberVertices(g, s, i) ==
  LET list == g.vertices[i]
      h[k \in 0..Len(list)] == IF k = 0 THEN s ELSE NumberVertex(g, h[k-1], list[k])
  IN  h[Len(list)]

VertexIndices(g) ==
  LET levels == maxLevel(g) + 1
      h[i \in 0..levels] == IF i = 0 THEN NoIndices ELSE NumberVertices(g, h[i-1], levels - i)
  IN  h[levels].index

setIndices(g) == [element |-> ElementIndices(g), vertex |-> VertexIndices(g)]
-----------------------------------------------------------------------------
(* A new grid of the factory: vertices, elements and up to two boundary    *)
(* segments are inserted in any order.  The mesh size of level 0 is        *)
(* 2^LevelLimit.  From left to right this is also the grid that            *)
(* OneDGrid(numElements, left, right) makes.                               *)
meshSize == power2[LevelLimit]
Positions == {k * meshSize : k \in 0..numElements}
Ends == {0, numElements * meshSize}

(* The ends as the boundary segments name them. *)
Segments(ends) == IF Len(ends) = 2 THEN ends ELSE <<0, numElements * meshSize>>

Init ==
  /\ refinementType = "LOCAL"
  /\ \E positions \in SetToSeqs(Positions), cells \in SetToSeqs(0..numElements-1),
        ends \in {<<>>} \cup {<<x>> : x \in Ends} \cup SetToSeqs(Ends) :
       LET vp == vertexPositions(positions)
           number(k) == vp[k * meshSize]
           elements_ == [i \in DOMAIN cells |-> <<number(cells[i]), number(cells[i] + 1)>>]
       IN  /\ entities = createGrid(vp, [i \in DOMAIN ends |-> vp[ends[i]]])
           /\ leafIndex = initialIndices(vp, elements_)
           /\ inserted = [vertices |-> positions, elements |-> cells, segments |-> Segments(ends)]
  /\ adapts = 0

leaves == {e \in DOMAIN entities.element : isLeaf(entities, e)}
getMark(e) == entities.element[e].markState

(* setRefinementType(); only adapt() reads it, so it is enough to set it   *)
(* while nothing is marked (bound).                                        *)
SetRefinementType ==
  \E t \in Types :
    /\ ~entities.failed /\ adapts < MaxAdapts
    /\ \A e \in leaves : getMark(e) = "DO_NOTHING"
    /\ refinementType' = t
    /\ UNCHANGED <<entities, leafIndex, inserted, adapts>>

(* mark(refCount, e), which asks only for the sign; an element of the macro *)
(* grid cannot be marked for coarsening.                                   *)
Mark ==
  \E e \in leaves, m \in MarkStates :
    /\ ~entities.failed /\ adapts < MaxAdapts
    /\ m = "COARSEN" => level(e) > 0
    /\ m = "REFINE" => level(e) < LevelLimit
    /\ m # "DO_NOTHING" => Cardinality({x \in leaves \ {e} : getMark(x) # "DO_NOTHING"}) < MaxMarks
    /\ entities' = [entities EXCEPT !.element[e].markState = m]
    /\ UNCHANGED <<refinementType, leafIndex, inserted, adapts>>

(* As the comment in onedgrid.hh has it. *)
preAdapt_refine == \E e \in leaves : getMark(e) = "REFINE"

(* preAdapt() changes nothing and says whether an element may vanish. *)
preAdapt == \E e \in leaves : getMark(e) = "COARSEN"

Cleared(g) ==
  [g EXCEPT !.element = [e \in DOMAIN @ |-> [@[e] EXCEPT !.isNew = FALSE, !.markState = "DO_NOTHING"]]]

(* The program is aborted, or the grid is g.  Nobody promises that later   *)
(* indices have to do with the order of insertion.                         *)
Becomes(g) ==
  IF g.failed
  THEN entities' = [entities EXCEPT !.failed = TRUE] /\ UNCHANGED <<leafIndex, inserted>>
  ELSE /\ entities' = g /\ leafIndex' = setIndices(g)
       /\ inserted' = [inserted EXCEPT !.vertices = <<>>, !.elements = <<>>]

Adapt ==
  /\ ~entities.failed /\ adapts < MaxAdapts
  /\ Becomes(Adapted(entities))
  /\ adapts' = adapts + 1
  /\ UNCHANGED refinementType

PostAdapt ==
  /\ ~entities.failed
  /\ entities' = Cleared(entities)
  /\ UNCHANGED <<refinementType, leafIndex, inserted, adapts>>

(* One step of globalRefine(): mark every leaf, adapt() and postAdapt(). *)
MarkedAll(g) ==
  [g EXCEPT !.element = [e \in DOMAIN @ |->
     IF isLeaf(g, e) THEN [@[e] EXCEPT !.markState = "REFINE"] ELSE @[e]]]

RefinedOnce(g) == IF g.failed THEN g ELSE Cleared(Adapted(MarkedAll(g)))

RefinedTimes(g, n) ==
  LET h[k \in 0..n] == IF k = 0 THEN g ELSE RefinedOnce(h[k-1])
  IN  h[n]

GlobalRefine ==
  \E refCount \in Counts :
    /\ ~entities.failed /\ adapts + refCount <= MaxAdapts
    /\ maxLevel(entities) + refCount <= LevelLimit
    /\ IF refCount > 0 THEN Becomes(RefinedTimes(entities, refCount))
       ELSE UNCHANGED <<entities, leafIndex, inserted>>
    /\ adapts' = adapts + (IF refCount > 0 THEN refCount ELSE 0)
    /\ UNCHANGED refinementType

(* The program ends, by an assertion for instance. *)
Stopped ==
  /\ entities.failed \/ adapts = MaxAdapts
  /\ UNCHANGED vars

Next == SetRefinementType \/ Mark \/ Adapt \/ PostAdapt \/ GlobalRefine \/ Stopped

Spec == Init /\ [][Next]_vars
-----------------------------------------------------------------------------
elem == entities.element
vert == entities.vertex
left(e)  == vert[elem[e].vertex[1]].pos
right(e) == vert[elem[e].vertex[2]].pos

Entities == Int \X Int

(* The types; the entities of a level are those in its lists, and no level *)
(* is empty.                                                               *)
TypeOK ==
  /\ refinementType \in {"LOCAL", "COPY"}
  /\ DOMAIN entities.elements = 0..maxLevel(entities)
  /\ DOMAIN entities.vertices = 0..maxLevel(entities)
  /\ \A i \in 0..maxLevel(entities) :
       /\ entities.elements[i] # <<>>
       /\ ToSet(entities.elements[i]) = {e \in DOMAIN elem : level(e) = i}
       /\ ToSet(entities.vertices[i]) = {v \in DOMAIN vert : level(v) = i}
  /\ \A v \in DOMAIN vert : vert[v].pos \in Nat /\ vert[v].son \in DOMAIN vert \cup {null}
  /\ \A e \in DOMAIN elem :
       /\ elem[e].markState \in MarkStates /\ elem[e].isNew \in BOOLEAN
       /\ elem[e].father \in DOMAIN elem \cup {null}
       /\ \A s \in 1..2 : elem[e].sons[s] \in DOMAIN elem \cup {null}
       /\ \A s \in 1..2 : elem[e].vertex[s] \in DOMAIN vert

(* On every level the vertices and the elements are listed from left to    *)
(* right, each once, and the vertices are the ends of the elements and no  *)
(* others; an element lies between two neighbouring vertices.              *)
ListsOrdered ==
  \A i \in 0..maxLevel(entities) :
    LET vs == entities.vertices[i]
        es == entities.elements[i]
    IN  /\ \A k \in 1..Len(vs)-1 : vert[vs[k]].pos < vert[vs[k+1]].pos
        /\ \A k \in 1..Len(es)-1 : right(es[k]) <= left(es[k+1])
        /\ \A k \in 1..Len(es) : succ(vs, elem[es[k]].vertex[1]) = elem[es[k]].vertex[2]
        /\ ToSet(vs) = UNION {ToSet(elem[es[k]].vertex) : k \in DOMAIN es}

(* The leaf elements cover the domain, and no two overlap. *)
LeavesCover ==
  \A c \in 0..numElements * meshSize - 1 :
    Cardinality({e \in leaves : left(e) <= c /\ c < right(e)}) = 1

(* Fathers and sons know each other, and the sons cover the father.  A     *)
(* vertex has its copy on the next level exactly if one of its elements    *)
(* has sons, and they have the copy.                                       *)
FamilyTies ==
  /\ LeavesCover
  /\ \A e \in DOMAIN elem :
       LET s == elem[e].sons IN
       /\ (elem[e].father = null) <=> level(e) = 0
       /\ elem[e].father # null => e \in ToSet(elem[elem[e].father].sons)
       /\ e \notin leaves =>
            /\ elem[s[1]].father = e /\ elem[s[2]].father = e
            /\ \A k \in 1..2 : vert[elem[e].vertex[k]].son = elem[s[k]].vertex[k]
            /\ s[1] # s[2] => elem[s[1]].vertex[2] = elem[s[2]].vertex[1]
  /\ \A v \in DOMAIN vert :
       (vert[v].son # null) <=> \E e \in DOMAIN elem \ leaves : v \in ToSet(elem[e].vertex)

(* Vertices have one id if they are copies of each other, that is if they  *)
(* are at the same point, and only then; so have elements.                 *)
SharedIds ==
  /\ \A v, w \in DOMAIN vert : (id(v) = id(w)) <=> (vert[v].pos = vert[w].pos)
  /\ \A e, f \in DOMAIN elem : (id(e) = id(f)) <=> (left(e) = left(f) /\ right(e) = right(f))

(* The leaf index set is consecutive and starts from 0; copies of a vertex *)
(* share an index, different points do not.                                *)
LeafIndices ==
  /\ DOMAIN leafIndex.element = leaves
  /\ {leafIndex.element[e] : e \in leaves} = 0..Cardinality(leaves)-1
  /\ DOMAIN leafIndex.vertex = DOMAIN vert
  /\ \A v, w \in DOMAIN vert :
       (leafIndex.vertex[v] = leafIndex.vertex[w]) <=> (vert[v].pos = vert[w].pos)
  /\ {leafIndex.vertex[v] : v \in DOMAIN vert} =
       0..Cardinality({vert[v].pos : v \in DOMAIN vert}) - 1

(* boundarySegmentIndex() of an element with an end at the boundary. *)
boundarySegmentIndex(e, neighbor_) == IF (neighbor_ = 0) = ~elem[e].reversed THEN 0 ELSE 1

(* The indices of a new grid number vertices and elements in the order of  *)
(* their insertion (test-oned.cc:50-98, "should have position", "should    *)
(* have center"), and on all levels, whatever has been refined, the        *)
(* boundary segments are numbered in the order of theirs (100-124,         *)
(* gridfactory.hh: insertBoundarySegment() "influences the ordering").     *)
InsertionOrder ==
  /\ inserted.vertices # <<>> =>
       \A v \in DOMAIN vert : inserted.vertices[leafIndex.vertex[v] + 1] = vert[v].pos
  /\ inserted.elements # <<>> =>
       \A e \in DOMAIN elem : inserted.elements[leafIndex.element[e] + 1] * meshSize = left(e)
  /\ \A e \in DOMAIN elem :
       /\ left(e)  = Min(Ends) => inserted.segments[boundarySegmentIndex(e, 0) + 1] = left(e)
       /\ right(e) = Max(Ends) => inserted.segments[boundarySegmentIndex(e, 1) + 1] = right(e)

(* The assertions in adapt() and isLeaf() hold ... *)
AssertionsHold == ~entities.failed

(* ... as long as no element has been copied. *)
Uncopied == \A e \in DOMAIN elem : elem[e].sons[1] = elem[e].sons[2] => e \in leaves

AssertionsHoldUncopied == Uncopied => AssertionsHold

(* "true if an entity may be coarsened during a subsequent adapt(), false  *)
(* otherwise": no element vanishes that preAdapt() has not announced.      *)
OnlyAnnounced == [][DOMAIN elem \subseteq DOMAIN elem' \/ preAdapt]_vars

(* The leaves are those of a forest of binary trees, refined and coarsened *)
(* as they were marked, until an element is copied.                        *)
node(e) == <<level(e), (left(e) * power2[level(e)]) \div meshSize>>

Tree == INSTANCE BisectionTree WITH
          leaves <- {node(e) : e \in leaves},
          mark <- [x \in {node(e) : e \in leaves} |-> getMark(CHOOSE e \in leaves : node(e) = x)]

ImplementsTree ==
  /\ Tree!Init
  /\ [][Uncopied /\ Uncopied' /\ ~entities'.failed => [Tree!Next]_(Tree!vars)]_vars
=============================================================================

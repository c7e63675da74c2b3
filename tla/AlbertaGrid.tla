---------------------------- MODULE AlbertaGrid ----------------------------
(***************************************************************************)
(* AlbertaGrid in two dimensions (albertagrid/): a mesh of triangles that  *)
(* the library ALBERTA refines by bisection and coarsens again, and what   *)
(* the grid keeps beside it: the marks counted in adaptationState_, the    *)
(* persistent numbers of all entities of the hierarchy (hIndexSet_ with    *)
(* one IndexStack per codimension), the levels, the leaf index set and the *)
(* marker of the leaf iterators, which are built when they are asked for,  *)
(* and a PersistentContainerVector of data on the elements.                *)
(*                                                                         *)
(* ALBERTA calls back for every patch, the one or two triangles that share *)
(* a bisected edge; a step of adapt() is one patch.                        *)
(***************************************************************************)
EXTENDS IndexStack, FiniteSets, FiniteSetsExt

CONSTANTS
  macros,       \* the macro triangulation: triples of numbered vertices, the refinement edge first
  macroNumbers, \* the numbers of its entities, for each codimension, in ALBERTA's order
  RefCounts,    \* arguments of mark() to consider
  MaxLevel,     \* bound: levels that marks lead to
  MaxMarks,     \* bound: leaf elements marked at a time
  MaxAdapts     \* bound: calls of adapt() outside globalRefine()

ASSUME macrosAssumption == macros # <<>> /\ macros \in Seq([1..3 -> Nat])

corners(k) == {macros[k][i] : i \in 1..3}

(* Triangles have three vertices, no two triangles the same ones, and at    *)
(* most two of them share an edge, which the table of neighbours, one for   *)
(* each edge, has room for.                                                *)
ASSUME conformingAssumption ==
  /\ \A k \in DOMAIN macros : \A i, j \in 1..3 : macros[k][i] = macros[k][j] => i = j
  /\ \A k, l \in DOMAIN macros : corners(k) = corners(l) => k = l
  /\ \A h, k, l \in DOMAIN macros : \A i, j \in 1..3 :
       i # j /\ {macros[h][i], macros[h][j]} \subseteq corners(k) \cap corners(l)
         => h = k \/ h = l \/ k = l
ASSUME boundsAssumption ==
  RefCounts \subseteq (-128)..126 /\ MaxLevel \in Nat /\ MaxMarks \in Nat /\ MaxAdapts \in Nat

VARIABLES
  elements,          \* all elements of the hierarchy
  mark,              \* el->mark of the leaf elements
  adaptationState_,
  pc,                \* where adapt() is: "idle", "refine", "coarsen" or "finish"
  changed,           \* the locals refined and coarsened of adapt()
  remaining,         \* iterations globalRefine() has left
  numbers,           \* entityNumbers_, for each codimension
  indexStack_,
  level_,            \* level and isNew flag of each element
  maxlevel_,
  leafIndexSet_,     \* null or the indices for each codimension
  leafMarker_,       \* leafMarkerVector_: null or the element of each vertex
  data_,             \* a container of codimension 0; the user's data name an element
  lost,              \* indices that backup and restore have forgotten
  adapts             \* those calls of adapt() so far

meshVars  == <<elements, mark>>
indexVars == <<numbers, indexStack_, lost>>
cacheVars == <<maxlevel_, leafIndexSet_, leafMarker_>>
callVars  == <<adaptationState_, pc, changed, remaining, adapts>>
vars == <<meshVars, indexVars, cacheVars, callVars, level_, data_>>

null == <<>>
codims == 0..2
-----------------------------------------------------------------------------
(* The mesh.  An element is the n-th of the elements of its level that its *)
(* macro element k would have, with its vertices v; an edge is the set of  *)
(* its vertices.  A vertex of the macro triangulation is the set of its    *)
(* number, and the one in the middle of a bisected edge is that edge.      *)

element(k, l, n, v) == [macro |-> k, level |-> l, n |-> n, vertex |-> v]

midpoint(x, y) == {x, y}

child(e, i) ==
  LET v == e.vertex
      m == midpoint(v[1], v[2])
  IN  element(e.macro, e.level + 1, 2 * e.n + i, IF i = 0 THEN <<v[3], v[1], m>> ELSE <<v[2], v[3], m>>)

children(e) == {child(e, 0), child(e, 1)}

macroElement(k) == element(k, 0, 0, [i \in 1..3 |-> {macros[k][i]}])
macroElements   == {macroElement(k) : k \in DOMAIN macros}

(* New stacks hand out the numbers from zero, whatever the order. *)
IsNumbering(f, S) == DOMAIN f = S /\ IsFiniteSet(S) /\ {f[x] : x \in S} = 0..Cardinality(S)-1

refinementEdge(e) == {e.vertex[1], e.vertex[2]}

(* The i-th edge is opposite to the i-th vertex. *)
numSubEntities(codim) == IF codim = 0 THEN 1 ELSE 3
subEntity(e, codim, i) ==
  CASE codim = 0 -> e
    [] codim = 1 -> {e.vertex[j] : j \in (1..3) \ {i}}
    [] codim = 2 -> e.vertex[i]

entities(E, codim) == {subEntity(e, codim, i) : e \in E, i \in 1..numSubEntities(codim)}

leavesOf(E) == {e \in E : child(e, 0) \notin E}
leaves == leavesOf(elements)

ASSUME macroNumbersAssumption ==
  \A c \in codims : IsNumbering(macroNumbers[c], entities(macroElements, c))

Restricted(f, S) == [x \in S |-> f[x]]
-----------------------------------------------------------------------------
(* AdaptationState *)

NoMarks == [phase_ |-> "ComputationPhase", coarsenMarked_ |-> 0, refineMarked_ |-> 0]

Weight(count) == IF count > 0 THEN 2 * 2^count ELSE 0

(* The weights of the marks m of the elements L together, a pair for each unit. *)
weightOf(m, L) == Cardinality(UNION {{l} \X (1..Weight(m[l])) : l \in L})

marked(a, count) ==
  [a EXCEPT !.coarsenMarked_ = IF count < 0 THEN @ + 1 ELSE @,
            !.refineMarked_  = @ + Weight(count)]

(* The counter of coarsening is left alone. *)
unmarked_refine(a, count) == [a EXCEPT !.refineMarked_ = @ - Weight(count)]

unmarked(a, count) ==
  [a EXCEPT !.coarsenMarked_ = IF count < 0 THEN @ - 1 ELSE @,
            !.refineMarked_  = @ - Weight(count)]

coarsen(a) == a.coarsenMarked_ > 0
-----------------------------------------------------------------------------
(* The persistent numbers.  ALBERTA calls for a patch, before it is        *)
(* coarsened or after it is refined; the entities in the interior of the   *)
(* patch that belong to children are new, or vanish.                       *)

Children(patch) == UNION {children(patch[i]) : i \in DOMAIN patch}
fatherIn(patch, e) == CHOOSE f \in {patch[i] : i \in DOMAIN patch} : e \in children(f)

forEachInteriorSubChild(codim, patch) ==
  LET c0 == child(patch[1], 0)
      c1 == child(patch[1], 1)
  IN  CASE codim = 0 -> <<c0, c1>> \o (IF Len(patch) > 1 THEN <<child(patch[2], 0), child(patch[2], 1)>> ELSE <<>>)
        [] codim = 1 -> <<subEntity(c0, 1, 1), subEntity(c0, 1, 2), subEntity(c1, 1, 2)>>
                          \o (IF Len(patch) > 1 THEN <<subEntity(child(patch[2], 0), 1, 2)>> ELSE <<>>)
        [] codim = 2 -> <<subEntity(c0, 2, 3)>>

(* The stack s after its first n calls of getIndex(). *)
taken(s, n) == LET after[k \in 0..n] == IF k = 0 THEN s ELSE getIndex(after[k-1]).next IN after[n]

(* The stack s after the indices q have been freed in turn. *)
given(s, q) ==
  LET after[k \in 0..Len(q)] == IF k = 0 THEN s ELSE freeIndex(after[k-1], q[k]) IN after[Len(q)]

(* A number for each of the entities q, the later call for the same entity winning. *)
numbered(f, s, q) ==
  LET calls(x) == {k \in DOMAIN q : q[k] = x}
  IN  [x \in DOMAIN f \cup {q[k] : k \in DOMAIN q} |->
         IF calls(x) = {} THEN f[x] ELSE getIndex(taken(s, Max(calls(x)) - 1)).index]

RefineNumbering(patch) ==
  /\ numbers' = [c \in codims |-> numbered(numbers[c], indexStack_[c], forEachInteriorSubChild(c, patch))]
  /\ indexStack_' = [c \in codims |-> taken(indexStack_[c], Len(forEachInteriorSubChild(c, patch)))]

(* ALBERTA drops the entries of entities that no element has any more. *)
CoarsenNumbering(patch) ==
  /\ indexStack_' = [c \in codims |->
       LET q == forEachInteriorSubChild(c, patch)
       IN  given(indexStack_[c], [k \in DOMAIN q |-> numbers[c][q[k]]])]
  /\ numbers' = [c \in codims |-> Restricted(numbers[c], entities(elements', c))]

InUse(c) == {numbers[c][x] : x \in DOMAIN numbers[c]}
size(c)  == indexStack_[c].maxIndex_
-----------------------------------------------------------------------------
(* The leaf index set and the marker.  Leaf elements are visited from left *)
(* to right, and an entity is inserted on the first one that has it.       *)

(* From left to right, in units of the elements of the finest level. *)
finest(L) == Max({e.level : e \in L})
position(f, e) == (e.macro * 2^e.level + e.n) * 2^(f - e.level)

(* The place of x among all subentities in the order of the visit. *)
visit(L, codim, x) ==
  LET f == finest(L)
  IN  Min({3 * position(f, p[1]) + p[2] :
             p \in {p \in L \X (1..numSubEntities(codim)) : subEntity(p[1], codim, p[2]) = x}})

update(L) ==
  [c \in codims |->
     LET visits == {visit(L, c, x) : x \in entities(L, c)}
     IN  [x \in entities(L, c) |-> LET place == visit(L, c, x) IN Cardinality({k \in visits : k < place})]]

(* ALBERTA numbers the elements in an order of its own; it does not matter which. *)
dofIndex(f, e) == position(f, e)

(* The leaf element of largest dofIndex that has the vertex. *)
markSubEntities(L) ==
  LET f == finest(L)
      with(v) == {l \in L : \E i \in 1..3 : l.vertex[i] = v}
  IN  [v \in entities(L, 2) |->
         CHOOSE l \in with(v) : \A k \in with(v) : dofIndex(f, k) <= dofIndex(f, l)]

maxLevelOf(lev) == Max({lev[e].level : e \in DOMAIN lev})

(* What calcExtras() makes of the grid with the elements E. *)
calcExtras(E) ==
  /\ maxlevel_' = maxLevelOf(level_)
  /\ leafMarker_' = null
  /\ leafIndexSet_' = IF leafIndexSet_ = null THEN null ELSE update(leavesOf(E))
-----------------------------------------------------------------------------
Init ==
  /\ elements = macroElements
  /\ mark = [e \in elements |-> 0]
  /\ adaptationState_ = NoMarks
  /\ pc = "idle" /\ changed = {} /\ remaining = 0 /\ adapts = 0
  /\ numbers = macroNumbers
  /\ indexStack_ = [c \in codims |-> taken(NewIndexStack, Cardinality(entities(elements, c)))]
  /\ level_ = [e \in elements |-> [level |-> 0, isNew |-> FALSE]]
  /\ maxlevel_ = 0
  /\ leafIndexSet_ = null /\ leafMarker_ = null
  /\ data_ = <<>>
  /\ lost = [c \in codims |-> {}]

inPhase(phase) == pc = "idle" /\ adaptationState_.phase_ = phase
free == pc = "idle" /\ remaining = 0   \* the program is not inside a call

(* mark().  Callers mark before preAdapt(), as grid.hh asks. *)
Mark ==
  \E e \in leaves, refCount \in RefCounts :
    /\ free /\ inPhase("ComputationPhase")
    /\ refCount >= -e.level
    /\ e.level + refCount <= MaxLevel
    /\ Cardinality({l \in leaves \ {e} : mark[l] # 0}) < MaxMarks
    /\ adaptationState_' = marked(unmarked(adaptationState_, mark[e]), refCount)
    /\ mark' = [mark EXCEPT ![e] = refCount]
    /\ UNCHANGED <<elements, indexVars, cacheVars, pc, changed, remaining, adapts, level_, data_>>

(* In another phase it throws and changes nothing. *)
PreAdapt ==
  /\ free /\ inPhase("ComputationPhase")
  /\ adaptationState_' = [adaptationState_ EXCEPT !.phase_ = "PreAdaptationPhase"]
  /\ UNCHANGED <<meshVars, indexVars, cacheVars, pc, changed, remaining, adapts, level_, data_>>

-----------------------------------------------------------------------------
(* adapt().  Callers follow the order of grid.hh; without preAdapt() it    *)
(* would throw, but only after the mesh has been adapted.                  *)
Adapt ==
  /\ free /\ inPhase("PreAdaptationPhase") /\ adapts < MaxAdapts
  /\ pc' = "refine" /\ changed' = {} /\ adapts' = adapts + 1
  /\ UNCHANGED <<meshVars, indexVars, cacheVars, adaptationState_, remaining, level_, data_>>

(* The leaves at the refinement edge of e, and whether it can be bisected for all of them. *)
patchOf(e)    == {l \in leaves : \A v \in refinementEdge(e) : \E i \in 1..3 : l.vertex[i] = v}
compatible(e) == \A l \in patchOf(e) : refinementEdge(l) = refinementEdge(e)

(* The elements that have to be bisected, sooner or later: those marked,   *)
(* and neighbours of elements that have to be, over any number of leaves.  *)
due ==
  LET D[n \in 0..Cardinality(leaves)] ==
        IF n = 0 THEN {l \in leaves : mark[l] > 0}
        ELSE UNION {patchOf(e) : e \in D[n-1]}
  IN  D[Cardinality(leaves)]

(* A patch starts with the element it is made for. *)
patchFrom(e, S) == IF S = {e} THEN <<e>> ELSE <<e, CHOOSE f \in S : f # e>>

(* The levels of the children. *)
interpolateLevels(patch) ==
  level_' = [e \in DOMAIN level_ \cup Children(patch) |->
               IF e \in Children(patch) THEN [level |-> level_[fatherIn(patch, e)].level + 1, isNew |-> TRUE]
               ELSE level_[e]]

RefinePatch ==
  /\ pc = "refine"
  /\ \E e \in {e \in due : compatible(e)} :
       LET patch == patchFrom(e, patchOf(e)) IN
       /\ elements' = elements \cup Children(patch)
       /\ mark' = [l \in leavesOf(elements') |->
                     IF l \in leaves THEN mark[l] ELSE Max({0, mark[fatherIn(patch, l)] - 1})]
       /\ RefineNumbering(patch)
       /\ interpolateLevels(patch)
  /\ changed' = changed \cup {"refined"}
  /\ UNCHANGED <<cacheVars, adaptationState_, pc, remaining, adapts, data_, lost>>

Refined ==
  /\ pc = "refine" /\ due = {}
  /\ pc' = IF coarsen(adaptationState_) THEN "coarsen" ELSE "finish"
  /\ UNCHANGED <<meshVars, indexVars, cacheVars, adaptationState_, changed, remaining, adapts, level_, data_>>

(* The elements that were bisected together with e, when all their children can go. *)
fathersWith(e) == {f \in elements \ leaves : refinementEdge(f) = refinementEdge(e)}
vanishing ==
  {e \in elements \ leaves :
     \A f \in fathersWith(e) : \A l \in children(f) : l \in leaves /\ mark[l] < 0}

CoarsenPatch ==
  /\ pc = "coarsen"
  /\ \E e \in vanishing :
       LET patch == patchFrom(e, fathersWith(e)) IN
       /\ elements' = elements \ Children(patch)
       /\ mark' = [l \in leavesOf(elements') |->
                     IF l \in leaves THEN mark[l] ELSE Max({mark[k] : k \in children(l)}) + 1]
       /\ CoarsenNumbering(patch)
       /\ level_' = Restricted(level_, elements')
  /\ changed' = changed \cup {"coarsened"}
  /\ UNCHANGED <<cacheVars, adaptationState_, pc, remaining, adapts, data_, lost>>

(* Marks that could not be followed are removed. *)
Coarsened ==
  /\ pc = "coarsen" /\ vanishing = {}
  /\ pc' = "finish"
  /\ mark' = [l \in leaves |-> Max({0, mark[l]})]
  /\ UNCHANGED <<elements, indexVars, cacheVars, adaptationState_, changed, remaining, adapts, level_, data_>>

(* calcExtras() only after a refinement. *)
Finish_refined ==
  /\ pc = "finish"
  /\ pc' = "idle"
  /\ adaptationState_' = [adaptationState_ EXCEPT !.phase_ = "PostAdaptationPhase"]
  /\ IF "refined" \in changed THEN calcExtras(elements) ELSE UNCHANGED cacheVars
  /\ UNCHANGED <<meshVars, indexVars, changed, remaining, adapts, level_, data_>>

(* adaptationState_.adapt() and calcExtras(). *)
Finish ==
  /\ pc = "finish"
  /\ pc' = "idle"
  /\ adaptationState_' = [adaptationState_ EXCEPT !.phase_ = "PostAdaptationPhase"]
  /\ IF changed # {} THEN calcExtras(elements) ELSE UNCHANGED cacheVars
  /\ UNCHANGED <<meshVars, indexVars, changed, remaining, adapts, level_, data_>>

(* In another phase there is nothing to clear and it throws. *)
PostAdapt ==
  /\ inPhase("PostAdaptationPhase")
  /\ level_' = [e \in DOMAIN level_ |-> [level_[e] EXCEPT !.isNew = FALSE]]
  /\ adaptationState_' = NoMarks
  /\ remaining' = IF remaining > 0 THEN remaining - 1 ELSE 0
  /\ UNCHANGED <<meshVars, indexVars, cacheVars, pc, changed, adapts, data_>>

GlobalRefine ==
  /\ free /\ inPhase("ComputationPhase")
  /\ remaining' \in {n \in 1..MaxLevel : n + maxlevel_ <= MaxLevel}
  /\ UNCHANGED <<meshVars, indexVars, cacheVars, adaptationState_, pc, changed, adapts, level_, data_>>

(* One step of globalRefine(): all leaf elements are marked, then preAdapt() and adapt(). *)
GlobalRefineStep ==
  /\ remaining > 0 /\ inPhase("ComputationPhase")
  /\ mark' = [l \in leaves |-> 1]
  /\ adaptationState_' =
       [phase_ |-> "PreAdaptationPhase",
        coarsenMarked_ |-> adaptationState_.coarsenMarked_ - Cardinality({l \in leaves : mark[l] < 0}),
        refineMarked_ |-> adaptationState_.refineMarked_ - weightOf(mark, leaves) + weightOf(mark', leaves)]
  /\ pc' = "refine" /\ changed' = {}
  /\ UNCHANGED <<elements, indexVars, cacheVars, remaining, adapts, level_, data_>>
-----------------------------------------------------------------------------
(* leafIndexSet() and the first leafbegin() of the vertices. *)
LeafIndexSet ==
  /\ free /\ leafIndexSet_ = null
  /\ leafIndexSet_' = update(leaves)
  /\ UNCHANGED <<meshVars, indexVars, callVars, maxlevel_, leafMarker_, level_, data_>>

LeafBegin ==
  /\ free /\ leafMarker_ = null
  /\ leafMarker_' = markSubEntities(leaves)
  /\ UNCHANGED <<meshVars, indexVars, callVars, maxlevel_, leafIndexSet_, level_, data_>>

(* The container: resize() pads with a default value. *)
Resize ==
  /\ free
  /\ data_' = [k \in 1..size(0) |-> IF k \in DOMAIN data_ THEN data_[k] ELSE null]
  /\ UNCHANGED <<meshVars, indexVars, cacheVars, callVars, level_>>

(* The program writes the entries of all elements, one after the other. *)
Store ==
  /\ free /\ Len(data_) >= size(0)
  /\ data_' = [k \in DOMAIN data_ |->
                 IF k - 1 \in InUse(0) THEN CHOOSE e \in elements : numbers[0][e] = k - 1 ELSE data_[k]]
  /\ UNCHANGED <<meshVars, indexVars, cacheVars, callVars, level_>>

(* writeGrid(), the end of the program, and readGrid() in the next one,    *)
(* which carries the entries of the container over in their order.         *)
Restart ==
  /\ free /\ inPhase("ComputationPhase") /\ \A l \in leaves : mark[l] = 0
  /\ indexStack_' = [c \in codims |-> restored(Max(InUse(c)))]
  /\ lost' = [c \in codims |-> (0..Max(InUse(c))) \ InUse(c)]
  /\ level_' = [e \in elements |-> [level |-> e.level, isNew |-> FALSE]]
  /\ maxlevel_' = maxLevelOf(level_')
  /\ leafIndexSet_' = null /\ leafMarker_' = null
  /\ data_' = [k \in 1..indexStack_'[0].maxIndex_ |-> IF k \in DOMAIN data_ THEN data_[k] ELSE null]
  /\ adaptationState_' = NoMarks
  /\ UNCHANGED <<meshVars, numbers, pc, changed, remaining, adapts>>

Next ==
  \/ Mark \/ PreAdapt \/ Adapt \/ PostAdapt
  \/ RefinePatch \/ Refined \/ CoarsenPatch \/ Coarsened \/ Finish
  \/ GlobalRefine \/ GlobalRefineStep
  \/ LeafIndexSet \/ LeafBegin \/ Resize \/ Store \/ Restart

Spec == Init /\ [][Next]_vars
-----------------------------------------------------------------------------
(* Properties *)

(***************************************************************************)
(* Types.  The finite stacks stay within their capacity and those behind   *)
(* the one in use are full, whatever is freed and taken                    *)
(* (indexstack.hh:136-172).                                                *)
(***************************************************************************)
TypeOK ==
  /\ \A e \in elements : e.macro \in DOMAIN macros /\ e.level \in Nat /\ e.n \in 0..2^e.level-1
  /\ mark \in [leaves -> -128..126]
  /\ DOMAIN adaptationState_ = {"phase_", "coarsenMarked_", "refineMarked_"}
  /\ adaptationState_.phase_ \in {"ComputationPhase", "PreAdaptationPhase", "PostAdaptationPhase"}
  /\ adaptationState_.coarsenMarked_ \in Nat /\ adaptationState_.refineMarked_ \in Nat
  /\ pc \in {"idle", "refine", "coarsen", "finish"}
  /\ changed \subseteq {"refined", "coarsened"}
  /\ remaining \in Nat /\ adapts \in 0..MaxAdapts
  /\ \A c \in codims : TypeOfStack(indexStack_[c]) /\ InUse(c) \subseteq Nat
  /\ DOMAIN level_ = elements

(***************************************************************************)
(* Every entity of the hierarchy has a number, entities of a codimension   *)
(* have different ones, all below size(); a number below size() that no    *)
(* entity has is kept on the stacks, once, unless a backup has forgotten   *)
(* it.  So the lists of new subentities that ALBERTA's patches are walked  *)
(* by (refinement.hh:146-196) name each once, in refinement and in         *)
(* coarsening, and the stacks neither lose nor double what they are given. *)
(***************************************************************************)
NumbersConservedOf(c) ==
  /\ DOMAIN numbers[c] = entities(elements, c)
  /\ Cardinality(InUse(c)) = Cardinality(DOMAIN numbers[c])
  /\ lost[c] \cap InUse(c) = {}
  /\ Conserved(indexStack_[c], InUse(c) \cup lost[c])

(* This for the elements, edges and vertices. *)
NumbersConserved == \A c \in codims : NumbersConservedOf(c)

(* coarsenMarked_, and the marks after adapt(). *)
CoarseningCounted ==
  pc = "idle" =>
    IF adaptationState_.phase_ = "PostAdaptationPhase"
    THEN \A l \in leaves : mark[l] = 0
    ELSE adaptationState_.coarsenMarked_ = Cardinality({l \in leaves : mark[l] < 0})

(* refineMarked_, as long as the marks wait for adapt(). *)
RefinementCounted ==
  pc = "idle" /\ adaptationState_.phase_ # "PostAdaptationPhase" =>
    adaptationState_.refineMarked_ = weightOf(mark, leaves)

(***************************************************************************)
(* The counters of adaptationState_ agree with the marks of the leaf       *)
(* elements (agrid.hh:223-239), and adapt() leaves no mark behind: the     *)
(* guard that calls ALBERTA's coarsen() only if coarsenMarked_ > 0         *)
(* (albertagrid.cc:421) never leaves a mark to a later adapt().            *)
(***************************************************************************)
MarksCounted == CoarseningCounted /\ RefinementCounted

(* The leaf index set, once it exists, numbers the entities of the leaf    *)
(* elements from zero, so that the comparison in postAdapt()               *)
(* (albertagrid.cc:356-373) never aborts.                                  *)
LeafIndicesFresh ==
  pc = "idle" /\ leafIndexSet_ # null =>
    \A c \in codims :
      LET f == leafIndexSet_[c]
          n == Cardinality(entities(leaves, c))
      IN  DOMAIN f = entities(leaves, c) /\ {f[x] : x \in DOMAIN f} = 0..n-1

(* The leaf iterators of vertices visit each vertex of a leaf element on   *)
(* one leaf element that has it (treeiterator.hh:99-165).                  *)
MarkerFresh ==
  pc = "idle" /\ leafMarker_ # null =>
    /\ DOMAIN leafMarker_ = entities(leaves, 2)
    /\ \A v \in DOMAIN leafMarker_ :
         leafMarker_[v] \in leaves /\ \E i \in 1..3 : leafMarker_[v].vertex[i] = v

(* The stored level of an element is its depth, maxLevel() is the largest  *)
(* level of a leaf element (the assertion of level.hh:78), and outside     *)
(* the time from adapt() to postAdapt() no element isNew.                  *)
LevelsKnown ==
  /\ \A e \in elements : level_[e].level = e.level
  /\ pc = "idle" => maxlevel_ = Max({l.level : l \in leaves})
  /\ pc = "idle" /\ adaptationState_.phase_ # "PostAdaptationPhase" => \A e \in elements : ~level_[e].isNew

(***************************************************************************)
(* What the grid derives from the mesh and keeps is that of the present    *)
(* mesh, never of an earlier one, after any sequence of marking, adapting, *)
(* asking for index sets and iterators, writing and reading.               *)
(***************************************************************************)
DerivedFresh == LeafIndicesFresh /\ MarkerFresh /\ LevelsKnown

(* The entry of e is what the program has written for it. *)
Stored(e) == numbers[0][e] < Len(data_) /\ data_[numbers[0][e] + 1] = e

(***************************************************************************)
(* An element that stays in the hierarchy keeps its entry of the           *)
(* container, through adaptation, resize(), writing the other entries, and *)
(* writing and reading the grid (persistentcontainerinterface.hh:16-44).   *)
(***************************************************************************)
DataPersists == [][\A e \in elements \cap elements' : Stored(e) => Stored(e)']_vars
=============================================================================

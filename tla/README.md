# Formal models of dune-grid

TLA+ specifications of the parts of dune-grid that keep state and make
decisions: the parallel structured grid YaspGrid (process torus, message
exchange, levels and communication lists, adaptation, communication of data,
ids and indices), the global index set on top of it, the adaptive grid OneDGrid
with its factory, and AlbertaGrid with its index stacks. TLC checks them on small
instances; TLAPS proves what matters most for every value of the constants: the
torus and its message exchange, the balancers, the levels of YaspGrid with their lists,
indices and ids, its adaptation cycle, OneDGrid, and AlbertaGrid with its index stacks. Paths below are relative to `src/dune/grid/`.

Contents: 1 inventory, 2 modules, 3 runs and bounds, 4 fairness, 5 proofs,
6 disagreements found, 7 what is only model-checked or not modelled, 8 plan.

## 1. Inventory

dune-grid defines an interface (`common/`) and implements it several times.
Implementations are independent of each other; what they share is the interface
and its contract: hierarchic grids of levels, an adaptation cycle `mark`,
`preAdapt`, `adapt`, `postAdapt`, index and id sets, and for parallel grids the
partition types and communication interfaces of `common/gridenums.hh`.

| Component | State | Operations | Hard behaviour | What makes it correct |
|---|---|---|---|---|
| Process torus `yaspgrid/torus.hh` | neighbour lists, four queues of send and receive requests | `partition`, `send`, `recv`, `exchange` | every process runs `exchange` concurrently, one tag for all messages, no barrier, buffers owned by the caller | what arrives for a direction was sent for the opposite direction in the same exchange; buffers are free afterwards; no deadlock whatever MPI buffers |
| YaspGrid levels `yaspgrid.hh`, `yaspgrid/ygrid.hh` | `_levels`, each with origins, sizes, overlap, send and receive lists; `keep_ovlp` | constructors, `makelevel`, `intersections`, `globalRefine`, `refineOptions` | each process computes its part and that of nobody else; decisions read off the previous level; a size check per process | every cell belongs to one process; overlap of the promised width on all levels; lists of two processes agree entry by entry; fathers are held |
| Load balancing `yaspgrid/partitioning.hh` | none | three balancers | recursion over subdivisions | all processes used, least weight |
| YaspGrid adaptation `yaspgrid.hh` | `adaptRefCount`, `adaptActive`, number of levels | `mark`, `preAdapt`, `adapt`, `postAdapt`, `globalRefine` | local marks, a collective maximum, waiting for all and for neighbours at different places | processes build the same hierarchy and do not wait for each other forever |
| YaspGrid communication `yaspgrid.hh` `communicateCodim` | buffers of one call | `communicate` | one or two exchanges per call, the codimensions one after the other, order of messages and of the items in them | data reach all copies, each once and whole |
| YaspGrid entities, ids and indices `yaspgrid/yaspgridentity.hh`, `yaspgrid/yaspgridintersection.hh`, `yaspgrid/ygrid.hh` | none | `persistentIndex`, `compressedIndex`, `subIndex`, `father`, hierarchic iterator, intersections | bit fields, periodic copies, negative coordinates, tables of subentities | one entity, one id on every level and process; indices consecutive; fathers and sons fit; boundary segments numbered once |
| OneDGrid `onedgrid.hh`, `onedgrid/` | per level doubly linked lists of vertices and elements, pointers to fathers, sons and copies; id counters; index sets | constructor, `mark`, `preAdapt`, `adapt`, `postAdapt`, `globalRefine`, `setRefinementType` | lists edited while they are walked, many cases, long call sequences | lists sorted and complete, leaves cover the domain, ids and indices shared exactly by copies |
| OneDGridFactory `onedgrid/onedgridfactory.cc` | inserted vertices, elements, boundary segments | `insert...`, `createGrid` | any order of insertion; two sorted maps walked in parallel | indices and boundary numbers are those of insertion |
| GlobalIndexSet `utility/globalindexset.hh` | owner, map of ids to indices | constructor | two data exchanges, a sum and an allgather, on processes at their own pace | indices are unique, consecutive and known to every process that asks |
| AlbertaGrid `albertagrid/` | what is kept beside ALBERTA's mesh: counters of marks, phase, persistent numbers and index stacks, levels, leaf index set, markers of iterators | `mark`, `preAdapt`, `adapt`, `postAdapt`, `globalRefine`, writing and reading | a callback per patch in the middle of adaptation; indices freed and used again; four caches to be renewed | a number belongs to one entity and stays with it; nothing derived from an earlier mesh is used |
| Mappers, persistent containers `common/*mapper.hh`, `utility/persistentcontainer*` | cached offsets, data arrays | `update`, `resize` | used while the grid changes | data stay with their entity |
| SGrid `sgrid/` | sizes of the levels | numbering | pure arithmetic | numbering is a bijection |
| ALUGrid, UGGrid | the mesh is in an external library | adaptation, object stacks | callbacks of a library whose source is elsewhere | |
| IdentityGrid, GeometryGrid | a host grid | forwarding | none | |
| Input and output `io/` | none that outlives a call | readers, writers | text | |

Interactions. `YaspGrid` constructors call a load balancer, then
`Torus::partition`, then `makelevel`; `makelevel` and `communicateCodim` queue
requests in the torus and call `Torus::exchange`, which is where processes
meet. `globalRefine` calls `makelevel` once per level, `adapt` calls
`globalRefine`, `preAdapt` makes a collective maximum. The constructor of
`GlobalIndexSet` calls `communicate` before and after a collective sum. AlbertaGrid
is called back by ALBERTA for every patch it bisects or coarsens, and hands out
or frees indices there. The OneDGrid is sequential; its `adapt` changes lists and then calls the index sets, and
`globalRefine` calls `mark`, `adapt` and `postAdapt`.

## 2. Modules

| Module | Models | Correspondence |
|---|---|---|
| `YaspTorus` | coordinates, neighbour lists and `partition` of `torus.hh` | pure operators with the names of the code; `sendlist` and `recvlist` are the sequences `proclists()` builds, in their order (one is built from the front, the other from the back) |
| `TorusExchange` | `send`, `recv`, `exchange` on all processes | `pc[p]` is the place in `exchange()`; one action per loop body (`Isend`, `Irecv`) and per loop end (`AllSent`, `AllPosted`, `PollSends`, `PollRecvs`); `Queue` is the caller's filling of buffers with the local copies at the start of `exchange()`. MPI is external: `Deliver` matches the first message of a pair of processes with the first receive, an eager message carries its data, any other is read from the send buffer when it is matched |
| `NeighborExchange` | what a caller of `exchange()` sees | abstract specification: `Enter` and `Return` of a round |
| `TorusExchange_proofs` | | theorems about `TorusExchange` |
| `NaturalLemmas` | | induction over sets of numbers, recursive functions, division with remainder, powers of two: what the other proofs need of arithmetic |
| `YaspTorus_proofs` | | theorems about `YaspTorus` and `YaspPartitioning` |
| `YGrid` | `YGridComponent` | a box of integer points |
| `YaspPartitioning` | the load balancers and the torus constructor's check of their result | pure operators |
| `YaspGrid` | construction, refinement and coarsening of the levels of all processes, communication lists | `phase[p] = "exchange"` is a process inside `makelevel()`; `Publish` is what it does up to `_torus.exchange()`, `Intersect` what it does with the received grids. All exchanges of one `makelevel()` (one per codimension shift and interface) are one here: they send to all neighbours each time, and `TorusExchange` shows that consecutive exchanges do not mix. Entities of any codimension are treated by their shift (the directions they extend in), as the code does |
| `YaspGrid_proofs` | | theorems about `YaspGrid`: levels, partitions and the cells of `YaspEntities`; lists of intersections; indices and ids |
| `YaspAdapt` | the adaptation cycle of all processes | exchange and maximum are waiting conditions: an exchange returns when the neighbours have begun theirs, which is what `NeighborExchange` states |
| `YaspAdapt_proofs` | | theorems about `YaspAdapt` |
| `YaspEntities` | ids, indices, subentities, faces, fathers and sons of the entities on the levels of `YaspGrid` | pure operators on its state; entities of every codimension, by shift and coordinate. Bit fields are packed into one integer with the carries the code has; `DimBits` and `LevelBits` are the widths |
| `YaspCommunicate` | `communicate` on all processes | `left[p]` are the codimensions `communicateCodim()` has still to treat; `stage` says whether the sizes or the data are under way. `outbox[p]` are the messages of every exchange in the order of the send list, and of several requests to one process, the `k`-th receives the `k`-th message that process sent to `p` (`turn`): what `Delivered` states of `TorusExchange`. The user's data handle is external; its items name the entity they were gathered on, so that an item read at the wrong place is told apart |
| `GlobalIndexSet` | the constructor of the global index set | `OwnersExchanged`, `CountsGathered` and `IndicesExchanged` are the ends of its three collective calls; both data handles are operators (`minimum`, `valid`) |
| `OneDGridFactory` | `createGrid` | an operator of the three lists of insertions; `Init` of `OneDGrid` takes every order |
| `OneDGrid` | all of `OneDGrid::adapt` and the calls around it | `entities` is `entityImps_` with the id counters; the passes of `adapt()` (coarsen, add a level, refine, drop an empty level, copy) are operators applied in the order of the code, element by element; `leafIndex` is what `OneDGridLeafIndexSet::update` writes. `failed` stands for an assertion that aborts the program |
| `OneDGridRefine_proofs`, `OneDGrid_proofs` | | theorems about `OneDGrid`: the lemmas on refinement and coarsening; the steps, the tree of leaves and the theorems |
| `BisectionTree` | what adaptation promises | abstract specification: the leaves of a forest of binary trees and their marks |
| `IndexStack` | `indexstack.hh` | operators on the object: the stack in use, the full ones behind it, the number of empty ones, `maxIndex_` |
| `AlbertaGrid` | AlbertaGrid in two dimensions and a `PersistentContainerVector` over its hierarchic index set | `pc` is where `adapt()` is; a step of it is one patch, with the callback. ALBERTA is external: how a triangle is bisected, that a patch is the one or two triangles with the common refinement edge, that a neighbour is bisected first where its refinement edge is another (closure), and that a patch is coarsened if all its children are leaves and marked; the order of patches is left open. `Restart` is writing the grid, ending the program and reading it. `data_` holds for each entry what the program wrote there. `macroNumbers` are the first numbers, in whatever order ALBERTA visits the macro triangulation. Of the geometry only incidence is kept: the vertex in the middle of a bisected edge is that edge |
| `AlbertaGrid_proofs` | | theorems about `IndexStack` and `AlbertaGrid` |
| `MC...` | | instances for TLC |

Composition. `TorusExchange` implements `NeighborExchange` (checked, and its
safety part proved); `YaspGrid` and `YaspAdapt` use the collective exchange
under that contract. `GlobalIndexSet` extends `YaspCommunicate`, which extends
`YaspEntities` and `YaspGrid`: one state of all processes, in which refinement,
communication and index sets are called in any order. `OneDGrid` implements `BisectionTree` as long as no
element has been copied (checked and proved). All processes of a parallel program make the same
calls; the models record the calls the fastest process makes (`calls`) and the
others follow, so that TLC explores all programs and all interleavings.

Operators whose name ends in a suffix after an underscore that is not in the
code (`piece_even`, `Maximum_nowait`, ...) are deliberate mistakes; replacing the
definition of that name by one of them violates a property, which shows that
the property depends on that line of the code. They are not part of any
specification.

## 3. Runs

| Run | Instance | Shows |
|---|---|---|
| `torus` | torus 2x1, two exchanges with different used neighbours | types (the error return is not taken), `Delivered`, `BuffersFree`, `RoundSkew`, `Termination`, `ImplementsExchange` |
| `yaspgrid` | bounded and periodic lines of one to three processes with overlap 1 and 2 and up to three calls; two- and three-dimensional cases; one-dimensional grids of one to seven cells, one to three processes, overlap 0 to 2; the deprecated constructors on a line and in two dimensions, where pieces are as wide as the check would ask; the balancers on two-dimensional grids | partitions, overlap and lists of all levels (`InteriorOnce`, `OverlapWidth`, `ListsMatch`, `InteriorBorderReaches`), which constructor calls throw (`SizeCheckUniform`), `BalancerOptimal`; ids, indices, subentities, sons and faces of all entities (`IdsUnique`, `SubEntities`, `IndicesConsecutive`, `SonsPartition`, `FacesNumbered`) |
| `yaspadapt_line` | three processes in a line, all programs of two calls, all marks of -1 and 1 | `LevelsAgree`, `MarksCount`: same hierarchy and marks that count for all; `Returns`: no hanging call |
| `globalindexset` | seven grids of one to three processes, closed and open, with and without overlap; up to two calls of `communicate` (every interface, both directions, fixed and variable size, two codimensions), `GlobalIndexSet` and refinement | `DataArrives`, `GlobalIndices`, `CallsReturn` |
| `oned_adapt` | two macro elements inserted in every order, two levels above them, three adaptations, up to three marked leaves, LOCAL and COPY | lists, pointers, ids, indices, order of insertion, tree |
| `alberta` | two triangles, one level of marks above them (closure goes a level deeper), two calls of `adapt` besides `globalRefine`, up to four marked leaves, finite stacks of two indices | `NumbersConserved`, `MarksCounted`, `DerivedFresh`, `DataPersists` |
| `yaspgrid_meeting`, `yaspgrid_partindex`, `yaspgrid_father`, `yaspadapt_negative`, `yaspadapt_marksleft`, `oned_copy` | the smallest grids that show it | see section 6 |

Why the bounds are enough. *Torus*: in the torus 2x1 six tasks of a process go
to the same partner and two to itself, so order is all that tells messages
apart; two rounds drift apart as far as they can. More processes or rounds are
covered by the proofs. *Levels*: partition and overlap are decided per
direction, so lines carry almost all cases: pieces of unequal size, neighbours
on both sides, one process that is its own neighbour twice, a neighbour on both
sides; two directions add corners. Three calls are needed for `refineOptions`
between two refinements. *Entities*: index, id and face arithmetic is exercised
on the same grids; a third direction has entities of four codimensions. *Communication*:
seven grids make every list empty on some process, a process its own partner,
and two messages go to one partner in one exchange; two calls let the exchanges
of one call meet those of the next, and of a refinement between.
*Adaptation*: three processes in a line are the smallest where two are not
neighbours. *OneDGrid*: three adaptations refine twice and coarsen, or coarsen
and refine anew; two macro elements give neighbours that are refined, not
refined, or refined more deeply. *AlbertaGrid*: the edge the two triangles
share is the refinement edge of one of them only, so that refining it
bisects the other twice; coarsening frees more indices than a stack holds,
so that full stacks are put aside, taken back and emptied ones used again;
the patches of one `adapt()` come in every order.
`LevelLimit` and `MaxLevel` bound levels, `MaxAdapts`, `MaxCalls` and `args.calls`
bound programs, `MaxMarks` bounds marked leaves, `MaxProcs` is the largest
number of processes among the cases. Refinement types are changed only while
nothing is marked, which loses nothing since only `adapt()` reads them.

Preconditions, stated where they are used. Properties of entities are stated
for a settled grid (no process is inside a call) whose pieces the size check accepts
(`Accepted`). `IdsUnique` and `SubEntities` speak of entities whose level and
coordinates fit into their bits. `GlobalIndices` leaves out grids where a process
is its own neighbour across a periodic boundary: it owns both copies of what
lies on the boundary and numbers them twice. `BoundarySegments` leaves out periodic
grids with overlap 0: a process whose piece reaches an end of a periodic direction
counts the faces there in `numBoundarySegments()`. In OneDGrid a vertex is
inserted once and no element is inverted (`gridfactory.hh:109`). AlbertaGrid is
marked in the computation phase only (`grid.hh:810`: `preAdapt` is "to be called after entities have been marked"), and `adapt()` comes after
`preAdapt()`; without it the code throws after the mesh has been adapted.
After `Restart` the holes of the stacks are forgotten, as backup stores
the largest index only; the history variable `lost` keeps them, so that
`NumbersConserved` says where every number is.

Data abstracted: buffers hold who filled them, for which position and when;
coordinates of YaspGrid are sizes of coordinate containers; a vertex of
AlbertaGrid has no coordinates, only the edge it bisects; a vertex of
OneDGrid is at an integer multiple of the finest mesh size; element and vertex
ids are the counters of the code. The cost the default balancer minimises is
compared as exact fractions (it uses doubles, so ties may be broken
differently).

Deadlock is checked in every run; the only step a finished or aborted program
takes is the stuttering disjunct `Finished` or `Stopped`.

## 4. Fairness

- `TorusExchange`: weak fairness of each process, which polls and never blocks,
  and of the network, since MPI guarantees progress of a message whose receive
  has been posted. Nothing is assumed about buffering: whether a message is
  eager is chosen when it is sent.
- `NeighborExchange`: weak fairness of `Enter` and `Return`; it follows from the
  former and `ImplementsExchange` checks it.
- `YaspGrid`, `YaspAdapt`: a process inside a call goes on, and a process makes
  the calls the others have made (the program is the same on all ranks). No
  process is obliged to start a call nobody has made.
- `GlobalIndexSet`: the same for its calls and those of `YaspCommunicate`. `Due(p)`
  is the condition under which process `p` is not waiting for others and has
  something to do; `Fairness` says that it does not stay so for ever without a
  step, which is weak fairness with the enabling condition written out.
  `CallsReturn` covers the constructor of the grid, too, where every piece is
  wider than the overlap.
- `OneDGrid` and `AlbertaGrid` are sequential and have safety properties only.

## 5. Proofs

### The torus (`YaspTorus_proofs`, on `NaturalLemmas`)

For every sequence of positive dimensions: `RankOfCoord` and `CoordOfRank`,
ranks and coordinates are inverse to each other and coordinates outside the
torus are wrapped; `NeighborListsFit`, the two lists of `proclists()` fit
together: position `j` of the send list of `p` leads to `q` exactly if position
`j` of the receive list of `q` comes from `p`. The argument: ranks are numbers
in a mixed radix (`increment`), distance vectors numbers in base 3, position
`N+1-j` is the complement of all digits of position `j`, and going there and
back leads home even where the torus is so small that both ways meet.
`EveryNeighborListed`: every distance vector but zero is listed, and once, as a
number in base 3 determines its digits (`DigitsDetermine`, `DigitsExist`).

These are facts about recursive functions. The library's induction theorems take
an operator as parameter and cannot be used here; `NaturalLemmas` proves what
replaces them: a set of numbers that contains 0 and all successors is `Nat`
(`InductionOn`, from the smallest counterexample), and a recursive definition
has a solution (`RecursionUpTo`, `RecursionOnNat`). `Division` and
`DivisionUnique` are quotient and remainder; `PowerOfTwo` and `ExponentSum`
are the laws of powers of two that bit fields need.

### The exchange (`TorusExchange_proofs`)

For every torus, number of rounds and choice of used neighbours:

- `TypeCorrect`: types, and that `exchange()` never takes its error return;
- `DeliveredCorrect`: what a process finds in a receive buffer is what the
  neighbour sent for that position in the same exchange;
- `BuffersFreeCorrect`: between exchanges MPI uses no buffer of the caller;
- `RoundSkewCorrect`: a process is at most one round behind those it sends to;
- `ExchangeRefines`: each step of the exchange is a step of `NeighborExchange` or
  changes nothing a caller sees.

Assumptions (`DimsAssumption`, `RoundsAssumption`, `UsedAssumption`): dimensions
are positive, the used neighbours are positions of the list. TLC
evaluates them for the instances it checks. That the lists fit together is
`NeighborListsFit`.

The argument. `Delivered` is not inductive: it says nothing about messages under
way. `Inv` adds that (1) the request queues hold a final segment of the tasks of
the round, because tasks are issued in order; (2) every message in flight and
every posted receive belongs to a task that was issued, and an unbuffered
message to the current round of its sender; (3) the heart, `MatchInv`: for each
position and round, the send task has been issued and is no longer in flight
exactly if the receive task of that position has been posted and is no longer
waiting. So tasks at one position are completed by the same match. `DeliverInv`
shows that the first message of a pair always meets the receive of its own
position and round (`SameTask`, by `SentDownward` and `PostedDownward`: were the
two different, the earlier one would have a counterpart that is already matched).
(4) The buffers hold what the state of the tasks says. `RoundSkew` follows: a
completed receive needs a send that was issued.

For `ExchangeRefines`, `Queue` maps to `Enter` and `PollRecvs` to `Return`; the
guard of `Return` is `RoundSkew` and the result is `Delivered`, both in the state
after the step; all other steps, deliveries included, change receive buffers of
busy processes only, which the mapping hides.

### The balancers (`YaspTorus_proofs`)

`TriesComplete`: the recursion of `optimize_dims()` tries every subdivision of the
processes and nothing else, by induction over the directions, each step splitting a
divisor off. `DefaultOptimal`: so the result uses all processes and none that does
has a smaller weight. `TorusDims`: whatever the balancer, a torus that is made
has a positive dimension per direction and their product is the number of processes.

### The levels (`YaspGrid_proofs`)

For all constructor arguments, balancers, programs and interleavings (assumptions:
`CasesAssumption`, the arguments are of the right kind, `CountsAssumption` and
`BoundsAssumption`; for the ids `BitsAssumption`, the widths of the bit fields are positive):

- `TypesOK`: types; every rank in a list of intersections is a rank of the torus;
- `Balanced`: the torus has the least weight;
- `SizeCheck`: processes disagree about the size check only at the limit
  `SizeCheckUniform` names;
- `Overlaps`: interior and overlap are what was asked for on every level;
- `Owners`: `InteriorOnce`, every entity has an owner and an interior one has no other;
- `Sons`: `SonsPartition`, sons and fathers fit on all levels;
- `FacesHaveNeighbors`: the part `FacesComplete` of `FacesNumbered`;
- `Matched`: `ListsMatch`, what is sent fits what is received;
- `Reached`: `InteriorBorderReaches`, what is sent is what has to be;
- `Indices`: `IndicesConsecutive`, the indices of a codimension are 0 to its size - 1;
- `IndicesApart`: no two of its entities share one (this does not follow from `Indices` alone,
  which speaks of the set of indices);
- `Ids`: `IdsUnique`, ids are the same exactly for the same entity and for vertices of
  different levels at the same place.

`TypeInv` adds to the types what the phase of a process says of its arguments
(one that went on has accepted its piece). For `SizeCheck`, `Pieces` says what
`partition()` gives a process, and that the process of rank 0 has a smallest
piece. `OverlapWidth` is not inductive: the finer level is made from numbers the
coarser one does not determine by its width alone. `OverlapInv` adds `LevelInv`:
the overlap in cells is at most the first one doubled at every level, and
the sides at which it was cut off (`low`, `up`) are those where the piece ends
at the boundary. As a piece that does not end there is further from it than
the overlap is wide (`Room`; this is what the size check is for), what `globalRefine()`
reads off the grid of the coarser level are these sides again. The
deprecated constructors check nothing and are exempt, in the property and here.

For `Owners`, the pieces in one direction are next to each other and cover it
(`PiecesInOrder`, `EveryCell`); `PartRanges` gives the range of each partition in
one direction. A point is in the range of some piece, or the next point beyond the
last (`OwnerInDirection`), and an interior one of no other (`OneOwner`), modulo the
period; the process with the coordinates so found is the owner (`ProcessAt`), the
only one with them (`SameProcess`). Here too the constructors that check nothing
are exempt; `InteriorOnce` is only model-checked for them, on two grids.

`Sons` needs one more invariant, `WidthInv`: a refinement takes the overlap over as it is
or doubled, and coarsening and communication leave it alone. So every cell of a level,
also in the trimmed overlap, has a father among the cells of the coarser one
(`HalfInRange`). The same invariant says that an overlap never vanishes, without which
an interior cell would have neither the boundary nor a neighbour at the end of its piece
(`FacesHaveNeighbors`).

`Matched` has two halves. (1) That two processes talk about the same grids: no process
knows which call another is in when it takes over its grid. `HistoryInv` says that there
is one history `h` of the common program, which gives after every call the number of
levels, the number of grids published, and for every level the number of the grid it was
made from; every process is somewhere on it (`Stands`), and each of its
levels is the result of `intersections()` on the grids of that number, its own and its
neighbours' (`Content`). Coarsening removes levels but no published grids, so that the
same level may be made again from a later one (`OfAfter`). The calls already recorded and
the grids published never change (`NextHistory`, `Keeps`), so a process that does
nothing keeps its place (`PlaceKept`). (2) That the lists made from the same grids fit:
position `j` of the neighbours of `p` is position `N+1-j` of those of `q`
(`NeighborListsFit`); the shift over a periodic boundary is opposite for the two sides, so
both compute the same box (`TwoViews`); it is not negative in any direction, as a
negative size would pass for one that is not empty, because the pieces of
neighbours touch (`PiecesTouch`, `PositiveSize`); hence the same positions are kept on both sides
(`EntriesFit`), and two lists that keep the same positions in order agree entry by entry
(`Picks`, `SamePositions`), one of them reversed because it is filled from the front.

`Reached` says that no copy is missing, which `Matched` would not notice: an entry both
sides lack. `ListsPaired` says what the two lists are: one entry for every position of
the neighbours whose boxes meet. Nothing superfluous is sent: the points of such a box are in both
partitions, as far apart as the two sides see each other shifted (`BothSides`, `CommonPoints`),
which is a whole number of periods in periodic directions and zero in others (`OnePair`). Nothing is
missing: let a copy on `q` and one in the interior or border of `p` be the same
entity. In every direction the two processes are at most one step apart around the torus, and
the step accounts for the period that separates the copies (`OneStep`): a process in between
would have a piece wider than the overlap (`FarApart`, `WidePiece`, again what the size check
is for), and so would the whole domain, so that no copy is two periods away. The steps of all directions
make a distance vector that leads from `q` to `p` (`LeadsThere`), is not zero unless it is
the same copy (`ThereIs`), and hence is listed (`EveryNeighborListed`); at its position the copy
is received (`Found`). `All_All` is not of this kind (section 6): both copies may be in overlaps,
and then the processes may be two steps apart.

`Indices` and `IndicesApart`. `superindex()` counts the points of a grid like the ranks of a torus
whose dimensions are the sizes of the grid (`SuperindexIs`), so that `RankOfCoord` and `CoordOfRank` say
that the points of a component have the numbers 0 to its size - 1 (`BoxNumbered`). In
the same way the number of a shift, `to_ulong()`, is a rank in a torus with two processes in every direction
(`UlongIs`, `BitsCorrespond`). The components of a codimension are the shifts with that many
directions left out, in the order of their numbers; `_indexOffset` adds up the sizes of those before
(`SizesBeforeIs`), and intervals one after the other cover every number up to the sum once
(`Intervals`); hence `EntitiesNumbered`. That a level has points of every shift is `LevelBoxes`.

`Ids`. `encode()` writes shift, level and coordinates as digits (`EncodeIs`); digits below their base
are determined by the number (`DigitsDetermined`), so that `encode()` loses nothing where everything fits its bits
(`EncodeInjective`). Vertices are encoded on the coarsest level they are on: `CoarsestIs` says
that `persistentIndex()` removes as many zero bits as all coordinates end with, up to the
number of the level (`TrailingIs`), so that what is left is `Reduced`: on level 0 or with an odd
coordinate. A place has only one reduced form (`ReducedUnique`, a factor of two would remain on one side:
`NotCoarser`). So two ids agree exactly if the places do (`SamePlaceSameId`). `HeightInv`,
that levels stay within `LevelLimit`, is needed because places are compared on the finest level.
No hypothesis on the constructor is needed, since ids are computed from coordinates alone.

### The adaptation cycle (`YaspAdapt_proofs`)

For every set of processes, graph of neighbours and set of counts (assumptions named in
`YaspAdapt`): `TypesOK`; `LevelsNeverDisagree`, the n-th level two processes make has
the same number and the n-th `adapt()` the same result, however far one is
ahead; `MarksAlwaysCount`, an `adapt()` that refined has made as many levels as the
largest mark any process had set. In the invariant `IInv`,
`Ledger` says that there is one history `h` of the common program (after every call the
number of levels made and the finest level, for every `adapt()` the count) and that
every process is somewhere on it (`Place`): levels agree although no process ever
compares them. `Barrier` says that nobody is past the n-th maximum before all have
given their n-th number, so that a count, once written down, is the maximum of all
of them (`Decided`); until then the last entry of the history may still change. `MarksInv`
ties the numbers given to the marks set.

### OneDGrid (`OneDGridRefine_proofs`, `OneDGrid_proofs`)

For every number of macro elements, every order in which the factory is given
them, every finest level and every program (assumptions `numElementsAssumption`,
`TypesAssumption`, `CountsAssumption`, `LimitsAssumption`; the bounds `MaxAdapts` and
`MaxMarks` play no part), for `LOCAL` and `COPY`, and also when an assertion fails:
`TypeInvariant` (`TypeOK`), `ListsOrderedInvariant`, `FamilyTiesInvariant`,
`SharedIdsInvariant`, `InsertionOrderInvariant`, `LeafIndicesInvariant`, `AssertionsHoldUncopiedInvariant` and
`OnlyAnnouncedHolds` state the properties of these names. `LocalNeverFails`: where `COPY` is not
among the `Types`, no element is ever copied and no assertion ever fails. `TreeImplemented`
(`ImplementsTree`): as long as no element is copied, the program is one of `BisectionTree`.

*The invariant.* `Standing` says that the grid is consistent (`WF`) and that no level is empty
(`Full`). `WF` is `Forest`, of the maps alone: fathers, sons and copies point to each other
(`Fathers`, `SonsOf`, `Copies`), two elements are `Apart` or the one on the higher level is within
the other, which has sons (`Nested`), every vertex is the end of an element of its level
(`AllEnds`), the leaves cover the domain (`Covered`), ids (`Ids`), an element is long enough
to be halved down to the finest level, and a macro element is as long as the mesh size (`Sized`); and `Lists`: a list is its entities in the order of their
positions (`Listed`). None of the properties is inductive alone. That a new vertex goes
to the right place in its list, for instance, needs that only the left neighbour can have made
the copy of the left vertex already (`LeftUpper`, from `Copies`, `Nested` and `AllEnds`) and
that everything above elements further left ends where the sons of the nearest one that has
sons do (`NeighborWithSon`, `LeftPlaceFits`, `SonPlaceFits`, from `Nested`).

*Refinement.* Refining a leaf and copying one are one relation `Growth` with two sons or
one; `Refined` and `Copied` are shown to be such a step through the stages of the vertex list
(`Stage`), and each part of `Forest` is shown to survive it (`GrownNested`, ...). The
loops follow by induction (`Rounds`).

*Coarsening.* `adapt()` takes the list of a level in pairs and never asks whether the
two are sons of one father. After `COPY` they need not be, and the grid in between is not
consistent. `PairKeeps` has three outcomes: the two are the sons of one father, and removing them keeps
`WF` (`PrunedForest`, `PrunedLists`); or they are strangers, and then a father keeps one son, or a
pointer to one that is gone, which no later pair repairs (`Doomed`: what
is still to be looked at is not in its reach), so that `isLeaf()` will assert it (`PairStrangers`); or an
assertion has failed already. `Midway` and `Levels` carry this through the loops, and
`CoarsenedKeeps` concludes that a grid that comes out of coarsening without a failed assertion is
consistent: in a build with assertions, `adapt()` stops or is right.

*Insertion.* `Inserted` is `Standing`, what `InsertionOrder` says of vertices and elements, and
that the two boundary segments are kept in the order the flag `reversed` of the grid says
(`SegmentOrder`). What the factory makes satisfies it (`InitInserted`): its sorting meets every position
once (`SortedMultiples`), so the k-th vertex and element of the macro grid begin at the k-th multiple
of the mesh size (`InitialIndices`). A step either forgets the indices or
leaves grid and numbering alone but for marks (`NextForgets`), and none turns `reversed` (`MovesReversed`);
that an end of an element is an end of the domain at the boundary alone needs `Standing`.

*Leaf indices.* `Keyed` says of a numbering that it is consecutive from 0 and that two have the same number
exactly if they have the same key: the element itself, or the position of the vertex. It goes through
the two loops of `update()` (`NumberElementsKeyed`, from the bottom up; `NumberVerticesKeyed`, from the top
down). A vertex without a copy gets a number nobody has met (`NoCopyAbove`: then no higher level has a vertex
at its position, from `Nested`, `AllEnds` and `Copies`), one with a copy the number of the copy. The first indices,
numbers of insertion, are `Keyed` too (`InitialKeyed`), and a step numbers anew or leaves leaves and
vertices alone (`NextNumbers`).

*Assertions.* As long as every father has two sons (`Twofold`), each list above the macro grid
consists of pairs of brothers (`BrothersListed`, since nothing fits between two sons: `SonsAdjacent`), for
whom the assertions hold (`BrothersAssert`); taking such a pair away leaves pairs
(`LevelWhole`), so that `adapt()` never fails one (`WholeAdapts`). The steps of `globalRefine()` do not keep
`Twofold` in `COPY` mode: the second one copies the leaves that were there before. But they mark every
leaf for refinement, so nothing is coarsened and it is enough that the lists
stay even. `Twins` pairs every element above the macro grid with another one of its level, its
brother or the copy of the brother of its origin; refinement adds brothers
(`RefinedAllTwins`) and `COPY` the copies of both or of none (`CopyLevelTwins`, by
`Settled`: of two that go together both are leaves or none is), and a set
with such a pairing is even (`InvolutionEven`).

*The tree.* `Node` is the node of `BisectionTree` an element stands for, its level and the number of its place
among the intervals of that size. That it is a whole number, and that sons get the nodes of the sons, follows down from the macro
grid where every father has two sons (`Placement`: each halves the father exactly); two elements have never the
same node (`NodeFacts`, from `Nested`). An element that stays keeps its node, because its father stays
(`SameNode`). Coarsening takes away exactly those brothers that are both leaves marked for it (`Cut`, `CoarsenedCut`:
earlier levels do not change which of the later ones are, `CoarseAbove`), refinement adds exactly the sons of
the marked leaves (`Sprouts`); a leaf of one is a leaf of the other (`GraftLeaf`, `GraftReaches`), with the mark it had
(`GraftTree`). If `adapt()` leaves no copied element it has made none, since nothing that
follows copying takes a copy away (`AdaptedUncopied`). `globalRefine()` is an induction over
its steps (`RefinedTimesTree`), which needs that a grid that is without copies at the end
was so before every step.

### AlbertaGrid and its index stacks (`AlbertaGrid_proofs`)

For every capacity `length` of the finite stacks (positive; 100000 in AlbertaGrid, 2 in
the run), macro triangulation, numbering of its entities (`macroNumbersAssumption`:
consecutive from zero, which new stacks hand out in whatever order they are asked) and
bounds. A macro triangulation is a sequence of triples of numbered vertices
(`MacroData::element`); `conformingAssumption` says that a triangle has three different
ones, that no two triangles have the same ones, and that an edge belongs to at most two
triangles, as ALBERTA's table of neighbours, one for each edge (`macrodata.cc:31-70`), takes for granted:

- `GetIndexConserves`: `getIndex()` hands out an index that is not in use, and the
  indices below `size()` are again those in use and those on the stacks, each
  once; a new index is made only if no freed one is left;
- `FreeIndexConserves`: the same for `freeIndex()` of an index in use;
- `AllNumbers`: `NumbersConserved`, of elements, edges and vertices, after any program;
- `TypesKept`: `TypeOK`;
- `DataStays`: `DataPersists`;
- `MarksAgree`: `MarksCounted`;
- `DerivedAgree`: `DerivedFresh`.

*Stacks.* A freed index is at a position of a stack (`slots`); `Conserved` says that
different positions hold different indices. Exchanging a full or an empty stack
moves positions and keeps their contents: `Renamed` states what follows from a
bijection of the positions, and `ExchangeEmpty` and `ExchangeFull` apply it; `OneLess`
and `OneMore` are popping and pushing. `TakenConserves` and `GivenConserves` carry this
along the calls for one patch.

*Numbers of elements, and data.* Nothing is needed of the geometry: `Mesh` says that every
element is a macro element or the child of an element, that macro element, level and
place `n` determine an element, and that it has both children or none; bisecting
any leaf elements and removing the children of any elements whose children are leaves keep
it (`MeshRefined`, `MeshCoarsened`), and ALBERTA's patches do one or the other (`RefinePatchBisects`,
`CoarsenPatchUnites`). Hence the list of a patch names each new element once
(`NewElementsListed`). `IndexInv` adds to `Mesh` that numbers and stacks of the elements are
conserved and the container is a sequence; that a step leaves the entry of an element alone
follows in each state, because no other element has its number and the container only
grows.

*Levels and marks.* `LevelInv`: levels are those of the elements also in the middle of
`adapt()`, `maxlevel_` unless a patch has already changed the mesh (the deepest element
is a leaf: `DeepestLeaf`). `MarkInv`: inside `adapt()` the counter of coarsening may be
larger than the number of marks, as marks are lost when neighbours are bisected, but is
positive as long as there is one; so if ALBERTA's coarsening is not called none is left.
`WeightInv` is the counter of refinement; the sum of the weights is the number of pairs of an
element and a unit of its weight.

*Index set and marker.* `CacheInv`: what exists is that of the present leaves, unless a patch has changed
the mesh in the present `adapt()`. The order of the traversal separates the leaf elements, also
of different levels (`LeavesOrdered`: if two leaves began at the same
place, the coarser one would be an ancestor of the finer, `Descend`), so an entity is inserted
at a place of its own (`Visited`), and counting the smaller places numbers
consecutively (`Ranks`).

*Numbers of edges and vertices.* Here the order in which triangles are bisected
matters: the lists of `refinement.hh` name the entities inside a patch, and those are new (or
vanish) only if no other element has them. `Conforming` is what has to hold of the mesh:
triangles with the same vertices are the same (`Triangles`); a vertex is one of the macro
triangulation or in the middle of an edge that is bisected (`VerticesBorn`); no leaf element has
an edge that is bisected (`NoHangingVertex`); at most two leaf elements have an edge in
common, and at most two elements were bisected at the same one (`Neighbors`). Bisecting all
leaf elements at an edge that is the refinement edge of each (`AtEdge`) keeps it
(`ConformingRefined`): the new vertex is none of an element so far (`NewVertex`), and what a child
has besides it its father had. So does removing the children of all elements bisected at an
edge when they are leaves (`AroundEdge`, `ConformingCoarsened`); that no other element has the
vertex in the middle (`VertexGoes`) is an induction over levels. ALBERTA's patches do one or
the other (`RefinePatchAtEdge`, `CoarsenPatchAroundEdge`), and since at most two elements
share an edge a patch is all of them. The entities inside a patch are then exactly those added
(`EntitiesRefined`) or removed (`EntitiesCoarsened`, since to coarsen is to undo a
bisection), the list of every codimension names them once each (`InsideListed`), and `NumbersInv`
follows as for the elements. A patch list that named an edge twice would hand out two
numbers for it and lose the first.

*Types.* `CallInv`: the counters are never negative, since `unmark()` subtracts what
`mark()` has added (outside `adapt()` they are the numbers `MarkInv` and `WeightInv` say, and
`adapt()` does not touch them); bisection and coarsening bring marks closer to zero.

## 6. Where the code and its documentation disagree

Each is a run that TLC ends with a counterexample.

- `yaspgrid_meeting`: `gridenums.hh` says that `All_All_Interface` sends and
  receives all entities. Lists are built for torus neighbours only; when a piece
  has at most twice as many cells as the overlap, the processes on its two
  sides share entities and exchange nothing for them.
- `yaspgrid_partindex`: the index of an entity depends on the partition it is
  iterated in (`yaspgrid/ygrid.hh:783`): the offset of a component is summed over the
  part of the components the iterator walks over, so that a face met
  by an iterator over interior entities has another index than the same face in
  the iteration over all, which `subIndex()` agrees with (`IndicesConsecutive`).
- `yaspgrid_father`: `father()` divides by two towards zero
  (`yaspgrid/yaspgridentity.hh:552`), and the overlap of a periodic grid has
  negative coordinates: cell -1 gets father 0, whose sons are 0 and 1.
  `SonsPartition` shows that sons and fathers fit for all other cells.
- `yaspadapt_negative`: negative marks are documented as coarsening and never
  have an effect (`yaspgrid.hh:1246`): a sequential program marks +1 and adapts, marks -1
  on the level it got, and the next `adapt()` leaves that level.
- `yaspadapt_marksleft`: `globalRefine()` leaves marks (`yaspgrid.hh:1172`),
  `grid.hh` says the state is that after `postAdapt`.
- `oned_copy`: in COPY mode a level may have an odd number of elements, and the
  next `adapt()` fails an assertion (`onedgrid.cc:279`). The assertions hold as long as
  nothing was copied (`AssertionsHoldUncopied`, proved for every grid and program).

Seen while modelling, without a run: vertices and elements of OneDGrid take their
ids from separate counters, so a vertex and an element can have the same id,
though an id map is documented as injective on the entities
(`common/indexidset.hh:366`). `SharedIds` therefore speaks of one codimension at a time.

The size check of the constructor (`yaspgrid.hh:763`) is made by every process
for its own piece. `SizeCheckUniform` does not say that all processes agree, they
do not; it says exactly when they disagree: pieces differ in size and the smaller
ones are as wide as the overlap. The processes that do not throw then wait in
`makelevel()`.

## 7. Only model-checked, and not modelled

Liveness (`Termination`, `CallsReturn`, `Returns`, the fairness part of
`ImplementsExchange`) is beyond the proof system and checked by TLC only. So
are, at present, of `YaspEntities` the tables of subentities (`SubEntities`) and the numbers of
boundary segments (the part `BoundarySegments` of `FacesNumbered`); `InteriorOnce`, `SonsPartition`
and the properties of lists, overlaps, faces and indices where a deprecated constructor made the grid; and
all properties of `YaspCommunicate` and `GlobalIndexSet`.

Not modelled:

- ALUGrid and UGGrid: mesh, adaptation and load balancing are in libraries whose
  source is not here. Of AlbertaGrid: one and three dimensions, level index
  sets and level markers, the cache of sizes, `adapt()` with a data handle, geometries.
- Meta grids forward every call; CachedCoordFunction of GeometryGrid keeps
  coordinates through a persistent container, as `data_` of `AlbertaGrid` does.
- The mappers, PersistentContainerMap and UniversalMapper. SGrid, StructuredGridFactory:
  arithmetic of the kind `YaspEntities` checks. Level index sets of OneDGrid.
- Geometries and intersections in floating point, readers and writers (text).
- Overflow of global sizes after very many refinements and of the counter `2 << count`
  in AlbertaGrid's `mark()` (an `int`, `agrid.hh:228`), ids beyond their bits; the
  deprecated constructors of YaspGrid beyond their missing size check;
  `adapt()` without `preAdapt()` on a parallel grid (a misuse); the error return of
  `exchange()` for local requests of different sizes (`torus.hh:399`), which comes after some
  have been copied: its callers queue them in pairs of one size.

`PROJECT.json` lists every component with its status and every hazard with the
properties about it.

## 8. Plan

Done: 1 `YaspTorus`, `TorusExchange`, `NeighborExchange` and their proofs;
2 `YGrid`, `YaspPartitioning`, `YaspGrid`; 3 `YaspAdapt`; 4 `BisectionTree`,
`OneDGrid`; 5 `YaspCommunicate`, `GlobalIndexSet`; 6 `YaspEntities`;
7 `OneDGridFactory`; 8 `IndexStack` and its proofs, `AlbertaGrid` with a
persistent container.

9 `NaturalLemmas` and the proofs of `YaspTorus`, `YaspPartitioning`,
`YaspAdapt` and of types, balance, size check, overlap, owners, fathers, faces and lists of `YaspGrid`;
10 the proofs of `AlbertaGrid`, with the conformity of its mesh; 11 the proofs of `OneDGrid`;
12 the proofs of indices and ids in `YaspEntities`.

Next, proofs, in this order:

1. An invariant of `BisectionTree`: the leaves are disjoint and cover the roots.
2. Tables of subentities and boundary segments in `YaspEntities`.
3. `DataArrives` of `YaspCommunicate`, from `ListsMatch` and `InteriorBorderReaches`.

After that, mappers over the index sets of `OneDGrid` and `AlbertaGrid`, and
the level index sets of both.

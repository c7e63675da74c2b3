--------------------------- MODULE GlobalIndexSet ---------------------------
(***************************************************************************)
(* The constructor of GlobalIndexSet (dune/grid/utility/globalindexset.hh) *)
(* on a level of a YaspGrid: one number for every entity of a codimension, *)
(* the same on all processes.  The processes first agree on an owner, the  *)
(* smallest rank that has the entity in its interior or border, then share *)
(* how many entities each owns, number their own and send the numbers to   *)
(* the others.                                                             *)
(*                                                                         *)
(* Vectors and maps indexed by the local index or by the id are functions  *)
(* of the entity here, a pair <<shift, coordinates>>: IndicesConsecutive   *)
(* and IdsUnique show that each of the two names one entity.               *)
(***************************************************************************)
EXTENDS YaspCommunicate

VARIABLES
  assignment,   \* owners, of all entities of the codimension a process holds
  counted,      \* numbers of entities owned, one per constructor
  globalIndex   \* the map of the object constructed last

indexVars == <<assignment, counted, globalIndex>>
allVars == <<allCommVars, indexVars>>

(* The communication both data handles use. *)
allToAll(l) ==
  [iftype |-> "All_All", dir |-> "forward", level |-> l, fixed |-> TRUE]

held(p, c) ==
  UNION {{<<r, x>> : x \in Held(p, c.level, r)} : r \in ShiftsOf(c.codim)}

inPart(kind, p, l, e) == contains(part(kind, level[p][l], e[1]), e[2])

(* InteriorEntity or BorderEntity *)
ownable(p, l, e) == inPart("interiorborder", p, l, e)

PostValues(p, c, value) ==
  Post(p, sends(p, allToAll(c.level), c.codim), recvs(p, allToAll(c.level), c.codim),
       LAMBDA r, x : <<value[<<r, x>>]>>)

(* A data handle with one item per entity: merge(old, new) for each.       *)
scatterAll(p, v, merge(_, _)) ==
  FoldLeft(LAMBDA w, s : [w EXCEPT ![<<s.shift, s.coord>>] = merge(@, s.items[1])],
           v, scattered(p, [j \in 1..Len(expected[p]) |->
                              [n \in 1..totalsize(expected[p][j].grid) |-> 1]]))

(* Somebody else's "not mine" counts. *)
minimum_any(old, new) == smaller(old, new)
minimum(old, new) == IF new >= 0 THEN smaller(old, new) ELSE old

valid(old, new) == IF new >= 0 THEN new ELSE old

-----------------------------------------------------------------------------
(* The owned entities in the order in which a loop over the cells and      *)
(* their subentities meets them first.                                     *)
visits(p, c) ==
  FlattenSeq([n \in 1..totalsize(overlapfront(level[p][c.level], Dir)) |->
    [i \in 1..subEnt(dim, c.codim) |->
       LET e == subEntity(walk(overlapfront(level[p][c.level], Dir))[n], i-1, c.codim)
       IN  <<e.shift, e.coord>>]])

owns(p, c, e) ==
  IF c.codim = 0 THEN inPart("interior", p, c.level, e) ELSE assignment[p][e] = p

ownVisits(p, c) == SelectSeq(visits(p, c), LAMBDA e : owns(p, c, e))

myoffset(p) ==
  SumFunctionOnSet( [q \in Procs |-> counted[q][Len(counted[p])]], 0..p-1)

(* An owned entity gets the number of those met before it. *)
numbered(p, c) ==
  LET s == ownVisits(p, c)
      earlier(e) == {s[n] : n \in 1..SelectInSeq(s, LAMBDA f : f = e)-1}
  IN  [e \in held(p, c) |-> IF Contains(s, e) THEN myoffset(p) + Cardinality(earlier(e)) ELSE -1]

-----------------------------------------------------------------------------
Contribute(p, n) == counted' = [counted EXCEPT ![p] = Append(@, n)]

ConstructIndexSet(p) ==
  /\ stage[p] = "idle"
  /\ \E codim \in Codims, l \in Levels(p) :
       LET c == [codim |-> codim, level |-> l]
       IN  /\ MakesCall(p, [name |-> "GlobalIndexSet", arg |-> c])
           /\ globalIndex' = [globalIndex EXCEPT ![p] = <<>>]
           /\ IF codim = 0
              THEN /\ Contribute(p, totalsize(interior(level[p][l], Dir)))
                   /\ stage' = [stage EXCEPT ![p] = "counts"]
                   /\ UNCHANGED <<outbox, expected, assignment>>
              ELSE /\ assignment' = [assignment EXCEPT ![p] =
                        [e \in held(p, c) |-> IF ownable(p, l, e) THEN p ELSE -1]]
                   /\ PostValues(p, c, assignment'[p])
                   /\ stage' = [stage EXCEPT ![p] = "owners"]
                   /\ UNCHANGED counted
  /\ UNCHANGED <<args, dims, phase, level, keep_ovlp, todo, published, left, sizes, got>>

(* MinimumExchange, numOwners() *)
OwnersExchanged(p) ==
  /\ stage[p] = "owners" /\ Arrived(p)
  /\ assignment' = [assignment EXCEPT ![p] = scatterAll(p, @, minimum)]
  /\ Contribute(p, Cardinality({e \in DOMAIN assignment[p] : assignment'[p][e] = p}))
  /\ stage' = [stage EXCEPT ![p] = "counts"]
  /\ UNCHANGED <<vars, left, outbox, expected, sizes, got, globalIndex>>

(* The collective sum and allgather; then stage 1. *)
CountsGathered(p) ==
  /\ stage[p] = "counts"
  /\ \A q \in Procs : Len(counted[q]) >= Len(counted[p])
  /\ globalIndex' = [globalIndex EXCEPT ![p] = numbered(p, call(p))]
  /\ PostValues(p, call(p), globalIndex'[p])
  /\ stage' = [stage EXCEPT ![p] = "indices"]
  /\ UNCHANGED <<vars, left, sizes, got, assignment, counted>>

(* IndexExchange: stage 2. *)
IndicesExchanged(p) ==
  /\ stage[p] = "indices" /\ Arrived(p)
  /\ globalIndex' = [globalIndex EXCEPT ![p] = scatterAll(p, @, valid)]
  /\ stage' = [stage EXCEPT ![p] = "idle"]
  /\ UNCHANGED <<vars, left, outbox, expected, sizes, got, assignment, counted>>

-----------------------------------------------------------------------------
IndexInit ==
  /\ CommInit
  /\ assignment = [p \in Procs |-> <<>>]
  /\ counted = [p \in Procs |-> <<>>]
  /\ globalIndex = [p \in Procs |-> <<>>]

IndexInside(p) == OwnersExchanged(p) \/ CountsGathered(p) \/ IndicesExchanged(p)

(* What a process does without waiting for the user. *)
Proceeds(p) ==
  \/ Inside(p) /\ UNCHANGED <<commVars, indexVars>>
  \/ CommInside(p) /\ UNCHANGED indexVars
  \/ IndexInside(p)

Calls(p) ==
  \/ (GridCall(p) \/ Communicate(p)) /\ UNCHANGED indexVars
  \/ ConstructIndexSet(p)

IndexStopped == Stopped /\ (\A p \in Procs : stage[p] = "idle") /\ UNCHANGED <<commVars, indexVars>>

IndexNext ==
  \/ \E p \in Procs : Proceeds(p) \/ Calls(p)
  \/ IndexStopped

(* A process that is not waiting for others and has something to do: inside*)
(* a call, or a call to make that another process has made already, since  *)
(* all run the same program.                                               *)
Due(p) ==
  CASE phase[p] = "start" -> TRUE
    [] phase[p] = "exchange" -> \A q \in Partners(p) : Len(published[q]) >= Len(published[p])
    [] phase[p] = "ready" /\ stage[p] = "counts" ->
         \A q \in Procs : Len(counted[q]) >= Len(counted[p])
    [] phase[p] = "ready" /\ stage[p] \in {"sizes", "data", "owners", "indices"} -> Arrived(p)
    [] phase[p] = "ready" /\ stage[p] = "idle" -> todo[p] > 0 \/ done[p] < Len(calls)
    [] OTHER -> FALSE

Steps(p) == Due(p) /\ (Proceeds(p) \/ Calls(p))

(* Weak fairness: a process that is due does not stay so without a step.   *)
(* (WF_allVars(Steps(p)), with the condition under which Steps(p) is       *)
(* enabled written out.)  The program may end anywhere.                    *)
Fairness(p) == (<>[](p \in Procs /\ Due(p))) => []<><<p \in Procs /\ Steps(p)>>_allVars

IndexSpec == IndexInit /\ [][IndexNext]_allVars /\ \A p \in 0..MaxProcs-1 : Fairness(p)

-----------------------------------------------------------------------------
(* The processes of two constructors do not mix: what is exchanged belongs *)
(* to the constructor the process is in.                                   *)
IndexTypeOK ==
  /\ CommTypeOK
  /\ \A p \in Procs :
    /\ stage[p] \in {"owners", "counts", "indices"} => calls[done[p]].name = "GlobalIndexSet"
    /\ stage[p] = "indices" => DOMAIN globalIndex[p] = held(p, call(p))

IndexSetsReady ==
  /\ \A p \in Procs : stage[p] = "idle" /\ phase[p] = "ready"
  /\ \A p, q \in Procs : done[p] = done[q]
  /\ calls # <<>> /\ done[0] = Len(calls) /\ calls[done[0]].name = "GlobalIndexSet"

(* No process is its own neighbour across a periodic boundary. *)
NoSelfNeighbor == \A i \in args.periodic : dims[i] > 1

Indexed(c) == UNION {{<<p, e>> : e \in held(p, c)} : p \in Procs}
SameEntity(a, b, l) == a[1] = b[1] /\ Same(a[2], b[2], l)

(* "globally unique index over all processes": every copy of an entity has *)
(* the same index on every process, different entities have different      *)
(* ones, and together they are 0..size-1, unless a process meets itself    *)
(* across a periodic boundary: there it owns both copies of what lies on   *)
(* the boundary.                                                           *)
GlobalIndices ==
  IndexSetsReady /\ NoSelfNeighbor /\ Accepted =>
    LET c == calls[done[0]].arg
        index(h) == globalIndex[h[1]][h[2]]
        nGlobalEntity == SumFunction([q \in Procs |-> counted[q][Len(counted[q])]])
    IN  /\ \A g, h \in Indexed(c) : index(g) = index(h) <=> SameEntity(g[2], h[2], c.level)
        /\ {index(h) : h \in Indexed(c)} = 0..nGlobalEntity-1

(* Every call that all processes can make ends, that of the constructor    *)
(* and of globalRefine() included: no process waits for a message nobody   *)
(* sends, whatever the order in which they arrive.                         *)
Calling(p) == stage[p] # "idle" \/ (Wide /\ phase[p] # "ready")

CallsReturn ==
  \A p \in 0..MaxProcs-1 : (p \in Procs /\ Calling(p)) ~> (p \in Procs => ~Calling(p))
=============================================================================

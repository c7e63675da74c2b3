----------------------------- MODULE YaspAdapt -----------------------------
(***************************************************************************)
(* The adaptation cycle of a parallel YaspGrid (dune/grid/yaspgrid.hh):    *)
(* mark, preAdapt, adapt, postAdapt, and globalRefine called directly.     *)
(*                                                                         *)
(* A YaspGrid is refined as a whole: marks are reduced to one number per   *)
(* process, preAdapt() takes the maximum over all processes, and adapt()   *)
(* refines that many times.  All processes make the same calls ("calls",   *)
(* written by the process that gets there first) but each sets its own     *)
(* marks.  A process waits for all others in the maximum, and for its      *)
(* neighbours whenever it makes a level (module YaspGrid).                 *)
(***************************************************************************)
EXTENDS Integers, Sequences, FiniteSets, FiniteSetsExt

CONSTANTS
  Procs,
  Neighbors,   \* Neighbors[p]: the processes p exchanges grids with
  Counts,      \* arguments of mark() and globalRefine() to consider
  MaxCalls,    \* bound: calls in the program
  LevelLimit   \* bound: maxLevel()

ASSUME ProcsAssumption == Procs # {} /\ IsFiniteSet(Procs)
ASSUME NeighborsAssumption == Neighbors \in [Procs -> SUBSET Procs]
ASSUME CountsAssumption == Counts \subseteq Int
ASSUME LimitsAssumption == MaxCalls \in Nat /\ LevelLimit \in Nat

VARIABLES
  pc,             \* "idle", or where in adapt() / globalRefine() a process is
  adaptActive,
  adaptRefCount,
  maxLevel,
  toMake,         \* levels globalRefine() has still to make
  calls, done,    \* the program, and how many of its calls a process has begun
  maxed,          \* what a process contributed to the maxima, one per preAdapt()
  made,           \* the level numbers of a process' calls of makelevel()
  returned,       \* what adapt() returned to a process, one entry per call
  asked           \* asked[n]: marks set on finest elements before the n-th preAdapt()

vars == <<pc, adaptActive, adaptRefCount, maxLevel, toMake, calls, done,
          maxed, made, returned, asked>>

Init ==
  /\ pc = [p \in Procs |-> "idle"]
  /\ adaptActive = [p \in Procs |-> FALSE]
  /\ adaptRefCount = [p \in Procs |-> 0]
  /\ maxLevel = [p \in Procs |-> 0]
  /\ toMake = [p \in Procs |-> 0]
  /\ calls = <<>>
  /\ done = [p \in Procs |-> 0]
  /\ maxed = [p \in Procs |-> <<>>]
  /\ made = [p \in Procs |-> <<>>]
  /\ returned = [p \in Procs |-> <<>>]
  /\ asked = [n \in 1..MaxCalls+1 |-> {}]

larger(a, b) == IF a > b THEN a ELSE b

(* The last mark counts. *)
Mark_last(p) ==
  \E refCount \in Counts :
    /\ pc[p] = "idle" /\ ~adaptActive[p] /\ done[p] < MaxCalls
    /\ maxLevel[p] + refCount <= LevelLimit
    /\ adaptRefCount' = [adaptRefCount EXCEPT ![p] = refCount]
    /\ asked' = [asked EXCEPT ![Len(maxed[p])+1] = @ \cup {refCount}]
    /\ UNCHANGED <<pc, adaptActive, maxLevel, toMake, calls, done, maxed, made, returned>>

(* mark(refCount, e) for an element e of level l; only elements of the     *)
(* finest level are marked, and all of them are.                           *)
Mark(p) ==
  \E refCount \in Counts, l \in 0..maxLevel[p] :
    /\ pc[p] = "idle" /\ ~adaptActive[p] /\ done[p] < MaxCalls
    /\ maxLevel[p] + refCount <= LevelLimit
    /\ IF l = maxLevel[p]
       THEN /\ adaptRefCount' = [adaptRefCount EXCEPT ![p] = larger(@, refCount)]
            /\ asked' = [asked EXCEPT ![Len(maxed[p])+1] = @ \cup {refCount}]
       ELSE UNCHANGED <<adaptRefCount, asked>>
    /\ UNCHANGED <<pc, adaptActive, maxLevel, toMake, calls, done, maxed, made, returned>>

(* Process p makes the call c, the next one of the common program. *)
MakesCall(p, c) ==
  /\ pc[p] = "idle"
  /\ IF done[p] < Len(calls)
     THEN c = calls[done[p]+1] /\ UNCHANGED calls
     ELSE Len(calls) < MaxCalls /\ calls' = Append(calls, c)
  /\ done' = [done EXCEPT ![p] = @ + 1]

(* preAdapt(), up to the maximum over all processes ... *)
PreAdapt(p) ==
  /\ MakesCall(p, [name |-> "adapt"])
  /\ adaptActive' = [adaptActive EXCEPT ![p] = TRUE]
  /\ maxed' = [maxed EXCEPT ![p] = Append(@, adaptRefCount[p])]
  /\ pc' = [pc EXCEPT ![p] = "max"]
  /\ UNCHANGED <<adaptRefCount, maxLevel, toMake, made, returned, asked>>

(* Nobody waits: the maximum is over the values that have been given. *)
Maximum_nowait(p) ==
  LET n == Len(maxed[p])
  IN  /\ pc[p] = "max"
      /\ adaptRefCount' = [adaptRefCount EXCEPT ![p] =
           Max({maxed[q][n] : q \in {q \in Procs : Len(maxed[q]) >= n}})]
      /\ pc' = [pc EXCEPT ![p] = "preadapted"]
      /\ UNCHANGED <<adaptActive, maxLevel, toMake, calls, done, maxed, made, returned, asked>>

(* ... and from there. *)
Maximum(p) ==
  LET n == Len(maxed[p])
  IN  /\ pc[p] = "max"
      /\ \A q \in Procs : Len(maxed[q]) >= n
      /\ adaptRefCount' = [adaptRefCount EXCEPT ![p] = Max({maxed[q][n] : q \in Procs})]
      /\ pc' = [pc EXCEPT ![p] = "preadapted"]
      /\ UNCHANGED <<adaptActive, maxLevel, toMake, calls, done, maxed, made, returned, asked>>

(* globalRefine(): a negative count removes levels, or throws if there are *)
(* not as many.                                                            *)
globalRefine(p, refCount) ==
  /\ refCount >= -maxLevel[p]
  /\ maxLevel' = [maxLevel EXCEPT ![p] = IF refCount < 0 THEN @ + refCount ELSE @]
  /\ toMake' = [toMake EXCEPT ![p] = larger(refCount, 0)]
  /\ pc' = [pc EXCEPT ![p] = "refine"]

GlobalRefine(p) ==
  \E refCount \in Counts :
    /\ maxLevel[p] + refCount <= LevelLimit
    /\ MakesCall(p, [name |-> "globalRefine", refCount |-> refCount])
    /\ IF refCount < -maxLevel[p] THEN UNCHANGED <<pc, maxLevel, toMake>>
                                  ELSE globalRefine(p, refCount)
    /\ UNCHANGED <<adaptActive, adaptRefCount, maxed, made, returned, asked>>

Adapt(p) ==
  /\ pc[p] = "preadapted"
  /\ globalRefine(p, adaptRefCount[p])
  /\ UNCHANGED <<adaptActive, adaptRefCount, calls, done, maxed, made, returned, asked>>

(* One more level, up to the exchange with the neighbours ... *)
MakeLevel(p) ==
  /\ pc[p] = "refine" /\ toMake[p] > 0
  /\ maxLevel' = [maxLevel EXCEPT ![p] = @ + 1]
  /\ made' = [made EXCEPT ![p] = Append(@, maxLevel'[p])]
  /\ toMake' = [toMake EXCEPT ![p] = @ - 1]
  /\ pc' = [pc EXCEPT ![p] = "exchange"]
  /\ UNCHANGED <<adaptActive, adaptRefCount, calls, done, maxed, returned, asked>>

(* The processes wait for neighbours that are ahead of them. *)
Exchanged_ahead(p) ==
  /\ pc[p] = "exchange"
  /\ \A q \in Neighbors[p] : Len(made[q]) > Len(made[p])
  /\ pc' = [pc EXCEPT ![p] = "refine"]
  /\ UNCHANGED <<adaptActive, adaptRefCount, maxLevel, toMake, calls, done,
                 maxed, made, returned, asked>>

(* ... and after it. *)
Exchanged(p) ==
  /\ pc[p] = "exchange"
  /\ \A q \in Neighbors[p] : Len(made[q]) >= Len(made[p])
  /\ pc' = [pc EXCEPT ![p] = "refine"]
  /\ UNCHANGED <<adaptActive, adaptRefCount, maxLevel, toMake, calls, done,
                 maxed, made, returned, asked>>

(* globalRefine() returns, to adapt() if that called it. *)
Refined(p) ==
  /\ pc[p] = "refine" /\ toMake[p] = 0
  /\ IF adaptActive[p]
     THEN /\ pc' = [pc EXCEPT ![p] = "adapted"]
          /\ returned' = [returned EXCEPT ![p] = Append(@, adaptRefCount[p] > 0)]
     ELSE /\ pc' = [pc EXCEPT ![p] = "idle"]
          /\ UNCHANGED returned
  /\ UNCHANGED <<adaptActive, adaptRefCount, maxLevel, toMake, calls, done, maxed, made, asked>>

(* The marks are left as they are. *)
PostAdapt_keepsmarks(p) ==
  /\ pc[p] = "adapted"
  /\ pc' = [pc EXCEPT ![p] = "idle"]
  /\ adaptActive' = [adaptActive EXCEPT ![p] = FALSE]
  /\ UNCHANGED <<adaptRefCount, maxLevel, toMake, calls, done, maxed, made, returned, asked>>

PostAdapt(p) ==
  /\ pc[p] = "adapted"
  /\ pc' = [pc EXCEPT ![p] = "idle"]
  /\ adaptActive' = [adaptActive EXCEPT ![p] = FALSE]
  /\ adaptRefCount' = [adaptRefCount EXCEPT ![p] = 0]
  /\ UNCHANGED <<maxLevel, toMake, calls, done, maxed, made, returned, asked>>

Finished ==
  /\ \A p \in Procs : pc[p] = "idle" /\ done[p] = MaxCalls
  /\ UNCHANGED vars

Begin(p) == PreAdapt(p) \/ GlobalRefine(p)

Inside(p) ==
  Maximum(p) \/ Adapt(p) \/ MakeLevel(p) \/ Exchanged(p) \/ Refined(p) \/ PostAdapt(p)

Next == (\E p \in Procs : Mark(p) \/ Begin(p) \/ Inside(p)) \/ Finished

(* A process that is inside a call goes on, and makes the calls the others *)
(* have made; the program may end after any call.                          *)
Spec ==
  /\ Init /\ [][Next]_vars
  /\ \A p \in Procs : WF_vars(Inside(p)) /\ WF_vars(done[p] < Len(calls) /\ Begin(p))
-----------------------------------------------------------------------------
(* The types, and what the program counter says about the flags: marks are *)
(* not negative, levels are made for a positive count only, and no level   *)
(* is left to be made outside globalRefine().                              *)
TypeOK ==
  /\ pc \in [Procs -> {"idle", "max", "preadapted", "refine", "exchange", "adapted"}]
  /\ adaptActive \in [Procs -> BOOLEAN]
  /\ adaptRefCount \in [Procs -> Nat]
  /\ maxLevel \in [Procs -> Nat]
  /\ toMake \in [Procs -> Nat]
  /\ done \in [Procs -> 0..Len(calls)]
  /\ \A p \in Procs :
       /\ pc[p] \in {"max", "preadapted", "adapted"} => adaptActive[p]
       /\ pc[p] = "idle" => ~adaptActive[p]
       /\ pc[p] \notin {"refine", "exchange"} => toMake[p] = 0

(* The n-th level two processes make has the same number in both, so the   *)
(* grids they exchange belong to the same level, and adapt() returns the   *)
(* same on both, however far one is ahead: the maximum in preAdapt() makes *)
(* local marks global.  Between calls, processes that have made the same   *)
(* calls have the same finest level.                                       *)
Agree(s, t) == \A n \in 1..Len(s) : n <= Len(t) => s[n] = t[n]

LevelsAgree ==
  \A p, q \in Procs :
    /\ Agree(made[p], made[q]) /\ Agree(returned[p], returned[q])
    /\ pc[p] = "idle" /\ pc[q] = "idle" /\ done[p] = done[q] => maxLevel[p] = maxLevel[q]

(* An element of the finest level that some process marked for refinement  *)
(* before the others got to preAdapt() is refined by this adapt(), as many *)
(* times as it was marked, on every process; without such a mark nothing   *)
(* is refined.  adapt() says whether it was.                               *)
MarksCount ==
  \A p \in Procs :
    LET n == Len(maxed[p])
        most == Max(asked[n] \cup {0})
    IN  pc[p] = "adapted" =>
          /\ Len(made[p]) >= most
          /\ \A k \in 1..most : made[p][Len(made[p]) - most + k] = maxLevel[p] - most + k
          /\ returned[p][Len(returned[p])] <=> most > 0

(* Every call comes to its end on every process. *)
Returns == \A p \in Procs : pc[p] # "idle" ~> pc[p] = "idle"

(* "Negative value means coarsening", and "marking one element will mark   *)
(* all other elements of the level as well": when the call before was an   *)
(* adapt(), which has cleared the marks, the finest level it left is not   *)
(* the coarsest, and all marks set on that level since are negative, then  *)
(* the next adapt() removes a level.                                       *)
OnlyNegative(marks) == marks # {} /\ \A k \in marks : k < 0

NegativeMarksCoarsen ==
  [][\A p \in Procs :
       /\ pc[p] = "preadapted" /\ pc'[p] # "preadapted"
       /\ maxLevel[p] > 0
       /\ done[p] > 1 /\ calls[done[p]-1].name = "adapt"
       /\ OnlyNegative(asked[Len(maxed[p])])
       => maxLevel'[p] < maxLevel[p]]_vars

(* "The state after globalRefine is comparable to the state after          *)
(* postAdapt": no mark is left.                                            *)
NoMarkAfterRefine ==
  [][\A p \in Procs : Refined(p) /\ ~adaptActive[p] => adaptRefCount'[p] = 0]_vars
=============================================================================

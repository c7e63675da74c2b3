------------------------- MODULE YaspAdapt_proofs -------------------------
(***************************************************************************)
(* That the adaptation cycle keeps the processes of a YaspGrid together,   *)
(* for every set of processes, every neighbourhood and every set of        *)
(* counts: the types, the agreement of the levels, and that marks count.   *)
(***************************************************************************)
EXTENDS YaspAdapt, SequenceTheorems, FiniteSetTheorems, TLAPS

(* The largest number of a finite set.  The sets of larger numbers are     *)
(* ordered by inclusion, and a smallest one of them is empty.              *)
LEMMA LargestExists ==
  ASSUME NEW S \in SUBSET Int, S # {}, IsFiniteSet(S)
  PROVE  \E x \in S : \A y \in S : x >= y
<1> DEFINE above(x) == {y \in S : y > x}
           T == {A \in SUBSET S : \E x \in S : A = above(x)}
<1>1. IsWellFoundedOn(StrictSubsetOrdering(S), FiniteSubsetsOf(S))
  BY FS_StrictSubsetOrderingWellFounded
<1>2. T \subseteq FiniteSubsetsOf(S)
  BY FS_Subset DEF FiniteSubsetsOf
<1>3. T # {}
  OBVIOUS
<1>4. PICK A \in T : \A B \in T : ~(<<B, A>> \in StrictSubsetOrdering(S))
  <2> HIDE DEF T
  <2>1. QED  BY <1>1, <1>2, <1>3, WFMin
<1>5. PICK x \in S : A = above(x)
  OBVIOUS
<1>6. ASSUME NEW y \in S, y > x PROVE FALSE
  <2>1. above(y) \in T
    OBVIOUS
  <2>2. above(y) \subseteq A
    <3>1. \A z \in S : z \in Int /\ x \in Int /\ y \in Int
      OBVIOUS
    <3>2. \A z \in S : z > y => z > x
      BY <1>6, <3>1
    <3>3. QED  BY <1>5, <3>2
  <2>3. y \in A /\ y \notin above(y)
    BY <1>5, <1>6
  <2>4. <<above(y), A>> \in StrictSubsetOrdering(S)
    BY <2>1, <2>2, <2>3 DEF StrictSubsetOrdering
  <2>5. QED  BY <1>4, <2>1, <2>4
<1>7. QED  BY <1>6

LEMMA MaxOf ==
  ASSUME NEW S \in SUBSET Int, S # {}, IsFiniteSet(S)
  PROVE  Max(S) \in S /\ \A y \in S : Max(S) >= y
BY LargestExists DEF Max

LEMMA MaxIs ==
  ASSUME NEW S \in SUBSET Int, NEW x \in S, \A y \in S : x >= y
  PROVE  Max(S) = x
<1>1. Max(S) \in S /\ \A y \in S : Max(S) >= y
  BY DEF Max
<1>2. Max(S) \in Int /\ x \in Int /\ Max(S) >= x /\ x >= Max(S)
  BY <1>1
<1>3. QED  BY <1>2

(* What the processes give is a finite set. *)
LEMMA GivenFinite ==
  ASSUME NEW f
  PROVE  IsFiniteSet({f[q] : q \in Procs})
<1> DEFINE T == {f[q] : q \in Procs}
           g == [q \in Procs |-> f[q]]
<1>1. g \in Surjection(Procs, T)
  BY DEF Surjection
<1>2. QED  BY <1>1, FS_Surjection, ProcsAssumption

LEMMA MaximumOfAll ==
  ASSUME NEW f, \A q \in Procs : f[q] \in Nat
  PROVE  /\ Max({f[q] : q \in Procs}) \in Nat
         /\ \E q \in Procs : Max({f[r] : r \in Procs}) = f[q]
         /\ \A q \in Procs : Max({f[r] : r \in Procs}) >= f[q]
<1> DEFINE T == {f[q] : q \in Procs}
<1>1. T \in SUBSET Int /\ T # {} /\ IsFiniteSet(T)
  BY GivenFinite, ProcsAssumption
<1>2. Max(T) \in T /\ \A y \in T : Max(T) >= y
  <2> HIDE DEF T
  <2>1. QED  BY <1>1, MaxOf
<1>3. QED  BY <1>2
-----------------------------------------------------------------------------
Call == {[name |-> "adapt"]}
        \cup {[name |-> "globalRefine", refCount |-> r] : r \in Counts}

(* The types of what is only recorded.  A process that waits for the       *)
(* maximum has given its number, and it gives one per call at most.        *)
LogTypes ==
  /\ calls \in Seq(Call) /\ Len(calls) <= MaxCalls
  /\ maxed \in [Procs -> Seq(Nat)]
  /\ made \in [Procs -> Seq(Nat)]
  /\ returned \in [Procs -> Seq(BOOLEAN)]
  /\ asked \in [1..MaxCalls+1 -> SUBSET Counts]
  /\ \A p \in Procs :
       /\ Len(maxed[p]) <= done[p]
       /\ pc[p] = "max" => maxed[p] # <<>>

TypeInv == TypeOK /\ LogTypes

LEMMA AppendTo ==
  ASSUME NEW S, NEW q \in Seq(S), NEW x \in S
  PROVE  /\ Append(q, x) \in Seq(S) /\ Len(Append(q, x)) = Len(q) + 1
         /\ \A j \in 1..Len(q) : Append(q, x)[j] = q[j]
         /\ Append(q, x)[Len(q) + 1] = x
         /\ Append(q, x) # <<>>
<1>1. /\ Append(q, x) \in Seq(S) /\ Len(Append(q, x)) = Len(q) + 1
      /\ \A j \in 1..Len(q) : Append(q, x)[j] = q[j]
      /\ Append(q, x)[Len(q) + 1] = x
  OBVIOUS
<1>2. QED  BY <1>1

LEMMA MakesCallTypes ==
  ASSUME TypeInv, NEW p \in Procs, NEW c \in Call, MakesCall(p, c)
  PROVE  /\ calls' \in Seq(Call) /\ Len(calls') <= MaxCalls
         /\ Len(calls) <= Len(calls')
         /\ \A k \in 1..Len(calls) : calls'[k] = calls[k]
         /\ done[p] + 1 \in 1..Len(calls')
         /\ calls'[done[p] + 1] = c
         /\ done' \in [Procs -> 0..Len(calls')]
         /\ \A q \in Procs : done'[q] = IF q = p THEN done[p] + 1 ELSE done[q]
<1>1. /\ calls \in Seq(Call) /\ Len(calls) \in Nat /\ Len(calls) <= MaxCalls
      /\ done \in [Procs -> 0..Len(calls)] /\ MaxCalls \in Nat
  BY LimitsAssumption DEF TypeInv, TypeOK, LogTypes
<1>2. /\ calls' \in Seq(Call) /\ Len(calls') <= MaxCalls
      /\ Len(calls) <= Len(calls') /\ Len(calls') \in Nat
      /\ \A k \in 1..Len(calls) : calls'[k] = calls[k]
      /\ done[p] + 1 \in 1..Len(calls')
      /\ calls'[done[p] + 1] = c
  <2>1. CASE done[p] < Len(calls)
    BY <1>1, <2>1 DEF MakesCall
  <2>2. CASE ~(done[p] < Len(calls))
    <3>1. calls' = Append(calls, c) /\ Len(calls) < MaxCalls /\ done[p] = Len(calls)
      BY <1>1, <2>2 DEF MakesCall
    <3>2. QED  BY <1>1, <3>1, AppendTo
  <2>3. QED  BY <2>1, <2>2
<1>3. done' = [done EXCEPT ![p] = @ + 1]
  BY DEF MakesCall
<1>4. QED  BY <1>1, <1>2, <1>3

LEMMA TypeInvInit ==
  ASSUME Init
  PROVE  TypeInv
<1>1. /\ \A p \in Procs : /\ pc[p] = "idle" /\ ~adaptActive[p] /\ toMake[p] = 0
                          /\ done[p] = 0 /\ maxed[p] = <<>>
      /\ calls = <<>> /\ Len(calls) = 0
  BY DEF Init
<1>2. TypeOK
  BY <1>1 DEF Init, TypeOK
<1>3. LogTypes
  <2>1. /\ calls \in Seq(Call) /\ Len(calls) <= MaxCalls
        /\ asked \in [1..MaxCalls+1 -> SUBSET Counts]
    BY <1>1, LimitsAssumption DEF Init
  <2>2. /\ maxed \in [Procs -> Seq(Nat)] /\ made \in [Procs -> Seq(Nat)]
        /\ returned \in [Procs -> Seq(BOOLEAN)]
    BY DEF Init
  <2>3. QED  BY <1>1, <2>1, <2>2 DEF LogTypes
<1>4. QED  BY <1>2, <1>3 DEF TypeInv

LEMMA TypeInvMark ==
  ASSUME TypeInv, NEW p \in Procs, Mark(p)
  PROVE  TypeInv'
<1>1. /\ UNCHANGED <<pc, adaptActive, maxLevel, toMake, calls, done, maxed, made, returned>>
      /\ ~adaptActive[p]
  BY DEF Mark
<1>2. adaptRefCount' \in [Procs -> Nat] /\ asked' \in [1..MaxCalls+1 -> SUBSET Counts]
  <2>1. PICK refCount \in Counts, l \in 0..maxLevel[p] :
          IF l = maxLevel[p]
            THEN /\ adaptRefCount' = [adaptRefCount EXCEPT ![p] = larger(@, refCount)]
                 /\ asked' = [asked EXCEPT ![Len(maxed[p])+1] = @ \cup {refCount}]
            ELSE UNCHANGED <<adaptRefCount, asked>>
    BY DEF Mark
  <2>2. /\ adaptRefCount \in [Procs -> Nat] /\ larger(adaptRefCount[p], refCount) \in Nat
        /\ asked \in [1..MaxCalls+1 -> SUBSET Counts]
    BY CountsAssumption DEF TypeInv, TypeOK, LogTypes, larger
  <2>3. CASE l = maxLevel[p]
    BY <2>1, <2>2, <2>3
  <2>4. CASE l # maxLevel[p]
    BY <2>1, <2>2, <2>4
  <2>5. QED  BY <2>3, <2>4
<1>3. QED  BY <1>1, <1>2 DEF TypeInv, TypeOK, LogTypes

LEMMA TypeInvPreAdapt ==
  ASSUME TypeInv, NEW p \in Procs, PreAdapt(p)
  PROVE  TypeInv'
<1> DEFINE c == [name |-> "adapt"]
<1>1. /\ MakesCall(p, c) /\ c \in Call
      /\ adaptActive' = [adaptActive EXCEPT ![p] = TRUE]
      /\ maxed' = [maxed EXCEPT ![p] = Append(@, adaptRefCount[p])]
      /\ pc' = [pc EXCEPT ![p] = "max"]
      /\ UNCHANGED <<adaptRefCount, maxLevel, toMake, made, returned, asked>>
      /\ pc[p] = "idle"
  BY DEF PreAdapt, Call, MakesCall
<1> HIDE DEF c
<1>2. /\ calls' \in Seq(Call) /\ Len(calls') <= MaxCalls
      /\ done' \in [Procs -> 0..Len(calls')]
      /\ \A q \in Procs : done'[q] = IF q = p THEN done[p] + 1 ELSE done[q]
  BY <1>1, MakesCallTypes
<1>3. /\ maxed' \in [Procs -> Seq(Nat)]
      /\ \A q \in Procs : /\ q # p => maxed'[q] = maxed[q]
                          /\ q = p => /\ maxed'[q] # <<>>
                                      /\ Len(maxed'[q]) = Len(maxed[q]) + 1
  <2>1. maxed \in [Procs -> Seq(Nat)] /\ maxed[p] \in Seq(Nat) /\ adaptRefCount[p] \in Nat
    BY DEF TypeInv, TypeOK, LogTypes
  <2>2. /\ Append(maxed[p], adaptRefCount[p]) \in Seq(Nat)
        /\ Append(maxed[p], adaptRefCount[p]) # <<>>
        /\ Len(Append(maxed[p], adaptRefCount[p])) = Len(maxed[p]) + 1
    BY <2>1, AppendTo
  <2>3. QED  BY <1>1, <2>1, <2>2
<1>4. TypeOK'
  BY <1>1, <1>2 DEF TypeInv, TypeOK
<1>5. LogTypes'
  <2>1. ASSUME NEW q \in Procs
        PROVE  Len(maxed'[q]) <= done'[q] /\ (pc'[q] = "max" => maxed'[q] # <<>>)
    <3>1. /\ Len(maxed[q]) <= done[q] /\ Len(maxed[q]) \in Nat /\ done[q] \in Nat
          /\ pc[q] = "max" => maxed[q] # <<>>
          /\ pc'[q] = IF q = p THEN "max" ELSE pc[q]
      BY <1>1 DEF TypeInv, TypeOK, LogTypes
    <3>2. QED  BY <1>2, <1>3, <3>1
  <2>2. QED  BY <1>1, <1>2, <1>3, <2>1 DEF TypeInv, LogTypes
<1>6. QED  BY <1>4, <1>5 DEF TypeInv

LEMMA TypeInvMaximum ==
  ASSUME TypeInv, NEW p \in Procs, Maximum(p)
  PROVE  TypeInv'
<1> DEFINE n == Len(maxed[p])
           f == [q \in Procs |-> maxed[q][n]]
<1>1. /\ pc[p] = "max"
      /\ \A q \in Procs : Len(maxed[q]) >= n
      /\ adaptRefCount' = [adaptRefCount EXCEPT ![p] = Max({maxed[q][n] : q \in Procs})]
      /\ pc' = [pc EXCEPT ![p] = "preadapted"]
      /\ UNCHANGED <<adaptActive, maxLevel, toMake, calls, done, maxed, made, returned, asked>>
  BY DEF Maximum
<1>2. \A q \in Procs : maxed[q] \in Seq(Nat) /\ maxed[q][n] \in Nat
  BY <1>1 DEF TypeInv, LogTypes
<1>3. Max({maxed[q][n] : q \in Procs}) \in Nat
  <2>1. {maxed[q][n] : q \in Procs} = {f[q] : q \in Procs}
    OBVIOUS
  <2>2. \A q \in Procs : f[q] \in Nat
    BY <1>2
  <2>3. QED
    <3> HIDE DEF f
    <3>1. QED  BY <2>1, <2>2, MaximumOfAll
<1>4. TypeOK'
  BY <1>1, <1>3 DEF TypeInv, TypeOK
<1>5. LogTypes'
  BY <1>1 DEF TypeInv, TypeOK, LogTypes
<1>6. QED  BY <1>4, <1>5 DEF TypeInv

(* globalRefine() on its own keeps the types. *)
LEMMA TypeInvInnerRefine ==
  ASSUME TypeInv, NEW p \in Procs, NEW r \in Int, globalRefine(p, r)
  PROVE  /\ pc' = [pc EXCEPT ![p] = "refine"]
         /\ maxLevel' \in [Procs -> Nat] /\ toMake' \in [Procs -> Nat]
         /\ \A q \in Procs : q # p => toMake'[q] = toMake[q]
<1>1. /\ maxLevel \in [Procs -> Nat] /\ toMake \in [Procs -> Nat]
      /\ r >= -maxLevel[p]
      /\ maxLevel' = [maxLevel EXCEPT ![p] = IF r < 0 THEN @ + r ELSE @]
      /\ toMake' = [toMake EXCEPT ![p] = larger(r, 0)]
      /\ pc' = [pc EXCEPT ![p] = "refine"]
  BY DEF TypeInv, TypeOK, globalRefine
<1>2. larger(r, 0) \in Nat
  BY DEF larger
<1>3. QED  BY <1>1, <1>2

LEMMA TypeInvGlobalRefine ==
  ASSUME TypeInv, NEW p \in Procs, GlobalRefine(p)
  PROVE  TypeInv'
<1>1. PICK r \in Counts :
        /\ MakesCall(p, [name |-> "globalRefine", refCount |-> r])
        /\ IF r < -maxLevel[p] THEN UNCHANGED <<pc, maxLevel, toMake>>
                               ELSE globalRefine(p, r)
        /\ UNCHANGED <<adaptActive, adaptRefCount, maxed, made, returned, asked>>
  BY DEF GlobalRefine
<1> DEFINE c == [name |-> "globalRefine", refCount |-> r]
<1>2. c \in Call /\ r \in Int /\ MakesCall(p, c) /\ pc[p] = "idle"
  BY <1>1, CountsAssumption DEF Call, MakesCall
<1> HIDE DEF c
<1>3. /\ calls' \in Seq(Call) /\ Len(calls') <= MaxCalls
      /\ done' \in [Procs -> 0..Len(calls')]
      /\ \A q \in Procs : done'[q] = IF q = p THEN done[p] + 1 ELSE done[q]
  BY <1>2, MakesCallTypes
<1>4. /\ pc' \in {pc, [pc EXCEPT ![p] = "refine"]}
      /\ maxLevel' \in [Procs -> Nat] /\ toMake' \in [Procs -> Nat]
      /\ \A q \in Procs : q # p => toMake'[q] = toMake[q]
      /\ pc'[p] = "refine" \/ toMake'[p] = toMake[p]
  <2>1. CASE r < -maxLevel[p]
    BY <1>1, <2>1 DEF TypeInv, TypeOK
  <2>2. CASE ~(r < -maxLevel[p])
    <3>1. globalRefine(p, r)
      BY <1>1, <2>2
    <3>2. pc \in [Procs -> {"idle", "max", "preadapted", "refine", "exchange", "adapted"}]
      BY DEF TypeInv, TypeOK
    <3>3. QED  BY <1>2, <3>1, <3>2, TypeInvInnerRefine
  <2>3. QED  BY <2>1, <2>2
<1>5. TypeOK'
  BY <1>1, <1>2, <1>3, <1>4 DEF TypeInv, TypeOK
<1>6. LogTypes'
  <2>1. ASSUME NEW q \in Procs
        PROVE  Len(maxed'[q]) <= done'[q] /\ (pc'[q] = "max" => maxed'[q] # <<>>)
    <3>1. Len(maxed[q]) <= done[q] /\ (pc[q] = "max" => maxed[q] # <<>>) /\ maxed'[q] = maxed[q]
      BY <1>1 DEF TypeInv, LogTypes
    <3>2. Len(maxed[q]) \in Nat /\ done[q] \in Nat
      BY DEF TypeInv, TypeOK, LogTypes
    <3>3. pc'[q] = "max" => pc[q] = "max"
      <4>1. pc \in [Procs -> {"idle", "max", "preadapted", "refine", "exchange", "adapted"}]
        BY DEF TypeInv, TypeOK
      <4>2. QED  BY <1>4, <4>1
    <3>4. QED  BY <1>3, <3>1, <3>2, <3>3
  <2>2. QED  BY <1>1, <1>3, <2>1 DEF TypeInv, LogTypes
<1>7. QED  BY <1>5, <1>6 DEF TypeInv

LEMMA TypeInvAdapt ==
  ASSUME TypeInv, NEW p \in Procs, Adapt(p)
  PROVE  TypeInv'
<1>1. /\ pc[p] = "preadapted" /\ adaptRefCount[p] \in Int
      /\ globalRefine(p, adaptRefCount[p])
      /\ UNCHANGED <<adaptActive, adaptRefCount, calls, done, maxed, made, returned, asked>>
  BY DEF Adapt, TypeInv, TypeOK
<1>2. /\ pc' = [pc EXCEPT ![p] = "refine"]
      /\ maxLevel' \in [Procs -> Nat] /\ toMake' \in [Procs -> Nat]
      /\ \A q \in Procs : q # p => toMake'[q] = toMake[q]
  BY <1>1, TypeInvInnerRefine
<1>3. TypeOK'
  BY <1>1, <1>2 DEF TypeInv, TypeOK
<1>4. LogTypes'
  BY <1>1, <1>2 DEF TypeInv, TypeOK, LogTypes
<1>5. QED  BY <1>3, <1>4 DEF TypeInv

LEMMA TypeInvMakeLevel ==
  ASSUME TypeInv, NEW p \in Procs, MakeLevel(p)
  PROVE  TypeInv'
<1>1. /\ pc[p] = "refine" /\ toMake[p] > 0
      /\ maxLevel' = [maxLevel EXCEPT ![p] = @ + 1]
      /\ made' = [made EXCEPT ![p] = Append(@, maxLevel'[p])]
      /\ toMake' = [toMake EXCEPT ![p] = @ - 1]
      /\ pc' = [pc EXCEPT ![p] = "exchange"]
      /\ UNCHANGED <<adaptActive, adaptRefCount, calls, done, maxed, returned, asked>>
  BY DEF MakeLevel
<1>2. maxLevel' \in [Procs -> Nat] /\ toMake' \in [Procs -> Nat] /\ maxLevel'[p] \in Nat
  BY <1>1 DEF TypeInv, TypeOK
<1>3. made' \in [Procs -> Seq(Nat)]
  <2>1. made \in [Procs -> Seq(Nat)] /\ Append(made[p], maxLevel'[p]) \in Seq(Nat)
    BY <1>2 DEF TypeInv, LogTypes
  <2>2. QED  BY <1>1, <2>1
<1>4. TypeOK'
  BY <1>1, <1>2 DEF TypeInv, TypeOK
<1>5. LogTypes'
  BY <1>1, <1>3 DEF TypeInv, TypeOK, LogTypes
<1>6. QED  BY <1>4, <1>5 DEF TypeInv

LEMMA TypeInvReturns ==
  ASSUME TypeInv, NEW p \in Procs, Exchanged(p) \/ Refined(p) \/ PostAdapt(p)
  PROVE  TypeInv'
<1>1. CASE Exchanged(p)
  BY <1>1 DEF Exchanged, TypeInv, TypeOK, LogTypes
<1>2. CASE Refined(p)
  <2>1. /\ pc[p] = "refine" /\ toMake[p] = 0
        /\ pc' = [pc EXCEPT ![p] = IF adaptActive[p] THEN "adapted" ELSE "idle"]
        /\ UNCHANGED <<adaptActive, adaptRefCount, maxLevel, toMake, calls, done, maxed, made, asked>>
        /\ returned' \in {returned, [returned EXCEPT ![p] = Append(@, adaptRefCount[p] > 0)]}
    BY <1>2 DEF Refined
  <2>2. returned' \in [Procs -> Seq(BOOLEAN)]
    <3>1. returned \in [Procs -> Seq(BOOLEAN)] /\ returned[p] \in Seq(BOOLEAN)
          /\ (adaptRefCount[p] > 0) \in BOOLEAN
      BY DEF TypeInv, LogTypes
    <3>2. Append(returned[p], adaptRefCount[p] > 0) \in Seq(BOOLEAN)
      BY <3>1, AppendTo
    <3>3. QED  BY <2>1, <3>1, <3>2
  <2>3. TypeOK'
    BY <2>1 DEF TypeInv, TypeOK
  <2>4. LogTypes'
    BY <2>1, <2>2 DEF TypeInv, TypeOK, LogTypes
  <2>5. QED  BY <2>3, <2>4 DEF TypeInv
<1>3. CASE PostAdapt(p)
  BY <1>3 DEF PostAdapt, TypeInv, TypeOK, LogTypes
<1>4. QED  BY <1>1, <1>2, <1>3

LEMMA TypeInvNext ==
  ASSUME TypeInv, [Next]_vars
  PROVE  TypeInv'
<1>1. CASE UNCHANGED vars
  BY <1>1 DEF vars, TypeInv, TypeOK, LogTypes
<1>2. ASSUME NEW p \in Procs, Mark(p) \/ Begin(p) \/ Inside(p)
      PROVE  TypeInv'
  BY <1>2, TypeInvMark, TypeInvPreAdapt, TypeInvGlobalRefine, TypeInvMaximum, TypeInvAdapt,
     TypeInvMakeLevel, TypeInvReturns DEF Begin, Inside
<1>3. QED  BY <1>1, <1>2 DEF Next, Finished

(* The types hold in every run: in particular the maximum in preAdapt() is *)
(* always over numbers that all processes have given, and a negative count *)
(* never takes maxLevel() below 0.                                         *)
THEOREM TypesOK == Spec => []TypeOK
<1>1. TypeInv => TypeOK
  BY DEF TypeInv
<1>2. QED  BY <1>1, TypeInvInit, TypeInvNext, PTL DEF Spec
-----------------------------------------------------------------------------
(* A process has passed the n-th maximum when it is done with it: then     *)
(* every process has given its n-th number.                                *)
Passed(p) == IF pc[p] = "max" THEN Len(maxed[p]) - 1 ELSE Len(maxed[p])

Barrier == \A p, q \in Procs : Passed(p) <= Len(maxed[q])

(* A call is in the program because a process has begun it. *)
Begun == \A k \in 1..Len(calls) : \E p \in Procs : k <= done[p]

(* A number given, or about to be given, is a mark or 0, and no mark is    *)
(* above all of them.                                                      *)
MarksInv ==
  /\ \A p \in Procs :
       /\ ~adaptActive[p] => adaptRefCount[p] \in asked[Len(maxed[p])+1] \cup {0}
       /\ \A n \in 1..Len(maxed[p]) : maxed[p][n] \in asked[n] \cup {0}
  /\ \A n \in 1..MaxCalls+1 : \A a \in asked[n] : \E q \in Procs :
       \/ n <= Len(maxed[q]) /\ a <= maxed[q][n]
       \/ n = Len(maxed[q]) + 1 /\ ~adaptActive[q] /\ a <= adaptRefCount[q]

(* Only preAdapt() has to do with the numbers given. *)
LEMMA GivenKept ==
  ASSUME TypeInv, NEW p \in Procs,
         Mark(p) \/ GlobalRefine(p) \/ Adapt(p) \/ MakeLevel(p) \/ Exchanged(p) \/ Refined(p)
           \/ PostAdapt(p)
  PROVE  /\ maxed' = maxed
         /\ \A q \in Procs : pc'[q] = "max" <=> pc[q] = "max"
<1>1. pc \in [Procs -> {"idle", "max", "preadapted", "refine", "exchange", "adapted"}]
  BY DEF TypeInv, TypeOK
<1>2. CASE Mark(p)
  BY <1>2 DEF Mark
<1>3. CASE GlobalRefine(p)
  <2>1. /\ pc[p] = "idle" /\ maxed' = maxed
        /\ pc' = pc \/ pc' = [pc EXCEPT ![p] = "refine"]
    BY <1>3 DEF GlobalRefine, MakesCall, globalRefine
  <2>2. QED  BY <1>1, <2>1
<1>4. CASE Adapt(p)
  BY <1>1, <1>4 DEF Adapt, globalRefine
<1>5. CASE MakeLevel(p)
  BY <1>1, <1>5 DEF MakeLevel
<1>6. CASE Exchanged(p) \/ PostAdapt(p)
  BY <1>1, <1>6 DEF Exchanged, PostAdapt
<1>7. CASE Refined(p)
  <2>1. /\ pc[p] = "refine" /\ maxed' = maxed
        /\ \/ pc' = [pc EXCEPT ![p] = "adapted"]
           \/ pc' = [pc EXCEPT ![p] = "idle"]
    BY <1>7 DEF Refined
  <2>2. QED  BY <1>1, <2>1
<1>8. QED  BY <1>2, <1>3, <1>4, <1>5, <1>6, <1>7

LEMMA BarrierNext ==
  ASSUME TypeInv, Barrier, [Next]_vars
  PROVE  Barrier'
<1>0. /\ pc \in [Procs -> {"idle", "max", "preadapted", "refine", "exchange", "adapted"}]
      /\ maxed \in [Procs -> Seq(Nat)]
      /\ \A q \in Procs : Len(maxed[q]) \in Nat /\ Passed(q) \in Int
  BY DEF TypeInv, TypeOK, LogTypes, Passed
<1>1. CASE UNCHANGED vars
  BY <1>1 DEF vars, Barrier, Passed
<1>2. ASSUME NEW p \in Procs, PreAdapt(p) PROVE Barrier'
  <2>1. /\ pc[p] = "idle" /\ pc' = [pc EXCEPT ![p] = "max"]
        /\ maxed' = [maxed EXCEPT ![p] = Append(@, adaptRefCount[p])]
    BY <1>2 DEF PreAdapt, MakesCall
  <2>2. Len(maxed'[p]) = Len(maxed[p]) + 1
    <3>1. maxed[p] \in Seq(Nat) /\ maxed'[p] = Append(maxed[p], adaptRefCount[p])
      BY <1>0, <2>1
    <3>2. adaptRefCount[p] \in Nat
      BY DEF TypeInv, TypeOK
    <3>3. QED  BY <3>1, <3>2, AppendTo
  <2>3. \A q \in Procs : /\ Passed(q)' = Passed(q)
                         /\ Len(maxed[q]) <= Len(maxed'[q]) /\ Len(maxed'[q]) \in Nat
    BY <1>0, <2>1, <2>2 DEF Passed
  <2>4. \A q, r \in Procs : Passed(q) <= Len(maxed[r])
    BY DEF Barrier
  <2>5. \A q, r \in Procs : Passed(q)' <= Len(maxed'[r])
    BY <1>0, <2>3, <2>4
  <2>6. QED  BY <2>5 DEF Barrier
<1>3. ASSUME NEW p \in Procs, Maximum(p) PROVE Barrier'
  <2>1. /\ pc' = [pc EXCEPT ![p] = "preadapted"] /\ maxed' = maxed
        /\ \A q \in Procs : Len(maxed[p]) <= Len(maxed[q])
    BY <1>0, <1>3 DEF Maximum
  <2>2. \A q \in Procs : Passed(q)' = IF q = p THEN Len(maxed[p]) ELSE Passed(q)
    BY <1>0, <2>1 DEF Passed
  <2>3. QED  BY <1>0, <2>1, <2>2 DEF Barrier
<1>4. ASSUME NEW p \in Procs,
             Mark(p) \/ GlobalRefine(p) \/ Adapt(p) \/ MakeLevel(p) \/ Exchanged(p) \/ Refined(p)
               \/ PostAdapt(p)
      PROVE  Barrier'
  <2>1. maxed' = maxed /\ \A q \in Procs : pc'[q] = "max" <=> pc[q] = "max"
    BY <1>4, GivenKept
  <2>2. QED  BY <2>1 DEF Barrier, Passed
<1>5. QED  BY <1>1, <1>2, <1>3, <1>4 DEF Next, Finished, Begin, Inside

LEMMA BegunNext ==
  ASSUME TypeInv, Begun, [Next]_vars
  PROVE  Begun'
<1>1. ASSUME NEW p \in Procs, NEW c \in Call, MakesCall(p, c) PROVE Begun'
  <2>1. /\ \A q \in Procs : done'[q] = IF q = p THEN done[p] + 1 ELSE done[q]
        /\ \A q \in Procs : done[q] \in Nat
    BY <1>1, MakesCallTypes DEF TypeInv, TypeOK
  <2>2. \/ calls' = calls
        \/ calls' = Append(calls, c) /\ Len(calls) <= done[p]
    BY <1>1, <2>1 DEF MakesCall, TypeInv, TypeOK, LogTypes
  <2>3. Len(calls) \in Nat /\ Len(Append(calls, c)) = Len(calls) + 1
    BY AppendTo DEF TypeInv, LogTypes
  <2>4. ASSUME NEW k \in 1..Len(calls') PROVE \E q \in Procs : k <= done'[q]
    <3>1. CASE k \in 1..Len(calls)
      <4>1. PICK q \in Procs : k <= done[q]
        BY <3>1 DEF Begun
      <4>2. k <= done'[q]
        BY <2>1, <4>1
      <4>3. QED  BY <4>2
    <3>2. CASE k \notin 1..Len(calls)
      <4>1. k <= done'[p]
        BY <2>1, <2>2, <2>3, <3>2
      <4>2. QED  BY <4>1
    <3>3. QED  BY <3>1, <3>2
  <2>5. QED  BY <2>4 DEF Begun
<1>2. CASE UNCHANGED <<calls, done>>
  BY <1>2 DEF Begun
<1>3. ASSUME NEW p \in Procs, Begin(p) PROVE Begun'
  BY <1>1, <1>3 DEF Begin, PreAdapt, GlobalRefine, Call
<1>4. QED
  BY <1>2, <1>3 DEF Next, Finished, Inside, vars, Mark, Maximum, Adapt, MakeLevel, Exchanged,
     Refined, PostAdapt

(* A step that gives more marks or larger counts to the same maximum. *)
LEMMA MarksKept ==
  ASSUME TypeInv, MarksInv, maxed' = maxed, asked' = asked,
         \A q \in Procs : ~adaptActive[q] =>
           ~adaptActive'[q] /\ adaptRefCount'[q] = adaptRefCount[q],
         \A q \in Procs : ~adaptActive'[q] =>
           adaptRefCount'[q] \in asked[Len(maxed[q])+1] \cup {0}
  PROVE  MarksInv'
<1>1. \A q \in Procs : /\ ~adaptActive'[q] => adaptRefCount'[q] \in asked'[Len(maxed'[q])+1] \cup {0}
                      /\ \A n \in 1..Len(maxed'[q]) : maxed'[q][n] \in asked'[n] \cup {0}
  BY DEF MarksInv
<1>2. ASSUME NEW n \in 1..MaxCalls+1, NEW a \in asked'[n]
      PROVE  \E q \in Procs :
               \/ n <= Len(maxed'[q]) /\ a <= maxed'[q][n]
               \/ n = Len(maxed'[q]) + 1 /\ ~adaptActive'[q] /\ a <= adaptRefCount'[q]
  <2>1. PICK q \in Procs :
          \/ n <= Len(maxed[q]) /\ a <= maxed[q][n]
          \/ n = Len(maxed[q]) + 1 /\ ~adaptActive[q] /\ a <= adaptRefCount[q]
    BY DEF MarksInv
  <2>2. QED  BY <2>1
<1>3. QED  BY <1>1, <1>2 DEF MarksInv

LEMMA MarksInvMark ==
  ASSUME TypeInv, MarksInv, NEW p \in Procs, Mark(p)
  PROVE  MarksInv'
<1> DEFINE N == Len(maxed[p]) + 1
<1>1. PICK refCount \in Counts, l \in 0..maxLevel[p] :
        IF l = maxLevel[p]
          THEN /\ adaptRefCount' = [adaptRefCount EXCEPT ![p] = larger(@, refCount)]
               /\ asked' = [asked EXCEPT ![Len(maxed[p])+1] = @ \cup {refCount}]
          ELSE UNCHANGED <<adaptRefCount, asked>>
  BY DEF Mark
<1>2. /\ ~adaptActive[p] /\ adaptActive' = adaptActive /\ maxed' = maxed
      /\ N \in 1..MaxCalls+1
  <2>1. ~adaptActive[p] /\ adaptActive' = adaptActive /\ maxed' = maxed /\ done[p] < MaxCalls
    BY DEF Mark
  <2>2. /\ Len(maxed[p]) \in Nat /\ Len(maxed[p]) <= done[p] /\ done[p] \in Nat /\ MaxCalls \in Nat
    BY LimitsAssumption DEF TypeInv, TypeOK, LogTypes
  <2>3. QED  BY <2>1, <2>2
<1>3. CASE l # maxLevel[p]
  BY <1>1, <1>2, <1>3 DEF MarksInv
<1>4. CASE l = maxLevel[p]
  <2>1. /\ \A q \in Procs : adaptRefCount[q] \in Nat
        /\ refCount \in Int
        /\ \A q \in Procs : adaptRefCount'[q] =
                            IF q = p THEN larger(adaptRefCount[p], refCount) ELSE adaptRefCount[q]
        /\ \A n \in 1..MaxCalls+1 : asked'[n] = IF n = N THEN asked[N] \cup {refCount} ELSE asked[n]
        /\ \A n \in 1..MaxCalls+1 : asked[n] \subseteq Int
        /\ \A q \in Procs : Len(maxed[q]) \in 0..MaxCalls
    <3>1. /\ adaptRefCount \in [Procs -> Nat] /\ asked \in [1..MaxCalls+1 -> SUBSET Counts]
          /\ refCount \in Int /\ Counts \subseteq Int
      BY CountsAssumption DEF TypeInv, TypeOK, LogTypes
    <3>2. \A q \in Procs : Len(maxed[q]) \in 0..MaxCalls
      BY LimitsAssumption DEF TypeInv, TypeOK, LogTypes
    <3>3. /\ adaptRefCount' = [adaptRefCount EXCEPT ![p] = larger(@, refCount)]
          /\ asked' = [asked EXCEPT ![N] = @ \cup {refCount}]
      BY <1>1, <1>4
    <3>4. QED  BY <1>2, <3>1, <3>2, <3>3
  <2>2. ASSUME NEW q \in Procs, ~adaptActive[q]
        PROVE  adaptRefCount'[q] \in asked'[Len(maxed[q])+1] \cup {0}
    <3>1. adaptRefCount[q] \in asked[Len(maxed[q])+1] \cup {0} /\ Len(maxed[q])+1 \in 1..MaxCalls+1
      BY <2>1, <2>2, LimitsAssumption DEF MarksInv
    <3>2. QED  BY <2>1, <3>1 DEF larger
  <2>3. ASSUME NEW q \in Procs, NEW n \in 1..Len(maxed[q])
        PROVE  maxed[q][n] \in asked'[n] \cup {0}
    <3>1. maxed[q][n] \in asked[n] \cup {0} /\ n \in 1..MaxCalls+1
      BY <2>1, LimitsAssumption DEF MarksInv
    <3>2. QED  BY <2>1, <3>1
  <2>4. ASSUME NEW n \in 1..MaxCalls+1, NEW a \in asked'[n]
        PROVE  \E q \in Procs :
                 \/ n <= Len(maxed[q]) /\ a <= maxed[q][n]
                 \/ n = Len(maxed[q]) + 1 /\ ~adaptActive[q] /\ a <= adaptRefCount'[q]
    <3>1. CASE a \in asked[n]
      <4>1. PICK q \in Procs :
              \/ n <= Len(maxed[q]) /\ a <= maxed[q][n]
              \/ n = Len(maxed[q]) + 1 /\ ~adaptActive[q] /\ a <= adaptRefCount[q]
        BY <3>1 DEF MarksInv
      <4>2. adaptRefCount[q] <= adaptRefCount'[q] /\ adaptRefCount'[q] \in Int /\ a \in Int
        BY <2>1, <3>1 DEF larger
      <4>3. a <= adaptRefCount[q] => a <= adaptRefCount'[q]
        BY <2>1, <4>2
      <4>4. QED  BY <4>1, <4>3
    <3>2. CASE a \notin asked[n]
      <4>1. n = N /\ a = refCount
        BY <2>1, <3>2
      <4>2. a <= adaptRefCount'[p]
        BY <2>1, <4>1 DEF larger
      <4>3. QED  BY <1>2, <4>1, <4>2
    <3>3. QED  BY <3>1, <3>2
  <2>5. QED  BY <1>2, <2>2, <2>3, <2>4 DEF MarksInv
<1>5. QED  BY <1>3, <1>4

LEMMA MarksInvPreAdapt ==
  ASSUME TypeInv, MarksInv, NEW p \in Procs, PreAdapt(p)
  PROVE  MarksInv'
<1> DEFINE N == Len(maxed[p]) + 1
<1>1. /\ pc[p] = "idle" /\ UNCHANGED <<adaptRefCount, asked>>
      /\ adaptActive' = [adaptActive EXCEPT ![p] = TRUE]
      /\ maxed' = [maxed EXCEPT ![p] = Append(@, adaptRefCount[p])]
  BY DEF PreAdapt, MakesCall
<1>2. /\ ~adaptActive[p] /\ adaptActive \in [Procs -> BOOLEAN]
      /\ maxed \in [Procs -> Seq(Nat)] /\ maxed[p] \in Seq(Nat) /\ adaptRefCount[p] \in Nat
  BY <1>1 DEF TypeInv, TypeOK, LogTypes
<1>3. /\ Len(maxed'[p]) = N /\ maxed'[p][N] = adaptRefCount[p]
      /\ \A n \in 1..Len(maxed[p]) : maxed'[p][n] = maxed[p][n]
      /\ \A q \in Procs : q # p => maxed'[q] = maxed[q]
      /\ \A q \in Procs : ~adaptActive'[q] => q # p /\ ~adaptActive[q]
      /\ \A q \in Procs : q # p => adaptActive'[q] = adaptActive[q]
      /\ N \in Nat \ {0} /\ \A q \in Procs : Len(maxed[q]) \in Nat
  <2>1. maxed'[p] = Append(maxed[p], adaptRefCount[p])
    BY <1>1, <1>2
  <2>2. /\ Len(maxed'[p]) = N /\ maxed'[p][N] = adaptRefCount[p]
        /\ \A n \in 1..Len(maxed[p]) : maxed'[p][n] = maxed[p][n]
    BY <1>2, <2>1, AppendTo
  <2>3. QED  BY <1>1, <1>2, <2>2
<1>4. ASSUME NEW q \in Procs, ~adaptActive'[q]
      PROVE  adaptRefCount'[q] \in asked'[Len(maxed'[q])+1] \cup {0}
  BY <1>1, <1>3, <1>4 DEF MarksInv
<1>5. ASSUME NEW q \in Procs, NEW n \in 1..Len(maxed'[q])
      PROVE  maxed'[q][n] \in asked'[n] \cup {0}
  <2>1. CASE q # p \/ n # N
    <3>1. maxed'[q][n] = maxed[q][n] /\ n \in 1..Len(maxed[q])
      BY <1>3, <2>1
    <3>2. QED  BY <1>1, <3>1 DEF MarksInv
  <2>2. CASE q = p /\ n = N
    <3>1. adaptRefCount[p] \in asked[N] \cup {0}
      BY <1>2 DEF MarksInv
    <3>2. QED  BY <1>1, <1>3, <2>2, <3>1
  <2>3. QED  BY <2>1, <2>2
<1>6. ASSUME NEW n \in 1..MaxCalls+1, NEW a \in asked'[n]
      PROVE  \E q \in Procs :
               \/ n <= Len(maxed'[q]) /\ a <= maxed'[q][n]
               \/ n = Len(maxed'[q]) + 1 /\ ~adaptActive'[q] /\ a <= adaptRefCount'[q]
  <2>1. PICK q \in Procs :
          \/ n <= Len(maxed[q]) /\ a <= maxed[q][n]
          \/ n = Len(maxed[q]) + 1 /\ ~adaptActive[q] /\ a <= adaptRefCount[q]
    BY <1>1 DEF MarksInv
  <2>2. CASE q # p
    <3>1. maxed'[q] = maxed[q] /\ adaptActive'[q] = adaptActive[q] /\ adaptRefCount'[q] = adaptRefCount[q]
      BY <1>1, <1>3, <2>2
    <3>2. QED  BY <2>1, <3>1
  <2>3. CASE q = p
    <3>1. n <= Len(maxed'[p]) /\ a <= maxed'[p][n]
      BY <1>3, <2>1, <2>3
    <3>2. QED  BY <3>1
  <2>4. QED  BY <2>2, <2>3
<1>7. QED  BY <1>4, <1>5, <1>6 DEF MarksInv

LEMMA MarksInvNext ==
  ASSUME TypeInv, MarksInv, [Next]_vars
  PROVE  MarksInv'
<1>1. /\ adaptActive \in [Procs -> BOOLEAN] /\ adaptRefCount \in [Procs -> Nat]
      /\ \A q \in Procs : pc[q] \in {"max", "preadapted", "adapted"} => adaptActive[q]
  BY DEF TypeInv, TypeOK
<1>2. CASE UNCHANGED <<adaptActive, adaptRefCount, maxed, asked>>
  BY <1>2 DEF MarksInv
<1>3. ASSUME NEW p \in Procs, Maximum(p) PROVE MarksInv'
  <2>1. /\ adaptActive[p] /\ adaptActive' = adaptActive /\ maxed' = maxed /\ asked' = asked
        /\ \A q \in Procs : q # p => adaptRefCount'[q] = adaptRefCount[q]
    BY <1>1, <1>3 DEF Maximum
  <2>2. QED  BY <2>1, MarksKept DEF MarksInv
<1>4. ASSUME NEW p \in Procs, PostAdapt(p) PROVE MarksInv'
  <2>1. /\ adaptActive[p] /\ maxed' = maxed /\ asked' = asked /\ adaptRefCount'[p] = 0
        /\ \A q \in Procs : q # p => /\ adaptRefCount'[q] = adaptRefCount[q]
                                    /\ adaptActive'[q] = adaptActive[q]
    BY <1>1, <1>4 DEF PostAdapt
  <2>2. \A q \in Procs : ~adaptActive'[q] => adaptRefCount'[q] \in asked[Len(maxed[q])+1] \cup {0}
    BY <2>1 DEF MarksInv
  <2>3. QED  BY <2>1, <2>2, MarksKept
<1>5. ASSUME NEW p \in Procs, GlobalRefine(p) \/ Adapt(p) \/ MakeLevel(p) \/ Exchanged(p) \/ Refined(p)
      PROVE  MarksInv'
  BY <1>2, <1>5 DEF GlobalRefine, Adapt, MakeLevel, Exchanged, Refined
<1>6. QED
  BY <1>2, <1>3, <1>4, <1>5, MarksInvMark, MarksInvPreAdapt DEF Next, Finished, Begin, Inside, vars
-----------------------------------------------------------------------------
(* The history h all processes share.  After k calls of the program the    *)
(* finest level is lev[k], off[k] levels have been made, and ad[k] of the  *)
(* calls were adaptations; cnt[k] is the count of the k-th call, lvl[n]    *)
(* what makelevel() was called with the n-th time, and ret[n] what adapt() *)
(* returned the n-th time.                                                 *)
Histories == [lev : [Nat -> Nat], off : [Nat -> Nat], ad : [Nat -> Nat],
              cnt : [Nat -> Int], lvl : [Nat -> Nat], ret : [Nat -> BOOLEAN]]

Entry(c, k, h) ==
  /\ c.name = "adapt" => /\ h.ad[k] = h.ad[k-1] + 1
                         /\ h.cnt[k] >= 0
                         /\ h.ret[h.ad[k]] = (h.cnt[k] > 0)
  /\ c.name # "adapt" => h.ad[k] = h.ad[k-1] /\ h.cnt[k] = c.refCount
  /\ h.off[k] = h.off[k-1] + larger(h.cnt[k], 0)
  /\ h.lev[k] = IF h.cnt[k] < -h.lev[k-1] THEN h.lev[k-1] ELSE h.lev[k-1] + h.cnt[k]
  /\ \A i \in 1..larger(h.cnt[k], 0) : h.lvl[h.off[k-1] + i] = h.lev[k-1] + i

(* The history of the first K calls of a program c. *)
Book(c, K, h) ==
  /\ h \in Histories
  /\ h.lev[0] = 0 /\ h.off[0] = 0 /\ h.ad[0] = 0
  /\ \A k \in 1..K : Entry(c[k], k, h)
  /\ \A j, k \in 0..K : j <= k => h.off[j] <= h.off[k] /\ h.ad[j] <= h.ad[k]

(* Once all processes have given a number, the largest one is the count. *)
Decided(h) ==
  \A k \in 1..Len(calls) :
    calls[k].name = "adapt" /\ (\A q \in Procs : h.ad[k] <= Len(maxed[q]))
      => h.cnt[k] = Max({maxed[q][h.ad[k]] : q \in Procs})

(* Where a process is in the history. *)
Place(p, h) ==
  LET k == done[p]
  IN  /\ Len(maxed[p]) = h.ad[k]
      /\ \A n \in 1..Len(made[p]) : made[p][n] = h.lvl[n]
      /\ \A n \in 1..Len(returned[p]) : returned[p][n] = h.ret[n]
      /\ pc[p] \in {"idle", "adapted"} =>
           Len(made[p]) = h.off[k] /\ maxLevel[p] = h.lev[k] /\ Len(returned[p]) = h.ad[k]
      /\ pc[p] \in {"max", "preadapted"} =>
           Len(made[p]) = h.off[k-1] /\ maxLevel[p] = h.lev[k-1] /\ Len(returned[p]) = h.ad[k-1]
      /\ pc[p] \in {"refine", "exchange"} =>
           /\ Len(made[p]) + toMake[p] = h.off[k] /\ maxLevel[p] + toMake[p] = h.lev[k]
           /\ toMake[p] <= larger(h.cnt[k], 0)
           /\ Len(returned[p]) = IF adaptActive[p] THEN h.ad[k-1] ELSE h.ad[k]
      /\ pc[p] # "idle" => k >= 1 /\ (adaptActive[p] => h.ad[k] = h.ad[k-1] + 1)
      /\ pc[p] \notin {"idle", "max"} /\ adaptActive[p] => adaptRefCount[p] = h.cnt[k]

Ledger == \E h \in Histories : /\ Book(calls, Len(calls), h) /\ Decided(h)
                               /\ \A p \in Procs : Place(p, h)

(* Two histories that are the same up to the K-th call. *)
SameUpTo(K, g, h) ==
  /\ \A k \in 0..K : /\ g.lev[k] = h.lev[k] /\ g.off[k] = h.off[k]
                     /\ g.ad[k] = h.ad[k] /\ g.cnt[k] = h.cnt[k]
  /\ \A n \in 1..h.off[K] : g.lvl[n] = h.lvl[n]
  /\ \A n \in 1..h.ad[K] : g.ret[n] = h.ret[n]

(* One more call, or another one in the place of the last. *)
LEMMA BookExtended ==
  ASSUME NEW c, NEW K \in Nat, NEW h, Book(c, K, h),
         NEW x \in Int,
         c[K+1].name = "adapt" => x >= 0,
         c[K+1].name # "adapt" => x = c[K+1].refCount
  PROVE  \E g \in Histories :
           Book(c, K+1, g) /\ g.cnt[K+1] = x /\ SameUpTo(K, g, h)
<1> DEFINE adapts == c[K+1].name = "adapt"
           l == IF x < -h.lev[K] THEN h.lev[K] ELSE h.lev[K] + x
           o == h.off[K] + larger(x, 0)
           a == IF adapts THEN h.ad[K] + 1 ELSE h.ad[K]
           g == [lev |-> [k \in Nat |-> IF k = K+1 THEN l ELSE h.lev[k]],
                 off |-> [k \in Nat |-> IF k = K+1 THEN o ELSE h.off[k]],
                 ad  |-> [k \in Nat |-> IF k = K+1 THEN a ELSE h.ad[k]],
                 cnt |-> [k \in Nat |-> IF k = K+1 THEN x ELSE h.cnt[k]],
                 lvl |-> [n \in Nat |-> IF n > h.off[K] /\ n <= o
                                        THEN h.lev[K] + n - h.off[K] ELSE h.lvl[n]],
                 ret |-> [n \in Nat |-> IF n = h.ad[K] + 1 THEN x > 0 ELSE h.ret[n]]]
<1>1. /\ h.lev \in [Nat -> Nat] /\ h.off \in [Nat -> Nat] /\ h.ad \in [Nat -> Nat]
      /\ h.cnt \in [Nat -> Int] /\ h.lvl \in [Nat -> Nat] /\ h.ret \in [Nat -> BOOLEAN]
  BY DEF Book, Histories
<1>2. h.lev[K] \in Nat /\ h.off[K] \in Nat /\ h.ad[K] \in Nat
  BY <1>1
<1>3. l \in Nat /\ o \in Nat /\ a \in Nat /\ o >= h.off[K] /\ a >= h.ad[K]
  BY <1>2 DEF larger
<1> HIDE DEF adapts, l, o, a
<1>4. /\ \A k \in Nat : (IF k = K+1 THEN l ELSE h.lev[k]) \in Nat
      /\ \A k \in Nat : (IF k = K+1 THEN o ELSE h.off[k]) \in Nat
      /\ \A k \in Nat : (IF k = K+1 THEN a ELSE h.ad[k]) \in Nat
      /\ \A k \in Nat : (IF k = K+1 THEN x ELSE h.cnt[k]) \in Int
      /\ \A n \in Nat : (IF n > h.off[K] /\ n <= o
                         THEN h.lev[K] + n - h.off[K] ELSE h.lvl[n]) \in Nat
  <2>1. \A k \in Nat : h.lev[k] \in Nat
    BY <1>1
  <2>2. \A k \in Nat : h.off[k] \in Nat
    BY <1>1
  <2>3. \A k \in Nat : h.ad[k] \in Nat
    BY <1>1
  <2>4. \A k \in Nat : h.cnt[k] \in Int
    BY <1>1
  <2>5. \A k \in Nat : h.lvl[k] \in Nat
    BY <1>1
  <2>6. \A n \in Nat : (IF n > h.off[K] /\ n <= o
                        THEN h.lev[K] + n - h.off[K] ELSE h.lvl[n]) \in Nat
    BY <1>2, <2>5
  <2>7. QED  BY <1>3, <2>1, <2>2, <2>3, <2>4, <2>6
<1>5. \A n \in Nat : (IF n = h.ad[K] + 1 THEN x > 0 ELSE h.ret[n]) \in BOOLEAN
  <2>1. (x > 0) \in BOOLEAN
    OBVIOUS
  <2>2. \A n \in Nat : h.ret[n] \in BOOLEAN
    BY <1>1
  <2>3. QED  BY <2>1, <2>2, Zenon
<1>6. g \in Histories
  BY <1>4, <1>5 DEF Histories
<1>7. /\ g.lev[K+1] = l /\ g.off[K+1] = o /\ g.ad[K+1] = a /\ g.cnt[K+1] = x
      /\ \A k \in 0..K : /\ g.lev[k] = h.lev[k] /\ g.off[k] = h.off[k]
                         /\ g.ad[k] = h.ad[k] /\ g.cnt[k] = h.cnt[k]
  OBVIOUS
<1>8. /\ \A n \in 1..h.off[K] : g.lvl[n] = h.lvl[n]
      /\ \A n \in 1..h.ad[K] : g.ret[n] = h.ret[n]
      /\ \A i \in 1..larger(x, 0) : g.lvl[h.off[K] + i] = h.lev[K] + i
      /\ g.ret[h.ad[K] + 1] = (x > 0)
  <2>1. \A n \in 1..h.off[K] : n \in Nat /\ ~(n > h.off[K])
    BY <1>2
  <2>2. \A n \in 1..h.ad[K] : n \in Nat /\ n # h.ad[K] + 1
    BY <1>2
  <2>3. \A i \in 1..larger(x, 0) : /\ h.off[K] + i \in Nat
                                   /\ h.off[K] + i > h.off[K] /\ h.off[K] + i <= o
                                   /\ h.lev[K] + (h.off[K] + i) - h.off[K] = h.lev[K] + i
    BY <1>2 DEF o, larger
  <2>4. h.ad[K] + 1 \in Nat
    BY <1>2
  <2>5. QED  BY <2>1, <2>2, <2>3, <2>4
<1> HIDE DEF g
<1>9. \A k \in 1..K+1 : Entry(c[k], k, g)
  <2>1. ASSUME NEW k \in 1..K PROVE Entry(c[k], k, g)
    <3>1. Entry(c[k], k, h) /\ k - 1 \in 0..K /\ k \in 0..K /\ k <= K /\ 0 <= k - 1
      BY DEF Book
    <3>2. h.off[k] <= h.off[K] /\ h.ad[k] <= h.ad[K] /\ h.ad[k-1] \in Nat /\ h.off[k-1] \in Nat
      <4>1. k - 1 \in Nat /\ K \in 0..K
        BY <3>1
      <4>2. \A i, j \in 0..K : i <= j => h.off[i] <= h.off[j] /\ h.ad[i] <= h.ad[j]
        BY DEF Book
      <4>3. QED  BY <1>1, <3>1, <4>1, <4>2
    <3>3. h.off[k] = h.off[k-1] + larger(h.cnt[k], 0) /\ larger(h.cnt[k], 0) \in Nat
      BY <1>1, <3>1 DEF Entry, larger
    <3>4. \A i \in 1..larger(h.cnt[k], 0) : g.lvl[h.off[k-1] + i] = h.lev[k-1] + i
      <4>1. ASSUME NEW i \in 1..larger(h.cnt[k], 0) PROVE h.off[k-1] + i \in 1..h.off[K]
        BY <1>2, <3>2, <3>3
      <4>2. QED  BY <1>8, <3>1, <4>1 DEF Entry
    <3>5. c[k].name = "adapt" => g.ret[h.ad[k]] = (h.cnt[k] > 0)
      <4>1. c[k].name = "adapt" => h.ad[k] \in 1..h.ad[K]
        BY <1>2, <3>1, <3>2 DEF Entry
      <4>2. QED  BY <1>8, <3>1, <4>1 DEF Entry
    <3>6. /\ g.lev[k] = h.lev[k] /\ g.off[k] = h.off[k] /\ g.ad[k] = h.ad[k] /\ g.cnt[k] = h.cnt[k]
          /\ g.lev[k-1] = h.lev[k-1] /\ g.off[k-1] = h.off[k-1] /\ g.ad[k-1] = h.ad[k-1]
      BY <1>7, <3>1
    <3>7. QED  BY <3>1, <3>4, <3>5, <3>6 DEF Entry
  <2>2. Entry(c[K+1], K+1, g)
    <3>1. /\ K + 1 - 1 = K /\ K \in 0..K
          /\ g.lev[K] = h.lev[K] /\ g.off[K] = h.off[K] /\ g.ad[K] = h.ad[K]
      BY <1>7
    <3>2. /\ adapts => a = h.ad[K] + 1 /\ x >= 0
          /\ ~adapts => a = h.ad[K] /\ x = c[K+1].refCount
          /\ o = h.off[K] + larger(x, 0)
          /\ l = IF x < -h.lev[K] THEN h.lev[K] ELSE h.lev[K] + x
      BY DEF adapts, a, o, l
    <3>3. QED  BY <1>7, <1>8, <3>1, <3>2 DEF Entry, adapts
  <2>3. QED  BY <2>1, <2>2
<1>10. \A j, k \in 0..K+1 : j <= k => g.off[j] <= g.off[k] /\ g.ad[j] <= g.ad[k]
  <2>1. ASSUME NEW j \in 0..K+1, NEW k \in 0..K+1, j <= k
        PROVE  g.off[j] <= g.off[k] /\ g.ad[j] <= g.ad[k]
    <3>1. CASE k \in 0..K
      <4>1. j \in 0..K  BY <2>1, <3>1
      <4>2. QED  BY <1>7, <2>1, <3>1, <4>1 DEF Book
    <3>2. CASE k = K+1 /\ j \in 0..K
      <4>1. h.off[j] <= h.off[K] /\ h.ad[j] <= h.ad[K] /\ h.off[j] \in Nat /\ h.ad[j] \in Nat
        BY <1>1, <3>2 DEF Book
      <4>2. QED  BY <1>2, <1>3, <1>7, <3>2, <4>1
    <3>3. CASE k = K+1 /\ j = K+1
      BY <1>3, <1>7, <3>3
    <3>4. QED  BY <2>1, <3>1, <3>2, <3>3
  <2>2. QED  BY <2>1
<1>11. g.lev[0] = 0 /\ g.off[0] = 0 /\ g.ad[0] = 0
  BY <1>7 DEF Book
<1>12. Book(c, K+1, g)
  BY <1>6, <1>9, <1>10, <1>11 DEF Book
<1>13. SameUpTo(K, g, h)
  BY <1>7, <1>8 DEF SameUpTo
<1>14. QED  BY <1>6, <1>7, <1>12, <1>13

LEMMA BookPrefix ==
  ASSUME NEW c, NEW d, NEW K \in Nat, NEW J \in 0..K, NEW h, Book(c, K, h),
         \A k \in 1..J : d[k] = c[k]
  PROVE  Book(d, J, h)
<1>1. \A k \in 1..J : k \in 1..K
  OBVIOUS
<1>2. \A k \in 0..J : k \in 0..K
  OBVIOUS
<1>3. \A k \in 1..J : Entry(d[k], k, h)
  BY <1>1 DEF Book
<1>4. QED  BY <1>2, <1>3 DEF Book

LEMMA HistoryTypes ==
  ASSUME NEW h \in Histories
  PROVE  /\ \A k \in Nat : /\ h.lev[k] \in Nat /\ h.off[k] \in Nat /\ h.ad[k] \in Nat
                           /\ h.cnt[k] \in Int /\ h.lvl[k] \in Nat /\ h.ret[k] \in BOOLEAN
BY DEF Histories

LEMMA StateTypes ==
  ASSUME TypeInv, NEW p \in Procs
  PROVE  /\ pc[p] \in {"idle", "max", "preadapted", "refine", "exchange", "adapted"}
         /\ adaptActive[p] \in BOOLEAN /\ adaptRefCount[p] \in Nat /\ maxLevel[p] \in Nat
         /\ toMake[p] \in Nat /\ done[p] \in 0..Len(calls) /\ Len(calls) \in Nat
         /\ maxed[p] \in Seq(Nat) /\ made[p] \in Seq(Nat) /\ returned[p] \in Seq(BOOLEAN)
         /\ Len(maxed[p]) \in Nat /\ Len(made[p]) \in Nat /\ Len(returned[p]) \in Nat
         /\ pc[p] \in {"max", "preadapted", "adapted"} => adaptActive[p]
         /\ pc[p] = "idle" => ~adaptActive[p]
BY DEF TypeInv, TypeOK, LogTypes

(* A process that takes no step stays where it is in the history. *)
LEMMA PlaceKept ==
  ASSUME NEW q, NEW h, Place(q, h),
         done'[q] = done[q], pc'[q] = pc[q], maxed'[q] = maxed[q], made'[q] = made[q],
         returned'[q] = returned[q], maxLevel'[q] = maxLevel[q], toMake'[q] = toMake[q],
         adaptActive'[q] = adaptActive[q], adaptRefCount'[q] = adaptRefCount[q]
  PROVE  Place(q, h)'
BY DEF Place

(* It is at the same place in two histories that agree up to there. *)
LEMMA PlaceAgrees ==
  ASSUME TypeInv, NEW q \in Procs, NEW c, NEW J \in Nat, NEW h, NEW g, Book(c, J, h), Place(q, h),
         done[q] <= J, SameUpTo(J, g, h)
  PROVE  Place(q, g)
<1> DEFINE k == done[q]
<1>1. h \in Histories /\ \A i, j \in 0..J : i <= j => h.off[i] <= h.off[j] /\ h.ad[i] <= h.ad[j]
  BY DEF Book
<1>2. k \in 0..J /\ J \in 0..J /\ (pc[q] # "idle" => k - 1 \in 0..J)
  BY StateTypes DEF Place
<1>3. /\ h.off[k] <= h.off[J] /\ h.ad[k] <= h.ad[J]
      /\ pc[q] # "idle" => h.off[k-1] <= h.off[J] /\ h.ad[k-1] <= h.ad[J]
  BY <1>1, <1>2
<1>4. /\ h.off[J] \in Nat /\ h.ad[J] \in Nat /\ h.off[k] \in Nat /\ h.ad[k] \in Nat
      /\ pc[q] # "idle" => h.off[k-1] \in Nat /\ h.ad[k-1] \in Nat
  BY <1>1, <1>2, HistoryTypes
<1>5. Len(made[q]) \in 0..h.off[J]
  <2>1. CASE pc[q] \in {"idle", "adapted"}
    BY <1>3, <1>4, <2>1, StateTypes DEF Place
  <2>2. CASE pc[q] \in {"max", "preadapted"}
    BY <1>3, <1>4, <2>2, StateTypes DEF Place
  <2>3. CASE pc[q] \in {"refine", "exchange"}
    <3>1. Len(made[q]) + toMake[q] = h.off[k]
      BY <2>3 DEF Place
    <3>2. Len(made[q]) \in Nat /\ toMake[q] \in Nat
      BY StateTypes
    <3>3. QED  BY <1>3, <1>4, <3>1, <3>2
  <2>4. QED  BY <2>1, <2>2, <2>3, StateTypes
<1>6. Len(returned[q]) \in 0..h.ad[J]
  <2>1. CASE pc[q] \in {"idle", "adapted"}
    BY <1>3, <1>4, <2>1, StateTypes DEF Place
  <2>2. CASE pc[q] \in {"max", "preadapted"}
    BY <1>3, <1>4, <2>2, StateTypes DEF Place
  <2>3. CASE pc[q] \in {"refine", "exchange"}
    BY <1>3, <1>4, <2>3, StateTypes DEF Place
  <2>4. QED  BY <2>1, <2>2, <2>3, StateTypes
<1>7. /\ \A n \in 1..Len(made[q]) : made[q][n] = g.lvl[n]
      /\ \A n \in 1..Len(returned[q]) : returned[q][n] = g.ret[n]
  BY <1>4, <1>5, <1>6 DEF Place, SameUpTo
<1>8. /\ g.lev[k] = h.lev[k] /\ g.off[k] = h.off[k] /\ g.ad[k] = h.ad[k] /\ g.cnt[k] = h.cnt[k]
      /\ pc[q] # "idle" => g.lev[k-1] = h.lev[k-1] /\ g.off[k-1] = h.off[k-1] /\ g.ad[k-1] = h.ad[k-1]
  BY <1>2 DEF SameUpTo
<1>9. QED  BY <1>7, <1>8 DEF Place

LEMMA LedgerInit ==
  ASSUME Init
  PROVE  Ledger
<1> DEFINE h == [lev |-> [k \in Nat |-> 0], off |-> [k \in Nat |-> 0], ad |-> [k \in Nat |-> 0],
                 cnt |-> [k \in Nat |-> 0], lvl |-> [k \in Nat |-> 0],
                 ret |-> [k \in Nat |-> FALSE]]
<1>1. h \in Histories
  BY DEF Histories
<1>2. /\ h.lev[0] = 0 /\ h.off[0] = 0 /\ h.ad[0] = 0
      /\ \A j, k \in 0..0 : h.off[j] <= h.off[k] /\ h.ad[j] <= h.ad[k]
  OBVIOUS
<1> HIDE DEF h
<1>3. Len(calls) = 0
  BY DEF Init
<1>4. Book(calls, Len(calls), h) /\ Decided(h)
  BY <1>1, <1>2, <1>3 DEF Book, Decided
<1>5. ASSUME NEW p \in Procs PROVE Place(p, h)
  <2>1. /\ pc[p] = "idle" /\ done[p] = 0 /\ Len(maxed[p]) = 0 /\ Len(made[p]) = 0
        /\ Len(returned[p]) = 0 /\ maxLevel[p] = 0
    BY DEF Init
  <2>2. QED  BY <1>2, <2>1 DEF Place
<1>6. QED  BY <1>1, <1>4, <1>5 DEF Ledger

(* Nobody is further than the call p begins with preAdapt(), for it has    *)
(* to wait for the number of p.                                            *)
LEMMA NobodyAhead ==
  ASSUME TypeInv, Barrier, Begun, NEW h, Book(calls, Len(calls), h),
         \A q \in Procs : Place(q, h),
         NEW p \in Procs, PreAdapt(p)
  PROVE  LET K == done[p] + 1
         IN  /\ K = Len(calls') /\ calls'[K].name = "adapt"
             /\ \A k \in 1..K-1 : calls'[k] = calls[k]
             /\ \A q \in Procs : done[q] = K => pc[q] = "max" /\ Len(maxed[q]) = h.ad[K-1] + 1
             /\ \A q \in Procs : done[q] <= K
<1> DEFINE K == done[p] + 1
           c == [name |-> "adapt"]
<1>1. MakesCall(p, c) /\ c \in Call /\ pc[p] = "idle" /\ c.name = "adapt"
  BY DEF PreAdapt, Call, MakesCall
<1>2. /\ K \in 1..Len(calls') /\ calls'[K] = c
      /\ \A k \in 1..Len(calls) : calls'[k] = calls[k]
      /\ Len(calls) <= Len(calls') /\ Len(calls') \in Nat
      /\ K <= Len(calls) => Len(calls') = Len(calls)
      /\ K > Len(calls) => Len(calls') = K
  <2> HIDE DEF c
  <2>1. /\ K \in 1..Len(calls') /\ calls'[K] = c
        /\ \A k \in 1..Len(calls) : calls'[k] = calls[k]
        /\ Len(calls) <= Len(calls') /\ Len(calls') \in Nat
    BY <1>1, MakesCallTypes
  <2>2. done[p] \in 0..Len(calls) /\ calls \in Seq(Call) /\ Len(calls) \in Nat
    BY StateTypes DEF TypeInv, LogTypes
  <2>3. /\ done[p] < Len(calls) => calls' = calls
        /\ ~(done[p] < Len(calls)) => calls' = Append(calls, c)
    BY <1>1 DEF MakesCall
  <2>4. Len(Append(calls, c)) = Len(calls) + 1
    BY <1>1, <2>2, AppendTo
  <2>5. K <= Len(calls) <=> done[p] < Len(calls)
    BY <2>2
  <2>6. K > Len(calls) => K = Len(calls) + 1 /\ ~(done[p] < Len(calls))
    BY <2>2
  <2>7. QED  BY <2>1, <2>3, <2>4, <2>5, <2>6
<1> HIDE DEF c
<1>3. /\ h \in Histories
      /\ \A i, j \in 0..Len(calls) : i <= j => h.ad[i] <= h.ad[j]
      /\ \A k \in 1..Len(calls) : Entry(calls[k], k, h)
  BY DEF Book
<1>4. done[p] \in Nat /\ done[p] \in 0..Len(calls) /\ Len(maxed[p]) = h.ad[K-1] /\ h.ad[K-1] \in Nat
  BY StateTypes, <1>3, HistoryTypes DEF Place
<1>5. \A q \in Procs : Passed(q) <= h.ad[K-1]
  BY <1>4 DEF Barrier
<1>6. ASSUME NEW q \in Procs, done[q] >= K
      PROVE  done[q] = K /\ pc[q] = "max" /\ Len(maxed[q]) = h.ad[K-1] + 1
  <2>1. /\ done[q] \in 0..Len(calls) /\ Len(calls) \in Nat /\ K \in 1..Len(calls)
        /\ done[q] - 1 \in 0..Len(calls) /\ K - 1 \in 0..Len(calls)
    BY <1>4, <1>6, StateTypes
  <2>2. h.ad[K] = h.ad[K-1] + 1
    <3>1. calls[K].name = "adapt"
      BY <1>1, <1>2, <2>1
    <3>2. QED  BY <1>3, <2>1, <3>1 DEF Entry
  <2>3. /\ Len(maxed[q]) = h.ad[done[q]] /\ h.ad[done[q]] >= h.ad[K]
        /\ h.ad[done[q]] \in Nat /\ h.ad[K] \in Nat
    BY <1>3, <1>6, <2>1, HistoryTypes DEF Place
  <2>4. pc[q] = "max"
    <3>1. SUFFICES ASSUME pc[q] # "max" PROVE FALSE
      OBVIOUS
    <3>2. Passed(q) = Len(maxed[q])
      BY <3>1 DEF Passed
    <3>3. QED  BY <1>4, <1>5, <2>2, <2>3, <3>2
  <2>5. h.ad[done[q]] = h.ad[done[q]-1] + 1
    BY <2>4, StateTypes DEF Place
  <2>6. Len(maxed[q]) = h.ad[K-1] + 1
    <3>1. Passed(q) = Len(maxed[q]) - 1
      BY <2>4 DEF Passed
    <3>2. QED  BY <1>4, <1>5, <2>2, <2>3, <3>1
  <2>7. done[q] = K
    <3>1. SUFFICES ASSUME done[q] - 1 >= K PROVE FALSE
      BY <1>4, <1>6, <2>1
    <3>2. h.ad[done[q]-1] >= h.ad[K]
      BY <1>3, <2>1, <3>1
    <3>3. h.ad[done[q]-1] \in Nat
      <4>1. done[q] - 1 \in Nat  BY <2>1
      <4>2. QED  BY <1>3, <4>1, HistoryTypes
    <3>4. QED  BY <1>4, <2>2, <2>3, <2>5, <2>6, <3>2, <3>3
  <2>8. QED  BY <2>4, <2>6, <2>7
<1>7. K = Len(calls')
  <2>1. SUFFICES ASSUME K < Len(calls') PROVE FALSE
    BY <1>2
  <2>2. K + 1 \in 1..Len(calls)
    BY <1>2, <1>4, <2>1, StateTypes
  <2>3. PICK q \in Procs : K + 1 <= done[q]
    BY <2>2 DEF Begun
  <2>4. done[q] >= K /\ done[q] # K
    BY <1>4, <2>3, StateTypes
  <2>5. QED  BY <1>6, <2>4
<1>8. \A k \in 1..K-1 : calls'[k] = calls[k]
  BY <1>2, <1>4
<1>9. \A q \in Procs : done[q] <= K
  BY <1>4, <1>6, StateTypes
<1>10. QED
  <2>1. \A q \in Procs : done[q] = K => pc[q] = "max" /\ Len(maxed[q]) = h.ad[K-1] + 1
    BY <1>4, <1>6
  <2>2. QED  BY <1>1, <1>2, <1>7, <1>8, <1>9, <2>1

(* The history after preAdapt() has been begun: when p is the last to give *)
(* its number, the maximum becomes the count of the call.                  *)
LEMMA LedgerPreAdapt ==
  ASSUME TypeInv, Barrier, Begun, Ledger, NEW p \in Procs, PreAdapt(p), TypeInv'
  PROVE  Ledger'
<1> DEFINE K == done[p] + 1
           J == done[p]
<1>1. PICK h \in Histories : /\ Book(calls, Len(calls), h) /\ Decided(h)
                             /\ \A q \in Procs : Place(q, h)
  BY DEF Ledger
<1> DEFINE N == h.ad[J] + 1
           f == [q \in Procs |-> maxed'[q][N]]
           all == \A q \in Procs : N <= Len(maxed'[q])
           x == IF all THEN Max({f[q] : q \in Procs}) ELSE 0
<1>2. /\ K = Len(calls') /\ calls'[K].name = "adapt" /\ K - 1 = J
      /\ \A k \in 1..J : calls'[k] = calls[k]
      /\ \A q \in Procs : done[q] = K => pc[q] = "max" /\ Len(maxed[q]) = N
      /\ \A q \in Procs : done[q] <= K
      /\ J \in 0..Len(calls) /\ J \in Nat /\ K \in Nat /\ K = J + 1 /\ J = done[p]
  <2>1. /\ J \in 0..Len(calls) /\ J \in Nat /\ K \in Nat /\ K - 1 = J /\ K = J + 1
        /\ J = done[p]
    BY StateTypes
  <2>2. QED  BY <1>1, <2>1, NobodyAhead
<1>3. /\ pc[p] = "idle" /\ pc' = [pc EXCEPT ![p] = "max"]
      /\ adaptActive' = [adaptActive EXCEPT ![p] = TRUE]
      /\ maxed' = [maxed EXCEPT ![p] = Append(@, adaptRefCount[p])]
      /\ done' = [done EXCEPT ![p] = @ + 1]
      /\ UNCHANGED <<adaptRefCount, maxLevel, toMake, made, returned, asked>>
  BY DEF PreAdapt, MakesCall
<1>4. /\ done \in [Procs -> 0..Len(calls)] /\ maxed \in [Procs -> Seq(Nat)]
      /\ pc \in [Procs -> {"idle", "max", "preadapted", "refine", "exchange", "adapted"}]
      /\ adaptActive \in [Procs -> BOOLEAN]
  BY DEF TypeInv, TypeOK, LogTypes
<1>5. /\ done'[p] = K /\ pc'[p] = "max" /\ adaptActive'[p]
      /\ \A q \in Procs \ {p} : /\ done'[q] = done[q] /\ pc'[q] = pc[q] /\ maxed'[q] = maxed[q]
                                /\ adaptActive'[q] = adaptActive[q]
  BY <1>3, <1>4
<1>6. /\ Len(maxed[p]) = h.ad[J] /\ h.ad[J] \in Nat /\ Len(maxed'[p]) = N
      /\ \A n \in 1..h.ad[J] : maxed'[p][n] = maxed[p][n]
  <2>1. Len(maxed[p]) = h.ad[J]
    BY <1>1 DEF Place
  <2>2. h.ad[J] \in Nat
    BY <1>2, HistoryTypes
  <2>3. /\ maxed[p] \in Seq(Nat) /\ adaptRefCount[p] \in Nat
        /\ maxed'[p] = Append(maxed[p], adaptRefCount[p])
    BY <1>3, <1>4, StateTypes
  <2>4. QED  BY <2>1, <2>2, <2>3, AppendTo
<1>7. x \in Nat
  <2>1. CASE all
    <3>1. \A q \in Procs : maxed'[q] \in Seq(Nat)
      BY DEF TypeInv, LogTypes
    <3>2. \A q \in Procs : f[q] \in Nat
      <4>1. \A q \in Procs : N \in 1..Len(maxed'[q])
        BY <1>6, <2>1, <3>1
      <4> HIDE DEF N
      <4>2. \A q \in Procs : maxed'[q][N] \in Nat
        BY <3>1, <4>1
      <4>3. QED  BY <4>2
    <3>3. QED
      <4> HIDE DEF f
      <4>1. QED  BY <2>1, <3>2, MaximumOfAll
  <2>2. CASE ~all
    BY <2>2
  <2>3. QED  BY <2>1, <2>2
<1> HIDE DEF x, J, K
<1>8. Book(calls', J, h)
  BY <1>1, <1>2, StateTypes, BookPrefix
<1>9. PICK g \in Histories : Book(calls', K, g) /\ g.cnt[K] = x /\ SameUpTo(J, g, h)
  <2>1. x \in Int /\ x >= 0 /\ calls'[J+1].name = "adapt"
    BY <1>2, <1>7
  <2>2. J \in Nat /\ (calls'[J+1].name # "adapt" => x = calls'[J+1].refCount)
    BY <1>2, <2>1
  <2>3. \E g \in Histories : Book(calls', J+1, g) /\ g.cnt[J+1] = x /\ SameUpTo(J, g, h)
    BY <1>8, <2>1, <2>2, BookExtended
  <2>4. J + 1 = K
    BY <1>2
  <2>5. QED  BY <2>3, <2>4
<1>10. J \in 0..J /\ K \in 1..K /\ g.ad[J] = h.ad[J] /\ g.ad[K] = N
  <2>1. J \in 0..J /\ K \in 1..K
    BY <1>2
  <2>2. Entry(calls'[K], K, g)
    BY <1>9, <2>1 DEF Book
  <2>3. QED  BY <1>2, <1>9, <2>1, <2>2 DEF Entry, SameUpTo
<1>11. Decided(g)'
  <2>1. ASSUME NEW k \in 1..J, calls'[k].name = "adapt", \A q \in Procs : g.ad[k] <= Len(maxed'[q])
        PROVE  g.cnt[k] = Max({maxed'[q][g.ad[k]] : q \in Procs})
    <3>1. /\ k \in 1..Len(calls) /\ k \in 0..J /\ k - 1 \in 0..J /\ calls[k].name = "adapt"
          /\ g.ad[k] = h.ad[k] /\ g.cnt[k] = h.cnt[k]
      BY <1>2, <1>9, <2>1 DEF SameUpTo
    <3>2. h.ad[k] \in 1..h.ad[J]
      <4>1. h.ad[k] <= h.ad[J] /\ Entry(calls'[k], k, h)
        BY <1>8, <1>10, <3>1 DEF Book
      <4>2. h.ad[k-1] \in Nat /\ h.ad[k] = h.ad[k-1] + 1
        <5>1. k - 1 \in Nat  BY <3>1
        <5>2. QED  BY <2>1, <4>1, <5>1, HistoryTypes DEF Entry
      <4>3. QED  BY <1>6, <4>1, <4>2
    <3>3. \A q \in Procs : h.ad[k] <= Len(maxed[q]) /\ maxed'[q][h.ad[k]] = maxed[q][h.ad[k]]
      <4>1. ASSUME NEW q \in Procs, q # p
            PROVE  h.ad[k] <= Len(maxed[q]) /\ maxed'[q][h.ad[k]] = maxed[q][h.ad[k]]
        BY <1>5, <2>1, <3>1, <4>1
      <4>2. h.ad[k] <= Len(maxed[p]) /\ maxed'[p][h.ad[k]] = maxed[p][h.ad[k]]
        BY <1>6, <3>2
      <4>3. QED  BY <4>1, <4>2
    <3>4. h.cnt[k] = Max({maxed[q][h.ad[k]] : q \in Procs})
      BY <1>1, <3>1, <3>3 DEF Decided
    <3>5. {maxed'[q][h.ad[k]] : q \in Procs} = {maxed[q][h.ad[k]] : q \in Procs}
      BY <3>3
    <3>6. QED  BY <3>1, <3>4, <3>5
  <2>2. ASSUME \A q \in Procs : N <= Len(maxed'[q])
        PROVE  x = Max({maxed'[q][N] : q \in Procs})
    <3>1. {f[q] : q \in Procs} = {maxed'[q][N] : q \in Procs}
      OBVIOUS
    <3>2. QED  BY <2>2, <3>1 DEF x
  <2>3. \A k \in 1..Len(calls') : k \in 1..J \/ k = K
    BY <1>2
  <2>4. ASSUME NEW k \in 1..Len(calls'), calls'[k].name = "adapt",
               \A q \in Procs : g.ad[k] <= Len(maxed'[q])
        PROVE  g.cnt[k] = Max({maxed'[q][g.ad[k]] : q \in Procs})
    <3>1. CASE k \in 1..J
      BY <2>1, <2>4, <3>1
    <3>2. CASE k = K
      <4>1. g.ad[k] = N /\ g.cnt[k] = x /\ \A q \in Procs : N <= Len(maxed'[q])
        BY <1>9, <1>10, <2>4, <3>2
      <4>2. QED
        <5> HIDE DEF N
        <5>1. QED  BY <2>2, <4>1
    <3>3. QED  BY <2>3, <3>1, <3>2
  <2>5. QED  BY <2>4 DEF Decided
<1>12. ASSUME NEW q \in Procs PROVE Place(q, g)'
  <2>1. CASE q = p
    <3>1. Place(p, h) /\ done[p] = J
      BY <1>1, <1>2
    <3>2. Len(made[p]) = h.off[J] /\ maxLevel[p] = h.lev[J] /\ Len(returned[p]) = h.ad[J]
      BY <1>3, <3>1 DEF Place
    <3>3. /\ \A n \in 1..Len(made[p]) : made[p][n] = g.lvl[n]
          /\ \A n \in 1..Len(returned[p]) : returned[p][n] = g.ret[n]
      BY <1>9, <3>1, <3>2 DEF Place, SameUpTo
    <3>4. /\ Len(made[p]) = g.off[J] /\ maxLevel[p] = g.lev[J] /\ Len(returned[p]) = g.ad[J]
      BY <1>9, <1>10, <3>2 DEF SameUpTo
    <3>5. K >= 1 /\ g.ad[K] = g.ad[K-1] + 1
      BY <1>2, <1>10
    <3>6. QED  BY <1>2, <1>3, <1>5, <1>6, <1>10, <2>1, <3>3, <3>4, <3>5 DEF Place
  <2>2. CASE q # p /\ done[q] <= J
    <3>1. Place(q, g)
      <4>1. Place(q, h) /\ done[q] <= J /\ J \in Nat /\ Book(calls', J, h)
        BY <1>1, <1>2, <1>8, <2>2
      <4>2. QED  BY <1>9, <4>1, PlaceAgrees
    <3>2. QED  BY <1>3, <1>5, <2>2, <3>1, PlaceKept
  <2>3. CASE q # p /\ ~(done[q] <= J)
    <3>1. done[q] = K /\ pc[q] = "max" /\ Len(maxed[q]) = g.ad[K] /\ Place(q, h)
      BY <1>1, <1>2, <1>10, <2>3, StateTypes
    <3>2. Len(made[q]) = h.off[J] /\ maxLevel[q] = h.lev[J] /\ Len(returned[q]) = h.ad[J]
      BY <1>2, <3>1 DEF Place
    <3>3. \A n \in 1..Len(made[q]) : made[q][n] = g.lvl[n]
      BY <1>9, <3>1, <3>2 DEF Place, SameUpTo
    <3>4. \A n \in 1..Len(returned[q]) : returned[q][n] = g.ret[n]
      BY <1>9, <3>1, <3>2 DEF Place, SameUpTo
    <3>5. Len(made[q]) = g.off[J] /\ maxLevel[q] = g.lev[J] /\ Len(returned[q]) = g.ad[J]
      BY <1>9, <1>10, <3>2 DEF SameUpTo
    <3>6. K >= 1 /\ g.ad[K] = g.ad[K-1] + 1
      BY <1>2, <1>10
    <3>7. Place(q, g)
      BY <1>2, <3>1, <3>3, <3>4, <3>5, <3>6 DEF Place
    <3>8. QED  BY <1>3, <1>5, <2>3, <3>7, PlaceKept
  <2>4. QED  BY <2>1, <2>2, <2>3
<1>13. QED  BY <1>2, <1>9, <1>11, <1>12 DEF Ledger

(* The history after globalRefine() has been called, by the first process  *)
(* or by a later one.                                                      *)
LEMMA LedgerCall ==
  ASSUME TypeInv, Ledger, NEW p \in Procs, NEW r \in Counts,
         MakesCall(p, [name |-> "globalRefine", refCount |-> r]),
         maxed' = maxed
  PROVE  \E g \in Histories :
           /\ Book(calls', Len(calls'), g) /\ Decided(g)'
           /\ \A q \in Procs : Place(q, g)
           /\ Entry([name |-> "globalRefine", refCount |-> r], done[p] + 1, g)
<1> DEFINE c == [name |-> "globalRefine", refCount |-> r]
           J == done[p]
<1>1. PICK h \in Histories : /\ Book(calls, Len(calls), h) /\ Decided(h)
                             /\ \A q \in Procs : Place(q, h)
  BY DEF Ledger
<1>2. c \in Call /\ c.name # "adapt" /\ c.refCount = r /\ r \in Int /\ MakesCall(p, c)
  BY CountsAssumption DEF Call
<1> HIDE DEF c
<1>3. J \in Nat /\ J <= Len(calls) /\ Len(calls) \in Nat /\ calls \in Seq(Call)
  BY StateTypes DEF TypeInv, LogTypes
<1>4. CASE J < Len(calls)
  <2>1. calls' = calls /\ calls[J+1] = c /\ J + 1 \in 1..Len(calls)
    BY <1>2, <1>3, <1>4 DEF MakesCall
  <2>2. Entry(c, J+1, h)
    BY <1>1, <2>1 DEF Book
  <2>3. Decided(h)'
    BY <1>1, <2>1 DEF Decided
  <2>4. QED  BY <1>1, <2>1, <2>2, <2>3 DEF c
<1>5. CASE ~(J < Len(calls))
  <2>1. /\ calls' = Append(calls, c) /\ J = Len(calls) /\ Len(calls') = J + 1
        /\ \A k \in 1..J : calls'[k] = calls[k]
        /\ calls'[J+1] = c
    BY <1>2, <1>3, <1>5, AppendTo DEF MakesCall
  <2> HIDE DEF J
  <2>2. Book(calls', J, h)
    <3>1. J \in 0..J  BY <1>3
    <3>2. Book(calls, J, h)  BY <1>1, <2>1
    <3>3. QED  BY <1>3, <2>1, <3>1, <3>2, BookPrefix
  <2>3. PICK g \in Histories : Book(calls', J+1, g) /\ g.cnt[J+1] = r /\ SameUpTo(J, g, h)
    <3>1. /\ J \in Nat /\ r \in Int /\ (calls'[J+1].name = "adapt" => r >= 0)
          /\ calls'[J+1].name # "adapt" => r = calls'[J+1].refCount
      BY <1>2, <1>3, <2>1
    <3>2. QED  BY <2>2, <3>1, BookExtended
  <2>4. ASSUME NEW q \in Procs PROVE Place(q, g)
    <3>1. Place(q, h) /\ done[q] <= J
      BY <1>1, <2>1, StateTypes
    <3>2. QED  BY <1>3, <2>2, <2>3, <3>1, PlaceAgrees
  <2>5. Entry(c, J+1, g)
    <3>1. J + 1 \in 1..J+1  BY <1>3
    <3>2. QED  BY <2>1, <2>3, <3>1 DEF Book
  <2>6. ASSUME NEW k \in 1..Len(calls'), calls'[k].name = "adapt",
               \A q \in Procs : g.ad[k] <= Len(maxed'[q])
        PROVE  g.cnt[k] = Max({maxed'[q][g.ad[k]] : q \in Procs})
    <3>1. k \in 1..J /\ k \in 0..J
      BY <1>2, <1>3, <2>1, <2>6
    <3>2. g.ad[k] = h.ad[k] /\ g.cnt[k] = h.cnt[k] /\ calls[k].name = "adapt"
      BY <2>1, <2>3, <2>6, <3>1 DEF SameUpTo
    <3>3. QED  BY <1>1, <2>1, <2>6, <3>1, <3>2 DEF Decided
  <2>7. Decided(g)'
    BY <2>6 DEF Decided
  <2>8. Book(calls', Len(calls'), g)
    BY <2>1, <2>3
  <2>9. QED  BY <2>4, <2>5, <2>7, <2>8 DEF c, J
<1>6. QED  BY <1>4, <1>5

LEMMA LedgerGlobalRefine ==
  ASSUME TypeInv, Ledger, NEW p \in Procs, GlobalRefine(p), TypeInv'
  PROVE  Ledger'
<1> DEFINE J == done[p]
<1>1. PICK r \in Counts :
        /\ MakesCall(p, [name |-> "globalRefine", refCount |-> r])
        /\ IF r < -maxLevel[p] THEN UNCHANGED <<pc, maxLevel, toMake>>
                               ELSE globalRefine(p, r)
        /\ UNCHANGED <<adaptActive, adaptRefCount, maxed, made, returned, asked>>
  BY DEF GlobalRefine
<1>2. PICK g \in Histories :
        /\ Book(calls', Len(calls'), g) /\ Decided(g)'
        /\ \A q \in Procs : Place(q, g)
        /\ Entry([name |-> "globalRefine", refCount |-> r], J + 1, g)
  BY <1>1, LedgerCall
<1>3. /\ pc[p] = "idle" /\ done' = [done EXCEPT ![p] = @ + 1] /\ ~adaptActive[p]
      /\ done \in [Procs -> 0..Len(calls)]
      /\ pc \in [Procs -> {"idle", "max", "preadapted", "refine", "exchange", "adapted"}]
      /\ maxLevel \in [Procs -> Nat] /\ toMake \in [Procs -> Nat]
      /\ r \in Int /\ J \in Nat /\ J + 1 - 1 = J
  <2>1. pc[p] = "idle" /\ done' = [done EXCEPT ![p] = @ + 1]
    BY <1>1 DEF MakesCall
  <2>2. /\ done \in [Procs -> 0..Len(calls)]
        /\ pc \in [Procs -> {"idle", "max", "preadapted", "refine", "exchange", "adapted"}]
        /\ maxLevel \in [Procs -> Nat] /\ toMake \in [Procs -> Nat]
    BY DEF TypeInv, TypeOK
  <2>3. ~adaptActive[p] /\ r \in Int /\ J \in Nat
    BY <2>1, StateTypes, CountsAssumption
  <2>4. QED  BY <2>1, <2>2, <2>3
<1>4. /\ g.ad[J+1] = g.ad[J] /\ g.cnt[J+1] = r
      /\ g.off[J+1] = g.off[J] + larger(r, 0)
      /\ g.lev[J+1] = IF r < -g.lev[J] THEN g.lev[J] ELSE g.lev[J] + r
      /\ g.ad[J] \in Nat /\ g.off[J] \in Nat /\ g.lev[J] \in Nat
  <2>1. g.ad[J] \in Nat /\ g.off[J] \in Nat /\ g.lev[J] \in Nat
    BY <1>2, <1>3, HistoryTypes
  <2> DEFINE c == [name |-> "globalRefine", refCount |-> r]
  <2>2. c.name # "adapt" /\ c.refCount = r /\ Entry(c, J + 1, g)
    BY <1>2
  <2> HIDE DEF c, J
  <2>3. QED  BY <1>3, <2>1, <2>2 DEF Entry
<1>5. /\ Place(p, g) /\ Len(maxed[p]) = g.ad[J] /\ Len(made[p]) = g.off[J]
      /\ maxLevel[p] = g.lev[J] /\ Len(returned[p]) = g.ad[J]
      /\ \A n \in 1..Len(made[p]) : made[p][n] = g.lvl[n]
      /\ \A n \in 1..Len(returned[p]) : returned[p][n] = g.ret[n]
  BY <1>2, <1>3 DEF Place
<1>6. done'[p] = J + 1 /\ \A q \in Procs : q # p => done'[q] = done[q]
  BY <1>3
<1>7. Place(p, g)'
  <2> HIDE DEF J
  <2>1. CASE r < -maxLevel[p]
    <3>1. larger(r, 0) = 0
      BY <1>3, <1>4, <1>5, <2>1 DEF larger
    <3>2. g.off[J+1] = g.off[J] /\ g.lev[J+1] = g.lev[J]
      BY <1>4, <1>5, <2>1, <3>1
    <3>3. pc' = pc /\ maxLevel' = maxLevel
      BY <1>1, <2>1
    <3>4. QED  BY <1>1, <1>3, <1>4, <1>5, <1>6, <3>2, <3>3 DEF Place
  <2>2. CASE ~(r < -maxLevel[p])
    <3>1. globalRefine(p, r)
      BY <1>1, <2>2
    <3>2. /\ pc'[p] = "refine" /\ toMake'[p] = larger(r, 0)
          /\ maxLevel'[p] = IF r < 0 THEN maxLevel[p] + r ELSE maxLevel[p]
      BY <1>3, <3>1 DEF globalRefine
    <3>3. maxLevel'[p] + toMake'[p] = g.lev[J+1]
      BY <1>3, <1>4, <1>5, <2>2, <3>2 DEF larger
    <3>4. J + 1 >= 1
      BY <1>3
    <3>5. larger(r, 0) <= larger(r, 0)
      BY <1>3 DEF larger
    <3>6. QED  BY <1>1, <1>3, <1>4, <1>5, <1>6, <3>2, <3>3, <3>4, <3>5 DEF Place
  <2>3. QED  BY <2>1, <2>2
<1>8. ASSUME NEW q \in Procs, q # p PROVE Place(q, g)'
  <2>1. pc'[q] = pc[q] /\ maxLevel'[q] = maxLevel[q] /\ toMake'[q] = toMake[q]
    BY <1>1, <1>3, <1>8 DEF globalRefine
  <2>2. QED  BY <1>1, <1>2, <1>6, <1>8, <2>1, PlaceKept
<1>9. QED  BY <1>2, <1>7, <1>8 DEF Ledger

(* What a step inside a call does to the place of p, and to nobody else's. *)
LEMMA LedgerInside ==
  ASSUME TypeInv, Ledger, NEW p \in Procs, maxed' = maxed, calls' = calls, done' = done,
         \A q \in Procs : q # p =>
           /\ pc'[q] = pc[q] /\ made'[q] = made[q] /\ returned'[q] = returned[q]
           /\ maxLevel'[q] = maxLevel[q] /\ toMake'[q] = toMake[q]
           /\ adaptActive'[q] = adaptActive[q] /\ adaptRefCount'[q] = adaptRefCount[q],
         \A h \in Histories :
           Book(calls, Len(calls), h) /\ Decided(h) /\ Place(p, h) => Place(p, h)'
  PROVE  Ledger'
<1>1. PICK h \in Histories : /\ Book(calls, Len(calls), h) /\ Decided(h)
                             /\ \A q \in Procs : Place(q, h)
  BY DEF Ledger
<1>2. Decided(h)'
  BY <1>1 DEF Decided
<1>3. Place(p, h)'
  BY <1>1
<1>4. ASSUME NEW q \in Procs, q # p PROVE Place(q, h)'
  BY <1>1, <1>4, PlaceKept
<1>5. Book(calls', Len(calls'), h)
  BY <1>1
<1>6. QED  BY <1>2, <1>3, <1>4, <1>5 DEF Ledger

(* A process inside a call has begun one, and knows its entry. *)
LEMMA EntryInside ==
  ASSUME TypeInv, NEW p \in Procs, NEW h \in Histories, Book(calls, Len(calls), h), Place(p, h),
         pc[p] # "idle"
  PROVE  LET k == done[p]
         IN  /\ k \in 1..Len(calls) /\ Entry(calls[k], k, h)
             /\ adaptActive[p] => /\ calls[k].name = "adapt" /\ h.ad[k] = h.ad[k-1] + 1
                                  /\ h.cnt[k] >= 0
             /\ h.lev[k] \in Nat /\ h.off[k] \in Nat /\ h.ad[k] \in Nat /\ h.cnt[k] \in Int
             /\ h.lev[k-1] \in Nat /\ h.off[k-1] \in Nat /\ h.ad[k-1] \in Nat
<1> DEFINE k == done[p]
<1>1. k \in 1..Len(calls) /\ k \in Nat /\ k - 1 \in Nat
  BY StateTypes DEF Place
<1>2. Entry(calls[k], k, h)
  BY <1>1 DEF Book
<1>3. /\ h.lev[k] \in Nat /\ h.off[k] \in Nat /\ h.ad[k] \in Nat /\ h.cnt[k] \in Int
      /\ h.lev[k-1] \in Nat /\ h.off[k-1] \in Nat /\ h.ad[k-1] \in Nat
  BY <1>1, HistoryTypes
<1>4. ASSUME adaptActive[p]
      PROVE  calls[k].name = "adapt" /\ h.ad[k] = h.ad[k-1] + 1 /\ h.cnt[k] >= 0
  <2>1. h.ad[k] = h.ad[k-1] + 1
    BY <1>4 DEF Place
  <2>2. calls[k].name = "adapt"
    BY <1>2, <1>3, <2>1 DEF Entry
  <2>3. QED  BY <1>2, <2>1, <2>2 DEF Entry
<1>5. QED  BY <1>1, <1>2, <1>3, <1>4

LEMMA LedgerMark ==
  ASSUME TypeInv, Ledger, NEW p \in Procs, Mark(p)
  PROVE  Ledger'
<1>1. /\ pc[p] = "idle"
      /\ UNCHANGED <<pc, adaptActive, maxLevel, toMake, calls, done, maxed, made, returned>>
      /\ \A q \in Procs : q # p => adaptRefCount'[q] = adaptRefCount[q]
  <2>1. /\ pc[p] = "idle"
        /\ UNCHANGED <<pc, adaptActive, maxLevel, toMake, calls, done, maxed, made, returned>>
    BY DEF Mark
  <2>2. \/ adaptRefCount' = adaptRefCount
        \/ \E x : adaptRefCount' = [adaptRefCount EXCEPT ![p] = x]
    BY DEF Mark
  <2>3. adaptRefCount \in [Procs -> Nat]
    BY DEF TypeInv, TypeOK
  <2>4. QED  BY <2>1, <2>2, <2>3
<1>2. ASSUME NEW h \in Histories, Place(p, h) PROVE Place(p, h)'
  BY <1>1, <1>2 DEF Place
<1>3. QED  BY <1>1, <1>2, LedgerInside

LEMMA LedgerMaximum ==
  ASSUME TypeInv, Ledger, NEW p \in Procs, Maximum(p)
  PROVE  Ledger'
<1> DEFINE n == Len(maxed[p])
           k == done[p]
<1>1. /\ pc[p] = "max" /\ \A q \in Procs : n <= Len(maxed[q])
      /\ adaptRefCount'[p] = Max({maxed[q][n] : q \in Procs})
      /\ pc'[p] = "preadapted"
      /\ \A q \in Procs : q # p => pc'[q] = pc[q] /\ adaptRefCount'[q] = adaptRefCount[q]
      /\ UNCHANGED <<adaptActive, maxLevel, toMake, calls, done, maxed, made, returned, asked>>
  <2>1. \A q \in Procs : Len(maxed[q]) >= n /\ Len(maxed[q]) \in Nat
    BY StateTypes DEF Maximum
  <2>2. /\ pc \in [Procs -> {"idle", "max", "preadapted", "refine", "exchange", "adapted"}]
        /\ adaptRefCount \in [Procs -> Nat]
    BY DEF TypeInv, TypeOK
  <2>3. QED  BY <2>1, <2>2 DEF Maximum
<1>2. ASSUME NEW h \in Histories, Book(calls, Len(calls), h), Decided(h), Place(p, h)
      PROVE  Place(p, h)'
  <2>1. /\ k \in 1..Len(calls) /\ adaptActive[p] /\ calls[k].name = "adapt" /\ n = h.ad[k]
    BY <1>1, <1>2, EntryInside, StateTypes DEF Place
  <2>2. h.cnt[k] = Max({maxed[q][n] : q \in Procs})
    BY <1>1, <1>2, <2>1 DEF Decided
  <2>3. QED
    <3> HIDE DEF n
    <3>1. QED  BY <1>1, <1>2, <2>2 DEF Place
<1>3. QED  BY <1>1, <1>2, LedgerInside

LEMMA LedgerAdapt ==
  ASSUME TypeInv, Ledger, NEW p \in Procs, Adapt(p)
  PROVE  Ledger'
<1> DEFINE k == done[p]
           x == adaptRefCount[p]
<1>1. /\ pc[p] = "preadapted" /\ adaptActive[p] /\ x \in Nat /\ pc'[p] = "refine"
      /\ maxLevel'[p] = maxLevel[p] /\ toMake'[p] = larger(x, 0)
      /\ \A q \in Procs : q # p => /\ pc'[q] = pc[q] /\ maxLevel'[q] = maxLevel[q]
                                  /\ toMake'[q] = toMake[q]
      /\ UNCHANGED <<adaptActive, adaptRefCount, calls, done, maxed, made, returned, asked>>
  <2>1. pc[p] = "preadapted" /\ adaptActive[p] /\ x \in Nat
    BY StateTypes DEF Adapt
  <2>2. /\ pc \in [Procs -> {"idle", "max", "preadapted", "refine", "exchange", "adapted"}]
        /\ maxLevel \in [Procs -> Nat] /\ toMake \in [Procs -> Nat]
    BY DEF TypeInv, TypeOK
  <2>3. /\ pc' = [pc EXCEPT ![p] = "refine"]
        /\ maxLevel' = [maxLevel EXCEPT ![p] = IF x < 0 THEN @ + x ELSE @]
        /\ toMake' = [toMake EXCEPT ![p] = larger(x, 0)]
        /\ UNCHANGED <<adaptActive, adaptRefCount, calls, done, maxed, made, returned, asked>>
    BY DEF Adapt, globalRefine
  <2>4. ~(x < 0)
    BY <2>1
  <2> HIDE DEF x
  <2>5. QED  BY <2>1, <2>2, <2>3, <2>4
<1>2. ASSUME NEW h \in Histories, Book(calls, Len(calls), h), Decided(h), Place(p, h)
      PROVE  Place(p, h)'
  <2>1. /\ k \in 1..Len(calls) /\ Entry(calls[k], k, h) /\ h.cnt[k] = x
        /\ h.lev[k-1] \in Nat /\ h.off[k-1] \in Nat
        /\ Len(made[p]) = h.off[k-1] /\ maxLevel[p] = h.lev[k-1] /\ Len(returned[p]) = h.ad[k-1]
    BY <1>1, <1>2, EntryInside DEF Place
  <2>2. larger(x, 0) = x
    BY <1>1 DEF larger
  <2>3. h.off[k] = h.off[k-1] + x /\ h.lev[k] = h.lev[k-1] + x
    BY <1>1, <2>1, <2>2 DEF Entry
  <2>4. x <= x
    BY <1>1
  <2> HIDE DEF x
  <2>5. QED  BY <1>1, <1>2, <2>1, <2>2, <2>3, <2>4 DEF Place
<1>3. QED  BY <1>1, <1>2, LedgerInside

LEMMA OneMoreLevel ==
  ASSUME NEW n \in Nat, NEW t \in Nat, NEW x \in Int, NEW o \in Nat, NEW l \in Nat, NEW m \in Nat,
         t > 0, t <= x, n + t = o + x, m + t = l + x
  PROVE  /\ n + 1 - o \in 1..x /\ o + (n + 1 - o) = n + 1 /\ l + (n + 1 - o) = m + 1
         /\ n + 1 + (t - 1) = o + x /\ m + 1 + (t - 1) = l + x /\ t - 1 <= x
OBVIOUS

LEMMA LedgerMakeLevel ==
  ASSUME TypeInv, Ledger, NEW p \in Procs, MakeLevel(p)
  PROVE  Ledger'
<1> DEFINE k == done[p]
           n == Len(made[p])
<1>1. /\ pc[p] = "refine" /\ toMake[p] \in Nat /\ toMake[p] > 0 /\ pc'[p] = "exchange"
      /\ maxLevel[p] \in Nat /\ maxLevel'[p] = maxLevel[p] + 1 /\ toMake'[p] = toMake[p] - 1
      /\ made'[p] = Append(made[p], maxLevel[p] + 1)
      /\ \A q \in Procs : q # p => /\ pc'[q] = pc[q] /\ maxLevel'[q] = maxLevel[q]
                                  /\ toMake'[q] = toMake[q] /\ made'[q] = made[q]
      /\ UNCHANGED <<adaptActive, adaptRefCount, calls, done, maxed, returned, asked>>
  <2>1. /\ pc \in [Procs -> {"idle", "max", "preadapted", "refine", "exchange", "adapted"}]
        /\ maxLevel \in [Procs -> Nat] /\ toMake \in [Procs -> Nat]
        /\ made \in [Procs -> Seq(Nat)]
    BY DEF TypeInv, TypeOK, LogTypes
  <2>2. QED  BY <2>1 DEF MakeLevel
<1>2. /\ n \in Nat /\ Len(made'[p]) = n + 1 /\ made'[p][n+1] = maxLevel[p] + 1
      /\ \A i \in 1..n : made'[p][i] = made[p][i]
  <2>1. made[p] \in Seq(Nat) /\ maxLevel[p] + 1 \in Nat /\ n \in Nat
    BY <1>1, StateTypes
  <2>2. QED  BY <1>1, <2>1, AppendTo
<1>3. ASSUME NEW h \in Histories, Book(calls, Len(calls), h), Decided(h), Place(p, h)
      PROVE  Place(p, h)'
  <2> DEFINE x == h.cnt[k]
  <2>1. /\ k \in 1..Len(calls) /\ Entry(calls[k], k, h) /\ x \in Int
        /\ h.lev[k-1] \in Nat /\ h.off[k-1] \in Nat /\ h.lev[k] \in Nat /\ h.off[k] \in Nat
        /\ n + toMake[p] = h.off[k] /\ maxLevel[p] + toMake[p] = h.lev[k]
        /\ toMake[p] <= larger(x, 0)
        /\ \A j \in 1..n : made[p][j] = h.lvl[j]
    BY <1>1, <1>3, EntryInside DEF Place
  <2>2. x > 0 /\ larger(x, 0) = x /\ toMake[p] <= x
    BY <1>1, <2>1 DEF larger
  <2>3. h.off[k] = h.off[k-1] + x /\ h.lev[k] = h.lev[k-1] + x
    BY <2>1, <2>2 DEF Entry
  <2>4. /\ n + 1 - h.off[k-1] \in 1..x
        /\ h.off[k-1] + (n + 1 - h.off[k-1]) = n + 1
        /\ h.lev[k-1] + (n + 1 - h.off[k-1]) = maxLevel[p] + 1
        /\ n + 1 + (toMake[p] - 1) = h.off[k-1] + x
        /\ maxLevel[p] + 1 + (toMake[p] - 1) = h.lev[k-1] + x
        /\ toMake[p] - 1 <= x
    <3>1. n + toMake[p] = h.off[k-1] + x /\ maxLevel[p] + toMake[p] = h.lev[k-1] + x
      BY <2>1, <2>3
    <3>2. /\ n \in Nat /\ toMake[p] \in Nat /\ x \in Int /\ maxLevel[p] \in Nat
          /\ h.off[k-1] \in Nat /\ h.lev[k-1] \in Nat
          /\ toMake[p] > 0 /\ toMake[p] <= x
      BY <1>1, <1>2, <2>1, <2>2
    <3> HIDE DEF x, n, k
    <3>3. QED  BY <3>1, <3>2, OneMoreLevel
  <2>5. h.lvl[n+1] = maxLevel[p] + 1
    BY <2>1, <2>2, <2>4 DEF Entry
  <2>6. \A j \in 1..Len(made'[p]) : made'[p][j] = h.lvl[j]
    <3>1. \A j \in 1..n+1 : j \in 1..n \/ j = n + 1
      BY <1>2
    <3>2. QED  BY <1>2, <2>1, <2>5, <3>1
  <2>7. /\ Len(made'[p]) + toMake'[p] = h.off[k] /\ maxLevel'[p] + toMake'[p] = h.lev[k]
        /\ toMake'[p] <= larger(x, 0)
    BY <1>1, <1>2, <2>2, <2>3, <2>4
  <2> HIDE DEF n, x
  <2>8. QED  BY <1>1, <1>3, <2>6, <2>7 DEF Place, x
<1>4. QED  BY <1>1, <1>3, LedgerInside

LEMMA LedgerRefined ==
  ASSUME TypeInv, Ledger, NEW p \in Procs, Refined(p)
  PROVE  Ledger'
<1> DEFINE k == done[p]
           n == Len(returned[p])
<1>1. /\ pc[p] = "refine" /\ toMake[p] = 0
      /\ UNCHANGED <<adaptActive, adaptRefCount, maxLevel, toMake, calls, done, maxed, made, asked>>
      /\ pc'[p] = IF adaptActive[p] THEN "adapted" ELSE "idle"
      /\ returned'[p] = IF adaptActive[p] THEN Append(returned[p], adaptRefCount[p] > 0)
                                          ELSE returned[p]
      /\ \A q \in Procs : q # p => pc'[q] = pc[q] /\ returned'[q] = returned[q]
  <2>1. /\ pc \in [Procs -> {"idle", "max", "preadapted", "refine", "exchange", "adapted"}]
        /\ returned \in [Procs -> Seq(BOOLEAN)]
    BY DEF TypeInv, TypeOK, LogTypes
  <2>2. QED  BY <2>1 DEF Refined
<1>2. ASSUME NEW h \in Histories, Book(calls, Len(calls), h), Decided(h), Place(p, h)
      PROVE  Place(p, h)'
  <2>1. /\ k \in 1..Len(calls) /\ Entry(calls[k], k, h)
        /\ Len(made[p]) = h.off[k] /\ maxLevel[p] = h.lev[k]
        /\ n = IF adaptActive[p] THEN h.ad[k-1] ELSE h.ad[k]
        /\ \A j \in 1..n : returned[p][j] = h.ret[j]
    <3>1. k \in 1..Len(calls) /\ Entry(calls[k], k, h)
      BY <1>1, <1>2, EntryInside
    <3>2. /\ Len(made[p]) + toMake[p] = h.off[k] /\ maxLevel[p] + toMake[p] = h.lev[k]
          /\ n = IF adaptActive[p] THEN h.ad[k-1] ELSE h.ad[k]
          /\ \A j \in 1..n : returned[p][j] = h.ret[j]
      BY <1>1, <1>2 DEF Place
    <3>3. Len(made[p]) \in Nat /\ maxLevel[p] \in Nat
      BY StateTypes
    <3>4. QED  BY <1>1, <3>1, <3>2, <3>3
  <2>2. CASE ~adaptActive[p]
    BY <1>1, <1>2, <2>1, <2>2 DEF Place
  <2>3. CASE adaptActive[p]
    <3> DEFINE more == adaptRefCount[p] > 0
    <3>1. calls[k].name = "adapt" /\ h.ad[k] = n + 1 /\ adaptRefCount[p] = h.cnt[k]
      BY <1>1, <1>2, <2>1, <2>3, EntryInside DEF Place
    <3>2. h.ret[n+1] = more
      BY <2>1, <3>1 DEF Entry
    <3>3. returned[p] \in Seq(BOOLEAN) /\ more \in BOOLEAN /\ n \in Nat
      BY StateTypes
    <3> HIDE DEF more
    <3>4. returned'[p] = Append(returned[p], more)
      BY <1>1, <2>3 DEF more
    <3>5. /\ Len(returned'[p]) = n + 1 /\ returned'[p][n+1] = more
          /\ \A j \in 1..n : returned'[p][j] = returned[p][j]
      BY <3>3, <3>4, AppendTo
    <3>6. \A j \in 1..Len(returned'[p]) : returned'[p][j] = h.ret[j]
      <4>1. \A j \in 1..n+1 : j \in 1..n \/ j = n + 1
        BY <3>3
      <4> HIDE DEF n
      <4>2. QED  BY <2>1, <3>2, <3>5, <4>1
    <3>7. Len(returned'[p]) = h.ad[k] /\ pc'[p] = "adapted"
      BY <1>1, <2>3, <3>1, <3>5
    <3> HIDE DEF n
    <3>8. QED  BY <1>1, <1>2, <2>1, <2>3, <3>6, <3>7 DEF Place
  <2>4. QED  BY <2>2, <2>3
<1>3. QED  BY <1>1, <1>2, LedgerInside

LEMMA LedgerReturns ==
  ASSUME TypeInv, Ledger, NEW p \in Procs, Exchanged(p) \/ PostAdapt(p)
  PROVE  Ledger'
<1>1. /\ pc \in [Procs -> {"idle", "max", "preadapted", "refine", "exchange", "adapted"}]
      /\ adaptActive \in [Procs -> BOOLEAN] /\ adaptRefCount \in [Procs -> Nat]
  BY DEF TypeInv, TypeOK
<1>2. /\ \A q \in Procs : q # p => /\ pc'[q] = pc[q] /\ adaptActive'[q] = adaptActive[q]
                                  /\ adaptRefCount'[q] = adaptRefCount[q]
      /\ UNCHANGED <<maxLevel, toMake, calls, done, maxed, made, returned, asked>>
      /\ \/ /\ pc[p] = "exchange" /\ pc'[p] = "refine"
            /\ adaptActive'[p] = adaptActive[p] /\ adaptRefCount'[p] = adaptRefCount[p]
         \/ pc[p] = "adapted" /\ pc'[p] = "idle"
  BY <1>1 DEF Exchanged, PostAdapt
<1>3. ASSUME NEW h \in Histories, Place(p, h)
      PROVE  Place(p, h)'
  <2>1. CASE pc[p] = "exchange"
    BY <1>2, <1>3, <2>1 DEF Place
  <2>2. CASE pc[p] = "adapted"
    BY <1>2, <1>3, <2>2 DEF Place
  <2>3. QED  BY <1>2, <2>1, <2>2
<1>4. QED  BY <1>2, <1>3, LedgerInside

IInv == TypeInv /\ Barrier /\ Begun /\ MarksInv /\ Ledger

LEMMA IInvInit ==
  ASSUME Init
  PROVE  IInv
<1>1. /\ \A p \in Procs : Len(maxed[p]) = 0 /\ adaptRefCount[p] = 0 /\ pc[p] = "idle"
      /\ Len(calls) = 0 /\ \A n \in 1..MaxCalls+1 : asked[n] = {}
  BY DEF Init
<1>2. Barrier /\ Begun /\ MarksInv
  BY <1>1 DEF Barrier, Passed, Begun, MarksInv
<1>3. QED  BY <1>2, TypeInvInit, LedgerInit DEF IInv

LEMMA IInvNext ==
  ASSUME IInv, [Next]_vars
  PROVE  IInv'
<1>1. TypeInv /\ Barrier /\ Begun /\ MarksInv /\ Ledger
  BY DEF IInv
<1>2. TypeInv' /\ Barrier' /\ Begun' /\ MarksInv'
  BY <1>1, TypeInvNext, BarrierNext, BegunNext, MarksInvNext
<1>3. Ledger'
  <2>1. CASE UNCHANGED vars
    <3>1. PICK h \in Histories : /\ Book(calls, Len(calls), h) /\ Decided(h)
                                 /\ \A q \in Procs : Place(q, h)
      BY <1>1 DEF Ledger
    <3>2. \A q \in Procs : Place(q, h)'
      BY <2>1, <3>1, PlaceKept DEF vars
    <3>3. Decided(h)' /\ Book(calls', Len(calls'), h)
      BY <2>1, <3>1 DEF vars, Decided
    <3>4. QED  BY <3>2, <3>3 DEF Ledger
  <2>2. ASSUME NEW p \in Procs, Mark(p) \/ Begin(p) \/ Inside(p)
        PROVE  Ledger'
    <3>1. CASE Mark(p)
      BY <1>1, <3>1, LedgerMark
    <3>2. CASE PreAdapt(p)
      BY <1>1, <1>2, <3>2, LedgerPreAdapt
    <3>3. CASE GlobalRefine(p)
      BY <1>1, <1>2, <3>3, LedgerGlobalRefine
    <3>4. CASE Maximum(p) \/ Adapt(p)
      BY <1>1, <3>4, LedgerMaximum, LedgerAdapt
    <3>5. CASE MakeLevel(p) \/ Refined(p)
      BY <1>1, <3>5, LedgerMakeLevel, LedgerRefined
    <3>6. CASE Exchanged(p) \/ PostAdapt(p)
      BY <1>1, <3>6, LedgerReturns
    <3>7. QED  BY <2>2, <3>1, <3>2, <3>3, <3>4, <3>5, <3>6 DEF Begin, Inside
  <2>3. QED  BY <2>1, <2>2 DEF Next, Finished
<1>4. QED  BY <1>2, <1>3 DEF IInv

THEOREM Inductive == Spec => []IInv
BY IInvInit, IInvNext, PTL DEF Spec
-----------------------------------------------------------------------------
(* Processes never disagree on the levels they make together, on what      *)
(* adapt() returned, or, between calls, on the finest level: both are read *)
(* off the one history.                                                    *)
THEOREM LevelsNeverDisagree == Spec => []LevelsAgree
<1>1. ASSUME IInv PROVE LevelsAgree
  <2>1. PICK h \in Histories : \A q \in Procs : Place(q, h)
    BY <1>1 DEF IInv, Ledger
  <2>2. ASSUME NEW p \in Procs, NEW q \in Procs
        PROVE  Agree(made[p], made[q]) /\ Agree(returned[p], returned[q])
    <3>1. /\ Len(made[q]) \in Nat /\ Len(returned[q]) \in Nat
          /\ Len(made[p]) \in Nat /\ Len(returned[p]) \in Nat
      BY <1>1, StateTypes DEF IInv
    <3>2. /\ \A n \in 1..Len(made[p]) : made[p][n] = h.lvl[n]
          /\ \A n \in 1..Len(made[q]) : made[q][n] = h.lvl[n]
          /\ \A n \in 1..Len(returned[p]) : returned[p][n] = h.ret[n]
          /\ \A n \in 1..Len(returned[q]) : returned[q][n] = h.ret[n]
      BY <2>1 DEF Place
    <3>3. QED  BY <3>1, <3>2 DEF Agree
  <2>3. ASSUME NEW p \in Procs, NEW q \in Procs, pc[p] = "idle", pc[q] = "idle", done[p] = done[q]
        PROVE  maxLevel[p] = maxLevel[q]
    BY <2>1, <2>3 DEF Place
  <2>4. QED  BY <2>2, <2>3 DEF LevelsAgree
<1>2. QED  BY <1>1, Inductive, PTL

(* What the last adaptation refined by, on a process that has finished it: *)
(* the largest mark any process had set.                                   *)
LEMMA LargestMark ==
  ASSUME IInv, NEW p \in Procs, pc[p] = "adapted"
  PROVE  Max(asked[Len(maxed[p])] \cup {0}) = adaptRefCount[p]
<1> DEFINE n == Len(maxed[p])
           k == done[p]
           x == adaptRefCount[p]
           f == [q \in Procs |-> maxed[q][n]]
<1>1. PICK h \in Histories : /\ Book(calls, Len(calls), h) /\ Decided(h)
                             /\ \A q \in Procs : Place(q, h)
  BY DEF IInv, Ledger
<1>2. TypeInv /\ Barrier /\ MarksInv /\ adaptActive[p] /\ x \in Nat
  BY StateTypes DEF IInv
<1>3. /\ k \in 1..Len(calls) /\ calls[k].name = "adapt" /\ h.ad[k] = n /\ n \in Nat /\ n >= 1
      /\ h.cnt[k] = x
  <2>1. /\ k \in 1..Len(calls) /\ calls[k].name = "adapt" /\ h.ad[k] = h.ad[k-1] + 1
        /\ h.ad[k-1] \in Nat
    BY <1>1, <1>2, EntryInside
  <2>2. n = h.ad[k] /\ x = h.cnt[k]
    BY <1>1, <1>2 DEF Place
  <2>3. QED  BY <2>1, <2>2
<1>4. \A q \in Procs : n <= Len(maxed[q]) /\ n \in 1..Len(maxed[q]) /\ maxed[q][n] \in Nat
  <2>1. ASSUME NEW q \in Procs
        PROVE  n <= Len(maxed[q]) /\ n \in 1..Len(maxed[q]) /\ maxed[q][n] \in Nat
    <3>1. n <= Len(maxed[q])
      BY <1>2 DEF Barrier, Passed
    <3>2. Len(maxed[q]) \in Nat /\ maxed[q] \in Seq(Nat)
      BY <1>2, StateTypes
    <3>3. QED  BY <1>3, <3>1, <3>2
  <2>2. QED  BY <2>1
<1>5. x = Max({f[q] : q \in Procs})
  <2>1. x = Max({maxed[q][n] : q \in Procs})
    BY <1>1, <1>3, <1>4 DEF Decided
  <2>2. {f[q] : q \in Procs} = {maxed[q][n] : q \in Procs}
    OBVIOUS
  <2>3. QED  BY <2>1, <2>2
<1>6. /\ \E q \in Procs : x = maxed[q][n]
      /\ \A q \in Procs : x >= maxed[q][n]
  <2>1. \A q \in Procs : f[q] \in Nat /\ f[q] = maxed[q][n]
    BY <1>4
  <2> HIDE DEF f, x, n
  <2>2. /\ \E q \in Procs : x = f[q]
        /\ \A q \in Procs : x >= f[q]
    BY <1>5, <2>1, MaximumOfAll
  <2>3. QED  BY <2>1, <2>2
<1> HIDE DEF n, x
<1>7. n \in 1..MaxCalls+1 /\ asked[n] \subseteq Int
  <2>1. /\ Len(maxed[p]) <= done[p] /\ Len(calls) <= MaxCalls
        /\ asked \in [1..MaxCalls+1 -> SUBSET Counts]
    BY <1>2 DEF TypeInv, LogTypes
  <2>2. done[p] \in 0..Len(calls) /\ Len(calls) \in Nat
    BY <1>2, StateTypes
  <2>3. n \in 1..MaxCalls+1
    BY <1>3, <2>1, <2>2, LimitsAssumption DEF n
  <2>4. QED  BY <2>1, <2>3, CountsAssumption
<1>8. x \in asked[n] \cup {0}
  BY <1>2, <1>4, <1>6 DEF MarksInv
<1>9. ASSUME NEW a \in asked[n] PROVE x >= a
  <2>1. PICK q \in Procs :
          \/ n <= Len(maxed[q]) /\ a <= maxed[q][n]
          \/ n = Len(maxed[q]) + 1 /\ ~adaptActive[q] /\ a <= adaptRefCount[q]
    BY <1>2, <1>7 DEF MarksInv
  <2>2. n <= Len(maxed[q]) /\ Len(maxed[q]) \in Nat
    BY <1>2, <1>4, StateTypes
  <2>3. a <= maxed[q][n]
    BY <1>3, <2>1, <2>2
  <2>4. a \in Int /\ maxed[q][n] \in Nat /\ x >= maxed[q][n]
    BY <1>4, <1>6, <1>7
  <2>5. QED  BY <1>2, <2>3, <2>4
<1>10. Max(asked[n] \cup {0}) = x
  <2>1. \A a \in asked[n] \cup {0} : x >= a
    BY <1>2, <1>9
  <2>2. asked[n] \cup {0} \in SUBSET Int
    BY <1>7
  <2>3. QED  BY <1>8, <2>1, <2>2, MaxIs
<1>11. QED  BY <1>10 DEF n, x

(* A mark counts wherever it was set: when adapt() has refined, every      *)
(* process has made as many levels as the largest mark of any process.     *)
THEOREM MarksAlwaysCount == Spec => []MarksCount
<1>1. ASSUME IInv, NEW p \in Procs, pc[p] = "adapted"
      PROVE  LET x == adaptRefCount[p]
             IN  /\ Len(made[p]) >= x
                 /\ \A i \in 1..x : made[p][Len(made[p]) - x + i] = maxLevel[p] - x + i
                 /\ returned[p][Len(returned[p])] <=> x > 0
  <2> DEFINE k == done[p]
             x == adaptRefCount[p]
             n == Len(made[p])
  <2>1. PICK h \in Histories : /\ Book(calls, Len(calls), h) /\ Decided(h)
                               /\ \A q \in Procs : Place(q, h)
    BY <1>1 DEF IInv, Ledger
  <2>2. TypeInv /\ adaptActive[p] /\ x \in Nat
    BY <1>1, StateTypes DEF IInv
  <2>3. /\ Entry(calls[k], k, h) /\ calls[k].name = "adapt" /\ h.ad[k] = h.ad[k-1] + 1
        /\ h.ad[k-1] \in Nat /\ h.off[k-1] \in Nat /\ h.lev[k-1] \in Nat
        /\ h.cnt[k] = x /\ n = h.off[k] /\ maxLevel[p] = h.lev[k] /\ Len(returned[p]) = h.ad[k]
        /\ \A j \in 1..n : made[p][j] = h.lvl[j]
        /\ \A j \in 1..Len(returned[p]) : returned[p][j] = h.ret[j]
    <3>1. /\ Entry(calls[k], k, h) /\ calls[k].name = "adapt" /\ h.ad[k] = h.ad[k-1] + 1
          /\ h.ad[k-1] \in Nat /\ h.off[k-1] \in Nat /\ h.lev[k-1] \in Nat
      BY <1>1, <2>1, <2>2, EntryInside
    <3>2. /\ h.cnt[k] = x /\ n = h.off[k] /\ maxLevel[p] = h.lev[k] /\ Len(returned[p]) = h.ad[k]
          /\ \A j \in 1..n : made[p][j] = h.lvl[j]
          /\ \A j \in 1..Len(returned[p]) : returned[p][j] = h.ret[j]
      BY <1>1, <2>1, <2>2 DEF Place
    <3>3. QED  BY <3>1, <3>2
  <2>4. larger(x, 0) = x
    BY <2>2 DEF larger
  <2> HIDE DEF k, x, n
  <2>5. n = h.off[k-1] + x /\ maxLevel[p] = h.lev[k-1] + x
    BY <2>2, <2>3, <2>4 DEF Entry
  <2>6. n >= x
    BY <2>2, <2>3, <2>5
  <2>7. ASSUME NEW i \in 1..x PROVE made[p][n - x + i] = maxLevel[p] - x + i
    <3>1. h.lvl[h.off[k-1] + i] = h.lev[k-1] + i
      BY <2>3, <2>4 DEF Entry
    <3>2. n - x + i = h.off[k-1] + i /\ maxLevel[p] - x + i = h.lev[k-1] + i /\ n - x + i \in 1..n
      BY <2>2, <2>3, <2>5
    <3>3. QED  BY <2>3, <3>1, <3>2
  <2>8. returned[p][Len(returned[p])] = (x > 0)
    <3>1. Len(returned[p]) \in 1..Len(returned[p])
      BY <2>3
    <3>2. h.ret[h.ad[k]] = (x > 0)
      BY <2>3 DEF Entry
    <3>3. QED  BY <2>3, <3>1, <3>2
  <2>9. QED  BY <2>6, <2>7, <2>8 DEF n, x
<1>2. ASSUME IInv PROVE MarksCount
  BY <1>1, <1>2, LargestMark DEF MarksCount
<1>3. QED  BY <1>2, Inductive, PTL
=============================================================================

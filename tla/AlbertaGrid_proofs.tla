--------------------------- MODULE AlbertaGrid_proofs --------------------------
(***************************************************************************)
(* AlbertaGrid and its index stacks, for every conforming macro            *)
(* triangulation, every numbering of it, every capacity of the stacks and  *)
(* all bounds.                                                             *)
(*                                                                         *)
(* First the stacks, then sequences of calls of them; the mesh as a forest *)
(* of bisected triangles; the numbers of the elements and the data kept    *)
(* under them (IndexInv); the levels (LevelInv) and the marks (MarkInv,    *)
(* WeightInv); the leaf index set and the marker (CacheInv).  Then the     *)
(* geometry: the mesh stays conforming when the elements at an edge are    *)
(* bisected together, or lose their children together; so the entities     *)
(* inside a patch are new, or vanish, and the lists of refinement.hh name  *)
(* them all: the numbers of all codimensions (NumbersInv), and the types.  *)
(***************************************************************************)
EXTENDS AlbertaGrid, NaturalLemmas, SequenceTheorems, FiniteSetTheorems, TLAPS
-----------------------------------------------------------------------------
(* IndexStack *)

Distinct(s) == \A p, q \in slots(s) : slot(s, p) = slot(s, q) => p = q

(* What a finite stack looks like after push and topAndPop. *)
LEMMA FrontOf ==
  ASSUME NEW S, NEW q \in Seq(S), q # <<>>
  PROVE  /\ Len(q) \in Nat \ {0}
         /\ last(q) \in S
         /\ front(q) \in Seq(S) /\ Len(front(q)) = Len(q) - 1
         /\ \A j \in 1..Len(q) - 1 : front(q)[j] = q[j]
<1>1. Len(q) \in Nat \ {0}
  OBVIOUS
<1>2. last(q) \in S
  BY <1>1 DEF last
<1>3. 1 \in Int /\ Len(q) - 1 \in Int /\ \A j \in 1..Len(q) - 1 : q[j] \in S
  BY <1>1
<1>4. /\ front(q) \in Seq(S)
      /\ Len(front(q)) = IF 1 <= Len(q) - 1 THEN Len(q) - 1 - 1 + 1 ELSE 0
      /\ \A j \in 1..Len(q) - 1 - 1 + 1 : front(q)[j] = q[1 + j - 1]
  BY <1>3, SubSeqProperties DEF front
<1>5. Len(front(q)) = Len(q) - 1
  <2>1. \A n \in Nat \ {0} : (IF 1 <= n - 1 THEN n - 1 - 1 + 1 ELSE 0) = n - 1
    OBVIOUS
  <2>2. QED  BY <1>1, <1>4, <2>1
<1>6. \A j \in 1..Len(q) - 1 : front(q)[j] = q[j]
  <2>1. SUFFICES ASSUME NEW j \in 1..Len(q) - 1 PROVE front(q)[j] = q[j]
    OBVIOUS
  <2>2. j \in 1..Len(q) - 1 - 1 + 1 /\ 1 + j - 1 = j
    BY <1>1
  <2>3. QED  BY <2>2, <1>4
<1>7. QED  BY <1>1, <1>2, <1>4, <1>5, <1>6

LEMMA AppendTo ==
  ASSUME NEW S, NEW q \in Seq(S), NEW x \in S
  PROVE  /\ Append(q, x) \in Seq(S) /\ Len(Append(q, x)) = Len(q) + 1
         /\ \A j \in 1..Len(q) : Append(q, x)[j] = q[j]
         /\ Append(q, x)[Len(q) + 1] = x
OBVIOUS

(* A stack u that has all slots of t but one. *)
LEMMA OneLess ==
  ASSUME NEW t, NEW u, NEW x \in slots(t), Distinct(t),
         slots(u) = slots(t) \ {x},
         \A p \in slots(u) : slot(u, p) = slot(t, p)
  PROVE  Distinct(u) /\ holes(u) = holes(t) \ {slot(t, x)}
<1>1. Distinct(u)  BY DEF Distinct
<1>2. holes(u) \subseteq holes(t) \ {slot(t, x)}  BY DEF holes, Distinct
<1>3. holes(t) \ {slot(t, x)} \subseteq holes(u)  BY DEF holes
<1>4. QED  BY <1>1, <1>2, <1>3

(* A stack v that has one slot more than u. *)
LEMMA OneMore ==
  ASSUME NEW u, NEW v, NEW x, x \notin slots(u), Distinct(u),
         slots(v) = slots(u) \cup {x},
         \A p \in slots(u) : slot(v, p) = slot(u, p),
         slot(v, x) \notin holes(u)
  PROVE  Distinct(v) /\ holes(v) = holes(u) \cup {slot(v, x)}
<1>1. Distinct(v)  BY DEF Distinct, holes
<1>2. holes(v) = holes(u) \cup {slot(v, x)}  BY DEF holes
<1>3. QED  BY <1>1, <1>2

(* A stack t whose slots are those of s under other names, given by m. *)
LEMMA Renamed ==
  ASSUME NEW s, NEW t, NEW m, Distinct(s),
         \A p \in slots(t) : m[p] \in slots(s) /\ slot(t, p) = slot(s, m[p]),
         \A p, q \in slots(t) : m[p] = m[q] => p = q,
         \A r \in slots(s) : \E p \in slots(t) : r = m[p]
  PROVE  Distinct(t) /\ holes(t) = holes(s)
<1>1. Distinct(t)  BY DEF Distinct
<1>2. holes(t) \subseteq holes(s)  BY DEF holes
<1>3. holes(s) \subseteq holes(t)  BY DEF holes
<1>4. QED  BY <1>1, <1>2, <1>3
-----------------------------------------------------------------------------
(* The slots, with the sizes of the finite stacks put in. *)
LEMMA SlotsOf ==
  ASSUME NEW s, TypeOfStack(s)
  PROVE  /\ Len(s.stack_) \in 0..length /\ Len(s.fullStackList_) \in Nat /\ length \in Nat \ {0}
         /\ \A p : p \in slots(s) <=>
              \E k, j \in Int : /\ p = <<k, j>> /\ 1 <= j /\ j <= length
                                /\ \/ k = 0 /\ j <= Len(s.stack_)
                                   \/ 1 <= k /\ k <= Len(s.fullStackList_)
<1>1. Len(s.stack_) \in 0..length /\ Len(s.fullStackList_) \in Nat /\ length \in Nat \ {0}
  BY lengthAssumption DEF TypeOfStack
<1>2. \A k \in 1..Len(s.fullStackList_) : Len(s.fullStackList_[k]) = length
  BY DEF TypeOfStack
<1>3. ASSUME NEW p, p \in slots(s)
      PROVE  \E k, j \in Int : /\ p = <<k, j>> /\ 1 <= j /\ j <= length
                               /\ \/ k = 0 /\ j <= Len(s.stack_)
                                  \/ 1 <= k /\ k <= Len(s.fullStackList_)
  <2>1. PICK k \in 0..Len(s.fullStackList_), j \in 1..length :
          p = <<k, j>> /\ j <= stackSize(s, k)
    BY <1>3 DEF slots, stackSize
  <2>2. QED  BY <1>1, <2>1 DEF stackSize
<1>4. ASSUME NEW k \in Int, NEW j \in Int, 1 <= j, j <= length,
             \/ k = 0 /\ j <= Len(s.stack_)
             \/ 1 <= k /\ k <= Len(s.fullStackList_)
      PROVE  <<k, j>> \in slots(s)
  BY <1>1, <1>2, <1>4 DEF slots, stackSize
<1>5. QED  BY <1>1, <1>3, <1>4

(* exchangeEmpty() and exchangeFull() only give the slots other names. *)
LEMMA ExchangeEmpty ==
  ASSUME NEW s, TypeOfStack(s), Distinct(s)
  PROVE  LET t == exchangeEmpty(s)
         IN  /\ TypeOfStack(t) /\ Distinct(t) /\ holes(t) = holes(s)
             /\ t.maxIndex_ = s.maxIndex_
             /\ t.stack_ = <<>> => t = s /\ slots(s) = {}
<1> DEFINE t == exchangeEmpty(s)
           n == Len(s.fullStackList_)
<1>0. CASE ~(s.stack_ = <<>> /\ s.fullStackList_ # <<>>)
  <2>1. t = s  BY <1>0 DEF exchangeEmpty
  <2>2. ASSUME s.stack_ = <<>> PROVE slots(s) = {}
    <3>1. s.fullStackList_ = <<>>  BY <1>0, <2>2
    <3>2. Len(s.stack_) = 0 /\ Len(s.fullStackList_) = 0  BY <2>2, <3>1
    <3>3. QED  BY <3>2, SlotsOf
  <2>3. QED  BY <2>1, <2>2
<1>1. CASE s.stack_ = <<>> /\ s.fullStackList_ # <<>>
  <2>1. /\ t.stack_ = last(s.fullStackList_)
        /\ t.fullStackList_ = front(s.fullStackList_)
        /\ t.emptyStackList_ = s.emptyStackList_ + 1
        /\ t.maxIndex_ = s.maxIndex_
        /\ t = [stack_ |-> t.stack_, fullStackList_ |-> t.fullStackList_,
                emptyStackList_ |-> t.emptyStackList_, maxIndex_ |-> t.maxIndex_]
    BY <1>1 DEF exchangeEmpty, TypeOfStack
  <2>2. /\ s.fullStackList_ \in Seq(Seq(Nat)) /\ n \in Nat \ {0}
        /\ t.stack_ = s.fullStackList_[n] /\ t.stack_ \in Seq(Nat)
        /\ t.fullStackList_ \in Seq(Seq(Nat)) /\ Len(t.fullStackList_) = n - 1
        /\ \A k \in 1..n - 1 : t.fullStackList_[k] = s.fullStackList_[k]
    BY <1>1, <2>1, FrontOf DEF TypeOfStack, last
  <2>3. Len(t.stack_) = length
    BY <2>2 DEF TypeOfStack
  <2>4. TypeOfStack(t)
    <3>1. \A k \in DOMAIN t.fullStackList_ : Len(t.fullStackList_[k]) = length
      <4>1. \A k \in 1..n : Len(s.fullStackList_[k]) = length  BY <2>2 DEF TypeOfStack
      <4> HIDE DEF t, n
      <4>2. DOMAIN t.fullStackList_ = 1..n - 1  BY <2>2
      <4>3. ASSUME NEW k \in 1..n - 1 PROVE Len(t.fullStackList_[k]) = length
        <5>1. t.fullStackList_[k] = s.fullStackList_[k] /\ k \in 1..n  BY <2>2
        <5>2. QED  BY <5>1, <4>1
      <4>4. QED  BY <4>2, <4>3
    <3>2. t.emptyStackList_ \in Nat /\ t.maxIndex_ \in Nat  BY <2>1 DEF TypeOfStack
    <3> HIDE DEF t, n
    <3>3. QED  BY <3>1, <3>2, <2>1, <2>2, <2>3, lengthAssumption DEF TypeOfStack
  <2>b. \A p \in slots(t) : \E k, j \in Int : /\ p = <<k, j>> /\ 1 <= j /\ j <= length
                                              /\ k = 0 \/ (1 <= k /\ k <= n - 1)
    <3> HIDE DEF t, n
    <3> SUFFICES ASSUME NEW p \in slots(t)
                 PROVE  \E k, j \in Int : /\ p = <<k, j>> /\ 1 <= j /\ j <= length
                                          /\ k = 0 \/ (1 <= k /\ k <= n - 1)
      OBVIOUS
    <3>1. PICK k, j \in Int : /\ p = <<k, j>> /\ 1 <= j /\ j <= length
                              /\ \/ k = 0 /\ j <= Len(t.stack_)
                                 \/ 1 <= k /\ k <= Len(t.fullStackList_)
      BY <2>4, SlotsOf
    <3>2. QED  BY <3>1, <2>2
  <2> DEFINE m == [p \in slots(t) |-> IF p[1] = 0 THEN <<n, p[2]>> ELSE p]
  <2>a. Len(s.stack_) = 0  BY <1>1
  <2> HIDE DEF t, n
  <2>5. \A p \in slots(t) : m[p] \in slots(s) /\ slot(t, p) = slot(s, m[p])
    <3> SUFFICES ASSUME NEW p \in slots(t)
                 PROVE  m[p] \in slots(s) /\ slot(t, p) = slot(s, m[p])
      OBVIOUS
    <3>1. PICK k, j \in Int : /\ p = <<k, j>> /\ 1 <= j /\ j <= length
                              /\ k = 0 \/ (1 <= k /\ k <= n - 1)
      BY <2>b
    <3>2. CASE k = 0
      <4>1. m[p] = <<n, j>>  BY <3>1, <3>2
      <4>2. <<n, j>> \in slots(s)  BY <3>1, <2>2, SlotsOf DEF n
      <4>3. slot(t, p) = s.fullStackList_[n][j] /\ slot(s, <<n, j>>) = s.fullStackList_[n][j]
        BY <3>1, <3>2, <2>2 DEF slot
      <4>4. QED  BY <4>1, <4>2, <4>3
    <3>3. CASE 1 <= k /\ k <= n - 1
      <4>1. m[p] = p  BY <3>1, <3>3
      <4>2. p \in slots(s)  BY <3>1, <3>3, <2>2, SlotsOf DEF n
      <4>3. p[1] = k /\ p[2] = j /\ k # 0 /\ t.fullStackList_[k] = s.fullStackList_[k]
        BY <3>1, <3>3, <2>2
      <4>5. slot(t, p) = slot(s, p)  BY <4>3 DEF slot
      <4>4. QED  BY <4>1, <4>2, <4>5
    <3>4. QED  BY <3>1, <3>2, <3>3
  <2>6. \A p, q \in slots(t) : m[p] = m[q] => p = q
    <3> SUFFICES ASSUME NEW p \in slots(t), NEW q \in slots(t), m[p] = m[q] PROVE p = q
      OBVIOUS
    <3>1. PICK k, j \in Int : p = <<k, j>> /\ (k = 0 \/ (1 <= k /\ k <= n - 1))
      BY <2>b
    <3>2. PICK h, i \in Int : q = <<h, i>> /\ (h = 0 \/ (1 <= h /\ h <= n - 1))
      BY <2>b
    <3>3. /\ m[p] = IF k = 0 THEN <<n, j>> ELSE <<k, j>>
          /\ m[q] = IF h = 0 THEN <<n, i>> ELSE <<h, i>>
      BY <3>1, <3>2
    <3> HIDE DEF m
    <3>4. QED  BY <3>1, <3>2, <3>3, <2>2
  <2>7. \A r \in slots(s) : \E p \in slots(t) : r = m[p]
    <3> SUFFICES ASSUME NEW r \in slots(s) PROVE \E p \in slots(t) : r = m[p]
      OBVIOUS
    <3>1. PICK k, j \in Int : r = <<k, j>> /\ 1 <= j /\ j <= length /\ 1 <= k /\ k <= n
      BY <2>a, SlotsOf DEF n
    <3>2. CASE k = n
      <4>1. <<0, j>> \in slots(t)  BY <3>1, <2>3, <2>4, SlotsOf
      <4>2. m[<<0, j>>] = r  BY <3>1, <3>2, <4>1
      <4>3. QED  BY <4>1, <4>2
    <3>3. CASE k # n
      <4>1. r \in slots(t)  BY <3>1, <3>3, <2>2, <2>4, SlotsOf
      <4>2. m[r] = r  BY <3>1, <4>1
      <4>3. QED  BY <4>1, <4>2
    <3>4. QED  BY <3>2, <3>3
  <2>8. Distinct(t) /\ holes(t) = holes(s)
    <3> HIDE DEF m
    <3>1. QED  BY <2>5, <2>6, <2>7, Renamed
  <2>9. t.stack_ # <<>>
    BY <2>3, lengthAssumption
  <2>10. QED  BY <2>1, <2>4, <2>8, <2>9 DEF t
<1>2. QED  BY <1>0, <1>1

LEMMA ExchangeFull ==
  ASSUME NEW s, TypeOfStack(s), Distinct(s)
  PROVE  LET t == exchangeFull(s)
         IN  /\ TypeOfStack(t) /\ Distinct(t) /\ holes(t) = holes(s)
             /\ t.maxIndex_ = s.maxIndex_
             /\ Len(t.stack_) < length
<1> DEFINE t == exchangeFull(s)
           n == Len(s.fullStackList_) + 1
<1>0. CASE ~full(s)
  <2>1. t = s  BY <1>0 DEF exchangeFull
  <2>2. Len(s.stack_) < length  BY <1>0, lengthAssumption DEF full, TypeOfStack
  <2>3. QED  BY <2>1, <2>2
<1>1. CASE full(s)
  <2>1. /\ t.stack_ = <<>>
        /\ t.fullStackList_ = Append(s.fullStackList_, s.stack_)
        /\ t.emptyStackList_ \in Nat
        /\ t.maxIndex_ = s.maxIndex_
        /\ t = [stack_ |-> t.stack_, fullStackList_ |-> t.fullStackList_,
                emptyStackList_ |-> t.emptyStackList_, maxIndex_ |-> t.maxIndex_]
    <3>1. PICK e : /\ e = (IF s.emptyStackList_ <= 0 THEN s.emptyStackList_ ELSE s.emptyStackList_ - 1)
                   /\ e \in Nat
      BY DEF TypeOfStack
    <3>2. s = [stack_ |-> s.stack_, fullStackList_ |-> s.fullStackList_,
               emptyStackList_ |-> s.emptyStackList_, maxIndex_ |-> s.maxIndex_]
      BY DEF TypeOfStack
    <3>3. t = [s EXCEPT !.stack_ = <<>>, !.fullStackList_ = Append(@, s.stack_), !.emptyStackList_ = e]
      BY <1>1, <3>1 DEF exchangeFull
    <3>4. t = [stack_ |-> <<>>, fullStackList_ |-> Append(s.fullStackList_, s.stack_),
               emptyStackList_ |-> e, maxIndex_ |-> s.maxIndex_]
      BY <3>2, <3>3
    <3> HIDE DEF t
    <3>5. QED  BY <3>1, <3>4
  <2>2. /\ s.fullStackList_ \in Seq(Seq(Nat)) /\ n \in Nat \ {0}
        /\ s.stack_ \in Seq(Nat) /\ Len(s.stack_) = length
        /\ t.fullStackList_ \in Seq(Seq(Nat)) /\ Len(t.fullStackList_) = n
        /\ t.fullStackList_[n] = s.stack_
        /\ \A k \in 1..n - 1 : t.fullStackList_[k] = s.fullStackList_[k]
    BY <1>1, <2>1, AppendTo, lengthAssumption DEF TypeOfStack, full
  <2>3. Len(t.stack_) = 0
    BY <2>1
  <2>4. TypeOfStack(t)
    <3>1. \A k \in DOMAIN t.fullStackList_ : Len(t.fullStackList_[k]) = length
      <4>1. \A k \in 1..n - 1 : Len(s.fullStackList_[k]) = length  BY <2>2 DEF TypeOfStack
      <4> HIDE DEF t, n
      <4>2. DOMAIN t.fullStackList_ = 1..n  BY <2>2
      <4>3. ASSUME NEW k \in 1..n, k # n PROVE Len(t.fullStackList_[k]) = length
        <5>1. k \in 1..n - 1  BY <2>2, <4>3
        <5>2. t.fullStackList_[k] = s.fullStackList_[k]  BY <5>1, <2>2
        <5>3. QED  BY <5>1, <5>2, <4>1
      <4>4. Len(t.fullStackList_[n]) = length  BY <2>2
      <4>5. QED  BY <4>2, <4>3, <4>4
    <3>2. t.maxIndex_ \in Nat  BY <2>1 DEF TypeOfStack
    <3>3. t.stack_ \in Seq(Nat)  BY <2>1
    <3> HIDE DEF t, n
    <3>4. QED  BY <3>1, <3>2, <3>3, <2>1, <2>2, <2>3, lengthAssumption DEF TypeOfStack
  <2>b. \A p \in slots(t) : \E k, j \in Int : /\ p = <<k, j>> /\ 1 <= j /\ j <= length
                                              /\ 1 <= k /\ k <= n
    <3> HIDE DEF t, n
    <3> SUFFICES ASSUME NEW p \in slots(t)
                 PROVE  \E k, j \in Int : /\ p = <<k, j>> /\ 1 <= j /\ j <= length
                                          /\ 1 <= k /\ k <= n
      OBVIOUS
    <3>1. PICK k, j \in Int : /\ p = <<k, j>> /\ 1 <= j /\ j <= length
                              /\ \/ k = 0 /\ j <= Len(t.stack_)
                                 \/ 1 <= k /\ k <= Len(t.fullStackList_)
      BY <2>4, SlotsOf
    <3>2. QED  BY <3>1, <2>2, <2>3
  <2> DEFINE m == [p \in slots(t) |-> IF p[1] = n THEN <<0, p[2]>> ELSE p]
  <2> HIDE DEF t, n
  <2>5. \A p \in slots(t) : m[p] \in slots(s) /\ slot(t, p) = slot(s, m[p])
    <3> SUFFICES ASSUME NEW p \in slots(t)
                 PROVE  m[p] \in slots(s) /\ slot(t, p) = slot(s, m[p])
      OBVIOUS
    <3>1. PICK k, j \in Int : /\ p = <<k, j>> /\ 1 <= j /\ j <= length
                              /\ 1 <= k /\ k <= n
      BY <2>b
    <3>2. CASE k = n
      <4>1. m[p] = <<0, j>>  BY <3>1, <3>2
      <4>2. <<0, j>> \in slots(s)  BY <3>1, <2>2, SlotsOf
      <4>3. slot(t, p) = s.stack_[j] /\ slot(s, <<0, j>>) = s.stack_[j]
        BY <3>1, <3>2, <2>2 DEF slot
      <4>4. QED  BY <4>1, <4>2, <4>3
    <3>3. CASE k # n
      <4>1. m[p] = p /\ k \in 1..n - 1  BY <3>1, <3>3, <2>2
      <4>2. p \in slots(s)  BY <3>1, <4>1, <2>2, SlotsOf DEF n
      <4>3. p[1] = k /\ p[2] = j /\ k # 0 /\ t.fullStackList_[k] = s.fullStackList_[k]
        BY <3>1, <4>1, <2>2
      <4>4. slot(t, p) = slot(s, p)  BY <4>3 DEF slot
      <4>5. QED  BY <4>1, <4>2, <4>4
    <3>4. QED  BY <3>2, <3>3
  <2>6. \A p, q \in slots(t) : m[p] = m[q] => p = q
    <3> SUFFICES ASSUME NEW p \in slots(t), NEW q \in slots(t), m[p] = m[q] PROVE p = q
      OBVIOUS
    <3>1. PICK k, j \in Int : p = <<k, j>> /\ 1 <= k
      BY <2>b
    <3>2. PICK h, i \in Int : q = <<h, i>> /\ 1 <= h
      BY <2>b
    <3>3. /\ m[p] = IF k = n THEN <<0, j>> ELSE <<k, j>>
          /\ m[q] = IF h = n THEN <<0, i>> ELSE <<h, i>>
      BY <3>1, <3>2
    <3> HIDE DEF m
    <3>4. QED  BY <3>1, <3>2, <3>3, <2>2
  <2>7. \A r \in slots(s) : \E p \in slots(t) : r = m[p]
    <3> SUFFICES ASSUME NEW r \in slots(s) PROVE \E p \in slots(t) : r = m[p]
      OBVIOUS
    <3>1. PICK k, j \in Int : /\ r = <<k, j>> /\ 1 <= j /\ j <= length
                              /\ k = 0 \/ (1 <= k /\ k <= n - 1)
      BY <2>2, SlotsOf DEF n
    <3>2. CASE k = 0
      <4>1. <<n, j>> \in slots(t)  BY <3>1, <2>2, <2>4, SlotsOf
      <4>2. m[<<n, j>>] = r  BY <3>1, <3>2, <4>1
      <4>3. QED  BY <4>1, <4>2
    <3>3. CASE 1 <= k /\ k <= n - 1
      <4>1. r \in slots(t)  BY <3>1, <3>3, <2>2, <2>4, SlotsOf
      <4>2. m[r] = r  BY <3>1, <3>3, <2>2, <4>1
      <4>3. QED  BY <4>1, <4>2
    <3>4. QED  BY <3>1, <3>2, <3>3
  <2>8. Distinct(t) /\ holes(t) = holes(s)
    <3> HIDE DEF m
    <3>1. QED  BY <2>5, <2>6, <2>7, Renamed
  <2>9. QED  BY <2>1, <2>3, <2>4, <2>8, lengthAssumption DEF t
<1>2. QED  BY <1>0, <1>1
-----------------------------------------------------------------------------
(* topAndPop() and push() of the stack in use. *)
LEMMA Popped ==
  ASSUME NEW t, TypeOfStack(t), Distinct(t), t.stack_ # <<>>
  PROVE  LET u == [t EXCEPT !.stack_ = front(@)]
             i == last(t.stack_)
         IN  /\ TypeOfStack(u) /\ Distinct(u) /\ u.maxIndex_ = t.maxIndex_
             /\ i \in holes(t) /\ holes(u) = holes(t) \ {i}
<1> DEFINE u == [t EXCEPT !.stack_ = front(@)]
           n == Len(t.stack_)
           x == <<0, n>>
<1>1. /\ u.stack_ = front(t.stack_) /\ u.fullStackList_ = t.fullStackList_
      /\ u.maxIndex_ = t.maxIndex_ /\ u.emptyStackList_ = t.emptyStackList_
      /\ u = [stack_ |-> u.stack_, fullStackList_ |-> u.fullStackList_,
              emptyStackList_ |-> u.emptyStackList_, maxIndex_ |-> u.maxIndex_]
  <2>1. t = [stack_ |-> t.stack_, fullStackList_ |-> t.fullStackList_,
             emptyStackList_ |-> t.emptyStackList_, maxIndex_ |-> t.maxIndex_]
    BY DEF TypeOfStack
  <2>2. u = [stack_ |-> front(t.stack_), fullStackList_ |-> t.fullStackList_,
             emptyStackList_ |-> t.emptyStackList_, maxIndex_ |-> t.maxIndex_]
    BY <2>1
  <2> HIDE DEF u
  <2>3. QED  BY <2>2
<1>2. /\ t.stack_ \in Seq(Nat) /\ n \in Nat \ {0} /\ n <= length
      /\ u.stack_ \in Seq(Nat) /\ Len(u.stack_) = n - 1
      /\ \A j \in 1..n - 1 : u.stack_[j] = t.stack_[j]
  <2>1. t.stack_ \in Seq(Nat) /\ n <= length  BY DEF TypeOfStack
  <2> HIDE DEF u
  <2>2. QED  BY <1>1, <2>1, FrontOf
<1>3. TypeOfStack(u)
  <2> HIDE DEF u
  <2>1. Len(u.stack_) <= length  BY <1>2, lengthAssumption
  <2>2. QED  BY <1>1, <1>2, <2>1 DEF TypeOfStack
<1> HIDE DEF u, n
<1>4. x \in slots(t) /\ slot(t, x) = last(t.stack_)
  <2>1. x \in slots(t)  BY <1>2, SlotsOf DEF n
  <2>2. slot(t, x) = last(t.stack_)  BY <1>2 DEF slot, last, n
  <2>3. QED  BY <2>1, <2>2
<1>5. slots(u) = slots(t) \ {x}
  <2>1. \A k, j \in Int : k = 0 /\ j <= n - 1 <=> k = 0 /\ j <= n /\ <<k, j>> # x
    BY <1>2
  <2>2. ASSUME NEW p, p \in slots(u) PROVE p \in slots(t) \ {x}
    <3>1. PICK k, j \in Int : /\ p = <<k, j>> /\ 1 <= j /\ j <= length
                              /\ (k = 0 /\ j <= n - 1) \/ (1 <= k /\ k <= Len(t.fullStackList_))
      BY <2>2, <1>1, <1>2, <1>3, SlotsOf
    <3>2. p # x  BY <3>1, <1>2
    <3>3. p \in slots(t)  BY <3>1, <1>2, SlotsOf DEF n
    <3>4. QED  BY <3>2, <3>3
  <2>3. ASSUME NEW p, p \in slots(t), p # x PROVE p \in slots(u)
    <3>1. PICK k, j \in Int : /\ p = <<k, j>> /\ 1 <= j /\ j <= length
                              /\ (k = 0 /\ j <= n) \/ (1 <= k /\ k <= Len(t.fullStackList_))
      BY <2>3, SlotsOf DEF n
    <3>2. (k = 0 /\ j <= n - 1) \/ (1 <= k /\ k <= Len(t.fullStackList_))
      BY <3>1, <2>3, <1>2
    <3>3. QED  BY <3>1, <3>2, <1>1, <1>2, <1>3, SlotsOf
  <2>4. QED  BY <2>2, <2>3
<1>6. ASSUME NEW p \in slots(u) PROVE slot(u, p) = slot(t, p)
  <2>1. PICK k, j \in Int : /\ p = <<k, j>> /\ 1 <= j
                            /\ (k = 0 /\ j <= n - 1) \/ 1 <= k
    BY <1>2, <1>3, SlotsOf
  <2>2. CASE k = 0  BY <2>1, <2>2, <1>2 DEF slot
  <2>3. CASE k # 0
    <3>1. p[1] # 0  BY <2>1, <2>3
    <3>2. QED  BY <3>1, <1>1 DEF slot
  <2>4. QED  BY <2>2, <2>3
<1>7. Distinct(u) /\ holes(u) = holes(t) \ {slot(t, x)}
  <2> HIDE DEF x
  <2>1. QED  BY <1>4, <1>5, <1>6, OneLess
<1>8. slot(t, x) \in holes(t)
  BY <1>4 DEF holes
<1>9. QED  BY <1>1, <1>3, <1>4, <1>7, <1>8 DEF u

LEMMA Pushed ==
  ASSUME NEW t, TypeOfStack(t), Distinct(t), Len(t.stack_) < length,
         NEW i \in Nat, i \notin holes(t)
  PROVE  LET v == [t EXCEPT !.stack_ = Append(@, i)]
         IN  /\ TypeOfStack(v) /\ Distinct(v) /\ v.maxIndex_ = t.maxIndex_
             /\ holes(v) = holes(t) \cup {i}
<1> DEFINE v == [t EXCEPT !.stack_ = Append(@, i)]
           n == Len(t.stack_)
           x == <<0, n + 1>>
<1>1. /\ v.stack_ = Append(t.stack_, i) /\ v.fullStackList_ = t.fullStackList_
      /\ v.maxIndex_ = t.maxIndex_ /\ v.emptyStackList_ = t.emptyStackList_
      /\ v = [stack_ |-> v.stack_, fullStackList_ |-> v.fullStackList_,
              emptyStackList_ |-> v.emptyStackList_, maxIndex_ |-> v.maxIndex_]
  <2>1. t = [stack_ |-> t.stack_, fullStackList_ |-> t.fullStackList_,
             emptyStackList_ |-> t.emptyStackList_, maxIndex_ |-> t.maxIndex_]
    BY DEF TypeOfStack
  <2>2. v = [stack_ |-> Append(t.stack_, i), fullStackList_ |-> t.fullStackList_,
             emptyStackList_ |-> t.emptyStackList_, maxIndex_ |-> t.maxIndex_]
    <3>1. PICK a : a = Append(t.stack_, i)  OBVIOUS
    <3>2. v = [t EXCEPT !.stack_ = a]  BY <3>1
    <3>3. v = [stack_ |-> a, fullStackList_ |-> t.fullStackList_,
               emptyStackList_ |-> t.emptyStackList_, maxIndex_ |-> t.maxIndex_]
      BY <2>1, <3>2
    <3>4. QED  BY <3>1, <3>3
  <2> HIDE DEF v
  <2>3. QED  BY <2>2
<1>2. /\ t.stack_ \in Seq(Nat) /\ n \in Nat /\ n + 1 <= length
      /\ v.stack_ \in Seq(Nat) /\ Len(v.stack_) = n + 1
      /\ v.stack_[n + 1] = i
      /\ \A j \in 1..n : v.stack_[j] = t.stack_[j]
  BY <1>1, AppendTo, lengthAssumption DEF TypeOfStack
<1>3. TypeOfStack(v)
  <2> HIDE DEF v
  <2>1. QED  BY <1>1, <1>2 DEF TypeOfStack
<1> HIDE DEF v, n
<1>4. x \notin slots(t)
  <2>1. ~ (n + 1 <= n)  BY <1>2
  <2>2. QED  BY <2>1, SlotsOf DEF n
<1>5. slots(v) = slots(t) \cup {x}
  <2>1. ASSUME NEW p, p \in slots(v), p # x PROVE p \in slots(t)
    <3>1. PICK k, j \in Int : /\ p = <<k, j>> /\ 1 <= j /\ j <= length
                              /\ (k = 0 /\ j <= n + 1) \/ (1 <= k /\ k <= Len(t.fullStackList_))
      BY <2>1, <1>1, <1>2, <1>3, SlotsOf
    <3>2. (k = 0 /\ j <= n) \/ (1 <= k /\ k <= Len(t.fullStackList_))
      BY <3>1, <2>1, <1>2
    <3>3. QED  BY <3>1, <3>2, SlotsOf DEF n
  <2>2. ASSUME NEW p, p \in slots(t) PROVE p \in slots(v)
    <3>1. PICK k, j \in Int : /\ p = <<k, j>> /\ 1 <= j /\ j <= length
                              /\ (k = 0 /\ j <= n) \/ (1 <= k /\ k <= Len(t.fullStackList_))
      BY <2>2, SlotsOf DEF n
    <3>2. (k = 0 /\ j <= n + 1) \/ (1 <= k /\ k <= Len(t.fullStackList_))
      BY <3>1, <1>2
    <3>3. QED  BY <3>1, <3>2, <1>1, <1>2, <1>3, SlotsOf
  <2>3. x \in slots(v)
    BY <1>2, <1>3, SlotsOf
  <2>4. QED  BY <2>1, <2>2, <2>3
<1>6. ASSUME NEW p \in slots(t) PROVE slot(v, p) = slot(t, p)
  <2>1. PICK k, j \in Int : /\ p = <<k, j>> /\ 1 <= j
                            /\ (k = 0 /\ j <= n) \/ 1 <= k
    BY <1>2, SlotsOf DEF n
  <2>2. CASE k = 0  BY <2>1, <2>2, <1>2 DEF slot
  <2>3. CASE k # 0
    <3>1. p[1] # 0  BY <2>1, <2>3
    <3>2. QED  BY <3>1, <1>1 DEF slot
  <2>4. QED  BY <2>2, <2>3
<1>7. slot(v, x) = i
  BY <1>2 DEF slot
<1>8. Distinct(v) /\ holes(v) = holes(t) \cup {slot(v, x)}
  <2> HIDE DEF x
  <2>1. QED  BY <1>4, <1>5, <1>6, <1>7, OneMore
<1>9. QED  BY <1>1, <1>3, <1>7, <1>8 DEF v
-----------------------------------------------------------------------------
(***************************************************************************)
(* getIndex() (indexstack.hh:137-153): the index handed out is not in use  *)
(* and from then on neither free nor handed out again, whatever stacks are *)
(* exchanged; a new one is made only if no freed one is left.              *)
(***************************************************************************)
THEOREM GetIndexConserves ==
  ASSUME NEW s, TypeOfStack(s), NEW used, Conserved(s, used)
  PROVE  LET i == getIndex(s).index
             u == getIndex(s).next
         IN  /\ i \notin used
             /\ TypeOfStack(u) /\ Conserved(u, used \cup {i})
             /\ u.maxIndex_ # s.maxIndex_ => holes(s) = {}
<1> DEFINE t == exchangeEmpty(s)
           i == getIndex(s).index
           u == getIndex(s).next
<1>1. Distinct(s) /\ holes(s) \cap used = {} /\ holes(s) \cup used = 0..s.maxIndex_ - 1
  BY DEF Conserved, Distinct
<1>2. s.maxIndex_ \in Nat
  BY DEF TypeOfStack
<1>3. /\ TypeOfStack(t) /\ Distinct(t) /\ holes(t) = holes(s) /\ t.maxIndex_ = s.maxIndex_
      /\ t.stack_ = <<>> => t = s /\ slots(s) = {}
  BY <1>1, ExchangeEmpty
<1>4. CASE t.stack_ = <<>>
  <2>1. i = s.maxIndex_ /\ u = [s EXCEPT !.maxIndex_ = @ + 1]
    BY <1>4 DEF getIndex
  <2>2. /\ u.stack_ = s.stack_ /\ u.fullStackList_ = s.fullStackList_
        /\ u.emptyStackList_ = s.emptyStackList_ /\ u.maxIndex_ = s.maxIndex_ + 1
        /\ u = [stack_ |-> u.stack_, fullStackList_ |-> u.fullStackList_,
                emptyStackList_ |-> u.emptyStackList_, maxIndex_ |-> u.maxIndex_]
    BY <2>1 DEF TypeOfStack
  <2>3. TypeOfStack(u)
    <3> HIDE DEF u
    <3>1. QED  BY <2>2, <1>2 DEF TypeOfStack
  <2>4. slots(s) = {} /\ slots(u) = {}
    <3>1. slots(u) = slots(s)  BY <2>2 DEF slots, stackSize
    <3>2. QED  BY <3>1, <1>3, <1>4
  <2>5. holes(s) = {} /\ holes(u) = {}
    BY <2>4 DEF holes
  <2>6. used = 0..s.maxIndex_ - 1
    BY <1>1, <2>5
  <2> HIDE DEF u, i
  <2>7. i \notin used
    BY <2>6, <2>1, <1>2
  <2>8. used \cup {i} = 0..u.maxIndex_ - 1
    BY <2>6, <2>1, <2>2, <1>2
  <2>9. Conserved(u, used \cup {i})
    BY <2>4, <2>5, <2>8 DEF Conserved
  <2>10. QED  BY <2>3, <2>5, <2>7, <2>9 DEF u, i
<1>5. CASE t.stack_ # <<>>
  <2>1. i = last(t.stack_) /\ u = [t EXCEPT !.stack_ = front(@)]
    BY <1>5 DEF getIndex
  <2>2. /\ TypeOfStack(u) /\ Distinct(u) /\ u.maxIndex_ = t.maxIndex_
        /\ i \in holes(t) /\ holes(u) = holes(t) \ {i}
    BY <2>1, <1>3, <1>5, Popped
  <2> HIDE DEF u, i, t
  <2>3. i \notin used
    BY <2>2, <1>1, <1>3
  <2>4. Conserved(u, used \cup {i})
    <3>1. holes(u) \cap (used \cup {i}) = {}
      BY <2>2, <1>1, <1>3
    <3>2. holes(u) \cup (used \cup {i}) = 0..u.maxIndex_ - 1
      BY <2>2, <1>1, <1>3
    <3>3. QED  BY <2>2, <3>1, <3>2 DEF Conserved, Distinct
  <2>5. QED  BY <2>2, <2>3, <2>4, <1>3 DEF u, i
<1>6. QED  BY <1>4, <1>5

(***************************************************************************)
(* freeIndex() (indexstack.hh:155-172): an index in use becomes free, no   *)
(* other index is touched and no stack holds more than its capacity.       *)
(***************************************************************************)
THEOREM FreeIndexConserves ==
  ASSUME NEW s, TypeOfStack(s), NEW used, Conserved(s, used), NEW i \in used
  PROVE  LET v == freeIndex(s, i)
         IN  TypeOfStack(v) /\ Conserved(v, used \ {i}) /\ v.maxIndex_ = s.maxIndex_
<1> DEFINE t == exchangeFull(s)
           v == freeIndex(s, i)
<1>1. Distinct(s) /\ holes(s) \cap used = {} /\ holes(s) \cup used = 0..s.maxIndex_ - 1
  BY DEF Conserved, Distinct
<1>2. /\ TypeOfStack(t) /\ Distinct(t) /\ holes(t) = holes(s) /\ t.maxIndex_ = s.maxIndex_
      /\ Len(t.stack_) < length
  BY <1>1, ExchangeFull
<1>3. i \in Nat /\ i \notin holes(t)
  <2>1. s.maxIndex_ \in Nat /\ i \in 0..s.maxIndex_ - 1  BY <1>1 DEF TypeOfStack
  <2>2. QED  BY <2>1, <1>1, <1>2
<1>4. v = [t EXCEPT !.stack_ = Append(@, i)]
  BY DEF freeIndex
<1> HIDE DEF v, t
<1>5. TypeOfStack(v) /\ Distinct(v) /\ v.maxIndex_ = t.maxIndex_ /\ holes(v) = holes(t) \cup {i}
  BY <1>2, <1>3, <1>4, Pushed
<1>6. Conserved(v, used \ {i})
  <2>1. holes(v) \cap (used \ {i}) = {}
    BY <1>1, <1>2, <1>5
  <2>2. holes(v) \cup (used \ {i}) = 0..v.maxIndex_ - 1
    BY <1>1, <1>2, <1>5
  <2>3. QED  BY <1>5, <2>1, <2>2 DEF Conserved, Distinct
<1>7. QED  BY <1>2, <1>5, <1>6 DEF v
-----------------------------------------------------------------------------
(* Sequences of calls *)

(* The index of the n-th call of getIndex(). *)
handedOut(s, n) == getIndex(taken(s, n - 1)).index

Stacks ==
  {s \in [stack_ : Seq(Nat), fullStackList_ : Seq(Seq(Nat)), emptyStackList_ : Nat, maxIndex_ : Nat] :
     TypeOfStack(s)}

LEMMA StackTyped ==
  \A s : s \in Stacks <=> TypeOfStack(s)
<1>1. SUFFICES ASSUME NEW s, TypeOfStack(s) PROVE s \in Stacks
  BY DEF Stacks
<1>2. s = [stack_ |-> s.stack_, fullStackList_ |-> s.fullStackList_,
           emptyStackList_ |-> s.emptyStackList_, maxIndex_ |-> s.maxIndex_]
      /\ s.stack_ \in Seq(Nat) /\ s.fullStackList_ \in Seq(Seq(Nat))
      /\ s.emptyStackList_ \in Nat /\ s.maxIndex_ \in Nat
  BY <1>1 DEF TypeOfStack
<1>3. s \in [stack_ : Seq(Nat), fullStackList_ : Seq(Seq(Nat)), emptyStackList_ : Nat, maxIndex_ : Nat]
  BY <1>2
<1>4. QED  BY <1>1, <1>3 DEF Stacks

(* g follows n calls of getIndex() from s. *)
Stepwise(s, n, g) == g[0] = s /\ \A k \in 1..n : g[k] = getIndex(g[k-1]).next

(* Whoever follows the calls from s comes to taken(s, m). *)
LEMMA TakenIs ==
  ASSUME NEW s, NEW n \in Nat, NEW m \in 0..n, NEW g, Stepwise(s, n, g)
  PROVE  taken(s, m) = g[m]
<1> DEFINE Is(h) == h = [k \in 0..m |-> IF k = 0 THEN s ELSE getIndex(h[k-1]).next]
           after == CHOOSE h : Is(h)
           h == [k \in 0..m |-> g[k]]
<1>0. g[0] = s /\ \A k \in 1..n : g[k] = getIndex(g[k-1]).next
  BY DEF Stepwise
<1>1. \A k \in 0..m : h[k] = IF k = 0 THEN s ELSE getIndex(h[k-1]).next
  <2>1. SUFFICES ASSUME NEW k \in 0..m, k # 0 PROVE g[k] = getIndex(h[k-1]).next
    BY <1>0
  <2>2. k \in 1..n /\ k - 1 \in 0..m
    BY <2>1
  <2>3. QED  BY <2>2, <1>0
<1>2. Is(h)
  BY <1>0, <1>1
<1>3. Is(after)
  <2>1. \E x : Is(x)  BY <1>2
  <2> HIDE DEF Is
  <2>2. QED  BY <2>1
<1>4. taken(s, m) = after[m]
  BY DEF taken
<1> HIDE DEF after
<1> DEFINE T == {k \in Nat : k <= m => after[k] = g[k]}
<1>5. 0 \in T
  BY <1>3, <1>0
<1>6. \A k \in Nat : k \in T => k + 1 \in T
  <2>1. SUFFICES ASSUME NEW k \in Nat, k \in T, k + 1 <= m PROVE after[k+1] = g[k+1]
    OBVIOUS
  <2>2. k + 1 \in 1..n /\ k + 1 \in 0..m /\ (k + 1) - 1 = k /\ k <= m /\ k + 1 # 0
    BY <2>1
  <2>3. after[k] = g[k]
    BY <2>1, <2>2
  <2>4. after[k+1] = getIndex(after[(k+1)-1]).next
    BY <1>3, <2>2
  <2>5. QED  BY <2>2, <2>3, <2>4, <1>0
<1>7. Nat \subseteq T
  <2> HIDE DEF T
  <2>1. QED  BY <1>5, <1>6, InductionOn
<1>8. QED  BY <1>4, <1>7

(* The stack and the indices in use in the course of n calls of getIndex(). *)
Calls(s, used, n, g, U) ==
  /\ Stepwise(s, n, g) /\ U[0] = used
  /\ \A k \in 1..n : U[k] = U[k-1] \cup {getIndex(g[k-1]).index}
  /\ \A k \in 0..n : TypeOfStack(g[k]) /\ Conserved(g[k], U[k])
  /\ \A k \in 1..n : getIndex(g[k-1]).index \notin U[k-1]

(* Any number of calls of getIndex() follow each other. *)
LEMMA TakenRun ==
  ASSUME NEW s, TypeOfStack(s), NEW used, Conserved(s, used), NEW n \in Nat
  PROVE  \E g, U : Calls(s, used, n, g, U)
<1> DEFINE P == {p \in Stacks \X SUBSET Int : Conserved(p[1], p[2])}
           step(p) == <<getIndex(p[1]).next, p[2] \cup {getIndex(p[1]).index}>>
           F == [k \in 1..n |-> [p \in P |-> step(p)]]
<1>1. \A t, u : TypeOfStack(t) /\ Conserved(t, u) => u \in SUBSET Int
  <2>1. \A m : 0..m \subseteq Int  OBVIOUS
  <2>2. QED  BY <2>1 DEF Conserved
<1>2. \A t, u : <<t, u>> \in P <=> TypeOfStack(t) /\ Conserved(t, u)
  BY <1>1, StackTyped
<1>3. \A p \in P : step(p) \in P /\ getIndex(p[1]).index \notin p[2]
  <2>1. SUFFICES ASSUME NEW p \in P PROVE step(p) \in P /\ getIndex(p[1]).index \notin p[2]
    OBVIOUS
  <2>2. TypeOfStack(p[1]) /\ Conserved(p[1], p[2])
    BY StackTyped
  <2>3. /\ getIndex(p[1]).index \notin p[2]
        /\ TypeOfStack(getIndex(p[1]).next)
        /\ Conserved(getIndex(p[1]).next, p[2] \cup {getIndex(p[1]).index})
    BY <2>2, GetIndexConserves
  <2>4. QED  BY <2>3, <1>2
<1>4. F \in [1..n -> [P -> P]]
  BY <1>3
<1>5. <<s, used>> \in P
  BY <1>2
<1>6. PICK h : Follows(h, P, <<s, used>>, F, n)
  <2> HIDE DEF P, F
  <2>1. QED  BY <1>4, <1>5, RecursionUpTo
<1>7. /\ \A k \in 0..n : h[k] \in P
      /\ h[0] = <<s, used>>
      /\ \A k \in 1..n : k - 1 \in 0..n /\ h[k] = step(h[k-1])
  <2>1. h \in [0..n -> P] /\ h[0] = <<s, used>> /\ \A k \in 1..n : h[k] = F[k][h[k-1]]
    <3> HIDE DEF P, F
    <3>1. QED  BY <1>6 DEF Follows
  <2>2. \A k \in 1..n : k - 1 \in 0..n /\ h[k-1] \in P
    BY <2>1
  <2>3. QED  BY <2>1, <2>2
<1> DEFINE g == [k \in 0..n |-> h[k][1]]
           U == [k \in 0..n |-> h[k][2]]
<1>8. \A k \in 0..n : TypeOfStack(g[k]) /\ Conserved(g[k], U[k])
  BY <1>7, StackTyped
<1>9. \A k \in 1..n : g[k-1] = h[k-1][1] /\ U[k-1] = h[k-1][2] /\ k \in 0..n
  BY <1>7
<1>10. \A k \in 1..n : g[k] = getIndex(g[k-1]).next /\ U[k] = U[k-1] \cup {getIndex(g[k-1]).index}
  BY <1>7, <1>9
<1>11. \A k \in 1..n : getIndex(g[k-1]).index \notin U[k-1]
  BY <1>3, <1>7, <1>9
<1>12. g[0] = s /\ U[0] = used
  BY <1>7
<1> HIDE DEF g, U
<1>13. Calls(s, used, n, g, U)
  BY <1>8, <1>10, <1>11, <1>12 DEF Calls, Stepwise
<1>14. QED  BY <1>13

(* The indices of n calls of getIndex() are new and differ from each other. *)
LEMMA TakenConserves ==
  ASSUME NEW s, TypeOfStack(s), NEW used, Conserved(s, used), NEW n \in Nat
  PROVE  /\ TypeOfStack(taken(s, n))
         /\ Conserved(taken(s, n), used \cup {handedOut(s, k) : k \in 1..n})
         /\ \A k \in 1..n : handedOut(s, k) \notin used
         /\ \A j, k \in 1..n : handedOut(s, j) = handedOut(s, k) => j = k
<1>0. PICK g, U : Calls(s, used, n, g, U)
  BY TakenRun
<1>1. /\ g[0] = s /\ U[0] = used
      /\ \A k \in 1..n : g[k] = getIndex(g[k-1]).next
      /\ \A k \in 1..n : U[k] = U[k-1] \cup {getIndex(g[k-1]).index}
      /\ \A k \in 0..n : TypeOfStack(g[k]) /\ Conserved(g[k], U[k])
      /\ \A k \in 1..n : getIndex(g[k-1]).index \notin U[k-1]
  BY <1>0 DEF Calls, Stepwise
<1>2. \A m \in 0..n : taken(s, m) = g[m]
  <2>1. SUFFICES ASSUME NEW m \in 0..n PROVE taken(s, m) = g[m]
    OBVIOUS
  <2>2. QED  BY <1>0, TakenIs DEF Calls
<1>3. \A k \in 1..n : k - 1 \in 0..n /\ handedOut(s, k) = getIndex(g[k-1]).index
  <2>1. \A k \in 1..n : k - 1 \in 0..n
    OBVIOUS
  <2>2. QED  BY <2>1, <1>2 DEF handedOut
<1>4. /\ \A k \in 1..n : U[k] = U[k-1] \cup {handedOut(s, k)} /\ handedOut(s, k) \notin U[k-1]
  BY <1>1, <1>3
<1> DEFINE Before(m) == used \cup {handedOut(s, k) : k \in 1..m}
           T == {m \in Nat : m <= n => U[m] = Before(m)}
<1>5. 0 \in T
  BY <1>1
<1>6. \A m \in Nat : m \in T => m + 1 \in T
  <2>1. SUFFICES ASSUME NEW m \in Nat, m \in T, m + 1 <= n PROVE U[m+1] = Before(m+1)
    OBVIOUS
  <2>2. m + 1 \in 1..n /\ (m + 1) - 1 = m /\ m <= n /\ 1..m+1 = 1..m \cup {m+1}
    BY <2>1
  <2>3. U[m+1] = U[m] \cup {handedOut(s, m+1)}
    BY <2>2, <1>4
  <2>4. U[m] = Before(m)
    BY <2>1, <2>2
  <2>5. QED  BY <2>2, <2>3, <2>4
<1>7. \A m \in 0..n : U[m] = Before(m)
  <2>1. Nat \subseteq T
    <3> HIDE DEF T
    <3>1. QED  BY <1>5, <1>6, InductionOn
  <2>2. QED  BY <2>1
<1>8. TypeOfStack(taken(s, n)) /\ Conserved(taken(s, n), Before(n))
  <2>1. n \in 0..n
    OBVIOUS
  <2>2. taken(s, n) = g[n] /\ U[n] = Before(n) /\ TypeOfStack(g[n]) /\ Conserved(g[n], U[n])
    BY <2>1, <1>1, <1>2, <1>7
  <2> HIDE DEF Before
  <2>3. QED  BY <2>2
<1>9. \A k \in 1..n : handedOut(s, k) \notin Before(k-1)
  BY <1>3, <1>4, <1>7
<1>10. \A j, k \in 1..n : j < k => handedOut(s, j) # handedOut(s, k)
  <2>1. \A j, k \in 1..n : j < k => j \in 1..k-1
    OBVIOUS
  <2>2. QED  BY <2>1, <1>9
<1>11. \A j, k \in 1..n : handedOut(s, j) = handedOut(s, k) => j = k
  <2>1. \A j, k \in 1..n : j < k \/ k < j \/ j = k
    OBVIOUS
  <2>2. QED  BY <2>1, <1>10
<1>12. QED  BY <1>8, <1>9, <1>11

(* From a new stack the numbers from zero are taken. *)
LEMMA TakenFromNew ==
  ASSUME NEW n \in Nat
  PROVE  taken(NewIndexStack, n) = [NewIndexStack EXCEPT !.maxIndex_ = n]
<1> DEFINE g == [k \in 0..n |-> [NewIndexStack EXCEPT !.maxIndex_ = k]]
<1>1. g[0] = NewIndexStack
  BY DEF NewIndexStack
<1>2. \A k \in 1..n : g[k] = getIndex(g[k-1]).next
  <2>1. SUFFICES ASSUME NEW k \in 1..n PROVE g[k] = getIndex(g[k-1]).next
    OBVIOUS
  <2>2. k - 1 \in 0..n /\ k \in 0..n /\ (k - 1) + 1 = k
    OBVIOUS
  <2>3. g[k-1] = [stack_ |-> <<>>, fullStackList_ |-> <<>>, emptyStackList_ |-> 0, maxIndex_ |-> k - 1]
        /\ g[k] = [stack_ |-> <<>>, fullStackList_ |-> <<>>, emptyStackList_ |-> 0, maxIndex_ |-> k]
    BY <2>2 DEF NewIndexStack
  <2> HIDE DEF g
  <2>4. getIndex(g[k-1]).next = [g[k-1] EXCEPT !.maxIndex_ = @ + 1]
    BY <2>3 DEF getIndex, exchangeEmpty
  <2>5. QED  BY <2>2, <2>3, <2>4
<1>3. n \in 0..n /\ g[n] = [NewIndexStack EXCEPT !.maxIndex_ = n]
  OBVIOUS
<1>4. Stepwise(NewIndexStack, n, g)
  BY <1>1, <1>2 DEF Stepwise
<1> HIDE DEF g
<1>5. QED  BY <1>3, <1>4, TakenIs

(* An object without holes. *)
LEMMA NoHoles ==
  ASSUME NEW n \in Nat
  PROVE  LET s == [NewIndexStack EXCEPT !.maxIndex_ = n]
         IN  TypeOfStack(s) /\ Conserved(s, 0..n-1)
<1> DEFINE s == [NewIndexStack EXCEPT !.maxIndex_ = n]
<1>1. s = [stack_ |-> <<>>, fullStackList_ |-> <<>>, emptyStackList_ |-> 0, maxIndex_ |-> n]
  BY DEF NewIndexStack
<1> HIDE DEF s
<1>2. s.stack_ = <<>> /\ s.fullStackList_ = <<>> /\ s.emptyStackList_ = 0 /\ s.maxIndex_ = n
  BY <1>1
<1>3. TypeOfStack(s)
  BY <1>1, <1>2, lengthAssumption DEF TypeOfStack
<1>4. slots(s) = {}
  BY <1>2 DEF slots, stackSize
<1>5. Conserved(s, 0..n-1)
  BY <1>2, <1>4 DEF Conserved, holes
<1>6. QED  BY <1>3, <1>5 DEF s

members(q) == {q[k] : k \in 1..Len(q)}

(* The indices q, all in use and different, are freed. *)
LEMMA GivenConserves ==
  ASSUME NEW s, TypeOfStack(s), NEW used, Conserved(s, used), NEW q \in Seq(used),
         \A j, k \in 1..Len(q) : q[j] = q[k] => j = k
  PROVE  TypeOfStack(given(s, q)) /\ Conserved(given(s, q), used \ members(q))
<1> DEFINE n == Len(q)
           P == {t \in Stacks : TRUE}
           step(k, t) == IF TypeOfStack(freeIndex(t, q[k])) THEN freeIndex(t, q[k]) ELSE t
           F == [k \in 1..n |-> [t \in P |-> step(k, t)]]
           Left(k) == used \ {q[j] : j \in 1..k}
<1>1. n \in Nat /\ \A k \in 1..n : q[k] \in used
  OBVIOUS
<1>2. \A k \in 1..n, t \in P : step(k, t) \in P
  BY StackTyped
<1>3. F \in [1..n -> [P -> P]] /\ s \in P
  BY <1>2, StackTyped
<1>4. PICK h : Follows(h, P, s, F, n)
  <2> HIDE DEF P, F, n
  <2>1. QED  BY <1>1, <1>3, RecursionUpTo
<1>5. /\ h \in [0..n -> P] /\ h[0] = s /\ \A k \in 1..n : h[k] = F[k][h[k-1]]
  <2> HIDE DEF P, F, n
  <2>1. QED  BY <1>4 DEF Follows
<1>6. \A k \in 1..n : k - 1 \in 0..n /\ h[k] = step(k, h[k-1])
  <2>1. \A k \in 1..n : k - 1 \in 0..n /\ h[k-1] \in P
    BY <1>1, <1>5
  <2>2. QED  BY <2>1, <1>5
<1> DEFINE Good(k) == TypeOfStack(h[k]) /\ Conserved(h[k], Left(k))
           T == {k \in Nat : k <= n => Good(k)}
<1>7. \A k \in Nat : k + 1 <= n /\ Good(k) => Good(k+1) /\ h[k+1] = freeIndex(h[k], q[k+1])
  <2>1. SUFFICES ASSUME NEW k \in Nat, k + 1 <= n, Good(k)
                 PROVE  Good(k+1) /\ h[k+1] = freeIndex(h[k], q[k+1])
    OBVIOUS
  <2>2. k + 1 \in 1..n /\ (k + 1) - 1 = k /\ 1..k+1 = 1..k \cup {k+1} /\ \A j \in 1..k : j \in 1..n /\ j # k + 1
    BY <1>1, <2>1
  <2> DEFINE i == q[k+1]
  <2>3. i \in Left(k)
    BY <1>1, <2>2
  <2>4. Left(k+1) = Left(k) \ {i}
    BY <2>2
  <2> HIDE DEF i, Left
  <2>5. TypeOfStack(freeIndex(h[k], i)) /\ Conserved(freeIndex(h[k], i), Left(k) \ {i})
    BY <2>1, <2>3, FreeIndexConserves
  <2>6. h[k+1] = freeIndex(h[k], i)
    BY <2>2, <2>5, <1>6 DEF i
  <2>7. QED  BY <2>4, <2>5, <2>6 DEF i
<1>8. Good(0)
  <2>1. Left(0) = used
    OBVIOUS
  <2> HIDE DEF Left
  <2>2. QED  BY <2>1, <1>5
<1>9. Nat \subseteq T
  <2>1. 0 \in T
    BY <1>8
  <2>2. \A k \in Nat : k \in T => k + 1 \in T
    <3> HIDE DEF Good
    <3>1. \A k \in Nat : k + 1 <= n => k <= n
      BY <1>1
    <3>2. QED  BY <3>1, <1>7
  <2> HIDE DEF T
  <2>3. QED  BY <2>1, <2>2, InductionOn
<1>10. \A k \in 1..n : h[k] = freeIndex(h[k-1], q[k])
  <2>1. SUFFICES ASSUME NEW k \in 1..n PROVE h[k] = freeIndex(h[k-1], q[k])
    OBVIOUS
  <2>2. k - 1 \in Nat /\ (k - 1) + 1 = k /\ k - 1 <= n /\ k <= n
    BY <1>1
  <2>3. Good(k-1)
    BY <2>2, <1>9
  <2> HIDE DEF Good
  <2>4. PICK m \in Nat : m = k - 1
    BY <2>2
  <2>5. h[m+1] = freeIndex(h[m], q[m+1])
    BY <2>2, <2>3, <2>4, <1>7
  <2>6. QED  BY <2>2, <2>4, <2>5
<1> DEFINE Is(f) == f = [k \in 0..n |-> IF k = 0 THEN s ELSE freeIndex(f[k-1], q[k])]
           after == CHOOSE f : Is(f)
<1>11. Is(h)
  <2>1. \A k \in 0..n : h[k] = IF k = 0 THEN s ELSE freeIndex(h[k-1], q[k])
    <3>1. \A k \in 0..n : k = 0 \/ k \in 1..n
      BY <1>1
    <3> HIDE DEF n
    <3>2. QED  BY <3>1, <1>5, <1>10
  <2>2. h = [k \in 0..n |-> h[k]]
    BY <1>5
  <2> HIDE DEF n
  <2>3. QED  BY <2>1, <2>2
<1>12. Is(after)
  <2>1. \E x : Is(x)  BY <1>11
  <2> HIDE DEF Is
  <2>2. QED  BY <2>1
<1>13. given(s, q) = after[n]
  BY DEF given
<1>14. \A k \in Nat : k <= n => after[k] = h[k]
  <2> DEFINE E == {k \in Nat : k <= n => after[k] = h[k]}
  <2> HIDE DEF after
  <2>1. 0 \in E
    BY <1>1, <1>5, <1>12
  <2>2. \A k \in Nat : k \in E => k + 1 \in E
    <3>1. SUFFICES ASSUME NEW k \in Nat, k \in E, k + 1 <= n PROVE after[k+1] = h[k+1]
      OBVIOUS
    <3>2. k + 1 \in 1..n /\ k + 1 \in 0..n /\ (k + 1) - 1 = k /\ k <= n /\ k + 1 # 0
      BY <3>1, <1>1
    <3>3. after[k+1] = freeIndex(after[(k+1)-1], q[k+1])
      <4> HIDE DEF n
      <4>1. QED  BY <1>12, <3>2
    <3>4. h[k+1] = freeIndex(h[(k+1)-1], q[k+1])
      BY <3>2, <1>10
    <3>5. QED  BY <3>1, <3>2, <3>3, <3>4
  <2>3. Nat \subseteq E
    <3> HIDE DEF E
    <3>1. QED  BY <2>1, <2>2, InductionOn
  <2>4. QED  BY <2>3
<1>15. given(s, q) = h[n] /\ Good(n)
  <2> HIDE DEF after, Good
  <2>1. n \in Nat /\ n <= n
    BY <1>1
  <2> HIDE DEF n
  <2>2. QED  BY <2>1, <1>9, <1>13, <1>14
<1>16. Left(n) = used \ members(q)
  BY DEF members
<1> HIDE DEF n, Left
<1>17. QED  BY <1>15, <1>16
-----------------------------------------------------------------------------
(* The largest of finitely many numbers *)

(* A nonempty finite set of integers has a largest element. *)
LEMMA Largest ==
  ASSUME NEW S, IsFiniteSet(S), S \subseteq Int, S # {}
  PROVE  Max(S) \in S /\ \A x \in S : Max(S) >= x
<1>1. PICK n \in Nat : ExistsSurjection(1..n, S)
  BY FS_NatSurjection
<1>2. PICK f \in [1..n -> S] : \A x \in S : \E k \in 1..n : f[k] = x
  BY <1>1 DEF ExistsSurjection, Surjection
<1> DEFINE Top(m) == \E j \in 1..m : \A k \in 1..m : f[j] >= f[k]
           T == {m \in Nat : m + 1 <= n => Top(m + 1)}
<1>3. n # 0
  <2>1. SUFFICES ASSUME n = 0 PROVE FALSE
    OBVIOUS
  <2>2. PICK x \in S : TRUE
    OBVIOUS
  <2>3. \E k \in 1..0 : f[k] = x
    BY <1>2, <2>1
  <2>4. QED  BY <2>3
<1>4. Top(1)
  <2>1. 1 \in 1..n /\ \A k \in 1..1 : k = 1
    BY <1>3
  <2>2. f[1] >= f[1]
    <3>1. f[1] \in Int
      BY <2>1
    <3>2. \A x \in Int : x >= x
      OBVIOUS
    <3>3. QED  BY <3>1, <3>2
  <2>3. QED  BY <2>1, <2>2
<1>5. \A m \in Nat : m + 2 <= n /\ Top(m + 1) => Top(m + 2)
  <2>1. SUFFICES ASSUME NEW m \in Nat, m + 2 <= n, Top(m + 1) PROVE Top(m + 2)
    OBVIOUS
  <2>2. PICK j \in 1..m+1 : \A k \in 1..m+1 : f[j] >= f[k]
    BY <2>1
  <2>3. m + 2 \in 1..m+2 /\ j \in 1..m+2 /\ 1..m+2 \subseteq 1..n
    BY <2>1
  <2>4. \A k \in 1..m+2 : k \in 1..m+1 \/ k = m + 2
    OBVIOUS
  <2>5. \A k \in 1..m+2 : f[k] \in Int
    BY <2>3
  <2>6. CASE f[j] >= f[m+2]
    <3>1. \A k \in 1..m+2 : f[j] >= f[k]
      BY <2>2, <2>4, <2>6
    <3>2. QED  BY <2>3, <3>1
  <2>7. CASE ~(f[j] >= f[m+2])
    <3>1. \A k \in 1..m+2 : f[m+2] >= f[k]
      BY <2>2, <2>3, <2>4, <2>5, <2>7
    <3>2. QED  BY <2>3, <3>1
  <2>8. QED  BY <2>6, <2>7
<1>6. Nat \subseteq T
  <2>1. 0 \in T
    BY <1>4
  <2>2. \A m \in Nat : m \in T => m + 1 \in T
    <3> HIDE DEF Top
    <3>1. SUFFICES ASSUME NEW m \in Nat, m \in T, (m + 1) + 1 <= n PROVE Top((m + 1) + 1)
      OBVIOUS
    <3>2. m + 1 <= n /\ m + 2 <= n /\ (m + 1) + 1 = m + 2
      BY <3>1
    <3>3. QED  BY <3>1, <3>2, <1>5
  <2> HIDE DEF T
  <2>3. QED  BY <2>1, <2>2, InductionOn
<1>7. PICK j \in 1..n : \A k \in 1..n : f[j] >= f[k]
  <2>1. PICK m \in Nat : n = m + 1
    <3>1. n - 1 \in Nat /\ n = (n - 1) + 1
      BY <1>3
    <3>2. QED  BY <3>1
  <2>2. Top(n)
    <3> HIDE DEF Top
    <3>1. QED  BY <1>6, <2>1
  <2>3. QED  BY <2>2
<1>8. \E x \in S : \A y \in S : x >= y
  BY <1>2, <1>7
<1>9. QED  BY <1>8 DEF Max

LEMMA LargestIs ==
  ASSUME NEW S, S \subseteq Int, NEW m \in S, \A x \in S : m >= x
  PROVE  Max(S) = m
<1>1. PICK M : M = Max(S)
  OBVIOUS
<1>2. M \in S /\ \A x \in S : M >= x
  BY <1>1 DEF Max
<1>3. M >= m /\ m >= M /\ m \in Int /\ M \in Int
  BY <1>2
<1>4. QED  BY <1>1, <1>3
-----------------------------------------------------------------------------
(* The mesh *)

childrenOf(L) == UNION {children(p) : p \in L}

(***************************************************************************)
(* Every element but those of the macro mesh is the child of one, macro    *)
(* element, level and n determine it, and it has both children or none.    *)
(***************************************************************************)
Mesh(E) ==
  /\ IsFiniteSet(E) /\ macroElements \subseteq E
  /\ \A e \in E : e.level \in Nat /\ e.n \in Nat
  /\ \A e \in E : e.macro \in Nat /\ e.n < 2^e.level
  /\ \A e \in E : e \in macroElements \/ \E f \in E : e \in children(f)
  /\ \A e, f \in E : e.macro = f.macro /\ e.level = f.level /\ e.n = f.n => e = f
  /\ \A e \in E : child(e, 0) \in E <=> child(e, 1) \in E

LEMMA ChildFields ==
  \A e, i : /\ child(e, i).macro = e.macro /\ child(e, i).level = e.level + 1
            /\ child(e, i).n = 2 * e.n + i
BY DEF child, element

LEMMA MacroFields ==
  \A e \in macroElements : e.level = 0 /\ e.n = 0
BY DEF macroElements, macroElement, element

LEMMA TwicePlus ==
  \A a, b \in Nat, i, j \in {0, 1} : 2 * a + i = 2 * b + j => a = b /\ i = j
OBVIOUS

LEMMA OneFather ==
  ASSUME NEW E, Mesh(E), NEW p \in E, NEW q \in E, NEW i \in {0, 1}, NEW j \in {0, 1},
         NEW x, NEW y, x = child(p, i), y = child(q, j),
         x.macro = y.macro, x.level = y.level, x.n = y.n
  PROVE  p = q /\ i = j /\ x = y
<1>1. /\ p.level \in Nat /\ p.n \in Nat /\ q.level \in Nat /\ q.n \in Nat
  BY DEF Mesh
<1>2. p.macro = q.macro /\ p.level + 1 = q.level + 1 /\ 2 * p.n + i = 2 * q.n + j
  BY ChildFields
<1>3. p.level = q.level /\ p.n = q.n /\ i = j
  <2>1. \A a, b \in Nat : a + 1 = b + 1 => a = b
    OBVIOUS
  <2>2. p.level = q.level
    BY <1>1, <1>2, <2>1
  <2>3. p.n = q.n /\ i = j
    <3>1. PICK a \in Nat, b \in Nat : a = p.n /\ b = q.n
      BY <1>1
    <3>2. 2 * a + i = 2 * b + j
      BY <1>2, <3>1
    <3>3. a = b /\ i = j
      BY <3>2, TwicePlus
    <3>4. QED  BY <3>1, <3>3
  <2>4. QED  BY <2>2, <2>3
<1>4. p = q
  BY <1>2, <1>3 DEF Mesh
<1>5. QED  BY <1>3, <1>4

LEMMA SameChild ==
  ASSUME NEW E, Mesh(E), NEW p \in E, NEW q \in E, NEW i \in {0, 1}, NEW j \in {0, 1},
         child(p, i) = child(q, j)
  PROVE  p = q /\ i = j
<1>1. PICK x : x = child(p, i) /\ x = child(q, j)
  OBVIOUS
<1>2. x.macro = x.macro /\ x.level = x.level /\ x.n = x.n
  OBVIOUS
<1>3. QED  BY <1>1, <1>2, OneFather

LEMMA NoChildYet ==
  ASSUME NEW E, Mesh(E), NEW p \in leavesOf(E)
  PROVE  children(p) \cap E = {}
BY DEF leavesOf, children, Mesh

(* Bisection of some leaf elements. *)
LEMMA MeshRefined ==
  ASSUME NEW E, Mesh(E), NEW L, L \subseteq leavesOf(E)
  PROVE  Mesh(E \cup childrenOf(L))
<1> DEFINE C == childrenOf(L)
<1>1. L \subseteq E /\ IsFiniteSet(L)
  <2>1. L \subseteq E
    BY DEF leavesOf
  <2>2. QED  BY <2>1, FS_Subset DEF Mesh
<1>2. \A x \in C : \E p \in L, i \in {0, 1} : x = child(p, i)
  BY DEF childrenOf, children
<1>3. \A p \in L : child(p, 0) \in C /\ child(p, 1) \in C
  BY DEF childrenOf, children
<1>4. IsFiniteSet(C)
  <2>1. \A p : IsFiniteSet(children(p))
    <3>1. \A p : children(p) = {child(p, 0)} \cup {child(p, 1)}
      BY DEF children
    <3>2. QED  BY <3>1, FS_Singleton, FS_AddElement
  <2>2. IsFiniteSet({children(p) : p \in L})
    <3> DEFINE f == [p \in L |-> children(p)]
    <3>1. f \in Surjection(L, {children(p) : p \in L})
      BY DEF Surjection
    <3>2. QED  BY <3>1, <1>1, FS_Surjection
  <2>3. QED  BY <2>1, <2>2, FS_UNION DEF childrenOf
<1>5. IsFiniteSet(E \cup C) /\ macroElements \subseteq E \cup C
  BY <1>4, FS_Union DEF Mesh
<1>6. \A x \in C : x.level \in Nat \ {0} /\ x.n \in Nat
  <2>1. SUFFICES ASSUME NEW x \in C PROVE x.level \in Nat \ {0} /\ x.n \in Nat
    OBVIOUS
  <2>2. PICK p \in L, i \in {0, 1} : x = child(p, i)
    BY <1>2
  <2>3. p.level \in Nat /\ p.n \in Nat /\ x.level = p.level + 1 /\ x.n = 2 * p.n + i
    BY <2>2, <1>1, ChildFields DEF Mesh
  <2>4. QED  BY <2>3
<1>7. \A x \in C, y \in E : ~(x.macro = y.macro /\ x.level = y.level /\ x.n = y.n)
  <2>1. SUFFICES ASSUME NEW x \in C, NEW y \in E, x.macro = y.macro, x.level = y.level, x.n = y.n
                 PROVE  FALSE
    OBVIOUS
  <2>2. PICK p \in L, i \in {0, 1} : x = child(p, i)
    BY <1>2
  <2>3. y \notin macroElements
    BY <2>1, <1>6, MacroFields
  <2>4. PICK q \in E, j \in {0, 1} : y = child(q, j)
    BY <2>3 DEF Mesh, children
  <2>5. x = y
    BY <2>1, <2>2, <2>4, <1>1, OneFather
  <2>6. x \in children(p) /\ p \in leavesOf(E)
    BY <2>2 DEF children
  <2>7. QED  BY <2>5, <2>6, NoChildYet
<1>8. \A x, y \in C : x.macro = y.macro /\ x.level = y.level /\ x.n = y.n => x = y
  <2>1. SUFFICES ASSUME NEW x \in C, NEW y \in C, x.macro = y.macro, x.level = y.level, x.n = y.n
                 PROVE  x = y
    OBVIOUS
  <2>2. PICK p \in L, i \in {0, 1} : x = child(p, i)
    BY <1>2
  <2>3. PICK q \in L, j \in {0, 1} : y = child(q, j)
    BY <1>2
  <2>4. p \in E /\ q \in E
    BY <1>1
  <2>5. QED  BY <2>1, <2>2, <2>3, <2>4, OneFather
<1>9. \A e, f \in E \cup C : e.macro = f.macro /\ e.level = f.level /\ e.n = f.n => e = f
  BY <1>7, <1>8 DEF Mesh
<1>10. \A e \in E \cup C : e \in macroElements \/ \E f \in E \cup C : e \in children(f)
  <2>1. \A x \in C : \E f \in E : x \in children(f)
    BY <1>1, <1>2 DEF children
  <2>2. QED  BY <2>1 DEF Mesh
<1>11. \A e \in E \cup C : child(e, 0) \in E \cup C <=> child(e, 1) \in E \cup C
  <2>1. \A e \in E, i \in {0, 1} : child(e, i) \in C => e \in L
    <3>1. SUFFICES ASSUME NEW e \in E, NEW i \in {0, 1}, child(e, i) \in C PROVE e \in L
      OBVIOUS
    <3>2. PICK p \in L, j \in {0, 1} : child(e, i) = child(p, j)
      BY <3>1, <1>2
    <3>3. e = p
      BY <1>1, <3>2, SameChild
    <3>4. QED  BY <3>3
  <2>2. \A e \in E : child(e, 0) \in E \cup C <=> child(e, 1) \in E \cup C
    BY <2>1, <1>3 DEF Mesh
  <2>3. \A x \in C, i \in {0, 1} : child(x, i) \notin E \cup C
    <3>1. SUFFICES ASSUME NEW x \in C, NEW i \in {0, 1}, child(x, i) \in E \cup C PROVE FALSE
      OBVIOUS
    <3>2. PICK y : y = child(x, i)
      OBVIOUS
    <3>3. x.level \in Nat \ {0} /\ x.n \in Nat
      BY <1>6
    <3>4. y.level = x.level + 1 /\ y.macro = x.macro /\ y.n = 2 * x.n + i
      BY <3>2, ChildFields
    <3>5. y \notin macroElements
      BY <3>3, <3>4, MacroFields
    <3>6. PICK q \in E, j \in {0, 1} : y = child(q, j)
      BY <3>1, <3>2, <3>5, <1>1, <1>2 DEF Mesh, children
    <3>7. q.level \in Nat /\ q.n \in Nat /\ y.level = q.level + 1 /\ y.macro = q.macro /\ y.n = 2 * q.n + j
      BY <3>6, ChildFields DEF Mesh
    <3>8. x.macro = q.macro /\ x.level = q.level /\ x.n = q.n
      <4>1. x.level + 1 = q.level + 1 /\ 2 * x.n + i = 2 * q.n + j
        BY <3>4, <3>7
      <4>2. \A a, b \in Nat : a + 1 = b + 1 => a = b
        OBVIOUS
      <4>3. x.level = q.level
        BY <3>3, <3>7, <4>1, <4>2
      <4>4. x.n = q.n
        BY <3>3, <3>7, <4>1, TwicePlus
      <4>5. QED  BY <3>4, <3>7, <4>3, <4>4
    <3>9. QED  BY <3>8, <1>7
  <2>4. QED  BY <2>2, <2>3
<1>12. \A e \in E \cup C : e.level \in Nat /\ e.n \in Nat
  BY <1>6 DEF Mesh
<1>13. \A x \in C : x.macro \in Nat /\ x.n < 2^x.level
  <2>1. SUFFICES ASSUME NEW x \in C PROVE x.macro \in Nat /\ x.n < 2^x.level
    OBVIOUS
  <2>2. PICK p \in L, i \in {0, 1} : x = child(p, i)
    BY <1>2
  <2>3. PICK l \in Nat, n \in Nat : l = p.level /\ n = p.n /\ n < 2^l /\ p.macro \in Nat
    BY <1>1 DEF Mesh
  <2>4. x.macro = p.macro /\ x.level = l + 1 /\ x.n = 2 * n + i
    BY <2>2, <2>3, ChildFields
  <2>5. 2^(l+1) = 2 * 2^l
    BY PowerNext
  <2>6. PICK w \in Nat : w = 2^l
    BY PowerOfTwo
  <2>7. 2 * n + i < 2 * w
    BY <2>3, <2>6
  <2>8. QED  BY <2>3, <2>4, <2>5, <2>6, <2>7
<1>14. \A e \in E \cup C : e.macro \in Nat /\ e.n < 2^e.level
  BY <1>13 DEF Mesh
<1> HIDE DEF C
<1>15. Mesh(E \cup C)
  BY <1>5, <1>9, <1>10, <1>11, <1>12, <1>14 DEF Mesh
<1>16. QED  BY <1>15 DEF C

(* Coarsening where all children are leaf elements. *)
LEMMA MeshCoarsened ==
  ASSUME NEW E, Mesh(E), NEW L, L \subseteq E, childrenOf(L) \subseteq leavesOf(E)
  PROVE  Mesh(E \ childrenOf(L))
<1> DEFINE C == childrenOf(L)
<1>1. \A x \in C : \E p \in L, i \in {0, 1} : x = child(p, i)
  BY DEF childrenOf, children
<1>2. \A p \in L : child(p, 0) \in C /\ child(p, 1) \in C
  BY DEF childrenOf, children
<1>3. C \subseteq leavesOf(E)
  OBVIOUS
<1>4. IsFiniteSet(E \ C)
  BY FS_Difference DEF Mesh
<1>5. macroElements \subseteq E \ C
  <2>1. \A x \in C : x \notin macroElements
    <3>1. SUFFICES ASSUME NEW x \in C, x \in macroElements PROVE FALSE
      OBVIOUS
    <3>2. PICK p \in L, i \in {0, 1} : x = child(p, i)
      BY <1>1
    <3>3. x.level = p.level + 1 /\ p.level \in Nat /\ x.level = 0
      BY <3>1, <3>2, ChildFields, MacroFields DEF Mesh
    <3>4. QED  BY <3>3
  <2>2. QED  BY <2>1 DEF Mesh
<1>6. \A e \in E \ C : e \in macroElements \/ \E f \in E \ C : e \in children(f)
  <2>1. SUFFICES ASSUME NEW e \in E \ C, e \notin macroElements PROVE \E f \in E \ C : e \in children(f)
    OBVIOUS
  <2>2. PICK f \in E : e \in children(f)
    BY <2>1 DEF Mesh
  <2>3. f \notin C
    <3>1. \A x \in leavesOf(E) : e \notin children(x)
      BY NoChildYet
    <3> HIDE DEF C
    <3>2. QED  BY <3>1, <2>2, <1>3
  <2>4. QED  BY <2>2, <2>3
<1>7. \A e \in E \ C : child(e, 0) \in E \ C <=> child(e, 1) \in E \ C
  <2>1. \A e \in E, i \in {0, 1} : child(e, i) \in C => e \in L
    <3>1. SUFFICES ASSUME NEW e \in E, NEW i \in {0, 1}, child(e, i) \in C PROVE e \in L
      OBVIOUS
    <3>2. PICK p \in L, j \in {0, 1} : child(e, i) = child(p, j)
      BY <3>1, <1>1
    <3>3. e = p
      BY <3>2, SameChild
    <3>4. QED  BY <3>3
  <2> HIDE DEF C
  <2>2. QED  BY <2>1, <1>2 DEF Mesh
<1> HIDE DEF C
<1>8. Mesh(E \ C)
  BY <1>4, <1>5, <1>6, <1>7 DEF Mesh
<1>9. QED  BY <1>8 DEF C

(* The element of level l over the left end of f. *)
Above(E, x, l, n, k) ==
  \E a \in E : a.macro = x.macro /\ a.level = l /\ a.n = n /\ (k # 0 => a \notin leavesOf(E))
Descends(E, l, k) ==
  \A x \in E, n \in Nat, w \in Nat, h \in Nat :
    w = 2^k /\ h = l + k /\ x.level = h /\ x.n = n * w => Above(E, x, l, n, k)

LEMMA Descend ==
  ASSUME NEW E, Mesh(E), NEW l \in Nat, NEW d \in Nat
  PROVE  Descends(E, l, d)
<1> DEFINE T == {k \in Nat : Descends(E, l, k)}
<1>1. 0 \in T
  <2>1. SUFFICES ASSUME NEW x \in E, NEW n \in Nat, x.level = l + 0, x.n = n * 2^0 PROVE Above(E, x, l, n, 0)
    BY DEF Descends
  <2>2. x.level = l /\ x.n = n
    <3>1. n * 1 = n /\ l + 0 = l
      OBVIOUS
    <3>2. QED  BY <2>1, <3>1, PowerZero
  <2>3. QED  BY <2>2 DEF Above
<1>2. \A k \in Nat : k \in T => k + 1 \in T
  <2>1. SUFFICES ASSUME NEW k \in Nat, Descends(E, l, k),
                        NEW x \in E, NEW n \in Nat, x.level = l + (k + 1), x.n = n * 2^(k+1)
                 PROVE  Above(E, x, l, n, k + 1)
    BY DEF Descends
  <2>2. PICK w \in Nat \ {0} : w = 2^k
    BY PowerOfTwo
  <2>3. x.n = 2 * (n * w)
    <3>1. 2^(k+1) = 2 * w
      BY <2>2, PowerNext
    <3>2. \A u, v \in Nat : u * (2 * v) = 2 * (u * v)
      OBVIOUS
    <3>3. n * (2 * w) = 2 * (n * w)
      BY <3>2
    <3>4. QED  BY <2>1, <3>1, <3>3
  <2>4. x \notin macroElements
    <3>1. l + (k + 1) # 0
      OBVIOUS
    <3>2. QED  BY <2>1, <3>1, MacroFields
  <2>5. PICK g \in E, i \in {0, 1} : x = child(g, i)
    BY <2>4 DEF Mesh, children
  <2>6. PICK gl \in Nat, gn \in Nat : gl = g.level /\ gn = g.n
    BY DEF Mesh
  <2>7. x.macro = g.macro /\ x.level = gl + 1 /\ x.n = 2 * gn + i
    BY <2>5, <2>6, ChildFields
  <2>8. gl = l + k
    BY <2>1, <2>7
  <2>9. gn = n * w
    <3>1. PICK v \in Nat : v = n * w
      OBVIOUS
    <3>2. 2 * gn + i = 2 * v + 0
      BY <2>3, <2>7, <3>1
    <3>3. gn = v
      BY <3>2, TwicePlus
    <3>4. QED  BY <3>1, <3>3
  <2>10. g \notin leavesOf(E)
    BY <2>5 DEF Mesh, leavesOf
  <2>11. Above(E, g, l, n, k)
    <3>1. w \in Nat /\ gl \in Nat /\ w = 2^k /\ gl = l + k /\ g.level = gl /\ g.n = n * w
      BY <2>2, <2>6, <2>8, <2>9
    <3>2. QED  BY <2>1, <3>1 DEF Descends
  <2>12. CASE k # 0
    BY <2>7, <2>11, <2>12 DEF Above
  <2>13. CASE k = 0
    <3>1. n * w = n /\ l + k = l
      <4>1. w = 1
        BY <2>2, <2>13, PowerZero
      <4>2. QED  BY <4>1, <2>13
    <3>2. g.macro = x.macro /\ g.level = l /\ g.n = n
      BY <2>6, <2>7, <2>8, <2>9, <3>1
    <3>3. QED  BY <3>2, <2>10 DEF Above
  <2>14. QED  BY <2>12, <2>13
<1>3. Nat \subseteq T
  <2> HIDE DEF T
  <2>1. QED  BY <1>1, <1>2, InductionOn
<1>4. QED  BY <1>3

(* Multiplication by a positive number. *)
LEMMA Cancel ==
  ASSUME NEW a \in Nat, NEW b \in Nat, NEW q \in Nat \ {0}, q * a = q * b
  PROVE  a = b
<1>1. 0 \in 0..q-1 /\ q * a \in Nat /\ q * a = q * a + 0 /\ q * a = q * b + 0
  OBVIOUS
<1>2. PICK n \in Nat : n = q * a
  BY <1>1
<1>3. n = q * a + 0 /\ n = q * b + 0
  BY <1>1, <1>2
<1>4. n \div q = a
  BY <1>1, <1>3, DivisionUnique
<1>5. n \div q = b
  BY <1>1, <1>3, DivisionUnique
<1>6. QED  BY <1>4, <1>5

(* The position within the macro element. *)
LEMMA PositionIs ==
  ASSUME NEW e, NEW f \in Nat, e.level \in 0..f, e.n \in Nat, e.macro \in Nat, e.n < 2^e.level
  PROVE  /\ 2^f \in Nat \ {0} /\ 2^(f - e.level) \in Nat \ {0}
         /\ e.n * 2^(f - e.level) \in 0..2^f - 1
         /\ position(f, e) = 2^f * e.macro + e.n * 2^(f - e.level)
<1>1. PICK l \in Nat, n \in Nat, m \in Nat : l = e.level /\ n = e.n /\ m = e.macro /\ l <= f
  OBVIOUS
<1>2. PICK d \in Nat : d = f - l /\ f = l + d
  <2>1. f - l \in Nat /\ f = l + (f - l)
    BY <1>1
  <2>2. QED  BY <2>1
<1>3. PICK P \in Nat \ {0}, Q \in Nat \ {0}, W \in Nat \ {0} : P = 2^l /\ Q = 2^d /\ W = 2^f
  BY PowerOfTwo
<1>4. W = P * Q
  BY <1>2, <1>3, ExponentSum
<1>5. n + 1 <= P
  BY <1>1, <1>3
<1>6. Q * (n + 1) <= Q * P
  BY <1>5, MoreTimes
<1>7. \A x, y, z \in Nat : (x * y + z) * Q = (y * Q) * x + z * Q
  OBVIOUS
<1>8. (m * P + n) * Q = W * m + n * Q
  BY <1>4, <1>7
<1>9. n * Q \in Nat /\ n * Q + Q = Q * (n + 1) /\ Q * P = W
  BY <1>4
<1>10. n * Q \in 0..W-1
  BY <1>6, <1>9
<1>11. position(f, e) = (m * P + n) * Q
  BY <1>1, <1>2, <1>3 DEF position
<1>12. 2^(f - e.level) = Q /\ 2^f = W
  BY <1>1, <1>2, <1>3
<1>13. QED  BY <1>1, <1>8, <1>10, <1>11, <1>12

(* Macro element and place in it. *)
Placed(f, e, w, k, p) == k = e.macro /\ p = e.n * 2^(f - e.level) /\ position(f, e) = w * k + p

LEMMA PlaceIs ==
  ASSUME NEW e, NEW f \in Nat, e.level \in 0..f, e.n \in Nat, e.macro \in Nat, e.n < 2^e.level,
         NEW w \in Nat, w = 2^f
  PROVE  \E k \in Nat, p \in 0..w-1 : Placed(f, e, w, k, p)
BY PositionIs DEF Placed

(* The order from left to right is one of the leaf elements. *)
LEMMA LeavesOrdered ==
  ASSUME NEW E, Mesh(E), NEW f \in Nat, \A e \in leavesOf(E) : e.level <= f,
         NEW x \in leavesOf(E), NEW y \in leavesOf(E), x.level <= y.level, position(f, x) = position(f, y)
  PROVE  x = y
<1>1. /\ x \in E /\ y \in E
      /\ x.level \in 0..f /\ x.n \in Nat /\ x.macro \in Nat /\ x.n < 2^x.level
      /\ y.level \in 0..f /\ y.n \in Nat /\ y.macro \in Nat /\ y.n < 2^y.level
  BY DEF Mesh, leavesOf
<1>2. PICK W \in Nat \ {0} : W = 2^f
  BY PowerOfTwo
<1>3. PICK kx \in Nat, p \in 0..W-1 : Placed(f, x, W, kx, p)
  BY <1>1, <1>2, PlaceIs
<1>4. PICK ky \in Nat, q \in 0..W-1 : Placed(f, y, W, ky, q)
  BY <1>1, <1>2, PlaceIs
<1>5. kx = ky /\ p = q
  <2>1. PICK n \in Nat : n = W * kx + p /\ n = W * ky + q
    <3>1. W * kx + p \in Nat
      OBVIOUS
    <3>2. W * kx + p = W * ky + q
      BY <1>3, <1>4 DEF Placed
    <3>3. QED  BY <3>1, <3>2
  <2>2. n \div W = kx /\ (n % W) = p
    BY <2>1, DivisionUnique
  <2>3. n \div W = ky /\ (n % W) = q
    BY <2>1, DivisionUnique
  <2>4. QED  BY <2>2, <2>3
<1>6. PICK l \in Nat, m \in Nat, h \in Nat, n \in Nat :
        l = x.level /\ m = x.n /\ h = y.level /\ n = y.n /\ l <= h /\ h <= f
  BY <1>1
<1>7. PICK d \in Nat, g \in Nat : h = l + d /\ f - h = g /\ f - l = g + d
  <2>1. h - l \in Nat /\ f - h \in Nat /\ f - l = (f - h) + (h - l) /\ h = l + (h - l)
    BY <1>6
  <2>2. QED  BY <2>1
<1>8. PICK D \in Nat \ {0}, G \in Nat \ {0} : D = 2^d /\ G = 2^g
  BY PowerOfTwo
<1>9. 2^(g+d) = G * D
  BY <1>8, ExponentSum
<1>10. n = m * D
  <2>1. p = m * (G * D) /\ q = n * G
    BY <1>3, <1>4, <1>6, <1>7, <1>8, <1>9 DEF Placed
  <2>2. \A a, b \in Nat : a * (G * D) = G * (a * D) /\ b * G = G * b /\ a * D \in Nat
    OBVIOUS
  <2>3. G * (m * D) = G * n /\ m * D \in Nat
    BY <1>5, <2>1, <2>2
  <2>4. QED  BY <2>3, Cancel
<1>11. Above(E, y, l, m, d)
  <2>1. Descends(E, l, d)
    BY Descend
  <2>2. D \in Nat /\ h \in Nat /\ D = 2^d /\ h = l + d /\ y.level = h /\ y.n = m * D
    BY <1>6, <1>7, <1>8, <1>10
  <2>3. QED  BY <1>1, <2>1, <2>2 DEF Descends
<1>12. x.macro = y.macro
  BY <1>3, <1>4, <1>5 DEF Placed
<1>13. d = 0
  <2>1. PICK a \in E : a.macro = y.macro /\ a.level = l /\ a.n = m /\ (d # 0 => a \notin leavesOf(E))
    BY <1>11 DEF Above
  <2>2. a = x
    BY <1>1, <1>6, <1>12, <2>1 DEF Mesh
  <2>3. QED  BY <2>1, <2>2
<1>14. h = l /\ n = m
  <2>1. D = 1
    BY <1>8, <1>13, PowerZero
  <2>2. QED  BY <1>7, <1>10, <1>13, <2>1
<1>15. QED  BY <1>1, <1>6, <1>12, <1>14 DEF Mesh
-----------------------------------------------------------------------------
(* Patches *)

(* A patch of the elements L. *)
IsPatch(patch, L) ==
  \/ \E e : patch = <<e>> /\ L = {e}
  \/ \E e, f : patch = <<e, f>> /\ e # f /\ L = {e, f}

LEMMA PatchFrom ==
  ASSUME NEW S, NEW e \in S
  PROVE  \E L : L \subseteq S /\ e \in L /\ IsPatch(patchFrom(e, S), L)
<1>1. CASE S = {e}
  <2>1. patchFrom(e, S) = <<e>>
    BY <1>1 DEF patchFrom
  <2>2. QED  BY <2>1 DEF IsPatch
<1>2. CASE S # {e}
  <2>1. PICK f : f = CHOOSE x \in S : x # e
    OBVIOUS
  <2>2. \E x \in S : x # e
    BY <1>2
  <2>3. f \in S /\ f # e
    BY <2>1, <2>2
  <2>4. patchFrom(e, S) = <<e, f>>
    BY <1>2, <2>1 DEF patchFrom
  <2>5. IsPatch(patchFrom(e, S), {e, f})
    BY <2>3, <2>4 DEF IsPatch
  <2>6. QED  BY <2>3, <2>5
<1>3. QED  BY <1>1, <1>2

LEMMA PatchMembers ==
  ASSUME NEW patch, NEW L, IsPatch(patch, L)
  PROVE  Children(patch) = childrenOf(L) /\ {patch[i] : i \in DOMAIN patch} = L
<1>1. CASE \E e : patch = <<e>> /\ L = {e}
  <2>1. PICK e : patch = <<e>> /\ L = {e}
    BY <1>1
  <2>2. DOMAIN patch = {1} /\ patch[1] = e
    BY <2>1
  <2>3. QED  BY <2>1, <2>2 DEF Children, childrenOf
<1>2. CASE \E e, f : patch = <<e, f>> /\ e # f /\ L = {e, f}
  <2>1. PICK e, f : patch = <<e, f>> /\ e # f /\ L = {e, f}
    BY <1>2
  <2>2. DOMAIN patch = {1, 2} /\ patch[1] = e /\ patch[2] = f
    BY <2>1
  <2>3. QED  BY <2>1, <2>2 DEF Children, childrenOf
<1>3. QED  BY <1>1, <1>2 DEF IsPatch

(* q lists the members of S, each once. *)
Lists(q, S) ==
  /\ q \in Seq(S)
  /\ \A x \in S : \E k \in 1..Len(q) : q[k] = x
  /\ \A j, k \in 1..Len(q) : q[j] = q[k] => j = k

LEMMA NewElementsListed ==
  ASSUME NEW E, Mesh(E), NEW L, L \subseteq E, NEW patch, IsPatch(patch, L)
  PROVE  Lists(forEachInteriorSubChild(0, patch), childrenOf(L))
<1> DEFINE q == forEachInteriorSubChild(0, patch)
<1>1. CASE \E e : patch = <<e>> /\ L = {e}
  <2>1. PICK e : patch = <<e>> /\ L = {e}
    BY <1>1
  <2>2. Len(patch) = 1 /\ patch[1] = e
    BY <2>1
  <2>3. q = <<child(e, 0), child(e, 1)>> \o <<>>
    BY <2>2 DEF forEachInteriorSubChild
  <2>4. childrenOf(L) = {child(e, 0), child(e, 1)}
    BY <2>1 DEF childrenOf, children
  <2>5. child(e, 0) # child(e, 1)
    <3>1. e \in E /\ 0 \in {0, 1} /\ 1 \in {0, 1} /\ 0 # 1
      BY <2>1
    <3>2. QED  BY <3>1, SameChild
  <2> HIDE DEF q
  <2>6. PICK a, b : a = child(e, 0) /\ b = child(e, 1)
    OBVIOUS
  <2>7. q = <<a, b>>
    <3>1. <<a, b>> \in Seq({a, b})
      OBVIOUS
    <3>2. <<a, b>> \o <<>> = <<a, b>>
      BY <3>1
    <3>3. QED  BY <2>3, <2>6, <3>2
  <2>8. q \in Seq({a, b}) /\ Len(q) = 2 /\ q[1] = a /\ q[2] = b
    BY <2>7
  <2>9. \A x \in {a, b} : \E k \in 1..Len(q) : q[k] = x
    BY <2>8
  <2>10. \A j, k \in 1..Len(q) : q[j] = q[k] => j = k
    <3>1. \A j \in 1..2 : j = 1 \/ j = 2
      OBVIOUS
    <3>2. QED  BY <3>1, <2>5, <2>6, <2>8
  <2>11. QED  BY <2>4, <2>6, <2>8, <2>9, <2>10 DEF Lists, q
<1>2. CASE \E e, f : patch = <<e, f>> /\ e # f /\ L = {e, f}
  <2>1. PICK e, f : patch = <<e, f>> /\ e # f /\ L = {e, f}
    BY <1>2
  <2>2. Len(patch) = 2 /\ patch[1] = e /\ patch[2] = f
    BY <2>1
  <2>3. PICK a, b, c, d : a = child(e, 0) /\ b = child(e, 1) /\ c = child(f, 0) /\ d = child(f, 1)
    OBVIOUS
  <2>4. q = <<a, b>> \o <<c, d>>
    BY <2>2, <2>3 DEF forEachInteriorSubChild
  <2>5. q = <<a, b, c, d>>
    BY <2>4
  <2>6. childrenOf(L) = {a, b, c, d}
    BY <2>1, <2>3 DEF childrenOf, children
  <2>7. a # b /\ a # c /\ a # d /\ b # c /\ b # d /\ c # d
    <3>1. e \in E /\ f \in E /\ 0 \in {0, 1} /\ 1 \in {0, 1} /\ 0 # 1
      BY <2>1
    <3>2. QED  BY <3>1, <2>1, <2>3, SameChild
  <2> HIDE DEF q
  <2>8. q \in Seq({a, b, c, d}) /\ Len(q) = 4 /\ q[1] = a /\ q[2] = b /\ q[3] = c /\ q[4] = d
    BY <2>5
  <2>9. \A x \in {a, b, c, d} : \E k \in 1..Len(q) : q[k] = x
    BY <2>8
  <2>10. \A j, k \in 1..Len(q) : q[j] = q[k] => j = k
    <3>1. \A j \in 1..4 : j = 1 \/ j = 2 \/ j = 3 \/ j = 4
      OBVIOUS
    <3>2. QED  BY <3>1, <2>7, <2>8
  <2>11. QED  BY <2>6, <2>8, <2>9, <2>10 DEF Lists, q
<1>3. QED  BY <1>1, <1>2 DEF IsPatch

(* N is f and numbers the q in the order in which the stack s hands the indices out. *)
Extends(N, f, s, S, q) ==
  /\ DOMAIN N = DOMAIN f \cup S
  /\ \A x \in DOMAIN f : N[x] = f[x]
  /\ \A k \in 1..Len(q) : N[q[k]] = handedOut(s, k)

(* What numbered() makes of new entities that are listed once. *)
LEMMA NumberedNew ==
  ASSUME NEW f, NEW s, NEW S, NEW q, Lists(q, S), S \cap DOMAIN f = {}
  PROVE  Extends(numbered(f, s, q), f, s, S, q)
<1> DEFINE calls(x) == {k \in DOMAIN q : q[k] = x}
           N == numbered(f, s, q)
<1>1. DOMAIN q = 1..Len(q) /\ \A k \in 1..Len(q) : q[k] \in S
  BY DEF Lists
<1>2. S = {q[k] : k \in DOMAIN q}
  BY <1>1 DEF Lists
<1>3. N = [x \in DOMAIN f \cup S |->
             IF calls(x) = {} THEN f[x] ELSE getIndex(taken(s, Max(calls(x)) - 1)).index]
  BY <1>2 DEF numbered
<1>4. \A x \in DOMAIN f : calls(x) = {}
  BY <1>1
<1>5. \A k \in 1..Len(q) : calls(q[k]) = {k} /\ q[k] \in S
  BY <1>1 DEF Lists
<1>6. \A k \in 1..Len(q) : Max({k}) = k
  <2>1. SUFFICES ASSUME NEW k \in 1..Len(q) PROVE Max({k}) = k
    OBVIOUS
  <2>2. k >= k
    BY <1>1
  <2>3. QED  BY <2>2 DEF Max
<1>7. \A k \in 1..Len(q) : N[q[k]] = getIndex(taken(s, k - 1)).index
  <2>1. SUFFICES ASSUME NEW k \in 1..Len(q) PROVE N[q[k]] = getIndex(taken(s, k - 1)).index
    OBVIOUS
  <2>2. calls(q[k]) = {k} /\ q[k] \in S
    BY <1>5
  <2>3. Max(calls(q[k])) = k /\ calls(q[k]) # {}
    BY <2>2, <1>6
  <2> HIDE DEF N, calls
  <2>4. N[q[k]] = getIndex(taken(s, Max(calls(q[k])) - 1)).index
    BY <2>2, <2>3, <1>3
  <2>5. QED  BY <2>3, <2>4
<1>8. \A x \in DOMAIN f : N[x] = f[x]
  BY <1>3, <1>4
<1>9. DOMAIN N = DOMAIN f \cup S
  BY <1>3
<1> HIDE DEF N
<1>10. \A k \in 1..Len(q) : N[q[k]] = handedOut(s, k)
  BY <1>7 DEF handedOut
<1>11. Extends(N, f, s, S, q)
  BY <1>8, <1>9, <1>10 DEF Extends
<1>12. QED  BY <1>11 DEF N
-----------------------------------------------------------------------------
(* The persistent numbers of a codimension *)

image(f) == {f[x] : x \in DOMAIN f}

(* f numbers the entities E, with the stack s and the forgotten indices l. *)
Numbers(E, f, s, l) ==
  /\ DOMAIN f = E
  /\ \A x, y \in E : f[x] = f[y] => x = y
  /\ l \cap image(f) = {}
  /\ TypeOfStack(s) /\ Conserved(s, image(f) \cup l)

LEMMA NumbersBelow ==
  ASSUME NEW E, NEW f, NEW s, NEW l, Numbers(E, f, s, l)
  PROVE  /\ s.maxIndex_ \in Nat /\ image(f) \subseteq 0..s.maxIndex_ - 1 /\ l \subseteq 0..s.maxIndex_ - 1
         /\ \A x \in E : f[x] \in image(f)
BY DEF Numbers, Conserved, TypeOfStack, image

LEMMA NumbersRefined ==
  ASSUME NEW E, NEW f, NEW s, NEW l, Numbers(E, f, s, l),
         NEW S, S \cap E = {}, NEW q, Lists(q, S)
  PROVE  Numbers(E \cup S, numbered(f, s, q), taken(s, Len(q)), l)
<1> DEFINE N == numbered(f, s, q)
           n == Len(q)
           t == taken(s, n)
           new == {handedOut(s, k) : k \in 1..n}
           used == image(f) \cup l
<1>1. n \in Nat
  BY DEF Lists
<1>2. DOMAIN f = E
  BY DEF Numbers
<1>3. /\ DOMAIN N = E \cup S
      /\ \A x \in E : N[x] = f[x]
      /\ \A k \in 1..n : N[q[k]] = handedOut(s, k)
  <2>1. S \cap DOMAIN f = {}
    BY <1>2
  <2>2. Extends(numbered(f, s, q), f, s, S, q)
    BY <2>1, NumberedNew
  <2>3. QED  BY <2>2, <1>2 DEF Extends
<1>4. TypeOfStack(s) /\ Conserved(s, used)
  BY DEF Numbers
<1>5. /\ TypeOfStack(t) /\ Conserved(t, used \cup new)
      /\ \A k \in 1..n : handedOut(s, k) \notin used
      /\ \A j, k \in 1..n : handedOut(s, j) = handedOut(s, k) => j = k
  <2> HIDE DEF used
  <2>1. QED  BY <1>1, <1>4, TakenConserves
<1> HIDE DEF N
<1>6. \A x \in S : \E k \in 1..n : x = q[k] /\ N[x] = handedOut(s, k)
  BY <1>3 DEF Lists
<1>7. \A k \in 1..n : q[k] \in S
  BY DEF Lists
<1>8. image(N) = image(f) \cup new
  BY <1>2, <1>3, <1>6, <1>7 DEF image
<1>9. \A x, y \in E \cup S : N[x] = N[y] => x = y
  <2>1. \A x \in E : N[x] \in used
    BY <1>2, <1>3 DEF image
  <2>2. \A x \in S : N[x] \notin used
    BY <1>5, <1>6
  <2>3. \A x, y \in S : N[x] = N[y] => x = y
    BY <1>5, <1>6
  <2>4. \A x, y \in E : N[x] = N[y] => x = y
    BY <1>3 DEF Numbers
  <2> HIDE DEF used
  <2>5. QED  BY <2>1, <2>2, <2>3, <2>4
<1>10. l \cap image(N) = {}
  BY <1>5, <1>8 DEF Numbers
<1>11. used \cup new = image(N) \cup l
  BY <1>8
<1> HIDE DEF used, new, t
<1>12. Numbers(E \cup S, N, t, l)
  BY <1>3, <1>5, <1>9, <1>10, <1>11 DEF Numbers
<1>13. QED  BY <1>12 DEF N, t

LEMMA NumbersCoarsened ==
  ASSUME NEW E, NEW f, NEW s, NEW l, Numbers(E, f, s, l),
         NEW S, S \subseteq E, NEW q, Lists(q, S)
  PROVE  Numbers(E \ S, Restricted(f, E \ S), given(s, [k \in DOMAIN q |-> f[q[k]]]), l)
<1> DEFINE r == [k \in DOMAIN q |-> f[q[k]]]
           R == Restricted(f, E \ S)
           used == image(f) \cup l
           freed == members(r)
<1>1. Len(q) \in Nat /\ DOMAIN q = 1..Len(q) /\ \A k \in 1..Len(q) : q[k] \in S
  BY DEF Lists
<1>2. DOMAIN f = E
  BY DEF Numbers
<1>3. \A k \in 1..Len(q) : r[k] = f[q[k]] /\ r[k] \in used
  BY <1>1, <1>2 DEF image
<1>4. r \in Seq(used) /\ Len(r) = Len(q)
  <2> HIDE DEF used
  <2>1. r \in [1..Len(q) -> used]
    BY <1>1, <1>3
  <2> HIDE DEF r
  <2>2. QED  BY <1>1, <2>1
<1>5. \A j, k \in 1..Len(r) : r[j] = r[k] => j = k
  <2>1. \A j, k \in 1..Len(q) : f[q[j]] = f[q[k]] => q[j] = q[k]
    BY <1>1 DEF Numbers
  <2>2. QED  BY <2>1, <1>3, <1>4 DEF Lists
<1>6. TypeOfStack(given(s, r)) /\ Conserved(given(s, r), used \ freed)
  <2>1. TypeOfStack(s) /\ Conserved(s, used)
    BY DEF Numbers
  <2> HIDE DEF used, r
  <2>2. QED  BY <1>4, <1>5, <2>1, GivenConserves
<1>7. freed = {f[x] : x \in S}
  <2>1. \A x \in S : \E k \in 1..Len(q) : x = q[k]
    BY DEF Lists
  <2>2. QED  BY <2>1, <1>1, <1>3, <1>4 DEF members
<1>8. image(R) = {f[x] : x \in E \ S} /\ DOMAIN R = E \ S /\ \A x \in E \ S : R[x] = f[x]
  BY DEF image, Restricted
<1>9. /\ \A x \in E : f[x] \in image(f)
      /\ l \cap image(f) = {}
      /\ \A x, y \in E : f[x] = f[y] => x = y
  BY <1>2 DEF image, Numbers
<1>10. used \ freed = image(R) \cup l
  <2>1. image(f) = {f[x] : x \in E}
    BY <1>2 DEF image
  <2> HIDE DEF freed, R
  <2>2. image(f) \ freed = image(R)
    BY <2>1, <1>7, <1>8, <1>9
  <2>3. l \cap freed = {}
    BY <1>7, <1>9
  <2>4. QED  BY <2>2, <2>3
<1>11. l \cap image(R) = {}
  BY <1>8, <1>9
<1> HIDE DEF R, r, used, freed
<1>12. Numbers(E \ S, R, given(s, r), l)
  BY <1>6, <1>8, <1>9, <1>10, <1>11 DEF Numbers
<1>13. QED  BY <1>12 DEF R, r

LEMMA LargestIndex ==
  ASSUME NEW n \in Nat, NEW S, S \subseteq 0..n-1, S # {}
  PROVE  Max(S) \in S /\ Max(S) \in Nat /\ S \subseteq 0..Max(S)
<1> DEFINE T == {k \in Nat : n - k \in S}
<1>1. T # {}
  <2>1. PICK x \in S : TRUE
    OBVIOUS
  <2>2. n - x \in Nat /\ n - (n - x) = x
    BY <2>1
  <2>3. QED  BY <2>1, <2>2
<1>2. PICK m \in T : \A k \in T : m <= k
  <2> HIDE DEF T
  <2>1. T \subseteq Nat
    BY DEF T
  <2>2. QED  BY <1>1, <2>1, Smallest
<1>3. \A x \in S : n - m >= x
  <2>1. SUFFICES ASSUME NEW x \in S PROVE n - m >= x
    OBVIOUS
  <2>2. n - x \in Nat /\ n - (n - x) = x
    OBVIOUS
  <2>3. n - x \in T
    BY <2>2
  <2>4. m <= n - x /\ m \in Nat /\ x \in Nat
    BY <2>3, <1>2
  <2>5. QED  BY <2>4
<1>4. \E x \in S : \A y \in S : x >= y
  BY <1>2, <1>3
<1>5. Max(S) \in S /\ \A y \in S : Max(S) >= y
  BY <1>4 DEF Max
<1>6. PICK M : M = Max(S)
  OBVIOUS
<1>7. M \in S /\ \A y \in S : M >= y
  BY <1>5, <1>6
<1>8. M \in Nat /\ S \subseteq 0..M
  BY <1>7
<1>9. QED  BY <1>6, <1>7, <1>8

LEMMA NumbersRestored ==
  ASSUME NEW E, NEW f, NEW s, NEW l, Numbers(E, f, s, l), E # {}
  PROVE  LET m == Max(image(f))
         IN  /\ Numbers(E, f, restored(m), (0..m) \ image(f))
             /\ m \in Nat /\ image(f) \subseteq 0..m /\ restored(m).maxIndex_ = m + 1
<1>1. image(f) # {}
  BY DEF image, Numbers
<1> DEFINE m == Max(image(f))
<1>2. m \in Nat /\ image(f) \subseteq 0..m
  BY <1>1, NumbersBelow, LargestIndex
<1> HIDE DEF m
<1>3. image(f) \cup ((0..m) \ image(f)) = 0..m
  BY <1>2
<1>4. PICK n \in Nat : n = m + 1
  BY <1>2
<1>5. TypeOfStack([NewIndexStack EXCEPT !.maxIndex_ = n]) /\ Conserved([NewIndexStack EXCEPT !.maxIndex_ = n], 0..n-1)
  BY NoHoles
<1>6. restored(m) = [NewIndexStack EXCEPT !.maxIndex_ = n] /\ 0..n-1 = 0..m
  BY <1>2, <1>4 DEF restored
<1>7. TypeOfStack(restored(m)) /\ Conserved(restored(m), image(f) \cup ((0..m) \ image(f)))
  BY <1>3, <1>5, <1>6
<1>8. restored(m).maxIndex_ = m + 1
  BY DEF restored, NewIndexStack
<1>9. Numbers(E, f, restored(m), (0..m) \ image(f))
  BY <1>7 DEF Numbers
<1>10. QED  BY <1>2, <1>8, <1>9 DEF m
-----------------------------------------------------------------------------
(* The numbers and the data in the course of the program *)

IndexInv ==
  /\ Mesh(elements)
  /\ Numbers(elements, numbers[0], indexStack_[0], lost[0])
  /\ data_ \in Seq(image(data_))

(* What DataPersists says of a step. *)
Persist == \A e \in elements \cap elements' : Stored(e) => Stored(e)'

LEMMA Elements ==
  ASSUME NEW E PROVE entities(E, 0) = E
BY DEF entities, subEntity, numSubEntities

(* A container of n entries. *)
LEMMA Entries ==
  ASSUME NEW n \in Nat, NEW d, d = [k \in 1..n |-> d[k]]
  PROVE  d \in Seq(image(d)) /\ Len(d) = n /\ DOMAIN d = 1..n
<1>1. d \in [1..n -> image(d)]
  BY DEF image
<1>2. QED  BY <1>1

LEMMA MacroMesh ==
  Mesh(macroElements) /\ macroElements # {}
<1>1. /\ Len(macros) \in Nat \ {0} /\ DOMAIN macros = 1..Len(macros)
  BY macrosAssumption
<1>2. IsFiniteSet(macroElements) /\ macroElements # {}
  <2> DEFINE f == [k \in 1..Len(macros) |-> macroElement(k)]
  <2>1. f \in Surjection(1..Len(macros), macroElements)
    BY <1>1 DEF Surjection, macroElements
  <2>2. IsFiniteSet(1..Len(macros))
    BY <1>1, FS_Interval
  <2>3. macroElement(1) \in macroElements
    BY <1>1 DEF macroElements
  <2>4. QED  BY <2>1, <2>2, <2>3, FS_Surjection
<1>3. \A e, f \in macroElements : e.macro = f.macro => e = f
  BY DEF macroElements, macroElement, element
<1>4. \A e \in macroElements, i \in {0, 1} : child(e, i) \notin macroElements
  BY ChildFields, MacroFields
<1>5. \A e \in macroElements : e.macro \in Nat /\ e.n < 2^e.level
  <2>1. \A e \in macroElements : e.macro \in 1..Len(macros)
    BY <1>1 DEF macroElements, macroElement, element
  <2>2. 0 < 2^0
    BY PowerOfTwo
  <2>3. \A e \in macroElements : e.n < 2^e.level
    <3>1. SUFFICES ASSUME NEW e \in macroElements PROVE e.n < 2^e.level
      OBVIOUS
    <3>2. e.n = 0 /\ e.level = 0
      BY MacroFields
    <3>3. QED  BY <2>2, <3>2
  <2>4. QED  BY <1>1, <2>1, <2>3
<1>6. QED  BY <1>2, <1>3, <1>4, <1>5, MacroFields DEF Mesh

(* The patch of an element that is due consists of leaf elements. *)
LEMMA DueLeaves ==
  ASSUME IsFiniteSet(elements)
  PROVE  /\ due \subseteq leaves
         /\ due = {} => \A l \in leaves : ~(mark[l] > 0)
<1> DEFINE V == SUBSET leaves
           A == {l \in leaves : mark[l] > 0}
           more(X) == UNION {patchOf(e) : e \in X}
           n == Cardinality(leaves)
           F == [k \in 1..n |-> [X \in V |-> more(X)]]
           Is(D) == D = [k \in 0..n |-> IF k = 0 THEN A ELSE more(D[k-1])]
<1>1. n \in Nat
  <2>1. leaves \subseteq elements
    BY DEF leaves, leavesOf
  <2>2. QED  BY <2>1, FS_Subset, FS_CardinalityType
<1>2. \A e \in leaves : e \in patchOf(e)
  <2>1. 1 \in 1..3 /\ 2 \in 1..3
    OBVIOUS
  <2>2. QED  BY <2>1 DEF patchOf, refinementEdge
<1>3. \A X \in V : more(X) \in V /\ X \subseteq more(X)
  <2>1. \A e : patchOf(e) \subseteq leaves
    BY DEF patchOf
  <2>2. QED  BY <2>1, <1>2
<1>4. \E D : Is(D)
  <2>1. F \in [1..n -> [V -> V]] /\ A \in V
    BY <1>3
  <2>2. PICK g : Follows(g, V, A, F, n)
    <3> HIDE DEF V, A, F, n
    <3>1. QED  BY <1>1, <2>1, RecursionUpTo
  <2>3. g \in [0..n -> V] /\ g[0] = A /\ \A k \in 1..n : g[k] = F[k][g[k-1]]
    <3> HIDE DEF V, A, F, n
    <3>1. QED  BY <2>2 DEF Follows
  <2>4. \A k \in 1..n : k - 1 \in 0..n /\ g[k-1] \in V
    BY <1>1, <2>3
  <2>5. \A k \in 1..n : g[k] = more(g[k-1])
    <3> HIDE DEF n, more, V
    <3>1. QED  BY <2>3, <2>4 DEF F
  <2>6. \A k \in 0..n : g[k] = IF k = 0 THEN A ELSE more(g[k-1])
    <3>1. \A k \in 0..n : k = 0 \/ k \in 1..n
      BY <1>1
    <3> HIDE DEF n, more, A
    <3>2. QED  BY <3>1, <2>3, <2>5
  <2>7. Is(g)
    <3> HIDE DEF n, more, A
    <3>1. QED  BY <2>3, <2>6
  <2>8. QED  BY <2>7
<1> DEFINE D == CHOOSE D : Is(D)
<1>5. Is(D)
  <2> HIDE DEF Is
  <2>1. QED  BY <1>4
<1>6. due = D[n]
  BY DEF due
<1> HIDE DEF D
<1> DEFINE T == {k \in Nat : k <= n => D[k] \in V /\ A \subseteq D[k]}
<1>7. 0 \in T
  BY <1>1, <1>5
<1>8. \A k \in Nat : k \in T => k + 1 \in T
  <2>1. SUFFICES ASSUME NEW k \in Nat, k \in T, k + 1 <= n
                 PROVE  D[k+1] \in V /\ A \subseteq D[k+1]
    OBVIOUS
  <2>2. k + 1 \in 0..n /\ k + 1 # 0 /\ (k + 1) - 1 = k /\ k <= n
    BY <1>1, <2>1
  <2>3. D[k] \in V /\ A \subseteq D[k]
    BY <2>1, <2>2
  <2>4. D[k+1] = more(D[k])
    <3> HIDE DEF n, more, A
    <3>1. QED  BY <1>5, <2>2
  <2> HIDE DEF more, V
  <2>5. QED  BY <2>3, <2>4, <1>3
<1>9. Nat \subseteq T
  <2> HIDE DEF T
  <2>1. QED  BY <1>7, <1>8, InductionOn
<1>10. D[n] \in V /\ A \subseteq D[n]
  BY <1>1, <1>9
<1>11. QED  BY <1>6, <1>10

NumbersOf(c) == Numbers(entities(elements, c), numbers[c], indexStack_[c], lost[c])

(* ALBERTA has numbered the entities of the macro triangulation. *)
LEMMA NumbersInit ==
  ASSUME Init, NEW c \in codims
  PROVE  NumbersOf(c)
<1> DEFINE S == entities(macroElements, c)
           n == Cardinality(S)
           f == numbers[c]
<1>2. entities(elements, c) = S /\ f = macroNumbers[c] /\ lost[c] = {}
      /\ indexStack_[c] = taken(NewIndexStack, n)
  BY DEF Init
<1>3. DOMAIN f = S /\ {f[x] : x \in S} = 0..n-1 /\ IsFiniteSet(S)
  BY <1>2, macroNumbersAssumption DEF IsNumbering
<1>4. n \in Nat
  BY <1>3, FS_CardinalityType
<1> HIDE DEF S
<1>5. \A x, y \in S : f[x] = f[y] => x = y
  <2>1. Cardinality(0..n-1) = n
    <3>1. Cardinality(0..n-1) = IF 0 > n-1 THEN 0 ELSE n-1-0+1
      BY <1>4, FS_Interval
    <3> HIDE DEF n
    <3>2. QED  BY <3>1, <1>4
  <2> DEFINE g == [x \in S |-> f[x]]
  <2>2. g \in Surjection(S, 0..n-1)
    BY <1>3 DEF Surjection
  <2>3. g \in Injection(S, 0..n-1)
    BY <2>1, <2>2, <1>3, FS_SurjSameCardinalityImpliesInj
  <2>4. QED  BY <2>3 DEF Injection, IsInjective
<1>6. indexStack_[c] = [NewIndexStack EXCEPT !.maxIndex_ = n]
  <2> HIDE DEF n
  <2>1. QED  BY <1>2, <1>4, TakenFromNew
<1>7. image(f) \cup lost[c] = 0..n-1
  BY <1>2, <1>3 DEF image
<1>8. TypeOfStack(indexStack_[c]) /\ Conserved(indexStack_[c], image(f) \cup lost[c])
  <2> HIDE DEF n
  <2>1. QED  BY <1>4, <1>6, <1>7, NoHoles
<1>9. QED  BY <1>2, <1>3, <1>5, <1>8 DEF Numbers, NumbersOf

LEMMA IndexInit ==
  Init => IndexInv
<1> SUFFICES ASSUME Init PROVE IndexInv
  OBVIOUS
<1>1. 0 \in codims
  BY DEF codims
<1>2. elements = macroElements /\ data_ = <<>>
  BY DEF Init
<1>3. Numbers(elements, numbers[0], indexStack_[0], lost[0])
  BY <1>1, NumbersInit, Elements DEF NumbersOf
<1>4. data_ \in Seq(image(data_))
  BY <1>2
<1>5. QED  BY <1>2, <1>3, <1>4, MacroMesh DEF IndexInv

LEMMA StoredMeans ==
  \A e : Stored(e) <=> numbers[0][e] < Len(data_) /\ data_[numbers[0][e] + 1] = e
BY DEF Stored

(* Nothing but the numbers, the mesh and the container is looked at. *)
LEMMA IndexUnchanged ==
  ASSUME IndexInv, UNCHANGED <<elements, numbers, indexStack_, lost, data_>>
  PROVE  IndexInv' /\ Persist
BY DEF IndexInv, Persist, Stored

(* What a step does that bisects the patch of the elements L. *)
Bisects(patch, L) ==
  /\ IsPatch(patch, L) /\ L \subseteq elements /\ L \subseteq leaves
  /\ childrenOf(L) \cap elements = {}
  /\ elements' = elements \cup childrenOf(L)
  /\ mark' = [l \in leavesOf(elements') |->
                IF l \in leaves THEN mark[l] ELSE Max({0, mark[fatherIn(patch, l)] - 1})]
  /\ RefineNumbering(patch)
  /\ interpolateLevels(patch)

LEMMA RefinePatchBisects ==
  ASSUME Mesh(elements), RefinePatch
  PROVE  \E patch, L : Bisects(patch, L)
<1> DEFINE step(patch) ==
             /\ elements' = elements \cup Children(patch)
             /\ mark' = [l \in leavesOf(elements') |->
                           IF l \in leaves THEN mark[l] ELSE Max({0, mark[fatherIn(patch, l)] - 1})]
             /\ RefineNumbering(patch)
             /\ interpolateLevels(patch)
<1>1. PICK e \in due : step(patchFrom(e, patchOf(e)))
  BY DEF RefinePatch
<1>2. e \in leaves /\ e \in patchOf(e) /\ patchOf(e) \subseteq leaves
  <2>1. 1 \in 1..3 /\ 2 \in 1..3
    OBVIOUS
  <2>2. e \in leaves
    BY DueLeaves DEF Mesh
  <2>3. QED  BY <2>1, <2>2 DEF patchOf, refinementEdge
<1> HIDE DEF step
<1>3. PICK patch : patch = patchFrom(e, patchOf(e))
  OBVIOUS
<1>4. PICK L : L \subseteq patchOf(e) /\ IsPatch(patch, L)
  BY <1>2, <1>3, PatchFrom
<1>5. step(patch)
  BY <1>1, <1>3
<1>6. L \subseteq leavesOf(elements) /\ L \subseteq elements /\ L \subseteq leaves
  BY <1>2, <1>4 DEF leaves, leavesOf
<1>7. childrenOf(L) \cap elements = {}
  BY <1>6, NoChildYet DEF childrenOf
<1>8. Children(patch) = childrenOf(L)
  BY <1>4, PatchMembers
<1>9. Bisects(patch, L)
  BY <1>4, <1>5, <1>6, <1>7, <1>8 DEF Bisects, step
<1>10. QED  BY <1>9

LEMMA RefinePatchKeeps ==
  ASSUME IndexInv, RefinePatch
  PROVE  IndexInv' /\ Persist
<1>1. lost' = lost /\ data_' = data_
  BY DEF RefinePatch
<1>2. Mesh(elements) /\ Numbers(elements, numbers[0], indexStack_[0], lost[0]) /\ data_ \in Seq(image(data_))
  BY DEF IndexInv
<1>3. PICK patch, L : Bisects(patch, L)
  BY <1>2, RefinePatchBisects
<1> DEFINE C == childrenOf(L)
           q == forEachInteriorSubChild(0, patch)
<1>4. /\ IsPatch(patch, L) /\ L \subseteq elements /\ L \subseteq leavesOf(elements)
      /\ C \cap elements = {} /\ elements' = elements \cup C
  BY <1>3 DEF Bisects, leaves
<1>5. Lists(q, C)
  BY <1>2, <1>4, NewElementsListed
<1>6. numbers'[0] = numbered(numbers[0], indexStack_[0], q) /\ indexStack_'[0] = taken(indexStack_[0], Len(q))
  BY <1>3 DEF Bisects, RefineNumbering, codims
<1>7. Mesh(elements')
  BY <1>2, <1>4, MeshRefined
<1> HIDE DEF C, q
<1>8. Numbers(elements \cup C, numbered(numbers[0], indexStack_[0], q), taken(indexStack_[0], Len(q)), lost[0])
  BY <1>2, <1>4, <1>5, NumbersRefined
<1>9. Numbers(elements', numbers'[0], indexStack_'[0], lost'[0])
  BY <1>1, <1>4, <1>6, <1>8
<1>10. IndexInv'
  BY <1>1, <1>2, <1>7, <1>9 DEF IndexInv
<1>11. \A x \in elements : numbers'[0][x] = numbers[0][x]
  <2>1. C \cap DOMAIN numbers[0] = {} /\ DOMAIN numbers[0] = elements
    BY <1>2, <1>4 DEF Numbers
  <2>2. Extends(numbered(numbers[0], indexStack_[0], q), numbers[0], indexStack_[0], C, q)
    BY <1>5, <2>1, NumberedNew
  <2>3. QED  BY <1>6, <2>1, <2>2 DEF Extends
<1>12. Persist
  BY <1>1, <1>11 DEF Persist, Stored
<1>13. QED  BY <1>10, <1>12

(* What a step does that undoes the bisection of the elements L. *)
Unites(patch, L) ==
  /\ IsPatch(patch, L) /\ L \subseteq elements
  /\ \A c \in childrenOf(L) : c \in leaves /\ mark[c] < 0
  /\ elements' = elements \ childrenOf(L)
  /\ mark' = [l \in leavesOf(elements') |->
                IF l \in leaves THEN mark[l] ELSE Max({mark[k] : k \in children(l)}) + 1]
  /\ CoarsenNumbering(patch)
  /\ level_' = Restricted(level_, elements')

LEMMA CoarsenPatchUnites ==
  ASSUME CoarsenPatch
  PROVE  \E patch, L : Unites(patch, L)
<1> DEFINE step(patch) ==
             /\ elements' = elements \ Children(patch)
             /\ mark' = [l \in leavesOf(elements') |->
                           IF l \in leaves THEN mark[l] ELSE Max({mark[k] : k \in children(l)}) + 1]
             /\ CoarsenNumbering(patch)
             /\ level_' = Restricted(level_, elements')
<1>1. PICK e \in vanishing : step(patchFrom(e, fathersWith(e)))
  BY DEF CoarsenPatch
<1>2. /\ e \in fathersWith(e) /\ fathersWith(e) \subseteq elements
      /\ \A f \in fathersWith(e) : \A c \in children(f) : c \in leaves /\ mark[c] < 0
  BY DEF vanishing, fathersWith
<1> HIDE DEF step
<1>3. PICK patch : patch = patchFrom(e, fathersWith(e))
  OBVIOUS
<1>4. PICK L : L \subseteq fathersWith(e) /\ IsPatch(patch, L)
  BY <1>2, <1>3, PatchFrom
<1>5. step(patch)
  BY <1>1, <1>3
<1>6. L \subseteq elements /\ \A c \in childrenOf(L) : c \in leaves /\ mark[c] < 0
  BY <1>2, <1>4 DEF childrenOf
<1>7. Children(patch) = childrenOf(L)
  BY <1>4, PatchMembers
<1>8. Unites(patch, L)
  BY <1>4, <1>5, <1>6, <1>7 DEF Unites, step
<1>9. QED  BY <1>8

LEMMA CoarsenPatchKeeps ==
  ASSUME IndexInv, CoarsenPatch
  PROVE  IndexInv' /\ Persist
<1>1. lost' = lost /\ data_' = data_
  BY DEF CoarsenPatch
<1>2. Mesh(elements) /\ Numbers(elements, numbers[0], indexStack_[0], lost[0]) /\ data_ \in Seq(image(data_))
  BY DEF IndexInv
<1>3. PICK patch, L : Unites(patch, L)
  BY CoarsenPatchUnites
<1> DEFINE C == childrenOf(L)
           q == forEachInteriorSubChild(0, patch)
<1>4. /\ IsPatch(patch, L) /\ L \subseteq elements
      /\ C \subseteq leavesOf(elements) /\ C \subseteq elements /\ elements' = elements \ C
  BY <1>3 DEF Unites, leaves, leavesOf
<1>5. Lists(q, C)
  BY <1>2, <1>4, NewElementsListed
<1>6. /\ indexStack_'[0] = given(indexStack_[0], [k \in DOMAIN q |-> numbers[0][q[k]]])
      /\ numbers'[0] = Restricted(numbers[0], elements')
  BY <1>3, Elements DEF Unites, CoarsenNumbering, codims
<1>7. Mesh(elements \ C)
  BY <1>2, <1>4, MeshCoarsened
<1> HIDE DEF C, q
<1>8. Numbers(elements \ C, Restricted(numbers[0], elements \ C),
               given(indexStack_[0], [k \in DOMAIN q |-> numbers[0][q[k]]]), lost[0])
  BY <1>2, <1>4, <1>5, NumbersCoarsened
<1>9. Numbers(elements', numbers'[0], indexStack_'[0], lost'[0])
  BY <1>1, <1>4, <1>6, <1>8
<1>10. IndexInv'
  BY <1>1, <1>2, <1>4, <1>7, <1>9 DEF IndexInv
<1>11. \A x \in elements' : numbers'[0][x] = numbers[0][x]
  BY <1>6 DEF Restricted
<1>12. Persist
  BY <1>1, <1>11 DEF Persist, Stored
<1>13. QED  BY <1>10, <1>12

(* The container gets n entries, enough for the elements. *)
LEMMA ResizedKeeps ==
  ASSUME IndexInv, NEW n \in Nat, \A e \in elements : numbers[0][e] \in 0..n-1,
         data_' = [k \in 1..n |-> IF k \in DOMAIN data_ THEN data_[k] ELSE null],
         elements' = elements, numbers' = numbers
  PROVE  (data_ \in Seq(image(data_)))' /\ Persist
<1>1. data_' = [k \in 1..n |-> data_'[k]]
  OBVIOUS
<1>2. data_' \in Seq(image(data_')) /\ Len(data_') = n
  BY <1>1, Entries
<1>3. Len(data_) \in Nat /\ DOMAIN data_ = 1..Len(data_)
  BY DEF IndexInv
<1>4. Persist
  <2>1. SUFFICES ASSUME NEW e \in elements, Stored(e) PROVE Stored(e)'
    BY DEF Persist
  <2>2. PICK k \in 0..n-1 : k = numbers[0][e]
    OBVIOUS
  <2>3. k < Len(data_) /\ data_[k+1] = e
    BY <2>1, <2>2 DEF Stored
  <2>4. k + 1 \in DOMAIN data_ /\ k + 1 \in 1..n /\ k < n
    BY <1>3, <2>3
  <2>5. data_'[k+1] = e /\ k < Len(data_')
    BY <1>2, <2>3, <2>4
  <2>6. QED  BY <2>2, <2>5 DEF Stored
<1>5. QED  BY <1>2, <1>4

LEMMA ResizeKeeps ==
  ASSUME IndexInv, Resize
  PROVE  IndexInv' /\ Persist
<1> DEFINE n == size(0)
<1>1. Numbers(elements, numbers[0], indexStack_[0], lost[0])
  BY DEF IndexInv
<1>2. n \in Nat /\ \A e \in elements : numbers[0][e] \in 0..n-1
  BY <1>1, NumbersBelow DEF size
<1>3. /\ data_' = [k \in 1..n |-> IF k \in DOMAIN data_ THEN data_[k] ELSE null]
      /\ UNCHANGED <<elements, numbers, indexStack_, lost>>
  BY DEF Resize, meshVars, indexVars
<1> HIDE DEF n
<1>4. (data_ \in Seq(image(data_)))' /\ Persist
  BY <1>2, <1>3, ResizedKeeps
<1>5. QED  BY <1>3, <1>4 DEF IndexInv

LEMMA StoreKeeps ==
  ASSUME IndexInv, Store
  PROVE  IndexInv' /\ Persist
<1> DEFINE n == Len(data_)
<1>1. /\ data_' = [k \in DOMAIN data_ |->
                     IF k - 1 \in InUse(0) THEN CHOOSE e \in elements : numbers[0][e] = k - 1 ELSE data_[k]]
      /\ UNCHANGED <<elements, numbers, indexStack_, lost>> /\ n >= size(0)
  BY DEF Store, meshVars, indexVars
<1>2. n \in Nat /\ DOMAIN data_ = 1..n
  BY DEF IndexInv
<1>3. data_' = [k \in 1..n |-> data_'[k]]
  BY <1>1, <1>2
<1>4. data_' \in Seq(image(data_')) /\ Len(data_') = n
  <2> HIDE DEF n
  <2>1. QED  BY <1>2, <1>3, Entries
<1>5. Numbers(elements, numbers[0], indexStack_[0], lost[0])
  BY DEF IndexInv
<1>6. Persist
  <2>1. SUFFICES ASSUME NEW e \in elements, Stored(e) PROVE Stored(e)'
    BY DEF Persist
  <2>2. size(0) \in Nat /\ numbers[0][e] \in 0..size(0)-1 /\ numbers[0][e] \in InUse(0)
    BY <1>5, NumbersBelow DEF size, InUse, image
  <2>3. PICK k \in Nat : k = numbers[0][e] /\ k \in InUse(0) /\ k < n
    BY <1>1, <1>2, <2>2
  <2>4. k + 1 \in 1..n /\ (k + 1) - 1 = k
    BY <1>2, <2>3
  <2>5. data_'[k+1] = CHOOSE x \in elements : numbers[0][x] = k
    BY <1>1, <1>2, <2>3, <2>4
  <2>6. \A x \in elements : numbers[0][x] = k => x = e
    BY <1>5, <2>3 DEF Numbers
  <2>7. data_'[k+1] = e
    BY <2>3, <2>5, <2>6
  <2> HIDE DEF n
  <2>8. QED  BY <1>1, <1>4, <2>3, <2>7 DEF Stored
<1>7. Mesh(elements)' /\ Numbers(elements', numbers'[0], indexStack_'[0], lost'[0])
  BY <1>1, <1>5 DEF IndexInv
<1>8. IndexInv'
  BY <1>4, <1>7 DEF IndexInv
<1>9. QED  BY <1>6, <1>8

LEMMA RestartKeeps ==
  ASSUME IndexInv, Restart
  PROVE  IndexInv' /\ Persist
<1> DEFINE f == numbers[0]
           m == Max(image(f))
<1>1. Numbers(elements, f, indexStack_[0], lost[0]) /\ elements # {}
  BY MacroMesh DEF IndexInv, Mesh
<1>2. InUse(0) = image(f)
  BY DEF InUse, image
<1>3. /\ indexStack_'[0] = restored(m) /\ lost'[0] = (0..m) \ image(f)
      /\ data_' = [k \in 1..indexStack_'[0].maxIndex_ |-> IF k \in DOMAIN data_ THEN data_[k] ELSE null]
      /\ elements' = elements /\ numbers' = numbers
  BY <1>2 DEF Restart, codims, meshVars
<1>4. /\ Numbers(elements, f, restored(m), (0..m) \ image(f))
      /\ m \in Nat /\ image(f) \subseteq 0..m /\ restored(m).maxIndex_ = m + 1
  BY <1>1, NumbersRestored
<1>5. \A e \in elements : f[e] \in image(f)
  BY <1>1, NumbersBelow
<1> HIDE DEF m, f
<1>6. PICK n \in Nat : n = m + 1
  BY <1>4
<1>7. \A e \in elements : numbers[0][e] \in 0..n-1
  BY <1>4, <1>5, <1>6 DEF f
<1>8. data_' = [k \in 1..n |-> IF k \in DOMAIN data_ THEN data_[k] ELSE null]
  BY <1>3, <1>4, <1>6
<1>9. (data_ \in Seq(image(data_)))' /\ Persist
  BY <1>3, <1>7, <1>8, ResizedKeeps
<1>10. Numbers(elements', numbers'[0], indexStack_'[0], lost'[0])
  BY <1>3, <1>4 DEF f
<1>11. Mesh(elements)'
  BY <1>3 DEF IndexInv
<1>12. IndexInv'
  BY <1>9, <1>10, <1>11 DEF IndexInv
<1>13. Persist
  BY <1>9
<1>14. QED  BY <1>12, <1>13

LEMMA IndexNext ==
  IndexInv /\ [Next]_vars => IndexInv' /\ Persist
<1> SUFFICES ASSUME IndexInv, [Next]_vars PROVE IndexInv' /\ Persist
  OBVIOUS
<1> USE DEF meshVars, indexVars, cacheVars, callVars
<1> DEFINE Same == UNCHANGED <<elements, numbers, indexStack_, lost, data_>>
<1>1. CASE Mark  BY <1>1, IndexUnchanged DEF Mark
<1>2. CASE PreAdapt  BY <1>2, IndexUnchanged DEF PreAdapt
<1>3. CASE Adapt  BY <1>3, IndexUnchanged DEF Adapt
<1>4. CASE PostAdapt  BY <1>4, IndexUnchanged DEF PostAdapt
<1>5. CASE RefinePatch  BY <1>5, RefinePatchKeeps
<1>6. CASE Refined  BY <1>6, IndexUnchanged DEF Refined
<1>7. CASE CoarsenPatch  BY <1>7, CoarsenPatchKeeps
<1>8. CASE Coarsened  BY <1>8, IndexUnchanged DEF Coarsened
<1>9. CASE Finish  BY <1>9, IndexUnchanged DEF Finish
<1>10. CASE GlobalRefine  BY <1>10, IndexUnchanged DEF GlobalRefine
<1>11. CASE GlobalRefineStep  BY <1>11, IndexUnchanged DEF GlobalRefineStep
<1>12. CASE LeafIndexSet  BY <1>12, IndexUnchanged DEF LeafIndexSet
<1>13. CASE LeafBegin  BY <1>13, IndexUnchanged DEF LeafBegin
<1>14. CASE Resize  BY <1>14, ResizeKeeps
<1>15. CASE Store  BY <1>15, StoreKeeps
<1>16. CASE Restart  BY <1>16, RestartKeeps
<1>17. CASE UNCHANGED vars  BY <1>17, IndexUnchanged DEF vars
<1>18. QED
  BY <1>1, <1>2, <1>3, <1>4, <1>5, <1>6, <1>7, <1>8, <1>9, <1>10, <1>11, <1>12, <1>13,
     <1>14, <1>15, <1>16, <1>17 DEF Next

LEMMA IndexAlways ==
  Spec => []IndexInv
<1>1. Init => IndexInv  BY IndexInit
<1>2. IndexInv /\ [Next]_vars => IndexInv'  BY IndexNext
<1>3. QED  BY <1>1, <1>2, PTL DEF Spec

(***************************************************************************)
(* An element that stays in the hierarchy keeps its entry of the           *)
(* container, through adaptation, resize(), writing of other entries, and  *)
(* backup and restore: its number never changes (refinement.hh callbacks   *)
(* of albertagrid/indexsets.hh touch new and vanishing elements only), no  *)
(* other element gets it, and the entry stays where it is                  *)
(* (persistentcontainerinterface.hh:16-44).                                *)
(***************************************************************************)
THEOREM DataStays ==
  Spec => DataPersists
<1>1. IndexInv /\ [Next]_vars => [Persist]_vars
  BY IndexNext
<1>2. Spec => [][Persist]_vars
  BY <1>1, IndexAlways, PTL DEF Spec
<1>3. QED  BY <1>2 DEF DataPersists, Persist
-----------------------------------------------------------------------------
(* The levels *)

levelsOf(E) == {e.level : e \in E}

(* The deepest element is a leaf. *)
LEMMA DeepestLeaf ==
  ASSUME NEW E, Mesh(E)
  PROVE  Max(levelsOf(leavesOf(E))) = Max(levelsOf(E))
<1>1. levelsOf(E) \subseteq Nat /\ levelsOf(E) # {}
  BY MacroMesh DEF levelsOf, Mesh
<1>2. IsFiniteSet(levelsOf(E))
  <2> DEFINE f == [e \in E |-> e.level]
  <2>1. f \in Surjection(E, levelsOf(E))
    BY DEF Surjection, levelsOf
  <2>2. QED  BY <2>1, FS_Surjection DEF Mesh
<1>3. PICK m : m = Max(levelsOf(E))
  OBVIOUS
<1>4. m \in levelsOf(E) /\ \A x \in levelsOf(E) : m >= x
  <2>1. levelsOf(E) \subseteq Int
    BY <1>1
  <2>2. QED  BY <2>1, <1>1, <1>2, <1>3, Largest
<1>5. PICK e \in E : e.level = m
  BY <1>4 DEF levelsOf
<1>6. e \in leavesOf(E)
  <2>1. SUFFICES ASSUME child(e, 0) \in E PROVE FALSE
    BY DEF leavesOf
  <2>2. PICK c \in E : c.level = m + 1
    BY <2>1, <1>5, ChildFields
  <2>3. m + 1 \in levelsOf(E)
    BY <2>2 DEF levelsOf
  <2>4. m >= m + 1 /\ m \in Nat
    BY <2>3, <1>1, <1>4
  <2>5. QED  BY <2>4
<1>7. m \in levelsOf(leavesOf(E)) /\ levelsOf(leavesOf(E)) \subseteq levelsOf(E)
  BY <1>5, <1>6 DEF levelsOf, leavesOf
<1>8. levelsOf(leavesOf(E)) \subseteq Int /\ \A x \in levelsOf(leavesOf(E)) : m >= x
  BY <1>1, <1>4, <1>7
<1>9. QED  BY <1>3, <1>7, <1>8, LargestIs

(* maxlevel_ is known unless the mesh has changed in the present adapt(). *)
LevelInv ==
  /\ level_ \in [elements -> [level : Nat, isNew : BOOLEAN]]
  /\ \A e \in elements : level_[e].level = e.level
  /\ pc = "idle" \/ changed = {} => maxlevel_ = Max(levelsOf(elements))
  /\ pc = "idle" /\ adaptationState_.phase_ # "PostAdaptationPhase" =>
       \A e \in elements : level_[e].isNew = FALSE

LEMMA MaxLevel_Of ==
  ASSUME NEW lev, NEW E, DOMAIN lev = E, \A e \in E : lev[e].level = e.level
  PROVE  maxLevelOf(lev) = Max(levelsOf(E))
<1>1. {lev[e].level : e \in DOMAIN lev} = levelsOf(E)
  BY DEF levelsOf
<1>2. QED  BY <1>1 DEF maxLevelOf

LEMMA LevelInit ==
  Init => LevelInv
<1> SUFFICES ASSUME Init PROVE LevelInv
  OBVIOUS
<1>1. elements = macroElements /\ level_ = [e \in elements |-> [level |-> 0, isNew |-> FALSE]] /\ maxlevel_ = 0
  BY DEF Init
<1>2. levelsOf(elements) = {0}
  <2>1. levelsOf(elements) \subseteq {0}
    BY <1>1, MacroFields DEF levelsOf
  <2>2. PICK e \in elements : TRUE
    BY <1>1, MacroMesh
  <2>3. 0 \in levelsOf(elements)
    BY <2>2, <1>1, MacroFields DEF levelsOf
  <2>4. QED  BY <2>1, <2>3
<1>3. maxlevel_ = Max(levelsOf(elements))
  <2>1. Max({0}) = 0
    BY LargestIs
  <2>2. QED  BY <2>1, <1>1, <1>2
<1>4. level_ \in [elements -> [level : Nat, isNew : BOOLEAN]]
  BY <1>1
<1>5. \A e \in elements : level_[e].level = e.level /\ level_[e].isNew = FALSE
  BY <1>1, MacroFields
<1>6. QED  BY <1>3, <1>4, <1>5 DEF LevelInv

LEMMA LevelRefine ==
  ASSUME IndexInv, LevelInv, RefinePatch
  PROVE  LevelInv'
<1>1. PICK patch, L : Bisects(patch, L)
  BY RefinePatchBisects DEF IndexInv
<1>2. /\ IsPatch(patch, L) /\ L \subseteq elements /\ childrenOf(L) \cap elements = {}
      /\ elements' = elements \cup childrenOf(L) /\ interpolateLevels(patch)
  BY <1>1 DEF Bisects
<1>3. Children(patch) = childrenOf(L) /\ {patch[i] : i \in DOMAIN patch} = L
  BY <1>2, PatchMembers
<1>4. DOMAIN level_ = elements /\ \A e \in elements : level_[e] \in [level : Nat, isNew : BOOLEAN] /\ level_[e].level = e.level
  BY DEF LevelInv
<1>5. level_' = [e \in elements' |->
                   IF e \in childrenOf(L) THEN [level |-> level_[fatherIn(patch, e)].level + 1, isNew |-> TRUE]
                   ELSE level_[e]]
  BY <1>2, <1>3, <1>4 DEF interpolateLevels
<1>6. \A e \in childrenOf(L) : level_[fatherIn(patch, e)].level + 1 = e.level /\ e.level \in Nat
  <2>1. SUFFICES ASSUME NEW e \in childrenOf(L)
                 PROVE  level_[fatherIn(patch, e)].level + 1 = e.level /\ e.level \in Nat
    OBVIOUS
  <2>2. PICK f : f = fatherIn(patch, e)
    OBVIOUS
  <2>3. \E p \in L : e \in children(p)
    BY DEF childrenOf
  <2>4. f = CHOOSE p \in L : e \in children(p)
    BY <2>2, <1>3 DEF fatherIn
  <2>5. f \in L /\ e \in children(f)
    BY <2>3, <2>4
  <2>6. e.level = f.level + 1 /\ f \in elements
    BY <2>5, <1>2, ChildFields DEF children
  <2>7. level_[f].level = f.level /\ f.level \in Nat
    BY <2>6, <1>4 DEF IndexInv, Mesh
  <2>8. QED  BY <2>2, <2>6, <2>7
<1>7. \A e \in elements' : level_'[e] \in [level : Nat, isNew : BOOLEAN] /\ level_'[e].level = e.level
  <2>1. \A e \in childrenOf(L) : level_'[e] = [level |-> e.level, isNew |-> TRUE]
    BY <1>2, <1>5, <1>6
  <2>2. \A e \in elements : level_'[e] = level_[e]
    BY <1>2, <1>5
  <2>3. \A e \in childrenOf(L) : level_'[e] \in [level : Nat, isNew : BOOLEAN] /\ level_'[e].level = e.level
    <3>1. SUFFICES ASSUME NEW e \in childrenOf(L)
                   PROVE  level_'[e] \in [level : Nat, isNew : BOOLEAN] /\ level_'[e].level = e.level
      OBVIOUS
    <3>2. PICK n \in Nat : n = e.level
      BY <1>6
    <3>3. PICK r : r = level_'[e]
      OBVIOUS
    <3>4. r = [level |-> n, isNew |-> TRUE]
      BY <2>1, <3>2, <3>3
    <3>5. r \in [level : Nat, isNew : BOOLEAN] /\ r.level = n
      BY <3>4
    <3>6. QED  BY <3>2, <3>3, <3>5
  <2>4. \A e \in elements : level_'[e] \in [level : Nat, isNew : BOOLEAN] /\ level_'[e].level = e.level
    BY <2>2, <1>4
  <2>5. QED  BY <2>3, <2>4, <1>2
<1>8. DOMAIN level_' = elements' /\ level_' = [e \in elements' |-> level_'[e]]
  BY <1>5
<1>9. pc' = "refine" /\ changed' # {}
  BY DEF RefinePatch
<1>10. level_' \in [elements' -> [level : Nat, isNew : BOOLEAN]]
  BY <1>7, <1>8
<1>11. QED  BY <1>7, <1>9, <1>10 DEF LevelInv

LEMMA LevelCoarsen ==
  ASSUME LevelInv, CoarsenPatch
  PROVE  LevelInv'
<1>1. PICK patch, L : Unites(patch, L)
  BY CoarsenPatchUnites
<1>2. elements' \subseteq elements /\ level_' = [e \in elements' |-> level_[e]]
  BY <1>1 DEF Unites, Restricted
<1>3. pc' = "coarsen" /\ changed' # {}
  BY DEF CoarsenPatch
<1>4. level_' \in [elements' -> [level : Nat, isNew : BOOLEAN]]
  BY <1>2 DEF LevelInv
<1>5. \A e \in elements' : level_'[e].level = e.level
  BY <1>2 DEF LevelInv
<1>6. QED  BY <1>3, <1>4, <1>5 DEF LevelInv

LEMMA LevelUnchanged ==
  ASSUME LevelInv, UNCHANGED <<elements, level_, maxlevel_>>,
         pc' = "idle" \/ changed' = {} => pc = "idle" \/ changed = {},
         pc' = "idle" /\ adaptationState_'.phase_ # "PostAdaptationPhase" =>
           pc = "idle" /\ adaptationState_.phase_ # "PostAdaptationPhase"
  PROVE  LevelInv'
<1>1. level_' \in [elements' -> [level : Nat, isNew : BOOLEAN]] /\ \A e \in elements' : level_'[e].level = e.level
  BY DEF LevelInv
<1>2. pc' = "idle" \/ changed' = {} => maxlevel_' = Max(levelsOf(elements'))
  BY DEF LevelInv
<1>3. pc' = "idle" /\ adaptationState_'.phase_ # "PostAdaptationPhase" => \A e \in elements' : level_'[e].isNew = FALSE
  BY DEF LevelInv
<1>4. QED  BY <1>1, <1>2, <1>3 DEF LevelInv

(* adaptationState_ is an object with these members. *)
IsState(a) ==
  /\ a = [phase_ |-> a.phase_, coarsenMarked_ |-> a.coarsenMarked_, refineMarked_ |-> a.refineMarked_]
  /\ a.coarsenMarked_ \in Int

LEMMA PhaseSet ==
  ASSUME NEW a, IsState(a), NEW p
  PROVE  LET b == [a EXCEPT !.phase_ = p]
         IN  /\ IsState(b) /\ b.phase_ = p /\ b.coarsenMarked_ = a.coarsenMarked_
             /\ b.refineMarked_ = a.refineMarked_
<1>1. a = [phase_ |-> a.phase_, coarsenMarked_ |-> a.coarsenMarked_, refineMarked_ |-> a.refineMarked_]
      /\ a.coarsenMarked_ \in Int
  BY DEF IsState
<1>2. PICK b : b = [a EXCEPT !.phase_ = p]
  OBVIOUS
<1>3. b = [phase_ |-> p, coarsenMarked_ |-> a.coarsenMarked_, refineMarked_ |-> a.refineMarked_]
  BY <1>1, <1>2
<1>4. b.phase_ = p /\ b.coarsenMarked_ = a.coarsenMarked_ /\ b.refineMarked_ = a.refineMarked_
  BY <1>3
<1>5. IsState(b)
  BY <1>1, <1>3, <1>4 DEF IsState
<1>6. QED  BY <1>2, <1>4, <1>5

one(n) == IF n < 0 THEN 1 ELSE 0

LEMMA MarkState ==
  ASSUME NEW a, IsState(a), NEW c \in Int, NEW d \in Int
  PROVE  LET b == marked(unmarked(a, c), d)
         IN  /\ IsState(b) /\ b.phase_ = a.phase_
             /\ b.coarsenMarked_ = a.coarsenMarked_ - one(c) + one(d)
             /\ b.refineMarked_ = a.refineMarked_ - Weight(c) + Weight(d)
<1>1. a = [phase_ |-> a.phase_, coarsenMarked_ |-> a.coarsenMarked_, refineMarked_ |-> a.refineMarked_]
      /\ a.coarsenMarked_ \in Int
  BY DEF IsState
<1>2. PICK u, b : u = unmarked(a, c) /\ b = marked(u, d)
  OBVIOUS
<1>3. u = [phase_ |-> a.phase_, coarsenMarked_ |-> IF c < 0 THEN a.coarsenMarked_ - 1 ELSE a.coarsenMarked_,
           refineMarked_ |-> a.refineMarked_ - Weight(c)]
  BY <1>1, <1>2 DEF unmarked
<1>4. /\ u.phase_ = a.phase_ /\ u.refineMarked_ = a.refineMarked_ - Weight(c)
      /\ u.coarsenMarked_ = IF c < 0 THEN a.coarsenMarked_ - 1 ELSE a.coarsenMarked_
      /\ u = [phase_ |-> u.phase_, coarsenMarked_ |-> u.coarsenMarked_, refineMarked_ |-> u.refineMarked_]
  BY <1>3
<1>5. b = [phase_ |-> u.phase_, coarsenMarked_ |-> IF d < 0 THEN u.coarsenMarked_ + 1 ELSE u.coarsenMarked_,
           refineMarked_ |-> u.refineMarked_ + Weight(d)]
  BY <1>2, <1>4 DEF marked
<1>6. /\ b.phase_ = a.phase_ /\ b.refineMarked_ = u.refineMarked_ + Weight(d)
      /\ b.coarsenMarked_ = IF d < 0 THEN u.coarsenMarked_ + 1 ELSE u.coarsenMarked_
      /\ b = [phase_ |-> b.phase_, coarsenMarked_ |-> b.coarsenMarked_, refineMarked_ |-> b.refineMarked_]
  BY <1>4, <1>5
<1>7. b.coarsenMarked_ = a.coarsenMarked_ - one(c) + one(d) /\ b.coarsenMarked_ \in Int
  <2>1. PICK k \in Int : k = a.coarsenMarked_
    BY <1>1
  <2>2. u.coarsenMarked_ = k - one(c) /\ k - one(c) \in Int
    BY <2>1, <1>4 DEF one
  <2>3. PICK m \in Int : m = k - one(c)
    BY <2>2
  <2>4. b.coarsenMarked_ = m + one(d) /\ m + one(d) \in Int
    BY <2>2, <2>3, <1>6 DEF one
  <2>5. QED  BY <2>1, <2>3, <2>4
<1>8. IsState(b)
  BY <1>6, <1>7 DEF IsState
<1>9. b.refineMarked_ = a.refineMarked_ - Weight(c) + Weight(d)
  BY <1>4, <1>6
<1>10. QED  BY <1>2, <1>6, <1>7, <1>8, <1>9

LEMMA NewState ==
  /\ IsState(NoMarks) /\ NoMarks.phase_ = "ComputationPhase"
  /\ NoMarks.coarsenMarked_ = 0 /\ NoMarks.refineMarked_ = 0
BY DEF IsState, NoMarks

-----------------------------------------------------------------------------
(* The marks *)

negative(m, L) == {l \in L : m[l] < 0}

(***************************************************************************)
(* Inside adapt() a mark for coarsening is only lost: as long as there is  *)
(* one the counter is positive, so that ALBERTA's coarsen() is called;     *)
(* when it is called no mark for refinement is left.                       *)
(***************************************************************************)
MarkInv ==
  /\ mark \in [leaves -> Int]
  /\ IsState(adaptationState_)
  /\ pc \in {"idle", "refine", "coarsen", "finish"}
  /\ pc = "idle" =>
       IF adaptationState_.phase_ = "PostAdaptationPhase"
       THEN \A l \in leaves : mark[l] = 0
       ELSE adaptationState_.coarsenMarked_ = Cardinality(negative(mark, leaves))
  /\ pc = "refine" /\ negative(mark, leaves) # {} => adaptationState_.coarsenMarked_ > 0
  /\ pc = "coarsen" => \A l \in leaves : mark[l] <= 0
  /\ pc = "finish" => \A l \in leaves : mark[l] = 0

LEMMA FiniteLeaves ==
  ASSUME Mesh(elements), NEW m
  PROVE  IsFiniteSet(leaves) /\ IsFiniteSet(negative(m, leaves))
<1>1. leaves \subseteq elements /\ negative(m, leaves) \subseteq elements
  BY DEF leaves, leavesOf, negative
<1>2. QED  BY <1>1, FS_Subset DEF Mesh

LEMMA NoneNegative ==
  ASSUME NEW m, NEW L, \A l \in L : m[l] = 0
  PROVE  negative(m, L) = {} /\ Cardinality(negative(m, L)) = 0
<1>1. negative(m, L) = {}
  BY DEF negative
<1>2. QED  BY <1>1, FS_EmptySet

LEMMA MarkInit ==
  Init => MarkInv
<1> SUFFICES ASSUME Init PROVE MarkInv
  OBVIOUS
<1>1. /\ mark = [e \in elements |-> 0] /\ adaptationState_ = NoMarks /\ pc = "idle" /\ elements = macroElements
  BY DEF Init
<1>2. leaves = elements
  BY <1>1, ChildFields, MacroFields DEF leaves, leavesOf
<1>3. mark \in [leaves -> Int] /\ \A l \in leaves : mark[l] = 0
  BY <1>1, <1>2
<1>4. Cardinality(negative(mark, leaves)) = 0
  BY <1>3, NoneNegative
<1>5. QED  BY <1>1, <1>3, <1>4, NewState DEF MarkInv

LEMMA MarkUnchanged ==
  ASSUME MarkInv, UNCHANGED <<elements, mark, adaptationState_, pc>>
  PROVE  MarkInv'
BY DEF MarkInv, leaves, negative

LEMMA MarkMark ==
  ASSUME Mesh(elements), MarkInv, Mark
  PROVE  MarkInv'
<1>1. PICK e \in leaves, r \in RefCounts :
        /\ adaptationState_' = marked(unmarked(adaptationState_, mark[e]), r)
        /\ mark' = [mark EXCEPT ![e] = r]
  BY DEF Mark
<1>2. elements' = elements /\ pc = "idle" /\ pc' = "idle" /\ adaptationState_.phase_ = "ComputationPhase"
  BY DEF Mark, inPhase
<1>3. leaves' = leaves
  BY <1>2 DEF leaves
<1>4. r \in Int /\ mark[e] \in Int /\ mark \in [leaves -> Int]
  BY boundsAssumption DEF MarkInv
<1>5. /\ IsState(adaptationState_') /\ adaptationState_'.phase_ = "ComputationPhase"
      /\ adaptationState_'.coarsenMarked_ = adaptationState_.coarsenMarked_ - one(mark[e]) + one(r)
  BY <1>1, <1>2, <1>4, MarkState DEF MarkInv
<1> DEFINE N == negative(mark, leaves)
           M == N \ {e}
           N2 == negative(mark', leaves)
<1>6. mark' \in [leaves -> Int] /\ mark'[e] = r /\ \A l \in leaves : l # e => mark'[l] = mark[l]
  BY <1>1, <1>4
<1>7. N2 = IF r < 0 THEN M \cup {e} ELSE M
  BY <1>6 DEF negative
<1>8. e \in N <=> mark[e] < 0
  BY DEF negative
<1>9. IsFiniteSet(N)
  BY FiniteLeaves
<1>10. adaptationState_.coarsenMarked_ = Cardinality(N)
  BY <1>2 DEF MarkInv
<1> HIDE DEF N, N2, M
<1>11. IsFiniteSet(M) /\ Cardinality(M) = IF e \in N THEN Cardinality(N) - 1 ELSE Cardinality(N)
  BY <1>9, FS_RemoveElement DEF M
<1>12. Cardinality(M \cup {e}) = Cardinality(M) + 1
  <2>1. e \notin M
    BY DEF M
  <2>2. QED  BY <2>1, <1>11, FS_AddElement
<1>13. Cardinality(N2) = Cardinality(M) + one(r)
  <2>1. Cardinality(M) \in Nat
    BY <1>11, FS_CardinalityType
  <2>2. QED  BY <2>1, <1>7, <1>12 DEF one
<1>14. Cardinality(M) = Cardinality(N) - one(mark[e])
  <2>1. Cardinality(N) \in Nat
    BY <1>9, FS_CardinalityType
  <2>2. QED  BY <2>1, <1>8, <1>11 DEF one
<1>15. adaptationState_'.coarsenMarked_ = Cardinality(N2)
  BY <1>5, <1>10, <1>13, <1>14
<1>16. QED  BY <1>2, <1>3, <1>5, <1>6, <1>15 DEF MarkInv, N2

LEMMA MarkAdapt ==
  ASSUME Mesh(elements), MarkInv, Adapt
  PROVE  MarkInv'
<1>1. /\ UNCHANGED <<elements, mark, adaptationState_>> /\ pc = "idle" /\ pc' = "refine"
      /\ adaptationState_.phase_ = "PreAdaptationPhase"
  BY DEF Adapt, meshVars, inPhase
<1>2. adaptationState_.coarsenMarked_ = Cardinality(negative(mark, leaves))
  BY <1>1 DEF MarkInv
<1>3. negative(mark, leaves) # {} => adaptationState_.coarsenMarked_ > 0
  <2>1. IsFiniteSet(negative(mark, leaves))
    BY FiniteLeaves
  <2>2. Cardinality(negative(mark, leaves)) \in Nat
    BY <2>1, FS_CardinalityType
  <2>3. Cardinality(negative(mark, leaves)) = 0 => negative(mark, leaves) = {}
    BY <2>1, FS_EmptySet
  <2>4. QED  BY <1>2, <2>2, <2>3
<1>4. leaves' = leaves /\ negative(mark, leaves)' = negative(mark, leaves)
  BY <1>1 DEF leaves, negative
<1>5. QED  BY <1>1, <1>3, <1>4 DEF MarkInv

LEMMA LargerOf ==
  ASSUME NEW a \in Int, NEW b \in Int
  PROVE  Max({a, b}) = IF a >= b THEN a ELSE b
<1>1. {a, b} \subseteq Int
  OBVIOUS
<1>2. CASE a >= b
  <2>1. a \in {a, b} /\ \A x \in {a, b} : a >= x
    BY <1>2
  <2>2. QED  BY <1>1, <1>2, <2>1, LargestIs
<1>3. CASE ~(a >= b)
  <2>1. b \in {a, b} /\ \A x \in {a, b} : b >= x
    BY <1>3
  <2>2. QED  BY <1>1, <1>3, <2>1, LargestIs
<1>4. QED  BY <1>2, <1>3

LEMMA MarkRefine ==
  ASSUME Mesh(elements), MarkInv, RefinePatch
  PROVE  MarkInv'
<1>1. PICK patch, L : Bisects(patch, L)
  BY RefinePatchBisects
<1>2. /\ IsPatch(patch, L) /\ L \subseteq leaves /\ elements' = elements \cup childrenOf(L)
      /\ mark' = [l \in leavesOf(elements') |->
                    IF l \in leaves THEN mark[l] ELSE Max({0, mark[fatherIn(patch, l)] - 1})]
  BY <1>1 DEF Bisects
<1>3. {patch[i] : i \in DOMAIN patch} = L
  BY <1>2, PatchMembers
<1>4. pc = "refine" /\ pc' = "refine" /\ adaptationState_' = adaptationState_
  BY DEF RefinePatch
<1>5. mark \in [leaves -> Int] /\ IsState(adaptationState_)
      /\ (negative(mark, leaves) # {} => adaptationState_.coarsenMarked_ > 0)
  BY <1>4 DEF MarkInv
<1>6. leaves' = leavesOf(elements')
  BY DEF leaves
<1>7. \A l \in leaves' : l \in leaves => mark'[l] = mark[l]
  BY <1>2, <1>6
<1>8. \A l \in leaves' : l \notin leaves => mark'[l] \in Nat
  <2>1. SUFFICES ASSUME NEW l \in leaves', l \notin leaves PROVE mark'[l] \in Nat
    OBVIOUS
  <2>2. l \in childrenOf(L)
    BY <2>1, <1>2, <1>6 DEF leaves, leavesOf
  <2>3. PICK f : f = fatherIn(patch, l)
    OBVIOUS
  <2>4. \E p \in L : l \in children(p)
    BY <2>2 DEF childrenOf
  <2>5. f \in L
    BY <2>3, <2>4, <1>3 DEF fatherIn
  <2>6. PICK k \in Int : k = mark[f] - 1
    BY <2>5, <1>2, <1>5
  <2>7. mark'[l] = Max({0, k})
    BY <2>1, <2>3, <2>6, <1>2, <1>6
  <2>8. Max({0, k}) = IF 0 >= k THEN 0 ELSE k
    BY LargerOf
  <2>9. QED  BY <2>7, <2>8
<1>9. \A l \in leaves' : mark'[l] \in Int
  BY <1>5, <1>7, <1>8
<1>10. mark' \in [leaves' -> Int]
  BY <1>2, <1>6, <1>9
<1>11. negative(mark', leaves') # {} => adaptationState_.coarsenMarked_ > 0
  <2>1. SUFFICES ASSUME NEW l \in leaves', mark'[l] < 0 PROVE negative(mark, leaves) # {}
    BY <1>5 DEF negative
  <2>2. l \in leaves /\ mark[l] < 0
    BY <2>1, <1>7, <1>8
  <2>3. QED  BY <2>2 DEF negative
<1>12. QED  BY <1>4, <1>5, <1>10, <1>11 DEF MarkInv

LEMMA MarkRefined ==
  ASSUME Mesh(elements), MarkInv, Refined
  PROVE  MarkInv'
<1>1. /\ UNCHANGED <<elements, mark, adaptationState_>> /\ pc = "refine" /\ due = {}
      /\ pc' = IF coarsen(adaptationState_) THEN "coarsen" ELSE "finish"
  BY DEF Refined, meshVars
<1>2. \A l \in leaves : mark[l] \in Int /\ ~(mark[l] > 0)
  BY <1>1, DueLeaves DEF MarkInv, Mesh
<1>3. leaves' = leaves
  BY <1>1 DEF leaves
<1>4. \A l \in leaves : mark[l] <= 0
  BY <1>2
<1>5. ~coarsen(adaptationState_) => \A l \in leaves : mark[l] = 0
  <2>1. SUFFICES ASSUME ~coarsen(adaptationState_), NEW l \in leaves PROVE mark[l] = 0
    OBVIOUS
  <2>2. negative(mark, leaves) = {}
    BY <1>1, <2>1 DEF MarkInv, coarsen
  <2>3. ~(mark[l] < 0)
    BY <2>2 DEF negative
  <2>4. QED  BY <1>2, <2>3
<1>6. pc' \in {"coarsen", "finish"} /\ (pc' = "finish" => ~coarsen(adaptationState_))
  BY <1>1
<1>7. mark' \in [leaves' -> Int] /\ IsState(adaptationState_')
  BY <1>1, <1>3 DEF MarkInv
<1>8. QED  BY <1>1, <1>3, <1>4, <1>5, <1>6, <1>7 DEF MarkInv

LEMMA MarkCoarsen ==
  ASSUME Mesh(elements), MarkInv, CoarsenPatch
  PROVE  MarkInv'
<1>1. PICK patch, L : Unites(patch, L)
  BY CoarsenPatchUnites
<1>2. /\ \A c \in childrenOf(L) : c \in leaves /\ mark[c] < 0
      /\ elements' = elements \ childrenOf(L)
      /\ mark' = [l \in leavesOf(elements') |->
                    IF l \in leaves THEN mark[l] ELSE Max({mark[k] : k \in children(l)}) + 1]
  BY <1>1 DEF Unites
<1>3. pc = "coarsen" /\ pc' = "coarsen" /\ adaptationState_' = adaptationState_
  BY DEF CoarsenPatch
<1>4. mark \in [leaves -> Int] /\ IsState(adaptationState_) /\ \A l \in leaves : mark[l] <= 0
  BY <1>3 DEF MarkInv
<1>5. leaves' = leavesOf(elements')
  BY DEF leaves
<1>6. \A l \in leaves' : l \in leaves => mark'[l] = mark[l]
  BY <1>2, <1>5
<1>7. \A l \in leaves' : l \notin leaves => mark'[l] \in Int /\ mark'[l] <= 0
  <2>1. SUFFICES ASSUME NEW l \in leaves', l \notin leaves PROVE mark'[l] \in Int /\ mark'[l] <= 0
    OBVIOUS
  <2>2. l \in elements /\ child(l, 0) \in elements /\ child(l, 0) \in childrenOf(L)
    BY <2>1, <1>2, <1>5 DEF leaves, leavesOf
  <2>3. PICK p \in L, i \in {0, 1} : child(l, 0) = child(p, i)
    BY <2>2 DEF childrenOf, children
  <2>4. l = p
    <3>1. p \in elements /\ 0 \in {0, 1}
      BY <1>1 DEF Unites
    <3>2. QED  BY <3>1, <2>2, <2>3, SameChild
  <2>5. \A k \in children(l) : k \in leaves /\ mark[k] < 0
    BY <2>3, <2>4, <1>2 DEF childrenOf
  <2>6. PICK a, b \in Int : a = mark[child(l, 0)] /\ b = mark[child(l, 1)] /\ a < 0 /\ b < 0
    BY <2>5, <1>4 DEF children
  <2>7. {mark[k] : k \in children(l)} = {a, b}
    BY <2>6 DEF children
  <2>8. Max({a, b}) = IF a >= b THEN a ELSE b
    BY LargerOf
  <2>9. PICK m \in Int : m = Max({a, b}) /\ m < 0
    BY <2>6, <2>8
  <2>10. mark'[l] = m + 1
    BY <2>1, <2>7, <2>9, <1>2, <1>5
  <2>11. QED  BY <2>9, <2>10
<1>8. \A l \in leaves' : mark'[l] \in Int /\ mark'[l] <= 0
  BY <1>4, <1>6, <1>7
<1>9. mark' \in [leaves' -> Int]
  BY <1>2, <1>5, <1>8
<1>10. QED  BY <1>3, <1>4, <1>8, <1>9 DEF MarkInv

LEMMA MarkCoarsened ==
  ASSUME MarkInv, Coarsened
  PROVE  MarkInv'
<1>1. /\ UNCHANGED <<elements, adaptationState_>> /\ pc = "coarsen" /\ pc' = "finish"
      /\ mark' = [l \in leaves |-> Max({0, mark[l]})]
  BY DEF Coarsened
<1>2. leaves' = leaves
  BY <1>1 DEF leaves
<1>3. \A l \in leaves : mark'[l] = 0
  <2>1. SUFFICES ASSUME NEW l \in leaves PROVE mark'[l] = 0
    OBVIOUS
  <2>2. PICK k \in Int : k = mark[l] /\ k <= 0
    BY <1>1 DEF MarkInv
  <2>3. Max({0, k}) = IF 0 >= k THEN 0 ELSE k
    BY LargerOf
  <2>4. QED  BY <1>1, <2>2, <2>3
<1>4. mark' \in [leaves' -> Int]
  BY <1>1, <1>2, <1>3
<1>5. QED  BY <1>1, <1>2, <1>3, <1>4 DEF MarkInv

(* An action outside adapt() after which there are no marks. *)
LEMMA MarkCleared ==
  ASSUME mark' \in [leaves' -> Int], pc' = "idle", IsState(adaptationState_'),
         \A l \in leaves' : mark'[l] = 0,
         adaptationState_'.phase_ # "PostAdaptationPhase" => adaptationState_'.coarsenMarked_ = 0
  PROVE  MarkInv'
<1>1. Cardinality(negative(mark', leaves')) = 0
  BY NoneNegative
<1>2. QED  BY <1>1 DEF MarkInv

LEMMA MarkFinish ==
  ASSUME MarkInv, Finish
  PROVE  MarkInv'
<1>1. /\ UNCHANGED <<elements, mark>> /\ pc = "finish" /\ pc' = "idle"
      /\ adaptationState_' = [adaptationState_ EXCEPT !.phase_ = "PostAdaptationPhase"]
  BY DEF Finish, meshVars
<1>2. leaves' = leaves /\ mark' = mark
  BY <1>1 DEF leaves
<1>3. IsState(adaptationState_') /\ adaptationState_'.phase_ = "PostAdaptationPhase"
  BY <1>1, PhaseSet DEF MarkInv
<1>4. mark' \in [leaves' -> Int] /\ \A l \in leaves' : mark'[l] = 0
  BY <1>1, <1>2 DEF MarkInv
<1>5. QED  BY <1>1, <1>3, <1>4, MarkCleared

LEMMA MarkPreAdapt ==
  ASSUME MarkInv, PreAdapt
  PROVE  MarkInv'
<1>1. /\ UNCHANGED <<elements, mark, pc>> /\ pc = "idle" /\ adaptationState_.phase_ = "ComputationPhase"
      /\ adaptationState_' = [adaptationState_ EXCEPT !.phase_ = "PreAdaptationPhase"]
  BY DEF PreAdapt, meshVars, inPhase
<1>2. leaves' = leaves /\ mark' = mark /\ negative(mark, leaves)' = negative(mark, leaves)
  BY <1>1 DEF leaves, negative
<1>3. /\ IsState(adaptationState_') /\ adaptationState_'.phase_ = "PreAdaptationPhase"
      /\ adaptationState_'.coarsenMarked_ = adaptationState_.coarsenMarked_
  BY <1>1, PhaseSet DEF MarkInv
<1>4. QED  BY <1>1, <1>2, <1>3 DEF MarkInv

LEMMA MarkNew ==
  ASSUME MarkInv, UNCHANGED <<elements, mark, pc>>, pc = "idle", \A l \in leaves : mark[l] = 0,
         adaptationState_' = NoMarks
  PROVE  MarkInv'
<1>1. leaves' = leaves
  BY DEF leaves
<1>2. mark' \in [leaves' -> Int] /\ \A l \in leaves' : mark'[l] = 0
  BY <1>1 DEF MarkInv
<1>3. QED  BY <1>2, NewState, MarkCleared

LEMMA MarkGlobalRefineStep ==
  ASSUME Mesh(elements), MarkInv, GlobalRefineStep
  PROVE  MarkInv'
<1> DEFINE N == {l \in leaves : mark[l] < 0}
           refined == adaptationState_.refineMarked_ - weightOf(mark, leaves) + weightOf(mark', leaves)
           k == adaptationState_.coarsenMarked_ - Cardinality(N)
<1>1. /\ mark' = [l \in leaves |-> 1] /\ pc' = "refine" /\ elements' = elements
      /\ adaptationState_' = [phase_ |-> "PreAdaptationPhase", coarsenMarked_ |-> k, refineMarked_ |-> refined]
  BY DEF GlobalRefineStep
<1>2. k \in Int
  <2>1. IsFiniteSet(N)
    BY FiniteLeaves, FS_Subset
  <2>2. Cardinality(N) \in Nat
    BY <2>1, FS_CardinalityType
  <2> HIDE DEF N
  <2>3. QED  BY <2>2 DEF MarkInv, IsState
<1> HIDE DEF k, refined
<1>3. PICK a : a = adaptationState_'
  OBVIOUS
<1>4. a.phase_ = "PreAdaptationPhase" /\ a.coarsenMarked_ = k /\ a.refineMarked_ = refined
      /\ a = [phase_ |-> "PreAdaptationPhase", coarsenMarked_ |-> k, refineMarked_ |-> refined]
  BY <1>1, <1>3
<1>5. IsState(a)
  BY <1>2, <1>4 DEF IsState
<1>6. leaves' = leaves
  BY <1>1 DEF leaves
<1>7. mark' \in [leaves' -> Int] /\ \A l \in leaves' : mark'[l] = 1
  BY <1>1, <1>6
<1>8. negative(mark', leaves') = {}
  BY <1>7 DEF negative
<1>9. QED  BY <1>1, <1>3, <1>5, <1>7, <1>8 DEF MarkInv

LEMMA MarkNext ==
  IndexInv /\ MarkInv /\ [Next]_vars => MarkInv'
<1> SUFFICES ASSUME IndexInv, MarkInv, [Next]_vars PROVE MarkInv'
  OBVIOUS
<1> USE DEF meshVars, indexVars, cacheVars, callVars
<1>0. Mesh(elements)
  BY DEF IndexInv
<1>1. CASE Mark  BY <1>0, <1>1, MarkMark
<1>2. CASE PreAdapt  BY <1>2, MarkPreAdapt
<1>3. CASE Adapt  BY <1>0, <1>3, MarkAdapt
<1>4. CASE PostAdapt
  <2>1. UNCHANGED <<elements, mark, pc>> /\ pc = "idle" /\ adaptationState_' = NoMarks
        /\ adaptationState_.phase_ = "PostAdaptationPhase"
    BY <1>4 DEF PostAdapt, inPhase
  <2>2. \A l \in leaves : mark[l] = 0
    BY <2>1 DEF MarkInv
  <2>3. QED  BY <2>1, <2>2, MarkNew
<1>5. CASE RefinePatch  BY <1>0, <1>5, MarkRefine
<1>6. CASE Refined  BY <1>0, <1>6, MarkRefined
<1>7. CASE CoarsenPatch  BY <1>0, <1>7, MarkCoarsen
<1>8. CASE Coarsened  BY <1>8, MarkCoarsened
<1>9. CASE Finish  BY <1>9, MarkFinish
<1>10. CASE GlobalRefine  BY <1>10, MarkUnchanged DEF GlobalRefine
<1>11. CASE GlobalRefineStep  BY <1>0, <1>11, MarkGlobalRefineStep
<1>12. CASE LeafIndexSet  BY <1>12, MarkUnchanged DEF LeafIndexSet
<1>13. CASE LeafBegin  BY <1>13, MarkUnchanged DEF LeafBegin
<1>14. CASE Resize  BY <1>14, MarkUnchanged DEF Resize
<1>15. CASE Store  BY <1>15, MarkUnchanged DEF Store
<1>16. CASE Restart
  <2>1. UNCHANGED <<elements, mark, pc>> /\ pc = "idle" /\ adaptationState_' = NoMarks
        /\ \A l \in leaves : mark[l] = 0
    BY <1>16 DEF Restart, inPhase
  <2>2. QED  BY <2>1, MarkNew
<1>17. CASE UNCHANGED vars  BY <1>17, MarkUnchanged DEF vars
<1>18. QED
  BY <1>1, <1>2, <1>3, <1>4, <1>5, <1>6, <1>7, <1>8, <1>9, <1>10, <1>11, <1>12, <1>13,
     <1>14, <1>15, <1>16, <1>17 DEF Next

(* coarsenMarked_ is the number of leaf elements marked for coarsening. *)
LEMMA CoarseningMarks ==
  Spec => []CoarseningCounted
<1>1. Init => MarkInv  BY MarkInit
<1>2. IndexInv /\ MarkInv /\ [Next]_vars => MarkInv'  BY MarkNext
<1>3. MarkInv => CoarseningCounted
  BY DEF MarkInv, CoarseningCounted, negative
<1>4. QED  BY <1>1, <1>2, <1>3, IndexAlways, PTL DEF Spec

-----------------------------------------------------------------------------
(* The levels, with the phases of adapt() *)

LEMMA LevelPostAdapt ==
  ASSUME LevelInv, PostAdapt
  PROVE  LevelInv'
<1>1. /\ level_' = [e \in DOMAIN level_ |-> [level_[e] EXCEPT !.isNew = FALSE]]
      /\ UNCHANGED <<elements, maxlevel_>> /\ pc = "idle"
  BY DEF PostAdapt, meshVars, cacheVars, inPhase
<1>2. DOMAIN level_ = elements /\ \A e \in elements : level_[e] \in [level : Nat, isNew : BOOLEAN]
  BY DEF LevelInv
<1>3. \A e \in elements : /\ level_'[e] \in [level : Nat, isNew : BOOLEAN]
                          /\ level_'[e].level = level_[e].level /\ level_'[e].isNew = FALSE
  <2>1. SUFFICES ASSUME NEW e \in elements
                 PROVE  /\ level_'[e] \in [level : Nat, isNew : BOOLEAN]
                        /\ level_'[e].level = level_[e].level /\ level_'[e].isNew = FALSE
    OBVIOUS
  <2>2. PICK r \in [level : Nat, isNew : BOOLEAN] : r = level_[e]
    BY <1>2
  <2>3. level_'[e] = [r EXCEPT !.isNew = FALSE]
    BY <1>1, <1>2, <2>2
  <2>4. PICK s : s = [r EXCEPT !.isNew = FALSE]
    OBVIOUS
  <2>5. s \in [level : Nat, isNew : BOOLEAN]
    BY <2>4
  <2>6. s.level = r.level
    BY <2>4
  <2>7. s.isNew = FALSE
    BY <2>4, Zenon
  <2>8. QED  BY <2>2, <2>3, <2>4, <2>5, <2>6, <2>7
<1>4. level_' \in [elements' -> [level : Nat, isNew : BOOLEAN]]
  <2>1. level_' = [e \in elements |-> level_'[e]]
    BY <1>1, <1>2
  <2>2. QED  BY <2>1, <1>1, <1>3
<1>5. \A e \in elements' : level_'[e].level = e.level /\ level_'[e].isNew = FALSE
  BY <1>1, <1>3 DEF LevelInv
<1>6. maxlevel_' = Max(levelsOf(elements'))
  BY <1>1 DEF LevelInv
<1>7. QED  BY <1>4, <1>5, <1>6 DEF LevelInv

LEMMA LevelFinish ==
  ASSUME MarkInv, LevelInv, Finish
  PROVE  LevelInv'
<1>1. /\ UNCHANGED <<elements, level_>> /\ pc' = "idle"
      /\ adaptationState_' = [adaptationState_ EXCEPT !.phase_ = "PostAdaptationPhase"]
      /\ IF changed # {} THEN calcExtras(elements) ELSE UNCHANGED cacheVars
  BY DEF Finish, meshVars
<1>2. maxlevel_' = Max(levelsOf(elements))
  <2>1. CASE changed = {}
    BY <1>1, <2>1 DEF LevelInv, cacheVars
  <2>2. CASE changed # {}
    <3>1. maxlevel_' = maxLevelOf(level_)
      BY <1>1, <2>2 DEF calcExtras
    <3>2. DOMAIN level_ = elements /\ \A e \in elements : level_[e].level = e.level
      BY DEF LevelInv
    <3>3. QED  BY <3>1, <3>2, MaxLevel_Of
  <2>3. QED  BY <2>1, <2>2
<1>3. adaptationState_'.phase_ = "PostAdaptationPhase"
  BY <1>1, PhaseSet DEF MarkInv
<1>4. QED  BY <1>1, <1>2, <1>3 DEF LevelInv

LEMMA LevelRestart ==
  ASSUME IndexInv, LevelInv, Restart
  PROVE  LevelInv'
<1>1. /\ elements' = elements /\ maxlevel_' = maxLevelOf(level_')
      /\ level_' = [e \in elements |-> [level |-> e.level, isNew |-> FALSE]]
  BY DEF Restart, meshVars
<1>2. \A e \in elements : e.level \in Nat
  BY DEF IndexInv, Mesh
<1>3. level_' \in [elements' -> [level : Nat, isNew : BOOLEAN]]
  BY <1>1, <1>2
<1>4. \A e \in elements' : level_'[e].level = e.level /\ level_'[e].isNew = FALSE
  BY <1>1
<1>5. DOMAIN level_' = elements'
  BY <1>1
<1>6. maxlevel_' = Max(levelsOf(elements'))
  <2>1. PICK lev, E : lev = level_' /\ E = elements'
    OBVIOUS
  <2>2. maxLevelOf(lev) = Max(levelsOf(E))
    BY <1>4, <1>5, <2>1, MaxLevel_Of
  <2>3. QED  BY <1>1, <2>1, <2>2
<1>7. QED  BY <1>3, <1>4, <1>6 DEF LevelInv

LEMMA LevelNext ==
  IndexInv /\ MarkInv /\ LevelInv /\ [Next]_vars => LevelInv'
<1> SUFFICES ASSUME IndexInv, MarkInv, LevelInv, [Next]_vars PROVE LevelInv'
  OBVIOUS
<1> USE DEF meshVars, indexVars, cacheVars, callVars, inPhase, free
<1>1. CASE Mark
  <2>1. UNCHANGED <<elements, level_, maxlevel_>> /\ pc = "idle" /\ adaptationState_.phase_ = "ComputationPhase"
    BY <1>1 DEF Mark
  <2>2. QED  BY <2>1, LevelUnchanged
<1>2. CASE PreAdapt
  <2>1. UNCHANGED <<elements, level_, maxlevel_>> /\ pc = "idle" /\ adaptationState_.phase_ = "ComputationPhase"
    BY <1>2 DEF PreAdapt
  <2>2. QED  BY <2>1, LevelUnchanged
<1>3. CASE Adapt
  <2>1. UNCHANGED <<elements, level_, maxlevel_, adaptationState_>> /\ pc = "idle" /\ pc' = "refine"
    BY <1>3 DEF Adapt
  <2>2. QED  BY <2>1, LevelUnchanged
<1>4. CASE PostAdapt  BY <1>4, LevelPostAdapt
<1>5. CASE RefinePatch  BY <1>5, LevelRefine
<1>6. CASE Refined
  <2>1. UNCHANGED <<elements, level_, maxlevel_, adaptationState_, changed>> /\ pc = "refine" /\ pc' \in {"coarsen", "finish"}
    BY <1>6 DEF Refined
  <2>2. QED  BY <2>1, LevelUnchanged
<1>7. CASE CoarsenPatch  BY <1>7, LevelCoarsen
<1>8. CASE Coarsened
  <2>1. UNCHANGED <<elements, level_, maxlevel_, adaptationState_, changed>> /\ pc = "coarsen" /\ pc' = "finish"
    BY <1>8 DEF Coarsened
  <2>2. QED  BY <2>1, LevelUnchanged
<1>9. CASE Finish  BY <1>9, LevelFinish
<1>10. CASE GlobalRefine  BY <1>10, LevelUnchanged DEF GlobalRefine
<1>11. CASE GlobalRefineStep
  <2>1. UNCHANGED <<elements, level_, maxlevel_>> /\ pc = "idle" /\ pc' = "refine"
    BY <1>11 DEF GlobalRefineStep
  <2>2. QED  BY <2>1, LevelUnchanged
<1>12. CASE LeafIndexSet  BY <1>12, LevelUnchanged DEF LeafIndexSet
<1>13. CASE LeafBegin  BY <1>13, LevelUnchanged DEF LeafBegin
<1>14. CASE Resize  BY <1>14, LevelUnchanged DEF Resize
<1>15. CASE Store  BY <1>15, LevelUnchanged DEF Store
<1>16. CASE Restart  BY <1>16, LevelRestart
<1>17. CASE UNCHANGED vars  BY <1>17, LevelUnchanged DEF vars
<1>18. QED
  BY <1>1, <1>2, <1>3, <1>4, <1>5, <1>6, <1>7, <1>8, <1>9, <1>10, <1>11, <1>12, <1>13,
     <1>14, <1>15, <1>16, <1>17 DEF Next

(* The levels, maxLevel() and the flags isNew are those of the mesh. *)
LEMMA LevelsTrue ==
  Spec => []LevelsKnown
<1>1. IndexInv /\ LevelInv => LevelsKnown
  <2> SUFFICES ASSUME IndexInv, LevelInv PROVE LevelsKnown
    OBVIOUS
  <2>1. {l.level : l \in leaves} = levelsOf(leavesOf(elements))
    BY DEF leaves, levelsOf
  <2>2. Max(levelsOf(leavesOf(elements))) = Max(levelsOf(elements))
    BY DeepestLeaf DEF IndexInv
  <2>3. pc = "idle" => maxlevel_ = Max({l.level : l \in leaves})
    BY <2>1, <2>2 DEF LevelInv
  <2>4. QED  BY <2>3 DEF LevelsKnown, LevelInv
<1>2. Init => MarkInv /\ LevelInv  BY MarkInit, LevelInit
<1>3. IndexInv /\ MarkInv /\ LevelInv /\ [Next]_vars => MarkInv' /\ LevelInv'  BY MarkNext, LevelNext
<1>4. QED  BY <1>1, <1>2, <1>3, IndexAlways, PTL DEF Spec
-----------------------------------------------------------------------------
(* The leaf index set and the marker *)

below(V, v) == {k \in V : k < v}

(* The ranks of finitely many numbers are consecutive. *)
LEMMA Ranks ==
  ASSUME NEW V, IsFiniteSet(V), V \subseteq Int
  PROVE  {Cardinality(below(V, v)) : v \in V} = 0..Cardinality(V)-1
<1> DEFINE rank == [v \in V |-> Cardinality(below(V, v))]
<1>1. PICK n \in Nat : n = Cardinality(V)
  BY FS_CardinalityType
<1>2. \A v \in V : IsFiniteSet(below(V, v)) /\ Cardinality(below(V, v)) \in Nat
  BY FS_Subset, FS_CardinalityType DEF below
<1>3. \A v \in V : Cardinality(below(V, v)) \in 0..n-1
  <2>1. SUFFICES ASSUME NEW v \in V PROVE Cardinality(below(V, v)) \in 0..n-1
    OBVIOUS
  <2>2. below(V, v) \in SUBSET V /\ v \notin below(V, v)
    BY DEF below
  <2>3. Cardinality(below(V, v)) <= n /\ Cardinality(below(V, v)) # n
    BY <1>1, <2>2, FS_Subset
  <2>4. QED  BY <1>2, <2>3
<1>4. \A u, v \in V : u < v => Cardinality(below(V, u)) # Cardinality(below(V, v))
  <2>1. SUFFICES ASSUME NEW u \in V, NEW v \in V, u < v PROVE Cardinality(below(V, u)) # Cardinality(below(V, v))
    OBVIOUS
  <2>2. below(V, u) \subseteq below(V, v)
    <3>1. \A k \in V : k < u => k < v
      <4>1. \A a, b, c \in Int : a < b /\ b < c => a < c
        OBVIOUS
      <4>2. QED  BY <2>1, <4>1
    <3>2. QED  BY <3>1 DEF below
  <2>3. u \in below(V, v) /\ u \notin below(V, u)
    BY <2>1 DEF below
  <2>4. below(V, u) \in SUBSET below(V, v) /\ below(V, u) # below(V, v)
    BY <2>2, <2>3
  <2>5. QED  BY <1>2, <2>4, FS_Subset
<1>5. rank \in Injection(V, 0..n-1)
  <2>1. \A u, v \in V : rank[u] = rank[v] => u = v
    <3>1. \A u, v \in V : u < v \/ v < u \/ u = v
      <4>1. \A a, b \in Int : a < b \/ b < a \/ a = b
        OBVIOUS
      <4>2. QED  BY <4>1
    <3>2. QED  BY <1>4, <3>1
  <2>2. QED  BY <1>3, <2>1 DEF Injection, IsInjective
<1>6. IsFiniteSet(0..n-1) /\ Cardinality(0..n-1) = n
  <2>1. IsFiniteSet(0..n-1) /\ Cardinality(0..n-1) = IF 0 > n-1 THEN 0 ELSE (n-1)-0+1
    BY FS_Interval
  <2>2. QED  BY <2>1
<1>7. rank \in Surjection(V, 0..n-1)
  <2> HIDE DEF rank
  <2>1. QED  BY <1>1, <1>5, <1>6, FS_Injection
<1>8. {rank[v] : v \in V} = 0..n-1
  <2> HIDE DEF rank
  <2>1. QED  BY <1>7 DEF Surjection
<1>9. {rank[v] : v \in V} = {Cardinality(below(V, v)) : v \in V}
  OBVIOUS
<1>10. QED  BY <1>1, <1>8, <1>9

LEMMA EntitiesFinite ==
  ASSUME NEW L, IsFiniteSet(L), NEW c \in codims
  PROVE  IsFiniteSet(entities(L, c))
<1> DEFINE n == numSubEntities(c)
           D == L \X (1..n)
           g == [p \in D |-> subEntity(p[1], c, p[2])]
<1>1. n \in 1..3
  BY DEF numSubEntities
<1> HIDE DEF n
<1>2. IsFiniteSet(1..n)
  BY <1>1, FS_Interval
<1>3. IsFiniteSet(D)
  BY <1>2, FS_Product
<1>4. g \in Surjection(D, entities(L, c))
  <2>1. entities(L, c) = {subEntity(e, c, i) : e \in L, i \in 1..n}
    BY DEF entities, n
  <2>2. \A p \in D : subEntity(p[1], c, p[2]) \in entities(L, c)
    BY <2>1
  <2>3. \A x \in entities(L, c) : \E p \in D : g[p] = x
    <3>1. SUFFICES ASSUME NEW x \in entities(L, c) PROVE \E p \in D : g[p] = x
      OBVIOUS
    <3>2. PICK e \in L, i \in 1..n : x = subEntity(e, c, i)
      BY <2>1
    <3>3. <<e, i>> \in D /\ g[<<e, i>>] = x
      BY <3>2
    <3>4. QED  BY <3>3
  <2>4. QED  BY <2>2, <2>3 DEF Surjection
<1> HIDE DEF D, g
<1>5. QED  BY <1>3, <1>4, FS_Surjection

(* The leaf elements: finest() and position() order them. *)
Ordered(L) ==
  /\ IsFiniteSet(L) /\ L # {}
  /\ \A e \in L : position(finest(L), e) \in Nat
  /\ \A x, y \in L : position(finest(L), x) = position(finest(L), y) => x = y

LEMMA LeavesAre ==
  ASSUME NEW E, Mesh(E)
  PROVE  Ordered(leavesOf(E))
<1> DEFINE L == leavesOf(E)
<1>1. IsFiniteSet(E) /\ L \subseteq E /\ \A e \in E : e.level \in Nat
  BY DEF Mesh, leavesOf
<1>2. IsFiniteSet(L)
  BY <1>1, FS_Subset
<1>3. IsFiniteSet(levelsOf(E)) /\ levelsOf(E) # {} /\ levelsOf(E) \subseteq Int
  <2> DEFINE g == [e \in E |-> e.level]
  <2>1. g \in Surjection(E, levelsOf(E))
    BY DEF Surjection, levelsOf
  <2>2. IsFiniteSet(levelsOf(E))
    BY <1>1, <2>1, FS_Surjection
  <2>3. QED  BY <2>2, <1>1, MacroMesh DEF levelsOf, Mesh
<1>4. PICK f : f = finest(L) /\ f = Max(levelsOf(E))
  <2>1. finest(L) = Max(levelsOf(L))
    BY DEF finest, levelsOf
  <2>2. QED  BY <2>1, DeepestLeaf
<1>5. f \in levelsOf(E) /\ \A k \in levelsOf(E) : f >= k
  BY <1>3, <1>4, Largest
<1>6. f \in Nat /\ \A e \in E : e.level <= f
  <2>1. f \in Nat
    BY <1>1, <1>5 DEF levelsOf
  <2>2. \A e \in E : e.level \in levelsOf(E)
    BY DEF levelsOf
  <2>3. \A a, b \in Nat : a >= b => b <= a
    OBVIOUS
  <2>4. QED  BY <1>1, <1>5, <2>1, <2>2, <2>3
<1>7. L # {}
  <2>1. PICK e \in E : e.level = f
    BY <1>5 DEF levelsOf
  <2>2. e \in L
    <3>1. SUFFICES ASSUME child(e, 0) \in E PROVE FALSE
      BY DEF leavesOf
    <3>2. PICK g \in E : g.level = f + 1
      BY <2>1, <3>1, ChildFields
    <3>3. f + 1 <= f
      BY <1>6, <3>2
    <3>4. QED  BY <1>6, <3>3
  <2>3. QED  BY <2>2
<1>8. \A e \in L : position(f, e) \in Nat
  <2>1. SUFFICES ASSUME NEW e \in L PROVE position(f, e) \in Nat
    OBVIOUS
  <2>2. e \in E /\ e.level \in 0..f /\ e.n \in Nat /\ e.macro \in Nat /\ e.n < 2^e.level
    BY <1>1, <1>6 DEF Mesh
  <2>3. PICK W \in Nat : W = 2^f
    BY <1>6, PowerOfTwo
  <2>4. PICK k \in Nat, p \in 0..W-1 : Placed(f, e, W, k, p)
    BY <1>6, <2>2, <2>3, PlaceIs
  <2>5. W * k + p \in Nat
    OBVIOUS
  <2>6. QED  BY <2>4, <2>5 DEF Placed
<1>9. \A x, y \in L : position(f, x) = position(f, y) => x = y
  <2>1. SUFFICES ASSUME NEW x \in L, NEW y \in L, position(f, x) = position(f, y) PROVE x = y
    OBVIOUS
  <2>2. x.level \in Nat /\ y.level \in Nat /\ \A e \in leavesOf(E) : e.level <= f
    BY <1>1, <1>6
  <2>3. x.level <= y.level \/ y.level <= x.level
    BY <2>2
  <2>4. CASE x.level <= y.level
    BY <2>1, <2>2, <2>4, <1>6, LeavesOrdered
  <2>5. CASE y.level <= x.level
    <3>1. position(f, y) = position(f, x)
      BY <2>1
    <3>2. y = x
      BY <3>1, <2>2, <2>5, <1>6, LeavesOrdered
    <3>3. QED  BY <3>2
  <2>6. QED  BY <2>3, <2>4, <2>5
<1>10. QED  BY <1>2, <1>4, <1>7, <1>8, <1>9 DEF Ordered

(* Where an entity is met is a place of its own. *)
Met(L, c, x, v) ==
  \E e \in L, i \in 1..3 : subEntity(e, c, i) = x /\ v = 3 * position(finest(L), e) + i

LEMMA VisitIs ==
  ASSUME NEW L, Ordered(L), NEW c \in codims, NEW x \in entities(L, c)
  PROVE  visit(L, c, x) \in Nat /\ Met(L, c, x, visit(L, c, x))
<1> DEFINE f == finest(L)
           n == numSubEntities(c)
           A == {p \in L \X (1..n) : subEntity(p[1], c, p[2]) = x}
           V == {3 * position(f, p[1]) + p[2] : p \in A}
<1>1. n \in 1..3 /\ 1..n \subseteq 1..3
  <2>1. n = 1 \/ n = 3
    BY DEF numSubEntities
  <2>2. QED  BY <2>1
<1>2. PICK d \in L, j \in 1..n : x = subEntity(d, c, j)
  BY DEF entities
<1> HIDE DEF f, n
<1>3. <<d, j>> \in A
  BY <1>2
<1>4. \A p \in A : p[1] \in L /\ p[2] \in 1..3 /\ subEntity(p[1], c, p[2]) = x
  BY <1>1
<1>5. \A p \in A : 3 * position(f, p[1]) + p[2] \in Nat
  <2>1. SUFFICES ASSUME NEW p \in A PROVE 3 * position(f, p[1]) + p[2] \in Nat
    OBVIOUS
  <2>2. PICK a \in Nat, i \in 1..3 : a = position(f, p[1]) /\ i = p[2]
    BY <1>4 DEF Ordered, f
  <2>3. 3 * a + i \in Nat
    OBVIOUS
  <2>4. QED  BY <2>2, <2>3
<1> HIDE DEF A
<1>6. V \subseteq Nat /\ V # {}
  BY <1>3, <1>5
<1>7. visit(L, c, x) = Min(V)
  BY DEF visit, V, A, f, n
<1> HIDE DEF V
<1>8. Min(V) \in V
  <2>1. \E m \in V : \A k \in V : m <= k
    BY <1>6, Smallest
  <2>2. QED  BY <2>1 DEF Min
<1>9. PICK p \in A : Min(V) = 3 * position(f, p[1]) + p[2]
  BY <1>8 DEF V
<1>10. Met(L, c, x, Min(V))
  BY <1>4, <1>9 DEF Met, f
<1>11. QED  BY <1>6, <1>7, <1>8, <1>10

LEMMA Visited ==
  ASSUME NEW L, Ordered(L), NEW c \in codims, NEW x, NEW y, NEW v, Met(L, c, x, v), Met(L, c, y, v)
  PROVE  x = y
<1>1. PICK e \in L, i \in 1..3 : subEntity(e, c, i) = x /\ v = 3 * position(finest(L), e) + i
  BY DEF Met
<1>2. PICK d \in L, j \in 1..3 : subEntity(d, c, j) = y /\ v = 3 * position(finest(L), d) + j
  BY DEF Met
<1>3. PICK a \in Nat, b \in Nat : a = position(finest(L), e) /\ b = position(finest(L), d)
  BY DEF Ordered
<1>4. 3 * a + i = 3 * b + j
  BY <1>1, <1>2, <1>3
<1>5. a = b /\ i = j
  BY <1>4
<1>6. e = d
  BY <1>3, <1>5 DEF Ordered
<1>7. QED  BY <1>1, <1>2, <1>5, <1>6

GoodIndices(u, L) ==
  \A c \in codims :
    DOMAIN u[c] = entities(L, c) /\ {u[c][x] : x \in DOMAIN u[c]} = 0..Cardinality(entities(L, c))-1

LEMMA UpdateNumbers ==
  ASSUME NEW L, Ordered(L)
  PROVE  GoodIndices(update(L), L)
<1>1. SUFFICES ASSUME NEW c \in codims
               PROVE  /\ DOMAIN update(L)[c] = entities(L, c)
                      /\ {update(L)[c][x] : x \in DOMAIN update(L)[c]} = 0..Cardinality(entities(L, c))-1
  BY DEF GoodIndices
<1> DEFINE X == entities(L, c)
           V == {visit(L, c, x) : x \in X}
           u == [x \in X |-> Cardinality(below(V, visit(L, c, x)))]
<1>2. update(L)[c] = u
  BY DEF update, below
<1>3. IsFiniteSet(X)
  BY EntitiesFinite DEF Ordered
<1>4. \A x \in X : visit(L, c, x) \in Nat /\ Met(L, c, x, visit(L, c, x))
  BY VisitIs
<1>5. V \subseteq Int
  BY <1>4
<1>6. IsFiniteSet(V) /\ Cardinality(V) = Cardinality(X)
  <2> DEFINE g == [x \in X |-> visit(L, c, x)]
  <2>1. \A x, y \in X : visit(L, c, x) = visit(L, c, y) => x = y
    BY <1>4, Visited
  <2>2. g \in Bijection(X, V)
    BY <2>1 DEF Bijection, Injection, IsInjective, Surjection
  <2>3. ExistsBijection(X, V)
    BY <2>2 DEF ExistsBijection
  <2> HIDE DEF X, V
  <2>4. QED  BY <1>3, <2>3, FS_Bijection
<1>7. {u[x] : x \in X} = {Cardinality(below(V, v)) : v \in V}
  OBVIOUS
<1>8. {Cardinality(below(V, v)) : v \in V} = 0..Cardinality(V)-1
  <2> HIDE DEF V
  <2>1. QED  BY <1>5, <1>6, Ranks
<1>9. DOMAIN u = X
  OBVIOUS
<1> HIDE DEF u, V
<1>10. QED  BY <1>2, <1>6, <1>7, <1>8, <1>9

GoodMarker(k, L) ==
  /\ DOMAIN k = entities(L, 2)
  /\ \A v \in DOMAIN k : k[v] \in L /\ \E i \in 1..3 : k[v].vertex[i] = v

LEMMA MarksSubEntities ==
  ASSUME NEW L, Ordered(L)
  PROVE  GoodMarker(markSubEntities(L), L)
<1> DEFINE f == finest(L)
           with(v) == {l \in L : \E i \in 1..3 : l.vertex[i] = v}
           best(v) == CHOOSE l \in with(v) : \A k \in with(v) : dofIndex(f, k) <= dofIndex(f, l)
<1>1. markSubEntities(L) = [v \in entities(L, 2) |-> best(v)]
  BY DEF markSubEntities
<1>2. \A v \in entities(L, 2) : best(v) \in with(v)
  <2>1. SUFFICES ASSUME NEW v \in entities(L, 2) PROVE best(v) \in with(v)
    OBVIOUS
  <2> DEFINE S == with(v)
             P == {position(f, l) : l \in S}
             g == [l \in S |-> position(f, l)]
  <2>2. S # {}
    BY DEF entities, subEntity, numSubEntities
  <2>3. IsFiniteSet(S) /\ S \subseteq L
    BY FS_Subset DEF Ordered
  <2> HIDE DEF S
  <2>4. P \subseteq Nat /\ P # {}
    BY <2>2, <2>3 DEF Ordered
  <2>5. IsFiniteSet(P)
    <3>1. g \in Surjection(S, P)
      BY DEF Surjection
    <3>2. QED  BY <2>3, <3>1, FS_Surjection
  <2>6. Max(P) \in P /\ \A k \in P : Max(P) >= k
    <3> HIDE DEF P
    <3>1. P \subseteq Int
      BY <2>4
    <3>2. QED  BY <2>4, <2>5, <3>1, Largest
  <2>7. PICK l \in S : position(f, l) = Max(P)
    BY <2>6
  <2>8. \A k \in S : position(f, k) <= position(f, l)
    <3>1. SUFFICES ASSUME NEW k \in S PROVE position(f, k) <= position(f, l)
      OBVIOUS
    <3>2. PICK a \in Nat, b \in Nat : a = position(f, k) /\ b = position(f, l)
      BY <2>3 DEF Ordered
    <3>3. b >= a
      BY <2>6, <2>7, <3>2
    <3>4. QED  BY <3>2, <3>3
  <2>9. QED  BY <2>8 DEF dofIndex, S
<1>3. QED  BY <1>1, <1>2 DEF GoodMarker

(* What has been derived is that of the present leaf elements, but for a   *)
(* mesh that has changed in the present adapt().                           *)
CacheInv ==
  pc = "idle" \/ changed = {} =>
    /\ leafIndexSet_ # null => GoodIndices(leafIndexSet_, leavesOf(elements))
    /\ leafMarker_ # null => GoodMarker(leafMarker_, leavesOf(elements))

LEMMA CacheUnchanged ==
  ASSUME CacheInv, UNCHANGED <<elements, leafIndexSet_, leafMarker_>>,
         pc' = "idle" \/ changed' = {} => pc = "idle" \/ changed = {}
  PROVE  CacheInv'
BY DEF CacheInv

LEMMA CacheFinish ==
  ASSUME IndexInv, CacheInv, Finish
  PROVE  CacheInv'
<1>1. elements' = elements /\ IF changed # {} THEN calcExtras(elements) ELSE UNCHANGED cacheVars
  BY DEF Finish, meshVars
<1>2. CASE changed = {}
  BY <1>1, <1>2 DEF CacheInv, cacheVars
<1>3. CASE changed # {}
  <2>1. leafMarker_' = null /\ leafIndexSet_' = IF leafIndexSet_ = null THEN null ELSE update(leavesOf(elements))
    BY <1>1, <1>3 DEF calcExtras
  <2>2. GoodIndices(update(leavesOf(elements)), leavesOf(elements))
    BY LeavesAre, UpdateNumbers DEF IndexInv
  <2>3. leafIndexSet_' # null => GoodIndices(leafIndexSet_', leavesOf(elements'))
    BY <1>1, <2>1, <2>2
  <2>4. QED  BY <2>1, <2>3 DEF CacheInv
<1>4. QED  BY <1>2, <1>3

LEMMA CacheNext ==
  IndexInv /\ CacheInv /\ [Next]_vars => CacheInv'
<1> SUFFICES ASSUME IndexInv, CacheInv, [Next]_vars PROVE CacheInv'
  OBVIOUS
<1> USE DEF meshVars, indexVars, cacheVars, callVars, inPhase, free
<1>1. CASE Mark  BY <1>1, CacheUnchanged DEF Mark
<1>2. CASE PreAdapt  BY <1>2, CacheUnchanged DEF PreAdapt
<1>3. CASE Adapt  BY <1>3, CacheUnchanged DEF Adapt
<1>4. CASE PostAdapt  BY <1>4, CacheUnchanged DEF PostAdapt
<1>5. CASE RefinePatch  BY <1>5 DEF RefinePatch, CacheInv
<1>6. CASE Refined
  <2>1. UNCHANGED <<elements, leafIndexSet_, leafMarker_, changed>> /\ pc' \in {"coarsen", "finish"}
    BY <1>6 DEF Refined
  <2>2. QED  BY <2>1, CacheUnchanged
<1>7. CASE CoarsenPatch  BY <1>7 DEF CoarsenPatch, CacheInv
<1>8. CASE Coarsened  BY <1>8, CacheUnchanged DEF Coarsened
<1>9. CASE Finish  BY <1>9, CacheFinish
<1>10. CASE GlobalRefine  BY <1>10, CacheUnchanged DEF GlobalRefine
<1>11. CASE GlobalRefineStep  BY <1>11, CacheUnchanged DEF GlobalRefineStep
<1>12. CASE LeafIndexSet
  <2>1. leafIndexSet_' = update(leaves) /\ UNCHANGED <<elements, leafMarker_, pc, changed>>
    BY <1>12 DEF LeafIndexSet
  <2>2. GoodIndices(update(leaves), leaves)
    BY LeavesAre, UpdateNumbers DEF IndexInv, leaves
  <2>3. QED  BY <2>1, <2>2 DEF CacheInv, leaves
<1>13. CASE LeafBegin
  <2>1. leafMarker_' = markSubEntities(leaves) /\ UNCHANGED <<elements, leafIndexSet_, pc, changed>>
    BY <1>13 DEF LeafBegin
  <2>2. GoodMarker(markSubEntities(leaves), leaves)
    BY LeavesAre, MarksSubEntities DEF IndexInv, leaves
  <2>3. QED  BY <2>1, <2>2 DEF CacheInv, leaves
<1>14. CASE Resize  BY <1>14, CacheUnchanged DEF Resize
<1>15. CASE Store  BY <1>15, CacheUnchanged DEF Store
<1>16. CASE Restart  BY <1>16 DEF Restart, CacheInv
<1>17. CASE UNCHANGED vars  BY <1>17, CacheUnchanged DEF vars
<1>18. QED
  BY <1>1, <1>2, <1>3, <1>4, <1>5, <1>6, <1>7, <1>8, <1>9, <1>10, <1>11, <1>12, <1>13,
     <1>14, <1>15, <1>16, <1>17 DEF Next

(***************************************************************************)
(* What the grid has derived from the mesh is that of the present mesh     *)
(* whenever adapt() is not under way: levels, isNew and maxLevel(), the    *)
(* leaf index set, which numbers the entities of every codimension         *)
(* consecutively from zero, and the marker of the leaf iterators           *)
(* (calcExtras() in albertagrid.cc, level.hh:78, treeiterator.hh:99-165).  *)
(***************************************************************************)
THEOREM DerivedAgree ==
  Spec => []DerivedFresh
<1>1. IndexInv /\ CacheInv => LeafIndicesFresh /\ MarkerFresh
  <2> SUFFICES ASSUME IndexInv, CacheInv PROVE LeafIndicesFresh /\ MarkerFresh
    OBVIOUS
  <2>1. LeafIndicesFresh
    BY DEF LeafIndicesFresh, CacheInv, GoodIndices, leaves
  <2>2. MarkerFresh
    BY DEF MarkerFresh, CacheInv, GoodMarker, leaves
  <2>3. QED  BY <2>1, <2>2
<1>2. Init => CacheInv
  BY DEF Init, CacheInv
<1>3. IndexInv /\ CacheInv /\ [Next]_vars => CacheInv'  BY CacheNext
<1>4. Spec => [](LeafIndicesFresh /\ MarkerFresh)
  BY <1>1, <1>2, <1>3, IndexAlways, PTL DEF Spec
<1>5. QED  BY <1>4, LevelsTrue, PTL DEF DerivedFresh
-----------------------------------------------------------------------------
(* The weights of the marks *)

pairsOf(m, S) == UNION {{l} \X (1..Weight(m[l])) : l \in S}

LEMMA WeightIsNat ==
  ASSUME NEW k \in Int
  PROVE  Weight(k) \in Nat
<1>1. CASE k > 0
  <2>0. k \in Nat
    BY <1>1
  <2>1. PICK w \in Nat : w = 2^k
    BY <2>0, PowerOfTwo
  <2>2. 2 * w \in Nat
    OBVIOUS
  <2>3. QED  BY <1>1, <2>1, <2>2 DEF Weight
<1>2. CASE ~(k > 0)
  BY <1>2 DEF Weight
<1>3. QED  BY <1>1, <1>2

LEMMA PairsOfOne ==
  ASSUME NEW e, NEW n \in Nat
  PROVE  IsFiniteSet({e} \X (1..n)) /\ Cardinality({e} \X (1..n)) = n
<1>1. IsFiniteSet({e}) /\ Cardinality({e}) = 1
  BY FS_Singleton
<1>2. IsFiniteSet(1..n) /\ Cardinality(1..n) = n
  <2>1. IsFiniteSet(1..n) /\ Cardinality(1..n) = IF 1 > n THEN 0 ELSE n-1+1
    BY FS_Interval
  <2>2. QED  BY <2>1
<1>3. PICK A, B : A = {e} /\ B = 1..n
  OBVIOUS
<1>4. IsFiniteSet(A) /\ IsFiniteSet(B) /\ Cardinality(A) = 1 /\ Cardinality(B) = n
  BY <1>1, <1>2, <1>3
<1>5. IsFiniteSet(A \X B) /\ Cardinality(A \X B) = Cardinality(A) * Cardinality(B)
  BY <1>4, FS_Product
<1>6. Cardinality(A \X B) = n
  BY <1>4, <1>5
<1>7. QED  BY <1>3, <1>5, <1>6

LEMMA PairsFinite ==
  ASSUME NEW S, IsFiniteSet(S), NEW m, \A l \in S : m[l] \in Int
  PROVE  IsFiniteSet(pairsOf(m, S))
<1> DEFINE F == {{l} \X (1..Weight(m[l])) : l \in S}
           g == [l \in S |-> {l} \X (1..Weight(m[l]))]
<1>1. \A x \in F : IsFiniteSet(x)
  <2>1. SUFFICES ASSUME NEW l \in S PROVE IsFiniteSet({l} \X (1..Weight(m[l])))
    OBVIOUS
  <2>2. PICK n \in Nat : n = Weight(m[l])
    BY WeightIsNat
  <2>3. QED  BY <2>2, PairsOfOne
<1>2. IsFiniteSet(F)
  <2>1. g \in Surjection(S, F)
    BY DEF Surjection
  <2> HIDE DEF F, g
  <2>2. QED  BY <2>1, FS_Surjection
<1>3. IsFiniteSet(UNION F)
  <2> HIDE DEF F
  <2>1. QED  BY <1>1, <1>2, FS_UNION
<1>4. QED  BY <1>3 DEF pairsOf

(* The weights without those of e. *)
LEMMA WeightWithout ==
  ASSUME NEW L, IsFiniteSet(L), NEW m, \A l \in L : m[l] \in Int, NEW e \in L
  PROVE  weightOf(m, L) = Cardinality(pairsOf(m, L \ {e})) + Weight(m[e])
<1>1. PICK n \in Nat : n = Weight(m[e])
  BY WeightIsNat
<1> DEFINE A == pairsOf(m, L \ {e})
           B == {e} \X (1..n)
<1>2. IsFiniteSet(L \ {e})
  BY FS_Subset
<1>3. IsFiniteSet(A)
  BY <1>2, PairsFinite
<1>4. IsFiniteSet(B) /\ Cardinality(B) = n
  BY PairsOfOne
<1>5. pairsOf(m, L) = A \cup B
  BY <1>1 DEF pairsOf
<1>6. A \cap B = {}
  BY DEF pairsOf
<1>7. weightOf(m, L) = Cardinality(A \cup B)
  BY <1>5 DEF weightOf, pairsOf
<1> HIDE DEF A, B
<1>8. Cardinality(A \cup B) = Cardinality(A) + Cardinality(B) - Cardinality(A \cap B)
  BY <1>3, <1>4, FS_Union
<1>9. Cardinality(A \cap B) = 0 /\ Cardinality(A) \in Nat
  BY <1>3, <1>6, FS_EmptySet, FS_CardinalityType
<1>10. weightOf(m, L) = Cardinality(A) + n
  BY <1>4, <1>7, <1>8, <1>9
<1>11. QED  BY <1>1, <1>10 DEF A

LEMMA NoWeight ==
  ASSUME NEW L, NEW m, \A l \in L : m[l] = 0
  PROVE  weightOf(m, L) = 0
<1>1. \A l \in L : Weight(m[l]) = 0
  BY DEF Weight
<1>2. \A l \in L : 1..Weight(m[l]) = {}
  BY <1>1
<1>3. pairsOf(m, L) = {}
  BY <1>2 DEF pairsOf
<1>4. QED  BY <1>3, FS_EmptySet DEF weightOf, pairsOf

(* The counter of refinement, until adapt() is called. *)
WeightInv ==
  pc = "idle" /\ adaptationState_.phase_ # "PostAdaptationPhase" =>
    adaptationState_.refineMarked_ = weightOf(mark, leaves)

LEMMA WeightUnchanged ==
  ASSUME WeightInv, UNCHANGED <<elements, mark, adaptationState_, pc>>
  PROVE  WeightInv'
BY DEF WeightInv, leaves

LEMMA WeightMark ==
  ASSUME Mesh(elements), MarkInv, WeightInv, Mark
  PROVE  WeightInv'
<1>1. PICK e \in leaves, r \in RefCounts :
        /\ adaptationState_' = marked(unmarked(adaptationState_, mark[e]), r)
        /\ mark' = [mark EXCEPT ![e] = r]
  BY DEF Mark
<1>2. elements' = elements /\ pc = "idle" /\ adaptationState_.phase_ = "ComputationPhase"
  BY DEF Mark, inPhase
<1>3. leaves' = leaves
  BY <1>2 DEF leaves
<1>4. r \in Int /\ mark[e] \in Int /\ mark \in [leaves -> Int]
  BY boundsAssumption DEF MarkInv
<1>5. adaptationState_'.refineMarked_ = adaptationState_.refineMarked_ - Weight(mark[e]) + Weight(r)
  BY <1>1, <1>4, MarkState DEF MarkInv
<1>6. adaptationState_.refineMarked_ = weightOf(mark, leaves)
  BY <1>2 DEF WeightInv
<1>7. mark' \in [leaves -> Int] /\ mark'[e] = r /\ \A l \in leaves : l # e => mark'[l] = mark[l]
  BY <1>1, <1>4
<1>8. IsFiniteSet(leaves)
  BY FiniteLeaves
<1>9. PICK L, m, n : L = leaves /\ m = mark /\ n = mark'
  OBVIOUS
<1>10. /\ IsFiniteSet(L) /\ e \in L /\ (\A l \in L : m[l] \in Int) /\ (\A l \in L : n[l] \in Int)
       /\ n[e] = r /\ \A l \in L \ {e} : n[l] = m[l]
  BY <1>4, <1>7, <1>8, <1>9
<1>11. weightOf(m, L) = Cardinality(pairsOf(m, L \ {e})) + Weight(m[e])
  BY <1>10, WeightWithout
<1>12. weightOf(n, L) = Cardinality(pairsOf(n, L \ {e})) + Weight(r)
  BY <1>10, WeightWithout
<1>13. pairsOf(n, L \ {e}) = pairsOf(m, L \ {e})
  BY <1>10 DEF pairsOf
<1>14. PICK k \in Nat : k = Cardinality(pairsOf(m, L \ {e}))
  BY <1>10, PairsFinite, FS_Subset, FS_CardinalityType
<1>15. PICK a \in Nat, b \in Nat : a = Weight(m[e]) /\ b = Weight(r)
  BY <1>4, <1>9, WeightIsNat
<1>16. weightOf(n, L) = weightOf(m, L) - a + b
  BY <1>11, <1>12, <1>13, <1>14, <1>15
<1>17. adaptationState_'.refineMarked_ = weightOf(n, L)
  BY <1>5, <1>6, <1>9, <1>15, <1>16
<1>18. adaptationState_'.refineMarked_ = weightOf(mark', leaves')
  BY <1>3, <1>9, <1>17
<1>19. QED  BY <1>18 DEF WeightInv

LEMMA WeightNew ==
  ASSUME UNCHANGED <<elements, mark>>, \A l \in leaves : mark[l] = 0, adaptationState_' = NoMarks
  PROVE  WeightInv'
<1>1. leaves' = leaves
  BY DEF leaves
<1>2. \A l \in leaves' : mark'[l] = 0
  BY <1>1
<1>3. weightOf(mark', leaves') = 0
  BY <1>2, NoWeight
<1>4. QED  BY <1>3, NewState DEF WeightInv

LEMMA WeightNext ==
  IndexInv /\ MarkInv /\ WeightInv /\ [Next]_vars => WeightInv'
<1> SUFFICES ASSUME IndexInv, MarkInv, WeightInv, [Next]_vars PROVE WeightInv'
  OBVIOUS
<1> USE DEF meshVars, indexVars, cacheVars, callVars
<1>0. Mesh(elements)
  BY DEF IndexInv
<1>1. CASE Mark  BY <1>0, <1>1, WeightMark
<1>2. CASE PreAdapt
  <2>1. /\ UNCHANGED <<elements, mark, pc>> /\ pc = "idle" /\ adaptationState_.phase_ = "ComputationPhase"
        /\ adaptationState_' = [adaptationState_ EXCEPT !.phase_ = "PreAdaptationPhase"]
    BY <1>2 DEF PreAdapt, inPhase
  <2>2. adaptationState_'.refineMarked_ = adaptationState_.refineMarked_
    BY <2>1, PhaseSet DEF MarkInv
  <2>3. QED  BY <2>1, <2>2 DEF WeightInv, leaves
<1>3. CASE Adapt  BY <1>3 DEF Adapt, WeightInv
<1>4. CASE PostAdapt
  <2>1. UNCHANGED <<elements, mark>> /\ pc = "idle" /\ adaptationState_' = NoMarks
        /\ adaptationState_.phase_ = "PostAdaptationPhase"
    BY <1>4 DEF PostAdapt, inPhase
  <2>2. \A l \in leaves : mark[l] = 0
    BY <2>1 DEF MarkInv
  <2>3. QED  BY <2>1, <2>2, WeightNew
<1>5. CASE RefinePatch  BY <1>5 DEF RefinePatch, WeightInv
<1>6. CASE Refined
  <2>1. pc' \in {"coarsen", "finish"}
    BY <1>6 DEF Refined
  <2>2. QED  BY <2>1 DEF WeightInv
<1>7. CASE CoarsenPatch  BY <1>7 DEF CoarsenPatch, WeightInv
<1>8. CASE Coarsened  BY <1>8 DEF Coarsened, WeightInv
<1>9. CASE Finish
  <2>1. adaptationState_' = [adaptationState_ EXCEPT !.phase_ = "PostAdaptationPhase"]
    BY <1>9 DEF Finish
  <2>2. adaptationState_'.phase_ = "PostAdaptationPhase"
    BY <2>1, PhaseSet DEF MarkInv
  <2>3. QED  BY <2>2 DEF WeightInv
<1>10. CASE GlobalRefine  BY <1>10, WeightUnchanged DEF GlobalRefine
<1>11. CASE GlobalRefineStep  BY <1>11 DEF GlobalRefineStep, WeightInv
<1>12. CASE LeafIndexSet  BY <1>12, WeightUnchanged DEF LeafIndexSet
<1>13. CASE LeafBegin  BY <1>13, WeightUnchanged DEF LeafBegin
<1>14. CASE Resize  BY <1>14, WeightUnchanged DEF Resize
<1>15. CASE Store  BY <1>15, WeightUnchanged DEF Store
<1>16. CASE Restart
  <2>1. UNCHANGED <<elements, mark>> /\ adaptationState_' = NoMarks /\ \A l \in leaves : mark[l] = 0
    BY <1>16 DEF Restart
  <2>2. QED  BY <2>1, WeightNew
<1>17. CASE UNCHANGED vars  BY <1>17, WeightUnchanged DEF vars
<1>18. QED
  BY <1>1, <1>2, <1>3, <1>4, <1>5, <1>6, <1>7, <1>8, <1>9, <1>10, <1>11, <1>12, <1>13,
     <1>14, <1>15, <1>16, <1>17 DEF Next

LEMMA WeightInit ==
  Init => WeightInv
<1> SUFFICES ASSUME Init PROVE WeightInv
  OBVIOUS
<1>1. mark = [e \in elements |-> 0] /\ adaptationState_ = NoMarks
  BY DEF Init
<1>2. \A l \in leaves : mark[l] = 0
  BY <1>1 DEF leaves, leavesOf
<1>3. weightOf(mark, leaves) = 0
  BY <1>2, NoWeight
<1>4. QED  BY <1>1, <1>3, NewState DEF WeightInv

(***************************************************************************)
(* The two counters of adaptationState_ are those of the marks of the leaf *)
(* elements at all times outside adapt(), and adapt() leaves no mark       *)
(* behind, though it calls the coarsening of ALBERTA only if               *)
(* coarsenMarked_ is positive (agrid.hh:223-239, albertagrid.cc:421).      *)
(***************************************************************************)
THEOREM MarksAgree ==
  Spec => []MarksCounted
<1>1. Init => MarkInv /\ WeightInv  BY MarkInit, WeightInit
<1>2. IndexInv /\ MarkInv /\ WeightInv /\ [Next]_vars => MarkInv' /\ WeightInv'  BY MarkNext, WeightNext
<1>3. WeightInv => RefinementCounted
  BY DEF WeightInv, RefinementCounted
<1>4. Spec => []RefinementCounted
  BY <1>1, <1>2, <1>3, IndexAlways, PTL DEF Spec
<1>5. QED  BY <1>4, CoarseningMarks, PTL DEF MarksCounted
-----------------------------------------------------------------------------
(* Conforming meshes *)

cornersOf(x) == {x.vertex[i] : i \in 1..3}
apex(x) == x.vertex[3]

(* Elements with children. *)
fathersOf(E) == E \ leavesOf(E)

(* Triangles have three vertices, and no two triangles the same ones. *)
Triangles(E) ==
  /\ \A x \in E : \A i, j \in 1..3 : x.vertex[i] = x.vertex[j] => i = j
  /\ \A x, y \in E : cornersOf(x) = cornersOf(y) => x = y

(* A vertex is a macro vertex or in the middle of an edge that is bisected. *)
VerticesBorn(E) ==
  \A x \in E : \A v \in cornersOf(x) :
    (\E k \in Nat : v = {k}) \/ \E f \in fathersOf(E) : refinementEdge(f) = v

(* No leaf element has an edge that is bisected. *)
NoHangingVertex(E) ==
  \A l \in leavesOf(E), f \in fathersOf(E) : ~(refinementEdge(f) \subseteq cornersOf(l))

(* x, y and z have the vertices a and b in common. *)
Share(x, y, z, a, b) ==
  /\ a # b
  /\ {a, b} \subseteq cornersOf(x) /\ {a, b} \subseteq cornersOf(y) /\ {a, b} \subseteq cornersOf(z)

(* At most two leaf elements have an edge in common, and at most two        *)
(* elements were bisected at the same edge.                                *)
Neighbors(E) ==
  /\ \A x, y, z \in leavesOf(E) : \A a, b : Share(x, y, z, a, b) => x = y \/ x = z \/ y = z
  /\ \A x, y, z \in fathersOf(E) :
       refinementEdge(x) = refinementEdge(y) /\ refinementEdge(y) = refinementEdge(z)
         => x = y \/ x = z \/ y = z

Conforming(E) == Triangles(E) /\ VerticesBorn(E) /\ NoHangingVertex(E) /\ Neighbors(E)

LEMMA Corners ==
  ASSUME NEW x
  PROVE  /\ cornersOf(x) = {x.vertex[1], x.vertex[2], x.vertex[3]}
         /\ cornersOf(x) = refinementEdge(x) \cup {apex(x)}
         /\ refinementEdge(x) = {x.vertex[1], x.vertex[2]}
<1>1. 1..3 = {1, 2, 3}
  OBVIOUS
<1>2. QED  BY <1>1 DEF cornersOf, apex, refinementEdge

(* The child of p at the end a of its refinement edge. *)
son(p, a) == IF a = p.vertex[1] THEN child(p, 0) ELSE child(p, 1)

(* The children by the ends of the refinement edge. *)
LEMMA Sons ==
  ASSUME NEW p, \A i, j \in 1..3 : p.vertex[i] = p.vertex[j] => i = j
  PROVE  /\ \A a \in refinementEdge(p) : son(p, a) \in children(p)
                                         /\ cornersOf(son(p, a)) = {a, apex(p), refinementEdge(p)}
         /\ \A x \in children(p) : \E a \in refinementEdge(p) : x = son(p, a)
         /\ apex(p) \notin refinementEdge(p)
         /\ refinementEdge(p) \subseteq cornersOf(p) /\ apex(p) \in cornersOf(p)
         /\ \A a, b, c \in refinementEdge(p) : a = b \/ a = c \/ b = c
<1>1. PICK v, w, u : v = p.vertex[1] /\ w = p.vertex[2] /\ u = p.vertex[3]
  OBVIOUS
<1>2. v # w /\ v # u /\ w # u
  <2>1. 1 \in 1..3 /\ 2 \in 1..3 /\ 3 \in 1..3 /\ 1 # 2 /\ 1 # 3 /\ 2 # 3
    OBVIOUS
  <2>2. QED  BY <1>1, <2>1
<1>3. refinementEdge(p) = {v, w} /\ apex(p) = u /\ cornersOf(p) = {v, w, u}
  BY <1>1, Corners DEF apex
<1>4. child(p, 0).vertex = <<u, v, {v, w}>> /\ child(p, 1).vertex = <<w, u, {v, w}>>
  BY <1>1 DEF child, element, midpoint
<1>5. cornersOf(child(p, 0)) = {v, u, {v, w}} /\ cornersOf(child(p, 1)) = {w, u, {v, w}}
  <2>1. \A x : x.vertex = <<u, v, {v, w}>> => cornersOf(x) = {v, u, {v, w}}
    <3>1. SUFFICES ASSUME NEW x, x.vertex = <<u, v, {v, w}>> PROVE cornersOf(x) = {v, u, {v, w}}
      OBVIOUS
    <3>2. x.vertex[1] = u /\ x.vertex[2] = v /\ x.vertex[3] = {v, w}
      BY <3>1
    <3>3. cornersOf(x) = {x.vertex[1], x.vertex[2], x.vertex[3]}
      BY Corners
    <3>4. QED  BY ONLY <3>2, <3>3
  <2>2. \A x : x.vertex = <<w, u, {v, w}>> => cornersOf(x) = {w, u, {v, w}}
    <3>1. SUFFICES ASSUME NEW x, x.vertex = <<w, u, {v, w}>> PROVE cornersOf(x) = {w, u, {v, w}}
      OBVIOUS
    <3>2. x.vertex[1] = w /\ x.vertex[2] = u /\ x.vertex[3] = {v, w}
      BY <3>1
    <3>3. cornersOf(x) = {x.vertex[1], x.vertex[2], x.vertex[3]}
      BY Corners
    <3>4. QED  BY ONLY <3>2, <3>3
  <2>3. QED  BY <2>1, <2>2, <1>4
<1>6. son(p, v) = child(p, 0) /\ son(p, w) = child(p, 1)
  BY <1>1, <1>2 DEF son
<1>7. QED  BY <1>2, <1>3, <1>5, <1>6 DEF children

(* The vertices of the macro triangulation. *)
LEMMA MacroConforming ==
  Conforming(macroElements)
<1> DEFINE E == macroElements
<1>1. \A x \in E : \E k \in DOMAIN macros : x = macroElement(k)
  BY DEF macroElements
<1>2. ASSUME NEW k \in DOMAIN macros
      PROVE  /\ \A i \in 1..3 : macroElement(k).vertex[i] = {macros[k][i]} /\ macros[k][i] \in Nat
             /\ \A a : {a} \in cornersOf(macroElement(k)) <=> a \in corners(k)
  <2>1. macros[k] \in [1..3 -> Nat]
    <3>1. macros \in [1..Len(macros) -> [1..3 -> Nat]]
      BY macrosAssumption
    <3>2. QED  BY <3>1
  <2>2. macroElement(k).vertex = [i \in 1..3 |-> {macros[k][i]}]
    BY DEF macroElement, element
  <2>3. \A i \in 1..3 : macroElement(k).vertex[i] = {macros[k][i]} /\ macros[k][i] \in Nat
    BY <2>1, <2>2
  <2>4. \A a : {a} \in cornersOf(macroElement(k)) <=> \E i \in 1..3 : {a} = {macros[k][i]}
    BY <2>3 DEF cornersOf
  <2>5. \A a, b : {a} = {b} => a = b
    OBVIOUS
  <2>6. \A a : {a} \in cornersOf(macroElement(k)) <=> a \in corners(k)
    BY <2>4, <2>5 DEF corners
  <2>7. QED  BY <2>3, <2>6
<1>3. leavesOf(E) = E /\ fathersOf(E) = {}
  <2>1. \A e \in E : child(e, 0) \notin E
    BY ChildFields, MacroFields
  <2>2. QED  BY <2>1 DEF leavesOf, fathersOf
<1>5. Triangles(E)
  <2>1. \A x \in E : \A i, j \in 1..3 : x.vertex[i] = x.vertex[j] => i = j
    <3>1. SUFFICES ASSUME NEW x \in E, NEW i \in 1..3, NEW j \in 1..3, x.vertex[i] = x.vertex[j] PROVE i = j
      OBVIOUS
    <3>2. PICK k \in DOMAIN macros : x = macroElement(k)
      BY <1>1
    <3>3. {macros[k][i]} = {macros[k][j]}
      BY <1>2, <3>1, <3>2
    <3>4. QED  BY <3>3, conformingAssumption
  <2>2. \A x, y \in E : cornersOf(x) = cornersOf(y) => x = y
    <3>1. SUFFICES ASSUME NEW x \in E, NEW y \in E, cornersOf(x) = cornersOf(y) PROVE x = y
      OBVIOUS
    <3>2. PICK k \in DOMAIN macros : x = macroElement(k)
      BY <1>1
    <3>3. PICK l \in DOMAIN macros : y = macroElement(l)
      BY <1>1
    <3>4. corners(k) = corners(l)
      BY <1>2, <3>1, <3>2, <3>3
    <3>5. QED  BY <3>2, <3>3, <3>4, conformingAssumption
  <2>3. QED  BY <2>1, <2>2 DEF Triangles
<1>6. VerticesBorn(E)
  <2>1. \A x \in E : \A v \in cornersOf(x) : \E k \in Nat : v = {k}
    <3>1. SUFFICES ASSUME NEW x \in E, NEW v \in cornersOf(x) PROVE \E k \in Nat : v = {k}
      OBVIOUS
    <3>2. PICK k \in DOMAIN macros : x = macroElement(k)
      BY <1>1
    <3>3. PICK i \in 1..3 : v = x.vertex[i]
      BY DEF cornersOf
    <3>4. QED  BY <1>2, <3>2, <3>3
  <2>2. QED  BY <2>1 DEF VerticesBorn
<1>7. Neighbors(E)
  <2>1. ASSUME NEW x \in E, NEW y \in E, NEW z \in E, NEW a, NEW b, Share(x, y, z, a, b)
        PROVE  x = y \/ x = z \/ y = z
    <3>1. PICK h \in DOMAIN macros, k \in DOMAIN macros, l \in DOMAIN macros :
            x = macroElement(h) /\ y = macroElement(k) /\ z = macroElement(l)
      BY <1>1
    <3>2. a # b /\ a \in cornersOf(x) /\ b \in cornersOf(x) /\ a \in cornersOf(y) /\ b \in cornersOf(y)
          /\ a \in cornersOf(z) /\ b \in cornersOf(z)
      BY <2>1 DEF Share
    <3>3. PICK i \in 1..3, j \in 1..3 : a = x.vertex[i] /\ b = x.vertex[j]
      BY <3>2 DEF cornersOf
    <3>4. i # j /\ a = {macros[h][i]} /\ b = {macros[h][j]}
      BY <1>2, <3>1, <3>2, <3>3
    <3>5. /\ macros[h][i] \in corners(k) /\ macros[h][j] \in corners(k)
          /\ macros[h][i] \in corners(l) /\ macros[h][j] \in corners(l)
      BY <1>2, <3>1, <3>2, <3>4
    <3>8. {macros[h][i], macros[h][j]} \subseteq corners(k) \cap corners(l)
      BY <3>5
    <3>9. h = k \/ h = l \/ k = l
      BY <3>4, <3>8, conformingAssumption
    <3>10. QED  BY <3>1, <3>9
  <2>2. QED  BY <2>1, <1>3 DEF Neighbors
<1>8. NoHangingVertex(E)
  BY <1>3 DEF NoHangingVertex
<1>9. QED  BY <1>5, <1>6, <1>7, <1>8 DEF Conforming
-----------------------------------------------------------------------------
(* Bisection at an edge *)

(* The vertex in the middle of the edge of a leaf element is new. *)
LEMMA NewVertex ==
  ASSUME NEW E, Conforming(E), NEW p \in leavesOf(E)
  PROVE  \A x \in E : refinementEdge(p) \notin cornersOf(x)
<1>1. SUFFICES ASSUME NEW x \in E, refinementEdge(p) \in cornersOf(x) PROVE FALSE
  OBVIOUS
<1>2. p.vertex[1] # p.vertex[2]
  <2>1. p \in E /\ 1 \in 1..3 /\ 2 \in 1..3 /\ 1 # 2
    BY DEF leavesOf
  <2>2. QED  BY <2>1 DEF Conforming, Triangles
<1>3. \A k : refinementEdge(p) # {k}
  BY <1>2 DEF refinementEdge
<1>4. PICK f \in fathersOf(E) : refinementEdge(f) = refinementEdge(p)
  BY <1>1, <1>3 DEF Conforming, VerticesBorn
<1>5. refinementEdge(f) \subseteq cornersOf(p)
  BY <1>4, Corners
<1>6. QED  BY <1>4, <1>5 DEF Conforming, NoHangingVertex

(* x is the child of p that keeps the end a of the edge R. *)
IsSon(x, p, a, R) ==
  /\ x = son(p, a) /\ a \in R /\ cornersOf(x) = {a, apex(p), R}
  /\ R = refinementEdge(p) /\ cornersOf(p) = R \cup {apex(p)} /\ apex(p) \notin R /\ R \notin cornersOf(p)

(* The children of the elements L, bisected at R. *)
LEMMA SonsOf ==
  ASSUME NEW E, Triangles(E), NEW L, L \subseteq E, NEW R, \A p \in L : refinementEdge(p) = R,
         \A p \in L : R \notin cornersOf(p)
  PROVE  /\ \A x \in childrenOf(L) : \E p \in L, a \in R : IsSon(x, p, a, R)
         /\ \A p \in L, a \in R : son(p, a) \in childrenOf(L) /\ IsSon(son(p, a), p, a, R)
         /\ \A p \in L : \A a, b, c \in R : a = b \/ a = c \/ b = c
<1>1. \A p \in L : \A i, j \in 1..3 : p.vertex[i] = p.vertex[j] => i = j
  BY DEF Triangles
<1>2. ASSUME NEW p \in L
      PROVE  /\ \A a \in R : son(p, a) \in children(p) /\ cornersOf(son(p, a)) = {a, apex(p), R}
             /\ \A x \in children(p) : \E a \in R : x = son(p, a)
             /\ apex(p) \notin R
             /\ \A a, b, c \in R : a = b \/ a = c \/ b = c
             /\ R = refinementEdge(p) /\ R \notin cornersOf(p)
  BY <1>1, Sons
<1>3. \A p : cornersOf(p) = refinementEdge(p) \cup {apex(p)}
  BY Corners
<1>4. \A p \in L, a \in R : son(p, a) \in children(p) /\ IsSon(son(p, a), p, a, R)
  BY <1>2, <1>3 DEF IsSon
<1>5. \A x \in childrenOf(L) : \E p \in L : x \in children(p)
  BY DEF childrenOf
<1>6. \A p \in L : \A x \in children(p) : x \in childrenOf(L)
  BY DEF childrenOf
<1>7. ASSUME NEW x \in childrenOf(L) PROVE \E p \in L, a \in R : IsSon(x, p, a, R)
  <2>1. PICK p \in L : x \in children(p)
    BY <1>5
  <2>2. PICK a \in R : x = son(p, a)
    BY <1>2, <2>1
  <2>3. QED  BY <1>4, <2>2
<1>8. QED  BY <1>2, <1>4, <1>6, <1>7

(* The leaf elements after a bisection. *)
LEMMA LeavesRefined ==
  ASSUME NEW E, Mesh(E), NEW L, L \subseteq leavesOf(E)
  PROVE  /\ leavesOf(E \cup childrenOf(L)) = (leavesOf(E) \ L) \cup childrenOf(L)
         /\ fathersOf(E \cup childrenOf(L)) = fathersOf(E) \cup L
         /\ childrenOf(L) \cap E = {}
<1> DEFINE C == childrenOf(L)
           F == E \cup C
<1>1. Mesh(F)
  BY MeshRefined
<1>2. \A x \in C : \E p \in L, i \in {0, 1} : x = child(p, i)
  BY DEF childrenOf, children
<1>3. \A p \in L : child(p, 0) \in C
  BY DEF childrenOf, children
<1>4. L \subseteq E /\ L \subseteq F
  BY DEF leavesOf
<1>5. C \cap E = {}
  BY NoChildYet DEF childrenOf
<1>6. \A x \in C : child(x, 0) \notin F
  <2>1. SUFFICES ASSUME NEW x \in C, child(x, 0) \in F PROVE FALSE
    OBVIOUS
  <2>2. child(x, 0) \in macroElements \/ \E f \in F : child(x, 0) \in children(f)
    BY <1>1, <2>1 DEF Mesh
  <2>3. x \in F /\ x.level \in Nat
    BY <1>1 DEF Mesh
  <2>4. child(x, 0) \notin macroElements
    <3>1. child(x, 0).level = x.level + 1
      BY ChildFields
    <3>2. x.level + 1 # 0
      BY <2>3
    <3>3. QED  BY <3>1, <3>2, MacroFields
  <2>5. child(x, 0) \in C \/ child(x, 0) \in E
    BY <2>1
  <2>6. CASE child(x, 0) \in C
    <3>1. PICK p \in L, i \in {0, 1} : child(x, 0) = child(p, i)
      BY <1>2, <2>6
    <3>2. 0 \in {0, 1} /\ p \in F
      BY <1>4
    <3>3. x = p
      BY ONLY <1>1, <2>3, <3>1, <3>2, SameChild
    <3>4. QED  BY <3>3, <1>4, <1>5
  <2>7. CASE child(x, 0) \in E
    <3>1. PICK f \in E, i \in {0, 1} : child(x, 0) = child(f, i)
      BY <2>4, <2>7 DEF Mesh, children
    <3>2. 0 \in {0, 1} /\ f \in F
      OBVIOUS
    <3>3. x = f
      BY ONLY <1>1, <2>3, <3>1, <3>2, SameChild
    <3>4. QED  BY <3>3, <1>5
  <2>8. QED  BY <2>5, <2>6, <2>7
<1>7. \A x \in E : child(x, 0) \in C => x \in L
  <2>1. SUFFICES ASSUME NEW x \in E, child(x, 0) \in C PROVE x \in L
    OBVIOUS
  <2>2. PICK p \in L, i \in {0, 1} : child(x, 0) = child(p, i)
    BY <1>2, <2>1
  <2>3. 0 \in {0, 1} /\ p \in E
    BY <1>4
  <2>4. x = p
    BY ONLY Mesh(E), x \in E, <2>2, <2>3, SameChild
  <2>5. QED  BY <2>4
<1> HIDE DEF C
<1>8. leavesOf(F) = (leavesOf(E) \ L) \cup C
  BY <1>3, <1>4, <1>5, <1>6, <1>7 DEF leavesOf
<1>9. fathersOf(F) = fathersOf(E) \cup L
  BY <1>4, <1>5, <1>8 DEF fathersOf, leavesOf
<1>10. QED  BY <1>5, <1>8, <1>9 DEF C

(* The leaf elements L are those that have the edge R, which is the         *)
(* refinement edge of each.                                                *)
AtEdge(E, L, R) ==
  /\ L \subseteq leavesOf(E) /\ L # {}
  /\ \A l \in leavesOf(E) : l \in L <=> R \subseteq cornersOf(l)
  /\ \A p \in L : refinementEdge(p) = R

TwoEnds(R) == \E v, w : R = {v, w} /\ v # w

(* The children have one vertex that no element had, and a vertex of a      *)
(* child other than that is one of its father.                             *)
LEMMA SonsAtEdge ==
  ASSUME NEW E, Conforming(E), NEW L, NEW R, AtEdge(E, L, R)
  PROVE  /\ \A x \in E : R \notin cornersOf(x)
         /\ \A x \in childrenOf(L) : \E p \in L, a \in R : IsSon(x, p, a, R)
         /\ \A p \in L, a \in R : son(p, a) \in childrenOf(L) /\ IsSon(son(p, a), p, a, R)
         /\ \A p \in L : \A a, b, c \in R : a = b \/ a = c \/ b = c
         /\ TwoEnds(R) /\ L \subseteq E
<1>1. L \subseteq leavesOf(E) /\ L # {} /\ (\A p \in L : refinementEdge(p) = R) /\ L \subseteq E
  BY DEF AtEdge, leavesOf
<1>2. \A x \in E : R \notin cornersOf(x)
  BY <1>1, NewVertex
<1>3. TwoEnds(R)
  <2>1. PICK p \in L : refinementEdge(p) = R /\ p \in E
    BY <1>1
  <2>2. p.vertex[1] # p.vertex[2]
    <3>1. 1 \in 1..3 /\ 2 \in 1..3 /\ 1 # 2
      OBVIOUS
    <3>2. QED  BY <3>1, <2>1 DEF Conforming, Triangles
  <2>3. QED  BY <2>1, <2>2 DEF refinementEdge, TwoEnds
<1>4. Triangles(E) /\ \A p \in L : R \notin cornersOf(p)
  BY <1>1, <1>2 DEF Conforming
<1>5. /\ \A x \in childrenOf(L) : \E p \in L, a \in R : IsSon(x, p, a, R)
      /\ \A p \in L, a \in R : son(p, a) \in childrenOf(L) /\ IsSon(son(p, a), p, a, R)
      /\ \A p \in L : \A a, b, c \in R : a = b \/ a = c \/ b = c
  <2>1. Triangles(E) /\ L \subseteq E /\ (\A p \in L : refinementEdge(p) = R) /\ \A p \in L : R \notin cornersOf(p)
    BY <1>1, <1>4
  <2> HIDE DEF AtEdge
  <2>2. QED  BY ONLY <2>1, SonsOf
<1>6. QED  BY <1>1, <1>2, <1>3, <1>5

(* Sons of the same element at the same end. *)
LEMMA SameSon ==
  ASSUME NEW x, NEW y, NEW p, NEW q, NEW a, NEW b, NEW R, IsSon(x, p, a, R), IsSon(y, q, b, R)
  PROVE  /\ p = q /\ a = b => x = y
         /\ cornersOf(x) = cornersOf(y) => a = b /\ cornersOf(p) = cornersOf(q)
         /\ a # R /\ apex(p) # R
<1>1. /\ x = son(p, a) /\ a \in R /\ cornersOf(x) = {a, apex(p), R}
      /\ cornersOf(p) = R \cup {apex(p)} /\ apex(p) \notin R /\ R \notin cornersOf(p)
  BY DEF IsSon
<1>2. /\ y = son(q, b) /\ b \in R /\ cornersOf(y) = {b, apex(q), R}
      /\ cornersOf(q) = R \cup {apex(q)} /\ apex(q) \notin R /\ R \notin cornersOf(q)
  BY DEF IsSon
<1>3. a # R /\ apex(p) # R /\ b # R /\ apex(q) # R
  BY <1>1, <1>2
<1>4. ASSUME cornersOf(x) = cornersOf(y) PROVE a = b /\ cornersOf(p) = cornersOf(q)
  <2>1. a = b \/ a = apex(q)
    BY ONLY <1>1, <1>2, <1>3, <1>4
  <2>2. apex(p) = b \/ apex(p) = apex(q)
    BY ONLY <1>1, <1>2, <1>3, <1>4
  <2>3. a = b /\ apex(p) = apex(q)
    BY <1>1, <1>2, <2>1, <2>2
  <2>4. QED  BY <1>1, <1>2, <2>3
<1>5. QED  BY <1>1, <1>2, <1>3, <1>4

(* Children are triangles, and no two the same one. *)
LEMMA TrianglesRefined ==
  ASSUME NEW E, Conforming(E), NEW L, NEW R, AtEdge(E, L, R)
  PROVE  Triangles(E \cup childrenOf(L))
<1> DEFINE C == childrenOf(L)
<1>1. /\ \A x \in E : R \notin cornersOf(x)
      /\ \A x \in C : \E p \in L, a \in R : IsSon(x, p, a, R)
      /\ L \subseteq E
  BY SonsAtEdge
<1>2. /\ \A x \in E : \A i, j \in 1..3 : x.vertex[i] = x.vertex[j] => i = j
      /\ \A x, y \in E : cornersOf(x) = cornersOf(y) => x = y
  BY DEF Conforming, Triangles
<1>3. ASSUME NEW x \in C PROVE \A i, j \in 1..3 : x.vertex[i] = x.vertex[j] => i = j
  <2>1. PICK p \in L : x \in children(p)
    BY DEF childrenOf
  <2>2. PICK u, v, w : u = p.vertex[1] /\ v = p.vertex[2] /\ w = p.vertex[3]
    OBVIOUS
  <2>3. u # v /\ u # w /\ v # w
    <3>1. 1 \in 1..3 /\ 2 \in 1..3 /\ 3 \in 1..3 /\ 1 # 2 /\ 1 # 3 /\ 2 # 3 /\ p \in E
      BY <1>1
    <3>2. QED  BY <3>1, <2>2, <1>2
  <2>4. refinementEdge(p) = {u, v} /\ cornersOf(p) = {u, v, w}
    BY <2>2, Corners
  <2>5. {u, v} # u /\ {u, v} # v /\ {u, v} # w
    <3>1. refinementEdge(p) = R /\ R \notin cornersOf(p)
      BY <1>1 DEF AtEdge
    <3>2. QED  BY <3>1, <2>4
  <2>6. x.vertex = <<w, u, {u, v}>> \/ x.vertex = <<v, w, {u, v}>>
    BY <2>1, <2>2 DEF children, child, element, midpoint
  <2>7. \A i \in 1..3 : i = 1 \/ i = 2 \/ i = 3
    OBVIOUS
  <2>8. QED
    <3>1. CASE x.vertex = <<w, u, {u, v}>>
      <4>1. x.vertex[1] = w /\ x.vertex[2] = u /\ x.vertex[3] = {u, v}
        BY <3>1
      <4>2. QED  BY <4>1, <2>3, <2>5, <2>7
    <3>2. CASE x.vertex = <<v, w, {u, v}>>
      <4>1. x.vertex[1] = v /\ x.vertex[2] = w /\ x.vertex[3] = {u, v}
        BY <3>2
      <4>2. QED  BY <4>1, <2>3, <2>5, <2>7
    <3>3. QED  BY <2>6, <3>1, <3>2
<1>4. ASSUME NEW x \in C, NEW y \in C, cornersOf(x) = cornersOf(y) PROVE x = y
  <2>1. PICK p \in L, a \in R : IsSon(x, p, a, R)
    BY <1>1
  <2>2. PICK q \in L, b \in R : IsSon(y, q, b, R)
    BY <1>1
  <2>3. a = b /\ cornersOf(p) = cornersOf(q)
    BY <1>4, <2>1, <2>2, SameSon
  <2>4. p = q
    BY <1>1, <1>2, <2>3
  <2>5. QED  BY <2>1, <2>2, <2>3, <2>4, SameSon
<1>5. \A x \in C, y \in E : cornersOf(x) # cornersOf(y)
  BY <1>1 DEF IsSon
<1> HIDE DEF C
<1>6. Triangles(E \cup C)
  BY <1>2, <1>3, <1>4, <1>5 DEF Triangles
<1>7. QED  BY <1>6 DEF C

(* The new vertex is in the middle of R, which no leaf element has any more. *)
LEMMA BornRefined ==
  ASSUME NEW E, Mesh(E), Conforming(E), NEW L, NEW R, AtEdge(E, L, R)
  PROVE  VerticesBorn(E \cup childrenOf(L)) /\ NoHangingVertex(E \cup childrenOf(L))
<1> DEFINE C == childrenOf(L)
           F == E \cup C
<1>1. /\ \A x \in E : R \notin cornersOf(x)
      /\ \A x \in C : \E p \in L, a \in R : IsSon(x, p, a, R)
      /\ L \subseteq E
      /\ TwoEnds(R)
  BY SonsAtEdge
<1>2. L \subseteq leavesOf(E) /\ (\A p \in L : refinementEdge(p) = R)
      /\ \A l \in leavesOf(E) : l \in L <=> R \subseteq cornersOf(l)
  BY DEF AtEdge
<1>3. leavesOf(F) = (leavesOf(E) \ L) \cup C /\ fathersOf(F) = fathersOf(E) \cup L
  BY <1>2, LeavesRefined
<1>4. VerticesBorn(E) /\ NoHangingVertex(E)
  BY DEF Conforming
<1> HIDE DEF C
<1>5. ASSUME NEW x \in F, NEW v \in cornersOf(x)
      PROVE  (\E k \in Nat : v = {k}) \/ \E f \in fathersOf(F) : refinementEdge(f) = v
  <2>1. \A y \in E : \A w \in cornersOf(y) :
           (\E k \in Nat : w = {k}) \/ \E f \in fathersOf(F) : refinementEdge(f) = w
    BY <1>3, <1>4 DEF VerticesBorn
  <2>2. CASE x \in E
    BY <2>1, <2>2, <1>5
  <2>3. CASE x \in C
    <3>1. PICK p \in L, a \in R : IsSon(x, p, a, R)
      BY <1>1, <2>3
    <3>2. v = R \/ v \in cornersOf(p)
      BY <3>1, <1>5 DEF IsSon
    <3>3. CASE v = R
      BY <3>3, <1>2, <1>3
    <3>4. CASE v \in cornersOf(p)
      BY <3>4, <2>1, <1>1
    <3>5. QED  BY <3>2, <3>3, <3>4
  <2>4. QED  BY <2>2, <2>3
<1>6. ASSUME NEW l \in leavesOf(F), NEW f \in fathersOf(F), refinementEdge(f) \subseteq cornersOf(l) PROVE FALSE
  <2>1. l \in leavesOf(E) \ L \/ l \in C
    BY <1>3
  <2>2. f \in fathersOf(E) \/ f \in L
    BY <1>3
  <2>3. CASE f \in fathersOf(E) /\ l \in leavesOf(E) \ L
    BY <2>3, <1>4, <1>6 DEF NoHangingVertex
  <2>4. CASE f \in L /\ l \in leavesOf(E) \ L
    BY <2>4, <1>2, <1>6
  <2>5. CASE l \in C
    <3>1. PICK p \in L, a \in R : IsSon(l, p, a, R)
      BY <1>1, <2>5
    <3>2. cornersOf(l) = {a, apex(p), R} /\ cornersOf(p) = R \cup {apex(p)} /\ apex(p) \notin R
          /\ R \notin cornersOf(p)
      BY <3>1 DEF IsSon
    <3>3. CASE f \in fathersOf(E)
      <4>1. f \in E
        BY <3>3 DEF fathersOf
      <4>2. R \notin refinementEdge(f)
        BY <4>1, <1>1, Corners
      <4>3. refinementEdge(f) \subseteq cornersOf(p)
        BY <4>2, <3>2, <1>6
      <4>4. QED  BY <4>3, <3>3, <1>2, <1>4 DEF NoHangingVertex
    <3>4. CASE f \in L
      <4>1. R \subseteq {a, apex(p), R}
        BY <3>4, <3>2, <1>2, <1>6
      <4>2. PICK v, w : R = {v, w} /\ v # w
        BY <1>1 DEF TwoEnds
      <4>3. R # v /\ R # w
        BY <3>2, <4>2
      <4>4. QED  BY <3>2, <4>1, <4>2, <4>3
    <3>5. QED  BY <2>2, <3>3, <3>4
  <2>6. QED  BY <2>1, <2>2, <2>3, <2>4, <2>5
<1> HIDE DEF F
<1>7. VerticesBorn(F) /\ NoHangingVertex(F)
  BY <1>5, <1>6 DEF VerticesBorn, NoHangingVertex
<1>8. QED  BY <1>7 DEF F, C

(* Sons of three elements, two of which are the same. *)
LEMMA TwoSons ==
  ASSUME NEW E, Conforming(E), NEW L, NEW R, AtEdge(E, L, R),
         NEW x \in childrenOf(L), NEW y \in childrenOf(L), NEW z \in childrenOf(L),
         NEW b, b # R, b \in cornersOf(x), b \in cornersOf(y), b \in cornersOf(z)
  PROVE  x = y \/ x = z \/ y = z
<1>1. /\ \A s \in childrenOf(L) : \E p \in L, a \in R : IsSon(s, p, a, R)
      /\ \A p \in L : \A a, c, d \in R : a = c \/ a = d \/ c = d
      /\ TwoEnds(R) /\ L \subseteq E
  BY SonsAtEdge
<1>2. PICK p \in L, a \in R : IsSon(x, p, a, R)
  BY <1>1
<1>3. PICK q \in L, c \in R : IsSon(y, q, c, R)
  BY <1>1
<1>4. PICK r \in L, d \in R : IsSon(z, r, d, R)
  BY <1>1
<1>5. /\ b \in {a, apex(p)} /\ b \in {c, apex(q)} /\ b \in {d, apex(r)}
      /\ apex(p) \notin R /\ apex(q) \notin R /\ apex(r) \notin R
      /\ cornersOf(p) = R \cup {apex(p)} /\ cornersOf(q) = R \cup {apex(q)} /\ cornersOf(r) = R \cup {apex(r)}
  BY <1>2, <1>3, <1>4 DEF IsSon
<1>6. CASE b \in R
  <2>1. a = b /\ c = b /\ d = b
    BY <1>5, <1>6
  <2>2. PICK v, w : R = {v, w} /\ v # w
    BY <1>1 DEF TwoEnds
  <2>3. Share(p, q, r, v, w)
    BY <1>5, <2>2 DEF Share
  <2>4. p \in leavesOf(E) /\ q \in leavesOf(E) /\ r \in leavesOf(E)
    BY DEF AtEdge
  <2>5. p = q \/ p = r \/ q = r
    BY <2>3, <2>4 DEF Conforming, Neighbors
  <2>6. QED  BY <2>1, <2>5, <1>2, <1>3, <1>4, SameSon
<1>7. CASE b \notin R
  <2>1. apex(p) = b /\ apex(q) = b /\ apex(r) = b
    BY <1>2, <1>3, <1>4, <1>5, <1>7
  <2>2. p = q /\ p = r
    BY <2>1, <1>1, <1>5 DEF Conforming, Triangles
  <2>3. a = c \/ a = d \/ c = d
    BY <1>1
  <2>4. QED  BY <2>2, <2>3, <1>2, <1>3, <1>4, SameSon
<1>8. QED  BY <1>6, <1>7

(* Three elements cannot be different if their fathers, or themselves, are  *)
(* not: x and u are the same or x is a child of u at the edge.             *)
Comes(x, u, E, L, R) ==
  \/ x \in leavesOf(E) /\ x \notin L /\ u = x
  \/ u \in L /\ \E a \in R : IsSon(x, u, a, R)

(* Different elements for u have no edge in common but those at the new vertex. *)
LEMMA ComesOnce ==
  ASSUME NEW E, NEW L, NEW R, NEW x, NEW y, NEW u, Comes(x, u, E, L, R), Comes(y, u, E, L, R),
         NEW a, NEW b, a # b, a # R, b # R, {a, b} \subseteq cornersOf(x), {a, b} \subseteq cornersOf(y)
  PROVE  x = y
<1>1. CASE u \notin L
  BY <1>1 DEF Comes
<1>2. CASE u \in L
  <2>1. (\E c \in R : IsSon(x, u, c, R)) /\ \E d \in R : IsSon(y, u, d, R)
    BY <1>2 DEF Comes
  <2>2. PICK c \in R, d \in R : IsSon(x, u, c, R) /\ IsSon(y, u, d, R)
    BY <2>1
  <2>3. /\ {a, b} \subseteq {c, apex(u), R} /\ {a, b} \subseteq {d, apex(u), R} /\ apex(u) \notin R
    BY <2>2 DEF IsSon
  <2>4. {a, b} \subseteq {c, apex(u)} /\ {a, b} \subseteq {d, apex(u)}
    BY <2>3
  <2>5. c = d
    BY <2>4
  <2>6. QED  BY <2>2, <2>5, SameSon
<1>3. QED  BY <1>1, <1>2

(* No edge gets a third leaf element. *)
LEMMA NeighborsRefined ==
  ASSUME NEW E, Mesh(E), Conforming(E), NEW L, NEW R, AtEdge(E, L, R)
  PROVE  Neighbors(E \cup childrenOf(L))
<1> DEFINE C == childrenOf(L)
           F == E \cup C
<1>1. /\ \A x \in E : R \notin cornersOf(x)
      /\ \A x \in C : \E p \in L, a \in R : IsSon(x, p, a, R)
      /\ L \subseteq E /\ TwoEnds(R)
  BY SonsAtEdge
<1>2. L \subseteq leavesOf(E) /\ (\A p \in L : refinementEdge(p) = R)
      /\ \A l \in leavesOf(E) : l \in L <=> R \subseteq cornersOf(l)
  BY DEF AtEdge
<1>3. leavesOf(F) = (leavesOf(E) \ L) \cup C /\ fathersOf(F) = fathersOf(E) \cup L
  BY <1>2, LeavesRefined
<1>4. Neighbors(E) /\ NoHangingVertex(E) /\ leavesOf(E) \subseteq E
  BY DEF Conforming, leavesOf
<1>5. ASSUME NEW x \in C, NEW y \in C, NEW z \in C, NEW b, b # R,
             b \in cornersOf(x), b \in cornersOf(y), b \in cornersOf(z)
      PROVE  x = y \/ x = z \/ y = z
  BY <1>5, TwoSons
<1> HIDE DEF C
<1>6. ASSUME NEW x \in leavesOf(F), NEW y \in leavesOf(F), NEW z \in leavesOf(F), NEW a, NEW b,
             Share(x, y, z, a, b)
      PROVE  x = y \/ x = z \/ y = z
  <2>1. /\ a # b /\ a \in cornersOf(x) /\ a \in cornersOf(y) /\ a \in cornersOf(z)
        /\ b \in cornersOf(x) /\ b \in cornersOf(y) /\ b \in cornersOf(z)
    BY <1>6 DEF Share
  <2>2. \A s \in leavesOf(F) : R \in cornersOf(s) => s \in C
    BY <1>1, <1>3, <1>4
  <2>3. CASE a = R \/ b = R
    <3>1. x \in C /\ y \in C /\ z \in C
      BY <2>1, <2>2, <2>3
    <3>2. CASE a = R
      <4>1. b # R
        BY <2>1, <3>2
      <4>2. QED  BY <3>1, <4>1, <2>1, <1>5
    <3>3. CASE b = R
      <4>1. a # R
        BY <2>1, <3>3
      <4>2. QED  BY <3>1, <4>1, <2>1, <1>5
    <3>4. QED  BY <2>3, <3>2, <3>3
  <2>4. CASE a # R /\ b # R
    <3>1. \A s \in leavesOf(F) : {a, b} \subseteq cornersOf(s) =>
             \E u \in leavesOf(E) : Comes(s, u, E, L, R) /\ {a, b} \subseteq cornersOf(u)
      <4>1. SUFFICES ASSUME NEW s \in leavesOf(F), {a, b} \subseteq cornersOf(s)
                     PROVE  \E u \in leavesOf(E) : Comes(s, u, E, L, R) /\ {a, b} \subseteq cornersOf(u)
        OBVIOUS
      <4>2. CASE s \in leavesOf(E) \ L
        BY <4>1, <4>2 DEF Comes
      <4>3. CASE s \in C
        <5>1. PICK p \in L, c \in R : IsSon(s, p, c, R)
          BY <4>3, <1>1
        <5>2. cornersOf(s) = {c, apex(p), R} /\ cornersOf(p) = R \cup {apex(p)}
          BY <5>1 DEF IsSon
        <5>3. {a, b} \subseteq cornersOf(p)
          BY <5>2, <4>1, <2>4
        <5>4. Comes(s, p, E, L, R)
          BY <5>1 DEF Comes
        <5>5. QED  BY <5>3, <5>4, <1>2
      <4>4. QED  BY <1>3, <4>2, <4>3
    <3>2. {a, b} \subseteq cornersOf(x) /\ {a, b} \subseteq cornersOf(y) /\ {a, b} \subseteq cornersOf(z)
      BY <2>1
    <3>3. PICK u \in leavesOf(E) : Comes(x, u, E, L, R) /\ {a, b} \subseteq cornersOf(u)
      BY <3>1, <3>2
    <3>4. PICK v \in leavesOf(E) : Comes(y, v, E, L, R) /\ {a, b} \subseteq cornersOf(v)
      BY <3>1, <3>2
    <3>5. PICK w \in leavesOf(E) : Comes(z, w, E, L, R) /\ {a, b} \subseteq cornersOf(w)
      BY <3>1, <3>2
    <3>6. Share(u, v, w, a, b)
      BY <2>1, <3>3, <3>4, <3>5 DEF Share
    <3>7. u = v \/ u = w \/ v = w
      BY <3>6, <1>4 DEF Neighbors
    <3>8. u = v => x = y
      BY ONLY <2>1, <2>4, <3>2, <3>3, <3>4, ComesOnce
    <3>9. u = w => x = z
      BY ONLY <2>1, <2>4, <3>2, <3>3, <3>5, ComesOnce
    <3>10. v = w => y = z
      BY ONLY <2>1, <2>4, <3>2, <3>4, <3>5, ComesOnce
    <3>11. QED  BY <3>7, <3>8, <3>9, <3>10
  <2>5. QED  BY <2>3, <2>4
<1>7. ASSUME NEW x \in fathersOf(F), NEW y \in fathersOf(F), NEW z \in fathersOf(F),
             refinementEdge(x) = refinementEdge(y), refinementEdge(y) = refinementEdge(z)
      PROVE  x = y \/ x = z \/ y = z
  <2>1. \A f \in fathersOf(E) : refinementEdge(f) # R
    <3>1. SUFFICES ASSUME NEW f \in fathersOf(E), refinementEdge(f) = R PROVE FALSE
      OBVIOUS
    <3>2. PICK p \in L : TRUE
      BY DEF AtEdge
    <3>3. refinementEdge(f) \subseteq cornersOf(p) /\ p \in leavesOf(E)
      BY <3>1, <3>2, <1>2
    <3>4. QED  BY <3>3, <1>4 DEF NoHangingVertex
  <2>2. CASE refinementEdge(x) = R
    <3>1. x \in L /\ y \in L /\ z \in L
      BY <1>3, <1>7, <2>1, <2>2
    <3>2. PICK v, w : R = {v, w} /\ v # w
      BY <1>1 DEF TwoEnds
    <3>3. Share(x, y, z, v, w) /\ x \in leavesOf(E) /\ y \in leavesOf(E) /\ z \in leavesOf(E)
      BY <3>1, <3>2, <1>2 DEF Share
    <3>4. QED  BY <3>3, <1>4 DEF Neighbors
  <2>3. CASE refinementEdge(x) # R
    <3>1. x \in fathersOf(E) /\ y \in fathersOf(E) /\ z \in fathersOf(E)
      BY <1>2, <1>3, <1>7, <2>3
    <3>2. QED  BY <3>1, <1>4, <1>7 DEF Neighbors
  <2>4. QED  BY <2>2, <2>3
<1> HIDE DEF F
<1>8. Neighbors(F)
  BY <1>6, <1>7 DEF Neighbors
<1>9. QED  BY <1>8 DEF F, C

(* Bisection of the leaf elements at an edge. *)
LEMMA ConformingRefined ==
  ASSUME NEW E, Mesh(E), Conforming(E), NEW L, NEW R, AtEdge(E, L, R)
  PROVE  Conforming(E \cup childrenOf(L))
BY TrianglesRefined, BornRefined, NeighborsRefined DEF Conforming
-----------------------------------------------------------------------------
(* The end of a bisection *)

(* The elements L were bisected at the edge R, no others were, and their    *)
(* children are leaf elements.                                             *)
AroundEdge(E, L, R) ==
  /\ L \subseteq fathersOf(E) /\ L # {}
  /\ \A f \in fathersOf(E) : f \in L <=> refinementEdge(f) = R
  /\ childrenOf(L) \subseteq leavesOf(E)

(* The children that go, as in SonsAtEdge. *)
LEMMA SonsAroundEdge ==
  ASSUME NEW E, Conforming(E), NEW L, NEW R, AroundEdge(E, L, R)
  PROVE  /\ \A x \in childrenOf(L) : \E p \in L, a \in R : IsSon(x, p, a, R)
         /\ \A p \in L, a \in R : son(p, a) \in childrenOf(L) /\ IsSon(son(p, a), p, a, R)
         /\ TwoEnds(R) /\ L \subseteq E
<1>1. L \subseteq E /\ L # {} /\ (\A p \in L : refinementEdge(p) = R) /\ childrenOf(L) \subseteq E
  BY DEF AroundEdge, fathersOf, leavesOf
<1>2. \A x \in E : \A i, j \in 1..3 : x.vertex[i] = x.vertex[j] => i = j
  BY DEF Conforming, Triangles
<1>3. 1 \in 1..3 /\ 2 \in 1..3 /\ 3 \in 1..3 /\ 1 # 2 /\ 1 # 3 /\ 2 # 3
  OBVIOUS
<1>4. TwoEnds(R)
  <2>1. PICK p \in L : refinementEdge(p) = R /\ p \in E
    BY <1>1
  <2>2. p.vertex[1] # p.vertex[2]
    BY <1>2, <1>3, <2>1
  <2>3. QED  BY <2>1, <2>2 DEF refinementEdge, TwoEnds
<1>5. ASSUME NEW p \in L PROVE R \notin cornersOf(p)
  <2>1. child(p, 0) \in E /\ child(p, 1) \in E
    BY <1>1 DEF childrenOf, children
  <2>2. R = {p.vertex[1], p.vertex[2]}
    BY <1>1 DEF refinementEdge
  <2>3. /\ child(p, 0).vertex = <<p.vertex[3], p.vertex[1], R>>
        /\ child(p, 1).vertex = <<p.vertex[2], p.vertex[3], R>>
    BY <2>2 DEF child, element, midpoint
  <2>4. /\ child(p, 0).vertex[1] = p.vertex[3] /\ child(p, 0).vertex[2] = p.vertex[1] /\ child(p, 0).vertex[3] = R
        /\ child(p, 1).vertex[1] = p.vertex[2] /\ child(p, 1).vertex[3] = R
    BY <2>3
  <2>5. R # p.vertex[3] /\ R # p.vertex[1] /\ R # p.vertex[2]
    BY <1>2, <1>3, <2>1, <2>4
  <2>6. QED  BY <2>5, Corners
<1>6. Triangles(E) /\ L \subseteq E /\ (\A p \in L : refinementEdge(p) = R) /\ \A p \in L : R \notin cornersOf(p)
  BY <1>1, <1>5 DEF Conforming
<1>7. /\ \A x \in childrenOf(L) : \E p \in L, a \in R : IsSon(x, p, a, R)
      /\ \A p \in L, a \in R : son(p, a) \in childrenOf(L) /\ IsSon(son(p, a), p, a, R)
  BY ONLY <1>6, SonsOf
<1>8. QED  BY <1>1, <1>4, <1>7

(* The leaf elements after the children are gone. *)
LEMMA LeavesCoarsened ==
  ASSUME NEW E, Mesh(E), NEW L, L \subseteq fathersOf(E), childrenOf(L) \subseteq leavesOf(E)
  PROVE  /\ leavesOf(E \ childrenOf(L)) = (leavesOf(E) \ childrenOf(L)) \cup L
         /\ fathersOf(E \ childrenOf(L)) = fathersOf(E) \ L
<1> DEFINE C == childrenOf(L)
<1>1. \A x \in C : \E p \in L, i \in {0, 1} : x = child(p, i)
  BY DEF childrenOf, children
<1>2. \A p \in L : child(p, 0) \in C
  BY DEF childrenOf, children
<1>3. L \subseteq E /\ L \cap leavesOf(E) = {} /\ leavesOf(E) \subseteq E
  BY DEF fathersOf, leavesOf
<1>4. \A x \in E : child(x, 0) \in C => x \in L
  <2>1. SUFFICES ASSUME NEW x \in E, child(x, 0) \in C PROVE x \in L
    OBVIOUS
  <2>2. PICK p \in L, i \in {0, 1} : child(x, 0) = child(p, i)
    BY <1>1, <2>1
  <2>3. 0 \in {0, 1} /\ p \in E
    BY <1>3
  <2>4. x = p
    BY ONLY Mesh(E), x \in E, <2>2, <2>3, SameChild
  <2>5. QED  BY <2>4
<1> HIDE DEF C
<1>5. C \subseteq leavesOf(E)
  BY DEF C
<1>6. leavesOf(E \ C) = (leavesOf(E) \ C) \cup L
  BY <1>2, <1>3, <1>4, <1>5 DEF leavesOf
<1>7. fathersOf(E \ C) = fathersOf(E) \ L
  BY <1>3, <1>5, <1>6 DEF fathersOf
<1>8. QED  BY <1>6, <1>7 DEF C

(* Only the children have the vertex in the middle of the edge. *)
LEMMA VertexGoes ==
  ASSUME NEW E, Mesh(E), Conforming(E), NEW L, NEW R, AroundEdge(E, L, R)
  PROVE  \A x \in E : R \in cornersOf(x) => x \in childrenOf(L)
<1> DEFINE C == childrenOf(L)
           T == {n \in Nat : \A x \in E : x.level = n /\ R \in cornersOf(x) => x \in C}
<1>1. TwoEnds(R) /\ L \subseteq fathersOf(E) /\ C \subseteq leavesOf(E)
      /\ \A f \in fathersOf(E) : f \in L <=> refinementEdge(f) = R
  BY SonsAroundEdge DEF AroundEdge
<1>2. \A x \in E : x.level \in Nat /\ (x \in macroElements \/ \E f \in E : x \in children(f))
  BY DEF Mesh
<1>3. \A x \in macroElements : R \notin cornersOf(x)
  <2>1. \A x \in macroElements : \A v \in cornersOf(x) : \E k \in Nat : v = {k}
    <3>1. fathersOf(macroElements) = {}
      <4>1. \A e \in macroElements : child(e, 0) \notin macroElements
        BY ChildFields, MacroFields
      <4>2. QED  BY <4>1 DEF leavesOf, fathersOf
    <3>2. QED  BY <3>1, MacroConforming DEF Conforming, VerticesBorn
  <2>2. \A k : R # {k}
    BY <1>1 DEF TwoEnds
  <2>3. QED  BY <2>1, <2>2
<1>4. ASSUME NEW x \in E, R \in cornersOf(x)
      PROVE  \E f \in E : x \in children(f) /\ f \in fathersOf(E) /\ (f \in L \/ R \in cornersOf(f))
  <2>1. PICK f \in E : x \in children(f)
    BY <1>2, <1>3, <1>4
  <2>2. f \in fathersOf(E)
    <3>1. f \in leavesOf(E) => children(f) \cap E = {}
      BY NoChildYet
    <3>2. QED  BY <2>1, <3>1 DEF fathersOf
  <2>3. \A i, j \in 1..3 : f.vertex[i] = f.vertex[j] => i = j
    BY DEF Conforming, Triangles
  <2>4. PICK a \in refinementEdge(f) : x = son(f, a) /\ cornersOf(x) = {a, apex(f), refinementEdge(f)}
    BY <2>1, <2>3, Sons
  <2>5. a \in cornersOf(f) /\ apex(f) \in cornersOf(f)
    BY Corners
  <2>6. QED  BY <1>1, <1>4, <2>1, <2>2, <2>4, <2>5
<1>5. \A f \in E : f \in fathersOf(E) => f \notin C
  BY <1>1 DEF fathersOf
<1>6. \A f \in L : children(f) \subseteq C
  BY DEF childrenOf
<1> HIDE DEF C
<1>7. 0 \in T
  <2>1. SUFFICES ASSUME NEW x \in E, x.level = 0, R \in cornersOf(x) PROVE x \in C
    OBVIOUS
  <2>2. PICK f \in E : x \in children(f)
    BY <1>4, <2>1
  <2>3. x.level = f.level + 1 /\ f.level \in Nat
    BY <2>2, <1>2, ChildFields DEF children
  <2>4. f.level + 1 # 0
    BY <2>3
  <2>5. QED  BY <2>1, <2>3, <2>4
<1>8. \A n \in Nat : n \in T => n + 1 \in T
  <2>1. SUFFICES ASSUME NEW n \in Nat, n \in T, NEW x \in E, x.level = n + 1, R \in cornersOf(x) PROVE x \in C
    OBVIOUS
  <2>2. PICK f \in E : x \in children(f) /\ f \in fathersOf(E) /\ (f \in L \/ R \in cornersOf(f))
    BY <1>4, <2>1
  <2>3. f.level = n
    <3>1. x.level = f.level + 1 /\ f.level \in Nat
      BY <2>2, <1>2, ChildFields DEF children
    <3>2. \A k, m \in Nat : k + 1 = m + 1 => k = m
      OBVIOUS
    <3>3. QED  BY <2>1, <3>1, <3>2
  <2>4. ~(R \in cornersOf(f))
    BY <2>1, <2>2, <2>3, <1>5
  <2>5. QED  BY <2>2, <2>4, <1>6
<1>9. Nat \subseteq T
  <2> HIDE DEF T
  <2>1. QED  BY <1>7, <1>8, InductionOn
<1>10. \A x \in E : x.level \in T
  <2> HIDE DEF T
  <2>1. QED  BY <1>2, <1>9
<1>11. \A x \in E : R \in cornersOf(x) => x \in C
  BY <1>10
<1>12. QED  BY <1>11 DEF C

(* The sides of an element other than its refinement edge are those of its  *)
(* children.                                                               *)
LEMMA SideOfSon ==
  ASSUME NEW p, NEW R, NEW a, NEW b, a # b, {a, b} \subseteq cornersOf(p), {a, b} # R,
         refinementEdge(p) = R, TwoEnds(R)
  PROVE  \E c \in R : \A x : IsSon(x, p, c, R) => {a, b} \subseteq cornersOf(x)
<1>1. cornersOf(p) = R \cup {apex(p)}
  BY Corners
<1>2. PICK v, w : R = {v, w} /\ v # w
  BY DEF TwoEnds
<1>3. \E c \in R : {a, b} \subseteq {c, apex(p)}
  BY <1>1, <1>2
<1>4. QED  BY <1>3 DEF IsSon

(* A conforming mesh is conforming after elements bisected at an edge have lost their children. *)
LEMMA ConformingCoarsened ==
  ASSUME NEW E, Mesh(E), Conforming(E), NEW L, NEW R, AroundEdge(E, L, R)
  PROVE  Conforming(E \ childrenOf(L))
<1> DEFINE C == childrenOf(L)
           F == E \ C
<1>1. /\ \A p \in L, a \in R : son(p, a) \in C /\ IsSon(son(p, a), p, a, R)
      /\ TwoEnds(R) /\ L \subseteq E
  BY SonsAroundEdge
<1>2. /\ L \subseteq fathersOf(E) /\ C \subseteq leavesOf(E)
      /\ \A f \in fathersOf(E) : f \in L <=> refinementEdge(f) = R
  BY DEF AroundEdge
<1>3. leavesOf(F) = (leavesOf(E) \ C) \cup L /\ fathersOf(F) = fathersOf(E) \ L
  BY <1>2, LeavesCoarsened
<1>4. \A x \in F : R \notin cornersOf(x)
  BY VertexGoes
<1>5. Triangles(E) /\ VerticesBorn(E) /\ NoHangingVertex(E) /\ Neighbors(E)
      /\ leavesOf(E) \subseteq E /\ fathersOf(E) \subseteq E
  BY DEF Conforming, leavesOf, fathersOf
<1> HIDE DEF C
<1>6. Triangles(F)
  BY <1>5 DEF Triangles
<1>7. VerticesBorn(F)
  <2>1. SUFFICES ASSUME NEW x \in F, NEW v \in cornersOf(x), \A k \in Nat : v # {k}
                 PROVE  \E f \in fathersOf(F) : refinementEdge(f) = v
    BY DEF VerticesBorn
  <2>2. PICK f \in fathersOf(E) : refinementEdge(f) = v
    BY <2>1, <1>5 DEF VerticesBorn
  <2>3. f \notin L
    BY <1>2, <1>4, <2>2
  <2>4. QED  BY <2>2, <2>3, <1>3
<1>8. NoHangingVertex(F)
  <2>1. SUFFICES ASSUME NEW l \in leavesOf(F), NEW f \in fathersOf(F), refinementEdge(f) \subseteq cornersOf(l) PROVE FALSE
    BY DEF NoHangingVertex
  <2>2. f \in fathersOf(E) /\ f \notin L /\ refinementEdge(f) # R
    BY <1>2, <1>3
  <2>3. l \in leavesOf(E) \/ l \in L
    BY <1>3
  <2>4. l \in L
    BY <2>1, <2>2, <2>3, <1>5 DEF NoHangingVertex
  <2>5. f.vertex[1] # f.vertex[2]
    <3>1. 1 \in 1..3 /\ 2 \in 1..3 /\ 1 # 2
      OBVIOUS
    <3>2. QED  BY <3>1, <2>2, <1>5 DEF Triangles
  <2>6. PICK a, b : a # b /\ refinementEdge(f) = {a, b}
    BY <2>5 DEF refinementEdge
  <2>7. refinementEdge(l) = R
    BY <2>4, <1>2
  <2>8. PICK c \in R : \A x : IsSon(x, l, c, R) => {a, b} \subseteq cornersOf(x)
    BY <2>1, <2>2, <2>6, <2>7, <1>1, SideOfSon
  <2>9. son(l, c) \in C /\ {a, b} \subseteq cornersOf(son(l, c))
    BY <2>4, <2>8, <1>1
  <2>10. QED  BY <2>2, <2>6, <2>9, <1>2, <1>5 DEF NoHangingVertex
<1>9. ASSUME NEW x \in leavesOf(F), NEW y \in leavesOf(F), NEW z \in leavesOf(F), NEW a, NEW b,
             Share(x, y, z, a, b)
      PROVE  x = y \/ x = z \/ y = z
  <2>1. a # b /\ {a, b} \subseteq cornersOf(x) /\ {a, b} \subseteq cornersOf(y) /\ {a, b} \subseteq cornersOf(z)
    BY <1>9 DEF Share
  <2>2. CASE {a, b} = R
    <3>1. PICK p \in L : refinementEdge(p) = R /\ p \in fathersOf(E)
      BY <1>2 DEF AroundEdge
    <3>2. \A l \in leavesOf(E) : ~(R \subseteq cornersOf(l))
      BY <3>1, <1>5 DEF NoHangingVertex
    <3>3. x \in L /\ y \in L /\ z \in L
      BY <3>2, <2>1, <2>2, <1>3
    <3>4. QED  BY <3>3, <1>2, <1>5 DEF Neighbors
  <2>3. CASE {a, b} # R
    <3> DEFINE Goes(s, u) == \/ s \in leavesOf(E) /\ s \notin C /\ u = s
                             \/ s \in L /\ \E c \in R : u = son(s, c)
    <3>1. \A s \in leavesOf(F) : {a, b} \subseteq cornersOf(s) =>
             \E u \in leavesOf(E) : Goes(s, u) /\ {a, b} \subseteq cornersOf(u)
      <4>1. SUFFICES ASSUME NEW s \in leavesOf(F), {a, b} \subseteq cornersOf(s)
                     PROVE  \E u \in leavesOf(E) : Goes(s, u) /\ {a, b} \subseteq cornersOf(u)
        OBVIOUS
      <4>2. CASE s \in leavesOf(E) \ C
        BY <4>1, <4>2
      <4>3. CASE s \in L
        <5>1. refinementEdge(s) = R
          BY <4>3, <1>2
        <5>2. PICK c \in R : \A u : IsSon(u, s, c, R) => {a, b} \subseteq cornersOf(u)
          BY <4>1, <5>1, <2>1, <2>3, <1>1, SideOfSon
        <5>3. son(s, c) \in C /\ {a, b} \subseteq cornersOf(son(s, c))
          BY <4>3, <5>2, <1>1
        <5>4. QED  BY <4>3, <5>3, <1>2
      <4>4. QED  BY <1>3, <4>2, <4>3
    <3>2. \A u : \A s, t \in leavesOf(F) : Goes(s, u) /\ Goes(t, u) => s = t
      <4>1. SUFFICES ASSUME NEW s \in leavesOf(F), NEW t \in leavesOf(F), NEW u, Goes(s, u), Goes(t, u) PROVE s = t
        OBVIOUS
      <4>2. CASE u \notin C
        BY <4>1, <4>2, <1>1
      <4>3. CASE u \in C
        <5>1. PICK c \in R, d \in R : s \in L /\ t \in L /\ u = son(s, c) /\ u = son(t, d)
          BY <4>1, <4>3
        <5>2. PICK i \in {0, 1}, j \in {0, 1} : u = child(s, i) /\ u = child(t, j)
          BY <5>1 DEF son
        <5>3. s \in E /\ t \in E /\ child(s, i) = child(t, j)
          BY <5>1, <5>2, <1>1
        <5>4. QED  BY ONLY Mesh(E), i \in {0, 1}, j \in {0, 1}, <5>3, SameChild
      <4>4. QED  BY <4>2, <4>3
    <3> HIDE DEF Goes
    <3>3. PICK u \in leavesOf(E) : Goes(x, u) /\ {a, b} \subseteq cornersOf(u)
      BY <3>1, <2>1
    <3>4. PICK v \in leavesOf(E) : Goes(y, v) /\ {a, b} \subseteq cornersOf(v)
      BY <3>1, <2>1
    <3>5. PICK w \in leavesOf(E) : Goes(z, w) /\ {a, b} \subseteq cornersOf(w)
      BY <3>1, <2>1
    <3>6. Share(u, v, w, a, b)
      BY <2>1, <3>3, <3>4, <3>5 DEF Share
    <3>7. u = v \/ u = w \/ v = w
      BY <3>6, <1>5 DEF Neighbors
    <3>8. QED  BY <3>2, <3>3, <3>4, <3>5, <3>7
  <2>4. QED  BY <2>2, <2>3
<1>10. Neighbors(F)
  BY <1>3, <1>5, <1>9 DEF Neighbors
<1> HIDE DEF F
<1>11. Conforming(F)
  BY <1>6, <1>7, <1>8, <1>10 DEF Conforming
<1>12. QED  BY <1>11 DEF F, C
-----------------------------------------------------------------------------
(* The edges and vertices of a patch *)

(* What the elements L get inside when they are bisected at R. *)
inside(c, L, R) ==
  CASE c = 0 -> childrenOf(L)
    [] c = 1 -> {{v, R} : v \in UNION {cornersOf(p) : p \in L}}
    [] c = 2 -> {R}

(* inside(), codimension by codimension. *)
LEMMA InsideIs ==
  ASSUME NEW L, NEW R
  PROVE  /\ inside(0, L, R) = childrenOf(L)
         /\ \A s : s \in inside(1, L, R) <=> \E p \in L : \E v \in cornersOf(p) : s = {v, R}
         /\ inside(2, L, R) = {R}
<1>1. inside(1, L, R) = {{v, R} : v \in UNION {cornersOf(p) : p \in L}}
  BY DEF inside
<1>2. inside(0, L, R) = childrenOf(L) /\ inside(2, L, R) = {R}
  BY DEF inside
<1>3. QED  BY <1>1, <1>2

(* The edges and vertices of an element. *)
LEMMA SubEntitiesOf ==
  ASSUME NEW x
  PROVE  /\ subEntity(x, 1, 1) = {x.vertex[2], x.vertex[3]}
         /\ subEntity(x, 1, 2) = {x.vertex[1], x.vertex[3]}
         /\ subEntity(x, 1, 3) = {x.vertex[1], x.vertex[2]}
         /\ \A i \in 1..3 : subEntity(x, 2, i) = x.vertex[i]
<1>1. \A i : subEntity(x, 1, i) = {x.vertex[j] : j \in (1..3) \ {i}}
  BY DEF subEntity
<1>2. (1..3) \ {1} = {2, 3} /\ (1..3) \ {2} = {1, 3} /\ (1..3) \ {3} = {1, 2}
  OBVIOUS
<1>3. {x.vertex[j] : j \in {2, 3}} = {x.vertex[2], x.vertex[3]}
      /\ {x.vertex[j] : j \in {1, 3}} = {x.vertex[1], x.vertex[3]}
      /\ {x.vertex[j] : j \in {1, 2}} = {x.vertex[1], x.vertex[2]}
  OBVIOUS
<1>4. \A i \in 1..3 : subEntity(x, 2, i) = x.vertex[i]
  BY DEF subEntity
<1>5. QED  BY <1>1, <1>2, <1>3, <1>4

(* s is an edge of x. *)
Side(x, s) == \E a, b \in cornersOf(x) : a # b /\ s = {a, b}

(* The edges and vertices of a mesh. *)
LEMMA EntitiesAre ==
  ASSUME NEW E, Triangles(E)
  PROVE  /\ \A s : s \in entities(E, 1) <=> \E x \in E : Side(x, s)
         /\ \A s : s \in entities(E, 2) <=> \E x \in E : s \in cornersOf(x)
<1>1. \A s : s \in entities(E, 1) <=> \E x \in E : \E i \in 1..3 : s = subEntity(x, 1, i)
  BY DEF entities, numSubEntities
<1>2. \A s : s \in entities(E, 2) <=> \E x \in E : \E i \in 1..3 : s = subEntity(x, 2, i)
  BY DEF entities, numSubEntities
<1>3. ASSUME NEW x \in E, NEW s
      PROVE  (\E i \in 1..3 : s = subEntity(x, 1, i)) <=> Side(x, s)
  <2>1. PICK u, v, w : u = x.vertex[1] /\ v = x.vertex[2] /\ w = x.vertex[3]
    OBVIOUS
  <2>2. u # v /\ u # w /\ v # w
    <3>1. 1 \in 1..3 /\ 2 \in 1..3 /\ 3 \in 1..3 /\ 1 # 2 /\ 1 # 3 /\ 2 # 3
      OBVIOUS
    <3>2. QED  BY <3>1, <2>1 DEF Triangles
  <2>3. cornersOf(x) = {u, v, w}
    BY <2>1, Corners
  <2>4. subEntity(x, 1, 1) = {v, w} /\ subEntity(x, 1, 2) = {u, w} /\ subEntity(x, 1, 3) = {u, v}
    BY <2>1, SubEntitiesOf
  <2>5. (\E i \in 1..3 : s = subEntity(x, 1, i)) <=> s = {v, w} \/ s = {u, w} \/ s = {u, v}
    <3>1. 1..3 = {1, 2, 3}
      OBVIOUS
    <3>2. QED  BY <3>1, <2>4
  <2>6. Side(x, s) <=> s = {v, w} \/ s = {u, w} \/ s = {u, v}
    BY ONLY <2>2, <2>3 DEF Side
  <2>7. QED  BY <2>5, <2>6
<1>4. ASSUME NEW x \in E, NEW s
      PROVE  (\E i \in 1..3 : s = subEntity(x, 2, i)) <=> s \in cornersOf(x)
  BY SubEntitiesOf DEF cornersOf
<1>5. \A s : s \in entities(E, 1) <=> \E x \in E : Side(x, s)
  BY ONLY <1>1, <1>3
<1>6. \A s : s \in entities(E, 2) <=> \E x \in E : s \in cornersOf(x)
  BY ONLY <1>2, <1>4
<1>7. QED  BY <1>5, <1>6

(* A bisection adds the entities inside, and they are new. *)
LEMMA EntitiesRefined ==
  ASSUME NEW E, Mesh(E), Conforming(E), NEW L, NEW R, AtEdge(E, L, R), NEW c \in codims
  PROVE  /\ entities(E \cup childrenOf(L), c) = entities(E, c) \cup inside(c, L, R)
         /\ entities(E, c) \cap inside(c, L, R) = {}
<1> DEFINE C == childrenOf(L)
           F == E \cup C
<1>1. /\ \A x \in E : R \notin cornersOf(x)
      /\ \A x \in C : \E p \in L, a \in R : IsSon(x, p, a, R)
      /\ \A p \in L, a \in R : son(p, a) \in C /\ IsSon(son(p, a), p, a, R)
      /\ L \subseteq E
  BY SonsAtEdge
<1>2. TwoEnds(R)
  BY SonsAtEdge
<1>3. Triangles(E) /\ Triangles(F)
  BY TrianglesRefined DEF Conforming
<1>4. L # {} /\ L \subseteq leavesOf(E)
  BY DEF AtEdge
<1>5. C \cap E = {}
  BY <1>4, LeavesRefined
<1> HIDE DEF C
<1>6. CASE c = 0
  BY <1>5, <1>6, Elements, InsideIs DEF C
<1>7. CASE c = 2
  <2>1. \A s : s \in entities(E, 2) <=> \E x \in E : s \in cornersOf(x)
    BY <1>3, EntitiesAre
  <2>2. \A s : s \in entities(F, 2) <=> \E x \in F : s \in cornersOf(x)
    BY <1>3, EntitiesAre
  <2>3. \A x \in C : \A s \in cornersOf(x) : s = R \/ \E p \in E : s \in cornersOf(p)
    BY <1>1 DEF IsSon
  <2>4. \E x \in C : R \in cornersOf(x)
    <3>1. PICK p \in L, a \in R : TRUE
      BY <1>2, <1>4 DEF TwoEnds
    <3>2. QED  BY <1>1, <3>1 DEF IsSon
  <2>5. \A s : s \in entities(F, 2) <=> s \in entities(E, 2) \/ s = R
    BY <2>1, <2>2, <2>3, <2>4
  <2>6. R \notin entities(E, 2)
    BY <1>1, <2>1
  <2>7. inside(2, L, R) = {R}
    BY InsideIs
  <2>8. entities(F, 2) = entities(E, 2) \cup inside(2, L, R) /\ entities(E, 2) \cap inside(2, L, R) = {}
    BY <2>5, <2>6, <2>7
  <2>9. QED  BY <2>8, <1>7 DEF C
<1>8. CASE c = 1
  <2>1. \A s : s \in entities(E, 1) <=> \E x \in E : Side(x, s)
    BY <1>3, EntitiesAre
  <2>2. \A s : s \in entities(F, 1) <=> \E x \in F : Side(x, s)
    BY <1>3, EntitiesAre
  <2>3. \A s : s \in inside(1, L, R) <=> \E p \in L : \E v \in cornersOf(p) : s = {v, R}
    BY InsideIs
  <2>4. \A s \in inside(1, L, R) : s \notin entities(E, 1)
    <3>1. SUFFICES ASSUME NEW p \in L, NEW v \in cornersOf(p), {v, R} \in entities(E, 1) PROVE FALSE
      BY <2>3
    <3>2. PICK x \in E : Side(x, {v, R})
      BY <2>1, <3>1
    <3>3. R \in cornersOf(x)
      BY <3>2 DEF Side
    <3>4. QED  BY <3>3, <1>1
  <2>5. \A s \in inside(1, L, R) : s \in entities(F, 1)
    <3>1. SUFFICES ASSUME NEW s \in inside(1, L, R) PROVE s \in entities(F, 1)
      OBVIOUS
    <3>2. PICK p \in L : \E v \in cornersOf(p) : s = {v, R}
      BY <2>3
    <3>3. PICK v \in cornersOf(p) : s = {v, R}
      BY <3>2
    <3>4. \E x \in C : v \in cornersOf(x) /\ R \in cornersOf(x)
      <4>1. PICK r \in R : TRUE
        BY <1>2 DEF TwoEnds
      <4>2. IsSon(son(p, r), p, r, R) /\ son(p, r) \in C
        BY <1>1
      <4>3. v = apex(p) \/ v \in R
        BY <4>2 DEF IsSon
      <4>4. CASE v = apex(p)
        BY <4>2, <4>4 DEF IsSon
      <4>5. CASE v \in R
        <5>1. IsSon(son(p, v), p, v, R) /\ son(p, v) \in C
          BY <1>1, <4>5
        <5>2. QED  BY <5>1 DEF IsSon
      <4>6. QED  BY <4>3, <4>4, <4>5
    <3>5. v # R
      BY <1>1
    <3>6. QED  BY <2>2, <3>4, <3>5, <3>3 DEF Side
  <2>6. \A s \in entities(F, 1) : s \in entities(E, 1) \/ s \in inside(1, L, R)
    <3>1. SUFFICES ASSUME NEW x \in F, NEW a \in cornersOf(x), NEW b \in cornersOf(x), a # b
                   PROVE  {a, b} \in entities(E, 1) \/ {a, b} \in inside(1, L, R)
      BY <2>2 DEF Side
    <3>2. CASE x \in E
      BY <2>1, <3>1, <3>2 DEF Side
    <3>3. CASE x \in C
      <4>1. PICK p \in L, r \in R : IsSon(x, p, r, R)
        BY <1>1, <3>3
      <4>2. /\ cornersOf(x) = {r, apex(p), R}
            /\ r \in cornersOf(p) /\ apex(p) \in cornersOf(p)
        BY <4>1 DEF IsSon
      <4>3. CASE a = R \/ b = R
        <5>1. \E v \in cornersOf(p) : {a, b} = {v, R}
          BY <3>1, <4>2, <4>3
        <5>2. QED  BY <5>1, <2>3
      <4>4. CASE a # R /\ b # R
        <5>1. a \in cornersOf(p) /\ b \in cornersOf(p) /\ p \in E
          BY <1>1, <3>1, <4>2, <4>4
        <5>2. QED  BY <5>1, <2>1, <3>1 DEF Side
      <4>5. QED  BY <4>3, <4>4
    <3>4. QED  BY <3>2, <3>3
  <2>7. \A s \in entities(E, 1) : s \in entities(F, 1)
    BY <2>1, <2>2
  <2>8. entities(F, 1) = entities(E, 1) \cup inside(1, L, R) /\ entities(E, 1) \cap inside(1, L, R) = {}
    BY <2>4, <2>5, <2>6, <2>7
  <2>9. QED  BY <2>8, <1>8 DEF C
<1>9. c = 0 \/ c = 1 \/ c = 2
  BY DEF codims
<1>10. QED  BY <1>6, <1>7, <1>8, <1>9

(* To coarsen is to undo a bisection. *)
LEMMA Undone ==
  ASSUME NEW E, Mesh(E), Conforming(E), NEW L, NEW R, AroundEdge(E, L, R)
  PROVE  LET F == E \ childrenOf(L)
         IN  Mesh(F) /\ Conforming(F) /\ AtEdge(F, L, R) /\ E = F \cup childrenOf(L)
<1> DEFINE C == childrenOf(L)
           F == E \ C
<1>1. /\ L \subseteq fathersOf(E) /\ L # {} /\ C \subseteq leavesOf(E)
      /\ \A f \in fathersOf(E) : f \in L <=> refinementEdge(f) = R
      /\ leavesOf(E) \subseteq E /\ L \subseteq E
  BY DEF AroundEdge, leavesOf, fathersOf
<1>2. Mesh(F)
  BY <1>1, MeshCoarsened
<1>3. Conforming(F)
  BY ConformingCoarsened
<1>4. leavesOf(F) = (leavesOf(E) \ C) \cup L
  BY <1>1, LeavesCoarsened
<1>5. NoHangingVertex(E)
  BY DEF Conforming
<1> HIDE DEF C
<1>6. \A p \in L : refinementEdge(p) = R /\ R \subseteq cornersOf(p)
  <2>1. \A p : refinementEdge(p) \subseteq cornersOf(p)
    BY Corners
  <2>2. QED  BY <1>1, <2>1
<1>7. \A l \in leavesOf(E) : ~(R \subseteq cornersOf(l))
  BY <1>1, <1>5, <1>6 DEF NoHangingVertex
<1>8. AtEdge(F, L, R)
  <2>1. \A l \in leavesOf(F) : l \in L <=> R \subseteq cornersOf(l)
    BY <1>4, <1>6, <1>7
  <2> HIDE DEF F
  <2>2. QED  BY <1>1, <1>4, <1>6, <2>1 DEF AtEdge
<1>9. E = F \cup C
  BY <1>1
<1>10. QED  BY <1>2, <1>3, <1>8, <1>9 DEF C

(* Coarsening removes the entities inside, and no others. *)
LEMMA EntitiesCoarsened ==
  ASSUME NEW E, Mesh(E), Conforming(E), NEW L, NEW R, AroundEdge(E, L, R), NEW c \in codims
  PROVE  /\ entities(E \ childrenOf(L), c) = entities(E, c) \ inside(c, L, R)
         /\ inside(c, L, R) \subseteq entities(E, c)
<1>1. PICK F : F = E \ childrenOf(L)
  OBVIOUS
<1>2. Mesh(F) /\ Conforming(F) /\ AtEdge(F, L, R) /\ E = F \cup childrenOf(L)
  BY <1>1, Undone
<1>3. entities(E, c) = entities(F, c) \cup inside(c, L, R) /\ entities(F, c) \cap inside(c, L, R) = {}
  BY <1>2, EntitiesRefined
<1>4. QED  BY <1>1, <1>3
-----------------------------------------------------------------------------
(* The lists of the entities of a patch *)

(* Three or four entries, all different. *)
LEMMA ListOfThree ==
  ASSUME NEW a, NEW b, NEW c, a # b, a # c, b # c
  PROVE  Lists(<<a, b, c>>, {a, b, c})
<1>1. PICK q : q = <<a, b, c>>
  OBVIOUS
<1>2. q \in Seq({a, b, c}) /\ Len(q) = 3 /\ q[1] = a /\ q[2] = b /\ q[3] = c
  BY <1>1
<1>3. \A j \in 1..3 : j = 1 \/ j = 2 \/ j = 3
  OBVIOUS
<1>4. \A x \in {a, b, c} : \E k \in 1..Len(q) : q[k] = x
  BY <1>2
<1>5. \A j, k \in 1..Len(q) : q[j] = q[k] => j = k
  BY <1>2, <1>3
<1>6. QED  BY <1>1, <1>2, <1>4, <1>5 DEF Lists

LEMMA ListOfFour ==
  ASSUME NEW a, NEW b, NEW c, NEW d, a # b, a # c, b # c, a # d, b # d, c # d
  PROVE  Lists(<<a, b, c, d>>, {a, b, c, d})
<1>1. PICK q : q = <<a, b, c, d>>
  OBVIOUS
<1>2. q \in Seq({a, b, c, d}) /\ Len(q) = 4 /\ q[1] = a /\ q[2] = b /\ q[3] = c /\ q[4] = d
  BY <1>1
<1>3. \A j \in 1..4 : j = 1 \/ j = 2 \/ j = 3 \/ j = 4
  OBVIOUS
<1>4. \A x \in {a, b, c, d} : \E k \in 1..Len(q) : q[k] = x
  BY <1>2
<1>5. \A j, k \in 1..Len(q) : q[j] = q[k] => j = k
  BY <1>2, <1>3
<1>6. QED  BY <1>1, <1>2, <1>4, <1>5 DEF Lists

(* s is q with d appended. *)
LEMMA OneAppended ==
  ASSUME NEW S, NEW q \in Seq(S), NEW s \in Seq(S), NEW d \in S, Len(s) = Len(q) + 1,
         \A i \in 1..Len(q) : s[i] = q[i], s[Len(q) + 1] = d
  PROVE  q \o <<d>> = s
<1>1. <<d>> \in Seq(S) /\ Len(<<d>>) = 1 /\ <<d>>[1] = d
  OBVIOUS
<1>2. PICK r : r = <<d>>
  OBVIOUS
<1>3. r \in Seq(S) /\ Len(r) = 1 /\ r[1] = d
  BY <1>1, <1>2
<1>4. /\ q \o r \in Seq(S) /\ Len(q \o r) = Len(q) + Len(r)
      /\ \A i \in 1 .. Len(q) + Len(r) : (q \o r)[i] = IF i <= Len(q) THEN q[i] ELSE r[i - Len(q)]
  BY <1>3, ConcatProperties
<1>5. PICK t : t = q \o r
  OBVIOUS
<1>6. t \in Seq(S) /\ Len(t) = Len(q) + 1 /\ \A i \in 1 .. Len(q) + 1 : t[i] = IF i <= Len(q) THEN q[i] ELSE d
  <2>1. Len(q) \in Nat
    OBVIOUS
  <2>2. \A i \in 1 .. Len(q) + 1 : i <= Len(q) \/ i - Len(q) = 1
    BY <2>1
  <2>3. QED  BY <2>1, <2>2, <1>3, <1>4, <1>5
<1>7. \A i \in 1 .. Len(q) + 1 : t[i] = s[i]
  <2>1. Len(q) \in Nat
    OBVIOUS
  <2>2. \A i \in 1 .. Len(q) + 1 : i \in 1..Len(q) \/ (~(i <= Len(q)) /\ i = Len(q) + 1)
    BY <2>1
  <2>3. QED  BY <1>6, <2>1, <2>2
<1>8. t = s
  BY <1>6, <1>7
<1>9. QED  BY <1>2, <1>5, <1>8

(* Sequences of three and four. *)
LEMMA FourInARow ==
  ASSUME NEW a, NEW b, NEW c, NEW d
  PROVE  <<a, b, c>> \o <<d>> = <<a, b, c, d>> /\ <<a, b, c>> \o <<>> = <<a, b, c>>
<1> DEFINE S == {a, b, c, d}
<1>1. PICK q, s : q = <<a, b, c>> /\ s = <<a, b, c, d>>
  OBVIOUS
<1>2. q \in Seq(S) /\ s \in Seq(S) /\ d \in S
  BY <1>1
<1>3. Len(q) = 3 /\ Len(s) = 4 /\ q[1] = a /\ q[2] = b /\ q[3] = c
      /\ s[1] = a /\ s[2] = b /\ s[3] = c /\ s[4] = d
  BY <1>1
<1> HIDE DEF S
<1>5. \A i \in 1..3 : s[i] = q[i]
  <2>1. \A i \in 1..3 : i = 1 \/ i = 2 \/ i = 3
    OBVIOUS
  <2>4. QED  BY <2>1, <1>3
<1>6. Len(s) = Len(q) + 1 /\ (\A i \in 1..Len(q) : s[i] = q[i]) /\ s[Len(q) + 1] = d
  BY <1>3, <1>5
<1>7. q \o <<d>> = s
  BY ONLY <1>2, <1>6, OneAppended
<1>8. <<a, b, c>> \o <<>> = <<a, b, c>>
  <2>1. <<a, b, c>> \in Seq({a, b, c})
    OBVIOUS
  <2>2. QED  BY <2>1
<1>9. QED  BY <1>1, <1>7, <1>8

(* The edges inside the children of p, the last one shared. *)
LEMMA EdgesInside ==
  ASSUME NEW p, NEW R, refinementEdge(p) = R
  PROVE  /\ subEntity(child(p, 0), 1, 1) = {p.vertex[1], R}
         /\ subEntity(child(p, 0), 1, 2) = {p.vertex[3], R}
         /\ subEntity(child(p, 1), 1, 2) = {p.vertex[2], R}
         /\ subEntity(child(p, 0), 2, 3) = R
<1>1. /\ child(p, 0).vertex = <<p.vertex[3], p.vertex[1], R>>
      /\ child(p, 1).vertex = <<p.vertex[2], p.vertex[3], R>>
  BY DEF child, element, midpoint, refinementEdge
<1>2. /\ child(p, 0).vertex[1] = p.vertex[3] /\ child(p, 0).vertex[2] = p.vertex[1] /\ child(p, 0).vertex[3] = R
      /\ child(p, 1).vertex[1] = p.vertex[2] /\ child(p, 1).vertex[2] = p.vertex[3] /\ child(p, 1).vertex[3] = R
  BY <1>1
<1>3. 3 \in 1..3
  OBVIOUS
<1>4. QED  BY <1>2, <1>3, SubEntitiesOf

(* The lists of refinement.hh name the entities inside a patch, each once. *)
LEMMA InsideListed ==
  ASSUME NEW E, Mesh(E), Conforming(E), NEW L, NEW R, AtEdge(E, L, R), NEW patch, IsPatch(patch, L),
         NEW c \in codims
  PROVE  Lists(forEachInteriorSubChild(c, patch), inside(c, L, R))
<1> DEFINE q == forEachInteriorSubChild(c, patch)
<1>1. /\ \A x \in E : R \notin cornersOf(x)
      /\ L \subseteq E /\ L # {} /\ \A p \in L : refinementEdge(p) = R
  <2>1. (\A x \in E : R \notin cornersOf(x)) /\ L \subseteq E
    BY SonsAtEdge
  <2>2. L # {} /\ \A p \in L : refinementEdge(p) = R
    BY DEF AtEdge
  <2>3. QED  BY <2>1, <2>2
<1>2. /\ \A x \in E : \A i, j \in 1..3 : x.vertex[i] = x.vertex[j] => i = j
      /\ \A x, y \in E : cornersOf(x) = cornersOf(y) => x = y
  BY DEF Conforming, Triangles
<1>3. CASE c = 0
  <2>1. Lists(forEachInteriorSubChild(0, patch), childrenOf(L))
    BY <1>1, NewElementsListed
  <2>2. QED  BY <2>1, <1>3, InsideIs
<1>4. patch[1] \in L
  BY <1>1 DEF IsPatch
<1>5. CASE c = 2
  <2>1. q = <<R>>
    BY <1>1, <1>4, <1>5, EdgesInside DEF forEachInteriorSubChild
  <2>2. inside(2, L, R) = {R}
    BY InsideIs
  <2> HIDE DEF q
  <2>3. q \in Seq({R}) /\ Len(q) = 1 /\ q[1] = R
    BY <2>1
  <2>4. Lists(q, {R})
    BY <2>3 DEF Lists
  <2>5. QED  BY <2>2, <2>4, <1>5 DEF q
<1>6. ASSUME NEW p \in L
      PROVE  /\ R = {p.vertex[1], p.vertex[2]} /\ cornersOf(p) = {p.vertex[1], p.vertex[2], p.vertex[3]}
             /\ p.vertex[1] # p.vertex[2] /\ p.vertex[1] # p.vertex[3] /\ p.vertex[2] # p.vertex[3]
             /\ p.vertex[1] # R /\ p.vertex[2] # R /\ p.vertex[3] # R
  <2>1. 1 \in 1..3 /\ 2 \in 1..3 /\ 3 \in 1..3 /\ 1 # 2 /\ 1 # 3 /\ 2 # 3 /\ p \in E
    BY <1>1
  <2>2. R = {p.vertex[1], p.vertex[2]} /\ cornersOf(p) = {p.vertex[1], p.vertex[2], p.vertex[3]}
    BY <1>1, Corners
  <2>3. R \notin cornersOf(p)
    BY <1>1
  <2>4. QED  BY <2>1, <2>2, <2>3, <1>2
<1>7. \A s : s \in inside(1, L, R) <=> \E p \in L : \E v \in cornersOf(p) : s = {v, R}
  BY InsideIs
<1>8. \A x, y : x # R /\ y # R /\ x # y => {x, R} # {y, R}
  OBVIOUS
<1>9. CASE c = 1 /\ \E e : patch = <<e>> /\ L = {e}
  <2>1. PICK e : patch = <<e>> /\ L = {e}
    BY <1>9
  <2>2. PICK u, v, w : u = e.vertex[1] /\ v = e.vertex[2] /\ w = e.vertex[3]
    OBVIOUS
  <2>3. Len(patch) = 1 /\ patch[1] = e
    BY <2>1
  <2>4. q = <<{u, R}, {w, R}, {v, R}>> \o <<>>
    BY <2>1, <2>2, <2>3, <1>1, <1>9, EdgesInside DEF forEachInteriorSubChild
  <2>5. <<{u, R}, {w, R}, {v, R}>> \o <<>> = <<{u, R}, {w, R}, {v, R}>>
    BY FourInARow
  <2>6. u # R /\ v # R /\ w # R /\ u # v /\ u # w /\ v # w /\ cornersOf(e) = {u, v, w}
    BY <2>1, <2>2, <1>6
  <2>7. {u, R} # {w, R} /\ {u, R} # {v, R} /\ {w, R} # {v, R}
    BY <2>6, <1>8
  <2>8. inside(1, L, R) = {{u, R}, {w, R}, {v, R}}
    <3>1. \A s : s \in inside(1, L, R) <=> s = {u, R} \/ s = {w, R} \/ s = {v, R}
      BY <1>7, <2>1, <2>6
    <3>2. QED  BY <3>1
  <2>9. Lists(<<{u, R}, {w, R}, {v, R}>>, {{u, R}, {w, R}, {v, R}})
    BY ONLY <2>7, ListOfThree
  <2> HIDE DEF q
  <2>10. Lists(q, inside(1, L, R))
    BY <2>4, <2>5, <2>8, <2>9
  <2>11. QED  BY <2>10, <1>9 DEF q
<1>10. CASE c = 1 /\ \E e, f : patch = <<e, f>> /\ e # f /\ L = {e, f}
  <2>1. PICK e, f : patch = <<e, f>> /\ e # f /\ L = {e, f}
    BY <1>10
  <2>2. PICK u, v, w, t : u = e.vertex[1] /\ v = e.vertex[2] /\ w = e.vertex[3] /\ t = f.vertex[3]
    OBVIOUS
  <2>3. Len(patch) = 2 /\ patch[1] = e /\ patch[2] = f
    BY <2>1
  <2>4. q = <<{u, R}, {w, R}, {v, R}>> \o <<{t, R}>>
    <3>1. /\ subEntity(child(e, 0), 1, 1) = {u, R} /\ subEntity(child(e, 0), 1, 2) = {w, R}
          /\ subEntity(child(e, 1), 1, 2) = {v, R} /\ subEntity(child(f, 0), 1, 2) = {t, R}
      BY <2>1, <2>2, <1>1, EdgesInside
    <3>2. q = <<subEntity(child(e, 0), 1, 1), subEntity(child(e, 0), 1, 2), subEntity(child(e, 1), 1, 2)>>
                \o <<subEntity(child(f, 0), 1, 2)>>
      BY <2>3, <1>10 DEF forEachInteriorSubChild
    <3> HIDE DEF q
    <3>3. QED  BY <3>1, <3>2
  <2>5. <<{u, R}, {w, R}, {v, R}>> \o <<{t, R}>> = <<{u, R}, {w, R}, {v, R}, {t, R}>>
    BY FourInARow
  <2>6. u # R /\ v # R /\ w # R /\ u # v /\ u # w /\ v # w /\ cornersOf(e) = {u, v, w} /\ R = {u, v}
    BY <2>1, <2>2, <1>6
  <2>7. t # R /\ t \notin R /\ cornersOf(f) = R \cup {t}
    <3>1. /\ R = {f.vertex[1], f.vertex[2]} /\ cornersOf(f) = {f.vertex[1], f.vertex[2], t}
          /\ f.vertex[1] # t /\ f.vertex[2] # t /\ t # R
      BY <2>1, <2>2, <1>6
    <3>2. QED  BY <3>1
  <2>8. t # w
    <3>1. e \in E /\ f \in E
      BY <1>1, <2>1
    <3>2. t = w => cornersOf(e) = cornersOf(f)
      BY <2>6, <2>7
    <3>3. QED  BY <3>1, <3>2, <1>2, <2>1
  <2>9. t # u /\ t # v
    BY <2>6, <2>7
  <2>10. /\ {u, R} # {w, R} /\ {u, R} # {v, R} /\ {w, R} # {v, R}
         /\ {u, R} # {t, R} /\ {w, R} # {t, R} /\ {v, R} # {t, R}
    BY <2>6, <2>7, <2>8, <2>9, <1>8
  <2>11. inside(1, L, R) = {{u, R}, {w, R}, {v, R}, {t, R}}
    <3>1. \A s : s \in inside(1, L, R) <=> s = {u, R} \/ s = {w, R} \/ s = {v, R} \/ s = {t, R}
      <4>1. cornersOf(f) = {u, v, t}
        BY <2>6, <2>7
      <4>2. \A s : (\E p \in L : \E x \in cornersOf(p) : s = {x, R})
                  <=> (\E x \in cornersOf(e) : s = {x, R}) \/ \E x \in cornersOf(f) : s = {x, R}
        BY <2>1
      <4>3. \A s : /\ (\E x \in cornersOf(e) : s = {x, R}) <=> s = {u, R} \/ s = {w, R} \/ s = {v, R}
                   /\ (\E x \in cornersOf(f) : s = {x, R}) <=> s = {u, R} \/ s = {v, R} \/ s = {t, R}
        BY <2>6, <4>1
      <4>4. QED  BY <1>7, <4>2, <4>3
    <3>2. QED  BY <3>1
  <2>12. Lists(<<{u, R}, {w, R}, {v, R}, {t, R}>>, {{u, R}, {w, R}, {v, R}, {t, R}})
    BY ONLY <2>10, ListOfFour
  <2> HIDE DEF q
  <2>13. Lists(q, inside(1, L, R))
    BY <2>4, <2>5, <2>11, <2>12
  <2>14. QED  BY <2>13, <1>10 DEF q
<1>11. c = 0 \/ c = 1 \/ c = 2
  BY DEF codims
<1>12. QED  BY <1>3, <1>5, <1>9, <1>10, <1>11 DEF IsPatch
-----------------------------------------------------------------------------
(* The numbers of all codimensions in the course of the program *)

(* No three members. *)
AtMostTwo(S) == \A x, y, z \in S : x = y \/ x = z \/ y = z

(* The patch for e has all members of S. *)
LEMMA PatchOfAll ==
  ASSUME NEW S, AtMostTwo(S), NEW e \in S
  PROVE  IsPatch(patchFrom(e, S), S)
<1>1. PICK L : L \subseteq S /\ e \in L /\ IsPatch(patchFrom(e, S), L)
  BY PatchFrom
<1>2. CASE S = {e}
  BY <1>1, <1>2
<1>3. CASE S # {e}
  <2>1. PICK f : f = CHOOSE x \in S : x # e
    OBVIOUS
  <2>2. f \in S /\ f # e
    BY <1>3, <2>1
  <2>3. patchFrom(e, S) = <<e, f>>
    BY <1>3, <2>1 DEF patchFrom
  <2>4. S = {e, f}
    BY <2>2 DEF AtMostTwo
  <2>5. QED  BY <2>2, <2>3, <2>4 DEF IsPatch
<1>4. QED  BY <1>2, <1>3

(* ALBERTA bisects all leaf elements at an edge at once. *)
LEMMA RefinePatchAtEdge ==
  ASSUME Mesh(elements), Conforming(elements), RefinePatch
  PROVE  \E patch, L, R : Bisects(patch, L) /\ AtEdge(elements, L, R)
<1> DEFINE step(patch) ==
             /\ elements' = elements \cup Children(patch)
             /\ mark' = [l \in leavesOf(elements') |->
                           IF l \in leaves THEN mark[l] ELSE Max({0, mark[fatherIn(patch, l)] - 1})]
             /\ RefineNumbering(patch)
             /\ interpolateLevels(patch)
<1>1. PICK e \in due : compatible(e) /\ step(patchFrom(e, patchOf(e)))
  BY DEF RefinePatch
<1>2. e \in leaves /\ e \in patchOf(e) /\ patchOf(e) \subseteq leaves
  <2>1. 1 \in 1..3 /\ 2 \in 1..3
    OBVIOUS
  <2>2. e \in leaves
    BY DueLeaves DEF Mesh
  <2>3. QED  BY <2>1, <2>2 DEF patchOf, refinementEdge
<1> HIDE DEF step
<1>3. PICK patch, L, R : patch = patchFrom(e, patchOf(e)) /\ L = patchOf(e) /\ R = refinementEdge(e)
  OBVIOUS
<1>4. \A l \in leaves : l \in L <=> R \subseteq cornersOf(l)
  BY <1>3 DEF patchOf, cornersOf
<1>5. AtEdge(elements, L, R)
  <2>1. \A p \in L : refinementEdge(p) = R
    BY <1>1, <1>3 DEF compatible
  <2>2. QED  BY <1>2, <1>3, <1>4, <2>1 DEF AtEdge, leaves
<1>6. L \subseteq leavesOf(elements) /\ L \subseteq elements /\ L \subseteq leaves
  BY <1>2, <1>3 DEF leaves, leavesOf
<1>7. AtMostTwo(L)
  <2>1. TwoEnds(R)
    BY <1>5, SonsAtEdge
  <2>2. PICK a, b : R = {a, b} /\ a # b
    BY <2>1 DEF TwoEnds
  <2>3. ASSUME NEW x \in L, NEW y \in L, NEW z \in L PROVE x = y \/ x = z \/ y = z
    <3>1. Share(x, y, z, a, b)
      BY <1>4, <1>6, <2>2 DEF Share
    <3>2. x \in leavesOf(elements) /\ y \in leavesOf(elements) /\ z \in leavesOf(elements)
      BY <1>6
    <3>3. QED  BY <3>1, <3>2 DEF Conforming, Neighbors
  <2>4. QED  BY <2>3 DEF AtMostTwo
<1>8. IsPatch(patch, L)
  BY <1>2, <1>3, <1>7, PatchOfAll
<1>9. step(patch)
  BY <1>1, <1>3
<1>10. childrenOf(L) \cap elements = {}
  BY <1>6, NoChildYet DEF childrenOf
<1>11. Children(patch) = childrenOf(L)
  BY <1>8, PatchMembers
<1>12. Bisects(patch, L)
  BY <1>6, <1>8, <1>9, <1>10, <1>11 DEF Bisects, step
<1>13. QED  BY <1>5, <1>12

(* It undoes the bisections at an edge all at once. *)
LEMMA CoarsenPatchAroundEdge ==
  ASSUME Conforming(elements), CoarsenPatch
  PROVE  \E patch, L, R : Unites(patch, L) /\ AroundEdge(elements, L, R)
<1> DEFINE step(patch) ==
             /\ elements' = elements \ Children(patch)
             /\ mark' = [l \in leavesOf(elements') |->
                           IF l \in leaves THEN mark[l] ELSE Max({mark[k] : k \in children(l)}) + 1]
             /\ CoarsenNumbering(patch)
             /\ level_' = Restricted(level_, elements')
<1>1. PICK e \in vanishing : step(patchFrom(e, fathersWith(e)))
  BY DEF CoarsenPatch
<1>2. /\ e \in fathersWith(e) /\ fathersWith(e) \subseteq elements
      /\ \A f \in fathersWith(e) : \A c \in children(f) : c \in leaves /\ mark[c] < 0
  BY DEF vanishing, fathersWith
<1> HIDE DEF step
<1>3. PICK patch, L, R : patch = patchFrom(e, fathersWith(e)) /\ L = fathersWith(e) /\ R = refinementEdge(e)
  OBVIOUS
<1>4. \A f \in fathersOf(elements) : f \in L <=> refinementEdge(f) = R
  BY <1>3 DEF fathersWith, fathersOf, leaves
<1>5. L \subseteq fathersOf(elements)
  BY <1>3 DEF fathersWith, fathersOf, leaves
<1>6. L \subseteq elements /\ \A c \in childrenOf(L) : c \in leaves /\ mark[c] < 0
  BY <1>2, <1>3 DEF childrenOf
<1>7. AroundEdge(elements, L, R)
  BY <1>2, <1>3, <1>4, <1>5, <1>6 DEF AroundEdge, leaves
<1>8. AtMostTwo(L)
  <2>1. ASSUME NEW x \in L, NEW y \in L, NEW z \in L PROVE x = y \/ x = z \/ y = z
    <3>1. /\ x \in fathersOf(elements) /\ y \in fathersOf(elements) /\ z \in fathersOf(elements)
          /\ refinementEdge(x) = refinementEdge(y) /\ refinementEdge(y) = refinementEdge(z)
      BY <1>4, <1>5
    <3>2. QED  BY <3>1 DEF Conforming, Neighbors
  <2>2. QED  BY <2>1 DEF AtMostTwo
<1>9. IsPatch(patch, L)
  BY <1>2, <1>3, <1>8, PatchOfAll
<1>10. step(patch)
  BY <1>1, <1>3
<1>11. Children(patch) = childrenOf(L)
  BY <1>9, PatchMembers
<1>12. Unites(patch, L)
  BY <1>6, <1>9, <1>10, <1>11 DEF Unites, step
<1>13. QED  BY <1>7, <1>12

(* The mesh conforms, and each codimension has its numbers. *)
NumbersInv ==
  /\ Mesh(elements) /\ Conforming(elements)
  /\ \A e \in elements : e.macro \in DOMAIN macros
  /\ \A c \in codims : NumbersOf(c)

LEMMA NumbersInvInit ==
  Init => NumbersInv
<1> SUFFICES ASSUME Init PROVE NumbersInv
  OBVIOUS
<1>1. elements = macroElements
  BY DEF Init
<1>2. \A e \in elements : e.macro \in DOMAIN macros
  BY <1>1 DEF macroElements, macroElement, element
<1>3. QED  BY <1>1, <1>2, MacroMesh, MacroConforming, NumbersInit DEF NumbersInv

(* The new entities are numbered. *)
LEMMA NumbersRefinePatch ==
  ASSUME NumbersInv, RefinePatch
  PROVE  NumbersInv'
<1>1. lost' = lost
  BY DEF RefinePatch
<1>2. Mesh(elements) /\ Conforming(elements)
  BY DEF NumbersInv
<1>3. PICK patch, L, R : Bisects(patch, L) /\ AtEdge(elements, L, R)
  BY <1>2, RefinePatchAtEdge
<1>4. /\ IsPatch(patch, L) /\ L \subseteq elements /\ L \subseteq leavesOf(elements)
      /\ childrenOf(L) \cap elements = {} /\ elements' = elements \cup childrenOf(L)
  BY <1>3 DEF Bisects, leaves
<1>5. Mesh(elements') /\ Conforming(elements')
  BY <1>2, <1>3, <1>4, MeshRefined, ConformingRefined
<1>6. \A e \in elements' : e.macro \in DOMAIN macros
  <2>1. \A e \in elements : e.macro \in DOMAIN macros
    BY DEF NumbersInv
  <2>2. \A x \in childrenOf(L) : \E p \in L : x.macro = p.macro
    BY ChildFields DEF childrenOf, children
  <2>3. QED  BY <1>4, <2>1, <2>2
<1>7. ASSUME NEW c \in codims PROVE NumbersOf(c)'
  <2>1. PICK q : q = forEachInteriorSubChild(c, patch)
    OBVIOUS
  <2>2. PICK S : S = inside(c, L, R)
    OBVIOUS
  <2>3. PICK E : E = entities(elements, c)
    OBVIOUS
  <2>4. Lists(q, S)
    BY <1>2, <1>3, <1>4, <2>1, <2>2, InsideListed
  <2>5. entities(elements', c) = E \cup S /\ S \cap E = {}
    BY <1>2, <1>3, <1>4, <2>2, <2>3, EntitiesRefined
  <2>6. numbers'[c] = numbered(numbers[c], indexStack_[c], q) /\ indexStack_'[c] = taken(indexStack_[c], Len(q))
    BY <1>3, <2>1 DEF Bisects, RefineNumbering
  <2>7. Numbers(E, numbers[c], indexStack_[c], lost[c])
    BY <2>3 DEF NumbersInv, NumbersOf
  <2>8. Numbers(E \cup S, numbered(numbers[c], indexStack_[c], q), taken(indexStack_[c], Len(q)), lost[c])
    BY ONLY <2>4, <2>5, <2>7, NumbersRefined
  <2>9. Numbers(entities(elements', c), numbers'[c], indexStack_'[c], lost'[c])
    BY <1>1, <2>5, <2>6, <2>8
  <2>10. QED  BY <2>9 DEF NumbersOf
<1>8. QED  BY <1>5, <1>6, <1>7 DEF NumbersInv

(* The numbers of the vanishing entities go back to the stacks. *)
LEMMA NumbersCoarsenPatch ==
  ASSUME NumbersInv, CoarsenPatch
  PROVE  NumbersInv'
<1>1. lost' = lost
  BY DEF CoarsenPatch
<1>2. Mesh(elements) /\ Conforming(elements)
  BY DEF NumbersInv
<1>3. PICK patch, L, R : Unites(patch, L) /\ AroundEdge(elements, L, R)
  BY <1>2, CoarsenPatchAroundEdge
<1>4. IsPatch(patch, L) /\ elements' = elements \ childrenOf(L)
  BY <1>3 DEF Unites
<1>5. Mesh(elements') /\ Conforming(elements') /\ AtEdge(elements', L, R)
  BY <1>2, <1>3, <1>4, Undone
<1>6. \A e \in elements' : e.macro \in DOMAIN macros
  BY <1>4 DEF NumbersInv
<1>7. ASSUME NEW c \in codims PROVE NumbersOf(c)'
  <2>1. PICK q : q = forEachInteriorSubChild(c, patch)
    OBVIOUS
  <2>2. PICK S : S = inside(c, L, R)
    OBVIOUS
  <2>3. PICK E : E = entities(elements, c)
    OBVIOUS
  <2>4. Lists(q, S)
    BY <1>4, <1>5, <2>1, <2>2, InsideListed
  <2>5. entities(elements', c) = E \ S /\ S \subseteq E
    BY <1>2, <1>3, <1>4, <2>2, <2>3, EntitiesCoarsened
  <2>6. /\ indexStack_'[c] = given(indexStack_[c], [k \in DOMAIN q |-> numbers[c][q[k]]])
        /\ numbers'[c] = Restricted(numbers[c], entities(elements', c))
    BY <1>3, <2>1 DEF Unites, CoarsenNumbering
  <2>7. Numbers(E, numbers[c], indexStack_[c], lost[c])
    BY <2>3 DEF NumbersInv, NumbersOf
  <2>8. Numbers(E \ S, Restricted(numbers[c], E \ S),
                given(indexStack_[c], [k \in DOMAIN q |-> numbers[c][q[k]]]), lost[c])
    BY ONLY <2>4, <2>5, <2>7, NumbersCoarsened
  <2>9. Numbers(entities(elements', c), numbers'[c], indexStack_'[c], lost'[c])
    BY <1>1, <2>5, <2>6, <2>8
  <2>10. QED  BY <2>9 DEF NumbersOf
<1>8. QED  BY <1>5, <1>6, <1>7 DEF NumbersInv

(* The stacks are made from the numbers in use. *)
LEMMA NumbersRestart ==
  ASSUME NumbersInv, Restart
  PROVE  NumbersInv'
<1>1. elements' = elements /\ numbers' = numbers
  BY DEF Restart, meshVars
<1>2. ASSUME NEW c \in codims PROVE NumbersOf(c)'
  <2>1. PICK m : m = Max(image(numbers[c]))
    OBVIOUS
  <2>2. indexStack_'[c] = restored(m) /\ lost'[c] = (0..m) \ image(numbers[c])
    BY <2>1 DEF Restart, InUse, image
  <2>3. Numbers(entities(elements, c), numbers[c], indexStack_[c], lost[c])
    BY DEF NumbersInv, NumbersOf
  <2>4. entities(elements, c) # {}
    <3>1. PICK e \in elements : TRUE
      BY MacroMesh DEF NumbersInv, Mesh
    <3>2. subEntity(e, c, 1) \in entities(elements, c)
      BY DEF entities, numSubEntities
    <3>3. QED  BY <3>2
  <2>5. Numbers(entities(elements, c), numbers[c], restored(m), (0..m) \ image(numbers[c]))
    BY <2>1, <2>3, <2>4, NumbersRestored
  <2>6. Numbers(entities(elements', c), numbers'[c], indexStack_'[c], lost'[c])
    BY <1>1, <2>2, <2>5
  <2>7. QED  BY <2>6 DEF NumbersOf
<1>3. QED  BY <1>1, <1>2 DEF NumbersInv

LEMMA NumbersUnchanged ==
  ASSUME NumbersInv, UNCHANGED <<elements, numbers, indexStack_, lost>>
  PROVE  NumbersInv'
BY DEF NumbersInv, NumbersOf

LEMMA NumbersNext ==
  NumbersInv /\ [Next]_vars => NumbersInv'
<1> SUFFICES ASSUME NumbersInv, [Next]_vars PROVE NumbersInv'
  OBVIOUS
<1> USE DEF meshVars, indexVars, cacheVars, callVars
<1>1. CASE Mark  BY <1>1, NumbersUnchanged DEF Mark
<1>2. CASE PreAdapt  BY <1>2, NumbersUnchanged DEF PreAdapt
<1>3. CASE Adapt  BY <1>3, NumbersUnchanged DEF Adapt
<1>4. CASE PostAdapt  BY <1>4, NumbersUnchanged DEF PostAdapt
<1>5. CASE RefinePatch  BY <1>5, NumbersRefinePatch
<1>6. CASE Refined  BY <1>6, NumbersUnchanged DEF Refined
<1>7. CASE CoarsenPatch  BY <1>7, NumbersCoarsenPatch
<1>8. CASE Coarsened  BY <1>8, NumbersUnchanged DEF Coarsened
<1>9. CASE Finish  BY <1>9, NumbersUnchanged DEF Finish
<1>10. CASE GlobalRefine  BY <1>10, NumbersUnchanged DEF GlobalRefine
<1>11. CASE GlobalRefineStep  BY <1>11, NumbersUnchanged DEF GlobalRefineStep
<1>12. CASE LeafIndexSet  BY <1>12, NumbersUnchanged DEF LeafIndexSet
<1>13. CASE LeafBegin  BY <1>13, NumbersUnchanged DEF LeafBegin
<1>14. CASE Resize  BY <1>14, NumbersUnchanged DEF Resize
<1>15. CASE Store  BY <1>15, NumbersUnchanged DEF Store
<1>16. CASE Restart  BY <1>16, NumbersRestart
<1>17. CASE UNCHANGED vars  BY <1>17, NumbersUnchanged DEF vars
<1>18. QED
  BY <1>1, <1>2, <1>3, <1>4, <1>5, <1>6, <1>7, <1>8, <1>9, <1>10, <1>11, <1>12, <1>13,
     <1>14, <1>15, <1>16, <1>17 DEF Next

LEMMA NumbersAlways ==
  Spec => []NumbersInv
<1>1. NumbersInv /\ [Next]_vars => NumbersInv'  BY NumbersNext
<1>2. QED  BY <1>1, NumbersInvInit, PTL DEF Spec

(***************************************************************************)
(* Every element, edge and vertex of the hierarchy has a number, those of  *)
(* a codimension have different ones below size(), and a number below      *)
(* size() that no entity has is kept on the stacks, once, unless a backup  *)
(* has forgotten it: the mesh stays conforming, so that the lists by which *)
(* the callbacks walk the inside of a patch (refinement.hh:146-196) name   *)
(* each new or vanishing entity once, and no other.                        *)
(***************************************************************************)
THEOREM AllNumbers ==
  Spec => []NumbersConserved
<1>1. ASSUME NumbersInv, NEW c \in codims PROVE NumbersConservedOf(c)
  <2> DEFINE f == numbers[c]
             S == entities(elements, c)
  <2>1. Numbers(S, f, indexStack_[c], lost[c]) /\ IsFiniteSet(S)
    BY <1>1, EntitiesFinite DEF NumbersInv, NumbersOf, Mesh
  <2>2. InUse(c) = image(f)
    BY DEF InUse, image
  <2> HIDE DEF S
  <2>3. DOMAIN f = S /\ \A x, y \in S : f[x] = f[y] => x = y
    BY <2>1 DEF Numbers
  <2>4. Cardinality(image(f)) = Cardinality(S)
    <3> DEFINE g == [x \in S |-> f[x]]
    <3>1. g \in Bijection(S, image(f))
      BY <2>3 DEF Bijection, Injection, IsInjective, Surjection, image
    <3>2. ExistsBijection(S, image(f))
      BY <3>1 DEF ExistsBijection
    <3>3. QED  BY <2>1, <3>2, FS_Bijection
  <2>5. QED  BY <2>1, <2>2, <2>3, <2>4 DEF NumbersConservedOf, Numbers, S
<1>2. NumbersInv => NumbersConserved
  BY <1>1 DEF NumbersConserved
<1>3. QED  BY <1>2, NumbersAlways, PTL
-----------------------------------------------------------------------------
(* Types *)

Phases == {"ComputationPhase", "PreAdaptationPhase", "PostAdaptationPhase"}

(* The marks fit the signed char of ALBERTA, and the counters never fall below zero. *)
CallInv ==
  /\ \A l \in leaves : mark[l] \in (-128)..126
  /\ adaptationState_.phase_ \in Phases
  /\ adaptationState_.coarsenMarked_ \in Nat /\ adaptationState_.refineMarked_ \in Nat
  /\ changed \subseteq {"refined", "coarsened"} /\ remaining \in Nat /\ adapts \in 0..MaxAdapts

LEMMA WeightsAreNat ==
  ASSUME NEW L, IsFiniteSet(L), NEW m, \A l \in L : m[l] \in Int
  PROVE  weightOf(m, L) \in Nat
<1>1. IsFiniteSet(pairsOf(m, L))
  BY PairsFinite
<1>2. Cardinality(pairsOf(m, L)) \in Nat
  BY <1>1, FS_CardinalityType
<1>3. QED  BY <1>2 DEF weightOf, pairsOf

(* Outside adapt() the counters are numbers of marks. *)
LEMMA CountersAreNat ==
  ASSUME NEW E, Mesh(E), NEW m, \A l \in leavesOf(E) : m[l] \in Int
  PROVE  Cardinality(negative(m, leavesOf(E))) \in Nat /\ weightOf(m, leavesOf(E)) \in Nat
<1>1. leavesOf(E) \subseteq E /\ negative(m, leavesOf(E)) \subseteq E
  BY DEF leavesOf, negative
<1>2. IsFiniteSet(leavesOf(E)) /\ IsFiniteSet(negative(m, leavesOf(E)))
  BY <1>1, FS_Subset DEF Mesh
<1>3. QED  BY <1>2, FS_CardinalityType, WeightsAreNat

(* What a step leaves behind that ends outside adapt(). *)
LEMMA CountersOutside ==
  ASSUME (IndexInv /\ MarkInv /\ WeightInv)', pc' = "idle", adaptationState_'.phase_ # "PostAdaptationPhase"
  PROVE  adaptationState_'.coarsenMarked_ \in Nat /\ adaptationState_'.refineMarked_ \in Nat
<1>1. Mesh(elements') /\ leaves' = leavesOf(elements')
  BY DEF IndexInv, leaves
<1>2. mark' \in [leaves' -> Int] /\ adaptationState_'.coarsenMarked_ = Cardinality(negative(mark', leaves'))
  BY DEF MarkInv
<1>3. adaptationState_'.refineMarked_ = weightOf(mark', leaves')
  BY DEF WeightInv
<1>4. PICK E, m : E = elements' /\ m = mark'
  OBVIOUS
<1>5. Mesh(E) /\ \A l \in leavesOf(E) : m[l] \in Int
  BY <1>1, <1>2, <1>4
<1>6. Cardinality(negative(m, leavesOf(E))) \in Nat /\ weightOf(m, leavesOf(E)) \in Nat
  BY <1>5, CountersAreNat
<1>7. QED  BY <1>1, <1>2, <1>3, <1>4, <1>6

LEMMA CallInit ==
  Init => CallInv
<1> SUFFICES ASSUME Init PROVE CallInv
  OBVIOUS
<1>1. /\ mark = [e \in elements |-> 0] /\ adaptationState_ = NoMarks
      /\ changed = {} /\ remaining = 0 /\ adapts = 0
  BY DEF Init
<1>2. \A l \in leaves : mark[l] \in (-128)..126
  BY <1>1 DEF leaves, leavesOf
<1>3. 0 \in 0..MaxAdapts
  BY boundsAssumption
<1>4. QED  BY <1>1, <1>2, <1>3, NewState DEF CallInv, Phases

LEMMA CallUnchanged ==
  ASSUME CallInv, UNCHANGED <<elements, mark, adaptationState_, changed, remaining, adapts>>
  PROVE  CallInv'
BY DEF CallInv, leaves

LEMMA CallMark ==
  ASSUME CallInv, (IndexInv /\ MarkInv /\ WeightInv)', MarkInv, Mark
  PROVE  CallInv'
<1>1. PICK e \in leaves, r \in RefCounts :
        /\ adaptationState_' = marked(unmarked(adaptationState_, mark[e]), r)
        /\ mark' = [mark EXCEPT ![e] = r]
  BY DEF Mark
<1>2. /\ UNCHANGED <<elements, changed, remaining, adapts>> /\ pc' = "idle"
      /\ adaptationState_.phase_ = "ComputationPhase"
  BY DEF Mark, inPhase
<1>3. leaves' = leaves
  BY <1>2 DEF leaves
<1>4. r \in Int /\ r \in (-128)..126 /\ mark[e] \in Int /\ mark \in [leaves -> Int]
  BY boundsAssumption DEF MarkInv
<1>5. adaptationState_'.phase_ = "ComputationPhase"
  BY <1>1, <1>2, <1>4, MarkState DEF MarkInv
<1>6. \A l \in leaves' : mark'[l] \in (-128)..126
  <2>1. \A l \in leaves : mark'[l] = IF l = e THEN r ELSE mark[l]
    BY <1>1, <1>4
  <2>2. QED  BY <2>1, <1>3, <1>4 DEF CallInv
<1>7. adaptationState_'.coarsenMarked_ \in Nat /\ adaptationState_'.refineMarked_ \in Nat
  BY <1>2, <1>5, CountersOutside
<1>8. QED  BY <1>2, <1>5, <1>6, <1>7 DEF CallInv, Phases

LEMMA CallPreAdapt ==
  ASSUME CallInv, (IndexInv /\ MarkInv /\ WeightInv)', MarkInv, PreAdapt
  PROVE  CallInv'
<1>1. /\ UNCHANGED <<elements, mark, changed, remaining, adapts>>
      /\ adaptationState_' = [adaptationState_ EXCEPT !.phase_ = "PreAdaptationPhase"]
  BY DEF PreAdapt, meshVars
<1>2. /\ adaptationState_'.phase_ = "PreAdaptationPhase"
      /\ adaptationState_'.coarsenMarked_ = adaptationState_.coarsenMarked_
      /\ adaptationState_'.refineMarked_ = adaptationState_.refineMarked_
  BY <1>1, PhaseSet DEF MarkInv
<1>3. \A l \in leaves' : mark'[l] \in (-128)..126
  BY <1>1 DEF CallInv, leaves
<1>4. QED  BY <1>1, <1>2, <1>3 DEF CallInv, Phases

LEMMA CallFinish ==
  ASSUME CallInv, MarkInv, Finish
  PROVE  CallInv'
<1>1. /\ UNCHANGED <<elements, mark, changed, remaining, adapts>>
      /\ adaptationState_' = [adaptationState_ EXCEPT !.phase_ = "PostAdaptationPhase"]
  BY DEF Finish, meshVars
<1>2. /\ adaptationState_'.phase_ = "PostAdaptationPhase"
      /\ adaptationState_'.coarsenMarked_ = adaptationState_.coarsenMarked_
      /\ adaptationState_'.refineMarked_ = adaptationState_.refineMarked_
  BY <1>1, PhaseSet DEF MarkInv
<1>3. \A l \in leaves' : mark'[l] \in (-128)..126
  BY <1>1 DEF CallInv, leaves
<1>4. QED  BY <1>1, <1>2, <1>3 DEF CallInv, Phases

LEMMA CallRefine ==
  ASSUME Mesh(elements), MarkInv, CallInv, RefinePatch
  PROVE  CallInv'
<1>1. PICK patch, L : Bisects(patch, L)
  BY RefinePatchBisects
<1>2. /\ IsPatch(patch, L) /\ L \subseteq leaves /\ elements' = elements \cup childrenOf(L)
      /\ mark' = [l \in leavesOf(elements') |->
                    IF l \in leaves THEN mark[l] ELSE Max({0, mark[fatherIn(patch, l)] - 1})]
  BY <1>1 DEF Bisects
<1>3. {patch[i] : i \in DOMAIN patch} = L
  BY <1>2, PatchMembers
<1>4. UNCHANGED <<adaptationState_, remaining, adapts>> /\ changed' = changed \cup {"refined"}
  BY DEF RefinePatch
<1>5. leaves' = leavesOf(elements')
  BY DEF leaves
<1>6. \A l \in leaves' : mark'[l] \in (-128)..126
  <2>1. SUFFICES ASSUME NEW l \in leaves' PROVE mark'[l] \in (-128)..126
    OBVIOUS
  <2>2. CASE l \in leaves
    BY <2>2, <1>2, <1>5 DEF CallInv
  <2>3. CASE l \notin leaves
    <3>1. l \in childrenOf(L)
      BY <2>3, <1>2, <1>5 DEF leaves, leavesOf
    <3>2. PICK f : f = fatherIn(patch, l)
      OBVIOUS
    <3>3. \E p \in L : l \in children(p)
      BY <3>1 DEF childrenOf
    <3>4. f \in L
      BY <3>2, <3>3, <1>3 DEF fatherIn
    <3>5. mark[f] \in (-128)..126
      BY <3>4, <1>2 DEF CallInv
    <3>6. PICK k \in Int : k = mark[f] - 1 /\ k <= 125
      BY <3>5
    <3>7. mark'[l] = Max({0, k})
      BY <2>3, <3>2, <3>6, <1>2, <1>5
    <3>8. Max({0, k}) = IF 0 >= k THEN 0 ELSE k
      BY LargerOf
    <3>9. QED  BY <3>6, <3>7, <3>8
  <2>4. QED  BY <2>2, <2>3
<1>7. QED  BY <1>4, <1>6 DEF CallInv

LEMMA CallCoarsen ==
  ASSUME Mesh(elements), MarkInv, CallInv, CoarsenPatch
  PROVE  CallInv'
<1>1. PICK patch, L : Unites(patch, L)
  BY CoarsenPatchUnites
<1>2. /\ \A c \in childrenOf(L) : c \in leaves /\ mark[c] < 0
      /\ elements' = elements \ childrenOf(L)
      /\ mark' = [l \in leavesOf(elements') |->
                    IF l \in leaves THEN mark[l] ELSE Max({mark[k] : k \in children(l)}) + 1]
  BY <1>1 DEF Unites
<1>3. UNCHANGED <<adaptationState_, remaining, adapts>> /\ changed' = changed \cup {"coarsened"}
  BY DEF CoarsenPatch
<1>4. leaves' = leavesOf(elements')
  BY DEF leaves
<1>5. \A l \in leaves' : mark'[l] \in (-128)..126
  <2>1. SUFFICES ASSUME NEW l \in leaves' PROVE mark'[l] \in (-128)..126
    OBVIOUS
  <2>2. CASE l \in leaves
    BY <2>2, <1>2, <1>4 DEF CallInv
  <2>3. CASE l \notin leaves
    <3>1. l \in elements /\ child(l, 0) \in elements /\ child(l, 0) \in childrenOf(L)
      BY <2>3, <1>2, <1>4 DEF leaves, leavesOf
    <3>2. PICK p \in L, i \in {0, 1} : child(l, 0) = child(p, i)
      BY <3>1 DEF childrenOf, children
    <3>3. l = p
      <4>1. p \in elements /\ 0 \in {0, 1}
        BY <1>1 DEF Unites
      <4>2. QED  BY <4>1, <3>1, <3>2, SameChild
    <3>4. \A k \in children(l) : k \in leaves /\ mark[k] < 0 /\ mark[k] \in (-128)..126
      BY <3>2, <3>3, <1>2 DEF childrenOf, CallInv
    <3>5. PICK a \in (-128)..(-1), b \in (-128)..(-1) : a = mark[child(l, 0)] /\ b = mark[child(l, 1)]
      <4>1. \A x \in (-128)..126 : x < 0 => x \in (-128)..(-1)
        OBVIOUS
      <4>2. \A k \in children(l) : mark[k] \in (-128)..(-1)
        BY <3>4, <4>1
      <4>3. QED  BY <4>2 DEF children
    <3>6. {mark[k] : k \in children(l)} = {a, b}
      BY <3>5 DEF children
    <3>7. a \in Int /\ b \in Int
      OBVIOUS
    <3>8. Max({a, b}) = IF a >= b THEN a ELSE b
      BY <3>7, LargerOf
    <3>9. PICK m \in (-128)..(-1) : m = Max({a, b})
      BY <3>8
    <3>10. mark'[l] = m + 1
      BY <2>3, <3>6, <3>9, <1>2, <1>4
    <3>11. QED  BY <3>10
  <2>4. QED  BY <2>2, <2>3
<1>6. QED  BY <1>3, <1>5 DEF CallInv

LEMMA CallCoarsened ==
  ASSUME CallInv, Coarsened
  PROVE  CallInv'
<1>1. /\ UNCHANGED <<elements, adaptationState_, changed, remaining, adapts>>
      /\ mark' = [l \in leaves |-> Max({0, mark[l]})]
  BY DEF Coarsened
<1>2. leaves' = leaves
  BY <1>1 DEF leaves
<1>3. \A l \in leaves : mark'[l] \in (-128)..126
  <2>1. SUFFICES ASSUME NEW l \in leaves PROVE mark'[l] \in (-128)..126
    OBVIOUS
  <2>2. PICK k \in (-128)..126 : k = mark[l]
    BY DEF CallInv
  <2>3. k \in Int
    OBVIOUS
  <2>4. Max({0, k}) = IF 0 >= k THEN 0 ELSE k
    BY <2>3, LargerOf
  <2>5. QED  BY <1>1, <2>2, <2>4
<1>4. QED  BY <1>1, <1>2, <1>3 DEF CallInv

(* The counters are those of the old marks, which are taken off. *)
LEMMA CallGlobalRefineStep ==
  ASSUME IndexInv, MarkInv, WeightInv, CallInv, MarkInv', GlobalRefineStep
  PROVE  CallInv'
<1> DEFINE N == {l \in leaves : mark[l] < 0}
           refined == adaptationState_.refineMarked_ - weightOf(mark, leaves) + weightOf(mark', leaves)
           k == adaptationState_.coarsenMarked_ - Cardinality(N)
<1>1. /\ mark' = [l \in leaves |-> 1] /\ changed' = {} /\ UNCHANGED <<elements, remaining, adapts>>
      /\ adaptationState_' = [phase_ |-> "PreAdaptationPhase", coarsenMarked_ |-> k, refineMarked_ |-> refined]
      /\ pc = "idle" /\ adaptationState_.phase_ = "ComputationPhase"
  BY DEF GlobalRefineStep, inPhase
<1>2. leaves' = leaves
  BY <1>1 DEF leaves
<1>3. \A l \in leaves' : mark'[l] = 1
  BY <1>1, <1>2
<1>4. IsFiniteSet(leaves) /\ Mesh(elements) /\ leaves = leavesOf(elements)
  BY FiniteLeaves DEF IndexInv, leaves
<1>5. (\A l \in leaves : mark[l] \in Int) /\ \A l \in leaves : mark'[l] \in Int
  BY <1>2, <1>3 DEF MarkInv
<1>6. PICK w \in Nat, v \in Nat, c \in Nat :
        w = weightOf(mark, leaves) /\ v = weightOf(mark', leaves) /\ c = Cardinality(negative(mark, leaves))
  <2>1. PICK m, n, L : m = mark /\ n = mark' /\ L = leaves
    OBVIOUS
  <2>2. weightOf(m, L) \in Nat /\ weightOf(n, L) \in Nat
    BY <1>4, <1>5, <2>1, WeightsAreNat
  <2>3. Cardinality(negative(m, L)) \in Nat
    BY <1>4, <1>5, <2>1, CountersAreNat
  <2>4. QED  BY <2>1, <2>2, <2>3
<1>7. N = negative(mark, leaves)
  BY DEF negative
<1>8. adaptationState_.refineMarked_ = w /\ adaptationState_.coarsenMarked_ = c
  BY <1>1, <1>6 DEF MarkInv, WeightInv
<1>9. k \in Nat /\ refined \in Nat
  <2> HIDE DEF N
  <2>1. k = c - c /\ refined = w - w + v
    BY <1>6, <1>7, <1>8
  <2> HIDE DEF k, refined
  <2>2. QED  BY <2>1
<1> HIDE DEF k, refined, N
<1>10. PICK a : a = adaptationState_'
  OBVIOUS
<1>11. a.phase_ = "PreAdaptationPhase" /\ a.coarsenMarked_ = k /\ a.refineMarked_ = refined
  <2>1. a = [phase_ |-> "PreAdaptationPhase", coarsenMarked_ |-> k, refineMarked_ |-> refined]
    BY <1>1, <1>10
  <2>2. QED  BY <2>1
<1>12. QED  BY <1>1, <1>3, <1>9, <1>10, <1>11 DEF CallInv, Phases

(* A step to a new adaptationState_ that leaves the mesh and the marks. *)
LEMMA CallNew ==
  ASSUME CallInv, UNCHANGED <<elements, mark, changed, adapts>>, remaining' \in Nat, adaptationState_' = NoMarks
  PROVE  CallInv'
BY NewState DEF CallInv, leaves, Phases

LEMMA CallNext ==
  ASSUME IndexInv, MarkInv, WeightInv, CallInv, (IndexInv /\ MarkInv /\ WeightInv)', [Next]_vars
  PROVE  CallInv'
<1> USE DEF meshVars, indexVars, cacheVars, callVars
<1>0. Mesh(elements)
  BY DEF IndexInv
<1>1. CASE Mark  BY <1>1, CallMark
<1>2. CASE PreAdapt  BY <1>2, CallPreAdapt
<1>3. CASE Adapt
  <2>1. /\ UNCHANGED <<elements, mark, adaptationState_, remaining>>
        /\ changed' = {} /\ adapts' = adapts + 1 /\ adapts < MaxAdapts
    BY <1>3 DEF Adapt
  <2>2. adapts' \in 0..MaxAdapts
    BY <2>1, boundsAssumption DEF CallInv
  <2>3. QED  BY <2>1, <2>2 DEF CallInv, leaves
<1>4. CASE PostAdapt
  <2>1. /\ UNCHANGED <<elements, mark, changed, adapts>> /\ adaptationState_' = NoMarks
        /\ remaining' = IF remaining > 0 THEN remaining - 1 ELSE 0
    BY <1>4 DEF PostAdapt
  <2>2. remaining' \in Nat
    BY <2>1 DEF CallInv
  <2>3. QED  BY <2>1, <2>2, CallNew
<1>5. CASE RefinePatch  BY <1>0, <1>5, CallRefine
<1>6. CASE Refined  BY <1>6, CallUnchanged DEF Refined
<1>7. CASE CoarsenPatch  BY <1>0, <1>7, CallCoarsen
<1>8. CASE Coarsened  BY <1>8, CallCoarsened
<1>9. CASE Finish  BY <1>9, CallFinish
<1>10. CASE GlobalRefine
  <2>1. UNCHANGED <<elements, mark, adaptationState_, changed, adapts>> /\ remaining' \in Nat
    BY <1>10, boundsAssumption DEF GlobalRefine
  <2>2. QED  BY <2>1 DEF CallInv, leaves
<1>11. CASE GlobalRefineStep  BY <1>11, CallGlobalRefineStep
<1>12. CASE LeafIndexSet  BY <1>12, CallUnchanged DEF LeafIndexSet
<1>13. CASE LeafBegin  BY <1>13, CallUnchanged DEF LeafBegin
<1>14. CASE Resize  BY <1>14, CallUnchanged DEF Resize
<1>15. CASE Store  BY <1>15, CallUnchanged DEF Store
<1>16. CASE Restart
  <2>1. UNCHANGED <<elements, mark, changed, remaining, adapts>> /\ adaptationState_' = NoMarks
    BY <1>16 DEF Restart
  <2>2. remaining' \in Nat
    BY <2>1 DEF CallInv
  <2>3. QED  BY <2>1, <2>2, CallNew
<1>17. CASE UNCHANGED vars  BY <1>17, CallUnchanged DEF vars
<1>18. QED
  BY <1>1, <1>2, <1>3, <1>4, <1>5, <1>6, <1>7, <1>8, <1>9, <1>10, <1>11, <1>12, <1>13,
     <1>14, <1>15, <1>16, <1>17 DEF Next

(***************************************************************************)
(* Types: the marks stay within the signed char that ALBERTA keeps them    *)
(* in, the two counters of marks are never negative (agrid.hh:223-239,     *)
(* where unmark() subtracts), the numbers of the entities are natural, and *)
(* the finite stacks stay within their capacity and those behind the one   *)
(* in use are full (indexstack.hh:136-172).                                *)
(***************************************************************************)
THEOREM TypesKept ==
  Spec => []TypeOK
<1> DEFINE I == IndexInv /\ MarkInv /\ WeightInv /\ LevelInv /\ NumbersInv /\ CallInv
<1>1. Init => I
  BY IndexInit, MarkInit, WeightInit, LevelInit, NumbersInvInit, CallInit
<1>2. I /\ [Next]_vars => I'
  <2>1. SUFFICES ASSUME I, [Next]_vars PROVE I'
    OBVIOUS
  <2>2. IndexInv' /\ MarkInv' /\ WeightInv' /\ LevelInv' /\ NumbersInv'
    BY <2>1, IndexNext, MarkNext, WeightNext, LevelNext, NumbersNext
  <2>3. CallInv'
    BY <2>1, <2>2, CallNext
  <2>4. QED  BY <2>2, <2>3
<1>3. I => TypeOK
  <2>1. SUFFICES ASSUME I PROVE TypeOK
    OBVIOUS
  <2>2. \A e \in elements : e.macro \in DOMAIN macros /\ e.level \in Nat /\ e.n \in 0..2^e.level-1
    <3>1. SUFFICES ASSUME NEW e \in elements
                   PROVE  e.macro \in DOMAIN macros /\ e.level \in Nat /\ e.n \in 0..2^e.level-1
      OBVIOUS
    <3>2. e.macro \in DOMAIN macros /\ e.level \in Nat /\ e.n \in Nat /\ e.n < 2^e.level
      BY <2>1 DEF NumbersInv, Mesh
    <3>3. PICK w \in Nat : w = 2^e.level
      BY <3>2, PowerOfTwo
    <3>4. PICK n \in Nat : n = e.n /\ n < w
      BY <3>2, <3>3
    <3>5. n \in 0..w-1
      BY <3>4
    <3>6. QED  BY <3>2, <3>3, <3>4, <3>5
  <2>3. mark \in [leaves -> (-128)..126]
    BY <2>1 DEF MarkInv, CallInv
  <2>4. DOMAIN adaptationState_ = {"phase_", "coarsenMarked_", "refineMarked_"}
    <3>1. IsState(adaptationState_)
      BY <2>1 DEF MarkInv
    <3>2. PICK a : a = adaptationState_
      OBVIOUS
    <3>3. a = [phase_ |-> a.phase_, coarsenMarked_ |-> a.coarsenMarked_, refineMarked_ |-> a.refineMarked_]
      BY <3>1, <3>2 DEF IsState
    <3>4. QED  BY <3>2, <3>3
  <2>5. \A c \in codims : TypeOfStack(indexStack_[c]) /\ InUse(c) \subseteq Nat
    <3>1. SUFFICES ASSUME NEW c \in codims PROVE TypeOfStack(indexStack_[c]) /\ InUse(c) \subseteq Nat
      OBVIOUS
    <3>2. Numbers(entities(elements, c), numbers[c], indexStack_[c], lost[c])
      BY <2>1 DEF NumbersInv, NumbersOf
    <3>3. image(numbers[c]) \subseteq 0..indexStack_[c].maxIndex_ - 1 /\ indexStack_[c].maxIndex_ \in Nat
      BY <3>2, NumbersBelow
    <3>4. InUse(c) = image(numbers[c])
      BY DEF InUse, image
    <3>5. QED  BY <3>2, <3>3, <3>4 DEF Numbers
  <2>6. DOMAIN level_ = elements
    BY <2>1 DEF LevelInv
  <2>7. pc \in {"idle", "refine", "coarsen", "finish"}
    BY <2>1 DEF MarkInv
  <2>8. QED  BY <2>1, <2>2, <2>3, <2>4, <2>5, <2>6, <2>7 DEF TypeOK, CallInv, Phases
<1> HIDE DEF I
<1>4. QED  BY <1>1, <1>2, <1>3, PTL DEF Spec
=============================================================================

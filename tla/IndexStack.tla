----------------------------- MODULE IndexStack -----------------------------
(***************************************************************************)
(* IndexStack (albertagrid/indexstack.hh): hands out indices, those that   *)
(* have been freed first.  Freed indices are kept on finite stacks: one in *)
(* use, the full ones behind it on a stack of stacks, and empty ones that  *)
(* wait to be used again.                                                  *)
(***************************************************************************)
EXTENDS Integers, Sequences

CONSTANT length  \* capacity of one finite stack; 100000 in AlbertaGrid

ASSUME lengthAssumption == length \in Nat \ {0}

last(q)  == q[Len(q)]
front(q) == SubSeq(q, 1, Len(q) - 1)

(* The empty stacks differ in nothing, so that their number is enough. *)
NewIndexStack == [stack_ |-> <<>>, fullStackList_ |-> <<>>, emptyStackList_ |-> 0, maxIndex_ |-> 0]

full(s) == Len(s.stack_) >= length

(* The full stack stays on the list it was taken from. *)
exchangeEmpty_keep(s) ==
  IF s.stack_ = <<>> /\ s.fullStackList_ # <<>>
  THEN [s EXCEPT !.stack_ = last(s.fullStackList_),
                 !.emptyStackList_ = @ + 1]
  ELSE s

(* getIndex() and freeIndex() before they touch the stack in use.          *)
exchangeEmpty(s) ==
  IF s.stack_ = <<>> /\ s.fullStackList_ # <<>>
  THEN [s EXCEPT !.stack_ = last(s.fullStackList_),
                 !.fullStackList_ = front(@),
                 !.emptyStackList_ = @ + 1]
  ELSE s

(* The number of empty stacks is not looked at. *)
exchangeFull_none(s) ==
  IF full(s)
  THEN [s EXCEPT !.stack_ = <<>>,
                 !.fullStackList_ = Append(@, s.stack_),
                 !.emptyStackList_ = @ - 1]
  ELSE s

exchangeFull(s) ==
  IF full(s)
  THEN [s EXCEPT !.stack_ = <<>>,
                 !.fullStackList_ = Append(@, s.stack_),
                 !.emptyStackList_ = IF @ <= 0 THEN @ ELSE @ - 1]
  ELSE s

(* The index handed out, and the object afterwards. *)
getIndex(s) ==
  LET t == exchangeEmpty(s)
  IN  IF t.stack_ = <<>>
      THEN [index |-> s.maxIndex_, next |-> [s EXCEPT !.maxIndex_ = @ + 1]]
      ELSE [index |-> last(t.stack_), next |-> [t EXCEPT !.stack_ = front(@)]]

freeIndex(s, i) == [exchangeFull(s) EXCEPT !.stack_ = Append(@, i)]

(* The largest index itself. *)
restored_max(max) == [NewIndexStack EXCEPT !.maxIndex_ = max]

(* setMaxIndex() of a new object: backup keeps no holes. *)
restored(max) == [NewIndexStack EXCEPT !.maxIndex_ = max + 1]
-----------------------------------------------------------------------------
(* The positions of freed indices: k = 0 is the stack in use. *)
stackSize(s, k) == IF k = 0 THEN Len(s.stack_) ELSE Len(s.fullStackList_[k])

slots(s) == {p \in (0..Len(s.fullStackList_)) \X (1..length) : p[2] <= stackSize(s, p[1])}

slot(s, p) == IF p[1] = 0 THEN s.stack_[p[2]] ELSE s.fullStackList_[p[1]][p[2]]

holes(s) == {slot(s, p) : p \in slots(s)}

TypeOfStack(s) ==
  /\ s.stack_ \in Seq(Nat)
  /\ s.fullStackList_ \in Seq(Seq(Nat))
  /\ s.emptyStackList_ \in Nat
  /\ s.maxIndex_ \in Nat
  /\ s = [stack_ |-> s.stack_, fullStackList_ |-> s.fullStackList_,
          emptyStackList_ |-> s.emptyStackList_, maxIndex_ |-> s.maxIndex_]
  /\ Len(s.stack_) <= length
  /\ \A k \in DOMAIN s.fullStackList_ : Len(s.fullStackList_[k]) = length

(***************************************************************************)
(* The indices below maxIndex_ are those in use and those on the stacks,   *)
(* which hold each of theirs once.                                         *)
(***************************************************************************)
Conserved(s, used) ==
  /\ \A p, q \in slots(s) : slot(s, p) = slot(s, q) => p = q
  /\ holes(s) \cap used = {}
  /\ holes(s) \cup used = 0..s.maxIndex_-1
=============================================================================

----------------------- MODULE OneDGridRefine_proofs -----------------------
(***************************************************************************)
(* Lemmas about OneDGrid (module OneDGrid): what a consistent grid is (WF, *)
(* at the definition of Forest and Lists), and that it stays consistent    *)
(* when leaves are refined or copied and when levels are coarsened.        *)
(***************************************************************************)
EXTENDS OneDGrid, NaturalLemmas, SequenceTheorems, FiniteSetTheorems, TLAPS

(* Lists of entities in the order of their places *)

(* The list s has the members of DOMAIN f, each once, in the order of f. *)
Listed(s, f) ==
  /\ s \in Seq(DOMAIN f)
  /\ \A x \in DOMAIN f : \E k \in 1..Len(s) : s[k] = x
  /\ \A j, k \in 1..Len(s) : j < k => f[s[j]] < f[s[k]]

Numbering(f) == \A x \in DOMAIN f : f[x] \in Int

(* The places of a list are 1 to its length, and its members are those of  *)
(* the domain.                                                             *)
LEMMA ListedMembers ==
  ASSUME NEW f, NEW s, Listed(s, f)
  PROVE  /\ Len(s) \in Nat /\ DOMAIN s = 1..Len(s)
         /\ \A k \in 1..Len(s) : s[k] \in DOMAIN f
<1>1. s \in Seq(DOMAIN f)
  BY DEF Listed
<1>2. QED BY <1>1, ElementOfSeq, LenProperties

(* index() finds every member. *)
LEMMA ListedIndex ==
  ASSUME NEW f, Numbering(f), NEW s, Listed(s, f), NEW x \in DOMAIN f
  PROVE  index(s, x) \in 1..Len(s) /\ s[index(s, x)] = x
<1>1. DOMAIN s = 1..Len(s)
  BY ListedMembers
<1>2. \E k \in DOMAIN s : s[k] = x
  BY <1>1 DEF Listed
<1>3. x \in ToSet(s)
  BY <1>2 DEF ToSet
<1>4. QED BY <1>1, <1>2, <1>3 DEF index

(* The order of the places is that of the numbers, and no member occurs    *)
(* twice.                                                                  *)
LEMMA ListedOrder ==
  ASSUME NEW f, Numbering(f), NEW s, Listed(s, f), NEW j \in 1..Len(s), NEW k \in 1..Len(s)
  PROVE  /\ s[j] \in DOMAIN f /\ s[k] \in DOMAIN f /\ f[s[j]] \in Int /\ f[s[k]] \in Int
         /\ j < k <=> f[s[j]] < f[s[k]]
         /\ j = k <=> s[j] = s[k]
<1>1. s[j] \in DOMAIN f /\ s[k] \in DOMAIN f /\ f[s[j]] \in Int /\ f[s[k]] \in Int
  BY ListedMembers DEF Numbering
<1>2. j < k => f[s[j]] < f[s[k]]
  BY DEF Listed
<1>3. k < j => f[s[k]] < f[s[j]]
  BY DEF Listed
<1>4. j \in Int /\ k \in Int
  OBVIOUS
<1>5. j < k \/ j = k \/ k < j
  BY <1>4
<1>6. QED BY <1>1, <1>2, <1>3, <1>4, <1>5

(* y follows x in the order of f. *)
Follower(f, x, y) ==
  \/ y = null /\ \A z \in DOMAIN f : f[z] <= f[x]
  \/ y \in DOMAIN f /\ f[y] > f[x] /\ \A z \in DOMAIN f : f[z] < f[y] => f[z] <= f[x]

(* succ() gives the member that follows in the order. *)
LEMMA SuccIsFollower ==
  ASSUME NEW f, Numbering(f), NEW s, Listed(s, f), NEW x \in DOMAIN f
  PROVE  Follower(f, x, succ(s, x))
<1> DEFINE n == index(s, x)
<1>1. n \in 1..Len(s) /\ s[n] = x
  BY ListedIndex
<1>2. DOMAIN s = 1..Len(s) /\ Len(s) \in Nat
  BY ListedMembers
<1> HIDE DEF n
<1>3. CASE n + 1 \in 1..Len(s)
  <2>1. succ(s, x) = s[n+1]
    BY <1>2, <1>3 DEF succ, at, n
  <2>2. s[n+1] \in DOMAIN f /\ f[s[n+1]] > f[x]
    BY <1>1, <1>3, ListedOrder
  <2>3. ASSUME NEW z \in DOMAIN f, f[z] < f[s[n+1]] PROVE f[z] <= f[x]
    <3>1. PICK k \in 1..Len(s) : s[k] = z
      BY DEF Listed
    <3>2. k < n + 1
      BY <3>1, <2>3, <1>3, ListedOrder
    <3>3. k < n => f[z] < f[x]
      BY <3>1, <1>1, ListedOrder
    <3>4. f[x] \in Int /\ f[z] \in Int /\ (k < n \/ k = n)
      BY <3>1, <3>2, <1>1, <1>2 DEF Numbering
    <3>5. QED BY <3>1, <3>3, <3>4, <1>1
  <2>4. QED BY <2>1, <2>2, <2>3 DEF Follower
<1>4. CASE n + 1 \notin 1..Len(s)
  <2>1. succ(s, x) = null /\ n = Len(s)
    BY <1>1, <1>2, <1>4 DEF succ, at, n
  <2>2. ASSUME NEW z \in DOMAIN f PROVE f[z] <= f[x]
    <3>1. PICK k \in 1..Len(s) : s[k] = z
      BY DEF Listed
    <3>2. k < n => f[z] < f[x]
      BY <3>1, <1>1, ListedOrder
    <3>3. f[x] \in Int /\ f[z] \in Int
      BY DEF Numbering
    <3>4. k < n \/ k = n
      BY <3>1, <2>1, <1>1, <1>2
    <3>5. QED BY <3>1, <3>2, <3>3, <3>4, <1>1
  <2>3. QED BY <2>1, <2>2 DEF Follower
<1>5. QED BY <1>3, <1>4

(* y comes before x in the order of f. *)
Leader(f, x, y) ==
  \/ y = null /\ \A z \in DOMAIN f : f[x] <= f[z]
  \/ y \in DOMAIN f /\ f[y] < f[x] /\ \A z \in DOMAIN f : f[z] > f[y] => f[z] >= f[x]

(* pred() gives the member that comes before in the order. *)
LEMMA PredIsLeader ==
  ASSUME NEW f, Numbering(f), NEW s, Listed(s, f), NEW x \in DOMAIN f
  PROVE  Leader(f, x, pred(s, x))
<1> DEFINE n == index(s, x)
<1>1. n \in 1..Len(s) /\ s[n] = x
  BY ListedIndex
<1>2. DOMAIN s = 1..Len(s) /\ Len(s) \in Nat
  BY ListedMembers
<1> HIDE DEF n
<1>3. CASE n - 1 \in 1..Len(s)
  <2>1. pred(s, x) = s[n-1]
    BY <1>2, <1>3 DEF pred, at, n
  <2>2. s[n-1] \in DOMAIN f /\ f[s[n-1]] < f[x]
    BY <1>1, <1>3, ListedOrder
  <2>3. ASSUME NEW z \in DOMAIN f, f[z] > f[s[n-1]] PROVE f[z] >= f[x]
    <3>1. PICK k \in 1..Len(s) : s[k] = z
      BY DEF Listed
    <3>2. n - 1 < k
      BY <3>1, <2>3, <1>3, ListedOrder
    <3>3. n < k => f[x] < f[z]
      BY <3>1, <1>1, ListedOrder
    <3>4. f[x] \in Int /\ f[z] \in Int
      BY DEF Numbering
    <3>5. QED BY <3>1, <3>2, <3>3, <3>4, <1>1, <1>2
  <2>4. QED BY <2>1, <2>2, <2>3 DEF Leader
<1>4. CASE n - 1 \notin 1..Len(s)
  <2>1. pred(s, x) = null /\ n = 1
    BY <1>1, <1>2, <1>4 DEF pred, at, n
  <2>2. ASSUME NEW z \in DOMAIN f PROVE f[x] <= f[z]
    <3>1. PICK k \in 1..Len(s) : s[k] = z
      BY DEF Listed
    <3>2. n < k => f[x] < f[z]
      BY <3>1, <1>1, ListedOrder
    <3>3. f[x] \in Int /\ f[z] \in Int
      BY DEF Numbering
    <3>4. n < k \/ k = n
      BY <3>1, <2>1, <1>1, <1>2
    <3>5. QED BY <3>1, <3>2, <3>3, <3>4, <1>1
  <2>3. QED BY <2>1, <2>2 DEF Leader
<1>5. QED BY <1>3, <1>4

(* first() gives the least member, if there is one. *)
LEMMA FirstIsLeast ==
  ASSUME NEW f, Numbering(f), NEW s, Listed(s, f)
  PROVE  \/ first(s) = null /\ DOMAIN f = {}
         \/ first(s) \in DOMAIN f /\ \A z \in DOMAIN f : f[first(s)] <= f[z]
<1>1. DOMAIN s = 1..Len(s) /\ Len(s) \in Nat
  BY ListedMembers
<1>2. CASE Len(s) = 0
  <2>1. DOMAIN f = {}
    <3> SUFFICES ASSUME NEW x \in DOMAIN f PROVE FALSE
      OBVIOUS
    <3>1. \E k \in 1..Len(s) : s[k] = x
      BY DEF Listed
    <3>2. QED BY <3>1, <1>2
  <2>2. first(s) = null
    BY <1>1, <1>2 DEF first, at
  <2>3. QED BY <2>1, <2>2
<1>3. CASE Len(s) # 0
  <2>1. 1 \in 1..Len(s) /\ first(s) = s[1]
    BY <1>1, <1>3 DEF first, at
  <2>2. ASSUME NEW z \in DOMAIN f PROVE f[s[1]] <= f[z]
    <3>1. PICK k \in 1..Len(s) : s[k] = z
      BY DEF Listed
    <3>2. 1 < k => f[s[1]] < f[z]
      BY <2>1, <3>1, ListedOrder
    <3>3. f[s[1]] \in Int /\ f[z] \in Int
      BY <2>1, ListedOrder DEF Numbering
    <3>4. 1 < k \/ k = 1
      BY <3>1, <1>1
    <3>5. QED BY <3>1, <3>2, <3>3, <3>4
  <2>3. s[1] \in DOMAIN f
    BY <2>1, ListedOrder
  <2>4. QED BY <2>1, <2>2, <2>3
<1>4. QED BY <1>2, <1>3

(* What is at p comes before x. *)
PlaceFor(f, x, p) ==
  \/ x = null /\ \A y \in DOMAIN f : f[y] < p
  \/ x # null /\ x \in DOMAIN f /\ f[x] > p /\ \A y \in DOMAIN f : f[y] < f[x] => f[y] < p

(* insert() keeps a list in order if the place is right. *)
LEMMA InsertListed ==
  ASSUME NEW f, Numbering(f), NEW s, Listed(s, f), NEW z, z \notin DOMAIN f,
         NEW p \in Int, NEW x, PlaceFor(f, x, p)
  PROVE  Listed(insert(s, x, z), With(f, z, p)) /\ Numbering(With(f, z, p))
<1> DEFINE n == IF x = null THEN Len(s) + 1 ELSE index(s, x)
           t == insert(s, x, z)
           F == With(f, z, p)
           S == DOMAIN f \cup {z}
<1>1. DOMAIN s = 1..Len(s) /\ Len(s) \in Nat /\ s \in Seq(S)
  <2>1. s \in Seq(DOMAIN f) /\ DOMAIN f \subseteq S
    BY DEF Listed
  <2>2. QED BY <2>1, SeqMonotonic
<1>2. DOMAIN F = S /\ F[z] = p /\ \A y \in DOMAIN f : F[y] = f[y]
  BY DEF With
<1>3. n \in 1..Len(s)+1
  <2>1. CASE x = null  BY <2>1, <1>1
  <2>2. CASE x # null
    <3>1. x \in DOMAIN f
      BY <2>2 DEF PlaceFor
    <3>2. index(s, x) \in 1..Len(s)
      BY <3>1, ListedIndex
    <3>3. QED BY <2>2, <3>2, <1>1
  <2>3. QED BY <2>1, <2>2
<1>4. /\ t \in Seq(S) /\ Len(t) = Len(s) + 1
      /\ \A k \in 1..Len(s)+1 : t[k] = IF k < n THEN s[k] ELSE IF k = n THEN z ELSE s[k-1]
  <2>1. CASE x = null
    <3>1. t = Append(s, z) /\ n = Len(s) + 1
      BY <2>1 DEF insert
    <3>2. t \in Seq(S) /\ Len(t) = Len(s) + 1
          /\ \A k \in 1..Len(s)+1 : t[k] = IF k = Len(s) + 1 THEN z ELSE s[k]
      <4>1. z \in S
        OBVIOUS
      <4> HIDE DEF S, t, n
      <4>2. QED BY <1>1, <3>1, <4>1, AppendProperties
    <3>3. QED BY <3>1, <3>2, <1>1
  <2>2. CASE x # null
    <3>1. t = SubSeq(s, 1, n-1) \o <<z>> \o SubSeq(s, n, Len(s)) /\ n \in 1..Len(s)
      <4>1. x \in DOMAIN f
        BY <2>2 DEF PlaceFor
      <4>2. index(s, x) \in 1..Len(s)
        BY <4>1, ListedIndex
      <4>3. QED BY <2>2, <4>2 DEF insert, InsertAt
    <3> HIDE DEF n
    <3> DEFINE A == SubSeq(s, 1, n-1)
               B == <<z>>
               C == SubSeq(s, n, Len(s))
    <3>2. A \in Seq(S) /\ Len(A) = n - 1 /\ \A k \in 1..n-1 : A[k] = s[k]
      BY <3>1, <1>1
    <3>3. C \in Seq(S) /\ Len(C) = Len(s) - n + 1 /\ \A k \in 1..Len(s)-n+1 : C[k] = s[n+k-1]
      BY <3>1, <1>1
    <3>4. B \in Seq(S) /\ Len(B) = 1 /\ B[1] = z
      OBVIOUS
    <3> HIDE DEF A, B, C
    <3> DEFINE D == A \o B
    <3>5. D \in Seq(S) /\ Len(D) = n /\ \A k \in 1..n : D[k] = IF k < n THEN s[k] ELSE z
      <4>1. Len(A) + Len(B) = n /\ Len(A) \in Nat
        BY <3>1, <3>2, <3>4, <1>1
      <4> HIDE DEF S
      <4>2. D \in Seq(S) /\ Len(D) = n /\ \A k \in 1..n : D[k] = IF k <= Len(A) THEN A[k] ELSE B[k - Len(A)]
        BY <4>1, <3>2, <3>4, ConcatProperties
      <4>3. ASSUME NEW k \in 1..n PROVE D[k] = IF k < n THEN s[k] ELSE z
        <5>1. CASE k < n
          <6>1. k \in 1..n-1 /\ k <= Len(A)
            BY <5>1, <3>2, <3>1, <1>1
          <6>2. QED BY <6>1, <5>1, <4>2, <3>2
        <5>2. CASE ~ (k < n)
          <6>1. ~ (k <= Len(A)) /\ k - Len(A) = 1
            BY <5>2, <3>2, <3>1, <1>1
          <6>2. QED BY <6>1, <5>2, <4>2, <3>4
        <5>3. QED BY <5>1, <5>2
      <4>4. QED BY <4>2, <4>3
    <3>6. t = D \o C
      BY <3>1 DEF A, B, C
    <3> HIDE DEF D, t
    <3> HIDE DEF S
    <3>7. t \in Seq(S) /\ Len(t) = Len(s) + 1
      <4>1. D \o C \in Seq(S) /\ Len(D \o C) = Len(D) + Len(C)
        BY <3>5, <3>3, ConcatProperties
      <4>2. QED BY <4>1, <3>6, <3>5, <3>3, <1>1, <3>1
    <3>8. ASSUME NEW k \in 1..Len(s)+1
          PROVE t[k] = IF k < n THEN s[k] ELSE IF k = n THEN z ELSE s[k-1]
      <4>1. t[k] = IF k <= n THEN D[k] ELSE C[k-n]
        BY <3>6, <3>5, <3>3, <1>1, <3>1, ConcatProperties
      <4>2. CASE k <= n  BY <4>1, <4>2, <3>5, <3>1
      <4>3. CASE k > n
        <5>1. k - n \in 1..Len(s)-n+1 /\ n + (k - n) - 1 = k - 1
          BY <4>3, <3>1, <1>1
        <5>2. C[k-n] = s[n+(k-n)-1]
          BY <5>1, <3>3
        <5>3. QED BY <5>1, <5>2, <4>1, <4>3, <3>1
      <4>4. QED BY <4>2, <4>3, <3>1, <1>1
    <3>9. QED BY <3>7, <3>8
  <2>3. QED BY <2>1, <2>2
<1>5. \A k \in 1..n-1 : f[s[k]] < p
  <2> TAKE k \in 1..n-1
  <2>1. k \in 1..Len(s) /\ s[k] \in DOMAIN f
    BY <1>1, <1>3, ListedMembers
  <2>2. CASE x = null  BY <2>1, <2>2 DEF PlaceFor
  <2>3. CASE x # null
    <3>1. x \in DOMAIN f /\ n = index(s, x)
      BY <2>3 DEF PlaceFor
    <3>2. n \in 1..Len(s) /\ s[n] = x
      BY <3>1, ListedIndex
    <3>3. f[s[k]] < f[x]
      BY <3>2, <2>1, ListedOrder
    <3>4. QED BY <3>3, <2>1, <2>3 DEF PlaceFor
  <2>4. QED BY <2>2, <2>3
<1>6. \A k \in n..Len(s) : f[s[k]] > p
  <2> TAKE k \in n..Len(s)
  <2>1. k \in 1..Len(s) /\ s[k] \in DOMAIN f
    BY <1>1, <1>3, ListedMembers
  <2>2. CASE x = null  BY <1>1, <2>1, <2>2
  <2>3. CASE x # null
    <3>1. x \in DOMAIN f /\ n = index(s, x) /\ f[x] > p
      BY <2>3 DEF PlaceFor
    <3>2. n \in 1..Len(s) /\ s[n] = x
      BY <3>1, ListedIndex
    <3>3. n < k => f[x] < f[s[k]]
      BY <3>2, <2>1, ListedOrder
    <3>4. f[s[k]] \in Int /\ f[x] \in Int
      BY <2>1, <3>1 DEF Numbering
    <3>5. n = k \/ n < k
      BY <2>1, <1>3
    <3>6. QED BY <3>1, <3>2, <3>3, <3>4, <3>5
  <2>4. QED BY <2>2, <2>3
<1> HIDE DEF n, t, F
<1>7. \A y \in S : \E k \in 1..Len(t) : t[k] = y
  <2> TAKE y \in S
  <2>1. CASE y = z  BY <2>1, <1>3, <1>4, <1>1
  <2>2. CASE y \in DOMAIN f
    <3>1. PICK k \in 1..Len(s) : s[k] = y
      BY <2>2 DEF Listed
    <3>2. k < n => k \in 1..Len(t) /\ t[k] = y
      BY <3>1, <1>4, <1>1
    <3>3. k >= n => k + 1 \in 1..Len(t) /\ t[k+1] = y
      <4> HAVE k >= n
      <4>1. k + 1 \in 1..Len(s)+1 /\ ~ (k + 1 < n) /\ k + 1 # n /\ (k + 1) - 1 = k
        BY <3>1, <1>1, <1>3
      <4>2. QED BY <4>1, <3>1, <1>4
    <3>4. k < n \/ k >= n
      BY <1>3
    <3>5. QED BY <3>2, <3>3, <3>4
  <2>3. QED BY <2>1, <2>2
<1>8. ASSUME NEW j \in 1..Len(t), NEW k \in 1..Len(t), j < k PROVE F[t[j]] < F[t[k]]
  <2>1. \A m \in 1..Len(s) : s[m] \in DOMAIN f /\ F[s[m]] = f[s[m]] /\ f[s[m]] \in Int
    BY <1>2, ListedMembers DEF Numbering
  <2>2. \A m \in 1..Len(t) : t[m] = IF m < n THEN s[m] ELSE IF m = n THEN z ELSE s[m-1]
    BY <1>4
  <2>3. Len(t) = Len(s) + 1
    BY <1>4
  <2>4. CASE k < n
    <3>1. j \in 1..Len(s) /\ k \in 1..Len(s) /\ t[j] = s[j] /\ t[k] = s[k]
      BY <2>4, <2>2, <2>3, <1>8, <1>3, <1>1
    <3>2. QED BY <3>1, <2>1, <1>8, ListedOrder
  <2>5. CASE k = n
    <3>1. j \in 1..n-1 /\ j \in 1..Len(s) /\ t[j] = s[j] /\ t[k] = z
      BY <2>5, <2>2, <2>3, <1>8, <1>3, <1>1
    <3>2. QED BY <3>1, <2>1, <1>5, <1>2
  <2>6. CASE k > n /\ j = n
    <3>1. k - 1 \in n..Len(s) /\ k - 1 \in 1..Len(s) /\ t[j] = z /\ t[k] = s[k-1]
      BY <2>6, <2>2, <2>3, <1>8, <1>3, <1>1
    <3>2. QED BY <3>1, <2>1, <1>6, <1>2
  <2>7. CASE k > n /\ j < n
    <3>1. k - 1 \in 1..Len(s) /\ j \in 1..Len(s) /\ t[j] = s[j] /\ t[k] = s[k-1] /\ j < k - 1
      BY <2>7, <2>2, <2>3, <1>8, <1>3, <1>1
    <3>2. QED BY <3>1, <2>1, ListedOrder
  <2>8. CASE k > n /\ j > n
    <3>1. k - 1 \in 1..Len(s) /\ j - 1 \in 1..Len(s) /\ t[j] = s[j-1] /\ t[k] = s[k-1] /\ j - 1 < k - 1
      BY <2>8, <2>2, <2>3, <1>8, <1>3, <1>1
    <3>2. QED BY <3>1, <2>1, ListedOrder
  <2>9. QED BY <2>4, <2>5, <2>6, <2>7, <2>8, <1>3, <1>8, <2>3, <1>1
<1>9. Listed(t, F)
  BY <1>2, <1>4, <1>7, <1>8 DEF Listed
<1>10. Numbering(F)
  BY <1>2 DEF Numbering
<1>11. QED BY <1>9, <1>10 DEF t, F

(* erase() keeps a list in order. *)
LEMMA EraseListed ==
  ASSUME NEW f, Numbering(f), NEW s, Listed(s, f), NEW x \in DOMAIN f
  PROVE  Listed(erase(s, x), Without(f, {x})) /\ Numbering(Without(f, {x}))
<1> DEFINE n == index(s, x)
           t == erase(s, x)
           F == Without(f, {x})
           S == DOMAIN f \ {x}
<1>1. DOMAIN s = 1..Len(s) /\ Len(s) \in Nat /\ s \in Seq(DOMAIN f)
  BY ListedMembers DEF Listed
<1>2. DOMAIN F = S /\ \A y \in S : F[y] = f[y]
  BY DEF Without
<1>3. n \in 1..Len(s) /\ s[n] = x
  BY ListedIndex
<1>4. /\ t \in Seq(DOMAIN f) /\ Len(t) = Len(s) - 1
      /\ \A k \in 1..Len(s)-1 : t[k] = IF k < n THEN s[k] ELSE s[k+1]
  <2> DEFINE A == SubSeq(s, 1, n-1)
             C == SubSeq(s, n+1, Len(s))
             D == DOMAIN f
  <2>1. t = A \o C
    BY DEF erase, RemoveAt
  <2> HIDE DEF n, D
  <2>2. A \in Seq(D) /\ Len(A) = n - 1 /\ \A k \in 1..n-1 : A[k] = s[k]
    BY <1>1, <1>3 DEF D
  <2>3. C \in Seq(D) /\ Len(C) = Len(s) - n /\ \A k \in 1..Len(s)-n : C[k] = s[n+k]
    <3>1. n + 1 \in Int /\ Len(s) \in Int /\ \A i \in n+1..Len(s) : s[i] \in D
      BY <1>1, <1>3, ListedMembers DEF D
    <3>2. /\ C \in Seq(D)
          /\ Len(C) = IF n + 1 <= Len(s) THEN Len(s) - (n + 1) + 1 ELSE 0
          /\ \A i \in 1..Len(s)-(n+1)+1 : C[i] = s[(n+1)+i-1]
      <4> HIDE DEF C
      <4>1. QED BY <3>1, SubSeqProperties DEF C
    <3> HIDE DEF C
    <3>3. Len(C) = Len(s) - n
      <4>1. Len(C) = IF n + 1 <= Len(s) THEN Len(s) - (n + 1) + 1 ELSE 0
        BY <3>2
      <4>2. n \in Int /\ Len(s) \in Int /\ n <= Len(s)
        BY <1>1, <1>3
      <4>3. QED BY <4>1, <4>2
    <3>4. ASSUME NEW k \in 1..Len(s)-n PROVE C[k] = s[n+k]
      <4>1. (n + 1) + k - 1 = n + k /\ k \in 1..Len(s)-(n+1)+1
        BY <1>3, <1>1
      <4>2. C[k] = s[(n + 1) + k - 1]
        BY <4>1, <3>2
      <4>3. QED BY <4>1, <4>2
    <3>5. QED BY <3>2, <3>3, <3>4
  <2> HIDE DEF A, C, t
  <2>4. /\ A \o C \in Seq(D) /\ Len(A \o C) = Len(A) + Len(C)
        /\ \A k \in 1..Len(A) + Len(C) : (A \o C)[k] = IF k <= Len(A) THEN A[k] ELSE C[k - Len(A)]
    BY <2>2, <2>3, ConcatProperties
  <2>5. t \in Seq(D) /\ Len(t) = Len(s) - 1
    BY <2>1, <2>2, <2>3, <2>4, <1>1, <1>3
  <2>6. ASSUME NEW k \in 1..Len(s)-1 PROVE t[k] = IF k < n THEN s[k] ELSE s[k+1]
    <3>1. k \in 1..Len(A) + Len(C)
      BY <2>2, <2>3, <1>1, <1>3
    <3>2. t[k] = IF k <= Len(A) THEN A[k] ELSE C[k - Len(A)]
      BY <3>1, <2>1, <2>4
    <3>3. CASE k < n
      <4>1. k <= Len(A) /\ k \in 1..n-1
        BY <3>3, <2>2, <1>3, <1>1
      <4>2. QED BY <4>1, <3>2, <2>2, <3>3
    <3>4. CASE ~ (k < n)
      <4>1. ~ (k <= Len(A)) /\ k - Len(A) \in 1..Len(s)-n /\ n + (k - Len(A)) = k + 1
        BY <3>4, <2>2, <1>3, <1>1
      <4>2. C[k - Len(A)] = s[n + (k - Len(A))]
        BY <4>1, <2>3
      <4>3. QED BY <4>1, <4>2, <3>2, <3>4
    <3>5. QED BY <3>3, <3>4
  <2>7. QED BY <2>5, <2>6 DEF D
<1> HIDE DEF n, t, F
<1>5. \A k \in 1..Len(t) : t[k] \in S /\ t[k] \in DOMAIN f
  <2> TAKE k \in 1..Len(t)
  <2>1. CASE k < n
    <3>1. k \in 1..Len(s) /\ t[k] = s[k] /\ k # n
      BY <2>1, <1>4, <1>3, <1>1
    <3>2. QED BY <3>1, <1>3, ListedOrder
  <2>2. CASE ~ (k < n)
    <3>1. k + 1 \in 1..Len(s) /\ t[k] = s[k+1] /\ k + 1 # n
      BY <2>2, <1>4, <1>3, <1>1
    <3>2. QED BY <3>1, <1>3, ListedOrder
  <2>3. QED BY <2>1, <2>2
<1>6. t \in Seq(S)
  <2>1. t \in [1..Len(t) -> S] /\ Len(t) \in Nat
    BY <1>4, <1>5, <1>1, <1>3, LenProperties
  <2>2. QED BY <2>1, SeqDef
<1>7. \A y \in S : \E k \in 1..Len(t) : t[k] = y
  <2> TAKE y \in S
  <2>1. PICK k \in 1..Len(s) : s[k] = y
    BY DEF Listed
  <2>2. k # n
    BY <2>1, <1>3
  <2>3. CASE k < n
    <3>1. k \in 1..Len(t) /\ t[k] = y
      BY <2>3, <2>1, <1>4, <1>3, <1>1
    <3>2. QED BY <3>1
  <2>4. CASE k > n
    <3>1. k - 1 \in 1..Len(s)-1 /\ ~ (k - 1 < n) /\ (k - 1) + 1 = k
      BY <2>4, <2>1, <1>3, <1>1
    <3>2. t[k-1] = s[(k-1)+1]
      BY <3>1, <1>4
    <3>3. QED BY <3>1, <3>2, <2>1, <1>4
  <2>5. QED BY <2>2, <2>3, <2>4, <1>3
<1>8. ASSUME NEW j \in 1..Len(t), NEW k \in 1..Len(t), j < k PROVE F[t[j]] < F[t[k]]
  <2> DEFINE J == IF j < n THEN j ELSE j + 1
             K == IF k < n THEN k ELSE k + 1
  <2>1. J \in 1..Len(s) /\ K \in 1..Len(s) /\ J < K
    BY <1>8, <1>4, <1>3, <1>1
  <2>2. t[j] = s[J] /\ t[k] = s[K]
    BY <1>4, <1>3, <1>1
  <2>3. F[t[j]] = f[t[j]] /\ F[t[k]] = f[t[k]]
    BY <1>5, <1>2
  <2> HIDE DEF J, K
  <2>4. QED BY <2>1, <2>2, <2>3, ListedOrder
<1>9. Listed(t, F)
  BY <1>2, <1>6, <1>7, <1>8 DEF Listed
<1>10. Numbering(F)
  BY <1>2 DEF Numbering
<1>11. QED BY <1>9, <1>10 DEF t, F

(* A bounded set of numbers has a largest. *)
LEMMA Largest ==
  ASSUME NEW n \in Nat, NEW T, T \subseteq 0..n, T # {}
  PROVE  Max(T) \in T /\ \A k \in T : k <= Max(T)
<1> DEFINE U == {n - k : k \in T}
<1>1. U \subseteq Nat /\ U # {}
  <2>1. \A k \in T : n - k \in Nat
    OBVIOUS
  <2>2. QED BY <2>1
<1>2. PICK m \in U : \A k \in U : m <= k
  <2> HIDE DEF U
  <2>1. QED BY <1>1, Smallest
<1>3. PICK t \in T : m = n - t
  BY <1>2
<1>4. \A k \in T : t >= k
  <2> TAKE k \in T
  <2>1. m <= n - k /\ k \in Int /\ t \in Int
    BY <1>2
  <2>2. QED BY <2>1, <1>3
<1>5. \E x \in T : \A y \in T : x >= y
  BY <1>4
<1>6. Max(T) \in T /\ \A y \in T : Max(T) >= y
  BY <1>5 DEF Max
<1>7. QED BY <1>6

(* The last member of Q before x. *)
lastBefore(s, x, Q) == at(s, Max({0} \cup {k \in 1..index(s, x)-1 : s[k] \in Q}))

(* The last member before x that is in Q, if there is one. *)
LEMMA LastBefore ==
  ASSUME NEW f, Numbering(f), NEW s, Listed(s, f), NEW x \in DOMAIN f, NEW Q,
         NEW y, y = lastBefore(s, x, Q)
  PROVE  \/ y = null /\ \A z \in Q \cap DOMAIN f : f[z] >= f[x]
         \/ /\ y \in Q \cap DOMAIN f /\ f[y] < f[x]
            /\ \A z \in Q \cap DOMAIN f : f[z] < f[x] => f[z] <= f[y]
<1> DEFINE n == index(s, x)
           T == {0} \cup {k \in 1..n-1 : s[k] \in Q}
           m == Max(T)
<1>1. n \in 1..Len(s) /\ s[n] = x
  BY ListedIndex
<1>2. DOMAIN s = 1..Len(s) /\ Len(s) \in Nat
  BY ListedMembers
<1> HIDE DEF n
<1>3. m \in T /\ \A k \in T : k <= m
  <2>1. T \subseteq 0..n /\ T # {} /\ n \in Nat
    BY <1>1, <1>2
  <2> HIDE DEF T
  <2>2. QED BY <2>1, Largest
<1>4. y = at(s, m)
  BY DEF n, lastBefore
<1> HIDE DEF m
<1>5. ASSUME NEW z \in Q \cap DOMAIN f, f[z] < f[x]
      PROVE  \E k \in T : k >= 1 /\ k <= m /\ s[k] = z
  <2>1. PICK k \in 1..Len(s) : s[k] = z
    BY DEF Listed
  <2>2. k < n
    BY <2>1, <1>5, <1>1, ListedOrder
  <2>3. k \in T
    BY <2>1, <2>2, <1>1, <1>2
  <2>4. QED BY <2>1, <2>3, <1>3
<1>6. CASE m = 0
  <2>1. y = null
    BY <1>4, <1>6, <1>2 DEF at
  <2>2. \A z \in Q \cap DOMAIN f : f[z] >= f[x]
    <3> TAKE z \in Q \cap DOMAIN f
    <3>1. ~ (f[z] < f[x])
      <4> SUFFICES ASSUME f[z] < f[x] PROVE FALSE
        OBVIOUS
      <4>1. \E k \in T : k >= 1 /\ k <= m /\ s[k] = z
        BY <1>5
      <4>2. T \subseteq Nat
        BY <1>1
      <4> HIDE DEF T
      <4>3. QED BY <4>1, <4>2, <1>6
    <3>2. f[z] \in Int /\ f[x] \in Int
      BY DEF Numbering
    <3>3. QED BY <3>1, <3>2
  <2>3. QED BY <2>1, <2>2
<1>7. CASE m # 0
  <2>1. m \in 1..n-1 /\ s[m] \in Q
    BY <1>3, <1>7
  <2>2. m \in 1..Len(s) /\ y = s[m]
    BY <2>1, <1>4, <1>1, <1>2 DEF at
  <2>3. f[y] < f[x] /\ y \in DOMAIN f
    BY <2>1, <2>2, <1>1, ListedOrder
  <2>4. ASSUME NEW z \in Q \cap DOMAIN f, f[z] < f[x] PROVE f[z] <= f[y]
    <3>1. PICK k \in T : k >= 1 /\ k <= m /\ s[k] = z
      BY <1>5, <2>4
    <3>2. k \in 1..Len(s) /\ (k < m \/ k = m)
      BY <3>1, <2>2, <1>1, <1>2
    <3>3. f[z] \in Int /\ f[y] \in Int
      BY <2>3 DEF Numbering
    <3>4. k < m => f[z] < f[y]
      BY <3>1, <3>2, <2>2, ListedOrder
    <3>5. QED BY <3>1, <3>2, <3>3, <3>4, <2>2
  <2>5. QED BY <2>1, <2>2, <2>3, <2>4
<1>8. QED BY <1>6, <1>7

(* power2 is what its definition says. *)
LEMMA PowerRecursion ==
  /\ power2 \in [Nat -> Nat] /\ power2[0] = 1
  /\ \A n \in Nat : power2[n+1] = 2 * power2[n]
<1> DEFINE F == [k \in Nat |-> [v \in Nat |-> 2 * v]]
           rec(f) == f = [n \in Nat |-> IF n = 0 THEN 1 ELSE 2 * f[n-1]]
<1>1. F \in [Nat -> [Nat -> Nat]] /\ \A k, v \in Nat : F[k][v] = 2 * v
  OBVIOUS
<1>2. PICK f : FollowsForever(f, Nat, 1, F)
  <2> HIDE DEF F
  <2>1. QED BY <1>1, RecursionOnNat
<1>3. rec(f)
  <2> DEFINE G == [n \in Nat |-> IF n = 0 THEN 1 ELSE 2 * f[n-1]]
  <2>1. f \in [Nat -> Nat] /\ f[0] = 1 /\ \A k \in Nat : f[k+1] = F[k+1][f[k]]
    BY <1>2 DEF FollowsForever
  <2>2. ASSUME NEW n \in Nat, n # 0 PROVE f[n] = 2 * f[n-1]
    <3>1. n - 1 \in Nat /\ (n - 1) + 1 = n
      BY <2>2
    <3>2. f[n] = F[n][f[n-1]] /\ f[n-1] \in Nat
      BY <2>1, <3>1
    <3>3. QED BY <3>2, <1>1
  <2>3. \A n \in Nat : f[n] = G[n]
    BY <2>1, <2>2
  <2>4. QED BY <2>1, <2>3
<1>4. rec(power2)
  BY <1>3 DEF power2
<1>5. power2[0] = 1 /\ \A n \in Nat : power2[n+1] = 2 * power2[n]
  <2>1. \A n \in Nat : n + 1 \in Nat /\ n + 1 # 0 /\ (n + 1) - 1 = n
    OBVIOUS
  <2>2. power2[0] = 1
    BY <1>4
  <2>3. \A n \in Nat : power2[n+1] = 2 * power2[(n+1)-1]
    <3> TAKE n \in Nat
    <3> DEFINE m == n + 1
    <3>1. m \in Nat /\ m # 0
      OBVIOUS
    <3> HIDE DEF m
    <3>2. power2[m] = 2 * power2[m-1]
      BY <3>1, <1>4
    <3>3. QED BY <3>2 DEF m
  <2>4. QED BY <2>1, <2>2, <2>3
<1>6. Nat \subseteq {n \in Nat : power2[n] \in Nat}
  <2> DEFINE T == {n \in Nat : power2[n] \in Nat}
  <2>1. 0 \in T
    BY <1>5
  <2>2. ASSUME NEW n \in Nat, n \in T PROVE n + 1 \in T
    BY <2>2, <1>5
  <2> HIDE DEF T
  <2>3. Nat \subseteq T
    BY <2>1, <2>2, InductionOn
  <2>4. QED BY <2>3 DEF T
<1>7. \A n \in Nat : power2[n] \in Nat
  BY <1>6
<1>8. power2 \in [Nat -> Nat]
  <2>1. power2 = [n \in Nat |-> IF n = 0 THEN 1 ELSE 2 * power2[n-1]]
    BY <1>4
  <2>2. \A n \in Nat : (IF n = 0 THEN 1 ELSE 2 * power2[n-1]) \in Nat
    BY <1>7
  <2>3. QED BY <2>1, <2>2
<1>9. QED BY <1>5, <1>8

(* The powers of two are positive. *)
LEMMA PowerPositive == \A n \in Nat : power2[n] \in Nat /\ power2[n] >= 1
<1> DEFINE T == {n \in Nat : power2[n] \in Nat /\ power2[n] >= 1}
<1>1. 0 \in T
  BY PowerRecursion
<1>2. ASSUME NEW n \in Nat, n \in T PROVE n + 1 \in T
  BY <1>2, PowerRecursion
<1> HIDE DEF T
<1>3. Nat \subseteq T
  BY <1>1, <1>2, InductionOn
<1>4. QED BY <1>3 DEF T

(* The null pointer is no entity. *)
LEMMA NullIsNone == \A x : x \in Int \X Int => x # null
BY DEF null

-----------------------------------------------------------------------------
(* The inductive invariant speaks of a grid g, of the maps of its vertices *)
(* and elements, and says of its lists only what is in which order.        *)

Vs(g) == DOMAIN g.vertex
Es(g) == DOMAIN g.element
V0(g, e) == g.element[e].vertex[1]
V1(g, e) == g.element[e].vertex[2]
Pos(g, v) == g.vertex[v].pos
Lo(g, e) == Pos(g, V0(g, e))
Hi(g, e) == Pos(g, V1(g, e))

Shape(g) ==
  {"elements", "vertices", "element", "vertex", "freeVertexId", "freeElementId", "reversed", "failed"}
    \subseteq DOMAIN g

VertexType(V) == [pos : Nat, son : V \cup {null}]
ElementType(V, E) ==
  [vertex : V \X V, father : E \cup {null}, sons : (E \cup {null}) \X (E \cup {null}),
   markState : MarkStates, isNew : BOOLEAN, reversed : BOOLEAN]

Typed(g) ==
  /\ Shape(g)
  /\ maxLevel(g) \in 0..LevelLimit
  /\ DOMAIN g.elements = 0..maxLevel(g) /\ DOMAIN g.vertices = 0..maxLevel(g)
  /\ Vs(g) \subseteq (0..maxLevel(g)) \X Int
  /\ Es(g) \subseteq (0..maxLevel(g)) \X Int
  /\ g.freeVertexId \in Int /\ g.freeElementId \in Int /\ g.reversed \in BOOLEAN
  /\ g.vertex \in [Vs(g) -> VertexType(Vs(g))]
  /\ g.element \in [Es(g) -> ElementType(Vs(g), Es(g))]

(* The elements e and f do not overlap. *)
Apart(g, e, f) == Hi(g, e) <= Lo(g, f) \/ Hi(g, f) <= Lo(g, e)
Within(g, f, e) == Lo(g, e) <= Lo(g, f) /\ Hi(g, f) <= Hi(g, e)

(* The k-th element of the macro grid. *)
Root(lo, hi, k) == lo = k * meshSize /\ hi = (k + 1) * meshSize

Sized(g) ==
  \A e \in Es(g) : /\ level(V0(g, e)) = level(e) /\ level(V1(g, e)) = level(e)
                   /\ Hi(g, e) - Lo(g, e) >= power2[LevelLimit - level(e)]
                   /\ level(e) = 0 => Root(Lo(g, e), Hi(g, e), id(e))

Nested(g) ==
  \A e, f \in Es(g) :
    e # f /\ level(e) <= level(f) =>
      Apart(g, e, f) \/ (level(e) < level(f) /\ ~isLeaf(g, e) /\ Within(g, f, e))

AllEnds(g) ==
  \A v \in Vs(g) : \E e \in Es(g) : level(e) = level(v) /\ (V0(g, e) = v \/ V1(g, e) = v)

Covered(g) ==
  \A c \in 0..numElements * meshSize - 1 :
    \E e \in Es(g) : isLeaf(g, e) /\ Lo(g, e) <= c /\ c < Hi(g, e)

Fathers(g) ==
  \A e \in Es(g) :
    LET F == g.element[e].father IN
    /\ (F = null) <=> (level(e) = 0)
    /\ F # null => level(F) = level(e) - 1 /\ (g.element[F].sons[1] = e \/ g.element[F].sons[2] = e)

SonsOf(g) ==
  \A e \in Es(g) : ~isLeaf(g, e) =>
    LET s == g.element[e].sons IN
    /\ s[1] \in Es(g) /\ s[2] \in Es(g)
    /\ g.element[s[1]].father = e /\ g.element[s[2]].father = e
    /\ son(g, V0(g, e)) = V0(g, s[1]) /\ son(g, V1(g, e)) = V1(g, s[2])
    /\ s[1] # s[2] => V1(g, s[1]) = V0(g, s[2])

Copies(g) ==
  \A v \in Vs(g) : son(g, v) # null =>
    LET w == son(g, v) IN
    /\ level(w) = level(v) + 1 /\ id(w) = id(v) /\ Pos(g, w) = Pos(g, v)
    /\ \E e \in Es(g) : ~isLeaf(g, e) /\ (V0(g, e) = v \/ V1(g, e) = v)

Ids(g) ==
  /\ \A v \in Vs(g) : id(v) < g.freeVertexId
  /\ \A e \in Es(g) : id(e) < g.freeElementId
  /\ \A v, w \in Vs(g) : (id(v) = id(w)) <=> (Pos(g, v) = Pos(g, w))
  /\ \A e, f \in Es(g) : (id(e) = id(f)) <=> (Lo(g, e) = Lo(g, f) /\ Hi(g, e) = Hi(g, f))

Marks(g) == \A e \in Es(g) : g.element[e].markState = "REFINE" => level(e) < LevelLimit

Flags(g) == \A e \in Es(g) : g.element[e].reversed = g.reversed

(* The maps are those of a forest. *)
Forest(g) ==
  /\ Typed(g) /\ Sized(g) /\ Nested(g) /\ AllEnds(g) /\ Covered(g)
  /\ Fathers(g) /\ SonsOf(g) /\ Copies(g) /\ Ids(g) /\ Marks(g) /\ Flags(g)

PosAt(g, i) == [v \in {v \in Vs(g) : level(v) = i} |-> Pos(g, v)]
LoAt(g, i)  == [e \in {e \in Es(g) : level(e) = i} |-> Lo(g, e)]

Lists(g) ==
  \A i \in 0..maxLevel(g) : Listed(g.vertices[i], PosAt(g, i)) /\ Listed(g.elements[i], LoAt(g, i))

WF(g) == Forest(g) /\ Lists(g)

-----------------------------------------------------------------------------
(* Consequences *)

LEMMA Basics ==
  ASSUME NEW g, Typed(g)
  PROVE  /\ maxLevel(g) \in Nat /\ maxLevel(g) <= LevelLimit /\ LevelLimit \in Nat
         /\ null \notin Vs(g) /\ null \notin Es(g)
         /\ \A v \in Vs(g) : /\ v = <<level(v), id(v)>> /\ level(v) \in 0..maxLevel(g) /\ level(v) \in Nat
                             /\ id(v) \in Int /\ v # null
                             /\ Pos(g, v) \in Nat /\ son(g, v) \in Vs(g) \cup {null}
         /\ \A e \in Es(g) : /\ e = <<level(e), id(e)>> /\ level(e) \in 0..maxLevel(g) /\ level(e) \in Nat
                             /\ id(e) \in Int /\ e # null
                             /\ V0(g, e) \in Vs(g) /\ V1(g, e) \in Vs(g)
                             /\ Lo(g, e) \in Nat /\ Hi(g, e) \in Nat
                             /\ g.element[e].father \in Es(g) \cup {null}
                             /\ g.element[e].sons[1] \in Es(g) \cup {null}
                             /\ g.element[e].sons[2] \in Es(g) \cup {null}
                             /\ g.element[e].sons = <<g.element[e].sons[1], g.element[e].sons[2]>>
                             /\ isLeaf(g, e) <=> g.element[e].sons[1] = null /\ g.element[e].sons[2] = null
<1> DEFINE V == Vs(g)
           E == Es(g)
           n == maxLevel(g)
<1>1. n \in Nat /\ n <= LevelLimit /\ LevelLimit \in Nat
  BY LimitsAssumption DEF Typed
<1> HIDE DEF n
<1>2. V \subseteq (0..n) \X Int /\ E \subseteq (0..n) \X Int
  BY DEF Typed, n
<1>3. g.vertex \in [V -> VertexType(V)] /\ g.element \in [E -> ElementType(V, E)]
  BY DEF Typed
<1> HIDE DEF V, E
<1>4. null \notin V /\ null \notin E
  <2>1. (0..n) \X Int \subseteq Int \X Int
    BY <1>1
  <2>2. QED BY <2>1, <1>2, NullIsNone
<1>5. ASSUME NEW v \in V
      PROVE  /\ v = <<level(v), id(v)>> /\ level(v) \in 0..n /\ level(v) \in Nat
             /\ id(v) \in Int /\ v # null /\ Pos(g, v) \in Nat /\ son(g, v) \in V \cup {null}
  <2>1. v \in (0..n) \X Int
    BY <1>2
  <2>2. v = <<level(v), id(v)>> /\ level(v) \in 0..n /\ level(v) \in Nat /\ id(v) \in Int
    BY <2>1, <1>1 DEF level, id
  <2>3. g.vertex[v] \in VertexType(V)
    BY <1>3
  <2>4. Pos(g, v) \in Nat /\ son(g, v) \in V \cup {null}
    BY <2>3 DEF Pos, son, VertexType
  <2>5. QED BY <2>2, <2>4, <1>4
<1>6. ASSUME NEW e \in E
      PROVE  /\ e = <<level(e), id(e)>> /\ level(e) \in 0..n /\ level(e) \in Nat
             /\ id(e) \in Int /\ e # null /\ V0(g, e) \in V /\ V1(g, e) \in V
             /\ Lo(g, e) \in Nat /\ Hi(g, e) \in Nat
             /\ g.element[e].father \in E \cup {null}
             /\ g.element[e].sons[1] \in E \cup {null}
             /\ g.element[e].sons[2] \in E \cup {null}
             /\ g.element[e].sons = <<g.element[e].sons[1], g.element[e].sons[2]>>
             /\ isLeaf(g, e) <=> g.element[e].sons[1] = null /\ g.element[e].sons[2] = null
  <2>1. e \in (0..n) \X Int
    BY <1>2
  <2>2. e = <<level(e), id(e)>> /\ level(e) \in 0..n /\ level(e) \in Nat /\ id(e) \in Int
    BY <2>1, <1>1 DEF level, id
  <2>3. g.element[e] \in ElementType(V, E)
    BY <1>3
  <2>4. V0(g, e) \in V /\ V1(g, e) \in V
    BY <2>3 DEF V0, V1, ElementType
  <2>5. Lo(g, e) \in Nat /\ Hi(g, e) \in Nat
    BY <2>4, <1>5 DEF Lo, Hi
  <2>6. g.element[e].father \in E \cup {null} /\ g.element[e].sons \in (E \cup {null}) \X (E \cup {null})
    BY <2>3 DEF ElementType
  <2>7. g.element[e].sons[1] \in E \cup {null} /\ g.element[e].sons[2] \in E \cup {null}
        /\ g.element[e].sons = <<g.element[e].sons[1], g.element[e].sons[2]>>
    BY <2>6
  <2>8. isLeaf(g, e) <=> g.element[e].sons[1] = null /\ g.element[e].sons[2] = null
    BY <2>7 DEF isLeaf
  <2>9. QED BY <2>2, <2>4, <2>5, <2>6, <2>7, <2>8, <1>4
<1>7. QED BY <1>1, <1>4, <1>5, <1>6 DEF n, V, E

(* A level has one vertex at a point. *)
LEMMA SameVertex ==
  ASSUME NEW g, Typed(g), Ids(g), NEW v \in Vs(g), NEW w \in Vs(g),
         level(v) = level(w), Pos(g, v) = Pos(g, w)
  PROVE  v = w
<1>1. id(v) = id(w)
  BY DEF Ids
<1>2. v = <<level(v), id(v)>> /\ w = <<level(w), id(w)>>
  BY Basics
<1>3. QED BY <1>1, <1>2

(* An element has a positive extent, and one that may be refined has room  *)
(* for two sons.                                                           *)
LEMMA Positive ==
  ASSUME NEW g, Typed(g), Sized(g), NEW e \in Es(g)
  PROVE  /\ Lo(g, e) < Hi(g, e)
         /\ level(V0(g, e)) = level(e) /\ level(V1(g, e)) = level(e)
         /\ level(e) < LevelLimit =>
              /\ LevelLimit - (level(e) + 1) \in Nat
              /\ Hi(g, e) - Lo(g, e) >= 2 * power2[LevelLimit - (level(e) + 1)]
<1> DEFINE n == LevelLimit - level(e)
<1>1. n \in Nat /\ level(e) \in Nat /\ LevelLimit \in Nat
  BY Basics
<1>2. Hi(g, e) - Lo(g, e) >= power2[n] /\ Lo(g, e) \in Nat /\ Hi(g, e) \in Nat
  BY Basics DEF Sized
<1>3. power2[n] \in Nat /\ power2[n] >= 1
  BY <1>1, PowerPositive
<1>4. ASSUME level(e) < LevelLimit
      PROVE  n - 1 \in Nat /\ n - 1 = LevelLimit - (level(e) + 1) /\ power2[n] = 2 * power2[n-1]
  <2>1. n - 1 \in Nat /\ n - 1 = LevelLimit - (level(e) + 1) /\ (n - 1) + 1 = n
    BY <1>1, <1>4
  <2> HIDE DEF n
  <2>2. power2[(n-1)+1] = 2 * power2[n-1]
    BY <2>1, PowerRecursion
  <2>3. QED BY <2>1, <2>2
<1> HIDE DEF n
<1>5. QED BY <1>2, <1>3, <1>4 DEF Sized

(* An element above level 0 is within its father, one level below. *)
LEMMA SonWithin ==
  ASSUME NEW g, Typed(g), Sized(g), Nested(g), Fathers(g), SonsOf(g), Copies(g),
         NEW e \in Es(g), level(e) # 0
  PROVE  LET F == g.element[e].father IN
         /\ F \in Es(g) /\ level(F) = level(e) - 1 /\ ~isLeaf(g, F) /\ Within(g, e, F)
<1> DEFINE F == g.element[e].father
           s == g.element[F].sons
<1>1. F \in Es(g) /\ level(F) = level(e) - 1 /\ (s[1] = e \/ s[2] = e)
  BY Basics DEF Fathers
<1> HIDE DEF F
<1>2. ~isLeaf(g, F)
  BY <1>1, Basics
<1>3. /\ s[1] \in Es(g) /\ s[2] \in Es(g)
      /\ son(g, V0(g, F)) = V0(g, s[1]) /\ son(g, V1(g, F)) = V1(g, s[2])
  BY <1>1, <1>2 DEF SonsOf
<1>4. V0(g, F) \in Vs(g) /\ V1(g, F) \in Vs(g)
  BY <1>1, Basics
<1>5. Lo(g, s[1]) = Lo(g, F) /\ Hi(g, s[2]) = Hi(g, F)
  <2>1. V0(g, s[1]) # null /\ V1(g, s[2]) # null
    BY <1>3, Basics
  <2>2. QED BY <2>1, <1>3, <1>4 DEF Copies, Lo, Hi
<1>6. F # e /\ level(F) <= level(e)
  BY <1>1, Basics
<1>7. Lo(g, F) < Hi(g, F) /\ Lo(g, e) < Hi(g, e) /\ Lo(g, F) \in Nat /\ Hi(g, F) \in Nat
      /\ Lo(g, e) \in Nat /\ Hi(g, e) \in Nat
  BY <1>1, Positive, Basics
<1>8. ~Apart(g, F, e)
  BY <1>1, <1>5, <1>7 DEF Apart
<1>9. Within(g, e, F)
  BY <1>6, <1>8, <1>1 DEF Nested
<1>10. QED BY <1>1, <1>2, <1>9 DEF F

(* A vertex inside an element is on a higher level, and the element has    *)
(* sons.                                                                   *)
LEMMA NoVertexInside ==
  ASSUME NEW g, Typed(g), Sized(g), Nested(g), AllEnds(g),
         NEW e \in Es(g), NEW v \in Vs(g), Lo(g, e) < Pos(g, v), Pos(g, v) < Hi(g, e)
  PROVE  level(e) < level(v) /\ ~isLeaf(g, e)
<1>1. PICK x \in Es(g) : level(x) = level(v) /\ (V0(g, x) = v \/ V1(g, x) = v)
  BY DEF AllEnds
<1>2. Pos(g, v) = Lo(g, x) \/ Pos(g, v) = Hi(g, x)
  BY <1>1 DEF Lo, Hi
<1>3. /\ Lo(g, x) \in Nat /\ Hi(g, x) \in Nat /\ Lo(g, x) < Hi(g, x)
      /\ Lo(g, e) \in Nat /\ Hi(g, e) \in Nat /\ Pos(g, v) \in Nat
      /\ level(x) \in Nat /\ level(e) \in Nat
  BY Basics, Positive
<1>4. ~Apart(g, e, x) /\ ~Apart(g, x, e)
  BY <1>2, <1>3 DEF Apart
<1>5. ~Within(g, e, x)
  BY <1>2, <1>3 DEF Within
<1>6. x # e
  BY <1>2, <1>3
<1>7. ~ (level(x) <= level(e))
  BY <1>4, <1>5, <1>6 DEF Nested
<1>8. level(e) <= level(x)
  BY <1>7, <1>3
<1>9. level(e) < level(x) /\ ~isLeaf(g, e)
  BY <1>8, <1>4, <1>6 DEF Nested
<1>10. QED BY <1>9, <1>1

(* The ends of an element with sons have copies. *)
LEMMA SonOfEnd ==
  ASSUME NEW g, Typed(g), SonsOf(g), NEW e \in Es(g), ~isLeaf(g, e)
  PROVE  son(g, V0(g, e)) # null /\ son(g, V1(g, e)) # null
<1> DEFINE s == g.element[e].sons
<1>1. s[1] \in Es(g) /\ s[2] \in Es(g) /\ son(g, V0(g, e)) = V0(g, s[1]) /\ son(g, V1(g, e)) = V1(g, s[2])
  BY DEF SonsOf
<1> HIDE DEF s
<1>2. V0(g, s[1]) # null /\ V1(g, s[2]) # null
  BY <1>1, Basics
<1>3. QED BY <1>1, <1>2

(* The father of an element that has the vertex w, of the level below. *)
LEMMA FatherAt ==
  ASSUME NEW g, Forest(g), NEW w \in Vs(g), level(w) # 0
  PROVE  \E F \in Es(g) : /\ level(F) = level(w) - 1 /\ ~isLeaf(g, F)
                          /\ Lo(g, F) <= Pos(g, w) /\ Pos(g, w) <= Hi(g, F)
<1>1. PICK x \in Es(g) : level(x) = level(w) /\ (V0(g, x) = w \/ V1(g, x) = w)
  BY DEF Forest, AllEnds
<1> DEFINE F == g.element[x].father
<1>2. F \in Es(g) /\ level(F) = level(x) - 1 /\ ~isLeaf(g, F) /\ Within(g, x, F)
  BY <1>1, SonWithin DEF Forest
<1> HIDE DEF F
<1>3. /\ Lo(g, x) < Hi(g, x) /\ Lo(g, x) \in Nat /\ Hi(g, x) \in Nat
      /\ Lo(g, F) \in Nat /\ Hi(g, F) \in Nat
  BY <1>2, Positive, Basics DEF Forest
<1>4. Pos(g, w) = Lo(g, x) \/ Pos(g, w) = Hi(g, x)
  BY <1>1 DEF Lo, Hi
<1>5. Lo(g, F) <= Pos(g, w) /\ Pos(g, w) <= Hi(g, F)
  BY <1>2, <1>3, <1>4 DEF Within
<1>6. QED BY <1>2, <1>5, <1>1

(* A vertex without a copy has no vertex above it on the next level. *)
LEMMA NoCopyAt ==
  ASSUME NEW g, Forest(g), NEW v \in Vs(g), son(g, v) = null,
         NEW w \in Vs(g), level(w) = level(v) + 1
  PROVE  Pos(g, w) # Pos(g, v)
<1> SUFFICES ASSUME Pos(g, w) = Pos(g, v) PROVE FALSE
  OBVIOUS
<1>1. level(w) # 0 /\ level(w) - 1 = level(v) /\ level(v) \in Nat
  BY Basics DEF Forest
<1>2. PICK F \in Es(g) : /\ level(F) = level(v) /\ ~isLeaf(g, F)
                         /\ Lo(g, F) <= Pos(g, w) /\ Pos(g, w) <= Hi(g, F)
  BY <1>1, FatherAt
<1>3. V0(g, F) \in Vs(g) /\ V1(g, F) \in Vs(g) /\ level(V0(g, F)) = level(F) /\ level(V1(g, F)) = level(F)
      /\ Lo(g, F) \in Nat /\ Hi(g, F) \in Nat /\ Pos(g, v) \in Nat
  BY Basics, Positive DEF Forest
<1>4. ~ (Lo(g, F) < Pos(g, v) /\ Pos(g, v) < Hi(g, F))
  <2> SUFFICES ASSUME Lo(g, F) < Pos(g, v), Pos(g, v) < Hi(g, F) PROVE FALSE
    OBVIOUS
  <2>1. level(F) < level(v)
    BY NoVertexInside DEF Forest
  <2>2. QED BY <2>1, <1>2, <1>1
<1>5. Pos(g, v) = Lo(g, F) \/ Pos(g, v) = Hi(g, F)
  BY <1>2, <1>3, <1>4
<1>6. v = V0(g, F) \/ v = V1(g, F)
  BY <1>5, <1>3, <1>2, SameVertex DEF Forest, Lo, Hi
<1>7. QED BY <1>6, <1>2, SonOfEnd DEF Forest

(* Two elements of a level do not begin, or end, at one point. *)
LEMMA SameElement ==
  ASSUME NEW g, Typed(g), Sized(g), Nested(g), NEW e \in Es(g), NEW f \in Es(g),
         level(e) = level(f), Lo(g, e) = Lo(g, f) \/ Hi(g, e) = Hi(g, f)
  PROVE  e = f
<1> SUFFICES ASSUME e # f PROVE FALSE
  OBVIOUS
<1>1. level(e) <= level(f) /\ ~ (level(e) < level(f))
  BY Basics
<1>2. Apart(g, e, f)
  BY <1>1 DEF Nested
<1>3. /\ Lo(g, e) < Hi(g, e) /\ Lo(g, e) \in Nat /\ Hi(g, e) \in Nat
      /\ Lo(g, f) < Hi(g, f) /\ Lo(g, f) \in Nat /\ Hi(g, f) \in Nat
  BY Positive, Basics
<1>4. QED BY <1>2, <1>3 DEF Apart

-----------------------------------------------------------------------------
(* The lists of a level *)

LEMMA ListedVertices ==
  ASSUME NEW g, Typed(g), Lists(g), NEW i \in 0..maxLevel(g)
  PROVE  /\ Listed(g.vertices[i], PosAt(g, i)) /\ Numbering(PosAt(g, i))
         /\ \A v : v \in DOMAIN PosAt(g, i) <=> v \in Vs(g) /\ level(v) = i
         /\ \A v \in Vs(g) : level(v) = i => PosAt(g, i)[v] = Pos(g, v)
<1>1. Listed(g.vertices[i], PosAt(g, i))
  BY DEF Lists
<1>2. /\ \A v : v \in DOMAIN PosAt(g, i) <=> v \in Vs(g) /\ level(v) = i
      /\ \A v \in Vs(g) : level(v) = i => PosAt(g, i)[v] = Pos(g, v)
  BY DEF PosAt
<1>3. \A v \in Vs(g) : Pos(g, v) \in Nat
  BY Basics
<1>4. Numbering(PosAt(g, i))
  BY <1>2, <1>3 DEF Numbering
<1>5. QED BY <1>1, <1>2, <1>4

(* The list of the elements of a level is in the order of their left ends. *)
LEMMA ListedElements ==
  ASSUME NEW g, Typed(g), Lists(g), NEW i \in 0..maxLevel(g)
  PROVE  /\ Listed(g.elements[i], LoAt(g, i)) /\ Numbering(LoAt(g, i))
         /\ \A v : v \in DOMAIN LoAt(g, i) <=> v \in Es(g) /\ level(v) = i
         /\ \A v \in Es(g) : level(v) = i => LoAt(g, i)[v] = Lo(g, v)
<1>1. Listed(g.elements[i], LoAt(g, i))
  BY DEF Lists
<1>2. /\ \A v : v \in DOMAIN LoAt(g, i) <=> v \in Es(g) /\ level(v) = i
      /\ \A v \in Es(g) : level(v) = i => LoAt(g, i)[v] = Lo(g, v)
  BY DEF LoAt
<1>3. \A v \in Es(g) : Lo(g, v) \in Nat
  BY Basics
<1>4. Numbering(LoAt(g, i))
  BY <1>2, <1>3 DEF Numbering
<1>5. QED BY <1>1, <1>2, <1>4

(* The element before e in its list is the nearest on the left. *)
LEMMA PredElement ==
  ASSUME NEW g, WF(g), NEW e \in Es(g), NEW p, p = pred(g.elements[level(e)], e)
  PROVE  \/ p = null /\ \A x \in Es(g) : level(x) = level(e) => Lo(g, e) <= Lo(g, x)
         \/ /\ p \in Es(g) /\ level(p) = level(e) /\ Lo(g, p) < Lo(g, e)
            /\ \A x \in Es(g) : level(x) = level(e) /\ Lo(g, x) > Lo(g, p) => Lo(g, x) >= Lo(g, e)
<1> DEFINE i == level(e)
           f == LoAt(g, i)
<1>1. i \in 0..maxLevel(g)
  BY Basics DEF WF, Forest
<1> HIDE DEF i
<1>2. /\ Listed(g.elements[i], f) /\ Numbering(f)
      /\ \A v : v \in DOMAIN f <=> v \in Es(g) /\ level(v) = i
      /\ \A v \in Es(g) : level(v) = i => f[v] = Lo(g, v)
  BY <1>1, ListedElements DEF WF, Forest
<1> HIDE DEF f
<1>3. e \in DOMAIN f /\ f[e] = Lo(g, e)
  BY <1>2 DEF i
<1>4. Leader(f, e, p)
  BY <1>2, <1>3, PredIsLeader DEF i
<1>5. QED BY <1>2, <1>3, <1>4 DEF Leader, i

(* The element behind e in its list is the nearest on the right. *)
LEMMA SuccElement ==
  ASSUME NEW g, WF(g), NEW e \in Es(g), NEW p, p = succ(g.elements[level(e)], e)
  PROVE  \/ p = null /\ \A x \in Es(g) : level(x) = level(e) => Lo(g, x) <= Lo(g, e)
         \/ /\ p \in Es(g) /\ level(p) = level(e) /\ Lo(g, p) > Lo(g, e)
            /\ \A x \in Es(g) : level(x) = level(e) /\ Lo(g, x) < Lo(g, p) => Lo(g, x) <= Lo(g, e)
<1> DEFINE i == level(e)
           f == LoAt(g, i)
<1>1. i \in 0..maxLevel(g)
  BY Basics DEF WF, Forest
<1> HIDE DEF i
<1>2. /\ Listed(g.elements[i], f) /\ Numbering(f)
      /\ \A v : v \in DOMAIN f <=> v \in Es(g) /\ level(v) = i
      /\ \A v \in Es(g) : level(v) = i => f[v] = Lo(g, v)
  BY <1>1, ListedElements DEF WF, Forest
<1> HIDE DEF f
<1>3. e \in DOMAIN f /\ f[e] = Lo(g, e)
  BY <1>2 DEF i
<1>4. Follower(f, e, p)
  BY <1>2, <1>3, SuccIsFollower DEF i
<1>5. QED BY <1>2, <1>3, <1>4 DEF Follower, i

(* The neighbour at the left vertex of e. *)
LEMMA LeftNeighbor ==
  ASSUME NEW g, WF(g), NEW e \in Es(g), NEW p, p = pred(g.elements[level(e)], e)
  PROVE  /\ p # null /\ V1(g, p) = V0(g, e) => p \in Es(g) /\ level(p) = level(e) /\ p # e
         /\ \A x \in Es(g) : V1(g, x) = V0(g, e) => x = p
<1>1. /\ Lo(g, e) \in Nat /\ Hi(g, e) \in Nat /\ Lo(g, e) < Hi(g, e)
      /\ \A x \in Es(g) : /\ Lo(g, x) \in Nat /\ Hi(g, x) \in Nat /\ Lo(g, x) < Hi(g, x)
                          /\ level(V1(g, x)) = level(x)
      /\ level(V0(g, e)) = level(e)
  BY Basics, Positive DEF WF, Forest
<1>2. \/ p = null /\ \A x \in Es(g) : level(x) = level(e) => Lo(g, e) <= Lo(g, x)
      \/ /\ p \in Es(g) /\ level(p) = level(e) /\ Lo(g, p) < Lo(g, e)
         /\ \A x \in Es(g) : level(x) = level(e) /\ Lo(g, x) > Lo(g, p) => Lo(g, x) >= Lo(g, e)
  BY PredElement
<1>3. ASSUME NEW x \in Es(g), V1(g, x) = V0(g, e) PROVE x = p
  <2>1. level(x) = level(e) /\ Hi(g, x) = Lo(g, e)
    BY <1>3, <1>1 DEF Hi, Lo
  <2>2. Lo(g, x) < Lo(g, e)
    BY <2>1, <1>1
  <2>3. p \in Es(g) /\ level(p) = level(e) /\ Lo(g, p) < Lo(g, e) /\ ~ (Lo(g, x) > Lo(g, p))
    BY <2>1, <2>2, <1>1, <1>2
  <2>4. CASE x # p
    <3>1. level(x) <= level(p) /\ ~ (level(x) < level(p))
      BY <2>1, <2>3, Basics DEF WF, Forest
    <3>2. Apart(g, x, p)
      BY <3>1, <2>3, <2>4 DEF WF, Forest, Nested
    <3>3. Hi(g, x) <= Lo(g, p) \/ Hi(g, p) <= Lo(g, x)
      BY <3>2 DEF Apart
    <3>4. QED BY <3>3, <2>1, <2>2, <2>3, <1>1
  <2>5. QED BY <2>4
<1>4. p \in Es(g) => p # e
  <2>1. p \in Es(g) => p # null
    BY Basics DEF WF, Forest
  <2>2. QED BY <2>1, <1>2, <1>1
<1>5. QED BY <1>2, <1>3, <1>4

(* An element that begins where e ends, on its level, is the one behind it *)
(* in the list.                                                            *)
LEMMA RightNeighbor ==
  ASSUME NEW g, WF(g), NEW e \in Es(g), NEW p, p = succ(g.elements[level(e)], e)
  PROVE  /\ p # null /\ V0(g, p) = V1(g, e) => p \in Es(g) /\ level(p) = level(e) /\ p # e
         /\ \A x \in Es(g) : V0(g, x) = V1(g, e) => x = p
<1>1. /\ Lo(g, e) \in Nat /\ Hi(g, e) \in Nat /\ Lo(g, e) < Hi(g, e)
      /\ \A x \in Es(g) : /\ Lo(g, x) \in Nat /\ Hi(g, x) \in Nat /\ Lo(g, x) < Hi(g, x)
                          /\ level(V0(g, x)) = level(x)
      /\ level(V1(g, e)) = level(e)
  BY Basics, Positive DEF WF, Forest
<1>2. \/ p = null /\ \A x \in Es(g) : level(x) = level(e) => Lo(g, x) <= Lo(g, e)
      \/ /\ p \in Es(g) /\ level(p) = level(e) /\ Lo(g, p) > Lo(g, e)
         /\ \A x \in Es(g) : level(x) = level(e) /\ Lo(g, x) < Lo(g, p) => Lo(g, x) <= Lo(g, e)
  BY SuccElement
<1>3. ASSUME NEW x \in Es(g), V0(g, x) = V1(g, e) PROVE x = p
  <2>1. level(x) = level(e) /\ Lo(g, x) = Hi(g, e)
    BY <1>3, <1>1 DEF Hi, Lo
  <2>2. Lo(g, x) > Lo(g, e)
    BY <2>1, <1>1
  <2>3. p \in Es(g) /\ level(p) = level(e) /\ Lo(g, p) > Lo(g, e) /\ ~ (Lo(g, x) < Lo(g, p))
    BY <2>1, <2>2, <1>1, <1>2
  <2>4. CASE x # p
    <3>1. level(e) <= level(p) /\ ~ (level(e) < level(p)) /\ e # p
      BY <2>1, <2>3, <1>1, Basics DEF WF, Forest
    <3>2. Apart(g, e, p)
      BY <3>1, <2>3 DEF WF, Forest, Nested
    <3>3. Hi(g, e) <= Lo(g, p) \/ Hi(g, p) <= Lo(g, e)
      BY <3>2 DEF Apart
    <3>4. Lo(g, x) <= Lo(g, p)
      BY <3>3, <2>1, <2>3, <1>1
    <3>5. Lo(g, x) = Lo(g, p)
      BY <3>4, <2>3, <1>1
    <3>6. x = p
      BY <3>5, <2>1, <2>3, SameElement DEF WF, Forest
    <3>7. QED BY <3>6, <2>4
  <2>5. QED BY <2>4
<1>4. p \in Es(g) => p # e
  <2>1. p \in Es(g) => p # null
    BY Basics DEF WF, Forest
  <2>2. QED BY <2>1, <1>2, <1>1
<1>5. QED BY <1>2, <1>3, <1>4

(* getLeftUpperVertex() finds the copy of the left vertex whenever there   *)
(* is one: only the left neighbour can have made it.                       *)
LEMMA LeftUpper ==
  ASSUME NEW g, WF(g), NEW e \in Es(g), isLeaf(g, e)
  PROVE  getLeftUpperVertex(g, e) = son(g, V0(g, e))
<1> DEFINE p == pred(g.elements[level(e)], e)
           v == V0(g, e)
<1>1. getLeftUpperVertex(g, e) =
        IF p = null \/ V1(g, p) # v \/ isLeaf(g, p) THEN null ELSE V1(g, g.element[p].sons[2])
  BY DEF getLeftUpperVertex, upperEnd, V0, V1
<1>2. /\ p # null /\ V1(g, p) = v => p \in Es(g)
      /\ \A x \in Es(g) : V1(g, x) = v => x = p
  BY LeftNeighbor
<1>3. v \in Vs(g) /\ level(v) = level(e)
  BY Basics, Positive DEF WF, Forest
<1>4. ASSUME NEW x \in Es(g), V0(g, x) = v PROVE x = e
  <2>1. level(x) = level(e) /\ Lo(g, x) = Lo(g, e)
    BY <1>3, <1>4, Positive DEF Lo, WF, Forest
  <2>2. QED BY <2>1, SameElement DEF WF, Forest
<1> HIDE DEF p, v
<1>5. CASE p = null \/ V1(g, p) # v \/ isLeaf(g, p)
  <2>1. son(g, v) = null
    <3> SUFFICES ASSUME son(g, v) # null PROVE FALSE
      OBVIOUS
    <3>1. PICK x \in Es(g) : ~isLeaf(g, x) /\ (V0(g, x) = v \/ V1(g, x) = v)
      BY <1>3 DEF WF, Forest, Copies
    <3>2. x # e
      BY <3>1
    <3>3. V1(g, x) = v
      BY <3>1, <3>2, <1>4
    <3>4. x = p
      BY <3>3, <1>2
    <3>5. x # null
      BY Basics DEF WF, Forest
    <3>6. QED BY <3>1, <3>3, <3>4, <3>5, <1>5
  <2>2. QED BY <2>1, <1>1, <1>5 DEF v
<1>6. CASE ~ (p = null \/ V1(g, p) # v \/ isLeaf(g, p))
  <2>1. p \in Es(g) /\ ~isLeaf(g, p) /\ V1(g, p) = v
    BY <1>2, <1>6
  <2>2. son(g, V1(g, p)) = V1(g, g.element[p].sons[2])
    BY <2>1 DEF WF, Forest, SonsOf
  <2>3. QED BY <2>1, <2>2, <1>1, <1>6 DEF v
<1>7. QED BY <1>5, <1>6

(* getRightUpperVertex() finds the copy of the right vertex whenever there *)
(* is one.                                                                 *)
LEMMA RightUpper ==
  ASSUME NEW g, WF(g), NEW e \in Es(g), isLeaf(g, e)
  PROVE  getRightUpperVertex(g, e) = son(g, V1(g, e))
<1> DEFINE p == succ(g.elements[level(e)], e)
           v == V1(g, e)
<1>1. getRightUpperVertex(g, e) =
        IF p = null \/ V0(g, p) # v \/ isLeaf(g, p) THEN null ELSE V0(g, g.element[p].sons[1])
  BY DEF getRightUpperVertex, upperEnd, V0, V1
<1>2. /\ p # null /\ V0(g, p) = v => p \in Es(g)
      /\ \A x \in Es(g) : V0(g, x) = v => x = p
  BY RightNeighbor
<1>3. v \in Vs(g) /\ level(v) = level(e)
  BY Basics, Positive DEF WF, Forest
<1>4. ASSUME NEW x \in Es(g), V1(g, x) = v PROVE x = e
  <2>1. level(x) = level(e) /\ Hi(g, x) = Hi(g, e)
    BY <1>3, <1>4, Positive DEF Hi, WF, Forest
  <2>2. QED BY <2>1, SameElement DEF WF, Forest
<1> HIDE DEF p, v
<1>5. CASE p = null \/ V0(g, p) # v \/ isLeaf(g, p)
  <2>1. son(g, v) = null
    <3> SUFFICES ASSUME son(g, v) # null PROVE FALSE
      OBVIOUS
    <3>1. PICK x \in Es(g) : ~isLeaf(g, x) /\ (V0(g, x) = v \/ V1(g, x) = v)
      BY <1>3 DEF WF, Forest, Copies
    <3>2. x # e
      BY <3>1
    <3>3. V0(g, x) = v
      BY <3>1, <3>2, <1>4
    <3>4. x = p
      BY <3>3, <1>2
    <3>5. x # null
      BY Basics DEF WF, Forest
    <3>6. QED BY <3>1, <3>3, <3>4, <3>5, <1>5
  <2>2. QED BY <2>1, <1>1, <1>5 DEF v
<1>6. CASE ~ (p = null \/ V0(g, p) # v \/ isLeaf(g, p))
  <2>1. p \in Es(g) /\ ~isLeaf(g, p) /\ V0(g, p) = v
    BY <1>2, <1>6
  <2>2. son(g, V0(g, p)) = V0(g, g.element[p].sons[1])
    BY <2>1 DEF WF, Forest, SonsOf
  <2>3. QED BY <2>1, <2>2, <1>1, <1>6 DEF v
<1>7. QED BY <1>5, <1>6

(* getLeftNeighborWithSon() gives the nearest element on the left that has *)
(* sons.                                                                   *)
LEMMA NeighborWithSon ==
  ASSUME NEW g, WF(g), NEW e \in Es(g), NEW y, y = getLeftNeighborWithSon(g, e)
  PROVE  \/ y = null /\ \A x \in Es(g) : level(x) = level(e) /\ ~isLeaf(g, x) => Lo(g, x) >= Lo(g, e)
         \/ /\ y \in Es(g) /\ level(y) = level(e) /\ ~isLeaf(g, y) /\ Lo(g, y) < Lo(g, e)
            /\ \A x \in Es(g) : level(x) = level(e) /\ ~isLeaf(g, x) /\ Lo(g, x) < Lo(g, e) => Lo(g, x) <= Lo(g, y)
<1> DEFINE i == level(e)
           f == LoAt(g, i)
           s == g.elements[i]
           Q == {x \in Es(g) : ~isLeaf(g, x)}
<1>1. i \in 0..maxLevel(g)
  BY Basics DEF WF, Forest
<1> HIDE DEF i
<1>2. /\ Listed(s, f) /\ Numbering(f)
      /\ \A v : v \in DOMAIN f <=> v \in Es(g) /\ level(v) = i
      /\ \A v \in Es(g) : level(v) = i => f[v] = Lo(g, v)
  BY <1>1, ListedElements DEF WF, Forest
<1>3. y = at(s, Max({0} \cup {k \in 1..index(s, e)-1 : ~isLeaf(g, s[k])}))
  BY DEF getLeftNeighborWithSon, i
<1> HIDE DEF f, s
<1>4. e \in DOMAIN f /\ f[e] = Lo(g, e)
  BY <1>2 DEF i
<1>5. index(s, e) \in 1..Len(s) /\ Len(s) \in Nat /\ \A k \in 1..Len(s) : s[k] \in DOMAIN f
  BY <1>2, <1>4, ListedIndex, ListedMembers
<1>6. \A k \in 1..index(s, e)-1 : s[k] \in Es(g)
  BY <1>5, <1>2
<1>7. {k \in 1..index(s, e)-1 : ~isLeaf(g, s[k])} = {k \in 1..index(s, e)-1 : s[k] \in Q}
  BY <1>6
<1> HIDE DEF Q
<1>8. y = lastBefore(s, e, Q)
  BY <1>3, <1>7 DEF lastBefore
<1>9. \/ y = null /\ \A z \in Q \cap DOMAIN f : f[z] >= f[e]
      \/ /\ y \in Q \cap DOMAIN f /\ f[y] < f[e]
         /\ \A z \in Q \cap DOMAIN f : f[z] < f[e] => f[z] <= f[y]
  BY <1>2, <1>4, <1>8, LastBefore
<1>10. QED BY <1>9, <1>2, <1>4 DEF Q, i

(* What the elements with sons at the left of e reach. *)
LEMMA Reach ==
  ASSUME NEW g, WF(g), NEW e \in Es(g), isLeaf(g, e), NEW w, w = getLeftNeighborWithSon(g, e),
         NEW F \in Es(g), level(F) = level(e), ~isLeaf(g, F)
  PROVE  \/ Lo(g, F) >= Hi(g, e)
         \/ w # null /\ Hi(g, F) <= Hi(g, w) /\ (F # w => Hi(g, F) <= Lo(g, w))
<1>1. /\ Lo(g, e) \in Nat /\ Hi(g, e) \in Nat /\ Lo(g, e) < Hi(g, e)
      /\ Lo(g, F) \in Nat /\ Hi(g, F) \in Nat /\ Lo(g, F) < Hi(g, F)
      /\ null \notin Es(g) /\ level(e) \in Nat
  BY Basics, Positive DEF WF, Forest
<1>2. F # e /\ level(F) <= level(e) /\ ~ (level(F) < level(e))
  BY <1>1
<1>3. Apart(g, F, e)
  BY <1>2 DEF WF, Forest, Nested
<1>4. CASE Lo(g, F) >= Lo(g, e)
  BY <1>3, <1>4, <1>1 DEF Apart
<1>5. CASE Lo(g, F) < Lo(g, e)
  <2>1. w \in Es(g) /\ level(w) = level(e) /\ Lo(g, F) <= Lo(g, w)
    BY <1>5, <1>1, NeighborWithSon
  <2>2. CASE F = w  BY <2>2, <2>1, <1>1
  <2>3. CASE F # w
    <3>1. Apart(g, F, w)
      BY <2>1, <2>3, <1>2 DEF WF, Forest, Nested
    <3>2. Lo(g, w) \in Nat /\ Hi(g, w) \in Nat /\ Lo(g, w) < Hi(g, w)
      BY <2>1, Basics, Positive DEF WF, Forest
    <3>3. Hi(g, F) <= Lo(g, w)
      BY <3>1, <3>2, <2>1, <1>1 DEF Apart
    <3>4. QED BY <3>2, <3>3, <2>1, <1>1
  <2>4. QED BY <2>2, <2>3
<1>6. QED BY <1>4, <1>5, <1>1

(* The last son of the neighbour with sons. *)
LEMMA LastSon ==
  ASSUME NEW g, WF(g), NEW e \in Es(g), NEW w, w = getLeftNeighborWithSon(g, e), w # null, isLeaf(g, e)
  PROVE  LET l == lastSon(g, w) IN
         /\ w \in Es(g) /\ l \in Es(g) /\ l # null /\ level(l) = level(e) + 1 /\ Hi(g, l) = Hi(g, w)
         /\ Within(g, l, w) /\ Hi(g, w) <= Lo(g, e) /\ level(V1(g, l)) = level(e) + 1
<1>1. w \in Es(g) /\ level(w) = level(e) /\ ~isLeaf(g, w) /\ Lo(g, w) < Lo(g, e)
  BY NeighborWithSon
<1> DEFINE l == g.element[w].sons[2]
<1>2. lastSon(g, w) = l
  BY DEF lastSon
<1>3. l \in Es(g) /\ g.element[l].father = w /\ son(g, V1(g, w)) = V1(g, l)
  BY <1>1 DEF WF, Forest, SonsOf
<1> HIDE DEF l
<1>4. l # null /\ V1(g, l) # null /\ w # null /\ level(l) \in Nat /\ level(w) \in Nat /\ V1(g, w) \in Vs(g)
  BY <1>1, <1>3, Basics DEF WF, Forest
<1>5. level(w) = level(l) - 1 /\ level(l) # 0
  BY <1>3, <1>4 DEF WF, Forest, Fathers
<1>6. Within(g, l, w)
  BY <1>3, <1>5, SonWithin DEF WF, Forest
<1>7. Hi(g, l) = Hi(g, w)
  BY <1>3, <1>4 DEF WF, Forest, Copies, Hi
<1>8. Hi(g, w) <= Lo(g, e)
  <2>1. w # e /\ level(w) <= level(e) /\ ~ (level(w) < level(e))
    BY <1>1, <1>4
  <2>2. Apart(g, w, e)
    BY <2>1, <1>1 DEF WF, Forest, Nested
  <2>3. Lo(g, w) < Hi(g, w) /\ Lo(g, e) < Hi(g, e) /\ Lo(g, w) \in Nat /\ Lo(g, e) \in Nat
        /\ Hi(g, w) \in Nat /\ Hi(g, e) \in Nat
    BY <1>1, Positive, Basics DEF WF, Forest
  <2>4. QED BY <2>2, <2>3, <1>1 DEF Apart
<1>9. level(l) = level(e) + 1 /\ level(V1(g, l)) = level(l)
  BY <1>1, <1>4, <1>5, <1>3, Positive DEF WF, Forest
<1>10. QED BY <1>1, <1>2, <1>3, <1>4, <1>6, <1>7, <1>8, <1>9

(* The place for the sons of a leaf is right: behind the sons of all       *)
(* elements further left.                                                  *)
LEMMA SonPlaceFits ==
  ASSUME NEW g, WF(g), NEW e \in Es(g), isLeaf(g, e), level(e) < maxLevel(g),
         NEW p \in Int, Lo(g, e) <= p, p < Hi(g, e)
  PROVE  PlaceFor(LoAt(g, level(e) + 1), SonPlace(g, e), p)
<1> DEFINE i == level(e) + 1
           f == LoAt(g, i)
           s == g.elements[i]
           w == getLeftNeighborWithSon(g, e)
           y == SonPlace(g, e)
<1>1. i \in 0..maxLevel(g) /\ level(e) \in Nat /\ i # 0 /\ i - 1 = level(e)
  BY Basics DEF WF, Forest
<1>2. /\ Listed(s, f) /\ Numbering(f)
      /\ \A v : v \in DOMAIN f <=> v \in Es(g) /\ level(v) = i
      /\ \A v \in Es(g) : level(v) = i => f[v] = Lo(g, v)
  <2> HIDE DEF i
  <2>1. QED BY <1>1, ListedElements DEF WF, Forest
<1>3. y = IF lastSon(g, w) = null THEN first(s) ELSE succ(s, lastSon(g, w))
  BY DEF SonPlace, behind
<1> HIDE DEF i, f, s, y
<1>4. Lo(g, e) \in Nat /\ Hi(g, e) \in Nat /\ Lo(g, e) < Hi(g, e)
  BY Basics, Positive DEF WF, Forest
<1>5. ASSUME NEW x \in Es(g), level(x) = i
      PROVE  /\ Lo(g, x) \in Nat /\ Hi(g, x) \in Nat /\ Lo(g, x) < Hi(g, x) /\ x # null
             /\ \/ Lo(g, x) >= Hi(g, e)
                \/ w # null /\ Hi(g, x) <= Hi(g, w)
  <2>1. Lo(g, x) \in Nat /\ Hi(g, x) \in Nat /\ Lo(g, x) < Hi(g, x) /\ x # null
    BY Basics, Positive DEF WF, Forest
  <2>2. PICK F \in Es(g) : level(F) = level(e) /\ ~isLeaf(g, F) /\ Within(g, x, F)
    BY <1>1, <1>5, SonWithin DEF WF, Forest
  <2>3. Lo(g, F) >= Hi(g, e) \/ (w # null /\ Hi(g, F) <= Hi(g, w))
    BY <2>2, Reach
  <2>4. Lo(g, F) \in Nat /\ Hi(g, F) \in Nat /\ (w # null => Hi(g, w) \in Nat)
    BY <2>2, Basics, LastSon DEF WF, Forest
  <2>5. QED BY <2>1, <2>2, <2>3, <2>4, <1>4 DEF Within
<1>6. CASE w = null
  <2>1. y = first(s)
    BY <1>3, <1>6 DEF lastSon
  <2>2. \A x \in DOMAIN f : f[x] >= Hi(g, e) /\ f[x] > p /\ f[x] \in Int /\ x # null
    BY <1>2, <1>5, <1>6, <1>4
  <2>3. \/ y = null /\ DOMAIN f = {}
        \/ y \in DOMAIN f /\ \A z \in DOMAIN f : f[y] <= f[z]
    BY <2>1, <1>2, FirstIsLeast
  <2>4. PlaceFor(f, y, p)
    BY <2>2, <2>3 DEF PlaceFor
  <2>5. QED BY <2>4 DEF f, y, i
<1>7. CASE w # null
  <2> DEFINE l == lastSon(g, w)
  <2>1. /\ w \in Es(g) /\ l \in Es(g) /\ l # null /\ level(l) = i /\ Hi(g, l) = Hi(g, w)
        /\ Hi(g, w) <= Lo(g, e)
    BY <1>7, LastSon DEF i
  <2> HIDE DEF l
  <2>2. y = succ(s, l)
    BY <1>3, <2>1 DEF l
  <2>3. l \in DOMAIN f /\ f[l] = Lo(g, l) /\ Lo(g, l) < Hi(g, l)
        /\ Lo(g, l) \in Nat /\ Hi(g, l) \in Nat
    BY <2>1, <1>2, <1>5
  <2>4. f[l] < p
    BY <2>1, <2>3, <1>4
  <2>5. Follower(f, l, y)
    BY <2>2, <2>3, <1>2, SuccIsFollower
  <2>6. CASE y = null /\ \A z \in DOMAIN f : f[z] <= f[l]
    <3>1. \A z \in DOMAIN f : f[z] < p
      BY <2>6, <2>4, <2>3, <1>2 DEF Numbering
    <3>2. PlaceFor(f, y, p)
      BY <3>1, <2>6 DEF PlaceFor
    <3>3. QED BY <3>2 DEF f, y, i
  <2>7. CASE y \in DOMAIN f /\ f[y] > f[l] /\ \A z \in DOMAIN f : f[z] < f[y] => f[z] <= f[l]
    <3>1. y \in Es(g) /\ level(y) = i /\ f[y] = Lo(g, y) /\ Lo(g, y) > Lo(g, l)
      BY <2>7, <1>2, <2>3
    <3>2. ~ (Hi(g, y) <= Hi(g, w))
      <4> SUFFICES ASSUME Hi(g, y) <= Hi(g, w) PROVE FALSE
        OBVIOUS
      <4>1. l # y /\ level(l) <= level(y) /\ ~ (level(l) < level(y))
        BY <3>1, <2>1, <2>3, <1>1
      <4>2. Apart(g, l, y)
        BY <4>1, <3>1, <2>1 DEF WF, Forest, Nested
      <4>3. QED BY <4>2, <3>1, <2>1, <2>3, <1>5 DEF Apart
    <3>3. Lo(g, y) >= Hi(g, e)
      BY <3>1, <3>2, <1>5
    <3>4. f[y] > p /\ y # null
      BY <3>1, <3>3, <1>4, <1>5
    <3>5. \A z \in DOMAIN f : f[z] < f[y] => f[z] < p
      BY <2>7, <2>4, <2>3, <1>2 DEF Numbering
    <3>6. PlaceFor(f, y, p)
      BY <3>4, <3>5, <2>7 DEF PlaceFor
    <3>7. QED BY <3>6 DEF f, y, i
  <2>8. QED BY <2>5, <2>6, <2>7 DEF Follower
<1>8. QED BY <1>6, <1>7

(* The place for the copy of the left vertex of a leaf is right. *)
LEMMA LeftPlaceFits ==
  ASSUME NEW g, WF(g), NEW e \in Es(g), isLeaf(g, e), level(e) < maxLevel(g),
         son(g, V0(g, e)) = null
  PROVE  PlaceFor(PosAt(g, level(e) + 1), LeftPlace(g, e), Lo(g, e))
<1> DEFINE i == level(e) + 1
           f == PosAt(g, i)
           s == g.vertices[i]
           w == getLeftNeighborWithSon(g, e)
           y == LeftPlace(g, e)
           p == Lo(g, e)
<1>1. i \in 0..maxLevel(g) /\ level(e) \in Nat /\ i # 0 /\ i - 1 = level(e)
  BY Basics DEF WF, Forest
<1>2. /\ Listed(s, f) /\ Numbering(f)
      /\ \A v : v \in DOMAIN f <=> v \in Vs(g) /\ level(v) = i
      /\ \A v \in Vs(g) : level(v) = i => f[v] = Pos(g, v)
  <2> HIDE DEF i
  <2>1. QED BY <1>1, ListedVertices DEF WF, Forest
<1>3. y = IF lastEnd(g, lastSon(g, w)) = null THEN first(s) ELSE succ(s, lastEnd(g, lastSon(g, w)))
  BY DEF LeftPlace, behind
<1> HIDE DEF i, f, s, y
<1>4. Lo(g, e) \in Nat /\ Hi(g, e) \in Nat /\ Lo(g, e) < Hi(g, e)
  BY Basics, Positive DEF WF, Forest
<1>5. ASSUME NEW x \in Vs(g), level(x) = i
      PROVE  /\ Pos(g, x) \in Nat /\ x # null /\ Pos(g, x) # p
             /\ \/ Pos(g, x) >= Hi(g, e)
                \/ w # null /\ Pos(g, x) <= Hi(g, w)
  <2>1. Pos(g, x) \in Nat /\ x # null /\ V0(g, e) \in Vs(g) /\ level(V0(g, e)) = level(e)
    BY Basics, Positive DEF WF, Forest
  <2>2. PICK F \in Es(g) : level(F) = level(e) /\ ~isLeaf(g, F) /\ Lo(g, F) <= Pos(g, x) /\ Pos(g, x) <= Hi(g, F)
    BY <1>1, <1>5, FatherAt DEF WF
  <2>3. Lo(g, F) >= Hi(g, e) \/ (w # null /\ Hi(g, F) <= Hi(g, w))
    BY <2>2, Reach
  <2>4. Lo(g, F) \in Nat /\ Hi(g, F) \in Nat /\ (w # null => Hi(g, w) \in Nat)
    BY <2>2, Basics, LastSon DEF WF, Forest
  <2>5. Pos(g, x) # p
    BY <2>1, <1>5, NoCopyAt DEF i, WF, Lo
  <2>6. QED BY <2>1, <2>2, <2>3, <2>4, <2>5, <1>4
<1>6. CASE w = null
  <2>1. y = first(s)
    BY <1>3, <1>6 DEF lastSon, lastEnd
  <2>2. \A x \in DOMAIN f : f[x] >= Hi(g, e) /\ f[x] > p /\ f[x] \in Int /\ x # null
    BY <1>2, <1>5, <1>6, <1>4
  <2>3. \/ y = null /\ DOMAIN f = {}
        \/ y \in DOMAIN f /\ \A z \in DOMAIN f : f[y] <= f[z]
    BY <2>1, <1>2, FirstIsLeast
  <2>4. PlaceFor(f, y, p)
    BY <2>2, <2>3 DEF PlaceFor
  <2>5. QED BY <2>4 DEF f, y, i
<1>7. CASE w # null
  <2> DEFINE l == V1(g, lastSon(g, w))
  <2>1. /\ w \in Es(g) /\ l \in Vs(g) /\ l # null /\ level(l) = i /\ Pos(g, l) = Hi(g, w)
        /\ Hi(g, w) <= Lo(g, e) /\ lastSon(g, w) # null
    BY <1>7, LastSon, Basics DEF i, WF, Forest, Hi
  <2>2. lastEnd(g, lastSon(g, w)) = l
    BY <2>1 DEF lastEnd, V1
  <2> HIDE DEF l
  <2>3. y = succ(s, l)
    BY <1>3, <2>1, <2>2
  <2>4. l \in DOMAIN f /\ f[l] = Pos(g, l) /\ f[l] \in Nat
    BY <2>1, <1>2, <1>5
  <2>5. f[l] < p
    BY <2>1, <2>4, <1>4, <1>5
  <2>6. Follower(f, l, y)
    BY <2>3, <2>4, <1>2, SuccIsFollower
  <2>7. CASE y = null /\ \A z \in DOMAIN f : f[z] <= f[l]
    <3>1. \A z \in DOMAIN f : f[z] < p
      BY <2>7, <2>5, <2>4, <1>2, <1>4 DEF Numbering
    <3>2. PlaceFor(f, y, p)
      BY <3>1, <2>7 DEF PlaceFor
    <3>3. QED BY <3>2 DEF f, y, i
  <2>8. CASE y \in DOMAIN f /\ f[y] > f[l] /\ \A z \in DOMAIN f : f[z] < f[y] => f[z] <= f[l]
    <3>1. y \in Vs(g) /\ level(y) = i /\ f[y] = Pos(g, y) /\ Pos(g, y) > Pos(g, l)
      BY <2>8, <1>2, <2>4
    <3>2. Pos(g, y) >= Hi(g, e)
      BY <3>1, <2>1, <2>4, <1>5
    <3>3. f[y] > p /\ y # null
      BY <3>1, <3>2, <1>4, <1>5
    <3>4. \A z \in DOMAIN f : f[z] < f[y] => f[z] < p
      BY <2>8, <2>5, <2>4, <1>2, <1>4 DEF Numbering
    <3>5. PlaceFor(f, y, p)
      BY <3>3, <3>4, <2>8 DEF PlaceFor
    <3>6. QED BY <3>5 DEF f, y, i
  <2>9. QED BY <2>6, <2>7, <2>8 DEF Follower
<1>8. QED BY <1>6, <1>7

(* A copy of the vertex v on the next level, there already or not. *)
Upper(g, v) == IF son(g, v) # null THEN son(g, v) ELSE <<level(v) + 1, id(v)>>

NewElement(g, a, b, e) ==
  [vertex |-> <<a, b>>, father |-> e, sons |-> <<null, null>>,
   markState |-> "DO_NOTHING", isNew |-> TRUE, reversed |-> g.reversed]

Halved(g, h, e, s0, s1, m) ==
  /\ s0 = <<level(e) + 1, g.freeElementId>> /\ s1 = <<level(e) + 1, g.freeElementId + 1>>
  /\ m = <<level(e) + 1, g.freeVertexId>>
  /\ h.vertex[m] = [pos |-> middle(g, e), son |-> null]
  /\ h.element[s0] = NewElement(g, Upper(g, V0(g, e)), m, e)
  /\ h.element[s1] = NewElement(g, m, Upper(g, V1(g, e)), e)
  /\ h.freeVertexId = g.freeVertexId + 1 /\ h.freeElementId = g.freeElementId + 2

Doubled(g, h, e, s0, s1, m) ==
  /\ s0 = <<level(e) + 1, id(e)>> /\ s1 = s0 /\ m = Upper(g, V0(g, e))
  /\ h.element[s0] = NewElement(g, Upper(g, V0(g, e)), Upper(g, V1(g, e)), e)
  /\ h.freeVertexId = g.freeVertexId /\ h.freeElementId = g.freeElementId

(* The maps of h are those of g where the leaf e has got the sons s0 and   *)
(* s1, either halves with the vertex m between them or one copy.           *)
Growth(g, h, e, s0, s1, m) ==
  LET u0 == Upper(g, V0(g, e))
      u1 == Upper(g, V1(g, e))
  IN
  /\ Shape(h) /\ h.reversed = g.reversed /\ h.failed = g.failed
  /\ DOMAIN h.elements = DOMAIN g.elements /\ DOMAIN h.vertices = DOMAIN g.vertices
  /\ Es(h) = Es(g) \cup {s0, s1}
  /\ Vs(h) = Vs(g) \cup {u0, u1, m}
  /\ h.vertex = [v \in Vs(h) |-> h.vertex[v]] /\ h.element = [x \in Es(h) |-> h.element[x]]
  /\ \A v \in Vs(g) :
       h.vertex[v] = [pos |-> Pos(g, v),
                      son |-> IF v = V0(g, e) THEN u0 ELSE IF v = V1(g, e) THEN u1 ELSE son(g, v)]
  /\ u0 \notin Vs(g) => h.vertex[u0] = [pos |-> Lo(g, e), son |-> null]
  /\ u1 \notin Vs(g) => h.vertex[u1] = [pos |-> Hi(g, e), son |-> null]
  /\ \A x \in Es(g) : h.element[x] = IF x = e THEN [g.element[e] EXCEPT !.sons = <<s0, s1>>] ELSE g.element[x]
  /\ Halved(g, h, e, s0, s1, m) \/ Doubled(g, h, e, s0, s1, m)

(* The copy of an end of a leaf. *)
LEMMA UpperEnds ==
  ASSUME NEW g, Forest(g), NEW v \in Vs(g), NEW u, u = Upper(g, v)
  PROVE  /\ level(u) = level(v) + 1 /\ id(u) = id(v) /\ u = <<level(v) + 1, id(v)>> /\ u # null
         /\ u \in Vs(g) <=> son(g, v) # null
         /\ u \in Vs(g) => Pos(g, u) = Pos(g, v)
<1>1. v = <<level(v), id(v)>> /\ level(v) \in Nat /\ id(v) \in Int
  BY Basics DEF Forest
<1>2. CASE son(g, v) # null
  <2>1. u = son(g, v) /\ u \in Vs(g)
    BY <1>2, Basics DEF Upper, Forest
  <2>2. level(u) = level(v) + 1 /\ id(u) = id(v) /\ Pos(g, u) = Pos(g, v)
    BY <2>1, <1>2 DEF Forest, Copies
  <2>3. u = <<level(u), id(u)>> /\ u # null
    BY <2>1, Basics DEF Forest
  <2>4. QED BY <2>1, <2>2, <2>3, <1>2
<1>3. CASE son(g, v) = null
  <2>1. u = <<level(v) + 1, id(v)>>
    BY <1>3 DEF Upper
  <2>2. level(u) = level(v) + 1 /\ id(u) = id(v)
    BY <2>1 DEF level, id
  <2>3. u \notin Vs(g)
    <3> SUFFICES ASSUME u \in Vs(g) PROVE FALSE
      OBVIOUS
    <3>1. Pos(g, u) = Pos(g, v)
      BY <2>2 DEF Forest, Ids
    <3>2. QED BY <3>1, <2>2, <1>3, NoCopyAt
  <2>4. u \in Int \X Int
    BY <2>1, <1>1
  <2>5. QED BY <2>1, <2>2, <2>3, <2>4, <1>3, NullIsNone
<1>4. QED BY <1>2, <1>3

(* The centre is inside the element, and both halves are long enough for   *)
(* the next level.                                                         *)
LEMMA Middle ==
  ASSUME NEW g, Forest(g), NEW e \in Es(g), level(e) < maxLevel(g)
  PROVE  LET n == LevelLimit - (level(e) + 1) IN
         /\ n \in Nat /\ power2[n] \in Nat /\ power2[n] >= 1
         /\ middle(g, e) \in Nat /\ Hi(g, e) - Lo(g, e) >= power2[n]
         /\ middle(g, e) - Lo(g, e) >= power2[n] /\ Hi(g, e) - middle(g, e) >= power2[n]
<1> DEFINE n == LevelLimit - (level(e) + 1)
           a == Lo(g, e)
           b == Hi(g, e)
<1>1. level(e) < LevelLimit
  BY Basics DEF Forest
<1>2. n \in Nat /\ b - a >= 2 * power2[n]
  BY <1>1, Positive DEF Forest
<1>3. a \in Nat /\ b \in Nat
  BY Basics DEF Forest
<1>4. power2[n] \in Nat /\ power2[n] >= 1
  BY <1>2, PowerPositive
<1>5. middle(g, e) = (a + b) \div 2
  BY DEF middle, Lo, Hi, Pos, V0, V1
<1> DEFINE p == power2[n]
<1>6. p \in Nat /\ p >= 1 /\ b - a >= 2 * p
  BY <1>2, <1>4
<1> HIDE DEF p, a, b, n
<1>7. (a + b) \div 2 \in Nat /\ (a + b) \div 2 - a >= p /\ b - (a + b) \div 2 >= p /\ b - a >= p
  BY <1>3, <1>6
<1>8. QED BY <1>2, <1>4, <1>5, <1>7 DEF p, a, b, n

(* What the proofs use of it. *)
Grown_(g, h, e, s0, s1, u0, u1, m) ==
  /\ e \in Es(g) /\ isLeaf(g, e) /\ level(e) < maxLevel(g) /\ level(e) \in Nat
  /\ Typed(h) /\ maxLevel(h) = maxLevel(g) /\ h.reversed = g.reversed
  /\ Es(h) = Es(g) \cup {s0, s1} /\ s0 \notin Es(g) /\ s1 \notin Es(g)
  /\ level(s0) = level(e) + 1 /\ level(s1) = level(e) + 1
  /\ Vs(h) = Vs(g) \cup {u0, u1, m}
  /\ level(u0) = level(e) + 1 /\ id(u0) = id(V0(g, e)) /\ Pos(h, u0) = Lo(g, e)
  /\ level(u1) = level(e) + 1 /\ id(u1) = id(V1(g, e)) /\ Pos(h, u1) = Hi(g, e)
  /\ u0 # null /\ u1 # null
  /\ \A v \in Vs(g) : /\ Pos(h, v) = Pos(g, v)
                      /\ son(h, v) = IF v = V0(g, e) THEN u0 ELSE IF v = V1(g, e) THEN u1 ELSE son(g, v)
  /\ \A v \in Vs(h) \ Vs(g) : son(h, v) = null
  /\ u0 \notin Vs(g) <=> son(g, V0(g, e)) = null
  /\ u1 \notin Vs(g) <=> son(g, V1(g, e)) = null
  /\ son(g, V0(g, e)) # null => son(g, V0(g, e)) = u0
  /\ son(g, V1(g, e)) # null => son(g, V1(g, e)) = u1
  /\ \A x \in Es(g) : /\ V0(h, x) = V0(g, x) /\ V1(h, x) = V1(g, x)
                      /\ Lo(h, x) = Lo(g, x) /\ Hi(h, x) = Hi(g, x)
                      /\ h.element[x].father = g.element[x].father
                      /\ h.element[x].markState = g.element[x].markState
                      /\ h.element[x].reversed = g.element[x].reversed
                      /\ x # e => h.element[x].sons = g.element[x].sons
                      /\ isLeaf(h, x) <=> isLeaf(g, x) /\ x # e
  /\ h.element[e].sons = <<s0, s1>>
  /\ \A s \in {s0, s1} : /\ isLeaf(h, s) /\ h.element[s].father = e /\ h.element[s].markState = "DO_NOTHING"
                         /\ h.element[s].reversed = g.reversed
                         /\ level(V0(h, s)) = level(e) + 1 /\ level(V1(h, s)) = level(e) + 1
                         /\ Hi(h, s) - Lo(h, s) >= power2[LevelLimit - level(s)]
                         /\ Lo(h, s) < Hi(h, s) /\ Lo(g, e) <= Lo(h, s) /\ Hi(h, s) <= Hi(g, e)
  /\ V0(h, s0) = u0 /\ V1(h, s1) = u1
  /\ Lo(h, s0) = Lo(g, e) /\ Hi(h, s1) = Hi(g, e)
  /\ \/ /\ s0 # s1 /\ V1(h, s0) = m /\ V0(h, s1) = m /\ Hi(h, s0) = Lo(h, s1)
        /\ id(s0) = g.freeElementId /\ id(s1) = g.freeElementId + 1
        /\ id(m) = g.freeVertexId /\ level(m) = level(e) + 1 /\ m \notin Vs(g)
        /\ Lo(g, e) < Pos(h, m) /\ Pos(h, m) < Hi(g, e)
        /\ h.freeVertexId = g.freeVertexId + 1 /\ h.freeElementId = g.freeElementId + 2
     \/ /\ s0 = s1 /\ m = u0 /\ id(s0) = id(e)
        /\ h.freeVertexId = g.freeVertexId /\ h.freeElementId = g.freeElementId

(* maxLevel() is the last level of the lists. *)
LEMMA MaxLevelIs ==
  ASSUME NEW g, NEW n \in Nat, DOMAIN g.elements = 0..n
  PROVE  maxLevel(g) = n
<1>1. Cardinality(0..n) = n - 0 + 1
  BY FS_Interval
<1>2. QED BY <1>1 DEF maxLevel

(* Types of what is new. *)
LEMMA NewTypes ==
  ASSUME NEW g, NEW V, NEW E, NEW a \in V, NEW b \in V, NEW e \in E, g.reversed \in BOOLEAN
  PROVE  NewElement(g, a, b, e) \in ElementType(V, E)
BY DEF NewElement, ElementType, MarkStates

(* The types grow with the sets of the entities. *)
LEMMA TypesGrow ==
  ASSUME NEW V, NEW E, NEW W, NEW F, V \subseteq W, E \subseteq F
  PROVE  VertexType(V) \subseteq VertexType(W) /\ ElementType(V, E) \subseteq ElementType(W, F)
<1>1. VertexType(V) \subseteq VertexType(W)
  BY DEF VertexType
<1>2. ASSUME NEW x \in ElementType(V, E) PROVE x \in ElementType(W, F)
  <2>1. x.vertex \in W \X W /\ x.father \in F \cup {null} /\ x.sons \in (F \cup {null}) \X (F \cup {null})
    BY <1>2 DEF ElementType
  <2>2. QED BY <1>2, <2>1 DEF ElementType
<1>3. QED BY <1>1, <1>2

(* The vertices of a grid in which a leaf got sons. *)
LEMMA GrowthVertices ==
  ASSUME NEW g, Forest(g), NEW e \in Es(g), level(e) < maxLevel(g), isLeaf(g, e),
         NEW h, NEW s0, NEW s1, NEW m, Growth(g, h, e, s0, s1, m),
         NEW u0, u0 = Upper(g, V0(g, e)), NEW u1, u1 = Upper(g, V1(g, e))
  PROVE  /\ Vs(h) = Vs(g) \cup {u0, u1, m}
         /\ level(u0) = level(e) + 1 /\ id(u0) = id(V0(g, e)) /\ Pos(h, u0) = Lo(g, e)
         /\ level(u1) = level(e) + 1 /\ id(u1) = id(V1(g, e)) /\ Pos(h, u1) = Hi(g, e)
         /\ u0 # null /\ u1 # null
         /\ \A v \in Vs(g) : /\ Pos(h, v) = Pos(g, v)
                             /\ son(h, v) = IF v = V0(g, e) THEN u0 ELSE IF v = V1(g, e) THEN u1 ELSE son(g, v)
         /\ \A v \in Vs(h) \ Vs(g) : son(h, v) = null
         /\ u0 \notin Vs(g) <=> son(g, V0(g, e)) = null
         /\ u1 \notin Vs(g) <=> son(g, V1(g, e)) = null
         /\ son(g, V0(g, e)) # null => son(g, V0(g, e)) = u0
         /\ son(g, V1(g, e)) # null => son(g, V1(g, e)) = u1
         /\ u0 \in (0..maxLevel(g)) \X Int /\ u1 \in (0..maxLevel(g)) \X Int
         /\ h.vertex \in [Vs(h) -> VertexType(Vs(h))]
         /\ \/ /\ m \notin Vs(g) /\ m = <<level(e) + 1, g.freeVertexId>> /\ Pos(h, m) = middle(g, e)
               /\ m \in (0..maxLevel(g)) \X Int
            \/ m = u0
<1> DEFINE v0 == V0(g, e)
           v1 == V1(g, e)
<1>1. /\ v0 \in Vs(g) /\ v1 \in Vs(g) /\ level(v0) = level(e) /\ level(v1) = level(e)
      /\ Pos(g, v0) = Lo(g, e) /\ Pos(g, v1) = Hi(g, e)
      /\ level(e) \in Nat /\ level(e) + 1 \in 0..maxLevel(g)
      /\ id(v0) \in Int /\ id(v1) \in Int
      /\ Lo(g, e) \in Nat /\ Hi(g, e) \in Nat
  BY Basics, Positive DEF Forest, Lo, Hi
<1>2. /\ level(u0) = level(e) + 1 /\ id(u0) = id(v0) /\ u0 = <<level(e) + 1, id(v0)>> /\ u0 # null
      /\ u0 \in Vs(g) <=> son(g, v0) # null
      /\ u0 \in Vs(g) => Pos(g, u0) = Lo(g, e)
  BY <1>1, UpperEnds
<1>3. /\ level(u1) = level(e) + 1 /\ id(u1) = id(v1) /\ u1 = <<level(e) + 1, id(v1)>> /\ u1 # null
      /\ u1 \in Vs(g) <=> son(g, v1) # null
      /\ u1 \in Vs(g) => Pos(g, u1) = Hi(g, e)
  BY <1>1, UpperEnds
<1>4. son(g, v0) # null => son(g, v0) = u0
  BY DEF Upper
<1>5. son(g, v1) # null => son(g, v1) = u1
  BY DEF Upper
<1> HIDE DEF v0, v1
<1>6. /\ Vs(h) = Vs(g) \cup {u0, u1, m} /\ h.vertex = [v \in Vs(h) |-> h.vertex[v]]
      /\ \A v \in Vs(g) :
           h.vertex[v] = [pos |-> Pos(g, v),
                          son |-> IF v = v0 THEN u0 ELSE IF v = v1 THEN u1 ELSE son(g, v)]
      /\ u0 \notin Vs(g) => h.vertex[u0] = [pos |-> Lo(g, e), son |-> null]
      /\ u1 \notin Vs(g) => h.vertex[u1] = [pos |-> Hi(g, e), son |-> null]
      /\ \/ h.vertex[m] = [pos |-> middle(g, e), son |-> null] /\ m = <<level(e) + 1, g.freeVertexId>>
         \/ m = u0
  BY DEF Growth, Halved, Doubled, v0, v1
<1>7. \A v \in Vs(g) : /\ Pos(h, v) = Pos(g, v)
                       /\ son(h, v) = IF v = v0 THEN u0 ELSE IF v = v1 THEN u1 ELSE son(g, v)
  <2> TAKE v \in Vs(g)
  <2> DEFINE p == Pos(g, v)
             w == IF v = v0 THEN u0 ELSE IF v = v1 THEN u1 ELSE son(g, v)
  <2>1. h.vertex[v] = [pos |-> p, son |-> w]
    BY <1>6
  <2> HIDE DEF p, w
  <2>2. Pos(h, v) = p /\ son(h, v) = w
    BY <2>1 DEF Pos, son
  <2>3. QED BY <2>2 DEF p, w
<1>8. u0 \notin Vs(g) => Pos(h, u0) = Lo(g, e) /\ son(h, u0) = null
  BY <1>6 DEF Pos, son
<1>9. u1 \notin Vs(g) => Pos(h, u1) = Hi(g, e) /\ son(h, u1) = null
  BY <1>6 DEF Pos, son
<1>10. Pos(h, u0) = Lo(g, e)
  BY <1>2, <1>7, <1>8
<1>11. Pos(h, u1) = Hi(g, e)
  BY <1>3, <1>7, <1>9
<1>12. m \notin Vs(g) => son(h, m) = null
  <2>1. CASE h.vertex[m] = [pos |-> middle(g, e), son |-> null]
    BY <2>1 DEF son
  <2>2. CASE m = u0
    BY <2>2, <1>8
  <2>3. QED BY <2>1, <2>2, <1>6
<1>13. \A v \in Vs(h) \ Vs(g) : son(h, v) = null
  BY <1>6, <1>8, <1>9, <1>12
<1>14. \A v \in Vs(g) : h.vertex[v] \in VertexType(Vs(h))
  <2> TAKE v \in Vs(g)
  <2>1. Pos(g, v) \in Nat /\ son(g, v) \in Vs(h) \cup {null} /\ u0 \in Vs(h) /\ u1 \in Vs(h)
    BY <1>6, Basics DEF Forest
  <2>2. h.vertex[v] = [pos |-> Pos(g, v), son |-> IF v = v0 THEN u0 ELSE IF v = v1 THEN u1 ELSE son(g, v)]
    BY <1>6
  <2>3. QED BY <2>1, <2>2 DEF VertexType
<1>15. middle(g, e) \in Nat
  BY Middle
<1>16. \A v \in Vs(h) \ Vs(g) : h.vertex[v] \in VertexType(Vs(h))
  BY <1>6, <1>1, <1>15 DEF VertexType
<1>17. h.vertex \in [Vs(h) -> VertexType(Vs(h))]
  <2>1. \A v \in Vs(h) : h.vertex[v] \in VertexType(Vs(h))
    BY <1>14, <1>16
  <2>2. QED BY <2>1, <1>6
<1>18. u0 \in (0..maxLevel(g)) \X Int /\ u1 \in (0..maxLevel(g)) \X Int
  BY <1>1, <1>2, <1>3
<1>19. \/ /\ m \notin Vs(g) /\ m = <<level(e) + 1, g.freeVertexId>> /\ Pos(h, m) = middle(g, e)
          /\ m \in (0..maxLevel(g)) \X Int
       \/ m = u0
  <2> SUFFICES ASSUME h.vertex[m] = [pos |-> middle(g, e), son |-> null], m = <<level(e) + 1, g.freeVertexId>>
               PROVE  /\ m \notin Vs(g) /\ Pos(h, m) = middle(g, e)
                      /\ m \in (0..maxLevel(g)) \X Int
    BY <1>6
  <2>1. g.freeVertexId \in Int /\ id(m) = g.freeVertexId
    BY DEF Forest, Typed, id
  <2>2. m \notin Vs(g)
    BY <2>1 DEF Forest, Ids
  <2>3. m \in (0..maxLevel(g)) \X Int
    BY <2>1, <1>1
  <2>4. QED BY <2>2, <2>3 DEF Pos
<1>20. QED BY <1>2, <1>3, <1>4, <1>5, <1>6, <1>7, <1>10, <1>11, <1>13, <1>17, <1>18, <1>19 DEF v0, v1

(* The elements of a grid in which a leaf got sons. *)
LEMMA GrowthElements ==
  ASSUME NEW g, Forest(g), NEW e \in Es(g), level(e) < maxLevel(g), isLeaf(g, e),
         NEW h, NEW s0, NEW s1, NEW m, Growth(g, h, e, s0, s1, m)
  PROVE  /\ Es(h) = Es(g) \cup {s0, s1} /\ s0 \notin Es(g) /\ s1 \notin Es(g)
         /\ s0 \in (0..maxLevel(g)) \X Int /\ s1 \in (0..maxLevel(g)) \X Int
         /\ level(s0) = level(e) + 1 /\ level(s1) = level(e) + 1
         /\ h.element \in [Es(h) -> ElementType(Vs(h), Es(h))]
         /\ \A x \in Es(g) : /\ V0(h, x) = V0(g, x) /\ V1(h, x) = V1(g, x)
                             /\ h.element[x].father = g.element[x].father
                             /\ h.element[x].markState = g.element[x].markState /\ h.element[x].reversed = g.element[x].reversed
                             /\ x # e => h.element[x].sons = g.element[x].sons
                             /\ isLeaf(h, x) <=> isLeaf(g, x) /\ x # e
         /\ h.element[e].sons = <<s0, s1>>
         /\ \A s \in {s0, s1} : isLeaf(h, s) /\ h.element[s].father = e /\ h.element[s].markState = "DO_NOTHING" /\ h.element[s].reversed = g.reversed
         /\ V0(h, s0) = Upper(g, V0(g, e)) /\ V1(h, s1) = Upper(g, V1(g, e))
         /\ \/ /\ s0 # s1 /\ V1(h, s0) = m /\ V0(h, s1) = m /\ id(s0) = g.freeElementId /\ id(s1) = g.freeElementId + 1
               /\ id(m) = g.freeVertexId /\ level(m) = level(e) + 1
               /\ m = <<level(e) + 1, g.freeVertexId>>
               /\ h.freeVertexId = g.freeVertexId + 1 /\ h.freeElementId = g.freeElementId + 2
            \/ /\ s0 = s1 /\ m = Upper(g, V0(g, e)) /\ id(s0) = id(e)
               /\ h.freeVertexId = g.freeVertexId /\ h.freeElementId = g.freeElementId
<1> DEFINE u0 == Upper(g, V0(g, e))
           u1 == Upper(g, V1(g, e))
<1>1. /\ Es(h) = Es(g) \cup {s0, s1} /\ h.element = [x \in Es(h) |-> h.element[x]]
      /\ Vs(h) = Vs(g) \cup {u0, u1, m}
      /\ \A x \in Es(g) : h.element[x] = IF x = e THEN [g.element[e] EXCEPT !.sons = <<s0, s1>>] ELSE g.element[x]
      /\ Halved(g, h, e, s0, s1, m) \/ Doubled(g, h, e, s0, s1, m)
  BY DEF Growth
<1>2. /\ g.freeVertexId \in Int /\ g.freeElementId \in Int /\ g.reversed \in BOOLEAN
      /\ level(e) \in Nat /\ level(e) + 1 \in 0..maxLevel(g) /\ id(e) \in Int /\ e # null
      /\ e = <<level(e), id(e)>>
  <2>1. g.freeVertexId \in Int /\ g.freeElementId \in Int /\ g.reversed \in BOOLEAN
    BY DEF Forest, Typed
  <2>2. level(e) \in Nat /\ id(e) \in Int /\ e # null /\ e = <<level(e), id(e)>> /\ maxLevel(g) \in Nat
    BY Basics DEF Forest
  <2>3. level(e) + 1 \in 0..maxLevel(g)
    BY <2>2
  <2>4. QED BY <2>1, <2>2, <2>3
<1>3. g.element \in [Es(g) -> ElementType(Vs(g), Es(g))]
  BY DEF Forest, Typed
<1> HIDE DEF u0, u1
<1>4. \A s \in {s0, s1} : \E a, b \in Vs(h) : h.element[s] = NewElement(g, a, b, e)
  BY <1>1 DEF Halved, Doubled, u0, u1
<1>5. /\ s0 \in (0..maxLevel(g)) \X Int /\ s1 \in (0..maxLevel(g)) \X Int
      /\ level(s0) = level(e) + 1 /\ level(s1) = level(e) + 1
  BY <1>1, <1>2 DEF Halved, Doubled, level
<1>6. s0 \notin Es(g) /\ s1 \notin Es(g)
  <2>1. CASE Halved(g, h, e, s0, s1, m)
    <3>1. id(s0) = g.freeElementId /\ id(s1) = g.freeElementId + 1
      BY <2>1 DEF Halved, id
    <3>2. \A x \in Es(g) : id(x) < g.freeElementId /\ id(x) \in Int
      BY Basics DEF Forest, Ids
    <3>3. QED BY <3>1, <3>2, <1>2
  <2>2. CASE Doubled(g, h, e, s0, s1, m)
    <3>1. s1 = s0 /\ id(s0) = id(e)
      BY <2>2 DEF Doubled, id
    <3> SUFFICES ASSUME s0 \in Es(g) PROVE FALSE
      BY <3>1
    <3>2. Lo(g, s0) = Lo(g, e) /\ Hi(g, s0) = Hi(g, e)
      BY <3>1 DEF Forest, Ids
    <3>3. e # s0 /\ level(e) <= level(s0)
      BY <1>5, <1>2
    <3>4. Apart(g, e, s0)
      BY <3>3 DEF Forest, Nested
    <3>5. Lo(g, e) < Hi(g, e) /\ Lo(g, e) \in Nat /\ Hi(g, e) \in Nat
      BY Positive, Basics DEF Forest
    <3>6. QED BY <3>2, <3>4, <3>5 DEF Apart
  <2>3. QED BY <2>1, <2>2, <1>1
<1>7. \A x \in Es(g) : g.element[x] \in ElementType(Vs(g), Es(g))
  BY <1>3
<1>8. ASSUME NEW x \in Es(g), x # e
      PROVE  /\ V0(h, x) = V0(g, x) /\ V1(h, x) = V1(g, x)
             /\ h.element[x].father = g.element[x].father
             /\ h.element[x].markState = g.element[x].markState /\ h.element[x].reversed = g.element[x].reversed
             /\ h.element[x].sons = g.element[x].sons
             /\ isLeaf(h, x) <=> isLeaf(g, x)
  BY <1>1, <1>8 DEF V0, V1, isLeaf
<1>9. /\ V0(h, e) = V0(g, e) /\ V1(h, e) = V1(g, e)
      /\ h.element[e].father = g.element[e].father
      /\ h.element[e].markState = g.element[e].markState /\ h.element[e].reversed = g.element[e].reversed
      /\ h.element[e].sons = <<s0, s1>>
  <2>1. g.element[e] \in ElementType(Vs(g), Es(g)) /\ h.element[e] = [g.element[e] EXCEPT !.sons = <<s0, s1>>]
    BY <1>7, <1>1
  <2>2. QED BY <2>1 DEF V0, V1, ElementType
<1>10. s0 # null /\ s1 # null
  <2>1. s0 \in Int \X Int /\ s1 \in Int \X Int
    BY <1>5, <1>2
  <2>2. QED BY <2>1, NullIsNone
<1>11. ~isLeaf(h, e)
  <2>1. <<s0, s1>> # <<null, null>>
    BY <1>10
  <2>2. QED BY <2>1, <1>9 DEF isLeaf
<1>12. \A s \in {s0, s1} : isLeaf(h, s) /\ h.element[s].father = e /\ h.element[s].markState = "DO_NOTHING" /\ h.element[s].reversed = g.reversed
  <2> TAKE s \in {s0, s1}
  <2>1. PICK a \in Vs(h), b \in Vs(h) : h.element[s] = NewElement(g, a, b, e)
    BY <1>4
  <2>2. QED BY <2>1 DEF NewElement, isLeaf
<1>13. h.element \in [Es(h) -> ElementType(Vs(h), Es(h))]
  <2>1. ElementType(Vs(g), Es(g)) \subseteq ElementType(Vs(h), Es(h))
    BY <1>1, TypesGrow
  <2>2. \A x \in Es(g) \ {e} : h.element[x] \in ElementType(Vs(h), Es(h))
    BY <2>1, <1>7, <1>1
  <2>3. h.element[e] \in ElementType(Vs(h), Es(h))
    <3>1. g.element[e] \in ElementType(Vs(h), Es(h)) /\ s0 \in Es(h) /\ s1 \in Es(h)
      BY <2>1, <1>7, <1>1
    <3>2. h.element[e] = [g.element[e] EXCEPT !.sons = <<s0, s1>>]
      BY <1>1
    <3>3. QED BY <3>1, <3>2 DEF ElementType
  <2>4. \A s \in {s0, s1} : h.element[s] \in ElementType(Vs(h), Es(h))
    <3> TAKE s \in {s0, s1}
    <3>1. PICK a \in Vs(h), b \in Vs(h) : h.element[s] = NewElement(g, a, b, e)
      BY <1>4
    <3>2. e \in Es(h)
      BY <1>1
    <3>3. QED BY <3>1, <3>2, <1>2, NewTypes
  <2>5. \A x \in Es(h) : h.element[x] \in ElementType(Vs(h), Es(h))
    BY <2>2, <2>3, <2>4, <1>1
  <2>6. QED BY <2>5, <1>1
<1>14. V0(h, s0) = u0 /\ V1(h, s1) = u1
  BY <1>1 DEF Halved, Doubled, NewElement, V0, V1, u0, u1
<1>15. \/ /\ s0 # s1 /\ V1(h, s0) = m /\ V0(h, s1) = m /\ id(s0) = g.freeElementId /\ id(s1) = g.freeElementId + 1
          /\ id(m) = g.freeVertexId /\ level(m) = level(e) + 1
          /\ m = <<level(e) + 1, g.freeVertexId>>
          /\ h.freeVertexId = g.freeVertexId + 1 /\ h.freeElementId = g.freeElementId + 2
       \/ /\ s0 = s1 /\ m = u0 /\ id(s0) = id(e)
          /\ h.freeVertexId = g.freeVertexId /\ h.freeElementId = g.freeElementId
  <2>1. CASE Halved(g, h, e, s0, s1, m)
    <3>1. /\ id(s0) = g.freeElementId /\ id(s1) = g.freeElementId + 1
          /\ id(m) = g.freeVertexId /\ level(m) = level(e) + 1
          /\ m = <<level(e) + 1, g.freeVertexId>>
          /\ h.freeVertexId = g.freeVertexId + 1 /\ h.freeElementId = g.freeElementId + 2
      BY <2>1 DEF Halved, id, level
    <3>2. s0 # s1
      BY <3>1, <1>2
    <3>3. V1(h, s0) = m /\ V0(h, s1) = m
      BY <2>1 DEF Halved, NewElement, V0, V1
    <3>4. QED BY <3>1, <3>2, <3>3
  <2>2. CASE Doubled(g, h, e, s0, s1, m)
    BY <2>2 DEF Doubled, id, u0
  <2>3. QED BY <2>1, <2>2, <1>1
<1>16. QED BY <1>1, <1>5, <1>6, <1>8, <1>9, <1>11, <1>12, <1>13, <1>14, <1>15 DEF u0, u1

(* What Growth says gives what the proofs use of it. *)
LEMMA GrowthGives ==
  ASSUME NEW g, Forest(g), NEW e \in Es(g), level(e) < maxLevel(g), isLeaf(g, e),
         NEW h, NEW s0, NEW s1, NEW m, Growth(g, h, e, s0, s1, m),
         NEW u0, u0 = Upper(g, V0(g, e)), NEW u1, u1 = Upper(g, V1(g, e))
  PROVE  Grown_(g, h, e, s0, s1, u0, u1, m)
<1> USE DEF Forest
<1>1. /\ Vs(h) = Vs(g) \cup {u0, u1, m}
      /\ level(u0) = level(e) + 1 /\ id(u0) = id(V0(g, e)) /\ Pos(h, u0) = Lo(g, e)
      /\ level(u1) = level(e) + 1 /\ id(u1) = id(V1(g, e)) /\ Pos(h, u1) = Hi(g, e)
      /\ u0 # null /\ u1 # null
      /\ \A v \in Vs(g) : /\ Pos(h, v) = Pos(g, v)
                          /\ son(h, v) = IF v = V0(g, e) THEN u0 ELSE IF v = V1(g, e) THEN u1 ELSE son(g, v)
      /\ \A v \in Vs(h) \ Vs(g) : son(h, v) = null
      /\ u0 \notin Vs(g) <=> son(g, V0(g, e)) = null
      /\ u1 \notin Vs(g) <=> son(g, V1(g, e)) = null
      /\ son(g, V0(g, e)) # null => son(g, V0(g, e)) = u0
      /\ son(g, V1(g, e)) # null => son(g, V1(g, e)) = u1
      /\ u0 \in (0..maxLevel(g)) \X Int /\ u1 \in (0..maxLevel(g)) \X Int
      /\ h.vertex \in [Vs(h) -> VertexType(Vs(h))]
      /\ \/ /\ m \notin Vs(g) /\ m = <<level(e) + 1, g.freeVertexId>> /\ Pos(h, m) = middle(g, e)
            /\ m \in (0..maxLevel(g)) \X Int
         \/ m = u0
  BY GrowthVertices
<1>2. /\ Es(h) = Es(g) \cup {s0, s1} /\ s0 \notin Es(g) /\ s1 \notin Es(g)
      /\ s0 \in (0..maxLevel(g)) \X Int /\ s1 \in (0..maxLevel(g)) \X Int
      /\ level(s0) = level(e) + 1 /\ level(s1) = level(e) + 1
      /\ h.element \in [Es(h) -> ElementType(Vs(h), Es(h))]
      /\ \A x \in Es(g) : /\ V0(h, x) = V0(g, x) /\ V1(h, x) = V1(g, x)
                          /\ h.element[x].father = g.element[x].father
                          /\ h.element[x].markState = g.element[x].markState /\ h.element[x].reversed = g.element[x].reversed
                          /\ x # e => h.element[x].sons = g.element[x].sons
                          /\ isLeaf(h, x) <=> isLeaf(g, x) /\ x # e
      /\ h.element[e].sons = <<s0, s1>>
      /\ \A s \in {s0, s1} : isLeaf(h, s) /\ h.element[s].father = e /\ h.element[s].markState = "DO_NOTHING" /\ h.element[s].reversed = g.reversed
      /\ V0(h, s0) = u0 /\ V1(h, s1) = u1
      /\ \/ /\ s0 # s1 /\ V1(h, s0) = m /\ V0(h, s1) = m /\ id(s0) = g.freeElementId /\ id(s1) = g.freeElementId + 1
            /\ id(m) = g.freeVertexId /\ level(m) = level(e) + 1
            /\ m = <<level(e) + 1, g.freeVertexId>>
            /\ h.freeVertexId = g.freeVertexId + 1 /\ h.freeElementId = g.freeElementId + 2
         \/ /\ s0 = s1 /\ m = u0 /\ id(s0) = id(e)
            /\ h.freeVertexId = g.freeVertexId /\ h.freeElementId = g.freeElementId
  BY GrowthElements
<1>3. /\ level(e) \in Nat /\ maxLevel(g) \in Nat /\ maxLevel(g) \in 0..LevelLimit
      /\ DOMAIN g.elements = 0..maxLevel(g) /\ DOMAIN g.vertices = 0..maxLevel(g)
      /\ g.freeVertexId \in Int /\ g.freeElementId \in Int /\ g.reversed \in BOOLEAN
      /\ Vs(g) \subseteq (0..maxLevel(g)) \X Int /\ Es(g) \subseteq (0..maxLevel(g)) \X Int
      /\ V0(g, e) \in Vs(g) /\ V1(g, e) \in Vs(g) /\ Lo(g, e) \in Nat /\ Hi(g, e) \in Nat /\ Lo(g, e) < Hi(g, e)
  BY Basics, Positive DEF Typed
<1>4. Shape(h) /\ h.reversed = g.reversed /\ DOMAIN h.elements = DOMAIN g.elements
      /\ DOMAIN h.vertices = DOMAIN g.vertices
  BY DEF Growth
<1>5. maxLevel(h) = maxLevel(g)
  BY <1>3, <1>4, MaxLevelIs
<1>6. Typed(h)
  <2>1. Vs(h) \subseteq (0..maxLevel(g)) \X Int /\ Es(h) \subseteq (0..maxLevel(g)) \X Int
    BY <1>1, <1>2, <1>3
  <2>2. h.freeVertexId \in Int /\ h.freeElementId \in Int
    <3>1. \/ h.freeVertexId = g.freeVertexId + 1 /\ h.freeElementId = g.freeElementId + 2
          \/ h.freeVertexId = g.freeVertexId /\ h.freeElementId = g.freeElementId
      BY <1>2
    <3>2. g.freeVertexId \in Int /\ g.freeElementId \in Int
      BY <1>3
    <3> HIDE DEF Forest
    <3>3. QED BY <3>1, <3>2
  <2>3. QED BY <2>1, <2>2, <1>1, <1>2, <1>3, <1>4, <1>5 DEF Typed
<1>7. \A x \in Es(g) : Lo(h, x) = Lo(g, x) /\ Hi(h, x) = Hi(g, x)
  <2>1. \A x \in Es(g) : V0(g, x) \in Vs(g) /\ V1(g, x) \in Vs(g)
    BY Basics
  <2>2. QED BY <2>1, <1>1, <1>2 DEF Lo, Hi
<1>8. Lo(h, s0) = Lo(g, e) /\ Hi(h, s1) = Hi(g, e)
  BY <1>1, <1>2 DEF Lo, Hi
<1> DEFINE n == LevelLimit - (level(e) + 1)
<1>9. /\ power2[n] \in Nat /\ power2[n] >= 1
      /\ middle(g, e) \in Nat /\ Hi(g, e) - Lo(g, e) >= power2[n]
      /\ middle(g, e) - Lo(g, e) >= power2[n] /\ Hi(g, e) - middle(g, e) >= power2[n]
  BY Middle
<1>10. \A s \in {s0, s1} : LevelLimit - level(s) = n
  BY <1>2
<1> DEFINE p == power2[n]
<1> HIDE DEF n
<1>11. CASE s0 # s1
  <2>1. /\ V1(h, s0) = m /\ V0(h, s1) = m
        /\ id(s0) = g.freeElementId /\ id(s1) = g.freeElementId + 1
        /\ id(m) = g.freeVertexId /\ level(m) = level(e) + 1
        /\ h.freeVertexId = g.freeVertexId + 1 /\ h.freeElementId = g.freeElementId + 2
    BY <1>11, <1>2
  <2>2. m # u0
    <3>1. id(V0(g, e)) < g.freeVertexId /\ id(V0(g, e)) \in Int
      BY <1>3, Basics DEF Ids
    <3>2. id(u0) = id(V0(g, e))
      BY <1>1
    <3>3. id(m) = g.freeVertexId
      BY <2>1
    <3> HIDE DEF Forest
    <3>4. QED BY <3>1, <3>2, <3>3
  <2>3. m \notin Vs(g) /\ Pos(h, m) = middle(g, e)
    BY <2>2, <1>1
  <2>4. Hi(h, s0) = middle(g, e) /\ Lo(h, s1) = middle(g, e)
    BY <2>1, <2>3 DEF Lo, Hi
  <2>5. \A s \in {s0, s1} : Hi(h, s) - Lo(h, s) >= p
    BY <2>4, <1>8, <1>9
  <2>6. \A s \in {s0, s1} : Lo(h, s) < Hi(h, s) /\ Lo(g, e) <= Lo(h, s) /\ Hi(h, s) <= Hi(g, e)
    <3> DEFINE a == Lo(g, e)
               b == Hi(g, e)
               c == middle(g, e)
    <3>1. p \in Nat /\ p >= 1 /\ c \in Nat /\ a \in Nat /\ b \in Nat /\ c - a >= p /\ b - c >= p
      BY <1>9, <1>3
    <3>2. Lo(h, s0) = a /\ Hi(h, s0) = c /\ Lo(h, s1) = c /\ Hi(h, s1) = b
      BY <2>4, <1>8
    <3> HIDE DEF a, b, c, p, Forest
    <3>3. a < c /\ c < b
      BY <3>1
    <3>4. /\ Lo(h, s0) < Hi(h, s0) /\ a <= Lo(h, s0) /\ Hi(h, s0) <= b
          /\ Lo(h, s1) < Hi(h, s1) /\ a <= Lo(h, s1) /\ Hi(h, s1) <= b
      BY <3>1, <3>2, <3>3
    <3>5. QED BY <3>4 DEF a, b
  <2>7. Lo(g, e) < Pos(h, m) /\ Pos(h, m) < Hi(g, e)
    <3> DEFINE a == Lo(g, e)
               b == Hi(g, e)
               c == middle(g, e)
    <3>1. p \in Nat /\ p >= 1 /\ c \in Nat /\ a \in Nat /\ b \in Nat /\ c - a >= p /\ b - c >= p
      BY <1>9, <1>3
    <3> HIDE DEF a, b, c, p, Forest
    <3>2. a < c /\ c < b
      BY <3>1
    <3>3. QED BY <3>2, <2>3 DEF a, b, c
  <2>8. \A s \in {s0, s1} : level(V0(h, s)) = level(e) + 1 /\ level(V1(h, s)) = level(e) + 1
    BY <2>1, <1>1, <1>2
  <2>9. \A s \in {s0, s1} : Hi(h, s) - Lo(h, s) >= power2[LevelLimit - level(s)]
    BY <2>5, <1>10
  <2>10. QED
    BY <1>1, <1>2, <1>3, <1>5, <1>6, <1>7, <1>8, <1>11, <2>1, <2>3, <2>4, <2>6, <2>7, <2>8, <2>9, <1>4 DEF Grown_
<1>12. CASE s0 = s1
  <2>1. m = u0 /\ id(s0) = id(e)
        /\ h.freeVertexId = g.freeVertexId /\ h.freeElementId = g.freeElementId
    BY <1>12, <1>2
  <2>2. \A s \in {s0, s1} : Hi(h, s) - Lo(h, s) >= p
    BY <1>12, <1>8, <1>9
  <2>3. \A s \in {s0, s1} : Lo(h, s) < Hi(h, s) /\ Lo(g, e) <= Lo(h, s) /\ Hi(h, s) <= Hi(g, e)
    BY <1>12, <1>8, <1>3
  <2>4. \A s \in {s0, s1} : level(V0(h, s)) = level(e) + 1 /\ level(V1(h, s)) = level(e) + 1
    BY <1>12, <1>1, <1>2
  <2>5. \A s \in {s0, s1} : Hi(h, s) - Lo(h, s) >= power2[LevelLimit - level(s)]
    BY <2>2, <1>10
  <2>6. QED
    BY <1>1, <1>2, <1>3, <1>5, <1>6, <1>7, <1>8, <1>12, <2>1, <2>3, <2>4, <2>5, <1>4 DEF Grown_
<1>13. QED BY <1>11, <1>12

(* What stays as it was, and where the sons are. *)
LEMMA GrownOld ==
  ASSUME NEW g, NEW h, NEW e, NEW s0, NEW s1, NEW u0, NEW u1, NEW m,
         Grown_(g, h, e, s0, s1, u0, u1, m)
  PROVE  /\ e \in Es(g) /\ isLeaf(g, e) /\ level(e) \in Nat
         /\ Es(h) = Es(g) \cup {s0, s1} /\ Vs(h) = Vs(g) \cup {u0, u1, m}
         /\ \A x \in Es(g) : /\ V0(h, x) = V0(g, x) /\ V1(h, x) = V1(g, x)
                             /\ Lo(h, x) = Lo(g, x) /\ Hi(h, x) = Hi(g, x)
                             /\ isLeaf(h, x) <=> isLeaf(g, x) /\ x # e
         /\ \A s \in {s0, s1} : /\ isLeaf(h, s) /\ level(s) = level(e) + 1
                                /\ Lo(h, s) < Hi(h, s) /\ Lo(g, e) <= Lo(h, s) /\ Hi(h, s) <= Hi(g, e)
BY DEF Grown_

(* A leaf gets sons: extents are positive. *)
LEMMA GrownSized ==
  ASSUME NEW g, Forest(g), NEW h, NEW e, NEW s0, NEW s1, NEW u0, NEW u1, NEW m,
         Grown_(g, h, e, s0, s1, u0, u1, m)
  PROVE  Sized(h)
<1>1. ASSUME NEW x \in Es(g)
      PROVE  /\ level(V0(h, x)) = level(x) /\ level(V1(h, x)) = level(x)
             /\ Hi(h, x) - Lo(h, x) >= power2[LevelLimit - level(x)]
             /\ level(x) = 0 => Root(Lo(h, x), Hi(h, x), id(x))
  <2>1. /\ level(V0(g, x)) = level(x) /\ level(V1(g, x)) = level(x)
        /\ Hi(g, x) - Lo(g, x) >= power2[LevelLimit - level(x)]
        /\ level(x) = 0 => Root(Lo(g, x), Hi(g, x), id(x))
    BY DEF Forest, Sized
  <2>2. QED BY <2>1, GrownOld
<1>2. ASSUME NEW x \in {s0, s1}
      PROVE  /\ level(V0(h, x)) = level(x) /\ level(V1(h, x)) = level(x)
             /\ Hi(h, x) - Lo(h, x) >= power2[LevelLimit - level(x)]
             /\ level(x) # 0
  <2>1. /\ level(V0(h, x)) = level(e) + 1 /\ level(V1(h, x)) = level(e) + 1
        /\ Hi(h, x) - Lo(h, x) >= power2[LevelLimit - level(x)]
        /\ e \in Es(g)
    BY DEF Grown_
  <2>2. level(e) \in Nat
    BY <2>1, Basics DEF Forest
  <2>3. level(x) = level(e) + 1
    BY GrownOld
  <2>4. level(x) # 0
    BY <2>2, <2>3
  <2>5. QED BY <2>1, <2>3, <2>4
<1>3. Es(h) = Es(g) \cup {s0, s1}
  BY GrownOld
<1>4. QED BY <1>1, <1>2, <1>3 DEF Sized

(* The extents of all elements are natural numbers, from left to right. *)
LEMMA Extents ==
  ASSUME NEW g, Forest(g), NEW e \in Es(g)
  PROVE  Lo(g, e) \in Nat /\ Hi(g, e) \in Nat /\ Lo(g, e) < Hi(g, e) /\ level(e) \in Nat
BY Basics, Positive DEF Forest

(* A leaf gets sons: the ends are numbers. *)
LEMMA GrownExtents ==
  ASSUME NEW g, Forest(g), NEW h, NEW e, NEW s0, NEW s1, NEW u0, NEW u1, NEW m,
         Grown_(g, h, e, s0, s1, u0, u1, m), NEW x \in Es(h)
  PROVE  Lo(h, x) \in Nat /\ Hi(h, x) \in Nat /\ Lo(h, x) < Hi(h, x) /\ level(x) \in Nat
<1>1. Typed(h)
  BY DEF Grown_
<1>2. Sized(h)
  BY GrownSized
<1>3. QED BY <1>1, <1>2, Basics, Positive

(* A leaf gets sons: elements are apart or one is within the other. *)
LEMMA GrownNested ==
  ASSUME NEW g, Forest(g), NEW h, NEW e, NEW s0, NEW s1, NEW u0, NEW u1, NEW m,
         Grown_(g, h, e, s0, s1, u0, u1, m)
  PROVE  Nested(h)
<1>1. /\ e \in Es(g) /\ isLeaf(g, e) /\ level(e) \in Nat
      /\ Es(h) = Es(g) \cup {s0, s1}
      /\ \A x \in Es(g) : /\ Lo(h, x) = Lo(g, x) /\ Hi(h, x) = Hi(g, x)
                          /\ isLeaf(h, x) <=> isLeaf(g, x) /\ x # e
      /\ \A s \in {s0, s1} : /\ isLeaf(h, s) /\ level(s) = level(e) + 1
                             /\ Lo(h, s) < Hi(h, s) /\ Lo(g, e) <= Lo(h, s) /\ Hi(h, s) <= Hi(g, e)
  BY GrownOld
<1>2. \A x \in Es(h) : Lo(h, x) \in Nat /\ Hi(h, x) \in Nat /\ Lo(h, x) < Hi(h, x) /\ level(x) \in Nat
  BY GrownExtents
<1>3. \A x, y \in Es(g) : x # y /\ level(x) <= level(y) =>
        Apart(g, x, y) \/ (level(x) < level(y) /\ ~isLeaf(g, x) /\ Within(g, y, x))
  BY DEF Forest, Nested
<1>4. ASSUME NEW x \in Es(h), NEW y \in Es(h), x # y, level(x) <= level(y)
      PROVE  Apart(h, x, y) \/ (level(x) < level(y) /\ ~isLeaf(h, x) /\ Within(h, y, x))
  <2>1. CASE x \in Es(g) /\ y \in Es(g)
    BY <2>1, <1>1, <1>3, <1>4 DEF Apart, Within
  <2>2. CASE x \in {s0, s1} /\ y \in Es(g)
    <3>1. e # y /\ level(e) <= level(y)
      BY <2>2, <1>1, <1>2, <1>4
    <3>2. Apart(g, e, y)
      BY <3>1, <2>2, <1>1, <1>3
    <3>3. Apart(h, x, y)
      BY <3>2, <2>2, <1>1, <1>2 DEF Apart
    <3>4. QED BY <3>3
  <2>3. CASE x \in Es(g) /\ y \in {s0, s1}
    <3>1. CASE x = e
      BY <3>1, <2>3, <1>1 DEF Within
    <3>2. CASE x # e /\ level(x) <= level(e)
      <4>1. Apart(g, x, e) \/ (level(x) < level(e) /\ ~isLeaf(g, x) /\ Within(g, e, x))
        BY <3>2, <2>3, <1>1, <1>3
      <4>2. CASE Apart(g, x, e)
        <5>1. Apart(h, x, y)
          BY <4>2, <2>3, <1>1, <1>2 DEF Apart
        <5>2. QED BY <5>1
      <4>3. CASE level(x) < level(e) /\ ~isLeaf(g, x) /\ Within(g, e, x)
        <5>1. Within(h, y, x)
          BY <4>3, <2>3, <1>1, <1>2 DEF Within
        <5>2. level(x) < level(y) /\ ~isLeaf(h, x)
          BY <4>3, <2>3, <1>1, <1>2
        <5>3. QED BY <5>1, <5>2
      <4>4. QED BY <4>1, <4>2, <4>3
    <3>3. CASE x # e /\ ~(level(x) <= level(e))
      <4>1. level(e) <= level(x)
        BY <3>3, <1>1, <1>2
      <4>2. Apart(g, e, x)
        BY <4>1, <3>3, <2>3, <1>1, <1>3
      <4>3. Apart(h, x, y)
        BY <4>2, <2>3, <1>1, <1>2 DEF Apart
      <4>4. QED BY <4>3
    <3>4. QED BY <3>1, <3>2, <3>3
  <2>4. CASE x \in {s0, s1} /\ y \in {s0, s1}
    <3>1. s0 # s1
      BY <2>4, <1>4
    <3>2. Hi(h, s0) = Lo(h, s1)
      BY <3>1 DEF Grown_
    <3>3. Apart(h, x, y)
      BY <3>2, <2>4, <1>4, <1>1, <1>2 DEF Apart
    <3>4. QED BY <3>3
  <2>5. QED BY <2>1, <2>2, <2>3, <2>4, <1>1
<1>5. QED BY <1>4 DEF Nested

(* A leaf gets sons: every vertex is the end of an element. *)
LEMMA GrownEnds ==
  ASSUME NEW g, Forest(g), NEW h, NEW e, NEW s0, NEW s1, NEW u0, NEW u1, NEW m,
         Grown_(g, h, e, s0, s1, u0, u1, m)
  PROVE  AllEnds(h)
<1>1. /\ Es(h) = Es(g) \cup {s0, s1} /\ Vs(h) = Vs(g) \cup {u0, u1, m}
      /\ \A x \in Es(g) : V0(h, x) = V0(g, x) /\ V1(h, x) = V1(g, x)
      /\ level(s0) = level(e) + 1 /\ level(s1) = level(e) + 1
  BY DEF Grown_
<1>2. ASSUME NEW v \in Vs(g) PROVE \E x \in Es(h) : level(x) = level(v) /\ (V0(h, x) = v \/ V1(h, x) = v)
  <2>1. PICK x \in Es(g) : level(x) = level(v) /\ (V0(g, x) = v \/ V1(g, x) = v)
    BY DEF Forest, AllEnds
  <2>2. QED BY <2>1, <1>1
<1>3. V0(h, s0) = u0 /\ V1(h, s1) = u1 /\ level(u0) = level(e) + 1 /\ level(u1) = level(e) + 1
  BY DEF Grown_
<1>4. (V1(h, s0) = m /\ level(m) = level(e) + 1) \/ m = u0
  BY DEF Grown_
<1>5. QED BY <1>1, <1>2, <1>3, <1>4 DEF AllEnds

(* A leaf gets sons: the leaves cover the domain. *)
LEMMA GrownCovered ==
  ASSUME NEW g, Forest(g), NEW h, NEW e, NEW s0, NEW s1, NEW u0, NEW u1, NEW m,
         Grown_(g, h, e, s0, s1, u0, u1, m)
  PROVE  Covered(h)
<1>1. /\ e \in Es(g) /\ Es(h) = Es(g) \cup {s0, s1}
      /\ \A x \in Es(g) : /\ Lo(h, x) = Lo(g, x) /\ Hi(h, x) = Hi(g, x)
                          /\ isLeaf(h, x) <=> isLeaf(g, x) /\ x # e
      /\ isLeaf(h, s0) /\ isLeaf(h, s1)
  BY GrownOld
<1>2. /\ Lo(h, s0) = Lo(g, e) /\ Hi(h, s1) = Hi(g, e)
      /\ s0 = s1 \/ Hi(h, s0) = Lo(h, s1)
  BY DEF Grown_
<1>3. /\ Lo(g, e) \in Nat /\ Hi(g, e) \in Nat
  BY <1>1, Extents
<1>4. s0 \in Es(h) /\ s1 \in Es(h)
  BY <1>1
<1>5. Lo(h, s1) \in Nat
  BY <1>4, GrownExtents
<1>6. ASSUME NEW c \in 0..numElements * meshSize - 1
      PROVE  \E x \in Es(h) : isLeaf(h, x) /\ Lo(h, x) <= c /\ c < Hi(h, x)
  <2>1. PICK x \in Es(g) : isLeaf(g, x) /\ Lo(g, x) <= c /\ c < Hi(g, x)
    BY DEF Forest, Covered
  <2>2. c \in Int
    OBVIOUS
  <2>3. CASE x # e
    BY <2>1, <2>3, <1>1
  <2>4. CASE x = e
    <3>1. CASE s0 = s1
      BY <3>1, <2>1, <2>4, <1>1, <1>2, <1>4
    <3>2. CASE Hi(h, s0) = Lo(h, s1)
      <4>1. c < Lo(h, s1) \/ Lo(h, s1) <= c
        BY <2>2, <1>5
      <4>2. QED BY <4>1, <3>2, <2>1, <2>4, <1>1, <1>2, <1>4
    <3>3. QED BY <3>1, <3>2, <1>2
  <2>5. QED BY <2>3, <2>4
<1>7. QED BY <1>6 DEF Covered

(* A leaf gets sons: fathers know their sons. *)
LEMMA GrownFathers ==
  ASSUME NEW g, Forest(g), NEW h, NEW e, NEW s0, NEW s1, NEW u0, NEW u1, NEW m,
         Grown_(g, h, e, s0, s1, u0, u1, m)
  PROVE  Fathers(h)
<1>1. /\ e \in Es(g) /\ isLeaf(g, e) /\ level(e) \in Nat /\ Es(h) = Es(g) \cup {s0, s1}
      /\ level(s0) = level(e) + 1 /\ level(s1) = level(e) + 1
      /\ h.element[e].sons = <<s0, s1>>
      /\ \A x \in Es(g) : /\ h.element[x].father = g.element[x].father
                          /\ x # e => h.element[x].sons = g.element[x].sons
      /\ \A s \in {s0, s1} : h.element[s].father = e
  BY DEF Grown_
<1>2. e # null
  BY <1>1, Basics DEF Forest
<1>3. ASSUME NEW x \in Es(g), NEW F, F = h.element[x].father
      PROVE  /\ (F = null) <=> (level(x) = 0)
             /\ F # null => level(F) = level(x) - 1 /\ (h.element[F].sons[1] = x \/ h.element[F].sons[2] = x)
  <2>1. /\ F = g.element[x].father
        /\ (F = null) <=> (level(x) = 0)
        /\ F # null => level(F) = level(x) - 1 /\ (g.element[F].sons[1] = x \/ g.element[F].sons[2] = x)
    BY <1>1, <1>3 DEF Forest, Fathers
  <2>2. x # null /\ F \in Es(g) \cup {null}
    BY <2>1, Basics DEF Forest
  <2>3. ASSUME F # null PROVE F # e
    <3>1. g.element[e].sons[1] = null /\ g.element[e].sons[2] = null
      BY <1>1, Basics DEF Forest
    <3>2. QED BY <3>1, <2>1, <2>2, <2>3
  <2>4. QED BY <2>1, <2>2, <2>3, <1>1
<1>4. ASSUME NEW x \in {s0, s1}, NEW F, F = h.element[x].father
      PROVE  /\ (F = null) <=> (level(x) = 0)
             /\ F # null => level(F) = level(x) - 1 /\ (h.element[F].sons[1] = x \/ h.element[F].sons[2] = x)
  <2>1. F = e /\ level(x) = level(e) + 1
    BY <1>1, <1>4
  <2>2. level(x) # 0 /\ level(F) = level(x) - 1
    BY <2>1, <1>1
  <2>3. h.element[F].sons[1] = x \/ h.element[F].sons[2] = x
    BY <2>1, <1>1
  <2>4. QED BY <2>1, <2>2, <2>3, <1>2
<1>5. QED BY <1>1, <1>3, <1>4 DEF Fathers

(* A leaf gets sons: sons know their fathers and have the copies of their  *)
(* vertices.                                                               *)
LEMMA GrownSons ==
  ASSUME NEW g, Forest(g), NEW h, NEW e, NEW s0, NEW s1, NEW u0, NEW u1, NEW m,
         Grown_(g, h, e, s0, s1, u0, u1, m)
  PROVE  SonsOf(h)
<1>1. /\ e \in Es(g) /\ Es(h) = Es(g) \cup {s0, s1}
      /\ isLeaf(h, s0) /\ isLeaf(h, s1)
      /\ h.element[e].sons = <<s0, s1>>
      /\ V0(h, s0) = u0 /\ V1(h, s1) = u1 /\ (s0 # s1 => V1(h, s0) = V0(h, s1))
      /\ \A s \in {s0, s1} : h.element[s].father = e
  BY DEF Grown_
<1>2. \A x \in Es(g) : /\ h.element[x].father = g.element[x].father
                       /\ V0(h, x) = V0(g, x) /\ V1(h, x) = V1(g, x)
                       /\ x # e => h.element[x].sons = g.element[x].sons
                       /\ isLeaf(h, x) <=> isLeaf(g, x) /\ x # e
  BY DEF Grown_
<1>3. /\ \A v \in Vs(g) : son(h, v) = IF v = V0(g, e) THEN u0 ELSE IF v = V1(g, e) THEN u1 ELSE son(g, v)
      /\ son(g, V0(g, e)) # null => son(g, V0(g, e)) = u0
      /\ son(g, V1(g, e)) # null => son(g, V1(g, e)) = u1
  BY DEF Grown_
<1>4. V0(g, e) # V1(g, e)
  <2>1. Lo(g, e) < Hi(g, e) /\ Lo(g, e) \in Nat /\ Hi(g, e) \in Nat
    BY <1>1, Extents
  <2>2. QED BY <2>1 DEF Lo, Hi
<1>5. \A v \in Vs(g) : son(g, v) # null => son(h, v) = son(g, v)
  BY <1>3
<1>6. \A x \in Es(g) : V0(g, x) \in Vs(g) /\ V1(g, x) \in Vs(g)
  BY Basics DEF Forest
<1>7. ASSUME NEW x \in Es(h), ~isLeaf(h, x), NEW t0, t0 = h.element[x].sons[1], NEW t1, t1 = h.element[x].sons[2]
      PROVE  /\ t0 \in Es(h) /\ t1 \in Es(h)
             /\ h.element[t0].father = x /\ h.element[t1].father = x
             /\ son(h, V0(h, x)) = V0(h, t0) /\ son(h, V1(h, x)) = V1(h, t1)
             /\ t0 # t1 => V1(h, t0) = V0(h, t1)
  <2>1. CASE x = e
    <3>1. t0 = s0 /\ t1 = s1
      BY <2>1, <1>1, <1>7
    <3>2. son(h, V0(h, e)) = u0 /\ son(h, V1(h, e)) = u1
      BY <1>1, <1>2, <1>3, <1>4, <1>6
    <3>3. QED BY <3>1, <3>2, <2>1, <1>1
  <2>2. CASE x # e
    <3>1. x \in Es(g) /\ ~isLeaf(g, x)
      BY <2>2, <1>1, <1>2, <1>7
    <3>2. t0 = g.element[x].sons[1] /\ t1 = g.element[x].sons[2]
      BY <3>1, <2>2, <1>2, <1>7
    <3>3. /\ t0 \in Es(g) /\ t1 \in Es(g)
          /\ g.element[t0].father = x /\ g.element[t1].father = x
          /\ son(g, V0(g, x)) = V0(g, t0) /\ son(g, V1(g, x)) = V1(g, t1)
          /\ t0 # t1 => V1(g, t0) = V0(g, t1)
      BY <3>1, <3>2 DEF Forest, SonsOf
    <3>4. son(g, V0(g, x)) # null /\ son(g, V1(g, x)) # null
      BY <3>1, SonOfEnd DEF Forest
    <3>5. son(h, V0(g, x)) = son(g, V0(g, x)) /\ son(h, V1(g, x)) = son(g, V1(g, x))
      BY <3>1, <3>4, <1>5, <1>6
    <3>6. QED BY <3>1, <3>3, <3>5, <1>1, <1>2
  <2>3. QED BY <2>1, <2>2
<1>8. QED BY <1>7 DEF SonsOf

(* A leaf gets sons: copies are at the points of their vertices. *)
LEMMA GrownCopies ==
  ASSUME NEW g, Forest(g), NEW h, NEW e, NEW s0, NEW s1, NEW u0, NEW u1, NEW m,
         Grown_(g, h, e, s0, s1, u0, u1, m)
  PROVE  Copies(h)
<1>1. /\ e \in Es(g) /\ Es(h) = Es(g) \cup {s0, s1}
      /\ \A x \in Es(g) : /\ V0(h, x) = V0(g, x) /\ V1(h, x) = V1(g, x)
                          /\ isLeaf(h, x) <=> isLeaf(g, x) /\ x # e
  BY GrownOld
<1>2. /\ \A v \in Vs(g) : /\ Pos(h, v) = Pos(g, v)
                          /\ son(h, v) = IF v = V0(g, e) THEN u0 ELSE IF v = V1(g, e) THEN u1 ELSE son(g, v)
      /\ \A v \in Vs(h) \ Vs(g) : son(h, v) = null
  BY DEF Grown_
<1>3. /\ level(u0) = level(e) + 1 /\ id(u0) = id(V0(g, e)) /\ Pos(h, u0) = Lo(g, e)
      /\ level(u1) = level(e) + 1 /\ id(u1) = id(V1(g, e)) /\ Pos(h, u1) = Hi(g, e)
  BY DEF Grown_
<1>4. /\ V0(g, e) \in Vs(g) /\ V1(g, e) \in Vs(g)
      /\ level(V0(g, e)) = level(e) /\ level(V1(g, e)) = level(e)
      /\ Pos(g, V0(g, e)) = Lo(g, e) /\ Pos(g, V1(g, e)) = Hi(g, e)
  BY <1>1, Basics, Positive DEF Forest, Lo, Hi
<1>5. ASSUME NEW v \in Vs(h), son(h, v) # null, NEW w, w = son(h, v)
      PROVE  /\ level(w) = level(v) + 1 /\ id(w) = id(v) /\ Pos(h, w) = Pos(h, v)
             /\ \E x \in Es(h) : ~isLeaf(h, x) /\ (V0(h, x) = v \/ V1(h, x) = v)
  <2>1. v \in Vs(g)
    BY <1>2, <1>5
  <2>2. CASE v = V0(g, e)
    BY <2>2, <1>1, <1>2, <1>3, <1>4, <1>5
  <2>3. CASE v = V1(g, e) /\ v # V0(g, e)
    BY <2>3, <1>1, <1>2, <1>3, <1>4, <1>5
  <2>4. CASE v # V1(g, e) /\ v # V0(g, e)
    <3>1. w = son(g, v) /\ w # null
      BY <2>1, <2>4, <1>2, <1>5
    <3>2. w \in Vs(g)
      BY <3>1, <2>1, Basics DEF Forest
    <3>3. /\ level(w) = level(v) + 1 /\ id(w) = id(v) /\ Pos(g, w) = Pos(g, v)
          /\ \E x \in Es(g) : ~isLeaf(g, x) /\ (V0(g, x) = v \/ V1(g, x) = v)
      BY <3>1, <2>1 DEF Forest, Copies
    <3>4. QED BY <3>2, <3>3, <2>1, <1>1, <1>2
  <2>5. QED BY <2>2, <2>3, <2>4
<1>6. QED BY <1>5 DEF Copies

(* A leaf gets sons: vertices have one id exactly if they are at one       *)
(* point.                                                                  *)
LEMMA GrownVertexIds ==
  ASSUME NEW g, Forest(g), NEW h, NEW e, NEW s0, NEW s1, NEW u0, NEW u1, NEW m,
         Grown_(g, h, e, s0, s1, u0, u1, m)
  PROVE  /\ \A v \in Vs(h) : id(v) < h.freeVertexId
         /\ \A v, w \in Vs(h) : (id(v) = id(w)) <=> (Pos(h, v) = Pos(h, w))
<1> DEFINE Known(v) == \E r \in Vs(g) : id(v) = id(r) /\ Pos(h, v) = Pos(g, r)
           Fresh(v) == /\ v = m /\ id(v) = g.freeVertexId /\ h.freeVertexId = g.freeVertexId + 1
                       /\ Lo(g, e) < Pos(h, v) /\ Pos(h, v) < Hi(g, e)
<1>1. /\ e \in Es(g) /\ isLeaf(g, e) /\ Vs(h) = Vs(g) \cup {u0, u1, m}
      /\ id(u0) = id(V0(g, e)) /\ Pos(h, u0) = Lo(g, e)
      /\ id(u1) = id(V1(g, e)) /\ Pos(h, u1) = Hi(g, e)
      /\ \A v \in Vs(g) : Pos(h, v) = Pos(g, v)
  BY DEF Grown_
<1>2. V0(g, e) \in Vs(g) /\ V1(g, e) \in Vs(g) /\ g.freeVertexId \in Int
  BY <1>1, Basics DEF Forest, Typed
<1>3. m = u0 \/ Fresh(m)
  BY DEF Grown_
<1>4. \A v \in Vs(h) : Known(v) \/ Fresh(v)
  BY <1>1, <1>2, <1>3 DEF Lo, Hi
<1>5. \A r \in Vs(g) : id(r) < g.freeVertexId /\ id(r) \in Int
  BY Basics DEF Forest, Ids
<1>6. h.freeVertexId = g.freeVertexId \/ h.freeVertexId = g.freeVertexId + 1
  BY DEF Grown_
<1>7. \A v \in Vs(h) : id(v) < h.freeVertexId
  BY <1>2, <1>4, <1>5, <1>6
<1>8. ASSUME NEW v \in Vs(h), NEW w \in Vs(h), Fresh(v), Known(w)
      PROVE  id(v) # id(w) /\ Pos(h, v) # Pos(h, w)
  <2>1. PICK r \in Vs(g) : id(w) = id(r) /\ Pos(h, w) = Pos(g, r)
    BY <1>8
  <2>2. id(v) # id(w)
    BY <2>1, <1>5, <1>8, <1>2
  <2>3. ~(Lo(g, e) < Pos(g, r) /\ Pos(g, r) < Hi(g, e))
    BY <1>1, NoVertexInside DEF Forest
  <2>4. QED BY <2>1, <2>2, <2>3, <1>8
<1>9. ASSUME NEW v \in Vs(h), NEW w \in Vs(h), Known(v), Known(w)
      PROVE  (id(v) = id(w)) <=> (Pos(h, v) = Pos(h, w))
  BY <1>9 DEF Forest, Ids
<1>10. \A v, w \in Vs(h) : (id(v) = id(w)) <=> (Pos(h, v) = Pos(h, w))
  <2> TAKE v, w \in Vs(h)
  <2> HIDE DEF Known
  <2>1. CASE Known(v) /\ Known(w)
    BY <2>1, <1>9
  <2>2. CASE Fresh(v) /\ Fresh(w)
    BY <2>2
  <2>3. CASE Fresh(v) /\ Known(w)
    BY <2>3, <1>8
  <2>4. CASE Fresh(w) /\ Known(v)
    BY <2>4, <1>8
  <2>5. QED BY <2>1, <2>2, <2>3, <2>4, <1>4
<1>11. QED BY <1>7, <1>10

(* A leaf gets sons: elements have one id exactly if they have the same    *)
(* ends.                                                                   *)
LEMMA GrownElementIds ==
  ASSUME NEW g, Forest(g), NEW h, NEW e, NEW s0, NEW s1, NEW u0, NEW u1, NEW m,
         Grown_(g, h, e, s0, s1, u0, u1, m)
  PROVE  /\ \A x \in Es(h) : id(x) < h.freeElementId
         /\ \A x, y \in Es(h) : (id(x) = id(y)) <=> (Lo(h, x) = Lo(h, y) /\ Hi(h, x) = Hi(h, y))
<1> DEFINE Known(x) == \E r \in Es(g) : id(x) = id(r) /\ Lo(h, x) = Lo(g, r) /\ Hi(h, x) = Hi(g, r)
           Halves == /\ s0 # s1 /\ h.freeElementId = g.freeElementId + 2
                     /\ id(s0) = g.freeElementId /\ id(s1) = g.freeElementId + 1
                     /\ Hi(h, s0) = Pos(h, m) /\ Lo(h, s1) = Pos(h, m)
                     /\ Lo(h, s0) = Lo(g, e) /\ Hi(h, s1) = Hi(g, e)
                     /\ Lo(g, e) < Pos(h, m) /\ Pos(h, m) < Hi(g, e)
           Fresh(x) == x \in {s0, s1} /\ Halves
<1>1. /\ e \in Es(g) /\ isLeaf(g, e) /\ Es(h) = Es(g) \cup {s0, s1}
      /\ \A x \in Es(g) : Lo(h, x) = Lo(g, x) /\ Hi(h, x) = Hi(g, x)
      /\ Lo(h, s0) = Lo(g, e) /\ Hi(h, s1) = Hi(g, e)
  BY DEF Grown_
<1>2. \/ Halves
      \/ s0 = s1 /\ id(s0) = id(e) /\ h.freeElementId = g.freeElementId
  <2>1. CASE s0 # s1
    <3>1. /\ V1(h, s0) = m /\ V0(h, s1) = m
          /\ id(s0) = g.freeElementId /\ id(s1) = g.freeElementId + 1
          /\ Lo(g, e) < Pos(h, m) /\ Pos(h, m) < Hi(g, e)
          /\ h.freeElementId = g.freeElementId + 2
      BY <2>1 DEF Grown_
    <3>2. Hi(h, s0) = Pos(h, m) /\ Lo(h, s1) = Pos(h, m)
      BY <3>1 DEF Lo, Hi
    <3>3. QED BY <3>1, <3>2, <2>1, <1>1
  <2>2. CASE s0 = s1
    BY <2>2 DEF Grown_
  <2>3. QED BY <2>1, <2>2
<1>3. g.freeElementId \in Int
  BY DEF Forest, Typed
<1>4. \A x \in Es(h) : Known(x) \/ Fresh(x)
  BY <1>1, <1>2
<1>5. \A r \in Es(g) : id(r) < g.freeElementId /\ id(r) \in Int
  BY Basics DEF Forest, Ids
<1> HIDE DEF Halves
<1>6. ASSUME NEW x \in Es(h) PROVE id(x) < h.freeElementId
  <2>1. CASE Known(x)
    <3>1. PICK r \in Es(g) : id(x) = id(r)
      BY <2>1
    <3>2. h.freeElementId = g.freeElementId \/ h.freeElementId = g.freeElementId + 2
      BY <1>2 DEF Halves
    <3>3. QED BY <3>1, <3>2, <1>3, <1>5
  <2>2. CASE Fresh(x)
    BY <2>2, <1>3 DEF Halves
  <2>3. QED BY <2>1, <2>2, <1>4
<1>7. ASSUME NEW x \in Es(h), NEW y \in Es(h), Fresh(x), Known(y)
      PROVE  id(x) # id(y) /\ ~(Lo(h, x) = Lo(h, y) /\ Hi(h, x) = Hi(h, y))
  <2>1. PICK r \in Es(g) : id(y) = id(r) /\ Lo(h, y) = Lo(g, r) /\ Hi(h, y) = Hi(g, r)
    BY <1>7
  <2>2. id(x) # id(y)
    BY <2>1, <1>3, <1>5, <1>7 DEF Halves
  <2>3. V0(g, r) \in Vs(g) /\ V1(g, r) \in Vs(g)
    BY Basics DEF Forest
  <2>4. ~(Lo(g, e) < Lo(g, r) /\ Lo(g, r) < Hi(g, e))
    BY <1>1, <2>3, NoVertexInside DEF Forest, Lo
  <2>5. ~(Lo(g, e) < Hi(g, r) /\ Hi(g, r) < Hi(g, e))
    BY <1>1, <2>3, NoVertexInside DEF Forest, Hi, Lo
  <2>6. QED BY <2>1, <2>2, <2>4, <2>5, <1>7 DEF Halves
<1>8. ASSUME NEW x \in Es(h), NEW y \in Es(h), Known(x), Known(y)
      PROVE  (id(x) = id(y)) <=> (Lo(h, x) = Lo(h, y) /\ Hi(h, x) = Hi(h, y))
  BY <1>8 DEF Forest, Ids
<1>9. ASSUME NEW x, NEW y, Fresh(x), Fresh(y)
      PROVE  (id(x) = id(y)) <=> (Lo(h, x) = Lo(h, y) /\ Hi(h, x) = Hi(h, y))
  <2>1. Lo(g, e) \in Nat /\ Hi(g, e) \in Nat
    BY <1>1, Extents
  <2>2. CASE x = y
    BY <2>2
  <2>3. CASE x # y
    BY <2>1, <2>3, <1>9, <1>3 DEF Halves
  <2>4. QED BY <2>2, <2>3
<1>10. \A x, y \in Es(h) : (id(x) = id(y)) <=> (Lo(h, x) = Lo(h, y) /\ Hi(h, x) = Hi(h, y))
  <2> TAKE x, y \in Es(h)
  <2> HIDE DEF Known, Fresh
  <2>1. CASE Known(x) /\ Known(y)
    BY <2>1, <1>8
  <2>2. CASE Fresh(x) /\ Fresh(y)
    BY <2>2, <1>9
  <2>3. CASE Fresh(x) /\ Known(y)
    BY <2>3, <1>7
  <2>4. CASE Fresh(y) /\ Known(x)
    <3>1. id(y) # id(x) /\ ~(Lo(h, y) = Lo(h, x) /\ Hi(h, y) = Hi(h, x))
      BY <2>4, <1>7
    <3>2. QED BY <3>1
  <2>5. QED BY <2>1, <2>2, <2>3, <2>4, <1>4
<1>11. QED BY <1>6, <1>10

(* A leaf gets sons: no element of the last level allowed is marked. *)
LEMMA GrownMarks ==
  ASSUME NEW g, Forest(g), NEW h, NEW e, NEW s0, NEW s1, NEW u0, NEW u1, NEW m,
         Grown_(g, h, e, s0, s1, u0, u1, m)
  PROVE  Marks(h)
<1>1. /\ Es(h) = Es(g) \cup {s0, s1}
      /\ \A x \in Es(g) : h.element[x].markState = g.element[x].markState
      /\ \A s \in {s0, s1} : h.element[s].markState = "DO_NOTHING"
  BY DEF Grown_
<1>2. QED BY <1>1 DEF Forest, Marks

(* A leaf gets sons: every element has the flag of the grid. *)
LEMMA GrownFlags ==
  ASSUME NEW g, Forest(g), NEW h, NEW e, NEW s0, NEW s1, NEW u0, NEW u1, NEW m,
         Grown_(g, h, e, s0, s1, u0, u1, m)
  PROVE  Flags(h)
<1>1. /\ Es(h) = Es(g) \cup {s0, s1} /\ h.reversed = g.reversed
      /\ \A x \in Es(g) : h.element[x].reversed = g.element[x].reversed
      /\ \A s \in {s0, s1} : h.element[s].reversed = g.reversed
  BY DEF Grown_
<1>2. QED BY <1>1 DEF Forest, Flags

(* A forest that has grown is a forest. *)
LEMMA GrownForest ==
  ASSUME NEW g, Forest(g), NEW h, NEW e, NEW s0, NEW s1, NEW u0, NEW u1, NEW m,
         Grown_(g, h, e, s0, s1, u0, u1, m)
  PROVE  Forest(h)
<1>1. Typed(h)
  BY DEF Grown_
<1>2. Sized(h) /\ Nested(h) /\ AllEnds(h) /\ Covered(h)
  BY GrownSized, GrownNested, GrownEnds, GrownCovered
<1>3. Fathers(h) /\ SonsOf(h) /\ Copies(h) /\ Marks(h) /\ Flags(h)
  BY GrownFathers, GrownSons, GrownCopies, GrownMarks, GrownFlags
<1>4. Ids(h)
  BY GrownVertexIds, GrownElementIds DEF Ids
<1>5. QED BY <1>1, <1>2, <1>3, <1>4 DEF Forest

(* While the leaf is refined: k is g with vertices added to the level i. *)
Stage(g, k, i) ==
  /\ Shape(k) /\ k.elements = g.elements /\ k.element = g.element
  /\ k.reversed = g.reversed /\ k.failed = g.failed /\ k.freeElementId = g.freeElementId
  /\ DOMAIN k.vertices = DOMAIN g.vertices
  /\ \A j \in DOMAIN g.vertices \ {i} : k.vertices[j] = g.vertices[j]
  /\ k.vertex = [v \in Vs(k) |-> k.vertex[v]]
  /\ \A v \in Vs(k) : k.vertex[v] = [pos |-> Pos(k, v), son |-> son(k, v)] /\ Pos(k, v) \in Int
  /\ \A v \in Vs(g) : v \in Vs(k) /\ Pos(k, v) = Pos(g, v)
  /\ Listed(k.vertices[i], PosAt(k, i))

(* On the way, the vertices of the level of the sons are in order. *)
LEMMA StagePlaces ==
  ASSUME NEW g, NEW k, NEW i, Stage(g, k, i)
  PROVE  /\ Listed(k.vertices[i], PosAt(k, i)) /\ Numbering(PosAt(k, i))
         /\ \A v : v \in DOMAIN PosAt(k, i) <=> v \in Vs(k) /\ level(v) = i
         /\ \A v \in Vs(k) : level(v) = i => PosAt(k, i)[v] = Pos(k, v)
<1>1. \A v : v \in DOMAIN PosAt(k, i) <=> v \in Vs(k) /\ level(v) = i
  BY DEF PosAt
<1>2. \A v \in Vs(k) : level(v) = i => PosAt(k, i)[v] = Pos(k, v)
  BY DEF PosAt
<1>3. \A v \in Vs(k) : Pos(k, v) \in Int
  BY DEF Stage
<1> DEFINE f == PosAt(k, i)
<1>5. \A v : v \in DOMAIN f => f[v] \in Int
  BY <1>1, <1>2, <1>3
<1>6. Numbering(f)
  BY <1>5 DEF Numbering
<1>4. QED BY <1>1, <1>2, <1>6 DEF Stage

(* The grid before is a stage on the way. *)
LEMMA FirstStage ==
  ASSUME NEW g, WF(g), NEW i \in 0..maxLevel(g)
  PROVE  Stage(g, g, i)
<1>1. Shape(g) /\ g.vertex \in [Vs(g) -> VertexType(Vs(g))]
  BY DEF WF, Forest, Typed
<1>2. \A v \in Vs(g) : g.vertex[v] = [pos |-> Pos(g, v), son |-> son(g, v)] /\ Pos(g, v) \in Int
  <2> TAKE v \in Vs(g)
  <2>1. g.vertex[v] \in VertexType(Vs(g))
    BY <1>1
  <2>2. QED BY <2>1 DEF VertexType, Pos, son
<1>3. Listed(g.vertices[i], PosAt(g, i))
  BY DEF WF, Lists
<1>4. g.vertex = [v \in Vs(g) |-> g.vertex[v]]
  BY <1>1
<1>5. QED BY <1>1, <1>2, <1>3, <1>4 DEF Stage

(* The fields of the grid with a new vertex. *)
LEMMA VertexFields ==
  ASSUME NEW k, Shape(k), NEW z, NEW p, NEW x, NEW h, h = WithVertex(k, z, p, x)
  PROVE  /\ Shape(h) /\ h.elements = k.elements /\ h.element = k.element
         /\ h.reversed = k.reversed /\ h.failed = k.failed
         /\ h.freeElementId = k.freeElementId /\ h.freeVertexId = k.freeVertexId
         /\ h.vertices = [k.vertices EXCEPT ![level(z)] = insert(k.vertices[level(z)], x, z)]
         /\ h.vertex = With(k.vertex, z, [pos |-> p, son |-> null])
<1> DEFINE a == [k.vertices EXCEPT ![level(z)] = insert(k.vertices[level(z)], x, z)]
           b == With(k.vertex, z, [pos |-> p, son |-> null])
<1>2. h = [k EXCEPT !.vertices = a, !.vertex = b]
  BY DEF WithVertex
<1> HIDE DEF a, b
<1>3. /\ Shape(h) /\ h.elements = k.elements /\ h.element = k.element
      /\ h.reversed = k.reversed /\ h.failed = k.failed
      /\ h.freeElementId = k.freeElementId /\ h.freeVertexId = k.freeVertexId
      /\ h.vertices = a /\ h.vertex = b
  BY <1>2 DEF Shape
<1>4. QED BY <1>3 DEF a, b

(* A vertex in the right place gives another stage. *)
LEMMA StageVertex ==
  ASSUME NEW g, NEW k, NEW i \in DOMAIN g.vertices, Stage(g, k, i), NEW z, level(z) = i, z \notin Vs(k),
         NEW p \in Int, NEW x, PlaceFor(PosAt(k, i), x, p),
         NEW h, h = WithVertex(k, z, p, x)
  PROVE  /\ Stage(g, h, i) /\ Vs(h) = Vs(k) \cup {z} /\ h.freeVertexId = k.freeVertexId
         /\ h.vertex[z] = [pos |-> p, son |-> null]
         /\ \A v \in Vs(k) : h.vertex[v] = k.vertex[v]
<1>1. /\ Shape(h) /\ h.elements = k.elements /\ h.element = k.element
      /\ h.reversed = k.reversed /\ h.failed = k.failed
      /\ h.freeElementId = k.freeElementId /\ h.freeVertexId = k.freeVertexId
      /\ h.vertices = [k.vertices EXCEPT ![i] = insert(k.vertices[i], x, z)]
      /\ h.vertex = With(k.vertex, z, [pos |-> p, son |-> null])
  BY VertexFields DEF Stage
<1>2. /\ Vs(h) = Vs(k) \cup {z} /\ h.vertex[z] = [pos |-> p, son |-> null]
      /\ \A v \in Vs(k) : h.vertex[v] = k.vertex[v]
      /\ h.vertex = [v \in Vs(h) |-> h.vertex[v]]
  BY <1>1 DEF With, Vs
<1>3. \A v \in Vs(h) : h.vertex[v] = [pos |-> Pos(h, v), son |-> son(h, v)] /\ Pos(h, v) \in Int
  <2>1. h.vertex[z] = [pos |-> Pos(h, z), son |-> son(h, z)] /\ Pos(h, z) \in Int
    BY <1>2 DEF Pos, son
  <2>2. ASSUME NEW v \in Vs(k)
        PROVE  h.vertex[v] = [pos |-> Pos(h, v), son |-> son(h, v)] /\ Pos(h, v) \in Int
    <3>1. k.vertex[v] = [pos |-> Pos(k, v), son |-> son(k, v)] /\ Pos(k, v) \in Int
      BY DEF Stage
    <3>2. h.vertex[v] = k.vertex[v]
      BY <1>2
    <3>3. Pos(h, v) = Pos(k, v) /\ son(h, v) = son(k, v)
      BY <3>2 DEF Pos, son
    <3>4. QED BY <3>1, <3>2, <3>3
  <2>3. QED BY <2>1, <2>2, <1>2
<1>4. \A v \in Vs(g) : v \in Vs(h) /\ Pos(h, v) = Pos(g, v)
  BY <1>2 DEF Stage, Pos
<1>5. /\ DOMAIN h.vertices = DOMAIN g.vertices /\ h.vertices[i] = insert(k.vertices[i], x, z)
      /\ \A j \in DOMAIN g.vertices \ {i} : h.vertices[j] = g.vertices[j]
  BY <1>1 DEF Stage
<1> DEFINE f == PosAt(k, i)
<1>6. Listed(k.vertices[i], f) /\ Numbering(f) /\ z \notin DOMAIN f
  BY StagePlaces
<1>7. With(f, z, p) = PosAt(h, i)
  <2>1. {v \in Vs(h) : level(v) = i} = {v \in Vs(k) : level(v) = i} \cup {z}
    BY <1>2
  <2>2. \A v \in {v \in Vs(h) : level(v) = i} : Pos(h, v) = IF v = z THEN p ELSE Pos(k, v)
    BY <1>2 DEF Pos
  <2>3. QED BY <2>1, <2>2 DEF With, PosAt
<1>8. PlaceFor(f, x, p)
  OBVIOUS
<1> HIDE DEF f
<1>9. Listed(insert(k.vertices[i], x, z), With(f, z, p))
  BY <1>6, <1>8, InsertListed
<1>10. Listed(h.vertices[i], PosAt(h, i))
  BY <1>5, <1>7, <1>9
<1>11. QED BY <1>1, <1>2, <1>3, <1>4, <1>5, <1>10 DEF Stage

(* The copy of v, found or made. *)
LEMMA StageUpper ==
  ASSUME NEW g, NEW k, NEW i \in DOMAIN g.vertices, Stage(g, k, i),
         NEW v \in Vs(k), level(v) # i, level(v) + 1 = i, NEW u, u = <<level(v) + 1, id(v)>>,
         NEW found, NEW x,
         \/ found = null /\ u \notin Vs(k) /\ PlaceFor(PosAt(k, i), x, Pos(k, v))
         \/ found = u /\ u # null /\ u \in Vs(k),
         NEW h, h = WithUpper(k, v, found, x)
  PROVE  /\ Stage(g, h, i) /\ Vs(h) = Vs(k) \cup {u} /\ h.freeVertexId = k.freeVertexId
         /\ u \notin Vs(k) => h.vertex[u] = [pos |-> Pos(k, v), son |-> null]
         /\ h.vertex[v] = [pos |-> Pos(k, v), son |-> u]
         /\ \A w \in Vs(k) : w # v => h.vertex[w] = k.vertex[w]
<1> DEFINE l == IF found = null THEN WithVertex(k, u, Pos(k, v), x) ELSE k
<1>1. h = [l EXCEPT !.vertex[v].son = u]
  BY DEF WithUpper, Pos
<1>2. Pos(k, v) \in Int /\ level(u) = i
  BY DEF Stage, level
<1>3. u # v
  BY <1>2
<1>4. /\ Stage(g, l, i) /\ Vs(l) = Vs(k) \cup {u} /\ l.freeVertexId = k.freeVertexId
      /\ u \notin Vs(k) => l.vertex[u] = [pos |-> Pos(k, v), son |-> null]
      /\ \A w \in Vs(k) : l.vertex[w] = k.vertex[w]
  <2>1. CASE found = null
    <3>1. l = WithVertex(k, u, Pos(k, v), x)
      BY <2>1
    <3>2. u \notin Vs(k) /\ PlaceFor(PosAt(k, i), x, Pos(k, v))
      BY <2>1
    <3> HIDE DEF l
    <3>3. QED BY <3>1, <3>2, <1>2, StageVertex
  <2>2. CASE found # null
    <3>1. l = k /\ u \in Vs(k)
      BY <2>2
    <3>2. QED BY <3>1
  <2>3. QED BY <2>1, <2>2
<1> HIDE DEF l
<1> DEFINE f == [l.vertex EXCEPT ![v] = [l.vertex[v] EXCEPT !.son = u]]
<1>5. /\ Shape(h) /\ h.elements = l.elements /\ h.element = l.element
      /\ h.reversed = l.reversed /\ h.failed = l.failed
      /\ h.freeElementId = l.freeElementId /\ h.freeVertexId = l.freeVertexId
      /\ h.vertices = l.vertices /\ h.vertex = f
  <2>1. h = [l EXCEPT !.vertex = f]
    BY <1>1
  <2>2. Shape(l)
    BY <1>4 DEF Stage
  <2> HIDE DEF f
  <2>3. QED BY <2>1, <2>2 DEF Shape
<1>6. l.vertex[v] = [pos |-> Pos(k, v), son |-> son(k, v)]
  <2>1. l.vertex[v] = k.vertex[v]
    BY <1>4
  <2>2. QED BY <2>1 DEF Stage
<1>7. Vs(h) = Vs(l) /\ h.vertex = [w \in Vs(h) |-> h.vertex[w]]
  <2>1. l.vertex = [w \in Vs(l) |-> l.vertex[w]]
    BY <1>4 DEF Stage
  <2>2. QED BY <2>1, <1>5 DEF Vs
<1>8. h.vertex[v] = [pos |-> Pos(k, v), son |-> u]
  <2>1. v \in DOMAIN l.vertex
    BY <1>4 DEF Vs
  <2>2. h.vertex[v] = [l.vertex[v] EXCEPT !.son = u]
    BY <2>1, <1>5
  <2>3. QED BY <2>2, <1>6
<1>9. \A w \in Vs(l) : w # v => h.vertex[w] = l.vertex[w]
  BY <1>5
<1>10. \A w \in Vs(h) : Pos(h, w) = Pos(l, w)
  <2>1. Pos(h, v) = Pos(l, v)
    BY <1>6, <1>8 DEF Pos
  <2>2. \A w \in Vs(h) : w # v => Pos(h, w) = Pos(l, w)
    BY <1>7, <1>9 DEF Pos
  <2>3. QED BY <2>1, <2>2
<1>11. \A w \in Vs(h) : h.vertex[w] = [pos |-> Pos(h, w), son |-> son(h, w)] /\ Pos(h, w) \in Int
  <2>1. Pos(h, v) = Pos(k, v) /\ son(h, v) = u
    BY <1>8 DEF Pos, son
  <2>2. ASSUME NEW w \in Vs(h), w # v
        PROVE  h.vertex[w] = [pos |-> Pos(h, w), son |-> son(h, w)] /\ Pos(h, w) \in Int
    <3>1. h.vertex[w] = l.vertex[w] /\ w \in Vs(l)
      BY <2>2, <1>7, <1>9
    <3>2. l.vertex[w] = [pos |-> Pos(l, w), son |-> son(l, w)] /\ Pos(l, w) \in Int
      BY <3>1, <1>4 DEF Stage
    <3>3. Pos(h, w) = Pos(l, w) /\ son(h, w) = son(l, w)
      BY <3>1 DEF Pos, son
    <3>4. QED BY <3>1, <3>2, <3>3
  <2>3. QED BY <2>1, <2>2, <1>8, <1>2
<1>12. PosAt(h, i) = PosAt(l, i)
  <2>1. {w \in Vs(h) : level(w) = i} = {w \in Vs(l) : level(w) = i}
    BY <1>7
  <2>2. QED BY <2>1, <1>10 DEF PosAt
<1>13. \A w \in Vs(g) : w \in Vs(h) /\ Pos(h, w) = Pos(g, w)
  BY <1>4, <1>7, <1>10 DEF Stage
<1>14. Stage(g, h, i)
  <2>1. /\ l.elements = g.elements /\ l.element = g.element
        /\ l.reversed = g.reversed /\ l.failed = g.failed /\ l.freeElementId = g.freeElementId
        /\ DOMAIN l.vertices = DOMAIN g.vertices
        /\ \A j \in DOMAIN g.vertices \ {i} : l.vertices[j] = g.vertices[j]
        /\ Listed(l.vertices[i], PosAt(l, i))
    BY <1>4 DEF Stage
  <2>2. Listed(h.vertices[i], PosAt(h, i))
    BY <2>1, <1>5, <1>12
  <2>3. QED BY <2>1, <2>2, <1>5, <1>7, <1>11, <1>13 DEF Stage
<1>15. u \notin Vs(k) => h.vertex[u] = [pos |-> Pos(k, v), son |-> null]
  BY <1>3, <1>4, <1>9
<1>16. \A w \in Vs(k) : w # v => h.vertex[w] = k.vertex[w]
  BY <1>4, <1>9
<1>17. QED BY <1>4, <1>5, <1>7, <1>8, <1>14, <1>15, <1>16

(* The follower is what comes next. *)
LEMMA FollowerIs ==
  ASSUME NEW f, Numbering(f), NEW x \in DOMAIN f, NEW z \in DOMAIN f, f[x] < f[z],
         \A w \in DOMAIN f : ~(f[x] < f[w] /\ f[w] < f[z]),
         \A w \in DOMAIN f : f[w] = f[z] => w = z,
         NEW y, Follower(f, x, y)
  PROVE  y = z
<1>1. f[x] \in Int /\ f[z] \in Int /\ \A w \in DOMAIN f : f[w] \in Int
  BY DEF Numbering
<1>2. y \in DOMAIN f /\ f[y] > f[x] /\ \A w \in DOMAIN f : f[w] < f[y] => f[w] <= f[x]
  BY <1>1 DEF Follower
<1>3. f[y] = f[z]
  BY <1>1, <1>2
<1>4. QED BY <1>2, <1>3

(* Between x and what follows it there is place. *)
LEMMA PlaceBehind ==
  ASSUME NEW f, Numbering(f), null \notin DOMAIN f, NEW x \in DOMAIN f, NEW p \in Int, f[x] < p,
         \A w \in DOMAIN f : f[w] <= f[x] \/ f[w] > p,
         NEW y, Follower(f, x, y)
  PROVE  PlaceFor(f, y, p)
<1>1. f[x] \in Int /\ \A w \in DOMAIN f : f[w] \in Int
  BY DEF Numbering
<1>2. CASE y = null /\ \A z \in DOMAIN f : f[z] <= f[x]
  BY <1>1, <1>2 DEF PlaceFor
<1>3. CASE y \in DOMAIN f /\ f[y] > f[x] /\ \A z \in DOMAIN f : f[z] < f[y] => f[z] <= f[x]
  <2>1. f[y] > p
    BY <1>1, <1>3
  <2>2. \A z \in DOMAIN f : f[z] < f[y] => f[z] < p
    BY <1>1, <1>3
  <2>3. QED BY <2>1, <2>2, <1>3 DEF PlaceFor
<1>4. QED BY <1>2, <1>3 DEF Follower

(* The vertices on the level above the leaf e lie beside it. *)
LEMMA Beside ==
  ASSUME NEW g, WF(g), NEW e \in Es(g), isLeaf(g, e), level(e) < maxLevel(g),
         NEW w \in Vs(g), level(w) = level(e) + 1
  PROVE  /\ Pos(g, w) <= Lo(g, e) \/ Pos(g, w) >= Hi(g, e)
         /\ son(g, V0(g, e)) = null => Pos(g, w) # Lo(g, e)
         /\ son(g, V1(g, e)) = null => Pos(g, w) # Hi(g, e)
<1>1. Forest(g)
  BY DEF WF
<1>2. /\ V0(g, e) \in Vs(g) /\ V1(g, e) \in Vs(g) /\ level(V0(g, e)) = level(e) /\ level(V1(g, e)) = level(e)
      /\ Pos(g, V0(g, e)) = Lo(g, e) /\ Pos(g, V1(g, e)) = Hi(g, e)
      /\ Pos(g, w) \in Nat /\ Lo(g, e) \in Nat /\ Hi(g, e) \in Nat
  BY <1>1, Basics, Positive DEF Forest, Lo, Hi
<1>3. ~(Lo(g, e) < Pos(g, w) /\ Pos(g, w) < Hi(g, e))
  BY <1>1, NoVertexInside DEF Forest
<1>4. QED BY <1>1, <1>2, <1>3, NoCopyAt

(* The names in the proofs. *)
Leaf(g, e, i, u0, u1) ==
  /\ WF(g) /\ e \in Es(g) /\ isLeaf(g, e) /\ level(e) < maxLevel(g) /\ i = level(e) + 1
  /\ u0 = Upper(g, V0(g, e)) /\ u1 = Upper(g, V1(g, e))

(* A leaf below the top level, its ends and their copies. *)
LEMMA LeafFacts ==
  ASSUME NEW g, NEW e, NEW i, NEW u0, NEW u1, Leaf(g, e, i, u0, u1)
  PROVE  /\ i \in 0..maxLevel(g) /\ i \in Nat /\ i \in DOMAIN g.vertices /\ i \in DOMAIN g.elements
         /\ V0(g, e) \in Vs(g) /\ V1(g, e) \in Vs(g) /\ V0(g, e) # V1(g, e)
         /\ level(V0(g, e)) + 1 = i /\ level(V0(g, e)) # i /\ level(V1(g, e)) + 1 = i /\ level(V1(g, e)) # i
         /\ Pos(g, V0(g, e)) = Lo(g, e) /\ Pos(g, V1(g, e)) = Hi(g, e)
         /\ Lo(g, e) \in Nat /\ Hi(g, e) \in Nat /\ Lo(g, e) < Hi(g, e)
         /\ u0 = <<level(V0(g, e)) + 1, id(V0(g, e))>> /\ u1 = <<level(V1(g, e)) + 1, id(V1(g, e))>>
         /\ u0 # null /\ u1 # null /\ level(u0) = i /\ level(u1) = i /\ u0 # u1
         /\ id(u0) = id(V0(g, e)) /\ id(u1) = id(V1(g, e)) /\ u0 \notin {V0(g, e), V1(g, e)}
         /\ u0 \in Vs(g) <=> son(g, V0(g, e)) # null
         /\ u1 \in Vs(g) <=> son(g, V1(g, e)) # null
         /\ son(g, V0(g, e)) # null => son(g, V0(g, e)) = u0
         /\ son(g, V1(g, e)) # null => son(g, V1(g, e)) = u1
         /\ u0 \in Vs(g) => Pos(g, u0) = Lo(g, e)
         /\ u1 \in Vs(g) => Pos(g, u1) = Hi(g, e)
<1>1. Forest(g) /\ e \in Es(g) /\ level(e) < maxLevel(g) /\ i = level(e) + 1
      /\ u0 = Upper(g, V0(g, e)) /\ u1 = Upper(g, V1(g, e))
  BY DEF Leaf, WF
<1>2. level(e) \in Nat /\ maxLevel(g) \in Nat
  BY <1>1, Basics DEF Forest
<1>3. i \in 0..maxLevel(g) /\ i \in Nat /\ level(e) # i
  BY <1>1, <1>2
<1>4. i \in DOMAIN g.vertices /\ i \in DOMAIN g.elements
  BY <1>1, <1>3 DEF Forest, Typed
<1>5. /\ V0(g, e) \in Vs(g) /\ V1(g, e) \in Vs(g)
      /\ level(V0(g, e)) = level(e) /\ level(V1(g, e)) = level(e)
      /\ Pos(g, V0(g, e)) = Lo(g, e) /\ Pos(g, V1(g, e)) = Hi(g, e)
      /\ Lo(g, e) \in Nat /\ Hi(g, e) \in Nat /\ Lo(g, e) < Hi(g, e)
  BY <1>1, Basics, Positive DEF Forest, Lo, Hi
<1>6. V0(g, e) # V1(g, e) /\ id(V0(g, e)) # id(V1(g, e))
  BY <1>1, <1>5 DEF Forest, Ids
<1>7. /\ level(u0) = i /\ id(u0) = id(V0(g, e)) /\ u0 = <<level(V0(g, e)) + 1, id(V0(g, e))>> /\ u0 # null
      /\ u0 \in Vs(g) <=> son(g, V0(g, e)) # null
      /\ u0 \in Vs(g) => Pos(g, u0) = Lo(g, e)
  BY <1>1, <1>5, UpperEnds
<1>8. /\ level(u1) = i /\ id(u1) = id(V1(g, e)) /\ u1 = <<level(V1(g, e)) + 1, id(V1(g, e))>> /\ u1 # null
      /\ u1 \in Vs(g) <=> son(g, V1(g, e)) # null
      /\ u1 \in Vs(g) => Pos(g, u1) = Hi(g, e)
  BY <1>1, <1>5, UpperEnds
<1>9. /\ son(g, V0(g, e)) # null => son(g, V0(g, e)) = u0
      /\ son(g, V1(g, e)) # null => son(g, V1(g, e)) = u1
  BY <1>1 DEF Upper
<1>10. u0 # u1 /\ u0 \notin {V0(g, e), V1(g, e)}
  BY <1>3, <1>5, <1>6, <1>7, <1>8
<1>11. QED BY <1>1, <1>3, <1>4, <1>5, <1>6, <1>7, <1>8, <1>9, <1>10

(* The left vertex of e has its copy. *)
LEMMA LeftStage ==
  ASSUME NEW g, NEW e, NEW i, NEW u0, NEW u1, Leaf(g, e, i, u0, u1), NEW h, h = WithLeft(g, e)
  PROVE  /\ Stage(g, h, i) /\ Vs(h) = Vs(g) \cup {u0} /\ h.freeVertexId = g.freeVertexId
         /\ u0 \notin Vs(g) => h.vertex[u0] = [pos |-> Lo(g, e), son |-> null]
         /\ h.vertex[V0(g, e)] = [pos |-> Lo(g, e), son |-> u0]
         /\ \A w \in Vs(g) : w # V0(g, e) => h.vertex[w] = g.vertex[w]
<1> DEFINE v == V0(g, e)
           found == getLeftUpperVertex(g, e)
           x == LeftPlace(g, e)
<1>1. WF(g) /\ e \in Es(g) /\ isLeaf(g, e) /\ level(e) < maxLevel(g) /\ i = level(e) + 1
  BY DEF Leaf
<1>2. /\ i \in DOMAIN g.vertices /\ i \in 0..maxLevel(g) /\ v \in Vs(g) /\ level(v) + 1 = i /\ level(v) # i
      /\ u0 = <<level(v) + 1, id(v)>> /\ u0 # null /\ Pos(g, v) = Lo(g, e)
      /\ u0 \in Vs(g) <=> son(g, v) # null
      /\ son(g, v) # null => son(g, v) = u0
  BY LeafFacts
<1>3. found = son(g, v)
  BY <1>1, LeftUpper
<1>4. Stage(g, g, i)
  BY <1>1, <1>2, FirstStage
<1>5. found = null => PlaceFor(PosAt(g, i), x, Pos(g, v))
  BY <1>1, <1>2, <1>3, LeftPlaceFits
<1>6. h = WithUpper(g, v, found, x)
  BY DEF WithLeft, V0
<1> HIDE DEF v, found, x
<1>7. \/ found = null /\ u0 \notin Vs(g) /\ PlaceFor(PosAt(g, i), x, Pos(g, v))
      \/ found = u0 /\ u0 # null /\ u0 \in Vs(g)
  BY <1>2, <1>3, <1>5
<1>8. /\ Stage(g, h, i) /\ Vs(h) = Vs(g) \cup {u0} /\ h.freeVertexId = g.freeVertexId
      /\ u0 \notin Vs(g) => h.vertex[u0] = [pos |-> Pos(g, v), son |-> null]
      /\ h.vertex[v] = [pos |-> Pos(g, v), son |-> u0]
      /\ \A w \in Vs(g) : w # v => h.vertex[w] = g.vertex[w]
  BY <1>2, <1>4, <1>6, <1>7, StageUpper
<1>9. QED BY <1>2, <1>8 DEF v

(* The right vertex of e gets its copy behind w. *)
LEMMA RightStage ==
  ASSUME NEW g, NEW e, NEW i, NEW u0, NEW u1, Leaf(g, e, i, u0, u1),
         NEW k, Stage(g, k, i), NEW w \in Vs(k), level(w) = i, Lo(g, e) <= Pos(k, w), Pos(k, w) < Hi(g, e),
         \A z \in Vs(k) : level(z) = i /\ z \notin Vs(g) => Pos(k, z) <= Pos(k, w),
         u1 \in Vs(k) => u1 \in Vs(g), null \notin Vs(k),
         NEW h, h = WithRight(k, e, w)
  PROVE  /\ Stage(g, h, i) /\ Vs(h) = Vs(k) \cup {u1} /\ h.freeVertexId = k.freeVertexId
         /\ u1 \notin Vs(k) => h.vertex[u1] = [pos |-> Hi(g, e), son |-> null]
         /\ h.vertex[V1(g, e)] = [pos |-> Hi(g, e), son |-> u1]
         /\ \A z \in Vs(k) : z # V1(g, e) => h.vertex[z] = k.vertex[z]
<1> DEFINE v == V1(g, e)
           found == getRightUpperVertex(k, e)
           x == succ(k.vertices[i], w)
           f == PosAt(k, i)
<1>1. WF(g) /\ e \in Es(g) /\ isLeaf(g, e) /\ level(e) < maxLevel(g) /\ i = level(e) + 1
  BY DEF Leaf
<1>2. /\ i \in DOMAIN g.vertices /\ v \in Vs(g) /\ level(v) + 1 = i /\ level(v) # i
      /\ u1 = <<level(v) + 1, id(v)>> /\ u1 # null /\ Pos(g, v) = Hi(g, e) /\ level(u1) = i
      /\ u1 \in Vs(g) <=> son(g, v) # null
      /\ son(g, v) # null => son(g, v) = u1
      /\ Lo(g, e) \in Nat /\ Hi(g, e) \in Nat
  BY LeafFacts
<1>3. v \in Vs(k) /\ Pos(k, v) = Hi(g, e) /\ \A z \in Vs(g) : z \in Vs(k) /\ Pos(k, z) = Pos(g, z)
  BY <1>2 DEF Stage
<1>4. found = son(g, v)
  <2>1. k.elements = g.elements /\ k.element = g.element
    BY DEF Stage
  <2>2. found = getRightUpperVertex(g, e)
    BY <2>1 DEF getRightUpperVertex, upperEnd, isLeaf
  <2>3. QED BY <2>2, <1>1, RightUpper
<1>5. h = WithUpper(k, v, found, x)
  <2>1. k.element = g.element
    BY DEF Stage
  <2>2. QED BY <2>1 DEF WithRight, V1
<1>6. /\ Listed(k.vertices[i], f) /\ Numbering(f)
      /\ \A z : z \in DOMAIN f <=> z \in Vs(k) /\ level(z) = i
      /\ \A z \in Vs(k) : level(z) = i => f[z] = Pos(k, z)
  BY StagePlaces
<1>7. \A z \in Vs(k) : Pos(k, z) \in Int
  BY DEF Stage
<1>8. found = null => PlaceFor(PosAt(k, i), x, Pos(k, v))
  <2> SUFFICES ASSUME found = null PROVE PlaceFor(f, x, Hi(g, e))
    BY <1>3
  <2>1. ASSUME NEW z \in Vs(k), level(z) = i PROVE Pos(k, z) <= Pos(k, w) \/ Pos(k, z) > Hi(g, e)
    <3>1. CASE z \notin Vs(g)
      BY <3>1, <2>1
    <3>2. CASE z \in Vs(g)
      <4>1. Pos(g, z) <= Lo(g, e) \/ Pos(g, z) >= Hi(g, e)
        BY <3>2, <2>1, <1>1, Beside
      <4>2. Pos(g, z) # Hi(g, e)
        BY <3>2, <2>1, <1>1, <1>4, Beside
      <4>3. QED BY <4>1, <4>2, <3>2, <1>2, <1>3, <1>7
    <3>3. QED BY <3>1, <3>2
  <2> HIDE DEF f
  <2>2. w \in DOMAIN f /\ f[w] = Pos(k, w) /\ null \notin DOMAIN f
    BY <1>6
  <2>3. Follower(f, w, x)
    BY <1>6, <2>2, SuccIsFollower
  <2> HIDE DEF x
  <2>4. \A z \in DOMAIN f : f[z] <= f[w] \/ f[z] > Hi(g, e)
    BY <2>1, <2>2, <1>6
  <2>5. f[w] < Hi(g, e) /\ Hi(g, e) \in Int
    BY <2>2, <1>2
  <2>6. QED BY <2>2, <2>3, <2>4, <2>5, <1>6, PlaceBehind
<1> HIDE DEF v, found, x, f
<1>9. \/ found = null /\ u1 \notin Vs(k) /\ PlaceFor(PosAt(k, i), x, Pos(k, v))
      \/ found = u1 /\ u1 # null /\ u1 \in Vs(k)
  BY <1>2, <1>3, <1>4, <1>8
<1>10. /\ Stage(g, h, i) /\ Vs(h) = Vs(k) \cup {u1} /\ h.freeVertexId = k.freeVertexId
       /\ u1 \notin Vs(k) => h.vertex[u1] = [pos |-> Pos(k, v), son |-> null]
       /\ h.vertex[v] = [pos |-> Pos(k, v), son |-> u1]
       /\ \A z \in Vs(k) : z # v => h.vertex[z] = k.vertex[z]
  BY <1>2, <1>3, <1>5, <1>9, StageUpper
<1>11. QED BY <1>3, <1>10 DEF v

(* The counter of ids does not matter to a stage. *)
LEMMA StageCounter ==
  ASSUME NEW g, NEW l, NEW i, Stage(g, l, i), NEW n, NEW h, h = [l EXCEPT !.freeVertexId = n]
  PROVE  /\ Stage(g, h, i) /\ Vs(h) = Vs(l) /\ h.vertex = l.vertex /\ h.vertices = l.vertices
         /\ h.freeVertexId = n
<1>1. Shape(l)
  BY DEF Stage
<1>2. /\ Shape(h) /\ h.elements = l.elements /\ h.element = l.element
      /\ h.reversed = l.reversed /\ h.failed = l.failed /\ h.freeElementId = l.freeElementId
      /\ h.vertices = l.vertices /\ h.vertex = l.vertex /\ h.freeVertexId = n
  BY <1>1 DEF Shape
<1>3. Vs(h) = Vs(l) /\ PosAt(h, i) = PosAt(l, i)
  BY <1>2 DEF Vs, PosAt, Pos
<1>4. \A v : Pos(h, v) = Pos(l, v) /\ son(h, v) = son(l, v)
  BY <1>2 DEF Pos, son
<1>5. Stage(g, h, i)
  BY <1>2, <1>3, <1>4 DEF Stage
<1>6. QED BY <1>2, <1>3, <1>5

(* The ends of e in a stage. *)
LEMMA StageMiddle ==
  ASSUME NEW g, NEW e, NEW i, NEW u0, NEW u1, Leaf(g, e, i, u0, u1), NEW k, Stage(g, k, i)
  PROVE  /\ middle(k, e) = middle(g, e)
         /\ leftSon(k, e) = son(k, V0(g, e)) /\ rightSon(k, e) = son(k, V1(g, e))
         /\ Lo(g, e) < middle(g, e) /\ middle(g, e) < Hi(g, e) /\ middle(g, e) \in Nat
<1>1. k.element = g.element /\ \A v \in Vs(g) : Pos(k, v) = Pos(g, v)
  BY DEF Stage
<1>2. V0(g, e) \in Vs(g) /\ V1(g, e) \in Vs(g) /\ Lo(g, e) \in Nat /\ Hi(g, e) \in Nat
  BY LeafFacts
<1>3. leftSon(k, e) = son(k, V0(g, e)) /\ rightSon(k, e) = son(k, V1(g, e))
  BY <1>1 DEF leftSon, rightSon, V0, V1
<1>4. middle(k, e) = (Pos(k, V0(g, e)) + Pos(k, V1(g, e))) \div 2
  BY <1>1 DEF middle, Pos, V0, V1
<1>5. middle(g, e) = (Pos(g, V0(g, e)) + Pos(g, V1(g, e))) \div 2
  BY DEF middle, Pos, V0, V1
<1>6. middle(k, e) = middle(g, e)
  BY <1>1, <1>2, <1>4, <1>5
<1> DEFINE p == power2[LevelLimit - (level(e) + 1)]
<1>7. p >= 1 /\ p \in Nat /\ middle(g, e) - Lo(g, e) >= p /\ Hi(g, e) - middle(g, e) >= p /\ middle(g, e) \in Nat
  BY Middle DEF Leaf, WF
<1> HIDE DEF p
<1>8. Lo(g, e) < middle(g, e) /\ middle(g, e) < Hi(g, e)
  BY <1>2, <1>7
<1>9. QED BY <1>3, <1>6, <1>7, <1>8

(* What is in a stage. *)
Members(g, e, k, u0, u1, m) ==
  /\ Vs(k) \subseteq Vs(g) \cup {u0, u1, m} /\ u0 \in Vs(k)
  /\ Pos(k, u0) = Lo(g, e) /\ (u1 \in Vs(k) => Pos(k, u1) = Hi(g, e))
  /\ leftSon(k, e) = u0

(* On the way, no vertex of the next level is inside the leaf but the      *)
(* centre.                                                                 *)
LEMMA StageOrder ==
  ASSUME NEW g, NEW e, NEW i, NEW u0, NEW u1, Leaf(g, e, i, u0, u1), NEW k, Stage(g, k, i), NEW m,
         Members(g, e, k, u0, u1, m), NEW z \in Vs(k), level(z) = i, z # m
  PROVE  Pos(k, z) <= Lo(g, e) \/ Pos(k, z) >= Hi(g, e)
<1>1. Lo(g, e) \in Nat /\ Hi(g, e) \in Nat
  BY LeafFacts
<1>2. CASE z \in Vs(g)
  <2>1. Pos(g, z) <= Lo(g, e) \/ Pos(g, z) >= Hi(g, e)
    BY <1>2, Beside DEF Leaf
  <2>2. QED BY <2>1, <1>2 DEF Stage
<1>3. CASE z \in {u0, u1}
  BY <1>1, <1>3 DEF Members
<1>4. QED BY <1>2, <1>3 DEF Members

(* The vertex behind the copy of the left one is the centre. *)
LEMMA CentreIs ==
  ASSUME NEW g, NEW e, NEW i, NEW u0, NEW u1, Leaf(g, e, i, u0, u1), NEW k, Stage(g, k, i), NEW m,
         Members(g, e, k, u0, u1, m), m \in Vs(k), level(m) = i, Lo(g, e) < Pos(k, m), Pos(k, m) < Hi(g, e)
  PROVE  centre(k, e) = m
<1> DEFINE f == PosAt(k, i)
           y == succ(k.vertices[i], u0)
<1>1. level(u0) = i /\ Lo(g, e) \in Nat /\ Hi(g, e) \in Nat /\ i = level(e) + 1
  BY LeafFacts DEF Leaf
<1>2. u0 \in Vs(k) /\ Pos(k, u0) = Lo(g, e) /\ leftSon(k, e) = u0
  BY DEF Members
<1>3. centre(k, e) = y
  BY <1>1, <1>2 DEF centre
<1>4. /\ Listed(k.vertices[i], f) /\ Numbering(f)
      /\ \A z : z \in DOMAIN f <=> z \in Vs(k) /\ level(z) = i
      /\ \A z \in Vs(k) : level(z) = i => f[z] = Pos(k, z)
  BY StagePlaces
<1>5. \A z \in Vs(k) : Pos(k, z) \in Int
  BY DEF Stage
<1>6. \A z \in Vs(k) : level(z) = i /\ z # m => Pos(k, z) <= Lo(g, e) \/ Pos(k, z) >= Hi(g, e)
  BY StageOrder
<1> HIDE DEF f
<1>7. u0 \in DOMAIN f /\ m \in DOMAIN f /\ f[u0] = Lo(g, e) /\ f[m] = Pos(k, m)
  BY <1>1, <1>2, <1>4
<1>8. f[u0] < f[m]
  BY <1>7
<1>9. \A w \in DOMAIN f : w = m \/ f[w] <= Lo(g, e) \/ f[w] >= Hi(g, e)
  BY <1>4, <1>6
<1>10. \A w \in DOMAIN f : f[w] \in Int
  BY <1>4, <1>5
<1>11. \A w \in DOMAIN f : ~(f[u0] < f[w] /\ f[w] < f[m])
  BY <1>1, <1>7, <1>9, <1>10
<1>12. \A w \in DOMAIN f : f[w] = f[m] => w = m
  BY <1>1, <1>7, <1>9, <1>10
<1>13. Follower(f, u0, y)
  BY <1>4, <1>7, SuccIsFollower
<1> HIDE DEF y
<1>14. y = m
  BY <1>4, <1>7, <1>8, <1>11, <1>12, <1>13, FollowerIs
<1>15. QED BY <1>3, <1>14

(* The centre goes to its place. *)
LEMMA CentreStage ==
  ASSUME NEW g, NEW e, NEW i, NEW u0, NEW u1, Leaf(g, e, i, u0, u1),
         NEW k, Stage(g, k, i), Vs(k) = Vs(g) \cup {u0}, k.freeVertexId = g.freeVertexId,
         Pos(k, u0) = Lo(g, e), son(k, V0(g, e)) = u0,
         NEW m, m = <<i, g.freeVertexId>>,
         NEW h, h = WithCentre(k, e)
  PROVE  /\ Stage(g, h, i) /\ Vs(h) = Vs(k) \cup {m} /\ h.freeVertexId = g.freeVertexId + 1
         /\ m \notin Vs(k) /\ level(m) = i /\ m # u1
         /\ h.vertex[m] = [pos |-> middle(g, e), son |-> null]
         /\ \A w \in Vs(k) : h.vertex[w] = k.vertex[w]
<1> DEFINE f == PosAt(k, i)
           x == succ(k.vertices[i], u0)
           p == middle(g, e)
           l == WithVertex(k, m, p, x)
<1>1. /\ i = level(e) + 1 /\ Forest(g)
  BY DEF Leaf, WF
<1>2. /\ i \in DOMAIN g.vertices /\ V0(g, e) \in Vs(g) /\ V1(g, e) \in Vs(g)
      /\ id(u0) = id(V0(g, e)) /\ id(u1) = id(V1(g, e)) /\ level(u0) = i /\ u0 # null
      /\ Lo(g, e) \in Nat /\ Hi(g, e) \in Nat
  BY LeafFacts
<1>3. p \in Nat /\ Lo(g, e) < p /\ p < Hi(g, e) /\ middle(k, e) = p /\ leftSon(k, e) = u0
  BY StageMiddle
<1>4. level(m) = i /\ id(m) = g.freeVertexId
  BY DEF level, id
<1>5. m \notin Vs(k) /\ m # u1
  <2>1. \A v \in Vs(g) : id(v) < g.freeVertexId
    BY <1>1 DEF Forest, Ids
  <2>2. g.freeVertexId \in Int
    BY <1>1 DEF Forest, Typed
  <2>3. id(u0) # g.freeVertexId /\ id(u1) # g.freeVertexId /\ \A v \in Vs(g) : id(v) # g.freeVertexId
    BY <1>2, <2>1, <2>2
  <2>4. QED BY <2>3, <1>4
<1>6. h = [l EXCEPT !.freeVertexId = g.freeVertexId + 1]
  <2>1. centre(k, e) = x
    BY <1>1, <1>3 DEF centre
  <2>2. h = [WithVertex(k, m, p, x) EXCEPT !.freeVertexId = WithVertex(k, m, p, x).freeVertexId + 1]
    BY <2>1, <1>1, <1>3 DEF WithCentre
  <2>3. l.freeVertexId = g.freeVertexId
    <3> HIDE DEF p, x
    <3>1. Shape(k)
      BY DEF Stage
    <3>2. l.freeVertexId = k.freeVertexId
      BY <3>1 DEF WithVertex, Shape
    <3>3. QED BY <3>2
  <2>4. QED BY <2>2, <2>3
<1>7. PlaceFor(f, x, p)
  <2>1. /\ Listed(k.vertices[i], f) /\ Numbering(f)
        /\ \A z : z \in DOMAIN f <=> z \in Vs(k) /\ level(z) = i
        /\ \A z \in Vs(k) : level(z) = i => f[z] = Pos(k, z)
    BY StagePlaces
  <2>2. \A z \in Vs(k) : Pos(k, z) \in Int /\ z # null
    <3>1. \A z \in Vs(g) : z # null
      BY <1>1, Basics DEF Forest
    <3>2. QED BY <3>1, <1>2 DEF Stage
  <2>3. Members(g, e, k, u0, u1, m)
    <3>1. u1 \in Vs(k) => Pos(k, u1) = Hi(g, e)
      BY LeafFacts DEF Stage
    <3>2. QED BY <3>1, <1>3 DEF Members
  <2>4. \A z \in Vs(k) : level(z) = i => Pos(k, z) <= Lo(g, e) \/ Pos(k, z) >= Hi(g, e)
    BY <2>3, <1>5, StageOrder
  <2> HIDE DEF f
  <2>5. u0 \in DOMAIN f /\ f[u0] = Lo(g, e) /\ null \notin DOMAIN f
    BY <2>1, <2>2, <1>2
  <2>6. Follower(f, u0, x)
    BY <2>1, <2>5, SuccIsFollower
  <2> HIDE DEF x, p
  <2>7. \A w \in DOMAIN f : f[w] <= f[u0] \/ f[w] > p
    BY <2>1, <2>2, <2>4, <2>5, <1>2, <1>3
  <2>8. f[u0] < p /\ p \in Int
    BY <2>5, <1>3
  <2>9. QED BY <2>1, <2>5, <2>6, <2>7, <2>8, PlaceBehind
<1> HIDE DEF x, p, l
<1>8. /\ Stage(g, l, i) /\ Vs(l) = Vs(k) \cup {m}
      /\ l.vertex[m] = [pos |-> p, son |-> null]
      /\ \A v \in Vs(k) : l.vertex[v] = k.vertex[v]
  <2>1. l = WithVertex(k, m, p, x) /\ p \in Int
    BY <1>3 DEF l
  <2>2. QED BY <2>1, <1>2, <1>4, <1>5, <1>7, StageVertex
<1>9. /\ Stage(g, h, i) /\ Vs(h) = Vs(l) /\ h.vertex = l.vertex /\ h.freeVertexId = g.freeVertexId + 1
  BY <1>6, <1>8, StageCounter
<1>10. QED BY <1>4, <1>5, <1>8, <1>9 DEF p

(* The vertices of k are those of g after the refinement of e. *)
Linked(g, k, e, i, u0, u1) ==
  /\ Stage(g, k, i) /\ u0 \in Vs(k) /\ u1 \in Vs(k)
  /\ \A v \in Vs(g) :
       k.vertex[v] = [pos |-> Pos(g, v),
                      son |-> IF v = V0(g, e) THEN u0 ELSE IF v = V1(g, e) THEN u1 ELSE son(g, v)]
  /\ u0 \notin Vs(g) => k.vertex[u0] = [pos |-> Lo(g, e), son |-> null]
  /\ u1 \notin Vs(g) => k.vertex[u1] = [pos |-> Hi(g, e), son |-> null]
  /\ leftSon(k, e) = u0 /\ rightSon(k, e) = u1

(* The copies are linked when both ends have got theirs. *)
LEMMA LinkedFrom ==
  ASSUME NEW g, NEW e, NEW i, NEW u0, NEW u1, Leaf(g, e, i, u0, u1),
         NEW k, Stage(g, k, i), u0 \in Vs(k), u1 \in Vs(k),
         k.vertex[V0(g, e)] = [pos |-> Lo(g, e), son |-> u0],
         k.vertex[V1(g, e)] = [pos |-> Hi(g, e), son |-> u1],
         \A w \in Vs(g) : w \notin {V0(g, e), V1(g, e)} => k.vertex[w] = g.vertex[w],
         u0 \notin Vs(g) => k.vertex[u0] = [pos |-> Lo(g, e), son |-> null],
         u1 \notin Vs(g) => k.vertex[u1] = [pos |-> Hi(g, e), son |-> null]
  PROVE  Linked(g, k, e, i, u0, u1)
<1>1. WF(g) /\ i \in 0..maxLevel(g) /\ V0(g, e) # V1(g, e)
      /\ Pos(g, V0(g, e)) = Lo(g, e) /\ Pos(g, V1(g, e)) = Hi(g, e)
  BY LeafFacts DEF Leaf
<1>2. \A v \in Vs(g) : g.vertex[v] = [pos |-> Pos(g, v), son |-> son(g, v)]
  <2>1. Stage(g, g, i)
    BY <1>1, FirstStage
  <2>2. QED BY <2>1 DEF Stage
<1>3. \A v \in Vs(g) :
        k.vertex[v] = [pos |-> Pos(g, v),
                       son |-> IF v = V0(g, e) THEN u0 ELSE IF v = V1(g, e) THEN u1 ELSE son(g, v)]
  <2> TAKE v \in Vs(g)
  <2>1. CASE v = V0(g, e)
    BY <2>1, <1>1
  <2>2. CASE v = V1(g, e)
    BY <2>2, <1>1
  <2>3. CASE v \notin {V0(g, e), V1(g, e)}
    BY <2>3, <1>2
  <2>4. QED BY <2>1, <2>2, <2>3
<1>4. leftSon(k, e) = u0 /\ rightSon(k, e) = u1
  <2>1. leftSon(k, e) = son(k, V0(g, e)) /\ rightSon(k, e) = son(k, V1(g, e))
    BY StageMiddle
  <2>2. QED BY <2>1 DEF son
<1>5. QED BY <1>3, <1>4 DEF Linked

(* The vertices of refinement: both copies and the centre, in order. *)
LEMMA RefinedVertices ==
  ASSUME NEW g, NEW e, NEW i, NEW u0, NEW u1, Leaf(g, e, i, u0, u1), NEW m, m = <<i, g.freeVertexId>>,
         NEW k, k = WithRightOfCentre(WithCentre(WithLeft(g, e), e), e)
  PROVE  /\ Linked(g, k, e, i, u0, u1) /\ Vs(k) = Vs(g) \cup {u0, u1, m}
         /\ k.freeVertexId = g.freeVertexId + 1
         /\ k.vertex[m] = [pos |-> middle(g, e), son |-> null]
         /\ centre(k, e) = m
<1>1. PICK k1 : k1 = WithLeft(g, e)
  OBVIOUS
<1>2. PICK k2 : k2 = WithCentre(k1, e)
  OBVIOUS
<1>3. k = WithRight(k2, e, centre(k2, e))
  BY <1>1, <1>2 DEF WithRightOfCentre
<1>4. /\ V0(g, e) \in Vs(g) /\ V1(g, e) \in Vs(g) /\ V0(g, e) # V1(g, e)
      /\ Lo(g, e) \in Nat /\ Hi(g, e) \in Nat /\ Lo(g, e) < Hi(g, e)
      /\ u0 # null /\ u1 # null /\ u0 # u1 /\ level(u0) = i /\ level(u1) = i
      /\ u0 \in Vs(g) => Pos(g, u0) = Lo(g, e)
      /\ u1 \in Vs(g) => Pos(g, u1) = Hi(g, e)
      /\ level(V0(g, e)) # i /\ level(V1(g, e)) # i
      /\ u0 \notin {V0(g, e), V1(g, e)}
  BY LeafFacts
<1>5. /\ Stage(g, k1, i) /\ Vs(k1) = Vs(g) \cup {u0} /\ k1.freeVertexId = g.freeVertexId
      /\ u0 \notin Vs(g) => k1.vertex[u0] = [pos |-> Lo(g, e), son |-> null]
      /\ k1.vertex[V0(g, e)] = [pos |-> Lo(g, e), son |-> u0]
      /\ \A w \in Vs(g) : w # V0(g, e) => k1.vertex[w] = g.vertex[w]
  BY <1>1, LeftStage
<1>6. Pos(k1, u0) = Lo(g, e)
  <2>1. CASE u0 \in Vs(g)
    BY <2>1, <1>4, <1>5 DEF Stage
  <2>2. CASE u0 \notin Vs(g)
    BY <2>2, <1>5 DEF Pos
  <2>3. QED BY <2>1, <2>2
<1>7. son(k1, V0(g, e)) = u0
  BY <1>5 DEF son
<1>8. /\ Stage(g, k2, i) /\ Vs(k2) = Vs(k1) \cup {m} /\ k2.freeVertexId = g.freeVertexId + 1
      /\ m \notin Vs(k1) /\ level(m) = i /\ m # u1
      /\ k2.vertex[m] = [pos |-> middle(g, e), son |-> null]
      /\ \A w \in Vs(k1) : k2.vertex[w] = k1.vertex[w]
  BY <1>2, <1>5, <1>6, <1>7, CentreStage
<1>9. Lo(g, e) < middle(g, e) /\ middle(g, e) < Hi(g, e) /\ middle(g, e) \in Nat
  BY <1>5, StageMiddle
<1>10. Pos(k2, m) = middle(g, e)
  BY <1>8 DEF Pos
<1>11. Members(g, e, k2, u0, u1, m)
  <2>1. Pos(k2, u0) = Lo(g, e)
    BY <1>5, <1>6, <1>8 DEF Pos
  <2>2. leftSon(k2, e) = u0
    <3>1. leftSon(k2, e) = son(k2, V0(g, e))
      BY <1>8, StageMiddle
    <3>2. son(k2, V0(g, e)) = u0
      BY <1>4, <1>5, <1>8 DEF son
    <3>3. QED BY <3>1, <3>2
  <2>3. u1 \in Vs(k2) => Pos(k2, u1) = Hi(g, e)
    BY <1>4, <1>5, <1>8 DEF Stage
  <2>4. QED BY <2>1, <2>2, <2>3, <1>5, <1>8 DEF Members
<1>12. centre(k2, e) = m
  <2>1. m \in Vs(k2) /\ Lo(g, e) < Pos(k2, m) /\ Pos(k2, m) < Hi(g, e)
    BY <1>8, <1>9, <1>10
  <2>2. QED BY <2>1, <1>8, <1>11, CentreIs
<1>13. null \notin Vs(k2)
  <2>1. null \notin Vs(g)
    BY Basics DEF Leaf, WF, Forest
  <2>2. m # null
    BY DEF null
  <2>3. QED BY <2>1, <2>2, <1>4, <1>5, <1>8
<1>14. /\ Stage(g, k, i) /\ Vs(k) = Vs(k2) \cup {u1} /\ k.freeVertexId = k2.freeVertexId
       /\ u1 \notin Vs(k2) => k.vertex[u1] = [pos |-> Hi(g, e), son |-> null]
       /\ k.vertex[V1(g, e)] = [pos |-> Hi(g, e), son |-> u1]
       /\ \A z \in Vs(k2) : z # V1(g, e) => k.vertex[z] = k2.vertex[z]
  <2>1. k = WithRight(k2, e, m)
    BY <1>3, <1>12
  <2>2. \A z \in Vs(k2) : level(z) = i /\ z \notin Vs(g) => Pos(k2, z) <= Pos(k2, m)
    <3>1. Pos(k2, u0) = Lo(g, e)
      BY <1>11 DEF Members
    <3>2. QED BY <3>1, <1>4, <1>5, <1>8, <1>9, <1>10
  <2>3. u1 \in Vs(k2) => u1 \in Vs(g)
    BY <1>4, <1>5, <1>8
  <2>4. m \in Vs(k2) /\ level(m) = i /\ Lo(g, e) <= Pos(k2, m) /\ Pos(k2, m) < Hi(g, e)
    BY <1>4, <1>8, <1>9, <1>10
  <2>5. QED BY <2>1, <2>2, <2>3, <2>4, <1>8, <1>13, RightStage
<1>15. k.vertex[m] = [pos |-> middle(g, e), son |-> null]
  BY <1>4, <1>5, <1>8, <1>14
<1>16. Vs(k) = Vs(g) \cup {u0, u1, m}
  BY <1>5, <1>8, <1>14
<1>17. Linked(g, k, e, i, u0, u1)
  <2>1. k.vertex[V0(g, e)] = [pos |-> Lo(g, e), son |-> u0]
    BY <1>4, <1>5, <1>8, <1>14
  <2>2. \A w \in Vs(g) : w \notin {V0(g, e), V1(g, e)} => k.vertex[w] = g.vertex[w]
    BY <1>5, <1>8, <1>14
  <2>3. u0 \notin Vs(g) => k.vertex[u0] = [pos |-> Lo(g, e), son |-> null]
    BY <1>4, <1>5, <1>8, <1>14
  <2>4. u1 \notin Vs(g) => k.vertex[u1] = [pos |-> Hi(g, e), son |-> null]
    BY <1>4, <1>5, <1>8, <1>14
  <2>5. u0 \in Vs(k) /\ u1 \in Vs(k)
    BY <1>16
  <2>6. QED BY <2>1, <2>2, <2>3, <2>4, <2>5, <1>14, LinkedFrom
<1>18. centre(k, e) = m
  <2>1. Pos(k, m) = middle(g, e) /\ m \in Vs(k)
    BY <1>15, <1>16 DEF Pos
  <2>2. Members(g, e, k, u0, u1, m)
    <3>1. Pos(k, u0) = Lo(g, e) /\ Pos(k, u1) = Hi(g, e)
      BY <1>4, <1>17 DEF Linked, Stage, Pos
    <3>2. QED BY <3>1, <1>16, <1>17 DEF Members, Linked
  <2>3. m \in Vs(k) /\ level(m) = i /\ Lo(g, e) < Pos(k, m) /\ Pos(k, m) < Hi(g, e)
    BY <2>1, <1>8, <1>9
  <2>4. Stage(g, k, i)
    BY <1>14
  <2>5. QED BY <2>2, <2>3, <2>4, CentreIs
<1>19. QED BY <1>8, <1>14, <1>15, <1>16, <1>17, <1>18

(* The vertices of a copied element: both copies, in order. *)
LEMMA CopiedVertices ==
  ASSUME NEW g, NEW e, NEW i, NEW u0, NEW u1, Leaf(g, e, i, u0, u1),
         NEW k, k = WithRightOfLeft(WithLeft(g, e), e)
  PROVE  /\ Linked(g, k, e, i, u0, u1) /\ Vs(k) = Vs(g) \cup {u0, u1}
         /\ k.freeVertexId = g.freeVertexId
<1>1. PICK k1 : k1 = WithLeft(g, e)
  OBVIOUS
<1>3. k = WithRight(k1, e, leftSon(k1, e))
  BY <1>1 DEF WithRightOfLeft
<1>4. /\ V0(g, e) \in Vs(g) /\ V1(g, e) \in Vs(g) /\ V0(g, e) # V1(g, e)
      /\ Lo(g, e) \in Nat /\ Hi(g, e) \in Nat /\ Lo(g, e) < Hi(g, e)
      /\ u0 # null /\ u1 # null /\ u0 # u1 /\ level(u0) = i /\ level(u1) = i
      /\ u0 \in Vs(g) => Pos(g, u0) = Lo(g, e)
      /\ level(V0(g, e)) # i /\ level(V1(g, e)) # i
      /\ u0 \notin {V0(g, e), V1(g, e)}
  BY LeafFacts
<1>5. /\ Stage(g, k1, i) /\ Vs(k1) = Vs(g) \cup {u0} /\ k1.freeVertexId = g.freeVertexId
      /\ u0 \notin Vs(g) => k1.vertex[u0] = [pos |-> Lo(g, e), son |-> null]
      /\ k1.vertex[V0(g, e)] = [pos |-> Lo(g, e), son |-> u0]
      /\ \A w \in Vs(g) : w # V0(g, e) => k1.vertex[w] = g.vertex[w]
  BY <1>1, LeftStage
<1>6. Pos(k1, u0) = Lo(g, e)
  <2>1. CASE u0 \in Vs(g)
    BY <2>1, <1>4, <1>5 DEF Stage
  <2>2. CASE u0 \notin Vs(g)
    BY <2>2, <1>5 DEF Pos
  <2>3. QED BY <2>1, <2>2
<1>7. leftSon(k1, e) = u0
  <2>1. leftSon(k1, e) = son(k1, V0(g, e))
    BY <1>5, StageMiddle
  <2>2. QED BY <2>1, <1>5 DEF son
<1>13. null \notin Vs(k1)
  <2>1. null \notin Vs(g)
    BY Basics DEF Leaf, WF, Forest
  <2>2. QED BY <2>1, <1>4, <1>5
<1>14. /\ Stage(g, k, i) /\ Vs(k) = Vs(k1) \cup {u1} /\ k.freeVertexId = k1.freeVertexId
       /\ u1 \notin Vs(k1) => k.vertex[u1] = [pos |-> Hi(g, e), son |-> null]
       /\ k.vertex[V1(g, e)] = [pos |-> Hi(g, e), son |-> u1]
       /\ \A z \in Vs(k1) : z # V1(g, e) => k.vertex[z] = k1.vertex[z]
  <2>1. k = WithRight(k1, e, u0)
    BY <1>3, <1>7
  <2>2. \A z \in Vs(k1) : level(z) = i /\ z \notin Vs(g) => Pos(k1, z) <= Pos(k1, u0)
    BY <1>4, <1>5, <1>6
  <2>3. u1 \in Vs(k1) => u1 \in Vs(g)
    BY <1>4, <1>5
  <2>4. u0 \in Vs(k1) /\ level(u0) = i /\ Lo(g, e) <= Pos(k1, u0) /\ Pos(k1, u0) < Hi(g, e)
    BY <1>4, <1>5, <1>6
  <2>5. QED BY <2>1, <2>2, <2>3, <2>4, <1>5, <1>13, RightStage
<1>16. Vs(k) = Vs(g) \cup {u0, u1}
  BY <1>5, <1>14
<1>17. Linked(g, k, e, i, u0, u1)
  <2>1. k.vertex[V0(g, e)] = [pos |-> Lo(g, e), son |-> u0]
    BY <1>4, <1>5, <1>14
  <2>2. \A w \in Vs(g) : w \notin {V0(g, e), V1(g, e)} => k.vertex[w] = g.vertex[w]
    BY <1>5, <1>14
  <2>3. u0 \notin Vs(g) => k.vertex[u0] = [pos |-> Lo(g, e), son |-> null]
    BY <1>4, <1>5, <1>14
  <2>4. u1 \notin Vs(g) => k.vertex[u1] = [pos |-> Hi(g, e), son |-> null]
    BY <1>4, <1>5, <1>14
  <2>5. u0 \in Vs(k) /\ u1 \in Vs(k)
    BY <1>16
  <2>6. QED BY <2>1, <2>2, <2>3, <2>4, <2>5, <1>14, LinkedFrom
<1>18. QED BY <1>5, <1>14, <1>16, <1>17

(* h is k with the element z before x, of the data n. *)
Extended(k, h, z, n, x) ==
  /\ Shape(h) /\ h.vertices = k.vertices /\ h.vertex = k.vertex
  /\ h.reversed = k.reversed /\ h.failed = k.failed
  /\ h.freeElementId = k.freeElementId /\ h.freeVertexId = k.freeVertexId
  /\ h.elements = [k.elements EXCEPT ![level(z)] = insert(k.elements[level(z)], x, z)]
  /\ h.element = With(k.element, z, n)

(* What WithElement changes. *)
LEMMA ElementFields ==
  ASSUME NEW k, Shape(k), NEW z, NEW a, NEW b, NEW e, e # null, NEW x
  PROVE  Extended(k, WithElement(k, z, a, b, e, x), z, NewElement(k, a, b, e), x)
<1> DEFINE p == [k.elements EXCEPT ![level(z)] = insert(k.elements[level(z)], x, z)]
           q == With(k.element, z, NewElement(k, a, b, e))
           h == WithElement(k, z, a, b, e, x)
<1>1. (e # null) = TRUE
  OBVIOUS
<1>2. h = [k EXCEPT !.elements = p, !.element = q]
  BY <1>1 DEF WithElement, NewElement
<1> HIDE DEF p, q, h
<1>3. /\ Shape(h) /\ h.vertices = k.vertices /\ h.vertex = k.vertex
      /\ h.reversed = k.reversed /\ h.failed = k.failed
      /\ h.freeElementId = k.freeElementId /\ h.freeVertexId = k.freeVertexId
      /\ h.elements = p /\ h.element = q
  BY <1>2 DEF Shape
<1>4. Extended(k, h, z, NewElement(k, a, b, e), x)
  BY <1>3 DEF p, q, Extended
<1>5. QED BY <1>4 DEF h

(* h is b with the sons q of e and the counter n. *)
Fathered(b, h, e, q, n) ==
  /\ Shape(h) /\ h.vertices = b.vertices /\ h.vertex = b.vertex /\ h.elements = b.elements
  /\ h.reversed = b.reversed /\ h.failed = b.failed
  /\ h.freeElementId = n /\ h.freeVertexId = b.freeVertexId
  /\ h.element = [b.element EXCEPT ![e] = [b.element[e] EXCEPT !.sons = q]]

(* What the last assignment to the father changes. *)
LEMMA SonsFields ==
  ASSUME NEW b, Shape(b), NEW e, NEW q, NEW n, NEW h,
         \/ h = [b EXCEPT !.element[e].sons = q, !.freeElementId = n]
         \/ h = [b EXCEPT !.element[e].sons = q] /\ n = b.freeElementId
  PROVE  Fathered(b, h, e, q, n)
<1> DEFINE p == [b.element EXCEPT ![e] = [b.element[e] EXCEPT !.sons = q]]
<1>1. \/ h = [b EXCEPT !.element = p, !.freeElementId = n]
      \/ h = [b EXCEPT !.element = p] /\ n = b.freeElementId
  OBVIOUS
<1> HIDE DEF p
<1>2. QED BY <1>1 DEF Shape, p, Fathered

(* Vertices do not matter to the place of the sons. *)
LEMMA SonPlaceSame ==
  ASSUME NEW g, NEW k, k.elements = g.elements, k.element = g.element, NEW e
  PROVE  SonPlace(k, e) = SonPlace(g, e)
BY DEF SonPlace, getLeftNeighborWithSon, isLeaf, lastSon

(* The names of the sons are new. *)
LEMMA FreshSons ==
  ASSUME NEW g, Forest(g), NEW e \in Es(g), isLeaf(g, e)
  PROVE  /\ <<level(e) + 1, g.freeElementId>> \notin Es(g)
         /\ <<level(e) + 1, g.freeElementId + 1>> \notin Es(g)
         /\ <<level(e) + 1, id(e)>> \notin Es(g)
<1>1. \A x \in Es(g) : id(x) < g.freeElementId /\ id(x) \in Int
  BY Basics DEF Forest, Ids
<1>2. g.freeElementId \in Int
  BY DEF Forest, Typed
<1>3. <<level(e) + 1, g.freeElementId>> \notin Es(g) /\ <<level(e) + 1, g.freeElementId + 1>> \notin Es(g)
  BY <1>1, <1>2 DEF id
<1>4. ASSUME NEW s \in Es(g), s = <<level(e) + 1, id(e)>> PROVE FALSE
  <2>1. id(s) = id(e) /\ level(s) = level(e) + 1 /\ level(e) \in Nat
    BY <1>4, Basics DEF id, level, Forest
  <2>2. Lo(g, s) = Lo(g, e) /\ Hi(g, s) = Hi(g, e)
    BY <2>1 DEF Forest, Ids
  <2>3. e # s /\ level(e) <= level(s)
    BY <2>1
  <2>4. Apart(g, e, s)
    BY <2>3 DEF Forest, Nested
  <2>5. Lo(g, e) < Hi(g, e) /\ Lo(g, e) \in Nat /\ Hi(g, e) \in Nat
    BY Extents
  <2>6. QED BY <2>2, <2>4, <2>5 DEF Apart
<1>5. QED BY <1>3, <1>4

(* The new elements are in their list, next to each other. *)
Joined(g, h, i, y, s0, s1) ==
  h.elements = [g.elements EXCEPT ![i] =
                  IF s0 = s1 THEN insert(g.elements[i], y, s0) ELSE insert(insert(g.elements[i], y, s0), y, s1)]

(* The elements of h are those of g with the sons of e. *)
Family(g, h, e, s0, s1) ==
  /\ Es(h) = Es(g) \cup {s0, s1} /\ h.element = [x \in Es(h) |-> h.element[x]]
  /\ \A x \in Es(g) : h.element[x] = IF x = e THEN [g.element[e] EXCEPT !.sons = <<s0, s1>>] ELSE g.element[x]

(* The rest of h is that of k. *)
SameRest(h, k) ==
  /\ Shape(h) /\ h.vertices = k.vertices /\ h.vertex = k.vertex
  /\ h.reversed = k.reversed /\ h.failed = k.failed

(* Vertices that are linked and a family of elements make Growth. *)
LEMMA GrowthFrom ==
  ASSUME NEW g, NEW e, NEW i, NEW u0, NEW u1, Leaf(g, e, i, u0, u1), NEW m, NEW s0, NEW s1,
         NEW k, Linked(g, k, e, i, u0, u1), Vs(k) = Vs(g) \cup {u0, u1, m},
         NEW h, SameRest(h, k), NEW y, Joined(g, h, i, y, s0, s1), Family(g, h, e, s0, s1),
         Halved(g, h, e, s0, s1, m) \/ Doubled(g, h, e, s0, s1, m)
  PROVE  Growth(g, h, e, s0, s1, m)
<1>1. u0 = Upper(g, V0(g, e)) /\ u1 = Upper(g, V1(g, e))
  BY DEF Leaf
<1>2. k.reversed = g.reversed /\ k.failed = g.failed /\ DOMAIN k.vertices = DOMAIN g.vertices
      /\ k.vertex = [v \in Vs(k) |-> k.vertex[v]]
  BY DEF Linked, Stage
<1>3. Vs(h) = Vs(k) /\ h.vertex = k.vertex
  BY DEF Vs, SameRest
<1>4. h.vertex = [v \in Vs(h) |-> h.vertex[v]]
  BY <1>2, <1>3
<1>5. DOMAIN h.elements = DOMAIN g.elements
  BY DEF Joined
<1>6. /\ \A v \in Vs(g) :
           h.vertex[v] = [pos |-> Pos(g, v),
                          son |-> IF v = V0(g, e) THEN u0 ELSE IF v = V1(g, e) THEN u1 ELSE son(g, v)]
      /\ u0 \notin Vs(g) => h.vertex[u0] = [pos |-> Lo(g, e), son |-> null]
      /\ u1 \notin Vs(g) => h.vertex[u1] = [pos |-> Hi(g, e), son |-> null]
  BY <1>3 DEF Linked
<1>7. QED BY <1>1, <1>2, <1>3, <1>4, <1>5, <1>6 DEF Growth, SameRest, Family

(* Refinement of a leaf is Growth with two sons. *)
LEMMA RefinedMaps ==
  ASSUME NEW g, NEW e, NEW i, NEW u0, NEW u1, Leaf(g, e, i, u0, u1),
         NEW h, h = Refined(g, e),
         NEW s0, s0 = <<i, g.freeElementId>>, NEW s1, s1 = <<i, g.freeElementId + 1>>,
         NEW m, m = <<i, g.freeVertexId>>
  PROVE  /\ Growth(g, h, e, s0, s1, m) /\ s0 # s1
         /\ Joined(g, h, i, SonPlace(g, e), s0, s1)
         /\ \E k : Linked(g, k, e, i, u0, u1) /\ h.vertices = k.vertices /\ h.vertex = k.vertex
<1> DEFINE y == SonPlace(g, e)
<1>1. PICK k : k = WithRightOfCentre(WithCentre(WithLeft(g, e), e), e)
  OBVIOUS
<1>2. /\ Linked(g, k, e, i, u0, u1) /\ Vs(k) = Vs(g) \cup {u0, u1, m}
      /\ k.freeVertexId = g.freeVertexId + 1
      /\ k.vertex[m] = [pos |-> middle(g, e), son |-> null]
      /\ centre(k, e) = m
  BY <1>1, RefinedVertices
<1>3. /\ Shape(k) /\ k.elements = g.elements /\ k.element = g.element
      /\ k.reversed = g.reversed /\ k.failed = g.failed /\ k.freeElementId = g.freeElementId
      /\ leftSon(k, e) = u0 /\ rightSon(k, e) = u1
  BY <1>2 DEF Linked, Stage
<1>4. SonPlace(k, e) = y
  BY <1>3, SonPlaceSame
<1>5. /\ i = level(e) + 1 /\ Forest(g) /\ e \in Es(g) /\ isLeaf(g, e)
      /\ u0 = Upper(g, V0(g, e)) /\ u1 = Upper(g, V1(g, e))
  BY DEF Leaf, WF
<1>6. i \in DOMAIN g.elements /\ level(e) # i
  BY LeafFacts DEF Leaf
<1>7. e # null /\ g.freeElementId \in Int
  BY <1>5, Basics DEF Forest, Typed
<1>8. s0 \notin Es(g) /\ s1 \notin Es(g)
  BY <1>5, FreshSons
<1>9. s0 # s1 /\ level(s0) = i /\ level(s1) = i
  BY <1>7 DEF level
<1> HIDE DEF y
<1>10. PICK a : a = WithElement(k, s0, u0, m, e, y)
  OBVIOUS
<1>11. PICK b : b = WithElement(a, s1, m, u1, e, y)
  OBVIOUS
<1>12. h = [b EXCEPT !.element[e].sons = <<s0, s1>>, !.freeElementId = b.freeElementId + 2]
  <2>1. h = WithSons(k, e)
    BY <1>1 DEF Refined
  <2>2. QED BY <2>1, <1>2, <1>3, <1>4, <1>5, <1>10, <1>11 DEF WithSons
<1>13. /\ Shape(a) /\ a.vertices = k.vertices /\ a.vertex = k.vertex
       /\ a.reversed = k.reversed /\ a.failed = k.failed
       /\ a.freeElementId = k.freeElementId /\ a.freeVertexId = k.freeVertexId
       /\ a.elements = [k.elements EXCEPT ![i] = insert(k.elements[i], y, s0)]
       /\ a.element = With(k.element, s0, NewElement(k, u0, m, e))
  <2>1. Extended(k, a, s0, NewElement(k, u0, m, e), y)
    BY <1>3, <1>7, <1>10, ElementFields
  <2>2. QED BY <2>1, <1>9 DEF Extended
<1>14. /\ Shape(b) /\ b.vertices = a.vertices /\ b.vertex = a.vertex
       /\ b.reversed = a.reversed /\ b.failed = a.failed
       /\ b.freeElementId = a.freeElementId /\ b.freeVertexId = a.freeVertexId
       /\ b.elements = [a.elements EXCEPT ![i] = insert(a.elements[i], y, s1)]
       /\ b.element = With(a.element, s1, NewElement(a, m, u1, e))
  <2>1. Extended(a, b, s1, NewElement(a, m, u1, e), y)
    BY <1>7, <1>11, <1>13, ElementFields
  <2>2. QED BY <2>1, <1>9 DEF Extended
<1>15. /\ Shape(h) /\ h.vertices = b.vertices /\ h.vertex = b.vertex /\ h.elements = b.elements
       /\ h.reversed = b.reversed /\ h.failed = b.failed
       /\ h.freeElementId = b.freeElementId + 2 /\ h.freeVertexId = b.freeVertexId
       /\ h.element = [b.element EXCEPT ![e] = [b.element[e] EXCEPT !.sons = <<s0, s1>>]]
  <2>1. Fathered(b, h, e, <<s0, s1>>, b.freeElementId + 2)
    BY <1>12, <1>14, SonsFields
  <2>2. QED BY <2>1 DEF Fathered
<1>16. NewElement(k, u0, m, e) = NewElement(g, u0, m, e) /\ NewElement(a, m, u1, e) = NewElement(g, m, u1, e)
  BY <1>3, <1>13 DEF NewElement
<1> DEFINE n0 == NewElement(g, u0, m, e)
           n1 == NewElement(g, m, u1, e)
<1> HIDE DEF n0, n1
<1>17. /\ DOMAIN b.element = Es(g) \cup {s0, s1}
       /\ b.element[s0] = n0 /\ b.element[s1] = n1 /\ \A x \in Es(g) : b.element[x] = g.element[x]
  <2>1. a.element = With(g.element, s0, n0) /\ b.element = With(a.element, s1, n1)
    BY <1>3, <1>13, <1>14, <1>16 DEF n0, n1
  <2>2. QED BY <2>1, <1>8, <1>9 DEF With, Es
<1>18. /\ Es(h) = Es(g) \cup {s0, s1} /\ h.element = [x \in Es(h) |-> h.element[x]]
       /\ h.element[s0] = n0 /\ h.element[s1] = n1
       /\ \A x \in Es(g) : h.element[x] = IF x = e THEN [g.element[e] EXCEPT !.sons = <<s0, s1>>] ELSE g.element[x]
  <2>1. e \in DOMAIN b.element /\ s0 # e /\ s1 # e
    BY <1>5, <1>8, <1>17
  <2>2. b.element[e] = g.element[e]
    BY <1>5, <1>17
  <2>3. DOMAIN h.element = DOMAIN b.element /\ h.element = [x \in DOMAIN h.element |-> h.element[x]]
    BY <1>15
  <2>4. h.element[e] = [g.element[e] EXCEPT !.sons = <<s0, s1>>]
    BY <2>1, <2>2, <1>15
  <2>5. \A x \in DOMAIN b.element : x # e => h.element[x] = b.element[x]
    BY <1>15
  <2>6. QED BY <2>1, <2>3, <2>4, <2>5, <1>5, <1>17 DEF Es
<1>19. Joined(g, h, i, y, s0, s1)
  BY <1>3, <1>6, <1>9, <1>13, <1>14, <1>15 DEF Joined
<1>20. Halved(g, h, e, s0, s1, m)
  <2>1. h.freeVertexId = g.freeVertexId + 1 /\ h.freeElementId = g.freeElementId + 2
    BY <1>2, <1>3, <1>13, <1>14, <1>15
  <2>2. h.vertex[m] = [pos |-> middle(g, e), son |-> null]
    BY <1>2, <1>13, <1>14, <1>15
  <2>3. QED BY <2>1, <2>2, <1>5, <1>18 DEF Halved, n0, n1
<1>21. h.vertices = k.vertices /\ h.vertex = k.vertex /\ h.reversed = k.reversed /\ h.failed = k.failed
  BY <1>13, <1>14, <1>15
<1>22. Growth(g, h, e, s0, s1, m)
  <2>1. SameRest(h, k)
    BY <1>15, <1>21 DEF SameRest
  <2>2. Family(g, h, e, s0, s1)
    BY <1>18 DEF Family
  <2>3. QED BY <2>1, <2>2, <1>2, <1>19, <1>20, GrowthFrom
<1>23. QED BY <1>2, <1>9, <1>19, <1>21, <1>22 DEF y

(* Copying a leaf is Growth with one son. *)
LEMMA CopiedMaps ==
  ASSUME NEW g, NEW e, NEW i, NEW u0, NEW u1, Leaf(g, e, i, u0, u1),
         NEW h, h = Copied(g, e), NEW s, s = <<i, id(e)>>
  PROVE  /\ Growth(g, h, e, s, s, u0)
         /\ Joined(g, h, i, SonPlace(g, e), s, s)
         /\ \E k : Linked(g, k, e, i, u0, u1) /\ h.vertices = k.vertices /\ h.vertex = k.vertex
<1> DEFINE y == SonPlace(g, e)
<1>1. PICK k : k = WithRightOfLeft(WithLeft(g, e), e)
  OBVIOUS
<1>2. /\ Linked(g, k, e, i, u0, u1) /\ Vs(k) = Vs(g) \cup {u0, u1}
      /\ k.freeVertexId = g.freeVertexId
  BY <1>1, CopiedVertices
<1>3. /\ Shape(k) /\ k.elements = g.elements /\ k.element = g.element
      /\ k.reversed = g.reversed /\ k.failed = g.failed /\ k.freeElementId = g.freeElementId
      /\ leftSon(k, e) = u0 /\ rightSon(k, e) = u1
  BY <1>2 DEF Linked, Stage
<1>4. SonPlace(k, e) = y
  BY <1>3, SonPlaceSame
<1>5. /\ i = level(e) + 1 /\ Forest(g) /\ e \in Es(g) /\ isLeaf(g, e)
      /\ u0 = Upper(g, V0(g, e)) /\ u1 = Upper(g, V1(g, e))
  BY DEF Leaf, WF
<1>6. i \in DOMAIN g.elements /\ level(e) # i
  BY LeafFacts DEF Leaf
<1>7. e # null
  BY <1>5, Basics DEF Forest
<1>8. s \notin Es(g)
  BY <1>5, FreshSons
<1>9. level(s) = i
  BY DEF level
<1> HIDE DEF y
<1>10. PICK b : b = WithElement(k, s, u0, u1, e, y)
  OBVIOUS
<1>12. h = [b EXCEPT !.element[e].sons = <<s, s>>]
  <2>1. h = WithCopy(k, e)
    BY <1>1 DEF Copied
  <2>2. QED BY <2>1, <1>2, <1>3, <1>4, <1>5, <1>10 DEF WithCopy
<1>13. /\ Shape(b) /\ b.vertices = k.vertices /\ b.vertex = k.vertex
       /\ b.reversed = k.reversed /\ b.failed = k.failed
       /\ b.freeElementId = k.freeElementId /\ b.freeVertexId = k.freeVertexId
       /\ b.elements = [k.elements EXCEPT ![i] = insert(k.elements[i], y, s)]
       /\ b.element = With(k.element, s, NewElement(k, u0, u1, e))
  <2>1. Extended(k, b, s, NewElement(k, u0, u1, e), y)
    BY <1>3, <1>7, <1>10, ElementFields
  <2>2. QED BY <2>1, <1>9 DEF Extended
<1>15. /\ Shape(h) /\ h.vertices = b.vertices /\ h.vertex = b.vertex /\ h.elements = b.elements
       /\ h.reversed = b.reversed /\ h.failed = b.failed
       /\ h.freeElementId = b.freeElementId /\ h.freeVertexId = b.freeVertexId
       /\ h.element = [b.element EXCEPT ![e] = [b.element[e] EXCEPT !.sons = <<s, s>>]]
  <2>1. Fathered(b, h, e, <<s, s>>, b.freeElementId)
    BY <1>12, <1>13, SonsFields
  <2>2. QED BY <2>1 DEF Fathered
<1> DEFINE n0 == NewElement(g, u0, u1, e)
<1>16. NewElement(k, u0, u1, e) = n0
  BY <1>3 DEF NewElement
<1> HIDE DEF n0
<1>17. /\ DOMAIN b.element = Es(g) \cup {s}
       /\ b.element[s] = n0 /\ \A x \in Es(g) : b.element[x] = g.element[x]
  <2>1. b.element = With(g.element, s, n0)
    BY <1>3, <1>13, <1>16
  <2>2. QED BY <2>1, <1>8 DEF With, Es
<1>18. /\ Es(h) = Es(g) \cup {s, s} /\ h.element = [x \in Es(h) |-> h.element[x]]
       /\ h.element[s] = n0
       /\ \A x \in Es(g) : h.element[x] = IF x = e THEN [g.element[e] EXCEPT !.sons = <<s, s>>] ELSE g.element[x]
  <2>1. e \in DOMAIN b.element /\ s # e
    BY <1>5, <1>8, <1>17
  <2>2. b.element[e] = g.element[e]
    BY <1>5, <1>17
  <2>3. DOMAIN h.element = DOMAIN b.element /\ h.element = [x \in DOMAIN h.element |-> h.element[x]]
    BY <1>15
  <2>4. h.element[e] = [g.element[e] EXCEPT !.sons = <<s, s>>]
    BY <2>1, <2>2, <1>15
  <2>5. \A x \in DOMAIN b.element : x # e => h.element[x] = b.element[x]
    BY <1>15
  <2>6. QED BY <2>1, <2>3, <2>4, <2>5, <1>5, <1>17 DEF Es
<1>19. Joined(g, h, i, y, s, s)
  BY <1>3, <1>6, <1>9, <1>13, <1>15 DEF Joined
<1>20. Doubled(g, h, e, s, s, u0)
  <2>1. h.freeVertexId = g.freeVertexId /\ h.freeElementId = g.freeElementId
    BY <1>2, <1>3, <1>13, <1>15
  <2>2. QED BY <2>1, <1>5, <1>18 DEF Doubled, n0
<1>21. h.vertices = k.vertices /\ h.vertex = k.vertex /\ h.reversed = k.reversed /\ h.failed = k.failed
  BY <1>13, <1>15
<1>22. Growth(g, h, e, s, s, u0)
  <2>1. Vs(k) = Vs(g) \cup {u0, u1, u0}
    BY <1>2
  <2>2. SameRest(h, k)
    BY <1>15, <1>21 DEF SameRest
  <2>3. Family(g, h, e, s, s)
    BY <1>18 DEF Family
  <2>4. QED BY <2>1, <2>2, <2>3, <1>2, <1>19, <1>20, GrowthFrom
<1>23. QED BY <1>2, <1>19, <1>21, <1>22 DEF y

(* A second one behind the first, before the same. *)
LEMMA PlaceAgain ==
  ASSUME NEW f, Numbering(f), NEW y, NEW p \in Int, NEW q \in Int, p < q, PlaceFor(f, y, q),
         NEW z, z \notin DOMAIN f
  PROVE  PlaceFor(With(f, z, p), y, q)
<1> DEFINE F == With(f, z, p)
<1>1. DOMAIN F = DOMAIN f \cup {z} /\ F[z] = p /\ \A w \in DOMAIN f : F[w] = f[w]
  BY DEF With
<1> SUFFICES PlaceFor(F, y, q)
  OBVIOUS
<1> HIDE DEF F
<1>2. CASE y = null /\ \A w \in DOMAIN f : f[w] < q
  BY <1>1, <1>2 DEF PlaceFor
<1>3. CASE y # null /\ y \in DOMAIN f /\ f[y] > q /\ \A w \in DOMAIN f : f[w] < f[y] => f[w] < q
  <2>1. y \in DOMAIN F /\ F[y] > q
    BY <1>1, <1>3
  <2>2. \A w \in DOMAIN F : F[w] < F[y] => F[w] < q
    BY <1>1, <1>3
  <2>3. QED BY <2>1, <2>2, <1>3 DEF PlaceFor
<1>4. QED BY <1>2, <1>3 DEF PlaceFor

(* A leaf gets sons: the lists are in order. *)
LEMMA GrownLists ==
  ASSUME NEW g, NEW e, NEW i, NEW u0, NEW u1, Leaf(g, e, i, u0, u1),
         NEW h, NEW s0, NEW s1, NEW m, Growth(g, h, e, s0, s1, m),
         Joined(g, h, i, SonPlace(g, e), s0, s1),
         NEW k, Linked(g, k, e, i, u0, u1), h.vertices = k.vertices, h.vertex = k.vertex
  PROVE  WF(h) /\ Grown_(g, h, e, s0, s1, u0, u1, m)
<1>1. /\ WF(g) /\ Forest(g) /\ e \in Es(g) /\ isLeaf(g, e) /\ level(e) < maxLevel(g) /\ i = level(e) + 1
      /\ u0 = Upper(g, V0(g, e)) /\ u1 = Upper(g, V1(g, e))
  BY DEF Leaf, WF
<1>2. Grown_(g, h, e, s0, s1, u0, u1, m)
  BY <1>1, GrowthGives
<1>3. Forest(h)
  BY <1>1, <1>2, GrownForest
<1>4. /\ maxLevel(h) = maxLevel(g)
      /\ Es(h) = Es(g) \cup {s0, s1} /\ s0 \notin Es(g) /\ s1 \notin Es(g)
      /\ level(s0) = i /\ level(s1) = i
      /\ Vs(h) = Vs(g) \cup {u0, u1, m} /\ level(u0) = i /\ level(u1) = i /\ level(m) = i
      /\ \A v \in Vs(g) : Pos(h, v) = Pos(g, v)
      /\ \A x \in Es(g) : Lo(h, x) = Lo(g, x)
      /\ Lo(h, s0) = Lo(g, e) /\ (s0 # s1 => Lo(h, s0) < Lo(h, s1) /\ Lo(h, s1) < Hi(g, e))
  <2>1. s0 # s1 => Lo(h, s0) < Lo(h, s1) /\ Lo(h, s1) < Hi(g, e)
    <3> SUFFICES ASSUME s0 # s1 PROVE Lo(h, s0) < Lo(h, s1) /\ Lo(h, s1) < Hi(g, e)
      OBVIOUS
    <3>1. Hi(h, s0) = Lo(h, s1) /\ Lo(h, s0) < Hi(h, s0) /\ Lo(h, s1) < Hi(h, s1) /\ Hi(h, s1) = Hi(g, e)
      BY <1>2 DEF Grown_
    <3>2. QED BY <3>1
  <2>2. QED BY <2>1, <1>1, <1>2 DEF Grown_
<1>5. /\ \A j \in DOMAIN g.vertices \ {i} : h.vertices[j] = g.vertices[j]
      /\ Listed(k.vertices[i], PosAt(k, i))
  BY DEF Linked, Stage
<1>6. DOMAIN g.vertices = 0..maxLevel(g) /\ DOMAIN g.elements = 0..maxLevel(g) /\ i \in 0..maxLevel(g)
  BY <1>1, LeafFacts DEF Forest, Typed
<1>7. ASSUME NEW j \in 0..maxLevel(g) PROVE Listed(h.vertices[j], PosAt(h, j))
  <2>1. CASE j = i
    <3>1. PosAt(h, i) = PosAt(k, i)
      BY DEF PosAt, Pos, Vs
    <3>2. QED BY <3>1, <2>1, <1>5
  <2>2. CASE j # i
    <3>1. {v \in Vs(h) : level(v) = j} = {v \in Vs(g) : level(v) = j}
      BY <2>2, <1>4
    <3>2. PosAt(h, j) = PosAt(g, j)
      BY <3>1, <1>4 DEF PosAt
    <3>3. h.vertices[j] = g.vertices[j]
      BY <2>2, <1>5, <1>6
    <3>4. Listed(g.vertices[j], PosAt(g, j))
      BY <1>1 DEF WF, Lists
    <3>5. QED BY <3>2, <3>3, <3>4
  <2>3. QED BY <2>1, <2>2
<1>8. ASSUME NEW j \in 0..maxLevel(g) PROVE Listed(h.elements[j], LoAt(h, j))
  <2>1. CASE j = i
    <3> DEFINE f == LoAt(g, i)
               y == SonPlace(g, e)
               t == g.elements[i]
               a == Lo(h, s0)
               b == Lo(h, s1)
    <3>1. Listed(t, f) /\ Numbering(f) /\ \A v : v \in DOMAIN f <=> v \in Es(g) /\ level(v) = i
      BY <1>1, <1>6, ListedElements DEF Forest, WF
    <3>2. s0 \notin DOMAIN f /\ s1 \notin DOMAIN f
      BY <3>1, <1>4
    <3>3. /\ Lo(g, e) \in Nat /\ Hi(g, e) \in Nat /\ Lo(g, e) < Hi(g, e) /\ a \in Int /\ b \in Int
      BY <1>1, <1>2, <1>4, Extents, GrownExtents
    <3>4. a = Lo(g, e) /\ a < Hi(g, e)
      BY <1>4, <3>3
    <3>5. PlaceFor(f, y, a)
      BY <3>3, <3>4, <1>1, SonPlaceFits
    <3>6. h.elements[i] = IF s0 = s1 THEN insert(t, y, s0) ELSE insert(insert(t, y, s0), y, s1)
      BY <1>6 DEF Joined
    <3>7. LoAt(h, i) = IF s0 = s1 THEN With(f, s0, a) ELSE With(With(f, s0, a), s1, b)
      <4>1. {x \in Es(h) : level(x) = i} = {x \in Es(g) : level(x) = i} \cup {s0, s1}
        BY <1>4
      <4>2. CASE s0 = s1
        <5>1. LoAt(h, i) = With(f, s0, a)
          BY <4>1, <4>2, <1>4 DEF LoAt, With
        <5>2. QED BY <5>1, <4>2
      <4>3. CASE s0 # s1
        <5>1. LoAt(h, i) = [x \in {x \in Es(g) : level(x) = i} \cup {s0, s1} |-> Lo(h, x)]
          BY <4>1 DEF LoAt
        <5>2. With(f, s0, a) = [x \in {x \in Es(g) : level(x) = i} \cup {s0} |-> Lo(h, x)]
          BY <1>4 DEF LoAt, With
        <5> DEFINE F == With(f, s0, a)
                   S == {x \in Es(g) : level(x) = i}
        <5>3. F = [x \in S \cup {s0} |-> Lo(h, x)] /\ LoAt(h, i) = [x \in S \cup {s0, s1} |-> Lo(h, x)]
          BY <5>1, <5>2
        <5> HIDE DEF F, S
        <5>4. With(F, s1, b) = [x \in S \cup {s0, s1} |-> Lo(h, x)]
          BY <5>3 DEF With
        <5>5. QED BY <5>3, <5>4, <4>3 DEF F
      <4>4. QED BY <4>2, <4>3
    <3>8. Lo(g, e) <= b /\ b < Hi(g, e) /\ (s0 # s1 => a < b)
      BY <1>4, <3>3, <3>4
    <3>9. PlaceFor(f, y, b)
      BY <3>3, <3>8, <1>1, SonPlaceFits
    <3> HIDE DEF f, y, t, a, b
    <3>10. Listed(insert(t, y, s0), With(f, s0, a)) /\ Numbering(With(f, s0, a))
      BY <3>1, <3>2, <3>3, <3>5, InsertListed
    <3>11. CASE s0 = s1
      BY <3>6, <3>7, <3>10, <3>11, <2>1
    <3>12. CASE s0 # s1
      <4>1. PlaceFor(With(f, s0, a), y, b)
        BY <3>1, <3>2, <3>3, <3>8, <3>9, <3>12, PlaceAgain
      <4>2. s1 \notin DOMAIN With(f, s0, a)
        BY <3>2, <3>12 DEF With
      <4> DEFINE F == With(f, s0, a)
                 T == insert(t, y, s0)
      <4> HIDE DEF F, T
      <4>3. Listed(T, F) /\ Numbering(F) /\ PlaceFor(F, y, b) /\ s1 \notin DOMAIN F
        BY <3>10, <4>1, <4>2 DEF F, T
      <4>4. Listed(insert(T, y, s1), With(F, s1, b))
        BY <4>3, <3>3, InsertListed
      <4>5. QED BY <4>4, <3>6, <3>7, <3>12, <2>1 DEF F, T
    <3>13. QED BY <3>11, <3>12
  <2>2. CASE j # i
    <3>1. {x \in Es(h) : level(x) = j} = {x \in Es(g) : level(x) = j}
      BY <2>2, <1>4
    <3>2. LoAt(h, j) = LoAt(g, j)
      BY <3>1, <1>4 DEF LoAt
    <3>3. h.elements[j] = g.elements[j]
      BY <2>2, <1>6 DEF Joined
    <3>4. Listed(g.elements[j], LoAt(g, j))
      BY <1>1 DEF WF, Lists
    <3>5. QED BY <3>2, <3>3, <3>4
  <2>3. QED BY <2>1, <2>2
<1>9. Lists(h)
  BY <1>4, <1>7, <1>8 DEF Lists
<1>10. QED BY <1>2, <1>3, <1>9 DEF WF

(* refine() and the copying of a leaf keep a well-formed grid well-formed. *)
LEMMA RefinedKeeps ==
  ASSUME NEW g, WF(g), NEW e \in Es(g), isLeaf(g, e), level(e) < maxLevel(g), NEW h, h = Refined(g, e)
  PROVE  /\ WF(h) /\ h.failed = g.failed
         /\ \E s0, s1, u0, u1, m : Grown_(g, h, e, s0, s1, u0, u1, m)
<1> DEFINE i == level(e) + 1
           u0 == Upper(g, V0(g, e))
           u1 == Upper(g, V1(g, e))
           s0 == <<i, g.freeElementId>>
           s1 == <<i, g.freeElementId + 1>>
           m == <<i, g.freeVertexId>>
<1>1. Leaf(g, e, i, u0, u1)
  BY DEF Leaf
<1> HIDE DEF i, u0, u1
<1>2. /\ Growth(g, h, e, s0, s1, m)
      /\ Joined(g, h, i, SonPlace(g, e), s0, s1)
      /\ \E k : Linked(g, k, e, i, u0, u1) /\ h.vertices = k.vertices /\ h.vertex = k.vertex
  BY <1>1, RefinedMaps
<1>3. PICK k : Linked(g, k, e, i, u0, u1) /\ h.vertices = k.vertices /\ h.vertex = k.vertex
  BY <1>2
<1> HIDE DEF s0, s1, m
<1>4. WF(h) /\ Grown_(g, h, e, s0, s1, u0, u1, m)
  BY <1>1, <1>2, <1>3, GrownLists
<1>5. h.failed = g.failed
  BY <1>2 DEF Growth
<1>6. QED BY <1>4, <1>5

(* Copying a leaf keeps the grid consistent. *)
LEMMA CopiedKeeps ==
  ASSUME NEW g, WF(g), NEW e \in Es(g), isLeaf(g, e), level(e) < maxLevel(g), NEW h, h = Copied(g, e)
  PROVE  /\ WF(h) /\ h.failed = g.failed
         /\ \E s0, s1, u0, u1, m : Grown_(g, h, e, s0, s1, u0, u1, m)
<1> DEFINE i == level(e) + 1
           u0 == Upper(g, V0(g, e))
           u1 == Upper(g, V1(g, e))
           s == <<i, id(e)>>
<1>1. Leaf(g, e, i, u0, u1)
  BY DEF Leaf
<1> HIDE DEF i, u0, u1
<1>2. /\ Growth(g, h, e, s, s, u0)
      /\ Joined(g, h, i, SonPlace(g, e), s, s)
      /\ \E k : Linked(g, k, e, i, u0, u1) /\ h.vertices = k.vertices /\ h.vertex = k.vertex
  BY <1>1, CopiedMaps
<1>3. PICK k : Linked(g, k, e, i, u0, u1) /\ h.vertices = k.vertices /\ h.vertex = k.vertex
  BY <1>2
<1> HIDE DEF s
<1>4. WF(h) /\ Grown_(g, h, e, s, s, u0, u1, u0)
  BY <1>1, <1>2, <1>3, GrownLists
<1>5. h.failed = g.failed
  BY <1>2 DEF Growth
<1>6. QED BY <1>4, <1>5

(* Nothing of the top level is marked for refinement. *)
TopUnmarked(g) == \A e \in Es(g) : level(e) = maxLevel(g) => g.element[e].markState # "REFINE"

(* Elements come, and none goes. *)
Grows(g, h) ==
  /\ Es(g) \subseteq Es(h) /\ maxLevel(h) = maxLevel(g)
  /\ h.failed = g.failed /\ h.reversed = g.reversed
  /\ TopUnmarked(g) => TopUnmarked(h)

(* To grow, and to grow again, is to grow. *)
LEMMA GrowsAgain ==
  ASSUME NEW g, NEW h, NEW k, Grows(g, h), Grows(h, k)
  PROVE  Grows(g, k)
BY DEF Grows

(* A grid that stays as it is grows by nothing. *)
LEMMA GrowsNot ==
  ASSUME NEW g
  PROVE  Grows(g, g)
BY DEF Grows

(* A leaf that gets sons makes the grid grow. *)
LEMMA GrownGrows ==
  ASSUME NEW g, NEW h, h.failed = g.failed, \E e, s0, s1, u0, u1, m : Grown_(g, h, e, s0, s1, u0, u1, m)
  PROVE  Grows(g, h)
<1>1. PICK e, s0, s1, u0, u1, m : Grown_(g, h, e, s0, s1, u0, u1, m)
  OBVIOUS
<1>2. /\ Es(h) = Es(g) \cup {s0, s1} /\ maxLevel(h) = maxLevel(g) /\ h.reversed = g.reversed
      /\ \A x \in Es(g) : h.element[x].markState = g.element[x].markState
      /\ \A s \in {s0, s1} : h.element[s].markState = "DO_NOTHING"
  BY <1>1 DEF Grown_
<1>3. TopUnmarked(g) => TopUnmarked(h)
  BY <1>2 DEF TopUnmarked
<1>4. QED BY <1>2, <1>3 DEF Grows

(* One turn of the loop of refinement keeps the grid consistent. *)
LEMMA RefineMarkedKeeps ==
  ASSUME NEW g, WF(g), TopUnmarked(g), NEW e \in Es(g), NEW h, h = RefineMarked(g, e)
  PROVE  WF(h) /\ Grows(g, h)
<1>1. CASE g.element[e].markState = "REFINE" /\ isLeaf(g, e)
  <2>1. h = Refined(g, e)
    BY <1>1 DEF RefineMarked
  <2>2. level(e) < maxLevel(g)
    <3>1. level(e) # maxLevel(g)
      BY <1>1 DEF TopUnmarked
    <3>2. level(e) \in 0..maxLevel(g) /\ maxLevel(g) \in Nat
      BY Basics DEF WF, Forest
    <3>3. QED BY <3>1, <3>2
  <2>3. WF(h) /\ h.failed = g.failed /\ \E s0, s1, u0, u1, m : Grown_(g, h, e, s0, s1, u0, u1, m)
    BY <1>1, <2>1, <2>2, RefinedKeeps
  <2>4. QED BY <2>3, GrownGrows
<1>2. CASE ~(g.element[e].markState = "REFINE" /\ isLeaf(g, e))
  BY <1>2, GrowsNot DEF RefineMarked
<1>3. QED BY <1>1, <1>2

(* One turn of the loop of COPY keeps the grid consistent. *)
LEMMA CopyLeafKeeps ==
  ASSUME NEW g, WF(g), NEW e \in Es(g), level(e) < maxLevel(g), NEW h, h = CopyLeaf(g, e)
  PROVE  WF(h) /\ Grows(g, h)
<1>1. CASE isLeaf(g, e)
  <2>1. h = Copied(g, e)
    BY <1>1 DEF CopyLeaf
  <2>3. WF(h) /\ h.failed = g.failed /\ \E s0, s1, u0, u1, m : Grown_(g, h, e, s0, s1, u0, u1, m)
    BY <1>1, <2>1, CopiedKeeps
  <2>4. QED BY <2>3, GrownGrows
<1>2. CASE ~isLeaf(g, e)
  BY <1>2, GrowsNot DEF CopyLeaf
<1>3. QED BY <1>1, <1>2

-----------------------------------------------------------------------------
(* The loops.  What a loop does to the grid in one round, or to the        *)
(* numbers of the entities:                                                *)

Round(loop, g, list, k) ==
  CASE loop = "RefineLevel"     -> RefineMarked(g, list[k])
    [] loop = "RefinedAll"      -> RefineLevel(g, k - 1)
    [] loop = "CopyLevel"       -> CopyLeaf(g, list[k])
    [] loop = "WithCopies"      -> CopyLevel(g, k - 1)
    [] loop = "CoarsenLevel"    -> CoarsenPair(g, list[2 * k - 1], at(list, 2 * k))
    [] loop = "CoarsenedLevels" -> CoarsenLevel(g, k)
    [] loop = "RefinedTimes"    -> RefinedOnce(g)
    [] loop = "NumberElements"  -> NumberElement(list[1], g, list[2][k])
    [] loop = "ElementIndices"  -> NumberElements(list, g, k - 1)
    [] loop = "NumberVertices"  -> NumberVertex(list[1], g, list[2][k])
    [] loop = "VertexIndices"   -> NumberVertices(list, g, (maxLevel(list) + 1) - k)

(* What is there at first, f[0], and after each round up to the n-th. *)
Rounds(loop, f, g, list, n) ==
  f = [k \in 0..n |-> IF k = 0 THEN g ELSE Round(loop, f[k-1], list, k)]

(* There is such a sequence for every loop. *)
LEMMA RoundsExist ==
  ASSUME NEW loop, NEW g, NEW list, NEW n \in Nat
  PROVE  \E f : Rounds(loop, f, g, list, n)
<1> DEFINE T == {m \in Nat : \E f : Rounds(loop, f, g, list, m)}
<1>1. 0 \in T
  <2> DEFINE f == [k \in 0..0 |-> g]
  <2>1. f = [k \in 0..0 |-> IF k = 0 THEN g ELSE Round(loop, f[k-1], list, k)]
    OBVIOUS
  <2>2. Rounds(loop, f, g, list, 0)
    BY <2>1 DEF Rounds
  <2>3. QED BY <2>2
<1>2. ASSUME NEW m \in Nat, m \in T PROVE m + 1 \in T
  <2>1. PICK f : Rounds(loop, f, g, list, m)
    BY <1>2
  <2> DEFINE h == [k \in 0..m+1 |-> IF k = m + 1 THEN Round(loop, f[m], list, k) ELSE f[k]]
             r(k) == IF k = 0 THEN g ELSE Round(loop, h[k-1], list, k)
  <2>2. ASSUME NEW k \in 0..m+1 PROVE h[k] = r(k)
    <3>1. CASE k = m + 1
      <4>1. h[m] = f[m] /\ k - 1 = m /\ k # 0
        BY <3>1, <1>2
      <4>2. QED BY <4>1, <3>1
    <3>2. CASE k # m + 1
      <4>1. k \in 0..m /\ h[k] = f[k]
        BY <3>2, <1>2
      <4>2. f[k] = IF k = 0 THEN g ELSE Round(loop, f[k-1], list, k)
        BY <2>1, <4>1 DEF Rounds
      <4>3. k # 0 => k - 1 \in 0..m+1 /\ k - 1 # m + 1
        BY <4>1
      <4>4. k # 0 => h[k-1] = f[k-1]
        BY <4>3
      <4>5. QED BY <4>1, <4>2, <4>4
    <3>3. QED BY <3>1, <3>2
  <2>3. h = [k \in 0..m+1 |-> r(k)]
    <3>1. \A k \in 0..m+1 : h[k] = r(k)
      BY <2>2
    <3> HIDE DEF r
    <3>2. h = [k \in 0..m+1 |-> h[k]]
      OBVIOUS
    <3> HIDE DEF h
    <3>3. QED BY <3>1, <3>2
  <2>4. Rounds(loop, h, g, list, m + 1)
    BY <2>3 DEF Rounds
  <2>5. QED BY <2>4
<1> HIDE DEF T
<1>3. n \in T
  BY <1>1, <1>2, InductionOn
<1>4. QED BY <1>3 DEF T

(* The elements of a level are refined one after the other. *)
LEMMA RefineLevelIs ==
  ASSUME NEW g, NEW i, Len(g.elements[i]) \in Nat
  PROVE  \E f : /\ RefineLevel(g, i) = f[Len(g.elements[i])] /\ f[0] = g
               /\ \A k \in 1..Len(g.elements[i]) : f[k] = RefineMarked(f[k-1], g.elements[i][k])
<1> DEFINE list == g.elements[i]
           n == Len(list)
<1>1. \E f : f = [k \in 0..n |-> IF k = 0 THEN g ELSE RefineMarked(f[k-1], list[k])]
  <2> HIDE DEF n, list
  <2>1. n \in Nat
    BY DEF n, list
  <2>2. PICK f : Rounds("RefineLevel", f, g, list, n)
    BY <2>1, RoundsExist
  <2>3. \A k \in 0..n : Round("RefineLevel", f[k-1], list, k) = RefineMarked(f[k-1], list[k])
    BY DEF Round
  <2> DEFINE F == [k \in 0..n |-> IF k = 0 THEN g ELSE RefineMarked(f[k-1], list[k])]
  <2>4. f = [k \in 0..n |-> IF k = 0 THEN g ELSE Round("RefineLevel", f[k-1], list, k)]
    BY <2>2 DEF Rounds
  <2>5. \A k \in 0..n : f[k] = F[k]
    BY <2>3, <2>4
  <2>6. f = F
    BY <2>4, <2>5
  <2>7. QED BY <2>6
<1>2. PICK f : f = [k \in 0..n |-> IF k = 0 THEN g ELSE RefineMarked(f[k-1], list[k])] /\ RefineLevel(g, i) = f[n]
  BY <1>1 DEF RefineLevel
<1>3. f[0] = g /\ \A k \in 1..n : f[k] = RefineMarked(f[k-1], list[k])
  <2>1. n \in Nat
    BY DEF n, list
  <2> HIDE DEF n, list
  <2>2. QED BY <2>1, <1>2
<1>4. QED BY <1>2, <1>3

(* The elements of a level are copied one after the other. *)
LEMMA CopyLevelIs ==
  ASSUME NEW g, NEW i, Len(g.elements[i]) \in Nat
  PROVE  \E f : /\ CopyLevel(g, i) = f[Len(g.elements[i])] /\ f[0] = g
               /\ \A k \in 1..Len(g.elements[i]) : f[k] = CopyLeaf(f[k-1], g.elements[i][k])
<1> DEFINE list == g.elements[i]
           n == Len(list)
<1>1. \E f : f = [k \in 0..n |-> IF k = 0 THEN g ELSE CopyLeaf(f[k-1], list[k])]
  <2> HIDE DEF n, list
  <2>1. n \in Nat
    BY DEF n, list
  <2>2. PICK f : Rounds("CopyLevel", f, g, list, n)
    BY <2>1, RoundsExist
  <2>3. \A k \in 0..n : Round("CopyLevel", f[k-1], list, k) = CopyLeaf(f[k-1], list[k])
    BY DEF Round
  <2> DEFINE F == [k \in 0..n |-> IF k = 0 THEN g ELSE CopyLeaf(f[k-1], list[k])]
  <2>4. f = [k \in 0..n |-> IF k = 0 THEN g ELSE Round("CopyLevel", f[k-1], list, k)]
    BY <2>2 DEF Rounds
  <2>5. \A k \in 0..n : f[k] = F[k]
    BY <2>3, <2>4
  <2>6. f = F
    BY <2>4, <2>5
  <2>7. QED BY <2>6
<1>2. PICK f : f = [k \in 0..n |-> IF k = 0 THEN g ELSE CopyLeaf(f[k-1], list[k])] /\ CopyLevel(g, i) = f[n]
  BY <1>1 DEF CopyLevel
<1>3. f[0] = g /\ \A k \in 1..n : f[k] = CopyLeaf(f[k-1], list[k])
  <2>1. n \in Nat
    BY DEF n, list
  <2> HIDE DEF n, list
  <2>2. QED BY <2>1, <1>2
<1>4. QED BY <1>2, <1>3

(* The elements of a level are coarsened in pairs. *)
Pairs(f, g, list, n) ==
  f[0] = g /\ \A k \in 1..n : f[k] = CoarsenPair(f[k-1], list[2 * k - 1], at(list, 2 * k))

(* CoarsenLevel, as a chain of its turns. *)
LEMMA CoarsenLevelIs ==
  ASSUME NEW g, NEW i, (Len(g.elements[i]) + 1) \div 2 \in Nat
  PROVE  \E f : /\ CoarsenLevel(g, i) = f[(Len(g.elements[i]) + 1) \div 2]
               /\ Pairs(f, g, g.elements[i], (Len(g.elements[i]) + 1) \div 2)
<1> DEFINE list == g.elements[i]
           n == (Len(list) + 1) \div 2
<1>1. \E f : f = [k \in 0..n |-> IF k = 0 THEN g ELSE CoarsenPair(f[k-1], list[2 * k - 1], at(list, 2 * k))]
  <2> HIDE DEF n, list
  <2>1. n \in Nat
    BY DEF n, list
  <2>2. PICK f : Rounds("CoarsenLevel", f, g, list, n)
    BY <2>1, RoundsExist
  <2>3. \A k \in 0..n : Round("CoarsenLevel", f[k-1], list, k) = CoarsenPair(f[k-1], list[2 * k - 1], at(list, 2 * k))
    BY DEF Round
  <2> DEFINE F == [k \in 0..n |-> IF k = 0 THEN g ELSE CoarsenPair(f[k-1], list[2 * k - 1], at(list, 2 * k))]
  <2>4. f = [k \in 0..n |-> IF k = 0 THEN g ELSE Round("CoarsenLevel", f[k-1], list, k)]
    BY <2>2 DEF Rounds
  <2>5. \A k \in 0..n : f[k] = F[k]
    BY <2>3, <2>4
  <2>6. f = F
    BY <2>4, <2>5
  <2>7. QED BY <2>6
<1>2. PICK f : f = [k \in 0..n |-> IF k = 0 THEN g ELSE CoarsenPair(f[k-1], list[2 * k - 1], at(list, 2 * k))] /\ CoarsenLevel(g, i) = f[n]
  BY <1>1 DEF CoarsenLevel
<1>3. f[0] = g /\ \A k \in 1..n : f[k] = CoarsenPair(f[k-1], list[2 * k - 1], at(list, 2 * k))
  <2>1. n \in Nat
    BY DEF n, list
  <2> HIDE DEF n, list
  <2>2. QED BY <2>1, <1>2
<1>4. QED BY <1>2, <1>3 DEF Pairs

(* The levels are refined from the bottom up. *)
LEMMA RefinedAllIs ==
  ASSUME NEW g, maxLevel(g) + 1 \in Nat
  PROVE  \E f : /\ RefinedAll(g) = f[maxLevel(g) + 1] /\ f[0] = WithTopLevel(g)
               /\ \A k \in 1..(maxLevel(g) + 1) : f[k] = RefineLevel(f[k-1], k - 1)
<1> DEFINE n == maxLevel(g) + 1
<1>1. \E f : f = [k \in 0..n |-> IF k = 0 THEN WithTopLevel(g) ELSE RefineLevel(f[k-1], k - 1)]
  <2> HIDE DEF n
  <2>1. n \in Nat
    BY DEF n
  <2>2. PICK f : Rounds("RefinedAll", f, WithTopLevel(g), null, n)
    BY <2>1, RoundsExist
  <2>3. \A k \in 0..n : Round("RefinedAll", f[k-1], null, k) = RefineLevel(f[k-1], k - 1)
    BY DEF Round
  <2> DEFINE F == [k \in 0..n |-> IF k = 0 THEN WithTopLevel(g) ELSE RefineLevel(f[k-1], k - 1)]
  <2>4. f = [k \in 0..n |-> IF k = 0 THEN WithTopLevel(g) ELSE Round("RefinedAll", f[k-1], null, k)]
    BY <2>2 DEF Rounds
  <2>5. \A k \in 0..n : f[k] = F[k]
    BY <2>3, <2>4
  <2>6. f = F
    BY <2>4, <2>5
  <2>7. QED BY <2>6
<1>2. PICK f : f = [k \in 0..n |-> IF k = 0 THEN WithTopLevel(g) ELSE RefineLevel(f[k-1], k - 1)] /\ RefinedAll(g) = f[n]
  BY <1>1 DEF RefinedAll
<1>3. f[0] = WithTopLevel(g) /\ \A k \in 1..n : f[k] = RefineLevel(f[k-1], k - 1)
  <2>1. n \in Nat
    BY DEF n
  <2> HIDE DEF n
  <2>2. QED BY <2>1, <1>2
<1>4. QED BY <1>2, <1>3

(* So are they copied ... *)
LEMMA WithCopiesIs ==
  ASSUME NEW g, maxLevel(g) \in Nat, refinementType = "COPY"
  PROVE  \E f : /\ WithCopies(g) = f[maxLevel(g)] /\ f[0] = g
               /\ \A k \in 1..maxLevel(g) : f[k] = CopyLevel(f[k-1], k - 1)
<1> DEFINE n == maxLevel(g)
<1>1. \E f : f = [k \in 0..n |-> IF k = 0 THEN g ELSE CopyLevel(f[k-1], k - 1)]
  <2> HIDE DEF n
  <2>1. n \in Nat
    BY DEF n
  <2>2. PICK f : Rounds("WithCopies", f, g, null, n)
    BY <2>1, RoundsExist
  <2>3. \A k \in 0..n : Round("WithCopies", f[k-1], null, k) = CopyLevel(f[k-1], k - 1)
    BY DEF Round
  <2> DEFINE F == [k \in 0..n |-> IF k = 0 THEN g ELSE CopyLevel(f[k-1], k - 1)]
  <2>4. f = [k \in 0..n |-> IF k = 0 THEN g ELSE Round("WithCopies", f[k-1], null, k)]
    BY <2>2 DEF Rounds
  <2>5. \A k \in 0..n : f[k] = F[k]
    BY <2>3, <2>4
  <2>6. f = F
    BY <2>4, <2>5
  <2>7. QED BY <2>6
<1>2. PICK f : f = [k \in 0..n |-> IF k = 0 THEN g ELSE CopyLevel(f[k-1], k - 1)] /\ WithCopies(g) = f[n]
  BY <1>1 DEF WithCopies
<1>3. f[0] = g /\ \A k \in 1..n : f[k] = CopyLevel(f[k-1], k - 1)
  <2>1. n \in Nat
    BY DEF n
  <2> HIDE DEF n
  <2>2. QED BY <2>1, <1>2
<1>4. QED BY <1>2, <1>3

(* ... and coarsened. *)
LEMMA CoarsenedLevelsIs ==
  ASSUME NEW g, maxLevel(g) \in Nat
  PROVE  \E f : /\ CoarsenedLevels(g) = f[maxLevel(g)] /\ f[0] = g
               /\ \A k \in 1..maxLevel(g) : f[k] = CoarsenLevel(f[k-1], k)
<1> DEFINE n == maxLevel(g)
<1>1. \E f : f = [k \in 0..n |-> IF k = 0 THEN g ELSE CoarsenLevel(f[k-1], k)]
  <2> HIDE DEF n
  <2>1. n \in Nat
    BY DEF n
  <2>2. PICK f : Rounds("CoarsenedLevels", f, g, null, n)
    BY <2>1, RoundsExist
  <2>3. \A k \in 0..n : Round("CoarsenedLevels", f[k-1], null, k) = CoarsenLevel(f[k-1], k)
    BY DEF Round
  <2> DEFINE F == [k \in 0..n |-> IF k = 0 THEN g ELSE CoarsenLevel(f[k-1], k)]
  <2>4. f = [k \in 0..n |-> IF k = 0 THEN g ELSE Round("CoarsenedLevels", f[k-1], null, k)]
    BY <2>2 DEF Rounds
  <2>5. \A k \in 0..n : f[k] = F[k]
    BY <2>3, <2>4
  <2>6. f = F
    BY <2>4, <2>5
  <2>7. QED BY <2>6
<1>2. PICK f : f = [k \in 0..n |-> IF k = 0 THEN g ELSE CoarsenLevel(f[k-1], k)] /\ CoarsenedLevels(g) = f[n]
  BY <1>1 DEF CoarsenedLevels
<1>3. f[0] = g /\ \A k \in 1..n : f[k] = CoarsenLevel(f[k-1], k)
  <2>1. n \in Nat
    BY DEF n
  <2> HIDE DEF n
  <2>2. QED BY <2>1, <1>2
<1>4. QED BY <1>2, <1>3

(* globalRefine() repeats its step. *)
LEMMA RefinedTimesIs ==
  ASSUME NEW g, NEW n, n \in Nat
  PROVE  \E f : /\ RefinedTimes(g, n) = f[n] /\ f[0] = g
               /\ \A k \in 1..n : f[k] = RefinedOnce(f[k-1])
<1>1. \E f : f = [k \in 0..n |-> IF k = 0 THEN g ELSE RefinedOnce(f[k-1])]
  <2>1. n \in Nat
    OBVIOUS
  <2>2. PICK f : Rounds("RefinedTimes", f, g, null, n)
    BY <2>1, RoundsExist
  <2>3. \A k \in 0..n : Round("RefinedTimes", f[k-1], null, k) = RefinedOnce(f[k-1])
    BY DEF Round
  <2> DEFINE F == [k \in 0..n |-> IF k = 0 THEN g ELSE RefinedOnce(f[k-1])]
  <2>4. f = [k \in 0..n |-> IF k = 0 THEN g ELSE Round("RefinedTimes", f[k-1], null, k)]
    BY <2>2 DEF Rounds
  <2>5. \A k \in 0..n : f[k] = F[k]
    BY <2>3, <2>4
  <2>6. f = F
    BY <2>4, <2>5
  <2>7. QED BY <2>6
<1>2. PICK f : f = [k \in 0..n |-> IF k = 0 THEN g ELSE RefinedOnce(f[k-1])] /\ RefinedTimes(g, n) = f[n]
  BY <1>1 DEF RefinedTimes
<1>3. f[0] = g /\ \A k \in 1..n : f[k] = RefinedOnce(f[k-1])
  <2>1. n \in Nat
    OBVIOUS
  <2>2. QED BY <2>1, <1>2
<1>4. QED BY <1>2, <1>3

(* Each list of a level has the elements of the level. *)
LEMMA LevelList ==
  ASSUME NEW g, WF(g), NEW i \in 0..maxLevel(g)
  PROVE  /\ Len(g.elements[i]) \in Nat /\ DOMAIN g.elements[i] = 1..Len(g.elements[i])
         /\ \A k \in 1..Len(g.elements[i]) : g.elements[i][k] \in Es(g) /\ level(g.elements[i][k]) = i
<1> DEFINE list == g.elements[i]
           f == LoAt(g, i)
<1>1. Listed(list, f) /\ \A v : v \in DOMAIN f <=> v \in Es(g) /\ level(v) = i
  BY ListedElements DEF WF, Forest
<1> HIDE DEF list, f
<1>2. Len(list) \in Nat /\ DOMAIN list = 1..Len(list) /\ \A k \in 1..Len(list) : list[k] \in DOMAIN f
  BY <1>1, ListedMembers
<1>3. QED BY <1>1, <1>2 DEF list

(* Refinement of a level keeps the grid consistent. *)
LEMMA RefineLevelKeeps ==
  ASSUME NEW g, WF(g), TopUnmarked(g), NEW i \in 0..maxLevel(g), NEW h, h = RefineLevel(g, i)
  PROVE  WF(h) /\ Grows(g, h)
<1> DEFINE list == g.elements[i]
           n == Len(list)
<1>1. n \in Nat /\ \A k \in 1..n : list[k] \in Es(g)
  BY LevelList
<1>2. PICK f : h = f[n] /\ f[0] = g /\ \A k \in 1..n : f[k] = RefineMarked(f[k-1], list[k])
  BY <1>1, RefineLevelIs
<1> HIDE DEF n, list
<1> DEFINE T == {k \in Nat : k <= n => WF(f[k]) /\ Grows(g, f[k])}
<1>3. 0 \in T
  BY <1>2, GrowsNot
<1>4. ASSUME NEW k \in Nat, k \in T PROVE k + 1 \in T
  <2> SUFFICES ASSUME k + 1 <= n PROVE WF(f[k+1]) /\ Grows(g, f[k+1])
    OBVIOUS
  <2>1. WF(f[k]) /\ Grows(g, f[k])
    BY <1>4, <1>1
  <2>2. k + 1 \in 1..n /\ (k + 1) - 1 = k
    BY <1>1
  <2>3. f[k+1] = RefineMarked(f[k], list[k+1]) /\ list[k+1] \in Es(g)
    BY <1>1, <1>2, <2>2
  <2>4. TopUnmarked(f[k]) /\ list[k+1] \in Es(f[k])
    BY <2>1, <2>3 DEF Grows
  <2>5. WF(f[k+1]) /\ Grows(f[k], f[k+1])
    BY <2>1, <2>3, <2>4, RefineMarkedKeeps
  <2>6. QED BY <2>1, <2>5, GrowsAgain
<1> HIDE DEF T
<1>5. n \in T
  BY <1>1, <1>3, <1>4, InductionOn
<1>6. QED BY <1>1, <1>2, <1>5 DEF T

(* COPY on a level keeps the grid consistent. *)
LEMMA CopyLevelKeeps ==
  ASSUME NEW g, WF(g), NEW i \in 0..maxLevel(g), i < maxLevel(g), NEW h, h = CopyLevel(g, i)
  PROVE  WF(h) /\ Grows(g, h)
<1> DEFINE list == g.elements[i]
           n == Len(list)
<1>1. n \in Nat /\ \A k \in 1..n : list[k] \in Es(g) /\ level(list[k]) = i
  BY LevelList
<1>2. PICK f : h = f[n] /\ f[0] = g /\ \A k \in 1..n : f[k] = CopyLeaf(f[k-1], list[k])
  BY <1>1, CopyLevelIs
<1> HIDE DEF n, list
<1> DEFINE T == {k \in Nat : k <= n => WF(f[k]) /\ Grows(g, f[k])}
<1>3. 0 \in T
  BY <1>2, GrowsNot
<1>4. ASSUME NEW k \in Nat, k \in T PROVE k + 1 \in T
  <2> SUFFICES ASSUME k + 1 <= n PROVE WF(f[k+1]) /\ Grows(g, f[k+1])
    OBVIOUS
  <2>1. WF(f[k]) /\ Grows(g, f[k])
    BY <1>4, <1>1
  <2>2. k + 1 \in 1..n /\ (k + 1) - 1 = k
    BY <1>1
  <2>3. f[k+1] = CopyLeaf(f[k], list[k+1]) /\ list[k+1] \in Es(g) /\ level(list[k+1]) = i
    BY <1>1, <1>2, <2>2
  <2>4. list[k+1] \in Es(f[k]) /\ level(list[k+1]) < maxLevel(f[k])
    BY <2>1, <2>3 DEF Grows
  <2>5. WF(f[k+1]) /\ Grows(f[k], f[k+1])
    BY <2>1, <2>3, <2>4, CopyLeafKeeps
  <2>6. QED BY <2>1, <2>5, GrowsAgain
<1> HIDE DEF T
<1>5. n \in T
  BY <1>1, <1>3, <1>4, InductionOn
<1>6. QED BY <1>1, <1>2, <1>5 DEF T

-----------------------------------------------------------------------------
(* Levels come and go *)

(* What is said of the maps stays true when only the number of levels changes. *)
LEMMA ForestAgain ==
  ASSUME NEW g, Forest(g), NEW h, Shape(h), NEW n \in 0..LevelLimit,
         h.element = g.element, h.vertex = g.vertex, h.reversed = g.reversed,
         h.freeVertexId = g.freeVertexId, h.freeElementId = g.freeElementId,
         DOMAIN h.elements = 0..n, DOMAIN h.vertices = 0..n,
         \A v \in Vs(g) : level(v) <= n, \A e \in Es(g) : level(e) <= n
  PROVE  Forest(h) /\ maxLevel(h) = n
<1>1. maxLevel(h) = n
  BY MaxLevelIs, LimitsAssumption
<1>2. Vs(h) = Vs(g) /\ Es(h) = Es(g)
  BY DEF Vs, Es
<1>3. Typed(h)
  <2>1. ASSUME NEW v \in Vs(g) PROVE v \in (0..n) \X Int
    <3>1. v = <<level(v), id(v)>> /\ level(v) \in Nat /\ id(v) \in Int /\ level(v) <= n
      BY Basics DEF Forest
    <3>2. level(v) \in 0..n
      BY <3>1
    <3>3. QED BY <3>1, <3>2
  <2>2. ASSUME NEW v \in Es(g) PROVE v \in (0..n) \X Int
    <3>1. v = <<level(v), id(v)>> /\ level(v) \in Nat /\ id(v) \in Int /\ level(v) <= n
      BY Basics DEF Forest
    <3>2. level(v) \in 0..n
      BY <3>1
    <3>3. QED BY <3>1, <3>2
  <2>3. /\ g.freeVertexId \in Int /\ g.freeElementId \in Int /\ g.reversed \in BOOLEAN
        /\ g.vertex \in [Vs(g) -> VertexType(Vs(g))]
        /\ g.element \in [Es(g) -> ElementType(Vs(g), Es(g))]
    BY DEF Forest, Typed
  <2>4. Vs(g) \subseteq (0..n) \X Int /\ Es(g) \subseteq (0..n) \X Int
    BY <2>1, <2>2
  <2>5. h.freeVertexId \in Int /\ h.freeElementId \in Int /\ h.reversed \in BOOLEAN
    BY <2>3
  <2>6. h.vertex \in [Vs(h) -> VertexType(Vs(h))] /\ h.element \in [Es(h) -> ElementType(Vs(h), Es(h))]
    BY <2>3, <1>2
  <2>7. QED BY <1>1, <1>2, <2>4, <2>5, <2>6 DEF Typed
<1>4. /\ \A e : V0(h, e) = V0(g, e) /\ V1(h, e) = V1(g, e) /\ isLeaf(h, e) = isLeaf(g, e)
      /\ \A v : Pos(h, v) = Pos(g, v) /\ son(h, v) = son(g, v)
  BY DEF V0, V1, Pos, son, isLeaf
<1>5. \A e : Lo(h, e) = Lo(g, e) /\ Hi(h, e) = Hi(g, e)
  BY <1>4 DEF Lo, Hi
<1>6. Sized(h)
  BY <1>2, <1>4, <1>5 DEF Forest, Sized
<1>7. Nested(h)
  BY <1>2, <1>4, <1>5 DEF Forest, Nested, Apart, Within
<1>8. AllEnds(h) /\ Covered(h)
  BY <1>2, <1>4, <1>5 DEF Forest, AllEnds, Covered
<1>9. Fathers(h)
  BY <1>2 DEF Forest, Fathers
<1>10. SonsOf(h)
  BY <1>2, <1>4 DEF Forest, SonsOf
<1>11. Copies(h)
  BY <1>2, <1>4 DEF Forest, Copies
<1>12. Ids(h)
  <2>1. Ids(g)
    BY DEF Forest
  <2>2. QED BY <2>1, <1>2, <1>4, <1>5 DEF Ids
<1>13. Marks(h) /\ Flags(h)
  BY <1>2 DEF Forest, Marks, Flags
<1>14. QED BY <1>1, <1>3, <1>6, <1>7, <1>8, <1>9, <1>10, <1>11, <1>12, <1>13 DEF Forest

(* The order is a matter of the maps alone. *)
LEMMA ListsSame ==
  ASSUME NEW g, NEW h, h.element = g.element, h.vertex = g.vertex
  PROVE  \A i : PosAt(h, i) = PosAt(g, i) /\ LoAt(h, i) = LoAt(g, i)
<1>1. Vs(h) = Vs(g) /\ Es(h) = Es(g)
  BY DEF Vs, Es
<1>2. \A v : Pos(h, v) = Pos(g, v)
  BY DEF Pos
<1>3. \A e : Lo(h, e) = Lo(g, e)
  BY <1>2 DEF Lo, V0
<1>4. QED BY <1>1, <1>2, <1>3 DEF PosAt, LoAt

(* No list of a level is empty. *)
Full(g) == \A i \in 0..maxLevel(g) : \E e \in Es(g) : level(e) = i

(* ... except, perhaps, that of the last. *)
Almost(g) == \A i \in 0..maxLevel(g) : i < maxLevel(g) => \E e \in Es(g) : level(e) = i

(* The empty list is the list of nothing. *)
LEMMA EmptyListed ==
  ASSUME NEW f, DOMAIN f = {}
  PROVE  Listed(<<>>, f)
<1>1. <<>> \in Seq(DOMAIN f) /\ Len(<<>>) = 0
  OBVIOUS
<1>2. QED BY <1>1 DEF Listed

(* The list of nothing is empty. *)
LEMMA ListedNone ==
  ASSUME NEW f, DOMAIN f = {}, NEW s, Listed(s, f)
  PROVE  s = <<>>
<1>1. s \in Seq(DOMAIN f) /\ Len(s) \in Nat /\ \A k \in 1..Len(s) : s[k] \in DOMAIN f
  BY ListedMembers DEF Listed
<1>2. Len(s) = 0
  <2>1. ASSUME Len(s) # 0 PROVE FALSE
    <3>1. 1 \in 1..Len(s)
      BY <1>1, <2>1
    <3>2. QED BY <1>1, <3>1
  <2>2. QED BY <2>1
<1>3. QED BY <1>1, <1>2, EmptySeq

(* A new top level keeps the grid consistent, and nothing on it is marked. *)
LEMMA WithTopLevelKeeps ==
  ASSUME NEW g, WF(g), Almost(g), NEW h, h = WithTopLevel(g)
  PROVE  /\ WF(h) /\ TopUnmarked(h) /\ Es(h) = Es(g) /\ h.failed = g.failed /\ h.reversed = g.reversed
         /\ maxLevel(h) = maxLevel(g) \/ maxLevel(h) = maxLevel(g) + 1
         /\ Almost(h)
<1> DEFINE n == maxLevel(g)
<1>1. n \in Nat /\ n <= LevelLimit /\ LevelLimit \in Nat
  BY Basics DEF WF, Forest
<1>2. \A e : e \in ToSet(g.elements[n]) <=> e \in Es(g) /\ level(e) = n
  <2>1. /\ Listed(g.elements[n], LoAt(g, n))
        /\ \A v : v \in DOMAIN LoAt(g, n) <=> v \in Es(g) /\ level(v) = n
    <3>1. n \in 0..maxLevel(g)
      BY <1>1
    <3>2. QED BY <3>1, ListedElements DEF WF, Forest
  <2>2. DOMAIN g.elements[n] = 1..Len(g.elements[n]) /\ \A k \in 1..Len(g.elements[n]) : g.elements[n][k] \in DOMAIN LoAt(g, n)
    BY <2>1, ListedMembers
  <2>3. \A x \in DOMAIN LoAt(g, n) : \E k \in 1..Len(g.elements[n]) : g.elements[n][k] = x
    BY <2>1 DEF Listed
  <2>4. QED BY <2>1, <2>2, <2>3 DEF ToSet
<1>3. CASE ~ \E e \in ToSet(g.elements[n]) : g.element[e].markState = "REFINE"
  <2>1. h = g
    BY <1>3 DEF WithTopLevel
  <2>2. TopUnmarked(h)
    BY <2>1, <1>2, <1>3 DEF TopUnmarked
  <2>3. QED BY <2>1, <2>2
<1>4. CASE \E e \in ToSet(g.elements[n]) : g.element[e].markState = "REFINE"
  <2>1. h = [g EXCEPT !.elements = With(@, n + 1, <<>>), !.vertices = With(@, n + 1, <<>>)]
    BY <1>4 DEF WithTopLevel
  <2>2. n + 1 \in 0..LevelLimit /\ \E e \in Es(g) : level(e) = n
    <3>1. PICK e \in Es(g) : level(e) = n /\ g.element[e].markState = "REFINE"
      BY <1>2, <1>4
    <3>2. level(e) < LevelLimit
      BY <3>1 DEF WF, Forest, Marks
    <3>3. QED BY <3>1, <3>2, <1>1
  <2>3. /\ Shape(g) /\ DOMAIN g.elements = 0..n /\ DOMAIN g.vertices = 0..n
    BY DEF WF, Forest, Typed
  <2>4. /\ Shape(h) /\ h.element = g.element /\ h.vertex = g.vertex /\ h.reversed = g.reversed
        /\ h.freeVertexId = g.freeVertexId /\ h.freeElementId = g.freeElementId /\ h.failed = g.failed
        /\ h.elements = With(g.elements, n + 1, <<>>) /\ h.vertices = With(g.vertices, n + 1, <<>>)
    BY <2>1, <2>3 DEF Shape
  <2>5. (0..n) \cup {n + 1} = 0..n+1
    BY <1>1
  <2>6. DOMAIN h.elements = 0..n+1 /\ DOMAIN h.vertices = 0..n+1
    BY <2>3, <2>4, <2>5 DEF With
  <2>7. \A v \in Vs(g) : level(v) <= n + 1 /\ level(v) # n + 1
    <3>1. \A v \in Vs(g) : level(v) \in 0..n
      BY Basics DEF WF, Forest
    <3>2. QED BY <3>1, <1>1
  <2>8. \A v \in Es(g) : level(v) <= n + 1 /\ level(v) # n + 1
    <3>1. \A v \in Es(g) : level(v) \in 0..n
      BY Basics DEF WF, Forest
    <3>2. QED BY <3>1, <1>1
  <2> DEFINE t == n + 1
  <2>9. t \in 0..LevelLimit /\ DOMAIN h.elements = 0..t /\ DOMAIN h.vertices = 0..t
        /\ (\A v \in Vs(g) : level(v) <= t) /\ (\A v \in Es(g) : level(v) <= t)
    BY <2>2, <2>6, <2>7, <2>8
  <2>10. Forest(h) /\ maxLevel(h) = t
    <3> HIDE DEF t
    <3>1. Forest(g)
      BY DEF WF
    <3>2. QED BY <3>1, <2>4, <2>9, ForestAgain
  <2>11. Lists(h)
    <3>1. ASSUME NEW i \in 0..t
          PROVE  Listed(h.vertices[i], PosAt(h, i)) /\ Listed(h.elements[i], LoAt(h, i))
      <4>1. PosAt(h, i) = PosAt(g, i) /\ LoAt(h, i) = LoAt(g, i)
        BY <2>4, ListsSame
      <4>2. CASE i = t
        <5>1. h.vertices[i] = <<>> /\ h.elements[i] = <<>>
          BY <4>2, <2>4 DEF With
        <5>2. DOMAIN PosAt(g, i) = {} /\ DOMAIN LoAt(g, i) = {}
          BY <2>7, <2>8, <4>2 DEF PosAt, LoAt
        <5>3. QED BY <5>1, <5>2, <4>1, EmptyListed
      <4>3. CASE i # t
        <5>1. i \in 0..n
          BY <4>3, <1>1
        <5>2. h.vertices[i] = g.vertices[i] /\ h.elements[i] = g.elements[i]
          BY <5>1, <4>3, <2>3, <2>4 DEF With
        <5>3. Listed(g.vertices[i], PosAt(g, i)) /\ Listed(g.elements[i], LoAt(g, i))
          BY <5>1 DEF WF, Lists
        <5>4. QED BY <5>2, <5>3, <4>1
      <4>4. QED BY <4>2, <4>3
    <3>2. QED BY <3>1, <2>10 DEF Lists
  <2>12. Es(h) = Es(g)
    BY <2>4 DEF Es
  <2>13. TopUnmarked(h)
    BY <2>8, <2>10, <2>12 DEF TopUnmarked
  <2>14. Almost(h)
    <3>1. ASSUME NEW i \in 0..t, i < t PROVE \E e \in Es(g) : level(e) = i
      <4>1. CASE i = n
        BY <4>1, <2>2
      <4>2. CASE i # n
        <5>1. i \in 0..n /\ i < n
          BY <4>2, <3>1, <1>1
        <5>2. QED BY <5>1 DEF Almost
      <4>3. QED BY <4>1, <4>2
    <3>2. QED BY <3>1, <2>10, <2>12 DEF Almost
  <2>15. WF(h)
    BY <2>10, <2>11 DEF WF
  <2>16. QED BY <2>4, <2>10, <2>12, <2>13, <2>14, <2>15
<1>5. QED BY <1>3, <1>4

(* A level with elements keeps them while the grid grows. *)
LEMMA AlmostGrows ==
  ASSUME NEW g, NEW h, Grows(g, h)
  PROVE  (Almost(g) => Almost(h)) /\ (Full(g) => Full(h))
<1>1. Es(g) \subseteq Es(h) /\ maxLevel(h) = maxLevel(g)
  BY DEF Grows
<1>2. Almost(g) => Almost(h)
  BY <1>1 DEF Almost
<1>3. Full(g) => Full(h)
  BY <1>1 DEF Full
<1>4. QED BY <1>2, <1>3

(* The number of levels of h is that of g, or one more. *)
OneMore(g, h) == maxLevel(h) = maxLevel(g) \/ maxLevel(h) = maxLevel(g) + 1

(* Refinement of all marked leaves keeps the grid consistent. *)
LEMMA RefinedAllKeeps ==
  ASSUME NEW g, WF(g), Almost(g), NEW h, h = RefinedAll(g)
  PROVE  /\ WF(h) /\ Almost(h) /\ OneMore(g, h) /\ Es(g) \subseteq Es(h) /\ h.failed = g.failed
         /\ h.reversed = g.reversed
<1> DEFINE w == WithTopLevel(g)
           n == maxLevel(g) + 1
<1>1. /\ WF(w) /\ TopUnmarked(w) /\ Es(w) = Es(g) /\ w.failed = g.failed /\ w.reversed = g.reversed
      /\ OneMore(g, w) /\ Almost(w)
  BY WithTopLevelKeeps DEF OneMore
<1>2. n \in Nat
  BY Basics DEF WF, Forest
<1>3. PICK f : h = f[n] /\ f[0] = w /\ \A k \in 1..n : f[k] = RefineLevel(f[k-1], k - 1)
  <2>1. PICK f : RefinedAll(g) = f[n] /\ f[0] = WithTopLevel(g) /\ \A k \in 1..n : f[k] = RefineLevel(f[k-1], k - 1)
    BY <1>2, RefinedAllIs
  <2>2. QED BY <2>1
<1>4. \A k \in 1..n : k - 1 \in 0..maxLevel(w)
  <2>1. maxLevel(g) \in Nat
    BY Basics DEF WF, Forest
  <2>2. QED BY <2>1, <1>1 DEF OneMore
<1> HIDE DEF n, w
<1> DEFINE T == {k \in Nat : k <= n => WF(f[k]) /\ Grows(w, f[k])}
<1>5. 0 \in T
  BY <1>1, <1>3, GrowsNot
<1>6. ASSUME NEW k \in Nat, k \in T PROVE k + 1 \in T
  <2> SUFFICES ASSUME k + 1 <= n PROVE WF(f[k+1]) /\ Grows(w, f[k+1])
    OBVIOUS
  <2>1. WF(f[k]) /\ Grows(w, f[k])
    BY <1>6, <1>2
  <2>2. k + 1 \in 1..n /\ (k + 1) - 1 = k
    BY <1>2
  <2>3. f[k+1] = RefineLevel(f[k], k) /\ k \in 0..maxLevel(w)
    <3>1. f[k+1] = RefineLevel(f[(k+1)-1], (k+1)-1) /\ (k+1)-1 \in 0..maxLevel(w)
      BY <1>3, <1>4, <2>2
    <3>2. QED BY <3>1, <2>2
  <2>4. TopUnmarked(f[k]) /\ k \in 0..maxLevel(f[k])
    BY <2>1, <2>3, <1>1 DEF Grows
  <2>5. WF(f[k+1]) /\ Grows(f[k], f[k+1])
    BY <2>1, <2>3, <2>4, RefineLevelKeeps
  <2>6. QED BY <2>1, <2>5, GrowsAgain
<1> HIDE DEF T
<1>7. n \in T
  BY <1>2, <1>5, <1>6, InductionOn
<1>8. WF(h) /\ Grows(w, h)
  BY <1>2, <1>3, <1>7 DEF T
<1>9. Almost(h)
  BY <1>8, <1>1, AlmostGrows
<1>10. Es(g) \subseteq Es(h) /\ h.failed = g.failed /\ h.reversed = g.reversed /\ OneMore(g, h)
  BY <1>8, <1>1 DEF Grows, OneMore
<1>11. QED BY <1>8, <1>9, <1>10

(* COPY on all levels keeps the grid consistent. *)
LEMMA WithCopiesKeeps ==
  ASSUME NEW g, WF(g), NEW h, h = WithCopies(g)
  PROVE  WF(h) /\ Grows(g, h)
<1>1. CASE refinementType # "COPY"
  BY <1>1, GrowsNot DEF WithCopies
<1>2. CASE refinementType = "COPY"
  <2> DEFINE n == maxLevel(g)
  <2>1. n \in Nat
    BY Basics DEF WF, Forest
  <2>2. PICK f : h = f[n] /\ f[0] = g /\ \A k \in 1..n : f[k] = CopyLevel(f[k-1], k - 1)
    BY <2>1, <1>2, WithCopiesIs
  <2>3. \A k \in 1..n : k - 1 \in 0..maxLevel(g) /\ k - 1 < maxLevel(g)
    BY <2>1
  <2> HIDE DEF n
  <2> DEFINE T == {k \in Nat : k <= n => WF(f[k]) /\ Grows(g, f[k])}
  <2>4. 0 \in T
    BY <2>2, GrowsNot
  <2>5. ASSUME NEW k \in Nat, k \in T PROVE k + 1 \in T
    <3> SUFFICES ASSUME k + 1 <= n PROVE WF(f[k+1]) /\ Grows(g, f[k+1])
      OBVIOUS
    <3>1. WF(f[k]) /\ Grows(g, f[k])
      BY <2>5, <2>1
    <3>2. k + 1 \in 1..n /\ (k + 1) - 1 = k
      BY <2>1
    <3>3. f[k+1] = CopyLevel(f[k], k) /\ k \in 0..maxLevel(g) /\ k < maxLevel(g)
      <4>1. f[k+1] = CopyLevel(f[(k+1)-1], (k+1)-1) /\ (k+1)-1 \in 0..maxLevel(g) /\ (k+1)-1 < maxLevel(g)
        BY <2>2, <2>3, <3>2
      <4>2. QED BY <4>1, <3>2
    <3>4. k \in 0..maxLevel(f[k]) /\ k < maxLevel(f[k])
      BY <3>1, <3>3 DEF Grows
    <3>5. WF(f[k+1]) /\ Grows(f[k], f[k+1])
      BY <3>1, <3>3, <3>4, CopyLevelKeeps
    <3>6. QED BY <3>1, <3>5, GrowsAgain
  <2> HIDE DEF T
  <2>6. n \in T
    BY <2>1, <2>4, <2>5, InductionOn
  <2>7. QED BY <2>1, <2>2, <2>6 DEF T
<1>3. QED BY <1>1, <1>2

(* The macro elements are never taken away. *)
LEMMA DomainNotEmpty ==
  ASSUME NEW g, Forest(g)
  PROVE  \E e \in Es(g) : TRUE
<1>1. meshSize \in Nat /\ meshSize >= 1
  BY PowerPositive, LimitsAssumption DEF meshSize
<1>2. 0 \in 0..numElements * meshSize - 1
  <2> DEFINE m == meshSize
  <2>1. m \in Nat /\ m >= 1
    BY <1>1
  <2> HIDE DEF m
  <2>2. numElements * m \in Nat /\ numElements * m >= m
    <3>1. numElements \in Nat /\ numElements >= 1
      BY numElementsAssumption
    <3>2. (numElements - 1) * m >= 0 /\ (numElements - 1) * m = numElements * m - m
      BY <2>1, <3>1
    <3>3. numElements * m \in Int
      BY <2>1, <3>1
    <3>4. QED BY <2>1, <3>1, <3>2, <3>3
  <2>3. QED BY <2>1, <2>2 DEF m
<1>3. QED BY <1>2 DEF Forest, Covered

(* Removal of an empty top level keeps the grid consistent: there is no    *)
(* vertex on it either, so that the assertion holds.                       *)
LEMMA WithoutEmptyLevelKeeps ==
  ASSUME NEW g, WF(g), Almost(g), ~g.failed, NEW h, h = WithoutEmptyLevel(g)
  PROVE  /\ WF(h) /\ Full(h) /\ Es(h) = Es(g) /\ ~h.failed /\ h.reversed = g.reversed
         /\ maxLevel(h) = maxLevel(g) \/ maxLevel(h) = maxLevel(g) - 1
<1> DEFINE n == maxLevel(g)
<1>1. n \in Nat /\ n <= LevelLimit /\ LevelLimit \in Nat /\ n \in 0..maxLevel(g)
  BY Basics DEF WF, Forest
<1>2. /\ Listed(g.elements[n], LoAt(g, n))
      /\ \A v : v \in DOMAIN LoAt(g, n) <=> v \in Es(g) /\ level(v) = n
  BY <1>1, ListedElements DEF WF, Forest
<1>3. g.elements[n] = <<>> <=> ~ \E e \in Es(g) : level(e) = n
  <2>1. ASSUME g.elements[n] = <<>>, NEW e \in Es(g), level(e) = n PROVE FALSE
    <3>1. e \in DOMAIN LoAt(g, n)
      BY <1>2, <2>1
    <3>2. PICK k \in 1..Len(<<>>) : TRUE
      BY <3>1, <1>2, <2>1 DEF Listed
    <3>3. QED BY <3>2
  <2>2. ASSUME ~ \E e \in Es(g) : level(e) = n PROVE g.elements[n] = <<>>
    <3>1. DOMAIN LoAt(g, n) = {}
      BY <1>2, <2>2
    <3>2. QED BY <3>1, <1>2, ListedNone
  <2>3. QED BY <2>1, <2>2
<1>4. CASE g.elements[n] # <<>>
  <2>1. h = g
    BY <1>4 DEF WithoutEmptyLevel
  <2>2. ASSUME NEW i \in 0..maxLevel(g) PROVE \E e \in Es(g) : level(e) = i
    <3>1. CASE i = n
      BY <3>1, <1>3, <1>4
    <3>2. CASE i # n
      <4>1. i < maxLevel(g)
        BY <3>2, <1>1
      <4>2. QED BY <4>1 DEF Almost
    <3>3. QED BY <3>1, <3>2
  <2>3. QED BY <2>1, <2>2 DEF Full
<1>5. CASE g.elements[n] = <<>>
  <2>1. h = [g EXCEPT !.failed = (g.vertices[n] # <<>>),
                      !.elements = Without(@, {n}), !.vertices = Without(@, {n})]
    BY <1>5 DEF WithoutEmptyLevel
  <2>2. \A e \in Es(g) : level(e) # n
    BY <1>3, <1>5
  <2>3. \A v \in Vs(g) : level(v) # n
    BY <2>2 DEF WF, Forest, AllEnds
  <2>4. g.vertices[n] = <<>>
    <3>1. /\ Listed(g.vertices[n], PosAt(g, n))
          /\ \A v : v \in DOMAIN PosAt(g, n) <=> v \in Vs(g) /\ level(v) = n
      BY <1>1, ListedVertices DEF WF, Forest
    <3>2. DOMAIN PosAt(g, n) = {}
      BY <3>1, <2>3
    <3>3. QED BY <3>1, <3>2, ListedNone
  <2>5. n # 0
    <3>1. PICK e \in Es(g) : TRUE
      BY DomainNotEmpty DEF WF
    <3>2. level(e) \in 0..n
      BY Basics DEF WF, Forest
    <3>3. QED BY <3>2, <2>2
  <2> DEFINE t == n - 1
  <2>6. t \in Nat /\ t \in 0..LevelLimit /\ (0..n) \ {n} = 0..t
    BY <1>1, <2>5
  <2>7. /\ Shape(g) /\ DOMAIN g.elements = 0..n /\ DOMAIN g.vertices = 0..n
    BY DEF WF, Forest, Typed
  <2>8. /\ Shape(h) /\ h.element = g.element /\ h.vertex = g.vertex /\ h.reversed = g.reversed
        /\ h.freeVertexId = g.freeVertexId /\ h.freeElementId = g.freeElementId
        /\ h.elements = Without(g.elements, {n}) /\ h.vertices = Without(g.vertices, {n})
        /\ ~h.failed
    BY <2>1, <2>4, <2>7 DEF Shape
  <2>9. DOMAIN h.elements = 0..t /\ DOMAIN h.vertices = 0..t
    BY <2>6, <2>7, <2>8 DEF Without
  <2>10. (\A v \in Vs(g) : level(v) <= t) /\ (\A v \in Es(g) : level(v) <= t)
    <3>1. (\A v \in Vs(g) : level(v) \in 0..n) /\ (\A v \in Es(g) : level(v) \in 0..n)
      BY Basics DEF WF, Forest
    <3>2. QED BY <3>1, <2>2, <2>3, <1>1
  <2>11. Forest(h) /\ maxLevel(h) = t
    <3> HIDE DEF t
    <3>1. Forest(g)
      BY DEF WF
    <3>2. QED BY <3>1, <2>6, <2>8, <2>9, <2>10, ForestAgain
  <2>12. Lists(h)
    <3>1. ASSUME NEW i \in 0..t
          PROVE  Listed(h.vertices[i], PosAt(h, i)) /\ Listed(h.elements[i], LoAt(h, i))
      <4>1. PosAt(h, i) = PosAt(g, i) /\ LoAt(h, i) = LoAt(g, i)
        BY <2>8, ListsSame
      <4>2. i \in 0..n /\ i # n
        BY <1>1
      <4>3. h.vertices[i] = g.vertices[i] /\ h.elements[i] = g.elements[i]
        BY <4>2, <2>7, <2>8 DEF Without
      <4>4. Listed(g.vertices[i], PosAt(g, i)) /\ Listed(g.elements[i], LoAt(g, i))
        BY <4>2 DEF WF, Lists
      <4>5. QED BY <4>1, <4>3, <4>4
    <3>2. QED BY <3>1, <2>11 DEF Lists
  <2>13. Es(h) = Es(g)
    BY <2>8 DEF Es
  <2>14. Full(h)
    <3>1. \A i \in 0..t : i \in 0..n /\ i < n
      BY <1>1
    <3>2. QED BY <3>1, <2>11, <2>13 DEF Full, Almost
  <2>15. WF(h)
    BY <2>11, <2>12 DEF WF
  <2>16. QED BY <2>8, <2>11, <2>13, <2>14, <2>15
<1>6. QED BY <1>4, <1>5

(* Everything that adapt() does after the coarsening. *)
LEMMA GrownKeeps ==
  ASSUME NEW g, WF(g), Almost(g), g.failed = FALSE, NEW h, h = Grown(g)
  PROVE  /\ WF(h) /\ Full(h) /\ Es(g) \subseteq Es(h) /\ h.failed = FALSE /\ h.reversed = g.reversed
         /\ maxLevel(h) <= maxLevel(g) + 1
<1> DEFINE r == RefinedAll(g)
           w == WithoutEmptyLevel(r)
<1>1. h = WithCopies(w)
  BY DEF Grown
<1>2. WF(r) /\ Almost(r) /\ OneMore(g, r) /\ Es(g) \subseteq Es(r) /\ r.failed = FALSE /\ r.reversed = g.reversed
  BY RefinedAllKeeps
<1> HIDE DEF r
<1>3. WF(w) /\ Full(w) /\ Es(w) = Es(r) /\ ~w.failed /\ w.reversed = r.reversed /\ (maxLevel(w) = maxLevel(r) \/ maxLevel(w) = maxLevel(r) - 1)
  BY <1>2, WithoutEmptyLevelKeeps
<1> HIDE DEF w
<1>4. WF(h) /\ Grows(w, h)
  BY <1>1, <1>3, WithCopiesKeeps
<1>5. Full(h)
  BY <1>3, <1>4, AlmostGrows
<1>6. maxLevel(h) <= maxLevel(g) + 1
  <2>1. maxLevel(g) \in Nat
    BY Basics DEF WF, Forest
  <2>2. maxLevel(h) = maxLevel(w)
    BY <1>4 DEF Grows
  <2>3. QED BY <2>1, <2>2, <1>2, <1>3 DEF OneMore
<1>7. QED BY <1>2, <1>3, <1>4, <1>5, <1>6 DEF Grows

(* The leaves l and r are the sons of F, on level i. *)
Sons(g, l, r, F, i) ==
  /\ l \in Es(g) /\ r \in Es(g) /\ F \in Es(g) /\ l # r
  /\ level(l) = i /\ level(r) = i /\ i \in 1..maxLevel(g) /\ level(F) = i - 1
  /\ isLeaf(g, l) /\ isLeaf(g, r)
  /\ g.element[l].father = F /\ g.element[r].father = F
  /\ g.element[F].sons[1] = l /\ g.element[F].sons[2] = r

(* Two sons and their father: the ends they share. *)
LEMMA SonsFacts ==
  ASSUME NEW g, WF(g), NEW l, NEW r, NEW F, NEW i, Sons(g, l, r, F, i)
  PROVE  /\ ~isLeaf(g, F) /\ F # l /\ F # r
         /\ son(g, V0(g, F)) = V0(g, l) /\ son(g, V1(g, F)) = V1(g, r) /\ V1(g, l) = V0(g, r)
         /\ Lo(g, F) = Lo(g, l) /\ Hi(g, F) = Hi(g, r) /\ Hi(g, l) = Lo(g, r)
         /\ Lo(g, l) \in Nat /\ Hi(g, l) \in Nat /\ Hi(g, r) \in Nat
         /\ Lo(g, l) < Hi(g, l) /\ Lo(g, r) < Hi(g, r)
         /\ level(V0(g, l)) = i /\ level(V1(g, l)) = i /\ level(V1(g, r)) = i
<1>1. l \in Es(g) /\ r \in Es(g) /\ F \in Es(g) /\ level(l) = i /\ level(r) = i
  BY DEF Sons
<1>2. ~isLeaf(g, F)
  <2>1. g.element[F].sons[1] # null
    <3>1. l # null
      BY <1>1, Basics DEF WF, Forest
    <3>2. QED BY <3>1 DEF Sons
  <2>2. QED BY <2>1, <1>1, Basics DEF WF, Forest
<1>3. F # l /\ F # r
  BY <1>2 DEF Sons
<1>4. son(g, V0(g, F)) = V0(g, l) /\ son(g, V1(g, F)) = V1(g, r) /\ V1(g, l) = V0(g, r)
  BY <1>1, <1>2 DEF WF, Forest, SonsOf, Sons
<1>5. /\ V0(g, F) \in Vs(g) /\ V1(g, F) \in Vs(g) /\ V0(g, l) \in Vs(g) /\ V1(g, r) \in Vs(g)
      /\ V0(g, l) # null /\ V1(g, r) # null
  BY <1>1, Basics DEF WF, Forest
<1>6. Pos(g, V0(g, l)) = Pos(g, V0(g, F)) /\ Pos(g, V1(g, r)) = Pos(g, V1(g, F))
  BY <1>4, <1>5 DEF WF, Forest, Copies
<1>7. Lo(g, F) = Lo(g, l) /\ Hi(g, F) = Hi(g, r) /\ Hi(g, l) = Lo(g, r)
  BY <1>4, <1>6 DEF Lo, Hi
<1>8. /\ Lo(g, l) \in Nat /\ Hi(g, l) \in Nat /\ Hi(g, r) \in Nat
      /\ Lo(g, l) < Hi(g, l) /\ Lo(g, r) < Hi(g, r)
      /\ level(V0(g, l)) = i /\ level(V1(g, l)) = i /\ level(V1(g, r)) = i
  BY <1>1, Basics, Positive DEF WF, Forest
<1>9. QED BY <1>2, <1>3, <1>4, <1>7, <1>8

(* The maps of h are those of g without the sons l and r of F and the      *)
(* vertices in gone; the vertices in was lose their copies.                *)
Pruned(g, h, l, r, F, gone, was) ==
  /\ Shape(h) /\ h.reversed = g.reversed /\ h.failed = g.failed
  /\ h.freeVertexId = g.freeVertexId /\ h.freeElementId = g.freeElementId
  /\ DOMAIN h.elements = DOMAIN g.elements /\ DOMAIN h.vertices = DOMAIN g.vertices
  /\ Es(h) = Es(g) \ {l, r}
  /\ Vs(h) = Vs(g) \ gone
  /\ h.vertex = [v \in Vs(h) |-> h.vertex[v]] /\ h.element = [x \in Es(h) |-> h.element[x]]
  /\ \A v \in Vs(h) :
       h.vertex[v] = [pos |-> Pos(g, v), son |-> IF v \in was THEN null ELSE son(g, v)]
  /\ \A x \in Es(h) :
       h.element[x] = IF x = F THEN [g.element[F] EXCEPT !.sons = <<null, null>>, !.markState = "DO_NOTHING"]
                      ELSE g.element[x]

(* The lists of h are those of g, but for the level i. *)
Shortened(g, h, l, r, i) ==
  /\ h.vertices = [g.vertices EXCEPT ![i] = verticesKept(g, l, r)]
  /\ h.elements = [g.elements EXCEPT ![i] = erase(erase(g.elements[i], l), r)]

(* Removal of two sons is what Pruned and Shortened say. *)
LEMMA RemovedMaps ==
  ASSUME NEW g, WF(g), NEW l, NEW r, NEW F, NEW i, Sons(g, l, r, F, i), NEW h, h = Removed(g, l, r)
  PROVE  Pruned(g, h, l, r, F, obsolete(g, l, r), copied(g, l, r)) /\ Shortened(g, h, l, r, i)
<1> DEFINE gone == obsolete(g, l, r)
           was == copied(g, l, r)
           G == [g.element EXCEPT ![F].sons[1] = null, ![F].sons[2] = null]
           H == Without(G, {l, r})
           vs == verticesKept(g, l, r)
           es == erase(erase(g.elements[i], l), r)
           vx == [v \in Vs(g) \ gone |-> IF v \in was THEN [g.vertex[v] EXCEPT !.son = null] ELSE g.vertex[v]]
<1>1. level(l) = i /\ g.element[l].father = F /\ g.element[r].father = F /\ F \in Es(g) /\ i \in DOMAIN g.elements
      /\ i \in DOMAIN g.vertices
  BY DEF Sons, WF, Forest, Typed
<1>2. Shape(g) /\ g.element \in [Es(g) -> ElementType(Vs(g), Es(g))] /\ g.vertex \in [Vs(g) -> VertexType(Vs(g))]
  BY DEF WF, Forest, Typed
<1>3. F # l /\ F # r
  BY SonsFacts
<1>4. Unlinked(g, l, r) = [g EXCEPT !.vertices[i] = vs, !.vertex = vx, !.elements[i] = es, !.element = H]
  BY <1>1 DEF Unlinked, Vs
<1>5. h = [Unlinked(g, l, r) EXCEPT !.element[F].markState = "DO_NOTHING"]
  BY <1>1 DEF Removed
<1>6. /\ DOMAIN G = Es(g)
      /\ \A x \in Es(g) : x # F => G[x] = g.element[x]
  BY <1>1 DEF Es
<1>7. G[F] = [g.element[F] EXCEPT !.sons = <<null, null>>]
  <2> DEFINE q == g.element[F]
             s == q.sons
  <2>1. q \in ElementType(Vs(g), Es(g)) /\ s \in (Es(g) \cup {null}) \X (Es(g) \cup {null})
    BY <1>1, <1>2 DEF ElementType
  <2>2. G[F] = [q EXCEPT !.sons[1] = null, !.sons[2] = null]
    BY <1>1, <1>2 DEF Es
  <2> HIDE DEF q
  <2>3. [s EXCEPT ![1] = null, ![2] = null] = <<null, null>>
    <3> HIDE DEF s
    <3>1. QED BY <2>1
  <2>4. [q EXCEPT !.sons[1] = null, !.sons[2] = null] = [q EXCEPT !.sons = [s EXCEPT ![1] = null, ![2] = null]]
    BY <2>1 DEF ElementType
  <2>5. QED BY <2>2, <2>3, <2>4 DEF q
<1>8. /\ DOMAIN H = Es(g) \ {l, r}
      /\ \A x \in Es(g) \ {l, r} : H[x] = G[x]
  BY <1>6 DEF Without
<1> HIDE DEF G
<1> HIDE DEF H
<1>9. F \in DOMAIN H /\ H[F] = [g.element[F] EXCEPT !.sons = <<null, null>>]
  BY <1>1, <1>3, <1>7, <1>8
<1> HIDE DEF vs, es, vx
<1>10. /\ h.vertices = [g.vertices EXCEPT ![i] = vs] /\ h.elements = [g.elements EXCEPT ![i] = es]
       /\ h.vertex = vx /\ h.element = [H EXCEPT ![F].markState = "DO_NOTHING"]
       /\ h.reversed = g.reversed /\ h.failed = g.failed /\ DOMAIN h = DOMAIN g
       /\ h.freeVertexId = g.freeVertexId /\ h.freeElementId = g.freeElementId
  BY <1>2, <1>4, <1>5 DEF Shape
<1>11. Es(h) = Es(g) \ {l, r} /\ Vs(h) = Vs(g) \ gone
  BY <1>8, <1>10 DEF Es, Vs, vx
<1>12. ASSUME NEW v \in Vs(h)
       PROVE  h.vertex[v] = [pos |-> Pos(g, v), son |-> IF v \in was THEN null ELSE son(g, v)]
  <2> HIDE DEF was, gone
  <2>1. v \in Vs(g) /\ v \in Vs(g) \ gone
    BY <1>11
  <2>2. g.vertex[v] = [pos |-> Pos(g, v), son |-> son(g, v)]
    <3>1. g.vertex[v] \in VertexType(Vs(g))
      BY <1>2, <2>1
    <3>2. QED BY <3>1 DEF VertexType, Pos, son
  <2>3. h.vertex[v] = IF v \in was THEN [g.vertex[v] EXCEPT !.son = null] ELSE g.vertex[v]
    BY <1>10, <2>1 DEF vx
  <2>4. QED BY <2>2, <2>3
<1>13. ASSUME NEW x \in Es(h)
       PROVE  h.element[x] = IF x = F THEN [g.element[F] EXCEPT !.sons = <<null, null>>, !.markState = "DO_NOTHING"]
                             ELSE g.element[x]
  <2>1. CASE x # F
    BY <2>1, <1>6, <1>8, <1>10, <1>11
  <2>2. CASE x = F
    <3>1. h.element[F] = [H[F] EXCEPT !.markState = "DO_NOTHING"]
      BY <1>9, <1>10
    <3>2. QED BY <2>2, <3>1, <1>9
  <2>3. QED BY <2>1, <2>2
<1>14. h.vertex = [v \in Vs(h) |-> h.vertex[v]] /\ h.element = [x \in Es(h) |-> h.element[x]]
  <2>1. vx = [v \in DOMAIN vx |-> vx[v]]
    BY DEF vx
  <2>2. h.vertex = [v \in Vs(h) |-> h.vertex[v]]
    BY <2>1, <1>10 DEF Vs
  <2> DEFINE K == [H EXCEPT ![F].markState = "DO_NOTHING"]
  <2>3. K = [x \in DOMAIN K |-> K[x]]
    OBVIOUS
  <2>4. h.element = K
    BY <1>10
  <2> HIDE DEF K
  <2>5. h.element = [x \in Es(h) |-> h.element[x]]
    BY <2>3, <2>4 DEF Es
  <2>6. QED BY <2>2, <2>5
<1>15. DOMAIN h.elements = DOMAIN g.elements /\ DOMAIN h.vertices = DOMAIN g.vertices
  BY <1>10
<1>16. Shape(h)
  BY <1>2, <1>10 DEF Shape
<1>17. Shortened(g, h, l, r, i)
  BY <1>10 DEF Shortened, vs, es
<1> HIDE DEF gone, was
<1>18. Pruned(g, h, l, r, F, gone, was)
  BY <1>10, <1>11, <1>12, <1>13, <1>14, <1>15, <1>16 DEF Pruned
<1>19. QED BY <1>17, <1>18 DEF gone, was

(* The left vertex of l is obsolete exactly if no element ends there: the  *)
(* neighbour in the list is the only one that could.                       *)
LEMMA LeftObsolete ==
  ASSUME NEW g, WF(g), NEW l \in Es(g)
  PROVE  leftObsolete(g, l) <=> \A x \in Es(g) : V1(g, x) # V0(g, l)
<1> DEFINE p == pred(g.elements[level(l)], l)
<1>1. /\ p # null /\ V1(g, p) = V0(g, l) => p \in Es(g)
      /\ \A x \in Es(g) : V1(g, x) = V0(g, l) => x = p
  BY LeftNeighbor
<1>2. leftObsolete(g, l) <=> p = null \/ V1(g, p) # V0(g, l)
  BY DEF leftObsolete, V0, V1
<1>3. null \notin Es(g)
  BY Basics DEF WF, Forest
<1> HIDE DEF p
<1>4. QED BY <1>1, <1>2, <1>3

(* The right vertex of r is obsolete exactly if no element begins there. *)
LEMMA RightObsolete ==
  ASSUME NEW g, WF(g), NEW r \in Es(g)
  PROVE  rightObsolete(g, r) <=> \A x \in Es(g) : V0(g, x) # V1(g, r)
<1> DEFINE p == succ(g.elements[level(r)], r)
<1>1. /\ p # null /\ V0(g, p) = V1(g, r) => p \in Es(g)
      /\ \A x \in Es(g) : V0(g, x) = V1(g, r) => x = p
  BY RightNeighbor
<1>2. rightObsolete(g, r) <=> p = null \/ V0(g, p) # V1(g, r)
  BY DEF rightObsolete, V0, V1
<1>3. null \notin Es(g)
  BY Basics DEF WF, Forest
<1> HIDE DEF p
<1>4. QED BY <1>1, <1>2, <1>3

(* What goes with l and r when lo says whether the left and ro whether the *)
(* right vertex is obsolete.                                               *)
Gone(g, l, r, lo, ro) ==
  {v \in {V0(g, l), V1(g, l), V1(g, r)} :
     v = V1(g, l) \/ (lo /\ v = V0(g, l)) \/ (ro /\ v = V1(g, r))}

(* The vertices that go, and those of the father that lose their copies. *)
LEMMA GoneIs ==
  ASSUME NEW g, WF(g), NEW l, NEW r, NEW F, NEW i, Sons(g, l, r, F, i),
         NEW lo, lo = leftObsolete(g, l), NEW ro, ro = rightObsolete(g, r)
  PROVE  /\ \A v : v \in obsolete(g, l, r) <=> v \in Gone(g, l, r, lo, ro)
         /\ \A v : v \in copied(g, l, r) <=> (lo /\ v = V0(g, F)) \/ (ro /\ v = V1(g, F))
<1>1. g.element[l].father = F /\ g.element[r].father = F
  BY DEF Sons
<1>2. \A v : v \in obsolete(g, l, r) <=> v \in Gone(g, l, r, lo, ro)
  BY DEF obsolete, Gone, V0, V1
<1>3. \A v : v \in copied(g, l, r) <=> (lo /\ v = V0(g, F)) \/ (ro /\ v = V1(g, F))
  BY <1>1 DEF copied, V0, V1
<1>4. QED BY <1>2, <1>3

(* The other elements keep their vertices. *)
LEMMA EndsStay ==
  ASSUME NEW g, WF(g), NEW l, NEW r, NEW F, NEW i, Sons(g, l, r, F, i),
         NEW lo, lo = leftObsolete(g, l), NEW ro, ro = rightObsolete(g, r),
         NEW x \in Es(g), x # l, x # r
  PROVE  V0(g, x) \notin Gone(g, l, r, lo, ro) /\ V1(g, x) \notin Gone(g, l, r, lo, ro)
<1>1. l \in Es(g) /\ r \in Es(g) /\ V1(g, l) = V0(g, r) /\ level(l) = level(r) /\ Hi(g, l) = Lo(g, r)
  BY SonsFacts DEF Sons
<1>2. /\ level(V0(g, x)) = level(x) /\ level(V1(g, x)) = level(x)
      /\ level(V0(g, l)) = level(l) /\ level(V1(g, l)) = level(l)
      /\ level(V0(g, r)) = level(r) /\ level(V1(g, r)) = level(r)
  BY <1>1, Positive DEF WF, Forest
<1>3. \A y \in {l, r} : V0(g, x) # V0(g, y) /\ V1(g, x) # V1(g, y)
  <2> TAKE y \in {l, r}
  <2>1. y \in Es(g) /\ x # y
    BY <1>1
  <2>2. ASSUME level(x) = level(y), Lo(g, x) = Lo(g, y) \/ Hi(g, x) = Hi(g, y) PROVE FALSE
    BY <2>1, <2>2, SameElement DEF WF, Forest
  <2>3. V0(g, x) = V0(g, y) => level(x) = level(y) /\ Lo(g, x) = Lo(g, y)
    BY <1>2, <1>1 DEF Lo
  <2>4. V1(g, x) = V1(g, y) => level(x) = level(y) /\ Hi(g, x) = Hi(g, y)
    BY <1>2, <1>1 DEF Hi
  <2>5. QED BY <2>2, <2>3, <2>4
<1>4. lo => V1(g, x) # V0(g, l)
  BY <1>1, LeftObsolete
<1>5. ro => V0(g, x) # V1(g, r)
  BY <1>1, RightObsolete
<1>6. lo => V0(g, x) # V0(g, l)
  BY <1>3
<1>7. ro => V1(g, x) # V1(g, r)
  BY <1>3
<1>8. V0(g, x) # V1(g, l) /\ V1(g, x) # V1(g, l)
  BY <1>1, <1>3
<1>9. QED BY <1>4, <1>5, <1>6, <1>7, <1>8 DEF Gone

(* No vertex that stays is left with a copy that does not. *)
LEMMA SonsStay ==
  ASSUME NEW g, WF(g), NEW l, NEW r, NEW F, NEW i, Sons(g, l, r, F, i), NEW lo, NEW ro,
         NEW v \in Vs(g), ~(lo /\ v = V0(g, F)), ~(ro /\ v = V1(g, F)), son(g, v) # null
  PROVE  son(g, v) \notin Gone(g, l, r, lo, ro)
<1> DEFINE w == son(g, v)
<1>1. level(w) = level(v) + 1 /\ Pos(g, w) = Pos(g, v) /\ w \in Vs(g) /\ level(v) \in Int
  BY Basics DEF WF, Forest, Copies
<1>2. /\ level(V0(g, l)) = i /\ level(V1(g, l)) = i /\ level(V1(g, r)) = i /\ i \in Int /\ level(F) = i - 1
      /\ Lo(g, F) = Lo(g, l) /\ Hi(g, F) = Hi(g, r) /\ Hi(g, l) = Lo(g, r) /\ F \in Es(g)
      /\ Lo(g, l) < Hi(g, l) /\ Lo(g, r) < Hi(g, r)
      /\ Lo(g, l) \in Nat /\ Hi(g, l) \in Nat /\ Hi(g, r) \in Nat
  BY SonsFacts DEF Sons
<1>3. V0(g, F) \in Vs(g) /\ V1(g, F) \in Vs(g) /\ level(V0(g, F)) = level(F) /\ level(V1(g, F)) = level(F)
  BY <1>2, Basics, Positive DEF WF, Forest
<1>4. ASSUME lo, w = V0(g, l) PROVE FALSE
  <2>1. level(v) = level(V0(g, F)) /\ Pos(g, v) = Pos(g, V0(g, F))
    BY <1>4, <1>1, <1>2, <1>3 DEF Lo
  <2>2. v = V0(g, F)
    BY <2>1, <1>3, SameVertex DEF WF, Forest
  <2>3. QED BY <2>2, <1>4
<1>5. ASSUME ro, w = V1(g, r) PROVE FALSE
  <2>1. level(v) = level(V1(g, F)) /\ Pos(g, v) = Pos(g, V1(g, F))
    BY <1>5, <1>1, <1>2, <1>3 DEF Hi
  <2>2. v = V1(g, F)
    BY <2>1, <1>3, SameVertex DEF WF, Forest
  <2>3. QED BY <2>2, <1>5
<1>6. ASSUME w = V1(g, l) PROVE FALSE
  <2>1. level(v) = level(F) /\ Pos(g, v) = Hi(g, l)
    BY <1>6, <1>1, <1>2 DEF Hi
  <2>2. Lo(g, F) < Pos(g, v) /\ Pos(g, v) < Hi(g, F)
    BY <2>1, <1>2
  <2>3. level(F) < level(v)
    BY <2>2, <1>2, NoVertexInside DEF WF, Forest
  <2>4. QED BY <2>1, <2>3, <1>1
<1>7. QED BY <1>4, <1>5, <1>6 DEF Gone

(* What the proofs use of it. *)
Pruned_(g, h, l, r, F, i, lo, ro) ==
  /\ Sons(g, l, r, F, i)
  /\ lo <=> \A x \in Es(g) : V1(g, x) # V0(g, l)
  /\ ro <=> \A x \in Es(g) : V0(g, x) # V1(g, r)
  /\ Typed(h) /\ maxLevel(h) = maxLevel(g) /\ h.reversed = g.reversed
  /\ h.freeVertexId = g.freeVertexId /\ h.freeElementId = g.freeElementId
  /\ Es(h) = Es(g) \ {l, r}
  /\ Vs(h) = Vs(g) \ Gone(g, l, r, lo, ro)
  /\ \A v \in Vs(h) :
       /\ Pos(h, v) = Pos(g, v)
       /\ son(h, v) = IF (lo /\ v = V0(g, F)) \/ (ro /\ v = V1(g, F)) THEN null ELSE son(g, v)
  /\ \A x \in Es(h) :
       /\ V0(h, x) = V0(g, x) /\ V1(h, x) = V1(g, x) /\ Lo(h, x) = Lo(g, x) /\ Hi(h, x) = Hi(g, x)
       /\ h.element[x].father = g.element[x].father /\ h.element[x].reversed = g.element[x].reversed
       /\ h.element[x].markState = g.element[x].markState \/ h.element[x].markState = "DO_NOTHING"
       /\ x # F => h.element[x].sons = g.element[x].sons
       /\ isLeaf(h, x) <=> isLeaf(g, x) \/ x = F

(* The vertices without the sons of F. *)
LEMMA PrunedVertices ==
  ASSUME NEW g, WF(g), NEW l, NEW r, NEW F, NEW i, Sons(g, l, r, F, i), NEW h, NEW gone, NEW was,
         NEW lo, lo = leftObsolete(g, l), NEW ro, ro = rightObsolete(g, r),
         gone = Gone(g, l, r, lo, ro), \A v : v \in was <=> (lo /\ v = V0(g, F)) \/ (ro /\ v = V1(g, F)),
         Pruned(g, h, l, r, F, gone, was)
  PROVE  /\ h.vertex \in [Vs(h) -> VertexType(Vs(h))]
         /\ \A v \in Vs(h) : Pos(h, v) = Pos(g, v) /\ son(h, v) = IF v \in was THEN null ELSE son(g, v)
<1>1. \A v \in Vs(h) : h.vertex[v] = [pos |-> Pos(g, v), son |-> IF v \in was THEN null ELSE son(g, v)]
  BY DEF Pruned
<1>2. Vs(h) = Vs(g) \ gone /\ h.vertex = [v \in Vs(h) |-> h.vertex[v]]
  BY DEF Pruned
<1>3. ASSUME NEW v \in Vs(h) PROVE (IF v \in was THEN null ELSE son(g, v)) \in Vs(h) \cup {null}
  <2> SUFFICES ASSUME v \notin was, son(g, v) # null PROVE son(g, v) \in Vs(h)
    OBVIOUS
  <2>1. v \in Vs(g) /\ ~(lo /\ v = V0(g, F)) /\ ~(ro /\ v = V1(g, F))
    BY <1>2
  <2>2. son(g, v) \in Vs(g)
    BY <2>1, Basics DEF WF, Forest
  <2>3. son(g, v) \notin gone
    BY <2>1, SonsStay
  <2>4. QED BY <1>2, <2>2, <2>3
<1>4. \A v \in Vs(h) : Pos(g, v) \in Nat
  BY <1>2, Basics DEF WF, Forest
<1>5. ASSUME NEW v \in Vs(h)
      PROVE  /\ h.vertex[v] \in VertexType(Vs(h))
             /\ Pos(h, v) = Pos(g, v) /\ son(h, v) = IF v \in was THEN null ELSE son(g, v)
  <2> DEFINE p == Pos(g, v)
             s == IF v \in was THEN null ELSE son(g, v)
  <2>1. h.vertex[v] = [pos |-> p, son |-> s] /\ p \in Nat /\ s \in Vs(h) \cup {null}
    BY <1>1, <1>3, <1>4
  <2>2. SUFFICES h.vertex[v] \in VertexType(Vs(h)) /\ Pos(h, v) = p /\ son(h, v) = s
    OBVIOUS
  <2> HIDE DEF p, s
  <2>3. h.vertex[v] \in VertexType(Vs(h))
    BY <2>1 DEF VertexType
  <2>4. Pos(h, v) = p /\ son(h, v) = s
    BY <2>1 DEF Pos, son
  <2>5. QED BY <2>3, <2>4
<1>6. QED BY <1>2, <1>5

(* An element that stays, without the sons of F. *)
LEMMA PrunedElement ==
  ASSUME NEW g, WF(g), NEW l, NEW r, NEW F, NEW i, Sons(g, l, r, F, i), NEW h, NEW gone, NEW was,
         NEW lo, lo = leftObsolete(g, l), NEW ro, ro = rightObsolete(g, r),
         gone = Gone(g, l, r, lo, ro),
         Pruned(g, h, l, r, F, gone, was), NEW x \in Es(h)
  PROVE  /\ h.element[x] \in ElementType(Vs(h), Es(h))
         /\ V0(h, x) = V0(g, x) /\ V1(h, x) = V1(g, x) /\ V0(g, x) \in Vs(h) /\ V1(g, x) \in Vs(h)
         /\ h.element[x].father = g.element[x].father /\ h.element[x].reversed = g.element[x].reversed
         /\ h.element[x].markState = g.element[x].markState \/ h.element[x].markState = "DO_NOTHING"
         /\ x # F => h.element[x].sons = g.element[x].sons
         /\ isLeaf(h, x) <=> isLeaf(g, x) \/ x = F
<1>1. /\ h.element[x] = IF x = F THEN [g.element[F] EXCEPT !.sons = <<null, null>>, !.markState = "DO_NOTHING"]
                        ELSE g.element[x]
      /\ Es(h) = Es(g) \ {l, r} /\ Vs(h) = Vs(g) \ gone
  BY DEF Pruned
<1>2. x \in Es(g) /\ x # l /\ x # r /\ l \in Es(g) /\ r \in Es(g) /\ isLeaf(g, l) /\ isLeaf(g, r)
      /\ g.element[l].father = F /\ g.element[r].father = F
  BY <1>1 DEF Sons
<1>3. V0(g, x) \in Vs(h) /\ V1(g, x) \in Vs(h)
  BY <1>1, <1>2, EndsStay, Basics DEF WF, Forest
<1> DEFINE q == g.element[x]
<1>4. q \in ElementType(Vs(g), Es(g)) /\ q.vertex = <<V0(g, x), V1(g, x)>>
  <2>1. q \in ElementType(Vs(g), Es(g))
    BY <1>2 DEF WF, Forest, Typed
  <2>2. q.vertex \in Vs(g) \X Vs(g)
    BY <2>1 DEF ElementType
  <2>3. QED BY <2>1, <2>2 DEF V0, V1
<1>5. q.father \in Es(h) \cup {null}
  <2>1. ASSUME q.father = l \/ q.father = r PROVE FALSE
    <3>1. PICK y \in {l, r} : q.father = y
      BY <2>1
    <3>2. y # null /\ isLeaf(g, y) /\ y \in Es(g)
      BY <1>2, Basics DEF WF, Forest
    <3>3. g.element[y].sons[1] = x \/ g.element[y].sons[2] = x
      BY <3>1, <3>2, <1>2 DEF WF, Forest, Fathers
    <3>4. x # null
      BY <1>2, Basics DEF WF, Forest
    <3>5. QED BY <3>2, <3>3, <3>4, Basics DEF WF, Forest
  <2>2. QED BY <2>1, <1>1, <1>2, Basics DEF WF, Forest
<1>6. x # F => q.sons[1] \in Es(h) \cup {null} /\ q.sons[2] \in Es(h) \cup {null}
  <2> SUFFICES ASSUME x # F, NEW k \in {1, 2} PROVE q.sons[k] \in Es(h) \cup {null}
    OBVIOUS
  <2>1. CASE isLeaf(g, x)
    BY <2>1, <1>2, Basics DEF WF, Forest
  <2>2. CASE ~isLeaf(g, x)
    <3>1. q.sons[k] \in Es(g) /\ g.element[q.sons[k]].father = x
      BY <2>2, <1>2 DEF WF, Forest, SonsOf
    <3>2. q.sons[k] # l /\ q.sons[k] # r
      BY <3>1, <1>2
    <3>3. QED BY <3>1, <3>2, <1>1
  <2>3. QED BY <2>1, <2>2
<1>7. CASE x = F
  <2>1. h.element[x] = [q EXCEPT !.sons = <<null, null>>, !.markState = "DO_NOTHING"]
    BY <1>1, <1>7
  <2> HIDE DEF q
  <2>2. /\ h.element[x].vertex = q.vertex /\ h.element[x].father = q.father /\ h.element[x].reversed = q.reversed
        /\ h.element[x].markState = "DO_NOTHING" /\ h.element[x].sons = <<null, null>>
    BY <2>1, <1>4 DEF ElementType
  <2>3. h.element[x] \in ElementType(Vs(h), Es(h))
    <3>1. q.vertex \in Vs(h) \X Vs(h) /\ <<null, null>> \in (Es(h) \cup {null}) \X (Es(h) \cup {null})
      BY <1>3, <1>4
    <3>2. "DO_NOTHING" \in MarkStates
      BY DEF MarkStates
    <3>3. QED BY <3>1, <3>2, <2>1, <1>4, <1>5 DEF ElementType
  <2>4. isLeaf(h, x)
    BY <2>2 DEF isLeaf
  <2>5. V0(h, x) = V0(g, x) /\ V1(h, x) = V1(g, x)
    BY <2>2 DEF V0, V1, q
  <2>6. QED BY <2>2, <2>3, <2>4, <2>5, <1>3, <1>7 DEF q
<1>8. CASE x # F
  <2>1. h.element[x] = q
    BY <1>1, <1>8
  <2>2. q.sons \in (Es(h) \cup {null}) \X (Es(h) \cup {null})
    <3>1. q.sons \in (Es(g) \cup {null}) \X (Es(g) \cup {null})
      BY <1>4 DEF ElementType
    <3>2. QED BY <3>1, <1>6, <1>8
  <2>3. q.vertex \in Vs(h) \X Vs(h)
    BY <1>3, <1>4
  <2>4. h.element[x] \in ElementType(Vs(h), Es(h))
    <3> HIDE DEF q
    <3>1. QED BY <2>1, <2>2, <2>3, <1>4, <1>5 DEF ElementType
  <2>5. V0(h, x) = V0(g, x) /\ V1(h, x) = V1(g, x) /\ (isLeaf(h, x) <=> isLeaf(g, x))
    BY <2>1 DEF V0, V1, isLeaf
  <2>6. QED BY <2>1, <2>4, <2>5, <1>3, <1>8
<1>9. QED BY <1>7, <1>8

(* What the proofs use of the removal. *)
LEMMA PrunedGives ==
  ASSUME NEW g, WF(g), NEW l, NEW r, NEW F, NEW i, Sons(g, l, r, F, i), NEW h,
         Pruned(g, h, l, r, F, obsolete(g, l, r), copied(g, l, r))
  PROVE  Pruned_(g, h, l, r, F, i, leftObsolete(g, l), rightObsolete(g, r))
<1>1. PICK lo, ro, gone, was : /\ lo = leftObsolete(g, l) /\ ro = rightObsolete(g, r)
                               /\ gone = obsolete(g, l, r) /\ was = copied(g, l, r)
  OBVIOUS
<1>2. gone = Gone(g, l, r, lo, ro) /\ \A v : v \in was <=> (lo /\ v = V0(g, F)) \/ (ro /\ v = V1(g, F))
  <2>1. /\ \A v : v \in obsolete(g, l, r) <=> v \in Gone(g, l, r, lo, ro)
        /\ \A v : v \in copied(g, l, r) <=> (lo /\ v = V0(g, F)) \/ (ro /\ v = V1(g, F))
    BY <1>1, GoneIs
  <2>2. obsolete(g, l, r) = Gone(g, l, r, lo, ro)
    <3>1. \A v \in obsolete(g, l, r) : v \in Gone(g, l, r, lo, ro)
      BY <2>1
    <3>2. \A v \in Gone(g, l, r, lo, ro) : v \in obsolete(g, l, r)
      BY <2>1
    <3>3. QED BY <3>1, <3>2
  <2>3. QED BY <1>1, <2>1, <2>2
<1>3. Pruned(g, h, l, r, F, gone, was)
  BY <1>1
<1>4. /\ h.vertex \in [Vs(h) -> VertexType(Vs(h))]
      /\ \A v \in Vs(h) : Pos(h, v) = Pos(g, v) /\ son(h, v) = IF v \in was THEN null ELSE son(g, v)
  BY <1>1, <1>2, <1>3, PrunedVertices
<1>5. ASSUME NEW x \in Es(h)
      PROVE /\ h.element[x] \in ElementType(Vs(h), Es(h))
            /\ V0(h, x) = V0(g, x) /\ V1(h, x) = V1(g, x) /\ V0(g, x) \in Vs(h) /\ V1(g, x) \in Vs(h)
            /\ h.element[x].father = g.element[x].father /\ h.element[x].reversed = g.element[x].reversed
            /\ h.element[x].markState = g.element[x].markState \/ h.element[x].markState = "DO_NOTHING"
            /\ x # F => h.element[x].sons = g.element[x].sons
            /\ isLeaf(h, x) <=> isLeaf(g, x) \/ x = F
  BY <1>1, <1>2, <1>3, PrunedElement
<1>6. \A x \in Es(h) : Lo(h, x) = Lo(g, x) /\ Hi(h, x) = Hi(g, x)
  BY <1>4, <1>5 DEF Lo, Hi
<1>7. /\ Es(h) = Es(g) \ {l, r} /\ Vs(h) = Vs(g) \ gone /\ h.element = [x \in Es(h) |-> h.element[x]]
      /\ Shape(h) /\ h.reversed = g.reversed
      /\ h.freeVertexId = g.freeVertexId /\ h.freeElementId = g.freeElementId
      /\ DOMAIN h.elements = DOMAIN g.elements /\ DOMAIN h.vertices = DOMAIN g.vertices
  BY <1>3 DEF Pruned
<1>8. maxLevel(h) = maxLevel(g)
  BY <1>7 DEF maxLevel
<1>9. h.element \in [Es(h) -> ElementType(Vs(h), Es(h))]
  BY <1>5, <1>7
<1>10. Typed(h)
  <2>1. /\ maxLevel(g) \in 0..LevelLimit
        /\ DOMAIN g.elements = 0..maxLevel(g) /\ DOMAIN g.vertices = 0..maxLevel(g)
        /\ Vs(g) \subseteq (0..maxLevel(g)) \X Int
        /\ Es(g) \subseteq (0..maxLevel(g)) \X Int
        /\ g.freeVertexId \in Int /\ g.freeElementId \in Int /\ g.reversed \in BOOLEAN
    BY DEF WF, Forest, Typed
  <2>2. QED BY <2>1, <1>4, <1>7, <1>8, <1>9 DEF Typed
<1>11. l \in Es(g) /\ r \in Es(g)
  BY DEF Sons
<1>12. /\ lo <=> \A x \in Es(g) : V1(g, x) # V0(g, l)
       /\ ro <=> \A x \in Es(g) : V0(g, x) # V1(g, r)
  BY <1>1, <1>11, LeftObsolete, RightObsolete
<1>13. \A x \in Es(h) :
       /\ V0(h, x) = V0(g, x) /\ V1(h, x) = V1(g, x) /\ Lo(h, x) = Lo(g, x) /\ Hi(h, x) = Hi(g, x)
       /\ h.element[x].father = g.element[x].father /\ h.element[x].reversed = g.element[x].reversed
       /\ h.element[x].markState = g.element[x].markState \/ h.element[x].markState = "DO_NOTHING"
       /\ x # F => h.element[x].sons = g.element[x].sons
       /\ isLeaf(h, x) <=> isLeaf(g, x) \/ x = F
  BY <1>5, <1>6
<1>14. \A v \in Vs(h) :
       /\ Pos(h, v) = Pos(g, v)
       /\ son(h, v) = IF (lo /\ v = V0(g, F)) \/ (ro /\ v = V1(g, F)) THEN null ELSE son(g, v)
  BY <1>2, <1>4
<1>15. Vs(h) = Vs(g) \ Gone(g, l, r, lo, ro)
  BY <1>2, <1>7
<1>16. Pruned_(g, h, l, r, F, i, lo, ro)
  BY <1>7, <1>8, <1>10, <1>12, <1>13, <1>14, <1>15 DEF Pruned_
<1>17. QED BY <1>1, <1>16

(* Two sons go: extents are positive. *)
LEMMA PrunedSized ==
  ASSUME NEW g, WF(g), NEW h, NEW l, NEW r, NEW F, NEW i, NEW lo, NEW ro, Pruned_(g, h, l, r, F, i, lo, ro)
  PROVE  Sized(h)
<1>1. \A x \in Es(h) : /\ x \in Es(g) /\ V0(h, x) = V0(g, x) /\ V1(h, x) = V1(g, x)
                       /\ Lo(h, x) = Lo(g, x) /\ Hi(h, x) = Hi(g, x)
  BY DEF Pruned_
<1>2. QED BY <1>1 DEF WF, Forest, Sized

(* Two sons go: elements are apart or one is within the other. *)
LEMMA PrunedNested ==
  ASSUME NEW g, WF(g), NEW h, NEW l, NEW r, NEW F, NEW i, NEW lo, NEW ro, Pruned_(g, h, l, r, F, i, lo, ro)
  PROVE  Nested(h)
<1> SUFFICES ASSUME NEW e \in Es(h), NEW f \in Es(h), e # f, level(e) <= level(f)
             PROVE  Apart(h, e, f) \/ (level(e) < level(f) /\ ~isLeaf(h, e) /\ Within(h, f, e))
  BY DEF Nested
<1>1. e \in Es(g) /\ f \in Es(g) /\ f # l /\ f # r /\ l \in Es(g) /\ r \in Es(g)
  BY DEF Pruned_, Sons
<1>2. /\ Apart(h, e, f) <=> Apart(g, e, f)
      /\ Within(h, f, e) <=> Within(g, f, e)
      /\ isLeaf(h, e) <=> isLeaf(g, e) \/ e = F
  BY DEF Pruned_, Apart, Within
<1>3. Apart(g, e, f) \/ (level(e) < level(f) /\ ~isLeaf(g, e) /\ Within(g, f, e))
  BY <1>1 DEF WF, Forest, Nested
<1>4. CASE e # F
  BY <1>2, <1>3, <1>4
<1>5. CASE e = F
  <2> SUFFICES ASSUME level(F) < level(f), Within(g, f, F) PROVE FALSE
    BY <1>2, <1>3, <1>5
  <2>1. level(l) <= level(f) /\ level(r) <= level(f)
    <3>1. level(F) = i - 1 /\ level(l) = i /\ level(r) = i /\ i \in Int
      BY DEF Pruned_, Sons
    <3>2. level(f) \in Int
      BY <1>1, Basics DEF WF, Forest
    <3>3. QED BY <3>1, <3>2
  <2>2. Apart(g, l, f) /\ Apart(g, r, f)
    <3>1. isLeaf(g, l) /\ isLeaf(g, r)
      BY DEF Pruned_, Sons
    <3>2. QED BY <1>1, <2>1, <3>1 DEF WF, Forest, Nested
  <2>3. /\ Lo(g, F) = Lo(g, l) /\ Hi(g, F) = Hi(g, r) /\ Hi(g, l) = Lo(g, r)
        /\ Lo(g, l) \in Nat /\ Hi(g, l) \in Nat /\ Hi(g, r) \in Nat
    BY SonsFacts DEF Pruned_
  <2>4. Lo(g, f) \in Nat /\ Hi(g, f) \in Nat /\ Lo(g, f) < Hi(g, f)
    BY <1>1, Basics, Positive DEF WF, Forest
  <2>5. Lo(g, F) <= Lo(g, f) /\ Hi(g, f) <= Hi(g, F)
    BY DEF Within
  <2>6. /\ Hi(g, l) <= Lo(g, f) \/ Hi(g, f) <= Lo(g, l)
        /\ Hi(g, r) <= Lo(g, f) \/ Hi(g, f) <= Lo(g, r)
    BY <2>2 DEF Apart
  <2>7. QED BY <2>3, <2>4, <2>5, <2>6
<1>6. QED BY <1>4, <1>5

(* Two sons go: every vertex that stays is the end of an element. *)
LEMMA PrunedEnds ==
  ASSUME NEW g, WF(g), NEW h, NEW l, NEW r, NEW F, NEW i, NEW lo, NEW ro, Pruned_(g, h, l, r, F, i, lo, ro)
  PROVE  AllEnds(h)
<1> SUFFICES ASSUME NEW v \in Vs(h)
             PROVE  \E e \in Es(h) : level(e) = level(v) /\ (V0(h, e) = v \/ V1(h, e) = v)
  BY DEF AllEnds
<1>1. v \in Vs(g) /\ v # V1(g, l) /\ ~(lo /\ v = V0(g, l)) /\ ~(ro /\ v = V1(g, r))
  BY DEF Pruned_, Gone
<1>2. PICK e \in Es(g) : level(e) = level(v) /\ (V0(g, e) = v \/ V1(g, e) = v)
  BY <1>1 DEF WF, Forest, AllEnds
<1>3. /\ Es(h) = Es(g) \ {l, r}
      /\ \A x \in Es(h) : V0(h, x) = V0(g, x) /\ V1(h, x) = V1(g, x)
      /\ lo <=> \A x \in Es(g) : V1(g, x) # V0(g, l)
      /\ ro <=> \A x \in Es(g) : V0(g, x) # V1(g, r)
  BY DEF Pruned_
<1>4. Sons(g, l, r, F, i) /\ l \in Es(g) /\ r \in Es(g)
  BY DEF Pruned_, Sons
<1>5. V1(g, l) = V0(g, r) /\ level(V0(g, l)) = i /\ level(V1(g, r)) = i
      /\ Lo(g, l) < Hi(g, l) /\ Lo(g, r) < Hi(g, r) /\ Hi(g, l) = Lo(g, r)
      /\ Lo(g, l) \in Nat /\ Hi(g, l) \in Nat /\ Hi(g, r) \in Nat
  BY <1>4, SonsFacts
<1>6. CASE e # l /\ e # r
  BY <1>2, <1>3, <1>6
<1>7. CASE v = V0(g, l) /\ ~lo
  <2>1. PICK x \in Es(g) : V1(g, x) = V0(g, l)
    BY <1>3, <1>7
  <2>2. Hi(g, x) = Lo(g, l)
    BY <2>1 DEF Hi, Lo
  <2>3. x # l /\ x # r
    BY <2>2, <1>5
  <2>4. level(x) = level(v)
    BY <2>1, <1>7, Positive DEF WF, Forest
  <2>5. QED BY <2>1, <2>3, <2>4, <1>3, <1>7
<1>8. CASE v = V1(g, r) /\ ~ro
  <2>1. PICK x \in Es(g) : V0(g, x) = V1(g, r)
    BY <1>3, <1>8
  <2>2. Lo(g, x) = Hi(g, r)
    BY <2>1 DEF Hi, Lo
  <2>3. x # l /\ x # r
    BY <2>2, <1>5
  <2>4. level(x) = level(v)
    BY <2>1, <1>8, Positive DEF WF, Forest
  <2>5. QED BY <2>1, <2>3, <2>4, <1>3, <1>8
<1>9. CASE e = l
  BY <1>1, <1>2, <1>7, <1>9
<1>10. CASE e = r
  BY <1>1, <1>2, <1>5, <1>8, <1>10
<1>11. QED BY <1>6, <1>9, <1>10

(* Two sons go: the leaves cover the domain, with the father now one of    *)
(* them.                                                                   *)
LEMMA PrunedCovered ==
  ASSUME NEW g, WF(g), NEW h, NEW l, NEW r, NEW F, NEW i, NEW lo, NEW ro, Pruned_(g, h, l, r, F, i, lo, ro)
  PROVE  Covered(h)
<1> SUFFICES ASSUME NEW c \in 0..numElements * meshSize - 1
             PROVE  \E e \in Es(h) : isLeaf(h, e) /\ Lo(h, e) <= c /\ c < Hi(h, e)
  BY DEF Covered
<1>1. PICK e \in Es(g) : isLeaf(g, e) /\ Lo(g, e) <= c /\ c < Hi(g, e)
  BY DEF WF, Forest, Covered
<1>2. /\ Es(h) = Es(g) \ {l, r} /\ F \in Es(g)
      /\ \A x \in Es(h) : Lo(h, x) = Lo(g, x) /\ Hi(h, x) = Hi(g, x) /\ (isLeaf(h, x) <=> isLeaf(g, x) \/ x = F)
  BY DEF Pruned_, Sons
<1>3. CASE e # l /\ e # r
  BY <1>1, <1>2, <1>3
<1>4. CASE e = l \/ e = r
  <2>1. /\ F # l /\ F # r
        /\ Lo(g, F) = Lo(g, l) /\ Hi(g, F) = Hi(g, r) /\ Hi(g, l) = Lo(g, r)
        /\ Lo(g, l) < Hi(g, l) /\ Lo(g, r) < Hi(g, r)
        /\ Lo(g, l) \in Nat /\ Hi(g, l) \in Nat /\ Hi(g, r) \in Nat
    BY SonsFacts DEF Pruned_
  <2>2. c \in Int
    OBVIOUS
  <2>3. Lo(g, F) <= c /\ c < Hi(g, F)
    BY <1>1, <1>4, <2>1, <2>2
  <2>4. QED BY <1>2, <2>1, <2>3
<1>5. QED BY <1>3, <1>4

(* Two sons go: fathers know their sons. *)
LEMMA PrunedFathers ==
  ASSUME NEW g, WF(g), NEW h, NEW l, NEW r, NEW F, NEW i, NEW lo, NEW ro, Pruned_(g, h, l, r, F, i, lo, ro)
  PROVE  Fathers(h)
<1> SUFFICES ASSUME NEW e \in Es(h)
             PROVE  LET f == h.element[e].father IN
                    /\ (f = null) <=> (level(e) = 0)
                    /\ f # null => level(f) = level(e) - 1 /\ (h.element[f].sons[1] = e \/ h.element[f].sons[2] = e)
  BY DEF Fathers
<1> DEFINE f == h.element[e].father
<1>1. e \in Es(g) /\ e # l /\ e # r /\ f = g.element[e].father
  BY DEF Pruned_
<1>2. /\ (f = null) <=> (level(e) = 0)
      /\ f # null => level(f) = level(e) - 1 /\ (g.element[f].sons[1] = e \/ g.element[f].sons[2] = e)
  BY <1>1 DEF WF, Forest, Fathers
<1>3. f # null => f \in Es(h)
  BY Basics DEF Pruned_
<1>4. f = F => FALSE
  <2>1. f = F => f # null
    BY Basics DEF WF, Forest, Pruned_, Sons
  <2>2. g.element[F].sons[1] = l /\ g.element[F].sons[2] = r
    BY DEF Pruned_, Sons
  <2>3. QED BY <2>1, <2>2, <1>1, <1>2
<1>5. f # null => h.element[f].sons = g.element[f].sons
  BY <1>3, <1>4 DEF Pruned_
<1>6. QED BY <1>2, <1>5

(* Two sons go: sons know their fathers and have the copies of their       *)
(* vertices.                                                               *)
LEMMA PrunedSons ==
  ASSUME NEW g, WF(g), NEW h, NEW l, NEW r, NEW F, NEW i, NEW lo, NEW ro, Pruned_(g, h, l, r, F, i, lo, ro)
  PROVE  SonsOf(h)
<1> SUFFICES ASSUME NEW e \in Es(h), ~isLeaf(h, e)
             PROVE  LET s == h.element[e].sons IN
                    /\ s[1] \in Es(h) /\ s[2] \in Es(h)
                    /\ h.element[s[1]].father = e /\ h.element[s[2]].father = e
                    /\ son(h, V0(h, e)) = V0(h, s[1]) /\ son(h, V1(h, e)) = V1(h, s[2])
                    /\ s[1] # s[2] => V1(h, s[1]) = V0(h, s[2])
  BY DEF SonsOf
<1> DEFINE s1 == h.element[e].sons[1]
           s2 == h.element[e].sons[2]
<1>1. e \in Es(g) /\ e # l /\ e # r /\ e # F /\ ~isLeaf(g, e) /\ h.element[e].sons = g.element[e].sons
      /\ V0(h, e) = V0(g, e) /\ V1(h, e) = V1(g, e)
  BY DEF Pruned_
<1>2. /\ s1 \in Es(g) /\ s2 \in Es(g)
      /\ g.element[s1].father = e /\ g.element[s2].father = e
      /\ son(g, V0(g, e)) = V0(g, s1) /\ son(g, V1(g, e)) = V1(g, s2)
      /\ s1 # s2 => V1(g, s1) = V0(g, s2)
  BY <1>1 DEF WF, Forest, SonsOf
<1> HIDE DEF s1, s2
<1>3. g.element[l].father = F /\ g.element[r].father = F /\ F \in Es(g) /\ Sons(g, l, r, F, i)
  BY DEF Pruned_, Sons
<1>4. s1 \in Es(h) /\ s2 \in Es(h)
  BY <1>1, <1>2, <1>3 DEF Pruned_
<1>5. /\ h.element[s1].father = e /\ h.element[s2].father = e
      /\ V0(h, s1) = V0(g, s1) /\ V1(h, s1) = V1(g, s1) /\ V0(h, s2) = V0(g, s2) /\ V1(h, s2) = V1(g, s2)
  BY <1>2, <1>4 DEF Pruned_
<1>6. V0(g, e) \in Vs(h) /\ V1(g, e) \in Vs(h)
  <2>1. V0(h, e) \in Vs(h) /\ V1(h, e) \in Vs(h)
    BY Basics DEF Pruned_
  <2>2. QED BY <2>1, <1>1
<1>7. son(g, V0(g, F)) = V0(g, l) /\ son(g, V1(g, F)) = V1(g, r)
  BY <1>3, SonsFacts
<1>8. ASSUME V0(g, e) = V0(g, F) \/ V1(g, e) = V1(g, F) PROVE FALSE
  <2>1. level(e) = level(F)
    BY <1>8, <1>1, <1>3, Positive DEF WF, Forest
  <2>2. Lo(g, e) = Lo(g, F) \/ Hi(g, e) = Hi(g, F)
    BY <1>8 DEF Lo, Hi
  <2>3. QED BY <2>1, <2>2, <1>1, <1>3, SameElement DEF WF, Forest
<1>9. ~(ro /\ V0(g, e) = V1(g, F))
  <2> SUFFICES ASSUME ro, V0(g, e) = V1(g, F) PROVE FALSE
    OBVIOUS
  <2>1. V0(g, s1) = V1(g, r)
    BY <1>2, <1>7
  <2>2. QED BY <2>1, <1>2 DEF Pruned_
<1>10. ~(lo /\ V1(g, e) = V0(g, F))
  <2> SUFFICES ASSUME lo, V1(g, e) = V0(g, F) PROVE FALSE
    OBVIOUS
  <2>1. V1(g, s2) = V0(g, l)
    BY <1>2, <1>7
  <2>2. QED BY <2>1, <1>2 DEF Pruned_
<1>11. son(h, V0(g, e)) = son(g, V0(g, e)) /\ son(h, V1(g, e)) = son(g, V1(g, e))
  BY <1>6, <1>8, <1>9, <1>10 DEF Pruned_
<1>12. /\ son(h, V0(h, e)) = V0(h, s1) /\ son(h, V1(h, e)) = V1(h, s2)
       /\ s1 # s2 => V1(h, s1) = V0(h, s2)
  BY <1>1, <1>2, <1>5, <1>11
<1>13. QED BY <1>4, <1>5, <1>12 DEF s1, s2

(* Two sons go: a vertex has a copy only above an end of an element with   *)
(* sons.                                                                   *)
LEMMA PrunedCopies ==
  ASSUME NEW g, WF(g), NEW h, NEW l, NEW r, NEW F, NEW i, NEW lo, NEW ro, Pruned_(g, h, l, r, F, i, lo, ro)
  PROVE  Copies(h)
<1> SUFFICES ASSUME NEW v \in Vs(h), son(h, v) # null
             PROVE  LET w == son(h, v) IN
                    /\ level(w) = level(v) + 1 /\ id(w) = id(v) /\ Pos(h, w) = Pos(h, v)
                    /\ \E e \in Es(h) : ~isLeaf(h, e) /\ (V0(h, e) = v \/ V1(h, e) = v)
  BY DEF Copies
<1> DEFINE w == son(h, v)
<1>1. v \in Vs(g) /\ w = son(g, v) /\ ~(lo /\ v = V0(g, F)) /\ ~(ro /\ v = V1(g, F)) /\ Pos(h, v) = Pos(g, v)
  BY DEF Pruned_
<1>2. w \in Vs(h)
  BY Basics DEF Pruned_
<1>3. Pos(h, w) = Pos(g, w)
  BY <1>2 DEF Pruned_
<1>4. /\ level(w) = level(v) + 1 /\ id(w) = id(v) /\ Pos(g, w) = Pos(g, v)
      /\ \E e \in Es(g) : ~isLeaf(g, e) /\ (V0(g, e) = v \/ V1(g, e) = v)
  BY <1>1 DEF WF, Forest, Copies
<1> HIDE DEF w
<1>5. PICK e \in Es(g) : ~isLeaf(g, e) /\ (V0(g, e) = v \/ V1(g, e) = v)
  BY <1>4
<1>6. Sons(g, l, r, F, i) /\ l \in Es(g) /\ r \in Es(g) /\ F \in Es(g) /\ isLeaf(g, l) /\ isLeaf(g, r)
  BY DEF Pruned_, Sons
<1>7. \A x \in Es(g) : ~isLeaf(g, x) /\ x # F => x \in Es(h) /\ ~isLeaf(h, x) /\ V0(h, x) = V0(g, x) /\ V1(h, x) = V1(g, x)
  BY <1>6 DEF Pruned_
<1>8. /\ son(g, V0(g, F)) = V0(g, l) /\ son(g, V1(g, F)) = V1(g, r)
      /\ Lo(g, F) = Lo(g, l) /\ Hi(g, F) = Hi(g, r) /\ Hi(g, l) = Lo(g, r)
      /\ Lo(g, l) < Hi(g, l) /\ Lo(g, r) < Hi(g, r)
      /\ Lo(g, l) \in Nat /\ Hi(g, l) \in Nat /\ Hi(g, r) \in Nat
      /\ level(F) = i - 1 /\ level(l) = i /\ level(r) = i /\ i \in Int /\ i # 0
      /\ g.element[F].sons[1] = l /\ g.element[F].sons[2] = r
      /\ level(V0(g, l)) = i /\ level(V1(g, r)) = i
  BY <1>6, SonsFacts DEF Sons
<1>9. V0(g, F) \in Vs(g) /\ V1(g, F) \in Vs(g) /\ level(V0(g, F)) = level(F) /\ level(V1(g, F)) = level(F)
  BY <1>6, Basics, Positive DEF WF, Forest
<1>10. ASSUME NEW p \in Es(g), p # l, p # r, level(p) = i
       PROVE  LET G == g.element[p].father IN
              /\ G \in Es(g) /\ G # F /\ ~isLeaf(g, G) /\ level(G) = level(F)
              /\ Lo(g, G) <= Lo(g, p) /\ Hi(g, p) <= Hi(g, G)
              /\ Lo(g, p) \in Nat /\ Hi(g, p) \in Nat /\ Lo(g, G) \in Nat /\ Hi(g, G) \in Nat
              /\ Lo(g, p) < Hi(g, p)
              /\ V0(g, G) \in Vs(g) /\ V1(g, G) \in Vs(g)
              /\ level(V0(g, G)) = level(F) /\ level(V1(g, G)) = level(F)
              /\ Hi(g, G) <= Lo(g, F) \/ Hi(g, F) <= Lo(g, G)
  <2> DEFINE G == g.element[p].father
  <2>1. G \in Es(g) /\ level(G) = level(p) - 1 /\ ~isLeaf(g, G) /\ Within(g, p, G)
    BY <1>8, <1>10, SonWithin DEF WF, Forest
  <2>2. g.element[G].sons[1] = p \/ g.element[G].sons[2] = p
    <3>1. G # null
      BY <2>1, Basics DEF WF, Forest
    <3>2. QED BY <3>1 DEF WF, Forest, Fathers
  <2> HIDE DEF G
  <2>3. G # F
    BY <2>2, <1>8, <1>10
  <2>4. level(G) = level(F)
    BY <2>1, <1>8, <1>10
  <2>5. Apart(g, G, F)
    <3>1. level(G) <= level(F) /\ ~(level(G) < level(F))
      BY <2>4, <1>8
    <3>2. QED BY <3>1, <2>1, <2>3, <1>6 DEF WF, Forest, Nested
  <2>6. Lo(g, p) \in Nat /\ Hi(g, p) \in Nat /\ Lo(g, G) \in Nat /\ Hi(g, G) \in Nat /\ Lo(g, p) < Hi(g, p)
        /\ V0(g, G) \in Vs(g) /\ V1(g, G) \in Vs(g)
        /\ level(V0(g, G)) = level(F) /\ level(V1(g, G)) = level(F)
    BY <2>1, <2>4, Basics, Positive DEF WF, Forest
  <2>7. QED BY <2>1, <2>3, <2>4, <2>5, <2>6 DEF Within, Apart, G
<1>11. CASE v = V0(g, F)
  <2>1. PICK p \in Es(g) : V1(g, p) = V0(g, l)
    <3>1. ~lo
      BY <1>1, <1>11
    <3>2. QED BY <3>1 DEF Pruned_
  <2>2. Hi(g, p) = Lo(g, l)
    BY <2>1 DEF Hi, Lo
  <2>3. p # l /\ p # r
    BY <2>2, <1>8
  <2>4. level(p) = i
    BY <2>1, <1>8, Positive DEF WF, Forest
  <2>5. PICK G : G = g.element[p].father
    OBVIOUS
  <2>6. /\ G \in Es(g) /\ G # F /\ ~isLeaf(g, G) /\ V1(g, G) \in Vs(g) /\ level(V1(g, G)) = level(F)
        /\ Hi(g, G) = Lo(g, F)
    <3>1. /\ G \in Es(g) /\ G # F /\ ~isLeaf(g, G) /\ V1(g, G) \in Vs(g) /\ level(V1(g, G)) = level(F)
          /\ Lo(g, G) <= Lo(g, p) /\ Hi(g, p) <= Hi(g, G)
          /\ Lo(g, p) \in Nat /\ Hi(g, p) \in Nat /\ Lo(g, G) \in Nat /\ Hi(g, G) \in Nat
          /\ Lo(g, p) < Hi(g, p)
          /\ Hi(g, G) <= Lo(g, F) \/ Hi(g, F) <= Lo(g, G)
      BY <1>10, <2>3, <2>4, <2>5
    <3>2. Hi(g, G) = Lo(g, F)
      BY <3>1, <1>8, <2>2
    <3>3. QED BY <3>1, <3>2
  <2>7. V1(g, G) = V0(g, F)
    <3>1. Pos(g, V1(g, G)) = Pos(g, V0(g, F))
      BY <2>6 DEF Hi, Lo
    <3>2. QED BY <3>1, <2>6, <1>9, SameVertex DEF WF, Forest
  <2>8. QED BY <2>6, <2>7, <1>3, <1>1, <1>4, <1>7, <1>11 DEF w
<1>12. CASE v = V1(g, F)
  <2>1. PICK p \in Es(g) : V0(g, p) = V1(g, r)
    <3>1. ~ro
      BY <1>1, <1>12
    <3>2. QED BY <3>1 DEF Pruned_
  <2>2. Lo(g, p) = Hi(g, r)
    BY <2>1 DEF Hi, Lo
  <2>3. p # l /\ p # r
    BY <2>2, <1>8
  <2>4. level(p) = i
    BY <2>1, <1>8, Positive DEF WF, Forest
  <2>5. PICK G : G = g.element[p].father
    OBVIOUS
  <2>6. /\ G \in Es(g) /\ G # F /\ ~isLeaf(g, G) /\ V0(g, G) \in Vs(g) /\ level(V0(g, G)) = level(F)
        /\ Lo(g, G) = Hi(g, F)
    <3>1. /\ G \in Es(g) /\ G # F /\ ~isLeaf(g, G) /\ V0(g, G) \in Vs(g) /\ level(V0(g, G)) = level(F)
          /\ Lo(g, G) <= Lo(g, p) /\ Hi(g, p) <= Hi(g, G)
          /\ Lo(g, p) \in Nat /\ Hi(g, p) \in Nat /\ Lo(g, G) \in Nat /\ Hi(g, G) \in Nat
          /\ Lo(g, p) < Hi(g, p)
          /\ Hi(g, G) <= Lo(g, F) \/ Hi(g, F) <= Lo(g, G)
      BY <1>10, <2>3, <2>4, <2>5
    <3>2. Lo(g, G) = Hi(g, F)
      BY <3>1, <1>8, <2>2
    <3>3. QED BY <3>1, <3>2
  <2>7. V0(g, G) = V1(g, F)
    <3>1. Pos(g, V0(g, G)) = Pos(g, V1(g, F))
      BY <2>6 DEF Hi, Lo
    <3>2. QED BY <3>1, <2>6, <1>9, SameVertex DEF WF, Forest
  <2>8. QED BY <2>6, <2>7, <1>3, <1>1, <1>4, <1>7, <1>12 DEF w
<1>13. CASE e # F
  BY <1>13, <1>1, <1>3, <1>4, <1>5, <1>7 DEF w
<1>14. QED BY <1>5, <1>11, <1>12, <1>13

(* Two sons go: ids, marks and flags stay. *)
LEMMA PrunedIds ==
  ASSUME NEW g, WF(g), NEW h, NEW l, NEW r, NEW F, NEW i, NEW lo, NEW ro, Pruned_(g, h, l, r, F, i, lo, ro)
  PROVE  Ids(h) /\ Marks(h) /\ Flags(h)
<1>1. /\ Vs(h) \subseteq Vs(g) /\ Es(h) \subseteq Es(g)
      /\ h.freeVertexId = g.freeVertexId /\ h.freeElementId = g.freeElementId
      /\ \A v \in Vs(h) : Pos(h, v) = Pos(g, v)
      /\ \A e \in Es(h) : Lo(h, e) = Lo(g, e) /\ Hi(h, e) = Hi(g, e)
  BY DEF Pruned_
<1>2. Ids(g)
  BY DEF WF, Forest
<1>3. Ids(h)
  BY <1>1, <1>2 DEF Ids
<1>4. \A e \in Es(h) : /\ h.element[e].markState = "REFINE" => g.element[e].markState = "REFINE"
                       /\ h.element[e].reversed = g.element[e].reversed
  BY DEF Pruned_
<1>5. h.reversed = g.reversed
  BY DEF Pruned_
<1>6. QED BY <1>1, <1>3, <1>4, <1>5 DEF WF, Forest, Marks, Flags

(* Two sons go: the maps are those of a forest. *)
LEMMA PrunedForest ==
  ASSUME NEW g, WF(g), NEW h, NEW l, NEW r, NEW F, NEW i, NEW lo, NEW ro, Pruned_(g, h, l, r, F, i, lo, ro)
  PROVE  Forest(h)
<1>1. Typed(h)
  BY DEF Pruned_
<1>2. QED BY <1>1, PrunedSized, PrunedNested, PrunedEnds, PrunedCovered, PrunedFathers, PrunedSons, PrunedCopies,
             PrunedIds DEF Forest

(* Members are taken from a list one after the other. *)
Shorter(t, s, x, c) == (c /\ t = erase(s, x)) \/ (~c /\ t = s)
Fewer(k, f, x, c) ==
  /\ \A y : y \in DOMAIN k <=> y \in DOMAIN f /\ ~(c /\ y = x)
  /\ \A y \in DOMAIN k : k[y] = f[y]

(* A list after an erase() that may not take place. *)
LEMMA EraseOrNot ==
  ASSUME NEW f, Numbering(f), NEW s, Listed(s, f), NEW x \in DOMAIN f, NEW c,
         NEW t, Shorter(t, s, x, c)
  PROVE  \E k : Listed(t, k) /\ Numbering(k) /\ Fewer(k, f, x, c)
<1>1. CASE c
  <2>1. Listed(erase(s, x), Without(f, {x})) /\ Numbering(Without(f, {x}))
    BY EraseListed
  <2>2. DOMAIN Without(f, {x}) = DOMAIN f \ {x} /\ \A y \in DOMAIN f \ {x} : Without(f, {x})[y] = f[y]
    BY DEF Without
  <2>3. t = erase(s, x)
    BY <1>1 DEF Shorter
  <2>4. Fewer(Without(f, {x}), f, x, c)
    BY <1>1, <2>2 DEF Fewer
  <2>5. QED BY <2>1, <2>3, <2>4
<1>2. CASE ~c
  <2>1. t = s /\ Fewer(f, f, x, c)
    BY <1>2 DEF Shorter, Fewer
  <2>2. QED BY <2>1
<1>3. QED BY <1>1, <1>2

(* A list in the order of equal numbers. *)
LEMMA SameListed ==
  ASSUME NEW s, NEW f, NEW h, Listed(s, f), DOMAIN h = DOMAIN f, \A v \in DOMAIN f : h[v] = f[v]
  PROVE  Listed(s, h)
<1>1. \A k \in 1..Len(s) : s[k] \in DOMAIN f
  BY ListedMembers
<1>2. QED BY <1>1 DEF Listed

(* Two sons go: the lists are in order. *)
LEMMA PrunedLists ==
  ASSUME NEW g, WF(g), NEW h, NEW l, NEW r, NEW F, NEW i, NEW lo, NEW ro, Pruned_(g, h, l, r, F, i, lo, ro),
         lo = leftObsolete(g, l), ro = rightObsolete(g, r), Shortened(g, h, l, r, i)
  PROVE  Lists(h)
<1> DEFINE a == V0(g, l)
           m == V1(g, l)
           b == V1(g, r)
<1>1. /\ i \in 0..maxLevel(g) /\ l \in Es(g) /\ r \in Es(g) /\ level(l) = i /\ level(r) = i /\ l # r
      /\ Sons(g, l, r, F, i)
  BY DEF Pruned_, Sons
<1>2. /\ level(a) = i /\ level(m) = i /\ level(b) = i /\ a \in Vs(g) /\ m \in Vs(g) /\ b \in Vs(g)
      /\ Lo(g, l) < Hi(g, l) /\ Lo(g, r) < Hi(g, r) /\ Hi(g, l) = Lo(g, r)
      /\ Lo(g, l) \in Nat /\ Hi(g, l) \in Nat /\ Hi(g, r) \in Nat
  BY <1>1, SonsFacts, Basics DEF WF, Forest
<1>3. a # m /\ m # b /\ a # b
  <2>1. Pos(g, a) < Pos(g, m) /\ Pos(g, m) < Pos(g, b) /\ Pos(g, a) \in Nat /\ Pos(g, m) \in Nat /\ Pos(g, b) \in Nat
    BY <1>2 DEF Lo, Hi
  <2> HIDE DEF a, m, b
  <2>2. QED BY <2>1
<1> HIDE DEF a, m, b
<1>4. lo \in BOOLEAN /\ ro \in BOOLEAN
  <2>1. leftObsolete(g, l) \in BOOLEAN /\ rightObsolete(g, r) \in BOOLEAN
    BY DEF leftObsolete, rightObsolete
  <2>2. QED BY <2>1
<1>5. ASSUME NEW v PROVE v \in Gone(g, l, r, lo, ro) <=> v = m \/ (lo /\ v = a) \/ (ro /\ v = b)
  BY DEF Gone, a, m, b
<1>6. /\ Vs(h) = Vs(g) \ Gone(g, l, r, lo, ro) /\ Es(h) = Es(g) \ {l, r} /\ maxLevel(h) = maxLevel(g)
      /\ \A v \in Vs(h) : Pos(h, v) = Pos(g, v)
      /\ \A e \in Es(h) : Lo(h, e) = Lo(g, e)
  BY DEF Pruned_
<1>7. /\ DOMAIN g.vertices = 0..maxLevel(g) /\ DOMAIN g.elements = 0..maxLevel(g)
  BY DEF WF, Forest, Typed
<1>8. /\ h.vertices[i] = verticesKept(g, l, r) /\ h.elements[i] = erase(erase(g.elements[i], l), r)
      /\ \A j \in 0..maxLevel(g) : j # i => h.vertices[j] = g.vertices[j] /\ h.elements[j] = g.elements[j]
  BY <1>1, <1>7 DEF Shortened
<1>9. Listed(h.vertices[i], PosAt(h, i))
  <2> DEFINE s == g.vertices[i]
             f == PosAt(g, i)
             s1 == IF lo THEN erase(s, a) ELSE s
             s2 == IF ro THEN erase(s1, b) ELSE s1
  <2>1. Listed(s, f) /\ Numbering(f) /\ (\A v : v \in DOMAIN f <=> v \in Vs(g) /\ level(v) = i)
        /\ (\A v \in DOMAIN f : f[v] = Pos(g, v))
    BY <1>1, ListedVertices DEF WF, Forest
  <2>2. verticesKept(g, l, r) = erase(s2, m)
    BY <1>1 DEF verticesKept, a, m, b, V0, V1
  <2>3. a \in DOMAIN f /\ m \in DOMAIN f /\ b \in DOMAIN f
    BY <1>2, <2>1
  <2>0. Shorter(s1, s, a, lo) /\ Shorter(s2, s1, b, ro)
    BY <1>4 DEF Shorter
  <2> HIDE DEF f, s
  <2> HIDE DEF s1
  <2> HIDE DEF s2
  <2>4. PICK f1 : Listed(s1, f1) /\ Numbering(f1) /\ Fewer(f1, f, a, lo)
    BY <2>1, <2>3, <2>0, EraseOrNot
  <2>5. m \in DOMAIN f1 /\ b \in DOMAIN f1
    BY <2>3, <2>4, <1>3 DEF Fewer
  <2>6. PICK f2 : Listed(s2, f2) /\ Numbering(f2) /\ Fewer(f2, f1, b, ro)
    BY <2>4, <2>5, <2>0, EraseOrNot
  <2>7. m \in DOMAIN f2
    BY <2>5, <2>6, <1>3 DEF Fewer
  <2>8. Listed(erase(s2, m), Without(f2, {m}))
    BY <2>6, <2>7, EraseListed
  <2>9. DOMAIN Without(f2, {m}) = DOMAIN f2 \ {m} /\ \A y \in DOMAIN f2 \ {m} : Without(f2, {m})[y] = f2[y]
    BY DEF Without
  <2>10. \A v : v \in DOMAIN f2 \ {m} <=> v \in Vs(h) /\ level(v) = i
    <3> TAKE v
    <3>1. v \in DOMAIN f1 <=> v \in DOMAIN f /\ ~(lo /\ v = a)
      BY <2>4 DEF Fewer
    <3>2. v \in DOMAIN f2 <=> v \in DOMAIN f1 /\ ~(ro /\ v = b)
      BY <2>6 DEF Fewer
    <3>3. v \in Vs(h) <=> v \in Vs(g) /\ ~(v = m \/ (lo /\ v = a) \/ (ro /\ v = b))
      BY <1>5, <1>6
    <3>4. QED BY <3>1, <3>2, <3>3, <2>1
  <2>11. DOMAIN PosAt(h, i) = DOMAIN f2 \ {m} /\ \A v \in DOMAIN f2 \ {m} : PosAt(h, i)[v] = Pos(h, v)
    BY <2>10 DEF PosAt
  <2>12. \A v \in DOMAIN f2 \ {m} : Pos(h, v) = f2[v]
    <3> TAKE v \in DOMAIN f2 \ {m}
    <3>1. v \in Vs(h) /\ v \in DOMAIN f1 /\ v \in DOMAIN f
      BY <2>4, <2>6, <2>10 DEF Fewer
    <3>2. QED BY <3>1, <1>6, <2>1, <2>4, <2>6 DEF Fewer
  <2>13. Listed(erase(s2, m), PosAt(h, i))
    <3> DEFINE q == Without(f2, {m})
               p == PosAt(h, i)
    <3>1. DOMAIN p = DOMAIN q /\ \A v \in DOMAIN q : p[v] = q[v]
      BY <2>9, <2>11, <2>12
    <3>2. Listed(erase(s2, m), q)
      BY <2>8
    <3> HIDE DEF q, p
    <3>3. Listed(erase(s2, m), p)
      BY <3>1, <3>2, SameListed
    <3>4. QED BY <3>3 DEF p
  <2>14. QED BY <2>2, <2>13, <1>8
<1>10. Listed(h.elements[i], LoAt(h, i))
  <2> DEFINE s == g.elements[i]
             f == LoAt(g, i)
             f1 == Without(f, {l})
             f2 == Without(f1, {r})
  <2>1. Listed(s, f) /\ Numbering(f) /\ (\A v : v \in DOMAIN f <=> v \in Es(g) /\ level(v) = i)
        /\ (\A v \in DOMAIN f : f[v] = Lo(g, v))
    BY <1>1, ListedElements DEF WF, Forest
  <2> HIDE DEF f, s
  <2>2. l \in DOMAIN f /\ r \in DOMAIN f
    BY <1>1, <2>1
  <2>3. Listed(erase(s, l), f1) /\ Numbering(f1)
    BY <2>1, <2>2, EraseListed
  <2>4. DOMAIN f1 = DOMAIN f \ {l} /\ \A y \in DOMAIN f1 : f1[y] = f[y]
    BY DEF Without
  <2> HIDE DEF f1
  <2>5. Listed(erase(erase(s, l), r), f2)
    BY <2>2, <2>3, <2>4, <1>1, EraseListed
  <2>6. DOMAIN f2 = DOMAIN f1 \ {r} /\ \A y \in DOMAIN f2 : f2[y] = f1[y]
    BY DEF Without
  <2> HIDE DEF f2
  <2>7. \A v : v \in DOMAIN f2 <=> v \in Es(h) /\ level(v) = i
    BY <2>1, <2>4, <2>6, <1>6
  <2>8. DOMAIN LoAt(h, i) = DOMAIN f2 /\ \A v \in DOMAIN f2 : LoAt(h, i)[v] = Lo(h, v)
    BY <2>7 DEF LoAt
  <2>9. \A v \in DOMAIN f2 : Lo(h, v) = f2[v]
    BY <2>1, <2>4, <2>6, <2>7, <1>6
  <2>10. Listed(erase(erase(s, l), r), LoAt(h, i))
    <3>1. \A v \in DOMAIN f2 : LoAt(h, i)[v] = f2[v]
      BY <2>8, <2>9
    <3>2. QED BY <3>1, <2>5, <2>8, SameListed
  <2>11. QED BY <2>10, <1>8 DEF s
<1>11. ASSUME NEW j \in 0..maxLevel(g), j # i
       PROVE  Listed(h.vertices[j], PosAt(h, j)) /\ Listed(h.elements[j], LoAt(h, j))
  <2>1. \A v : v \in Vs(h) /\ level(v) = j <=> v \in Vs(g) /\ level(v) = j
    BY <1>2, <1>5, <1>6, <1>11
  <2>2. \A v : v \in Es(h) /\ level(v) = j <=> v \in Es(g) /\ level(v) = j
    BY <1>1, <1>6, <1>11
  <2>3. Listed(g.vertices[j], PosAt(g, j)) /\ Listed(g.elements[j], LoAt(g, j))
    BY DEF WF, Lists
  <2>4. DOMAIN PosAt(h, j) = DOMAIN PosAt(g, j) /\ \A v \in DOMAIN PosAt(g, j) : PosAt(h, j)[v] = PosAt(g, j)[v]
    BY <2>1, <1>6 DEF PosAt
  <2>5. DOMAIN LoAt(h, j) = DOMAIN LoAt(g, j) /\ \A v \in DOMAIN LoAt(g, j) : LoAt(h, j)[v] = LoAt(g, j)[v]
    BY <2>2, <1>6 DEF LoAt
  <2>6. QED BY <2>3, <2>4, <2>5, <1>8, <1>11, SameListed
<1>12. QED BY <1>6, <1>9, <1>10, <1>11 DEF Lists

(* Two sons are removed. *)
LEMMA RemovedKeeps ==
  ASSUME NEW g, WF(g), NEW l, NEW r, NEW F, NEW i, Sons(g, l, r, F, i), NEW h, h = Removed(g, l, r)
  PROVE  /\ WF(h) /\ h.failed = g.failed /\ Es(h) = Es(g) \ {l, r}
         /\ \A x \in Es(h) : Lo(h, x) = Lo(g, x)
<1>1. Pruned(g, h, l, r, F, obsolete(g, l, r), copied(g, l, r)) /\ Shortened(g, h, l, r, i)
  BY RemovedMaps
<1>2. PICK lo, ro : lo = leftObsolete(g, l) /\ ro = rightObsolete(g, r)
  OBVIOUS
<1>3. Pruned_(g, h, l, r, F, i, lo, ro)
  BY <1>1, <1>2, PrunedGives
<1>4. Forest(h) /\ Lists(h)
  BY <1>1, <1>2, <1>3, PrunedForest, PrunedLists
<1>5. QED BY <1>1, <1>3, <1>4 DEF WF, Pruned, Pruned_

-----------------------------------------------------------------------------
(* Coarsening takes the elements of a level in pairs.  Where the pairs are *)
(* not pairs of brothers, because an element has been copied, an element   *)
(* can be left with one son.                                               *)

Records(g) ==
  \A x \in Es(g) : {"father", "sons", "markState"} \subseteq DOMAIN g.element[x] /\ {1, 2} \subseteq DOMAIN g.element[x].sons

(* Some element has a right son and no left one, and none of the elements  *)
(* in P, which the coarsening has still to look at, is its son.            *)
Doomed(g, P) ==
  /\ P \subseteq Es(g) /\ Records(g)
  /\ \E f \in Es(g) : /\ f \notin P /\ g.element[f].sons[1] = null /\ g.element[f].sons[2] # null
                      /\ \A x \in P : g.element[x].father # f

(* h is g up to the elements of the level i. *)
Beyond(g, h, i) ==
  /\ Shape(h) /\ DOMAIN h.elements = DOMAIN g.elements /\ h.reversed = g.reversed
  /\ \A j \in DOMAIN g.elements : j # i => h.elements[j] = g.elements[j]

(* What Removed changes, whoever l and r are. *)
LEMMA RemovedFields ==
  ASSUME NEW g, Shape(g), Records(g), NEW l \in Es(g), NEW r \in Es(g), NEW h, h = Removed(g, l, r)
  PROVE  /\ Beyond(g, h, level(l)) /\ h.failed = g.failed /\ Es(h) = Es(g) \ {l, r} /\ Records(h)
         /\ \A x \in Es(h) :
              /\ h.element[x].father = g.element[x].father
              /\ x # g.element[l].father /\ x # g.element[r].father => h.element[x].sons = g.element[x].sons
              /\ x # g.element[r].father => h.element[x].sons[2] = g.element[x].sons[2]
              /\ x = g.element[l].father => h.element[x].sons[1] = null
<1> DEFINE lf == g.element[l].father
           rf == g.element[r].father
           i == level(l)
           gone == obsolete(g, l, r)
           was == copied(g, l, r)
           G == [g.element EXCEPT ![lf].sons[1] = null, ![rf].sons[2] = null]
           H == Without(G, {l, r})
           vs == verticesKept(g, l, r)
           es == erase(erase(g.elements[i], l), r)
           vx == [v \in DOMAIN g.vertex \ gone |-> IF v \in was THEN [g.vertex[v] EXCEPT !.son = null] ELSE g.vertex[v]]
<1>1. Unlinked(g, l, r) = [g EXCEPT !.vertices[i] = vs, !.vertex = vx, !.elements[i] = es, !.element = H]
  BY DEF Unlinked
<1>2. h = [Unlinked(g, l, r) EXCEPT !.element[rf].markState = "DO_NOTHING"]
  BY DEF Removed
<1>3. DOMAIN G = Es(g)
  BY DEF Es
<1>4. ASSUME NEW x \in Es(g)
      PROVE  /\ G[x].father = g.element[x].father
             /\ {"father", "sons", "markState"} \subseteq DOMAIN G[x] /\ {1, 2} \subseteq DOMAIN G[x].sons
             /\ x # lf /\ x # rf => G[x].sons = g.element[x].sons
             /\ x # rf => G[x].sons[2] = g.element[x].sons[2]
             /\ x = lf => G[x].sons[1] = null
  <2> DEFINE q == g.element[x]
             s == q.sons
  <2>1. {"father", "sons", "markState"} \subseteq DOMAIN q /\ {1, 2} \subseteq DOMAIN s
    BY DEF Records
  <2>2. G[x] = CASE x # lf /\ x # rf -> q
                 [] x = lf /\ x # rf -> [q EXCEPT !.sons = [s EXCEPT ![1] = null]]
                 [] x # lf /\ x = rf -> [q EXCEPT !.sons = [s EXCEPT ![2] = null]]
                 [] x = lf /\ x = rf -> [q EXCEPT !.sons = [[s EXCEPT ![1] = null] EXCEPT ![2] = null]]
    <3> HIDE DEF lf, rf
    <3>1. CASE x # lf /\ x # rf
      BY <3>1 DEF Es
    <3>2. CASE x = lf /\ x # rf
      BY <3>2 DEF Es
    <3>3. CASE x # lf /\ x = rf
      BY <3>3 DEF Es
    <3>4. CASE x = lf /\ x = rf
      BY <3>4, <2>1 DEF Es
    <3>5. QED BY <3>1, <3>2, <3>3, <3>4
  <2> HIDE DEF G
  <2>3. QED
    <3> HIDE DEF lf, rf
    <3> HIDE DEF q
    <3>1. CASE x # lf /\ x # rf
      BY <3>1, <2>1, <2>2 DEF q
    <3>2. CASE x = lf /\ x # rf
      <4>1. G[x] = [q EXCEPT !.sons = [s EXCEPT ![1] = null]]
        BY <3>2, <2>2
      <4>2. G[x].father = q.father /\ G[x].sons = [s EXCEPT ![1] = null] /\ DOMAIN G[x] = DOMAIN q
        BY <4>1, <2>1
      <4>3. DOMAIN G[x].sons = DOMAIN s /\ G[x].sons[1] = null /\ G[x].sons[2] = s[2]
        BY <4>2, <2>1
      <4>4. QED BY <4>2, <4>3, <3>2, <2>1 DEF q
    <3>3. CASE x # lf /\ x = rf
      <4>1. G[x] = [q EXCEPT !.sons = [s EXCEPT ![2] = null]]
        BY <3>3, <2>2
      <4>2. G[x].father = q.father /\ G[x].sons = [s EXCEPT ![2] = null] /\ DOMAIN G[x] = DOMAIN q
        BY <4>1, <2>1
      <4>3. DOMAIN G[x].sons = DOMAIN s
        BY <4>2, <2>1
      <4>4. QED BY <4>2, <4>3, <3>3, <2>1 DEF q
    <3>4. CASE x = lf /\ x = rf
      <4>1. G[x] = [q EXCEPT !.sons = [[s EXCEPT ![1] = null] EXCEPT ![2] = null]]
        BY <3>4, <2>2
      <4>2. G[x].father = q.father /\ G[x].sons = [[s EXCEPT ![1] = null] EXCEPT ![2] = null] /\ DOMAIN G[x] = DOMAIN q
        BY <4>1, <2>1
      <4>3. DOMAIN G[x].sons = DOMAIN s /\ G[x].sons[1] = null
        BY <4>2, <2>1
      <4>4. QED BY <4>2, <4>3, <3>4, <2>1 DEF q
    <3>5. QED BY <3>1, <3>2, <3>3, <3>4
<1> HIDE DEF G
<1>5. DOMAIN H = Es(g) \ {l, r} /\ \A x \in Es(g) \ {l, r} : H[x] = G[x]
  BY <1>3 DEF Without
<1> HIDE DEF H
<1> HIDE DEF vs, es, vx
<1> HIDE DEF lf
<1> HIDE DEF rf
<1>6. /\ h.elements = [g.elements EXCEPT ![i] = es] /\ h.element = [H EXCEPT ![rf].markState = "DO_NOTHING"]
      /\ h.failed = g.failed /\ h.reversed = g.reversed /\ DOMAIN h = DOMAIN g
  BY <1>1, <1>2 DEF Shape
<1>7. Es(h) = Es(g) \ {l, r}
  BY <1>5, <1>6 DEF Es
<1>8. ASSUME NEW x \in Es(h)
      PROVE  /\ h.element[x].father = H[x].father /\ h.element[x].sons = H[x].sons
             /\ DOMAIN h.element[x] = DOMAIN H[x]
  <2>1. {"father", "sons", "markState"} \subseteq DOMAIN H[x] /\ x \in DOMAIN H
    BY <1>4, <1>5, <1>7
  <2>2. CASE x # rf
    BY <2>1, <2>2, <1>6
  <2>3. CASE x = rf
    <3>1. h.element[x] = [H[x] EXCEPT !.markState = "DO_NOTHING"]
      BY <2>1, <2>3, <1>6
    <3>2. QED BY <2>1, <3>1
  <2>4. QED BY <2>2, <2>3
<1>9. ASSUME NEW x \in Es(h)
      PROVE  /\ h.element[x].father = g.element[x].father
             /\ {"father", "sons", "markState"} \subseteq DOMAIN h.element[x] /\ {1, 2} \subseteq DOMAIN h.element[x].sons
             /\ x # lf /\ x # rf => h.element[x].sons = g.element[x].sons
             /\ x # rf => h.element[x].sons[2] = g.element[x].sons[2]
             /\ x = lf => h.element[x].sons[1] = null
  <2>1. x \in Es(g) /\ H[x] = G[x]
    BY <1>5, <1>7
  <2>2. QED BY <2>1, <1>4, <1>8
<1>10. Records(h)
  BY <1>9 DEF Records
<1>11. Beyond(g, h, i)
  BY <1>6 DEF Beyond, Shape
<1>12. QED BY <1>6, <1>7, <1>9, <1>10, <1>11 DEF lf, rf

(* An assertion that fails changes nothing but the flag. *)
LEMMA FailedFields ==
  ASSUME NEW g, Shape(g), NEW h, h = [g EXCEPT !.failed = TRUE], NEW i
  PROVE  Beyond(g, h, i) /\ h.failed = TRUE
BY DEF Beyond, Shape

(* Nothing has changed beyond a level. *)
LEMMA BeyondItself ==
  ASSUME NEW g, Shape(g), NEW i
  PROVE  Beyond(g, g, i)
BY DEF Beyond

(* A grid is doomed by what is still to be looked at, and by less of it. *)
LEMMA DoomedFewer ==
  ASSUME NEW g, NEW P, Doomed(g, P), NEW Q, Q \subseteq P
  PROVE  Doomed(g, Q)
BY DEF Doomed

(* An element that is left with one son stays so. *)
LEMMA PairDoomed ==
  ASSUME NEW g, Shape(g), g.failed = FALSE, NEW P, Doomed(g, P), NEW l \in P, NEW r, r = null \/ r \in P,
         NEW Q, Q \subseteq P, l \notin Q, r \notin Q, NEW h, h = CoarsenPair(g, l, r)
  PROVE  Beyond(g, h, level(l)) /\ (h.failed = TRUE \/ (h.failed = FALSE /\ Doomed(h, Q)))
<1>1. CASE r = null \/ (r # null /\ removable(g, l, r) /\ ~pairAsserts(g, l, r))
  <2>1. h = [g EXCEPT !.failed = TRUE]
    BY <1>1 DEF CoarsenPair
  <2>2. QED BY <2>1, FailedFields
<1>2. CASE r # null /\ ~removable(g, l, r)
  <2>1. h = g
    BY <1>2 DEF CoarsenPair
  <2>2. QED BY <2>1, BeyondItself, DoomedFewer
<1>3. CASE r # null /\ removable(g, l, r) /\ pairAsserts(g, l, r)
  <2>1. h = Removed(g, l, r) /\ r \in P
    BY <1>3 DEF CoarsenPair
  <2>2. l \in Es(g) /\ r \in Es(g) /\ Records(g)
    BY <2>1 DEF Doomed
  <2>3. /\ Beyond(g, h, level(l)) /\ h.failed = g.failed /\ Es(h) = Es(g) \ {l, r} /\ Records(h)
        /\ \A x \in Es(h) :
             /\ h.element[x].father = g.element[x].father
             /\ x # g.element[l].father /\ x # g.element[r].father => h.element[x].sons = g.element[x].sons
    BY <2>1, <2>2, RemovedFields
  <2>4. PICK f \in Es(g) : /\ f \notin P /\ g.element[f].sons[1] = null /\ g.element[f].sons[2] # null
                           /\ \A x \in P : g.element[x].father # f
    BY DEF Doomed
  <2>5. f \in Es(h) /\ f # g.element[l].father /\ f # g.element[r].father
    BY <2>1, <2>3, <2>4
  <2>6. Q \subseteq Es(h)
    BY <2>3 DEF Doomed
  <2>7. /\ f \notin Q /\ h.element[f].sons[1] = null /\ h.element[f].sons[2] # null
        /\ \A x \in Q : h.element[x].father # f
    BY <2>3, <2>4, <2>5, <2>6
  <2>8. Doomed(h, Q)
    BY <2>3, <2>5, <2>6, <2>7 DEF Doomed
  <2>9. QED BY <2>3, <2>8
<1>4. QED BY <1>1, <1>2, <1>3

(* A consistent grid has records for its elements. *)
LEMMA WFRecords ==
  ASSUME NEW g, WF(g)
  PROVE  Records(g) /\ Shape(g)
<1>1. Shape(g)
  BY DEF WF, Forest, Typed
<1>2. ASSUME NEW x \in Es(g)
      PROVE  {"father", "sons", "markState"} \subseteq DOMAIN g.element[x] /\ {1, 2} \subseteq DOMAIN g.element[x].sons
  <2> DEFINE q == g.element[x]
  <2>1. q \in ElementType(Vs(g), Es(g))
    BY DEF WF, Forest, Typed
  <2> HIDE DEF q
  <2>2. {"father", "sons", "markState"} \subseteq DOMAIN q /\ q.sons \in (Es(g) \cup {null}) \X (Es(g) \cup {null})
    BY <2>1 DEF ElementType
  <2>3. {1, 2} \subseteq DOMAIN q.sons
    BY <2>2
  <2>4. QED BY <2>2, <2>3 DEF q
<1>3. QED BY <1>1, <1>2 DEF Records

(* The elements l and r come next, of those in P of the level i. *)
Next2(g, P, l, r, i) ==
  /\ P \subseteq Es(g) /\ i \in 1..maxLevel(g) /\ l \in P /\ r \in P /\ level(l) = i /\ level(r) = i
  /\ Lo(g, l) < Lo(g, r)
  /\ \A x \in P : level(x) >= i /\ (level(x) = i /\ x # l /\ x # r => Lo(g, x) > Lo(g, r))

(* Either l and r are brothers, or the father of l is left with one son. *)
LEMMA PairBrothers ==
  ASSUME NEW g, WF(g), NEW P, NEW l, NEW r, NEW i, Next2(g, P, l, r, i),
         removable(g, l, r), pairAsserts(g, l, r), g.element[l].father = g.element[r].father
  PROVE  Sons(g, l, r, g.element[l].father, i)
<1> DEFINE F == g.element[l].father
<1>1. l \in Es(g) /\ r \in Es(g) /\ level(l) = i /\ level(r) = i /\ i \in 1..maxLevel(g) /\ i # 0
      /\ Lo(g, l) < Lo(g, r)
  BY Basics DEF Next2, WF, Forest
<1>2. l # r
  <2>1. Lo(g, l) \in Nat
    BY <1>1, Basics DEF WF, Forest
  <2>2. QED BY <1>1, <2>1
<1>3. F \in Es(g) /\ F # null
  BY <1>1, Basics DEF WF, Forest, Fathers
<1>4. level(F) = i - 1 /\ (g.element[F].sons[1] = l \/ g.element[F].sons[2] = l)
  BY <1>1, <1>3 DEF WF, Forest, Fathers
<1>5. g.element[F].sons[2] = r
  BY DEF pairAsserts
<1>6. isLeaf(g, l) /\ isLeaf(g, r)
  BY DEF removable
<1>7. QED BY <1>1, <1>2, <1>3, <1>4, <1>5, <1>6 DEF Sons

(* Two elements of different fathers that go together leave sons that are  *)
(* alone: isLeaf() will assert it, whatever comes.                         *)
LEMMA PairStrangers ==
  ASSUME NEW g, WF(g), NEW P, NEW l, NEW r, NEW i, Next2(g, P, l, r, i),
         g.element[l].father # g.element[r].father, NEW h, h = Removed(g, l, r),
         NEW Q, Q \subseteq P, l \notin Q, r \notin Q
  PROVE  Doomed(h, Q)
<1> DEFINE F == g.element[l].father
           s1 == g.element[F].sons[1]
           s2 == g.element[F].sons[2]
<1>1. l \in Es(g) /\ r \in Es(g) /\ level(l) = i /\ level(r) = i /\ i \in 1..maxLevel(g) /\ i # 0 /\ i \in Nat
      /\ Lo(g, l) < Lo(g, r)
  <2>1. maxLevel(g) \in Nat
    BY Basics DEF WF, Forest
  <2>2. QED BY <2>1 DEF Next2
<1>2. F \in Es(g) /\ F # null
  BY <1>1, Basics DEF WF, Forest, Fathers
<1>3. level(F) = i - 1 /\ (s1 = l \/ s2 = l)
  BY <1>1, <1>2 DEF WF, Forest, Fathers
<1>4. l # null /\ ~isLeaf(g, F)
  <2>1. l # null
    BY <1>1, Basics DEF WF, Forest
  <2>2. QED BY <2>1, <1>2, <1>3, Basics DEF WF, Forest
<1>5. s1 \in Es(g) /\ s2 \in Es(g) /\ (s1 # s2 => V1(g, s1) = V0(g, s2))
  BY <1>2, <1>4 DEF WF, Forest, SonsOf
<1>6. s2 # null
  BY <1>5, Basics DEF WF, Forest
<1>7. \A x \in P : x \in Es(g) /\ level(x) >= i /\ (level(x) = i /\ x # l /\ x # r => Lo(g, x) > Lo(g, r))
  BY DEF Next2
<1>8. ASSUME NEW x \in Q PROVE g.element[x].father # F
  <2> SUFFICES ASSUME g.element[x].father = F PROVE FALSE
    OBVIOUS
  <2>1. x \in P /\ x \in Es(g) /\ x # l /\ x # r
    BY <1>7
  <2>2. level(F) = level(x) - 1 /\ (s1 = x \/ s2 = x)
    BY <2>1, <1>2 DEF WF, Forest, Fathers
  <2>3. level(x) = i
    <3>1. level(x) \in Nat
      BY <2>1, Basics DEF WF, Forest
    <3>2. QED BY <3>1, <2>2, <1>1, <1>3
  <2>4. Lo(g, x) > Lo(g, r)
    BY <1>7, <2>1, <2>3
  <2>5. /\ Lo(g, x) \in Nat /\ Lo(g, l) \in Nat /\ Lo(g, r) \in Nat /\ Hi(g, l) \in Nat /\ Hi(g, x) \in Nat
        /\ Lo(g, x) < Hi(g, x) /\ Hi(g, r) \in Nat /\ Lo(g, r) < Hi(g, r)
    BY <1>1, <2>1, Basics, Positive DEF WF, Forest
  <2>6. (s1 = x /\ s2 = l) \/ (s1 = l /\ s2 = x)
    BY <1>3, <2>1, <2>2
  <2>7. CASE s1 = x /\ s2 = l
    <3>1. Hi(g, x) = Lo(g, l)
      BY <2>7, <1>5, <2>1 DEF Hi, Lo
    <3>2. QED BY <3>1, <2>4, <2>5, <1>1
  <2>8. CASE s1 = l /\ s2 = x
    <3>1. Hi(g, l) = Lo(g, x)
      BY <2>8, <1>5, <2>1 DEF Hi, Lo
    <3>2. Apart(g, l, r)
      <4>1. l # r /\ level(l) <= level(r) /\ ~(level(l) < level(r))
        BY <1>1, <2>5
      <4>2. QED BY <4>1, <1>1 DEF WF, Forest, Nested
    <3>3. Hi(g, l) <= Lo(g, r) \/ Hi(g, r) <= Lo(g, l)
      BY <3>2 DEF Apart
    <3>4. QED BY <3>1, <3>3, <2>4, <2>5, <1>1
  <2>9. QED BY <2>6, <2>7, <2>8
<1>9. F # g.element[r].father
  OBVIOUS
<1> DEFINE rf == g.element[r].father
<1> HIDE DEF F
<1> HIDE DEF rf
<1>10. /\ Es(h) = Es(g) \ {l, r} /\ Records(h)
       /\ \A x \in Es(h) :
            /\ h.element[x].father = g.element[x].father
            /\ x # rf => h.element[x].sons[2] = g.element[x].sons[2]
            /\ x = F => h.element[x].sons[1] = null
  BY <1>1, WFRecords, RemovedFields DEF F, rf
<1>11. F # l /\ F # r /\ F \notin P
  <2>1. level(F) # i /\ ~(level(F) >= i)
    BY <1>1, <1>3
  <2>2. QED BY <2>1, <1>1, <1>7
<1>12. F \in Es(h) /\ h.element[F].sons[1] = null /\ h.element[F].sons[2] # null /\ F \notin Q
  BY <1>2, <1>6, <1>9, <1>10, <1>11 DEF rf
<1>13. Q \subseteq Es(h) /\ \A x \in Q : h.element[x].father # F
  <2>1. Q \subseteq Es(h)
    BY <1>7, <1>10
  <2>2. QED BY <2>1, <1>8, <1>10
<1>14. QED BY <1>10, <1>12, <1>13 DEF Doomed

(* The grid h is still well-formed; g is what it was before. *)
Sound(g, h, Q, K) ==
  /\ WF(h) /\ Q \subseteq Es(h) /\ K \subseteq Es(h) /\ Es(h) \subseteq Es(g)
  /\ \A x \in Es(h) : Lo(h, x) = Lo(g, x)

(* What is known when the pair l and r is coarsened, and what afterwards. *)
Taking(g, P, l, r, i, Q, h, K) ==
  /\ WF(g) /\ g.failed = FALSE /\ P \subseteq Es(g) /\ l \in P /\ level(l) = i
  /\ Q \subseteq P /\ l \notin Q /\ r \notin Q /\ h = CoarsenPair(g, l, r) /\ K \subseteq Es(g)
  /\ \A x \in K : level(x) # i
  /\ r = null \/ Next2(g, P, l, r, i)

Passed(g, h, i, Q, K) ==
  /\ Beyond(g, h, i)
  /\ h.failed = TRUE \/ (h.failed = FALSE /\ (Doomed(h, Q) \/ Sound(g, h, Q, K)))

(* A pair is taken: the grid stays consistent, or the assertion will fail, *)
(* or has failed.                                                          *)
LEMMA PairKeeps ==
  ASSUME NEW g, NEW P, NEW l, NEW r, NEW i, NEW Q, NEW h, NEW K, Taking(g, P, l, r, i, Q, h, K)
  PROVE  Passed(g, h, i, Q, K)
<1> SUFFICES /\ Beyond(g, h, i)
             /\ h.failed = TRUE \/ (h.failed = FALSE /\ (Doomed(h, Q) \/ Sound(g, h, Q, K)))
  BY DEF Passed
<1> /\ WF(g) /\ g.failed = FALSE /\ P \subseteq Es(g) /\ l \in P /\ level(l) = i
    /\ Q \subseteq P /\ l \notin Q /\ r \notin Q /\ h = CoarsenPair(g, l, r) /\ K \subseteq Es(g)
    /\ \A x \in K : level(x) # i
    /\ r = null \/ Next2(g, P, l, r, i)
  BY DEF Taking
<1>0. Shape(g) /\ Records(g)
  BY WFRecords
<1>1. CASE r = null \/ (r # null /\ removable(g, l, r) /\ ~pairAsserts(g, l, r))
  <2>1. h = [g EXCEPT !.failed = TRUE]
    BY <1>1 DEF CoarsenPair
  <2>2. QED BY <1>0, <2>1, FailedFields
<1>2. CASE r # null /\ ~removable(g, l, r)
  <2>1. h = g
    BY <1>2 DEF CoarsenPair
  <2>2. Sound(g, h, Q, K)
    BY <2>1 DEF Sound
  <2>3. QED BY <1>0, <2>1, <2>2, BeyondItself
<1>3. CASE r # null /\ removable(g, l, r) /\ pairAsserts(g, l, r)
  <2>1. h = Removed(g, l, r) /\ Next2(g, P, l, r, i)
    BY <1>3 DEF CoarsenPair
  <2>2. l \in Es(g) /\ r \in Es(g) /\ level(r) = i
    BY <2>1 DEF Next2
  <2>3. Beyond(g, h, i) /\ h.failed = g.failed
    BY <1>0, <2>1, <2>2, RemovedFields
  <2>4. CASE g.element[l].father # g.element[r].father
    <3>1. Doomed(h, Q)
      BY <2>1, <2>4, PairStrangers
    <3>2. QED BY <2>3, <3>1
  <2>5. CASE g.element[l].father = g.element[r].father
    <3>1. PICK F : F = g.element[l].father
      OBVIOUS
    <3>2. Sons(g, l, r, F, i)
      BY <1>3, <2>1, <2>5, <3>1, PairBrothers
    <3>3. WF(h) /\ Es(h) = Es(g) \ {l, r} /\ \A x \in Es(h) : Lo(h, x) = Lo(g, x)
      BY <2>1, <3>2, RemovedKeeps
    <3>4. Sound(g, h, Q, K)
      BY <2>2, <3>3 DEF Sound
    <3>5. QED BY <2>3, <3>4
  <2>6. QED BY <2>4, <2>5
<1>4. QED BY <1>1, <1>2, <1>3

(* What the coarsening of a level has still to look at after k pairs, and  *)
(* the elements U of the levels beyond.                                    *)
Rest(list, U, k) == U \cup {list[j] : j \in {j \in 1..Len(list) : j > 2 * k}}

(* The list of the level i. *)
Column(list, U, i) ==
  /\ i \in Nat /\ Len(list) \in Nat /\ DOMAIN list = 1..Len(list)
  /\ \A j \in 1..Len(list) : level(list[j]) = i /\ list[j] # null
  /\ \A j, k \in 1..Len(list) : j # k => list[j] # list[k]
  /\ null \notin U /\ \A x \in U : level(x) > i

(* The numbers of the pairs of a list. *)
LEMMA PairNumbers ==
  ASSUME NEW n \in Nat
  PROVE  /\ (n + 1) \div 2 \in Nat
         /\ \A k \in Nat : k + 1 <= (n + 1) \div 2 => 2 * (k + 1) - 1 \in 1..n /\ 2 * (k + 1) - 1 > 2 * k
         /\ \A j \in 1..n : ~ (j > 2 * ((n + 1) \div 2))
OBVIOUS

(* l and r are taken from P, which leaves Q. *)
Taken(list, P, Q, k, l, r, i) ==
  /\ l \in P /\ level(l) = i
  /\ r = null \/ (r \in P /\ 2 * (k + 1) \in 1..Len(list) /\ r = list[2 * (k + 1)])
  /\ Q \subseteq P /\ l \notin Q /\ r \notin Q

(* The pair that is taken, and the rest of the list. *)
LEMMA RestFacts ==
  ASSUME NEW list, NEW U, NEW i, Column(list, U, i), NEW k \in Nat, k + 1 <= (Len(list) + 1) \div 2,
         NEW l, l = list[2 * (k + 1) - 1], NEW r, r = at(list, 2 * (k + 1))
  PROVE  Taken(list, Rest(list, U, k), Rest(list, U, k + 1), k, l, r, i)
<1> DEFINE n == Len(list)
           a == 2 * (k + 1) - 1
           b == 2 * (k + 1)
<1>1. n \in Nat /\ DOMAIN list = 1..n /\ i \in Nat
  BY DEF Column
<1>2. a \in 1..n /\ a > 2 * k /\ b \in Nat /\ b > 2 * k /\ ~(a > b)
  BY <1>1, PairNumbers
<1>3. \A j \in 1..n : j > b => j > 2 * k /\ j # a /\ j # b
  OBVIOUS
<1>4. l = list[a] /\ r = IF b \in 1..n THEN list[b] ELSE null
  BY <1>1 DEF at
<1>5. \A x : x \in Rest(list, U, k) <=> x \in U \/ \E j \in 1..n : j > 2 * k /\ x = list[j]
  BY DEF Rest
<1>6. \A x : x \in Rest(list, U, k + 1) <=> x \in U \/ \E j \in 1..n : j > b /\ x = list[j]
  BY DEF Rest
<1> HIDE DEF n, a, b
<1>7. \A j \in 1..n : level(list[j]) = i /\ list[j] # null /\ list[j] \notin U
  BY <1>1 DEF Column, n
<1>8. \A j, m \in 1..n : j # m => list[j] # list[m]
  BY DEF Column, n
<1>9. l \in Rest(list, U, k) /\ level(l) = i
  BY <1>2, <1>4, <1>5, <1>7
<1>10. r = null \/ (r \in Rest(list, U, k) /\ b \in 1..n /\ r = list[b])
  BY <1>2, <1>4, <1>5
<1>11. Rest(list, U, k + 1) \subseteq Rest(list, U, k)
  BY <1>3, <1>5, <1>6
<1>12. l \notin Rest(list, U, k + 1)
  BY <1>2, <1>3, <1>4, <1>6, <1>7, <1>8
<1>13. r \notin Rest(list, U, k + 1)
  <2>1. CASE r = null
    BY <2>1, <1>6, <1>7 DEF Column
  <2>2. CASE r # null
    BY <2>2, <1>3, <1>6, <1>7, <1>8, <1>10
  <2>3. QED BY <2>1, <2>2
<1>14. QED BY <1>9, <1>10, <1>11, <1>12, <1>13 DEF n, b, Taken

(* The grid h while the elements of the level i of g are coarsened, or     *)
(* afterwards; Q are the elements that have still to be looked at.         *)
Midway(g, h, i, Q, K) ==
  /\ Beyond(g, h, i)
  /\ h.failed = TRUE \/ (h.failed = FALSE /\ (Doomed(h, Q) \/ (g.failed = FALSE /\ WF(g) /\ Sound(g, h, Q, K))))

(* Nothing has changed beyond a level, and again nothing. *)
LEMMA BeyondAgain ==
  ASSUME NEW g, NEW h, NEW k, NEW i, Beyond(g, h, i), Beyond(h, k, i)
  PROVE  Beyond(g, k, i)
BY DEF Beyond

(* To be sound, and sound again, is to be sound. *)
LEMMA SoundAgain ==
  ASSUME NEW g, NEW h, NEW k, NEW P, NEW Q, NEW K, Sound(g, h, P, K), Sound(h, k, Q, K)
  PROVE  Sound(g, k, Q, K)
<1>1. Es(k) \subseteq Es(h) /\ Es(h) \subseteq Es(g)
  BY DEF Sound
<1>2. \A x \in Es(k) : Lo(k, x) = Lo(g, x)
  BY <1>1 DEF Sound
<1>3. QED BY <1>1, <1>2 DEF Sound

(* One more pair. *)
LEMMA PairOn ==
  ASSUME NEW g, NEW i, NEW list, list = g.elements[i], NEW U, Column(list, U, i), i # 0,
         NEW K, \A x \in K : level(x) # i, NEW k \in Nat, k + 1 <= (Len(list) + 1) \div 2,
         NEW f, Midway(g, f, i, Rest(list, U, k), K),
         NEW h, h = CoarsenPair(f, list[2 * (k + 1) - 1], at(list, 2 * (k + 1)))
  PROVE  Midway(g, h, i, Rest(list, U, k + 1), K)
<1>1. PICK l, r, P, Q : /\ l = list[2 * (k + 1) - 1] /\ r = at(list, 2 * (k + 1))
                        /\ P = Rest(list, U, k) /\ Q = Rest(list, U, k + 1)
  OBVIOUS
<1>2. /\ l \in P /\ level(l) = i
      /\ r = null \/ (r \in P /\ 2 * (k + 1) \in 1..Len(list) /\ r = list[2 * (k + 1)])
      /\ Q \subseteq P /\ l \notin Q /\ r \notin Q
  <2>1. Taken(list, Rest(list, U, k), Rest(list, U, k + 1), k, l, r, i)
    BY <1>1, RestFacts
  <2>2. Taken(list, P, Q, k, l, r, i)
    BY <1>1, <2>1
  <2>3. QED BY <2>2 DEF Taken
<1>3. h = CoarsenPair(f, l, r) /\ Midway(g, f, i, P, K)
  BY <1>1
<1>4. Beyond(g, f, i) /\ Shape(f)
  BY <1>3 DEF Midway, Beyond
<1>5. CASE f.failed = TRUE
  <2>1. h = f
    BY <1>3, <1>5 DEF CoarsenPair
  <2>2. QED BY <1>1, <1>4, <1>5, <2>1 DEF Midway
<1>6. CASE f.failed = FALSE /\ Doomed(f, P)
  <2>1. Beyond(f, h, i) /\ (h.failed = TRUE \/ (h.failed = FALSE /\ Doomed(h, Q)))
    <3>1. r = null \/ r \in P
      BY <1>2
    <3>4. l \in P /\ Q \subseteq P /\ l \notin Q /\ r \notin Q /\ h = CoarsenPair(f, l, r)
          /\ Shape(f) /\ f.failed = FALSE /\ Doomed(f, P)
      BY <1>2, <1>3, <1>4, <1>6
    <3>2. Beyond(f, h, level(l)) /\ (h.failed = TRUE \/ (h.failed = FALSE /\ Doomed(h, Q)))
      BY <3>1, <3>4, PairDoomed
    <3>3. QED BY <3>2, <1>2
  <2>2. Beyond(g, h, i)
    BY <1>4, <2>1, BeyondAgain
  <2>3. QED BY <1>1, <2>1, <2>2 DEF Midway
<1>7. CASE f.failed = FALSE /\ g.failed = FALSE /\ WF(g) /\ Sound(g, f, P, K)
  <2>1. WF(f) /\ P \subseteq Es(f) /\ K \subseteq Es(f) /\ Es(f) \subseteq Es(g) /\ \A x \in Es(f) : Lo(f, x) = Lo(g, x)
    BY <1>7 DEF Sound
  <2>2. r = null \/ Next2(f, P, l, r, i)
    <3> SUFFICES ASSUME r # null PROVE Next2(f, P, l, r, i)
      OBVIOUS
    <3> DEFINE n == Len(list)
               a == 2 * (k + 1) - 1
               b == 2 * (k + 1)
    <3>1. r \in P /\ b \in 1..n /\ r = list[b] /\ n \in Nat
      BY <1>2 DEF Column
    <3>2. a \in 1..n /\ l = list[a] /\ a < b
      BY <1>1, <3>1, PairNumbers
    <3>3. i \in 0..maxLevel(g)
      <4>1. l \in Es(g)
        BY <1>2, <2>1
      <4>2. QED BY <4>1, <1>2, <1>7, Basics DEF WF, Forest
    <3>4. Listed(list, LoAt(g, i)) /\ \A v \in Es(g) : level(v) = i => LoAt(g, i)[v] = Lo(g, v)
      BY <3>3, <1>7, ListedElements DEF WF, Forest
    <3>5. \A j, m \in 1..n : j < m => LoAt(g, i)[list[j]] < LoAt(g, i)[list[m]]
      BY <3>4 DEF Listed
    <3>6. \A j \in 1..n : list[j] \in P => LoAt(g, i)[list[j]] = Lo(f, list[j])
      <4>1. \A j \in 1..n : level(list[j]) = i
        BY DEF Column
      <4>2. QED BY <4>1, <3>4, <2>1
    <3>7. Lo(f, l) < Lo(f, r)
      BY <1>2, <3>1, <3>2, <3>5, <3>6
    <3>8. ASSUME NEW x \in P PROVE level(x) >= i /\ (level(x) = i /\ x # l /\ x # r => Lo(f, x) > Lo(f, r))
      <4>1. CASE x \in U
        <5>1. level(x) > i /\ i \in Nat /\ level(x) \in Nat
          <6>1. x \in Es(f)
            BY <2>1
          <6>2. level(x) \in Nat
            BY <6>1, <2>1, Basics DEF WF, Forest
          <6>3. QED BY <4>1, <6>2 DEF Column
        <5>2. QED BY <5>1
      <4>2. CASE x \notin U
        <5>1. PICK j \in 1..n : j > 2 * k /\ x = list[j]
          BY <1>1, <4>2 DEF Rest
        <5>2. level(x) = i /\ i \in Nat
          BY <5>1 DEF Column
        <5>3. x # l /\ x # r => j > b
          <6>1. x = list[j] /\ j > 2 * k /\ j \in Nat
            BY <5>1
          <6>2. l = list[2 * k + 1] /\ r = list[2 * k + 2]
            BY <3>1, <3>2
          <6>3. x # l /\ x # r => j # 2 * k + 1 /\ j # 2 * k + 2
            BY <6>1, <6>2
          <6>4. QED BY <6>1, <6>3
        <5>4. x # l /\ x # r => Lo(f, r) < Lo(f, x)
          BY <5>1, <5>3, <3>1, <3>5, <3>6
        <5>5. Lo(f, r) \in Nat /\ Lo(f, x) \in Nat
          BY <2>1, <3>1, Basics DEF WF, Forest
        <5>6. QED BY <5>2, <5>4, <5>5
      <4>3. QED BY <4>1, <4>2
    <3>9. i \in 1..maxLevel(f)
      <4>1. maxLevel(f) = maxLevel(g)
        BY <1>4 DEF Beyond, maxLevel
      <4>2. QED BY <3>3, <4>1
    <3>10. level(r) = i
      BY <3>1 DEF Column
    <3> HIDE DEF n, a, b
    <3>11. QED BY <1>2, <2>1, <3>1, <3>7, <3>8, <3>9, <3>10 DEF Next2
  <2>3. /\ Beyond(f, h, i)
        /\ h.failed = TRUE \/ (h.failed = FALSE /\ (Doomed(h, Q) \/ Sound(f, h, Q, K)))
    <3>1. /\ WF(f) /\ f.failed = FALSE /\ P \subseteq Es(f) /\ l \in P /\ level(l) = i
          /\ Q \subseteq P /\ l \notin Q /\ r \notin Q /\ h = CoarsenPair(f, l, r) /\ K \subseteq Es(f)
          /\ (\A x \in K : level(x) # i) /\ (r = null \/ Next2(f, P, l, r, i))
      BY <1>2, <1>3, <1>7, <2>1, <2>2
    <3>2. Taking(f, P, l, r, i, Q, h, K)
      BY <3>1 DEF Taking
    <3>3. Passed(f, h, i, Q, K)
      BY <3>2, PairKeeps
    <3>4. QED BY <3>3 DEF Passed
  <2>4. Beyond(g, h, i)
    BY <1>4, <2>3, BeyondAgain
  <2>5. Sound(f, h, Q, K) => Sound(g, h, Q, K)
    BY <1>7, SoundAgain
  <2>6. Midway(g, h, i, Q, K)
    BY <1>7, <2>3, <2>4, <2>5 DEF Midway
  <2>7. QED BY <1>1, <2>6
<1>8. QED BY <1>3, <1>5, <1>6, <1>7 DEF Midway

(* A level is coarsened: the grid stays consistent, or an assertion fails  *)
(* now or later.                                                           *)
LEMMA CoarsenLevelKeeps ==
  ASSUME NEW g, NEW i, i # 0, NEW U, Column(g.elements[i], U, i), NEW K, \A x \in K : level(x) # i,
         Midway(g, g, i, Rest(g.elements[i], U, 0), K), NEW h, h = CoarsenLevel(g, i)
  PROVE  Midway(g, h, i, U, K)
<1> DEFINE list == g.elements[i]
           n == (Len(list) + 1) \div 2
<1>1. Len(list) \in Nat /\ n \in Nat /\ Column(list, U, i)
  <2>1. Len(list) \in Nat
    BY DEF Column
  <2>2. QED BY <2>1, PairNumbers
<1>2. PICK f : h = f[n] /\ f[0] = g /\ \A k \in 1..n : f[k] = CoarsenPair(f[k-1], list[2 * k - 1], at(list, 2 * k))
  <2>1. PICK f : CoarsenLevel(g, i) = f[n] /\ Pairs(f, g, list, n)
    BY <1>1, CoarsenLevelIs
  <2> HIDE DEF n, list
  <2>2. f[0] = g /\ \A k \in 1..n : f[k] = CoarsenPair(f[k-1], list[2 * k - 1], at(list, 2 * k))
    BY <2>1 DEF Pairs
  <2>3. QED BY <2>1, <2>2
<1>3. Rest(list, U, n) = U
  <2>1. \A j \in 1..Len(list) : ~(j > 2 * n)
    BY <1>1, PairNumbers
  <2> HIDE DEF n, list
  <2>2. QED BY <2>1 DEF Rest
<1>4. list = g.elements[i] /\ n = (Len(list) + 1) \div 2
  OBVIOUS
<1> HIDE DEF n
<1> HIDE DEF list
<1> DEFINE T == {k \in Nat : k <= n => Midway(g, f[k], i, Rest(list, U, k), K)}
<1>5. 0 \in T
  BY <1>2, <1>4
<1>6. ASSUME NEW k \in Nat, k \in T PROVE k + 1 \in T
  <2> SUFFICES ASSUME k + 1 <= n PROVE Midway(g, f[k+1], i, Rest(list, U, k + 1), K)
    OBVIOUS
  <2>1. Midway(g, f[k], i, Rest(list, U, k), K)
    BY <1>1, <1>6
  <2>2. k + 1 \in 1..n /\ (k + 1) - 1 = k
    BY <1>1
  <2>3. f[k+1] = CoarsenPair(f[(k+1)-1], list[2 * (k + 1) - 1], at(list, 2 * (k + 1)))
    BY <1>2, <2>2
  <2>4. f[k+1] = CoarsenPair(f[k], list[2 * (k + 1) - 1], at(list, 2 * (k + 1)))
    BY <2>2, <2>3
  <2>5. k + 1 <= (Len(list) + 1) \div 2
    BY <1>4
  <2>6. QED BY <1>1, <1>4, <2>1, <2>4, <2>5, PairOn
<1> HIDE DEF T
<1>7. n \in T
  BY <1>1, <1>5, <1>6, InductionOn
<1>8. Midway(g, f[n], i, Rest(list, U, n), K)
  BY <1>1, <1>7 DEF T
<1>9. QED BY <1>2, <1>3, <1>8

(* No element of a forest is left with one son. *)
LEMMA TwoSonsOrNone ==
  ASSUME NEW g, WF(g)
  PROVE  (\A e \in Es(g) : leafOrNot(g, e)) /\ \A P : ~Doomed(g, P)
<1>1. ASSUME NEW e \in Es(g)
      PROVE  /\ (g.element[e].sons[1] = null) <=> isLeaf(g, e)
             /\ (g.element[e].sons[2] = null) <=> isLeaf(g, e)
  <2>1. isLeaf(g, e) <=> g.element[e].sons[1] = null /\ g.element[e].sons[2] = null
    BY Basics DEF WF, Forest
  <2>2. ~isLeaf(g, e) => g.element[e].sons[1] \in Es(g) /\ g.element[e].sons[2] \in Es(g)
    BY DEF WF, Forest, SonsOf
  <2>3. null \notin Es(g)
    BY Basics DEF WF, Forest
  <2>4. QED BY <2>1, <2>2, <2>3
<1>2. \A e \in Es(g) : leafOrNot(g, e)
  <2> TAKE e \in Es(g)
  <2>1. \A s \in 1..2 : s = 1 \/ s = 2
    OBVIOUS
  <2>2. QED BY <1>1, <2>1 DEF leafOrNot
<1>3. \A P : ~Doomed(g, P)
  BY <1>1 DEF Doomed
<1>4. QED BY <1>2, <1>3

(* A list of the forest, as the coarsening of its level sees it. *)
Above(g, i) == {x \in Es(g) : level(x) > i}

(* The list of a level, and what is above it. *)
LEMMA LevelColumn ==
  ASSUME NEW g, WF(g), NEW i \in 1..maxLevel(g)
  PROVE  /\ Column(g.elements[i], Above(g, i), i)
         /\ Rest(g.elements[i], Above(g, i), 0) = Above(g, i - 1)
<1> DEFINE list == g.elements[i]
           U == Above(g, i)
           f == LoAt(g, i)
           n == Len(list)
<1>0. maxLevel(g) \in Nat /\ null \notin Es(g) /\ \A e \in Es(g) : level(e) \in Nat /\ e # null
  BY Basics DEF WF, Forest
<1>1. i \in Nat /\ i \in 0..maxLevel(g)
  BY <1>0
<1>2. Listed(list, f) /\ Numbering(f) /\ \A v : v \in DOMAIN f <=> v \in Es(g) /\ level(v) = i
  BY <1>1, ListedElements DEF WF, Forest
<1> HIDE DEF f, list
<1>3. n \in Nat /\ DOMAIN list = 1..n /\ \A k \in 1..n : list[k] \in DOMAIN f
  BY <1>2, ListedMembers
<1>4. \A j, k \in 1..n : j # k => list[j] # list[k]
  BY <1>2, ListedOrder
<1>5. \A x \in DOMAIN f : \E k \in 1..n : list[k] = x
  BY <1>2 DEF Listed
<1>6. \A j \in 1..n : list[j] \in Es(g) /\ level(list[j]) = i /\ list[j] # null
  BY <1>0, <1>2, <1>3
<1>7. Column(list, U, i)
  BY <1>0, <1>1, <1>3, <1>4, <1>6 DEF Column, Above
<1>8. \A x : x \in Rest(list, U, 0) <=> x \in U \/ \E j \in 1..n : x = list[j]
  <2>1. \A j \in 1..n : j > 2 * 0
    BY <1>3
  <2>2. QED BY <2>1 DEF Rest
<1>9. \A x : x \in Above(g, i - 1) <=> x \in U \/ (x \in Es(g) /\ level(x) = i)
  <2>1. \A x \in Es(g) : level(x) > i - 1 <=> level(x) > i \/ level(x) = i
    BY <1>0, <1>1
  <2>2. QED BY <2>1 DEF Above
<1>10. \A x : (\E j \in 1..n : x = list[j]) <=> (x \in Es(g) /\ level(x) = i)
  BY <1>2, <1>5, <1>6
<1>11. \A x : x \in Rest(list, U, 0) <=> x \in Above(g, i - 1)
  BY <1>8, <1>9, <1>10
<1>12. Rest(list, U, 0) = Above(g, i - 1)
  BY <1>11 DEF Rest, Above
<1>13. QED BY <1>7, <1>12 DEF list

-----------------------------------------------------------------------------
(* The coarsening of the levels 1..i of the grid g has led to h: the       *)
(* assertion that every element has two sons or none has failed, or is     *)
(* going to fail, or h is a forest whose levels below i are not empty.     *)
Levels(g, h, i) ==
  /\ Shape(h) /\ DOMAIN h.elements = DOMAIN g.elements /\ h.reversed = g.reversed
  /\ \A j \in DOMAIN g.elements : j > i => h.elements[j] = g.elements[j]
  /\ \/ h.failed = TRUE
     \/ h.failed = FALSE /\ Doomed(h, Above(g, i))
     \/ /\ h.failed = FALSE /\ WF(h) /\ Above(g, i) \subseteq Es(h) /\ Es(h) \subseteq Es(g)
        /\ \A j \in 0..maxLevel(g) : j < i => \E e \in Es(h) : level(e) = j

(* Before the first level. *)
LEMMA LevelsFirst ==
  ASSUME NEW g, WF(g), g.failed = FALSE
  PROVE  Levels(g, g, 0)
<1>1. Shape(g) /\ maxLevel(g) \in Nat
  BY Basics DEF WF, Forest, Typed
<1>2. \A j \in 0..maxLevel(g) : ~(j < 0)
  BY <1>1
<1>3. Above(g, 0) \subseteq Es(g)
  BY DEF Above
<1>4. QED BY <1>1, <1>2, <1>3 DEF Levels

(* One more level is coarsened. *)
LEMMA LevelsNext ==
  ASSUME NEW g, WF(g), Full(g), NEW i \in 1..maxLevel(g), NEW f, Levels(g, f, i - 1),
         NEW h, h = CoarsenLevel(f, i)
  PROVE  Levels(g, h, i)
<1>0. maxLevel(g) \in Nat /\ i \in Nat /\ i # 0 /\ i - 1 \in Nat /\ i > i - 1 /\ i \in 0..maxLevel(g) /\ i - 1 \in 0..maxLevel(g)
  <2>1. maxLevel(g) \in Nat
    BY Basics DEF WF, Forest
  <2>2. QED BY <2>1
<1>1. PICK U, P, K, list : U = Above(g, i) /\ P = Above(g, i - 1) /\ list = g.elements[i]
                           /\ K = {x \in Es(f) : level(x) # i}
  OBVIOUS
<1>2. Column(list, U, i) /\ Rest(list, U, 0) = P
  BY <1>1, LevelColumn
<1>3. DOMAIN g.elements = 0..maxLevel(g)
  BY DEF WF, Forest, Typed
<1>4. f.elements[i] = list /\ Shape(f) /\ DOMAIN f.elements = DOMAIN g.elements
  BY <1>0, <1>1, <1>3 DEF Levels
<1>5. \/ f.failed = TRUE
      \/ f.failed = FALSE /\ Doomed(f, P)
      \/ /\ f.failed = FALSE /\ WF(f) /\ P \subseteq Es(f) /\ Es(f) \subseteq Es(g)
         /\ \A j \in 0..maxLevel(g) : j < i - 1 => \E e \in Es(f) : level(e) = j
  BY <1>1 DEF Levels
<1>6. Midway(f, f, i, P, K)
  <2>1. Beyond(f, f, i)
    BY <1>4, BeyondItself
  <2>2. f.failed = FALSE /\ WF(f) /\ P \subseteq Es(f) => Sound(f, f, P, K)
    BY <1>1 DEF Sound
  <2>3. QED BY <1>5, <2>1, <2>2 DEF Midway
<1>7. Midway(f, h, i, U, K)
  <2>1. \A x \in K : level(x) # i
    BY <1>1
  <2>2. Column(f.elements[i], U, i) /\ Midway(f, f, i, Rest(f.elements[i], U, 0), K)
    BY <1>2, <1>4, <1>6
  <2>3. QED BY <1>0, <2>1, <2>2, CoarsenLevelKeeps
<1>8. Beyond(f, h, i)
  BY <1>7 DEF Midway
<1>9. /\ Shape(h) /\ DOMAIN h.elements = DOMAIN g.elements /\ h.reversed = g.reversed
      /\ \A j \in DOMAIN g.elements : j > i => h.elements[j] = g.elements[j]
  <2>1. \A j \in DOMAIN g.elements : j > i => j > i - 1 /\ j # i
    BY <1>0, <1>3
  <2>2. \A j \in DOMAIN g.elements : j > i => f.elements[j] = g.elements[j]
    BY <2>1 DEF Levels
  <2>3. \A j \in DOMAIN g.elements : j > i => h.elements[j] = f.elements[j]
    BY <1>4, <1>8, <2>1 DEF Beyond
  <2>4. f.reversed = g.reversed
    BY DEF Levels
  <2>5. QED BY <1>4, <1>8, <2>2, <2>3, <2>4 DEF Beyond
<1>10. CASE h.failed = TRUE
  BY <1>9, <1>10 DEF Levels
<1>11. CASE h.failed = FALSE /\ Doomed(h, U)
  BY <1>1, <1>9, <1>11 DEF Levels
<1>12. CASE h.failed = FALSE /\ f.failed = FALSE /\ WF(f) /\ Sound(f, h, U, K)
  <2>1. WF(h) /\ U \subseteq Es(h) /\ K \subseteq Es(h) /\ Es(h) \subseteq Es(f)
    BY <1>12 DEF Sound
  <2>2. /\ P \subseteq Es(f) /\ Es(f) \subseteq Es(g)
        /\ \A j \in 0..maxLevel(g) : j < i - 1 => \E e \in Es(f) : level(e) = j
    <3>1. ~Doomed(f, P)
      BY <1>12, TwoSonsOrNone
    <3>2. f.failed # TRUE
      BY <1>12
    <3>3. QED BY <3>1, <3>2, <1>5
  <2>3. ASSUME NEW j \in 0..maxLevel(g), j < i PROVE \E e \in Es(h) : level(e) = j
    <3>1. CASE j < i - 1
      <4>1. PICK e \in Es(f) : level(e) = j
        BY <2>2, <3>1
      <4>2. e \in K
        BY <1>0, <1>1, <3>1, <4>1
      <4>3. QED BY <2>1, <4>1, <4>2
    <3>2. CASE j = i - 1
      <4>1. PICK e \in Es(g) : level(e) = i
        BY <1>0 DEF Full
      <4>2. e \in P /\ e \in Es(f)
        BY <1>0, <1>1, <2>2, <4>1 DEF Above
      <4>3. PICK F : F = f.element[e].father
        OBVIOUS
      <4>4. F \in Es(f) /\ level(F) = i - 1
        <5>1. F \in Es(f) \cup {null} /\ level(e) # 0
          BY <1>0, <1>12, <4>1, <4>2, <4>3, Basics DEF WF, Forest
        <5>2. F # null /\ level(F) = level(e) - 1
          BY <1>12, <4>2, <4>3, <5>1 DEF WF, Forest, Fathers
        <5>3. QED BY <4>1, <5>1, <5>2
      <4>5. F \in K
        BY <1>0, <1>1, <4>4
      <4>6. QED BY <2>1, <3>2, <4>4, <4>5
    <3>3. QED BY <1>0, <2>3, <3>1, <3>2
  <2>4. Es(h) \subseteq Es(g)
    BY <2>1, <2>2
  <2>5. QED BY <1>1, <1>9, <1>12, <2>1, <2>3, <2>4 DEF Levels
<1>13. QED BY <1>7, <1>10, <1>11, <1>12 DEF Midway

(* All levels are coarsened. *)
LEMMA CoarsenedLevelsKeeps ==
  ASSUME NEW g, WF(g), Full(g), g.failed = FALSE, NEW h, h = CoarsenedLevels(g)
  PROVE  Levels(g, h, maxLevel(g))
<1> DEFINE n == maxLevel(g)
<1>1. n \in Nat
  BY Basics DEF WF, Forest
<1>2. PICK f : h = f[n] /\ f[0] = g /\ \A k \in 1..n : f[k] = CoarsenLevel(f[k-1], k)
  <2>1. PICK f : CoarsenedLevels(g) = f[n] /\ f[0] = g /\ \A k \in 1..n : f[k] = CoarsenLevel(f[k-1], k)
    BY <1>1, CoarsenedLevelsIs
  <2>2. QED BY <2>1
<1>3. \A k \in 1..n : k \in 1..maxLevel(g)
  OBVIOUS
<1> HIDE DEF n
<1> DEFINE T == {k \in Nat : k <= n => Levels(g, f[k], k)}
<1>4. 0 \in T
  BY <1>2, LevelsFirst
<1>5. ASSUME NEW k \in Nat, k \in T PROVE k + 1 \in T
  <2> SUFFICES ASSUME k + 1 <= n PROVE Levels(g, f[k+1], k + 1)
    OBVIOUS
  <2>1. Levels(g, f[k], k)
    BY <1>5, <1>1
  <2>2. PICK i : i = k + 1 /\ i \in 1..n /\ i - 1 = k
    BY <1>1
  <2>3. i \in 1..maxLevel(g) /\ f[i] = CoarsenLevel(f[i-1], i) /\ Levels(g, f[i-1], i - 1)
    BY <1>2, <1>3, <2>1, <2>2
  <2>4. Levels(g, f[i], i)
    BY <2>3, LevelsNext
  <2>5. QED BY <2>2, <2>4
<1> HIDE DEF T
<1>6. n \in T
  BY <1>1, <1>4, <1>5, InductionOn
<1>7. QED BY <1>1, <1>2, <1>6 DEF T, n

(* After coarsening an assertion has failed, or the grid is consistent:    *)
(* sons that are left alone do not go unnoticed.                           *)
LEMMA CoarsenedKeeps ==
  ASSUME NEW g, WF(g), Full(g), g.failed = FALSE, NEW h, h = Coarsened(g)
  PROVE  /\ Shape(h)
         /\ h.failed = TRUE \/ (h.failed = FALSE /\ WF(h) /\ Almost(h) /\ maxLevel(h) = maxLevel(g) /\ h.reversed = g.reversed)
<1>1. PICK c, n : c = CoarsenedLevels(g) /\ n = maxLevel(g)
  OBVIOUS
<1>2. Levels(g, c, n) /\ h = Checked(c)
  BY <1>1, CoarsenedLevelsKeeps DEF Coarsened
<1>3. Shape(c) /\ maxLevel(c) = n /\ c.reversed = g.reversed
  BY <1>1, <1>2 DEF Levels, maxLevel
<1>4. CASE c.failed = TRUE
  BY <1>2, <1>3, <1>4 DEF Checked
<1>5. CASE c.failed = FALSE /\ Doomed(c, Above(g, n))
  <2>1. PICK e \in Es(c) : c.element[e].sons[1] = null /\ c.element[e].sons[2] # null
    BY <1>5 DEF Doomed
  <2>2. ~isLeaf(c, e)
    BY <2>1 DEF isLeaf
  <2>3. ~leafOrNot(c, e)
    BY <2>1, <2>2 DEF leafOrNot
  <2>4. h = [c EXCEPT !.failed = TRUE]
    BY <1>2, <1>5, <2>3 DEF Checked, Es
  <2>5. QED BY <1>3, <2>4 DEF Shape
<1>6. CASE /\ c.failed = FALSE /\ WF(c)
           /\ \A j \in 0..maxLevel(g) : j < n => \E e \in Es(c) : level(e) = j
  <2>1. h = c
    BY <1>2, <1>6, TwoSonsOrNone DEF Checked, Es
  <2>2. Almost(c)
    BY <1>1, <1>3, <1>6 DEF Almost
  <2>3. QED BY <1>1, <1>3, <1>6, <2>1, <2>2
<1>7. QED BY <1>2, <1>4, <1>5, <1>6 DEF Levels

-----------------------------------------------------------------------------
(* Where no leaf is marked for coarsening nothing is taken away. *)
Unannounced(g) == \A e \in Es(g) : isLeaf(g, e) => g.element[e].markState # "COARSEN"

Unmoved(g, h) == h = g \/ h = [g EXCEPT !.failed = TRUE]

(* A grid that has not moved, except for the flag. *)
LEMMA UnmovedFields ==
  ASSUME NEW g, Shape(g), NEW h, Unmoved(g, h)
  PROVE  /\ Shape(h) /\ h.elements = g.elements /\ h.element = g.element
         /\ h = g \/ h.failed = TRUE
BY DEF Unmoved, Shape

(* A pair is not taken if nothing is marked for coarsening. *)
LEMMA CoarsenPairUnmoved ==
  ASSUME NEW g, Shape(g), Unannounced(g), NEW f, Unmoved(g, f), NEW l \in Es(g), NEW r, NEW h, h = CoarsenPair(f, l, r)
  PROVE  Unmoved(g, h)
<1>1. CASE f.failed = TRUE
  BY <1>1 DEF CoarsenPair
<1>2. CASE f.failed # TRUE /\ f = g
  <2>1. ~removable(g, l, r)
    BY DEF removable, Unannounced
  <2>2. h = g \/ h = [g EXCEPT !.failed = TRUE]
    BY <1>2, <2>1 DEF CoarsenPair
  <2>3. QED BY <2>2 DEF Unmoved
<1>3. QED BY <1>1, <1>2, UnmovedFields

(* A level is not coarsened if nothing is marked for it. *)
LEMMA CoarsenLevelUnmoved ==
  ASSUME NEW g, WF(g), Unannounced(g), NEW f, Unmoved(g, f), NEW i \in 1..maxLevel(g), NEW h, h = CoarsenLevel(f, i)
  PROVE  Unmoved(g, h)
<1> DEFINE list == g.elements[i]
           n == (Len(list) + 1) \div 2
<1>1. Shape(g) /\ f.elements = g.elements
  BY WFRecords, UnmovedFields
<1>2. Column(list, Above(g, i), i) /\ Rest(list, Above(g, i), 0) = Above(g, i - 1)
  BY LevelColumn
<1>3. Len(list) \in Nat /\ n \in Nat /\ \A k \in Nat : k + 1 <= n => 2 * (k + 1) - 1 \in 1..Len(list)
  <2>1. Len(list) \in Nat
    BY <1>2 DEF Column
  <2>2. QED BY <2>1, PairNumbers
<1>4. \A j \in 1..Len(list) : list[j] \in Es(g)
  <2>1. \A j \in 1..Len(list) : j > 2 * 0
    BY <1>3
  <2>2. \A j \in 1..Len(list) : list[j] \in Rest(list, Above(g, i), 0)
    BY <2>1 DEF Rest
  <2>3. QED BY <1>2, <2>2 DEF Above
<1>5. PICK p : h = p[n] /\ p[0] = f /\ \A k \in 1..n : p[k] = CoarsenPair(p[k-1], list[2 * k - 1], at(list, 2 * k))
  <2>0. f.elements[i] = list
    BY <1>1
  <2> HIDE DEF list
  <2>1. PICK p : CoarsenLevel(f, i) = p[n] /\ Pairs(p, f, list, n)
    BY <1>3, <2>0, CoarsenLevelIs
  <2> HIDE DEF n
  <2>2. p[0] = f /\ \A k \in 1..n : p[k] = CoarsenPair(p[k-1], list[2 * k - 1], at(list, 2 * k))
    BY <2>1 DEF Pairs
  <2>3. QED BY <2>1, <2>2
<1> HIDE DEF n
<1> HIDE DEF list
<1> DEFINE T == {k \in Nat : k <= n => Unmoved(g, p[k])}
<1>6. 0 \in T
  BY <1>5
<1>7. ASSUME NEW k \in Nat, k \in T PROVE k + 1 \in T
  <2> SUFFICES ASSUME k + 1 <= n PROVE Unmoved(g, p[k+1])
    OBVIOUS
  <2>1. Unmoved(g, p[k])
    BY <1>7, <1>3
  <2>2. k + 1 \in 1..n /\ (k + 1) - 1 = k
    BY <1>3
  <2>3. p[k+1] = CoarsenPair(p[(k+1)-1], list[2 * (k + 1) - 1], at(list, 2 * (k + 1)))
    BY <1>5, <2>2
  <2>4. p[k+1] = CoarsenPair(p[k], list[2 * (k + 1) - 1], at(list, 2 * (k + 1))) /\ list[2 * (k + 1) - 1] \in Es(g)
    BY <1>3, <1>4, <2>2, <2>3
  <2>5. QED BY <1>1, <2>1, <2>4, CoarsenPairUnmoved
<1> HIDE DEF T
<1>8. n \in T
  BY <1>3, <1>6, <1>7, InductionOn
<1>9. QED BY <1>3, <1>5, <1>8 DEF T

(* Nothing vanishes if nothing is marked for coarsening. *)
LEMMA CoarsenedUnmoved ==
  ASSUME NEW g, WF(g), Unannounced(g), NEW h, h = Coarsened(g)
  PROVE  Unmoved(g, h)
<1> DEFINE n == maxLevel(g)
           c == CoarsenedLevels(g)
<1>1. n \in Nat
  BY Basics DEF WF, Forest
<1>2. PICK f : c = f[n] /\ f[0] = g /\ \A k \in 1..n : f[k] = CoarsenLevel(f[k-1], k)
  <2>1. PICK f : CoarsenedLevels(g) = f[n] /\ f[0] = g /\ \A k \in 1..n : f[k] = CoarsenLevel(f[k-1], k)
    BY <1>1, CoarsenedLevelsIs
  <2>2. QED BY <2>1
<1>3. \A k \in 1..n : k \in 1..maxLevel(g)
  OBVIOUS
<1>4. h = Checked(c)
  BY DEF Coarsened
<1> HIDE DEF n
<1> HIDE DEF c
<1> DEFINE T == {k \in Nat : k <= n => Unmoved(g, f[k])}
<1>5. 0 \in T
  BY <1>2 DEF Unmoved
<1>6. ASSUME NEW k \in Nat, k \in T PROVE k + 1 \in T
  <2> SUFFICES ASSUME k + 1 <= n PROVE Unmoved(g, f[k+1])
    OBVIOUS
  <2>1. Unmoved(g, f[k])
    BY <1>6, <1>1
  <2>2. PICK i : i = k + 1 /\ i \in 1..n /\ i - 1 = k
    BY <1>1
  <2>3. i \in 1..maxLevel(g) /\ f[i] = CoarsenLevel(f[i-1], i) /\ Unmoved(g, f[i-1])
    BY <1>2, <1>3, <2>1, <2>2
  <2>4. Unmoved(g, f[i])
    BY <2>3, CoarsenLevelUnmoved
  <2>5. QED BY <2>2, <2>4
<1> HIDE DEF T
<1>7. n \in T
  BY <1>1, <1>5, <1>6, InductionOn
<1>8. Unmoved(g, c)
  BY <1>1, <1>2, <1>7 DEF T
<1>9. Shape(g) /\ \A e \in Es(g) : leafOrNot(g, e)
  BY WFRecords, TwoSonsOrNone
<1>10. CASE c = g
  BY <1>4, <1>9, <1>10 DEF Checked, Es, Unmoved
<1>11. CASE c # g
  <2>1. c.failed = TRUE
    BY <1>8, <1>9, <1>11, UnmovedFields
  <2>2. QED BY <1>4, <1>8, <2>1 DEF Checked
<1>12. QED BY <1>10, <1>11
=============================================================================

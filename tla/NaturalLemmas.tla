--------------------------- MODULE NaturalLemmas ---------------------------
(***************************************************************************)
(* Lemmas on natural numbers that the proofs of several modules need:      *)
(* induction, functions defined by recursion, division with remainder by a *)
(* divisor that is not a constant, powers of two.  Induction speaks of a   *)
(* set of numbers instead of a predicate.                                  *)
(***************************************************************************)
EXTENDS Integers, FiniteSets, WellFoundedInduction, FiniteSetTheorems, TLAPS

(* A nonempty set of natural numbers has a smallest element. *)
LEMMA Smallest ==
  ASSUME NEW T, T \subseteq Nat, T # {}
  PROVE  \E m \in T : \A k \in T : m <= k
<1>1. PICK m \in T : \A k \in T : ~ (<<k, m>> \in OpToRel(<, Nat))
  BY NatLessThanWellFounded, WFMin
<1>2. \A k \in T : ~ (k < m)
  BY <1>1 DEF OpToRel
<1>3. QED BY <1>2

(* Induction. *)
LEMMA InductionOn ==
  ASSUME NEW T, 0 \in T, \A n \in Nat : n \in T => n + 1 \in T
  PROVE  Nat \subseteq T
<1> SUFFICES ASSUME Nat \ T # {} PROVE FALSE
  OBVIOUS
<1>1. PICK m \in Nat \ T : \A k \in Nat \ T : m <= k
  BY Smallest
<1>2. m # 0 /\ m - 1 \in Nat /\ m - 1 \in T
  BY <1>1
<1>3. QED BY <1>2, <1>1

-----------------------------------------------------------------------------
(* g follows the recursion from a with the steps F, up to n. *)
Follows(g, V, a, F, n) ==
  /\ g \in [0..n -> V]
  /\ g[0] = a
  /\ \A k \in 1..n : g[k] = F[k][g[k-1]]

LEMMA FollowsAgree ==
  ASSUME NEW V, NEW a \in V, NEW F, NEW m \in Nat, NEW n \in Nat, m <= n,
         NEW g, Follows(g, V, a, F, m), NEW h, Follows(h, V, a, F, n)
  PROVE  \A k \in 0..m : g[k] = h[k]
<1> DEFINE T == {k \in Nat : k <= m => g[k] = h[k]}
<1>1. 0 \in T
  BY DEF Follows
<1>2. ASSUME NEW k \in Nat, k \in T PROVE k + 1 \in T
  <2>1. CASE ~ (k + 1 <= m)
    BY <2>1
  <2>2. CASE k + 1 <= m
    <3>1. k + 1 \in 1..m /\ k + 1 \in 1..n /\ (k + 1) - 1 = k
      BY <2>2
    <3>2. g[k+1] = F[k+1][g[k]] /\ h[k+1] = F[k+1][h[k]]
      BY <3>1 DEF Follows
    <3>3. g[k] = h[k]
      BY <1>2, <2>2
    <3>4. QED BY <3>2, <3>3
  <2>3. QED BY <2>1, <2>2
<1>3. Nat \subseteq T
  <2> HIDE DEF T
  <2>1. QED BY <1>1, <1>2, InductionOn
<1>4. QED BY <1>3

(* A recursion with finitely many steps. *)
LEMMA RecursionUpTo ==
  ASSUME NEW V, NEW a \in V, NEW n \in Nat, NEW F \in [1..n -> [V -> V]]
  PROVE  \E g : Follows(g, V, a, F, n)
<1> DEFINE T == {m \in Nat : m <= n => \E g : Follows(g, V, a, F, m)}
<1>1. 0 \in T
  <2>1. Follows([k \in 0..0 |-> a], V, a, F, 0)
    BY DEF Follows
  <2>2. QED BY <2>1
<1>2. ASSUME NEW m \in Nat, m \in T PROVE m + 1 \in T
  <2> SUFFICES ASSUME m + 1 <= n PROVE \E g : Follows(g, V, a, F, m + 1)
    OBVIOUS
  <2>1. PICK g : Follows(g, V, a, F, m)
    BY <1>2
  <2> DEFINE h == [k \in 0..m+1 |-> IF k = m + 1 THEN F[m+1][g[m]] ELSE g[k]]
  <2>2. g[m] \in V /\ m + 1 \in 1..n /\ F[m+1] \in [V -> V]
    BY <2>1 DEF Follows
  <2>3. h \in [0..m+1 -> V] /\ h[0] = a
    BY <2>1, <2>2 DEF Follows
  <2>4. ASSUME NEW k \in 1..m+1 PROVE h[k] = F[k][h[k-1]]
    <3>1. CASE k = m + 1
      <4>1. k - 1 = m /\ m # m + 1 /\ m \in 0..m+1 /\ k \in 0..m+1
        BY <3>1
      <4>2. h[k-1] = g[m] /\ h[k] = F[m+1][g[m]]
        BY <4>1, <3>1
      <4>3. QED BY <4>2, <3>1
    <3>2. CASE k # m + 1
      <4>1. k \in 1..m /\ k \in 0..m+1 /\ k - 1 \in 0..m+1 /\ k - 1 # m + 1
        BY <3>2
      <4>2. h[k] = g[k] /\ h[k-1] = g[k-1]
        BY <4>1, <3>2
      <4>3. QED BY <4>2, <4>1, <2>1 DEF Follows
    <3>3. QED BY <3>1, <3>2
  <2>5. Follows(h, V, a, F, m + 1)
    BY <2>3, <2>4 DEF Follows
  <2>6. QED BY <2>5
<1>3. Nat \subseteq T
  <2> HIDE DEF T
  <2>1. QED BY <1>1, <1>2, InductionOn
<1>4. QED BY <1>3

FollowsForever(g, V, a, F) ==
  /\ g \in [Nat -> V]
  /\ g[0] = a
  /\ \A k \in Nat : g[k+1] = F[k+1][g[k]]

(* A recursion without end. *)
LEMMA RecursionOnNat ==
  ASSUME NEW V, NEW a \in V, NEW F \in [Nat -> [V -> V]]
  PROVE  \E g : FollowsForever(g, V, a, F)
<1> DEFINE G == [n \in Nat |-> CHOOSE g : Follows(g, V, a, F, n)]
           f == [n \in Nat |-> G[n][n]]
<1>1. ASSUME NEW n \in Nat PROVE Follows(G[n], V, a, F, n)
  <2> DEFINE E == [k \in 1..n |-> F[k]]
  <2>1. E \in [1..n -> [V -> V]] /\ \A k \in 1..n : E[k] = F[k]
    OBVIOUS
  <2>2. PICK g : Follows(g, V, a, E, n)
    <3> HIDE DEF E
    <3>1. QED BY <2>1, RecursionUpTo
  <2>3. Follows(g, V, a, F, n)
    <3> HIDE DEF E
    <3>1. QED BY <2>1, <2>2 DEF Follows
  <2>4. QED BY <2>3
<1> HIDE DEF G
<1>2. \A n \in Nat : G[n][n] \in V
  BY <1>1 DEF Follows
<1>3. f \in [Nat -> V] /\ f[0] = a
  <2>1. Follows(G[0], V, a, F, 0)
    BY <1>1
  <2>2. QED BY <1>2, <2>1 DEF Follows
<1>4. ASSUME NEW k \in Nat PROVE f[k+1] = F[k+1][f[k]]
  <2>1. Follows(G[k+1], V, a, F, k+1) /\ Follows(G[k], V, a, F, k) /\ k + 1 \in Nat /\ k <= k + 1
    BY <1>1
  <2>2. \A i \in 0..k : G[k][i] = G[k+1][i]
    <3> DEFINE K == k + 1
               A == G[k]
               B == G[K]
    <3>1. Follows(B, V, a, F, K) /\ Follows(A, V, a, F, k) /\ K \in Nat /\ k <= K
      BY <2>1
    <3> HIDE DEF K, A, B
    <3>2. \A i \in 0..k : A[i] = B[i]
      BY <3>1, FollowsAgree
    <3>3. QED BY <3>2 DEF K, A, B
  <2>3. G[k][k] = G[k+1][k]
    BY <2>2
  <2>4. k + 1 \in 1..k+1 /\ (k + 1) - 1 = k
    OBVIOUS
  <2>5. G[k+1][k+1] = F[k+1][G[k+1][k]]
    BY <2>1, <2>4 DEF Follows
  <2>6. f[k] = G[k][k] /\ f[k+1] = G[k+1][k+1]
    OBVIOUS
  <2>7. QED BY <2>3, <2>5, <2>6
<1>5. FollowsForever(f, V, a, F)
  BY <1>3, <1>4 DEF FollowsForever
<1>6. QED BY <1>5

-----------------------------------------------------------------------------
LEMMA Division ==
  ASSUME NEW a \in Nat, NEW b \in Nat \ {0}
  PROVE  /\ a \div b \in Nat /\ (a % b) \in 0..b-1
         /\ a = b * (a \div b) + (a % b)
OBVIOUS

LEMMA MoreTimes ==
  ASSUME NEW a \in Int, NEW b \in Int, NEW m \in Nat, a <= b
  PROVE  m * a <= m * b
OBVIOUS

(* Quotient and remainder are determined. *)
LEMMA DivisionUnique ==
  ASSUME NEW a \in Nat, NEW b \in Nat \ {0}, NEW q \in Int, NEW r \in 0..b-1, a = b * q + r
  PROVE  a \div b = q /\ (a % b) = r
<1> DEFINE Q == a \div b
           R == a % b
<1>1. Q \in Nat /\ R \in 0..b-1 /\ a = b * Q + R
  BY Division
<1> HIDE DEF Q, R
<1>2. ASSUME q >= Q + 1 PROVE FALSE
  <2>1. b * (Q + 1) <= b * q  BY <1>1, <1>2, MoreTimes
  <2>2. b * (Q + 1) = b * Q + b  BY <1>1
  <2>3. QED BY <2>1, <2>2, <1>1
<1>3. ASSUME Q >= q + 1 PROVE FALSE
  <2>1. b * (q + 1) <= b * Q  BY <1>1, <1>3, MoreTimes
  <2>2. b * (q + 1) = b * q + b  OBVIOUS
  <2>3. QED BY <2>1, <2>2, <1>1
<1>4. Q = q  BY <1>1, <1>2, <1>3
<1>5. R = r  BY <1>1, <1>4
<1>6. QED  BY <1>4, <1>5 DEF Q, R

-----------------------------------------------------------------------------
(* Powers of two: 2^n is the number of subsets of a set with n elements.   *)
LEMMA PowerOfTwo ==
  ASSUME NEW n \in Nat
  PROVE  Cardinality(SUBSET (1..n)) = 2^n /\ IsFiniteSet(SUBSET (1..n)) /\ 2^n \in Nat \ {0}
<1>1. IsFiniteSet(1..n) /\ Cardinality(1..n) = n
  <2>1. IsFiniteSet(1..n) /\ Cardinality(1..n) = IF 1 > n THEN 0 ELSE n-1+1
    BY FS_Interval
  <2>2. QED  BY <2>1
<1>2. IsFiniteSet(SUBSET (1..n)) /\ Cardinality(SUBSET (1..n)) = 2^Cardinality(1..n)
  BY <1>1, FS_SUBSET
<1>3. Cardinality(SUBSET (1..n)) = 2^n
  BY <1>1, <1>2
<1>4. Cardinality(SUBSET (1..n)) \in Nat \ {0}
  <2>1. SUBSET (1..n) # {}
    OBVIOUS
  <2>2. Cardinality(SUBSET (1..n)) \in Nat
    BY <1>2, FS_CardinalityType
  <2>3. Cardinality(SUBSET (1..n)) # 0
    BY <2>1, <1>2, FS_EmptySet
  <2>4. QED  BY <2>2, <2>3
<1>5. QED  BY <1>2, <1>3, <1>4

LEMMA PowerZero ==
  2^0 = 1
<1>1. Cardinality(SUBSET (1..0)) = 2^0
  BY PowerOfTwo
<1>2. SUBSET (1..0) = {{}}
  OBVIOUS
<1>3. Cardinality({{}}) = 1
  BY FS_Singleton
<1>4. QED  BY <1>1, <1>2, <1>3

LEMMA PowerNext ==
  ASSUME NEW n \in Nat
  PROVE  2^(n+1) = 2 * 2^n
<1> DEFINE S == SUBSET (1..n)
           m == n + 1
           T == {X \cup {m} : X \in S}
<1>1. IsFiniteSet(S) /\ Cardinality(S) = 2^n /\ 2^n \in Nat
  BY PowerOfTwo
<1>2. 1..m = 1..n \cup {m} /\ m \notin 1..n
  OBVIOUS
<1> HIDE DEF m
<1>3. SUBSET (1..m) = S \cup T
  <2>1. S \cup T \subseteq SUBSET (1..m)
    BY <1>2
  <2>2. SUBSET (1..m) \subseteq S \cup T
    <3>1. SUFFICES ASSUME NEW X \in SUBSET (1..m) PROVE X \in S \cup T
      OBVIOUS
    <3>2. CASE m \in X
      <4>1. X \ {m} \in S /\ (X \ {m}) \cup {m} = X
        BY <1>2, <3>2
      <4>2. QED  BY <4>1
    <3>3. CASE m \notin X
      BY <1>2, <3>3
    <3>4. QED  BY <3>2, <3>3
  <2>3. QED  BY <2>1, <2>2
<1>4. S \cap T = {}
  BY <1>2
<1>5. IsFiniteSet(T) /\ Cardinality(T) = Cardinality(S)
  <2> DEFINE f == [X \in S |-> X \cup {m}]
  <2>1. \A X, Y \in S : X \cup {m} = Y \cup {m} => X = Y
    BY <1>2
  <2>2. f \in Bijection(S, T)
    BY <2>1 DEF Bijection, Injection, IsInjective, Surjection
  <2>3. ExistsBijection(S, T)
    BY <2>2 DEF ExistsBijection
  <2> HIDE DEF S, T
  <2>4. QED  BY <1>1, <2>3, FS_Bijection
<1> HIDE DEF S, T
<1>6. Cardinality(S \cup T) = Cardinality(S) + Cardinality(T) - Cardinality(S \cap T)
  BY <1>1, <1>5, FS_Union
<1>7. Cardinality(S \cap T) = 0
  BY <1>4, FS_EmptySet
<1>8. Cardinality(SUBSET (1..m)) = 2^n + 2^n
  BY <1>1, <1>3, <1>5, <1>6, <1>7
<1>9. m \in Nat
  BY DEF m
<1>10. Cardinality(SUBSET (1..m)) = 2^m
  BY <1>9, PowerOfTwo
<1>11. 2^m = 2 * 2^n
  BY <1>1, <1>8, <1>10
<1>12. QED  BY <1>11 DEF m

LEMMA ExponentSum ==
  ASSUME NEW a \in Nat, NEW b \in Nat
  PROVE  2^(a+b) = 2^a * 2^b
<1> DEFINE T == {k \in Nat : 2^(a+k) = 2^a * 2^k}
<1>1. 2^a \in Nat
  BY PowerOfTwo
<1>2. 0 \in T
  <2>1. a + 0 = a
    OBVIOUS
  <2>2. 2^a = 2^a * 1
    BY <1>1
  <2>3. QED  BY <2>1, <2>2, PowerZero
<1>3. \A k \in Nat : k \in T => k + 1 \in T
  <2>1. SUFFICES ASSUME NEW k \in Nat, 2^(a+k) = 2^a * 2^k PROVE 2^(a+(k+1)) = 2^a * 2^(k+1)
    OBVIOUS
  <2>2. a + (k + 1) = (a + k) + 1 /\ a + k \in Nat
    OBVIOUS
  <2>3. 2^((a+k)+1) = 2 * 2^(a+k) /\ 2^(k+1) = 2 * 2^k
    BY <2>2, PowerNext
  <2>4. 2^k \in Nat
    BY PowerOfTwo
  <2>5. \A x, y \in Nat : 2 * (x * y) = x * (2 * y)
    OBVIOUS
  <2>6. 2 * (2^a * 2^k) = 2^a * (2 * 2^k)
    BY <1>1, <2>4, <2>5
  <2>7. QED  BY <2>1, <2>2, <2>3, <2>6
<1>4. Nat \subseteq T
  <2> HIDE DEF T
  <2>1. QED  BY <1>2, <1>3, InductionOn
<1>5. QED  BY <1>4
=============================================================================

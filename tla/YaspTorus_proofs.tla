-------------------------- MODULE YaspTorus_proofs --------------------------
(***************************************************************************)
(* Proofs about the torus (module YaspTorus), for every number of          *)
(* directions and every size: ranks and coordinates correspond one to one  *)
(* (mixed-radix numbers with the increments as place values), the          *)
(* directions in the list of neighbours are the numbers of 3^d without the *)
(* middle one, written with the digits -1, 0 and 1, and so opposite        *)
(* positions have opposite directions and the lists of any two processes   *)
(* fit together.  Then the load balancers that choose the dimensions       *)
(* (module YaspPartitioning), for every number of processes.               *)
(***************************************************************************)
EXTENDS YaspPartitioning, NaturalLemmas

(* The increments as the loop of torus.hh:79-85 computes them: each is the *)
(* one before times the dimension before.                                  *)
LEMMA IncrementRec ==
  ASSUME NEW dims \in Seq(Nat \ {0})
  PROVE  increment(dims) = [i \in 1..Len(dims)+1 |->
           IF i = 1 THEN 1 ELSE increment(dims)[i-1] * dims[i-1]]
<1> DEFINE n == Len(dims)
           V == Nat \ {0}
           F == [k \in 1..n |-> [x \in V |-> x * dims[k]]]
<1>1. n \in Nat /\ \A k \in 1..n : dims[k] \in V
  OBVIOUS
<1>2. F \in [1..n -> [V -> V]]
  BY <1>1
<1>3. PICK g : Follows(g, V, 1, F, n)
  <2> HIDE DEF F
  <2>1. QED BY <1>1, <1>2, 1 \in V, RecursionUpTo
<1> DEFINE h == [i \in 1..n+1 |-> g[i-1]]
<1>4. ASSUME NEW i \in 1..n+1 PROVE h[i] = IF i = 1 THEN 1 ELSE h[i-1] * dims[i-1]
  <2>1. CASE i = 1
    BY <2>1, <1>1, <1>3 DEF Follows
  <2>2. CASE i # 1
    <3>1. i - 1 \in 1..n /\ (i - 1) - 1 \in 0..n /\ i - 1 \in 1..n+1
      BY <2>2, <1>1
    <3>2. g[i-1] = F[i-1][g[(i-1)-1]] /\ g[(i-1)-1] \in V
      BY <3>1, <1>3 DEF Follows
    <3>3. h[i] = g[i-1] /\ h[i-1] = g[(i-1)-1]
      BY <3>1
    <3>4. F[i-1][g[(i-1)-1]] = g[(i-1)-1] * dims[i-1]
      BY <3>1, <3>2
    <3>5. QED BY <3>2, <3>3, <3>4, <2>2
  <2>3. QED BY <2>1, <2>2
<1>5. h = [i \in 1..n+1 |-> IF i = 1 THEN 1 ELSE h[i-1] * dims[i-1]]
  BY <1>4
<1>6. \E f : f = [i \in 1..n+1 |-> IF i = 1 THEN 1 ELSE f[i-1] * dims[i-1]]
  <2> HIDE DEF h
  <2>1. QED BY <1>5
<1>7. QED
  BY <1>6 DEF increment

(* The increments are the products of the dimensions before. *)
LEMMA Increments ==
  ASSUME NEW dims \in Seq(Nat \ {0})
  PROVE  /\ Len(dims) \in Nat /\ \A i \in Dirs(dims) : dims[i] \in Nat \ {0}
         /\ \A i \in 1..Len(dims)+1 : increment(dims)[i] \in Nat \ {0}
         /\ increment(dims)[1] = 1
         /\ \A i \in Dirs(dims) : increment(dims)[i+1] = increment(dims)[i] * dims[i]
<1> DEFINE n == Len(dims)
           inc == increment(dims)
           T == {k \in Nat : k <= n => inc[k+1] \in Nat \ {0}}
<1>1. n \in Nat /\ \A i \in Dirs(dims) : dims[i] \in Nat \ {0}
  BY DEF Dirs
<1>2. inc = [i \in 1..n+1 |-> IF i = 1 THEN 1 ELSE inc[i-1] * dims[i-1]]
  BY IncrementRec
<1> HIDE DEF inc
<1>3. inc[1] = 1
  <2>1. 1 \in 1..n+1
    BY <1>1
  <2>2. QED BY <2>1, <1>2
<1>4. ASSUME NEW i \in 1..n PROVE inc[i+1] = inc[i] * dims[i]
  <2>1. i + 1 \in 1..n+1 /\ i + 1 # 1 /\ (i + 1) - 1 = i
    BY <1>1
  <2>2. inc[i+1] = inc[(i+1)-1] * dims[(i+1)-1]
    BY <2>1, <1>2
  <2>3. QED BY <2>1, <2>2
<1>5. 0 \in T
  BY <1>3
<1>6. ASSUME NEW k \in Nat, k \in T PROVE k + 1 \in T
  <2> SUFFICES ASSUME k + 1 <= n PROVE inc[(k+1)+1] \in Nat \ {0}
    OBVIOUS
  <2>1. inc[k+1] \in Nat \ {0} /\ k + 1 \in 1..n
    BY <1>6
  <2>2. dims[k+1] \in Nat \ {0}
    BY <1>1, <2>1 DEF Dirs
  <2>3. inc[(k+1)+1] = inc[k+1] * dims[k+1]
    BY <2>1, <1>4
  <2>4. QED BY <2>1, <2>2, <2>3
<1>7. Nat \subseteq T
  <2> HIDE DEF T
  <2>1. QED BY <1>5, <1>6, InductionOn
<1>8. ASSUME NEW i \in 1..n+1 PROVE inc[i] \in Nat \ {0}
  <2>1. i - 1 \in Nat /\ i - 1 <= n /\ (i - 1) + 1 = i
    BY <1>1
  <2>2. QED BY <2>1, <1>7
<1>9. QED
  BY <1>1, <1>3, <1>4, <1>8 DEF inc, Dirs

(* What the loop of coord_to_rank() has after i directions. *)
Partial(dims, c) ==
  CHOOSE rank : rank = [i \in 0..Len(dims) |->
    IF i = 0 THEN 0 ELSE rank[i-1] + (c[i] % dims[i]) * increment(dims)[i]]

LEMMA PartialRec ==
  ASSUME NEW dims \in Seq(Nat \ {0}), NEW c, \A i \in Dirs(dims) : c[i] \in Int
  PROVE  /\ coord_to_rank(dims, c) = Partial(dims, c)[Len(dims)]
         /\ Partial(dims, c)[0] = 0
         /\ \A i \in Dirs(dims) :
              Partial(dims, c)[i] = Partial(dims, c)[i-1] + (c[i] % dims[i]) * increment(dims)[i]
<1> DEFINE n == Len(dims)
           inc == increment(dims)
           F == [k \in 1..n |-> [x \in Int |-> x + (c[k] % dims[k]) * inc[k]]]
           S == Partial(dims, c)
<1>1. n \in Nat /\ \A k \in 1..n : (c[k] % dims[k]) \in Int /\ inc[k] \in Int
  BY Increments DEF Dirs
<1> HIDE DEF inc
<1>2. F \in [1..n -> [Int -> Int]]
  BY <1>1
<1>3. PICK g : Follows(g, Int, 0, F, n)
  <2> HIDE DEF F
  <2>1. QED BY <1>1, <1>2, 0 \in Int, RecursionUpTo
<1>4. ASSUME NEW i \in 0..n PROVE g[i] = IF i = 0 THEN 0 ELSE g[i-1] + (c[i] % dims[i]) * inc[i]
  <2>1. CASE i = 0
    BY <2>1, <1>3 DEF Follows
  <2>2. CASE i # 0
    <3>1. i \in 1..n /\ i - 1 \in 0..n
      BY <2>2, <1>1
    <3>2. g[i] = F[i][g[i-1]] /\ g[i-1] \in Int
      BY <3>1, <1>3 DEF Follows
    <3>3. F[i][g[i-1]] = g[i-1] + (c[i] % dims[i]) * inc[i]
      BY <3>1, <3>2
    <3>4. QED BY <3>2, <3>3, <2>2
  <2>3. QED BY <2>1, <2>2
<1>5. g = [i \in 0..n |-> IF i = 0 THEN 0 ELSE g[i-1] + (c[i] % dims[i]) * inc[i]]
  BY <1>3, <1>4 DEF Follows
<1>6. S = [i \in 0..n |-> IF i = 0 THEN 0 ELSE S[i-1] + (c[i] % dims[i]) * inc[i]]
  BY <1>5 DEF Partial, inc
<1>7. coord_to_rank(dims, c) = S[n]
  BY DEF coord_to_rank, Partial
<1> HIDE DEF S
<1>8. S[0] = 0
  BY <1>1, <1>6
<1>9. ASSUME NEW i \in 1..n PROVE S[i] = S[i-1] + (c[i] % dims[i]) * inc[i]
  <2>1. i \in 0..n /\ i # 0
    BY <1>1
  <2>2. S[i] = IF i = 0 THEN 0 ELSE S[i-1] + (c[i] % dims[i]) * inc[i]
    BY <2>1, <1>6
  <2>3. QED BY <2>1, <2>2
<1>10. QED
  BY <1>7, <1>8, <1>9 DEF S, inc, Dirs

(* A digit times the increment, and less than the increment, are together  *)
(* less than the next increment.                                           *)
LEMMA DigitFits ==
  ASSUME NEW a \in Nat \ {0}, NEW b \in Nat \ {0}, NEW d \in 0..b-1, NEW s \in 0..a-1
  PROVE  s + d * a \in 0 .. a * b - 1
<1>1. a * (d + 1) <= a * b
  BY MoreTimes
<1>2. a * (d + 1) = d * a + a
  OBVIOUS
<1>3. d * a \in Nat /\ a * b \in Nat
  OBVIOUS
<1>4. QED BY <1>1, <1>2, <1>3

LEMMA PartialRange ==
  ASSUME NEW dims \in Seq(Nat \ {0}), NEW c, \A i \in Dirs(dims) : c[i] \in Int
  PROVE  \A i \in 0..Len(dims) : Partial(dims, c)[i] \in 0 .. increment(dims)[i+1]-1
<1> DEFINE n == Len(dims)
           inc == increment(dims)
           S == Partial(dims, c)
           T == {k \in Nat : k <= n => S[k] \in 0..inc[k+1]-1}
<1>1. /\ n \in Nat /\ \A i \in 1..n : dims[i] \in Nat \ {0}
      /\ \A i \in 1..n+1 : inc[i] \in Nat \ {0}
      /\ inc[1] = 1
      /\ \A i \in 1..n : inc[i+1] = inc[i] * dims[i]
  BY Increments DEF Dirs
<1>2. S[0] = 0 /\ \A i \in 1..n : S[i] = S[i-1] + (c[i] % dims[i]) * inc[i]
  BY PartialRec DEF Dirs
<1> HIDE DEF inc, S
<1>3. 0 \in T
  BY <1>1, <1>2
<1>4. ASSUME NEW k \in Nat, k \in T PROVE k + 1 \in T
  <2> SUFFICES ASSUME k + 1 <= n PROVE S[k+1] \in 0..inc[(k+1)+1]-1
    OBVIOUS
  <2> DEFINE K == k + 1
             d == c[K] % dims[K]
  <2>1. K \in 1..n /\ K \in 1..n+1 /\ K - 1 = k
    BY <1>1
  <2>2. inc[K] \in Nat \ {0} /\ dims[K] \in Nat \ {0} /\ S[k] \in 0..inc[K]-1
    BY <2>1, <1>1, <1>4
  <2>3. d \in 0..dims[K]-1
    BY <2>1, <2>2 DEF Dirs
  <2>4. S[K] = S[k] + d * inc[K] /\ inc[K+1] = inc[K] * dims[K]
    BY <2>1, <1>1, <1>2
  <2> HIDE DEF d, K
  <2>5. S[k] + d * inc[K] \in 0 .. inc[K] * dims[K] - 1
    BY <2>2, <2>3, DigitFits
  <2>6. S[K] \in 0..inc[K+1]-1
    BY <2>4, <2>5
  <2>7. QED BY <2>6 DEF K
<1>5. Nat \subseteq T
  <2> HIDE DEF T
  <2>1. QED BY <1>3, <1>4, InductionOn
<1>6. QED BY <1>5 DEF S, inc

-----------------------------------------------------------------------------
(* Two sequences of digits that agree up to the last direction have the    *)
(* same sum; the sum of all digits of a rank is the rank.                  *)
LEMMA CoordRange ==
  ASSUME NEW dims \in Seq(Nat \ {0}), NEW r \in Nat
  PROVE  \A i \in Dirs(dims) :
           /\ rank_to_coord(dims, r)[i] \in 0..dims[i]-1
           /\ (r % increment(dims)[i+1]) =
                (r % increment(dims)[i]) + rank_to_coord(dims, r)[i] * increment(dims)[i]
<1> TAKE i \in Dirs(dims)
<1> DEFINE a == increment(dims)[i]
           b == dims[i]
           m == r % (a * b)
           q == m \div a
           R == m % a
           Q == r \div (a * b)
<1>1. a \in Nat \ {0} /\ b \in Nat \ {0} /\ increment(dims)[i+1] = a * b /\ a * b \in Nat \ {0}
  <2>1. i \in 1..Len(dims)+1 /\ a \in Nat \ {0} /\ b \in Nat \ {0} /\ increment(dims)[i+1] = a * b
    BY Increments DEF Dirs
  <2>2. QED BY <2>1
<1>2. rank_to_coord(dims, r)[i] = q
  BY <1>1 DEF rank_to_coord
<1> HIDE DEF a, b
<1>3. m \in 0 .. a * b - 1 /\ Q \in Nat /\ r = (a * b) * Q + m
  BY <1>1, Division
<1>8. (r % increment(dims)[i+1]) = m
  BY <1>1 DEF a, b
<1> HIDE DEF m, Q
<1>4. q \in Nat /\ R \in 0..a-1 /\ m = a * q + R
  <2>1. m \in Nat
    BY <1>1, <1>3
  <2>2. QED BY <1>1, <2>1, Division
<1> HIDE DEF q, R
<1>5. q < b
  <2> SUFFICES ASSUME q >= b PROVE FALSE
    BY <1>1, <1>4
  <2>1. a * b <= a * q
    BY <1>1, <1>4, MoreTimes
  <2>2. QED BY <2>1, <1>1, <1>3, <1>4
<1>6. (r % a) = R
  <2>1. r = a * (b * Q + q) + R
    BY <1>1, <1>3, <1>4
  <2>2. b * Q + q \in Int
    BY <1>1, <1>3, <1>4
  <2>3. QED BY <2>1, <2>2, <1>1, <1>4, DivisionUnique
<1>7. m = R + q * a
  BY <1>1, <1>4
<1>9. q \in 0..b-1
  BY <1>1, <1>4, <1>5
<1>10. QED BY <1>2, <1>6, <1>7, <1>8, <1>9 DEF a, b

(* What is less than the divisor is the remainder. *)
LEMMA SmallRemainder ==
  ASSUME NEW b \in Nat \ {0}, NEW r \in 0..b-1
  PROVE  (r % b) = r /\ r \div b = 0
<1>1. r \in Nat /\ r = b * 0 + r
  OBVIOUS
<1>2. QED BY <1>1, DivisionUnique

(* coord_to_rank() is the inverse of rank_to_coord() on the ranks.         *)
THEOREM RankOfCoord ==
  ASSUME NEW dims \in Seq(Nat \ {0}), NEW r \in Ranks(dims)
  PROVE  coord_to_rank(dims, rank_to_coord(dims, r)) = r
<1> DEFINE n == Len(dims)
           inc == increment(dims)
           c == rank_to_coord(dims, r)
           S == Partial(dims, c)
           T == {k \in Nat : k <= n => S[k] = (r % inc[k+1])}
<1>1. /\ n \in Nat /\ \A i \in 1..n : dims[i] \in Nat \ {0}
      /\ \A i \in 1..n+1 : inc[i] \in Nat \ {0}
      /\ inc[1] = 1
  BY Increments DEF Dirs
<1>2. r \in Nat /\ r < inc[n+1]
  BY <1>1 DEF Ranks, procs
<1>3. \A i \in 1..n : c[i] \in 0..dims[i]-1 /\ (r % inc[i+1]) = (r % inc[i]) + c[i] * inc[i]
  BY <1>2, CoordRange DEF Dirs
<1>4. \A i \in Dirs(dims) : c[i] \in Int
  BY <1>1, <1>3 DEF Dirs
<1> HIDE DEF c
<1>5. S[0] = 0 /\ \A i \in 1..n : S[i] = S[i-1] + (c[i] % dims[i]) * inc[i]
  BY <1>4, PartialRec DEF Dirs
<1>6. coord_to_rank(dims, c) = S[n]
  BY <1>4, PartialRec
<1> HIDE DEF inc, S
<1>7. \A i \in 1..n : (c[i] % dims[i]) = c[i]
  BY <1>1, <1>3, SmallRemainder
<1>8. 0 \in T
  <2>1. (r % 1) = 0
    BY <1>2
  <2>2. QED BY <2>1, <1>1, <1>5
<1>9. ASSUME NEW k \in Nat, k \in T PROVE k + 1 \in T
  <2> SUFFICES ASSUME k + 1 <= n PROVE S[k+1] = (r % inc[(k+1)+1])
    OBVIOUS
  <2> DEFINE K == k + 1
  <2>1. K \in 1..n /\ K - 1 = k
    BY <1>1
  <2>2. S[k] = (r % inc[K])
    BY <1>9
  <2> HIDE DEF K
  <2>3. S[K] = (r % inc[K+1])
    BY <2>1, <2>2, <1>3, <1>5, <1>7
  <2>4. QED BY <2>3 DEF K
<1>10. Nat \subseteq T
  <2> HIDE DEF T
  <2>1. QED BY <1>8, <1>9, InductionOn
<1>11. S[n] = (r % inc[n+1])
  BY <1>1, <1>10
<1>12. (r % inc[n+1]) = r
  <2>1. inc[n+1] \in Nat \ {0} /\ r \in 0..inc[n+1]-1
    BY <1>1, <1>2
  <2>2. QED BY <2>1, SmallRemainder
<1>13. QED BY <1>6, <1>11, <1>12 DEF c

(* Later directions add multiples of the increment. *)
LEMMA LaterDigits ==
  ASSUME NEW dims \in Seq(Nat \ {0}), NEW c, \A i \in Dirs(dims) : c[i] \in Int,
         NEW i \in 0..Len(dims)
  PROVE  \E q \in Nat : Partial(dims, c)[Len(dims)] = Partial(dims, c)[i] + increment(dims)[i+1] * q
<1> DEFINE n == Len(dims)
           inc == increment(dims)
           S == Partial(dims, c)
           a == inc[i+1]
           T == {k \in Nat : i + k <= n =>
                   \E q, e \in Nat : S[i+k] = S[i] + a * q /\ inc[(i+k)+1] = a * e}
<1>1. /\ n \in Nat /\ \A j \in 1..n : dims[j] \in Nat \ {0}
      /\ \A j \in 1..n+1 : inc[j] \in Nat \ {0}
      /\ \A j \in 1..n : inc[j+1] = inc[j] * dims[j]
  BY Increments DEF Dirs
<1>2. \A j \in 1..n : S[j] = S[j-1] + (c[j] % dims[j]) * inc[j]
  BY PartialRec DEF Dirs
<1>3. \A j \in 0..n : S[j] \in Nat
  <2>1. \A j \in 0..n : S[j] \in 0..inc[j+1]-1
    BY PartialRange
  <2>2. QED BY <2>1
<1>4. a \in Nat
  BY <1>1
<1>5. \A j \in 1..n : (c[j] % dims[j]) \in Nat
  BY <1>1 DEF Dirs
<1> HIDE DEF inc, S
<1>6. 0 \in T
  <2>1. S[i+0] = S[i] + a * 0 /\ inc[(i+0)+1] = a * 1
    BY <1>3, <1>4, <1>1
  <2>2. QED BY <2>1
<1>7. ASSUME NEW k \in Nat, k \in T PROVE k + 1 \in T
  <2> SUFFICES ASSUME i + (k + 1) <= n
               PROVE  \E q, e \in Nat : S[i+(k+1)] = S[i] + a * q /\ inc[(i+(k+1))+1] = a * e
    OBVIOUS
  <2> DEFINE K == (i + k) + 1
             d == c[K] % dims[K]
  <2>1. K \in 1..n /\ K - 1 = i + k /\ i + (k + 1) = K /\ i + k <= n
    BY <1>1
  <2>2. PICK q \in Nat, e \in Nat : S[i+k] = S[i] + a * q /\ inc[K] = a * e
    BY <1>7, <2>1
  <2>3. d \in Nat /\ dims[K] \in Nat /\ S[i] \in Nat
    BY <2>1, <1>1, <1>3, <1>5
  <2>4. S[K] = S[i+k] + d * inc[K] /\ inc[K+1] = inc[K] * dims[K]
    BY <2>1, <1>1, <1>2
  <2> HIDE DEF d, K, a
  <2>5. S[K] = S[i] + a * (q + d * e)
    <3>1. d * (a * e) = a * (d * e)
      BY <2>3, <1>4
    <3>2. a * (q + d * e) = a * q + a * (d * e)
      BY <2>3, <1>4
    <3>3. a * q \in Nat /\ a * (d * e) \in Nat
      BY <2>3, <1>4
    <3>4. QED BY <3>1, <3>2, <3>3, <2>2, <2>3, <2>4
  <2>6. inc[K+1] = a * (e * dims[K])
    BY <2>2, <2>3, <2>4, <1>4
  <2>7. q + d * e \in Nat /\ e * dims[K] \in Nat
    <3>1. d * e \in Nat /\ e * dims[K] \in Nat
      BY <2>3
    <3>2. QED BY <3>1
  <2>8. QED BY <2>1, <2>5, <2>6, <2>7
<1>8. Nat \subseteq T
  <2> HIDE DEF T
  <2>1. QED BY <1>6, <1>7, InductionOn
<1>9. n - i \in Nat /\ i + (n - i) = n
  BY <1>1
<1>10. PICK q \in Nat : S[n] = S[i] + a * q
  <2> DEFINE k == n - i
  <2>1. k \in T /\ i + k = n
    BY <1>8, <1>9
  <2> HIDE DEF k, a
  <2>2. i + k <= n => \E q, e \in Nat : S[i+k] = S[i] + a * q /\ inc[(i+k)+1] = a * e
    BY <2>1
  <2>3. i + k <= n
    BY <2>1, <1>1
  <2>4. PICK q \in Nat, e \in Nat : S[i+k] = S[i] + a * q
    BY <2>2, <2>3
  <2>5. QED BY <2>1, <2>4
<1>11. QED BY <1>10 DEF S, inc

(* rank_to_coord() is the inverse of coord_to_rank(), which closes the     *)
(* torus: it takes the remainder in every direction.                       *)
THEOREM CoordOfRank ==
  ASSUME NEW dims \in Seq(Nat \ {0}), NEW c, \A i \in Dirs(dims) : c[i] \in Int
  PROVE  /\ coord_to_rank(dims, c) \in Ranks(dims)
         /\ \A i \in Dirs(dims) : rank_to_coord(dims, coord_to_rank(dims, c))[i] = (c[i] % dims[i])
<1> DEFINE n == Len(dims)
           inc == increment(dims)
           S == Partial(dims, c)
           r == coord_to_rank(dims, c)
<1>1. /\ n \in Nat /\ \A i \in 1..n : dims[i] \in Nat \ {0}
      /\ \A i \in 1..n+1 : inc[i] \in Nat \ {0}
      /\ \A i \in 1..n : inc[i+1] = inc[i] * dims[i]
  BY Increments DEF Dirs
<1>2. r = S[n] /\ \A i \in 1..n : S[i] = S[i-1] + (c[i] % dims[i]) * inc[i]
  BY PartialRec DEF Dirs
<1>3. \A i \in 0..n : S[i] \in 0..inc[i+1]-1
  BY PartialRange
<1>4. r \in Nat /\ r \in Ranks(dims)
  BY <1>1, <1>2, <1>3 DEF Ranks, procs
<1>5. \A i \in 0..n : \E q \in Nat : S[n] = S[i] + inc[i+1] * q
  BY LaterDigits
<1> HIDE DEF inc, S
<1>6. ASSUME NEW i \in Dirs(dims) PROVE rank_to_coord(dims, r)[i] = (c[i] % dims[i])
  <2> DEFINE d == c[i] % dims[i]
  <2>1. i \in 1..n /\ i \in 0..n /\ i - 1 \in 0..n /\ (i - 1) + 1 = i /\ i + 1 \in 1..n+1 /\ i \in 1..n+1
    BY <1>1 DEF Dirs
  <2>2. PICK q \in Nat : S[n] = S[i] + inc[i+1] * q
    BY <2>1, <1>5
  <2>3. S[i] \in 0..inc[i+1]-1 /\ S[i-1] \in 0..inc[i]-1
    BY <2>1, <1>3
  <2>4. inc[i] \in Nat \ {0} /\ inc[i+1] \in Nat \ {0} /\ d \in Int
    BY <2>1, <1>1
  <2>5. (r % inc[i+1]) = S[i]
    <3> DEFINE b == inc[i+1]
               x == S[i]
    <3>1. x \in 0..b-1 /\ b \in Nat \ {0} /\ S[n] = x + b * q /\ r = S[n]
      BY <1>2, <2>2, <2>3, <2>4
    <3> HIDE DEF b, x, r
    <3>2. r = b * q + x
      BY <3>1
    <3>3. r \in Nat /\ q \in Int
      BY <1>4
    <3>4. (r % b) = x
      BY <3>1, <3>2, <3>3, DivisionUnique
    <3>5. QED BY <3>4 DEF b, x
  <2>6. S[i] \div inc[i] = d
    <3>1. S[i] = inc[i] * d + S[i-1]
      BY <2>1, <2>3, <2>4, <1>2
    <3>2. S[i] \in Nat
      BY <2>3, <2>4
    <3>3. QED BY <3>1, <3>2, <2>3, <2>4, DivisionUnique
  <2>7. rank_to_coord(dims, r)[i] = (r % inc[i+1]) \div inc[i]
    BY DEF rank_to_coord, inc
  <2>8. QED BY <2>5, <2>6, <2>7
<1>7. QED BY <1>4, <1>6

-----------------------------------------------------------------------------
(* The powers of 3 by which the neighbours are counted. *)
LEMMA ThreeTimes ==
  /\ \A n \in Nat : threeTimes[n] \in Nat \ {0}
  /\ threeTimes[0] = 1
  /\ \A n \in Nat : threeTimes[n+1] = 3 * threeTimes[n]
<1> DEFINE V == Nat \ {0}
           F == [k \in Nat |-> [x \in V |-> 3 * x]]
<1>1. F \in [Nat -> [V -> V]] /\ 1 \in V
  OBVIOUS
<1>2. PICK g : FollowsForever(g, V, 1, F)
  <2> HIDE DEF F, V
  <2>1. QED BY <1>1, RecursionOnNat
<1>3. \A k \in Nat : g[k+1] = 3 * g[k]
  <2> TAKE k \in Nat
  <2>1. k + 1 \in Nat /\ g[k] \in V
    BY <1>2 DEF FollowsForever
  <2>2. g[k+1] = F[k+1][g[k]]
    BY <1>2 DEF FollowsForever
  <2>3. QED BY <2>1, <2>2
<1>4. ASSUME NEW n \in Nat PROVE g[n] = IF n = 0 THEN 1 ELSE 3 * g[n-1]
  <2>1. CASE n = 0
    BY <2>1, <1>2 DEF FollowsForever
  <2>2. CASE n # 0
    <3>1. n - 1 \in Nat /\ (n - 1) + 1 = n
      BY <2>2
    <3>2. QED BY <3>1, <1>3, <2>2
  <2>3. QED BY <2>1, <2>2
<1>5. g = [n \in Nat |-> IF n = 0 THEN 1 ELSE 3 * g[n-1]]
  BY <1>2, <1>4 DEF FollowsForever
<1>6. threeTimes = [n \in Nat |-> IF n = 0 THEN 1 ELSE 3 * threeTimes[n-1]]
  BY <1>5 DEF threeTimes
<1> DEFINE f == threeTimes
           T == {n \in Nat : f[n] \in V}
<1> HIDE DEF f
<1>7. f[0] = 1
  BY <1>6 DEF f
<1>8. ASSUME NEW n \in Nat PROVE f[n+1] = 3 * f[n]
  <2>1. n + 1 \in Nat /\ n + 1 # 0 /\ (n + 1) - 1 = n
    OBVIOUS
  <2>2. f[n+1] = IF n + 1 = 0 THEN 1 ELSE 3 * f[(n+1)-1]
    BY <1>6, <2>1 DEF f
  <2>3. QED BY <2>1, <2>2
<1>9. 0 \in T
  BY <1>7
<1>10. ASSUME NEW n \in Nat, n \in T PROVE n + 1 \in T
  <2>1. f[n] \in V /\ f[n+1] = 3 * f[n]
    BY <1>8, <1>10
  <2>2. QED BY <2>1
<1>11. Nat \subseteq T
  <2> HIDE DEF T
  <2>1. QED BY <1>9, <1>10, InductionOn
<1>12. QED BY <1>7, <1>8, <1>11 DEF f

(* They are odd, and a larger one is a multiple of a smaller one. *)
LEMMA ThreeTimesOdd ==
  ASSUME NEW n \in Nat
  PROVE  \E h \in Nat : threeTimes[n] = 2 * h + 1
<1> DEFINE T == {k \in Nat : \E h \in Nat : threeTimes[k] = 2 * h + 1}
<1>1. 0 \in T
  <2>1. threeTimes[0] = 2 * 0 + 1
    BY ThreeTimes
  <2>2. QED BY <2>1
<1>2. ASSUME NEW k \in Nat, k \in T PROVE k + 1 \in T
  <2>1. PICK h \in Nat : threeTimes[k] = 2 * h + 1
    BY <1>2
  <2>2. threeTimes[k+1] = 2 * (3 * h + 1) + 1
    BY <2>1, ThreeTimes
  <2> DEFINE H == 3 * h + 1
  <2>3. H \in Nat /\ threeTimes[k+1] = 2 * H + 1
    BY <2>2
  <2> HIDE DEF H
  <2>4. \E i \in Nat : threeTimes[k+1] = 2 * i + 1
    BY <2>3
  <2>5. QED BY <2>4
<1>3. Nat \subseteq T
  <2> HIDE DEF T
  <2>1. QED BY <1>1, <1>2, InductionOn
<1>4. QED BY <1>3

LEMMA ThreeTimesFactor ==
  ASSUME NEW j \in Nat, NEW n \in Nat, j <= n
  PROVE  \E M \in Nat : threeTimes[n] = threeTimes[j] * M
<1> DEFINE b == threeTimes[j]
           T == {k \in Nat : \E M \in Nat : threeTimes[j+k] = b * M}
<1>1. b \in Nat
  BY ThreeTimes
<1>2. 0 \in T
  <2>1. threeTimes[j+0] = b * 1
    BY <1>1
  <2>2. QED BY <2>1
<1>3. ASSUME NEW k \in Nat, k \in T PROVE k + 1 \in T
  <2>1. PICK M \in Nat : threeTimes[j+k] = b * M
    BY <1>3
  <2>2. j + k \in Nat /\ (j + k) + 1 = j + (k + 1)
    OBVIOUS
  <2>3. threeTimes[j+(k+1)] = 3 * (b * M)
    BY <2>1, <2>2, ThreeTimes
  <2> HIDE DEF b
  <2>4. 3 * (b * M) = b * (3 * M) /\ 3 * M \in Nat
    BY <1>1
  <2>5. QED BY <2>3, <2>4
<1>4. Nat \subseteq T
  <2> HIDE DEF T
  <2>1. QED BY <1>2, <1>3, InductionOn
<1>5. n - j \in T /\ j + (n - j) = n
  <2> HIDE DEF T
  <2>1. QED BY <1>4
<1>6. QED
  <2> DEFINE k == n - j
  <2> HIDE DEF k
  <2>1. k \in T /\ j + k = n
    BY <1>5 DEF k
  <2>2. QED BY <2>1

(* The digits of N-1-k for a multiple N of 3b are those of k turned round. *)
LEMMA Complement ==
  ASSUME NEW b \in Nat \ {0}, NEW M \in Nat, NEW k \in 0 .. (3 * b) * M - 1
  PROVE  (((3 * b) * M - 1 - k) \div b) % 3 = 2 - ((k \div b) % 3)
<1> DEFINE N == (3 * b) * M
           A == k \div b
           R == k % b
           B == A \div 3
           D == A % 3
           a == N - 1 - k
           q == 3 * M - 1 - A
<1>1. N \in Nat /\ N = b * (3 * M)
  OBVIOUS
<1>2. A \in Nat /\ R \in 0..b-1 /\ k = b * A + R
  <2>1. k \in Nat
    BY <1>1
  <2>2. QED BY <2>1, Division
<1> HIDE DEF A, R, N
<1>3. B \in Nat /\ D \in 0..2 /\ A = 3 * B + D
  BY <1>2
<1> HIDE DEF B, D
<1>4. a \in Nat
  BY <1>1 DEF N
<1>5. b * q = b * (3 * M) - b - b * A
  BY <1>2
<1>6. a = b * q + (b - 1 - R) /\ b - 1 - R \in 0..b-1
  BY <1>1, <1>2, <1>5
<1>7. q \in Int
  BY <1>2
<1> HIDE DEF a, q
<1>8. a \div b = q
  BY <1>4, <1>6, <1>7, DivisionUnique
<1>9. q \in Nat
  BY <1>4, <1>8, Division
<1>10. q = 3 * (M - 1 - B) + (2 - D) /\ M - 1 - B \in Int /\ 2 - D \in 0..3-1
  BY <1>3 DEF q
<1>11. (q % 3) = 2 - D
  BY <1>9, <1>10, DivisionUnique
<1>12. ((a \div b) % 3) = 2 - D
  BY <1>8, <1>11
<1>13. QED BY <1>12 DEF a, N, D, A

-----------------------------------------------------------------------------
(* Opposite positions in the list of neighbours have opposite directions.  *)
LEMMA OppositeDelta ==
  ASSUME NEW dims \in Seq(Nat \ {0}), NEW j \in 1..neighbors(dims)
  PROVE  /\ neighbors(dims) \in Nat
         /\ neighbors(dims) + 1 - j \in 1..neighbors(dims)
         /\ \A i \in Dirs(dims) :
              /\ nonzeroDelta(dims, j)[i] \in {-1, 0, 1}
              /\ nonzeroDelta(dims, neighbors(dims) + 1 - j)[i] = -nonzeroDelta(dims, j)[i]
<1> DEFINE n == Len(dims)
           N == threeTimes[n]
           k(x) == IF x <= neighbors(dims) \div 2 THEN x - 1 ELSE x
           opp == neighbors(dims) + 1 - j
<1>1. n \in Nat /\ N \in Nat \ {0} /\ neighbors(dims) = N - 1
  BY ThreeTimes DEF neighbors
<1>2. PICK h \in Nat : N = 2 * h + 1
  BY <1>1, ThreeTimesOdd
<1>3. neighbors(dims) = 2 * h /\ neighbors(dims) \div 2 = h
  BY <1>1, <1>2
<1>4. /\ opp \in 1..neighbors(dims)
      /\ k(j) \in 0..N-1 /\ k(opp) = N - 1 - k(j)
  BY <1>1, <1>2, <1>3
<1>5. ASSUME NEW i \in Dirs(dims)
      PROVE  /\ nonzeroDelta(dims, j)[i] \in {-1, 0, 1}
             /\ nonzeroDelta(dims, opp)[i] = -nonzeroDelta(dims, j)[i]
  <2> DEFINE b == threeTimes[i-1]
             K == k(j)
  <2>1. nonzeroDelta(dims, j)[i] = ((K \div b) % 3) - 1
    BY DEF nonzeroDelta, deltaAt
  <2>2. nonzeroDelta(dims, opp)[i] = ((k(opp) \div b) % 3) - 1
    BY DEF nonzeroDelta, deltaAt
  <2>3. i \in Nat /\ i - 1 \in Nat /\ i <= n /\ (i - 1) + 1 = i
    BY <1>1 DEF Dirs
  <2>4. b \in Nat \ {0} /\ threeTimes[i] = 3 * b
    BY <2>3, ThreeTimes
  <2>5. PICK M \in Nat : N = threeTimes[i] * M
    BY <2>3, <1>1, ThreeTimesFactor
  <2> HIDE DEF N, k, b
  <2>6. N = (3 * b) * M /\ K \in 0 .. (3 * b) * M - 1
    BY <2>4, <2>5, <1>4
  <2>7. (((3 * b) * M - 1 - K) \div b) % 3 = 2 - ((K \div b) % 3)
    BY <2>4, <2>6, Complement
  <2>8. ((k(opp) \div b) % 3) = 2 - ((K \div b) % 3)
    BY <2>6, <2>7, <1>4
  <2>9. ((K \div b) % 3) \in 0..2
    <3>1. K \in Nat
      BY <1>1, <1>4
    <3>2. K \div b \in Nat
      BY <3>1, <2>4, Division
    <3>3. QED BY <3>2
  <2> HIDE DEF K
  <2>10. QED BY <2>1, <2>2, <2>8, <2>9
<1>6. neighbors(dims) \in Nat
  BY <1>2, <1>3
<1>7. QED
  <2> HIDE DEF opp
  <2>1. opp \in 1..neighbors(dims)
    BY <1>4
  <2>2. QED BY <2>1, <1>5, <1>6 DEF opp

(* Going one step forward and one step back on a closed line of b places.  *)
LEMMA Around ==
  ASSUME NEW b \in Nat \ {0}, NEW x \in 0..b-1, NEW e \in {-1, 0, 1}
  PROVE  /\ ((x + b + e) % b) \in 0..b-1
         /\ ((((x + b + e) % b) + b - e) % b) = x
<1> DEFINE y == (x + b + e) % b
<1>1. CASE x + e \in 0..b-1
  <2>1. x + b + e \in Nat /\ x + b + e = b * 1 + (x + e)
    BY <1>1
  <2>2. y = x + e
    BY <2>1, <1>1, DivisionUnique
  <2> HIDE DEF y
  <2> DEFINE a == y + b - e
             one == 1
  <2>3. a \in Nat /\ a = b * one + x /\ one \in Int
    BY <2>2
  <2> HIDE DEF a, one
  <2>4. (a % b) = x
    BY <2>3, DivisionUnique
  <2>5. ((y + b - e) % b) = x
    BY <2>4 DEF a
  <2>6. QED BY <2>2, <2>5, <1>1 DEF y
<1>2. CASE x = 0 /\ e = -1
  <2>1. x + b + e \in Nat /\ x + b + e = b * 0 + (b - 1) /\ b - 1 \in 0..b-1
    BY <1>2
  <2>2. y = b - 1
    BY <2>1, DivisionUnique
  <2> HIDE DEF y
  <2> DEFINE a == y + b - e
             two == 2
  <2>3. a \in Nat /\ a = b * two + 0 /\ two \in Int /\ 0 \in 0..b-1
    BY <2>2, <1>2
  <2> HIDE DEF a, two
  <2>4. (a % b) = 0
    BY <2>3, DivisionUnique
  <2>5. y \in 0..b-1
    BY <2>1, <2>2
  <2>6. ((y + b - e) % b) = x
    BY <2>4, <1>2 DEF a
  <2>7. QED BY <2>5, <2>6 DEF y
<1>3. CASE x = b - 1 /\ e = 1
  <2>1. x + b + e \in Nat /\ x + b + e = b * 2 + 0 /\ 0 \in 0..b-1
    BY <1>3
  <2>2. y = 0
    BY <2>1, DivisionUnique
  <2> HIDE DEF y
  <2>3. y + b - e = x
    BY <2>2, <1>3
  <2>4. ((y + b - e) % b) = x
    BY <2>3, SmallRemainder
  <2>5. QED BY <2>1, <2>2, <2>4 DEF y
<1>4. QED BY <1>1, <1>2, <1>3

(* The partner in the opposite direction of the partner is the process.    *)
LEMMA PartnerBack ==
  ASSUME NEW dims \in Seq(Nat \ {0}), NEW p \in Ranks(dims), NEW delta, NEW back,
         \A i \in Dirs(dims) : delta[i] \in {-1, 0, 1} /\ back[i] = -delta[i]
  PROVE  /\ partner(dims, p, delta) \in Ranks(dims)
         /\ partner(dims, partner(dims, p, delta), back) = p
<1> DEFINE x == rank_to_coord(dims, p)
           y == [i \in Dirs(dims) |-> (x[i] + dims[i] + delta[i]) % dims[i]]
           q == coord_to_rank(dims, y)
           z == [i \in Dirs(dims) |-> (rank_to_coord(dims, q)[i] + dims[i] + back[i]) % dims[i]]
<1>1. partner(dims, p, delta) = q /\ partner(dims, q, back) = coord_to_rank(dims, z)
  BY DEF partner
<1>2. \A i \in Dirs(dims) : dims[i] \in Nat \ {0}
  BY DEF Dirs
<1>3. p \in Nat
  <2>1. procs(dims) \in Nat
    BY Increments DEF procs
  <2>2. QED BY <2>1 DEF Ranks
<1>4. \A i \in Dirs(dims) : x[i] \in 0..dims[i]-1
  BY <1>3, CoordRange
<1>5. x = [i \in Dirs(dims) |-> x[i]]
  BY DEF rank_to_coord
<1> HIDE DEF x
<1>6. \A i \in Dirs(dims) : y[i] \in 0..dims[i]-1 /\ ((y[i] + dims[i] - delta[i]) % dims[i]) = x[i]
  BY <1>2, <1>4, Around
<1>7. \A i \in Dirs(dims) : y[i] \in Int
  BY <1>2, <1>6
<1> HIDE DEF y
<1>8. /\ q \in Ranks(dims)
      /\ \A i \in Dirs(dims) : rank_to_coord(dims, q)[i] = (y[i] % dims[i])
  BY <1>7, CoordOfRank
<1>9. \A i \in Dirs(dims) : (y[i] % dims[i]) = y[i]
  BY <1>2, <1>6, SmallRemainder
<1> HIDE DEF q
<1>10. \A i \in Dirs(dims) : z[i] = x[i]
  <2> TAKE i \in Dirs(dims)
  <2>1. z[i] = ((y[i] + dims[i] + back[i]) % dims[i])
    BY <1>8, <1>9
  <2>2. y[i] + dims[i] + back[i] = y[i] + dims[i] - delta[i]
    <3>1. delta[i] \in Int /\ back[i] = -delta[i] /\ y[i] \in Int /\ dims[i] \in Int
      BY <1>2, <1>7
    <3>2. QED BY <3>1
  <2>3. QED BY <2>1, <2>2, <1>6
<1>11. z = x
  BY <1>5, <1>10
<1>12. coord_to_rank(dims, x) = p
  BY RankOfCoord DEF x
<1>13. QED BY <1>1, <1>8, <1>11, <1>12 DEF q

(* The two neighbour lists of a torus fit together, whatever its           *)
(* dimensions: what p lists to send at a position, the receiver lists to   *)
(* receive from p at the same position (proclists(), torus.hh:507-558).    *)
(* This is so when a process is its own neighbour, or is a neighbour on    *)
(* both sides.                                                             *)
THEOREM NeighborListsFit ==
  ASSUME NEW dims \in Seq(Nat \ {0})
  PROVE  /\ neighbors(dims) \in Nat
         /\ \A p \in Ranks(dims), j \in 1..neighbors(dims) :
              /\ sendlist(dims, p)[j].rank \in Ranks(dims)
              /\ recvlist(dims, p)[j].rank \in Ranks(dims)
         /\ \A p, q \in Ranks(dims), j \in 1..neighbors(dims) :
              sendlist(dims, p)[j].rank = q <=> recvlist(dims, q)[j].rank = p
<1> DEFINE N == neighbors(dims)
           d(j) == nonzeroDelta(dims, j)
<1>1. N \in Nat
  <2>1. threeTimes[Len(dims)] \in Nat \ {0}
    BY ThreeTimes
  <2>2. QED BY <2>1 DEF neighbors
<1>2. ASSUME NEW p \in Ranks(dims), NEW j \in 1..N
      PROVE  /\ N + 1 - j \in 1..N
             /\ recvlist(dims, p)[j].rank = partner(dims, p, d(j))
             /\ sendlist(dims, p)[j].rank = partner(dims, p, d(N + 1 - j))
             /\ \A i \in Dirs(dims) : /\ d(j)[i] \in {-1, 0, 1} /\ d(N + 1 - j)[i] \in {-1, 0, 1}
                                      /\ d(N + 1 - j)[i] = -d(j)[i] /\ d(j)[i] = -d(N + 1 - j)[i]
  <2>1. N + 1 - j \in 1..N
    BY OppositeDelta
  <2>2. \A i \in Dirs(dims) : d(j)[i] \in {-1, 0, 1} /\ d(N + 1 - j)[i] = -d(j)[i]
    BY OppositeDelta
  <2>3. recvlist(dims, p)[j].rank = partner(dims, p, d(j))
    BY DEF recvlist
  <2>4. recvlist(dims, p)[N+1-j].rank = partner(dims, p, d(N + 1 - j))
    BY <2>1 DEF recvlist
  <2>5. sendlist(dims, p)[j].rank = recvlist(dims, p)[N+1-j].rank
    <3> DEFINE e == recvlist(dims, p)[N+1-j]
    <3>1. e = [rank |-> e.rank, delta |-> e.delta, index |-> e.index]
      BY <2>1 DEF recvlist
    <3> HIDE DEF e
    <3>2. [e EXCEPT !.index = (N - 1) - @].rank = e.rank
      BY <3>1
    <3>3. QED BY <3>2 DEF sendlist, e
  <2> HIDE DEF N, d
  <2>6. QED BY <2>1, <2>2, <2>3, <2>4, <2>5
<1> HIDE DEF d, N
<1>3. ASSUME NEW p \in Ranks(dims), NEW j \in 1..N
      PROVE  sendlist(dims, p)[j].rank \in Ranks(dims) /\ recvlist(dims, p)[j].rank \in Ranks(dims)
  <2> DEFINE e == d(j)
             f == d(N + 1 - j)
  <2>1. /\ recvlist(dims, p)[j].rank = partner(dims, p, e)
        /\ sendlist(dims, p)[j].rank = partner(dims, p, f)
        /\ \A i \in Dirs(dims) : e[i] \in {-1, 0, 1} /\ f[i] = -e[i]
        /\ \A i \in Dirs(dims) : f[i] \in {-1, 0, 1} /\ e[i] = -f[i]
    BY <1>2
  <2> HIDE DEF e, f
  <2>2. partner(dims, p, e) \in Ranks(dims)
    BY <2>1, PartnerBack
  <2>3. partner(dims, p, f) \in Ranks(dims)
    BY <2>1, PartnerBack
  <2>4. QED BY <2>1, <2>2, <2>3
<1>4. ASSUME NEW p \in Ranks(dims), NEW q \in Ranks(dims), NEW j \in 1..N
      PROVE  sendlist(dims, p)[j].rank = q <=> recvlist(dims, q)[j].rank = p
  <2>1. ASSUME partner(dims, p, d(N + 1 - j)) = q PROVE partner(dims, q, d(j)) = p
    BY <2>1, <1>2, PartnerBack
  <2>2. ASSUME partner(dims, q, d(j)) = p PROVE partner(dims, p, d(N + 1 - j)) = q
    BY <2>2, <1>2, PartnerBack
  <2>3. QED BY <2>1, <2>2, <1>2
<1>5. QED BY <1>1, <1>3, <1>4 DEF N

-----------------------------------------------------------------------------
(* A direction is a number with Len(dims) digits in base 3.  The digits    *)
(* determine the number, and there is a number for all digits.             *)
digit(k, i) == (k \div threeTimes[i-1]) % 3

LEMMA DigitStep ==
  ASSUME NEW b \in Nat \ {0}, NEW k \in Nat
  PROVE  (k % (3 * b)) = (k % b) + b * ((k \div b) % 3)
<1> DEFINE A == k \div b
           R == k % b
           B == A \div 3
           D == A % 3
<1>1. A \in Nat /\ R \in 0..b-1 /\ k = b * A + R
  BY Division
<1> HIDE DEF A, R
<1>2. B \in Nat /\ D \in 0..2 /\ A = 3 * B + D
  BY <1>1
<1> HIDE DEF B, D
<1>3. k = (3 * b) * B + (b * D + R)
  BY <1>1, <1>2
<1>4. b * D \in 0 .. 2 * b
  BY <1>2
<1> DEFINE x == b * D + R
           c == 3 * b
<1>5. x \in 0..c-1 /\ c \in Nat \ {0}
  <2> DEFINE y == b * D
  <2>1. y \in 0 .. 2 * b
    BY <1>4
  <2> HIDE DEF y
  <2>2. y + R \in 0 .. 3 * b - 1
    BY <1>1, <2>1
  <2>3. QED BY <2>2 DEF y
<1>6. k = c * B + x /\ B \in Int
  BY <1>2, <1>3
<1> HIDE DEF x, c
<1>7. (k % c) = x
  BY <1>5, <1>6, DivisionUnique
<1>8. QED
  BY <1>7 DEF x, c, R, D, A

LEMMA DigitsDetermine ==
  ASSUME NEW n \in Nat, NEW k \in Nat, NEW m \in Nat, \A i \in 1..n : digit(k, i) = digit(m, i)
  PROVE  (k % threeTimes[n]) = (m % threeTimes[n])
<1> DEFINE T == {j \in Nat : j <= n => (k % threeTimes[j]) = (m % threeTimes[j])}
<1>1. 0 \in T
  <2>1. (k % 1) = 0 /\ (m % 1) = 0
    OBVIOUS
  <2>2. QED BY <2>1, ThreeTimes
<1>2. ASSUME NEW j \in Nat, j \in T PROVE j + 1 \in T
  <2>1. SUFFICES ASSUME j + 1 <= n PROVE (k % threeTimes[j+1]) = (m % threeTimes[j+1])
    OBVIOUS
  <2> DEFINE b == threeTimes[j]
  <2>2. b \in Nat \ {0} /\ threeTimes[j+1] = 3 * b
    BY ThreeTimes
  <2>3. (k % b) = (m % b)
    BY <1>2, <2>1
  <2>4. ((k \div b) % 3) = ((m \div b) % 3)
    <3>1. j + 1 \in 1..n /\ (j + 1) - 1 = j
      BY <2>1
    <3>2. digit(k, j + 1) = digit(m, j + 1)
      BY <3>1
    <3>3. QED BY <3>1, <3>2 DEF digit
  <2> HIDE DEF b
  <2>5. QED BY <2>2, <2>3, <2>4, DigitStep
<1>3. Nat \subseteq T
  <2> HIDE DEF T
  <2>1. QED BY <1>1, <1>2, InductionOn
<1>4. n \in T
  BY <1>3
<1>5. QED BY <1>4

LEMMA DigitsExist ==
  ASSUME NEW n \in Nat, NEW e, \A i \in 1..n : e[i] \in 0..2
  PROVE  \E k \in 0..threeTimes[n]-1 : \A i \in 1..n : digit(k, i) = e[i]
<1> DEFINE written(j, k) == k \in 0..threeTimes[j]-1 /\ \A i \in 1..j : digit(k, i) = e[i]
           T == {j \in Nat : j <= n => \E k \in Nat : written(j, k)}
<1>1. 0 \in T
  <2>1. written(0, 0)
    BY ThreeTimes
  <2> HIDE DEF written
  <2>2. QED BY <2>1
<1>2. ASSUME NEW j \in Nat, j \in T PROVE j + 1 \in T
  <2>1. SUFFICES ASSUME j + 1 <= n PROVE \E k \in Nat : written(j + 1, k)
    <3> HIDE DEF written
    <3>1. QED OBVIOUS
  <2>2. PICK k \in Nat : written(j, k)
    <3> HIDE DEF written
    <3>1. QED BY <1>2, <2>1
  <2> DEFINE b == threeTimes[j]
             d == e[j+1]
             K == k + b * d
  <2>3. b \in Nat \ {0} /\ threeTimes[j+1] = 3 * b /\ d \in 0..2 /\ k \in 0..b-1
    BY <2>1, <2>2, ThreeTimes
  <2> HIDE DEF b, d
  <2>4. b * d \in 0 .. 2 * b
    BY <2>3
  <2>5. K \in 0 .. 3 * b - 1 /\ K \in Nat
    <3> DEFINE y == b * d
    <3>1. y \in 0 .. 2 * b
      BY <2>4
    <3> HIDE DEF y
    <3>2. k + y \in 0 .. 3 * b - 1
      BY <2>3, <3>1
    <3>3. QED BY <3>2, <2>3 DEF y
  <2>6. digit(K, j + 1) = d
    <3>1. K = b * d + k
      BY <2>3
    <3> HIDE DEF K
    <3>2. K \div b = d
      BY <2>3, <2>5, <3>1, DivisionUnique
    <3>3. (d % 3) = d
      BY <2>3
    <3>4. (j + 1) - 1 = j
      OBVIOUS
    <3>5. QED BY <3>2, <3>3, <3>4 DEF digit, b
  <2>7. ASSUME NEW i \in 1..j PROVE digit(K, i) = e[i]
    <3> DEFINE c == threeTimes[i-1]
               A == k \div c
               R == k % c
               B == A \div 3
               D == A % 3
    <3>1. i - 1 \in Nat /\ (i - 1) + 1 = i /\ i \in Nat /\ i <= j
      OBVIOUS
    <3>2. c \in Nat \ {0} /\ threeTimes[i] = 3 * c
      BY <3>1, ThreeTimes
    <3>3. PICK M \in Nat : b = (3 * c) * M
      <4>1. \E M \in Nat : threeTimes[j] = threeTimes[i] * M
        BY <3>1, ThreeTimesFactor
      <4>2. QED BY <3>2, <4>1 DEF b
    <3>4. D = e[i]
      BY <2>2 DEF digit
    <3> HIDE DEF c
    <3>5. A \in Nat /\ R \in 0..c-1 /\ k = c * A + R
      BY <3>2, Division
    <3> HIDE DEF A, R
    <3>6. B \in Nat /\ D \in 0..2 /\ A = 3 * B + D
      BY <3>5
    <3> HIDE DEF B, D
    <3> DEFINE Q == A + 3 * (M * d)
    <3>7. Q \in Nat /\ K = c * Q + R
      <4>1. M * d \in Nat
        BY <2>3
      <4>2. b * d = c * (3 * (M * d))
        BY <2>3, <3>2, <3>3
      <4> DEFINE z == M * d
      <4> HIDE DEF z
      <4>3. z \in Nat /\ Q = A + 3 * z /\ K = k + c * (3 * z)
        BY <4>1, <4>2 DEF z
      <4>4. c * Q = c * A + c * (3 * z)
        BY <4>3, <3>2, <3>5
      <4> HIDE DEF Q, K
      <4>5. QED BY <4>3, <4>4, <3>2, <3>5
    <3>8. K \div c = Q
      <4> HIDE DEF Q, K
      <4>1. QED BY <2>5, <3>2, <3>5, <3>7, DivisionUnique
    <3>9. (Q % 3) = D
      <4> DEFINE z == M * d
      <4>1. z \in Nat
        BY <2>3
      <4> HIDE DEF z
      <4>2. Q = 3 * (B + z) + D /\ B + z \in Int /\ D \in 0..3-1
        BY <3>6, <4>1 DEF z
      <4> HIDE DEF Q
      <4>3. QED BY <3>7, <4>2, DivisionUnique
    <3> HIDE DEF Q, K
    <3>10. QED BY <3>4, <3>8, <3>9 DEF digit, c
  <2> HIDE DEF K
  <2>8. \A i \in 1..j+1 : digit(K, i) = e[i]
    <3>1. \A i \in 1..j+1 : i \in 1..j \/ i = j + 1
      OBVIOUS
    <3>2. QED BY <2>6, <2>7, <3>1 DEF d
  <2>9. QED BY <2>3, <2>5, <2>8
<1>3. Nat \subseteq T
  <2> HIDE DEF T
  <2>1. QED BY <1>1, <1>2, InductionOn
<1>4. n \in T
  BY <1>3
<1>5. QED BY <1>4

(* proclists() lists every direction, except that of the process itself,   *)
(* exactly once (torus.hh:507-558).                                        *)
THEOREM EveryNeighborListed ==
  ASSUME NEW dims \in Seq(Nat \ {0})
  PROVE  /\ \A j \in 1..neighbors(dims) : \E i \in Dirs(dims) : nonzeroDelta(dims, j)[i] # 0
         /\ \A j, k \in 1..neighbors(dims) : nonzeroDelta(dims, j) = nonzeroDelta(dims, k) => j = k
         /\ \A delta \in [Dirs(dims) -> {-1, 0, 1}] :
              (\E i \in Dirs(dims) : delta[i] # 0) =>
                \E j \in 1..neighbors(dims) : nonzeroDelta(dims, j) = delta
<1> DEFINE n == Len(dims)
           N == threeTimes[n]
           number(j) == IF j <= neighbors(dims) \div 2 THEN j - 1 ELSE j
<1>1. n \in Nat /\ N \in Nat \ {0} /\ neighbors(dims) = N - 1
  BY ThreeTimes DEF neighbors
<1>2. PICK h \in Nat : N = 2 * h + 1
  BY <1>1, ThreeTimesOdd
<1>3. neighbors(dims) = 2 * h /\ neighbors(dims) \div 2 = h
  BY <1>1, <1>2
<1>4. ASSUME NEW j \in 1..neighbors(dims)
      PROVE  number(j) \in 0..N-1 /\ number(j) # h /\ nonzeroDelta(dims, j) = deltaAt(dims, number(j))
  <2>1. number(j) \in 0..N-1 /\ number(j) # h
    BY <1>2, <1>3
  <2>2. QED BY <2>1 DEF nonzeroDelta
<1>5. ASSUME NEW k \in Nat, NEW i \in 1..n
      PROVE  deltaAt(dims, k)[i] = digit(k, i) - 1 /\ digit(k, i) \in 0..2
  <2>1. i - 1 \in Nat
    OBVIOUS
  <2>2. k \div threeTimes[i-1] \in Nat
    BY <2>1, ThreeTimes, Division
  <2>3. digit(k, i) \in 0..2
    BY <2>2 DEF digit
  <2>4. QED BY <2>3 DEF deltaAt, digit, Dirs
<1>6. ASSUME NEW k \in 0..N-1, NEW m \in 0..N-1, \A i \in 1..n : deltaAt(dims, k)[i] = deltaAt(dims, m)[i]
      PROVE  k = m
  <2>1. k \in Nat /\ m \in Nat
    BY <1>1
  <2>2. \A i \in 1..n : digit(k, i) = digit(m, i)
    <3> HIDE DEF n
    <3>1. \A i \in 1..n : digit(k, i) - 1 = digit(m, i) - 1 /\ digit(k, i) \in Int /\ digit(m, i) \in Int
      BY <1>5, <1>6, <2>1
    <3>2. QED BY <3>1
  <2>3. (k % N) = (m % N)
    BY <1>1, <2>1, <2>2, DigitsDetermine
  <2>4. (k % N) = k /\ (m % N) = m
    <3> HIDE DEF N
    <3>1. QED BY <1>1, SmallRemainder
  <2>5. QED BY <2>3, <2>4
<1>7. h \in 0..N-1 /\ \A i \in 1..n : deltaAt(dims, h)[i] = 0
  <2>1. h \in 0..N-1 /\ N - 1 - h = h
    BY <1>2
  <2>2. ASSUME NEW i \in 1..n PROVE deltaAt(dims, h)[i] = 0
    <3> DEFINE b == threeTimes[i-1]
    <3>1. i \in Nat /\ i - 1 \in Nat /\ i <= n /\ (i - 1) + 1 = i
      BY <1>1
    <3>2. b \in Nat \ {0} /\ threeTimes[i] = 3 * b
      BY <3>1, ThreeTimes
    <3>3. PICK M \in Nat : N = threeTimes[i] * M
      BY <3>1, <1>1, ThreeTimesFactor
    <3> HIDE DEF b, N
    <3>4. (((3 * b) * M - 1 - h) \div b) % 3 = 2 - ((h \div b) % 3)
      BY <2>1, <3>2, <3>3, Complement
    <3>5. ((h \div b) % 3) = 2 - ((h \div b) % 3)
      <4>1. (3 * b) * M - 1 - h = h
        BY <2>1, <3>2, <3>3
      <4>2. QED BY <3>4, <4>1
    <3>6. digit(h, i) = 2 - digit(h, i)
      BY <3>5 DEF digit, b
    <3>7. QED BY <3>6, <1>5
  <2>3. QED BY <2>1, <2>2
<1> HIDE DEF N, number
<1>8. ASSUME NEW j \in 1..neighbors(dims) PROVE \E i \in Dirs(dims) : nonzeroDelta(dims, j)[i] # 0
  <2>1. SUFFICES ASSUME \A i \in 1..n : deltaAt(dims, number(j))[i] = 0 PROVE FALSE
    BY <1>4 DEF Dirs
  <2>2. number(j) = h
    BY <1>4, <1>6, <1>7, <2>1
  <2>3. QED BY <1>4, <2>2
<1>9. ASSUME NEW j \in 1..neighbors(dims), NEW k \in 1..neighbors(dims),
             nonzeroDelta(dims, j) = nonzeroDelta(dims, k)
      PROVE  j = k
  <2>1. number(j) = number(k)
    BY <1>4, <1>6, <1>9
  <2>2. QED BY <2>1, <1>3 DEF number
<1>10. ASSUME NEW delta \in [Dirs(dims) -> {-1, 0, 1}], NEW i0 \in Dirs(dims), delta[i0] # 0
       PROVE  \E j \in 1..neighbors(dims) : nonzeroDelta(dims, j) = delta
  <2> DEFINE e == [i \in 1..n |-> delta[i] + 1]
  <2>1. \A i \in 1..n : e[i] \in 0..2 /\ e[i] - 1 = delta[i]
    <3>1. \A i \in 1..n : delta[i] \in {-1, 0, 1}
      BY DEF Dirs
    <3> HIDE DEF n
    <3>2. QED BY <3>1
  <2> HIDE DEF e
  <2>2. PICK k \in 0..N-1 : \A i \in 1..n : digit(k, i) = e[i]
    BY <1>1, <2>1, DigitsExist DEF N
  <2>3. k \in Nat
    BY <1>1
  <2>4. \A i \in 1..n : deltaAt(dims, k)[i] = delta[i]
    BY <1>5, <2>1, <2>2, <2>3
  <2>5. k # h
    BY <1>7, <1>10, <2>4 DEF Dirs
  <2>6. deltaAt(dims, k) = delta
    BY <2>4 DEF deltaAt, Dirs
  <2> DEFINE j == IF k < h THEN k + 1 ELSE k
  <2>7. j \in 1..neighbors(dims) /\ number(j) = k
    BY <1>1, <1>2, <1>3, <2>5 DEF number
  <2> HIDE DEF j
  <2>8. QED BY <1>4, <2>6, <2>7
<1>11. QED
  <2>1. \A j \in 1..neighbors(dims) : \E i \in Dirs(dims) : nonzeroDelta(dims, j)[i] # 0
    BY <1>8
  <2>2. \A j, k \in 1..neighbors(dims) : nonzeroDelta(dims, j) = nonzeroDelta(dims, k) => j = k
    BY <1>9
  <2>3. \A delta \in [Dirs(dims) -> {-1, 0, 1}] :
          (\E i \in Dirs(dims) : delta[i] # 0) =>
            \E j \in 1..neighbors(dims) : nonzeroDelta(dims, j) = delta
    BY <1>10
  <2>4. QED BY <2>1, <2>2, <2>3

-----------------------------------------------------------------------------
-----------------------------------------------------------------------------
(* FlattenSeq: the concatenation of s[1] up to s[i] for every i.           *)
Concatenates(f, X, s) ==
  /\ f \in [1..Len(s) -> Seq(X)]
  /\ f[1] = s[1]
  /\ \A i \in 1..Len(s) : i # 1 => f[i] = f[i-1] \o s[i]
  /\ FlattenSeq(s) = f[Len(s)]

LEMMA FlattenRec ==
  ASSUME NEW X, NEW s \in Seq(Seq(X)), Len(s) # 0
  PROVE  \E f : Concatenates(f, X, s)
<1> DEFINE n == Len(s)
           V == Seq(X)
           F == [k \in 1..n |-> [x \in V |-> IF k = 1 THEN s[1] ELSE x \o s[k]]]
<1>1. n \in Nat \ {0} /\ (\A k \in 1..n : s[k] \in V) /\ 1 \in 1..n /\ n \in 1..n
  OBVIOUS
<1>2. F \in [1..n -> [V -> V]]
  <2>1. ASSUME NEW k \in 1..n, NEW x \in V PROVE (IF k = 1 THEN s[1] ELSE x \o s[k]) \in V
    BY <1>1
  <2> HIDE DEF V
  <2>2. QED BY <2>1
<1>3. PICK g : Follows(g, V, s[1], F, n)
  <2> HIDE DEF F, V
  <2>1. QED BY <1>1, <1>2, RecursionUpTo
<1> HIDE DEF V
<1>4. ASSUME NEW i \in 1..n
      PROVE  g[i] \in V /\ g[i] = IF i = 1 THEN s[i] ELSE g[i-1] \o s[i]
  <2>1. i \in 0..n /\ i - 1 \in 0..n
    BY <1>1
  <2>2. g[i] = F[i][g[i-1]] /\ g[i-1] \in V /\ g[i] \in V
    BY <2>1, <1>3 DEF Follows
  <2>3. F[i][g[i-1]] = IF i = 1 THEN s[1] ELSE g[i-1] \o s[i]
    BY <2>2
  <2>4. QED BY <2>2, <2>3
<1> DEFINE h == [i \in 1..n |-> g[i]]
<1>5. h = [i \in 1..n |-> IF i = 1 THEN s[i] ELSE h[i-1] \o s[i]]
  <2>1. ASSUME NEW i \in 1..n PROVE g[i] = IF i = 1 THEN s[i] ELSE h[i-1] \o s[i]
    <3>1. CASE i = 1
      BY <3>1, <1>4
    <3>2. CASE i # 1
      <4>1. i - 1 \in 1..n
        BY <1>1, <3>2
      <4>2. h[i-1] = g[i-1]
        BY <4>1
      <4> HIDE DEF h
      <4>3. QED BY <4>2, <3>2, <1>4
    <3>3. QED BY <3>1, <3>2
  <2>2. QED BY <2>1
<1> DEFINE f == CHOOSE f : f = [i \in 1..n |-> IF i = 1 THEN s[i] ELSE f[i-1] \o s[i]]
<1>6. f = [i \in 1..n |-> IF i = 1 THEN s[i] ELSE f[i-1] \o s[i]]
  <2> HIDE DEF h
  <2>1. QED BY <1>5
<1>7. FlattenSeq(s) = f[n]
  BY DEF FlattenSeq
<1> HIDE DEF f
<1>8. /\ f[1] = s[1]
      /\ \A i \in 1..n : i # 1 => f[i] = f[i-1] \o s[i]
  BY <1>1, <1>6
<1> DEFINE T == {k \in Nat : k + 1 <= n => f[k+1] \in V}
<1>9. 0 \in T
  BY <1>1, <1>8
<1>10. ASSUME NEW k \in Nat, k \in T PROVE k + 1 \in T
  <2> SUFFICES ASSUME (k + 1) + 1 <= n PROVE f[(k+1)+1] \in V
    OBVIOUS
  <2>1. (k + 1) + 1 \in 1..n /\ (k + 1) + 1 # 1 /\ ((k + 1) + 1) - 1 = k + 1 /\ k + 1 <= n
    BY <1>1
  <2>2. f[k+1] \in V
    BY <2>1, <1>10
  <2>3. f[(k+1)+1] = f[k+1] \o s[(k+1)+1] /\ s[(k+1)+1] \in V
    BY <2>1, <1>8, <1>1
  <2>4. QED BY <2>2, <2>3 DEF V
<1>11. Nat \subseteq T
  <2> HIDE DEF T
  <2>1. QED BY <1>9, <1>10, InductionOn
<1>12. f \in [1..n -> V]
  <2>1. ASSUME NEW i \in 1..n PROVE f[i] \in V
    <3>1. i - 1 \in Nat /\ (i - 1) + 1 = i
      BY <1>1
    <3>2. i - 1 \in T
      BY <3>1, <1>11
    <3>3. QED BY <3>1, <3>2, <1>1
  <2>2. \E F0 : f = [i \in 1..n |-> F0[i]]
    <3>1. f = [i \in 1..n |-> f[i]]
      BY <1>6
    <3>2. QED BY <3>1
  <2>3. QED BY <2>1, <2>2
<1>13. QED
  BY <1>7, <1>8, <1>12 DEF V, Concatenates

LEMMA Concat ==
  ASSUME NEW X, NEW u \in Seq(X), NEW w \in Seq(X)
  PROVE  /\ u \o w \in Seq(X)
         /\ Len(u) \in Nat /\ Len(w) \in Nat /\ Len(u \o w) = Len(u) + Len(w)
         /\ \A m \in 1..Len(u) : (u \o w)[m] = u[m]
         /\ \A k \in 1..Len(w) : (u \o w)[Len(u) + k] = w[k]
OBVIOUS

From(v, s, i) ==
  \A m \in 1..Len(v) : \E a \in 1..i : \E k \in 1..Len(s[a]) : v[m] = s[a][k]

Into(v, s, i) ==
  \A a \in 1..i : \A k \in 1..Len(s[a]) : \E m \in 1..Len(v) : v[m] = s[a][k]

LEMMA ConcatElements ==
  ASSUME NEW X, NEW j \in Nat, NEW s,
         NEW u \in Seq(X), From(u, s, j), Into(u, s, j), s[j+1] \in Seq(X)
  PROVE  From(u \o s[j+1], s, j+1) /\ Into(u \o s[j+1], s, j+1)
<1> DEFINE w == s[j+1]
           v == u \o w
<1>1. /\ Len(u) \in Nat /\ Len(w) \in Nat /\ Len(v) = Len(u) + Len(w)
      /\ \A m \in 1..Len(u) : v[m] = u[m]
      /\ \A k \in 1..Len(w) : v[Len(u) + k] = w[k]
  BY Concat
<1>2. j + 1 \in 1..j+1 /\ \A a \in 1..j+1 : a # j + 1 => a \in 1..j
  OBVIOUS
<1> HIDE DEF v
<1>3. ASSUME NEW m \in 1..Len(v)
      PROVE  \E a \in 1..j+1 : \E k \in 1..Len(s[a]) : v[m] = s[a][k]
  <2>1. CASE m <= Len(u)
    <3>1. m \in 1..Len(u)
      BY <2>1, <1>1
    <3>2. \E a \in 1..j : \E k \in 1..Len(s[a]) : u[m] = s[a][k]
      BY <3>1 DEF From
    <3>3. v[m] = u[m]
      BY <3>1, <1>1
    <3>4. QED BY <3>2, <3>3
  <2>2. CASE ~ (m <= Len(u))
    <3>1. m - Len(u) \in 1..Len(w) /\ Len(u) + (m - Len(u)) = m
      BY <2>2, <1>1
    <3>2. v[m] = s[j+1][m - Len(u)]
      BY <3>1, <1>1
    <3>3. QED BY <3>1, <3>2, <1>2
  <2>3. QED BY <2>1, <2>2
<1>4. ASSUME NEW a \in 1..j+1, NEW k \in 1..Len(s[a])
      PROVE  \E m \in 1..Len(v) : v[m] = s[a][k]
  <2>1. CASE a = j + 1
    <3>1. k \in 1..Len(w)
      BY <2>1
    <3>2. Len(u) + k \in 1..Len(v)
      BY <3>1, <1>1
    <3>3. v[Len(u) + k] = s[a][k]
      BY <3>1, <2>1, <1>1
    <3>4. QED BY <3>2, <3>3
  <2>2. CASE a # j + 1
    <3>1. PICK m \in 1..Len(u) : u[m] = s[a][k]
      BY <2>2, <1>2 DEF Into
    <3>2. m \in 1..Len(v) /\ v[m] = u[m]
      BY <1>1
    <3>3. QED BY <3>1, <3>2
  <2>3. QED BY <2>1, <2>2
<1>5. QED BY <1>3, <1>4 DEF From, Into, v

(* The elements of the parts, all of them and nothing else. *)
LEMMA FlattenElements ==
  ASSUME NEW X, NEW s \in Seq(Seq(X))
  PROVE  /\ FlattenSeq(s) \in Seq(X)
         /\ From(FlattenSeq(s), s, Len(s))
         /\ Into(FlattenSeq(s), s, Len(s))
<1>1. CASE Len(s) = 0
  <2>1. FlattenSeq(s) = s /\ s = <<>>
    BY <1>1 DEF FlattenSeq
  <2>2. QED BY <2>1 DEF From, Into
<1>2. CASE Len(s) # 0
  <2>1. Len(s) \in Nat \ {0} /\ \A i \in 1..Len(s) : s[i] \in Seq(X)
    BY <1>2
  <2>2. PICK f : Concatenates(f, X, s)
    BY <1>2, FlattenRec
  <2>3. /\ \A i \in 1..Len(s) : f[i] \in Seq(X)
        /\ f[1] = s[1] /\ FlattenSeq(s) = f[Len(s)]
        /\ \A i \in 1..Len(s) : i # 1 => f[i] = f[i-1] \o s[i]
    BY <2>2 DEF Concatenates
  <2> DEFINE T == {j \in Nat : j + 1 <= Len(s) => From(f[j+1], s, j+1) /\ Into(f[j+1], s, j+1)}
  <2>4. 0 \in T
    <3>1. 1 \in 1..1 /\ \A a \in 1..1 : a = 1
      OBVIOUS
    <3>2. From(s[1], s, 1)
      BY <3>1 DEF From
    <3>3. Into(s[1], s, 1)
      BY <3>1 DEF Into
    <3>4. From(f[1], s, 1) /\ Into(f[1], s, 1)
      BY <3>2, <3>3, <2>3
    <3>5. 0 + 1 = 1 /\ 0 \in Nat
      OBVIOUS
    <3>6. QED BY <3>4, <3>5
  <2>5. ASSUME NEW j \in Nat, j \in T PROVE j + 1 \in T
    <3> DEFINE i == j + 1
    <3> SUFFICES ASSUME i + 1 <= Len(s) PROVE From(f[i+1], s, i+1) /\ Into(f[i+1], s, i+1)
      OBVIOUS
    <3>1. i <= Len(s) /\ i + 1 \in 1..Len(s) /\ i \in 1..Len(s) /\ i + 1 # 1 /\ (i + 1) - 1 = i
      BY <2>1
    <3>2. From(f[i], s, i) /\ Into(f[i], s, i)
      BY <3>1, <2>5
    <3>3. i \in Nat
      OBVIOUS
    <3> HIDE DEF i
    <3>4. f[i+1] = f[i] \o s[i+1] /\ f[i] \in Seq(X) /\ s[i+1] \in Seq(X)
      BY <3>1, <2>1, <2>3
    <3>5. QED BY <3>2, <3>3, <3>4, ConcatElements
  <2>6. Nat \subseteq T
    <3> HIDE DEF T
    <3>1. QED BY <2>4, <2>5, InductionOn
  <2>7. From(f[Len(s)], s, Len(s)) /\ Into(f[Len(s)], s, Len(s))
    <3> DEFINE n == Len(s)
    <3>1. n - 1 \in Nat /\ (n - 1) + 1 = n
      BY <2>1
    <3>2. n - 1 \in T
      BY <3>1, <2>6
    <3>3. n \in Nat /\ n <= n
      BY <2>1
    <3> HIDE DEF n
    <3>4. From(f[n], s, n) /\ Into(f[n], s, n)
      BY <3>1, <3>2, <3>3 DEF n
    <3>5. QED BY <3>4 DEF n
  <2>8. Len(s) \in 1..Len(s)
    BY <2>1
  <2>9. QED BY <2>3, <2>7, <2>8
<1>3. QED BY <1>1, <1>2

-----------------------------------------------------------------------------
(* One direction more. *)
LEMMA ProcsAppend ==
  ASSUME NEW t \in Seq(Nat \ {0}), NEW k \in Nat \ {0}
  PROVE  procs(Append(t, k)) = procs(t) * k
<1> DEFINE u == Append(t, k)
           n == Len(t)
           T == {j \in Nat : j <= n => increment(u)[j+1] = increment(t)[j+1]}
<1>1. /\ u \in Seq(Nat \ {0}) /\ n \in Nat /\ Len(u) = n + 1
      /\ u[n+1] = k /\ \A i \in 1..n : u[i] = t[i]
  OBVIOUS
<1> HIDE DEF u
<1>2. /\ increment(t)[1] = 1
      /\ \A i \in 1..n : increment(t)[i+1] = increment(t)[i] * t[i]
  BY Increments DEF Dirs
<1>3. /\ increment(u)[1] = 1
      /\ \A i \in 1..n+1 : increment(u)[i+1] = increment(u)[i] * u[i]
  BY <1>1, Increments DEF Dirs
<1> HIDE DEF n
<1>4. 0 \in T
  BY <1>2, <1>3
<1>5. ASSUME NEW j \in Nat, j \in T PROVE j + 1 \in T
  <2> SUFFICES ASSUME j + 1 <= n PROVE increment(u)[(j+1)+1] = increment(t)[(j+1)+1]
    OBVIOUS
  <2>1. j + 1 \in 1..n /\ j + 1 \in 1..n+1 /\ j <= n
    BY <1>1
  <2>2. increment(u)[j+1] = increment(t)[j+1]
    BY <2>1, <1>5
  <2>3. /\ increment(t)[(j+1)+1] = increment(t)[j+1] * t[j+1]
        /\ increment(u)[(j+1)+1] = increment(u)[j+1] * u[j+1]
    BY <2>1, <1>2, <1>3
  <2>4. QED BY <2>1, <2>2, <2>3, <1>1
<1>6. Nat \subseteq T
  <2> HIDE DEF T
  <2>1. QED BY <1>4, <1>5, InductionOn
<1>7. increment(u)[n+1] = increment(t)[n+1]
  BY <1>1, <1>6
<1>8. n + 1 \in 1..n+1
  BY <1>1
<1>9. increment(u)[(n+1)+1] = increment(u)[n+1] * u[n+1]
  BY <1>3, <1>8
<1>10. procs(u) = increment(u)[(n+1)+1] /\ procs(t) = increment(t)[n+1]
  BY <1>1 DEF procs, n
<1>11. QED
  BY <1>1, <1>7, <1>9, <1>10 DEF u

LEMMA ProcsPositive ==
  ASSUME NEW t \in Seq(Nat \ {0})
  PROVE  procs(t) \in Nat \ {0}
<1>1. Len(t) + 1 \in 1..Len(t)+1
  OBVIOUS
<1>2. QED BY <1>1, Increments DEF procs

LEMMA ProcsOfOne ==
  ASSUME NEW t \in Seq(Nat \ {0}), Len(t) = 1
  PROVE  procs(t) = t[1]
<1>1. 1 \in Dirs(t) /\ 1 + 1 = 2 /\ t[1] \in Nat
  BY DEF Dirs
<1>2. increment(t)[2] = increment(t)[1] * t[1] /\ increment(t)[1] = 1
  BY <1>1, Increments
<1>3. procs(t) = increment(t)[2]
  BY DEF procs
<1>4. QED BY <1>1, <1>2, <1>3

(* A sequence without its last element. *)
LEMMA Shorter ==
  ASSUME NEW X, NEW t \in Seq(X), NEW j \in Nat, Len(t) = j + 1
  PROVE  /\ [i \in 1..j |-> t[i]] \in Seq(X)
         /\ Len([i \in 1..j |-> t[i]]) = j
         /\ t[j+1] \in X
         /\ t = Append([i \in 1..j |-> t[i]], t[j+1])
OBVIOUS

-----------------------------------------------------------------------------
LEMMA Divides ==
  ASSUME NEW n \in Nat \ {0}, NEW k \in 1..n, (n % k) = 0
  PROVE  n \div k \in 1..n /\ (n \div k) * k = n
<1> DEFINE q == n \div k
<1>1. q \in Nat /\ n = k * q + (n % k) /\ k \in Nat \ {0}
  BY Division
<1> HIDE DEF q
<1>2. n = k * q
  BY <1>1
<1>3. q # 0
  BY <1>1, <1>2
<1>4. q <= n
  <2>1. q * 1 <= q * k
    BY <1>1, MoreTimes
  <2>2. QED BY <2>1, <1>1, <1>2
<1>5. QED BY <1>1, <1>2, <1>3, <1>4 DEF q

LEMMA Factor ==
  ASSUME NEW a \in Nat \ {0}, NEW k \in Nat \ {0}, NEW n, n = a * k
  PROVE  n \in Nat \ {0} /\ k \in 1..n /\ (n % k) = 0 /\ n \div k = a
<1>1. n \in Nat /\ n = k * a
  OBVIOUS
<1>2. k * 1 <= k * a
  BY MoreTimes
<1>3. k <= n
  BY <1>1, <1>2
<1> DEFINE r == 0
<1>4. r \in 0..k-1 /\ n = k * a + r /\ a \in Int
  BY <1>1
<1> HIDE DEF r
<1>5. n \div k = a /\ (n % k) = r
  BY <1>1, <1>4, DivisionUnique
<1>6. QED BY <1>1, <1>3, <1>5 DEF r

(* The subdivisions of n processes in one more direction than x has: the   *)
(* loop over the factors k of n in optimize_dims().                        *)
Part(x, n, k) ==
  IF n % k # 0 THEN <<>> ELSE LET g == x[n \div k] IN [m \in 1..Len(g) |-> Append(g[m], k)]

Extend(x, n) == FlattenSeq([k \in 1..n |-> Part(x, n, k)])

(* List: subdivisions of n processes in i directions, every one of them.   *)
Subdivisions(list, i, n) ==
  /\ list \in Seq(Seq(Nat \ {0}))
  /\ Len(list) # 0
  /\ \A m \in 1..Len(list) : Len(list[m]) = i /\ procs(list[m]) = n
  /\ \A t \in Seq(Nat \ {0}) :
       Len(t) = i /\ procs(t) = n => \E m \in 1..Len(list) : list[m] = t

Each(list, i, n) == \A m \in 1..Len(list) : Len(list[m]) = i /\ procs(list[m]) = n

LEMMA PartSubdivisions ==
  ASSUME NEW P \in Nat, NEW x, NEW i \in Nat, \A n \in 1..P : Subdivisions(x[n], i, n),
         NEW n \in 1..P, NEW k \in 1..n
  PROVE  /\ Part(x, n, k) \in Seq(Seq(Nat \ {0}))
         /\ Each(Part(x, n, k), i + 1, n)
         /\ (n % k) = 0 => Len(Part(x, n, k)) = Len(x[n \div k])
<1>1. CASE n % k # 0
  <2>1. Part(x, n, k) = <<>>
    BY <1>1 DEF Part
  <2>2. QED BY <2>1, <1>1 DEF Each
<1>2. CASE (n % k) = 0
  <2> DEFINE a == n \div k
             g == x[a]
  <2>1. a \in 1..n /\ a * k = n /\ n \in Nat /\ k \in Nat \ {0}
    BY <1>2, Divides
  <2>2. Part(x, n, k) = [m \in 1..Len(g) |-> Append(g[m], k)]
    BY <1>2 DEF Part
  <2> HIDE DEF a
  <2>3. a \in 1..P
    BY <2>1
  <2>4. /\ g \in Seq(Seq(Nat \ {0}))
        /\ \A m \in 1..Len(g) : Len(g[m]) = i /\ procs(g[m]) = a
    BY <2>3 DEF Subdivisions
  <2> HIDE DEF g
  <2>5. ASSUME NEW m \in 1..Len(g)
        PROVE  /\ Append(g[m], k) \in Seq(Nat \ {0})
               /\ Len(Append(g[m], k)) = i + 1
               /\ procs(Append(g[m], k)) = n
    <3>1. g[m] \in Seq(Nat \ {0})
      BY <2>4
    <3>2. procs(Append(g[m], k)) = procs(g[m]) * k
      BY <3>1, <2>1, ProcsAppend
    <3>3. QED BY <3>1, <3>2, <2>1, <2>4
  <2>6. Len(g) \in Nat
    BY <2>4
  <2>7. /\ Part(x, n, k) \in Seq(Seq(Nat \ {0}))
        /\ Len(Part(x, n, k)) = Len(g)
        /\ \A m \in 1..Len(g) : Part(x, n, k)[m] = Append(g[m], k)
    BY <2>2, <2>5, <2>6
  <2>8. QED BY <2>5, <2>7 DEF g, a, Each
<1>3. QED BY <1>1, <1>2

LEMMA ExtendSubdivisions ==
  ASSUME NEW P \in Nat, NEW x, NEW i \in Nat, \A n \in 1..P : Subdivisions(x[n], i, n),
         NEW n \in 1..P
  PROVE  Subdivisions(Extend(x, n), i + 1, n)
<1> DEFINE s == [k \in 1..n |-> Part(x, n, k)]
           v == Extend(x, n)
<1>1. n \in Nat \ {0} /\ Len(s) = n /\ \A k \in 1..n : s[k] = Part(x, n, k)
  OBVIOUS
<1>2. s \in Seq(Seq(Seq(Nat \ {0})))
  <2>1. \A k \in 1..n : Part(x, n, k) \in Seq(Seq(Nat \ {0}))
    BY PartSubdivisions
  <2>2. QED BY <2>1, <1>1
<1> HIDE DEF s
<1>3. v \in Seq(Seq(Nat \ {0})) /\ From(v, s, n) /\ Into(v, s, n)
  BY <1>1, <1>2, FlattenElements DEF Extend, s
<1> HIDE DEF v
<1>4. Len(v) # 0
  <2>1. 1 \in 1..n /\ (n % 1) = 0 /\ n \div 1 = n
    BY <1>1
  <2>2. Len(s[1]) = Len(x[n])
    <3>1. (n % 1) = 0 => Len(Part(x, n, 1)) = Len(x[n \div 1])
      BY <2>1, PartSubdivisions
    <3>2. QED BY <3>1, <2>1, <1>1
  <2>3. Len(x[n]) \in Nat /\ Len(x[n]) # 0
    BY DEF Subdivisions
  <2>4. 1 \in 1..Len(s[1])
    BY <2>2, <2>3
  <2>5. \E m \in 1..Len(v) : v[m] = s[1][1]
    BY <2>1, <2>4, <1>3 DEF Into
  <2>6. QED BY <2>5
<1>5. ASSUME NEW m \in 1..Len(v) PROVE Len(v[m]) = i + 1 /\ procs(v[m]) = n
  <2>1. PICK k \in 1..n : \E j \in 1..Len(s[k]) : v[m] = s[k][j]
    BY <1>3 DEF From
  <2>2. PICK j \in 1..Len(s[k]) : v[m] = s[k][j]
    BY <2>1
  <2>3. s[k] = Part(x, n, k)
    BY <1>1
  <2>4. Each(s[k], i + 1, n)
    BY <2>3, PartSubdivisions
  <2>5. QED BY <2>2, <2>4 DEF Each
<1>6. ASSUME NEW t \in Seq(Nat \ {0}), Len(t) = i + 1, procs(t) = n
      PROVE  \E m \in 1..Len(v) : v[m] = t
  <2> DEFINE u == [j \in 1..i |-> t[j]]
             k == t[i+1]
             a == procs(u)
  <2>1. u \in Seq(Nat \ {0}) /\ Len(u) = i /\ k \in Nat \ {0} /\ t = Append(u, k)
    BY <1>6, Shorter
  <2> HIDE DEF u, k
  <2>2. a \in Nat \ {0} /\ n = a * k
    BY <2>1, <1>6, ProcsAppend, ProcsPositive
  <2> HIDE DEF a
  <2>3. k \in 1..n /\ (n % k) = 0 /\ n \div k = a
    BY <2>1, <2>2, Factor
  <2>4. a \in 1..P
    <3>1. a \in 1..n
      BY <1>1, <2>3, Divides
    <3>2. QED BY <3>1
  <2>5. PICK m \in 1..Len(x[a]) : x[a][m] = u
    BY <2>1, <2>4 DEF Subdivisions, a
  <2>6. s[k] = [j \in 1..Len(x[a]) |-> Append(x[a][j], k)]
    BY <2>3, <1>1 DEF Part
  <2>7. x[a] \in Seq(Seq(Nat \ {0}))
    BY <2>4 DEF Subdivisions
  <2>8. m \in 1..Len(s[k]) /\ s[k][m] = t
    BY <2>1, <2>5, <2>6, <2>7
  <2>9. QED BY <2>3, <2>8, <1>3 DEF Into
<1>7. QED BY <1>3, <1>4, <1>5, <1>6 DEF Subdivisions, v

(* optimize_dims() tries every subdivision of the processes, and nothing   *)
(* else.                                                                   *)
THEOREM TriesComplete ==
  ASSUME NEW d \in Nat \ {0}, NEW P \in Nat \ {0}
  PROVE  Subdivisions(tries(d, P), d, P)
<1> DEFINE V == [1..P -> Seq(Seq(Nat \ {0}))]
           line == [n \in 1..P |-> <<<<n>>>>]
           F == [i \in 1..d |-> [x \in V |->
                  IF i = 1 THEN line ELSE [n \in 1..P |-> Extend(x, n)]]]
           Good(x, i) == x \in V /\ \A n \in 1..P : Subdivisions(x[n], i, n)
<1>1. \A n \in 1..P : <<<<n>>>> \in Seq(Seq(Nat \ {0}))
  OBVIOUS
<1>2. line \in V /\ Good(line, 1)
  <2>1. ASSUME NEW n \in 1..P PROVE Subdivisions(<<<<n>>>>, 1, n)
    <3> DEFINE list == <<<<n>>>>
    <3>1. list \in Seq(Seq(Nat \ {0})) /\ Len(list) = 1 /\ list[1] = <<n>>
      BY <1>1
    <3>2. <<n>> \in Seq(Nat \ {0}) /\ Len(<<n>>) = 1 /\ <<n>>[1] = n
      OBVIOUS
    <3>3. procs(<<n>>) = n
      BY <3>2, ProcsOfOne
    <3>4. ASSUME NEW t \in Seq(Nat \ {0}), Len(t) = 1, procs(t) = n PROVE t = <<n>>
      BY <3>4, ProcsOfOne
    <3> HIDE DEF list
    <3>5. QED BY <3>1, <3>2, <3>3, <3>4 DEF Subdivisions, list
  <2>2. QED BY <2>1, <1>1
<1>3. F \in [1..d -> [V -> V]]
  <2>1. ASSUME NEW x \in V, NEW n \in 1..P PROVE Extend(x, n) \in Seq(Seq(Nat \ {0}))
    <3> DEFINE s == [k \in 1..n |-> Part(x, n, k)]
    <3>1. ASSUME NEW k \in 1..n PROVE Part(x, n, k) \in Seq(Seq(Nat \ {0}))
      <4>1. CASE n % k # 0
        BY <4>1 DEF Part
      <4>2. CASE (n % k) = 0
        <5> DEFINE a == n \div k
        <5>0. n \in Nat \ {0}
          OBVIOUS
        <5>1. a \in 1..n
          BY <4>2, <5>0, Divides
        <5> HIDE DEF a
        <5>2. x[a] \in Seq(Seq(Nat \ {0}))
          BY <5>1
        <5> DEFINE g == x[a]
        <5> HIDE DEF g
        <5>3. [m \in 1..Len(g) |-> Append(g[m], k)] \in Seq(Seq(Nat \ {0}))
          BY <5>2 DEF g
        <5>4. Part(x, n, k) = [m \in 1..Len(g) |-> Append(g[m], k)]
          BY <4>2 DEF Part, g, a
        <5>5. QED BY <5>3, <5>4
      <4>3. QED BY <4>1, <4>2
    <3>2. s \in Seq(Seq(Seq(Nat \ {0})))
      BY <3>1
    <3>3. QED BY <3>2, FlattenElements DEF Extend
  <2>2. ASSUME NEW x \in V PROVE [n \in 1..P |-> Extend(x, n)] \in V
    BY <2>1
  <2>3. line \in V
    BY <1>2
  <2> HIDE DEF V, line
  <2>4. QED BY <2>2, <2>3
<1>4. PICK g : Follows(g, V, line, F, d)
  <2> HIDE DEF F, V, line
  <2>1. line \in V
    BY <1>2
  <2>2. QED BY <2>1, <1>3, RecursionUpTo
<1>5. ASSUME NEW i \in 1..d
      PROVE  g[i] = IF i = 1 THEN line ELSE [n \in 1..P |-> Extend(g[i-1], n)]
  <2>1. i \in 0..d /\ i - 1 \in 0..d
    OBVIOUS
  <2>2. g[i] = F[i][g[i-1]] /\ g[i-1] \in V
    BY <2>1, <1>4 DEF Follows
  <2> HIDE DEF V, line
  <2>3. QED BY <2>2
<1> DEFINE h == [i \in 1..d |-> g[i]]
           Step(f, i) == IF i = 1 THEN line ELSE [n \in 1..P |-> Extend(f[i-1], n)]
<1>6. h = [i \in 1..d |-> Step(h, i)]
  <2>1. ASSUME NEW i \in 1..d PROVE g[i] = Step(h, i)
    <3>1. CASE i = 1
      BY <3>1, <1>5
    <3>2. CASE i # 1
      <4>1. h[i-1] = g[i-1]
        BY <3>2
      <4>2. Step(h, i) = [n \in 1..P |-> Extend(g[i-1], n)]
        BY <3>2, <4>1
      <4>3. QED BY <3>2, <4>2, <1>5
    <3>3. QED BY <3>1, <3>2
  <2> HIDE DEF Step
  <2>2. QED BY <2>1
<1> DEFINE f == CHOOSE f : f = [i \in 1..d |-> Step(f, i)]
<1>7. f = [i \in 1..d |-> Step(f, i)]
  <2> HIDE DEF h, Step
  <2>1. QED BY <1>6
<1>8. tries(d, P) = f[d][P]
  BY DEF tries, Extend, Part
<1> HIDE DEF f
<1> DEFINE T == {i \in Nat : i + 1 <= d => Good(f[i+1], i+1)}
<1>9. 0 \in T
  <2>1. 1 \in 1..d
    OBVIOUS
  <2>2. f[1] = line
    BY <2>1, <1>7
  <2>3. Good(f[1], 1)
    BY <2>2, <1>2
  <2> HIDE DEF Good
  <2>4. QED BY <2>3
<1>10. ASSUME NEW i \in Nat, i \in T PROVE i + 1 \in T
  <2> SUFFICES ASSUME (i + 1) + 1 <= d PROVE Good(f[(i+1)+1], (i+1)+1)
    OBVIOUS
  <2> DEFINE j == i + 1
  <2>1. j \in Nat /\ j <= d /\ j + 1 \in 1..d /\ j + 1 # 1 /\ (j + 1) - 1 = j
    OBVIOUS
  <2>2. Good(f[j], j)
    BY <2>1, <1>10
  <2> HIDE DEF j
  <2>3. f[j+1] = [n \in 1..P |-> Extend(f[j], n)]
    <3>1. f[j+1] = Step(f, j + 1)
      BY <2>1, <1>7
    <3>2. QED BY <3>1, <2>1
  <2>4. \A n \in 1..P : Subdivisions(Extend(f[j], n), j + 1, n)
    BY <2>1, <2>2, ExtendSubdivisions
  <2>5. \A n \in 1..P : Extend(f[j], n) \in Seq(Seq(Nat \ {0}))
    BY <2>4 DEF Subdivisions
  <2>6. Good(f[j+1], j + 1)
    BY <2>3, <2>4, <2>5
  <2>7. QED BY <2>6 DEF j
<1>11. Nat \subseteq T
  <2> HIDE DEF T
  <2>1. QED BY <1>9, <1>10, InductionOn
<1>12. Good(f[d], d)
  <2>1. d - 1 \in Nat /\ (d - 1) + 1 = d /\ d <= d
    OBVIOUS
  <2>2. d - 1 \in T
    BY <2>1, <1>11
  <2> HIDE DEF Good
  <2>3. QED BY <2>1, <2>2
<1>13. QED
  BY <1>8, <1>12

-----------------------------------------------------------------------------
(* A finite nonempty list of integers has a largest one. *)
LEMMA Largest ==
  ASSUME NEW n \in Nat \ {0}, NEW w, \A i \in 1..n : w[i] \in Int
  PROVE  Max({w[i] : i \in 1..n}) \in Int
<1> DEFINE T == {j \in Nat : j + 1 <= n => \E m \in 1..j+1 : \A i \in 1..j+1 : w[m] >= w[i]}
<1>1. 0 \in T
  OBVIOUS
<1>2. ASSUME NEW j \in Nat, j \in T PROVE j + 1 \in T
  <2> SUFFICES ASSUME (j + 1) + 1 <= n
               PROVE  \E m \in 1..(j+1)+1 : \A i \in 1..(j+1)+1 : w[m] >= w[i]
    OBVIOUS
  <2>1. PICK m \in 1..j+1 : \A i \in 1..j+1 : w[m] >= w[i]
    BY <1>2
  <2>2. w[j+2] \in Int /\ w[m] \in Int
    OBVIOUS
  <2>3. CASE w[m] >= w[j+2]
    BY <2>1, <2>2, <2>3
  <2>4. CASE w[j+2] >= w[m]
    <3>1. ASSUME NEW i \in 1..(j+1)+1 PROVE w[j+2] >= w[i]
      <4>1. w[i] \in Int
        OBVIOUS
      <4>2. CASE i = j + 2
        BY <4>1, <4>2
      <4>3. CASE i # j + 2
        <5>1. i \in 1..j+1
          BY <4>3
        <5>2. w[m] >= w[i]
          BY <5>1, <2>1
        <5>3. QED BY <5>2, <4>1, <2>2, <2>4
      <4>4. QED BY <4>2, <4>3
    <3>2. j + 2 \in 1..(j+1)+1
      OBVIOUS
    <3>3. QED BY <3>1, <3>2
  <2>5. QED BY <2>2, <2>3, <2>4
<1>3. Nat \subseteq T
  <2> HIDE DEF T
  <2>1. QED BY <1>1, <1>2, InductionOn
<1>4. \E m \in 1..n : \A i \in 1..n : w[m] >= w[i]
  <2>1. n - 1 \in Nat /\ (n - 1) + 1 = n /\ n <= n
    OBVIOUS
  <2>2. n - 1 \in T
    BY <2>1, <1>3
  <2>3. QED BY <2>1, <2>2
<1> DEFINE S == {w[i] : i \in 1..n}
<1>5. \E x \in S : \A y \in S : x >= y
  BY <1>4
<1>6. Max(S) \in S
  <2> HIDE DEF S
  <2>1. QED BY <1>5 DEF Max
<1>7. QED BY <1>6

LEMMA WeightIsNumber ==
  ASSUME NEW size \in Seq(Nat \ {0}), size # <<>>, NEW P \in Nat \ {0},
         NEW t \in Seq(Nat \ {0}), Len(t) = Len(size)
  PROVE  weight(size, P, t) \in Int
<1> DEFINE n == Len(size)
           w == [i \in 1..n |-> size[i] * (P \div t[i]) * (IF size[i] % t[i] = 0 THEN 1 ELSE 3)]
<1>1. n \in Nat \ {0} /\ DOMAIN size = 1..n
  OBVIOUS
<1>2. ASSUME NEW i \in 1..n PROVE w[i] \in Int
  <2>1. size[i] \in Nat \ {0} /\ t[i] \in Nat \ {0}
    OBVIOUS
  <2> DEFINE q == P \div t[i]
             c == IF size[i] % t[i] = 0 THEN 1 ELSE 3
  <2>2. q \in Nat /\ c \in Nat
    BY <2>1, Division
  <2>3. w[i] = size[i] * q * c
    OBVIOUS
  <2> HIDE DEF q, c, w
  <2>4. QED BY <2>1, <2>2, <2>3
<1>3. Max({w[i] : i \in 1..n}) \in Int
  <2> HIDE DEF n, w
  <2>1. QED BY <1>1, <1>2, Largest
<1>4. weight(size, P, t) = Max({w[i] : i \in 1..n})
  BY <1>1 DEF weight
<1>5. QED BY <1>3, <1>4

(* x is the best of the first j in the list. *)
Best(x, j, all, size, P) ==
  /\ \E m \in 1..j : x = all[m]
  /\ \A m \in 1..j : weight(size, P, x) <= weight(size, P, all[m])

LEMMA OptimizeDims ==
  ASSUME NEW size \in Seq(Nat \ {0}), size # <<>>, NEW P \in Nat \ {0}
  PROVE  LET all == tries(Len(size), P)
         IN  Best(optimize_dims(size, P), Len(all), all, size, P)
<1> DEFINE d == Len(size)
           all == tries(d, P)
           N == Len(all)
           V == Seq(Nat \ {0})
           W(x) == weight(size, P, x)
           F == [k \in 1..N |-> [x \in V |-> IF k = 1 \/ W(all[k]) < W(x) THEN all[k] ELSE x]]
           B(x, j) == Best(x, j, all, size, P)
<1>1. d \in Nat \ {0}
  OBVIOUS
<1>2. Subdivisions(all, d, P)
  BY <1>1, TriesComplete
<1> HIDE DEF all
<1>3. N \in Nat \ {0} /\ \A m \in 1..N : all[m] \in V /\ Len(all[m]) = d
  BY <1>2 DEF Subdivisions
<1> HIDE DEF N
<1>4. \A m \in 1..N : W(all[m]) \in Int
  BY <1>3, WeightIsNumber
<1>5. 1 \in 1..N /\ all[1] \in V
  BY <1>3
<1>6. F \in [1..N -> [V -> V]]
  BY <1>3
<1>7. PICK g : Follows(g, V, all[1], F, N)
  <2> HIDE DEF F, V
  <2>1. QED BY <1>3, <1>5, <1>6, RecursionUpTo
<1> HIDE DEF W, V
<1>8. ASSUME NEW n \in 1..N
      PROVE  g[n] = IF n = 1 \/ W(all[n]) < W(g[n-1]) THEN all[n] ELSE g[n-1]
  <2>1. n \in 0..N /\ n - 1 \in 0..N
    BY <1>3
  <2>2. g[n] = F[n][g[n-1]] /\ g[n-1] \in V
    BY <2>1, <1>7 DEF Follows
  <2>3. QED BY <2>2
<1> DEFINE Step(f, n) == IF n = 1 \/ W(all[n]) < W(f[n-1]) THEN all[n] ELSE f[n-1]
           h == [n \in 1..N |-> g[n]]
<1>9. h = [n \in 1..N |-> Step(h, n)]
  <2>1. ASSUME NEW n \in 1..N PROVE g[n] = Step(h, n)
    <3>1. CASE n = 1
      BY <3>1, <1>8
    <3>2. CASE n # 1
      <4>1. h[n-1] = g[n-1]
        BY <3>2, <1>3
      <4> HIDE DEF h
      <4>2. QED BY <3>2, <4>1, <1>8
    <3>3. QED BY <3>1, <3>2
  <2> HIDE DEF Step
  <2>2. QED BY <2>1
<1> DEFINE opt == CHOOSE f : f = [n \in 1..N |-> Step(f, n)]
<1>10. opt = [n \in 1..N |-> Step(opt, n)]
  <2> HIDE DEF h, Step
  <2>1. QED BY <1>9
<1>11. optimize_dims(size, P) = opt[N]
  BY DEF optimize_dims, W, N, all
<1> HIDE DEF opt
<1> DEFINE T == {j \in Nat : j + 1 <= N => B(opt[j+1], j+1)}
<1>12. 0 \in T
  <2>1. opt[1] = all[1]
    BY <1>3, <1>10
  <2>2. W(all[1]) <= W(all[1])
    BY <1>4, <1>5
  <2>3. \A m \in 1..1 : m = 1
    OBVIOUS
  <2>4. 1 \in 1..1
    OBVIOUS
  <2>5. B(opt[1], 1)
    BY <2>1, <2>2, <2>3, <2>4 DEF Best, W
  <2> HIDE DEF B
  <2>6. QED BY <2>5
<1>13. ASSUME NEW i \in Nat, i \in T PROVE i + 1 \in T
  <2> SUFFICES ASSUME (i + 1) + 1 <= N PROVE B(opt[(i+1)+1], (i+1)+1)
    OBVIOUS
  <2> DEFINE j == i + 1
             x == opt[j]
             y == all[j+1]
  <2>1. /\ j \in Nat \ {0} /\ j <= N /\ j + 1 \in 1..N /\ j + 1 # 1 /\ (j + 1) - 1 = j
        /\ \A m \in 1..j : m \in 1..N
    BY <1>3
  <2>2. B(x, j)
    BY <2>1, <1>13
  <2> HIDE DEF j
  <2>3. opt[j+1] = IF W(y) < W(x) THEN y ELSE x
    <3>1. opt[j+1] = Step(opt, j + 1)
      BY <2>1, <1>10
    <3>2. QED BY <3>1, <2>1
  <2>4. (\E m \in 1..j : x = all[m]) /\ \A m \in 1..j : W(x) <= W(all[m])
    BY <2>2 DEF Best, W
  <2> HIDE DEF x, y
  <2>5. W(y) \in Int /\ W(x) \in Int
    BY <2>1, <2>4, <1>4 DEF y
  <2>6. j + 1 \in 1..j+1 /\ \A m \in 1..j+1 : m \in 1..j \/ m = j + 1
    BY <2>1
  <2>7. \A m \in 1..j : m \in 1..j+1
    BY <2>1
  <2>8. CASE W(y) < W(x)
    <3>1. opt[j+1] = y
      BY <2>3, <2>8
    <3>2. ASSUME NEW m \in 1..j+1 PROVE W(y) <= W(all[m])
      <4>1. CASE m = j + 1
        BY <4>1, <2>5 DEF y
      <4>2. CASE m \in 1..j
        <5>1. W(x) <= W(all[m]) /\ W(all[m]) \in Int
          BY <4>2, <2>1, <2>4, <1>4
        <5>2. QED BY <5>1, <2>5, <2>8
      <4>3. QED BY <4>1, <4>2, <2>6
    <3>3. B(opt[j+1], j + 1)
      BY <3>1, <3>2, <2>6 DEF Best, W, y
    <3>4. QED BY <3>3 DEF j
  <2>9. CASE ~ (W(y) < W(x))
    <3>1. opt[j+1] = x
      BY <2>3, <2>9
    <3>2. ASSUME NEW m \in 1..j+1 PROVE W(x) <= W(all[m])
      <4>1. CASE m = j + 1
        BY <4>1, <2>5, <2>9 DEF y
      <4>2. CASE m \in 1..j
        BY <4>2, <2>4
      <4>3. QED BY <4>1, <4>2, <2>6
    <3>3. \E m \in 1..j+1 : x = all[m]
      BY <2>4, <2>7
    <3>4. B(opt[j+1], j + 1)
      BY <3>1, <3>2, <3>3 DEF Best, W
    <3>5. QED BY <3>4 DEF j
  <2>10. QED BY <2>8, <2>9
<1>14. Nat \subseteq T
  <2> HIDE DEF T
  <2>1. QED BY <1>12, <1>13, InductionOn
<1>15. B(opt[N], N)
  <2>1. N - 1 \in Nat /\ (N - 1) + 1 = N /\ N <= N
    BY <1>3
  <2>2. N - 1 \in T
    BY <2>1, <1>14
  <2> HIDE DEF B
  <2>3. QED BY <2>1, <2>2
<1>16. QED
  BY <1>11, <1>15 DEF N, all

(* The default balancer uses every process, and no other way to use all    *)
(* has a smaller weight: the recursion of optimize_dims()                  *)
(* (partitioning.hh:57-92) misses no subdivision.                          *)
THEOREM DefaultOptimal ==
  ASSUME NEW size \in Seq(Nat \ {0}), size # <<>>, NEW P \in Nat \ {0}
  PROVE  LET t == optimize_dims(size, P)
         IN  /\ t \in Seq(Nat \ {0}) /\ Len(t) = Len(size) /\ procs(t) = P
             /\ \A u \in Seq(Nat \ {0}) : Len(u) = Len(size) /\ procs(u) = P =>
                  weight(size, P, t) <= weight(size, P, u)
<1> DEFINE all == tries(Len(size), P)
           t == optimize_dims(size, P)
<1>1. Len(size) \in Nat \ {0}
  OBVIOUS
<1>2. Subdivisions(all, Len(size), P)
  BY <1>1, TriesComplete
<1>3. Best(t, Len(all), all, size, P)
  BY OptimizeDims
<1> HIDE DEF all, t
<1>4. PICK m \in 1..Len(all) : t = all[m]
  BY <1>3 DEF Best
<1>5. t \in Seq(Nat \ {0}) /\ Len(t) = Len(size) /\ procs(t) = P
  BY <1>2, <1>4 DEF Subdivisions
<1>6. ASSUME NEW u \in Seq(Nat \ {0}), Len(u) = Len(size) /\ procs(u) = P
      PROVE  weight(size, P, t) <= weight(size, P, u)
  BY <1>2, <1>3, <1>6 DEF Subdivisions, Best
<1>7. QED BY <1>5, <1>6 DEF t

(* Whatever balancer: if there is a torus, it has a positive dimension in  *)
(* every direction of the grid and a place for every process.              *)
THEOREM TorusDims ==
  ASSUME NEW size \in Seq(Nat \ {0}), size # <<>>, NEW P \in Nat \ {0},
         NEW lb \in {"default", "power", "fixed"}, NEW fixed \in Seq(Nat \ {0}),
         lb = "fixed" => Len(fixed) = Len(size)
  PROVE  LET t == Torus(loadbalance(lb, fixed, size, P), P)
         IN  t = NoDims \/ (t \in Seq(Nat \ {0}) /\ Len(t) = Len(size) /\ procs(t) = P)
<1> DEFINE b == loadbalance(lb, fixed, size, P)
<1>1. b = NoDims \/ (b \in Seq(Nat \ {0}) /\ Len(b) = Len(size))
  <2>1. CASE lb = "default"
    <3>1. b = optimize_dims(size, P)
      BY <2>1 DEF loadbalance
    <3>2. QED BY <3>1, DefaultOptimal
  <2>2. CASE lb = "power"
    <3> DEFINE d == Len(size)
               roots == {i \in 1..P : procs([j \in 1..d |-> i]) = P}
    <3>1. b = IF roots = {} THEN NoDims ELSE [j \in 1..d |-> Min(roots)]
      BY <2>2 DEF loadbalance, power_dims
    <3>2. CASE roots # {}
      <4>1. roots \subseteq Nat
        OBVIOUS
      <4>2. \E m \in roots : \A k \in roots : m <= k
        <5> HIDE DEF roots
        <5>1. QED BY <3>2, <4>1, Smallest
      <4>3. Min(roots) \in roots
        <5> HIDE DEF roots
        <5>1. QED BY <4>2 DEF Min
      <4>4. Min(roots) \in Nat \ {0}
        BY <4>3
      <4>5. d \in Nat
        OBVIOUS
      <4> DEFINE r == Min(roots)
      <4>6. b = [j \in 1..d |-> r]
        BY <3>1, <3>2
      <4> HIDE DEF r, b, d
      <4>7. b \in Seq(Nat \ {0}) /\ Len(b) = d
        BY <4>4, <4>5, <4>6 DEF r
      <4>8. QED BY <4>7 DEF d
    <3>3. QED BY <3>1, <3>2
  <2>3. CASE lb = "fixed"
    BY <2>3 DEF loadbalance, fixed_dims
  <2>4. QED BY <2>1, <2>2, <2>3
<1> HIDE DEF b
<1>2. QED
  BY <1>1 DEF Torus, b
=============================================================================

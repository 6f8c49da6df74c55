---------------------------- MODULE Numbers_proofs ----------------------------
(***************************************************************************)
(* Facts about numbers, sequences and paths that the proofs about files,   *)
(* queues, topologies and compilers share.  The library states induction   *)
(* for an operator; stated for a set of numbers, as here, every prover can *)
(* use it.                                                                 *)
(***************************************************************************)
EXTENDS Integers, SequencesExt, FiniteSetsExt, Subsequences, Reachability,
        FiniteSetTheorems, SequenceTheorems, WellFoundedInduction, TLAPS

(* A set of naturals that is not empty has a least element.                *)
LEMMA LeastNat ==
  ASSUME NEW S \in SUBSET Nat, S # {}
  PROVE  \E m \in S : \A x \in S : m <= x
<1> DEFINE R == OpToRel(<, Nat)
<1>1. \A x, y \in Nat : x < y => <<x, y>> \in R
  BY DEF OpToRel
<1>2. IsWellFoundedOn(R, Nat)
  BY NatLessThanWellFounded
<1> HIDE DEF R
<1>3. PICK m \in S : \A y \in S : <<y, m>> \notin R
  BY <1>2, WFMin
<1>4. m \in Nat /\ \A y \in S : y \in Nat /\ ~(y < m)
  BY <1>1, <1>3
<1>5. QED
  BY <1>4

(* Induction, for a set.                                                   *)
LEMMA SetInduction ==
  ASSUME NEW S, 0 \in S, \A n \in Nat : n \in S => n + 1 \in S
  PROVE  Nat \subseteq S
<1> SUFFICES ASSUME Nat \ S # {}
             PROVE  FALSE
  OBVIOUS
<1>1. PICK m \in Nat \ S : \A x \in Nat \ S : m <= x
  BY LeastNat
<1>2. m # 0 /\ m - 1 \in Nat
  BY <1>1
<1>3. m - 1 \in S
  BY <1>1, <1>2
<1>4. m \in S
  BY <1>2, <1>3
<1>5. QED
  BY <1>4

(* The maximum of a set that has one.                                      *)
LEMMA MaxIs ==
  ASSUME NEW S \in SUBSET Int, NEW m \in S, \A x \in S : x <= m
  PROVE  Max(S) = m
<1>1. \A x \in S : m >= x
  OBVIOUS
<1>2. Max(S) \in S /\ \A x \in S : Max(S) >= x
  BY <1>1 DEF Max
<1>3. Max(S) >= m /\ Max(S) <= m /\ Max(S) \in Int /\ m \in Int
  BY <1>2
<1>4. QED
  BY <1>3

LEMMA MaxBelow ==
  ASSUME NEW n \in Nat, NEW S \in SUBSET (1 .. n), S # {}
  PROVE  Max(S) \in S /\ \A x \in S : x <= Max(S)
<1> DEFINE T == {n - x : x \in S}
<1>1. T \in SUBSET Nat /\ T # {}
  <2>1. \A x \in S : n - x \in Nat
    OBVIOUS
  <2>2. PICK x \in S : TRUE
    OBVIOUS
  <2>3. n - x \in T
    OBVIOUS
  <2>4. QED
    BY <2>1, <2>3
<1>2. PICK t \in T : \A x \in T : t <= x
  BY <1>1, LeastNat
<1>3. PICK m \in S : t = n - m
  BY <1>2
<1>4. \A x \in S : n - x \in T
  OBVIOUS
<1>5. \A x \in S : n - m <= n - x
  BY <1>2, <1>3, <1>4
<1> HIDE DEF T
<1>6. \A x \in S : x <= m
  BY <1>5
<1>7. S \in SUBSET Int
  OBVIOUS
<1>8. Max(S) = m
  BY <1>6, <1>7, MaxIs
<1>9. QED
  BY <1>6, <1>8

-------------------------------------------------------------------------------
(* How many of a set of positions come up to one of them: what numbers the *)
(* positions in their order.                                               *)

Rank(kept, i) == Cardinality({j \in kept : j <= i})

LEMMA RankType ==
  ASSUME NEW n \in Nat, NEW kept \in SUBSET (1 .. n), NEW i
  PROVE  /\ IsFiniteSet({j \in kept : j <= i}) /\ Rank(kept, i) \in Nat
         /\ IsFiniteSet(kept) /\ Cardinality(kept) \in Nat
         /\ Rank(kept, i) <= Cardinality(kept)
<1>1. IsFiniteSet(1 .. n)
  BY FS_Interval
<1>2. IsFiniteSet(kept)
  BY <1>1, FS_Subset
<1> DEFINE upto == {j \in kept : j <= i}
<1>3. upto \in SUBSET kept
  OBVIOUS
<1> HIDE DEF upto
<1>4. IsFiniteSet(upto) /\ Cardinality(upto) <= Cardinality(kept)
  BY <1>2, <1>3, FS_Subset
<1>5. Cardinality(upto) \in Nat /\ Cardinality(kept) \in Nat
  BY <1>2, <1>4, FS_CardinalityType
<1>6. QED
  BY <1>2, <1>4, <1>5 DEF upto, Rank

LEMMA RankEnds ==
  ASSUME NEW n \in Nat, NEW kept \in SUBSET (1 .. n)
  PROVE  Rank(kept, 0) = 0 /\ Rank(kept, n) = Cardinality(kept)
<1>1. \A j \in kept : ~(j <= 0) /\ j <= n
  OBVIOUS
<1>11. {j \in kept : j <= 0} = {} /\ {j \in kept : j <= n} = kept
  BY <1>1, Zenon
<1>2. QED
  BY <1>11, FS_EmptySet DEF Rank

LEMMA RankStep ==
  ASSUME NEW n \in Nat, NEW kept \in SUBSET (1 .. n), NEW i \in 1 .. n
  PROVE  Rank(kept, i) = IF i \in kept THEN Rank(kept, i - 1) + 1 ELSE Rank(kept, i - 1)
<1> DEFINE upto == {j \in kept : j <= i}
           less == {j \in kept : j <= i - 1}
<1>1. upto = IF i \in kept THEN less \cup {i} ELSE less
  <2>1. \A j \in kept : j <= i <=> j <= i - 1 \/ j = i
    OBVIOUS
  <2>2. QED
    BY <2>1
<1>2. i \notin less
  OBVIOUS
<1>3. IsFiniteSet(less)
  BY RankType
<1> HIDE DEF upto, less
<1>4. Cardinality(less \cup {i}) = Cardinality(less) + 1
  BY <1>2, <1>3, FS_AddElement
<1>5. Cardinality(upto) = IF i \in kept THEN Cardinality(less) + 1 ELSE Cardinality(less)
  BY <1>1, <1>4
<1>6. QED
  BY <1>5 DEF upto, less, Rank

LEMMA RankOrder ==
  ASSUME NEW n \in Nat, NEW kept \in SUBSET (1 .. n), NEW i \in Int, NEW m \in kept, i < m
  PROVE  Rank(kept, i) < Rank(kept, m)
<1> DEFINE upto == {j \in kept : j <= m}
           less == {j \in kept : j <= i}
<1>1. less \in SUBSET upto /\ m \in upto /\ m \notin less
  <2>1. m \in Int /\ m <= m /\ ~(m <= i)
    OBVIOUS
  <2>2. \A j \in kept : j <= i => j <= m
    OBVIOUS
  <2>3. QED
    BY <2>1, <2>2, Zenon
<1>2. IsFiniteSet(less) /\ IsFiniteSet(upto)
  BY RankType
<1> HIDE DEF upto, less
<1>3. Cardinality(less) <= Cardinality(upto) /\ Cardinality(less) # Cardinality(upto)
  BY <1>1, <1>2, FS_Subset
<1>4. Cardinality(less) \in Nat /\ Cardinality(upto) \in Nat
  BY <1>2, FS_CardinalityType
<1>5. Cardinality(less) < Cardinality(upto)
  BY <1>3, <1>4
<1>6. QED
  BY <1>5 DEF upto, less, Rank

(* Every number up to their count belongs to exactly one of the positions. *)
LEMMA RankFinds ==
  ASSUME NEW n \in Nat, NEW kept \in SUBSET (1 .. n), NEW k \in 1 .. Cardinality(kept)
  PROVE  \E i \in kept : Rank(kept, i) = k
<1>1. k \in Nat /\ k > 0 /\ k <= Cardinality(kept)
  <2>1. Cardinality(kept) \in Nat
    BY RankType
  <2>2. QED
    BY <2>1
<1> DEFINE far == {i \in 0 .. n : Rank(kept, i) >= k}
<1>2. n \in far
  BY <1>1, RankEnds
<1>3. far \in SUBSET Nat
  OBVIOUS
<1>4. PICK m \in far : \A i \in far : m <= i
  BY <1>2, <1>3, LeastNat
<1>5. m \in 0 .. n /\ Rank(kept, m) >= k
  BY <1>4
<1>6. m # 0
  BY <1>1, <1>5, RankEnds
<1>7. m \in 1 .. n /\ m - 1 \in 0 .. n
  BY <1>5, <1>6
<1>8. m - 1 \notin far
  BY <1>4, <1>7
<1>9. ~(Rank(kept, m - 1) >= k)
  BY <1>7, <1>8
<1>10. Rank(kept, m - 1) \in Nat /\ Rank(kept, m) \in Nat
  BY RankType
<1>11. Rank(kept, m) = IF m \in kept THEN Rank(kept, m - 1) + 1 ELSE Rank(kept, m - 1)
  BY <1>7, RankStep
<1> HIDE DEF far
<1>12. m \in kept
  BY <1>5, <1>9, <1>11
<1>13. Rank(kept, m) = k
  BY <1>1, <1>5, <1>9, <1>10, <1>11, <1>12
<1>14. QED
  BY <1>12, <1>13

LEMMA RankOne ==
  ASSUME NEW n \in Nat, NEW kept \in SUBSET (1 .. n), NEW i \in kept, NEW j \in kept,
         Rank(kept, i) = Rank(kept, j)
  PROVE  i = j
<1>1. i \in Int /\ j \in Int
  OBVIOUS
<1>11. Rank(kept, i) \in Nat /\ Rank(kept, j) \in Nat
  BY RankType
<1>2. ASSUME i < j PROVE FALSE
  <2>1. Rank(kept, i) < Rank(kept, j)
    BY <1>1, <1>2, RankOrder
  <2>2. QED
    BY <1>11, <2>1
<1>3. ASSUME j < i PROVE FALSE
  <2>1. Rank(kept, j) < Rank(kept, i)
    BY <1>1, <1>3, RankOrder
  <2>2. QED
    BY <1>11, <2>1
<1>4. QED
  BY <1>1, <1>2, <1>3

(* What is kept of a sequence: its elements, each at its rank.             *)
LEMMA OnlyIs ==
  ASSUME NEW S, NEW us \in Seq(S), NEW kept \in SUBSET (DOMAIN us)
  PROVE  /\ Only(us, kept) \in Seq(S) /\ Len(Only(us, kept)) = Cardinality(kept)
         /\ \A k \in DOMAIN Only(us, kept) :
              \E i \in kept : Rank(kept, i) = k /\ Only(us, kept)[k] = us[i]
         /\ \A i \in kept :
              Rank(kept, i) \in DOMAIN Only(us, kept) /\ Only(us, kept)[Rank(kept, i)] = us[i]
<1>1. Len(us) \in Nat /\ DOMAIN us = 1 .. Len(us) /\ kept \in SUBSET (1 .. Len(us))
  BY LenProperties
<1>2. Cardinality(kept) \in Nat
  BY <1>1, RankType
<1> DEFINE at(k) == CHOOSE i \in kept : Cardinality({j \in kept : j <= i}) = k
           s     == Only(us, kept)
<1>3. s = [k \in 1 .. Cardinality(kept) |-> us[at(k)]]
  BY DEF Only
<1>4. \A k \in 1 .. Cardinality(kept) : at(k) \in kept /\ Rank(kept, at(k)) = k
  <2> SUFFICES ASSUME NEW k \in 1 .. Cardinality(kept)
               PROVE  at(k) \in kept /\ Rank(kept, at(k)) = k
    OBVIOUS
  <2>1. \E i \in kept : Cardinality({j \in kept : j <= i}) = k
    BY <1>1, RankFinds DEF Rank
  <2>2. QED
    BY <2>1 DEF Rank
<1> HIDE DEF at, s
<1>5. \A k \in 1 .. Cardinality(kept) : us[at(k)] \in S
  <2>1. \A i \in kept : us[i] \in S
    BY <1>1, ElementOfSeq
  <2>2. QED
    BY <1>4, <2>1
<1>6. s \in Seq(S) /\ Len(s) = Cardinality(kept) /\ DOMAIN s = 1 .. Cardinality(kept)
  BY <1>2, <1>3, <1>5
<1>7. \A k \in DOMAIN s : \E i \in kept : Rank(kept, i) = k /\ s[k] = us[i]
  BY <1>3, <1>4, <1>6
<1>8. \A i \in kept : Rank(kept, i) \in DOMAIN s /\ s[Rank(kept, i)] = us[i]
  <2> SUFFICES ASSUME NEW i \in kept
               PROVE  Rank(kept, i) \in DOMAIN s /\ s[Rank(kept, i)] = us[i]
    OBVIOUS
  <2>1. i \in 1 .. Len(us) /\ Rank(kept, i) \in Nat /\ Rank(kept, i) <= Cardinality(kept)
    BY <1>1, RankType
  <2>2. Rank(kept, 0) = 0 /\ Rank(kept, 0) < Rank(kept, i)
    <3>1. 0 \in Int /\ 0 < i
      BY <2>1
    <3>2. QED
      BY <1>1, <3>1, RankEnds, RankOrder
  <2>3. Rank(kept, i) \in 1 .. Cardinality(kept)
    BY <1>2, <2>1, <2>2
  <2>4. at(Rank(kept, i)) = i
    BY <1>1, <1>4, <2>3, RankOne
  <2>5. QED
    BY <1>3, <1>6, <2>3, <2>4
<1>9. QED
  BY <1>6, <1>7, <1>8 DEF s

(* A set made a sequence, each element once.                               *)
LEMMA SetToSeqIs ==
  ASSUME NEW V, NEW S \in SUBSET V, IsFiniteSet(S)
  PROVE  SetToSeq(S) \in Seq(V) /\ IsInjective(SetToSeq(S)) /\ Range(SetToSeq(S)) = S
<1> DEFINE n == Cardinality(S)
           s == SetToSeq(S)
<1>1. n \in Nat /\ ExistsBijection(1 .. n, S)
  BY FS_CardinalityType
<1>2. PICK f \in Bijection(1 .. n, S) : TRUE
  BY <1>1 DEF ExistsBijection
<1>3. f \in [1 .. n -> S] /\ IsInjective(f)
  BY <1>2 DEF Bijection, Injection
<1>4. s \in [1 .. n -> S] /\ IsInjective(s)
  <2> HIDE DEF n
  <2>1. s = CHOOSE g \in [1 .. n -> S] : IsInjective(g)
    BY DEF SetToSeq, n
  <2> HIDE DEF s
  <2>2. QED
    BY <1>3, <2>1
<1>5. IsFiniteSet(1 .. n) /\ Cardinality(1 .. n) = n
  BY <1>1, FS_Interval
<1>6. s \in Injection(1 .. n, S)
  BY <1>4 DEF Injection
<1> HIDE DEF n, s
<1>7. Range(s) = S
  <2>1. Range(s) \subseteq S
    BY <1>4 DEF Range
  <2>2. s \in Surjection(1 .. n, Range(s))
    BY <1>4 DEF Range, Surjection
  <2>3. s \in Injection(1 .. n, Range(s))
    BY <1>4 DEF Range, Injection
  <2>4. IsFiniteSet(Range(s)) /\ Cardinality(Range(s)) = n
    BY <1>5, <2>2, <2>3, FS_Surjection
  <2>5. QED
    BY <2>1, <2>4, FS_Subset DEF n
<1>8. s \in Seq(V)
  BY <1>1, <1>4
<1>9. QED
  BY <1>4, <1>7, <1>8 DEF s

(* A recursion over positions, each of which looks at an earlier one, has  *)
(* a solution; in a set, so that every prover can use it.                  *)
Recurs(X, n, pred, first, step) ==
  \E f \in [1 .. n -> X] :
    \A i \in 1 .. n : f[i] = IF pred[i] = 0 THEN first[i] ELSE step[i][f[pred[i]]]

LEMMA Recursion ==
  ASSUME NEW X, NEW n \in Nat, NEW pred \in [1 .. n -> Nat], \A i \in 1 .. n : pred[i] < i,
         NEW first \in [1 .. n -> X], NEW step \in [1 .. n -> [X -> X]]
  PROVE  Recurs(X, n, pred, first, step)
<1> DEFINE Solves(f, k) ==
             \A i \in 1 .. k : f[i] = IF pred[i] = 0 THEN first[i] ELSE step[i][f[pred[i]]]
           done == {k \in Nat : k <= n => \E f \in [1 .. k -> X] : Solves(f, k)}
<1>1. 0 \in done
  <2>1. [i \in 1 .. 0 |-> first[i]] \in [1 .. 0 -> X]
    OBVIOUS
  <2>2. Solves([i \in 1 .. 0 |-> first[i]], 0)
    OBVIOUS
  <2> HIDE DEF Solves
  <2>3. QED
    BY <2>1, <2>2
<1>2. ASSUME NEW k \in Nat, k \in done
      PROVE  k + 1 \in done
  <2> SUFFICES ASSUME k + 1 <= n
               PROVE  \E f \in [1 .. k + 1 -> X] : Solves(f, k + 1)
    OBVIOUS
  <2>1. k <= n
    BY k + 1 <= n, k \in Nat, n \in Nat
  <2>11. PICK f \in [1 .. k -> X] : Solves(f, k)
    BY <1>2, <2>1
  <2> DEFINE new == IF pred[k + 1] = 0 THEN first[k + 1] ELSE step[k + 1][f[pred[k + 1]]]
             g   == [i \in 1 .. k + 1 |-> IF i = k + 1 THEN new ELSE f[i]]
  <2>2. k + 1 \in 1 .. n /\ pred[k + 1] \in Nat /\ pred[k + 1] < k + 1
    OBVIOUS
  <2>3. new \in X
    <3>1. CASE pred[k + 1] = 0
      BY <2>2, <3>1
    <3>2. CASE pred[k + 1] # 0
      <4>1. pred[k + 1] \in 1 .. k
        BY <2>2, <3>2
      <4>2. f[pred[k + 1]] \in X /\ step[k + 1] \in [X -> X]
        BY <2>2, <4>1
      <4>3. QED
        BY <3>2, <4>2
    <3>3. QED
      BY <3>1, <3>2
  <2>4. g \in [1 .. k + 1 -> X]
    <3>1. \A i \in 1 .. k + 1 : i # k + 1 => i \in 1 .. k
      OBVIOUS
    <3>2. \A i \in 1 .. k : f[i] \in X
      OBVIOUS
    <3> HIDE DEF new
    <3>3. QED
      BY <2>3, <3>1, <3>2
  <2>5. ASSUME NEW i \in 1 .. k + 1
        PROVE  g[i] = IF pred[i] = 0 THEN first[i] ELSE step[i][g[pred[i]]]
    <3>1. i \in 1 .. n /\ pred[i] \in Nat /\ pred[i] < i
      BY <2>2
    <3>2. pred[i] # 0 => pred[i] \in 1 .. k + 1 /\ pred[i] # k + 1
      BY <3>1
    <3>3. pred[i] # 0 => g[pred[i]] = f[pred[i]]
      BY <3>2
    <3>4. CASE i = k + 1
      BY <3>3, <3>4
    <3>5. CASE i # k + 1
      <4>1. i \in 1 .. k
        BY <3>5
      <4>2. f[i] = IF pred[i] = 0 THEN first[i] ELSE step[i][f[pred[i]]]
        BY <2>11, <4>1
      <4>3. g[i] = f[i]
        BY <3>5
      <4> HIDE DEF g
      <4>4. QED
        BY <3>3, <4>2, <4>3
    <3>6. QED
      BY <3>4, <3>5
  <2> HIDE DEF g
  <2>6. QED
    BY <2>4, <2>5
<1>3. n \in done
  <2> HIDE DEF done
  <2>1. QED
    BY <1>1, <1>2, SetInduction
<1>4. PICK f \in [1 .. n -> X] : Solves(f, n)
  BY <1>3
<1>5. QED
  BY <1>4 DEF Recurs

(* A loop: each round continues from the one before.                       *)
Iterates(X, n, x0, step) ==
  \E f \in [0 .. n -> X] :
    \A i \in 0 .. n : f[i] = IF i = 0 THEN x0 ELSE step[i][f[i - 1]]

LEMMA Iteration ==
  ASSUME NEW X, NEW n \in Nat, NEW x0 \in X, NEW step \in [1 .. n -> [X -> X]]
  PROVE  Iterates(X, n, x0, step)
<1> DEFINE m     == n + 1
           pred  == [i \in 1 .. m |-> i - 1]
           first == [i \in 1 .. m |-> x0]
           rest  == [i \in 1 .. m |-> IF i = 1 THEN [x \in X |-> x] ELSE step[i - 1]]
<1>1. m \in Nat /\ pred \in [1 .. m -> Nat] /\ \A i \in 1 .. m : pred[i] < i
  OBVIOUS
<1>2. first \in [1 .. m -> X]
  OBVIOUS
<1>3. rest \in [1 .. m -> [X -> X]]
  <2>1. \A i \in 1 .. m : i # 1 => i - 1 \in 1 .. n
    OBVIOUS
  <2>2. \A i \in 1 .. n : step[i] \in [X -> X]
    OBVIOUS
  <2>3. [x \in X |-> x] \in [X -> X]
    OBVIOUS
  <2>4. QED
    BY <2>1, <2>2, <2>3
<1>4. \A i \in 1 .. m : pred[i] = i - 1 /\ first[i] = x0 /\ (i # 1 => rest[i] = step[i - 1])
  OBVIOUS
<1> HIDE DEF pred, first, rest
<1>5. PICK h \in [1 .. m -> X] :
        \A i \in 1 .. m : h[i] = IF pred[i] = 0 THEN first[i] ELSE rest[i][h[pred[i]]]
  <2> HIDE DEF m
  <2>1. Recurs(X, m, pred, first, rest)
    BY <1>1, <1>2, <1>3, Recursion
  <2>2. QED
    BY <2>1 DEF Recurs
<1> DEFINE f == [i \in 0 .. n |-> h[i + 1]]
<1>6. \A i \in 0 .. n : i + 1 \in 1 .. m /\ (i # 0 => i - 1 \in 0 .. n)
  OBVIOUS
<1>7. f \in [0 .. n -> X]
  BY <1>6
<1>8. ASSUME NEW i \in 0 .. n
      PROVE  f[i] = IF i = 0 THEN x0 ELSE step[i][f[i - 1]]
  <2>1. i + 1 \in 1 .. m /\ pred[i + 1] = i /\ (i + 1) - 1 = i /\ (i - 1) + 1 = i
    BY <1>4, <1>6
  <2>2. h[i + 1] = IF i = 0 THEN first[i + 1] ELSE rest[i + 1][h[i]]
    BY <1>5, <2>1
  <2>3. f[i] = h[i + 1] /\ (i # 0 => f[i - 1] = h[i])
    BY <1>6, <2>1
  <2>4. first[i + 1] = x0 /\ (i # 0 => rest[i + 1] = step[i])
    BY <1>4, <2>1
  <2> HIDE DEF f
  <2>5. QED
    BY <2>2, <2>3, <2>4
<1> HIDE DEF f
<1>9. QED
  BY <1>7, <1>8 DEF Iterates

(* Adding the divisor changes no remainder; stated for the multiples.      *)
LEMMA ModOwn ==
  ASSUME NEW R \in Nat \ {0}, NEW m \in Nat, m % R = 0
  PROVE  (m + R) % R = 0
<1> DEFINE q == m \div R
           d == (m + R) \div R
           r == (m + R) % R
<1>1. q \in Int /\ d \in Int /\ r \in Int /\ 0 <= r /\ r < R
  OBVIOUS
<1>2. m = R * q
  OBVIOUS
<1>3. m + R = R * d + r
  OBVIOUS
<1> HIDE DEF q, d, r
<1>4. R * ((q + 1) - d) = r
  BY <1>1, <1>2, <1>3
<1>5. \A e \in Int : R * e \in Int /\ (e >= 1 => R * e >= R) /\ (e <= -1 => R * e <= -R)
  OBVIOUS
<1>6. (q + 1) - d = 0
  BY <1>1, <1>4, <1>5
<1>7. QED
  BY <1>4, <1>6 DEF r

-------------------------------------------------------------------------------
(* Reached is the least set that holds its sources and is closed under the *)
(* arcs: every round but the last adds the head of an arc or is the last   *)
(* that changes anything, and there are as many rounds as arcs.            *)

Closed(T, G) == \A a \in G : a[1] \in T => a[2] \in T

(* The rounds of the search.                                               *)
Search(S, G, f) ==
  /\ f[0] = S
  /\ \A k \in Nat : k < Cardinality(G) => f[k + 1] = Onward(f[k], G)
  /\ Reached(S, G) = f[Cardinality(G)]

LEMMA SearchExists ==
  ASSUME NEW S, NEW G, IsFiniteSet(G)
  PROVE  \E f : Search(S, G, f)
<1> DEFINE n    == Cardinality(G)
           X    == SUBSET (S \cup {a[2] : a \in G})
           step == [k \in 1 .. n |-> [T \in X |-> Onward(T, G)]]
           within[k \in 0 .. n] ==
             IF k = 0 THEN S ELSE UNION {Onward(T, G) : T \in {within[k - 1]}}
<1>1. n \in Nat
  BY FS_CardinalityType
<1>2. \A T \in X : Onward(T, G) \in X
  BY DEF Onward
<1>3. PICK f \in [0 .. n -> X] : \A k \in 0 .. n : f[k] = IF k = 0 THEN S ELSE step[k][f[k - 1]]
  <2>1. S \in X
    OBVIOUS
  <2>2. step \in [1 .. n -> [X -> X]]
    <3> HIDE DEF X, n
    <3>1. QED
      BY <1>2
  <2> HIDE DEF X, n, step
  <2>3. Iterates(X, n, S, step)
    BY <1>1, <2>1, <2>2, Iteration
  <2>4. QED
    BY <2>3 DEF Iterates
<1>4. f = [k \in 0 .. n |-> IF k = 0 THEN S ELSE UNION {Onward(T, G) : T \in {f[k - 1]}}]
  <2> HIDE DEF X, n
  <2>1. ASSUME NEW k \in 0 .. n, k # 0
        PROVE  step[k][f[k - 1]] = UNION {Onward(T, G) : T \in {f[k - 1]}}
    <3>1. k \in 1 .. n /\ k - 1 \in 0 .. n
      BY <1>1, <2>1
    <3>2. f[k - 1] \in X
      BY <3>1
    <3>3. step[k][f[k - 1]] = Onward(f[k - 1], G)
      BY <3>1, <3>2
    <3> HIDE DEF step
    <3>4. UNION {Onward(T, G) : T \in {f[k - 1]}} = Onward(f[k - 1], G)
      BY Zenon
    <3>5. QED
      BY <3>3, <3>4
  <2> HIDE DEF step
  <2>2. QED
    BY <1>3, <2>1
<1>5. within = [k \in 0 .. n |-> IF k = 0 THEN S ELSE UNION {Onward(T, G) : T \in {within[k - 1]}}]
  <2> HIDE DEF X, n, step
  <2>1. QED
    BY <1>4, Zenon DEF within
<1>6. Reached(S, G) = within[n]
  BY DEF Reached, within
<1> HIDE DEF within
<1>7. within[0] = S
  <2>1. 0 \in 0 .. n
    BY <1>1
  <2> HIDE DEF n
  <2>2. QED
    BY <1>5, <2>1
<1>8. ASSUME NEW k \in Nat, k < n
      PROVE  within[k + 1] = Onward(within[k], G)
  <2>1. k + 1 \in 0 .. n /\ k + 1 # 0 /\ (k + 1) - 1 = k
    BY <1>1, <1>8
  <2> HIDE DEF n
  <2>2. within[k + 1] = UNION {Onward(T, G) : T \in {within[k]}}
    BY <1>5, <2>1
  <2>3. UNION {Onward(T, G) : T \in {within[k]}} = Onward(within[k], G)
    BY Zenon
  <2>4. QED
    BY <2>2, <2>3
<1>9. Search(S, G, within)
  <2> HIDE DEF X, step
  <2>1. QED
    BY <1>6, <1>7, <1>8 DEF Search
<1>10. QED
  BY <1>9

LEMMA ReachedLeast ==
  ASSUME NEW S, NEW G, IsFiniteSet(G), NEW T, S \subseteq T, Closed(T, G)
  PROVE  Reached(S, G) \subseteq T
<1>1. PICK f : Search(S, G, f)
  BY SearchExists
<1> DEFINE n    == Cardinality(G)
           good == {k \in Nat : k <= n => f[k] \subseteq T}
<1>2. n \in Nat
  BY FS_CardinalityType
<1>3. 0 \in good
  BY <1>1 DEF Search
<1>4. ASSUME NEW k \in Nat, k \in good
      PROVE  k + 1 \in good
  <2> SUFFICES ASSUME k + 1 <= n
               PROVE  f[k + 1] \subseteq T
    OBVIOUS
  <2>1. k < n /\ k <= n
    BY <1>2
  <2>2. f[k] \subseteq T
    BY <1>4, <2>1
  <2>3. f[k + 1] = Onward(f[k], G)
    BY <1>1, <2>1 DEF Search
  <2>4. QED
    BY <2>2, <2>3 DEF Onward, Closed
<1>5. n \in good
  <2> HIDE DEF good, n
  <2>1. QED
    BY <1>2, <1>3, <1>4, SetInduction
<1>6. QED
  BY <1>1, <1>5 DEF Search

LEMMA ReachedFixed ==
  ASSUME NEW S, NEW G, IsFiniteSet(G)
  PROVE  S \subseteq Reached(S, G) /\ Closed(Reached(S, G), G)
<1>1. PICK f : Search(S, G, f)
  BY SearchExists
<1> DEFINE n       == Cardinality(G)
           used(k) == {a \in G : a[2] \in f[k]}
           good    == {k \in Nat : k <= n => /\ S \subseteq f[k]
                                             /\ Closed(f[k], G) \/ Cardinality(used(k)) >= k}
<1>2. n \in Nat
  BY FS_CardinalityType
<1>3. 0 \in good
  <2>1. used(0) \subseteq G
    OBVIOUS
  <2>2. IsFiniteSet(used(0))
    <3> HIDE DEF used
    <3>1. QED
      BY <2>1, FS_Subset
  <2>3. Cardinality(used(0)) \in Nat
    <3> HIDE DEF used
    <3>1. QED
      BY <2>2, FS_CardinalityType
  <2>4. f[0] = S
    BY <1>1 DEF Search
  <2>5. Cardinality(used(0)) >= 0
    <3> HIDE DEF used
    <3>1. QED
      BY <2>3
  <2> HIDE DEF used
  <2>6. QED
    BY <2>4, <2>5
<1>4. ASSUME NEW k \in Nat, k \in good
      PROVE  k + 1 \in good
  <2> SUFFICES ASSUME k + 1 <= n
               PROVE  /\ S \subseteq f[k + 1]
                      /\ Closed(f[k + 1], G) \/ Cardinality(used(k + 1)) >= k + 1
    OBVIOUS
  <2>1. k < n /\ k <= n
    BY <1>2
  <2>2. S \subseteq f[k] /\ (Closed(f[k], G) \/ Cardinality(used(k)) >= k)
    BY <1>4, <2>1
  <2>3. f[k + 1] = Onward(f[k], G)
    BY <1>1, <2>1 DEF Search
  <2>4. S \subseteq f[k + 1] /\ f[k] \subseteq f[k + 1]
    BY <2>2, <2>3 DEF Onward
  <2>5. CASE Closed(f[k], G)
    <3>1. f[k + 1] = f[k]
      BY <2>3, <2>5 DEF Onward, Closed
    <3>2. QED
      BY <2>4, <2>5, <3>1
  <2>6. CASE ~Closed(f[k], G)
    <3>1. PICK a \in G : a[1] \in f[k] /\ a[2] \notin f[k]
      BY <2>6 DEF Closed
    <3>2. a[2] \in f[k + 1]
      BY <2>3, <3>1 DEF Onward
    <3>3. /\ used(k) \subseteq used(k + 1) /\ used(k + 1) \subseteq G
          /\ a \in used(k + 1) /\ a \notin used(k)
      BY <2>4, <3>1, <3>2
    <3> HIDE DEF used
    <3>4. IsFiniteSet(used(k)) /\ IsFiniteSet(used(k + 1))
      BY <3>3, FS_Subset
    <3>5. /\ Cardinality(used(k)) <= Cardinality(used(k + 1))
          /\ Cardinality(used(k)) # Cardinality(used(k + 1))
      BY <3>3, <3>4, FS_Subset
    <3>6. Cardinality(used(k)) \in Nat /\ Cardinality(used(k + 1)) \in Nat
      BY <3>4, FS_CardinalityType
    <3>7. Cardinality(used(k + 1)) >= k + 1
      BY <2>2, <2>6, <3>5, <3>6
    <3>8. QED
      BY <2>4, <3>7
  <2>7. QED
    BY <2>5, <2>6
<1>5. n \in good
  <2> HIDE DEF good, n
  <2>1. QED
    BY <1>2, <1>3, <1>4, SetInduction
<1>6. S \subseteq f[n] /\ (Closed(f[n], G) \/ Cardinality(used(n)) >= n)
  BY <1>2, <1>5
<1>7. ASSUME Cardinality(used(n)) >= n
      PROVE  Closed(f[n], G)
  <2>1. used(n) \subseteq G
    OBVIOUS
  <2> HIDE DEF used
  <2>2. IsFiniteSet(used(n)) /\ Cardinality(used(n)) <= n /\ (Cardinality(used(n)) = n => used(n) = G)
    BY <2>1, FS_Subset
  <2>3. Cardinality(used(n)) \in Nat
    BY <2>2, FS_CardinalityType
  <2>4. used(n) = G
    BY <1>2, <1>7, <2>2, <2>3
  <2>5. QED
    BY <2>4 DEF used, Closed
<1>8. Reached(S, G) = f[n]
  BY <1>1 DEF Search
<1>9. QED
  BY <1>6, <1>7, <1>8

(* That a path leads from one node to another.                             *)
Leads(u, v, G) == v \in Reached({u}, G)

LEMMA LeadsSelf ==
  ASSUME NEW G, IsFiniteSet(G), NEW u
  PROVE  Leads(u, u, G)
BY ReachedFixed DEF Leads

LEMMA LeadsOn ==
  ASSUME NEW G, IsFiniteSet(G), NEW u, NEW a \in G, Leads(u, a[1], G)
  PROVE  Leads(u, a[2], G)
<1>1. Closed(Reached({u}, G), G)
  BY ReachedFixed
<1>2. QED
  BY <1>1 DEF Leads, Closed

LEMMA LeadsWithin ==
  ASSUME NEW G, IsFiniteSet(G), NEW u, NEW v, Leads(u, v, G),
         NEW T, u \in T, Closed(T, G)
  PROVE  v \in T
<1>1. Reached({u}, G) \subseteq T
  BY ReachedLeast
<1>2. QED
  BY <1>1 DEF Leads

LEMMA LeadsThrough ==
  ASSUME NEW G, IsFiniteSet(G), NEW u, NEW v, NEW w, Leads(u, v, G), Leads(v, w, G)
  PROVE  Leads(u, w, G)
<1>1. v \in Reached({u}, G) /\ Closed(Reached({u}, G), G)
  BY ReachedFixed DEF Leads
<1>2. w \in Reached({u}, G)
  BY <1>1, LeadsWithin
<1>3. QED
  BY <1>2 DEF Leads

LEMMA LeadsInto ==
  ASSUME NEW G, IsFiniteSet(G), NEW v, NEW a \in G, Leads(a[2], v, G)
  PROVE  Leads(a[1], v, G)
<1>1. Leads(a[1], a[2], G)
  BY LeadsSelf, LeadsOn
<1>2. QED
  BY <1>1, LeadsThrough

LEMMA ReversedFinite ==
  ASSUME NEW G, IsFiniteSet(G)
  PROVE  IsFiniteSet(Reversed(G))
<1> DEFINE f == [a \in G |-> <<a[2], a[1]>>]
<1>1. f \in Surjection(G, Reversed(G))
  BY DEF Surjection, Reversed
<1>2. QED
  BY <1>1, FS_Surjection

LEMMA ReachedFrom ==
  ASSUME NEW S, NEW G, IsFiniteSet(G), NEW v
  PROVE  v \in Reached(S, G) <=> \E s \in S : Leads(s, v, G)
<1> DEFINE T == {w \in Reached(S, G) : \E s \in S : Leads(s, w, G)}
<1>1. S \subseteq Reached(S, G) /\ Closed(Reached(S, G), G)
  BY ReachedFixed
<1>2. S \subseteq T
  BY <1>1, LeadsSelf
<1>3. Closed(T, G)
  BY <1>1, LeadsOn DEF Closed
<1>4. Reached(S, G) \subseteq T
  <2> HIDE DEF T
  <2>1. QED
    BY <1>2, <1>3, ReachedLeast
<1>5. ASSUME NEW s \in S, Leads(s, v, G)
      PROVE  v \in Reached(S, G)
  BY <1>1, <1>5, LeadsWithin
<1>6. QED
  BY <1>4, <1>5

(* Against the arcs a search finds what leads to its sources.              *)
LEMMA ReachedAgainst ==
  ASSUME NEW S, NEW G, IsFiniteSet(G), NEW v
  PROVE  v \in Reached(S, Reversed(G)) <=> \E s \in S : Leads(v, s, G)
<1> DEFINE R == Reached(S, Reversed(G))
           T == {w \in R : \E s \in S : Leads(w, s, G)}
<1>1. IsFiniteSet(Reversed(G))
  BY ReversedFinite
<1>2. S \subseteq R /\ Closed(R, Reversed(G))
  BY <1>1, ReachedFixed
<1>3. ASSUME NEW a \in G, a[2] \in R
      PROVE  a[1] \in R
  <2>1. <<a[2], a[1]>> \in Reversed(G)
    BY DEF Reversed
  <2> HIDE DEF R
  <2>2. <<a[2], a[1]>>[1] \in R => <<a[2], a[1]>>[2] \in R
    BY <1>2, <2>1 DEF Closed
  <2>3. QED
    BY <1>3, <2>2
<1>4. S \subseteq T
  BY <1>2, LeadsSelf
<1>5. Closed(T, Reversed(G))
  <2> SUFFICES ASSUME NEW b \in Reversed(G), b[1] \in T
               PROVE  b[2] \in T
    BY DEF Closed
  <2>1. PICK a \in G : b = <<a[2], a[1]>>
    BY DEF Reversed
  <2>2. b[1] = a[2] /\ b[2] = a[1]
    BY <2>1
  <2>3. PICK s \in S : Leads(a[2], s, G)
    BY <2>2
  <2>4. Leads(a[1], s, G)
    BY <2>3, LeadsInto
  <2>5. a[1] \in R
    BY <1>3, <2>2
  <2>6. QED
    BY <2>2, <2>4, <2>5
<1>6. R \subseteq T
  <2> HIDE DEF T
  <2>1. QED
    BY <1>1, <1>4, <1>5, ReachedLeast
<1>7. ASSUME NEW s \in S, Leads(v, s, G)
      PROVE  v \in R
  <2> DEFINE U == {w \in Reached({v}, G) : w \in R => v \in R}
  <2> HIDE DEF R
  <2>1. v \in U
    BY ReachedFixed
  <2>2. Closed(U, G)
    <3> SUFFICES ASSUME NEW a \in G, a[1] \in U
                 PROVE  a[2] \in U
      BY DEF Closed
    <3>1. a[2] \in Reached({v}, G)
      BY LeadsOn DEF Leads
    <3>2. QED
      BY <1>3, <3>1
  <2>3. s \in U
    <3> HIDE DEF U
    <3>1. QED
      BY <1>7, <2>1, <2>2, LeadsWithin
  <2>4. QED
    BY <1>2, <2>3
<1>8. QED
  BY <1>6, <1>7

(* Fewer arcs lead no further.                                             *)
LEMMA LeadsMore ==
  ASSUME NEW G, IsFiniteSet(G), NEW H, H \subseteq G, NEW u, NEW v, Leads(u, v, H)
  PROVE  Leads(u, v, G)
<1>1. IsFiniteSet(H)
  BY FS_Subset
<1>2. u \in Reached({u}, G) /\ Closed(Reached({u}, G), G)
  BY ReachedFixed
<1>3. Closed(Reached({u}, G), H)
  BY <1>2 DEF Closed
<1>4. v \in Reached({u}, G)
  BY <1>1, <1>2, <1>3, LeadsWithin
<1>5. QED
  BY <1>4 DEF Leads

-------------------------------------------------------------------------------
(* A recursion over trees of bounded depth has a solution: start anywhere  *)
(* and apply the equations once more than the tree is deep.                *)
Solvable(E, X, B) == \E f \in [E -> X] : \A e \in E : f[e] = B[e][f]

Local(E, X, parts, B) ==
  \A e \in E : \A f, g \in [E -> X] : (\A p \in parts[e] : f[p] = g[p]) => B[e][f] = B[e][g]

LEMMA TreeRecursion ==
  ASSUME NEW E, NEW X, NEW x0 \in X, NEW parts, NEW n \in Nat, NEW U,
         U[n] = E, \A e \in U[0] : parts[e] = {},
         \A k \in 1 .. n : \A e \in U[k] : parts[e] \subseteq U[k - 1],
         \A k \in 0 .. n : U[k] \subseteq E,
         NEW B \in [E -> [[E -> X] -> X]], Local(E, X, parts, B)
  PROVE  Solvable(E, X, B)
<1> DEFINE Y    == [E -> X]
           m    == n + 2
           step == [i \in 1 .. m |-> [f \in Y |-> [e \in E |-> B[e][f]]]]
           F0   == [e \in E |-> x0]
<1>1. F0 \in Y
  OBVIOUS
<1>2. \A f \in Y : [e \in E |-> B[e][f]] \in Y
  OBVIOUS
<1>3. step \in [1 .. m -> [Y -> Y]]
  <2> HIDE DEF Y, m
  <2>1. QED
    BY <1>2
<1>4. PICK F \in [0 .. m -> Y] : \A i \in 0 .. m : F[i] = IF i = 0 THEN F0 ELSE step[i][F[i - 1]]
  <2> HIDE DEF Y, step, F0
  <2>1. m \in Nat
    OBVIOUS
  <2> HIDE DEF m
  <2>2. Iterates(Y, m, F0, step)
    BY <1>1, <1>3, <2>1, Iteration
  <2>3. QED
    BY <2>2 DEF Iterates
<1>5. ASSUME NEW i \in 0 .. n + 1, NEW e \in E
      PROVE  F[i + 1][e] = B[e][F[i]]
  <2>1. i + 1 \in 1 .. m /\ i + 1 \in 0 .. m /\ i + 1 # 0 /\ (i + 1) - 1 = i /\ i \in 0 .. m
    OBVIOUS
  <2> HIDE DEF m, F0, step
  <2>2. F[i] \in Y
    BY <1>4, <2>1
  <2>3. F[i + 1] = step[i + 1][F[i]]
    BY <1>4, <2>1
  <2>4. step[i + 1][F[i]] = [d \in E |-> B[d][F[i]]]
    BY <2>1, <2>2 DEF step
  <2>5. QED
    BY <2>3, <2>4
<1> HIDE DEF step, F0
<1> DEFINE good == {k \in Nat : k <= n => \A e \in U[k] : F[k + 2][e] = F[k + 1][e]}
<1>6. 0 \in good
  <2> SUFFICES ASSUME NEW e \in U[0]
               PROVE  F[2][e] = F[1][e]
    OBVIOUS
  <2>1. 0 \in 0 .. n + 1 /\ 1 \in 0 .. n + 1 /\ 0 \in 0 .. m /\ 1 \in 0 .. m /\ 0 \in 0 .. n
    OBVIOUS
  <2>2. e \in E /\ parts[e] = {}
    BY <2>1
  <2>3. F[0] \in Y /\ F[1] \in Y
    BY <2>1
  <2>31. \A p \in parts[e] : F[1][p] = F[0][p]
    BY <2>2
  <2> HIDE DEF Y
  <2>32. \A f, g \in [E -> X] : (\A p \in parts[e] : f[p] = g[p]) => B[e][f] = B[e][g]
    BY <2>2 DEF Local
  <2> DEFINE f0 == F[0]
             f1 == F[1]
  <2>33. f0 \in [E -> X] /\ f1 \in [E -> X] /\ \A p \in parts[e] : f1[p] = f0[p]
    BY <2>3, <2>31 DEF Y
  <2> HIDE DEF f0, f1
  <2>34. B[e][f1] = B[e][f0]
    BY <2>32, <2>33
  <2>4. B[e][F[1]] = B[e][F[0]]
    BY <2>34 DEF f0, f1
  <2>5. F[0 + 1][e] = B[e][F[0]] /\ F[1 + 1][e] = B[e][F[1]]
    BY <1>5, <2>1, <2>2
  <2>6. QED
    BY <2>4, <2>5
<1>7. ASSUME NEW k \in Nat, k \in good
      PROVE  k + 1 \in good
  <2> SUFFICES ASSUME k + 1 <= n, NEW e \in U[k + 1]
               PROVE  F[(k + 1) + 2][e] = F[(k + 1) + 1][e]
    OBVIOUS
  <2>1. /\ k <= n /\ k + 1 \in 1 .. n /\ k + 1 \in 0 .. n /\ (k + 1) - 1 = k
        /\ k + 1 \in 0 .. n + 1 /\ k + 2 \in 0 .. n + 1 /\ k + 1 \in 0 .. m /\ k + 2 \in 0 .. m
        /\ (k + 1) + 1 = k + 2 /\ (k + 2) + 1 = (k + 1) + 2
    BY k + 1 <= n
  <2>2. e \in E /\ parts[e] \subseteq U[k]
    BY <2>1
  <2>3. \A p \in U[k] : F[k + 2][p] = F[k + 1][p]
    BY <1>7, <2>1
  <2>4. F[k + 1] \in Y /\ F[k + 2] \in Y
    BY <2>1
  <2>41. \A p \in parts[e] : F[k + 2][p] = F[k + 1][p]
    BY <2>2, <2>3
  <2> HIDE DEF Y
  <2>42. \A f, g \in [E -> X] : (\A p \in parts[e] : f[p] = g[p]) => B[e][f] = B[e][g]
    BY <2>2 DEF Local
  <2> DEFINE f0 == F[k + 1]
             f1 == F[k + 2]
  <2>43. f0 \in [E -> X] /\ f1 \in [E -> X] /\ \A p \in parts[e] : f1[p] = f0[p]
    BY <2>4, <2>41 DEF Y
  <2> HIDE DEF f0, f1
  <2>44. B[e][f1] = B[e][f0]
    BY <2>42, <2>43
  <2>5. B[e][F[k + 2]] = B[e][F[k + 1]]
    BY <2>44 DEF f0, f1
  <2>6. F[(k + 1) + 1][e] = B[e][F[k + 1]] /\ F[(k + 2) + 1][e] = B[e][F[k + 2]]
    BY <1>5, <2>1, <2>2
  <2>7. QED
    BY <2>1, <2>5, <2>6
<1>8. n \in good
  <2> HIDE DEF good
  <2>1. QED
    BY <1>6, <1>7, SetInduction
<1>9. \A e \in E : F[n + 2][e] = F[n + 1][e]
  BY <1>8
<1>10. n + 1 \in 0 .. m /\ n + 1 \in 0 .. n + 1 /\ (n + 1) + 1 = n + 2
  OBVIOUS
<1>11. F[n + 1] \in Y
  BY <1>10
<1>12. \A e \in E : F[n + 1][e] = B[e][F[n + 1]]
  BY <1>5, <1>9, <1>10
<1>13. QED
  BY <1>11, <1>12 DEF Solvable

===============================================================================

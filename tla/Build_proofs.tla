------------------------------ MODULE Build_proofs ------------------------------
(***************************************************************************)
(* Theorems about Build, for every value of its constants: what the        *)
(* compilers make of an expression, whatever it is, and that a build that  *)
(* succeeds leaves files that belong together.                             *)
(***************************************************************************)
EXTENDS Build, Numbers_proofs

-------------------------------------------------------------------------------
(* Expressions are trees of bounded depth.                                 *)

(* The levels of Expr, by depth.                                           *)
Levels(U) ==
  /\ U = [k \in 0 .. MaxNesting |-> Formed(IF k = 0 THEN {} ELSE U[k - 1])]
  /\ Expr = U[MaxNesting]

LEMMA FormedIs ==
  ASSUME NEW S, NEW e \in Formed(S)
  PROVE  \/ e.form = "name" /\ e.name \in STRING /\ e = Name(e.name)
         \/ e.form \in {"seq", "choice", "par"} /\ e.items \in Seq(S)
         \/ e.form = "star" /\ e.body \in S /\ e.max_unroll \in Nat
BY DEF Formed, Name

LEMMA FormedParts ==
  ASSUME NEW S, NEW e \in Formed(S)
  PROVE  Parts(e) \subseteq S
<1>1. CASE e.form = "name"
  BY <1>1 DEF Parts
<1>2. CASE e.form \in {"seq", "choice", "par"} /\ e.items \in Seq(S)
  BY <1>2 DEF Parts, Range
<1>3. CASE e.form = "star" /\ e.body \in S
  BY <1>3 DEF Parts
<1>4. QED
  BY <1>1, <1>2, <1>3, FormedIs

LEMMA FormedMore ==
  ASSUME NEW S, NEW T, S \subseteq T
  PROVE  Formed(S) \subseteq Formed(T)
<1>1. Seq(S) \subseteq Seq(T)
  OBVIOUS
<1>2. QED
  BY <1>1 DEF Formed

LEMMA LevelsExist == \E U : Levels(U)
<1> DEFINE Solves(f, n) == f = [k \in 0 .. n |-> Formed(IF k = 0 THEN {} ELSE f[k - 1])]
           done == {n \in Nat : \E f : Solves(f, n)}
<1>1. 0 \in done
  <2> DEFINE f == [k \in 0 .. 0 |-> Formed({})]
  <2>1. \A k \in 0 .. 0 : k = 0
    OBVIOUS
  <2>2. Solves(f, 0)
    BY <2>1
  <2> HIDE DEF Solves, f
  <2>3. QED
    BY <2>2
<1>2. ASSUME NEW n \in Nat, n \in done
      PROVE  n + 1 \in done
  <2>1. PICK f : Solves(f, n)
    BY <1>2
  <2> DEFINE g == [k \in 0 .. n + 1 |-> IF k = n + 1 THEN Formed(f[n]) ELSE f[k]]
  <2>2. \A k \in 0 .. n + 1 : g[k] = Formed(IF k = 0 THEN {} ELSE g[k - 1])
    <3> SUFFICES ASSUME NEW k \in 0 .. n + 1
                 PROVE  g[k] = Formed(IF k = 0 THEN {} ELSE g[k - 1])
      OBVIOUS
    <3>1. CASE k = n + 1
      <4>1. k # 0 /\ k - 1 \in 0 .. n + 1 /\ k - 1 = n /\ n # n + 1
        BY <3>1
      <4>2. g[k - 1] = f[n]
        BY <4>1
      <4>3. QED
        BY <3>1, <4>1, <4>2
    <3>2. CASE k # n + 1
      <4>1. k \in 0 .. n /\ (k # 0 => k - 1 \in 0 .. n /\ k - 1 \in 0 .. n + 1 /\ k - 1 # n + 1)
        BY <3>2
      <4>2. f[k] = Formed(IF k = 0 THEN {} ELSE f[k - 1])
        BY <2>1, <4>1
      <4>3. g[k] = f[k] /\ (k # 0 => g[k - 1] = f[k - 1])
        BY <3>2, <4>1
      <4> HIDE DEF g
      <4>4. CASE k = 0
        BY <4>2, <4>3, <4>4
      <4>5. CASE k # 0
        BY <4>2, <4>3, <4>5
      <4>6. QED
        BY <4>4, <4>5
    <3>3. QED
      BY <3>1, <3>2
  <2>3. g = [k \in 0 .. n + 1 |-> g[k]]
    OBVIOUS
  <2> HIDE DEF g
  <2>4. Solves(g, n + 1)
    BY <2>2, <2>3
  <2> HIDE DEF Solves
  <2>5. QED
    BY <2>4
<1>3. MaxNesting \in done
  <2> HIDE DEF done
  <2>1. Nat \subseteq done
    BY <1>1, <1>2, SetInduction
  <2>2. QED
    BY <2>1, NestingAssumption
<1> DEFINE within[k \in 0 .. MaxNesting] == Formed(IF k = 0 THEN {} ELSE within[k - 1])
<1>4. within = [k \in 0 .. MaxNesting |-> Formed(IF k = 0 THEN {} ELSE within[k - 1])]
  <2>1. \E f : f = [k \in 0 .. MaxNesting |-> Formed(IF k = 0 THEN {} ELSE f[k - 1])]
    BY <1>3
  <2>2. QED
    BY <2>1, Zenon DEF within
<1>5. Expr = within[MaxNesting]
  BY DEF Expr, within
<1> HIDE DEF within
<1>6. QED
  BY <1>4, <1>5 DEF Levels

LEMMA LevelsAre ==
  ASSUME NEW U, Levels(U)
  PROVE  /\ U[0] = Formed({})
         /\ \A k \in 1 .. MaxNesting : U[k] = Formed(U[k - 1])
         /\ \A k \in 0 .. MaxNesting : U[k] \subseteq Expr
         /\ U[MaxNesting] = Expr
<1>1. MaxNesting \in Nat
  BY NestingAssumption
<1>2. U[0] = Formed({})
  <2>1. 0 \in 0 .. MaxNesting
    BY <1>1
  <2>2. QED
    BY <2>1 DEF Levels
<1>3. ASSUME NEW k \in 1 .. MaxNesting
      PROVE  U[k] = Formed(U[k - 1])
  <2>1. k \in 0 .. MaxNesting /\ k # 0
    BY <1>1
  <2>2. QED
    BY <2>1 DEF Levels
<1> DEFINE good == {n \in Nat : n < MaxNesting => U[n] \subseteq U[n + 1]}
<1>4. 0 \in good
  <2> SUFFICES ASSUME 0 < MaxNesting
               PROVE  U[0] \subseteq U[1]
    OBVIOUS
  <2>1. 1 \in 1 .. MaxNesting /\ 1 - 1 = 0
    BY <1>1
  <2>2. U[1] = Formed(U[0])
    BY <1>3, <2>1
  <2>3. Formed({}) \subseteq Formed(U[0])
    BY FormedMore
  <2>4. QED
    BY <1>2, <2>2, <2>3
<1>5. ASSUME NEW n \in Nat, n \in good
      PROVE  n + 1 \in good
  <2> SUFFICES ASSUME n + 1 < MaxNesting
               PROVE  U[n + 1] \subseteq U[(n + 1) + 1]
    OBVIOUS
  <2>1. /\ n + 1 \in 1 .. MaxNesting /\ (n + 1) - 1 = n
        /\ (n + 1) + 1 \in 1 .. MaxNesting /\ ((n + 1) + 1) - 1 = n + 1 /\ n < MaxNesting
    BY <1>1, n + 1 < MaxNesting
  <2>2. U[n + 1] = Formed(U[n]) /\ U[(n + 1) + 1] = Formed(U[n + 1])
    BY <1>3, <2>1
  <2>3. U[n] \subseteq U[n + 1]
    BY <1>5, <2>1
  <2>4. QED
    BY <2>2, <2>3, FormedMore
<1>6. Nat \subseteq good
  <2> HIDE DEF good
  <2>1. QED
    BY <1>4, <1>5, SetInduction
<1> DEFINE below == {d \in Nat : d <= MaxNesting => U[MaxNesting - d] \subseteq Expr}
<1>7. 0 \in below
  <2>1. MaxNesting - 0 = MaxNesting
    BY <1>1
  <2>2. QED
    BY <2>1 DEF Levels
<1>8. ASSUME NEW d \in Nat, d \in below
      PROVE  d + 1 \in below
  <2> SUFFICES ASSUME d + 1 <= MaxNesting
               PROVE  U[MaxNesting - (d + 1)] \subseteq Expr
    OBVIOUS
  <2> DEFINE n == MaxNesting - (d + 1)
  <2>1. n \in Nat /\ n < MaxNesting /\ n + 1 = MaxNesting - d /\ d <= MaxNesting
    BY <1>1, d + 1 <= MaxNesting
  <2>2. U[n + 1] \subseteq Expr
    BY <1>8, <2>1
  <2> HIDE DEF n
  <2>3. U[n] \subseteq U[n + 1]
    BY <1>6, <2>1
  <2>4. QED
    BY <2>2, <2>3 DEF n
<1>9. Nat \subseteq below
  <2> HIDE DEF below
  <2>1. QED
    BY <1>7, <1>8, SetInduction
<1>10. ASSUME NEW k \in 0 .. MaxNesting
       PROVE  U[k] \subseteq Expr
  <2>1. MaxNesting - k \in Nat /\ MaxNesting - k <= MaxNesting /\ MaxNesting - (MaxNesting - k) = k
    BY <1>1
  <2>2. MaxNesting - k \in below
    BY <1>9, <2>1
  <2>3. QED
    BY <2>1, <2>2
<1>11. U[MaxNesting] = Expr
  BY DEF Levels
<1>12. QED
  BY <1>2, <1>3, <1>10, <1>11

(* Parts of an expression are expressions.                                 *)
LEMMA ExprFormed == Expr \subseteq Formed(Expr)
<1>1. PICK U : Levels(U)
  BY LevelsExist
<1>2. MaxNesting \in Nat
  BY NestingAssumption
<1>3. CASE MaxNesting = 0
  <2>1. Expr = Formed({})
    BY <1>1, <1>3, LevelsAre
  <2>2. Formed({}) \subseteq Formed(Expr)
    BY FormedMore
  <2>3. QED
    BY <2>1, <2>2
<1>4. CASE MaxNesting # 0
  <2>1. MaxNesting \in 1 .. MaxNesting /\ MaxNesting - 1 \in 0 .. MaxNesting
    BY <1>2, <1>4
  <2>2. Expr = Formed(U[MaxNesting - 1]) /\ U[MaxNesting - 1] \subseteq Expr
    BY <1>1, <2>1, LevelsAre
  <2>3. QED
    BY <2>2, FormedMore
<1>5. QED
  BY <1>3, <1>4

LEMMA ExprIs ==
  ASSUME NEW e \in Expr
  PROVE  /\ \/ e.form = "name" /\ e.name \in STRING /\ e = Name(e.name)
            \/ e.form \in {"seq", "choice", "par"} /\ e.items \in Seq(Expr)
            \/ e.form = "star" /\ e.body \in Expr /\ e.max_unroll \in Nat
         /\ Parts(e) \subseteq Expr
BY ExprFormed, FormedIs, FormedParts

(* What the parts of an expression pass on to it all expressions have.     *)
LEMMA TreeInduction ==
  ASSUME NEW T, \A e \in Expr : Parts(e) \subseteq T => e \in T
  PROVE  Expr \subseteq T
<1>1. PICK U : Levels(U)
  BY LevelsExist
<1>2. MaxNesting \in Nat
  BY NestingAssumption
<1> DEFINE good == {k \in Nat : k <= MaxNesting => U[k] \subseteq T}
<1>3. 0 \in good
  <2> SUFFICES ASSUME NEW e \in U[0]
               PROVE  e \in T
    OBVIOUS
  <2>1. 0 \in 0 .. MaxNesting
    BY <1>2
  <2>2. e \in Formed({}) /\ e \in Expr
    BY <1>1, <2>1, LevelsAre
  <2>3. Parts(e) \subseteq {}
    BY <2>2, FormedParts
  <2>4. QED
    BY <2>2, <2>3
<1>4. ASSUME NEW k \in Nat, k \in good
      PROVE  k + 1 \in good
  <2> SUFFICES ASSUME k + 1 <= MaxNesting, NEW e \in U[k + 1]
               PROVE  e \in T
    OBVIOUS
  <2>1. k + 1 \in 1 .. MaxNesting /\ k + 1 \in 0 .. MaxNesting /\ (k + 1) - 1 = k /\ k <= MaxNesting
    BY <1>2, k + 1 <= MaxNesting
  <2>2. U[k + 1] = Formed(U[k]) /\ e \in Expr
    BY <1>1, <2>1, LevelsAre
  <2>3. Parts(e) \subseteq U[k]
    BY <2>2, FormedParts
  <2>4. U[k] \subseteq T
    BY <1>4, <2>1
  <2>5. QED
    BY <2>2, <2>3, <2>4
<1>5. MaxNesting \in good
  <2> HIDE DEF good
  <2>1. QED
    BY <1>2, <1>3, <1>4, SetInduction
<1>6. U[MaxNesting] \subseteq T
  BY <1>2, <1>5
<1>7. QED
  BY <1>1, <1>6, LevelsAre

(* A function of expressions defined by what it is on their parts.         *)
LEMMA ExprRecursion ==
  ASSUME NEW X, NEW x0 \in X, NEW B \in [Expr -> [[Expr -> X] -> X]],
         Local(Expr, X, [e \in Expr |-> Parts(e)], B)
  PROVE  Solvable(Expr, X, B)
<1>1. PICK U : Levels(U)
  BY LevelsExist
<1>2. MaxNesting \in Nat
  BY NestingAssumption
<1> DEFINE parts == [e \in Expr |-> Parts(e)]
           n     == MaxNesting
<1>3. U[n] = Expr
  BY <1>1, LevelsAre
<1>4. \A k \in 0 .. n : U[k] \subseteq Expr
  BY <1>1, LevelsAre
<1>5. \A e \in U[0] : parts[e] = {}
  <2> SUFFICES ASSUME NEW e \in U[0]
               PROVE  parts[e] = {}
    OBVIOUS
  <2>1. 0 \in 0 .. n
    BY <1>2
  <2>2. e \in Formed({}) /\ e \in Expr
    BY <1>1, <1>4, <2>1, LevelsAre
  <2>3. Parts(e) \subseteq {}
    BY <2>2, FormedParts
  <2>4. QED
    BY <2>2, <2>3
<1>6. \A k \in 1 .. n : \A e \in U[k] : parts[e] \subseteq U[k - 1]
  <2> SUFFICES ASSUME NEW k \in 1 .. n, NEW e \in U[k]
               PROVE  parts[e] \subseteq U[k - 1]
    OBVIOUS
  <2>1. k \in 0 .. n
    BY <1>2
  <2>2. e \in Formed(U[k - 1]) /\ e \in Expr
    BY <1>1, <1>4, <2>1, LevelsAre
  <2>3. Parts(e) \subseteq U[k - 1]
    BY <2>2, FormedParts
  <2>4. QED
    BY <2>2, <2>3
<1>7. Local(Expr, X, parts, B)
  OBVIOUS
<1> HIDE DEF parts, n
<1>8. n \in Nat
  BY <1>2 DEF n
<1>9. QED
  BY <1>3, <1>4, <1>5, <1>6, <1>7, <1>8, TreeRecursion

-------------------------------------------------------------------------------
(* The functions of expressions are what their equations say.              *)

LEMMA WithinIs ==
  /\ Within \in [Expr -> SUBSET Expr]
  /\ \A e \in Expr : Within[e] = {e} \cup UNION {Within[p] : p \in Parts(e)}
<1> DEFINE X == SUBSET Expr
           kids(e, f) == [p \in Parts(e) |-> f[p]]
           B == [e \in Expr |-> [f \in [Expr -> X] |-> {e} \cup UNION {kids(e, f)[p] : p \in Parts(e)}]]
<1>1. \A e \in Expr : \A f \in [Expr -> X] :
        {e} \cup UNION {kids(e, f)[p] : p \in Parts(e)} = {e} \cup UNION {f[p] : p \in Parts(e)}
  OBVIOUS
<1>2. \A e \in Expr : \A f \in [Expr -> X] : {e} \cup UNION {f[p] : p \in Parts(e)} \in X
  BY ExprIs
<1>3. B \in [Expr -> [[Expr -> X] -> X]]
  <2> HIDE DEF X, kids
  <2>1. QED
    BY <1>1, <1>2
<1>4. Local(Expr, X, [e \in Expr |-> Parts(e)], B)
  <2>1. ASSUME NEW e \in Expr, NEW f \in [Expr -> X], NEW g \in [Expr -> X],
               \A p \in Parts(e) : f[p] = g[p]
        PROVE  B[e][f] = B[e][g]
    <3>1. kids(e, f) = kids(e, g)
      BY <2>1
    <3> HIDE DEF X, kids
    <3>2. QED
      BY <3>1
  <2> HIDE DEF X, B
  <2>2. QED
    BY <2>1 DEF Local
<1>5. PICK h \in [Expr -> X] : \A e \in Expr : h[e] = B[e][h]
  <2> HIDE DEF B, X
  <2>1. {} \in X
    BY DEF X
  <2>2. Solvable(Expr, X, B)
    BY <1>3, <1>4, <2>1, ExprRecursion
  <2>3. QED
    BY <2>2 DEF Solvable
<1>6. h = [e \in Expr |-> {e} \cup UNION {h[p] : p \in Parts(e)}]
  <2> HIDE DEF X, kids
  <2>1. QED
    BY <1>1, <1>5
<1>7. Within = [e \in Expr |-> {e} \cup UNION {Within[p] : p \in Parts(e)}]
  BY <1>6, Zenon DEF Within
<1> DEFINE T == {e \in Expr : Within[e] \in X}
<1>8. \A e \in Expr : Parts(e) \subseteq T => e \in T
  <2> SUFFICES ASSUME NEW e \in Expr, Parts(e) \subseteq T
               PROVE  Within[e] \in X
    OBVIOUS
  <2>1. \A p \in Parts(e) : Within[p] \subseteq Expr
    OBVIOUS
  <2> HIDE DEF B, T
  <2>2. QED
    BY <1>7, <2>1
<1>9. Expr \subseteq T
  <2> HIDE DEF T
  <2>1. QED
    BY <1>8, TreeInduction
<1> HIDE DEF B, kids
<1>10. QED
  BY <1>7, <1>9

(* JoinedAll goes through its sets one after the other.                    *)
Joins(S, u) ==
  /\ u[0] = {<<>>}
  /\ \A k \in 1 .. Len(S) : u[k] = Joined(u[k - 1], S[k])
  /\ JoinedAll(S) = u[Len(S)]

LEMMA JoinedType ==
  ASSUME NEW V, NEW S \in SUBSET Seq(V), NEW T \in SUBSET Seq(V)
  PROVE  Joined(S, T) \in SUBSET Seq(V)
<1>1. \A s \in S, t \in T : s \o t \in Seq(V)
  BY ConcatProperties
<1>2. ASSUME NEW x \in Joined(S, T)
      PROVE  x \in Seq(V)
  <2>1. PICK s \in S, t \in T : x = s \o t
    BY DEF Joined
  <2>2. QED
    BY <1>1, <2>1
<1>3. QED
  BY <1>2

LEMMA JoinsExist ==
  ASSUME NEW V, NEW S \in Seq(SUBSET Seq(V))
  PROVE  \E u \in [0 .. Len(S) -> SUBSET Seq(V)] : Joins(S, u)
<1> DEFINE X    == SUBSET Seq(V)
           n    == Len(S)
           step == [k \in 1 .. n |-> [T \in X |-> Joined(T, S[k])]]
<1>1. n \in Nat
  OBVIOUS
<1>2. \A k \in 1 .. n : S[k] \in X
  OBVIOUS
<1>3. step \in [1 .. n -> [X -> X]]
  <2>1. \A k \in 1 .. n : \A T \in X : Joined(T, S[k]) \in X
    <3> SUFFICES ASSUME NEW k \in 1 .. n, NEW T \in X
                 PROVE  Joined(T, S[k]) \in X
      OBVIOUS
    <3>1. S[k] \in SUBSET Seq(V) /\ T \in SUBSET Seq(V)
      BY <1>2
    <3>2. QED
      BY <3>1, JoinedType
  <2> HIDE DEF X, n
  <2>2. QED
    BY <2>1
<1>4. PICK f \in [0 .. n -> X] : \A k \in 0 .. n : f[k] = IF k = 0 THEN {<<>>} ELSE step[k][f[k - 1]]
  <2>1. {<<>>} \in X
    OBVIOUS
  <2> HIDE DEF X, n, step
  <2>2. Iterates(X, n, {<<>>}, step)
    BY <1>1, <1>3, <2>1, Iteration
  <2>3. QED
    BY <2>2 DEF Iterates
<1>5. f = [k \in 0 .. n |-> IF k = 0 THEN {<<>>} ELSE Joined(f[k - 1], S[k])]
  <2>1. ASSUME NEW k \in 0 .. n, k # 0
        PROVE  step[k][f[k - 1]] = Joined(f[k - 1], S[k])
    <3>1. k \in 1 .. n /\ k - 1 \in 0 .. n
      BY <1>1, <2>1
    <3>2. f[k - 1] \in X
      BY <3>1
    <3> HIDE DEF X, n
    <3>3. QED
      BY <3>1, <3>2
  <2> HIDE DEF X, n, step
  <2>2. QED
    BY <1>4, <2>1
<1> DEFINE upto[k \in 0 .. n] == IF k = 0 THEN {<<>>} ELSE Joined(upto[k - 1], S[k])
<1>6. upto = [k \in 0 .. n |-> IF k = 0 THEN {<<>>} ELSE Joined(upto[k - 1], S[k])]
  <2> HIDE DEF X, n, step
  <2>1. QED
    BY <1>5, Zenon DEF upto
<1>7. JoinedAll(S) = upto[n]
  BY DEF JoinedAll, upto
<1> HIDE DEF upto, step
<1>8. \A k \in 0 .. n : upto[k] = IF k = 0 THEN {<<>>} ELSE Joined(upto[k - 1], S[k])
  <2> HIDE DEF n
  <2>1. QED
    BY <1>6
<1> DEFINE good == {k \in Nat : k <= n => upto[k] \in X}
<1>9. 0 \in good
  <2>1. upto[0] = {<<>>}
    BY <1>1, <1>8
  <2>2. {<<>>} \in X
    OBVIOUS
  <2> HIDE DEF n, X
  <2>3. QED
    BY <2>1, <2>2
<1>10. ASSUME NEW k \in Nat, k \in good
       PROVE  k + 1 \in good
  <2> SUFFICES ASSUME k + 1 <= n
               PROVE  upto[k + 1] \in X
    OBVIOUS
  <2>1. k + 1 \in 0 .. n /\ k + 1 \in 1 .. n /\ k + 1 # 0 /\ (k + 1) - 1 = k /\ k <= n
    BY <1>1, k + 1 <= n
  <2>2. upto[k + 1] = Joined(upto[k], S[k + 1])
    BY <1>8, <2>1
  <2>3. upto[k] \in SUBSET Seq(V) /\ S[k + 1] \in SUBSET Seq(V)
    BY <1>2, <1>10, <2>1
  <2> HIDE DEF n
  <2>4. QED
    BY <2>2, <2>3, JoinedType
<1>11. Nat \subseteq good
  <2> HIDE DEF good
  <2>1. QED
    BY <1>9, <1>10, SetInduction
<1>12. upto \in [0 .. n -> X]
  <2>1. \A k \in 0 .. n : upto[k] \in X
    BY <1>1, <1>11
  <2> HIDE DEF n, X
  <2>2. QED
    BY <1>6, <2>1
<1>13. Joins(S, upto)
  <2>1. upto[0] = {<<>>}
    BY <1>1, <1>8
  <2>2. \A k \in 1 .. n : upto[k] = Joined(upto[k - 1], S[k])
    BY <1>1, <1>8
  <2> HIDE DEF X
  <2>3. QED
    BY <1>7, <2>1, <2>2 DEF Joins
<1>14. QED
  BY <1>12, <1>13

ThreadsOf(e, f) ==
  LET parts == [i \in DOMAIN e.items |-> f[e.items[i]]]
  IN  CASE e.form = "seq"    -> JoinedAll(parts)
        [] e.form = "choice" -> UNION Range(parts)
        [] e.form = "par"    -> Interleaved(parts)
        [] e.form = "star"   -> Repeated(f[e.body], e.max_unroll)
        [] IsZero(e) -> {}
        [] IsOne(e)  -> {<<>>}
        [] OTHER     -> {<<e.name>>}

LEMMA ThreadsOfIs ==
  ASSUME NEW e, NEW f
  PROVE  LET parts == [i \in DOMAIN e.items |-> f[e.items[i]]]
         IN  /\ e.form = "seq"    => ThreadsOf(e, f) = JoinedAll(parts)
             /\ e.form = "choice" => ThreadsOf(e, f) = UNION Range(parts)
             /\ e.form = "par"    => ThreadsOf(e, f) = Interleaved(parts)
             /\ e.form = "star"   => ThreadsOf(e, f) = Repeated(f[e.body], e.max_unroll)
             /\ e.form = "name"   =>
                  /\ IsZero(e) => ThreadsOf(e, f) = {}
                  /\ IsOne(e)  => ThreadsOf(e, f) = {<<>>}
                  /\ IsNode(e) => ThreadsOf(e, f) = {<<e.name>>}
<1>1. ASSUME e.form = "name"
      PROVE  /\ IsZero(e) => ThreadsOf(e, f) = {}
             /\ IsOne(e)  => ThreadsOf(e, f) = {<<>>}
             /\ IsNode(e) => ThreadsOf(e, f) = {<<e.name>>}
  BY <1>1 DEF ThreadsOf, IsZero, IsOne, IsNode
<1>2. ASSUME e.form # "name"
      PROVE  ~IsZero(e) /\ ~IsOne(e)
  BY <1>2 DEF IsZero, IsOne
<1> DEFINE parts == [i \in DOMAIN e.items |-> f[e.items[i]]]
<1>3. ThreadsOf(e, f) =
        CASE e.form = "seq"    -> JoinedAll(parts)
          [] e.form = "choice" -> UNION Range(parts)
          [] e.form = "par"    -> Interleaved(parts)
          [] e.form = "star"   -> Repeated(f[e.body], e.max_unroll)
          [] IsZero(e) -> {}
          [] IsOne(e)  -> {<<>>}
          [] OTHER     -> {<<e.name>>}
  BY Zenon DEF ThreadsOf
<1> HIDE DEF parts
<1>4. /\ e.form = "seq"    => ThreadsOf(e, f) = JoinedAll(parts)
      /\ e.form = "choice" => ThreadsOf(e, f) = UNION Range(parts)
      /\ e.form = "par"    => ThreadsOf(e, f) = Interleaved(parts)
      /\ e.form = "star"   => ThreadsOf(e, f) = Repeated(f[e.body], e.max_unroll)
  BY <1>2, <1>3
<1>5. QED
  BY <1>1, <1>4 DEF parts

(* The parts of a combination, and what a function makes of them.          *)
LEMMA PartsAre ==
  ASSUME NEW e \in Expr
  PROVE  /\ e.form \in {"seq", "choice", "par"} =>
              /\ e.items \in Seq(Expr)
              /\ \A i \in DOMAIN e.items : e.items[i] \in Parts(e) /\ e.items[i] \in Expr
              /\ \A p \in Parts(e) : \E i \in DOMAIN e.items : p = e.items[i]
         /\ e.form = "star" => /\ e.body \in Parts(e) /\ e.body \in Expr /\ e.max_unroll \in Nat
                               /\ Parts(e) = {e.body}
         /\ e.form \notin {"seq", "choice", "par", "star"} =>
              e.form = "name" /\ e.name \in STRING /\ e = Name(e.name) /\ Parts(e) = {}
<1>1. CASE e.form \in {"seq", "choice", "par"}
  <2>1. e.items \in Seq(Expr) /\ Parts(e) = Range(e.items)
    BY <1>1, ExprIs DEF Parts
  <2>2. \A i \in DOMAIN e.items : e.items[i] \in Expr
    BY <2>1
  <2>3. QED
    BY <1>1, <2>1, <2>2 DEF Range
<1>2. CASE e.form = "star"
  BY <1>2, ExprIs DEF Parts
<1>3. CASE e.form \notin {"seq", "choice", "par", "star"}
  BY <1>3, ExprIs DEF Parts
<1>4. QED
  BY <1>1, <1>2, <1>3

LEMMA ImagesOf ==
  ASSUME NEW e \in Expr, e.form \in {"seq", "choice", "par"}, NEW X, NEW f,
         \A p \in Parts(e) : f[p] \in X
  PROVE  /\ [i \in DOMAIN e.items |-> f[e.items[i]]] \in Seq(X)
         /\ Len([i \in DOMAIN e.items |-> f[e.items[i]]]) = Len(e.items)
         /\ DOMAIN [i \in DOMAIN e.items |-> f[e.items[i]]] = DOMAIN e.items
<1>1. e.items \in Seq(Expr) /\ \A i \in DOMAIN e.items : f[e.items[i]] \in X
  BY PartsAre
<1>2. DOMAIN e.items = 1 .. Len(e.items) /\ Len(e.items) \in Nat
  BY <1>1
<1> DEFINE s == [i \in 1 .. Len(e.items) |-> f[e.items[i]]]
<1>3. s \in [1 .. Len(e.items) -> X]
  BY <1>1, <1>2
<1>4. s \in Seq(X) /\ Len(s) = Len(e.items)
  BY <1>2, <1>3
<1>5. QED
  BY <1>2, <1>4

LEMMA ThreadsOfType ==
  ASSUME NEW e \in Expr, NEW f, \A p \in Parts(e) : f[p] \in SUBSET Seq(STRING)
  PROVE  ThreadsOf(e, f) \in SUBSET Seq(STRING)
<1> DEFINE X     == SUBSET Seq(STRING)
           parts == [i \in DOMAIN e.items |-> f[e.items[i]]]
           times(k) == [i \in 1 .. k |-> f[e.body]]
<1>0. \A S \in Seq(X) : JoinedAll(S) \in X
  <2> SUFFICES ASSUME NEW S \in Seq(X)
               PROVE  JoinedAll(S) \in X
    OBVIOUS
  <2>1. PICK u \in [0 .. Len(S) -> X] : Joins(S, u)
    BY JoinsExist
  <2>2. Len(S) \in 0 .. Len(S)
    OBVIOUS
  <2>3. QED
    BY <2>1, <2>2 DEF Joins
<1>1. CASE e.form \in {"seq", "choice", "par"}
  <2>1. parts \in Seq(X)
    BY <1>1, ImagesOf
  <2>2. UNION Range(parts) \in X
    <3>1. \A i \in DOMAIN parts : parts[i] \in X
      BY <2>1
    <3> HIDE DEF parts
    <3>2. QED
      BY <3>1 DEF Range
  <2>3. Interleaved(parts) \in X
    <3> HIDE DEF parts
    <3>1. QED
      BY <2>2 DEF Interleaved
  <2>4. JoinedAll(parts) \in X
    <3> HIDE DEF parts, X
    <3>1. QED
      BY <1>0, <2>1
  <2> HIDE DEF X
  <2>5. ThreadsOf(e, f) \in {JoinedAll(parts), UNION Range(parts), Interleaved(parts)}
    BY <1>1, ThreadsOfIs
  <2> HIDE DEF parts
  <2>6. ThreadsOf(e, f) \in X
    BY <2>2, <2>3, <2>4, <2>5
  <2>7. QED
    BY <2>6 DEF X
<1>2. CASE e.form = "star"
  <2>1. \A k \in 1 .. e.max_unroll : times(k) \in Seq(X)
    <3>1. f[e.body] \in X /\ e.max_unroll \in Nat
      BY <1>2, PartsAre
    <3> HIDE DEF X
    <3>2. QED
      BY <3>1
  <2>2. ThreadsOf(e, f) = UNION {JoinedAll(times(k)) : k \in 1 .. e.max_unroll}
    BY <1>2, ThreadsOfIs DEF Repeated
  <2> HIDE DEF times
  <2>3. \A k \in 1 .. e.max_unroll : JoinedAll(times(k)) \in X
    <3> HIDE DEF X
    <3>1. QED
      BY <1>0, <2>1
  <2>4. UNION {JoinedAll(times(k)) : k \in 1 .. e.max_unroll} \subseteq Seq(STRING)
    BY <2>3
  <2>5. QED
    BY <2>2, <2>4
<1>3. CASE e.form \notin {"seq", "choice", "par", "star"}
  <2>1. e.form = "name" /\ e.name \in STRING
    BY <1>3, PartsAre
  <2>2. {} \in SUBSET Seq(STRING) /\ {<<>>} \in SUBSET Seq(STRING) /\ {<<e.name>>} \in SUBSET Seq(STRING)
    BY <2>1
  <2>3. IsZero(e) \/ IsOne(e) \/ IsNode(e)
    BY <2>1 DEF IsNode
  <2>4. QED
    BY <2>1, <2>2, <2>3, ThreadsOfIs
<1>4. QED
  BY <1>1, <1>2, <1>3

LEMMA ThreadsOfLocal ==
  ASSUME NEW e \in Expr, NEW f, NEW g, \A p \in Parts(e) : f[p] = g[p]
  PROVE  ThreadsOf(e, f) = ThreadsOf(e, g)
<1>1. CASE e.form \in {"seq", "choice", "par"}
  <2>1. [i \in DOMAIN e.items |-> f[e.items[i]]] = [i \in DOMAIN e.items |-> g[e.items[i]]]
    BY <1>1, PartsAre
  <2>2. QED
    BY <1>1, <2>1, ThreadsOfIs
<1>2. CASE e.form = "star"
  <2>1. f[e.body] = g[e.body]
    BY <1>2, PartsAre
  <2>2. QED
    BY <1>2, <2>1, ThreadsOfIs
<1>3. CASE e.form \notin {"seq", "choice", "par", "star"}
  <2>1. e.form = "name" /\ (IsZero(e) \/ IsOne(e) \/ IsNode(e))
    BY <1>3, PartsAre DEF IsNode
  <2>2. QED
    BY <2>1, ThreadsOfIs
<1>4. QED
  BY <1>1, <1>2, <1>3

LEMMA ThreadsIs ==
  /\ Threads \in [Expr -> SUBSET Seq(STRING)]
  /\ \A e \in Expr : Threads[e] = ThreadsOf(e, Threads)
<1> DEFINE X == SUBSET Seq(STRING)
           B == [e \in Expr |-> [f \in [Expr -> X] |-> ThreadsOf(e, f)]]
<1>1. B \in [Expr -> [[Expr -> X] -> X]]
  <2>1. ASSUME NEW e \in Expr, NEW f \in [Expr -> X]
        PROVE  ThreadsOf(e, f) \in X
    <3>1. \A p \in Parts(e) : f[p] \in X
      BY ExprIs
    <3>2. QED
      BY <3>1, ThreadsOfType
  <2> HIDE DEF X
  <2>2. QED
    BY <2>1
<1> HIDE DEF X
<1>2. Local(Expr, X, [e \in Expr |-> Parts(e)], B)
  <2>1. ASSUME NEW e \in Expr, NEW f \in [Expr -> X], NEW g \in [Expr -> X],
               \A p \in Parts(e) : f[p] = g[p]
        PROVE  B[e][f] = B[e][g]
    BY <2>1, ThreadsOfLocal
  <2> HIDE DEF B
  <2>2. QED
    BY <2>1 DEF Local
<1>3. PICK h \in [Expr -> X] : \A e \in Expr : h[e] = B[e][h]
  <2> HIDE DEF B
  <2>1. {} \in X
    BY DEF X
  <2>2. Solvable(Expr, X, B)
    BY <1>1, <1>2, <2>1, ExprRecursion
  <2>3. QED
    BY <2>2 DEF Solvable
<1>4. h = [e \in Expr |-> ThreadsOf(e, h)]
  BY <1>3
<1> HIDE DEF B
<1>5. Threads = [e \in Expr |-> ThreadsOf(e, Threads)]
  BY <1>4, Zenon DEF Threads, ThreadsOf
<1> DEFINE T == {e \in Expr : Threads[e] \in X}
<1>6. \A e \in Expr : Parts(e) \subseteq T => e \in T
  <2> SUFFICES ASSUME NEW e \in Expr, Parts(e) \subseteq T
               PROVE  Threads[e] \in X
    OBVIOUS
  <2>1. \A p \in Parts(e) : Threads[p] \in X
    OBVIOUS
  <2>2. ThreadsOf(e, Threads) \in X
    BY <2>1, ThreadsOfType DEF X
  <2>3. QED
    BY <1>5, <2>2
<1>7. Expr \subseteq T
  <2> HIDE DEF T
  <2>1. QED
    BY <1>6, TreeInduction
<1>8. \A e \in Expr : Threads[e] \in X
  BY <1>7
<1>9. Threads \in [Expr -> X]
  BY <1>5, <1>8
<1>10. QED
  BY <1>5, <1>9 DEF X

(* InSequence goes through its parts one after the other.                  *)
PointSet(V) ==
  [starts : SUBSET V, ends : SUBSET V, edges : SUBSET (V \X V), groups : SUBSET SUBSET V]

Follows(S, u) ==
  /\ u[0] = NoPoints
  /\ \A k \in 1 .. Len(S) : u[k] = FollowedBy(u[k - 1], S[k])
  /\ InSequence(S) = u[Len(S)]

LEMMA FollowedByType ==
  ASSUME NEW V, NEW p \in PointSet(V), NEW q \in PointSet(V)
  PROVE  FollowedBy(p, q) \in PointSet(V)
BY DEF PointSet, FollowedBy

LEMMA FollowsExist ==
  ASSUME NEW V, NEW S \in Seq(PointSet(V))
  PROVE  \E u \in [0 .. Len(S) -> PointSet(V)] : Follows(S, u)
<1> DEFINE X    == PointSet(V)
           n    == Len(S)
           step == [k \in 1 .. n |-> [T \in X |-> FollowedBy(T, S[k])]]
<1>1. n \in Nat
  OBVIOUS
<1>2. \A k \in 1 .. n : S[k] \in X
  OBVIOUS
<1>20. \A k \in 1 .. n : \A T \in X : FollowedBy(T, S[k]) \in X
  <2> SUFFICES ASSUME NEW k \in 1 .. n, NEW T \in X
               PROVE  FollowedBy(T, S[k]) \in X
    OBVIOUS
  <2>1. S[k] \in X
    BY <1>2
  <2>2. QED
    BY <2>1, FollowedByType
<1>21. NoPoints \in X
  BY DEF PointSet, NoPoints
<1> HIDE DEF X
<1>3. step \in [1 .. n -> [X -> X]]
  <2> HIDE DEF n
  <2>1. QED
    BY <1>20
<1>4. PICK f \in [0 .. n -> X] : \A k \in 0 .. n : f[k] = IF k = 0 THEN NoPoints ELSE step[k][f[k - 1]]
  <2> HIDE DEF n, step
  <2>1. Iterates(X, n, NoPoints, step)
    BY <1>1, <1>3, <1>21, Iteration
  <2>2. QED
    BY <2>1 DEF Iterates
<1>5. f = [k \in 0 .. n |-> IF k = 0 THEN NoPoints ELSE FollowedBy(f[k - 1], S[k])]
  <2>1. ASSUME NEW k \in 0 .. n, k # 0
        PROVE  step[k][f[k - 1]] = FollowedBy(f[k - 1], S[k])
    <3>1. k \in 1 .. n /\ k - 1 \in 0 .. n
      BY <1>1, <2>1
    <3>2. f[k - 1] \in X
      BY <3>1
    <3> HIDE DEF n
    <3>3. QED
      BY <3>1, <3>2
  <2> HIDE DEF n, step
  <2>2. QED
    BY <1>4, <2>1
<1> DEFINE upto[k \in 0 .. n] == IF k = 0 THEN NoPoints ELSE FollowedBy(upto[k - 1], S[k])
<1>6. upto = [k \in 0 .. n |-> IF k = 0 THEN NoPoints ELSE FollowedBy(upto[k - 1], S[k])]
  <2> HIDE DEF n, step
  <2>1. QED
    BY <1>5, Zenon DEF upto
<1>7. InSequence(S) = upto[n]
  BY DEF InSequence, upto
<1> HIDE DEF upto, step
<1>8. \A k \in 0 .. n : upto[k] = IF k = 0 THEN NoPoints ELSE FollowedBy(upto[k - 1], S[k])
  <2> HIDE DEF n
  <2>1. QED
    BY <1>6
<1> DEFINE good == {k \in Nat : k <= n => upto[k] \in X}
<1>9. 0 \in good
  <2>1. upto[0] = NoPoints
    BY <1>1, <1>8
  <2> HIDE DEF n
  <2>2. QED
    BY <1>21, <2>1
<1>10. ASSUME NEW k \in Nat, k \in good
       PROVE  k + 1 \in good
  <2> SUFFICES ASSUME k + 1 <= n
               PROVE  upto[k + 1] \in X
    OBVIOUS
  <2>1. k + 1 \in 0 .. n /\ k + 1 \in 1 .. n /\ k + 1 # 0 /\ (k + 1) - 1 = k /\ k <= n
    BY <1>1, k + 1 <= n
  <2>2. upto[k + 1] = FollowedBy(upto[k], S[k + 1])
    BY <1>8, <2>1
  <2>3. upto[k] \in X
    BY <1>10, <2>1
  <2> HIDE DEF n
  <2>4. QED
    BY <1>20, <2>1, <2>2, <2>3
<1>11. Nat \subseteq good
  <2> HIDE DEF good
  <2>1. QED
    BY <1>9, <1>10, SetInduction
<1>12. upto \in [0 .. n -> X]
  <2>1. \A k \in 0 .. n : upto[k] \in X
    BY <1>1, <1>11
  <2> HIDE DEF n
  <2>2. QED
    BY <1>6, <2>1
<1>13. Follows(S, upto)
  <2>1. upto[0] = NoPoints
    BY <1>1, <1>8
  <2>2. \A k \in 1 .. n : upto[k] = FollowedBy(upto[k - 1], S[k])
    BY <1>1, <1>8
  <2>3. QED
    BY <1>7, <2>1, <2>2 DEF Follows
<1>14. QED
  BY <1>12, <1>13 DEF X

CompiledOf(e, f) ==
  LET parts == [i \in DOMAIN e.items |-> f[e.items[i]]]
  IN  CASE e.form = "seq"    -> InSequence(parts)
        [] e.form = "choice" -> Beside(parts)
        [] e.form = "par"    -> Grouped(Beside(parts))
        [] e.form = "star"   -> InSequence([k \in 1 .. e.max_unroll |-> f[e.body]])
        [] IsNode(e)         -> PointOf(e.name)
        [] OTHER             -> NoPoints

LEMMA CompiledOfIs ==
  ASSUME NEW e, NEW f
  PROVE  LET parts == [i \in DOMAIN e.items |-> f[e.items[i]]]
         IN  /\ e.form = "seq"    => CompiledOf(e, f) = InSequence(parts)
             /\ e.form = "choice" => CompiledOf(e, f) = Beside(parts)
             /\ e.form = "par"    => CompiledOf(e, f) = Grouped(Beside(parts))
             /\ e.form = "star"   =>
                  CompiledOf(e, f) = InSequence([k \in 1 .. e.max_unroll |-> f[e.body]])
             /\ e.form = "name"   =>
                  /\ IsNode(e)  => CompiledOf(e, f) = PointOf(e.name)
                  /\ ~IsNode(e) => CompiledOf(e, f) = NoPoints
<1> DEFINE parts == [i \in DOMAIN e.items |-> f[e.items[i]]]
           times == [k \in 1 .. e.max_unroll |-> f[e.body]]
<1>1. CompiledOf(e, f) =
        CASE e.form = "seq"    -> InSequence(parts)
          [] e.form = "choice" -> Beside(parts)
          [] e.form = "par"    -> Grouped(Beside(parts))
          [] e.form = "star"   -> InSequence(times)
          [] IsNode(e)         -> PointOf(e.name)
          [] OTHER             -> NoPoints
  BY Zenon DEF CompiledOf
<1> HIDE DEF parts, times
<1>3. /\ e.form = "seq"    => CompiledOf(e, f) = InSequence(parts)
      /\ e.form = "choice" => CompiledOf(e, f) = Beside(parts)
      /\ e.form = "par"    => CompiledOf(e, f) = Grouped(Beside(parts))
      /\ e.form = "star"   => CompiledOf(e, f) = InSequence(times)
      /\ e.form = "name"   =>
           /\ IsNode(e)  => CompiledOf(e, f) = PointOf(e.name)
           /\ ~IsNode(e) => CompiledOf(e, f) = NoPoints
  <2>1. e.form # "name" => ~IsNode(e)
    BY DEF IsNode
  <2>2. QED
    BY <1>1, <2>1
<1>4. QED
  BY <1>3 DEF parts, times

LEMMA BesideType ==
  ASSUME NEW V, NEW S \in Seq(PointSet(V))
  PROVE  Beside(S) \in PointSet(V)
<1>1. \A i \in DOMAIN S : S[i] \in PointSet(V)
  OBVIOUS
<1>2. \A i \in DOMAIN S : /\ S[i].starts \subseteq V /\ S[i].ends \subseteq V
                          /\ S[i].edges \subseteq V \X V /\ S[i].groups \subseteq SUBSET V
  BY <1>1 DEF PointSet
<1>3. /\ UNION {S[i].starts : i \in DOMAIN S} \subseteq V
      /\ UNION {S[i].ends : i \in DOMAIN S} \subseteq V
      /\ UNION {S[i].edges : i \in DOMAIN S} \subseteq V \X V
      /\ UNION {S[i].groups : i \in DOMAIN S} \subseteq SUBSET V
  BY <1>2
<1>4. QED
  BY <1>3 DEF Beside, PointSet

LEMMA GroupedType ==
  ASSUME NEW V, NEW p \in PointSet(V)
  PROVE  Grouped(p) \in PointSet(V)
BY DEF Grouped, PointSet

LEMMA CompiledOfType ==
  ASSUME NEW V, NEW e \in Expr, IsNode(e) => e.name \in V,
         NEW f, \A p \in Parts(e) : f[p] \in PointSet(V)
  PROVE  CompiledOf(e, f) \in PointSet(V)
<1> DEFINE X     == PointSet(V)
           parts == [i \in DOMAIN e.items |-> f[e.items[i]]]
           times == [k \in 1 .. e.max_unroll |-> f[e.body]]
<1>0. \A S \in Seq(X) : InSequence(S) \in X
  <2> SUFFICES ASSUME NEW S \in Seq(X)
               PROVE  InSequence(S) \in X
    OBVIOUS
  <2>1. PICK u \in [0 .. Len(S) -> X] : Follows(S, u)
    BY FollowsExist
  <2>2. Len(S) \in 0 .. Len(S)
    OBVIOUS
  <2>3. QED
    BY <2>1, <2>2 DEF Follows
<1>1. CASE e.form \in {"seq", "choice", "par"}
  <2>1. parts \in Seq(X)
    BY <1>1, ImagesOf
  <2>2. CompiledOf(e, f) \in {InSequence(parts), Beside(parts), Grouped(Beside(parts))}
    BY <1>1, CompiledOfIs
  <2> HIDE DEF parts
  <2>3. Beside(parts) \in X
    BY <2>1, BesideType
  <2>4. Grouped(Beside(parts)) \in X
    BY <2>3, GroupedType
  <2> HIDE DEF X
  <2>5. InSequence(parts) \in X
    BY <1>0, <2>1
  <2>6. CompiledOf(e, f) \in X
    BY <2>2, <2>3, <2>4, <2>5
  <2>7. QED
    BY <2>6 DEF X
<1>2. CASE e.form = "star"
  <2>1. times \in Seq(X)
    <3>1. f[e.body] \in X /\ e.max_unroll \in Nat
      BY <1>2, PartsAre
    <3> HIDE DEF X
    <3>2. QED
      BY <3>1
  <2>2. CompiledOf(e, f) = InSequence(times)
    BY <1>2, CompiledOfIs
  <2> HIDE DEF times, X
  <2>3. InSequence(times) \in X
    BY <1>0, <2>1
  <2>4. QED
    BY <2>2, <2>3 DEF X
<1>3. CASE e.form \notin {"seq", "choice", "par", "star"}
  <2>1. e.form = "name"
    BY <1>3, PartsAre
  <2>2. NoPoints \in PointSet(V) /\ (IsNode(e) => PointOf(e.name) \in PointSet(V))
    BY DEF NoPoints, PointOf, PointSet
  <2>3. QED
    BY <2>1, <2>2, CompiledOfIs
<1>4. QED
  BY <1>1, <1>2, <1>3

LEMMA CompiledOfLocal ==
  ASSUME NEW e \in Expr, NEW f, NEW g, \A p \in Parts(e) : f[p] = g[p]
  PROVE  CompiledOf(e, f) = CompiledOf(e, g)
<1>1. CASE e.form \in {"seq", "choice", "par"}
  <2>1. [i \in DOMAIN e.items |-> f[e.items[i]]] = [i \in DOMAIN e.items |-> g[e.items[i]]]
    BY <1>1, PartsAre
  <2>2. QED
    BY <1>1, <2>1, CompiledOfIs
<1>2. CASE e.form = "star"
  <2>1. f[e.body] = g[e.body]
    BY <1>2, PartsAre
  <2>2. QED
    BY <1>2, <2>1, CompiledOfIs
<1>3. CASE e.form \notin {"seq", "choice", "par", "star"}
  <2>1. e.form = "name"
    BY <1>3, PartsAre
  <2>2. QED
    BY <2>1, CompiledOfIs
<1>4. QED
  BY <1>1, <1>2, <1>3

LEMMA CompiledIs ==
  /\ Compiled \in [Expr -> PointSet(STRING)]
  /\ \A e \in Expr : Compiled[e] = CompiledOf(e, Compiled)
<1> DEFINE X == PointSet(STRING)
           B == [e \in Expr |-> [f \in [Expr -> X] |-> CompiledOf(e, f)]]
<1>1. B \in [Expr -> [[Expr -> X] -> X]]
  <2>1. ASSUME NEW e \in Expr, NEW f \in [Expr -> X]
        PROVE  CompiledOf(e, f) \in X
    <3>1. \A p \in Parts(e) : f[p] \in X
      BY ExprIs
    <3>2. IsNode(e) => e.name \in STRING
      BY ExprIs DEF IsNode
    <3>3. QED
      BY <3>1, <3>2, CompiledOfType
  <2> HIDE DEF X
  <2>2. QED
    BY <2>1
<1> HIDE DEF X
<1>2. Local(Expr, X, [e \in Expr |-> Parts(e)], B)
  <2>1. ASSUME NEW e \in Expr, NEW f \in [Expr -> X], NEW g \in [Expr -> X],
               \A p \in Parts(e) : f[p] = g[p]
        PROVE  B[e][f] = B[e][g]
    BY <2>1, CompiledOfLocal
  <2> HIDE DEF B
  <2>2. QED
    BY <2>1 DEF Local
<1>3. PICK h \in [Expr -> X] : \A e \in Expr : h[e] = B[e][h]
  <2> HIDE DEF B
  <2>1. NoPoints \in X
    BY DEF X, PointSet, NoPoints
  <2>2. Solvable(Expr, X, B)
    BY <1>1, <1>2, <2>1, ExprRecursion
  <2>3. QED
    BY <2>2 DEF Solvable
<1>4. h = [e \in Expr |-> CompiledOf(e, h)]
  BY <1>3
<1> HIDE DEF B
<1>5. Compiled = [e \in Expr |-> CompiledOf(e, Compiled)]
  BY <1>4, Zenon DEF Compiled, CompiledOf
<1> DEFINE T == {e \in Expr : Compiled[e] \in X}
<1>6. \A e \in Expr : Parts(e) \subseteq T => e \in T
  <2> SUFFICES ASSUME NEW e \in Expr, Parts(e) \subseteq T
               PROVE  Compiled[e] \in X
    OBVIOUS
  <2>1. \A p \in Parts(e) : Compiled[p] \in X
    OBVIOUS
  <2>2. IsNode(e) => e.name \in STRING
    BY ExprIs DEF IsNode
  <2>3. CompiledOf(e, Compiled) \in X
    BY <2>1, <2>2, CompiledOfType DEF X
  <2>4. QED
    BY <1>5, <2>3
<1>7. Expr \subseteq T
  <2> HIDE DEF T
  <2>1. QED
    BY <1>6, TreeInduction
<1>8. \A e \in Expr : Compiled[e] \in X
  BY <1>7
<1>9. Compiled \in [Expr -> X]
  BY <1>5, <1>8
<1>10. QED
  BY <1>5, <1>9 DEF X


-------------------------------------------------------------------------------
(* The nodes of an expression.                                             *)

LEMMA WithinSelf ==
  ASSUME NEW e \in Expr
  PROVE  /\ e \in Within[e] /\ Within[e] \subseteq Expr
         /\ \A p \in Parts(e) : p \in Expr /\ Within[p] \subseteq Within[e] /\ NodesOf(p) \subseteq NodesOf(e)
         /\ \A q \in Within[e] : q = e \/ \E p \in Parts(e) : q \in Within[p]
         /\ IsNode(e) => e.name \in NodesOf(e)
<1>1. Within[e] = {e} \cup UNION {Within[p] : p \in Parts(e)} /\ Within[e] \in SUBSET Expr
  BY WithinIs
<1>2. \A p \in Parts(e) : p \in Expr
  BY ExprIs
<1>3. \A p \in Parts(e) : Within[p] \subseteq Within[e]
  BY <1>1
<1>4. \A q \in Within[e] : q = e \/ \E p \in Parts(e) : q \in Within[p]
  BY <1>1
<1>5. e \in Within[e]
  BY <1>1
<1>6. \A p \in Parts(e) : NodesOf(p) \subseteq NodesOf(e)
  BY <1>3 DEF NodesOf
<1>7. QED
  BY <1>1, <1>2, <1>3, <1>4, <1>5, <1>6 DEF NodesOf

LEMMA WithinInside ==
  ASSUME NEW e \in Expr, NEW q \in Within[e]
  PROVE  q \in Expr /\ Within[q] \subseteq Within[e] /\ NodesOf(q) \subseteq NodesOf(e)
<1> DEFINE T == {d \in Expr : \A r \in Within[d] : Within[r] \subseteq Within[d]}
<1>1. \A d \in Expr : Parts(d) \subseteq T => d \in T
  <2> SUFFICES ASSUME NEW d \in Expr, Parts(d) \subseteq T, NEW r \in Within[d]
               PROVE  Within[r] \subseteq Within[d]
    OBVIOUS
  <2>1. CASE r = d
    BY <2>1
  <2>2. CASE r # d
    <3>1. PICK p \in Parts(d) : r \in Within[p]
      BY <2>2, WithinSelf
    <3>2. Within[r] \subseteq Within[p] /\ Within[p] \subseteq Within[d]
      BY <3>1, WithinSelf
    <3>3. QED
      BY <3>2
  <2>3. QED
    BY <2>1, <2>2
<1>2. Expr \subseteq T
  <2> HIDE DEF T
  <2>1. QED
    BY <1>1, TreeInduction
<1>3. Within[q] \subseteq Within[e]
  BY <1>2
<1>4. NodesOf(q) \subseteq NodesOf(e)
  BY <1>3 DEF NodesOf
<1>5. QED
  BY <1>3, <1>4, WithinSelf

LEMMA AcceptedInside ==
  ASSUME NEW e \in Expr, NEW known, NEW effects, Accepted(e, known, effects), NEW q \in Within[e]
  PROVE  Accepted(q, known, effects)
<1>1. Within[q] \subseteq Within[e] /\ NodesOf(q) \subseteq NodesOf(e)
  BY WithinInside
<1>2. QED
  BY <1>1 DEF Accepted

LEMMA AcceptedIs ==
  ASSUME NEW e \in Expr, NEW known, NEW effects, Accepted(e, known, effects)
  PROVE  /\ \A p \in Parts(e) : Accepted(p, known, effects)
         /\ NodesOf(e) \subseteq known
         /\ e.form = "star" => e.max_unroll > 0
         /\ e.form \in {"seq", "choice", "par"} => Len(e.items) > 0
         /\ e.form = "par" => IndependentBranches(e.items, effects)
<1>1. \A p \in Parts(e) : p \in Within[e]
  BY WithinSelf
<1>2. \A p \in Parts(e) : Accepted(p, known, effects)
  BY <1>1, AcceptedInside
<1>3. e \in Within[e]
  BY WithinSelf
<1>4. /\ NodesOf(e) \subseteq known
      /\ CASE e.form = "name" -> TRUE
           [] e.form = "star" -> e.max_unroll > 0
           [] e.form = "par"  -> /\ Len(e.items) >= 2
                                 /\ NodesOf(e) \subseteq DOMAIN effects
                                 /\ IndependentBranches(e.items, effects)
           [] OTHER           -> Len(e.items) > 0
  BY <1>3, Zenon DEF Accepted
<1>5. e.form \in {"seq", "choice", "par"} => Len(e.items) \in Nat
  BY PartsAre
<1>6. QED
  BY <1>2, <1>4, <1>5

(* Compiling gives edges and groups of nodes of the expression.            *)
LEMMA CompiledWithin ==
  ASSUME NEW e \in Expr
  PROVE  Compiled[e] \in PointSet(NodesOf(e))
<1> DEFINE T == {d \in Expr : Compiled[d] \in PointSet(NodesOf(d))}
<1>1. \A d \in Expr : Parts(d) \subseteq T => d \in T
  <2> SUFFICES ASSUME NEW d \in Expr, Parts(d) \subseteq T
               PROVE  Compiled[d] \in PointSet(NodesOf(d))
    OBVIOUS
  <2>1. ASSUME NEW p \in Parts(d)
        PROVE  Compiled[p] \in PointSet(NodesOf(d))
    <3>1. NodesOf(p) \subseteq NodesOf(d) /\ Compiled[p] \in PointSet(NodesOf(p))
      BY WithinSelf
    <3>2. PointSet(NodesOf(p)) \subseteq PointSet(NodesOf(d))
      BY <3>1 DEF PointSet
    <3>3. QED
      BY <3>1, <3>2
  <2>2. IsNode(d) => d.name \in NodesOf(d)
    BY WithinSelf
  <2>3. CompiledOf(d, Compiled) \in PointSet(NodesOf(d))
    BY <2>1, <2>2, CompiledOfType
  <2>4. QED
    BY <2>3, CompiledIs
<1>2. Expr \subseteq T
  <2> HIDE DEF T
  <2>1. QED
    BY <1>1, TreeInduction
<1>3. QED
  BY <1>2

-------------------------------------------------------------------------------
(* The inductive invariant: what a build has done by the stage it is at, in *)
(* terms of its source.                                                    *)

PastFusion   == built \/ stage = "compiled"
PastOperators == PastFusion \/ stage = "fusion"
PastTopology == PastOperators \/ stage = "operators"
PastHandlers == PastTopology \/ stage = "topology"
PastCoverage == PastHandlers \/ stage = "handlers"
PastRegions  == PastCoverage \/ stage \in {"abstract", "coverage"}
Checked      == PastRegions \/ stage = "regions"
PastPrograms == Checked \/ stage = "checks"
Building     == PastPrograms \/ stage = "programs"

(* The programs before the n-th that are no patterns, and their edges.     *)
FlowsBefore(n) == {i \in 1 .. n - 1 : source.programs[i].kind # "cka_pattern"}
FlowEdges(n)   == UNION {Compiled[source.programs[i].expr].edges : i \in FlowsBefore(n)}

SourceInv ==
  /\ source \in Sources \cup Edits
  /\ stage # "idle" => ~built
  /\ Building => SourceAccepted(source) /\ NodesDistinct

ProgramsInv ==
  Building =>
    /\ at \in 1 .. Len(source.programs) + 1
    /\ \A i \in FlowsBefore(at) : Accepted(source.programs[i].expr, Nodes, EffectsMap)
    /\ transitions = Range(Given) \cup FlowEdges(at)
    /\ groups \subseteq SUBSET Nodes

PatternsInv ==
  PastPrograms => at = Len(source.programs) + 1 /\ files["patterns"] = Exprs(source)

EdgesInv == Checked => transitions \subseteq Nodes \X Nodes

FilesInv ==
  /\ PastRegions => files["regions"] = HotRegions
  /\ PastCoverage \/ stage = "coverage" => files["abstract"] = AbstractNodes
  /\ PastCoverage => files["coverage"] = Coverage(Regions)
  /\ PastHandlers => files["handlers"] = Handlers(Regions)
  /\ PastTopology => files["topology"] = [nodes |-> Nodes, transitions |-> transitions, groups |-> groups]
  /\ PastOperators => files["operators"] = Operators
  /\ PastFusion /\ Regions # <<>> => files["fusion"] = [regions |-> Range(Regions)]
  /\ built => PatternsAccepted /\ files["compiled"] = PatternEdges(files["patterns"])

BuildInv == TypeOK /\ SourceInv /\ ProgramsInv /\ PatternsInv /\ EdgesInv /\ FilesInv

LEMMA BuildInit == Init => BuildInv
<1> SUFFICES ASSUME Init
             PROVE  BuildInv
  OBVIOUS
<1>1. ~Building
  BY DEF Init, Building, PastPrograms, Checked, PastRegions, PastCoverage,
         PastHandlers, PastTopology, PastOperators,
         PastFusion
<1>2. TypeOK
  <2>1. DOMAIN files = File /\ files["topology"] = Absent
    BY DEF Init, File
  <2>2. ~Readable("topology")
    BY <2>1 DEF Readable
  <2>3. MaxBuilds \in Nat
    BY BuildAssumption
  <2>4. builds \in 0 .. MaxBuilds /\ at \in Nat /\ stage = "idle"
    BY <2>3 DEF Init
  <2>5. built \in BOOLEAN
    BY DEF Init
  <2>6. QED
    BY <2>1, <2>2, <2>4, <2>5 DEF TypeOK
<1>3. QED
  BY <1>1, <1>2 DEF Init, BuildInv, SourceInv, ProgramsInv, PatternsInv, EdgesInv, FilesInv, Building,
                    PastPrograms, Checked, PastRegions, PastCoverage, PastHandlers, PastTopology,
                    PastOperators, PastFusion

(* What depends on the source and on the transitions alone.                *)
LEMMA KeptSource ==
  ASSUME source' = source
  PROVE  /\ Nodes' = Nodes /\ Given' = Given /\ EffectsMap' = EffectsMap /\ NodesDistinct' = NodesDistinct
         /\ HotRegions' = HotRegions /\ AbstractNodes' = AbstractNodes
         /\ \A n : (FlowsBefore(n))' = FlowsBefore(n)
         /\ \A n : (FlowEdges(n))' = FlowEdges(n)
<1>1. Nodes' = Nodes /\ Given' = Given /\ NodesDistinct' = NodesDistinct
  BY DEF Nodes, Given, NodesDistinct
<1>2. EffectsMap' = EffectsMap
  BY DEF EffectsMap
<1>3. HotRegions' = HotRegions /\ AbstractNodes' = AbstractNodes
  BY <1>1 DEF HotRegions, AbstractNodes
<1>4. ASSUME NEW n
      PROVE  (FlowsBefore(n))' = FlowsBefore(n) /\ (FlowEdges(n))' = FlowEdges(n)
  BY DEF FlowsBefore, FlowEdges
<1>5. QED
  BY <1>1, <1>2, <1>3, <1>4

LEMMA KeptRegions ==
  ASSUME source' = source, transitions' = transitions
  PROVE  Regions' = Regions
<1>1. KernelEffects' = KernelEffects
  BY DEF KernelEffects
<1>2. QED
  BY <1>1 DEF Regions

LEMMA BeginKeeps == BuildInv /\ Begin => BuildInv'
<1> SUFFICES ASSUME BuildInv, Begin
             PROVE  BuildInv'
  OBVIOUS
<1> USE DEF BuildInv
<1>1. source' = source /\ files' = files /\ built' = FALSE
  BY DEF Begin
<1>2. PatternsInv' /\ EdgesInv' /\ FilesInv'
  BY <1>1 DEF Begin, PatternsInv, EdgesInv, FilesInv, PastPrograms, Checked, PastRegions, PastCoverage,
              PastHandlers, PastTopology, PastOperators, PastFusion
<1>3. SourceInv'
  <2>1. NodesDistinct' = NodesDistinct
    BY <1>1, KeptSource
  <2>2. QED
    BY <1>1, <2>1 DEF Begin, SourceInv, Building, PastPrograms, Checked, PastRegions, PastCoverage,
                      PastHandlers, PastTopology, PastOperators, PastFusion
<1>4. ProgramsInv'
  <2>1. CASE SourceAccepted(source) /\ NodesDistinct
    <3>1. at' = 1 /\ transitions' = Range(Given) /\ groups' = {}
      BY <2>1 DEF Begin
    <3>2. Given' = Given /\ (FlowsBefore(at))' = {} /\ (FlowEdges(at))' = {}
      BY <1>1, <3>1, KeptSource DEF FlowsBefore, FlowEdges
    <3>3. Len(source.programs) \in Nat
      BY SourceAssumption DEF SourceInv
    <3>4. QED
      BY <1>1, <3>1, <3>2, <3>3 DEF ProgramsInv
  <2>2. CASE ~(SourceAccepted(source) /\ NodesDistinct)
    BY <1>1, <2>2 DEF Begin, ProgramsInv, Building, PastPrograms, Checked, PastRegions, PastCoverage,
                      PastHandlers, PastTopology, PastOperators, PastFusion
  <2>3. QED
    BY <2>1, <2>2
<1>5. TypeOK'
  <2>1. stage' \in {"idle", "programs"} /\ at' \in Nat
    BY DEF Begin, TypeOK
  <2>2. groups' \subseteq SUBSET Nodes' \/ stage' = "idle"
    BY DEF Begin
  <2>3. builds' \in 0 .. MaxBuilds
    BY BuildAssumption DEF Begin, TypeOK
  <2>4. QED
    BY <1>1, <2>1, <2>2, <2>3 DEF TypeOK, Readable
<1>6. QED
  BY <1>2, <1>3, <1>4, <1>5

LEMMA ProgramKeeps == BuildInv /\ CompileProgram => BuildInv'
<1> SUFFICES ASSUME BuildInv, CompileProgram
             PROVE  BuildInv'
  OBVIOUS
<1> USE DEF BuildInv
<1> DEFINE p    == source.programs[at]
           good == HasWeight(p) /\ Accepted(p.expr, Nodes, EffectsMap)
<1>1. /\ source' = source /\ built' = built /\ builds' = builds /\ files' = files
      /\ stage = "programs" /\ at <= Len(source.programs)
  BY DEF CompileProgram, Abandon
<1>2. ~built /\ Building /\ SourceAccepted(source) /\ NodesDistinct /\ source \in Sources \cup Edits
  BY <1>1 DEF SourceInv, Building
<1>3. at \in 1 .. Len(source.programs) /\ Len(source.programs) \in Nat
  BY <1>1, <1>2, SourceAssumption DEF ProgramsInv
<1>4. p.expr \in Expr
  <2>1. source.programs \in Seq(Range(source.programs))
    BY <1>2, SourceAssumption
  <2>2. at \in DOMAIN source.programs
    BY <1>3, <2>1
  <2>3. p \in Range(source.programs)
    BY <2>2 DEF Range
  <2>4. QED
    BY <1>2, <2>3, SourceAssumption
<1>5. stage' \in {"idle", "programs"}
  BY <1>1 DEF CompileProgram, Abandon
<1>6. PatternsInv' /\ EdgesInv' /\ FilesInv'
  BY <1>1, <1>2, <1>5 DEF PatternsInv, EdgesInv, FilesInv, PastPrograms, Checked, PastRegions, PastCoverage,
                          PastHandlers, PastTopology, PastOperators, PastFusion
<1>7. SourceInv'
  BY <1>1, <1>2, KeptSource DEF SourceInv
<1>8. CASE stage' = "idle"
  <2>1. ~Building'
    BY <1>1, <1>2, <1>8 DEF Building, PastPrograms, Checked, PastRegions, PastCoverage,
                            PastHandlers, PastTopology, PastOperators, PastFusion
  <2>2. at' \in Nat
    BY <1>1, <1>3 DEF CompileProgram, Abandon
  <2>3. TypeOK'
    BY <1>1, <1>8, <2>2 DEF TypeOK, Readable
  <2>4. QED
    BY <1>6, <1>7, <2>1, <2>3 DEF ProgramsInv
<1>9. CASE stage' # "idle"
  <2>1. at' = at + 1 /\ (FlowsBefore(at))' = {i \in 1 .. at : source.programs[i].kind # "cka_pattern"}
    <3>1. at' = at + 1
      BY <1>9 DEF CompileProgram, Abandon
    <3>2. 1 .. at' - 1 = 1 .. at
      BY <1>3, <3>1
    <3>3. QED
      BY <1>1, <3>1, <3>2 DEF FlowsBefore
  <2>2. FlowsBefore(at) = {i \in 1 .. at - 1 : source.programs[i].kind # "cka_pattern"}
    BY DEF FlowsBefore
  <2>3. Nodes' = Nodes /\ EffectsMap' = EffectsMap /\ Given' = Given
    BY <1>1, KeptSource
  <2>4. CASE p.kind = "cka_pattern"
    <3>1. transitions' = transitions /\ groups' = groups
      BY <2>4, <1>9 DEF CompileProgram, Abandon
    <3>2. (FlowsBefore(at))' = FlowsBefore(at)
      BY <1>3, <2>1, <2>2, <2>4
    <3>3. (FlowEdges(at))' = FlowEdges(at)
      BY <1>1, <3>2 DEF FlowEdges
    <3>4. ProgramsInv'
      BY <1>1, <1>2, <1>3, <2>1, <2>3, <3>1, <3>2, <3>3 DEF ProgramsInv
    <3>5. TypeOK'
      BY <1>1, <1>2, <1>3, <1>5, <2>1, <2>3, <3>1 DEF TypeOK, Readable, ProgramsInv
    <3>6. QED
      BY <1>6, <1>7, <3>4, <3>5
  <2>5. CASE p.kind # "cka_pattern"
    <3>1. /\ good /\ transitions' = transitions \cup Compiled[p.expr].edges
          /\ groups' = groups \cup Compiled[p.expr].groups
      BY <2>5, <1>9 DEF CompileProgram, Abandon
    <3>2. (FlowsBefore(at))' = FlowsBefore(at) \cup {at}
      BY <1>3, <2>1, <2>2, <2>5
    <3>3. (FlowEdges(at))' = FlowEdges(at) \cup Compiled[p.expr].edges
      BY <1>1, <3>2 DEF FlowEdges
    <3>4. groups' \subseteq SUBSET Nodes
      <4>1. Compiled[p.expr].groups \subseteq SUBSET NodesOf(p.expr)
        BY <1>4, CompiledWithin DEF PointSet
      <4>2. NodesOf(p.expr) \subseteq Nodes
        BY <3>1 DEF Accepted
      <4>3. QED
        BY <1>2, <3>1, <4>1, <4>2 DEF ProgramsInv
    <3>5. \A i \in FlowsBefore(at) \cup {at} : Accepted(source.programs[i].expr, Nodes, EffectsMap)
      BY <1>2, <3>1 DEF ProgramsInv
    <3>6. ProgramsInv'
      <4>1. at' \in 1 .. Len(source'.programs) + 1
        BY <1>1, <1>3, <2>1
      <4>2. transitions' = Range(Given') \cup (FlowEdges(at))'
        BY <1>2, <2>3, <3>1, <3>3 DEF ProgramsInv
      <4>3. QED
        BY <1>1, <2>3, <3>2, <3>4, <3>5, <4>1, <4>2 DEF ProgramsInv
    <3>7. TypeOK'
      BY <1>1, <1>3, <1>5, <2>1, <2>3, <3>4 DEF TypeOK, Readable
    <3>8. QED
      BY <1>6, <1>7, <3>6, <3>7
  <2>6. QED
    BY <2>4, <2>5
<1>10. QED
  BY <1>8, <1>9

(* A step that leaves the build.                                           *)
LEMMA IdleKeeps ==
  ASSUME BuildInv, source' \in Sources \cup Edits, stage' = "idle", built' = FALSE, at' \in Nat,
         DOMAIN files' = File, files'["topology"] \in {files["topology"], Absent, Torn},
         builds' = builds
  PROVE  BuildInv'
<1> USE DEF BuildInv
<1>1. ~Building'
  BY DEF Building, PastPrograms, Checked, PastRegions, PastCoverage,
         PastHandlers, PastTopology, PastOperators, PastFusion
<1>2. SourceInv' /\ ProgramsInv' /\ PatternsInv' /\ EdgesInv' /\ FilesInv'
  BY <1>1 DEF SourceInv, ProgramsInv, PatternsInv, EdgesInv, FilesInv, Building, PastPrograms, Checked,
              PastRegions, PastCoverage, PastHandlers, PastTopology, PastOperators, PastFusion
<1>3. Readable("topology")' =>
        files'["topology"].transitions \subseteq files'["topology"].nodes \X files'["topology"].nodes
  BY DEF Readable, TypeOK
<1>4. TypeOK'
  BY <1>3 DEF TypeOK
<1>5. QED
  BY <1>2, <1>4

LEMMA AbandonKeeps ==
  ASSUME BuildInv, Building, ~built, Abandon, UNCHANGED <<source, built, builds>>
  PROVE  BuildInv'
<1>1. /\ source' = source /\ built' = FALSE /\ files' = files /\ builds' = builds
      /\ at' = at /\ stage' = "idle"
  BY DEF Abandon
<1>2. at' \in Nat /\ DOMAIN files' = File /\ source' \in Sources \cup Edits
  BY <1>1 DEF BuildInv, TypeOK, SourceInv
<1>3. QED
  BY <1>1, <1>2, IdleKeeps

(* What a step of a build that goes on keeps.                              *)
LEMMA OnwardKeeps ==
  ASSUME BuildInv, Building, Building', built' = FALSE \/ stage' = "idle", built' \in BOOLEAN,
         UNCHANGED <<source, at, transitions, groups, builds>>
  PROVE  /\ SourceInv' /\ ProgramsInv'
         /\ Nodes' = Nodes /\ Regions' = Regions /\ HotRegions' = HotRegions /\ AbstractNodes' = AbstractNodes
         /\ at \in Nat /\ groups' \subseteq SUBSET Nodes'
<1>1. Nodes' = Nodes /\ Regions' = Regions /\ HotRegions' = HotRegions /\ AbstractNodes' = AbstractNodes
      /\ EffectsMap' = EffectsMap
      /\ Given' = Given /\ NodesDistinct' = NodesDistinct
      /\ (FlowsBefore(at))' = FlowsBefore(at) /\ (FlowEdges(at))' = FlowEdges(at)
  BY KeptSource, KeptRegions
<1>2. SourceInv'
  BY <1>1 DEF BuildInv, SourceInv
<1>3. ProgramsInv'
  BY <1>1 DEF BuildInv, ProgramsInv
<1>4. QED
  BY <1>1, <1>2, <1>3 DEF BuildInv, TypeOK, ProgramsInv

LEMMA WriteIs ==
  ASSUME DOMAIN files = File, NEW file \in File, NEW content, NEW next, Write(file, content, next)
  PROVE  /\ DOMAIN files' = File /\ files'[file] = content
         /\ \A f \in File \ {file} : files'[f] = files[f]
         /\ stage' = next /\ UNCHANGED <<source, at, transitions, groups, builds>>
BY DEF Write

LEMMA PatternsKeep == BuildInv /\ EmitPatterns => BuildInv'
<1> SUFFICES ASSUME BuildInv, EmitPatterns
             PROVE  BuildInv'
  OBVIOUS
<1>1. /\ DOMAIN files' = File /\ files'["patterns"] = Exprs(source)
      /\ \A f \in File \ {"patterns"} : files'[f] = files[f]
      /\ stage' = "checks" /\ UNCHANGED <<source, at, transitions, groups, builds>> /\ built' = built
  <2>1. "patterns" \in File /\ DOMAIN files = File
    BY DEF File, BuildInv, TypeOK
  <2>2. QED
    BY <2>1, WriteIs DEF EmitPatterns
<1>2. stage = "programs" /\ built' = FALSE /\ at > Len(source.programs)
  BY <1>1 DEF EmitPatterns, BuildInv, SourceInv
<1>3. Building /\ Building'
  BY <1>1, <1>2 DEF Building, PastPrograms
<1>4. SourceInv' /\ ProgramsInv' /\ Nodes' = Nodes /\ at \in Nat /\ groups' \subseteq SUBSET Nodes'
  BY <1>1, <1>2, <1>3, OnwardKeeps
<1>5. PatternsInv'
  <2>1. at \in 1 .. Len(source.programs) + 1 /\ source.programs \in Seq(Range(source.programs))
    BY <1>3, SourceAssumption DEF BuildInv, ProgramsInv, SourceInv
  <2>2. at = Len(source.programs) + 1
    BY <1>2, <2>1
  <2>3. QED
    BY <1>1, <2>2 DEF PatternsInv
<1>6. EdgesInv' /\ FilesInv'
  BY <1>1, <1>2 DEF EdgesInv, FilesInv, Checked, PastRegions, PastCoverage,
                    PastHandlers, PastTopology, PastOperators,
                    PastFusion
<1>7. TypeOK'
  BY <1>1, <1>2, <1>4 DEF BuildInv, TypeOK, Readable, File
<1>8. QED
  BY <1>4, <1>5, <1>6, <1>7 DEF BuildInv

LEMMA ChecksKeep == BuildInv /\ CheckTransitions => BuildInv'
<1> SUFFICES ASSUME BuildInv, CheckTransitions
             PROVE  BuildInv'
  OBVIOUS
<1>1. stage = "checks" /\ source' = source /\ built' = FALSE /\ builds' = builds /\ built = FALSE
  BY DEF CheckTransitions, BuildInv, SourceInv, TypeOK
<1>2. Building
  BY <1>1 DEF Building, PastPrograms
<1>3. CASE Abandon
  BY <1>1, <1>2, <1>3, AbandonKeeps
<1>4. CASE ~Abandon
  <2>1. /\ transitions \subseteq Nodes \X Nodes
        /\ stage' = "regions" /\ UNCHANGED <<at, transitions, groups, files>>
    BY <1>4 DEF CheckTransitions
  <2>2. Building'
    BY <2>1 DEF Building, PastPrograms, Checked
  <2>3. SourceInv' /\ ProgramsInv' /\ Nodes' = Nodes /\ at \in Nat /\ groups' \subseteq SUBSET Nodes'
    BY <1>1, <1>2, <2>1, <2>2, OnwardKeeps
  <2>4. PatternsInv'
    BY <1>1, <2>1 DEF BuildInv, PatternsInv, PastPrograms, Checked
  <2>5. EdgesInv' /\ FilesInv'
    BY <1>1, <2>1, <2>3 DEF EdgesInv, FilesInv, PastRegions, PastCoverage,
                            PastHandlers, PastTopology, PastOperators,
                            PastFusion
  <2>6. TypeOK'
    BY <1>1, <2>1, <2>3 DEF BuildInv, TypeOK, Readable, File
  <2>7. QED
    BY <2>3, <2>4, <2>5, <2>6 DEF BuildInv
<1>5. QED
  BY <1>3, <1>4

(* The files from the hot regions to the fusion file, each from its stage  *)
(* to the next.                                                            *)
LEMMA EmitKeeps ==
  ASSUME BuildInv, NEW next, NEW content, stage \in File \ {"patterns", "compiled"},
         Write(stage, content, next), built' = built,
         \/ stage = "regions" /\ next = "abstract" /\ content = HotRegions
         \/ stage = "abstract" /\ next = "coverage" /\ content = AbstractNodes
         \/ stage = "coverage" /\ next = "handlers" /\ content = Coverage(Regions)
         \/ stage = "handlers" /\ next = "topology" /\ content = Handlers(Regions)
         \/ /\ stage = "topology" /\ next = "operators"
            /\ content = [nodes |-> Nodes, transitions |-> transitions, groups |-> groups]
         \/ stage = "operators" /\ next = "fusion" /\ content = Operators
         \/ /\ stage = "fusion" /\ next = "compiled"
            /\ Regions # <<>> => content = [regions |-> Range(Regions)]
  PROVE  BuildInv'
<1>1. /\ DOMAIN files' = File /\ files'[stage] = content
      /\ \A f \in File \ {stage} : files'[f] = files[f]
      /\ stage' = next /\ UNCHANGED <<source, at, transitions, groups, builds>>
  <2>1. stage \in File /\ DOMAIN files = File
    BY DEF BuildInv, TypeOK
  <2> DEFINE now == stage
  <2>2. now \in File /\ Write(now, content, next)
    BY <2>1
  <2> HIDE DEF now
  <2>3. /\ DOMAIN files' = File /\ files'[now] = content
        /\ \A f \in File \ {now} : files'[f] = files[f]
        /\ stage' = next /\ UNCHANGED <<source, at, transitions, groups, builds>>
    BY <2>1, <2>2, WriteIs
  <2>4. QED
    BY <2>3 DEF now
<1>2. built = FALSE /\ built' = FALSE
  BY DEF BuildInv, SourceInv, TypeOK, File
<1>3. Building /\ Building' /\ Checked /\ Checked'
  BY <1>1 DEF Building, PastPrograms, Checked, PastRegions, PastCoverage,
              PastHandlers, PastTopology, PastOperators,
              PastFusion, File
<1>4. /\ SourceInv' /\ ProgramsInv' /\ Nodes' = Nodes /\ at \in Nat /\ groups' \subseteq SUBSET Nodes'
      /\ Regions' = Regions /\ HotRegions' = HotRegions /\ AbstractNodes' = AbstractNodes
  BY <1>1, <1>2, <1>3, OnwardKeeps
<1>5. PatternsInv'
  BY <1>1, <1>3 DEF BuildInv, PatternsInv, PastPrograms, File
<1>6. transitions \subseteq Nodes \X Nodes /\ EdgesInv'
  BY <1>1, <1>3, <1>4 DEF BuildInv, EdgesInv
<1>7. FilesInv'
  <2>1. CASE stage = "regions"
    BY <1>1, <1>2, <1>4, <2>1 DEF BuildInv, FilesInv, PastRegions, PastCoverage,
                                  PastHandlers, PastTopology, PastOperators, PastFusion, File
  <2>2. CASE stage = "abstract"
    BY <1>1, <1>2, <1>4, <2>2 DEF BuildInv, FilesInv, PastRegions, PastCoverage,
                                  PastHandlers, PastTopology, PastOperators, PastFusion, File
  <2>3. CASE stage = "coverage"
    BY <1>1, <1>2, <1>4, <2>3 DEF BuildInv, FilesInv, PastRegions, PastCoverage,
                                  PastHandlers, PastTopology, PastOperators, PastFusion, File
  <2>4. CASE stage = "handlers"
    BY <1>1, <1>2, <1>4, <2>4 DEF BuildInv, FilesInv, PastRegions, PastCoverage,
                                  PastHandlers, PastTopology, PastOperators, PastFusion, File
  <2>5. CASE stage = "topology"
    BY <1>1, <1>2, <1>4, <2>5 DEF BuildInv, FilesInv, PastRegions, PastCoverage,
                                  PastHandlers, PastTopology, PastOperators, PastFusion, File
  <2>6. CASE stage = "operators"
    BY <1>1, <1>2, <1>4, <2>6 DEF BuildInv, FilesInv, PastRegions, PastCoverage,
                                  PastHandlers, PastTopology, PastOperators, PastFusion, File
  <2>7. CASE stage = "fusion"
    BY <1>1, <1>2, <1>4, <2>7 DEF BuildInv, FilesInv, PastRegions, PastCoverage,
                                  PastHandlers, PastTopology, PastOperators, PastFusion, File
  <2>8. QED
    BY <2>1, <2>2, <2>3, <2>4, <2>5, <2>6, <2>7
<1>8. TypeOK'
  <2>1. Readable("topology")' =>
          files'["topology"].transitions \subseteq files'["topology"].nodes \X files'["topology"].nodes
    <3>1. CASE stage = "topology"
      BY <1>1, <1>6, <3>1
    <3>2. CASE stage # "topology"
      BY <1>1, <3>2 DEF BuildInv, TypeOK, Readable, File
    <3>3. QED
      BY <3>1, <3>2
  <2>2. stage' \in {"idle", "programs", "checks"} \cup (File \ {"patterns"})
    BY <1>1 DEF File
  <2>3. QED
    BY <1>1, <1>2, <1>4, <2>1, <2>2 DEF BuildInv, TypeOK
<1>9. QED
  BY <1>4, <1>5, <1>6, <1>7, <1>8 DEF BuildInv

LEMMA EmitsKeep ==
  BuildInv /\ (\/ EmitHotRegions \/ EmitAbstractCoverage \/ EmitHandlerCoverage \/ EmitHandlers
               \/ WriteTopology \/ WriteOperators \/ WriteFusion) => BuildInv'
<1> SUFFICES ASSUME BuildInv,
                    \/ EmitHotRegions \/ EmitAbstractCoverage \/ EmitHandlerCoverage \/ EmitHandlers
                    \/ WriteTopology \/ WriteOperators \/ WriteFusion
             PROVE  BuildInv'
  OBVIOUS
<1>1. CASE EmitHotRegions
  BY <1>1, EmitKeeps DEF EmitHotRegions, File
<1>2. CASE EmitAbstractCoverage
  BY <1>2, EmitKeeps DEF EmitAbstractCoverage, File
<1>3. CASE EmitHandlerCoverage
  BY <1>3, EmitKeeps DEF EmitHandlerCoverage, File
<1>4. CASE EmitHandlers
  <2>1. CASE Write("handlers", Handlers(Regions), "topology") /\ UNCHANGED built
    BY <1>4, <2>1, EmitKeeps DEF EmitHandlers, File
  <2>2. CASE Abandon /\ UNCHANGED <<source, built, builds>>
    <3>1. Building /\ ~built
      BY <1>4 DEF EmitHandlers, BuildInv, SourceInv, Building, PastPrograms, Checked, PastRegions, PastCoverage
    <3>2. QED
      BY <2>2, <3>1, AbandonKeeps
  <2>3. QED
    BY <1>4, <2>1, <2>2 DEF EmitHandlers
<1>5. CASE WriteTopology
  BY <1>5, EmitKeeps DEF WriteTopology, File
<1>6. CASE WriteOperators
  BY <1>6, EmitKeeps DEF WriteOperators, File
<1>7. CASE WriteFusion
  <2>1. CASE Regions # <<>> /\ Write("fusion", [regions |-> Range(Regions)], "compiled")
    BY <1>7, <2>1, EmitKeeps DEF WriteFusion, File
  <2>2. CASE Regions = <<>> /\ Write("fusion", files["fusion"], "compiled")
    BY <1>7, <2>2, EmitKeeps DEF WriteFusion, File
  <2>3. QED
    BY <1>7, <2>1, <2>2 DEF WriteFusion
<1>8. QED
  BY <1>1, <1>2, <1>3, <1>4, <1>5, <1>6, <1>7

LEMMA CompilePatternsKeeps == BuildInv /\ CompilePatterns => BuildInv'
<1> SUFFICES ASSUME BuildInv, CompilePatterns
             PROVE  BuildInv'
  OBVIOUS
<1>1. stage = "compiled" /\ ~built /\ "compiled" \in File /\ DOMAIN files = File
  BY DEF CompilePatterns, BuildInv, SourceInv, TypeOK, File
<1>2. Building /\ Checked /\ PastFusion
  BY <1>1 DEF Building, PastPrograms, Checked, PastRegions, PastCoverage,
              PastHandlers, PastTopology, PastOperators,
              PastFusion
<1>3. CASE Abandon /\ UNCHANGED <<source, built, builds>>
  BY <1>1, <1>2, <1>3, AbandonKeeps
<1>4. CASE /\ PatternsAccepted /\ Write("compiled", PatternEdges(files["patterns"]), "idle") /\ built' = TRUE
  <2>1. /\ DOMAIN files' = File /\ files'["compiled"] = PatternEdges(files["patterns"])
        /\ \A f \in File \ {"compiled"} : files'[f] = files[f]
        /\ stage' = "idle" /\ UNCHANGED <<source, at, transitions, groups, builds>>
    BY <1>1, <1>4, WriteIs
  <2>2. Building'
    BY <1>4 DEF Building, PastPrograms, Checked, PastRegions, PastCoverage,
                PastHandlers, PastTopology, PastOperators,
                PastFusion
  <2>3. /\ SourceInv' /\ ProgramsInv' /\ Nodes' = Nodes /\ at \in Nat /\ groups' \subseteq SUBSET Nodes'
        /\ Regions' = Regions /\ HotRegions' = HotRegions /\ AbstractNodes' = AbstractNodes
    BY <1>2, <1>4, <2>1, <2>2, OnwardKeeps
  <2>4. files'["patterns"] = files["patterns"] /\ files'["topology"] = files["topology"]
        /\ files'["regions"] = files["regions"] /\ files'["coverage"] = files["coverage"]
        /\ files'["handlers"] = files["handlers"] /\ files'["fusion"] = files["fusion"]
        /\ files'["abstract"] = files["abstract"] /\ files'["operators"] = files["operators"]
    BY <2>1 DEF File
  <2>5. PatternsInv'
    BY <1>1, <2>1, <2>4 DEF BuildInv, PatternsInv, PastPrograms, Checked, PastRegions, PastCoverage,
                            PastHandlers, PastTopology, PastOperators, PastFusion
  <2>6. EdgesInv'
    BY <1>2, <2>1, <2>3 DEF BuildInv, EdgesInv
  <2>7. FilesInv'
    <3>1. PatternsAccepted'
      BY <1>4, <2>4 DEF PatternsAccepted
    <3>2. files'["compiled"] = PatternEdges(files'["patterns"])
      BY <2>1, <2>4
    <3>3. /\ files["regions"] = HotRegions /\ files["coverage"] = Coverage(Regions)
          /\ files["handlers"] = Handlers(Regions)
          /\ files["abstract"] = AbstractNodes /\ files["operators"] = Operators
          /\ files["topology"] = [nodes |-> Nodes, transitions |-> transitions, groups |-> groups]
          /\ Regions # <<>> => files["fusion"] = [regions |-> Range(Regions)]
      BY <1>2 DEF BuildInv, FilesInv, PastRegions, PastCoverage, PastHandlers, PastTopology,
                  PastOperators
    <3>4. QED
      BY <2>1, <2>3, <2>4, <3>1, <3>2, <3>3 DEF FilesInv
  <2>8. TypeOK'
    <3>1. stage' \in {"idle", "programs", "checks"} \cup (File \ {"patterns"}) /\ built' \in BOOLEAN
      BY <1>4, <2>1
    <3>2. Readable("topology")' =>
            files'["topology"].transitions \subseteq files'["topology"].nodes \X files'["topology"].nodes
      BY <2>4 DEF BuildInv, TypeOK, Readable
    <3>3. QED
      BY <2>1, <2>3, <3>1, <3>2 DEF BuildInv, TypeOK
  <2>9. QED
    BY <2>3, <2>5, <2>6, <2>7, <2>8 DEF BuildInv
<1>5. QED
  BY <1>3, <1>4 DEF CompilePatterns

LEMMA InterruptedKeeps == BuildInv /\ Interrupted => BuildInv'
<1> SUFFICES ASSUME BuildInv, Interrupted
             PROVE  BuildInv'
  OBVIOUS
<1>1. built' = FALSE /\ DOMAIN files = File
  BY DEF Interrupted, BuildInv, SourceInv, TypeOK
<1>2. \E file \in File : \E content :
        /\ Write(file, content, "idle")
        /\ file = "topology" => content \in {files["topology"], Torn}
  <2>1. CASE Write("topology", files["topology"], "idle")
    BY <2>1 DEF File
  <2>2. CASE stage \in File /\ Write(stage, Torn, "idle")
    BY <2>2
  <2>3. CASE Write("patterns", Torn, "idle")
    BY <2>3 DEF File
  <2>4. QED
    BY <2>1, <2>2, <2>3 DEF Interrupted
<1>3. PICK file \in File : \E content :
        /\ Write(file, content, "idle")
        /\ file = "topology" => content \in {files["topology"], Torn}
  BY <1>2
<1>4. PICK content : /\ Write(file, content, "idle")
                     /\ file = "topology" => content \in {files["topology"], Torn}
  BY <1>3
<1>5. /\ DOMAIN files' = File /\ files'[file] = content
      /\ \A f \in File \ {file} : files'[f] = files[f]
      /\ stage' = "idle" /\ UNCHANGED <<source, at, transitions, groups, builds>>
  BY <1>1, <1>4, WriteIs
<1>6. files'["topology"] \in {files["topology"], Torn}
  BY <1>4, <1>5 DEF File
<1>7. at' \in Nat /\ source' \in Sources \cup Edits
  BY <1>5 DEF BuildInv, TypeOK, SourceInv
<1>8. QED
  BY <1>1, <1>5, <1>6, <1>7, IdleKeeps

LEMMA EditKeeps == BuildInv /\ Edit => BuildInv'
<1> SUFFICES ASSUME BuildInv, Edit
             PROVE  BuildInv'
  OBVIOUS
<1>1. /\ source' \in Sources \cup Edits /\ stage' = "idle" /\ built' = FALSE /\ at' \in Nat
      /\ DOMAIN files' = File /\ files'["topology"] = files["topology"] /\ builds' = builds
  BY DEF Edit, BuildInv, TypeOK
<1>2. QED
  BY <1>1, IdleKeeps

LEMMA StutterKeeps == BuildInv /\ UNCHANGED vars => BuildInv'
<1> SUFFICES ASSUME BuildInv, UNCHANGED vars
             PROVE  BuildInv'
  OBVIOUS
<1>1. /\ source' = source /\ stage' = stage /\ at' = at /\ transitions' = transitions
      /\ groups' = groups /\ files' = files /\ built' = built /\ builds' = builds
  BY DEF vars
<1>2. /\ Nodes' = Nodes /\ Given' = Given /\ EffectsMap' = EffectsMap /\ NodesDistinct' = NodesDistinct
      /\ HotRegions' = HotRegions /\ AbstractNodes' = AbstractNodes
      /\ Regions' = Regions /\ (FlowsBefore(at))' = FlowsBefore(at)
      /\ (FlowEdges(at))' = FlowEdges(at)
  BY <1>1, KeptSource, KeptRegions
<1>3. /\ Building' = Building /\ PastPrograms' = PastPrograms /\ Checked' = Checked
      /\ PastRegions' = PastRegions /\ PastCoverage' = PastCoverage /\ PastHandlers' = PastHandlers
      /\ PastTopology' = PastTopology /\ PastOperators' = PastOperators /\ PastFusion' = PastFusion
  BY <1>1 DEF Building, PastPrograms, Checked, PastRegions, PastCoverage,
              PastHandlers, PastTopology, PastOperators,
              PastFusion
<1>4. TypeOK' /\ PatternsAccepted' = PatternsAccepted
  BY <1>1, <1>2 DEF BuildInv, TypeOK, Readable, PatternsAccepted
<1>5. SourceInv' /\ ProgramsInv' /\ PatternsInv' /\ EdgesInv'
  BY <1>1, <1>2, <1>3 DEF BuildInv, SourceInv, ProgramsInv, PatternsInv, EdgesInv
<1>6. FilesInv'
  BY <1>1, <1>2, <1>3, <1>4 DEF BuildInv, FilesInv
<1>7. QED
  BY <1>4, <1>5, <1>6 DEF BuildInv

(* At every stage the files and the transitions are those that the source  *)
(* gives by that stage.                                                    *)
THEOREM BuildInvariant == Spec => []BuildInv
<1>1. BuildInv /\ [Next]_vars => BuildInv'
  <2> SUFFICES ASSUME BuildInv, [Next]_vars
               PROVE  BuildInv'
    OBVIOUS
  <2>1. CASE Begin
    BY <2>1, BeginKeeps
  <2>2. CASE CompileProgram
    BY <2>2, ProgramKeeps
  <2>3. CASE EmitPatterns
    BY <2>3, PatternsKeep
  <2>4. CASE CheckTransitions
    BY <2>4, ChecksKeep
  <2>5. CASE \/ EmitHotRegions \/ EmitAbstractCoverage \/ EmitHandlerCoverage \/ EmitHandlers
             \/ WriteTopology \/ WriteOperators \/ WriteFusion
    BY <2>5, EmitsKeep
  <2>6. CASE CompilePatterns
    BY <2>6, CompilePatternsKeeps
  <2>7. CASE Interrupted
    BY <2>7, InterruptedKeeps
  <2>8. CASE Edit
    BY <2>8, EditKeeps
  <2>9. CASE UNCHANGED vars
    BY <2>9, StutterKeeps
  <2>10. QED
    BY <2>1, <2>2, <2>3, <2>4, <2>5, <2>6, <2>7, <2>8, <2>9 DEF Next
<1>2. QED
  BY <1>1, BuildInit, PTL DEF Spec

-------------------------------------------------------------------------------
(* Weights.                                                                *)

(* A product of weights, rounded down, is a weight.                        *)
LEMMA ProductWithin ==
  ASSUME NEW x \in 0 .. Whole, NEW y \in 0 .. Whole
  PROVE  /\ (x * y) \div Whole \in 0 .. Whole
         /\ (x * Whole) \div Whole = x /\ (x * 0) \div Whole = 0
<1>1. Whole \in Nat \ {0}
  BY WeightAssumption
<1>2. \A p \in Nat : /\ p \div Whole \in Nat
                     /\ \A q \in Nat : q * Whole <= p /\ p < (q + 1) * Whole => p \div Whole = q
                     /\ (p \div Whole) * Whole <= p
  BY <1>1, SMTT(60)
<1>3. x * y \in Nat /\ x * y <= Whole * Whole /\ x * Whole \in Nat
  BY <1>1, SMTT(60)
<1>4. (x * Whole) \div Whole = x
  <2>1. x \in Nat /\ x * Whole <= x * Whole /\ x * Whole < (x + 1) * Whole
    BY <1>1, SMTT(60)
  <2>2. QED
    BY <1>2, <1>3, <2>1
<1>5. (x * 0) \div Whole = 0
  BY <1>1
<1>6. (x * y) \div Whole <= Whole
  <2> DEFINE q == (x * y) \div Whole
  <2>1. q \in Nat /\ q * Whole <= Whole * Whole
    <3>1. q \in Nat /\ q * Whole <= x * y
      BY <1>2, <1>3
    <3>2. q * Whole \in Nat /\ Whole * Whole \in Nat
      BY <1>1, <3>1
    <3> HIDE DEF q
    <3>3. QED
      BY <1>3, <3>1, <3>2
  <2> HIDE DEF q
  <2>2. q <= Whole
    <3> SUFFICES ASSUME q >= Whole + 1
                 PROVE  FALSE
      BY <1>1, <2>1
    <3>1. q * Whole >= (Whole + 1) * Whole
      BY <1>1, <2>1, SMTT(60)
    <3>2. (Whole + 1) * Whole = Whole * Whole + Whole
      BY <1>1
    <3>3. Whole * Whole \in Nat /\ q * Whole \in Nat
      BY <1>1, <2>1
    <3>4. QED
      BY <1>1, <2>1, <3>1, <3>2, <3>3
  <2>3. QED
    BY <2>2 DEF q
<1>7. QED
  BY <1>2, <1>3, <1>4, <1>5, <1>6, <1>1

(* A layer whose laws hold is one of these three.                          *)
LEMMA LayersAre ==
  ASSUME NEW layer, LawsHold(layer), NEW x, InDomain(layer, x)
  PROVE  /\ layer.compose \in {"times", "min", "plus"}
         /\ layer.compose \in {"times", "min"} =>
              layer.unit = Whole /\ layer.bottom = 0 /\ layer.bottom # Infinity /\ x \in 0 .. Whole
         /\ layer.compose = "plus" =>
              layer.unit = 0 /\ layer.bottom = Infinity /\ x \in 0 .. Infinity - 1
BY WeightAssumption DEF LawsHold, InDomain

LEMMA ComposedIs ==
  ASSUME NEW layer, layer.compose \in {"times", "min", "plus"}, NEW x, NEW y
  PROVE  /\ layer.compose = "times" => Composed(layer, x, y) = (x * y) \div Whole
         /\ layer.compose = "min" => Composed(layer, x, y) = IF x < y THEN x ELSE y
         /\ layer.compose = "plus" =>
              Composed(layer, x, y) = IF Infinity \in {x, y} THEN Infinity ELSE x + y
BY DEF Composed

(* Whatever the checks of a source let through obeys the laws of the       *)
(* layers.                                                                 *)
THEOREM WeightsCompose == Spec => []WeightsObeyLayers
<1>1. BuildInv => WeightsObeyLayers
  <2> SUFFICES ASSUME BuildInv, built,
                      NEW layer \in Range(source.layers)
               PROVE  LET weights == {p.weight[layer.name] : p \in {q \in Range(source.programs) :
                                        q.kind # "cka_pattern" /\ ~Trivial(q)}}
                      IN  \A x \in weights :
                            /\ Composed(layer, x, layer.unit) = x
                            /\ Composed(layer, x, layer.bottom) = layer.bottom
                            /\ \A y \in weights :
                                 layer.bottom # Infinity => Composed(layer, x, y) \in 0 .. Whole
    BY DEF WeightsObeyLayers
  <2>1. Building
    BY DEF Building, PastPrograms, Checked, PastRegions, PastCoverage,
           PastHandlers, PastTopology, PastOperators,
           PastFusion
  <2>2. QuantaleDeclared(source)
    BY <2>1 DEF BuildInv, SourceInv, SourceAccepted
  <2>3. LawsHold(layer)
    BY <2>2 DEF QuantaleDeclared
  <2>4. \A p \in Range(source.programs) : p.kind # "cka_pattern" /\ ~Trivial(p) =>
          InDomain(layer, p.weight[layer.name])
    BY <2>2 DEF QuantaleDeclared, Weighed
  <2>5. ASSUME NEW x, InDomain(layer, x), NEW y, InDomain(layer, y)
        PROVE  /\ Composed(layer, x, layer.unit) = x
               /\ Composed(layer, x, layer.bottom) = layer.bottom
               /\ layer.bottom # Infinity => Composed(layer, x, y) \in 0 .. Whole
    <3>1. layer.compose \in {"times", "min", "plus"}
      BY <2>3, <2>5, LayersAre
    <3>2. CASE layer.compose = "times"
      <4>1. layer.unit = Whole /\ layer.bottom = 0 /\ x \in 0 .. Whole /\ y \in 0 .. Whole
        BY <2>3, <2>5, <3>2, LayersAre
      <4>2. \A z : Composed(layer, x, z) = (x * z) \div Whole
        BY <3>1, <3>2, ComposedIs
      <4>3. QED
        BY <4>1, <4>2, ProductWithin
    <3>3. CASE layer.compose = "min"
      <4>1. layer.unit = Whole /\ layer.bottom = 0 /\ x \in 0 .. Whole /\ y \in 0 .. Whole
        BY <2>3, <2>5, <3>3, LayersAre
      <4>2. \A z : Composed(layer, x, z) = IF x < z THEN x ELSE z
        BY <3>1, <3>3, ComposedIs
      <4>3. QED
        BY <4>1, <4>2, WeightAssumption
    <3>4. CASE layer.compose = "plus"
      <4>1. layer.unit = 0 /\ layer.bottom = Infinity /\ x \in 0 .. Infinity - 1
        BY <2>3, <2>5, <3>4, LayersAre
      <4>2. \A z : Composed(layer, x, z) = IF Infinity \in {x, z} THEN Infinity ELSE x + z
        BY <3>1, <3>4, ComposedIs
      <4>3. Composed(layer, x, layer.bottom) = layer.bottom
        BY <4>1, <4>2
      <4>4. Infinity # x /\ Infinity # 0 /\ x + 0 = x
        BY <4>1, WeightAssumption
      <4>5. Composed(layer, x, layer.unit) = x
        BY <4>1, <4>2, <4>4
      <4>6. QED
        BY <4>1, <4>3, <4>5
    <3>5. QED
      BY <3>1, <3>2, <3>3, <3>4
  <2>6. QED
    BY <2>4, <2>5
<1>2. QED
  BY <1>1, BuildInvariant, PTL

-------------------------------------------------------------------------------
(* The fusion partition, over any kernels and arrows between them.         *)

LEMMA ComponentIs ==
  ASSUME NEW K, IsFiniteSet(K), NEW arrows \in SUBSET (K \X K), NEW n \in K
  PROVE  /\ Component(n, arrows) \subseteq K /\ IsFiniteSet(Component(n, arrows))
         /\ n \in Component(n, arrows)
         /\ \A a \in arrows : a[1] \in Component(n, arrows) <=> a[2] \in Component(n, arrows)
<1> DEFINE G == arrows \cup Reversed(arrows)
           C == Component(n, arrows)
<1>1. IsFiniteSet(arrows)
  BY FS_Product, FS_Subset
<1>2. IsFiniteSet(G)
  BY <1>1, ReversedFinite, FS_Union
<1>3. C = Reached({n}, G)
  BY DEF Component
<1> HIDE DEF C
<1>4. {n} \subseteq C /\ Closed(C, G)
  <2> HIDE DEF G
  <2>1. QED
    BY <1>2, <1>3, ReachedFixed
<1>5. C \subseteq K
  <2>1. Closed(K, G)
    BY DEF Closed, Reversed
  <2> HIDE DEF G
  <2>2. QED
    BY <1>2, <1>3, <2>1, ReachedLeast
<1>6. \A a \in arrows : a[1] \in C <=> a[2] \in C
  <2> SUFFICES ASSUME NEW a \in arrows
               PROVE  a[1] \in C <=> a[2] \in C
    OBVIOUS
  <2>1. a \in G /\ <<a[2], a[1]>> \in G
    BY DEF Reversed
  <2> HIDE DEF G
  <2>2. QED
    BY <1>4, <2>1 DEF Closed
<1>7. IsFiniteSet(C)
  BY <1>5, FS_Subset
<1>8. QED
  BY <1>4, <1>5, <1>6, <1>7 DEF C

(* The walk along single successors.                                       *)
Walks(n, arrows, most, u) ==
  /\ u[0] = <<n>>
  /\ \A k \in 1 .. most : u[k] = Extended(u[k - 1], arrows)
  /\ ChainFrom(n, arrows, most) = u[most]

Nonempty(V) == {s \in Seq(V) : Len(s) > 0}

LEMMA ExtendedIs ==
  ASSUME NEW V, NEW arrows \in SUBSET (V \X V), NEW s \in Nonempty(V)
  PROVE  /\ Extended(s, arrows) \in Nonempty(V)
         /\ \/ Extended(s, arrows) = s
            \/ \E m \in V : Extended(s, arrows) = Append(s, m) /\ <<s[Len(s)], m>> \in arrows
<1> DEFINE next == Successors(s[Len(s)], arrows)
           m    == CHOOSE x \in next : TRUE
<1>1. Extended(s, arrows) = IF Cardinality(next) = 1 THEN Append(s, m) ELSE s
  BY DEF Extended
<1>2. \A x \in next : x \in V /\ <<s[Len(s)], x>> \in arrows
  BY DEF Successors
<1>3. Cardinality(next) = 1 => next # {}
  <2> HIDE DEF next
  <2>1. QED
    BY FS_EmptySet
<1>4. next # {} => m \in next
  <2> HIDE DEF next
  <2>1. QED
    OBVIOUS
<1> HIDE DEF next, m
<1>5. s \in Seq(V) /\ Len(s) > 0
  BY DEF Nonempty
<1>6. \A x \in V : Append(s, x) \in Nonempty(V)
  BY <1>5 DEF Nonempty
<1>7. QED
  BY <1>1, <1>2, <1>3, <1>4, <1>6

LEMMA WalkExists ==
  ASSUME NEW V, NEW arrows \in SUBSET (V \X V), NEW r \in V, NEW most \in Nat
  PROVE  \E u \in [0 .. most -> Nonempty(V)] : Walks(r, arrows, most, u)
<1> DEFINE X    == Nonempty(V)
           n    == most
           step == [k \in 1 .. n |-> [T \in X |-> Extended(T, arrows)]]
<1>1. n \in Nat
  OBVIOUS
<1>20. \A k \in 1 .. n : \A T \in X : Extended(T, arrows) \in X
  <2> SUFFICES ASSUME NEW k \in 1 .. n, NEW T \in X
               PROVE  Extended(T, arrows) \in X
    OBVIOUS
  <2>1. QED
    BY ExtendedIs
<1>21. <<r>> \in X
  BY DEF Nonempty
<1> HIDE DEF X
<1>3. step \in [1 .. n -> [X -> X]]
  <2> HIDE DEF n
  <2>1. QED
    BY <1>20
<1>4. PICK f \in [0 .. n -> X] : \A k \in 0 .. n : f[k] = IF k = 0 THEN <<r>> ELSE step[k][f[k - 1]]
  <2> HIDE DEF n, step
  <2>1. Iterates(X, n, <<r>>, step)
    BY <1>1, <1>3, <1>21, Iteration
  <2>2. QED
    BY <2>1 DEF Iterates
<1>5. f = [k \in 0 .. n |-> IF k = 0 THEN <<r>> ELSE Extended(f[k - 1], arrows)]
  <2>1. ASSUME NEW k \in 0 .. n, k # 0
        PROVE  step[k][f[k - 1]] = Extended(f[k - 1], arrows)
    <3>1. k \in 1 .. n /\ k - 1 \in 0 .. n
      BY <1>1, <2>1
    <3>2. f[k - 1] \in X
      BY <3>1
    <3> HIDE DEF n
    <3>3. QED
      BY <3>1, <3>2
  <2> HIDE DEF n, step
  <2>2. QED
    BY <1>4, <2>1
<1> DEFINE walk[k \in 0 .. n] == IF k = 0 THEN <<r>> ELSE Extended(walk[k - 1], arrows)
<1>6. walk = [k \in 0 .. n |-> IF k = 0 THEN <<r>> ELSE Extended(walk[k - 1], arrows)]
  <2> HIDE DEF n, step
  <2>1. QED
    BY <1>5, Zenon DEF walk
<1>7. ChainFrom(r, arrows, most) = walk[n]
  BY DEF ChainFrom, walk
<1> HIDE DEF walk, step
<1>8. \A k \in 0 .. n : walk[k] = IF k = 0 THEN <<r>> ELSE Extended(walk[k - 1], arrows)
  <2> HIDE DEF n
  <2>1. QED
    BY <1>6
<1> DEFINE good == {k \in Nat : k <= n => walk[k] \in X}
<1>9. 0 \in good
  <2>1. walk[0] = <<r>>
    BY <1>1, <1>8
  <2> HIDE DEF n
  <2>2. QED
    BY <1>21, <2>1
<1>10. ASSUME NEW k \in Nat, k \in good
       PROVE  k + 1 \in good
  <2> SUFFICES ASSUME k + 1 <= n
               PROVE  walk[k + 1] \in X
    OBVIOUS
  <2>1. k + 1 \in 0 .. n /\ k + 1 \in 1 .. n /\ k + 1 # 0 /\ (k + 1) - 1 = k /\ k <= n
    BY <1>1, k + 1 <= n
  <2>2. walk[k + 1] = Extended(walk[k], arrows)
    BY <1>8, <2>1
  <2>3. walk[k] \in X
    BY <1>10, <2>1
  <2> HIDE DEF n
  <2>4. QED
    BY <1>20, <2>1, <2>2, <2>3
<1>11. Nat \subseteq good
  <2> HIDE DEF good
  <2>1. QED
    BY <1>9, <1>10, SetInduction
<1>12. walk \in [0 .. n -> X]
  <2>1. \A k \in 0 .. n : walk[k] \in X
    BY <1>1, <1>11
  <2> HIDE DEF n
  <2>2. QED
    BY <1>6, <2>1
<1>13. Walks(r, arrows, most, walk)
  <2>1. walk[0] = <<r>>
    BY <1>1, <1>8
  <2>2. \A k \in 1 .. n : walk[k] = Extended(walk[k - 1], arrows)
    BY <1>1, <1>8
  <2>3. QED
    BY <1>7, <2>1, <2>2 DEF Walks
<1>14. QED
  BY <1>12, <1>13 DEF X

(* A walk through C: no node twice, every node followed by the next.       *)
Path(s, C, arrows, r) ==
  /\ s \in Nonempty(C) /\ s[1] = r /\ IsInjective(s)
  /\ \A i \in 1 .. Len(s) - 1 : <<s[i], s[i + 1]>> \in arrows

(* Every node of C is followed and preceded by at most one of C.           *)
LEMMA LinearIs ==
  ASSUME NEW C, IsFiniteSet(C), NEW arrows, IsLinear(C, arrows),
         NEW x \in C, NEW y \in C, NEW z \in C
  PROVE  /\ <<x, y>> \in arrows /\ <<x, z>> \in arrows => y = z
         /\ <<y, x>> \in arrows /\ <<z, x>> \in arrows => y = z
<1>1. ASSUME NEW S \in SUBSET C, Cardinality(S) <= 1, y \in S, z \in S
      PROVE  y = z
  <2>1. IsFiniteSet(S) /\ Cardinality(S) \in Nat /\ Cardinality(S) # 0
    BY <1>1, FS_Subset, FS_CardinalityType, FS_EmptySet
  <2>2. Cardinality(S) = 1
    BY <1>1, <2>1
  <2>3. \E v : S = {v}
    BY <2>1, <2>2, FS_Singleton
  <2>4. QED
    BY <1>1, <2>3
<1> DEFINE after  == {m \in C : <<x, m>> \in arrows}
           before == {m \in C : <<m, x>> \in arrows}
<1>2. Cardinality(after) <= 1 /\ Cardinality(before) <= 1
  BY DEF IsLinear
<1>3. <<x, y>> \in arrows /\ <<x, z>> \in arrows => y \in after /\ z \in after
  OBVIOUS
<1>4. <<y, x>> \in arrows /\ <<z, x>> \in arrows => y \in before /\ z \in before
  OBVIOUS
<1>5. after \in SUBSET C /\ before \in SUBSET C
  OBVIOUS
<1> HIDE DEF after, before
<1>6. QED
  BY <1>1, <1>2, <1>3, <1>4, <1>5

LEMMA PathExtends ==
  ASSUME NEW C, IsFiniteSet(C), NEW arrows, IsLinear(C, arrows),
         \A a \in arrows : a[1] \in C => a[2] \in C,
         NEW r \in Roots(C, arrows), NEW s, Path(s, C, arrows, r),
         NEW m, <<s[Len(s)], m>> \in arrows
  PROVE  Path(Append(s, m), C, arrows, r)
<1> DEFINE n == Len(s)
           t == Append(s, m)
<1>1. s \in Seq(C) /\ n \in Nat /\ n > 0 /\ s[n] \in C /\ \A i \in 1 .. n : s[i] \in C
  BY DEF Path, Nonempty
<1>2. m \in C
  BY <1>1
<1>3. t \in Seq(C) /\ Len(t) = n + 1 /\ (\A i \in 1 .. n : t[i] = s[i]) /\ t[n + 1] = m
  BY <1>1, <1>2
<1>4. \A i \in 1 .. n : s[i] # m
  <2> SUFFICES ASSUME NEW i \in 1 .. n, s[i] = m
               PROVE  FALSE
    OBVIOUS
  <2>1. CASE i = 1
    <3>1. r = m /\ \A x \in C : <<x, r>> \notin arrows
      BY <2>1 DEF Path, Roots
    <3>2. QED
      BY <1>1, <3>1
  <2>2. CASE i # 1
    <3>1. i - 1 \in 1 .. n - 1 /\ (i - 1) + 1 = i /\ i - 1 \in 1 .. n /\ n \in 1 .. n
      BY <1>1, <2>2
    <3>2. <<s[i - 1], s[i]>> \in arrows
      BY <3>1 DEF Path
    <3>3. s[i - 1] = s[n]
      <4>1. \A y \in C, z \in C : <<y, m>> \in arrows /\ <<z, m>> \in arrows => y = z
        BY <1>2, LinearIs
      <4>2. s[i - 1] \in C /\ s[n] \in C /\ <<s[i - 1], m>> \in arrows /\ <<s[n], m>> \in arrows
        BY <1>1, <3>1, <3>2
      <4> HIDE DEF n
      <4>3. QED
        BY <4>1, <4>2
    <3>4. \A j, k \in DOMAIN s : s[j] = s[k] => j = k
      BY DEF Path, IsInjective
    <3>5. DOMAIN s = 1 .. n
      BY <1>1
    <3>6. i - 1 = n
      BY <3>1, <3>3, <3>4, <3>5
    <3>7. QED
      BY <1>1, <3>6
  <2>3. QED
    BY <2>1, <2>2
<1>5. \A j, k \in 1 .. n : s[j] = s[k] => j = k
  <2>1. DOMAIN s = 1 .. n
    BY <1>1
  <2>2. QED
    BY <2>1 DEF Path, IsInjective
<1>6. \A j, k \in 1 .. n + 1 : t[j] = t[k] => j = k
  <2> HIDE DEF t, n
  <2> SUFFICES ASSUME NEW j \in 1 .. n + 1, NEW k \in 1 .. n + 1, t[j] = t[k]
               PROVE  j = k
    OBVIOUS
  <2>1. \A i \in 1 .. n + 1 : i \in 1 .. n \/ i = n + 1
    BY <1>1
  <2>2. CASE j \in 1 .. n /\ k \in 1 .. n
    BY <1>3, <1>5, <2>2
  <2>3. CASE j = n + 1 /\ k \in 1 .. n
    BY <1>3, <1>4, <2>3
  <2>4. CASE j \in 1 .. n /\ k = n + 1
    BY <1>3, <1>4, <2>4
  <2>5. QED
    BY <2>1, <2>2, <2>3, <2>4
<1>7. DOMAIN t = 1 .. n + 1
  BY <1>1, <1>2
<1>8. IsInjective(t)
  BY <1>6, <1>7 DEF IsInjective
<1>9. \A i \in 1 .. n : <<t[i], t[i + 1]>> \in arrows
  <2> HIDE DEF t
  <2> SUFFICES ASSUME NEW i \in 1 .. n
               PROVE  <<t[i], t[i + 1]>> \in arrows
    OBVIOUS
  <2>1. CASE i = n
    <3>1. t[i] = s[n] /\ t[i + 1] = m
      BY <1>3, <2>1
    <3>2. QED
      BY <3>1
  <2>2. CASE i # n
    <3>1. i \in 1 .. n - 1 /\ i + 1 \in 1 .. n
      BY <1>1, <2>2
    <3>2. <<s[i], s[i + 1]>> \in arrows
      BY <3>1 DEF Path
    <3>3. QED
      BY <1>3, <3>1, <3>2
  <2>3. QED
    BY <2>1, <2>2
<1>10. t[1] = r
  BY <1>1, <1>3 DEF Path
<1>11. (n + 1) - 1 = n /\ n + 1 > 0
  BY <1>1
<1> HIDE DEF t, n
<1>12. t \in Nonempty(C)
  BY <1>3, <1>11 DEF Nonempty
<1>13. Path(t, C, arrows, r)
  BY <1>3, <1>8, <1>9, <1>10, <1>11, <1>12 DEF Path
<1>14. QED
  BY <1>13 DEF t

(* The walk from the root of a linear component is a path.                 *)
LEMMA ChainIsPath ==
  ASSUME NEW K, NEW C \in SUBSET K, IsFiniteSet(C), NEW arrows \in SUBSET (K \X K), IsLinear(C, arrows),
         \A a \in arrows : a[1] \in C => a[2] \in C,
         NEW r \in Roots(C, arrows), NEW most \in Nat
  PROVE  Path(ChainFrom(r, arrows, most), C, arrows, r)
<1>1. r \in C
  BY DEF Roots
<1>2. PICK u \in [0 .. most -> Nonempty(K)] : Walks(r, arrows, most, u)
  BY <1>1, WalkExists
<1> DEFINE good == {k \in Nat : k <= most => Path(u[k], C, arrows, r)}
<1>3. 0 \in good
  <2>1. u[0] = <<r>>
    BY <1>2 DEF Walks
  <2>2. <<r>> \in Nonempty(C) /\ IsInjective(<<r>>)
    BY <1>1 DEF Nonempty, IsInjective
  <2>3. QED
    BY <2>1, <2>2 DEF Path
<1>4. ASSUME NEW k \in Nat, k \in good
      PROVE  k + 1 \in good
  <2> SUFFICES ASSUME k + 1 <= most
               PROVE  Path(u[k + 1], C, arrows, r)
    OBVIOUS
  <2>1. k + 1 \in 1 .. most /\ k \in 0 .. most /\ (k + 1) - 1 = k /\ k <= most
    OBVIOUS
  <2>2. u[k + 1] = Extended(u[k], arrows)
    BY <1>2, <2>1 DEF Walks
  <2>3. Path(u[k], C, arrows, r) /\ u[k] \in Nonempty(K)
    BY <1>4, <2>1
  <2>4. CASE u[k + 1] = u[k]
    BY <2>3, <2>4
  <2>5. CASE \E m \in K : u[k + 1] = Append(u[k], m) /\ <<u[k][Len(u[k])], m>> \in arrows
    BY <2>3, <2>5, PathExtends
  <2>6. QED
    BY <2>2, <2>3, <2>4, <2>5, ExtendedIs
<1>5. most \in good
  <2> HIDE DEF good
  <2>1. QED
    BY <1>3, <1>4, SetInduction
<1>6. QED
  BY <1>2, <1>5 DEF Walks

(* A path as long as its component is large goes through all of it, and    *)
(* there are no other arrows in it.                                        *)
LEMMA PathCovers ==
  ASSUME NEW C, IsFiniteSet(C), NEW arrows, IsLinear(C, arrows), NEW r \in Roots(C, arrows),
         NEW s, Path(s, C, arrows, r), Len(s) = Cardinality(C)
  PROVE  /\ Range(s) = C
         /\ \A x \in C, y \in C : <<x, y>> \in arrows =>
              \E i \in 1 .. Len(s) - 1 : x = s[i] /\ y = s[i + 1]
<1> DEFINE n == Len(s)
<1>1. s \in [1 .. n -> C] /\ n \in Nat /\ n > 0 /\ DOMAIN s = 1 .. n
  BY DEF Path, Nonempty
<1>2. \A j, k \in 1 .. n : s[j] = s[k] => j = k
  BY <1>1 DEF Path, IsInjective
<1>3. Range(s) = C
  <2>1. s \in Injection(1 .. n, C)
    BY <1>1, <1>2 DEF Injection, IsInjective
  <2>2. IsFiniteSet(1 .. n) /\ Cardinality(1 .. n) = n
    BY <1>1, FS_Interval
  <2>3. s \in Surjection(1 .. n, C)
    BY <2>1, <2>2, FS_Injection
  <2>4. \A c \in C : \E i \in 1 .. n : s[i] = c
    BY <2>3 DEF Surjection
  <2> HIDE DEF n
  <2>5. QED
    BY <1>1, <2>4 DEF Range
<1>4. ASSUME NEW x \in C, NEW y \in C, <<x, y>> \in arrows
      PROVE  \E i \in 1 .. n - 1 : x = s[i] /\ y = s[i + 1]
  <2> HIDE DEF n
  <2>1. PICK i \in 1 .. n, j \in 1 .. n : x = s[i] /\ y = s[j]
    BY <1>1, <1>3 DEF Range
  <2>2. j # 1
    BY <1>4, <2>1 DEF Path, Roots
  <2>3. j - 1 \in 1 .. n - 1 /\ (j - 1) + 1 = j /\ j - 1 \in 1 .. n
    BY <1>1, <2>2
  <2>4. <<s[j - 1], y>> \in arrows
    BY <2>1, <2>3 DEF Path, n
  <2>5. s[j - 1] = s[i]
    <3>1. s[j - 1] \in C
      BY <1>1, <2>3
    <3>2. \A v \in C, w \in C : <<v, y>> \in arrows /\ <<w, y>> \in arrows => v = w
      BY LinearIs
    <3>3. QED
      BY <1>4, <2>1, <2>4, <3>1, <3>2
  <2>6. QED
    BY <2>1, <2>3, <2>5
<1>5. QED
  BY <1>3, <1>4

LEMMA ImageFinite ==
  ASSUME NEW S, IsFiniteSet(S), NEW f, f = [x \in S |-> f[x]]
  PROVE  IsFiniteSet({f[x] : x \in S})
<1>1. f \in Surjection(S, {f[x] : x \in S})
  BY DEF Surjection
<1>2. QED
  BY <1>1, FS_Surjection

LEMMA RangeFinite ==
  ASSUME NEW V, NEW s \in Seq(V)
  PROVE  IsFiniteSet(Range(s)) /\ Range(s) \subseteq V
<1>1. Len(s) \in Nat /\ DOMAIN s = 1 .. Len(s) /\ s = [i \in 1 .. Len(s) |-> s[i]]
  OBVIOUS
<1>2. IsFiniteSet(1 .. Len(s))
  <2> DEFINE n == Len(s)
  <2>1. n \in Nat
    OBVIOUS
  <2> HIDE DEF n
  <2>2. IsFiniteSet(1 .. n)
    BY <2>1, FS_Interval
  <2>3. QED
    BY <2>2 DEF n
<1>3. IsFiniteSet({s[i] : i \in 1 .. Len(s)})
  BY <1>1, <1>2, ImageFinite
<1>4. Range(s) = {s[i] : i \in 1 .. Len(s)} /\ Range(s) \subseteq V
  BY <1>1 DEF Range
<1>5. QED
  BY <1>3, <1>4

ChainOf(C, arrows) == ChainFrom(CHOOSE n \in Roots(C, arrows) : TRUE, arrows, Cardinality(C))

(* The components that are chains, and what is fused of them.              *)
LEMMA ChainsAre ==
  ASSUME NEW K, IsFiniteSet(K), NEW arrows \in SUBSET (K \X K)
  PROVE  /\ IsFiniteSet(Chains(K, arrows))
         /\ \A chain \in Chains(K, arrows) : \E C \in SUBSET K :
              /\ IsFiniteSet(C) /\ Cardinality(C) >= 2 /\ IsLinear(C, arrows)
              /\ \A a \in arrows : a[1] \in C <=> a[2] \in C
              /\ Len(chain) = Cardinality(C)
              /\ \E r \in Roots(C, arrows) : Path(chain, C, arrows, r)
<1> DEFINE component == [n \in K |-> Component(n, arrows)]
           all       == {Component(n, arrows) : n \in K}
           linear    == {C \in all : /\ Cardinality(C) >= 2
                                     /\ IsLinear(C, arrows)
                                     /\ Cardinality(Roots(C, arrows)) = 1}
           whole     == {D \in linear : Len(ChainOf(D, arrows)) = Cardinality(D)}
           f         == [C \in whole |-> ChainOf(C, arrows)]
<1>1. Chains(K, arrows) = {ChainOf(C, arrows) : C \in whole}
  BY Zenon DEF Chains, ChainOf
<1>2. IsFiniteSet(all)
  <2>1. all = {component[n] : n \in K}
    OBVIOUS
  <2> HIDE DEF all
  <2>2. component = [n \in K |-> component[n]]
    OBVIOUS
  <2> HIDE DEF component
  <2>3. QED
    BY <2>1, <2>2, ImageFinite
<1>3. IsFiniteSet(whole)
  <2>1. whole \in SUBSET all
    OBVIOUS
  <2> HIDE DEF whole, all
  <2>2. QED
    BY <1>2, <2>1, FS_Subset
<1>4. IsFiniteSet({ChainOf(C, arrows) : C \in whole})
  <2>1. {ChainOf(C, arrows) : C \in whole} = {f[C] : C \in whole} /\ f = [C \in whole |-> f[C]]
    OBVIOUS
  <2> HIDE DEF f, whole
  <2>2. QED
    BY <1>3, <2>1, ImageFinite
<1>5. ASSUME NEW D \in whole
      PROVE  /\ D \in SUBSET K /\ IsFiniteSet(D) /\ Cardinality(D) >= 2 /\ IsLinear(D, arrows)
             /\ \A a \in arrows : a[1] \in D <=> a[2] \in D
             /\ Len(ChainOf(D, arrows)) = Cardinality(D)
             /\ \E r \in Roots(D, arrows) : Path(ChainOf(D, arrows), D, arrows, r)
  <2>1. /\ Cardinality(D) >= 2 /\ IsLinear(D, arrows) /\ Cardinality(Roots(D, arrows)) = 1
        /\ Len(ChainOf(D, arrows)) = Cardinality(D) /\ D \in all
    OBVIOUS
  <2>2. PICK n \in K : D = Component(n, arrows)
    BY <2>1
  <2> HIDE DEF whole
  <2>3. D \in SUBSET K /\ IsFiniteSet(D) /\ \A a \in arrows : a[1] \in D <=> a[2] \in D
    BY <2>2, ComponentIs
  <2>4. Roots(D, arrows) # {}
    BY <2>1, FS_EmptySet
  <2> DEFINE r == CHOOSE m \in Roots(D, arrows) : TRUE
  <2>5. r \in Roots(D, arrows) /\ ChainOf(D, arrows) = ChainFrom(r, arrows, Cardinality(D))
    BY <2>4 DEF ChainOf
  <2> HIDE DEF r
  <2>6. Cardinality(D) \in Nat
    BY <2>3, FS_CardinalityType
  <2>7. Path(ChainOf(D, arrows), D, arrows, r)
    BY <2>1, <2>3, <2>5, <2>6, ChainIsPath
  <2>8. QED
    BY <2>1, <2>3, <2>5, <2>7
<1> HIDE DEF whole
<1>6. QED
  BY <1>1, <1>4, <1>5

(* What is fused is a path of arrows, and all of them that touch it.       *)
LEMMA ChainsPart ==
  ASSUME NEW K, IsFiniteSet(K), NEW arrows \in SUBSET (K \X K), NEW chain \in Chains(K, arrows)
  PROVE  /\ chain \in Seq(K) /\ Len(chain) >= 2 /\ IsInjective(chain) /\ Range(chain) \subseteq K
         /\ {<<chain[i], chain[i + 1]>> : i \in 1 .. Len(chain) - 1}
              = {a \in arrows : {a[1], a[2]} \cap Range(chain) # {}}
<1>1. PICK C \in SUBSET K :
        /\ IsFiniteSet(C) /\ Cardinality(C) >= 2 /\ IsLinear(C, arrows)
        /\ \A a \in arrows : a[1] \in C <=> a[2] \in C
        /\ Len(chain) = Cardinality(C)
        /\ \E r \in Roots(C, arrows) : Path(chain, C, arrows, r)
  BY ChainsAre
<1>2. PICK r \in Roots(C, arrows) : Path(chain, C, arrows, r)
  BY <1>1
<1>3. /\ Range(chain) = C
      /\ \A x \in C, y \in C : <<x, y>> \in arrows =>
           \E i \in 1 .. Len(chain) - 1 : x = chain[i] /\ y = chain[i + 1]
  BY <1>1, <1>2, PathCovers
<1>4. /\ chain \in Seq(C) /\ IsInjective(chain)
      /\ \A i \in 1 .. Len(chain) - 1 : <<chain[i], chain[i + 1]>> \in arrows
  BY <1>2 DEF Path, Nonempty
<1>5. \A i \in 1 .. Len(chain) - 1 : chain[i] \in C
  BY <1>4
<1>6. ASSUME NEW a \in arrows, {a[1], a[2]} \cap C # {}
      PROVE  \E i \in 1 .. Len(chain) - 1 : a = <<chain[i], chain[i + 1]>>
  <2>1. a[1] \in C /\ a[2] \in C /\ a = <<a[1], a[2]>>
    BY <1>1, <1>6
  <2>2. PICK i \in 1 .. Len(chain) - 1 : a[1] = chain[i] /\ a[2] = chain[i + 1]
    BY <1>3, <2>1
  <2>3. a = <<chain[i], chain[i + 1]>>
    BY <2>1, <2>2
  <2>4. QED
    BY <2>3
<1>7. ASSUME NEW i \in 1 .. Len(chain) - 1
      PROVE  /\ <<chain[i], chain[i + 1]>> \in arrows
             /\ {<<chain[i], chain[i + 1]>>[1], <<chain[i], chain[i + 1]>>[2]} \cap C # {}
  BY <1>4, <1>5
<1>8. {<<chain[i], chain[i + 1]>> : i \in 1 .. Len(chain) - 1}
        = {a \in arrows : {a[1], a[2]} \cap C # {}}
  BY <1>6, <1>7
<1>9. chain \in Seq(K)
  BY <1>4
<1>10. QED
  BY <1>1, <1>3, <1>4, <1>8, <1>9

(* The kernels and arrows of a source.                                     *)
Arrows == {a \in transitions \ source.fallback :
             a[1] \in DeclaredKernels(source) /\ a[2] \in DeclaredKernels(source)}

FusedRegion == [nodes : Seq(STRING), reads : SUBSET STRING, writes : SUBSET STRING, locks : SUBSET STRING]

LEMMA SourceIs ==
  ASSUME source \in Sources \cup Edits
  PROVE  /\ source.declared \in Seq(Declared) /\ IsFiniteSet(Declarations(source))
         /\ Declarations(source) \subseteq Declared /\ Nodes \subseteq STRING
         /\ DeclaredKernels(source) \subseteq NodeNames(source)
         /\ IsFiniteSet(DeclaredKernels(source)) /\ DeclaredKernels(source) \subseteq STRING
         /\ \A n \in DeclaredKernels(source) :
              /\ Declaration(source, n) \in Declarations(source) /\ Declaration(source, n).name = n
              /\ KernelEffects[n] = EffectsOf(Declaration(source, n))
         /\ source.programs \in Seq(Range(source.programs))
         /\ \A p \in Range(source.programs) : p.expr \in Expr
<1>1. /\ source.declared \in Seq(Declared)
      /\ source.overlay.nodes \in Seq(STRING)
      /\ source.programs \in Seq(Range(source.programs))
      /\ \A p \in Range(source.programs) : p.expr \in Expr
  BY SourceAssumption
<1>2. IsFiniteSet(Declarations(source)) /\ Declarations(source) \subseteq Declared
  BY <1>1, RangeFinite DEF Declarations
<1>3. Range(source.overlay.nodes) \subseteq STRING
  BY <1>1, RangeFinite
<1>4. NodeNames(source) \subseteq STRING
  BY <1>2 DEF NodeNames, Declared
<1>5. DeclaredKernels(source) \subseteq NodeNames(source)
  BY DEF DeclaredKernels, NodeNames
<1>6. IsFiniteSet(NodeNames(source))
  <2> DEFINE f == [d \in Declarations(source) |-> d.name]
  <2>1. NodeNames(source) = {f[d] : d \in Declarations(source)} /\ f = [d \in Declarations(source) |-> f[d]]
    BY DEF NodeNames
  <2> HIDE DEF f
  <2>2. QED
    BY <1>2, <2>1, ImageFinite
<1>7. IsFiniteSet(DeclaredKernels(source))
  BY <1>5, <1>6, FS_Subset
<1>8. ASSUME NEW n \in DeclaredKernels(source)
      PROVE  /\ Declaration(source, n) \in Declarations(source) /\ Declaration(source, n).name = n
             /\ KernelEffects[n] = EffectsOf(Declaration(source, n))
  <2>1. \E d \in Declarations(source) : d.name = n
    BY <1>5 DEF NodeNames
  <2>2. Declaration(source, n) \in Declarations(source) /\ Declaration(source, n).name = n
    BY <2>1 DEF Declaration
  <2>3. KernelEffects[n] = EffectsOf(Declaration(source, n))
    BY DEF KernelEffects
  <2>4. QED
    BY <2>2, <2>3
<1>9. QED
  BY <1>1, <1>2, <1>3, <1>4, <1>5, <1>7, <1>8 DEF Nodes

LEMMA RegionIs ==
  ASSUME NEW chain, NEW effects
  PROVE  Region(chain, effects) =
           [nodes  |-> chain,
            reads  |-> (UNION {effects[n].reads : n \in Range(chain)})
                         \ UNION {effects[n].writes : n \in Range(chain)},
            writes |-> (UNION {effects[n].writes : n \in Range(chain)})
                         \ UNION {effects[n].reads : n \in Range(chain)},
            locks  |-> UNION {effects[n].locks : n \in Range(chain)}]
<1> DEFINE all(field) == UNION {effects[n][field] : n \in Range(chain)}
<1>1. Region(chain, effects) = [nodes  |-> chain,
                                reads  |-> all("reads") \ all("writes"),
                                writes |-> all("writes") \ all("reads"),
                                locks  |-> all("locks")]
  BY Zenon DEF Region
<1>2. /\ all("reads") = UNION {effects[n].reads : n \in Range(chain)}
      /\ all("writes") = UNION {effects[n].writes : n \in Range(chain)}
      /\ all("locks") = UNION {effects[n].locks : n \in Range(chain)}
  OBVIOUS
<1> HIDE DEF all
<1>3. QED
  BY <1>1, <1>2

(* The regions of a build, in their order.                                 *)
LEMMA RegionsAre ==
  ASSUME source \in Sources \cup Edits, transitions \subseteq Nodes \X Nodes
  PROVE  /\ Regions \in Seq(FusedRegion) /\ IsInjective(Regions)
         /\ Range(Regions) = {Region(c, KernelEffects) : c \in Chains(DeclaredKernels(source), Arrows)}
         /\ \A region \in Range(Regions) :
              region.nodes \in Chains(DeclaredKernels(source), Arrows)
              /\ region = Region(region.nodes, KernelEffects)
         /\ Arrows \in SUBSET (DeclaredKernels(source) \X DeclaredKernels(source))
<1> DEFINE K      == DeclaredKernels(source)
           chains == Chains(K, Arrows)
           S      == {Region(c, KernelEffects) : c \in chains}
           f      == [c \in chains |-> Region(c, KernelEffects)]
<1>1. DOMAIN KernelEffects = K /\ IsFiniteSet(K) /\ K \subseteq STRING
  BY SourceIs DEF KernelEffects
<1>2. Arrows \in SUBSET (K \X K)
  BY DEF Arrows
<1>3. FusionRegions(KernelEffects, transitions \ source.fallback) = S
  BY <1>1, Zenon DEF FusionRegions, Arrows
<1>4. IsFiniteSet(S)
  <2>1. IsFiniteSet(chains)
    <3> HIDE DEF K
    <3>1. QED
      BY <1>1, <1>2, ChainsAre
  <2>2. S = {f[c] : c \in chains} /\ f = [c \in chains |-> f[c]]
    OBVIOUS
  <2> HIDE DEF f, chains, S
  <2>3. QED
    BY <2>1, <2>2, ImageFinite
<1>5. ASSUME NEW c \in chains
      PROVE  Region(c, KernelEffects) \in FusedRegion /\ Region(c, KernelEffects).nodes = c
  <2>1. c \in Seq(K) /\ Range(c) \subseteq K
    <3> HIDE DEF K
    <3>1. QED
      BY <1>1, <1>2, ChainsPart
  <2>2. \A n \in K : /\ KernelEffects[n].reads \subseteq STRING /\ KernelEffects[n].writes \subseteq STRING
                     /\ KernelEffects[n].locks \subseteq STRING
    <3> SUFFICES ASSUME NEW n \in K
                 PROVE  /\ KernelEffects[n].reads \subseteq STRING
                        /\ KernelEffects[n].writes \subseteq STRING
                        /\ KernelEffects[n].locks \subseteq STRING
      OBVIOUS
    <3>1. Declaration(source, n) \in Declared /\ KernelEffects[n] = EffectsOf(Declaration(source, n))
      BY SourceIs
    <3>2. QED
      BY <3>1 DEF EffectsOf, Declared
  <2>3. c \in Seq(STRING)
    <3> HIDE DEF K
    <3>1. \A i \in 1 .. Len(c) : c[i] \in K
      BY <2>1
    <3>2. Len(c) \in Nat /\ c = [i \in 1 .. Len(c) |-> c[i]]
      BY <2>1
    <3>3. \A i \in 1 .. Len(c) : c[i] \in STRING
      BY <1>1, <3>1
    <3>4. QED
      BY <3>2, <3>3
  <2> HIDE DEF K, chains
  <2>4. QED
    BY <2>1, <2>2, <2>3, RegionIs DEF FusedRegion
<1> HIDE DEF chains
<1>6. S \in SUBSET FusedRegion
  BY <1>5
<1>7. Regions = SetToSeq(S)
  BY <1>3, Zenon DEF Regions
<1>8. Regions \in Seq(FusedRegion) /\ IsInjective(Regions) /\ Range(Regions) = S
  <2> HIDE DEF S
  <2>1. QED
    BY <1>4, <1>6, <1>7, SetToSeqIs
<1>9. ASSUME NEW region \in Range(Regions)
      PROVE  region.nodes \in chains /\ region = Region(region.nodes, KernelEffects)
  <2>1. PICK c \in chains : region = Region(c, KernelEffects)
    BY <1>8
  <2>2. region.nodes = c
    BY <1>5, <2>1
  <2>3. QED
    BY <2>1, <2>2
<1>10. QED
  BY <1>2, <1>8, <1>9 DEF chains

(* The files of a build that succeeded.                                    *)
LEMMA BuiltIs ==
  ASSUME BuildInv, built
  PROVE  /\ source \in Sources \cup Edits /\ SourceAccepted(source) /\ transitions \subseteq Nodes \X Nodes
         /\ files["regions"] = HotRegions /\ files["coverage"] = Coverage(Regions)
         /\ files["handlers"] = Handlers(Regions)
         /\ files["abstract"] = AbstractNodes /\ files["operators"] = Operators
         /\ files["topology"] = [nodes |-> Nodes, transitions |-> transitions, groups |-> groups]
         /\ Regions # <<>> => files["fusion"] = [regions |-> Range(Regions)]
         /\ files["patterns"] = Exprs(source) /\ PatternsAccepted
         /\ files["compiled"] = PatternEdges(files["patterns"])
         /\ groups \subseteq SUBSET Nodes
         /\ \A i \in FlowsBefore(at) : Accepted(source.programs[i].expr, Nodes, EffectsMap)
         /\ at = Len(source.programs) + 1
         /\ transitions = Range(Given) \cup FlowEdges(at)
<1>1. Building /\ PastPrograms /\ Checked /\ PastRegions /\ PastCoverage /\ PastHandlers /\ PastTopology
      /\ PastOperators /\ PastFusion
  BY DEF Building, PastPrograms, Checked, PastRegions, PastCoverage,
         PastHandlers, PastTopology, PastOperators, PastFusion
<1>2. QED
  BY <1>1 DEF BuildInv, SourceInv, ProgramsInv, PatternsInv, EdgesInv, FilesInv

(* Every fused region is a path of its kernels, and all of the links that  *)
(* touch it.                                                               *)
THEOREM FusedPaths == Spec => []FusedOnce
<1>1. BuildInv => FusedOnce
  <2> SUFFICES ASSUME BuildInv, built, Regions # <<>>, NEW region \in files["fusion"].regions
               PROVE  LET r     == region.nodes
                          links == {<<r[i], r[i + 1]>> : i \in 1 .. Len(r) - 1}
                      IN  /\ Len(r) >= 2 /\ IsInjective(r)
                          /\ links = {a \in transitions \ source.fallback :
                                       {a[1], a[2]} \subseteq DeclaredKernels(source)
                                       /\ {a[1], a[2]} \cap Range(r) # {}}
    BY DEF FusedOnce
  <2> DEFINE r == region.nodes
  <2>1. source \in Sources \cup Edits /\ transitions \subseteq Nodes \X Nodes /\ region \in Range(Regions)
    BY BuiltIs
  <2>2. r \in Chains(DeclaredKernels(source), Arrows)
        /\ Arrows \in SUBSET (DeclaredKernels(source) \X DeclaredKernels(source))
    BY <2>1, RegionsAre
  <2>3. IsFiniteSet(DeclaredKernels(source))
    BY <2>1, SourceIs
  <2> HIDE DEF r
  <2>4. /\ Len(r) >= 2 /\ IsInjective(r)
        /\ {<<r[i], r[i + 1]>> : i \in 1 .. Len(r) - 1} = {a \in Arrows : {a[1], a[2]} \cap Range(r) # {}}
    BY <2>2, <2>3, ChainsPart
  <2>5. {a \in Arrows : {a[1], a[2]} \cap Range(r) # {}}
          = {a \in transitions \ source.fallback : {a[1], a[2]} \subseteq DeclaredKernels(source)
                                                  /\ {a[1], a[2]} \cap Range(r) # {}}
    BY DEF Arrows
  <2>6. QED
    BY <2>4, <2>5 DEF r
<1>2. QED
  BY <1>1, BuildInvariant, PTL

(* A region of the hot file for every kernel the source declares.          *)
HotOf(d) == [name |-> d.name, reads |-> d.reads, writes |-> d.writes]

LEMMA HotIs ==
  ASSUME source \in Sources \cup Edits
  PROVE  /\ HotRegions \in HotFile
         /\ Range(HotRegions.regions) = {HotOf(d) : d \in {d \in Declarations(source) : IsKernel(d)}}
<1> DEFINE us      == source.declared
           kept    == {i \in DOMAIN us : IsKernel(us[i])}
           kernels == Only(us, kept)
           hot     == HotRegions.regions
<1>1. us \in Seq(Declared) /\ Declarations(source) = {us[i] : i \in DOMAIN us}
  BY SourceIs DEF Declarations, Range
<1>2. HotRegions = [regions |-> hot] /\ hot = [k \in DOMAIN kernels |-> HotOf(kernels[k])]
  BY DEF HotRegions, HotOf
<1>3. kept \in SUBSET DOMAIN us /\ kept = {i \in DOMAIN us : IsKernel(us[i])}
  OBVIOUS
<1> HIDE DEF us, kept, hot
<1>4. /\ kernels \in Seq(Declared)
      /\ \A k \in DOMAIN kernels : \E i \in kept : kernels[k] = us[i]
      /\ \A i \in kept : \E k \in DOMAIN kernels : kernels[k] = us[i]
  BY <1>1, <1>3, OnlyIs
<1> HIDE DEF kernels
<1>5. hot \in Seq([name : STRING, reads : SUBSET STRING, writes : SUBSET STRING])
  <2>1. Len(kernels) \in Nat /\ DOMAIN kernels = 1 .. Len(kernels)
        /\ \A k \in DOMAIN kernels : kernels[k] \in Declared
    BY <1>4
  <2>2. \A d \in Declared : HotOf(d) \in [name : STRING, reads : SUBSET STRING, writes : SUBSET STRING]
    BY DEF HotOf, Declared
  <2>3. QED
    BY <1>2, <2>1, <2>2
<1>6. Range(hot) = {HotOf(kernels[k]) : k \in DOMAIN kernels}
  BY <1>2 DEF Range
<1>7. {HotOf(kernels[k]) : k \in DOMAIN kernels} = {HotOf(d) : d \in {d \in Declarations(source) : IsKernel(d)}}
  <2>1. {kernels[k] : k \in DOMAIN kernels} = {d \in Declarations(source) : IsKernel(d)}
    BY <1>1, <1>3, <1>4
  <2>2. QED
    BY <2>1
<1>8. HotRegions \in HotFile
  BY <1>2, <1>5 DEF HotFile
<1>9. QED
  BY <1>6, <1>7, <1>8 DEF hot

(* What a fused region touches is a declared tensor of a hot region.       *)
THEOREM FusedTensors == Spec => []FusedTouchTensors
<1>1. BuildInv => FusedTouchTensors
  <2> SUFFICES ASSUME BuildInv, built, Regions # <<>>, NEW region \in files["fusion"].regions,
                      NEW n \in Range(region.nodes)
               PROVE  \E hot \in Range(files["regions"].regions) :
                        /\ hot.name = n
                        /\ \A slot \in hot.reads \cup hot.writes :
                             slot \in DOMAIN source.slots /\ source.slots[slot] = "tensor"
    BY DEF FusedTouchTensors
  <2>1. /\ source \in Sources \cup Edits /\ transitions \subseteq Nodes \X Nodes
        /\ region \in Range(Regions) /\ files["regions"] = HotRegions /\ SourceAccepted(source)
    BY BuiltIs
  <2>2. n \in DeclaredKernels(source)
    <3> DEFINE r == region.nodes
    <3>1. r \in Chains(DeclaredKernels(source), Arrows) /\ IsFiniteSet(DeclaredKernels(source))
          /\ Arrows \in SUBSET (DeclaredKernels(source) \X DeclaredKernels(source))
      BY <2>1, RegionsAre, SourceIs
    <3> HIDE DEF r
    <3>2. Range(r) \subseteq DeclaredKernels(source)
      BY <3>1, ChainsPart
    <3>3. QED
      BY <3>2 DEF r
  <2>3. PICK d \in Declarations(source) : IsKernel(d) /\ d.name = n
    BY <2>2 DEF DeclaredKernels
  <2>4. \A slot \in d.reads \cup d.writes : slot \in DOMAIN source.slots /\ source.slots[slot] = "tensor"
    <3>1. d.reads \cup d.writes \subseteq DOMAIN source.slots
      BY <2>1 DEF SourceAccepted, EffectsDeclared
    <3>2. \A slot \in (d.reads \cup d.writes) \cap DOMAIN source.slots : source.slots[slot] = "tensor"
      BY <2>1, <2>3 DEF SourceAccepted, KernelsPure, IsKernel
    <3>3. QED
      BY <3>1, <3>2
  <2>5. HotOf(d) \in Range(files["regions"].regions)
    BY <2>1, <2>3, HotIs
  <2>6. HotOf(d).name = n /\ HotOf(d).reads = d.reads /\ HotOf(d).writes = d.writes
    BY <2>3 DEF HotOf
  <2>7. QED
    BY <2>4, <2>5, <2>6
<1>2. QED
  BY <1>1, BuildInvariant, PTL

LEMMA ExprsAre ==
  ASSUME source \in Sources \cup Edits
  PROVE  /\ Exprs(source) \in Seq(Expr)
         /\ Range(Exprs(source)) = {p.expr : p \in {q \in Range(source.programs) : HasWeight(q)}}
<1> DEFINE us      == source.programs
           V       == Range(us)
           kept    == {i \in DOMAIN us : HasWeight(us[i])}
           weighed == Only(us, kept)
<1>1. us \in Seq(V) /\ \A p \in V : p.expr \in Expr
  BY SourceIs
<1>2. kept \in SUBSET DOMAIN us /\ \A i \in DOMAIN us : us[i] \in V /\ (i \in kept <=> HasWeight(us[i]))
  BY DEF Range
<1>3. \A p \in V : \E i \in DOMAIN us : p = us[i]
  BY DEF Range
<1>4. Exprs(source) = [i \in DOMAIN weighed |-> weighed[i].expr]
  BY DEF Exprs
<1> HIDE DEF us, V, kept
<1>5. weighed \in Seq(V) /\ \A k \in DOMAIN weighed : \E i \in kept : weighed[k] = us[i]
  BY <1>1, <1>2, OnlyIs
<1>6. \A i \in kept : \E k \in DOMAIN weighed : weighed[k] = us[i]
  BY <1>1, <1>2, OnlyIs
<1> HIDE DEF weighed
<1>7. Len(weighed) \in Nat /\ DOMAIN weighed = 1 .. Len(weighed) /\ \A k \in DOMAIN weighed : weighed[k] \in V
  BY <1>5
<1>8. Exprs(source) \in Seq(Expr)
  BY <1>1, <1>4, <1>7
<1>9. Range(Exprs(source)) = {weighed[k].expr : k \in DOMAIN weighed}
  BY <1>4 DEF Range
<1>10. {weighed[k].expr : k \in DOMAIN weighed} = {p.expr : p \in {q \in V : HasWeight(q)}}
  BY <1>2, <1>3, <1>5, <1>6, <1>7
<1>11. QED
  BY <1>8, <1>9, <1>10 DEF V, us

LEMMA PatternEdgesAre ==
  ASSUME NEW patterns \in Seq(Expr), NEW V \in SUBSET STRING, \A i \in DOMAIN patterns : NodesOf(patterns[i]) \subseteq V
  PROVE  /\ PatternEdges(patterns).edges = UNION {Compiled[e].edges : e \in Range(patterns)}
         /\ PatternEdges(patterns).edges \subseteq V \X V
         /\ PatternEdges(patterns) \in CompiledFile
<1>1. PatternEdges(patterns).edges = UNION {Compiled[e].edges : e \in Range(patterns)}
  BY DEF PatternEdges
<1>2. ASSUME NEW e \in Range(patterns)
      PROVE  Compiled[e].edges \subseteq V \X V
  <2>1. e \in Expr /\ NodesOf(e) \subseteq V
    BY DEF Range
  <2>2. Compiled[e].edges \subseteq NodesOf(e) \X NodesOf(e)
    BY <2>1, CompiledWithin DEF PointSet
  <2>3. QED
    BY <2>1, <2>2
<1>3. PatternEdges(patterns).edges \subseteq V \X V
  BY <1>1, <1>2
<1>4. PatternEdges(patterns).edges \subseteq STRING \X STRING
  BY <1>3
<1>5. QED
  BY <1>1, <1>3, <1>4 DEF PatternEdges, CompiledFile

-------------------------------------------------------------------------------
(* The compiler and the algebra: of the points and the threads of one      *)
(* expression, which are of the other.                                     *)

Links(t)  == {<<t[i], t[i + 1]>> : i \in 1 .. Len(t) - 1}
Firsts(T) == {t[1] : t \in T \ {<<>>}}
Lasts(T)  == {t[Len(t)] : t \in T \ {<<>>}}

LEMMA FollowedInIs ==
  ASSUME NEW T
  PROVE  FollowedIn(T) = UNION {Links(t) : t \in T}
BY DEF FollowedIn, Links

(* The ends and the links of one thread after another.                     *)
Concatenates(t, u, w) ==
  /\ w = <<>> <=> t = <<>> /\ u = <<>>
  /\ Links(t) \subseteq Links(w) /\ Links(u) \subseteq Links(w)
  /\ t # <<>> => w[1] = t[1]
  /\ u # <<>> => w[Len(w)] = u[Len(u)]
  /\ t # <<>> /\ u # <<>> => <<t[Len(t)], u[1]>> \in Links(w)
  /\ \A a \in Links(w) : \/ a \in Links(t) \/ a \in Links(u)
                         \/ t # <<>> /\ u # <<>> /\ a = <<t[Len(t)], u[1]>>

LEMMA LinksJoin ==
  ASSUME NEW V, NEW t \in Seq(V), NEW u \in Seq(V)
  PROVE  t \o u \in Seq(V) /\ Concatenates(t, u, t \o u)
<1> DEFINE m == Len(t)
           n == Len(u)
           w == t \o u
<1>1. m \in Nat /\ n \in Nat /\ w \in Seq(V) /\ Len(w) = m + n
  OBVIOUS
<1>2. (\A i \in 1 .. m : w[i] = t[i]) /\ (\A i \in 1 .. n : w[m + i] = u[i])
  OBVIOUS
<1>3. (t = <<>> <=> m = 0) /\ (u = <<>> <=> n = 0) /\ (w = <<>> <=> Len(w) = 0)
  BY EmptySeq DEF m, n
<1> HIDE DEF m, n, w
<1>4. w = <<>> <=> t = <<>> /\ u = <<>>
  BY <1>1, <1>3
<1>5. Links(t) \subseteq Links(w)
  <2> SUFFICES ASSUME NEW i \in 1 .. m - 1
               PROVE  <<t[i], t[i + 1]>> \in Links(w)
    BY DEF Links, m
  <2>1. i \in 1 .. m /\ i + 1 \in 1 .. m /\ i \in 1 .. Len(w) - 1
    BY <1>1
  <2>2. w[i] = t[i] /\ w[i + 1] = t[i + 1]
    BY <1>2, <2>1
  <2>3. <<w[i], w[i + 1]>> \in Links(w)
    BY <2>1 DEF Links
  <2>4. QED
    BY <2>2, <2>3
<1>6. Links(u) \subseteq Links(w)
  <2> SUFFICES ASSUME NEW i \in 1 .. n - 1
               PROVE  <<u[i], u[i + 1]>> \in Links(w)
    BY DEF Links, n
  <2>1. i \in 1 .. n /\ i + 1 \in 1 .. n /\ m + i \in 1 .. Len(w) - 1 /\ m + (i + 1) = (m + i) + 1
    BY <1>1
  <2>2. w[m + i] = u[i] /\ w[(m + i) + 1] = u[i + 1]
    BY <1>2, <2>1
  <2>3. <<w[m + i], w[(m + i) + 1]>> \in Links(w)
    BY <2>1 DEF Links
  <2>4. QED
    BY <2>2, <2>3
<1>7. t # <<>> => w[1] = t[1]
  BY <1>1, <1>2, <1>3
<1>8. u # <<>> => w[Len(w)] = u[n]
  BY <1>1, <1>2, <1>3
<1>9. ASSUME t # <<>>, u # <<>>
      PROVE  <<t[m], u[1]>> \in Links(w)
  <2>1. m \in 1 .. m /\ 1 \in 1 .. n /\ m \in 1 .. Len(w) - 1
    BY <1>1, <1>3, <1>9
  <2>2. w[m] = t[m] /\ w[m + 1] = u[1]
    BY <1>2, <2>1
  <2>3. <<w[m], w[m + 1]>> \in Links(w)
    BY <2>1 DEF Links
  <2>4. QED
    BY <2>2, <2>3
<1>10. ASSUME NEW a \in Links(w)
       PROVE  a \in Links(t) \/ a \in Links(u) \/ (t # <<>> /\ u # <<>> /\ a = <<t[m], u[1]>>)
  <2>1. PICK i \in 1 .. Len(w) - 1 : a = <<w[i], w[i + 1]>>
    BY DEF Links
  <2>2. CASE i < m
    <3>1. i \in 1 .. m - 1 /\ i \in 1 .. m /\ i + 1 \in 1 .. m
      BY <1>1, <2>2
    <3>2. a = <<t[i], t[i + 1]>>
      BY <1>2, <2>1, <3>1
    <3>3. QED
      BY <3>1, <3>2 DEF Links, m
  <2>3. CASE i = m
    <3>1. m \in 1 .. m /\ 1 \in 1 .. n
      BY <1>1, <2>3
    <3>2. a = <<t[m], u[1]>>
      BY <1>2, <2>1, <2>3, <3>1
    <3>3. QED
      BY <1>1, <1>3, <3>1, <3>2
  <2>4. CASE i > m
    <3> DEFINE j == i - m
    <3>1. j \in 1 .. n - 1 /\ j \in 1 .. n /\ j + 1 \in 1 .. n /\ m + j = i /\ m + (j + 1) = i + 1
      BY <1>1, <2>4
    <3> HIDE DEF j
    <3>2. w[m + j] = u[j] /\ w[m + (j + 1)] = u[j + 1]
      BY <1>2, <3>1
    <3>3. a = <<u[j], u[j + 1]>>
      BY <2>1, <3>1, <3>2
    <3>4. QED
      BY <3>1, <3>3 DEF Links, n
  <2>5. QED
    BY <1>1, <2>2, <2>3, <2>4
<1>11. QED
  BY <1>1, <1>4, <1>5, <1>6, <1>7, <1>8, <1>9, <1>10 DEF m, n, w, Concatenates

(* Nothing but what the threads have.                                      *)
Sound(p, T) ==
  /\ T # {}
  /\ p.edges \subseteq FollowedIn(T)
  /\ p.starts \subseteq Firsts(T)
  /\ p.ends \subseteq Lasts(T)
  /\ p.starts = {} \/ p.ends = {} => T = {<<>>}

(* All of what the threads have.                                           *)
Complete(p, T) ==
  /\ FollowedIn(T) \subseteq p.edges
  /\ Firsts(T) \subseteq p.starts
  /\ Lasts(T) \subseteq p.ends
  /\ <<>> \in T => T = {<<>>}

LEMMA JoinedHas ==
  ASSUME NEW V, NEW T \in SUBSET Seq(V), NEW U \in SUBSET Seq(V)
  PROVE  /\ T # {} /\ U # {} => Joined(T, U) # {}
         /\ U # {} => FollowedIn(T) \subseteq FollowedIn(Joined(T, U))
                      /\ Firsts(T) \subseteq Firsts(Joined(T, U))
         /\ T # {} => FollowedIn(U) \subseteq FollowedIn(Joined(T, U))
                      /\ Lasts(U) \subseteq Lasts(Joined(T, U))
         /\ Lasts(T) \X Firsts(U) \subseteq FollowedIn(Joined(T, U))
         /\ FollowedIn(Joined(T, U)) \subseteq FollowedIn(T) \cup FollowedIn(U) \cup (Lasts(T) \X Firsts(U))
         /\ \A w \in Joined(T, U) : \E t \in T, u \in U : w = t \o u
<1> DEFINE J == Joined(T, U)
<1>1. \A t \in T, u \in U : t \o u \in J
  BY DEF Joined
<1>2. \A w \in J : \E t \in T, u \in U : w = t \o u
  BY DEF Joined
<1>3. \A t \in T, u \in U : Concatenates(t, u, t \o u)
  BY LinksJoin
<1>4. FollowedIn(T) = UNION {Links(t) : t \in T} /\ FollowedIn(U) = UNION {Links(u) : u \in U}
      /\ FollowedIn(J) = UNION {Links(w) : w \in J}
  BY FollowedInIs
<1> HIDE DEF J
<1>5. ASSUME U # {}
      PROVE  FollowedIn(T) \subseteq FollowedIn(J) /\ Firsts(T) \subseteq Firsts(J)
  <2>1. PICK u \in U : TRUE
    BY <1>5
  <2>2. ASSUME NEW t \in T, NEW a \in Links(t)
        PROVE  a \in FollowedIn(J)
    <3>1. t \o u \in J /\ a \in Links(t \o u)
      BY <1>1, <1>3, <2>1, <2>2 DEF Concatenates
    <3>2. QED
      BY <1>4, <3>1
  <2>3. ASSUME NEW t \in T, t # <<>>
        PROVE  t[1] \in Firsts(J)
    <3>1. t \o u \in J /\ t \o u # <<>> /\ (t \o u)[1] = t[1]
      BY <1>1, <1>3, <2>1, <2>3 DEF Concatenates
    <3>2. QED
      BY <3>1 DEF Firsts
  <2>4. QED
    BY <1>4, <2>2, <2>3 DEF Firsts
<1>6. ASSUME T # {}
      PROVE  FollowedIn(U) \subseteq FollowedIn(J) /\ Lasts(U) \subseteq Lasts(J)
  <2>1. PICK t \in T : TRUE
    BY <1>6
  <2>2. ASSUME NEW u \in U, NEW a \in Links(u)
        PROVE  a \in FollowedIn(J)
    <3>1. t \o u \in J /\ a \in Links(t \o u)
      BY <1>1, <1>3, <2>1, <2>2 DEF Concatenates
    <3>2. QED
      BY <1>4, <3>1
  <2>3. ASSUME NEW u \in U, u # <<>>
        PROVE  u[Len(u)] \in Lasts(J)
    <3>1. t \o u \in J /\ t \o u # <<>> /\ (t \o u)[Len(t \o u)] = u[Len(u)]
      BY <1>1, <1>3, <2>1, <2>3 DEF Concatenates
    <3>2. QED
      BY <3>1 DEF Lasts
  <2>4. QED
    BY <1>4, <2>2, <2>3 DEF Lasts
<1>7. Lasts(T) \X Firsts(U) \subseteq FollowedIn(J)
  <2> SUFFICES ASSUME NEW x \in Lasts(T), NEW y \in Firsts(U)
               PROVE  <<x, y>> \in FollowedIn(J)
    OBVIOUS
  <2>1. PICK t \in T : t # <<>> /\ x = t[Len(t)]
    BY DEF Lasts
  <2>2. PICK u \in U : u # <<>> /\ y = u[1]
    BY DEF Firsts
  <2>3. t \o u \in J /\ <<x, y>> \in Links(t \o u)
    BY <1>1, <1>3, <2>1, <2>2 DEF Concatenates
  <2>4. QED
    BY <1>4, <2>3
<1>8. FollowedIn(J) \subseteq FollowedIn(T) \cup FollowedIn(U) \cup (Lasts(T) \X Firsts(U))
  <2> SUFFICES ASSUME NEW a \in FollowedIn(J)
               PROVE  a \in FollowedIn(T) \cup FollowedIn(U) \cup (Lasts(T) \X Firsts(U))
    OBVIOUS
  <2>1. PICK w \in J : a \in Links(w)
    BY <1>4
  <2>2. PICK t \in T, u \in U : w = t \o u
    BY <1>2
  <2>3. CASE a \in Links(t) \/ a \in Links(u)
    BY <1>4, <2>3
  <2>4. CASE t # <<>> /\ u # <<>> /\ a = <<t[Len(t)], u[1]>>
    BY <2>4 DEF Lasts, Firsts
  <2>5. a \in Links(t) \/ a \in Links(u) \/ (t # <<>> /\ u # <<>> /\ a = <<t[Len(t)], u[1]>>)
    BY <1>3, <2>1, <2>2 DEF Concatenates
  <2>6. QED
    BY <2>3, <2>4, <2>5
<1>9. T # {} /\ U # {} => J # {}
  BY <1>1
<1>10. QED
  BY <1>2, <1>5, <1>6, <1>7, <1>8, <1>9 DEF J

LEMMA JoinedEmpty ==
  ASSUME NEW V, NEW T \in SUBSET Seq(V), NEW U \in SUBSET Seq(V)
  PROVE  /\ T = {<<>>} => Joined(T, U) = U
         /\ U = {<<>>} => Joined(T, U) = T
<1>1. ASSUME NEW t \in Seq(V)
      PROVE  <<>> \o t = t /\ t \o <<>> = t
  BY ConcatEmptySeq
<1>2. \A t \in T : t \o <<>> = t
  BY <1>1
<1>3. \A u \in U : <<>> \o u = u
  BY <1>1
<1>4. ASSUME T = {<<>>}
      PROVE  Joined(T, U) = U
  <2>1. {s \o t : s \in {<<>>}, t \in U} = {<<>> \o t : t \in U}
    OBVIOUS
  <2>2. {<<>> \o t : t \in U} = {t : t \in U}
    BY <1>3
  <2>3. QED
    BY <1>4, <2>1, <2>2 DEF Joined
<1>5. ASSUME U = {<<>>}
      PROVE  Joined(T, U) = T
  <2>1. {s \o t : s \in T, t \in {<<>>}} = {s \o <<>> : s \in T}
    OBVIOUS
  <2>2. {s \o <<>> : s \in T} = {s : s \in T}
    BY <1>2
  <2>3. QED
    BY <1>5, <2>1, <2>2 DEF Joined
<1>6. QED
  BY <1>4, <1>5

LEMMA FollowedBySound ==
  ASSUME NEW V, NEW T \in SUBSET Seq(V), NEW U \in SUBSET Seq(V), NEW p, NEW q,
         Sound(p, T), Sound(q, U)
  PROVE  /\ Sound(FollowedBy(p, q), Joined(T, U))
         /\ Complete(p, T) /\ Complete(q, U) => Complete(FollowedBy(p, q), Joined(T, U))
<1> DEFINE J == Joined(T, U)
           r == FollowedBy(p, q)
<1>1. /\ r.starts = (IF p.starts = {} THEN q.starts ELSE p.starts)
      /\ r.ends = (IF q.ends = {} THEN p.ends ELSE q.ends)
      /\ r.edges = p.edges \cup q.edges \cup (p.ends \X q.starts)
  BY DEF FollowedBy
<1>2. T # {} /\ U # {}
  BY DEF Sound
<1>3. J # {}
  BY <1>2, JoinedHas
<1>4. /\ FollowedIn(T) \subseteq FollowedIn(J) /\ Firsts(T) \subseteq Firsts(J)
      /\ FollowedIn(U) \subseteq FollowedIn(J) /\ Lasts(U) \subseteq Lasts(J)
      /\ Lasts(T) \X Firsts(U) \subseteq FollowedIn(J)
      /\ FollowedIn(J) \subseteq FollowedIn(T) \cup FollowedIn(U) \cup (Lasts(T) \X Firsts(U))
  BY <1>2, JoinedHas
<1>5. (T = {<<>>} => J = U) /\ (U = {<<>>} => J = T)
  BY JoinedEmpty
<1>6. Firsts({<<>>}) = {} /\ Lasts({<<>>}) = {}
  BY DEF Firsts, Lasts
<1>7. \A w \in J : \E t \in T, u \in U : w = t \o u
  BY DEF Joined
<1>8. \A t \in T, u \in U : Concatenates(t, u, t \o u)
  BY LinksJoin
<1> HIDE DEF J, r
<1>9. r.edges \subseteq FollowedIn(J)
  <2>1. p.edges \subseteq FollowedIn(T) /\ q.edges \subseteq FollowedIn(U)
        /\ p.ends \subseteq Lasts(T) /\ q.starts \subseteq Firsts(U)
    BY DEF Sound
  <2>2. QED
    BY <1>1, <1>4, <2>1
<1>10. r.starts \subseteq Firsts(J)
  <2>1. CASE p.starts = {}
    <3>1. J = U /\ r.starts = q.starts
      BY <1>1, <1>5, <2>1 DEF Sound
    <3>2. QED
      BY <3>1 DEF Sound
  <2>2. CASE p.starts # {}
    <3>1. r.starts = p.starts /\ p.starts \subseteq Firsts(T)
      BY <1>1, <2>2 DEF Sound
    <3>2. QED
      BY <1>4, <3>1
  <2>3. QED
    BY <2>1, <2>2
<1>11. r.ends \subseteq Lasts(J)
  <2>1. CASE q.ends = {}
    <3>1. J = T /\ r.ends = p.ends
      BY <1>1, <1>5, <2>1 DEF Sound
    <3>2. QED
      BY <3>1 DEF Sound
  <2>2. CASE q.ends # {}
    <3>1. r.ends = q.ends /\ q.ends \subseteq Lasts(U)
      BY <1>1, <2>2 DEF Sound
    <3>2. QED
      BY <1>4, <3>1
  <2>3. QED
    BY <2>1, <2>2
<1>12. r.starts = {} \/ r.ends = {} => J = {<<>>}
  <2>1. ASSUME r.starts = {} \/ r.ends = {}
        PROVE  (p.starts = {} \/ p.ends = {}) /\ (q.starts = {} \/ q.ends = {})
    BY <1>1, <2>1
  <2>2. QED
    BY <1>5, <2>1 DEF Sound
<1>13. ASSUME Complete(p, T), Complete(q, U)
       PROVE  Complete(r, J)
  <2>1. FollowedIn(J) \subseteq r.edges
    <3>1. FollowedIn(T) \subseteq p.edges /\ FollowedIn(U) \subseteq q.edges
          /\ Lasts(T) \subseteq p.ends /\ Firsts(U) \subseteq q.starts
      BY <1>13 DEF Complete
    <3>2. QED
      BY <1>1, <1>4, <3>1
  <2>2. Firsts(J) \subseteq r.starts
    <3> SUFFICES ASSUME NEW w \in J, w # <<>>
                 PROVE  w[1] \in r.starts
      BY DEF Firsts
    <3>1. PICK t \in T, u \in U : w = t \o u
      BY <1>7
    <3>2. CASE t = <<>>
      <4>1. T = {<<>>}
        BY <1>13, <3>2 DEF Complete
      <4>2. J = U /\ p.starts = {}
        BY <1>5, <1>6, <4>1 DEF Sound
      <4>3. w[1] \in Firsts(U)
        BY <4>2 DEF Firsts
      <4>4. QED
        BY <1>1, <1>13, <4>2, <4>3 DEF Complete
    <3>3. CASE t # <<>>
      <4>1. w[1] = t[1]
        BY <1>8, <3>1, <3>3 DEF Concatenates
      <4>2. t[1] \in Firsts(T)
        BY <3>3 DEF Firsts
      <4>3. t[1] \in p.starts
        BY <1>13, <4>2 DEF Complete
      <4>4. QED
        BY <1>1, <4>1, <4>3
    <3>4. QED
      BY <3>2, <3>3
  <2>3. Lasts(J) \subseteq r.ends
    <3> SUFFICES ASSUME NEW w \in J, w # <<>>
                 PROVE  w[Len(w)] \in r.ends
      BY DEF Lasts
    <3>1. PICK t \in T, u \in U : w = t \o u
      BY <1>7
    <3>2. CASE u = <<>>
      <4>1. U = {<<>>}
        BY <1>13, <3>2 DEF Complete
      <4>2. J = T /\ q.ends = {}
        BY <1>5, <1>6, <4>1 DEF Sound
      <4>3. w[Len(w)] \in Lasts(T)
        BY <4>2 DEF Lasts
      <4>4. QED
        BY <1>1, <1>13, <4>2, <4>3 DEF Complete
    <3>3. CASE u # <<>>
      <4>1. w[Len(w)] = u[Len(u)]
        BY <1>8, <3>1, <3>3 DEF Concatenates
      <4>2. u[Len(u)] \in Lasts(U)
        BY <3>3 DEF Lasts
      <4>3. u[Len(u)] \in q.ends
        BY <1>13, <4>2 DEF Complete
      <4>4. QED
        BY <1>1, <4>1, <4>3
    <3>4. QED
      BY <3>2, <3>3
  <2>4. <<>> \in J => J = {<<>>}
    <3> SUFFICES ASSUME <<>> \in J
                 PROVE  J = {<<>>}
      OBVIOUS
    <3>1. PICK t \in T, u \in U : <<>> = t \o u
      BY <1>7
    <3>2. t = <<>> /\ u = <<>>
      BY <1>8, <3>1 DEF Concatenates
    <3>3. T = {<<>>} /\ U = {<<>>}
      BY <1>13, <3>2 DEF Complete
    <3>4. QED
      BY <1>5, <3>3
  <2>5. QED
    BY <2>1, <2>2, <2>3, <2>4 DEF Complete
<1>14. Sound(r, J)
  BY <1>3, <1>9, <1>10, <1>11, <1>12 DEF Sound
<1>15. QED
  BY <1>13, <1>14 DEF r, J

LEMMA FollowsOnce ==
  ASSUME NEW V, NEW P \in Seq(PointSet(V)), NEW Q \in Seq(PointSet(V)), NEW m \in Nat,
         Len(P) = m + 1, Len(Q) = m, \A i \in 1 .. m : P[i] = Q[i]
  PROVE  InSequence(P) = FollowedBy(InSequence(Q), P[m + 1])
<1>1. PICK u \in [0 .. Len(P) -> PointSet(V)] : Follows(P, u)
  BY FollowsExist
<1>2. PICK v \in [0 .. Len(Q) -> PointSet(V)] : Follows(Q, v)
  BY FollowsExist
<1>3. /\ u[0] = NoPoints /\ v[0] = NoPoints
      /\ \A k \in 1 .. m + 1 : u[k] = FollowedBy(u[k - 1], P[k])
      /\ \A k \in 1 .. m : v[k] = FollowedBy(v[k - 1], P[k])
      /\ InSequence(P) = u[m + 1] /\ InSequence(Q) = v[m]
  BY <1>1, <1>2 DEF Follows
<1> DEFINE same == {k \in Nat : k <= m => u[k] = v[k]}
<1>4. 0 \in same
  BY <1>3
<1>5. ASSUME NEW k \in Nat, k \in same
      PROVE  k + 1 \in same
  <2> SUFFICES ASSUME k + 1 <= m
               PROVE  u[k + 1] = v[k + 1]
    OBVIOUS
  <2>1. k + 1 \in 1 .. m /\ k + 1 \in 1 .. m + 1 /\ (k + 1) - 1 = k /\ k <= m
    OBVIOUS
  <2>2. u[k + 1] = FollowedBy(u[k], P[k + 1]) /\ v[k + 1] = FollowedBy(v[k], P[k + 1])
    BY <1>3, <2>1
  <2>3. QED
    BY <1>5, <2>1, <2>2
<1>6. m \in same
  <2> HIDE DEF same
  <2>1. QED
    BY <1>4, <1>5, SetInduction
<1>7. m + 1 \in 1 .. m + 1 /\ (m + 1) - 1 = m
  OBVIOUS
<1>8. u[m + 1] = FollowedBy(u[m], P[m + 1])
  BY <1>3, <1>7
<1>9. QED
  BY <1>3, <1>6, <1>8

LEMMA EmptySound == Sound(NoPoints, {<<>>}) /\ Complete(NoPoints, {<<>>})
<1>1. FollowedIn({<<>>}) = {} /\ Firsts({<<>>}) = {} /\ Lasts({<<>>}) = {}
  BY DEF FollowedIn, Firsts, Lasts
<1>2. QED
  BY <1>1 DEF Sound, Complete, NoPoints

LEMMA SequenceSound ==
  ASSUME NEW P \in Seq(PointSet(STRING)), NEW S \in Seq(SUBSET Seq(STRING)), Len(P) = Len(S),
         \A i \in 1 .. Len(P) : Sound(P[i], S[i])
  PROVE  /\ Sound(InSequence(P), JoinedAll(S))
         /\ (\A i \in 1 .. Len(P) : Complete(P[i], S[i])) => Complete(InSequence(P), JoinedAll(S))
<1> DEFINE n    == Len(P)
           full == \A i \in 1 .. n : Complete(P[i], S[i])
<1>1. PICK u \in [0 .. Len(P) -> PointSet(STRING)] : Follows(P, u)
  BY FollowsExist
<1>2. PICK v \in [0 .. Len(S) -> SUBSET Seq(STRING)] : Joins(S, v)
  BY JoinsExist
<1>3. /\ u[0] = NoPoints /\ v[0] = {<<>>} /\ n \in Nat
      /\ \A k \in 1 .. n : u[k] = FollowedBy(u[k - 1], P[k])
      /\ \A k \in 1 .. n : v[k] = Joined(v[k - 1], S[k])
      /\ InSequence(P) = u[n] /\ JoinedAll(S) = v[n]
      /\ \A k \in 0 .. n : v[k] \in SUBSET Seq(STRING)
      /\ \A k \in 1 .. n : S[k] \in SUBSET Seq(STRING)
  BY <1>1, <1>2 DEF Follows, Joins
<1> HIDE DEF n, full
<1> DEFINE good == {k \in Nat : k <= n => Sound(u[k], v[k]) /\ (full => Complete(u[k], v[k]))}
<1>4. 0 \in good
  BY <1>3, EmptySound
<1>5. ASSUME NEW k \in Nat, k \in good
      PROVE  k + 1 \in good
  <2> SUFFICES ASSUME k + 1 <= n
               PROVE  Sound(u[k + 1], v[k + 1]) /\ (full => Complete(u[k + 1], v[k + 1]))
    OBVIOUS
  <2>1. k + 1 \in 1 .. n /\ (k + 1) - 1 = k /\ k <= n /\ k \in 0 .. n
    BY <1>3
  <2>2. u[k + 1] = FollowedBy(u[k], P[k + 1]) /\ v[k + 1] = Joined(v[k], S[k + 1])
    BY <1>3, <2>1
  <2>3. Sound(u[k], v[k]) /\ (full => Complete(u[k], v[k]))
    BY <1>5, <2>1
  <2>4. Sound(P[k + 1], S[k + 1]) /\ (full => Complete(P[k + 1], S[k + 1]))
    BY <2>1 DEF n, full
  <2>5. v[k] \in SUBSET Seq(STRING) /\ S[k + 1] \in SUBSET Seq(STRING)
    BY <1>3, <2>1
  <2>6. QED
    BY <2>2, <2>3, <2>4, <2>5, FollowedBySound
<1>6. n \in good
  <2> HIDE DEF good
  <2>1. QED
    BY <1>3, <1>4, <1>5, SetInduction
<1>7. QED
  BY <1>3, <1>6 DEF n, full

(* The copies of the body of a STAR.                                       *)
Copies(p, k)  == InSequence([i \in 1 .. k |-> p])
Threaded(T, k) == JoinedAll([i \in 1 .. k |-> T])

LEMMA CopiesGrow ==
  ASSUME NEW p \in PointSet(STRING), NEW n \in Nat, n > 0
  PROVE  /\ Copies(p, n).starts = p.starts /\ Copies(p, n).ends = p.ends
         /\ \A k \in 1 .. n : Copies(p, k).edges \subseteq Copies(p, n).edges
<1> DEFINE c(k) == [i \in 1 .. k |-> p]
           X    == PointSet(STRING)
<1>1. ASSUME NEW k \in Nat
      PROVE  c(k) \in Seq(X) /\ Len(c(k)) = k /\ \A i \in 1 .. k : c(k)[i] = p
  <2>1. p \in X
    OBVIOUS
  <2> HIDE DEF X
  <2>2. QED
    BY <2>1
<1> HIDE DEF c
<1>2. ASSUME NEW k \in Nat
      PROVE  Copies(p, k + 1) = FollowedBy(Copies(p, k), p)
  <2> DEFINE P == c(k + 1)
             Q == c(k)
  <2>1. /\ P \in Seq(X) /\ Q \in Seq(X) /\ Len(P) = k + 1 /\ Len(Q) = k
        /\ \A i \in 1 .. k : P[i] = Q[i]
        /\ P[k + 1] = p
    <3>1. k + 1 \in Nat /\ k + 1 \in 1 .. k + 1 /\ \A i \in 1 .. k : i \in 1 .. k + 1
      OBVIOUS
    <3> HIDE DEF X
    <3>2. QED
      BY <1>1, <3>1
  <2> HIDE DEF P, Q
  <2>2. InSequence(P) = FollowedBy(InSequence(Q), P[k + 1])
    BY <2>1, FollowsOnce
  <2>3. QED
    BY <2>1, <2>2 DEF P, Q, Copies, c
<1>3. Copies(p, 0) = NoPoints
  <2>1. c(0) \in Seq(X) /\ Len(c(0)) = 0
    BY <1>1
  <2> DEFINE Q == c(0)
  <2> HIDE DEF Q
  <2>2. Q \in Seq(X) /\ Len(Q) = 0
    BY <2>1 DEF Q
  <2>3. PICK u \in [0 .. Len(Q) -> X] : Follows(Q, u)
    BY <2>2, FollowsExist
  <2>4. InSequence(Q) = NoPoints
    BY <2>2, <2>3 DEF Follows
  <2>5. QED
    BY <2>4 DEF Q, Copies, c
<1> DEFINE good == {m \in Nat :
                     /\ m > 0 => Copies(p, m).starts = p.starts /\ Copies(p, m).ends = p.ends
                     /\ \A k \in 1 .. m : Copies(p, k).edges \subseteq Copies(p, m).edges}
<1>4. 0 \in good
  OBVIOUS
<1>5. ASSUME NEW m \in Nat, m \in good
      PROVE  m + 1 \in good
  <2> DEFINE q == Copies(p, m)
             r == Copies(p, m + 1)
  <2>1. /\ r.starts = (IF q.starts = {} THEN p.starts ELSE q.starts)
        /\ r.ends = (IF p.ends = {} THEN q.ends ELSE p.ends)
        /\ q.edges \subseteq r.edges
    <3>1. r = FollowedBy(q, p)
      BY <1>2
    <3> HIDE DEF q, r
    <3>2. QED
      BY <3>1 DEF FollowedBy
  <2>2. IF m = 0 THEN q.starts = {} /\ q.ends = {} ELSE q.starts = p.starts /\ q.ends = p.ends
    BY <1>3, <1>5 DEF NoPoints
  <2> HIDE DEF q, r
  <2>3. r.starts = p.starts /\ r.ends = p.ends
    BY <2>1, <2>2
  <2>4. ASSUME NEW k \in 1 .. m + 1
        PROVE  Copies(p, k).edges \subseteq r.edges
    <3>1. CASE k = m + 1
      BY <3>1 DEF r
    <3>2. CASE k # m + 1
      <4>1. k \in 1 .. m
        BY <3>2
      <4>2. Copies(p, k).edges \subseteq q.edges
        BY <1>5, <4>1 DEF q
      <4>3. QED
        BY <2>1, <4>2
    <3>3. QED
      BY <3>1, <3>2
  <2>5. QED
    BY <2>3, <2>4 DEF r
<1>6. n \in good
  <2> HIDE DEF good
  <2>1. QED
    BY <1>4, <1>5, SetInduction
<1>7. QED
  BY <1>6

LEMMA FollowedMore ==
  ASSUME NEW T, NEW U, T \subseteq U
  PROVE  /\ FollowedIn(T) \subseteq FollowedIn(U)
         /\ Firsts(T) \subseteq Firsts(U) /\ Lasts(T) \subseteq Lasts(U)
BY DEF FollowedIn, Firsts, Lasts

LEMMA RepeatedSound ==
  ASSUME NEW p \in PointSet(STRING), NEW T \in SUBSET Seq(STRING), NEW n \in Nat, n > 0, Sound(p, T)
  PROVE  /\ Sound(Copies(p, n), Repeated(T, n))
         /\ Complete(p, T) => Complete(Copies(p, n), Repeated(T, n))
<1> DEFINE R == Repeated(T, n)
           c == Copies(p, n)
<1>1. R = UNION {Threaded(T, k) : k \in 1 .. n}
  BY DEF Repeated, Threaded
<1>2. ASSUME NEW k \in 1 .. n
      PROVE  /\ Sound(Copies(p, k), Threaded(T, k))
             /\ Complete(p, T) => Complete(Copies(p, k), Threaded(T, k))
             /\ Copies(p, k).starts = p.starts /\ Copies(p, k).ends = p.ends
             /\ Copies(p, k).edges \subseteq c.edges
  <2> DEFINE P == [i \in 1 .. k |-> p]
             S == [i \in 1 .. k |-> T]
             X == PointSet(STRING)
             Y == SUBSET Seq(STRING)
  <2>1. P \in Seq(X) /\ S \in Seq(Y) /\ Len(P) = k /\ Len(S) = k
        /\ \A i \in 1 .. k : P[i] = p /\ S[i] = T
    <3>1. p \in X /\ T \in Y
      OBVIOUS
    <3> HIDE DEF X, Y
    <3>2. QED
      BY <3>1
  <2> HIDE DEF P, S
  <2>2. /\ Sound(InSequence(P), JoinedAll(S))
        /\ Complete(p, T) => Complete(InSequence(P), JoinedAll(S))
    BY <2>1, SequenceSound
  <2>3. k \in Nat /\ k > 0
    OBVIOUS
  <2>4. Copies(p, k).starts = p.starts /\ Copies(p, k).ends = p.ends
    BY <2>3, CopiesGrow
  <2>5. Copies(p, k).edges \subseteq c.edges
    BY CopiesGrow
  <2>6. QED
    BY <2>2, <2>4, <2>5 DEF P, S, Copies, Threaded
<1>3. n \in 1 .. n /\ c.starts = p.starts /\ c.ends = p.ends
  BY CopiesGrow
<1>4. Threaded(T, n) \subseteq R
  BY <1>1, <1>3
<1>5. ASSUME p.starts = {} \/ p.ends = {}
      PROVE  R = {<<>>}
  <2>1. \A k \in 1 .. n : Threaded(T, k) = {<<>>}
    BY <1>2, <1>5 DEF Sound
  <2>2. QED
    BY <1>1, <1>3, <2>1
<1>6. Sound(c, R)
  <2>1. /\ FollowedIn(Threaded(T, n)) \subseteq FollowedIn(R)
        /\ Firsts(Threaded(T, n)) \subseteq Firsts(R) /\ Lasts(Threaded(T, n)) \subseteq Lasts(R)
    BY <1>4, FollowedMore
  <2>2. /\ Threaded(T, n) # {} /\ c.edges \subseteq FollowedIn(Threaded(T, n))
        /\ c.starts \subseteq Firsts(Threaded(T, n)) /\ c.ends \subseteq Lasts(Threaded(T, n))
    BY <1>2, <1>3 DEF Sound
  <2> HIDE DEF R, c
  <2>3. QED
    BY <1>3, <1>4, <1>5, <2>1, <2>2 DEF Sound
<1>7. ASSUME Complete(p, T)
      PROVE  Complete(c, R)
  <2>1. FollowedIn(R) \subseteq c.edges
    <3> SUFFICES ASSUME NEW a \in FollowedIn(R)
                 PROVE  a \in c.edges
      OBVIOUS
    <3>1. PICK t \in R : a \in Links(t)
      BY FollowedInIs
    <3>2. PICK k \in 1 .. n : t \in Threaded(T, k)
      BY <1>1
    <3>3. a \in FollowedIn(Threaded(T, k))
      BY <3>1, <3>2, FollowedInIs
    <3> HIDE DEF c
    <3>4. QED
      BY <1>2, <1>7, <3>3 DEF Complete
  <2>2. Firsts(R) \subseteq c.starts
    <3> SUFFICES ASSUME NEW t \in R, t # <<>>
                 PROVE  t[1] \in c.starts
      BY DEF Firsts
    <3>1. PICK k \in 1 .. n : t \in Threaded(T, k)
      BY <1>1
    <3>2. t[1] \in Firsts(Threaded(T, k))
      BY <3>1 DEF Firsts
    <3> HIDE DEF c
    <3>3. QED
      BY <1>2, <1>3, <1>7, <3>2 DEF Complete
  <2>3. Lasts(R) \subseteq c.ends
    <3> SUFFICES ASSUME NEW t \in R, t # <<>>
                 PROVE  t[Len(t)] \in c.ends
      BY DEF Lasts
    <3>1. PICK k \in 1 .. n : t \in Threaded(T, k)
      BY <1>1
    <3>2. t[Len(t)] \in Lasts(Threaded(T, k))
      BY <3>1 DEF Lasts
    <3> HIDE DEF c
    <3>3. QED
      BY <1>2, <1>3, <1>7, <3>2 DEF Complete
  <2>4. ASSUME <<>> \in R
        PROVE  R = {<<>>}
    <3>1. PICK k \in 1 .. n : <<>> \in Threaded(T, k)
      BY <1>1, <2>4
    <3>2. Threaded(T, k) = {<<>>}
      BY <1>2, <1>7, <3>1 DEF Complete
    <3>3. Firsts({<<>>}) = {}
      BY DEF Firsts
    <3>4. p.starts = {}
      BY <1>2, <3>2, <3>3 DEF Sound
    <3>5. QED
      BY <1>5, <3>4
  <2> HIDE DEF R, c
  <2>5. QED
    BY <2>1, <2>2, <2>3, <2>4 DEF Complete
<1>8. QED
  BY <1>6, <1>7

(* Branches: a PAR leaves out the empty thread.                            *)
LEMMA BranchesHave ==
  ASSUME NEW S, \A i \in DOMAIN S : S[i] # {}, DOMAIN S # {}, NEW T,
         T = UNION Range(S) \/ T = Interleaved(S)
  PROVE  /\ T # {} /\ T \subseteq UNION Range(S)
         /\ UNION Range(S) = {<<>>} => T = {<<>>}
         /\ FollowedIn(UNION Range(S)) \subseteq FollowedIn(T)
         /\ Firsts(UNION Range(S)) \subseteq Firsts(T)
         /\ Lasts(UNION Range(S)) \subseteq Lasts(T)
<1> DEFINE all == UNION Range(S)
<1>1. {} \notin Range(S) /\ all # {}
  BY DEF Range
<1>2. T = all \/ T = (IF all = {<<>>} THEN all ELSE all \ {<<>>})
  BY <1>1 DEF Interleaved
<1> HIDE DEF all
<1>3. T # {} /\ T \subseteq all /\ (all = {<<>>} => T = {<<>>}) /\ all \ {<<>>} \subseteq T
  BY <1>1, <1>2
<1>4. Links(<<>>) = {}
  BY DEF Links
<1>5. FollowedIn(all) \subseteq FollowedIn(T)
  BY <1>3, <1>4, FollowedInIs
<1>6. Firsts(all) \subseteq Firsts(T) /\ Lasts(all) \subseteq Lasts(T)
  BY <1>3 DEF Firsts, Lasts
<1>7. QED
  BY <1>3, <1>5, <1>6 DEF all

LEMMA BesideSound ==
  ASSUME NEW P \in Seq(PointSet(STRING)), NEW S \in Seq(SUBSET Seq(STRING)), Len(P) = Len(S), Len(P) > 0,
         \A i \in 1 .. Len(P) : Sound(P[i], S[i]), NEW T,
         T = UNION Range(S) \/ T = Interleaved(S)
  PROVE  /\ Sound(Beside(P), T)
         /\ (\A i \in 1 .. Len(P) : Complete(P[i], S[i])) /\ (<<>> \in T => T = {<<>>})
              => Complete(Beside(P), T)
<1> DEFINE n   == Len(P)
           all == UNION Range(S)
           b   == Beside(P)
<1>1. n \in Nat /\ 1 \in 1 .. n /\ DOMAIN P = 1 .. n /\ DOMAIN S = 1 .. n
  OBVIOUS
<1>2. /\ b.starts = UNION {P[i].starts : i \in 1 .. n}
      /\ b.ends = UNION {P[i].ends : i \in 1 .. n}
      /\ b.edges = UNION {P[i].edges : i \in 1 .. n}
  BY <1>1 DEF Beside
<1>3. all = UNION {S[i] : i \in 1 .. n}
  BY <1>1 DEF Range
<1>4. \A i \in DOMAIN S : S[i] # {}
  BY <1>1 DEF Sound
<1>5. /\ T # {} /\ T \subseteq all
      /\ all = {<<>>} => T = {<<>>}
      /\ FollowedIn(all) \subseteq FollowedIn(T)
      /\ Firsts(all) \subseteq Firsts(T)
      /\ Lasts(all) \subseteq Lasts(T)
  BY <1>1, <1>4, BranchesHave
<1>6. \A i \in 1 .. n : Sound(P[i], S[i])
  OBVIOUS
<1> HIDE DEF n, all, b
<1>7. ASSUME NEW i \in 1 .. n
      PROVE  /\ FollowedIn(S[i]) \subseteq FollowedIn(T)
             /\ Firsts(S[i]) \subseteq Firsts(T) /\ Lasts(S[i]) \subseteq Lasts(T)
  <2>1. S[i] \subseteq all
    BY <1>3
  <2>2. FollowedIn(S[i]) \subseteq FollowedIn(all) /\ Firsts(S[i]) \subseteq Firsts(all)
        /\ Lasts(S[i]) \subseteq Lasts(all)
    BY <2>1, FollowedMore
  <2>3. QED
    BY <1>5, <2>2
<1>8. Sound(b, T)
  <2>1. b.edges \subseteq FollowedIn(T)
    BY <1>2, <1>6, <1>7 DEF Sound
  <2>2. b.starts \subseteq Firsts(T)
    BY <1>2, <1>6, <1>7 DEF Sound
  <2>3. b.ends \subseteq Lasts(T)
    BY <1>2, <1>6, <1>7 DEF Sound
  <2>4. ASSUME b.starts = {} \/ b.ends = {}
        PROVE  T = {<<>>}
    <3>1. \A i \in 1 .. n : P[i].starts = {} \/ P[i].ends = {}
      BY <1>2, <2>4
    <3>2. \A i \in 1 .. n : S[i] = {<<>>}
      BY <1>6, <3>1 DEF Sound
    <3>3. all = {<<>>}
      BY <1>1, <1>3, <3>2
    <3>4. QED
      BY <1>5, <3>3
  <2>5. QED
    BY <1>5, <2>1, <2>2, <2>3, <2>4 DEF Sound
<1>9. ASSUME \A i \in 1 .. n : Complete(P[i], S[i]), <<>> \in T => T = {<<>>}
      PROVE  Complete(b, T)
  <2>1. FollowedIn(T) \subseteq b.edges
    <3> SUFFICES ASSUME NEW a \in FollowedIn(T)
                 PROVE  a \in b.edges
      OBVIOUS
    <3>1. PICK t \in T : a \in Links(t)
      BY FollowedInIs
    <3>2. PICK i \in 1 .. n : t \in S[i]
      BY <1>3, <1>5
    <3>3. a \in FollowedIn(S[i])
      BY <3>1, <3>2, FollowedInIs
    <3>4. QED
      BY <1>2, <1>9, <3>3 DEF Complete
  <2>2. Firsts(T) \subseteq b.starts
    <3> SUFFICES ASSUME NEW t \in T, t # <<>>
                 PROVE  t[1] \in b.starts
      BY DEF Firsts
    <3>1. PICK i \in 1 .. n : t \in S[i]
      BY <1>3, <1>5
    <3>2. t[1] \in Firsts(S[i])
      BY <3>1 DEF Firsts
    <3>3. QED
      BY <1>2, <1>9, <3>2 DEF Complete
  <2>3. Lasts(T) \subseteq b.ends
    <3> SUFFICES ASSUME NEW t \in T, t # <<>>
                 PROVE  t[Len(t)] \in b.ends
      BY DEF Lasts
    <3>1. PICK i \in 1 .. n : t \in S[i]
      BY <1>3, <1>5
    <3>2. t[Len(t)] \in Lasts(S[i])
      BY <3>1 DEF Lasts
    <3>3. QED
      BY <1>2, <1>9, <3>2 DEF Complete
  <2>4. QED
    BY <1>9, <2>1, <2>2, <2>3 DEF Complete
<1>10. QED
  BY <1>8, <1>9 DEF b, n

LEMMA GroupedKeeps ==
  ASSUME NEW p
  PROVE  /\ Grouped(p).starts = p.starts /\ Grouped(p).ends = p.ends /\ Grouped(p).edges = p.edges
BY DEF Grouped

(* Without a zero the compiler finds nothing that the algebra does not     *)
(* have, and when nothing can be skipped it finds all of it.               *)
LEMMA CompiledSound ==
  ASSUME NEW e \in Expr, NEW known, NEW effects, Accepted(e, known, effects)
  PROVE  /\ ZeroFree(e) => Sound(Compiled[e], Threads[e])
         /\ Definite(e) => Complete(Compiled[e], Threads[e])
<1> DEFINE Good(d) == /\ ZeroFree(d) => Sound(Compiled[d], Threads[d])
                      /\ Definite(d) => Complete(Compiled[d], Threads[d])
           T == {d \in Expr : Accepted(d, known, effects) => Good(d)}
<1>1. \A d \in Expr : Parts(d) \subseteq T => d \in T
  <2> SUFFICES ASSUME NEW d \in Expr, Parts(d) \subseteq T, Accepted(d, known, effects)
               PROVE  Good(d)
    OBVIOUS
  <2> DEFINE c == Compiled[d]
             t == Threads[d]
             P == [i \in DOMAIN d.items |-> Compiled[d.items[i]]]
             S == [i \in DOMAIN d.items |-> Threads[d.items[i]]]
             X == PointSet(STRING)
             Y == SUBSET Seq(STRING)
  <2>1. c = CompiledOf(d, Compiled) /\ t = ThreadsOf(d, Threads)
    BY CompiledIs, ThreadsIs
  <2>2. ASSUME NEW p \in Parts(d)
        PROVE  /\ Good(p) /\ Compiled[p] \in X /\ Threads[p] \in Y
               /\ ZeroFree(d) => ZeroFree(p)
               /\ Definite(d) => Definite(p)
    <3>1. p \in Expr /\ Within[p] \subseteq Within[d]
      BY WithinSelf
    <3>2. Accepted(p, known, effects)
      BY AcceptedIs
    <3>3. Compiled[p] \in X /\ Threads[p] \in Y
      BY <3>1, CompiledIs, ThreadsIs
    <3>4. Good(p)
      BY <2>2, <3>2
    <3>5. QED
      BY <3>1, <3>3, <3>4 DEF ZeroFree, Definite
  <2>3. /\ Definite(d) => ZeroFree(d)
        /\ Definite(d) => (<<>> \in t => t = {<<>>})
    BY WithinSelf DEF Definite
  <2> HIDE DEF c, t
  <2>4. CASE d.form \in {"seq", "choice", "par"}
    <3>1. /\ \A i \in DOMAIN d.items : d.items[i] \in Parts(d)
          /\ Len(d.items) > 0 /\ DOMAIN d.items = 1 .. Len(d.items)
      BY <2>4, PartsAre, AcceptedIs
    <3>2. P \in Seq(X) /\ Len(P) = Len(d.items)
      <4>1. \A p \in Parts(d) : Compiled[p] \in X
        BY <2>2
      <4> HIDE DEF X
      <4>2. QED
        BY <2>4, <4>1, ImagesOf
    <3>3. S \in Seq(Y) /\ Len(S) = Len(d.items)
      <4>1. \A p \in Parts(d) : Threads[p] \in Y
        BY <2>2
      <4> HIDE DEF Y
      <4>2. QED
        BY <2>4, <4>1, ImagesOf
    <3>4. /\ ZeroFree(d) => \A i \in 1 .. Len(P) : Sound(P[i], S[i])
          /\ Definite(d) => \A i \in 1 .. Len(P) : Complete(P[i], S[i])
      <4>1. ASSUME NEW i \in DOMAIN d.items
            PROVE  /\ ZeroFree(d) => Sound(Compiled[d.items[i]], Threads[d.items[i]])
                   /\ Definite(d) => Complete(Compiled[d.items[i]], Threads[d.items[i]])
        BY <2>2, <3>1
      <4>2. \A i \in DOMAIN d.items : P[i] = Compiled[d.items[i]] /\ S[i] = Threads[d.items[i]]
        OBVIOUS
      <4>3. 1 .. Len(P) = DOMAIN d.items
        BY <3>1, <3>2
      <4> HIDE DEF P, S
      <4>4. QED
        BY <4>1, <4>2, <4>3
    <3>5. CASE d.form = "seq"
      <4>1. c = InSequence(P) /\ t = JoinedAll(S)
        BY <2>1, <3>5, CompiledOfIs, ThreadsOfIs
      <4> HIDE DEF P, S
      <4>2. ASSUME ZeroFree(d)
            PROVE  /\ Sound(InSequence(P), JoinedAll(S))
                   /\ (\A i \in 1 .. Len(P) : Complete(P[i], S[i])) => Complete(InSequence(P), JoinedAll(S))
        BY <3>2, <3>3, <3>4, <4>2, SequenceSound
      <4>3. QED
        BY <2>3, <3>4, <4>1, <4>2 DEF c, t
    <3>6. CASE d.form \in {"choice", "par"}
      <4>1. /\ c.starts = Beside(P).starts /\ c.ends = Beside(P).ends /\ c.edges = Beside(P).edges
            /\ t = UNION Range(S) \/ t = Interleaved(S)
        <5>1. c \in {Beside(P), Grouped(Beside(P))} /\ t \in {UNION Range(S), Interleaved(S)}
          BY <2>1, <3>6, CompiledOfIs, ThreadsOfIs
        <5> HIDE DEF P, S
        <5>2. QED
          BY <5>1, GroupedKeeps
      <4> HIDE DEF P, S
      <4>2. ASSUME ZeroFree(d)
            PROVE  /\ Sound(Beside(P), t)
                   /\ (\A i \in 1 .. Len(P) : Complete(P[i], S[i])) /\ (<<>> \in t => t = {<<>>})
                        => Complete(Beside(P), t)
        <5>1. Len(P) > 0 /\ Len(P) = Len(S) /\ \A i \in 1 .. Len(P) : Sound(P[i], S[i])
          BY <3>1, <3>2, <3>3, <3>4, <4>2
        <5>2. QED
          BY <3>2, <3>3, <4>1, <5>1, BesideSound
      <4>3. ZeroFree(d) => Sound(c, t)
        BY <4>1, <4>2 DEF Sound
      <4>4. Definite(d) => Complete(Beside(P), t)
        BY <2>3, <3>4, <4>2
      <4>5. Definite(d) => Complete(c, t)
        BY <4>1, <4>4 DEF Complete
      <4>6. QED
        BY <4>3, <4>5 DEF c, t
    <3>7. QED
      BY <2>4, <3>5, <3>6
  <2>5. CASE d.form = "star"
    <3> DEFINE p == Compiled[d.body]
               U == Threads[d.body]
               n == d.max_unroll
    <3>1. d.body \in Parts(d) /\ n \in Nat /\ n > 0
      BY <2>5, PartsAre, AcceptedIs
    <3>2. c = Copies(p, n) /\ t = Repeated(U, n)
      BY <2>1, <2>5, CompiledOfIs, ThreadsOfIs DEF Copies
    <3>3. /\ p \in X /\ U \in Y
          /\ ZeroFree(d) => Sound(p, U)
          /\ Definite(d) => Complete(p, U)
      BY <2>2, <3>1
    <3> HIDE DEF p, U, n
    <3>4. ASSUME ZeroFree(d)
          PROVE  /\ Sound(Copies(p, n), Repeated(U, n))
                 /\ Complete(p, U) => Complete(Copies(p, n), Repeated(U, n))
      BY <3>1, <3>3, <3>4, RepeatedSound
    <3>5. QED
      BY <2>3, <3>2, <3>3, <3>4 DEF c, t
  <2>6. CASE d.form \notin {"seq", "choice", "par", "star"}
    <3>1. d.form = "name"
      BY <2>6, PartsAre
    <3>2. CASE IsZero(d)
      BY <2>3, <3>2, WithinSelf DEF ZeroFree
    <3>3. CASE IsOne(d)
      <4>1. c = NoPoints /\ t = {<<>>}
        BY <2>1, <3>1, <3>3, CompiledOfIs, ThreadsOfIs DEF IsNode
      <4>2. QED
        BY <4>1, EmptySound DEF c, t
    <3>4. CASE IsNode(d)
      <4>1. c = PointOf(d.name) /\ t = {<<d.name>>}
        BY <2>1, <3>1, <3>4, CompiledOfIs, ThreadsOfIs
      <4>2. Firsts(t) = {d.name} /\ Lasts(t) = {d.name} /\ FollowedIn(t) = {} /\ <<>> \notin t /\ t # {}
        <5> DEFINE w == <<d.name>>
        <5>1. w # <<>> /\ w[1] = d.name /\ Len(w) = 1 /\ t = {w}
          BY <4>1
        <5> HIDE DEF w
        <5>2. t \ {<<>>} = {w} /\ w[Len(w)] = d.name /\ 1 .. Len(w) - 1 = {}
          BY <5>1
        <5>3. Firsts(t) = {d.name} /\ Lasts(t) = {d.name}
          BY <5>1, <5>2 DEF Firsts, Lasts
        <5>4. FollowedIn(t) = {}
          <6>1. Links(w) = {}
            BY <5>2 DEF Links
          <6>2. QED
            BY <5>1, <6>1, FollowedInIs
        <5>5. QED
          BY <5>1, <5>3, <5>4
      <4>3. Sound(c, t) /\ Complete(c, t)
        BY <4>1, <4>2 DEF Sound, Complete, PointOf
      <4>4. QED
        BY <4>3 DEF c, t
    <3>5. QED
      BY <3>1, <3>2, <3>3, <3>4 DEF IsNode
  <2>7. QED
    BY <2>4, <2>5, <2>6
<1>2. Expr \subseteq T
  <2> HIDE DEF T
  <2>1. QED
    BY <1>1, TreeInduction
<1>3. QED
  BY <1>2

LEMMA MatchesAlgebra ==
  ASSUME NEW exprs \in SUBSET Expr, NEW known, NEW effects, \A e \in exprs : Accepted(e, known, effects),
         NEW given, NEW edges, edges = given \cup UNION {Compiled[e].edges : e \in exprs}
  PROVE  Matches(edges, given, exprs)
<1> DEFINE algebra == given \cup UNION {Followed(e) : e \in exprs}
<1>1. \A e \in exprs : /\ ZeroFree(e) => Compiled[e].edges \subseteq Followed(e)
                       /\ Definite(e) => Followed(e) \subseteq Compiled[e].edges
  BY CompiledSound DEF Sound, Complete, Followed
<1>2. (\A e \in exprs : ZeroFree(e)) => edges \subseteq algebra
  BY <1>1
<1>3. (\A e \in exprs : Definite(e)) => algebra \subseteq edges
  BY <1>1
<1>4. QED
  BY <1>2, <1>3, Zenon DEF Matches

(* Handlers' numbers: two regions with the same one are the same.          *)
LEMMA NumbersDiffer ==
  ASSUME NEW V, NEW regions \in Seq(V)
  PROVE  /\ \A c, d \in Coverage(regions).handlers : c[2] = d[2] => c = d
         /\ \A c \in Coverage(regions).handlers : c[1] \in DOMAIN StaticHandlers \/ c \in Handlers(regions).handlers
         /\ {c[1] : c \in Coverage(regions).handlers} = {regions[i].nodes : i \in DOMAIN regions}
<1> DEFINE n    == Len(regions)
           kept == Generated(regions)
           number(i) == HandlerOf(regions, i)
<1>1. n \in Nat /\ DOMAIN regions = 1 .. n
  OBVIOUS
<1>2. kept = {i \in 1 .. n : regions[i].nodes \notin DOMAIN StaticHandlers} /\ kept \in SUBSET (1 .. n)
  BY <1>1 DEF Generated
<1>20. kept \in SUBSET (1 .. n)
  BY <1>2
<1> HIDE DEF n, kept
<1>3. ASSUME NEW i \in 1 .. n
      PROVE  /\ i \notin kept => number(i) = StaticHandlers[regions[i].nodes]
                                 /\ number(i) \in 0 .. FirstGenerated - 1
             /\ i \in kept => number(i) = FirstGenerated + Rank(kept, i - 1)
                              /\ number(i) = FirstGenerated + Cardinality({j \in kept : j < i})
  <2>1. CASE i \notin kept
    <3>1. regions[i].nodes \in DOMAIN StaticHandlers
      BY <1>2, <2>1
    <3>2. number(i) = StaticHandlers[regions[i].nodes]
      BY <3>1 DEF HandlerOf
    <3>3. QED
      BY <2>1, <3>1, <3>2, BuildAssumption
  <2>2. CASE i \in kept
    <3>1. regions[i].nodes \notin DOMAIN StaticHandlers
      BY <1>2, <2>2
    <3>2. number(i) = FirstGenerated
                      + Cardinality({j \in 1 .. i - 1 : regions[j].nodes \notin DOMAIN StaticHandlers})
      BY <3>1 DEF HandlerOf
    <3>3. {j \in 1 .. i - 1 : regions[j].nodes \notin DOMAIN StaticHandlers} = {j \in kept : j <= i - 1}
      BY <1>1, <1>2
    <3>4. {j \in kept : j < i} = {j \in kept : j <= i - 1}
      BY <1>1, <1>2
    <3>5. number(i) = FirstGenerated + Rank(kept, i - 1)
      BY <3>2, <3>3 DEF Rank
    <3>6. number(i) = FirstGenerated + Cardinality({j \in kept : j < i})
      BY <3>2, <3>3, <3>4
    <3>7. QED
      BY <2>2, <3>5, <3>6
  <2>3. QED
    BY <2>1, <2>2
<1>4. Coverage(regions).handlers = {<<regions[i].nodes, number(i)>> : i \in 1 .. n}
  BY <1>1 DEF Coverage
<1>5. Handlers(regions).handlers
        = {<<regions[i].nodes, FirstGenerated + Cardinality({j \in kept : j < i})>> : i \in kept}
  BY DEF Handlers, kept
<1> HIDE DEF number
<1>6. ASSUME NEW i \in 1 .. n, NEW k \in 1 .. n, number(i) = number(k)
      PROVE  regions[i].nodes = regions[k].nodes
  <2>1. CASE i \notin kept /\ k \notin kept
    <3>1. regions[i].nodes \in DOMAIN StaticHandlers /\ regions[k].nodes \in DOMAIN StaticHandlers
      BY <1>2, <2>1
    <3>2. StaticHandlers[regions[i].nodes] = StaticHandlers[regions[k].nodes]
      BY <1>3, <1>6, <2>1
    <3>3. \A a, b \in DOMAIN StaticHandlers : StaticHandlers[a] = StaticHandlers[b] => a = b
      BY BuildAssumption DEF IsInjective
    <3>4. QED
      BY <3>1, <3>2, <3>3
  <2>2. CASE (i \notin kept /\ k \in kept) \/ (i \in kept /\ k \notin kept)
    <3>1. \A m \in kept : number(m) >= FirstGenerated
      <4>1. ASSUME NEW m \in kept
            PROVE  number(m) >= FirstGenerated
        <5>1. Rank(kept, m - 1) \in Nat /\ m \in 1 .. n
          BY <1>1, <1>2, RankType
        <5>2. number(m) = FirstGenerated + Rank(kept, m - 1) /\ FirstGenerated \in Nat
          BY <1>3, <5>1, BuildAssumption
        <5>3. QED
          BY <5>1, <5>2
      <4>2. QED
        BY <4>1
    <3>2. \A m \in (1 .. n) \ kept : number(m) \in 0 .. FirstGenerated - 1
      BY <1>3
    <3>3. FirstGenerated \in Nat
      BY BuildAssumption
    <3>4. QED
      BY <1>6, <2>2, <3>1, <3>2, <3>3
  <2>3. CASE i \in kept /\ k \in kept
    <3>1. number(i) = FirstGenerated + Rank(kept, i - 1) /\ number(k) = FirstGenerated + Rank(kept, k - 1)
      BY <1>3, <2>3
    <3>2. \A m \in kept : Rank(kept, m) = Rank(kept, m - 1) + 1 /\ Rank(kept, m - 1) \in Nat
      <4> SUFFICES ASSUME NEW m \in kept
                   PROVE  Rank(kept, m) = Rank(kept, m - 1) + 1 /\ Rank(kept, m - 1) \in Nat
        OBVIOUS
      <4>1. m \in 1 .. n
        BY <1>2
      <4>2. Rank(kept, m) = IF m \in kept THEN Rank(kept, m - 1) + 1 ELSE Rank(kept, m - 1)
        BY <1>1, <1>20, <4>1, RankStep
      <4>3. Rank(kept, m - 1) \in Nat
        BY <1>1, <1>20, RankType
      <4>4. QED
        BY <4>2, <4>3
    <3>3. FirstGenerated \in Nat
      BY BuildAssumption
    <3>4. Rank(kept, i) = Rank(kept, k)
      <4> DEFINE a == Rank(kept, i - 1)
                 b == Rank(kept, k - 1)
      <4>1. /\ Rank(kept, i) = a + 1 /\ Rank(kept, k) = b + 1 /\ a \in Nat /\ b \in Nat
            /\ FirstGenerated + a = FirstGenerated + b
        BY <1>6, <2>3, <3>1, <3>2
      <4> HIDE DEF a, b
      <4>2. a = b
        BY <3>3, <4>1
      <4>3. QED
        BY <4>1, <4>2
    <3>5. i = k
      <4>1. i \in kept /\ k \in kept /\ n \in Nat /\ kept \in SUBSET (1 .. n)
        BY <1>1, <1>2, <2>3
      <4>2. QED
        BY <3>4, <4>1, RankOne
    <3>6. QED
      BY <3>5
  <2>4. QED
    BY <2>1, <2>2, <2>3
<1>7. \A c, d \in Coverage(regions).handlers : c[2] = d[2] => c = d
  <2> SUFFICES ASSUME NEW c \in Coverage(regions).handlers, NEW d \in Coverage(regions).handlers, c[2] = d[2]
               PROVE  c = d
    OBVIOUS
  <2>1. PICK i \in 1 .. n : c = <<regions[i].nodes, number(i)>>
    BY <1>4
  <2>2. PICK k \in 1 .. n : d = <<regions[k].nodes, number(k)>>
    BY <1>4
  <2>3. number(i) = number(k)
    BY <2>1, <2>2
  <2>4. regions[i].nodes = regions[k].nodes
    BY <1>6, <2>3
  <2>5. QED
    BY <2>1, <2>2, <2>3, <2>4
<1>8. \A c \in Coverage(regions).handlers : c[1] \in DOMAIN StaticHandlers \/ c \in Handlers(regions).handlers
  <2> SUFFICES ASSUME NEW c \in Coverage(regions).handlers, c[1] \notin DOMAIN StaticHandlers
               PROVE  c \in Handlers(regions).handlers
    OBVIOUS
  <2>1. PICK i \in 1 .. n : c = <<regions[i].nodes, number(i)>>
    BY <1>4
  <2>2. i \in kept
    BY <1>2, <2>1
  <2>3. number(i) = FirstGenerated + Cardinality({j \in kept : j < i})
    BY <1>3, <2>2
  <2>4. QED
    BY <1>5, <2>1, <2>2, <2>3
<1>9. {c[1] : c \in Coverage(regions).handlers} = {regions[i].nodes : i \in DOMAIN regions}
  <2>1. \A i \in 1 .. n : <<regions[i].nodes, number(i)>>[1] = regions[i].nodes
    OBVIOUS
  <2>2. {c[1] : c \in Coverage(regions).handlers} = {<<regions[i].nodes, number(i)>>[1] : i \in 1 .. n}
    BY <1>4
  <2>3. QED
    BY <1>1, <2>1, <2>2
<1>10. QED
  BY <1>7, <1>8, <1>9

(* The handlers' files have their types, and a handler of the CUDA source  *)
(* is that of its chain.                                                   *)
LEMMA HandlersTyped ==
  ASSUME NEW regions \in Seq(FusedRegion)
  PROVE  /\ Coverage(regions) \in HandlersFile /\ Handlers(regions) \in HandlersFile
         /\ HandlersKnown(Coverage(regions))
<1> DEFINE n         == Len(regions)
           chain(i)  == regions[i].nodes
           kept      == Generated(regions)
           below(i)  == Cardinality({j \in kept : j < i})
           number(i) == HandlerOf(regions, i)
<1>1. n \in Nat /\ DOMAIN regions = 1 .. n
  OBVIOUS
<1>2. \A i \in 1 .. n : chain(i) \in Seq(STRING)
  <2>1. \A i \in 1 .. n : regions[i] \in FusedRegion
    BY <1>1
  <2>2. \A region \in FusedRegion : region.nodes \in Seq(STRING)
    BY DEF FusedRegion
  <2>3. QED
    BY <2>1, <2>2
<1>3. kept = {i \in 1 .. n : chain(i) \notin DOMAIN StaticHandlers} /\ kept \in SUBSET (1 .. n)
  BY <1>1 DEF Generated
<1> HIDE DEF n, kept
<1>4. \A i \in 1 .. n : below(i) \in Nat
  <2> SUFFICES ASSUME NEW i \in 1 .. n
               PROVE  Cardinality({j \in kept : j < i}) \in Nat
    OBVIOUS
  <2>1. {j \in kept : j < i} = {j \in kept : j <= i - 1}
    BY <1>1, <1>3
  <2>2. Rank(kept, i - 1) \in Nat
    BY <1>1, <1>3, RankType
  <2>3. QED
    BY <2>1, <2>2 DEF Rank
<1>5. ASSUME NEW i \in 1 .. n
      PROVE  /\ i \in kept => number(i) = FirstGenerated + below(i)
             /\ i \notin kept => /\ chain(i) \in DOMAIN StaticHandlers
                                /\ number(i) = StaticHandlers[chain(i)]
                                /\ number(i) \in 0 .. FirstGenerated - 1
  <2>1. CASE i \in kept
    <3>1. regions[i].nodes \notin DOMAIN StaticHandlers
      BY <1>3, <2>1
    <3>2. {j \in 1 .. i - 1 : regions[j].nodes \notin DOMAIN StaticHandlers} = {j \in kept : j < i}
      BY <1>1, <1>3
    <3>3. QED
      BY <2>1, <3>1, <3>2 DEF HandlerOf
  <2>2. CASE i \notin kept
    <3>1. regions[i].nodes \in DOMAIN StaticHandlers
      BY <1>3, <2>2
    <3>2. QED
      BY <2>2, <3>1, BuildAssumption DEF HandlerOf
  <2>3. QED
    BY <2>1, <2>2
<1>6. Coverage(regions) = [handlers |-> {<<chain(i), number(i)>> : i \in 1 .. n}]
  BY <1>1 DEF Coverage
<1>7. Handlers(regions) = [handlers |-> {<<chain(i), FirstGenerated + below(i)>> : i \in kept}]
  BY DEF Handlers, kept
<1> HIDE DEF chain, below, number
<1>8. FirstGenerated \in Nat
  BY BuildAssumption
<1>9. \A i \in 1 .. n : number(i) \in Nat /\ (number(i) < FirstGenerated => i \notin kept)
  BY <1>4, <1>5, <1>8
<1>10. Coverage(regions) \in HandlersFile
  <2>1. {<<chain(i), number(i)>> : i \in 1 .. n} \subseteq Seq(STRING) \X Nat
    BY <1>2, <1>9
  <2>2. QED
    BY <1>6, <2>1 DEF HandlersFile
<1>11. Handlers(regions) \in HandlersFile
  <2>1. \A i \in kept : FirstGenerated + below(i) \in Nat /\ chain(i) \in Seq(STRING)
    BY <1>2, <1>3, <1>4, <1>8
  <2>2. {<<chain(i), FirstGenerated + below(i)>> : i \in kept} \subseteq Seq(STRING) \X Nat
    BY <2>1
  <2>3. QED
    BY <1>7, <2>2 DEF HandlersFile
<1>12. HandlersKnown(Coverage(regions))
  <2>1. \A i \in 1 .. n : number(i) < FirstGenerated =>
          chain(i) \in DOMAIN StaticHandlers /\ StaticHandlers[chain(i)] = number(i)
    BY <1>5, <1>9
  <2>2. \A c \in Coverage(regions).handlers : \E i \in 1 .. n : c[1] = chain(i) /\ c[2] = number(i)
    BY <1>6
  <2>3. QED
    BY <2>1, <2>2 DEF HandlersKnown
<1>13. QED
  BY <1>10, <1>11, <1>12

(* The state has its types, and the files of a build that succeeded load   *)
(* at the start but for three reasons, whatever was there before: with     *)
(* nothing to fuse the fusion file may never have been written whole, and  *)
(* a kernel's slot or an agent's node may have no operator.                *)
THEOREM BuiltLoads == Spec => []Inv
<1>1. BuildInv => Inv
  <2> SUFFICES ASSUME BuildInv, built
               PROVE  /\ FilesLoad <=> Readable("fusion") /\ KernelSlotsOperated /\ AgentsOperated
                      /\ Regions # <<>> => Readable("fusion")
    BY DEF Inv, BuiltFilesLoad, BuildInv
  <2>1. /\ source \in Sources \cup Edits /\ transitions \subseteq Nodes \X Nodes
        /\ files["regions"] = HotRegions /\ files["coverage"] = Coverage(Regions)
        /\ files["handlers"] = Handlers(Regions)
        /\ files["abstract"] = AbstractNodes /\ files["operators"] = Operators
        /\ files["topology"] = [nodes |-> Nodes, transitions |-> transitions, groups |-> groups]
        /\ Regions # <<>> => files["fusion"] = [regions |-> Range(Regions)]
        /\ files["patterns"] = Exprs(source) /\ PatternsAccepted
        /\ files["compiled"] = PatternEdges(files["patterns"])
        /\ groups \subseteq SUBSET Nodes
    BY BuiltIs
  <2>2. Nodes \in SUBSET STRING
    BY <2>1, SourceIs
  <2>3. files["topology"] \in TopologyFile
    <3>1. transitions \in SUBSET (STRING \X STRING)
      BY <2>1, <2>2
    <3>2. groups \in SUBSET SUBSET STRING
      BY <2>1, <2>2
    <3>3. QED
      BY <2>1, <2>2, <3>1, <3>2 DEF TopologyFile
  <2>4. Regions \in Seq(FusedRegion)
    BY <2>1, RegionsAre
  <2>5. Regions # <<>> => files["fusion"] \in FusionFile
    <3>1. Range(Regions) \subseteq FusedRegion
      BY <2>4, RangeFinite
    <3>2. QED
      BY <2>1, <3>1 DEF FusedRegion, FusionFile
  <2>6. files["topology"].nodes = Nodes
    BY <2>1
  <2>7. files["compiled"] \in CompiledFile /\ files["compiled"].edges \subseteq Nodes \X Nodes
    <3>1. files["patterns"] \in Seq(Expr)
      BY <2>1, ExprsAre
    <3>2. \A i \in DOMAIN files["patterns"] : NodesOf(files["patterns"][i]) \subseteq Nodes
      BY <2>1, <2>6 DEF PatternsAccepted, Accepted
    <3>3. QED
      BY <2>1, <2>2, <3>1, <3>2, PatternEdgesAre
  <2>8. files["regions"] \in HotFile
        /\ Range(files["regions"].regions) = {HotOf(d) : d \in {d \in Declarations(source) : IsKernel(d)}}
    BY <2>1, HotIs
  <2>9. files["coverage"] \in HandlersFile /\ files["handlers"] \in HandlersFile
        /\ HandlersKnown(files["coverage"])
    BY <2>1, <2>4, HandlersTyped
  <2>10. files["abstract"] \in AbstractFile
    <3> DEFINE nodes == AbstractNodes.nodes
    <3>1. AbstractNodes = [nodes |-> nodes] /\ nodes \subseteq Nodes
      BY DEF AbstractNodes
    <3> HIDE DEF nodes
    <3>2. nodes \in SUBSET STRING
      BY <2>2, <3>1
    <3>3. QED
      BY <2>1, <3>1, <3>2 DEF AbstractFile
  <2>11. /\ Readable("operators") /\ Readable("topology") /\ Readable("regions") /\ Readable("compiled")
         /\ files["coverage"] # Torn /\ files["abstract"] # Torn /\ files["handlers"] # Torn
         /\ Regions # <<>> => Readable("fusion")
    <3>1. Readable("operators")
      BY <2>1, FileAssumption DEF Readable
    <3>2. Readable("topology") /\ Readable("regions") /\ Readable("compiled")
      BY <2>3, <2>7, <2>8, FileAssumption DEF Readable
    <3>3. files["coverage"] # Torn /\ files["abstract"] # Torn /\ files["handlers"] # Torn
      BY <2>9, <2>10, FileAssumption
    <3>4. Regions # <<>> => Readable("fusion")
      BY <2>5, FileAssumption DEF Readable
    <3>5. QED
      BY <3>1, <3>2, <3>3, <3>4
  <2>12. (\A hot \in Range(files["regions"].regions) :
            hot.reads \cup hot.writes \subseteq SlotsOf(files["operators"])) <=> KernelSlotsOperated
    <3>1. \A d : HotOf(d).reads = d.reads /\ HotOf(d).writes = d.writes
      BY DEF HotOf
    <3>2. QED
      BY <2>1, <2>8, <3>1 DEF KernelSlotsOperated
  <2>13. (files["topology"].nodes \cap AgentNodes \subseteq DOMAIN files["operators"]) <=> AgentsOperated
    BY <2>1, <2>6 DEF AgentsOperated
  <2>14. files["compiled"].edges \subseteq files["topology"].nodes \X files["topology"].nodes
    BY <2>6, <2>7
  <2>15. QED
    BY <2>9, <2>11, <2>12, <2>13, <2>14 DEF FilesLoad
<1>2. QED
  BY <1>1, BuildInvariant, PTL

(* A build that succeeds leaves the files that its source asks for.        *)
THEOREM BuildsCoherently == Spec => []BuildCoherent
<1>1. BuildInv => BuildCoherent
  <2> SUFFICES ASSUME BuildInv, built
               PROVE  /\ files["patterns"] = Exprs(source)
                      /\ files["topology"].nodes = Nodes
                      /\ Matches(files["topology"].transitions, Range(Given), FlowExprs)
                      /\ Matches(files["compiled"].edges, {}, Range(Exprs(source)))
                      /\ Regions # <<>> => files["fusion"].regions = Range(Regions)
                      /\ {c[1] : c \in files["coverage"].handlers} = {Regions[i].nodes : i \in DOMAIN Regions}
                      /\ \A c, d \in files["coverage"].handlers : c[2] = d[2] => c = d
                      /\ \A c \in files["coverage"].handlers :
                           c[1] \in DOMAIN StaticHandlers \/ c \in files["handlers"].handlers
    BY DEF BuildCoherent
  <2>1. /\ source \in Sources \cup Edits /\ transitions \subseteq Nodes \X Nodes
        /\ files["coverage"] = Coverage(Regions) /\ files["handlers"] = Handlers(Regions)
        /\ files["topology"] = [nodes |-> Nodes, transitions |-> transitions, groups |-> groups]
        /\ Regions # <<>> => files["fusion"] = [regions |-> Range(Regions)]
        /\ files["patterns"] = Exprs(source) /\ PatternsAccepted /\ files["operators"] = Operators
        /\ files["compiled"] = PatternEdges(files["patterns"])
        /\ \A i \in FlowsBefore(at) : Accepted(source.programs[i].expr, Nodes, EffectsMap)
        /\ at = Len(source.programs) + 1
        /\ transitions = Range(Given) \cup FlowEdges(at)
    BY BuiltIs
  <2>2. Matches(transitions, Range(Given), FlowExprs)
    <3>1. source.programs \in Seq(Range(source.programs)) /\ \A p \in Range(source.programs) : p.expr \in Expr
      BY <2>1, SourceIs
    <3>2. FlowsBefore(at) = {i \in DOMAIN source.programs : source.programs[i].kind # "cka_pattern"}
      <4>1. Len(source.programs) \in Nat /\ DOMAIN source.programs = 1 .. Len(source.programs)
        BY <3>1
      <4>2. 1 .. at - 1 = 1 .. Len(source.programs)
        BY <2>1, <4>1
      <4>3. QED
        BY <4>1, <4>2 DEF FlowsBefore
    <3>3. FlowExprs = {source.programs[i].expr : i \in FlowsBefore(at)}
      BY <3>2 DEF FlowExprs, Range
    <3>4. FlowEdges(at) = UNION {Compiled[e].edges : e \in FlowExprs}
      BY <3>3 DEF FlowEdges
    <3>5. FlowExprs \in SUBSET Expr
      BY <3>1 DEF FlowExprs
    <3>6. \A e \in FlowExprs : Accepted(e, Nodes, EffectsMap)
      BY <2>1, <3>3
    <3>7. transitions = Range(Given) \cup UNION {Compiled[e].edges : e \in FlowExprs}
      BY <2>1, <3>4
    <3>8. QED
      BY <3>5, <3>6, <3>7, MatchesAlgebra
  <2>3. Matches(files["compiled"].edges, {}, Range(Exprs(source)))
    <3> DEFINE exprs == Range(Exprs(source))
    <3>1. Exprs(source) \in Seq(Expr)
      BY <2>1, ExprsAre
    <3>2. exprs \in SUBSET Expr
      BY <3>1, RangeFinite
    <3>3. \A e \in exprs : Accepted(e, files["topology"].nodes, Operators)
      BY <2>1 DEF PatternsAccepted, Range
    <3>4. files["compiled"].edges = UNION {Compiled[e].edges : e \in exprs}
      BY <2>1 DEF PatternEdges
    <3> HIDE DEF exprs
    <3>5. files["compiled"].edges = {} \cup UNION {Compiled[e].edges : e \in exprs}
      BY <3>4
    <3>6. Matches(files["compiled"].edges, {}, exprs)
      BY <3>2, <3>3, <3>5, MatchesAlgebra
    <3>7. QED
      BY <3>6 DEF exprs
  <2>4. Regions \in Seq(FusedRegion)
    BY <2>1, RegionsAre
  <2>5. /\ \A c, d \in Coverage(Regions).handlers : c[2] = d[2] => c = d
        /\ \A c \in Coverage(Regions).handlers : c[1] \in DOMAIN StaticHandlers \/ c \in Handlers(Regions).handlers
        /\ {c[1] : c \in Coverage(Regions).handlers} = {Regions[i].nodes : i \in DOMAIN Regions}
    <3> DEFINE regions == Regions
    <3>1. regions \in Seq(FusedRegion)
      BY <2>4
    <3> HIDE DEF regions
    <3>2. /\ \A c, d \in Coverage(regions).handlers : c[2] = d[2] => c = d
          /\ \A c \in Coverage(regions).handlers : c[1] \in DOMAIN StaticHandlers \/ c \in Handlers(regions).handlers
          /\ {c[1] : c \in Coverage(regions).handlers} = {regions[i].nodes : i \in DOMAIN regions}
      BY <3>1, NumbersDiffer
    <3>3. QED
      BY <3>2 DEF regions
  <2>6. files["topology"].nodes = Nodes /\ files["topology"].transitions = transitions
    BY <2>1
  <2>7. Regions # <<>> => files["fusion"].regions = Range(Regions)
    BY <2>1
  <2>8. QED
    BY <2>1, <2>2, <2>3, <2>5, <2>6, <2>7
<1>2. QED
  BY <1>1, BuildInvariant, PTL

-------------------------------------------------------------------------------
(* The lowering: sequences of sequences put together, and what they hold.  *)

LEMMA RangeJoins ==
  ASSUME NEW V, NEW s \in Seq(V), NEW t \in Seq(V)
  PROVE  s \o t \in Seq(V) /\ Range(s \o t) = Range(s) \cup Range(t)
<1>1. s \o t \in Seq(V) /\ Len(s \o t) = Len(s) + Len(t) /\ Len(s) \in Nat /\ Len(t) \in Nat
  OBVIOUS
<1>2. DOMAIN (s \o t) = 1 .. Len(s) + Len(t) /\ DOMAIN s = 1 .. Len(s) /\ DOMAIN t = 1 .. Len(t)
  BY <1>1
<1>3. \A i \in 1 .. Len(s) + Len(t) : (s \o t)[i] = IF i <= Len(s) THEN s[i] ELSE t[i - Len(s)]
  OBVIOUS
<1>4. \A i \in DOMAIN s : i \in DOMAIN (s \o t) /\ (s \o t)[i] = s[i]
  BY <1>1, <1>2, <1>3
<1>5. \A i \in DOMAIN t : Len(s) + i \in DOMAIN (s \o t) /\ (s \o t)[Len(s) + i] = t[i]
  BY <1>1, <1>2, <1>3
<1>6. \A i \in DOMAIN (s \o t) : \/ (i \in DOMAIN s /\ (s \o t)[i] = s[i])
                                  \/ (i - Len(s) \in DOMAIN t /\ (s \o t)[i] = t[i - Len(s)])
  BY <1>1, <1>2, <1>3
<1>7. Range(s \o t) = {(s \o t)[i] : i \in DOMAIN (s \o t)}
  BY DEF Range
<1>8. Range(s) = {s[i] : i \in DOMAIN s} /\ Range(t) = {t[i] : i \in DOMAIN t}
  BY DEF Range
<1>9. Range(s \o t) \subseteq Range(s) \cup Range(t)
  BY <1>6, <1>7, <1>8
<1>10. Range(s) \subseteq Range(s \o t)
  BY <1>4, <1>7, <1>8
<1>11. Range(t) \subseteq Range(s \o t)
  BY <1>5, <1>7, <1>8
<1>12. QED
  BY <1>1, <1>9, <1>10, <1>11

LEMMA FlattenIs ==
  ASSUME NEW V, NEW s \in Seq(Seq(V))
  PROVE  FlattenSeq(s) \in Seq(V) /\ Range(FlattenSeq(s)) = UNION {Range(s[i]) : i \in DOMAIN s}
<1> DEFINE n == Len(s)
           X == Seq(V)
<1>1. n \in Nat /\ DOMAIN s = 1 .. n /\ \A i \in 1 .. n : s[i] \in X
  OBVIOUS
<1>2. CASE n = 0
  <2>1. FlattenSeq(s) = s /\ s = <<>>
    BY <1>2 DEF FlattenSeq
  <2>2. QED
    BY <2>1 DEF Range
<1>3. CASE n # 0
  <2> DEFINE pred == [i \in 1 .. n |-> i - 1]
             step == [i \in 1 .. n |-> [T \in X |-> T \o s[i]]]
             first == [i \in 1 .. n |-> s[i]]
  <2>1. pred \in [1 .. n -> Nat] /\ (\A i \in 1 .. n : pred[i] < i) /\ first \in [1 .. n -> X]
    BY <1>1
  <2>2. step \in [1 .. n -> [X -> X]]
    <3>1. \A i \in 1 .. n : \A T \in X : T \o s[i] \in X
      BY <1>1
    <3> HIDE DEF n, X
    <3>2. QED
      BY <3>1
  <2>3. PICK f \in [1 .. n -> X] : \A i \in 1 .. n : f[i] = IF pred[i] = 0 THEN first[i] ELSE step[i][f[pred[i]]]
    <3> HIDE DEF n, X, pred, step, first
    <3>1. Recurs(X, n, pred, first, step)
      BY <1>1, <2>1, <2>2, Recursion
    <3>2. QED
      BY <3>1 DEF Recurs
  <2>4. f = [i \in 1 .. n |-> IF i = 1 THEN s[i] ELSE f[i - 1] \o s[i]]
    <3>1. ASSUME NEW i \in 1 .. n
          PROVE  f[i] = IF i = 1 THEN s[i] ELSE f[i - 1] \o s[i]
      <4>1. pred[i] = i - 1 /\ first[i] = s[i] /\ (i - 1 = 0 <=> i = 1)
        BY <1>1
      <4>2. f[i] = IF i = 1 THEN s[i] ELSE step[i][f[i - 1]]
        BY <2>3, <4>1
      <4>3. ASSUME i # 1
            PROVE  step[i][f[i - 1]] = f[i - 1] \o s[i]
        <5>1. i - 1 \in 1 .. n
          BY <1>1, <4>3
        <5>2. f[i - 1] \in X
          BY <5>1
        <5> HIDE DEF X, n
        <5>3. QED
          BY <5>2
      <4> HIDE DEF step
      <4>4. QED
        BY <4>2, <4>3
    <3> HIDE DEF n, X, pred, step, first
    <3>2. QED
      BY <3>1
  <2> DEFINE flatten[i \in 1 .. n] == IF i = 1 THEN s[i] ELSE flatten[i - 1] \o s[i]
  <2>5. flatten = [i \in 1 .. n |-> IF i = 1 THEN s[i] ELSE flatten[i - 1] \o s[i]]
    <3> HIDE DEF n, X, pred, step, first
    <3>1. QED
      BY <2>4, Zenon DEF flatten
  <2>6. FlattenSeq(s) = flatten[n]
    BY <1>3, Zenon DEF FlattenSeq
  <2> HIDE DEF flatten, pred, step, first
  <2> DEFINE good == {k \in Nat : k \in 1 .. n =>
                       flatten[k] \in X /\ Range(flatten[k]) = UNION {Range(s[i]) : i \in 1 .. k}}
  <2>7. 0 \in good
    OBVIOUS
  <2>8. ASSUME NEW k \in Nat, k \in good
        PROVE  k + 1 \in good
    <3> SUFFICES ASSUME k + 1 \in 1 .. n
                 PROVE  /\ flatten[k + 1] \in X
                        /\ Range(flatten[k + 1]) = UNION {Range(s[i]) : i \in 1 .. k + 1}
      OBVIOUS
    <3>1. (k + 1) - 1 = k /\ (k # 0 => k + 1 # 1 /\ k \in 1 .. n) /\ s[k + 1] \in X
      BY <1>1
    <3>2. flatten[k + 1] = IF k + 1 = 1 THEN s[k + 1] ELSE flatten[k] \o s[k + 1]
      <4> HIDE DEF n
      <4>1. QED
        BY <2>5, <3>1
    <3>3. CASE k = 0
      <4>1. flatten[k + 1] = s[k + 1] /\ 1 .. k + 1 = {k + 1}
        BY <3>2, <3>3
      <4>2. QED
        BY <3>1, <4>1
    <3>4. CASE k # 0
      <4>1. flatten[k] \in X /\ Range(flatten[k]) = UNION {Range(s[i]) : i \in 1 .. k}
        BY <2>8, <3>1, <3>4
      <4>2. flatten[k + 1] = flatten[k] \o s[k + 1]
        BY <3>1, <3>2, <3>4
      <4> HIDE DEF n
      <4>3. flatten[k + 1] \in X /\ Range(flatten[k + 1]) = Range(flatten[k]) \cup Range(s[k + 1])
        BY <3>1, <4>1, <4>2, RangeJoins
      <4>4. 1 .. k + 1 = (1 .. k) \cup {k + 1}
        OBVIOUS
      <4> HIDE DEF X
      <4>5. UNION {Range(s[i]) : i \in 1 .. k + 1} = (UNION {Range(s[i]) : i \in 1 .. k}) \cup Range(s[k + 1])
        BY <4>4
      <4>6. QED
        BY <4>1, <4>3, <4>5
    <3>5. QED
      BY <3>3, <3>4
  <2>9. n \in good
    <3> HIDE DEF good, n
    <3>1. QED
      BY <1>1, <2>7, <2>8, SetInduction
  <2>10. QED
    BY <1>1, <1>3, <2>6, <2>9
<1>4. QED
  BY <1>2, <1>3

(* Of elements with the same key one after the other the first is kept.    *)
LEMMA DedupIs ==
  ASSUME NEW V, NEW s \in Seq(V), NEW key
  PROVE  /\ Dedup(s, key) \in Seq(V) /\ Range(Dedup(s, key)) \subseteq Range(s)
         /\ \A i \in DOMAIN s : \E j \in DOMAIN s : key[j] = key[i] /\ s[j] \in Range(Dedup(s, key))
<1> DEFINE kept == {i \in DOMAIN s : i = 1 \/ key[i] # key[i - 1]}
           d    == Dedup(s, key)
           same == {i \in Nat : i \in DOMAIN s =>
                     \E j \in DOMAIN s : key[j] = key[i] /\ s[j] \in Range(d)}
<1>1. d = Only(s, kept) /\ kept \in SUBSET DOMAIN s
  BY DEF Dedup
<1>2. /\ d \in Seq(V)
      /\ \A k \in DOMAIN d : \E i \in kept : d[k] = s[i]
      /\ \A i \in kept : \E k \in DOMAIN d : d[k] = s[i]
  <2> HIDE DEF d, kept
  <2>1. QED
    BY <1>1, OnlyIs
<1>3. DOMAIN s = 1 .. Len(s) /\ Len(s) \in Nat
  OBVIOUS
<1> HIDE DEF d
<1>4. \A i \in kept : s[i] \in Range(d)
  BY <1>2 DEF Range
<1>5. Range(d) \subseteq Range(s)
  BY <1>1, <1>2 DEF Range
<1>6. 0 \in same
  BY <1>3
<1>7. ASSUME NEW i \in Nat, i \in same
      PROVE  i + 1 \in same
  <2> SUFFICES ASSUME i + 1 \in DOMAIN s
               PROVE  \E j \in DOMAIN s : key[j] = key[i + 1] /\ s[j] \in Range(d)
    OBVIOUS
  <2>1. (i + 1) - 1 = i
    OBVIOUS
  <2>2. CASE i + 1 \in kept
    BY <1>4, <2>2
  <2>3. CASE i + 1 \notin kept
    <3>1. i + 1 # 1 /\ key[i + 1] = key[i]
      BY <2>1, <2>3
    <3>2. i \in DOMAIN s
      BY <1>3, <3>1
    <3>3. QED
      BY <1>7, <3>1, <3>2
  <2>4. QED
    BY <2>2, <2>3
<1>8. Nat \subseteq same
  <2> HIDE DEF same
  <2>1. QED
    BY <1>6, <1>7, SetInduction
<1>9. \A i \in DOMAIN s : \E j \in DOMAIN s : key[j] = key[i] /\ s[j] \in Range(d)
  BY <1>3, <1>8
<1>10. QED
  BY <1>2, <1>5, <1>9 DEF d

(* Without the key every element is one that is kept.                      *)
LEMMA DedupKeeps ==
  ASSUME NEW V, NEW s \in Seq(V)
  PROVE  Dedup(s, s) \in Seq(V) /\ Range(Dedup(s, s)) = Range(s)
<1> DEFINE d == Dedup(s, s)
<1>1. /\ d \in Seq(V) /\ Range(d) \subseteq Range(s)
      /\ \A i \in DOMAIN s : \E j \in DOMAIN s : s[j] = s[i] /\ s[j] \in Range(d)
  <2>1. /\ Dedup(s, s) \in Seq(V) /\ Range(Dedup(s, s)) \subseteq Range(s)
        /\ \A i \in DOMAIN s : \E j \in DOMAIN s : s[j] = s[i] /\ s[j] \in Range(Dedup(s, s))
    BY DedupIs
  <2>2. QED
    BY <2>1
<1> HIDE DEF d
<1>2. \A x \in Range(s) : x \in Range(d)
  BY <1>1 DEF Range
<1>3. QED
  BY <1>1, <1>2 DEF d

-------------------------------------------------------------------------------
(* What lowering gives.                                                    *)

(* The ends of an edge, that of a halt included.                           *)
Points       == STRING \cup {"none"}
ControlOps   == {"seq", "star", "choice", "par", "halt"}
ControlEdges == [op : ControlOps, lhs : Points, rhs : Points, order : Nat, bound : Nat]
LoweredSet   == [edges : Seq(ControlEdges), entries : Seq(STRING), exits : Seq(STRING)]

(* The edges of all of the parts.                                          *)
PartEdges(S) == UNION {Range(S[i].edges) : i \in DOMAIN S}

LEMMA MapIs ==
  ASSUME NEW n \in Nat, NEW X, NEW f, DOMAIN f = 1 .. n, f = [i \in 1 .. n |-> f[i]],
         \A i \in 1 .. n : f[i] \in X
  PROVE  f \in Seq(X) /\ Len(f) = n
<1>1. f \in [1 .. n -> X]
  OBVIOUS
<1>2. QED
  BY <1>1

LEMMA EdgesOfIs ==
  ASSUME NEW S \in Seq(LoweredSet)
  PROVE  /\ EdgesOf(S) \in Seq(ControlEdges) /\ Range(EdgesOf(S)) = PartEdges(S)
         /\ EntriesOf(S) \in Seq(STRING) /\ Range(EntriesOf(S)) = UNION {Range(S[i].entries) : i \in DOMAIN S}
         /\ ExitsOf(S) \in Seq(STRING) /\ Range(ExitsOf(S)) = UNION {Range(S[i].exits) : i \in DOMAIN S}
<1> DEFINE n == Len(S)
<1>1. n \in Nat /\ DOMAIN S = 1 .. n /\ \A i \in 1 .. n : S[i] \in LoweredSet
  OBVIOUS
<1> HIDE DEF n
<1>2. \A i \in 1 .. n : S[i].edges \in Seq(ControlEdges) /\ S[i].entries \in Seq(STRING) /\ S[i].exits \in Seq(STRING)
  BY <1>1 DEF LoweredSet
<1> DEFINE edges   == [i \in 1 .. n |-> S[i].edges]
           entries == [i \in 1 .. n |-> S[i].entries]
           exits   == [i \in 1 .. n |-> S[i].exits]
<1>3. edges \in Seq(Seq(ControlEdges)) /\ entries \in Seq(Seq(STRING)) /\ exits \in Seq(Seq(STRING))
  <2>1. \A i \in 1 .. n : edges[i] \in Seq(ControlEdges) /\ entries[i] \in Seq(STRING) /\ exits[i] \in Seq(STRING)
    BY <1>2
  <2>2. DOMAIN edges = 1 .. n /\ DOMAIN entries = 1 .. n /\ DOMAIN exits = 1 .. n
    OBVIOUS
  <2>3. edges = [i \in 1 .. n |-> edges[i]] /\ entries = [i \in 1 .. n |-> entries[i]] /\ exits = [i \in 1 .. n |-> exits[i]]
    OBVIOUS
  <2> HIDE DEF edges, entries, exits
  <2>4. QED
    BY <1>1, <2>1, <2>2, <2>3, MapIs
<1>4. EdgesOf(S) = FlattenSeq(edges) /\ EntriesOf(S) = FlattenSeq(entries) /\ ExitsOf(S) = FlattenSeq(exits)
  BY <1>1 DEF EdgesOf, EntriesOf, ExitsOf
<1>5. /\ UNION {Range(edges[i]) : i \in DOMAIN edges} = PartEdges(S)
      /\ UNION {Range(entries[i]) : i \in DOMAIN entries} = UNION {Range(S[i].entries) : i \in DOMAIN S}
      /\ UNION {Range(exits[i]) : i \in DOMAIN exits} = UNION {Range(S[i].exits) : i \in DOMAIN S}
  BY <1>1 DEF PartEdges
<1> HIDE DEF edges, entries, exits
<1>6. \A V : \A s \in Seq(Seq(V)) :
        FlattenSeq(s) \in Seq(V) /\ Range(FlattenSeq(s)) = UNION {Range(s[i]) : i \in DOMAIN s}
  BY FlattenIs
<1>7. FlattenSeq(edges) \in Seq(ControlEdges) /\ Range(FlattenSeq(edges)) = PartEdges(S)
  BY <1>3, <1>5, <1>6
<1>8. FlattenSeq(entries) \in Seq(STRING) /\ Range(FlattenSeq(entries)) = UNION {Range(S[i].entries) : i \in DOMAIN S}
  BY <1>3, <1>5, <1>6
<1>9. FlattenSeq(exits) \in Seq(STRING) /\ Range(FlattenSeq(exits)) = UNION {Range(S[i].exits) : i \in DOMAIN S}
  BY <1>3, <1>5, <1>6
<1>10. QED
  BY <1>4, <1>7, <1>8, <1>9

(* An edge from each of some names to each of others.                      *)
Every(op, lefts, rights, order, bound) ==
  {ControlEdge(op, l, r, order, bound) : l \in Range(lefts), r \in Range(rights)}

Crosses(op, lefts, rights, order, bound) ==
  /\ Cross(op, lefts, rights, order, bound) \in Seq(ControlEdges)
  /\ Range(Cross(op, lefts, rights, order, bound)) = Every(op, lefts, rights, order, bound)

LEMMA CrossIs ==
  ASSUME NEW op \in ControlOps, NEW lefts \in Seq(STRING), NEW rights \in Seq(STRING),
         NEW order \in Nat, NEW bound \in Nat
  PROVE  Crosses(op, lefts, rights, order, bound)
<1> DEFINE n == Len(lefts)
           m == Len(rights)
           row(i) == [j \in 1 .. m |-> ControlEdge(op, lefts[i], rights[j], order, bound)]
           rows   == [i \in 1 .. n |-> row(i)]
<1>1. /\ n \in Nat /\ m \in Nat /\ DOMAIN lefts = 1 .. n /\ DOMAIN rights = 1 .. m
      /\ \A i \in 1 .. n : lefts[i] \in STRING
      /\ \A j \in 1 .. m : rights[j] \in STRING
  OBVIOUS
<1> HIDE DEF n, m
<1>2. \A i \in 1 .. n, j \in 1 .. m : ControlEdge(op, lefts[i], rights[j], order, bound) \in ControlEdges
  BY <1>1 DEF ControlEdge, ControlEdges, Points
<1>3. \A i \in 1 .. n : row(i) \in Seq(ControlEdges) /\ DOMAIN row(i) = 1 .. m
  <2> SUFFICES ASSUME NEW i \in 1 .. n
               PROVE  row(i) \in Seq(ControlEdges) /\ DOMAIN row(i) = 1 .. m
    OBVIOUS
  <2> DEFINE edge(j) == ControlEdge(op, lefts[i], rights[j], order, bound)
  <2>1. \A j \in 1 .. m : edge(j) \in ControlEdges
    BY <1>2
  <2> HIDE DEF edge
  <2>2. [j \in 1 .. m |-> edge(j)] \in Seq(ControlEdges)
    BY <1>1, <2>1
  <2>3. QED
    BY <2>2 DEF edge
<1>4. rows \in Seq(Seq(ControlEdges)) /\ DOMAIN rows = 1 .. n /\ \A i \in 1 .. n : rows[i] = row(i)
  <2> HIDE DEF row
  <2>1. QED
    BY <1>1, <1>3
<1>5. Cross(op, lefts, rights, order, bound) = FlattenSeq(rows)
  BY <1>1 DEF Cross
<1>6. \A i \in 1 .. n : Range(row(i)) = {ControlEdge(op, lefts[i], rights[j], order, bound) : j \in 1 .. m}
  BY <1>3 DEF Range
<1> HIDE DEF rows, row
<1>7. UNION {Range(rows[i]) : i \in DOMAIN rows}
        = UNION {{ControlEdge(op, lefts[i], rights[j], order, bound) : j \in 1 .. m} : i \in 1 .. n}
  <2> DEFINE edge(i, j) == ControlEdge(op, lefts[i], rights[j], order, bound)
  <2>1. \A i \in 1 .. n : Range(rows[i]) = {edge(i, j) : j \in 1 .. m}
    BY <1>4, <1>6
  <2> HIDE DEF edge
  <2>2. UNION {Range(rows[i]) : i \in DOMAIN rows} = UNION {{edge(i, j) : j \in 1 .. m} : i \in 1 .. n}
    BY <1>4, <2>1
  <2>3. QED
    BY <2>2 DEF edge
<1>8. Range(lefts) = {lefts[i] : i \in 1 .. n} /\ Range(rights) = {rights[j] : j \in 1 .. m}
  BY <1>1 DEF Range
<1>9. UNION {{ControlEdge(op, lefts[i], rights[j], order, bound) : j \in 1 .. m} : i \in 1 .. n}
        = Every(op, lefts, rights, order, bound)
  BY <1>8 DEF Every
<1>10. QED
  BY <1>4, <1>5, <1>7, <1>9, FlattenIs DEF Crosses

(* An edge between two branches, one way or the other.                     *)
Between(x, op, lefts, rights) ==
  /\ x.op = op
  /\ \/ x.lhs \in Range(lefts) /\ x.rhs \in Range(rights)
     \/ x.rhs \in Range(lefts) /\ x.lhs \in Range(rights)

LEMMA LinkIs ==
  ASSUME NEW op \in {"choice", "par"}, NEW lefts \in Seq(STRING), NEW rights \in Seq(STRING)
  PROVE  /\ Link(op, lefts, rights) \in Seq(ControlEdges)
         /\ \A x \in Range(Link(op, lefts, rights)) : Between(x, op, lefts, rights)
<1>1. CASE op = "choice"
  <2>1. Link(op, lefts, rights) = Cross("choice", lefts, rights, 0, 0)
    BY <1>1 DEF Link
  <2>2. /\ Cross("choice", lefts, rights, 0, 0) \in Seq(ControlEdges)
        /\ Range(Cross("choice", lefts, rights, 0, 0)) = Every("choice", lefts, rights, 0, 0)
    <3>1. Crosses("choice", lefts, rights, 0, 0)
      BY CrossIs DEF ControlOps
    <3>2. QED
      BY <3>1 DEF Crosses
  <2>3. \A x \in Every("choice", lefts, rights, 0, 0) :
          x.op = op /\ x.lhs \in Range(lefts) /\ x.rhs \in Range(rights)
    BY <1>1 DEF Every, ControlEdge
  <2>4. \A x \in Every("choice", lefts, rights, 0, 0) : Between(x, op, lefts, rights)
    BY <1>1, <2>3 DEF Between
  <2>5. QED
    BY <2>1, <2>2, <2>4
<1>2. CASE op = "par"
  <2> DEFINE n == Len(lefts)
             m == Len(rights)
             pair(i, j) == <<ControlEdge("par", lefts[i], rights[j], 0, 0),
                             ControlEdge("par", rights[j], lefts[i], 0, 0)>>
             row(i) == [j \in 1 .. m |-> pair(i, j)]
             rows   == [i \in 1 .. n |-> FlattenSeq(row(i))]
             fine(x) == /\ x.op = op
                        /\ \/ x.lhs \in Range(lefts) /\ x.rhs \in Range(rights)
                           \/ x.rhs \in Range(lefts) /\ x.lhs \in Range(rights)
             K == {x \in ControlEdges : fine(x)}
  <2>1. /\ n \in Nat /\ m \in Nat /\ DOMAIN lefts = 1 .. n /\ DOMAIN rights = 1 .. m
        /\ \A i \in 1 .. n : lefts[i] \in STRING /\ lefts[i] \in Range(lefts)
        /\ \A j \in 1 .. m : rights[j] \in STRING /\ rights[j] \in Range(rights)
    BY DEF Range
  <2> HIDE DEF n, m
  <2>2. ASSUME NEW i \in 1 .. n, NEW j \in 1 .. m
        PROVE  pair(i, j) \in Seq(K)
    <3>1. ControlEdge("par", lefts[i], rights[j], 0, 0) \in K
      <4> DEFINE x == ControlEdge("par", lefts[i], rights[j], 0, 0)
      <4>1. x \in ControlEdges /\ x.op = "par" /\ x.lhs = lefts[i] /\ x.rhs = rights[j]
        BY <2>1 DEF ControlEdge, ControlEdges, ControlOps, Points
      <4> HIDE DEF x
      <4>2. x \in K
        BY <1>2, <2>1, <4>1
      <4>3. QED
        BY <4>2 DEF x
    <3>2. ControlEdge("par", rights[j], lefts[i], 0, 0) \in K
      <4> DEFINE x == ControlEdge("par", rights[j], lefts[i], 0, 0)
      <4>1. x \in ControlEdges /\ x.op = "par" /\ x.rhs = lefts[i] /\ x.lhs = rights[j]
        BY <2>1 DEF ControlEdge, ControlEdges, ControlOps, Points
      <4> HIDE DEF x
      <4>2. x \in K
        BY <1>2, <2>1, <4>1
      <4>3. QED
        BY <4>2 DEF x
    <3> HIDE DEF K
    <3>3. QED
      BY <3>1, <3>2
  <2>3. Link(op, lefts, rights) = FlattenSeq(rows)
    BY <1>2, <2>1 DEF Link
  <2> HIDE DEF pair, K
  <2>4. ASSUME NEW i \in 1 .. n
        PROVE  row(i) \in Seq(Seq(K)) 
    BY <2>1, <2>2
  <2>5. ASSUME NEW i \in 1 .. n
        PROVE  rows[i] \in Seq(K)
    <3> DEFINE r == row(i)
    <3>1. r \in Seq(Seq(K)) /\ rows[i] = FlattenSeq(r)
      BY <2>4
    <3> HIDE DEF r, rows
    <3>2. QED
      BY <3>1, FlattenIs
  <2>6. rows \in Seq(Seq(K))
    <3>1. DOMAIN rows = 1 .. n /\ rows = [i \in 1 .. n |-> rows[i]]
      OBVIOUS
    <3> HIDE DEF rows
    <3>2. QED
      BY <2>1, <2>5, <3>1, MapIs
  <2> HIDE DEF rows
  <2>7. FlattenSeq(rows) \in Seq(K)
    BY <2>6, FlattenIs
  <2> DEFINE l == FlattenSeq(rows)
  <2>8. l \in Seq(K)
    BY <2>7
  <2> HIDE DEF l
  <2>9. Range(l) \subseteq K /\ \A i \in 1 .. Len(l) : l[i] \in K
    BY <2>8, RangeFinite
  <2>10. Len(l) \in Nat /\ l = [i \in 1 .. Len(l) |-> l[i]]
    BY <2>8
  <2>11. K \subseteq ControlEdges /\ \A x \in K : fine(x)
    BY DEF K
  <2>12. l \in Seq(ControlEdges)
    BY <2>9, <2>10, <2>11
  <2>13. \A x \in Range(l) : fine(x)
    BY <2>9, <2>11
  <2>14. \A x \in Range(l) : Between(x, op, lefts, rights)
    BY <2>13 DEF Between
  <2>15. QED
    BY <2>3, <2>12, <2>14 DEF l
<1>3. QED
  BY <1>1, <1>2

LEMMA LowerSeqIs ==
  ASSUME NEW S \in Seq(LoweredSet)
  PROVE  /\ LowerSeq(S) \in LoweredSet
         /\ Len(S) > 0 =>
              /\ LowerSeq(S).entries = S[1].entries /\ LowerSeq(S).exits = S[Len(S)].exits
              /\ Range(LowerSeq(S).edges) = PartEdges(S) \cup
                   UNION {Every("seq", S[i].exits, S[i + 1].entries, i - 1, 0) : i \in 1 .. Len(S) - 1}
         /\ Len(S) = 0 => LowerSeq(S) = Lowered(<<>>, <<>>, <<>>)
<1> DEFINE n == Len(S)
           links == [i \in 1 .. n - 1 |-> Cross("seq", S[i].exits, S[i + 1].entries, i - 1, 0)]
<1>1. n \in Nat /\ DOMAIN S = 1 .. n /\ \A i \in 1 .. n : S[i] \in LoweredSet
  OBVIOUS
<1>2. CASE S = <<>>
  <2>1. LowerSeq(S) = Lowered(<<>>, <<>>, <<>>) /\ Len(S) = 0
    BY <1>2 DEF LowerSeq
  <2>2. Lowered(<<>>, <<>>, <<>>) \in LoweredSet
    BY DEF Lowered, LoweredSet
  <2>3. QED
    BY <2>1, <2>2
<1>3. CASE S # <<>>
  <2>1. n > 0 /\ n - 1 \in Nat /\ Head(S) = S[1] /\ Last(S) = S[n]
    BY <1>1, <1>3 DEF Last
  <2>2. LowerSeq(S) = Lowered(EdgesOf(S) \o FlattenSeq(links), S[1].entries, S[n].exits)
    BY <1>3, <2>1 DEF LowerSeq
  <2> HIDE DEF n
  <2>3. \A i \in 1 .. n : S[i].entries \in Seq(STRING) /\ S[i].exits \in Seq(STRING)
    BY <1>1 DEF LoweredSet
  <2>4. ASSUME NEW i \in 1 .. n - 1
        PROVE  /\ links[i] \in Seq(ControlEdges)
               /\ Range(links[i]) = Every("seq", S[i].exits, S[i + 1].entries, i - 1, 0)
    <3>1. i \in 1 .. n /\ i + 1 \in 1 .. n /\ i - 1 \in Nat
      BY <1>1
    <3>2. S[i].exits \in Seq(STRING) /\ S[i + 1].entries \in Seq(STRING)
      BY <2>3, <3>1
    <3>3. links[i] = Cross("seq", S[i].exits, S[i + 1].entries, i - 1, 0)
      OBVIOUS
    <3> HIDE DEF links
    <3>4. Crosses("seq", S[i].exits, S[i + 1].entries, i - 1, 0)
      BY <3>1, <3>2, CrossIs DEF ControlOps
    <3>5. QED
      BY <3>3, <3>4 DEF Crosses
  <2>5. DOMAIN links = 1 .. n - 1 /\ links = [i \in 1 .. n - 1 |-> links[i]]
    OBVIOUS
  <2> HIDE DEF links
  <2>6. links \in Seq(Seq(ControlEdges))
    BY <2>1, <2>4, <2>5, MapIs
  <2>7. /\ FlattenSeq(links) \in Seq(ControlEdges)
        /\ Range(FlattenSeq(links)) = UNION {Range(links[i]) : i \in DOMAIN links}
    BY <2>6, FlattenIs
  <2>8. EdgesOf(S) \in Seq(ControlEdges) /\ Range(EdgesOf(S)) = PartEdges(S)
    BY EdgesOfIs
  <2>9. /\ EdgesOf(S) \o FlattenSeq(links) \in Seq(ControlEdges)
        /\ Range(EdgesOf(S) \o FlattenSeq(links)) = Range(EdgesOf(S)) \cup Range(FlattenSeq(links))
    BY <2>7, <2>8, RangeJoins
  <2>10. UNION {Range(links[i]) : i \in DOMAIN links}
           = UNION {Every("seq", S[i].exits, S[i + 1].entries, i - 1, 0) : i \in 1 .. n - 1}
    BY <2>4, <2>5
  <2>11. S[1].entries \in Seq(STRING) /\ S[n].exits \in Seq(STRING)
    BY <1>1, <2>1, <2>3
  <2>12. /\ LowerSeq(S).entries = S[1].entries /\ LowerSeq(S).exits = S[n].exits
         /\ LowerSeq(S).edges = EdgesOf(S) \o FlattenSeq(links)
    BY <2>2 DEF Lowered
  <2>13. LowerSeq(S) \in LoweredSet
    BY <2>2, <2>9, <2>11 DEF Lowered, LoweredSet
  <2>14. Range(LowerSeq(S).edges) = PartEdges(S) \cup
           UNION {Every("seq", S[i].exits, S[i + 1].entries, i - 1, 0) : i \in 1 .. n - 1}
    BY <2>7, <2>8, <2>9, <2>10, <2>12
  <2>15. Len(S) = n
    BY DEF n
  <2>16. QED
    BY <2>1, <2>12, <2>13, <2>14, <2>15
<1>4. QED
  BY <1>2, <1>3

LEMMA LowerStarIs ==
  ASSUME NEW part \in LoweredSet, NEW bound \in Nat
  PROVE  /\ LowerStar(part, bound) \in LoweredSet
         /\ LowerStar(part, bound).entries = part.entries /\ LowerStar(part, bound).exits = part.exits
         /\ Range(LowerStar(part, bound).edges)
              = Range(part.edges) \cup Every("star", part.exits, part.entries, 0, bound)
<1> DEFINE c == Cross("star", part.exits, part.entries, 0, bound)
<1>1. part.edges \in Seq(ControlEdges) /\ part.entries \in Seq(STRING) /\ part.exits \in Seq(STRING)
  BY DEF LoweredSet
<1>2. c \in Seq(ControlEdges) /\ Range(c) = Every("star", part.exits, part.entries, 0, bound)
  <2>1. Crosses("star", part.exits, part.entries, 0, bound)
    BY <1>1, CrossIs DEF ControlOps
  <2>2. QED
    BY <2>1 DEF Crosses
<1>3. part.edges \o c \in Seq(ControlEdges) /\ Range(part.edges \o c) = Range(part.edges) \cup Range(c)
  <2> HIDE DEF c
  <2>1. QED
    BY <1>1, <1>2, RangeJoins
<1>4. LowerStar(part, bound) = [part EXCEPT !.edges = part.edges \o c]
  BY DEF LowerStar
<1> HIDE DEF c
<1>5. /\ LowerStar(part, bound) \in LoweredSet /\ LowerStar(part, bound).edges = part.edges \o c
      /\ LowerStar(part, bound).entries = part.entries /\ LowerStar(part, bound).exits = part.exits
  BY <1>3, <1>4 DEF LoweredSet
<1>6. QED
  BY <1>2, <1>3, <1>5

LEMMA LowerBranchesIs ==
  ASSUME NEW op \in {"choice", "par"}, NEW S \in Seq(LoweredSet)
  PROVE  /\ LowerBranches(op, S) \in LoweredSet
         /\ Range(LowerBranches(op, S).entries) = UNION {Range(S[i].entries) : i \in DOMAIN S}
         /\ Range(LowerBranches(op, S).exits) = UNION {Range(S[i].exits) : i \in DOMAIN S}
         /\ PartEdges(S) \subseteq Range(LowerBranches(op, S).edges)
         /\ \A x \in Range(LowerBranches(op, S).edges) :
              x \in PartEdges(S) \/ \E i, j \in DOMAIN S : i < j /\ Between(x, op, S[i].entries, S[j].entries)
<1> DEFINE n == Len(S)
           fine(x) == \E i, j \in DOMAIN S : i < j /\ Between(x, op, S[i].entries, S[j].entries)
           K == {x \in ControlEdges : fine(x)}
           row(i) == [d \in 1 .. n - i |-> Link(op, S[i].entries, S[i + d].entries)]
           rows == [i \in 1 .. n |-> FlattenSeq(row(i))]
<1>1. n \in Nat /\ DOMAIN S = 1 .. n /\ \A i \in 1 .. n : S[i] \in LoweredSet
  OBVIOUS
<1>2. LowerBranches(op, S) = Lowered(EdgesOf(S) \o FlattenSeq(rows), Dedup(EntriesOf(S), EntriesOf(S)),
                                     Dedup(ExitsOf(S), ExitsOf(S)))
  BY <1>1 DEF LowerBranches
<1> HIDE DEF n
<1>3. \A i \in 1 .. n : S[i].entries \in Seq(STRING)
  BY <1>1 DEF LoweredSet
<1>4. ASSUME NEW i \in 1 .. n, NEW j \in 1 .. n, i < j
      PROVE  Link(op, S[i].entries, S[j].entries) \in Seq(K)
  <2> DEFINE l == Link(op, S[i].entries, S[j].entries)
  <2>1. l \in Seq(ControlEdges) /\ \A x \in Range(l) : Between(x, op, S[i].entries, S[j].entries)
    <3>1. S[i].entries \in Seq(STRING) /\ S[j].entries \in Seq(STRING)
      BY <1>3
    <3>2. QED
      BY <3>1, LinkIs
  <2> HIDE DEF l
  <2>2. Len(l) \in Nat /\ l = [k \in 1 .. Len(l) |-> l[k]] /\ \A k \in 1 .. Len(l) : l[k] \in ControlEdges /\ l[k] \in Range(l)
    BY <2>1 DEF Range
  <2>3. \A k \in 1 .. Len(l) : l[k] \in K
    BY <1>1, <1>4, <2>1, <2>2
  <2> HIDE DEF K
  <2>4. l \in Seq(K)
    BY <2>2, <2>3
  <2>5. QED
    BY <2>4 DEF l
<1> HIDE DEF K
<1>5. ASSUME NEW i \in 1 .. n
      PROVE  rows[i] \in Seq(K)
  <2> DEFINE r == row(i)
  <2>1. DOMAIN r = 1 .. n - i /\ r = [d \in 1 .. n - i |-> r[d]] /\ n - i \in Nat
    BY <1>1
  <2>2. \A d \in 1 .. n - i : r[d] \in Seq(K)
    <3> SUFFICES ASSUME NEW d \in 1 .. n - i
                 PROVE  r[d] \in Seq(K)
      OBVIOUS
    <3>1. i + d \in 1 .. n /\ i < i + d
      BY <1>1
    <3>2. r[d] = Link(op, S[i].entries, S[i + d].entries)
      OBVIOUS
    <3> HIDE DEF r
    <3>3. QED
      BY <1>4, <3>1, <3>2
  <2>3. rows[i] = FlattenSeq(r)
    OBVIOUS
  <2> HIDE DEF r, rows
  <2>4. r \in Seq(Seq(K))
    BY <2>1, <2>2, MapIs
  <2>5. QED
    BY <2>3, <2>4, FlattenIs
<1>6. DOMAIN rows = 1 .. n /\ rows = [i \in 1 .. n |-> rows[i]]
  OBVIOUS
<1> HIDE DEF rows
<1>7. rows \in Seq(Seq(K))
  BY <1>1, <1>5, <1>6, MapIs
<1> DEFINE l == FlattenSeq(rows)
<1>8. l \in Seq(K)
  BY <1>7, FlattenIs
<1> HIDE DEF l
<1>9. Range(l) \subseteq K /\ \A i \in 1 .. Len(l) : l[i] \in K
  BY <1>8, RangeFinite
<1>10. Len(l) \in Nat /\ l = [i \in 1 .. Len(l) |-> l[i]]
  BY <1>8
<1>11. K \subseteq ControlEdges /\ \A x \in K : fine(x)
  BY DEF K
<1>12. l \in Seq(ControlEdges) /\ \A x \in Range(l) : fine(x)
  BY <1>9, <1>10, <1>11
<1>13. /\ EdgesOf(S) \in Seq(ControlEdges) /\ Range(EdgesOf(S)) = PartEdges(S)
       /\ EntriesOf(S) \in Seq(STRING) /\ Range(EntriesOf(S)) = UNION {Range(S[i].entries) : i \in DOMAIN S}
       /\ ExitsOf(S) \in Seq(STRING) /\ Range(ExitsOf(S)) = UNION {Range(S[i].exits) : i \in DOMAIN S}
  BY EdgesOfIs
<1>14. EdgesOf(S) \o l \in Seq(ControlEdges) /\ Range(EdgesOf(S) \o l) = PartEdges(S) \cup Range(l)
  BY <1>12, <1>13, RangeJoins
<1>15. \A s \in Seq(STRING) : Dedup(s, s) \in Seq(STRING) /\ Range(Dedup(s, s)) = Range(s)
  BY DedupKeeps
<1>16. /\ LowerBranches(op, S).edges = EdgesOf(S) \o l
       /\ LowerBranches(op, S).entries = Dedup(EntriesOf(S), EntriesOf(S))
       /\ LowerBranches(op, S).exits = Dedup(ExitsOf(S), ExitsOf(S))
  BY <1>2 DEF Lowered, l
<1>17. LowerBranches(op, S) \in LoweredSet
  <2>1. Dedup(EntriesOf(S), EntriesOf(S)) \in Seq(STRING) /\ Dedup(ExitsOf(S), ExitsOf(S)) \in Seq(STRING)
    BY <1>13, <1>15
  <2>2. QED
    BY <1>2, <1>14, <2>1 DEF Lowered, LoweredSet, l
<1>18. \A x \in Range(LowerBranches(op, S).edges) : x \in PartEdges(S) \/ fine(x)
  BY <1>12, <1>14, <1>16
<1>19. PartEdges(S) \subseteq Range(LowerBranches(op, S).edges)
  BY <1>14, <1>16
<1>20. /\ Range(LowerBranches(op, S).entries) = UNION {Range(S[i].entries) : i \in DOMAIN S}
       /\ Range(LowerBranches(op, S).exits) = UNION {Range(S[i].exits) : i \in DOMAIN S}
  BY <1>13, <1>15, <1>16
<1>21. QED
  BY <1>17, <1>18, <1>19, <1>20

(* What Lower makes of an expression, of what it makes of the parts.       *)
LowerOf(e, f) ==
  LET parts == [i \in DOMAIN e.items |-> f[e.items[i]]]
  IN  CASE e.form = "seq"    -> LowerSeq(parts)
        [] e.form = "choice" -> LowerBranches("choice", parts)
        [] e.form = "par"    -> LowerBranches("par", parts)
        [] e.form = "star"   -> LowerStar(f[e.body], e.max_unroll)
        [] e = Name("one")   -> Lowered(<<>>, <<>>, <<>>)
        [] e = Name("zero")  ->
             Lowered(<<ControlEdge("halt", "none", "none", 0, 0)>>, <<>>, <<>>)
        [] OTHER             -> Lowered(<<>>, <<e.name>>, <<e.name>>)

LEMMA LowerOfIs ==
  ASSUME NEW e \in Expr, NEW f
  PROVE  LET parts == [i \in DOMAIN e.items |-> f[e.items[i]]]
         IN  /\ e.form = "seq"    => LowerOf(e, f) = LowerSeq(parts)
             /\ e.form = "choice" => LowerOf(e, f) = LowerBranches("choice", parts)
             /\ e.form = "par"    => LowerOf(e, f) = LowerBranches("par", parts)
             /\ e.form = "star"   => LowerOf(e, f) = LowerStar(f[e.body], e.max_unroll)
             /\ e.form = "name" /\ e.name = "one" => LowerOf(e, f) = Lowered(<<>>, <<>>, <<>>)
             /\ e.form = "name" /\ e.name = "zero" =>
                  LowerOf(e, f) = Lowered(<<ControlEdge("halt", "none", "none", 0, 0)>>, <<>>, <<>>)
             /\ e.form = "name" /\ e.name \notin {"one", "zero"} =>
                  LowerOf(e, f) = Lowered(<<>>, <<e.name>>, <<e.name>>)
<1> DEFINE parts == [i \in DOMAIN e.items |-> f[e.items[i]]]
           loop  == LowerStar(f[e.body], e.max_unroll)
           one   == Lowered(<<>>, <<>>, <<>>)
           zero  == Lowered(<<ControlEdge("halt", "none", "none", 0, 0)>>, <<>>, <<>>)
           node  == Lowered(<<>>, <<e.name>>, <<e.name>>)
           isone  == e = Name("one")
           iszero == e = Name("zero")
           result == LowerOf(e, f)
<1>1. result =
        CASE e.form = "seq"    -> LowerSeq(parts)
          [] e.form = "choice" -> LowerBranches("choice", parts)
          [] e.form = "par"    -> LowerBranches("par", parts)
          [] e.form = "star"   -> loop
          [] isone             -> one
          [] iszero            -> zero
          [] OTHER             -> node
  BY Zenon DEF LowerOf
<1>2. (isone => e.form = "name" /\ e.name = "one") /\ (iszero => e.form = "name" /\ e.name = "zero")
  BY DEF Name
<1>3. e.form = "name" => (e.name = "one" => isone) /\ (e.name = "zero" => iszero)
  BY ExprIs
<1> HIDE DEF parts, loop, one, zero, node, isone, iszero, result
<1>4. /\ e.form = "seq"    => result = LowerSeq(parts)
      /\ e.form = "choice" => result = LowerBranches("choice", parts)
      /\ e.form = "par"    => result = LowerBranches("par", parts)
      /\ e.form = "star"   => result = loop
  BY <1>1, <1>2
<1>5. /\ e.form = "name" /\ e.name = "one"  => result = one
      /\ e.form = "name" /\ e.name = "zero" => result = zero
      /\ e.form = "name" /\ e.name \notin {"one", "zero"} => result = node
  BY <1>1, <1>2, <1>3
<1>6. QED
  BY <1>4, <1>5 DEF parts, loop, one, zero, node, result

LEMMA LowerOfType ==
  ASSUME NEW e \in Expr, NEW f, \A p \in Parts(e) : f[p] \in LoweredSet
  PROVE  LowerOf(e, f) \in LoweredSet
<1> DEFINE parts == [i \in DOMAIN e.items |-> f[e.items[i]]]
<1>1. CASE e.form \in {"seq", "choice", "par"}
  <2>1. parts \in Seq(LoweredSet)
    BY <1>1, ImagesOf
  <2>2. LowerOf(e, f) \in {LowerSeq(parts), LowerBranches("choice", parts), LowerBranches("par", parts)}
    BY <1>1, LowerOfIs
  <2> HIDE DEF parts
  <2>3. LowerSeq(parts) \in LoweredSet
    BY <2>1, LowerSeqIs
  <2>4. \A op \in {"choice", "par"} : LowerBranches(op, parts) \in LoweredSet
    BY <2>1, LowerBranchesIs
  <2>5. QED
    BY <2>2, <2>3, <2>4
<1>2. CASE e.form = "star"
  <2>1. f[e.body] \in LoweredSet /\ e.max_unroll \in Nat
    BY <1>2, PartsAre
  <2>2. QED
    BY <1>2, <2>1, LowerOfIs, LowerStarIs
<1>3. CASE e.form \notin {"seq", "choice", "par", "star"}
  <2>1. e.form = "name" /\ e.name \in STRING
    BY <1>3, PartsAre
  <2>2. Lowered(<<>>, <<>>, <<>>) \in LoweredSet /\ Lowered(<<>>, <<e.name>>, <<e.name>>) \in LoweredSet
    BY <2>1 DEF Lowered, LoweredSet
  <2>3. ControlEdge("halt", "none", "none", 0, 0) \in ControlEdges
    BY DEF ControlEdge, ControlEdges, ControlOps, Points
  <2>4. Lowered(<<ControlEdge("halt", "none", "none", 0, 0)>>, <<>>, <<>>) \in LoweredSet
    BY <2>3 DEF Lowered, LoweredSet
  <2>5. QED
    BY <2>1, <2>2, <2>4, LowerOfIs
<1>4. QED
  BY <1>1, <1>2, <1>3

LEMMA LowerOfLocal ==
  ASSUME NEW e \in Expr, NEW f, NEW g, \A p \in Parts(e) : f[p] = g[p]
  PROVE  LowerOf(e, f) = LowerOf(e, g)
<1>1. CASE e.form \in {"seq", "choice", "par"}
  <2>1. [i \in DOMAIN e.items |-> f[e.items[i]]] = [i \in DOMAIN e.items |-> g[e.items[i]]]
    BY <1>1, PartsAre
  <2>2. QED
    BY <1>1, <2>1, LowerOfIs
<1>2. CASE e.form = "star"
  <2>1. f[e.body] = g[e.body]
    BY <1>2, PartsAre
  <2>2. QED
    BY <1>2, <2>1, LowerOfIs
<1>3. CASE e.form \notin {"seq", "choice", "par", "star"}
  <2>1. e.form = "name"
    BY <1>3, PartsAre
  <2>2. QED
    BY <2>1, LowerOfIs
<1>4. QED
  BY <1>1, <1>2, <1>3

LEMMA LowerIs ==
  /\ Lower \in [Expr -> LoweredSet]
  /\ \A e \in Expr : Lower[e] = LowerOf(e, Lower)
<1> DEFINE X == LoweredSet
           B == [e \in Expr |-> [f \in [Expr -> X] |-> LowerOf(e, f)]]
<1>1. B \in [Expr -> [[Expr -> X] -> X]]
  <2>1. ASSUME NEW e \in Expr, NEW f \in [Expr -> X]
        PROVE  LowerOf(e, f) \in X
    <3>1. \A p \in Parts(e) : f[p] \in X
      BY ExprIs
    <3>2. QED
      BY <3>1, LowerOfType
  <2> HIDE DEF X
  <2>2. QED
    BY <2>1
<1> HIDE DEF X
<1>2. Local(Expr, X, [e \in Expr |-> Parts(e)], B)
  <2>1. ASSUME NEW e \in Expr, NEW f \in [Expr -> X], NEW g \in [Expr -> X],
               \A p \in Parts(e) : f[p] = g[p]
        PROVE  B[e][f] = B[e][g]
    BY <2>1, LowerOfLocal
  <2> HIDE DEF B
  <2>2. QED
    BY <2>1 DEF Local
<1>3. PICK h \in [Expr -> X] : \A e \in Expr : h[e] = B[e][h]
  <2> HIDE DEF B
  <2>1. Lowered(<<>>, <<>>, <<>>) \in X
    BY DEF X, Lowered, LoweredSet
  <2>2. Solvable(Expr, X, B)
    BY <1>1, <1>2, <2>1, ExprRecursion
  <2>3. QED
    BY <2>2 DEF Solvable
<1>4. h = [e \in Expr |-> LowerOf(e, h)]
  BY <1>3
<1> HIDE DEF B
<1>5. Lower = [e \in Expr |-> LowerOf(e, Lower)]
  BY <1>4, Zenon DEF Lower, LowerOf
<1> DEFINE T == {e \in Expr : Lower[e] \in X}
<1>6. \A e \in Expr : Parts(e) \subseteq T => e \in T
  <2> SUFFICES ASSUME NEW e \in Expr, Parts(e) \subseteq T
               PROVE  Lower[e] \in X
    OBVIOUS
  <2>1. \A p \in Parts(e) : Lower[p] \in X
    OBVIOUS
  <2>2. LowerOf(e, Lower) \in X
    BY <2>1, LowerOfType DEF X
  <2>3. QED
    BY <1>5, <2>2
<1>7. Expr \subseteq T
  <2> HIDE DEF T
  <2>1. QED
    BY <1>6, TreeInduction
<1>8. \A e \in Expr : Lower[e] \in X
  BY <1>7
<1>9. Lower \in [Expr -> X]
  BY <1>5, <1>8
<1>10. QED
  BY <1>5, <1>9 DEF X

-------------------------------------------------------------------------------
(* The edges of the control table.                                         *)

(* Every name is a node's, but for the two that the lowering knows.        *)
Clear(e) == \A p \in Within[e] : p.form = "name" => IsNode(p) \/ p.name \in {"one", "zero"}

LEMMA ClearIs ==
  ASSUME NEW e \in Expr, NEW known, known \cap Reserved = {}, Lowerable(e, known)
  PROVE  Clear(e)
<1> SUFFICES ASSUME NEW p \in Within[e], p.form = "name", p.name \notin {"one", "zero"}
             PROVE  IsNode(p)
  BY DEF Clear
<1>1. p.name \in known
  BY DEF Lowerable
<1>2. p.name \notin Reserved
  BY <1>1
<1>3. QED
  BY <1>2 DEF Reserved, IsNode, IsZero, IsOne

LEMMA SafeNodes ==
  ASSUME NEW a, NEW b, NEW effects, SafeParallel(BranchEffects(a, effects), BranchEffects(b, effects)),
         NEW n \in NodesOf(a), NEW m \in NodesOf(b)
  PROVE  SafeParallel(effects[n], effects[m]) /\ SafeParallel(effects[m], effects[n])
<1> DEFINE x == BranchEffects(a, effects)
           y == BranchEffects(b, effects)
<1>1. /\ effects[n].reads \subseteq x.reads /\ effects[n].writes \subseteq x.writes
      /\ effects[n].locks \subseteq x.locks
  BY DEF BranchEffects
<1>2. /\ effects[m].reads \subseteq y.reads /\ effects[m].writes \subseteq y.writes
      /\ effects[m].locks \subseteq y.locks
  BY DEF BranchEffects
<1>3. SafeParallel(x, y)
  OBVIOUS
<1> HIDE DEF x, y
<1>4. QED
  BY <1>1, <1>2, <1>3 DEF SafeParallel

(* The nodes an expression starts with are its own, and those that a PAR   *)
(* edge joins are independent.                                             *)
Apart(e, effects) ==
  /\ Range(Lower[e].entries) \subseteq NodesOf(e)
  /\ \A x \in Range(Lower[e].edges) : x.op = "par" => SafeParallel(effects[x.lhs], effects[x.rhs])

LEMMA LoweredApart ==
  ASSUME NEW e \in Expr, NEW known, NEW effects, Accepted(e, known, effects), Clear(e)
  PROVE  Apart(e, effects)
<1> DEFINE T == {d \in Expr : Accepted(d, known, effects) /\ Clear(d) => Apart(d, effects)}
<1>1. ASSUME NEW d \in Expr, Parts(d) \subseteq T, Accepted(d, known, effects), Clear(d)
      PROVE  Apart(d, effects)
  <2> DEFINE parts == [i \in DOMAIN d.items |-> Lower[d.items[i]]]
  <2>1. ASSUME NEW p \in Parts(d)
        PROVE  /\ Apart(p, effects) /\ NodesOf(p) \subseteq NodesOf(d) /\ Lower[p] \in LoweredSet
    <3>1. p \in Expr /\ Within[p] \subseteq Within[d] /\ NodesOf(p) \subseteq NodesOf(d)
      BY WithinSelf
    <3>2. Accepted(p, known, effects)
      BY <1>1, AcceptedIs
    <3>3. Clear(p)
      BY <1>1, <3>1 DEF Clear
    <3>4. p \in T
      BY <1>1
    <3>5. QED
      BY <3>1, <3>2, <3>3, <3>4, LowerIs
  <2>2. Lower[d] = LowerOf(d, Lower)
    BY LowerIs
  <2>3. CASE d.form \in {"seq", "choice", "par"}
    <3>1. /\ d.items \in Seq(Expr) /\ Len(d.items) \in Nat /\ Len(d.items) > 0
          /\ DOMAIN d.items = 1 .. Len(d.items)
          /\ \A i \in DOMAIN d.items : d.items[i] \in Parts(d)
      BY <1>1, <2>3, PartsAre, AcceptedIs
    <3>2. /\ parts \in Seq(LoweredSet) /\ Len(parts) = Len(d.items) /\ DOMAIN parts = DOMAIN d.items
      BY <2>1, <2>3, ImagesOf
    <3>3. \A i \in DOMAIN parts : parts[i] = Lower[d.items[i]]
      BY <3>2
    <3>4. \A i \in DOMAIN parts : /\ Range(parts[i].entries) \subseteq NodesOf(d.items[i])
                                  /\ Range(parts[i].entries) \subseteq NodesOf(d)
                                  /\ \A x \in Range(parts[i].edges) :
                                       x.op = "par" => SafeParallel(effects[x.lhs], effects[x.rhs])
      <4> HIDE DEF parts, T
      <4>1. QED
        BY <2>1, <3>1, <3>2, <3>3 DEF Apart
    <3>5. d.form = "seq" => Lower[d] = LowerSeq(parts)
      BY <2>2, LowerOfIs
    <3>6. d.form \in {"choice", "par"} => Lower[d] = LowerBranches(d.form, parts)
      BY <2>2, LowerOfIs
    <3> HIDE DEF parts, T
    <3>7. \A x \in PartEdges(parts) : x.op = "par" => SafeParallel(effects[x.lhs], effects[x.rhs])
      BY <3>4 DEF PartEdges
    <3>8. CASE d.form = "seq"
      <4>1. /\ Lower[d].entries = parts[1].entries
            /\ Range(Lower[d].edges) = PartEdges(parts) \cup
                 UNION {Every("seq", parts[i].exits, parts[i + 1].entries, i - 1, 0) : i \in 1 .. Len(parts) - 1}
        BY <3>1, <3>2, <3>5, <3>8, LowerSeqIs
      <4>2. \A x \in Range(Lower[d].edges) : x \in PartEdges(parts) \/ x.op = "seq"
        BY <4>1 DEF Every, ControlEdge
      <4>3. 1 \in DOMAIN parts
        BY <3>1, <3>2
      <4>4. QED
        BY <3>4, <3>7, <4>1, <4>2, <4>3 DEF Apart
    <3>9. CASE d.form \in {"choice", "par"}
      <4>1. /\ Range(Lower[d].entries) = UNION {Range(parts[i].entries) : i \in DOMAIN parts}
            /\ \A x \in Range(Lower[d].edges) :
                 \/ x \in PartEdges(parts)
                 \/ \E i, j \in DOMAIN parts : i < j /\ Between(x, d.form, parts[i].entries, parts[j].entries)
        BY <3>2, <3>6, <3>9, LowerBranchesIs
      <4>2. Range(Lower[d].entries) \subseteq NodesOf(d)
        BY <3>4, <4>1
      <4>3. ASSUME NEW x \in Range(Lower[d].edges), x.op = "par", x \notin PartEdges(parts)
            PROVE  SafeParallel(effects[x.lhs], effects[x.rhs])
        <5>1. PICK i, j \in DOMAIN parts : i < j /\ Between(x, d.form, parts[i].entries, parts[j].entries)
          BY <4>1, <4>3
        <5>2. d.form = "par"
          BY <4>3, <5>1 DEF Between
        <5>3. SafeParallel(BranchEffects(d.items[i], effects), BranchEffects(d.items[j], effects))
          <6>1. IndependentBranches(d.items, effects)
            BY <1>1, <5>2, AcceptedIs
          <6>2. QED
            BY <3>2, <5>1, <6>1 DEF IndependentBranches
        <5>4. \/ x.lhs \in NodesOf(d.items[i]) /\ x.rhs \in NodesOf(d.items[j])
              \/ x.rhs \in NodesOf(d.items[i]) /\ x.lhs \in NodesOf(d.items[j])
          BY <3>4, <5>1 DEF Between
        <5>5. QED
          BY <5>3, <5>4, SafeNodes
      <4>4. QED
        BY <3>7, <4>2, <4>3 DEF Apart
    <3>10. QED
      BY <2>3, <3>8, <3>9
  <2>4. CASE d.form = "star"
    <3>1. d.body \in Parts(d) /\ d.max_unroll \in Nat
      BY <2>4, PartsAre
    <3>2. Lower[d] = LowerStar(Lower[d.body], d.max_unroll)
      BY <2>2, <2>4, LowerOfIs
    <3> DEFINE part == Lower[d.body]
    <3>3. part \in LoweredSet /\ Apart(d.body, effects) /\ NodesOf(d.body) \subseteq NodesOf(d)
      BY <2>1, <3>1
    <3>4. /\ Range(part.entries) \subseteq NodesOf(d)
          /\ \A x \in Range(part.edges) : x.op = "par" => SafeParallel(effects[x.lhs], effects[x.rhs])
      BY <3>3 DEF Apart
    <3> HIDE DEF part, T
    <3>5. /\ LowerStar(part, d.max_unroll).entries = part.entries
          /\ Range(LowerStar(part, d.max_unroll).edges)
               = Range(part.edges) \cup Every("star", part.exits, part.entries, 0, d.max_unroll)
      BY <3>1, <3>3, LowerStarIs
    <3>6. \A x \in Every("star", part.exits, part.entries, 0, d.max_unroll) : x.op = "star"
      BY DEF Every, ControlEdge
    <3>7. Lower[d] = LowerStar(part, d.max_unroll)
      BY <3>2 DEF part
    <3>8. QED
      BY <3>4, <3>5, <3>6, <3>7 DEF Apart
  <2>5. CASE d.form \notin {"seq", "choice", "par", "star"}
    <3>1. d.form = "name" /\ d.name \in STRING
      BY <2>5, PartsAre
    <3>2. d.name \in {"one", "zero"} \/ d.name \in NodesOf(d)
      <4>1. d \in Within[d] /\ (IsNode(d) => d.name \in NodesOf(d))
        BY WithinSelf
      <4>2. QED
        BY <1>1, <3>1, <4>1 DEF Clear
    <3>3. CASE d.name = "one"
      <4>1. Lower[d] = Lowered(<<>>, <<>>, <<>>)
        BY <2>2, <3>1, <3>3, LowerOfIs
      <4>2. Lower[d].entries = <<>> /\ Lower[d].edges = <<>>
        BY <4>1 DEF Lowered
      <4>3. Range(<<>>) = {}
        BY DEF Range
      <4>4. QED
        BY <4>2, <4>3 DEF Apart
    <3>4. CASE d.name = "zero"
      <4> DEFINE halt == ControlEdge("halt", "none", "none", 0, 0)
      <4>1. Lower[d] = Lowered(<<halt>>, <<>>, <<>>)
        BY <2>2, <3>1, <3>4, LowerOfIs
      <4>0. halt.op = "halt"
        BY DEF ControlEdge
      <4> HIDE DEF halt
      <4>2. Lower[d].entries = <<>> /\ Lower[d].edges = <<halt>>
        BY <4>1 DEF Lowered
      <4>3. Range(<<>>) = {} /\ Range(<<halt>>) = {halt}
        BY DEF Range
      <4>4. QED
        BY <4>0, <4>2, <4>3 DEF Apart
    <3>5. CASE d.name \notin {"one", "zero"}
      <4>1. Lower[d] = Lowered(<<>>, <<d.name>>, <<d.name>>)
        BY <2>2, <3>1, <3>5, LowerOfIs
      <4>2. Lower[d].entries = <<d.name>> /\ Lower[d].edges = <<>>
        BY <4>1 DEF Lowered
      <4>3. Range(<<>>) = {} /\ Range(<<d.name>>) = {d.name}
        BY DEF Range
      <4>4. QED
        BY <3>2, <3>5, <4>2, <4>3 DEF Apart
    <3>6. QED
      BY <3>3, <3>4, <3>5
  <2>6. QED
    BY <2>3, <2>4, <2>5
<1>2. \A d \in Expr : Parts(d) \subseteq T => d \in T
  BY <1>1
<1>3. Expr \subseteq T
  <2> HIDE DEF T
  <2>1. QED
    BY <1>2, TreeInduction
<1>4. QED
  BY <1>3

(* The control table has the edges of all of the patterns, with its        *)
(* repetitions left out.                                                   *)
LEMMA TableIs ==
  ASSUME NEW patterns \in Seq(Expr)
  PROVE  /\ \A x \in Range(ControlTable(patterns)) : \E e \in Range(patterns) : x \in Range(Lower[e].edges)
         /\ \A e \in Range(patterns) : \A x \in Range(Lower[e].edges) :
              \E y \in Range(ControlTable(patterns)) : y.op = x.op /\ y.lhs = x.lhs /\ y.rhs = x.rhs
<1> DEFINE n     == Len(patterns)
           S     == [i \in DOMAIN patterns |-> Lower[patterns[i]]]
           edges == EdgesOf(S)
           key   == [i \in DOMAIN edges |-> <<edges[i].op, edges[i].lhs, edges[i].rhs>>]
           table == ControlTable(patterns)
<1>1. n \in Nat /\ DOMAIN patterns = 1 .. n /\ \A i \in 1 .. n : patterns[i] \in Expr
  OBVIOUS
<1>2. DOMAIN S = 1 .. n /\ S = [i \in 1 .. n |-> S[i]] /\ \A i \in 1 .. n : S[i] \in LoweredSet
  <2>1. \A i \in 1 .. n : S[i] = Lower[patterns[i]]
    BY <1>1
  <2>2. \A i \in 1 .. n : Lower[patterns[i]] \in LoweredSet
    <3> HIDE DEF n
    <3>1. QED
      BY <1>1, LowerIs
  <2>3. DOMAIN S = 1 .. n /\ S = [i \in 1 .. n |-> S[i]]
    BY <1>1
  <2> HIDE DEF S, n
  <2>4. QED
    BY <2>1, <2>2, <2>3
<1>3. Range(patterns) = {patterns[i] : i \in 1 .. n}
  BY <1>1 DEF Range
<1>4. \A i \in 1 .. n : S[i] = Lower[patterns[i]]
  BY <1>1
<1>5. table = Dedup(edges, key)
  BY DEF ControlTable
<1>6. DOMAIN key = DOMAIN edges /\ \A i \in DOMAIN edges : key[i] = <<edges[i].op, edges[i].lhs, edges[i].rhs>>
  OBVIOUS
<1> HIDE DEF S, n, key
<1>7. S \in Seq(LoweredSet)
  BY <1>1, <1>2, MapIs
<1>8. edges \in Seq(ControlEdges) /\ Range(edges) = PartEdges(S)
  BY <1>7, EdgesOfIs
<1>9. PartEdges(S) = UNION {Range(Lower[patterns[i]].edges) : i \in 1 .. n}
  BY <1>2, <1>4 DEF PartEdges
<1> HIDE DEF edges, table
<1>10. /\ Range(table) \subseteq Range(edges)
       /\ \A i \in DOMAIN edges : \E j \in DOMAIN edges : key[j] = key[i] /\ edges[j] \in Range(table)
  BY <1>5, <1>8, DedupIs
<1>11. \A x \in Range(table) : \E e \in Range(patterns) : x \in Range(Lower[e].edges)
  BY <1>3, <1>8, <1>9, <1>10
<1>12. ASSUME NEW e \in Range(patterns), NEW x \in Range(Lower[e].edges)
       PROVE  \E y \in Range(table) : y.op = x.op /\ y.lhs = x.lhs /\ y.rhs = x.rhs
  <2>1. x \in Range(edges)
    BY <1>3, <1>8, <1>9
  <2>2. PICK i \in DOMAIN edges : x = edges[i]
    BY <2>1 DEF Range
  <2>3. PICK j \in DOMAIN edges : key[j] = key[i] /\ edges[j] \in Range(table)
    BY <1>10
  <2>4. <<edges[j].op, edges[j].lhs, edges[j].rhs>> = <<edges[i].op, edges[i].lhs, edges[i].rhs>>
    BY <1>6, <2>3
  <2>5. QED
    BY <2>2, <2>3, <2>4
<1>13. QED
  BY <1>11, <1>12 DEF table

(* The scheduler never has to split a PAR of a pattern that compiled:      *)
(* whatever the patterns are, the nodes that an edge of a PAR joins in the *)
(* control table neither write what the other uses nor share a lock.       *)
THEOREM ParNodesIndependent == Spec => []ParIndependent
<1>1. BuildInv => ParIndependent
  <2> SUFFICES ASSUME BuildInv, Lowers, NEW x \in Range(ControlTable(files["patterns"])), x.op = "par"
               PROVE  SafeParallel(Operators[x.lhs], Operators[x.rhs])
    BY DEF ParIndependent
  <2> DEFINE patterns == files["patterns"]
             known    == files["topology"].nodes
  <2>1. built /\ known \cap Reserved = {} /\ \A i \in DOMAIN patterns : Lowerable(patterns[i], known)
    BY DEF Lowers
  <2>2. source \in Sources \cup Edits /\ patterns = Exprs(source) /\ PatternsAccepted
        /\ files["operators"] = Operators
    BY <2>1, BuiltIs
  <2>3. patterns \in Seq(Expr)
    BY <2>2, ExprsAre
  <2>4. \A i \in DOMAIN patterns : Accepted(patterns[i], known, Operators)
    BY <2>2 DEF PatternsAccepted
  <2>5. x \in Range(ControlTable(patterns))
    OBVIOUS
  <2> HIDE DEF patterns, known
  <2>6. PICK e \in Range(patterns) : x \in Range(Lower[e].edges)
    BY <2>3, <2>5, TableIs
  <2>7. PICK i \in DOMAIN patterns : e = patterns[i]
    BY DEF Range
  <2>8. e \in Expr /\ Accepted(e, known, Operators) /\ Lowerable(e, known)
    BY <2>1, <2>3, <2>4, <2>7
  <2>9. Clear(e)
    BY <2>1, <2>8, ClearIs
  <2>10. Apart(e, Operators)
    BY <2>8, <2>9, LoweredApart
  <2>11. QED
    BY <2>6, <2>10 DEF Apart
<1>2. QED
  BY <1>1, BuildInvariant, PTL

-------------------------------------------------------------------------------
(* The two compilers of patterns: the lowering's SEQ and STAR edges are    *)
(* the transitions.                                                        *)

FlowOf(edges) == {<<x.lhs, x.rhs>> : x \in {y \in edges : y.op \in {"seq", "star"}}}

(* What the lowering and the compiler made of the same expression, one     *)
(* without identities.                                                     *)
Agree(l, p) ==
  /\ Range(l.entries) = p.starts /\ p.starts # {}
  /\ Range(l.exits) = p.ends /\ p.ends # {}
  /\ FlowOf(Range(l.edges)) = p.edges

LEMMA FlowsJoin ==
  ASSUME NEW E, NEW F
  PROVE  FlowOf(E \cup F) = FlowOf(E) \cup FlowOf(F)
BY DEF FlowOf

LEMMA FlowsOfAll ==
  ASSUME NEW X
  PROVE  FlowOf(UNION X) = UNION {FlowOf(E) : E \in X}
BY DEF FlowOf

LEMMA EveryFlows ==
  ASSUME NEW op \in {"seq", "star"}, NEW l, NEW r, NEW order, NEW bound
  PROVE  FlowOf(Every(op, l, r, order, bound)) = Range(l) \X Range(r)
<1> DEFINE E == Every(op, l, r, order, bound)
<1>1. \A x \in E : x.op = op /\ x.lhs \in Range(l) /\ x.rhs \in Range(r)
  BY DEF Every, ControlEdge
<1>2. \A a \in Range(l), b \in Range(r) : \E x \in E : x.lhs = a /\ x.rhs = b
  <2> SUFFICES ASSUME NEW a \in Range(l), NEW b \in Range(r)
               PROVE  \E x \in E : x.lhs = a /\ x.rhs = b
    OBVIOUS
  <2> DEFINE x == ControlEdge(op, a, b, order, bound)
  <2>1. x \in E
    BY DEF Every
  <2>2. x.lhs = a /\ x.rhs = b
    BY DEF ControlEdge
  <2>3. QED
    BY <2>1, <2>2
<1> HIDE DEF E
<1>3. {y \in E : y.op \in {"seq", "star"}} = E
  BY <1>1
<1>4. FlowOf(E) = {<<x.lhs, x.rhs>> : x \in E}
  BY <1>3 DEF FlowOf
<1>5. {<<x.lhs, x.rhs>> : x \in E} \subseteq Range(l) \X Range(r)
  BY <1>1
<1>6. Range(l) \X Range(r) \subseteq {<<x.lhs, x.rhs>> : x \in E}
  BY <1>2
<1>7. QED
  BY <1>4, <1>5, <1>6 DEF E

(* A sequence none of whose elements is empty.                             *)
Tied(P) ==
  /\ InSequence(P).starts = P[1].starts /\ InSequence(P).ends = P[Len(P)].ends
  /\ InSequence(P).edges = (UNION {P[i].edges : i \in 1 .. Len(P)})
                           \cup UNION {P[i].ends \X P[i + 1].starts : i \in 1 .. Len(P) - 1}

LEMMA SequenceIs ==
  ASSUME NEW P \in Seq(PointSet(STRING)), Len(P) > 0,
         \A i \in 1 .. Len(P) : P[i].starts # {} /\ P[i].ends # {}
  PROVE  Tied(P)
<1> DEFINE n == Len(P)
           links(k) == (UNION {P[i].edges : i \in 1 .. k})
                       \cup UNION {P[i].ends \X P[i + 1].starts : i \in 1 .. k - 1}
<1>1. PICK u \in [0 .. Len(P) -> PointSet(STRING)] : Follows(P, u)
  BY FollowsExist
<1>2. /\ u[0] = NoPoints /\ n \in Nat /\ n > 0
      /\ \A k \in 1 .. n : u[k] = FollowedBy(u[k - 1], P[k])
      /\ InSequence(P) = u[n]
      /\ \A k \in 1 .. n : P[k].starts # {} /\ P[k].ends # {}
  BY <1>1 DEF Follows
<1> HIDE DEF n
<1> DEFINE good == {k \in Nat : k + 1 <= n =>
                     /\ u[k + 1].starts = P[1].starts /\ u[k + 1].ends = P[k + 1].ends
                     /\ u[k + 1].edges = links(k + 1)}
<1>3. 0 \in good
  <2>1. 1 \in 1 .. n /\ 1 - 1 = 0
    BY <1>2
  <2>2. u[1] = FollowedBy(NoPoints, P[1]) /\ P[1].starts # {} /\ P[1].ends # {}
    BY <1>2, <2>1
  <2>3. u[1].starts = P[1].starts /\ u[1].ends = P[1].ends /\ u[1].edges = P[1].edges
    BY <2>2 DEF FollowedBy, NoPoints
  <2>4. 1 .. 1 = {1} /\ 1 .. 1 - 1 = {} /\ 0 + 1 = 1
    OBVIOUS
  <2>5. links(1) = P[1].edges
    BY <2>4
  <2> HIDE DEF links
  <2>6. QED
    BY <2>3, <2>4, <2>5
<1>4. ASSUME NEW k \in Nat, k \in good
      PROVE  k + 1 \in good
  <2> DEFINE m == k + 1
  <2> SUFFICES ASSUME m + 1 <= n
               PROVE  /\ u[m + 1].starts = P[1].starts /\ u[m + 1].ends = P[m + 1].ends
                      /\ u[m + 1].edges = links(m + 1)
    OBVIOUS
  <2>1. m \in Nat /\ m \in 1 .. n /\ m + 1 \in 1 .. n /\ (m + 1) - 1 = m /\ m >= 1 /\ 1 \in 1 .. n
    BY <1>2
  <2>2. u[m].starts = P[1].starts /\ u[m].ends = P[m].ends /\ u[m].edges = links(m)
    BY <1>4, <2>1
  <2> HIDE DEF m, good
  <2>3. u[m + 1] = FollowedBy(u[m], P[m + 1])
    BY <1>2, <2>1
  <2>4. P[1].starts # {} /\ P[m + 1].ends # {}
    BY <1>2, <2>1
  <2>5. /\ u[m + 1].starts = P[1].starts /\ u[m + 1].ends = P[m + 1].ends
        /\ u[m + 1].edges = links(m) \cup P[m + 1].edges \cup (P[m].ends \X P[m + 1].starts)
    BY <2>2, <2>3, <2>4 DEF FollowedBy
  <2>6. 1 .. m + 1 = (1 .. m) \cup {m + 1} /\ 1 .. (m + 1) - 1 = (1 .. m - 1) \cup {m}
    BY <2>1
  <2>7. links(m + 1) = links(m) \cup P[m + 1].edges \cup (P[m].ends \X P[m + 1].starts)
    <3>1. UNION {P[i].edges : i \in 1 .. m + 1} = (UNION {P[i].edges : i \in 1 .. m}) \cup P[m + 1].edges
      BY <2>6
    <3>2. UNION {P[i].ends \X P[i + 1].starts : i \in 1 .. (m + 1) - 1}
            = (UNION {P[i].ends \X P[i + 1].starts : i \in 1 .. m - 1}) \cup (P[m].ends \X P[m + 1].starts)
      <4> DEFINE link(i) == P[i].ends \X P[i + 1].starts
      <4> HIDE DEF link
      <4>1. UNION {link(i) : i \in 1 .. (m + 1) - 1} = (UNION {link(i) : i \in 1 .. m - 1}) \cup link(m)
        BY <2>6
      <4>2. QED
        BY <4>1 DEF link
    <3>3. QED
      BY <3>1, <3>2
  <2> HIDE DEF links
  <2>8. QED
    BY <2>5, <2>7
<1>5. n - 1 \in good
  <2> HIDE DEF good, links
  <2>1. n - 1 \in Nat
    BY <1>2
  <2>2. QED
    BY <1>3, <1>4, <2>1, SetInduction
<1>6. (n - 1) + 1 = n
  BY <1>2
<1>7. u[n].starts = P[1].starts /\ u[n].ends = P[n].ends /\ u[n].edges = links(n)
  <2> HIDE DEF links
  <2>1. QED
    BY <1>2, <1>5, <1>6
<1>8. QED
  BY <1>2, <1>7 DEF n, Tied

LEMMA SeqAgrees ==
  ASSUME NEW S \in Seq(LoweredSet), NEW P \in Seq(PointSet(STRING)), Len(S) = Len(P), Len(S) > 0,
         \A i \in 1 .. Len(S) : Agree(S[i], P[i])
  PROVE  Agree(LowerSeq(S), InSequence(P))
<1> DEFINE n == Len(S)
           l == LowerSeq(S)
           p == InSequence(P)
           link(i) == Every("seq", S[i].exits, S[i + 1].entries, i - 1, 0)
<1>1. n \in Nat /\ n > 0 /\ n = Len(P) /\ DOMAIN S = 1 .. n
  OBVIOUS
<1>2. /\ l.entries = S[1].entries /\ l.exits = S[n].exits
      /\ Range(l.edges) = PartEdges(S) \cup UNION {link(i) : i \in 1 .. n - 1}
  <2>1. /\ LowerSeq(S).entries = S[1].entries /\ LowerSeq(S).exits = S[Len(S)].exits
        /\ Range(LowerSeq(S).edges) = PartEdges(S) \cup
             UNION {Every("seq", S[i].exits, S[i + 1].entries, i - 1, 0) : i \in 1 .. Len(S) - 1}
    BY LowerSeqIs
  <2>2. QED
    BY <2>1
<1>3. \A i \in 1 .. n : Agree(S[i], P[i])
  OBVIOUS
<1>4. Tied(P)
  BY <1>3, SequenceIs DEF Agree
<1>5. /\ p.starts = P[1].starts /\ p.ends = P[n].ends
      /\ p.edges = (UNION {P[i].edges : i \in 1 .. n}) \cup UNION {P[i].ends \X P[i + 1].starts : i \in 1 .. n - 1}
  BY <1>1, <1>4 DEF Tied
<1> HIDE DEF n, l, p
<1>6. \A i \in 1 .. n - 1 : FlowOf(link(i)) = P[i].ends \X P[i + 1].starts
  <2> SUFFICES ASSUME NEW i \in 1 .. n - 1
               PROVE  FlowOf(link(i)) = P[i].ends \X P[i + 1].starts
    OBVIOUS
  <2>1. i \in 1 .. n /\ i + 1 \in 1 .. n
    BY <1>1
  <2>2. Range(S[i].exits) = P[i].ends /\ Range(S[i + 1].entries) = P[i + 1].starts
    BY <1>3, <2>1 DEF Agree
  <2>3. FlowOf(link(i)) = Range(S[i].exits) \X Range(S[i + 1].entries)
    BY EveryFlows
  <2>4. QED
    BY <2>2, <2>3
<1> DEFINE part(i) == Range(S[i].edges)
<1>7. \A i \in 1 .. n : FlowOf(part(i)) = P[i].edges
  BY <1>3 DEF Agree
<1>8. PartEdges(S) = UNION {part(i) : i \in 1 .. n}
  BY <1>1 DEF PartEdges
<1> HIDE DEF link, part
<1> DEFINE L == {link(i) : i \in 1 .. n - 1}
           E == {part(i) : i \in 1 .. n}
<1>9. FlowOf(UNION L) = UNION {FlowOf(e) : e \in L} /\ FlowOf(UNION E) = UNION {FlowOf(e) : e \in E}
  <2> HIDE DEF L, E
  <2>1. QED
    BY FlowsOfAll
<1>10. {FlowOf(e) : e \in L} = {FlowOf(link(i)) : i \in 1 .. n - 1} /\ {FlowOf(e) : e \in E} = {FlowOf(part(i)) : i \in 1 .. n}
  OBVIOUS
<1>11. FlowOf(UNION E) = UNION {P[i].edges : i \in 1 .. n}
  <2>1. {FlowOf(part(i)) : i \in 1 .. n} = {P[i].edges : i \in 1 .. n}
    BY <1>7
  <2>2. QED
    BY <1>9, <1>10, <2>1
<1>12. FlowOf(UNION L) = UNION {P[i].ends \X P[i + 1].starts : i \in 1 .. n - 1}
  <2>1. {FlowOf(link(i)) : i \in 1 .. n - 1} = {P[i].ends \X P[i + 1].starts : i \in 1 .. n - 1}
    BY <1>6
  <2>2. QED
    BY <1>9, <1>10, <2>1
<1>13. FlowOf(Range(l.edges)) = p.edges
  <2>1. Range(l.edges) = (UNION E) \cup (UNION L)
    BY <1>2, <1>8
  <2> HIDE DEF L, E
  <2>2. FlowOf((UNION E) \cup (UNION L)) = FlowOf(UNION E) \cup FlowOf(UNION L)
    BY FlowsJoin
  <2>3. QED
    BY <1>5, <1>11, <1>12, <2>1, <2>2
<1>14. 1 \in 1 .. n /\ n \in 1 .. n
  BY <1>1
<1>15. Range(l.entries) = p.starts /\ p.starts # {} /\ Range(l.exits) = p.ends /\ p.ends # {}
  BY <1>2, <1>3, <1>5, <1>14 DEF Agree
<1>16. QED
  BY <1>13, <1>15 DEF Agree, l, p

LEMMA BranchesAgree ==
  ASSUME NEW op \in {"choice", "par"}, NEW S \in Seq(LoweredSet), NEW P \in Seq(PointSet(STRING)),
         Len(S) = Len(P), Len(S) > 0, \A i \in 1 .. Len(S) : Agree(S[i], P[i])
  PROVE  Agree(LowerBranches(op, S), Beside(P))
<1> DEFINE n == Len(S)
           l == LowerBranches(op, S)
           p == Beside(P)
           part(i) == Range(S[i].edges)
           E == {part(i) : i \in 1 .. n}
<1>1. n \in Nat /\ n > 0 /\ DOMAIN S = 1 .. n /\ DOMAIN P = 1 .. n /\ 1 \in 1 .. n
  OBVIOUS
<1>2. \A i \in 1 .. n : /\ Range(S[i].entries) = P[i].starts /\ P[i].starts # {}
                        /\ Range(S[i].exits) = P[i].ends /\ P[i].ends # {}
                        /\ FlowOf(part(i)) = P[i].edges
  BY DEF Agree
<1>3. /\ Range(l.entries) = UNION {Range(S[i].entries) : i \in DOMAIN S}
      /\ Range(l.exits) = UNION {Range(S[i].exits) : i \in DOMAIN S}
      /\ PartEdges(S) \subseteq Range(l.edges)
      /\ \A x \in Range(l.edges) :
           x \in PartEdges(S) \/ \E i, j \in DOMAIN S : i < j /\ Between(x, op, S[i].entries, S[j].entries)
  BY LowerBranchesIs
<1>4. /\ p.starts = UNION {P[i].starts : i \in 1 .. n} /\ p.ends = UNION {P[i].ends : i \in 1 .. n}
      /\ p.edges = UNION {P[i].edges : i \in 1 .. n}
  BY <1>1 DEF Beside
<1>5. PartEdges(S) = UNION E
  BY <1>1 DEF PartEdges
<1> HIDE DEF n, l, p, part
<1>6. FlowOf(UNION E) = UNION {FlowOf(e) : e \in E}
  <2> HIDE DEF E
  <2>1. QED
    BY FlowsOfAll
<1>7. {FlowOf(e) : e \in E} = {P[i].edges : i \in 1 .. n}
  <2>1. {FlowOf(e) : e \in E} = {FlowOf(part(i)) : i \in 1 .. n}
    OBVIOUS
  <2>2. QED
    BY <1>2, <2>1
<1>8. {x \in Range(l.edges) : x.op \in {"seq", "star"}} = {x \in PartEdges(S) : x.op \in {"seq", "star"}}
  <2>1. \A x \in Range(l.edges) : x.op \in {"seq", "star"} => x \in PartEdges(S)
    BY <1>3 DEF Between
  <2>2. QED
    BY <1>3, <2>1
<1>9. FlowOf(Range(l.edges)) = FlowOf(PartEdges(S))
  BY <1>8 DEF FlowOf
<1>10. FlowOf(Range(l.edges)) = p.edges
  BY <1>4, <1>5, <1>6, <1>7, <1>9
<1>11. Range(l.entries) = p.starts /\ Range(l.exits) = p.ends
  BY <1>1, <1>2, <1>3, <1>4
<1>12. p.starts # {} /\ p.ends # {}
  BY <1>1, <1>2, <1>4
<1>13. QED
  BY <1>10, <1>11, <1>12 DEF Agree, l, p

LEMMA StarAgrees ==
  ASSUME NEW l \in LoweredSet, NEW p \in PointSet(STRING), NEW n \in Nat, n >= 2, Agree(l, p)
  PROVE  Agree(LowerStar(l, n), Copies(p, n))
<1> DEFINE P == [i \in 1 .. n |-> p]
           X == PointSet(STRING)
<1>1. DOMAIN P = 1 .. n /\ (\A i \in 1 .. n : P[i] = p) /\ P = [i \in 1 .. n |-> P[i]] /\ p \in X
  OBVIOUS
<1>2. Copies(p, n) = InSequence(P)
  BY DEF Copies
<1> HIDE DEF P, X
<1>3. P \in Seq(X) /\ Len(P) = n
  BY <1>1, MapIs
<1>4. /\ Range(l.entries) = p.starts /\ p.starts # {} /\ Range(l.exits) = p.ends /\ p.ends # {}
      /\ FlowOf(Range(l.edges)) = p.edges
  BY DEF Agree
<1>5. Tied(P)
  <2>1. P \in Seq(PointSet(STRING)) /\ Len(P) > 0
    BY <1>3 DEF X
  <2>2. \A i \in 1 .. Len(P) : P[i].starts # {} /\ P[i].ends # {}
    BY <1>1, <1>3, <1>4
  <2>3. QED
    BY <2>1, <2>2, SequenceIs
<1>6. /\ InSequence(P).starts = p.starts /\ InSequence(P).ends = p.ends
      /\ InSequence(P).edges = (UNION {P[i].edges : i \in 1 .. n})
                               \cup UNION {P[i].ends \X P[i + 1].starts : i \in 1 .. n - 1}
  <2>1. 1 \in 1 .. n /\ n \in 1 .. n
    OBVIOUS
  <2>2. QED
    BY <1>1, <1>3, <1>5, <2>1 DEF Tied
<1>7. UNION {P[i].edges : i \in 1 .. n} = p.edges
  <2>1. 1 \in 1 .. n
    OBVIOUS
  <2>2. QED
    BY <1>1, <2>1
<1>8. UNION {P[i].ends \X P[i + 1].starts : i \in 1 .. n - 1} = p.ends \X p.starts
  <2>1. 1 \in 1 .. n - 1 /\ \A i \in 1 .. n - 1 : i \in 1 .. n /\ i + 1 \in 1 .. n
    OBVIOUS
  <2>2. \A i \in 1 .. n - 1 : P[i].ends \X P[i + 1].starts = p.ends \X p.starts
    BY <1>1, <2>1
  <2>3. QED
    BY <2>1, <2>2
<1> DEFINE s == LowerStar(l, n)
<1>9. /\ s.entries = l.entries /\ s.exits = l.exits
      /\ Range(s.edges) = Range(l.edges) \cup Every("star", l.exits, l.entries, 0, n)
  BY LowerStarIs
<1> HIDE DEF s
<1>10. FlowOf(Range(s.edges)) = p.edges \cup (p.ends \X p.starts)
  <2> DEFINE E == Every("star", l.exits, l.entries, 0, n)
  <2>1. FlowOf(E) = p.ends \X p.starts
    <3>1. FlowOf(E) = Range(l.exits) \X Range(l.entries)
      BY EveryFlows
    <3>2. QED
      BY <1>4, <3>1
  <2>2. Range(s.edges) = Range(l.edges) \cup E
    BY <1>9
  <2> HIDE DEF E
  <2>3. FlowOf(Range(l.edges) \cup E) = FlowOf(Range(l.edges)) \cup FlowOf(E)
    BY FlowsJoin
  <2>4. QED
    BY <1>4, <2>1, <2>2, <2>3
<1>11. FlowOf(Range(s.edges)) = InSequence(P).edges
  BY <1>6, <1>7, <1>8, <1>10
<1>12. QED
  BY <1>2, <1>4, <1>6, <1>9, <1>11 DEF Agree, s

LEMMA PlainAgrees ==
  ASSUME NEW e \in Expr, NEW known, NEW effects, Accepted(e, known, effects), Plain(e)
  PROVE  Agree(Lower[e], Compiled[e])
<1> DEFINE T == {d \in Expr : Accepted(d, known, effects) /\ Plain(d) => Agree(Lower[d], Compiled[d])}
<1>1. ASSUME NEW d \in Expr, Parts(d) \subseteq T, Accepted(d, known, effects), Plain(d)
      PROVE  Agree(Lower[d], Compiled[d])
  <2> DEFINE S == [i \in DOMAIN d.items |-> Lower[d.items[i]]]
             P == [i \in DOMAIN d.items |-> Compiled[d.items[i]]]
  <2>1. ASSUME NEW p \in Parts(d)
        PROVE  Agree(Lower[p], Compiled[p]) /\ Lower[p] \in LoweredSet /\ Compiled[p] \in PointSet(STRING)
    <3>1. p \in Expr /\ Within[p] \subseteq Within[d]
      BY WithinSelf
    <3>2. Accepted(p, known, effects)
      BY <1>1, AcceptedIs
    <3>3. Plain(p)
      BY <1>1, <3>1 DEF Plain
    <3>4. p \in T
      BY <1>1
    <3>5. Agree(Lower[p], Compiled[p])
      BY <3>2, <3>3, <3>4
    <3>6. Lower[p] \in LoweredSet
      BY <3>1, LowerIs
    <3>7. Compiled[p] \in PointSet(STRING)
      BY <3>1, CompiledIs
    <3>8. QED
      BY <3>5, <3>6, <3>7
  <2>2. Lower[d] = LowerOf(d, Lower) /\ Compiled[d] = CompiledOf(d, Compiled)
    BY LowerIs, CompiledIs
  <2>3. d \in Within[d]
    BY WithinSelf
  <2>4. ~IsZero(d) /\ ~IsOne(d) /\ (d.form = "star" => d.max_unroll >= 2)
    BY <1>1, <2>3 DEF Plain
  <2>5. CASE d.form \in {"seq", "choice", "par"}
    <3>1. /\ d.items \in Seq(Expr) /\ Len(d.items) \in Nat /\ Len(d.items) > 0
          /\ DOMAIN d.items = 1 .. Len(d.items)
          /\ \A i \in DOMAIN d.items : d.items[i] \in Parts(d)
      BY <1>1, <2>5, PartsAre, AcceptedIs
    <3>2. S \in Seq(LoweredSet) /\ Len(S) = Len(d.items) /\ DOMAIN S = DOMAIN d.items
      BY <2>1, <2>5, ImagesOf
    <3>3. P \in Seq(PointSet(STRING)) /\ Len(P) = Len(d.items) /\ DOMAIN P = DOMAIN d.items
      <4> DEFINE X == PointSet(STRING)
      <4>1. \A p \in Parts(d) : Compiled[p] \in X
        BY <2>1
      <4> HIDE DEF X
      <4>2. P \in Seq(X) /\ Len(P) = Len(d.items) /\ DOMAIN P = DOMAIN d.items
        BY <2>5, <4>1, ImagesOf
      <4>3. QED
        BY <4>2 DEF X
    <3>4. \A i \in 1 .. Len(S) : Agree(S[i], P[i])
      <4>1. \A i \in 1 .. Len(d.items) : S[i] = Lower[d.items[i]] /\ P[i] = Compiled[d.items[i]]
        BY <3>1
      <4> HIDE DEF S, P, T
      <4>2. QED
        BY <2>1, <3>1, <3>2, <4>1
    <3>5. /\ d.form = "seq" => Lower[d] = LowerSeq(S) /\ Compiled[d] = InSequence(P)
          /\ d.form = "choice" => Lower[d] = LowerBranches("choice", S) /\ Compiled[d] = Beside(P)
          /\ d.form = "par" => Lower[d] = LowerBranches("par", S) /\ Compiled[d] = Grouped(Beside(P))
      BY <2>2, LowerOfIs, CompiledOfIs
    <3> HIDE DEF S, P, T
    <3>6. CASE d.form = "seq"
      <4>1. Agree(LowerSeq(S), InSequence(P))
        BY <3>1, <3>2, <3>3, <3>4, SeqAgrees
      <4>2. QED
        BY <3>5, <3>6, <4>1
    <3>7. \A op \in {"choice", "par"} : Agree(LowerBranches(op, S), Beside(P))
      BY <3>1, <3>2, <3>3, <3>4, BranchesAgree
    <3>8. CASE d.form = "choice"
      BY <3>5, <3>7, <3>8
    <3>9. CASE d.form = "par"
      <4> DEFINE b == Beside(P)
      <4>1. Agree(LowerBranches("par", S), b)
        BY <3>7
      <4> HIDE DEF b
      <4>2. Agree(LowerBranches("par", S), Grouped(b))
        BY <4>1, GroupedKeeps DEF Agree
      <4>3. QED
        BY <3>5, <3>9, <4>2 DEF b
    <3>10. QED
      BY <2>5, <3>6, <3>8, <3>9
  <2>6. CASE d.form = "star"
    <3>1. d.body \in Parts(d) /\ d.max_unroll \in Nat
      BY <2>6, PartsAre
    <3>2. Lower[d] = LowerStar(Lower[d.body], d.max_unroll)
      BY <2>2, <2>6, LowerOfIs
    <3>3. Compiled[d] = Copies(Compiled[d.body], d.max_unroll)
      BY <2>2, <2>6, CompiledOfIs DEF Copies
    <3>4. /\ Agree(Lower[d.body], Compiled[d.body]) /\ Lower[d.body] \in LoweredSet
          /\ Compiled[d.body] \in PointSet(STRING)
      BY <2>1, <3>1
    <3>5. Agree(LowerStar(Lower[d.body], d.max_unroll), Copies(Compiled[d.body], d.max_unroll))
      BY <2>4, <2>6, <3>1, <3>4, StarAgrees
    <3>6. QED
      BY <3>2, <3>3, <3>5
  <2>7. CASE d.form \notin {"seq", "choice", "par", "star"}
    <3>1. d.form = "name" /\ d.name \in STRING
      BY <2>7, PartsAre
    <3>2. IsNode(d) /\ d.name \notin {"one", "zero"}
      BY <2>4, <3>1 DEF IsNode, IsZero, IsOne
    <3>3. Lower[d] = Lowered(<<>>, <<d.name>>, <<d.name>>) /\ Compiled[d] = PointOf(d.name)
      BY <2>2, <3>1, <3>2, LowerOfIs, CompiledOfIs
    <3>4. Lower[d].entries = <<d.name>> /\ Lower[d].exits = <<d.name>> /\ Lower[d].edges = <<>>
      BY <3>3 DEF Lowered
    <3>5. Compiled[d].starts = {d.name} /\ Compiled[d].ends = {d.name} /\ Compiled[d].edges = {}
      BY <3>3 DEF PointOf
    <3>6. Range(<<d.name>>) = {d.name} /\ Range(<<>>) = {}
      BY DEF Range
    <3>7. FlowOf({}) = {}
      BY DEF FlowOf
    <3>8. QED
      BY <3>4, <3>5, <3>6, <3>7 DEF Agree
  <2>8. QED
    BY <2>5, <2>6, <2>7
<1>2. \A d \in Expr : Parts(d) \subseteq T => d \in T
  BY <1>1
<1>3. Expr \subseteq T
  <2> HIDE DEF T
  <2>1. QED
    BY <1>2, TreeInduction
<1>4. QED
  BY <1>3

(* The two compilers of patterns agree: the edges the scheduler follows    *)
(* and those of the tensor are the same, for patterns without identities   *)
(* and with loops that loop.                                               *)
THEOREM CompilersAgree == Spec => []ControlAgrees
<1>1. BuildInv => ControlAgrees
  <2> SUFFICES ASSUME BuildInv, Lowers, \A i \in DOMAIN files["patterns"] : Plain(files["patterns"][i])
               PROVE  {<<e.lhs, e.rhs>> : e \in {f \in Range(ControlTable(files["patterns"])) :
                                                 f.op \in {"seq", "star"}}} = files["compiled"].edges
    BY DEF ControlAgrees
  <2> DEFINE patterns == files["patterns"]
             known    == files["topology"].nodes
             table    == Range(ControlTable(patterns))
             result   == files["compiled"].edges
  <2>1. source \in Sources \cup Edits /\ patterns = Exprs(source) /\ PatternsAccepted
        /\ files["operators"] = Operators
        /\ files["compiled"] = PatternEdges(patterns)
    BY BuiltIs DEF Lowers
  <2>2. patterns \in Seq(Expr)
    BY <2>1, ExprsAre
  <2>3. \A i \in DOMAIN patterns : Accepted(patterns[i], known, Operators) /\ Plain(patterns[i])
    BY <2>1 DEF PatternsAccepted
  <2>4. result = UNION {Compiled[e].edges : e \in Range(patterns)}
    BY <2>1 DEF PatternEdges
  <2>5. FlowOf(table) = {<<e.lhs, e.rhs>> : e \in {f \in table : f.op \in {"seq", "star"}}}
    BY DEF FlowOf
  <2>6. /\ \A x \in table : \E e \in Range(patterns) : x \in Range(Lower[e].edges)
        /\ \A e \in Range(patterns) : \A x \in Range(Lower[e].edges) :
             \E y \in table : y.op = x.op /\ y.lhs = x.lhs /\ y.rhs = x.rhs
    <3> HIDE DEF patterns
    <3>1. QED
      BY <2>2, TableIs
  <2> HIDE DEF patterns, known, table, result
  <2>7. ASSUME NEW e \in Range(patterns)
        PROVE  FlowOf(Range(Lower[e].edges)) = Compiled[e].edges
    <3>1. PICK i \in DOMAIN patterns : e = patterns[i]
      BY DEF Range
    <3>2. e \in Expr /\ Accepted(e, known, Operators) /\ Plain(e)
      BY <2>2, <2>3, <3>1
    <3>3. Agree(Lower[e], Compiled[e])
      BY <3>2, PlainAgrees
    <3>4. QED
      BY <3>3 DEF Agree
  <2>8. ASSUME NEW a \in FlowOf(table)
        PROVE  a \in result
    <3>1. PICK x \in table : x.op \in {"seq", "star"} /\ a = <<x.lhs, x.rhs>>
      BY DEF FlowOf
    <3>2. PICK e \in Range(patterns) : x \in Range(Lower[e].edges)
      BY <2>6
    <3>3. a \in FlowOf(Range(Lower[e].edges))
      BY <3>1, <3>2 DEF FlowOf
    <3>4. QED
      BY <2>4, <2>7, <3>3
  <2>9. ASSUME NEW a \in result
        PROVE  a \in FlowOf(table)
    <3>1. PICK e \in Range(patterns) : a \in Compiled[e].edges
      BY <2>4
    <3>2. a \in FlowOf(Range(Lower[e].edges))
      BY <2>7, <3>1
    <3>3. PICK x \in Range(Lower[e].edges) : x.op \in {"seq", "star"} /\ a = <<x.lhs, x.rhs>>
      BY <3>2 DEF FlowOf
    <3>4. PICK y \in table : y.op = x.op /\ y.lhs = x.lhs /\ y.rhs = x.rhs
      BY <2>6
    <3>5. y \in {z \in table : z.op \in {"seq", "star"}} /\ a = <<y.lhs, y.rhs>>
      BY <3>3, <3>4
    <3>6. QED
      BY <3>5 DEF FlowOf
  <2>10. FlowOf(table) = result
    BY <2>8, <2>9
  <2>11. QED
    BY <2>5, <2>10 DEF table, result, patterns
<1>2. QED
  BY <1>1, BuildInvariant, PTL

===============================================================================

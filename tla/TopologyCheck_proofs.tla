-------------------------- MODULE TopologyCheck_proofs --------------------------
(***************************************************************************)
(* Proofs about the topology checker: that its dominator fixpoint and its  *)
(* two depth-first searches compute, for every topology, what paths define *)
(* and that a topology it accepts lets control reach a halt node.          *)
(***************************************************************************)
EXTENDS TopologyCheck, Numbers_proofs

-------------------------------------------------------------------------------
(* The dominator fixpoint, for any graph.  A candidate missing from a      *)
(* node's set is one that a path to the node bypasses: true of the full    *)
(* sets the fixpoint starts from and kept by every visit.  When no visit   *)
(* changes a set, what a path bypasses is missing from the sets along it.  *)

Around(d, G) == {a \in G : d \notin {a[1], a[2]}}

(* A path from e reaches v without passing through d.                      *)
Skips(e, d, v, G) == e # d /\ Leads(e, v, Around(d, G))

(* The set a visit gives v.                                                *)
Narrowed(f, v, G) ==
  LET preds == {a[1] : a \in {b \in G : b[2] = v}} \cap DOMAIN f
  IN  IF preds = {} THEN f[v]
      ELSE {v} \cup {d \in UNION {f[p] : p \in preds} : \A p \in preds : d \in f[p]}

Dominators(f, e, C, G) ==
  /\ e \in DOMAIN f
  /\ f[e] = {e}
  /\ \A a \in G : Leads(e, a[1], G) /\ a[2] \in DOMAIN f => a[1] \in DOMAIN f
  /\ \A v \in DOMAIN f, d \in C : d \notin f[v] => Skips(e, d, v, G)

LEMMA AroundFinite ==
  ASSUME NEW G, IsFiniteSet(G), NEW d
  PROVE  IsFiniteSet(Around(d, G)) /\ Around(d, G) \subseteq G
<1>1. Around(d, G) \subseteq G
  BY DEF Around
<1>2. QED
  BY <1>1, FS_Subset

LEMMA SkipsItself ==
  ASSUME NEW G, IsFiniteSet(G), NEW e, NEW d, Skips(e, d, d, G)
  PROVE  FALSE
<1> DEFINE T == {v \in Reached({e}, Around(d, G)) : v # d}
<1>1. e \in T
  BY AroundFinite, ReachedFixed DEF Skips
<1>2. Closed(T, Around(d, G))
  <2>1. ASSUME NEW a \in Around(d, G), a[1] \in T
        PROVE  a[2] \in T
    <3>1. a[2] # d
      BY DEF Around
    <3>2. a[2] \in Reached({e}, Around(d, G))
      BY <2>1, AroundFinite, LeadsOn DEF Leads
    <3>3. QED
      BY <3>1, <3>2
  <2>2. QED
    BY <2>1 DEF Closed
<1>3. d \in T
  <2> HIDE DEF T
  <2>1. QED
    BY <1>1, <1>2, AroundFinite, LeadsWithin DEF Skips
<1>4. QED
  BY <1>3

LEMMA VisitKeepsDominators ==
  ASSUME NEW G, IsFiniteSet(G), NEW f, NEW e, NEW C, Dominators(f, e, C, G),
         NEW v \in DOMAIN f, v # e
  PROVE  Dominators([f EXCEPT ![v] = Narrowed(f, v, G)], e, C, G)
<1> DEFINE g     == [f EXCEPT ![v] = Narrowed(f, v, G)]
           preds == {a[1] : a \in {b \in G : b[2] = v}} \cap DOMAIN f
<1>1. DOMAIN g = DOMAIN f /\ g[e] = f[e] /\ g[v] = Narrowed(f, v, G)
  BY DEF Dominators
<1>2. \A w \in DOMAIN f : w # v => g[w] = f[w]
  OBVIOUS
<1>3. ASSUME NEW d \in C, d \notin Narrowed(f, v, G)
      PROVE  Skips(e, d, v, G)
  <2>1. CASE preds = {}
    <3>1. d \notin f[v]
      BY <1>3, <2>1 DEF Narrowed
    <3>2. QED
      BY <3>1 DEF Dominators
  <2>2. CASE preds # {}
    <3>1. d # v /\ \E p \in preds : d \notin f[p]
      BY <1>3, <2>2 DEF Narrowed
    <3>2. PICK p \in preds : d \notin f[p]
      BY <3>1
    <3>3. PICK a \in G : a[1] = p /\ a[2] = v
      OBVIOUS
    <3>4. Skips(e, d, p, G)
      BY <3>2 DEF Dominators
    <3>5. p # d
      BY <3>4, SkipsItself
    <3>6. a \in Around(d, G)
      BY <3>1, <3>3, <3>5 DEF Around
    <3>7. Leads(e, a[2], Around(d, G))
      BY <3>3, <3>4, <3>6, AroundFinite, LeadsOn DEF Skips
    <3>8. QED
      BY <3>3, <3>4, <3>7 DEF Skips
  <2>3. QED
    BY <2>1, <2>2
<1> HIDE DEF g
<1>4. \A w \in DOMAIN g, d \in C : d \notin g[w] => Skips(e, d, w, G)
  BY <1>1, <1>2, <1>3 DEF Dominators
<1>5. Dominators(g, e, C, G)
  BY <1>1, <1>4 DEF Dominators
<1>6. QED
  BY <1>5 DEF g

LEMMA FixpointIsExact ==
  ASSUME NEW G, IsFiniteSet(G), NEW f, NEW e, NEW C, Dominators(f, e, C, G),
         \A w \in DOMAIN f : w # e => f[w] = Narrowed(f, w, G),
         NEW v \in DOMAIN f, NEW d \in C
  PROVE  d \notin f[v] <=> Skips(e, d, v, G)
<1>1. ASSUME Skips(e, d, v, G)
      PROVE  d \notin f[v]
  <2> DEFINE T == {w \in Reached({e}, G) : w \in DOMAIN f => d \notin f[w]}
  <2>1. e \in T
    BY <1>1, ReachedFixed DEF Skips, Dominators
  <2>2. Closed(T, Around(d, G))
    <3> SUFFICES ASSUME NEW a \in Around(d, G), a[1] \in T
                 PROVE  a[2] \in T
      BY DEF Closed
    <3>1. a \in G /\ a[2] # d
      BY DEF Around
    <3>2. Leads(e, a[1], G) /\ a[2] \in Reached({e}, G)
      BY <3>1, LeadsOn DEF Leads
    <3>3. ASSUME a[2] \in DOMAIN f
          PROVE  d \notin f[a[2]]
      <4>1. a[1] \in DOMAIN f /\ d \notin f[a[1]]
        BY <3>1, <3>2, <3>3 DEF Dominators
      <4>2. CASE a[2] = e
        BY <1>1, <4>2 DEF Skips, Dominators
      <4>3. CASE a[2] # e
        <5> DEFINE preds == {b[1] : b \in {c \in G : c[2] = a[2]}} \cap DOMAIN f
        <5>1. a[1] \in preds
          BY <3>1, <4>1
        <5>2. f[a[2]] = {a[2]} \cup {x \in UNION {f[p] : p \in preds} : \A p \in preds : x \in f[p]}
          <6>1. f[a[2]] = Narrowed(f, a[2], G)
            BY <3>3, <4>3
          <6>2. QED
            BY <5>1, <6>1 DEF Narrowed
        <5> HIDE DEF preds
        <5>3. QED
          BY <3>1, <4>1, <5>1, <5>2
      <4>4. QED
        BY <4>2, <4>3
    <3>4. QED
      BY <3>2, <3>3
  <2>3. v \in T
    <3> HIDE DEF T
    <3>1. QED
      BY <1>1, <2>1, <2>2, AroundFinite, LeadsWithin DEF Skips
  <2>4. QED
    BY <2>3
<1>2. QED
  BY <1>1 DEF Dominators

-------------------------------------------------------------------------------
(* What appending and dropping the last element do to the elements.        *)

LEMMA AppendIs ==
  ASSUME NEW V, NEW s \in Seq(V), NEW x \in V
  PROVE  /\ Append(s, x) \in Seq(V) /\ Range(Append(s, x)) = Range(s) \cup {x}
         /\ Append(s, x) # <<>> /\ Last(Append(s, x)) = x
         /\ Len(Append(s, x)) = Len(s) + 1 /\ Append(s, x)[Len(s) + 1] = x
         /\ \A i \in 1 .. Len(s) : Append(s, x)[i] = s[i]
<1> DEFINE t == Append(s, x)
<1>1. Len(s) \in Nat /\ DOMAIN s = 1 .. Len(s)
  BY LenProperties
<1>2. t \in Seq(V) /\ Len(t) = Len(s) + 1 /\ DOMAIN t = 1 .. Len(s) + 1
  BY LenProperties
<1>3. t[Len(s) + 1] = x /\ \A i \in 1 .. Len(s) : t[i] = s[i]
  OBVIOUS
<1>4. Len(s) + 1 \in DOMAIN t /\ \A i \in DOMAIN t : i \in DOMAIN s \/ i = Len(s) + 1
  BY <1>1, <1>2
<1>5. \A i \in DOMAIN s : i \in DOMAIN t
  BY <1>1, <1>2
<1> HIDE DEF t
<1>6. Range(t) = Range(s) \cup {x}
  BY <1>1, <1>3, <1>4, <1>5 DEF Range
<1>7. Last(t) = x
  BY <1>2, <1>3 DEF Last
<1>8. t # <<>>
  BY <1>1, <1>2
<1>9. QED
  BY <1>2, <1>3, <1>6, <1>7, <1>8 DEF t

LEMMA AppendOneToOne ==
  ASSUME NEW V, NEW s \in Seq(V), NEW x \in V, IsInjective(s), x \notin Range(s)
  PROVE  IsInjective(Append(s, x))
<1> DEFINE t == Append(s, x)
<1>1. Len(s) \in Nat /\ DOMAIN s = 1 .. Len(s) /\ DOMAIN t = 1 .. Len(s) + 1
  BY LenProperties, AppendIs
<1>2. t[Len(s) + 1] = x /\ \A i \in 1 .. Len(s) : t[i] = s[i]
  BY AppendIs
<1>3. \A i \in DOMAIN t : i \in DOMAIN s \/ i = Len(s) + 1
  BY <1>1
<1>4. \A i \in DOMAIN s : s[i] # x
  BY DEF Range
<1> HIDE DEF t
<1>5. IsInjective(t)
  BY <1>1, <1>2, <1>3, <1>4 DEF IsInjective
<1>6. QED
  BY <1>5 DEF t

LEMMA FrontIs ==
  ASSUME NEW V, NEW s \in Seq(V), s # <<>>
  PROVE  /\ Front(s) \in Seq(V) /\ Len(Front(s)) = Len(s) - 1 /\ Last(s) \in V
         /\ Range(s) = Range(Front(s)) \cup {Last(s)}
         /\ \A i \in 1 .. Len(s) - 1 : Front(s)[i] = s[i]
         /\ Len(s) \in Nat /\ Len(s) > 0 /\ Last(s) = s[Len(s)] /\ DOMAIN s = 1 .. Len(s)
         /\ DOMAIN Front(s) = 1 .. Len(s) - 1
         /\ IsInjective(s) => IsInjective(Front(s)) /\ Last(s) \notin Range(Front(s))
<1> DEFINE n == Len(s)
           f == Front(s)
<1>1. n \in Nat /\ n > 0 /\ DOMAIN s = 1 .. n
  BY LenProperties, EmptySeq
<1>2. f \in Seq(V) /\ Len(f) = n - 1 /\ \A i \in 1 .. n - 1 : f[i] = s[i]
  <2>1. n - 1 \in 0 .. n /\ n - 1 \in Nat
    BY <1>1
  <2>2. f = SubSeq(s, 1, n - 1)
    BY DEF Front
  <2> HIDE DEF f
  <2>3. QED
    BY <1>1, <2>1, <2>2
<1>3. DOMAIN f = 1 .. n - 1
  BY <1>2, LenProperties
<1>4. Last(s) = s[n] /\ n \in DOMAIN s
  BY <1>1 DEF Last
<1>5. \A i \in DOMAIN s : i \in DOMAIN f \/ i = n
  BY <1>1, <1>3
<1>6. \A i \in DOMAIN f : i \in DOMAIN s /\ i # n
  BY <1>1, <1>3
<1>7. s[n] \in V
  BY <1>1, <1>4, ElementOfSeq
<1> HIDE DEF n, f
<1>8. Range(s) = Range(f) \cup {Last(s)}
  BY <1>2, <1>3, <1>4, <1>5, <1>6 DEF Range
<1>9. IsInjective(s) => IsInjective(f) /\ Last(s) \notin Range(f)
  BY <1>2, <1>3, <1>4, <1>5, <1>6 DEF Range, IsInjective
<1>10. QED
  BY <1>1, <1>2, <1>3, <1>4, <1>7, <1>8, <1>9 DEF n, f

-------------------------------------------------------------------------------
(* The first of Kosaraju's searches, for any graph.  Whatever a visited    *)
(* node leads to, one of the nodes of its component finishes no earlier:   *)
(* one that is on the stack still, or one that has finished with it.  When *)
(* the last of a component leaves the stack, a path out of it could only   *)
(* pass an unfinished node through the stack, that is through itself.      *)

Together(u, v, G) == Leads(u, v, G) /\ Leads(v, u, G)

NoLater(u, x, done) == \E i, j \in DOMAIN done : done[i] = u /\ done[j] = x /\ i <= j

Outlasted(w, u, G, path, done) ==
  \E x \in Range(path) \cup Range(done) :
    /\ Together(w, x, G)
    /\ x \in Range(path) \/ NoLater(u, x, done)

Chain(path, G) == \A i \in 1 .. Len(path) - 1 : <<path[i], path[i + 1]>> \in G

Searched(V, G, path, done, seen) ==
  /\ path \in Seq(V) /\ done \in Seq(V)
  /\ IsInjective(path) /\ IsInjective(done)
  /\ Range(path) \cap Range(done) = {}
  /\ seen = Range(path) \cup Range(done)
  /\ Chain(path, G)
  /\ \A a \in G : a[1] \in Range(done) => a[2] \in seen
  /\ \A w \in seen, u \in V : Leads(w, u, G) => Outlasted(w, u, G, path, done)

LEMMA TogetherSelf ==
  ASSUME NEW G, IsFiniteSet(G), NEW u
  PROVE  Together(u, u, G)
BY LeadsSelf DEF Together

LEMMA TogetherThrough ==
  ASSUME NEW G, IsFiniteSet(G), NEW u, NEW v, NEW w, Together(u, v, G), Together(v, w, G)
  PROVE  Together(u, w, G) /\ Together(v, u, G)
BY LeadsThrough DEF Together

LEMMA ChainLeads ==
  ASSUME NEW V, NEW G, IsFiniteSet(G), NEW s \in Seq(V), s # <<>>, Chain(s, G), NEW v \in Range(s)
  PROVE  Leads(v, Last(s), G)
<1> DEFINE n    == Len(s)
           good == {k \in Nat : k < n => Leads(s[n - k], s[n], G)}
<1>1. n \in Nat /\ n > 0 /\ DOMAIN s = 1 .. n /\ Last(s) = s[n]
  BY FrontIs
<1>2. 0 \in good
  <2>1. n - 0 = n
    BY <1>1
  <2> HIDE DEF n
  <2>2. QED
    BY <2>1, LeadsSelf
<1>3. ASSUME NEW k \in Nat, k \in good
      PROVE  k + 1 \in good
  <2> SUFFICES ASSUME k + 1 < n
               PROVE  Leads(s[n - (k + 1)], s[n], G)
    OBVIOUS
  <2>1. k < n /\ n - (k + 1) \in 1 .. n - 1 /\ (n - (k + 1)) + 1 = n - k
    BY <1>1
  <2>2. <<s[n - (k + 1)], s[n - k]>> \in G
    BY <2>1 DEF Chain
  <2>3. Leads(s[n - k], s[n], G)
    BY <1>3, <2>1
  <2> DEFINE a == <<s[n - (k + 1)], s[n - k]>>
  <2>4. a[1] = s[n - (k + 1)] /\ a[2] = s[n - k]
    OBVIOUS
  <2> HIDE DEF a, n
  <2>5. a \in G
    BY <2>2 DEF a
  <2>6. QED
    BY <2>3, <2>4, <2>5, LeadsInto
<1>4. Nat \subseteq good
  <2> HIDE DEF good
  <2>1. QED
    BY <1>2, <1>3, SetInduction
<1>5. PICK i \in 1 .. n : v = s[i]
  BY <1>1 DEF Range
<1>6. n - i \in Nat /\ n - i < n /\ n - (n - i) = i
  BY <1>1
<1>7. n - i \in good
  BY <1>4, <1>6
<1>8. QED
  BY <1>1, <1>5, <1>6, <1>7

LEMMA SearchStarts ==
  ASSUME NEW V, NEW G, IsFiniteSet(G), NEW done, NEW seen, Searched(V, G, <<>>, done, seen),
         NEW v \in V, v \notin seen
  PROVE  Searched(V, G, <<v>>, done, seen \cup {v})
<1>1. Range(<<>>) = {} /\ Range(<<v>>) = {v} /\ <<v>> \in Seq(V) /\ IsInjective(<<v>>)
      /\ Chain(<<v>>, G)
  BY DEF Range, IsInjective, Chain
<1>2. seen = Range(done)
  BY <1>1 DEF Searched
<1>3. ASSUME NEW w \in seen \cup {v}, NEW u \in V, Leads(w, u, G)
      PROVE  Outlasted(w, u, G, <<v>>, done)
  <2>1. CASE w = v
    BY <1>1, <2>1, TogetherSelf DEF Outlasted
  <2>2. CASE w # v
    <3>1. Outlasted(w, u, G, <<>>, done)
      BY <1>3, <2>2 DEF Searched
    <3>2. QED
      BY <1>1, <3>1 DEF Outlasted
  <2>3. QED
    BY <2>1, <2>2
<1>4. \A a \in G : a[1] \in Range(done) => a[2] \in seen \cup {v}
  BY DEF Searched
<1>5. done \in Seq(V) /\ IsInjective(done)
  BY DEF Searched
<1>6. QED
  BY <1>1, <1>2, <1>3, <1>4, <1>5 DEF Searched

LEMMA SearchDescends ==
  ASSUME NEW V, NEW G, IsFiniteSet(G), NEW path, NEW done, NEW seen,
         Searched(V, G, path, done, seen), path # <<>>,
         NEW w \in V, w \notin seen, <<Last(path), w>> \in G
  PROVE  Searched(V, G, Append(path, w), done, seen \cup {w})
<1> DEFINE next == Append(path, w)
<1>1. /\ path \in Seq(V) /\ done \in Seq(V) /\ IsInjective(path) /\ IsInjective(done)
      /\ Range(path) \cap Range(done) = {} /\ seen = Range(path) \cup Range(done)
  BY DEF Searched
<1>2. /\ next \in Seq(V) /\ Range(next) = Range(path) \cup {w} /\ Len(next) = Len(path) + 1
      /\ next[Len(path) + 1] = w /\ \A i \in 1 .. Len(path) : next[i] = path[i]
  BY <1>1, AppendIs
<1>3. IsInjective(next)
  BY <1>1, AppendOneToOne
<1>4. Len(path) \in Nat /\ Len(path) > 0 /\ Last(path) = path[Len(path)]
  BY <1>1, FrontIs
<1> HIDE DEF next
<1>5. Chain(next, G)
  <2> SUFFICES ASSUME NEW i \in 1 .. Len(next) - 1
               PROVE  <<next[i], next[i + 1]>> \in G
    BY DEF Chain
  <2>1. i \in 1 .. Len(path)
    BY <1>2, <1>4
  <2>2. CASE i = Len(path)
    BY <1>2, <1>4, <2>1, <2>2
  <2>3. CASE i # Len(path)
    <3>1. i \in 1 .. Len(path) - 1 /\ i + 1 \in 1 .. Len(path)
      BY <1>4, <2>1, <2>3
    <3>2. <<path[i], path[i + 1]>> \in G
      BY <3>1 DEF Searched, Chain
    <3>3. QED
      BY <1>2, <2>1, <3>1, <3>2
  <2>4. QED
    BY <2>2, <2>3
<1>6. ASSUME NEW x \in seen \cup {w}, NEW u \in V, Leads(x, u, G)
      PROVE  Outlasted(x, u, G, next, done)
  <2>1. CASE x = w
    BY <1>2, <2>1, TogetherSelf DEF Outlasted
  <2>2. CASE x # w
    <3>1. Outlasted(x, u, G, path, done)
      BY <1>6, <2>2 DEF Searched
    <3>2. QED
      BY <1>2, <3>1 DEF Outlasted
  <2>3. QED
    BY <2>1, <2>2
<1>7. \A a \in G : a[1] \in Range(done) => a[2] \in seen \cup {w}
  BY DEF Searched
<1>8. Range(next) \cap Range(done) = {} /\ seen \cup {w} = Range(next) \cup Range(done)
  BY <1>1, <1>2
<1>9. Searched(V, G, next, done, seen \cup {w})
  BY <1>1, <1>2, <1>3, <1>5, <1>6, <1>7, <1>8 DEF Searched
<1>10. QED
  BY <1>9 DEF next

LEMMA SearchFinishes ==
  ASSUME NEW V, NEW G, IsFiniteSet(G), NEW path, NEW done, NEW seen,
         Searched(V, G, path, done, seen), path # <<>>,
         \A a \in G : a[1] = Last(path) => a[2] \in seen
  PROVE  Searched(V, G, Front(path), Append(done, Last(path)), seen)
<1> DEFINE t    == Last(path)
           rest == Front(path)
           next == Append(done, t)
<1>1. /\ path \in Seq(V) /\ done \in Seq(V) /\ IsInjective(path) /\ IsInjective(done)
      /\ Range(path) \cap Range(done) = {} /\ seen = Range(path) \cup Range(done)
  BY DEF Searched
<1>2. /\ rest \in Seq(V) /\ t \in V /\ Range(path) = Range(rest) \cup {t}
      /\ IsInjective(rest) /\ t \notin Range(rest)
      /\ Len(rest) = Len(path) - 1 /\ \A i \in 1 .. Len(path) - 1 : rest[i] = path[i]
  BY <1>1, FrontIs
<1>3. Len(path) \in Nat /\ Len(path) > 0
  BY <1>1, FrontIs
<1>4. t \notin Range(done)
  BY <1>1, <1>2
<1>5. /\ next \in Seq(V) /\ Range(next) = Range(done) \cup {t} /\ Len(next) = Len(done) + 1
      /\ next[Len(done) + 1] = t /\ \A i \in 1 .. Len(done) : next[i] = done[i]
  <2> HIDE DEF t
  <2>1. QED
    BY <1>1, <1>2, AppendIs
<1>6. IsInjective(next)
  <2> HIDE DEF t
  <2>1. QED
    BY <1>1, <1>2, <1>4, AppendOneToOne
<1>7. Chain(rest, G)
  <2> SUFFICES ASSUME NEW i \in 1 .. Len(rest) - 1
               PROVE  <<rest[i], rest[i + 1]>> \in G
    BY DEF Chain
  <2>1. i \in 1 .. Len(path) - 1 /\ i + 1 \in 1 .. Len(path) - 1
    BY <1>2, <1>3
  <2>2. <<path[i], path[i + 1]>> \in G
    BY <2>1 DEF Searched, Chain
  <2> HIDE DEF rest
  <2>3. QED
    BY <1>2, <2>1, <2>2
<1>8. /\ DOMAIN done = 1 .. Len(done) /\ Len(done) \in Nat
      /\ DOMAIN next = 1 .. Len(done) + 1
  BY <1>1, <1>5, LenProperties
<1> HIDE DEF t, rest, next
<1>9. \A u, x : NoLater(u, x, done) => NoLater(u, x, next)
  <2>1. \A i \in DOMAIN done : i \in DOMAIN next /\ next[i] = done[i]
    BY <1>5, <1>8
  <2>2. QED
    BY <2>1 DEF NoLater
<1>10. \A u \in Range(next) : NoLater(u, t, next)
  <2> SUFFICES ASSUME NEW u \in Range(next)
               PROVE  NoLater(u, t, next)
    OBVIOUS
  <2>1. PICK i \in DOMAIN next : next[i] = u
    BY DEF Range
  <2>2. Len(done) + 1 \in DOMAIN next /\ i <= Len(done) + 1
    BY <1>8
  <2>3. QED
    BY <1>5, <2>1, <2>2 DEF NoLater
<1>11. ASSUME NEW u, Leads(t, u, G), \A y \in Range(rest) : ~Together(t, y, G)
       PROVE  u \in Range(next)
  <2> DEFINE T == {y \in Reached({t}, G) : y \in Range(next)}
  <2>1. t \in T
    BY <1>5, ReachedFixed
  <2>2. Closed(T, G)
    <3> SUFFICES ASSUME NEW a \in G, a[1] \in T
                 PROVE  a[2] \in T
      BY DEF Closed
    <3>1. Leads(t, a[2], G) /\ a[2] \in Reached({t}, G)
      BY LeadsOn DEF Leads
    <3>2. a[2] \in seen
      <4>1. a[1] \in Range(done) \/ a[1] = t
        BY <1>5
      <4>2. QED
        BY <4>1 DEF Searched, t
    <3>3. a[2] \notin Range(rest)
      <4> SUFFICES ASSUME a[2] \in Range(rest)
                   PROVE  FALSE
        OBVIOUS
      <4>1. a[2] \in Range(path) /\ Chain(path, G)
        BY <1>2 DEF Searched
      <4>2. Leads(a[2], t, G)
        BY <1>1, <4>1, ChainLeads DEF t
      <4>3. QED
        BY <1>11, <3>1, <4>2 DEF Together
    <3>4. a[2] \in Range(next)
      BY <1>1, <1>2, <1>5, <3>2, <3>3
    <3>5. QED
      BY <3>1, <3>4
  <2>3. u \in T
    <3> HIDE DEF T
    <3>1. QED
      BY <1>11, <2>1, <2>2, LeadsWithin
  <2>4. QED
    BY <2>3
<1>12. ASSUME NEW w \in seen, NEW u \in V, Leads(w, u, G)
       PROVE  Outlasted(w, u, G, rest, next)
  <2>1. PICK x \in Range(path) \cup Range(done) :
          Together(w, x, G) /\ (x \in Range(path) \/ NoLater(u, x, done))
    BY <1>12 DEF Searched, Outlasted
  <2>2. x \in Range(rest) \cup Range(next)
    BY <1>2, <1>5
  <2>3. CASE NoLater(u, x, done)
    BY <1>9, <2>1, <2>2, <2>3 DEF Outlasted
  <2>4. CASE x \in Range(rest)
    BY <2>1, <2>2, <2>4 DEF Outlasted
  <2>5. CASE x = t
    <3>1. CASE \E y \in Range(rest) : Together(t, y, G)
      <4>1. PICK y \in Range(rest) : Together(t, y, G)
        BY <3>1
      <4>2. Together(w, y, G)
        BY <2>1, <2>5, <4>1, TogetherThrough
      <4>3. QED
        BY <4>1, <4>2 DEF Outlasted
    <3>2. CASE \A y \in Range(rest) : ~Together(t, y, G)
      <4>1. Leads(t, u, G)
        BY <1>12, <2>1, <2>5, LeadsThrough DEF Together
      <4>2. u \in Range(next)
        BY <1>11, <3>2, <4>1
      <4>3. NoLater(u, t, next)
        BY <1>10, <4>2
      <4>4. QED
        BY <2>1, <2>2, <2>5, <4>3 DEF Outlasted
    <3>3. QED
      BY <3>1, <3>2
  <2>6. QED
    BY <1>2, <2>1, <2>3, <2>4, <2>5
<1>13. \A a \in G : a[1] \in Range(next) => a[2] \in seen
  BY <1>5 DEF Searched, t
<1>14. Range(rest) \cap Range(next) = {} /\ seen = Range(rest) \cup Range(next)
  BY <1>1, <1>2, <1>5
<1>15. Searched(V, G, rest, next, seen)
  BY <1>2, <1>5, <1>6, <1>7, <1>12, <1>13, <1>14 DEF Searched
<1>16. QED
  BY <1>15 DEF t, rest, next

-------------------------------------------------------------------------------
(* The second search, against the arcs and from the last finished.  Its    *)
(* root finished last of what is unvisited, so an unvisited node that      *)
(* leads to it has its whole component unvisited, and that component's     *)
(* last, which the order has finish no earlier than the root, is the root. *)

Ordered(V, G, done) ==
  /\ done \in Seq(V) /\ IsInjective(done) /\ Range(done) = V
  /\ \A w \in V, u \in V : Leads(w, u, G) => \E x \in V : Together(w, x, G) /\ NoLater(u, x, done)

Class(u, V, G) == {v \in V : Together(u, v, G)}

Older(parts) == UNION {parts[k] : k \in 1 .. Len(parts) - 1}

Growing(r, V, G, done, trail, parts) ==
  /\ r \in parts[Len(parts)] \cup Range(trail)
  /\ parts[Len(parts)] \cup Range(trail) \subseteq Class(r, V, G)
  /\ \A x \in V : NoLater(x, r, done) \/ x \in Older(parts)

Collected(V, G, done, trail, seen, parts) ==
  /\ trail \in Seq(V) /\ IsInjective(trail) /\ parts \in Seq(SUBSET V)
  /\ seen = (UNION Range(parts)) \cup Range(trail)
  /\ Range(trail) \cap (UNION Range(parts)) = {}
  /\ \A i, j \in DOMAIN parts : i # j => parts[i] \cap parts[j] = {}
  /\ \A a \in G : a[2] \in (UNION Range(parts)) => a[1] \in seen
  /\ \A i \in DOMAIN parts : i < Len(parts) \/ trail = <<>> => \E u \in V : parts[i] = Class(u, V, G)
  /\ trail # <<>> => parts # <<>> /\ \E r \in V : Growing(r, V, G, done, trail, parts)

LEMMA SearchOrders ==
  ASSUME NEW V, NEW G, NEW done, NEW seen, Searched(V, G, <<>>, done, seen), V \subseteq seen
  PROVE  Ordered(V, G, done)
<1>1. Range(<<>>) = {}
  BY DEF Range
<1>2. done \in Seq(V) /\ IsInjective(done) /\ seen = Range(done)
  BY <1>1 DEF Searched
<1>3. Range(done) = V
  BY <1>2, RangeOfSeq
<1>4. \A w \in V, u \in V : Leads(w, u, G) => Outlasted(w, u, G, <<>>, done)
  BY <1>2, <1>3 DEF Searched
<1>5. \A w \in V, u \in V : Leads(w, u, G) => \E x \in V : Together(w, x, G) /\ NoLater(u, x, done)
  BY <1>1, <1>3, <1>4 DEF Outlasted
<1>6. QED
  BY <1>2, <1>3, <1>5 DEF Ordered

LEMMA CollectStarts ==
  ASSUME NEW V, NEW G, IsFiniteSet(G), NEW done, Ordered(V, G, done), NEW seen, NEW parts,
         Collected(V, G, done, <<>>, seen, parts), NEW v \in V, v \notin seen,
         NEW i \in DOMAIN done, done[i] = v, \A j \in DOMAIN done : j > i => done[j] \in seen
  PROVE  Collected(V, G, done, <<v>>, seen \cup {v}, Append(parts, {}))
<1> DEFINE next == Append(parts, {})
           n    == Len(parts)
<1>1. Range(<<>>) = {} /\ Range(<<v>>) = {v} /\ <<v>> \in Seq(V) /\ IsInjective(<<v>>) /\ <<v>> # <<>>
  BY DEF Range, IsInjective
<1>2. parts \in Seq(SUBSET V) /\ seen = (UNION Range(parts))
  BY <1>1 DEF Collected
<1>3. n \in Nat /\ DOMAIN parts = 1 .. n
  BY <1>2, LenProperties
<1>4. /\ next \in Seq(SUBSET V) /\ Range(next) = Range(parts) \cup {{}} /\ Len(next) = n + 1
      /\ next[n + 1] = {} /\ next # <<>> /\ \A k \in 1 .. n : next[k] = parts[k]
  <2> DEFINE empty == {}
  <2>1. empty \in SUBSET V
    OBVIOUS
  <2> HIDE DEF empty
  <2>2. /\ Append(parts, empty) \in Seq(SUBSET V)
        /\ Range(Append(parts, empty)) = Range(parts) \cup {empty}
        /\ Len(Append(parts, empty)) = Len(parts) + 1
        /\ Append(parts, empty)[Len(parts) + 1] = empty /\ Append(parts, empty) # <<>>
        /\ \A k \in 1 .. Len(parts) : Append(parts, empty)[k] = parts[k]
    BY <1>2, <2>1, AppendIs
  <2>3. QED
    BY <2>2 DEF empty
<1>5. DOMAIN next = 1 .. n + 1 /\ Len(next) - 1 = n
  BY <1>3, <1>4, LenProperties
<1> HIDE DEF next, n
<1>6. (UNION Range(next)) = (UNION Range(parts))
  BY <1>4
<1>7. Older(next) = seen
  <2>1. Older(next) = UNION {parts[k] : k \in 1 .. n}
    BY <1>4, <1>5 DEF Older
  <2>2. Range(parts) = {parts[k] : k \in 1 .. n}
    BY <1>3 DEF Range
  <2>3. QED
    BY <1>2, <2>1, <2>2
<1>8. \A x \in V : NoLater(x, v, done) \/ x \in Older(next)
  <2> SUFFICES ASSUME NEW x \in V
               PROVE  NoLater(x, v, done) \/ x \in seen
    BY <1>7
  <2>1. PICK j \in DOMAIN done : done[j] = x
    BY DEF Ordered, Range
  <2>2. DOMAIN done \subseteq Nat
    BY LenProperties DEF Ordered
  <2>3. j <= i \/ j > i
    BY <2>2
  <2>4. QED
    BY <2>1, <2>3 DEF NoLater
<1>9. Growing(v, V, G, done, <<v>>, next)
  <2>1. v \in Class(v, V, G)
    BY TogetherSelf DEF Class
  <2>2. next[Len(next)] = {}
    BY <1>4
  <2>3. QED
    BY <1>1, <1>8, <2>1, <2>2 DEF Growing
<1>10. \A k, j \in DOMAIN next : k # j => next[k] \cap next[j] = {}
  <2>1. \A k \in DOMAIN next : k \in 1 .. n \/ k = n + 1
    BY <1>3, <1>5
  <2>2. \A k, j \in 1 .. n : k # j => parts[k] \cap parts[j] = {}
    BY <1>3 DEF Collected
  <2>3. QED
    BY <1>4, <2>1, <2>2
<1>11. \A k \in DOMAIN next : k < Len(next) \/ <<v>> = <<>> => \E u \in V : next[k] = Class(u, V, G)
  <2> SUFFICES ASSUME NEW k \in DOMAIN next, k < Len(next)
               PROVE  \E u \in V : next[k] = Class(u, V, G)
    BY <1>1
  <2>1. k \in 1 .. n
    BY <1>3, <1>4, <1>5
  <2>2. \E u \in V : parts[k] = Class(u, V, G)
    BY <1>3, <2>1 DEF Collected
  <2>3. QED
    BY <1>4, <2>1, <2>2
<1>12. \A a \in G : a[2] \in (UNION Range(next)) => a[1] \in seen \cup {v}
  BY <1>6 DEF Collected
<1>13. seen \cup {v} = (UNION Range(next)) \cup Range(<<v>>) /\ Range(<<v>>) \cap (UNION Range(next)) = {}
  BY <1>1, <1>2, <1>6
<1>14. Collected(V, G, done, <<v>>, seen \cup {v}, next)
  BY <1>1, <1>4, <1>9, <1>10, <1>11, <1>12, <1>13 DEF Collected
<1>15. QED
  BY <1>14 DEF next

LEMMA JoinedOneToOne ==
  ASSUME NEW V, NEW s \in Seq(V), NEW t \in Seq(V), IsInjective(s), IsInjective(t),
         Range(s) \cap Range(t) = {}
  PROVE  IsInjective(s \o t) /\ s \o t \in Seq(V) /\ Range(s \o t) = Range(s) \cup Range(t)
<1> DEFINE j == s \o t
<1>1. Len(s) \in Nat /\ Len(t) \in Nat /\ DOMAIN s = 1 .. Len(s) /\ DOMAIN t = 1 .. Len(t)
  BY LenProperties
<1>2. j \in Seq(V) /\ Len(j) = Len(s) + Len(t)
  BY ConcatProperties
<1>3. DOMAIN j = 1 .. Len(s) + Len(t)
  BY <1>2, LenProperties
<1>4. \A i \in DOMAIN j : IF i \in DOMAIN s THEN j[i] = s[i]
                          ELSE i - Len(s) \in DOMAIN t /\ j[i] = t[i - Len(s)]
  <2> SUFFICES ASSUME NEW i \in DOMAIN j
               PROVE  IF i \in DOMAIN s THEN j[i] = s[i]
                      ELSE i - Len(s) \in DOMAIN t /\ j[i] = t[i - Len(s)]
    OBVIOUS
  <2>1. i \in 1 .. Len(s) + Len(t)
    BY <1>3
  <2>2. j[i] = IF i <= Len(s) THEN s[i] ELSE t[i - Len(s)]
    BY <2>1, ConcatProperties
  <2> HIDE DEF j
  <2>3. QED
    BY <1>1, <2>1, <2>2
<1>5. \A i, k \in DOMAIN j : i - Len(s) = k - Len(s) => i = k
  BY <1>1, <1>3
<1> HIDE DEF j
<1>6. ASSUME NEW i \in DOMAIN j, NEW k \in DOMAIN j, j[i] = j[k]
      PROVE  i = k
  <2>1. CASE i \in DOMAIN s /\ k \in DOMAIN s
    BY <1>4, <1>6, <2>1 DEF IsInjective
  <2>2. CASE i \in DOMAIN s /\ k \notin DOMAIN s
    BY <1>4, <1>6, <2>2 DEF Range
  <2>3. CASE i \notin DOMAIN s /\ k \in DOMAIN s
    BY <1>4, <1>6, <2>3 DEF Range
  <2>4. CASE i \notin DOMAIN s /\ k \notin DOMAIN s
    <3>1. i - Len(s) = k - Len(s)
      BY <1>4, <1>6, <2>4 DEF IsInjective
    <3>2. QED
      BY <1>5, <3>1
  <2>5. QED
    BY <2>1, <2>2, <2>3, <2>4
<1>7. IsInjective(j)
  BY <1>6 DEF IsInjective
<1>8. Range(j) = Range(s) \cup Range(t)
  BY RangeConcatenation DEF j
<1>9. QED
  BY <1>2, <1>7, <1>8 DEF j

LEMMA CollectPops ==
  ASSUME NEW V, NEW G, IsFiniteSet(G), G \subseteq V \X V, NEW done, Ordered(V, G, done),
         NEW trail, NEW seen, NEW parts, Collected(V, G, done, trail, seen, parts), trail # <<>>,
         NEW new \in Seq(V), IsInjective(new),
         Range(new) = {a[1] : a \in {b \in G : b[2] = Last(trail)}} \ seen
  PROVE  Collected(V, G, done, Front(trail) \o new, seen \cup Range(new),
                   [parts EXCEPT ![Len(parts)] = @ \cup {Last(trail)}])
<1> DEFINE v     == Last(trail)
           rest  == Front(trail)
           later == rest \o new
           n     == Len(parts)
           next  == [parts EXCEPT ![n] = @ \cup {v}]
           all   == UNION Range(parts)
<1>1. /\ trail \in Seq(V) /\ IsInjective(trail) /\ parts \in Seq(SUBSET V)
      /\ seen = all \cup Range(trail) /\ Range(trail) \cap all = {}
      /\ parts # <<>> /\ \E r \in V : Growing(r, V, G, done, trail, parts)
  BY DEF Collected
<1>2. PICK r \in V : Growing(r, V, G, done, trail, parts)
  BY <1>1
<1>3. n \in Nat /\ n > 0 /\ DOMAIN parts = 1 .. n /\ n \in DOMAIN parts
  <2>1. n \in Nat /\ n # 0 /\ DOMAIN parts = 1 .. n
    BY <1>1, LenProperties, EmptySeq
  <2>2. QED
    BY <2>1
<1>4. /\ rest \in Seq(V) /\ v \in V /\ Range(trail) = Range(rest) \cup {v}
      /\ IsInjective(rest) /\ v \notin Range(rest)
  BY <1>1, FrontIs
<1>5. Range(rest) \cap Range(new) = {} /\ all \cap Range(new) = {} /\ v \notin Range(new)
  BY <1>1, <1>4
<1>6. later \in Seq(V) /\ IsInjective(later) /\ Range(later) = Range(rest) \cup Range(new)
  <2> HIDE DEF rest
  <2>1. QED
    BY <1>4, <1>5, JoinedOneToOne
<1>7. /\ DOMAIN next = 1 .. n /\ next[n] = parts[n] \cup {v}
      /\ \A k \in DOMAIN parts : parts[k] \in SUBSET V /\ (k # n => next[k] = parts[k])
  <2>1. \A k \in DOMAIN parts : parts[k] \in SUBSET V
    BY <1>1, <1>3, ElementOfSeq
  <2> HIDE DEF n, v
  <2>2. QED
    BY <1>3, <2>1
<1>8. next \in Seq(SUBSET V) /\ Len(next) = n
  <2>1. \A k \in 1 .. n : next[k] \in SUBSET V
    <3> HIDE DEF next, n, v
    <3>1. QED
      BY <1>3, <1>4, <1>7
  <2>2. next = [k \in 1 .. n |-> next[k]]
    <3> HIDE DEF n, v
    <3>1. QED
      BY <1>3
  <2> HIDE DEF next, n
  <2>3. next \in Seq(SUBSET V)
    BY <1>3, <2>1, <2>2
  <2>4. Len(next) = n
    BY <1>3, <1>7, <2>3, LenProperties
  <2>5. QED
    BY <2>3, <2>4
<1> HIDE DEF v, rest, later, n, next
<1>9. (UNION Range(next)) = all \cup {v}
  <2>1. \A x : x \in (UNION Range(next)) <=> \E k \in 1 .. n : x \in next[k]
    BY <1>7 DEF Range
  <2>2. \A x : x \in all <=> \E k \in 1 .. n : x \in parts[k]
    BY <1>3 DEF Range
  <2>3. \A x : (\E k \in 1 .. n : x \in next[k]) <=> (x = v \/ \E k \in 1 .. n : x \in parts[k])
    <3> HIDE DEF all
    <3>1. QED
      BY <1>3, <1>7
  <2> HIDE DEF all
  <2>4. QED
    BY <2>1, <2>2, <2>3
<1>10. Older(next) = Older(parts)
  <2>1. \A k \in 1 .. n - 1 : next[k] = parts[k]
    BY <1>3, <1>7
  <2>2. QED
    BY <1>8, <2>1 DEF Older, n
<1>11. parts[n] \cup Range(trail) \subseteq Class(r, V, G) /\ r \in parts[n] \cup Range(trail)
  BY <1>2 DEF Growing, n
<1>12. \A x \in Older(parts) : \E k \in 1 .. n - 1 : x \in parts[k]
  BY DEF Older, n
<1>13. \A k \in 1 .. n - 1 : k \in DOMAIN parts /\ k # n /\ \E u \in V : parts[k] = Class(u, V, G)
  <2> SUFFICES ASSUME NEW k \in 1 .. n - 1
               PROVE  k \in DOMAIN parts /\ k # n /\ \E u \in V : parts[k] = Class(u, V, G)
    OBVIOUS
  <2>1. k \in DOMAIN parts /\ k < n /\ k # n
    BY <1>3
  <2>2. QED
    BY <2>1 DEF Collected, n
(* A finished part holds the component of each of its nodes.               *)
<1>14. ASSUME NEW x \in V, NEW y \in V, x \in Older(parts), Together(x, y, G)
       PROVE  y \in Older(parts) /\ y \in seen
  <2>1. PICK k \in 1 .. n - 1 : x \in parts[k]
    BY <1>12, <1>14
  <2>2. PICK u \in V : parts[k] = Class(u, V, G)
    BY <1>13
  <2>3. Together(u, y, G)
    BY <1>14, <2>1, <2>2, TogetherThrough DEF Class
  <2>4. y \in parts[k]
    BY <2>2, <2>3 DEF Class
  <2>5. QED
    BY <1>1, <1>13, <2>4 DEF Older, n, Range
<1>15. r \notin Older(parts)
  <2> SUFFICES ASSUME r \in Older(parts)
               PROVE  FALSE
    OBVIOUS
  <2>1. PICK k \in 1 .. n - 1 : r \in parts[k]
    BY <1>12
  <2>2. r \in all /\ parts[k] \cap parts[n] = {}
    BY <1>3, <1>13, <2>1 DEF Collected, Range
  <2>3. QED
    BY <1>1, <1>11, <2>1, <2>2
<1>16. Range(new) \subseteq Class(r, V, G)
  <2> SUFFICES ASSUME NEW w \in Range(new)
               PROVE  w \in Class(r, V, G)
    OBVIOUS
  <2>1. PICK a \in G : a[1] = w /\ a[2] = v
    BY DEF v
  <2>2. w \in V /\ w \notin seen /\ v \in Class(r, V, G)
    BY <1>4, <1>11, <2>1
  <2>3. Leads(v, r, G) /\ Leads(w, r, G)
    BY <2>1, <2>2, LeadsInto DEF Class, Together
  <2>4. PICK x \in V : Together(w, x, G) /\ NoLater(r, x, done)
    BY <2>2, <2>3 DEF Ordered
  <2>5. x \notin Older(parts)
    BY <1>14, <2>2, <2>4, TogetherThrough, TogetherSelf
  <2>6. NoLater(x, r, done)
    BY <1>2, <2>5 DEF Growing
  <2>7. x = r
    <3>1. PICK i, j \in DOMAIN done : done[i] = r /\ done[j] = x /\ i <= j
      BY <2>4 DEF NoLater
    <3>2. PICK k, l \in DOMAIN done : done[k] = x /\ done[l] = r /\ k <= l
      BY <2>6 DEF NoLater
    <3>3. k = j /\ l = i
      BY <3>1, <3>2 DEF Ordered, IsInjective
    <3>4. DOMAIN done \subseteq Nat
      BY LenProperties DEF Ordered
    <3>5. i = j
      BY <3>1, <3>2, <3>3, <3>4
    <3>6. QED
      BY <3>1, <3>5
  <2>8. QED
    BY <2>2, <2>4, <2>7, TogetherThrough DEF Class
<1>17. Growing(r, V, G, done, later, next)
  <2>1. next[Len(next)] = parts[n] \cup {v}
    BY <1>7, <1>8
  <2>2. next[Len(next)] \cup Range(later) \subseteq Class(r, V, G)
    BY <1>4, <1>6, <1>11, <1>16, <2>1
  <2>3. r \in next[Len(next)] \cup Range(later)
    BY <1>4, <1>6, <1>11, <2>1
  <2>4. QED
    BY <1>2, <1>10, <2>2, <2>3 DEF Growing
<1>18. ASSUME NEW a \in G, a[2] \in all \cup {v}
       PROVE  a[1] \in seen \cup Range(new)
  <2>1. CASE a[2] = v
    BY <2>1 DEF v
  <2>2. CASE a[2] # v
    BY <1>18, <2>2 DEF Collected
  <2>3. QED
    BY <2>1, <2>2
<1>19. seen \cup Range(new) = (UNION Range(next)) \cup Range(later)
  BY <1>1, <1>4, <1>6, <1>9
<1>20. Range(later) \cap (UNION Range(next)) = {}
  BY <1>1, <1>4, <1>5, <1>6, <1>9
<1>21. \A i, j \in DOMAIN next : i # j => next[i] \cap next[j] = {}
  <2>1. \A i, j \in DOMAIN parts : i # j => parts[i] \cap parts[j] = {}
    BY DEF Collected
  <2>2. \A i \in DOMAIN parts : v \notin parts[i]
    BY <1>1, <1>4 DEF Range
  <2>3. QED
    BY <1>3, <1>7, <2>1, <2>2
<1>22. ASSUME later = <<>>
       PROVE  next[n] = Class(r, V, G)
  <2>1. Range(later) = {}
    BY <1>22 DEF Range
  <2>2. next[n] \subseteq Class(r, V, G) /\ r \in next[n]
    BY <1>8, <1>17, <2>1 DEF Growing
  <2> DEFINE R == Reached({r}, Reversed(G))
             T == R \cap (all \cup {v})
  <2>3. r \in R /\ Closed(R, Reversed(G)) /\ IsFiniteSet(Reversed(G))
    BY ReversedFinite, ReachedFixed
  <2>4. r \in T
    BY <1>1, <1>3, <1>4, <1>6, <1>11, <2>1, <2>3 DEF Range
  <2>5. Closed(T, Reversed(G))
    <3> SUFFICES ASSUME NEW b \in Reversed(G), b[1] \in T
                 PROVE  b[2] \in T
      BY DEF Closed
    <3>1. b[2] \in R
      BY <2>3 DEF Closed
    <3>2. PICK a \in G : b = <<a[2], a[1]>>
      BY DEF Reversed
    <3>3. b[1] = a[2] /\ b[2] = a[1]
      BY <3>2
    <3> HIDE DEF R
    <3>4. a[1] \in seen \cup Range(new)
      BY <1>18, <3>3
    <3>5. QED
      BY <1>9, <1>19, <2>1, <3>1, <3>3, <3>4
  <2>6. R \subseteq T
    <3> HIDE DEF T
    <3>1. QED
      BY <2>3, <2>4, <2>5, ReachedLeast
  <2>7. ASSUME NEW m \in Class(r, V, G)
        PROVE  m \in next[n]
    <3>1. m \in V /\ Leads(m, r, G) /\ Together(m, r, G)
      BY DEF Class, Together
    <3>2. m \in all \cup {v}
      BY <2>6, <3>1, ReachedAgainst
    <3>3. m \notin Older(parts)
      BY <1>14, <1>15, <3>1
    <3>4. m \in parts[n] \/ m = v
      <4>1. CASE m = v
        BY <4>1
      <4>2. CASE m \in all
        <5>1. PICK k \in 1 .. n : m \in parts[k]
          BY <1>3, <4>2 DEF Range
        <5>2. k \notin 1 .. n - 1
          BY <3>3, <5>1 DEF Older, n
        <5>3. k = n
          BY <1>3, <5>2
        <5>4. QED
          BY <5>1, <5>3
      <4>3. QED
        BY <3>2, <4>1, <4>2
    <3>5. QED
      BY <1>7, <3>4
  <2>8. QED
    BY <2>2, <2>7
<1>23. \A i \in DOMAIN next : i < Len(next) \/ later = <<>> => \E u \in V : next[i] = Class(u, V, G)
  <2> SUFFICES ASSUME NEW i \in DOMAIN next, i < n \/ later = <<>>
               PROVE  \E u \in V : next[i] = Class(u, V, G)
    BY <1>8
  <2>1. CASE i = n
    BY <1>3, <1>22, <2>1
  <2>2. CASE i # n
    <3>1. i \in 1 .. n - 1
      BY <1>3, <1>7, <2>2
    <3>2. QED
      BY <1>7, <1>13, <3>1
  <2>3. QED
    BY <2>1, <2>2
<1>24. next # <<>>
  <2>1. Len(<<>>) = 0
    OBVIOUS
  <2>2. QED
    BY <1>3, <1>8, <2>1
<1>25. Collected(V, G, done, later, seen \cup Range(new), next)
  <2>1. \A a \in G : a[2] \in (UNION Range(next)) => a[1] \in seen \cup Range(new)
    BY <1>9, <1>18
  <2> HIDE DEF all
  <2>2. QED
    BY <1>6, <1>8, <1>17, <1>19, <1>20, <1>21, <1>23, <1>24, <2>1 DEF Collected
<1>26. QED
  BY <1>25 DEF v, rest, later, n, next

(* Both searches over, the parts are the components, each once.            *)
LEMMA CollectedAll ==
  ASSUME NEW V, NEW G, IsFiniteSet(G), NEW done, NEW seen, NEW parts,
         Collected(V, G, done, <<>>, seen, parts), V \subseteq seen
  PROVE  Range(parts) = {Class(u, V, G) : u \in V} /\ IsInjective(parts)
<1>1. Range(<<>>) = {}
  BY DEF Range
<1>2. /\ parts \in Seq(SUBSET V) /\ V \subseteq (UNION Range(parts))
      /\ \A i, j \in DOMAIN parts : i # j => parts[i] \cap parts[j] = {}
      /\ \A i \in DOMAIN parts : \E u \in V : parts[i] = Class(u, V, G)
  BY <1>1 DEF Collected
<1>3. \A u \in V : u \in Class(u, V, G)
  BY TogetherSelf DEF Class
<1>4. ASSUME NEW u \in V
      PROVE  Class(u, V, G) \in Range(parts)
  <2>1. PICK i \in DOMAIN parts : u \in parts[i]
    BY <1>2 DEF Range
  <2>2. PICK w \in V : parts[i] = Class(w, V, G)
    BY <1>2
  <2>3. Together(w, u, G)
    BY <2>1, <2>2 DEF Class
  <2>4. ASSUME NEW v \in V
        PROVE  Together(w, v, G) <=> Together(u, v, G)
    <3>1. Together(u, w, G)
      BY <2>3 DEF Together
    <3>2. Together(w, v, G) => Together(u, v, G)
      BY <3>1, TogetherThrough
    <3>3. Together(u, v, G) => Together(w, v, G)
      BY <2>3, TogetherThrough
    <3>4. QED
      BY <3>2, <3>3
  <2>5. Class(u, V, G) = parts[i]
    BY <2>2, <2>4 DEF Class
  <2>6. QED
    BY <2>5 DEF Range
<1>5. \A i, j \in DOMAIN parts : parts[i] = parts[j] => i = j
  BY <1>2, <1>3
<1>6. QED
  BY <1>2, <1>4, <1>5 DEF Range, IsInjective

-------------------------------------------------------------------------------
(* The document as a graph.                                                *)

LEMMA DocumentIs ==
  ASSUME topology \in Topologies
  PROVE  /\ topology.nodes \in Seq(NodeDoc) /\ Len(topology.nodes) \in Nat
         /\ DOMAIN topology.nodes = 1 .. Len(topology.nodes)
         /\ \A i \in DOMAIN topology.nodes : topology.nodes[i] \in NodeDoc
         /\ topology.transitions \in Seq(EdgeDoc)
         /\ \A i \in DOMAIN topology.transitions : topology.transitions[i] \in EdgeDoc
         /\ \A n \in Nodes : n \in NodeDoc
         /\ \A t \in Edges : t \in EdgeDoc
<1>1. topology.nodes \in Seq(NodeDoc) /\ topology.transitions \in Seq(EdgeDoc)
  BY DocumentAssumption
<1>2. Len(topology.nodes) \in Nat /\ DOMAIN topology.nodes = 1 .. Len(topology.nodes)
  BY <1>1, LenProperties
<1>3. \A i \in DOMAIN topology.nodes : topology.nodes[i] \in NodeDoc
  BY <1>1, ElementOfSeq, LenProperties
<1>4. \A i \in DOMAIN topology.transitions : topology.transitions[i] \in EdgeDoc
  BY <1>1, ElementOfSeq, LenProperties
<1>5. (\A n \in Nodes : n \in NodeDoc) /\ (\A t \in Edges : t \in EdgeDoc)
  BY <1>3, <1>4 DEF Nodes, Edges, Range
<1>6. QED
  BY <1>1, <1>2, <1>3, <1>4, <1>5

(* A name has the id of the last node that carries it, an id the name.     *)
LEMMA IdOfIs ==
  ASSUME topology \in Topologies, NEW n \in Names
  PROVE  /\ IdOf(n) \in Ids
         /\ \E i \in DOMAIN topology.nodes :
              topology.nodes[i].name = n /\ IdOf(n) = topology.nodes[i].id
<1> DEFINE S == {i \in DOMAIN topology.nodes : topology.nodes[i].name = n}
<1>1. Len(topology.nodes) \in Nat /\ S \in SUBSET (1 .. Len(topology.nodes))
  BY DocumentIs
<1>2. S # {}
  BY DEF Names, Nodes, Range
<1> HIDE DEF S
<1>3. Max(S) \in S
  BY <1>1, <1>2, MaxBelow
<1>4. IdOf(n) = topology.nodes[Max(S)].id
  BY DEF IdOf, S
<1>5. QED
  BY <1>3, <1>4 DEF S, Ids, Nodes, Range

LEMMA NameOfIs ==
  ASSUME topology \in Topologies, NEW v
  PROVE  /\ v \notin Ids => NameOf(v) = "?"
         /\ v \in Ids => /\ NameOf(v) \in Names
                         /\ \E i \in DOMAIN topology.nodes :
                              topology.nodes[i].id = v /\ NameOf(v) = topology.nodes[i].name
<1> DEFINE S == {i \in DOMAIN topology.nodes : topology.nodes[i].id = v}
<1>1. Len(topology.nodes) \in Nat /\ S \in SUBSET (1 .. Len(topology.nodes))
  BY DocumentIs
<1>2. CASE v \notin Ids
  BY <1>2 DEF NameOf
<1>3. CASE v \in Ids
  <2>1. S # {}
    BY <1>3 DEF Ids, Nodes, Range
  <2> HIDE DEF S
  <2>2. Max(S) \in S
    BY <1>1, <2>1, MaxBelow
  <2>3. NameOf(v) = topology.nodes[Max(S)].name
    BY <1>3 DEF NameOf, S
  <2>4. QED
    BY <1>3, <2>2, <2>3 DEF S, Names, Nodes, Range
<1>4. QED
  BY <1>2, <1>3

LEMMA IdsFinite ==
  ASSUME topology \in Topologies
  PROVE  IsFiniteSet(Ids) /\ Ids \subseteq Nat
<1> DEFINE n == Len(topology.nodes)
           f == [i \in 1 .. n |-> topology.nodes[i].id]
<1>1. n \in Nat /\ DOMAIN topology.nodes = 1 .. n
  BY DocumentIs
<1>2. \A v : v \in Ids <=> \E i \in 1 .. n : v = topology.nodes[i].id
  BY <1>1 DEF Ids, Nodes, Range
<1> HIDE DEF n
<1>3. f \in Surjection(1 .. n, Ids)
  BY <1>2 DEF Surjection
<1>4. IsFiniteSet(1 .. n)
  BY <1>1, FS_Interval
<1>5. IsFiniteSet(Ids)
  BY <1>3, <1>4, FS_Surjection
<1>6. Ids \subseteq Nat
  BY DocumentIs DEF Ids, NodeDoc
<1>7. QED
  BY <1>5, <1>6

(* The arcs the checker searches: those of the transitions it knows.       *)
Links == {<<IdOf(t.from), IdOf(t.to)>> : t \in {u \in Edges : Known(u)}}

LEMMA LinksFinite ==
  ASSUME topology \in Topologies
  PROVE  Links \subseteq Ids \X Ids /\ IsFiniteSet(Links)
<1>1. Links \subseteq Ids \X Ids
  <2>1. \A t \in {u \in Edges : Known(u)} : IdOf(t.from) \in Ids /\ IdOf(t.to) \in Ids
    BY IdOfIs DEF Known
  <2>2. QED
    BY <2>1 DEF Links
<1>2. IsFiniteSet(Ids \X Ids)
  BY IdsFinite, FS_Product
<1>3. QED
  BY <1>1, <1>2, FS_Subset

-------------------------------------------------------------------------------
(* The inductive invariant.                                                *)

Early == pc \in {"phase1", "graph", "structural", "gates", "cutset"}
Late  == pc \in {"load", "operators", "accepted", "refused"}

(* The adjacency lists are those of the document once they are built.      *)
ArcsInv == ArcSet = IF pc \in {"phase1", "graph"} THEN {} ELSE Links

SearchTypes ==
  /\ visited \subseteq Ids
  /\ Range(stack) \subseteq visited
  /\ IsInjective(stack)
  /\ Range(finish) \subseteq Ids
  /\ (UNION Range(sccs)) \subseteq Ids

(* The two searches.                                                       *)
SearchInv ==
  /\ Early => stack = <<>> /\ visited = {} /\ finish = <<>> /\ sccs = <<>>
  /\ pc = "finish" => Searched(Ids, ArcSet, stack, finish, visited) /\ sccs = <<>>
  /\ pc = "collect" => /\ Ordered(Ids, ArcSet, finish)
                       /\ Collected(Ids, ArcSet, finish, stack, visited, sccs)
  /\ Late => SearchTypes

Area == IF pc = "gates" THEN Ids \cup {0} ELSE Between

(* The dominator fixpoint; what a round without a change has visited needs *)
(* no other visit.                                                         *)
FixpointInv ==
  /\ todo \subseteq Ids
  /\ dom \in [DOMAIN dom -> SUBSET (Ids \cup {0})] /\ DOMAIN dom \subseteq Ids \cup {0}
  /\ pc = "cutset" => HasReceiptChain
  /\ pc \in {"gates", "cutset"} =>
       /\ DOMAIN dom = Area
       /\ todo \subseteq DOMAIN dom \ {Entry}
       /\ Dominators(dom, Entry, DOMAIN dom \cap Ids, ArcSet)
       /\ ~changed => \A v \in DOMAIN dom :
                        v # Entry /\ v \notin todo => dom[v] = Narrowed(dom, v, ArcSet)

(* Nodes that start leads to and that lead to no halt node.                *)
Stranded == {v \in Reached({0}, Links) : v \notin Reached(Halts, Reversed(Links))}

IdentityKinds ==
  {"duplicate_node_name", "duplicate_node_id", "index_mapping_broken",
   "unknown_endpoint", "duplicate_edge", "indeterminate_ordering"}

IdentityFound ==
  IdentityViolations \cup EdgeViolations \cup Found("unknown_endpoint", UnknownEndpoints)

Nameable == Names \cup UnknownEndpoints \cup {"?", "(none)", "(topology)"}

Positive == {<<IdOf(t.from), IdOf(t.to)>> : t \in {u \in Edges : Confidence(u) > 0}}

LetsHalt ==
  /\ \A v \in Reached({0}, Positive) : Reached({v}, Positive) \cap Halts # {}
  /\ \A g \in RequiredGates :
       {g[1], g[2]} \subseteq Names /\ IdOf(g[1]) # 0
       => IdOf(g[2]) \notin Reached({0}, {a \in Positive : IdOf(g[1]) \notin {a[1], a[2]}})

(* What has been found: what each pass was to find, and nothing of those   *)
(* kinds from elsewhere.                                                   *)
VerdictInv ==
  /\ \A v \in violations : v.nodes \subseteq Nameable
  /\ \A v \in violations : v.kind \in IdentityKinds => v \in IdentityFound
  /\ pc # "phase1" => WeightViolations \subseteq violations
  /\ pc \notin {"phase1", "graph", "structural"} =>
       /\ Found("unknown_endpoint", UnknownEndpoints) \subseteq violations
       /\ Found("cannot_reach_halt", {NameOf(v) : v \in Stranded}) \subseteq violations
  /\ pc \in {"operators", "accepted"} => LetsHalt

Unjudged ==
  /\ ~AfterGates => "dominance_violation" \notin Kinds
  /\ ~AfterCutset => "receipt_cutset_violation" \notin Kinds

CheckerInv ==
  /\ topology \in Topologies
  /\ pc \in Stages
  /\ ArcsInv
  /\ SearchInv
  /\ FixpointInv
  /\ VerdictInv
  /\ TrapsCannotHalt
  /\ Unjudged
  /\ DominanceExact
  /\ CutsetExact

(* Every step leaves the document alone, and with it all that is read of   *)
(* it.                                                                     *)
SameDocument ==
  /\ topology' = topology
  /\ Ids' = Ids /\ Names' = Names /\ Halts' = Halts /\ Links' = Links
  /\ UnknownEndpoints' = UnknownEndpoints /\ Nameable' = Nameable
  /\ IdentityFound' = IdentityFound /\ WeightViolations' = WeightViolations
  /\ Stranded' = Stranded /\ LetsHalt' = LetsHalt
  /\ \A x : IdOf(x)' = IdOf(x) /\ NameOf(x)' = NameOf(x)

LEMMA DocumentStays ==
  ASSUME [Next]_vars
  PROVE  SameDocument
<1>1. topology' = topology
  BY DEF Next, vars, CheckPhase1, BuildGraph, CheckStructural, VisitForDominators, NextRound,
         JudgeGates, JudgeCutset, DfsRoot, DfsDescend, DfsFinish, StartCollecting, CollectRoot,
         CollectPop, JudgeCycles, Load, CheckOperators
<1>2. Nodes' = Nodes /\ Edges' = Edges /\ \A t \in Edges : Confidence(t)' = Confidence(t)
  BY <1>1 DEF Nodes, Edges
<1>3. Ids' = Ids /\ Names' = Names /\ Halts' = Halts
  BY <1>2 DEF Ids, Names, Halts
<1>4. \A x : IdOf(x)' = IdOf(x)
  BY <1>1 DEF IdOf
<1>5. \A x : NameOf(x)' = NameOf(x)
  BY <1>1, <1>3 DEF NameOf
<1>6. UnknownEndpoints' = UnknownEndpoints
  BY <1>2, <1>3 DEF UnknownEndpoints
<1>7. Nameable' = Nameable
  BY <1>3, <1>6 DEF Nameable
<1>8. Links' = Links
  BY <1>1, <1>2, <1>3, <1>4 DEF Links, Known
<1>9. Stranded' = Stranded
  BY <1>3, <1>8 DEF Stranded
<1>10. WeightViolations' = WeightViolations
  BY <1>2 DEF WeightViolations
<1>11. IdentityFound' = IdentityFound
  BY <1>1 DEF IdentityFound, IdentityViolations, EdgeViolations, UnknownEndpoints, Names, Edges,
              Nodes, NameOf, IdOf, Ids, NodeNames, NodeIds, Ends, TieKey, Safety, Cost, Default
<1>12. LetsHalt' = LetsHalt
  BY <1>2, <1>3, <1>4 DEF LetsHalt, Positive
<1>13. QED
  BY <1>1, <1>3, <1>4, <1>5, <1>6, <1>7, <1>8, <1>9, <1>10, <1>11, <1>12 DEF SameDocument

LEMMA ArcsAre ==
  ASSUME CheckerInv
  PROVE  ArcSet \subseteq Ids \X Ids /\ IsFiniteSet(ArcSet)
BY LinksFinite, FS_EmptySet DEF CheckerInv, ArcsInv

(* What BuildGraph makes of the document.                                  *)
LEMMA GraphBuilt ==
  ASSUME topology \in Topologies, BuildGraph
  PROVE  ArcSet' = Links
<1> DEFINE ts    == topology.transitions
           kept  == {i \in DOMAIN ts : Known(ts[i])}
           known == Only(ts, kept)
<1>1. ts \in Seq(EdgeDoc) /\ kept \in SUBSET (DOMAIN ts)
  BY DocumentIs
<1>2. /\ known \in Seq(EdgeDoc)
      /\ \A k \in DOMAIN known : \E i \in kept : known[k] = ts[i]
      /\ \A i \in kept : \E k \in DOMAIN known : known[k] = ts[i]
  <2> HIDE DEF ts, kept
  <2>1. QED
    BY <1>1, OnlyIs
<1>3. arcs' = [k \in DOMAIN known |-> <<IdOf(known[k].from), IdOf(known[k].to)>>]
  BY DEF BuildGraph
<1> HIDE DEF known
<1>4. ArcSet' = {<<IdOf(known[k].from), IdOf(known[k].to)>> : k \in DOMAIN known}
  BY <1>3 DEF ArcSet, Range
<1>5. \A t : t \in {u \in Edges : Known(u)} <=> \E i \in kept : t = ts[i]
  BY DEF Edges, Range
<1> HIDE DEF ts, kept
<1>6. \A t : t \in {u \in Edges : Known(u)} <=> \E k \in DOMAIN known : t = known[k]
  BY <1>2, <1>5
<1>7. QED
  BY <1>4, <1>6 DEF Links

LEMMA ArcsStep ==
  ASSUME CheckerInv, [Next]_vars
  PROVE  ArcsInv' /\ (pc # "graph" => ArcSet' = ArcSet)
<1>1. topology \in Topologies /\ ArcsInv /\ Links' = Links
  BY DocumentStays DEF CheckerInv, SameDocument
<1>2. CASE BuildGraph
  <2>1. ArcSet' = Links /\ pc = "graph" /\ pc' = "structural"
    BY <1>1, <1>2, GraphBuilt DEF BuildGraph
  <2>2. QED
    BY <1>1, <2>1 DEF ArcsInv
<1>3. CASE ~BuildGraph
  <2>1. arcs' = arcs /\ (pc \in {"phase1", "graph"} <=> pc' \in {"phase1", "graph"})
    BY <1>3 DEF Next, vars, search, CheckPhase1, CheckStructural, VisitForDominators, NextRound,
         JudgeGates, JudgeCutset, DfsRoot, DfsDescend, DfsFinish, StartCollecting, CollectRoot,
         CollectPop, JudgeCycles, Load, CheckOperators
  <2>2. ArcSet' = ArcSet
    BY <2>1 DEF ArcSet
  <2>3. QED
    BY <1>1, <2>1, <2>2 DEF ArcsInv
<1>4. QED
  BY <1>2, <1>3

-------------------------------------------------------------------------------
(* The searches, step by step.                                             *)

LEMMA SearchStep ==
  ASSUME CheckerInv, pc = "finish", Next
  PROVE  SearchInv'
<1>1. /\ Searched(Ids, ArcSet, stack, finish, visited) /\ sccs = <<>>
      /\ ArcSet \subseteq Ids \X Ids /\ IsFiniteSet(ArcSet)
      /\ ArcSet' = ArcSet /\ Ids' = Ids
  BY ArcsAre, ArcsStep, DocumentStays DEF CheckerInv, SearchInv, SameDocument
<1>2. CASE DfsRoot
  <2>1. PICK v \in Ids \ visited : stack' = <<v>> /\ visited' = visited \cup {v}
    BY <1>2 DEF DfsRoot, Open
  <2>2. stack = <<>> /\ pc' = "finish" /\ finish' = finish /\ sccs' = <<>>
    BY <1>1, <1>2 DEF DfsRoot, Open
  <2>3. Searched(Ids, ArcSet, <<v>>, finish, visited \cup {v})
    BY <1>1, <2>2, SearchStarts
  <2>4. QED
    BY <1>1, <2>1, <2>2, <2>3 DEF SearchInv, Early, Late
<1>3. CASE DfsDescend
  <2>1. PICK w \in Successors(Last(stack)) \ visited :
          stack' = Append(stack, w) /\ visited' = visited \cup {w}
    BY <1>3 DEF DfsDescend
  <2>2. stack # <<>> /\ pc' = "finish" /\ finish' = finish /\ sccs' = <<>>
    BY <1>1, <1>3 DEF DfsDescend
  <2>3. w \in Ids /\ <<Last(stack), w>> \in ArcSet
    <3>1. PICK a \in ArcSet : a[1] = Last(stack) /\ a[2] = w
      BY DEF Successors
    <3>2. a = <<a[1], a[2]>> /\ a[2] \in Ids
      BY <1>1
    <3>3. QED
      BY <3>1, <3>2
  <2>4. Searched(Ids, ArcSet, Append(stack, w), finish, visited \cup {w})
    BY <1>1, <2>2, <2>3, SearchDescends
  <2>5. QED
    BY <1>1, <2>1, <2>2, <2>4 DEF SearchInv, Early, Late
<1>4. CASE DfsFinish
  <2>1. /\ stack # <<>> /\ pc' = "finish" /\ visited' = visited /\ sccs' = <<>>
        /\ Successors(Last(stack)) \subseteq visited
        /\ finish' = Append(finish, Last(stack)) /\ stack' = Front(stack)
    BY <1>1, <1>4 DEF DfsFinish, FinishedOrder
  <2>2. \A a \in ArcSet : a[1] = Last(stack) => a[2] \in visited
    BY <2>1 DEF Successors
  <2>3. Searched(Ids, ArcSet, Front(stack), Append(finish, Last(stack)), visited)
    BY <1>1, <2>1, <2>2, SearchFinishes
  <2>4. QED
    BY <1>1, <2>1, <2>3 DEF SearchInv, Early, Late
<1>5. CASE StartCollecting
  <2>1. /\ stack = <<>> /\ stack' = <<>> /\ Ids \subseteq visited /\ pc' = "collect"
        /\ visited' = {} /\ finish' = finish /\ sccs' = <<>>
    BY <1>1, <1>5 DEF StartCollecting
  <2>2. Ordered(Ids, ArcSet, finish)
    BY <1>1, <2>1, SearchOrders
  <2>3. Collected(Ids, ArcSet, finish, <<>>, {}, <<>>)
    <3>1. Range(<<>>) = {} /\ <<>> \in Seq(Ids) /\ <<>> \in Seq(SUBSET Ids) /\ IsInjective(<<>>)
      BY DEF Range, IsInjective
    <3>2. (UNION Range(<<>>)) = {} /\ DOMAIN <<>> = {}
      BY <3>1
    <3>3. QED
      BY <3>1, <3>2 DEF Collected
  <2>4. QED
    BY <1>1, <2>1, <2>2, <2>3 DEF SearchInv, Early, Late
<1>6. QED
  BY <1>2, <1>3, <1>4, <1>5 DEF Next, CheckPhase1, BuildGraph, CheckStructural,
     VisitForDominators, NextRound, JudgeGates, JudgeCutset, CollectRoot,
     CollectPop, JudgeCycles, Load, CheckOperators

LEMMA SearchedTypes ==
  ASSUME Searched(Ids, ArcSet, stack, finish, visited), sccs = <<>>
  PROVE  SearchTypes
<1>1. Range(<<>>) = {} /\ (UNION Range(<<>>)) = {}
  BY DEF Range
<1>2. Range(stack) \subseteq Ids /\ Range(finish) \subseteq Ids
  BY RangeOfSeq DEF Searched
<1>3. QED
  BY <1>1, <1>2 DEF Searched, SearchTypes

LEMMA CollectTypes ==
  ASSUME Ordered(Ids, ArcSet, finish), Collected(Ids, ArcSet, finish, stack, visited, sccs)
  PROVE  SearchTypes
<1>1. Range(stack) \subseteq Ids /\ Range(finish) \subseteq Ids /\ IsInjective(stack)
  BY RangeOfSeq DEF Collected, Ordered
<1>2. (UNION Range(sccs)) \subseteq Ids
  <2>1. Range(sccs) \subseteq SUBSET Ids
    BY RangeOfSeq DEF Collected
  <2>2. QED
    BY <2>1
<1>3. visited = (UNION Range(sccs)) \cup Range(stack)
  BY DEF Collected
<1>4. QED
  BY <1>1, <1>2, <1>3 DEF SearchTypes

LEMMA CollectStep ==
  ASSUME CheckerInv, pc = "collect", Next
  PROVE  SearchInv'
<1>1. /\ Ordered(Ids, ArcSet, finish)
      /\ Collected(Ids, ArcSet, finish, stack, visited, sccs)
      /\ ArcSet \subseteq Ids \X Ids /\ IsFiniteSet(ArcSet)
      /\ ArcSet' = ArcSet /\ Ids' = Ids
  BY ArcsAre, ArcsStep, DocumentStays DEF CheckerInv, SearchInv, SameDocument
<1>2. CASE CollectRoot
  <2>1. PICK v \in {u \in Ids \ visited : LastUnvisited(u)} :
          stack' = <<v>> /\ visited' = visited \cup {v}
    BY <1>2 DEF CollectRoot, Open
  <2>2. stack = <<>> /\ pc' = "collect" /\ finish' = finish /\ sccs' = Append(sccs, {})
    BY <1>2 DEF CollectRoot, Open
  <2>3. PICK i \in DOMAIN finish :
          finish[i] = v /\ \A j \in DOMAIN finish : j > i => finish[j] \in visited
    BY <2>1 DEF LastUnvisited
  <2>4. Collected(Ids, ArcSet, finish, <<v>>, visited \cup {v}, Append(sccs, {}))
    BY <1>1, <2>1, <2>2, <2>3, CollectStarts
  <2>5. QED
    BY <1>1, <2>1, <2>2, <2>4 DEF SearchInv, Early, Late
<1>3. CASE CollectPop
  <2> DEFINE fresh == Predecessors(Last(stack)) \ visited
             new   == SetToSeq(fresh)
  <2>1. /\ stack # <<>> /\ pc' = "collect" /\ finish' = finish
        /\ sccs' = [sccs EXCEPT ![Len(sccs)] = @ \cup {Last(stack)}]
        /\ stack' = Front(stack) \o new /\ visited' = visited \cup fresh
    BY <1>3 DEF CollectPop
  <2>2. fresh \in SUBSET Ids
    <3>1. \A a \in ArcSet : a[1] \in Ids
      BY <1>1
    <3>2. QED
      BY <3>1 DEF Predecessors
  <2>3. fresh = {a[1] : a \in {b \in ArcSet : b[2] = Last(stack)}} \ visited
    BY DEF Predecessors
  <2> HIDE DEF fresh
  <2>4. new \in Seq(Ids) /\ IsInjective(new) /\ Range(new) = fresh
    <3>1. IsFiniteSet(fresh)
      BY <2>2, IdsFinite, FS_Subset DEF CheckerInv
    <3>2. QED
      BY <2>2, <3>1, SetToSeqIs
  <2> HIDE DEF new
  <2>5. Collected(Ids, ArcSet, finish, Front(stack) \o new, visited \cup Range(new),
                    [sccs EXCEPT ![Len(sccs)] = @ \cup {Last(stack)}])
    BY <1>1, <2>1, <2>3, <2>4, CollectPops
  <2>6. QED
    BY <1>1, <2>1, <2>4, <2>5 DEF SearchInv, Early, Late
<1>4. CASE JudgeCycles
  <2>1. /\ pc' = "load" /\ stack = <<>> /\ stack' = stack /\ visited' = visited
        /\ finish' = finish /\ sccs' = sccs
    BY <1>4 DEF JudgeCycles, search
  <2>2. SearchTypes
    BY <1>1, <2>1, CollectTypes
  <2>3. SearchTypes'
    BY <1>1, <2>1, <2>2 DEF SearchTypes
  <2>4. QED
    BY <2>1, <2>3 DEF SearchInv, Early, Late
<1>5. QED
  BY <1>2, <1>3, <1>4 DEF Next, CheckPhase1, BuildGraph, CheckStructural,
     VisitForDominators, NextRound, JudgeGates, JudgeCutset, DfsRoot, DfsDescend, DfsFinish,
     StartCollecting, Load, CheckOperators

LEMMA QuietStep ==
  ASSUME CheckerInv, [Next]_vars, pc \notin {"finish", "collect"} \/ UNCHANGED vars
  PROVE  SearchInv'
<1>1. SearchInv /\ Ids' = Ids /\ pc \in Stages
  BY DocumentStays DEF CheckerInv, SameDocument
<1>2. stack' = stack /\ visited' = visited /\ finish' = finish /\ sccs' = sccs
  BY DEF Next, vars, search, CheckPhase1, BuildGraph, CheckStructural, VisitForDominators,
     NextRound, JudgeGates, JudgeCutset, DfsRoot, DfsDescend, DfsFinish, StartCollecting,
     CollectRoot, CollectPop, JudgeCycles, Load, CheckOperators
<1>3. SearchTypes' = SearchTypes
  BY <1>1, <1>2 DEF SearchTypes
<1>4. CASE UNCHANGED vars
  <2>1. pc' = pc /\ ArcSet' = ArcSet
    BY <1>4 DEF vars, ArcSet
  <2>2. QED
    BY <1>1, <1>2, <1>3, <2>1 DEF SearchInv, Early, Late
<1>5. CASE Next /\ pc \notin {"finish", "collect"} /\ Early
  <2>1. pc' \in {"graph", "structural", "gates", "cutset", "load", "finish"}
    BY <1>5 DEF Next, Early, CheckPhase1, BuildGraph, CheckStructural, VisitForDominators,
       NextRound, JudgeGates, JudgeCutset, DfsRoot, DfsDescend, DfsFinish, StartCollecting,
       CollectRoot, CollectPop, JudgeCycles, Load, CheckOperators
  <2>2. stack = <<>> /\ visited = {} /\ finish = <<>> /\ sccs = <<>>
    BY <1>1, <1>5 DEF SearchInv
  <2>3. Range(<<>>) = {} /\ IsInjective(<<>>) /\ (UNION Range(<<>>)) = {}
    BY DEF Range, IsInjective
  <2>4. SearchTypes
    BY <2>2, <2>3 DEF SearchTypes
  <2>5. Searched(Ids, ArcSet', <<>>, <<>>, {})
    <3>1. Chain(<<>>, ArcSet')
      BY DEF Chain
    <3>2. <<>> \in Seq(Ids)
      OBVIOUS
    <3>3. QED
      BY <2>3, <3>1, <3>2 DEF Searched
  <2>6. QED
    BY <1>1, <1>2, <1>3, <2>1, <2>2, <2>4, <2>5 DEF SearchInv, Early, Late
<1>6. CASE Next /\ Late
  <2>1. Late'
    BY <1>6 DEF Next, Late, CheckPhase1, BuildGraph, CheckStructural, VisitForDominators,
       NextRound, JudgeGates, JudgeCutset, DfsRoot, DfsDescend, DfsFinish, StartCollecting,
       CollectRoot, CollectPop, JudgeCycles, Load, CheckOperators
  <2>2. QED
    BY <1>1, <1>3, <1>6, <2>1 DEF SearchInv, Early, Late
<1>7. QED
  BY <1>1, <1>4, <1>5, <1>6 DEF Stages, Early, Late

-------------------------------------------------------------------------------
(* The fixpoint, step by step.                                             *)

LEMMA BetweenIs ==
  ASSUME CheckerInv, HasReceiptChain
  PROVE  LET e == IdOf(ExecuteFinished)
             c == IdOf(Commit)
         IN  /\ e \in Ids /\ c \in Ids /\ e \in Between /\ c \in Between /\ Between \subseteq Ids
             /\ \A v : v \in Between <=> Leads(e, v, ArcSet) /\ Leads(v, c, ArcSet)
<1> DEFINE e == IdOf(ExecuteFinished)
           c == IdOf(Commit)
<1>1. topology \in Topologies /\ ArcSet \subseteq Ids \X Ids /\ IsFiniteSet(ArcSet)
  BY ArcsAre DEF CheckerInv
<1>2. e \in Ids /\ c \in Ids /\ Leads(e, c, ArcSet)
  BY <1>1, IdOfIs DEF HasReceiptChain, Leads
<1> HIDE DEF e, c
<1>3. ASSUME NEW v
      PROVE  v \in Between <=> Leads(e, v, ArcSet) /\ Leads(v, c, ArcSet)
  <2>1. v \in Reached({c}, Reversed(ArcSet)) <=> Leads(v, c, ArcSet)
    BY <1>1, ReachedAgainst
  <2>2. QED
    BY <2>1 DEF Between, Leads, e, c
<1>4. e \in Between /\ c \in Between
  BY <1>1, <1>2, <1>3, LeadsSelf
<1>5. ASSUME NEW v \in Between
      PROVE  v \in Ids
  <2>1. Closed(Ids, ArcSet)
    BY <1>1 DEF Closed
  <2>2. QED
    BY <1>1, <1>2, <1>3, <2>1, LeadsWithin
<1>6. QED
  BY <1>2, <1>3, <1>4, <1>5 DEF e, c

LEMMA GatesStart ==
  ASSUME CheckerInv, CheckStructural, pc' = "gates", FixpointInv
  PROVE  FixpointInv'
<1>1. /\ topology \in Topologies /\ ArcSet \subseteq Ids \X Ids /\ IsFiniteSet(ArcSet)
      /\ ArcSet' = ArcSet /\ Ids' = Ids
  BY ArcsAre, ArcsStep, DocumentStays DEF CheckerInv, SameDocument, CheckStructural, Next
<1>2. /\ dom' = [v \in Ids \cup {0} |-> IF v = 0 THEN {0} ELSE Ids]
      /\ todo' = Ids \ {0} /\ changed' = FALSE
  BY DEF CheckStructural
<1>3. Entry' = 0 /\ Area' = Ids \cup {0}
  BY <1>1 DEF Entry, Area
<1>4. DOMAIN dom' = Ids \cup {0} /\ dom'[0] = {0} /\ \A v \in Ids : v # 0 => dom'[v] = Ids
  BY <1>2
<1>5. \A v \in DOMAIN dom', d \in Ids : d \notin dom'[v] => Skips(0, d, v, ArcSet)
  <2> SUFFICES ASSUME NEW v \in DOMAIN dom', NEW d \in Ids, d \notin dom'[v]
               PROVE  Skips(0, d, v, ArcSet)
    OBVIOUS
  <2>1. v = 0 /\ d # 0
    BY <1>4
  <2>2. Leads(0, 0, Around(d, ArcSet))
    BY <1>1, AroundFinite, LeadsSelf
  <2>3. QED
    BY <2>1, <2>2 DEF Skips
<1>6. Dominators(dom', 0, DOMAIN dom' \cap Ids, ArcSet)
  <2>1. \A a \in ArcSet : a[1] \in DOMAIN dom'
    BY <1>1, <1>4
  <2>2. QED
    BY <1>4, <1>5, <2>1 DEF Dominators
<1>7. dom' \in [DOMAIN dom' -> SUBSET (Ids \cup {0})]
  BY <1>2
<1>8. QED
  BY <1>1, <1>2, <1>3, <1>4, <1>6, <1>7 DEF FixpointInv

LEMMA CutsetStart ==
  ASSUME CheckerInv, JudgeGates, pc' = "cutset"
  PROVE  FixpointInv'
<1>1. /\ ArcSet \subseteq Ids \X Ids /\ IsFiniteSet(ArcSet)
      /\ ArcSet' = ArcSet /\ Ids' = Ids /\ Names' = Names /\ \A x : IdOf(x)' = IdOf(x)
  BY ArcsAre, ArcsStep, DocumentStays DEF CheckerInv, SameDocument, JudgeGates, Next
<1> DEFINE e == IdOf(ExecuteFinished)
<1>2. /\ HasReceiptChain /\ changed' = changed /\ ~changed
      /\ dom' = [v \in Between |-> IF v = e THEN {v} ELSE Between]
      /\ todo' = Between \ {e}
  BY DEF JudgeGates, Settled
<1>3. HasReceiptChain' = HasReceiptChain /\ Between' = Between
  BY <1>1 DEF HasReceiptChain, Between
<1>4. Entry' = e /\ Area' = Between
  BY <1>1, <1>3 DEF Entry, Area
<1>5. /\ e \in Ids /\ e \in Between /\ Between \subseteq Ids
      /\ \A v : v \in Between <=> Leads(e, v, ArcSet) /\ Leads(v, IdOf(Commit), ArcSet)
  BY <1>2, BetweenIs
<1> HIDE DEF e
<1>6. DOMAIN dom' = Between /\ dom'[e] = {e} /\ \A v \in Between : v # e => dom'[v] = Between
  BY <1>2, <1>5
<1>7. \A v \in DOMAIN dom', d \in Between : d \notin dom'[v] => Skips(e, d, v, ArcSet)
  <2> SUFFICES ASSUME NEW v \in DOMAIN dom', NEW d \in Between, d \notin dom'[v]
               PROVE  Skips(e, d, v, ArcSet)
    OBVIOUS
  <2>1. v = e /\ d # e
    BY <1>6
  <2>2. Leads(e, e, Around(d, ArcSet))
    BY <1>1, AroundFinite, LeadsSelf
  <2>3. QED
    BY <2>1, <2>2 DEF Skips
<1>8. \A a \in ArcSet : Leads(e, a[1], ArcSet) /\ a[2] \in DOMAIN dom' => a[1] \in DOMAIN dom'
  BY <1>1, <1>5, <1>6, LeadsInto
<1>9. Dominators(dom', e, DOMAIN dom' \cap Ids, ArcSet)
  BY <1>5, <1>6, <1>7, <1>8 DEF Dominators
<1>10. dom' \in [DOMAIN dom' -> SUBSET (Ids \cup {0})]
  BY <1>2, <1>5
<1>11. QED
  BY <1>1, <1>2, <1>3, <1>4, <1>5, <1>6, <1>9, <1>10 DEF FixpointInv

LEMMA VisitStep ==
  ASSUME CheckerInv, VisitForDominators
  PROVE  FixpointInv'
<1>1. /\ ArcSet \subseteq Ids \X Ids /\ IsFiniteSet(ArcSet)
      /\ ArcSet' = ArcSet /\ Ids' = Ids /\ Names' = Names /\ (\A x : IdOf(x)' = IdOf(x))
      /\ pc \in {"gates", "cutset"} /\ pc' = pc
  BY ArcsAre, ArcsStep, DocumentStays DEF CheckerInv, SameDocument, VisitForDominators, Next
<1>2. /\ todo \subseteq Ids /\ dom \in [DOMAIN dom -> SUBSET (Ids \cup {0})]
      /\ DOMAIN dom \subseteq Ids \cup {0} /\ DOMAIN dom = Area /\ todo \subseteq DOMAIN dom \ {Entry}
      /\ Dominators(dom, Entry, DOMAIN dom \cap Ids, ArcSet)
      /\ pc = "cutset" => HasReceiptChain
  BY <1>1 DEF CheckerInv, FixpointInv
<1>3. ~changed => \A w \in DOMAIN dom :
                    w # Entry /\ w \notin todo => dom[w] = Narrowed(dom, w, ArcSet)
  BY <1>1 DEF CheckerInv, FixpointInv
<1>4. PICK v \in todo :
        /\ dom' = [dom EXCEPT ![v] = NewDominators(v)]
        /\ changed' = (changed \/ NewDominators(v) # dom[v])
        /\ todo' = todo \ {v}
  BY DEF VisitForDominators
<1>5. NewDominators(v) = Narrowed(dom, v, ArcSet)
  BY DEF NewDominators, Narrowed, Predecessors
<1>6. v \in DOMAIN dom /\ v # Entry /\ v \in Ids
  BY <1>2
<1>7. HasReceiptChain' = HasReceiptChain /\ Between' = Between
  BY <1>1 DEF HasReceiptChain, Between
<1>8. Entry' = Entry /\ Area' = Area
  BY <1>1, <1>7 DEF Entry, Area
<1>9. Dominators(dom', Entry, DOMAIN dom \cap Ids, ArcSet)
  BY <1>1, <1>2, <1>4, <1>5, <1>6, VisitKeepsDominators
<1>10. Narrowed(dom, v, ArcSet) \subseteq Ids \cup {0}
  BY <1>2, <1>6 DEF Narrowed
<1>11. DOMAIN dom' = DOMAIN dom /\ dom' \in [DOMAIN dom -> SUBSET (Ids \cup {0})]
  BY <1>2, <1>4, <1>5, <1>6, <1>10
<1>12. ASSUME ~changed'
       PROVE  \A w \in DOMAIN dom' :
                w # Entry /\ w \notin todo' => dom'[w] = Narrowed(dom', w, ArcSet)
  <2>1. ~changed /\ NewDominators(v) = dom[v]
    BY <1>4, <1>12
  <2>2. dom' = dom
    BY <1>2, <1>4, <1>6, <2>1
  <2>3. dom[v] = Narrowed(dom, v, ArcSet)
    BY <1>5, <2>1
  <2>4. QED
    BY <1>3, <1>4, <2>1, <2>2, <2>3
<1>13. QED
  BY <1>1, <1>2, <1>4, <1>7, <1>8, <1>9, <1>11, <1>12 DEF FixpointInv

LEMMA FixpointStep ==
  ASSUME CheckerInv, [Next]_vars
  PROVE  FixpointInv'
<1>1. FixpointInv /\ Ids' = Ids /\ Names' = Names /\ (\A x : IdOf(x)' = IdOf(x))
  BY DocumentStays DEF CheckerInv, SameDocument
<1>2. CASE CheckStructural /\ pc' = "gates"
  BY <1>1, <1>2, GatesStart
<1>3. CASE JudgeGates /\ pc' = "cutset"
  BY <1>3, CutsetStart
<1>4. CASE VisitForDominators
  BY <1>4, VisitStep
<1>5. CASE NextRound
  <2>1. /\ todo' = DOMAIN dom \ {Entry} /\ changed' = FALSE /\ dom' = dom /\ pc' = pc
        /\ pc \in {"gates", "cutset"} /\ ArcSet' = ArcSet
    BY <1>5 DEF NextRound, search, ArcSet
  <2>2. HasReceiptChain' = HasReceiptChain /\ Between' = Between
    BY <1>1, <2>1 DEF HasReceiptChain, Between
  <2>3. Entry' = Entry /\ Area' = Area
    BY <1>1, <2>1, <2>2 DEF Entry, Area
  <2>4. DOMAIN dom \ {Entry} \subseteq Ids
    BY <1>1, <2>1, BetweenIs DEF FixpointInv, Entry, Area, CheckerInv
  <2>5. QED
    BY <1>1, <2>1, <2>2, <2>3, <2>4 DEF FixpointInv
<1>6. CASE UNCHANGED vars
  <2>1. /\ todo' = todo /\ changed' = changed /\ dom' = dom /\ pc' = pc /\ ArcSet' = ArcSet
    BY <1>6 DEF vars, ArcSet
  <2>2. HasReceiptChain' = HasReceiptChain /\ Between' = Between
    BY <1>1, <2>1 DEF HasReceiptChain, Between
  <2>3. Entry' = Entry /\ Area' = Area
    BY <1>1, <2>1, <2>2 DEF Entry, Area
  <2>4. QED
    BY <1>1, <2>1, <2>2, <2>3 DEF FixpointInv
<1>7. CASE Next /\ pc' \notin {"gates", "cutset"} /\ ~NextRound /\ ~VisitForDominators
  <2>1. todo' = todo /\ dom' = dom
    BY <1>7 DEF Next, vars, search, CheckPhase1, BuildGraph, CheckStructural, JudgeGates,
       JudgeCutset, DfsRoot, DfsDescend, DfsFinish, StartCollecting, CollectRoot,
       CollectPop, JudgeCycles, Load, CheckOperators
  <2>2. QED
    BY <1>1, <1>7, <2>1 DEF FixpointInv
<1>8. QED
  BY <1>2, <1>3, <1>4, <1>5, <1>6, <1>7 DEF Next, vars, search, CheckPhase1, BuildGraph,
     CheckStructural, JudgeGates, JudgeCutset, DfsRoot, DfsDescend, DfsFinish,
     StartCollecting, CollectRoot, CollectPop, JudgeCycles, Load, CheckOperators

-------------------------------------------------------------------------------
(* What each pass adds to the violations.                                  *)

LEMMA FoundIs ==
  ASSUME NEW kind, NEW S
  PROVE  /\ \A v \in Found(kind, S) : v.kind = kind /\ \E n \in S : v.nodes = {n}
         /\ \A n : [kind |-> kind, nodes |-> {n}] \in Found(kind, S) <=> n \in S
<1>1. \A v \in Found(kind, S) : v.kind = kind /\ \E n \in S : v.nodes = {n}
  BY DEF Found
<1>2. \A n : n \in S => [kind |-> kind, nodes |-> {n}] \in Found(kind, S)
  BY DEF Found
<1>3. ASSUME NEW n, [kind |-> kind, nodes |-> {n}] \in Found(kind, S)
      PROVE  n \in S
  <2>1. PICK m \in S : [kind |-> kind, nodes |-> {n}].nodes = {m}
    BY <1>1, <1>3
  <2>2. {n} = {m}
    BY <2>1
  <2>3. n = m
    BY <2>2
  <2>4. QED
    BY <2>3
<1>4. QED
  BY <1>1, <1>2, <1>3

Phase1Kinds ==
  IdentityKinds \cup {"invalid_start_node", "no_halt_node", "halt_node_has_successors",
                      "weight_out_of_domain", "zero_confidence_edge"}

StructuralKinds ==
  {"unknown_endpoint", "dead_end", "unreachable", "cannot_reach_halt", "consumed_block_point"}

(* A violation that a step adds is of a kind of the pass that it runs.     *)
AddedBy(v) ==
  \/ CheckPhase1 /\ v.kind \in Phase1Kinds
  \/ CheckStructural /\ v.kind \in StructuralKinds
  \/ JudgeGates /\ v.kind = "dominance_violation"
  \/ JudgeCutset /\ v.kind = "receipt_cutset_violation"
  \/ JudgeCycles /\ v.kind \in {"unsafe_scc", "zero_cost_cycle"}
  \/ CheckOperators /\ v.kind \in {"missing_operator", "unknown_action_semantics"}

LEMMA KindsAdded ==
  ASSUME [Next]_vars
  PROVE  /\ violations \subseteq violations'
         /\ \A v \in violations' : v \in violations \/ AddedBy(v)
<1>1. CASE CheckPhase1
  <2>1. violations' = violations \cup IdentityViolations \cup StartViolations
                        \cup HaltViolations \cup WeightViolations \cup EdgeViolations
    BY <1>1 DEF CheckPhase1
  <2>2. \A v \in IdentityViolations \cup EdgeViolations : v.kind \in Phase1Kinds
    BY FoundIs DEF IdentityViolations, EdgeViolations, Phase1Kinds, IdentityKinds
  <2>3. \A v \in StartViolations : v.kind \in Phase1Kinds
    BY FoundIs DEF StartViolations, Phase1Kinds
  <2>4. \A v \in HaltViolations : v.kind \in Phase1Kinds
    BY FoundIs DEF HaltViolations, Phase1Kinds
  <2>5. \A v \in WeightViolations : v.kind \in Phase1Kinds
    BY FoundIs DEF WeightViolations, Phase1Kinds
  <2>6. QED
    BY <1>1, <2>1, <2>2, <2>3, <2>4, <2>5 DEF AddedBy
<1>2. CASE CheckStructural
  <2> DEFINE A == UnknownEndpoints
             B == {NameOf(v) : v \in {u \in Reachable \ Halts : OutCount(u) = 0}}
             C == {n \in Paged \cap Names : IdOf(n) \notin Reachable}
             D == {NameOf(v) : v \in Reachable \ CanReachHalt}
             E == {NameOf(v) : v \in ConsumedBlockPoints}
  <2>1. violations' = violations
          \cup Found("unknown_endpoint", A) \cup Found("dead_end", B) \cup Found("unreachable", C)
          \cup Found("cannot_reach_halt", D) \cup Found("consumed_block_point", E)
    BY <1>2 DEF CheckStructural
  <2> HIDE DEF A, B, C, D, E
  <2>2. QED
    BY <1>2, <2>1, FoundIs DEF AddedBy, StructuralKinds
<1>3. CASE JudgeGates
  <2>1. violations' = violations \cup Found("dominance_violation", {g[2] : g \in UndominatedPairs})
    BY <1>3 DEF JudgeGates
  <2>2. QED
    BY <1>3, <2>1, FoundIs DEF AddedBy
<1>4. CASE JudgeCutset
  <2> DEFINE S == {m \in Cutset \cap Names : \/ IdOf(m) \notin Between
                                             \/ IdOf(m) \notin dom[IdOf(Commit)]}
  <2>1. violations' = violations \cup Found("receipt_cutset_violation", S)
    BY <1>4 DEF JudgeCutset
  <2> HIDE DEF S
  <2>2. QED
    BY <1>4, <2>1, FoundIs DEF AddedBy
<1>5. CASE JudgeCycles
  <2> DEFINE S == {C \in Loops : NoExit(C)}
             T == {C \in Loops : AllFree(C)}
  <2>1. violations' = violations \cup Collective("unsafe_scc", S) \cup Collective("zero_cost_cycle", T)
    BY <1>5 DEF JudgeCycles
  <2> HIDE DEF S, T
  <2>2. \A k, R : \A v \in Collective(k, R) : v.kind = k
    BY DEF Collective
  <2>3. QED
    BY <1>5, <2>1, <2>2 DEF AddedBy
<1>6. CASE CheckOperators
  <2> DEFINE S == NeedOperator \ Bound
             T == (NeedOperator \cap Bound) \ Speaking
  <2>1. violations' = violations \cup Found("missing_operator", S)
                        \cup Found("unknown_action_semantics", T)
    BY <1>6 DEF CheckOperators
  <2> HIDE DEF S, T
  <2>2. QED
    BY <1>6, <2>1, FoundIs DEF AddedBy
<1>7. CASE ~(CheckPhase1 \/ CheckStructural \/ JudgeGates \/ JudgeCutset \/ JudgeCycles \/ CheckOperators)
  <2>1. violations' = violations
    BY <1>7 DEF Next, vars, BuildGraph, VisitForDominators, NextRound, DfsRoot, DfsDescend,
       DfsFinish, StartCollecting, CollectRoot, CollectPop, Load
  <2>2. QED
    BY <2>1
<1>8. QED
  BY <1>1, <1>2, <1>3, <1>4, <1>5, <1>6, <1>7

LEMMA Apart ==
  /\ "dominance_violation" \notin Phase1Kinds \cup StructuralKinds
  /\ "receipt_cutset_violation" \notin Phase1Kinds \cup StructuralKinds
  /\ "unsafe_scc" \notin Phase1Kinds \cup StructuralKinds
  /\ IdentityKinds \cap {"dominance_violation", "receipt_cutset_violation", "unsafe_scc",
                         "zero_cost_cycle", "missing_operator", "unknown_action_semantics"} = {}
BY DEF Phase1Kinds, StructuralKinds, IdentityKinds

(* Only the judges of the gates and of the cutset judge them.              *)
LEMMA OthersDoNotJudge ==
  ASSUME [Next]_vars, NEW v, v \in violations', v \notin violations
  PROVE  /\ v.kind = "dominance_violation" => JudgeGates
         /\ v.kind = "receipt_cutset_violation" => JudgeCutset
         /\ v.kind = "unsafe_scc" => JudgeCycles
         /\ v.kind \in IdentityKinds => CheckPhase1 \/ CheckStructural
<1>1. AddedBy(v)
  BY KindsAdded
<1>2. QED
  BY <1>1, Apart DEF AddedBy

-------------------------------------------------------------------------------
(* The judgements of the gates and of the cutset are exact.                *)

LEMMA SkipsAvoiding ==
  /\ \A e, d, v : v \in ReachedAvoiding(e, d) <=> Skips(e, d, v, ArcSet)
  /\ \A e, d, v : (v \in ReachedAvoiding(e, d))' <=> Skips(e, d, v, ArcSet')
<1>1. \A d : Avoiding(d) = Around(d, ArcSet) /\ Avoiding(d)' = Around(d, ArcSet')
  BY DEF Avoiding, Around
<1>2. QED
  BY <1>1 DEF ReachedAvoiding, Skips, Leads

LEMMA SettledIsExact ==
  ASSUME CheckerInv, pc \in {"gates", "cutset"}, Settled, NEW v \in DOMAIN dom,
         NEW d \in DOMAIN dom \cap Ids
  PROVE  d \notin dom[v] <=> Skips(Entry, d, v, ArcSet)
<1>1. /\ Dominators(dom, Entry, DOMAIN dom \cap Ids, ArcSet) /\ IsFiniteSet(ArcSet)
      /\ \A w \in DOMAIN dom : w # Entry => dom[w] = Narrowed(dom, w, ArcSet)
  BY ArcsAre DEF CheckerInv, FixpointInv, Settled
<1>2. QED
  BY <1>1, FixpointIsExact

LEMMA GatesJudged ==
  ASSUME CheckerInv, JudgeGates, NEW n \in Names
  PROVE  n \in {g[2] : g \in UndominatedPairs}
         <=> \E g \in RequiredGates :
               g[2] = n /\ g[1] \in Names /\ Skips(0, IdOf(g[1]), IdOf(n), ArcSet)
<1>1. /\ topology \in Topologies /\ IsFiniteSet(ArcSet) /\ pc = "gates" /\ Settled
      /\ DOMAIN dom = Ids \cup {0} /\ Entry = 0
  BY ArcsAre DEF CheckerInv, FixpointInv, JudgeGates, Area, Entry
<1>2. ASSUME NEW m \in Names
      PROVE  IdOf(n) \in Reachable /\ IdOf(m) \notin dom[IdOf(n)]
             <=> Skips(0, IdOf(m), IdOf(n), ArcSet)
  <2>1. IdOf(m) \in DOMAIN dom \cap Ids /\ IdOf(n) \in DOMAIN dom
    BY <1>1, IdOfIs
  <2>2. IdOf(m) \notin dom[IdOf(n)] <=> Skips(0, IdOf(m), IdOf(n), ArcSet)
    BY <1>1, <2>1, SettledIsExact
  <2>3. ASSUME Skips(0, IdOf(m), IdOf(n), ArcSet)
        PROVE  IdOf(n) \in Reachable
    <3>1. Leads(0, IdOf(n), ArcSet)
      BY <1>1, <2>3, AroundFinite, LeadsMore DEF Skips
    <3>2. QED
      BY <3>1 DEF Leads, Reachable
  <2>4. QED
    BY <2>2, <2>3
<1>3. QED
  BY <1>2 DEF UndominatedPairs

LEMMA DominanceStep ==
  ASSUME CheckerInv, [Next]_vars
  PROVE  DominanceExact'
<1>1. /\ topology' = topology /\ Names' = Names /\ (\A x : IdOf(x)' = IdOf(x))
      /\ DominanceExact /\ Unjudged /\ pc \in Stages
  BY DocumentStays DEF SameDocument, CheckerInv
<1> SUFFICES ASSUME AfterGates', topology.nodes # <<>>, NEW n \in Names
             PROVE  [kind |-> "dominance_violation", nodes |-> {n}] \in violations'
                    <=> \E g \in RequiredGates :
                          g[2] = n /\ g[1] \in Names /\ Skips(0, IdOf(g[1]), IdOf(n), ArcSet')
  BY <1>1, SkipsAvoiding DEF DominanceExact
<1> DEFINE x == [kind |-> "dominance_violation", nodes |-> {n}]
<1>2. CASE JudgeGates
  <2>1. pc = "gates" /\ ~AfterGates /\ ArcSet' = ArcSet
    BY <1>2, ArcsStep DEF JudgeGates, AfterGates
  <2>2. x \notin violations
    <3>1. x.kind = "dominance_violation"
      OBVIOUS
    <3> HIDE DEF x
    <3>2. QED
      BY <1>1, <2>1, <3>1 DEF Unjudged, Kinds
  <2>3. violations' = violations \cup Found("dominance_violation", {g[2] : g \in UndominatedPairs})
    BY <1>2 DEF JudgeGates
  <2>4. x \in Found("dominance_violation", {g[2] : g \in UndominatedPairs})
        <=> n \in {g[2] : g \in UndominatedPairs}
    BY FoundIs
  <2>5. x \in violations' <=> n \in {g[2] : g \in UndominatedPairs}
    BY <2>2, <2>3, <2>4
  <2>6. QED
    BY <1>2, <2>1, <2>5, GatesJudged
<1>3. CASE ~JudgeGates
  <2>1. AfterGates
    BY <1>1, <1>3 DEF AfterGates, Stages, Next, vars, CheckPhase1, BuildGraph, CheckStructural,
       VisitForDominators, NextRound, JudgeCutset, DfsRoot, DfsDescend, DfsFinish,
       StartCollecting, CollectRoot, CollectPop, JudgeCycles, Load, CheckOperators
  <2>2. ArcSet' = ArcSet
    BY <2>1, ArcsStep DEF AfterGates
  <2>3. x \in violations <=> x \in violations'
    <3>1. x.kind = "dominance_violation"
      OBVIOUS
    <3> HIDE DEF x
    <3>2. QED
      BY <1>3, <3>1, KindsAdded, OthersDoNotJudge
  <2>4. x \in violations
        <=> \E g \in RequiredGates :
              g[2] = n /\ g[1] \in Names /\ Skips(0, IdOf(g[1]), IdOf(n), ArcSet)
    BY <1>1, <2>1, SkipsAvoiding DEF DominanceExact
  <2>5. QED
    BY <2>2, <2>3, <2>4
<1>4. QED
  BY <1>2, <1>3

LEMMA CutsetJudged ==
  ASSUME CheckerInv, JudgeCutset, NEW m \in Names
  PROVE  IdOf(m) \notin Between \/ IdOf(m) \notin dom[IdOf(Commit)]
         <=> Skips(IdOf(ExecuteFinished), IdOf(m), IdOf(Commit), ArcSet)
<1> DEFINE e == IdOf(ExecuteFinished)
           c == IdOf(Commit)
           d == IdOf(m)
<1>1. /\ topology \in Topologies /\ IsFiniteSet(ArcSet) /\ pc = "cutset" /\ Settled
      /\ HasReceiptChain /\ DOMAIN dom = Between /\ Entry = e
  BY ArcsAre DEF CheckerInv, FixpointInv, JudgeCutset, Area, Entry
<1>2. /\ c \in Between /\ e \in Between
      /\ \A v : v \in Between <=> Leads(e, v, ArcSet) /\ Leads(v, c, ArcSet)
  BY <1>1, BetweenIs
<1>3. d \in Ids
  BY <1>1, IdOfIs
<1> HIDE DEF e, c, d
<1>4. CASE d \in Between
  <2>1. d \notin dom[c] <=> Skips(e, d, c, ArcSet)
    BY <1>1, <1>2, <1>3, <1>4, SettledIsExact
  <2>2. QED
    BY <1>4, <2>1 DEF c, d, e
(* A node that is not between the events is on none of the paths.          *)
<1>5. CASE d \notin Between
  <2> DEFINE T == {v \in Reached({e}, ArcSet) : v \in Between => Leads(e, v, Around(d, ArcSet))}
  <2>1. e \in T
    BY <1>1, AroundFinite, ReachedFixed, LeadsSelf
  <2>2. Closed(T, ArcSet)
    <3> SUFFICES ASSUME NEW a \in ArcSet, a[1] \in T
                 PROVE  a[2] \in T
      BY DEF Closed
    <3>1. Leads(e, a[1], ArcSet) /\ Leads(e, a[2], ArcSet) /\ a[2] \in Reached({e}, ArcSet)
      BY <1>1, LeadsOn DEF Leads
    <3>2. ASSUME a[2] \in Between
          PROVE  Leads(e, a[2], Around(d, ArcSet))
      <4>1. Leads(a[1], c, ArcSet)
        BY <1>1, <1>2, <3>2, LeadsInto
      <4>2. a[1] \in Between
        BY <1>2, <3>1, <4>1
      <4>3. a \in Around(d, ArcSet)
        BY <1>5, <3>2, <4>2 DEF Around
      <4>4. QED
        BY <1>1, <4>2, <4>3, AroundFinite, LeadsOn
    <3>3. QED
      BY <3>1, <3>2
  <2>3. c \in T
    <3>1. Leads(e, c, ArcSet)
      BY <1>2
    <3> HIDE DEF T
    <3>2. QED
      BY <1>1, <2>1, <2>2, <3>1, LeadsWithin
  <2>4. Skips(e, d, c, ArcSet)
    BY <1>2, <1>5, <2>3 DEF Skips
  <2>5. QED
    BY <1>5, <2>4 DEF c, d, e
<1>6. QED
  BY <1>4, <1>5

LEMMA CutsetStep ==
  ASSUME CheckerInv, [Next]_vars
  PROVE  CutsetExact'
<1>1. /\ topology' = topology /\ Names' = Names /\ (\A x : IdOf(x)' = IdOf(x))
      /\ CutsetExact /\ Unjudged /\ pc \in Stages
  BY DocumentStays DEF SameDocument, CheckerInv
<1>2. CASE pc \in {"phase1", "graph"}
  <2>1. ~AfterCutset'
    BY <1>2 DEF AfterGates, AfterCutset, Next, vars, CheckPhase1, BuildGraph, CheckStructural,
       VisitForDominators, NextRound, JudgeGates, JudgeCutset, DfsRoot, DfsDescend, DfsFinish,
       StartCollecting, CollectRoot, CollectPop, JudgeCycles, Load, CheckOperators
  <2>2. QED
    BY <2>1 DEF CutsetExact
<1>3. CASE pc \notin {"phase1", "graph"}
  <2>1. ArcSet' = ArcSet
    BY <1>3, ArcsStep
  <2>2. HasReceiptChain' = HasReceiptChain
    BY <1>1, <2>1 DEF HasReceiptChain
  <2> SUFFICES ASSUME AfterCutset', HasReceiptChain, NEW m \in Cutset \cap Names
               PROVE  [kind |-> "receipt_cutset_violation", nodes |-> {m}] \in violations'
                      <=> Skips(IdOf(ExecuteFinished), IdOf(m), IdOf(Commit), ArcSet)
    BY <1>1, <2>1, <2>2, SkipsAvoiding DEF CutsetExact
  <2> DEFINE x == [kind |-> "receipt_cutset_violation", nodes |-> {m}]
             S == {n \in Cutset \cap Names : \/ IdOf(n) \notin Between
                                             \/ IdOf(n) \notin dom[IdOf(Commit)]}
  <2>3. CASE JudgeCutset
    <3>1. ~AfterCutset
      BY <2>3 DEF JudgeCutset, AfterCutset
    <3>2. x \notin violations
      <4>1. x.kind = "receipt_cutset_violation"
        OBVIOUS
      <4> HIDE DEF x
      <4>2. QED
        BY <1>1, <3>1, <4>1 DEF Unjudged, Kinds
    <3>3. violations' = violations \cup Found("receipt_cutset_violation", S)
      BY <2>3 DEF JudgeCutset
    <3> HIDE DEF S
    <3>4. x \in Found("receipt_cutset_violation", S) <=> m \in S
      BY FoundIs
    <3>5. m \in S <=> Skips(IdOf(ExecuteFinished), IdOf(m), IdOf(Commit), ArcSet)
      BY <2>3, CutsetJudged DEF S
    <3>6. QED
      BY <3>2, <3>3, <3>4, <3>5
  <2>4. CASE ~JudgeCutset
    <3>1. AfterCutset \/ (topology.nodes = <<>> /\ Names = {})
      <4>1. topology.nodes = <<>> => Names = {}
        BY DEF Names, Nodes, Range
      <4>2. ~JudgeGates \/ pc' # "finish"
        BY DEF JudgeGates
      <4>3. QED
        BY <1>1, <1>3, <2>4, <4>1, <4>2 DEF AfterGates, AfterCutset, Stages, Next, vars, CheckPhase1,
           BuildGraph, CheckStructural, VisitForDominators, NextRound, JudgeGates, DfsRoot,
           DfsDescend, DfsFinish, StartCollecting, CollectRoot, CollectPop, JudgeCycles, Load,
           CheckOperators
    <3>2. AfterCutset
      BY <3>1
    <3>3. x \in violations <=> x \in violations'
      <4>1. x.kind = "receipt_cutset_violation"
        OBVIOUS
      <4> HIDE DEF x
      <4>2. QED
        BY <2>4, <4>1, KindsAdded, OthersDoNotJudge
    <3>4. QED
      BY <3>2, <3>3, SkipsAvoiding, <1>1 DEF CutsetExact
  <2>5. QED
    BY <2>3, <2>4
<1>4. QED
  BY <1>2, <1>3

LEMMA UnjudgedStep ==
  ASSUME CheckerInv, [Next]_vars
  PROVE  Unjudged'
<1>1. Unjudged /\ pc \in Stages
  BY DEF CheckerInv
<1>2. ~AfterGates' => ~AfterGates /\ ~JudgeGates
  BY <1>1 DEF AfterGates, Stages, Next, vars, CheckPhase1, BuildGraph, CheckStructural,
     VisitForDominators, NextRound, JudgeGates, JudgeCutset, DfsRoot, DfsDescend, DfsFinish,
     StartCollecting, CollectRoot, CollectPop, JudgeCycles, Load, CheckOperators
<1>3. ~AfterCutset' => ~AfterCutset /\ ~JudgeCutset
  BY <1>1 DEF AfterGates, AfterCutset, Stages, Next, vars, CheckPhase1, BuildGraph,
     CheckStructural, VisitForDominators, NextRound, JudgeGates, JudgeCutset, DfsRoot, DfsDescend,
     DfsFinish, StartCollecting, CollectRoot, CollectPop, JudgeCycles, Load, CheckOperators
<1>4. \A v \in violations' :
        /\ v.kind = "dominance_violation" => v \in violations \/ JudgeGates
        /\ v.kind = "receipt_cutset_violation" => v \in violations \/ JudgeCutset
  BY OthersDoNotJudge
<1>5. QED
  BY <1>1, <1>2, <1>3, <1>4 DEF Unjudged, Kinds

-------------------------------------------------------------------------------
(* What the violations name, and what the absence of one means.            *)

LEMMA NamesInDocument ==
  ASSUME topology \in Topologies
  PROVE  /\ \A i \in DOMAIN topology.nodes : topology.nodes[i].name \in Names
         /\ \A n \in Nodes : n.name \in Names
         /\ \A i \in DOMAIN topology.transitions : topology.transitions[i] \in Edges
         /\ \A t \in Edges : t.from \in Nameable
         /\ \A v : NameOf(v) \in Nameable
         /\ Names \subseteq Nameable /\ UnknownEndpoints \subseteq Nameable
<1>1. (\A n \in Nodes : n.name \in Names) /\ \A i \in DOMAIN topology.nodes : topology.nodes[i] \in Nodes
  BY DEF Names, Nodes, Range
<1>2. \A i \in DOMAIN topology.transitions : topology.transitions[i] \in Edges
  BY DEF Edges, Range
<1>3. \A t \in Edges : t.from \in Nameable
  BY DEF Nameable, UnknownEndpoints
<1>4. \A v : NameOf(v) \in Nameable
  BY NameOfIs DEF Nameable
<1>5. QED
  BY <1>1, <1>2, <1>3, <1>4 DEF Nameable

LEMMA FoundNameable ==
  ASSUME NEW k, NEW S, S \subseteq Nameable, NEW x \in Found(k, S)
  PROVE  x.nodes \subseteq Nameable
<1>1. PICK n \in S : x.nodes = {n}
  BY FoundIs
<1>2. QED
  BY <1>1

LEMMA Phase1Names ==
  ASSUME topology \in Topologies,
         NEW v \in IdentityViolations \cup StartViolations \cup HaltViolations
                     \cup WeightViolations \cup EdgeViolations
  PROVE  v.nodes \subseteq Nameable
<1>1. /\ \A i \in DOMAIN topology.nodes : topology.nodes[i].name \in Nameable
      /\ \A n \in Nodes : n.name \in Nameable
      /\ \A i \in DOMAIN topology.transitions : topology.transitions[i].from \in Nameable
      /\ \A t \in Edges : t.from \in Nameable
      /\ "(none)" \in Nameable /\ "(topology)" \in Nameable
  BY NamesInDocument DEF Nameable
<1>2. \A k, S : S \subseteq Nameable => \A x \in Found(k, S) : x.nodes \subseteq Nameable
  BY FoundNameable
<1>3. CASE v \in IdentityViolations
  <2> DEFINE A == Repeated(NodeNames)
             B == {topology.nodes[i].name : i \in {j \in DOMAIN NodeIds :
                      \E k \in 1 .. j - 1 : NodeIds[k] = NodeIds[j]}}
             C == {n.name : n \in {m \in Nodes : \/ NameOf(IdOf(m.name)) # m.name
                                                 \/ IdOf(NameOf(m.id)) # m.id}}
  <2>1. A \subseteq Nameable
    BY <1>1 DEF Repeated, NodeNames
  <2>2. B \subseteq Nameable
    BY <1>1 DEF NodeIds
  <2>3. C \subseteq Nameable
    BY <1>1
  <2>4. v \in Found("duplicate_node_name", A) \cup Found("duplicate_node_id", B)
                \cup Found("index_mapping_broken", C)
    BY <1>3 DEF IdentityViolations
  <2> HIDE DEF A, B, C
  <2>5. QED
    BY <1>2, <2>1, <2>2, <2>3, <2>4
<1>4. CASE v \in StartViolations
  <2> DEFINE h == {Head(topology.nodes).name}
             o == {"(none)"}
  <2>1. o \subseteq Nameable
    BY <1>1
  <2>2. topology.nodes # <<>> => h \subseteq Nameable
    <3>1. topology.nodes # <<>> => 1 \in DOMAIN topology.nodes
      BY DocumentIs, EmptySeq
    <3>2. topology.nodes # <<>> => Head(topology.nodes) = topology.nodes[1]
      BY DocumentIs
    <3>3. QED
      BY <1>1, <3>1, <3>2
  <2>3. \/ v \in Found("invalid_start_node", o)
        \/ topology.nodes # <<>> /\ v \in Found("invalid_start_node", h)
    BY <1>4 DEF StartViolations
  <2> HIDE DEF h, o
  <2>4. QED
    BY <1>2, <2>1, <2>2, <2>3
<1>5. CASE v \in HaltViolations
  <2> DEFINE A == IF HaltNames = {} THEN {"(topology)"} ELSE {}
             B == {t.from : t \in Edges} \cap HaltNames
  <2>1. A \subseteq Nameable /\ B \subseteq Nameable
    BY <1>1
  <2>2. v \in Found("no_halt_node", A) \cup Found("halt_node_has_successors", B)
    BY <1>5 DEF HaltViolations
  <2> HIDE DEF A, B
  <2>3. QED
    BY <1>2, <2>1, <2>2
<1>6. CASE v \in WeightViolations
  <2> DEFINE A == {t.from : t \in {u \in Edges : \/ ~(Confidence(u) \in 0 .. 100)
                                                 \/ ~(Safety(u) \in 0 .. 100)
                                                 \/ Cost(u) < 0}}
             B == {t.from : t \in {u \in Edges : Confidence(u) = 0}}
  <2>1. A \subseteq Nameable /\ B \subseteq Nameable
    BY <1>1
  <2>2. v \in Found("weight_out_of_domain", A) \cup Found("zero_confidence_edge", B)
    BY <1>6 DEF WeightViolations
  <2> HIDE DEF A, B
  <2>3. QED
    BY <1>2, <2>1, <2>2
<1>7. CASE v \in EdgeViolations
  <2> DEFINE A == {e[1] : e \in Repeated(Ends)}
             B == {k[1] : k \in Repeated([i \in DOMAIN topology.transitions |->
                                            TieKey(topology.transitions[i])])}
  <2>1. A \subseteq Nameable
    <3>1. /\ DOMAIN Ends = DOMAIN topology.transitions
          /\ \A i \in DOMAIN Ends : Ends[i][1] = topology.transitions[i].from
      BY DEF Ends
    <3>2. \A e \in Repeated(Ends) : \E i \in DOMAIN Ends : e = Ends[i]
      BY DEF Repeated
    <3>3. QED
      BY <1>1, <3>1, <3>2
  <2>2. B \subseteq Nameable
    <3> DEFINE keys == [i \in DOMAIN topology.transitions |-> TieKey(topology.transitions[i])]
    <3>1. \A k \in Repeated(keys) : \E i \in DOMAIN topology.transitions :
            k = TieKey(topology.transitions[i])
      BY DEF Repeated
    <3>2. \A t : TieKey(t)[1] = t.from
      BY DEF TieKey
    <3> HIDE DEF keys
    <3>3. \A k \in Repeated(keys) : k[1] \in Nameable
      BY <1>1, <3>1, <3>2
    <3>4. QED
      BY <3>3 DEF keys
  <2>3. v \in Found("duplicate_edge", A) \cup Found("indeterminate_ordering", B)
    BY <1>7 DEF EdgeViolations
  <2> HIDE DEF A, B
  <2>4. QED
    BY <1>2, <2>1, <2>2, <2>3
<1>8. QED
  BY <1>3, <1>4, <1>5, <1>6, <1>7

LEMMA NamesStep ==
  ASSUME CheckerInv, [Next]_vars, NEW v \in violations'
  PROVE  v.nodes \subseteq Nameable
<1>1. topology \in Topologies /\ VerdictInv
  BY DEF CheckerInv
<1>2. \A k, S : S \subseteq Nameable => \A x \in Found(k, S) : x.nodes \subseteq Nameable
  BY FoundNameable
<1>3. Names \subseteq Nameable /\ UnknownEndpoints \subseteq Nameable /\ \A x : NameOf(x) \in Nameable
  BY <1>1, NamesInDocument
<1>4. CASE v \in violations
  BY <1>1, <1>4 DEF VerdictInv
<1>5. CASE CheckPhase1 /\ v \notin violations
  <2>1. v \in IdentityViolations \cup StartViolations \cup HaltViolations
                \cup WeightViolations \cup EdgeViolations
    BY <1>5 DEF CheckPhase1
  <2>2. QED
    BY <1>1, <2>1, Phase1Names
<1>6. CASE CheckStructural /\ v \notin violations
  <2> DEFINE B == {NameOf(w) : w \in {u \in Reachable \ Halts : OutCount(u) = 0}}
             C == {n \in Paged \cap Names : IdOf(n) \notin Reachable}
             D == {NameOf(w) : w \in Reachable \ CanReachHalt}
             E == {NameOf(w) : w \in ConsumedBlockPoints}
  <2>1. v \in Found("unknown_endpoint", UnknownEndpoints) \cup Found("dead_end", B)
          \cup Found("unreachable", C) \cup Found("cannot_reach_halt", D)
          \cup Found("consumed_block_point", E)
    BY <1>6 DEF CheckStructural
  <2>2. B \subseteq Nameable /\ C \subseteq Nameable /\ D \subseteq Nameable /\ E \subseteq Nameable
    BY <1>3
  <2> HIDE DEF B, C, D, E
  <2>3. QED
    BY <1>2, <1>3, <2>1, <2>2
<1>7. CASE JudgeGates /\ v \notin violations
  <2> DEFINE S == {g[2] : g \in UndominatedPairs}
  <2>1. v \in Found("dominance_violation", S)
    BY <1>7 DEF JudgeGates
  <2>2. S \subseteq Nameable
    BY <1>3 DEF UndominatedPairs
  <2> HIDE DEF S
  <2>3. QED
    BY <1>2, <2>1, <2>2
<1>8. CASE JudgeCutset /\ v \notin violations
  <2> DEFINE S == {m \in Cutset \cap Names : \/ IdOf(m) \notin Between
                                             \/ IdOf(m) \notin dom[IdOf(Commit)]}
  <2>1. v \in Found("receipt_cutset_violation", S)
    BY <1>8 DEF JudgeCutset
  <2>2. S \subseteq Nameable
    BY <1>3
  <2> HIDE DEF S
  <2>3. QED
    BY <1>2, <2>1, <2>2
<1>9. CASE JudgeCycles /\ v \notin violations
  <2>1. \E k, S : v \in Collective(k, S)
    BY <1>9 DEF JudgeCycles
  <2>2. QED
    BY <1>3, <2>1 DEF Collective
<1>10. CASE CheckOperators /\ v \notin violations
  <2> DEFINE S == NeedOperator \ Bound
             T == (NeedOperator \cap Bound) \ Speaking
  <2>1. v \in Found("missing_operator", S) \cup Found("unknown_action_semantics", T)
    BY <1>10 DEF CheckOperators
  <2>2. NeedOperator \subseteq Nameable
    BY <1>1, <1>3, NamesInDocument DEF NeedOperator
  <2>3. S \subseteq Nameable /\ T \subseteq Nameable
    BY <2>2
  <2> HIDE DEF S, T
  <2>4. QED
    BY <1>2, <2>1, <2>3
<1>11. QED
  BY <1>4, <1>5, <1>6, <1>7, <1>8, <1>9, <1>10, KindsAdded DEF AddedBy

LEMMA IdentityStep ==
  ASSUME CheckerInv, [Next]_vars, NEW v \in violations', v.kind \in IdentityKinds
  PROVE  v \in IdentityFound
<1>1. CASE v \in violations
  BY <1>1 DEF CheckerInv, VerdictInv
<1>2. CASE v \notin violations /\ CheckPhase1
  <2>1. v \in IdentityViolations \cup StartViolations \cup HaltViolations
                \cup WeightViolations \cup EdgeViolations
    BY <1>2 DEF CheckPhase1
  <2>2. \A x \in StartViolations \cup HaltViolations \cup WeightViolations :
          x.kind \in {"invalid_start_node", "no_halt_node", "halt_node_has_successors",
                      "weight_out_of_domain", "zero_confidence_edge"}
    <3>1. \A x \in StartViolations : x.kind = "invalid_start_node"
      BY FoundIs DEF StartViolations
    <3>2. \A x \in HaltViolations : x.kind \in {"no_halt_node", "halt_node_has_successors"}
      BY FoundIs DEF HaltViolations
    <3>3. \A x \in WeightViolations : x.kind \in {"weight_out_of_domain", "zero_confidence_edge"}
      BY FoundIs DEF WeightViolations
    <3>4. QED
      BY <3>1, <3>2, <3>3
  <2>3. v.kind \notin {"invalid_start_node", "no_halt_node", "halt_node_has_successors",
                       "weight_out_of_domain", "zero_confidence_edge"}
    BY DEF IdentityKinds
  <2>4. QED
    BY <2>1, <2>2, <2>3 DEF IdentityFound
<1>3. CASE v \notin violations /\ CheckStructural
  <2> DEFINE B == {NameOf(w) : w \in {u \in Reachable \ Halts : OutCount(u) = 0}}
             C == {n \in Paged \cap Names : IdOf(n) \notin Reachable}
             D == {NameOf(w) : w \in Reachable \ CanReachHalt}
             E == {NameOf(w) : w \in ConsumedBlockPoints}
  <2>1. v \in Found("unknown_endpoint", UnknownEndpoints) \cup Found("dead_end", B)
          \cup Found("unreachable", C) \cup Found("cannot_reach_halt", D)
          \cup Found("consumed_block_point", E)
    BY <1>3 DEF CheckStructural
  <2> HIDE DEF B, C, D, E
  <2>2. v.kind \notin {"dead_end", "unreachable", "cannot_reach_halt", "consumed_block_point"}
    BY DEF IdentityKinds
  <2>3. v \in Found("unknown_endpoint", UnknownEndpoints)
    BY <2>1, <2>2, FoundIs
  <2>4. QED
    BY <2>3 DEF IdentityFound
<1>4. QED
  BY <1>1, <1>2, <1>3, OthersDoNotJudge

(* A topology with no fatal violation, once loaded, lets control halt.     *)
LEMMA LoadLetsHalt ==
  ASSUME CheckerInv, Load, pc' = "operators"
  PROVE  LetsHalt
<1>1. /\ topology \in Topologies /\ VerdictInv /\ pc = "load"
      /\ Fatal = {} /\ \A t \in Edges : Known(t)
  BY DEF CheckerInv, Load, Compiles, RegistryAccepts
<1>2. \A v \in violations : v.kind = "consumed_block_point"
  BY <1>1 DEF Fatal
<1>3. WeightViolations = {}
  <2>1. \A v \in WeightViolations : v.kind \in {"weight_out_of_domain", "zero_confidence_edge"}
    BY FoundIs DEF WeightViolations
  <2>2. WeightViolations \subseteq violations
    BY <1>1 DEF VerdictInv
  <2>3. QED
    BY <1>2, <2>1, <2>2
<1>4. \A k, S : Found(k, S) = {} => S = {}
  <2> SUFFICES ASSUME NEW k, NEW S, NEW n \in S
               PROVE  Found(k, S) # {}
    OBVIOUS
  <2>1. [kind |-> k, nodes |-> {n}] \in Found(k, S)
    BY FoundIs
  <2>2. QED
    BY <2>1
<1>5. \A t \in Edges : Confidence(t) > 0
  <2> DEFINE A == {t.from : t \in {u \in Edges : \/ ~(Confidence(u) \in 0 .. 100)
                                                 \/ ~(Safety(u) \in 0 .. 100)
                                                 \/ Cost(u) < 0}}
             B == {t.from : t \in {u \in Edges : Confidence(u) = 0}}
  <2>1. Found("weight_out_of_domain", A) = {} /\ Found("zero_confidence_edge", B) = {}
    BY <1>3 DEF WeightViolations
  <2>2. A = {} /\ B = {}
    <3> HIDE DEF A, B
    <3>1. QED
      BY <1>4, <2>1
  <2>3. \A t \in Edges : Confidence(t) \in 0 .. 100 /\ Confidence(t) # 0
    BY <2>2
  <2>4. QED
    BY <2>3
<1>6. Positive = Links
  BY <1>1, <1>5 DEF Links, Positive
<1>7. Stranded = {}
  <2> DEFINE S == {NameOf(v) : v \in Stranded}
  <2>1. Found("cannot_reach_halt", S) \subseteq violations
    BY <1>1 DEF VerdictInv
  <2>2. \A v \in Found("cannot_reach_halt", S) : v.kind = "cannot_reach_halt"
    BY FoundIs
  <2>3. S = {}
    <3> HIDE DEF S
    <3>1. QED
      BY <1>2, <1>4, <2>1, <2>2
  <2>4. QED
    BY <2>3
<1>8. ASSUME NEW v \in Reached({0}, Links)
      PROVE  Reached({v}, Links) \cap Halts # {}
  <2>1. v \in Reached(Halts, Reversed(Links))
    BY <1>7 DEF Stranded
  <2>2. PICK h \in Halts : Leads(v, h, Links)
    BY <1>1, <2>1, LinksFinite, ReachedAgainst
  <2>3. QED
    BY <2>2 DEF Leads
<1>9. ASSUME NEW g \in RequiredGates, {g[1], g[2]} \subseteq Names, IdOf(g[1]) # 0
      PROVE  IdOf(g[2]) \notin Reached({0}, {a \in Links : IdOf(g[1]) \notin {a[1], a[2]}})
  <2>1. ArcSet = Links /\ topology.nodes # <<>> /\ AfterGates
    BY <1>1 DEF CheckerInv, ArcsInv, AfterGates, Load, Compiles, RegistryAccepts
  <2>2. [kind |-> "dominance_violation", nodes |-> {g[2]}] \notin violations
    BY <1>2
  <2>3. IdOf(g[2]) \notin ReachedAvoiding(0, IdOf(g[1]))
    BY <1>9, <2>1, <2>2 DEF CheckerInv, DominanceExact
  <2>4. QED
    BY <1>9, <2>1, <2>3 DEF ReachedAvoiding, Avoiding
<1>10. QED
  BY <1>6, <1>8, <1>9 DEF LetsHalt

LEMMA VerdictStep ==
  ASSUME CheckerInv, [Next]_vars
  PROVE  VerdictInv'
<1>1. /\ VerdictInv /\ SameDocument /\ violations \subseteq violations' /\ pc \in Stages /\ ArcsInv
  BY DocumentStays, KindsAdded DEF CheckerInv
<1>2. \A v \in violations' : v.nodes \subseteq Nameable
  BY NamesStep
<1>3. \A v \in violations' : v.kind \in IdentityKinds => v \in IdentityFound
  BY IdentityStep
<1>4. pc' # "phase1" => WeightViolations \subseteq violations'
  <2>1. CASE CheckPhase1
    BY <2>1 DEF CheckPhase1
  <2>2. CASE ~CheckPhase1
    <3>1. pc' # "phase1" => pc # "phase1"
      BY <2>2 DEF Next, vars, BuildGraph, CheckStructural,
         VisitForDominators, NextRound, JudgeGates, JudgeCutset, DfsRoot, DfsDescend, DfsFinish,
         StartCollecting, CollectRoot, CollectPop, JudgeCycles, Load, CheckOperators
    <3>2. QED
      BY <1>1, <3>1 DEF VerdictInv
  <2>3. QED
    BY <2>1, <2>2
<1>5. pc' \notin {"phase1", "graph", "structural"} =>
        /\ Found("unknown_endpoint", UnknownEndpoints) \subseteq violations'
        /\ Found("cannot_reach_halt", {NameOf(v) : v \in Stranded}) \subseteq violations'
  <2>1. CASE CheckStructural
    <3>1. ArcSet = Links
      BY <1>1, <2>1 DEF CheckStructural, ArcsInv
    <3>2. Stranded = Reachable \ CanReachHalt
      BY <3>1 DEF Stranded, Reachable, CanReachHalt
    <3> HIDE DEF Stranded
    <3>3. QED
      BY <2>1, <3>2 DEF CheckStructural
  <2>2. CASE ~CheckStructural
    <3>1. pc' \notin {"phase1", "graph", "structural"} => pc \notin {"phase1", "graph", "structural"}
      BY <2>2 DEF Next, vars, CheckPhase1, BuildGraph,
         VisitForDominators, NextRound, JudgeGates, JudgeCutset, DfsRoot, DfsDescend, DfsFinish,
         StartCollecting, CollectRoot, CollectPop, JudgeCycles, Load, CheckOperators
    <3>2. QED
      BY <1>1, <3>1 DEF VerdictInv
  <2>3. QED
    BY <2>1, <2>2
<1>6. pc' \in {"operators", "accepted"} => LetsHalt
  <2>1. CASE Load
    BY <2>1, LoadLetsHalt DEF Load
  <2>2. CASE ~Load
    <3>1. pc' \in {"operators", "accepted"} => pc \in {"operators", "accepted"}
      BY <2>2 DEF Next, vars, CheckPhase1, BuildGraph, CheckStructural,
         VisitForDominators, NextRound, JudgeGates, JudgeCutset, DfsRoot, DfsDescend, DfsFinish,
         StartCollecting, CollectRoot, CollectPop, JudgeCycles, CheckOperators
    <3>2. QED
      BY <1>1, <3>1 DEF VerdictInv
  <2>3. QED
    BY <2>1, <2>2
<1>7. {NameOf(v) : v \in Stranded}' = {NameOf(v) : v \in Stranded}
  BY <1>1 DEF SameDocument
<1>8. QED
  BY <1>1, <1>2, <1>3, <1>4, <1>5, <1>6, <1>7 DEF VerdictInv, SameDocument

(* The exit check finds nothing that the path-to-halt check has not.       *)
LEMMA TrapsStep ==
  ASSUME CheckerInv, [Next]_vars
  PROVE  TrapsCannotHalt'
<1>1. /\ topology \in Topologies /\ VerdictInv /\ TrapsCannotHalt /\ violations \subseteq violations'
      /\ ArcSet \subseteq Ids \X Ids /\ IsFiniteSet(ArcSet)
  BY ArcsAre, KindsAdded DEF CheckerInv
<1> SUFFICES ASSUME NEW v \in violations', v.kind = "unsafe_scc", NEW n \in v.nodes
             PROVE  [kind |-> "cannot_reach_halt", nodes |-> {n}] \in violations'
  BY DEF TrapsCannotHalt
<1>2. CASE v \in violations
  BY <1>1, <1>2 DEF TrapsCannotHalt
<1>3. CASE v \notin violations
  <2>1. JudgeCycles
    BY <1>3, OthersDoNotJudge
  <2>2. /\ pc = "collect" /\ stack = <<>> /\ Ids \subseteq visited /\ ArcSet = Links
        /\ Collected(Ids, ArcSet, finish, stack, visited, sccs)
    BY <2>1 DEF JudgeCycles, CheckerInv, SearchInv, ArcsInv
  <2>3. PICK C \in Loops : NoExit(C) /\ v.nodes = {NameOf(x) : x \in C}
    <3> DEFINE S == {C \in Loops : NoExit(C)}
               T == {C \in Loops : AllFree(C)}
    <3>1. v \in Collective("unsafe_scc", S) \cup Collective("zero_cost_cycle", T)
      BY <1>3, <2>1 DEF JudgeCycles
    <3> HIDE DEF S, T
    <3>2. PICK C \in S : v.nodes = {NameOf(x) : x \in C}
      BY <3>1 DEF Collective
    <3>3. QED
      BY <3>2 DEF S
  <2>4. PICK u \in Ids : C = Class(u, Ids, ArcSet)
    BY <1>1, <2>2, <2>3, CollectedAll DEF Loops
  <2>5. PICK x \in C : n = NameOf(x)
    BY <2>3
  <2>6. x \in Reached({0}, ArcSet)
    <3>1. PICK r \in C : Leads(0, r, ArcSet)
      BY <2>3 DEF Loops, Reachable, Leads
    <3>2. Together(u, r, ArcSet) /\ Together(u, x, ArcSet)
      BY <2>4, <2>5, <3>1 DEF Class
    <3>3. Leads(r, x, ArcSet)
      BY <1>1, <3>2, LeadsThrough DEF Together
    <3>4. Leads(0, x, ArcSet)
      BY <1>1, <3>1, <3>3, LeadsThrough
    <3>5. QED
      BY <3>4 DEF Leads
  <2>7. x \notin Reached(Halts, Reversed(ArcSet))
    <3> SUFFICES ASSUME x \in Reached(Halts, Reversed(ArcSet))
                 PROVE  FALSE
      OBVIOUS
    <3>1. PICK h \in Halts : Leads(x, h, ArcSet)
      BY <1>1, ReachedAgainst
    <3>2. Closed(C, ArcSet)
      BY <2>3 DEF NoExit, Inner, Closed
    <3>3. h \in C
      BY <1>1, <2>5, <3>1, <3>2, LeadsWithin
    <3>4. QED
      BY <2>3, <3>3 DEF Loops
  <2>8. x \in Stranded
    BY <2>2, <2>6, <2>7 DEF Stranded
  <2> DEFINE S == {NameOf(w) : w \in Stranded}
  <2>9. Found("cannot_reach_halt", S) \subseteq violations
    BY <1>1, <2>2 DEF VerdictInv
  <2>10. n \in S
    BY <2>5, <2>8
  <2> HIDE DEF S
  <2>11. [kind |-> "cannot_reach_halt", nodes |-> {n}] \in Found("cannot_reach_halt", S)
    BY <2>10, FoundIs
  <2>12. QED
    BY <1>1, <2>9, <2>11
<1>4. QED
  BY <1>2, <1>3

-------------------------------------------------------------------------------
(* The invariant holds at first and is kept.                               *)

LEMMA CheckerInit ==
  ASSUME Init
  PROVE  CheckerInv
<1>1. /\ topology \in Topologies /\ pc = "phase1" /\ violations = {} /\ arcs = <<>> /\ dom = <<>>
      /\ todo = {} /\ stack = <<>> /\ visited = {} /\ finish = <<>> /\ sccs = <<>>
  BY DEF Init
<1>2. ArcsInv
  BY <1>1 DEF ArcsInv, ArcSet, Range
<1>3. SearchInv
  BY <1>1 DEF SearchInv, Early, Late
<1>4. FixpointInv
  BY <1>1 DEF FixpointInv
<1>5. VerdictInv /\ TrapsCannotHalt
  BY <1>1 DEF VerdictInv, TrapsCannotHalt
<1>6. Unjudged /\ DominanceExact /\ CutsetExact
  BY <1>1 DEF Unjudged, DominanceExact, CutsetExact, AfterGates, AfterCutset, Kinds
<1>7. pc \in Stages
  BY <1>1 DEF Stages
<1>8. QED
  BY <1>1, <1>2, <1>3, <1>4, <1>5, <1>6, <1>7 DEF CheckerInv

LEMMA StagesStep ==
  ASSUME CheckerInv, [Next]_vars
  PROVE  topology' \in Topologies /\ pc' \in Stages
<1>1. topology \in Topologies /\ pc \in Stages /\ topology' = topology
  BY DocumentStays DEF CheckerInv, SameDocument
<1>2. pc' \in Stages
  BY <1>1 DEF Stages, Next, vars, CheckPhase1, BuildGraph, CheckStructural, VisitForDominators,
     NextRound, JudgeGates, JudgeCutset, DfsRoot, DfsDescend, DfsFinish, StartCollecting,
     CollectRoot, CollectPop, JudgeCycles, Load, CheckOperators
<1>3. QED
  BY <1>1, <1>2

LEMMA CheckerStep ==
  ASSUME CheckerInv, [Next]_vars
  PROVE  CheckerInv'
<1>1. topology' \in Topologies /\ pc' \in Stages
  BY StagesStep
<1>2. ArcsInv'
  BY ArcsStep
<1>3. SearchInv'
  <2>1. CASE pc \in {"finish", "collect"} /\ Next
    BY <2>1, SearchStep, CollectStep
  <2>2. CASE ~(pc \in {"finish", "collect"} /\ Next)
    BY <2>2, QuietStep
  <2>3. QED
    BY <2>1, <2>2
<1>4. FixpointInv'
  BY FixpointStep
<1>5. VerdictInv'
  BY VerdictStep
<1>6. TrapsCannotHalt'
  BY TrapsStep
<1>7. Unjudged'
  BY UnjudgedStep
<1>8. DominanceExact' /\ CutsetExact'
  BY DominanceStep, CutsetStep
<1>9. QED
  BY <1>1, <1>2, <1>3, <1>4, <1>5, <1>6, <1>7, <1>8 DEF CheckerInv

LEMMA CheckerHolds == Spec => []CheckerInv
<1>1. Init => CheckerInv
  BY CheckerInit
<1>2. CheckerInv /\ [Next]_vars => CheckerInv'
  BY CheckerStep
<1>3. QED
  BY <1>1, <1>2, PTL DEF Spec

-------------------------------------------------------------------------------
(* What the invariant says.                                                *)

LEMMA CheckerTypes ==
  ASSUME CheckerInv
  PROVE  TypeOK
<1>1. topology \in Topologies /\ pc \in Stages
  BY DEF CheckerInv
<1>2. \A v \in violations :
        v.nodes \subseteq Names \cup UnknownEndpoints \cup {"?", "(none)", "(topology)"}
  BY DEF CheckerInv, VerdictInv, Nameable
<1>3. todo \subseteq Ids /\ \A v \in DOMAIN dom : v \in Ids \cup {0} /\ dom[v] \subseteq Ids \cup {0}
  BY DEF CheckerInv, FixpointInv
<1>4. SearchTypes
  <2>1. CASE Early
    <3>1. stack = <<>> /\ visited = {} /\ finish = <<>> /\ sccs = <<>>
      BY <2>1 DEF CheckerInv, SearchInv
    <3>2. QED
      BY <3>1 DEF SearchTypes, Range, IsInjective
  <2>2. CASE pc = "finish"
    BY <2>2, SearchedTypes DEF CheckerInv, SearchInv
  <2>3. CASE pc = "collect"
    BY <2>3, CollectTypes DEF CheckerInv, SearchInv
  <2>4. CASE Late
    BY <2>4 DEF CheckerInv, SearchInv
  <2>5. QED
    BY <1>1, <2>1, <2>2, <2>3, <2>4 DEF Stages, Early, Late
<1>5. QED
  BY <1>1, <1>2, <1>3, <1>4 DEF TypeOK, SearchTypes

(* A list the compiler finds free of repetitions has none for the checker. *)
LEMMA NoneRepeated ==
  ASSUME NEW s, IsInjective(s), NEW n, DOMAIN s = 1 .. n, n \in Nat
  PROVE  Repeated(s) = {} /\ \A i \in DOMAIN s : \A k \in 1 .. i - 1 : s[k] # s[i]
<1>1. \A i \in DOMAIN s : \A k \in 1 .. i - 1 : k \in DOMAIN s /\ k # i
  OBVIOUS
<1>2. \A i \in DOMAIN s : \A k \in 1 .. i - 1 : s[k] # s[i]
  BY <1>1 DEF IsInjective
<1>3. QED
  BY <1>2 DEF Repeated

LEMMA CompiledIsClean ==
  ASSUME topology \in Topologies, Compiles
  PROVE  IdentityFound = {}
<1>1. /\ IsInjective(NodeNames) /\ IsInjective(NodeIds) /\ IsInjective(Ends)
      /\ \A t \in Edges : Known(t)
  BY DEF Compiles, RegistryAccepts
<1>2. /\ Len(topology.nodes) \in Nat /\ DOMAIN topology.nodes = 1 .. Len(topology.nodes)
      /\ Len(topology.transitions) \in Nat
      /\ DOMAIN topology.transitions = 1 .. Len(topology.transitions)
  BY DocumentIs
<1> DEFINE twice == {topology.nodes[i].name : i \in {j \in DOMAIN NodeIds :
                       \E k \in 1 .. j - 1 : NodeIds[k] = NodeIds[j]}}
           bent  == {n.name : n \in {m \in Nodes : \/ NameOf(IdOf(m.name)) # m.name
                                                   \/ IdOf(NameOf(m.id)) # m.id}}
           keys  == [i \in DOMAIN topology.transitions |-> TieKey(topology.transitions[i])]
<1>3. Repeated(NodeNames) = {}
  BY <1>1, <1>2, NoneRepeated DEF NodeNames
<1>4. twice = {}
  BY <1>1, <1>2, NoneRepeated DEF NodeIds
<1>5. bent = {}
  <2> SUFFICES ASSUME NEW m \in Nodes
               PROVE  NameOf(IdOf(m.name)) = m.name /\ IdOf(NameOf(m.id)) = m.id
    OBVIOUS
  <2>1. m.name \in Names /\ m.id \in Ids
    BY DEF Names, Ids
  <2>2. PICK i \in DOMAIN topology.nodes : m = topology.nodes[i]
    BY DEF Nodes, Range
  <2>3. \A j \in DOMAIN topology.nodes :
          topology.nodes[j].name = m.name \/ topology.nodes[j].id = m.id => j = i
    BY <1>1, <2>2 DEF IsInjective, NodeNames, NodeIds
  <2>4. IdOf(m.name) = m.id
    BY <2>1, <2>2, <2>3, IdOfIs
  <2>5. NameOf(m.id) = m.name
    BY <2>1, <2>2, <2>3, NameOfIs
  <2>6. QED
    BY <2>4, <2>5
<1>6. Repeated(Ends) = {}
  BY <1>1, <1>2, NoneRepeated DEF Ends
<1>7. Repeated(keys) = {}
  <2>1. IsInjective(keys)
    <3> SUFFICES ASSUME NEW i \in DOMAIN keys, NEW j \in DOMAIN keys, keys[i] = keys[j]
                 PROVE  i = j
      BY DEF IsInjective
    <3>1. keys[i][1] = keys[j][1] /\ keys[i][5] = keys[j][5]
      OBVIOUS
    <3>2. Ends[i] = Ends[j]
      BY <3>1 DEF Ends, TieKey
    <3>3. QED
      BY <1>1, <3>2 DEF IsInjective, Ends
  <2>2. QED
    BY <1>2, <2>1, NoneRepeated
<1>8. UnknownEndpoints = {}
  BY <1>1 DEF UnknownEndpoints, Known
<1>9. \A k : Found(k, {}) = {}
  BY DEF Found
<1>10. IdentityViolations = {}
  <2> HIDE DEF twice, bent
  <2>1. IdentityViolations = Found("duplicate_node_name", Repeated(NodeNames))
          \cup Found("duplicate_node_id", twice) \cup Found("index_mapping_broken", bent)
    BY DEF IdentityViolations, twice, bent
  <2>2. QED
    BY <1>3, <1>4, <1>5, <1>9, <2>1
<1>11. EdgeViolations = {}
  <2>1. {e[1] : e \in Repeated(Ends)} = {} /\ {k[1] : k \in Repeated(keys)} = {}
    BY <1>6, <1>7
  <2> HIDE DEF keys
  <2>2. EdgeViolations = Found("duplicate_edge", {e[1] : e \in Repeated(Ends)})
          \cup Found("indeterminate_ordering", {k[1] : k \in Repeated(keys)})
    BY DEF EdgeViolations, keys
  <2>3. QED
    BY <1>9, <2>1, <2>2
<1>12. QED
  BY <1>8, <1>9, <1>10, <1>11 DEF IdentityFound

LEMMA CheckerCompiles ==
  ASSUME CheckerInv
  PROVE  CompiledIsIdentified
<1> SUFFICES ASSUME Compiles, NEW v \in violations, v.kind \in IdentityKinds
             PROVE  FALSE
  BY DEF CompiledIsIdentified, Kinds, IdentityKinds
<1>1. v \in IdentityFound
  BY DEF CheckerInv, VerdictInv
<1>2. QED
  BY <1>1, CompiledIsClean DEF CheckerInv

LEMMA CheckerComponents ==
  ASSUME CheckerInv
  PROVE  ComponentsExact
<1> SUFFICES ASSUME pc = "collect", stack = <<>>, Ids \subseteq visited
             PROVE  /\ Range(sccs) = {{v \in Ids : Mutual(u, v)} : u \in Ids}
                    /\ IsInjective(sccs)
  BY DEF ComponentsExact
<1>1. IsFiniteSet(ArcSet) /\ Collected(Ids, ArcSet, finish, <<>>, visited, sccs)
  BY ArcsAre DEF CheckerInv, SearchInv
<1>2. Range(sccs) = {Class(u, Ids, ArcSet) : u \in Ids} /\ IsInjective(sccs)
  BY <1>1, CollectedAll
<1>3. \A u : Class(u, Ids, ArcSet) = {v \in Ids : Mutual(u, v)}
  BY DEF Class, Together, Leads, Mutual
<1>4. QED
  BY <1>2, <1>3

-------------------------------------------------------------------------------
(* Theorems.                                                               *)

(* For every document: the variables keep their types, what the compiler   *)
(* takes carries no violation of identity, endpoints or edge uniqueness    *)
(* (registry.rs and compile.rs beside check.rs), and every node of a       *)
(* component the exit check calls unsafe is one the path-to-halt check     *)
(* has reported.                                                           *)
THEOREM CheckerKeepsTypes == Spec => []Inv
<1>1. CheckerInv => Inv
  BY CheckerTypes, CheckerCompiles DEF Inv, CheckerInv
<1>2. QED
  BY <1>1, CheckerHolds, PTL

(* For every document and every order of visits in the dominator fixpoint, *)
(* check_phase3 reports a protected node if and only if a path from the    *)
(* start reaches it past one of its gates.                                 *)
THEOREM GatesAreExact == Spec => []DominanceExact
<1>1. CheckerInv => DominanceExact
  BY DEF CheckerInv
<1>2. QED
  BY <1>1, CheckerHolds, PTL

(* For every document and every order of visits, check_receipt_cutset      *)
(* reports a member if and only if the commit is reached from the end of   *)
(* an execution without it.                                                *)
THEOREM CutsetIsExact == Spec => []CutsetExact
<1>1. CheckerInv => CutsetExact
  BY DEF CheckerInv
<1>2. QED
  BY <1>1, CheckerHolds, PTL

(* For every document and every order of neighbours, the two searches of   *)
(* kosaraju_sccs leave exactly the classes of nodes that reach each other. *)
THEOREM ComponentsAreExact == Spec => []ComponentsExact
<1>1. CheckerInv => ComponentsExact
  BY CheckerComponents
<1>2. QED
  BY <1>1, CheckerHolds, PTL

(* In every topology the runtime accepts, what the start leads to along    *)
(* edges of confidence above zero leads on along such edges to a halt      *)
(* node, and such edges lead to no protected node around one of its gates  *)
(* (load_checked_default, check_phase3).                                   *)
THEOREM AcceptedHalts == Spec => []AcceptedCanHalt
<1>1. CheckerInv => AcceptedCanHalt
  BY DEF CheckerInv, VerdictInv, LetsHalt, Positive, AcceptedCanHalt
<1>2. QED
  BY <1>1, CheckerHolds, PTL

===============================================================================

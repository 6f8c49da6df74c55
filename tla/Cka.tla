---------------------------------- MODULE Cka ----------------------------------
(***************************************************************************)
(* The CKA expressions of topology.source.json, as both of its compilers   *)
(* parse them (crates/topology_core/src/programs.rs, src/pattern.rs), the  *)
(* effects that make branches of a PAR independent, and a reference        *)
(* reading of the algebra: the sequences of nodes an expression allows.    *)
(***************************************************************************)
EXTENDS Naturals, SequencesExt, FiniteSetsExt, Subsequences

CONSTANT MaxNesting  \* how deep the JSON parser lets an expression nest

ASSUME NestingAssumption == MaxNesting \in Nat

Name(n)           == [form |-> "name", name |-> n]
Combine(op, args) == [form |-> op, items |-> args]
Star(body, n)     == [form |-> "star", body |-> body, max_unroll |-> n]

(* The expressions whose parts are in S.                                   *)
Formed(S) ==
  [form : {"name"}, name : STRING]
  \cup [form : {"seq", "choice", "par"}, items : Seq(S)]
  \cup [form : {"star"}, body : S, max_unroll : Nat]

(* What a document can say.                                                *)
Expr ==
  LET within[k \in 0 .. MaxNesting] == Formed(IF k = 0 THEN {} ELSE within[k - 1])
  IN  within[MaxNesting]

IsZero(e) == e.form = "name" /\ e.name \in {"zero", "blocked", "impossible"}
IsOne(e)  == e.form = "name" /\ e.name \in {"one", "identity", "skip"}
IsNode(e) == e.form = "name" /\ ~IsZero(e) /\ ~IsOne(e)

Parts(e) ==
  CASE e.form = "name" -> {}
    [] e.form = "star" -> {e.body}
    [] OTHER           -> Range(e.items)

Within[e \in Expr] == {e} \cup UNION {Within[p] : p \in Parts(e)}

NodesOf(e) == {p.name : p \in {q \in Within[e] : IsNode(q)}}

-------------------------------------------------------------------------------
(* Effects: a function from node names to what they read, write and lock.  *)

SafeParallel(a, b) ==
  /\ a.writes \cap (b.writes \cup b.reads) = {}
  /\ a.reads \cap b.writes = {}
  /\ a.locks \cap b.locks = {}

BranchEffects(e, effects) ==
  [reads  |-> UNION {effects[n].reads : n \in NodesOf(e)},
   writes |-> UNION {effects[n].writes : n \in NodesOf(e)},
   locks  |-> UNION {effects[n].locks : n \in NodesOf(e)}]

(* Wrong: compares a branch with the next one only.                        *)
IndependentNeighbours(branches, effects) ==
  \A i, j \in DOMAIN branches :
    j = i + 1 => SafeParallel(BranchEffects(branches[i], effects),
                              BranchEffects(branches[j], effects))

IndependentBranches(branches, effects) ==
  \A i, j \in DOMAIN branches :
    i < j => SafeParallel(BranchEffects(branches[i], effects),
                          BranchEffects(branches[j], effects))

(* What compiling an expression accepts, parsing it included.              *)
Accepted(e, known, effects) ==
  /\ NodesOf(e) \subseteq known
  /\ \A p \in Within[e] :
       CASE p.form = "name" -> TRUE
         [] p.form = "star" -> p.max_unroll > 0
         [] p.form = "par"  -> /\ Len(p.items) >= 2
                               /\ NodesOf(p) \subseteq DOMAIN effects
                               /\ IndependentBranches(p.items, effects)
         [] OTHER           -> Len(p.items) > 0

-------------------------------------------------------------------------------
(* Reference: the threads of an expression, in each of which one node      *)
(* comes after the other.  A PAR gives those of its branches, and leaves   *)
(* out the empty one when there is a node to wait for.                     *)

Joined(S, T) == {s \o t : s \in S, t \in T}

(* One thread of each, in their order.                                     *)
JoinedAll(sets) ==
  LET upto[k \in 0 .. Len(sets)] == IF k = 0 THEN {<<>>} ELSE Joined(upto[k - 1], sets[k])
  IN  upto[Len(sets)]

(* Once, or up to n times.                                                 *)
Repeated(set, n) == UNION {JoinedAll([i \in 1 .. k |-> set]) : k \in 1 .. n}

Interleaved(sets) ==
  LET all == UNION Range(sets)
  IN  IF {} \in Range(sets) THEN {}
      ELSE IF all = {<<>>} THEN all ELSE all \ {<<>>}

Threads[e \in Expr] ==
  LET parts == [i \in DOMAIN e.items |-> Threads[e.items[i]]]
  IN  CASE e.form = "seq"    -> JoinedAll(parts)
        [] e.form = "choice" -> UNION Range(parts)
        [] e.form = "par"    -> Interleaved(parts)
        [] e.form = "star"   -> Repeated(Threads[e.body], e.max_unroll)
        [] IsZero(e) -> {}
        [] IsOne(e)  -> {<<>>}
        [] OTHER     -> {<<e.name>>}

(* The pairs of nodes of which the second comes right after the first.     *)
FollowedIn(T) == UNION {{<<t[i], t[i + 1]>> : i \in 1 .. Len(t) - 1} : t \in T}

Followed(e) == FollowedIn(Threads[e])

ZeroFree(e) == ~\E p \in Within[e] : IsZero(p)

(* No part can be skipped that is not empty altogether.                    *)
Definite(e) ==
  ZeroFree(e) /\ \A p \in Within[e] : <<>> \in Threads[p] => Threads[p] = {<<>>}

===============================================================================

----------------------------- MODULE TopologyCheck -----------------------------
(***************************************************************************)
(* The static checker of a topology (crates/topology_core/src/check.rs)    *)
(* and what stands around it when the runtime loads one: load_checked_     *)
(* default (src/topology.rs), which refuses fatal violations and compiles  *)
(* the rest (compile.rs, registry.rs), and the operator binding check that *)
(* build_runtime_epoch (src/app/runtime_epoch.rs) adds.                    *)
(*                                                                         *)
(* Checks that look at one node or edge are sets of violations; the graph  *)
(* algorithms (the dominator fixpoint and the two searches of Kosaraju)    *)
(* take one action per step of their loops, so that what they compute can  *)
(* be compared with what it is said to be.  Weights are hundredths; the    *)
(* details of a violation are the names it is about.                       *)
(***************************************************************************)
EXTENDS Integers, Sequences, FiniteSets, Functions, SequencesExt, Subsequences,
        Reachability

CONSTANTS
  Topologies,        \* what topology.generated.json may say
  RequiredGates,     \* required_dominators: <<gate, protected>> names
  Cutset,            \* receipt_cutset: names
  ExecuteFinished,   \* the name "Event::ExecuteFinished"
  Commit,            \* the name "Control::Commit"
  Bound,             \* names with an entry in operators.json
  Speaking,          \* those whose entry has an action or an output mode
  Capacity,          \* TENSOR_NODE_COUNT
  Unset              \* a weight the file leaves out

ASSUME CheckAssumption ==
  /\ Speaking \subseteq Bound
  /\ Capacity \in Nat

(* What the document's types (model.rs) let it say.                        *)
Weight  == {Unset} \cup Int
NodeDoc == [id : Nat, name : STRING, type : STRING, halt : BOOLEAN, reentrant : BOOLEAN]
EdgeDoc == [from : STRING, to : STRING,
            weight : Int, confidence : Weight, safety : Weight, cost : Weight]
PageDoc == [name : STRING, nodes : SUBSET STRING]

ASSUME DocumentAssumption ==
  \A t \in Topologies :
    /\ t.nodes \in Seq(NodeDoc)
    /\ t.transitions \in Seq(EdgeDoc)
    /\ t.pages \in Seq(PageDoc)

VARIABLES
  topology,   \* the document
  pc,         \* the check that comes next
  violations, \* found so far
  arcs,       \* the adjacency lists: <<source id, destination id>> per transition
  dom,        \* the dominator sets of the fixpoint
  todo,       \* nodes the current round of it has not visited
  changed,    \* whether the round changed a set
  stack,      \* depth-first searches: nodes being visited
  visited,    \* depth-first searches: nodes seen
  finish,     \* post-order of the first search
  sccs        \* components the second search found, a sequence of sets

vars == <<topology, pc, violations, arcs, dom, todo, changed, stack, visited, finish, sccs>>
search == <<arcs, stack, visited, finish, sccs>>

-------------------------------------------------------------------------------
(* The document as a graph of node ids.                                    *)

Nodes == Range(topology.nodes)
Edges == Range(topology.transitions)
Names == {n.name : n \in Nodes}
Ids   == {n.id : n \in Nodes}
Halts == {n.id : n \in {m \in Nodes : m.halt}}

(* Maps collected from a list keep the last entry of a key.                *)
IdOf(name) == topology.nodes[Max({i \in DOMAIN topology.nodes :
                                    topology.nodes[i].name = name})].id
NameOf(id) == IF id \in Ids
              THEN topology.nodes[Max({i \in DOMAIN topology.nodes :
                                         topology.nodes[i].id = id})].name
              ELSE "?"

Known(t) == t.from \in Names /\ t.to \in Names

ArcSet == Range(arcs)
Successors(v)   == {a[2] : a \in {b \in ArcSet : b[1] = v}}
Predecessors(v) == {a[1] : a \in {b \in ArcSet : b[2] = v}}

(* bfs from the start node.                                                *)
Reachable == Reached({0}, ArcSet)

Found(kind, names) == [kind : {kind}, nodes : {{n} : n \in names}]
Kinds == {v.kind : v \in violations}

-------------------------------------------------------------------------------
(* Phase 1: identity and weights.                                          *)

Repeated(seq) == {seq[i] : i \in {j \in DOMAIN seq : \E k \in 1 .. j - 1 : seq[k] = seq[j]}}

NodeNames == [i \in DOMAIN topology.nodes |-> topology.nodes[i].name]
NodeIds   == [i \in DOMAIN topology.nodes |-> topology.nodes[i].id]
Ends      == [i \in DOMAIN topology.transitions |->
                <<topology.transitions[i].from, topology.transitions[i].to>>]

IdentityViolations ==
  Found("duplicate_node_name", Repeated(NodeNames))
  \cup Found("duplicate_node_id",
             {topology.nodes[i].name : i \in {j \in DOMAIN NodeIds :
                \E k \in 1 .. j - 1 : NodeIds[k] = NodeIds[j]}})
  \cup Found("index_mapping_broken",
             {n.name : n \in {m \in Nodes : \/ NameOf(IdOf(m.name)) # m.name
                                            \/ IdOf(NameOf(m.id)) # m.id}})

StartViolations ==
  IF topology.nodes = <<>> THEN Found("invalid_start_node", {"(none)"})
  ELSE IF Head(topology.nodes).id # 0
       THEN Found("invalid_start_node", {Head(topology.nodes).name})
       ELSE {}

HaltNames == {n.name : n \in {m \in Nodes : m.halt}}

HaltViolations ==
  Found("no_halt_node", IF HaltNames = {} THEN {"(topology)"} ELSE {})
  \cup Found("halt_node_has_successors", {t.from : t \in Edges} \cap HaltNames)

Default(x, d)  == IF x = Unset THEN d ELSE x
Confidence(t)  == Default(t.confidence, t.weight)
Safety(t)      == Default(t.safety, t.weight)
Cost(t)        == Default(t.cost, 100 - t.weight)

(* Wrong: a confidence of zero is a weight like any other.                 *)
WeightsInRange ==
  Found("weight_out_of_domain",
        {t.from : t \in {u \in Edges : \/ ~(Confidence(u) \in 0 .. 100)
                                       \/ ~(Safety(u) \in 0 .. 100)
                                       \/ Cost(u) < 0}})

WeightViolations ==
  Found("weight_out_of_domain",
        {t.from : t \in {u \in Edges : \/ ~(Confidence(u) \in 0 .. 100)
                                       \/ ~(Safety(u) \in 0 .. 100)
                                       \/ Cost(u) < 0}})
  \cup Found("zero_confidence_edge", {t.from : t \in {u \in Edges : Confidence(u) = 0}})

TieKey(t) == <<t.from, t.weight, Safety(t), Cost(t), t.to>>

EdgeViolations ==
  Found("duplicate_edge", {e[1] : e \in Repeated(Ends)})
  \cup Found("indeterminate_ordering",
             {k[1] : k \in Repeated([i \in DOMAIN topology.transitions |->
                                       TieKey(topology.transitions[i])])})

CheckPhase1 ==
  /\ pc = "phase1"
  /\ violations' = violations \cup IdentityViolations \cup StartViolations
       \cup HaltViolations \cup WeightViolations \cup EdgeViolations
  /\ pc' = "graph"
  /\ UNCHANGED <<topology, dom, todo, changed, search>>

-------------------------------------------------------------------------------
(* The structural checks.                                                  *)

(* Transitions between unknown names are not in the adjacency lists.       *)
BuildGraph ==
  /\ pc = "graph"
  /\ LET known == Only(topology.transitions,
                       {i \in DOMAIN topology.transitions : Known(topology.transitions[i])})
     IN  arcs' = [i \in DOMAIN known |-> <<IdOf(known[i].from), IdOf(known[i].to)>>]
  /\ pc' = "structural"
  /\ UNCHANGED <<topology, violations, dom, todo, changed, stack, visited, finish, sccs>>

InCount(v)  == Cardinality({i \in DOMAIN arcs : arcs[i][2] = v})
OutCount(v) == Cardinality({i \in DOMAIN arcs : arcs[i][1] = v})

(* The first node with an id says whether it is reentrant.                 *)
IsReentrant(id) ==
  \E i \in DOMAIN topology.nodes :
    /\ topology.nodes[i].id = id
    /\ \A j \in 1 .. i - 1 : topology.nodes[j].id # id
    /\ topology.nodes[i].reentrant

ConsumedBlockPoints ==
  {v \in Reachable \ Halts : ~IsReentrant(v) /\ OutCount(v) = 1 /\ InCount(v) >= 2}

CanReachHalt == Reached(Halts, Reversed(ArcSet))

Paged == UNION {p.nodes : p \in Range(topology.pages)}

UnknownEndpoints == ({t.from : t \in Edges} \cup {t.to : t \in Edges}) \ Names

CheckStructural ==
  /\ pc = "structural"
  /\ violations' = violations
       \cup Found("unknown_endpoint", UnknownEndpoints)
       \cup Found("dead_end", {NameOf(v) : v \in {u \in Reachable \ Halts : OutCount(u) = 0}})
       \cup Found("unreachable", {n \in Paged \cap Names : IdOf(n) \notin Reachable})
       \cup Found("cannot_reach_halt", {NameOf(v) : v \in Reachable \ CanReachHalt})
       \cup Found("consumed_block_point", {NameOf(v) : v \in ConsumedBlockPoints})
  /\ IF topology.nodes = <<>>
     THEN pc' = "load" /\ UNCHANGED <<dom, todo, changed>>
     ELSE /\ pc' = "gates"
          /\ dom' = [v \in Ids \cup {0} |-> IF v = 0 THEN {0} ELSE Ids]
          /\ todo' = Ids \ {0}
          /\ changed' = FALSE
  /\ UNCHANGED <<topology, search>>

-------------------------------------------------------------------------------
(* compute_dominators, over all nodes for the gates and over the part of   *)
(* the graph between two events for the cutset.  A round visits each node  *)
(* once, for the cutset in the order of a hash set: any order, here.       *)

Between ==
  Reached({IdOf(ExecuteFinished)}, ArcSet) \cap Reached({IdOf(Commit)}, Reversed(ArcSet))

(* Wrong: the part between the events is entered at the start node.        *)
EntryStart == 0

Entry == IF pc = "gates" THEN 0 ELSE IdOf(ExecuteFinished)

NewDominators(v) ==
  LET preds == Predecessors(v) \cap DOMAIN dom
  IN  IF preds = {} THEN dom[v]
      ELSE {v} \cup {d \in UNION {dom[p] : p \in preds} : \A p \in preds : d \in dom[p]}

VisitForDominators ==
  /\ pc \in {"gates", "cutset"}
  /\ \E v \in todo :
       /\ dom' = [dom EXCEPT ![v] = NewDominators(v)]
       /\ changed' = (changed \/ NewDominators(v) # dom[v])
       /\ todo' = todo \ {v}
  /\ UNCHANGED <<topology, pc, violations, search>>

(* Wrong: rounds go on when nothing has changed.                           *)
NextRoundAlways ==
  /\ pc \in {"gates", "cutset"}
  /\ todo = {}
  /\ todo' = DOMAIN dom \ {Entry}
  /\ changed' = FALSE
  /\ UNCHANGED <<topology, pc, violations, dom, search>>

NextRound ==
  /\ pc \in {"gates", "cutset"}
  /\ todo = {}
  /\ changed
  /\ todo' = DOMAIN dom \ {Entry}
  /\ changed' = FALSE
  /\ UNCHANGED <<topology, pc, violations, dom, search>>

(* Wrong: the sets are read after one round.                               *)
OneRound == todo = {}

Settled == todo = {} /\ ~changed

UndominatedPairs ==
  {g \in RequiredGates :
     /\ {g[1], g[2]} \subseteq Names
     /\ IdOf(g[2]) \in Reachable
     /\ IdOf(g[1]) \notin dom[IdOf(g[2])]}

(* Without a path between the two events there is no cutset to check.      *)
HasReceiptChain ==
  /\ {ExecuteFinished, Commit} \subseteq Names
  /\ IdOf(Commit) \in Reached({IdOf(ExecuteFinished)}, ArcSet)

JudgeGates ==
  /\ pc = "gates"
  /\ Settled
  /\ violations' = violations \cup Found("dominance_violation", {g[2] : g \in UndominatedPairs})
  /\ IF HasReceiptChain
     THEN /\ pc' = "cutset"
          /\ dom' = [v \in Between |->
                       IF v = IdOf(ExecuteFinished) THEN {v} ELSE Between]
          /\ todo' = Between \ {IdOf(ExecuteFinished)}
     ELSE pc' = "finish" /\ UNCHANGED <<dom, todo>>
  /\ UNCHANGED <<topology, changed, search>>

JudgeCutset ==
  /\ pc = "cutset"
  /\ Settled
  /\ violations' = violations
       \cup Found("receipt_cutset_violation",
                  {m \in Cutset \cap Names : \/ IdOf(m) \notin Between
                                             \/ IdOf(m) \notin dom[IdOf(Commit)]})
  /\ pc' = "finish"
  /\ UNCHANGED <<topology, dom, todo, changed, search>>

-------------------------------------------------------------------------------
(* kosaraju_sccs: a search along the arcs that notes when each node is     *)
(* finished, and one against them from the last finished.  Where the code  *)
(* takes neighbours in list order the model takes any.                     *)

Open(S) == /\ stack = <<>>
           /\ \E v \in S : stack' = <<v>> /\ visited' = visited \cup {v}

DfsRoot ==
  /\ pc = "finish"
  /\ Ids \ visited # {}
  /\ Open(Ids \ visited)
  /\ UNCHANGED <<topology, pc, violations, arcs, dom, todo, changed, finish, sccs>>

(* dfs_finish descends before it finishes a node.                          *)
DfsDescend ==
  /\ pc = "finish"
  /\ stack # <<>>
  /\ \E w \in Successors(Last(stack)) \ visited :
       /\ stack' = Append(stack, w)
       /\ visited' = visited \cup {w}
  /\ UNCHANGED <<topology, pc, violations, arcs, dom, todo, changed, finish, sccs>>

(* Wrong: a node counts as finished when it is first seen.                 *)
FinishedOrderEarly(v) == <<v>> \o finish

FinishedOrder(v) == Append(finish, v)

DfsFinish ==
  /\ pc = "finish"
  /\ stack # <<>>
  /\ Successors(Last(stack)) \subseteq visited
  /\ finish' = FinishedOrder(Last(stack))
  /\ stack' = Front(stack)
  /\ UNCHANGED <<topology, pc, violations, arcs, dom, todo, changed, visited, sccs>>

StartCollecting ==
  /\ pc = "finish"
  /\ stack = <<>>
  /\ Ids \subseteq visited
  /\ pc' = "collect"
  /\ visited' = {}
  /\ UNCHANGED <<topology, violations, arcs, dom, todo, changed, stack, finish, sccs>>

LastUnvisited(v) ==
  \E i \in DOMAIN finish :
    /\ finish[i] = v
    /\ \A j \in DOMAIN finish : j > i => finish[j] \in visited

CollectRoot ==
  /\ pc = "collect"
  /\ \E v \in Ids \ visited : LastUnvisited(v)
  /\ Open({v \in Ids \ visited : LastUnvisited(v)})
  /\ sccs' = Append(sccs, {})
  /\ UNCHANGED <<topology, pc, violations, arcs, dom, todo, changed, finish>>

(* dfs_collect takes a node and pushes every neighbour not yet seen.       *)
CollectPop ==
  /\ pc = "collect"
  /\ stack # <<>>
  /\ LET v     == Last(stack)
         fresh == Predecessors(v) \ visited
     IN  /\ sccs' = [sccs EXCEPT ![Len(sccs)] = @ \cup {v}]
         /\ stack' = Front(stack) \o SetToSeq(fresh)
         /\ visited' = visited \cup fresh
  /\ UNCHANGED <<topology, pc, violations, arcs, dom, todo, changed, finish>>

EdgeCost(s, d) ==
  Cost(topology.transitions[Max({i \in DOMAIN topology.transitions :
    LET t == topology.transitions[i]
    IN  Known(t) /\ IdOf(t.from) = s /\ IdOf(t.to) = d})])

Inner(C) == {a \in ArcSet : a[1] \in C /\ a[2] \in C}

(* Components with a cycle that start reaches and that do not halt.        *)
Loops ==
  {C \in Range(sccs) : Inner(C) # {} /\ C \cap Reachable # {} /\ C \cap Halts = {}}

(* Wrong: leaving the component is judged by its own arcs.                 *)
NoExitInner(C) == Inner(C) # {}

NoExit(C) == {a \in ArcSet : a[1] \in C} = Inner(C)

AllFree(C) == \A a \in Inner(C) : EdgeCost(a[1], a[2]) = 0

Collective(kind, S) == {[kind |-> kind, nodes |-> {NameOf(v) : v \in C}] : C \in S}

JudgeCycles ==
  /\ pc = "collect"
  /\ stack = <<>>
  /\ Ids \subseteq visited
  /\ violations' = violations
       \cup Collective("unsafe_scc", {C \in Loops : NoExit(C)})
       \cup Collective("zero_cost_cycle", {C \in Loops : AllFree(C)})
  /\ pc' = "load"
  /\ UNCHANGED <<topology, dom, todo, changed, search>>

-------------------------------------------------------------------------------
(* Loading what the checker let through.                                   *)

Fatal == {v \in violations : v.kind # "consumed_block_point"}

PageNames == [i \in DOMAIN topology.pages |-> topology.pages[i].name]

(* build_registry and validate_pages.                                      *)
RegistryAccepts ==
  /\ topology.nodes # <<>>
  /\ IsInjective(NodeNames)
  /\ IsInjective(NodeIds)
  /\ 0 .. Len(topology.nodes) - 1 \subseteq Ids
  /\ \A t \in Edges : Known(t)
  /\ IsInjective(PageNames)
  /\ Paged \subseteq Names

Compiles == RegistryAccepts /\ IsInjective(Ends)

Load ==
  /\ pc = "load"
  /\ pc' = IF Fatal = {} /\ Compiles /\ Len(topology.nodes) <= Capacity
           THEN "operators" ELSE "refused"
  /\ UNCHANGED <<topology, violations, dom, todo, changed, search>>

(* Phase 2.  Only a missing operator keeps the runtime from starting.      *)
NeedOperator ==
  {n.name : n \in {m \in Nodes : m.type \in {"State", "Control"} /\ ~m.halt}}

CheckOperators ==
  /\ pc = "operators"
  /\ violations' = violations
       \cup Found("missing_operator", NeedOperator \ Bound)
       \cup Found("unknown_action_semantics", (NeedOperator \cap Bound) \ Speaking)
  /\ pc' = IF NeedOperator \subseteq Bound THEN "accepted" ELSE "refused"
  /\ UNCHANGED <<topology, dom, todo, changed, search>>

-------------------------------------------------------------------------------

Init ==
  /\ topology \in Topologies
  /\ pc = "phase1"
  /\ violations = {}
  /\ arcs = <<>>
  /\ dom = <<>>
  /\ todo = {}
  /\ changed = FALSE
  /\ stack = <<>>
  /\ visited = {}
  /\ finish = <<>>
  /\ sccs = <<>>

Next ==
  \/ CheckPhase1
  \/ BuildGraph
  \/ CheckStructural
  \/ VisitForDominators
  \/ NextRound
  \/ JudgeGates
  \/ JudgeCutset
  \/ DfsRoot
  \/ DfsDescend
  \/ DfsFinish
  \/ StartCollecting
  \/ CollectRoot
  \/ CollectPop
  \/ JudgeCycles
  \/ Load
  \/ CheckOperators

(* The checker is one call: it takes every step it can.                    *)
Spec == Init /\ [][Next]_vars /\ WF_vars(Next)

-------------------------------------------------------------------------------
(* Properties.                                                             *)

Stages == {"phase1", "graph", "structural", "gates", "cutset", "finish", "collect", "load",
           "operators", "accepted", "refused"}

(* Every variable keeps to its set, and no node is searched twice at once. *)
TypeOK ==
  /\ topology \in Topologies
  /\ pc \in Stages
  /\ \A v \in violations :
       v.nodes \subseteq Names \cup UnknownEndpoints \cup {"?", "(none)", "(topology)"}
  /\ todo \subseteq Ids
  /\ \A v \in DOMAIN dom : v \in Ids \cup {0} /\ dom[v] \subseteq Ids \cup {0}
  /\ visited \subseteq Ids
  /\ Range(stack) \subseteq visited
  /\ IsInjective(stack)
  /\ Range(finish) \subseteq Ids
  /\ UNION Range(sccs) \subseteq Ids

AfterGates  == pc \notin {"phase1", "graph", "structural", "gates"}
AfterCutset == AfterGates /\ pc # "cutset"

Avoiding(v) == {a \in ArcSet : v \notin {a[1], a[2]}}

(* What a path from a can reach without passing through v.                 *)
ReachedAvoiding(a, v) == IF a = v THEN {} ELSE Reached({a}, Avoiding(v))

(* The gate check is exact: a protected node is reported if and only if    *)
(* some path from the start reaches it past one of its gates.              *)
DominanceExact ==
  AfterGates /\ topology.nodes # <<>> =>
    \A n \in Names :
      [kind |-> "dominance_violation", nodes |-> {n}] \in violations
      <=> \E g \in RequiredGates :
            /\ g[2] = n
            /\ g[1] \in Names
            /\ IdOf(n) \in ReachedAvoiding(0, IdOf(g[1]))

(* The cutset check is exact: a member is reported if and only if some     *)
(* execution reaches the commit after the event without the member.        *)
CutsetExact ==
  AfterCutset /\ HasReceiptChain =>
    \A m \in Cutset \cap Names :
      [kind |-> "receipt_cutset_violation", nodes |-> {m}] \in violations
      <=> IdOf(Commit) \in ReachedAvoiding(IdOf(ExecuteFinished), IdOf(m))

Mutual(u, v) == v \in Reached({u}, ArcSet) /\ u \in Reached({v}, ArcSet)

(* Both searches done, the components are the classes of nodes that reach  *)
(* each other: none is split, none merged, none left out.                  *)
ComponentsExact ==
  pc = "collect" /\ stack = <<>> /\ Ids \subseteq visited =>
    /\ Range(sccs) = {{v \in Ids : Mutual(u, v)} : u \in Ids}
    /\ IsInjective(sccs)

(* A component the exit check finds unsafe is one whose every node the     *)
(* path-to-halt check has found already.                                   *)
TrapsCannotHalt ==
  \A v \in violations :
    v.kind = "unsafe_scc" =>
      \A n \in v.nodes : [kind |-> "cannot_reach_halt", nodes |-> {n}] \in violations

(* The compiler is no laxer than the checker: what it takes has no         *)
(* violation of identity, endpoints or edge uniqueness.                    *)
CompiledIsIdentified ==
  Compiles /\ pc \notin {"phase1", "graph", "structural"} =>
    Kinds \cap {"duplicate_node_name", "duplicate_node_id", "index_mapping_broken",
                "unknown_endpoint", "duplicate_edge", "indeterminate_ordering"} = {}

(* A topology the runtime accepts lets every run of control end, and lets  *)
(* none slip by a gate, along the edges control takes, those of confidence *)
(* above zero: wherever the start leads there is a way on to a halt node,  *)
(* and no way leads to a protected node around a gate of its own.          *)
AcceptedCanHalt ==
  pc = "accepted" =>
    LET positive  == {<<IdOf(t.from), IdOf(t.to)>> : t \in {u \in Edges : Confidence(u) > 0}}
        around(v) == {a \in positive : v \notin {a[1], a[2]}}
    IN  /\ \A v \in Reached({0}, positive) : Reached({v}, positive) \cap Halts # {}
        /\ \A g \in RequiredGates :
             {g[1], g[2]} \subseteq Names /\ IdOf(g[1]) # 0
             => IdOf(g[2]) \notin Reached({0}, around(IdOf(g[1])))

(* Rounds end: the check comes to a verdict.                               *)
Terminates == <>(pc \in {"accepted", "refused"})

(* What check.rs:146 says of the check for free cycles: it reports a       *)
(* reachable component that contains a cycle of cost zero.                 *)
FreeCyclesReported ==
  pc \in {"load", "operators", "accepted"} =>
    \A C \in Loops :
      LET free == {a \in Inner(C) : EdgeCost(a[1], a[2]) = 0}
      IN  (\E a \in free : a[1] \in Reached({a[2]}, free))
          => [kind |-> "zero_cost_cycle", nodes |-> {NameOf(v) : v \in C}] \in violations

(* The types and searches, the compiler beside the checker, and the exit   *)
(* check beside the path-to-halt check.                                    *)
Inv == TypeOK /\ CompiledIsIdentified /\ TrapsCannotHalt

===============================================================================

---------------------------- MODULE MCTopologyCheck ----------------------------
(***************************************************************************)
(* Instances of TopologyCheck for TLC.  Five nodes: 0 starts, 1 is the     *)
(* event that execution has finished, 2 the gate, 3 the commit, 4 halts.   *)
(***************************************************************************)
EXTENDS TopologyCheck

Name == <<"start", "finished", "gate", "commit", "halt">>
Type == <<"Event", "Event", "State", "Control", "Control">>

Node(id, name, type) ==
  [id |-> id, name |-> name, type |-> type, halt |-> name = "halt", reentrant |-> name = "gate"]
MCNodes == [i \in 1 .. 5 |-> Node(i - 1, Name[i], Type[i])]

Edge(from, to, cost) ==
  [from |-> from, to |-> to, weight |-> 0, confidence |-> 90, safety |-> 90, cost |-> cost]

Graph(nodes, edges) ==
  [nodes |-> nodes, transitions |-> edges,
   pages |-> <<[name |-> "main", nodes |-> {"start", "gate"}]>>]

(* Every choice of these edges: bypasses, cycles, traps and free cycles.   *)
Pool ==
  <<Edge("start", "finished", 10), Edge("start", "commit", 10),
    Edge("finished", "gate", 0), Edge("finished", "commit", 10),
    Edge("gate", "finished", 0), Edge("gate", "commit", 10),
    Edge("commit", "finished", 10), Edge("commit", "halt", 10),
    Edge("finished", "finished", 10)>>
Chosen(S) == SelectSeq(Pool, LAMBDA e : e \in S)
Graphs == {Graph(MCNodes, Chosen(S)) : S \in SUBSET Range(Pool)}

(* One thing wrong at a time in a graph that is otherwise accepted.        *)
Line == <<Edge("start", "finished", 10), Edge("finished", "gate", 0),
          Edge("gate", "commit", 10), Edge("commit", "halt", 10)>>
Bent(e) == Graph(MCNodes, Append(Line, e))
Malformed ==
  {Graph(<<>>, <<>>),
   Graph([MCNodes EXCEPT ![3].name = "commit"], Line),
   Graph([MCNodes EXCEPT ![3].id = 3], Line),
   Graph([MCNodes EXCEPT ![1].id = 7], Line),
   Graph([MCNodes EXCEPT ![3].id = 5], Line),
   Graph([MCNodes EXCEPT ![5].halt = FALSE], Line),
   Graph([MCNodes EXCEPT ![2].type = "State"], Line),
   Graph([MCNodes EXCEPT ![2].type = "Control"], Line),
   Graph(Append(MCNodes, Node(5, "spare", "Event")), Line),
   Graph(Append(MCNodes, Node(5, "gate", "State")), Line),
   Graph(MCNodes, [Line EXCEPT ![3].confidence = 0]),
   Bent(Edge("halt", "gate", 10)),
   Bent(Edge("start", "finished", 10)),
   Bent(Edge("start", "finished", 20)),
   Bent(Edge("gate", "nowhere", 10)),
   Bent(Edge("nowhere", "gate", 10)),
   Bent(Edge("finished", "finished", 0)),
   Bent([Edge("gate", "halt", -1) EXCEPT !.safety = 101]),
   Bent([Edge("gate", "halt", Unset) EXCEPT !.confidence = 0]),
   Bent([Edge("gate", "halt", Unset) EXCEPT !.confidence = Unset, !.weight = 50]),
   [Graph(MCNodes, Line) EXCEPT !.pages = Append(@, [name |-> "main", nodes |-> {}])],
   [Graph(MCNodes, Line) EXCEPT !.pages = Append(@, [name |-> "more", nodes |-> {"lost"}])]}

MCTopologies == Graphs \cup Malformed

(* A free cycle inside a component that also has an edge of some cost.     *)
MixedCycle ==
  {Graph(MCNodes, <<Edge("start", "finished", 10), Edge("finished", "gate", 0),
                    Edge("gate", "finished", 0), Edge("gate", "commit", 10),
                    Edge("commit", "finished", 10), Edge("commit", "halt", 10)>>)}

MCRequired == {<<"gate", "commit">>, <<"start", "gate">>, <<"finished", "gate">>}
MCCutset   == {"gate", "finished"}
MCBound    == {"start", "gate", "commit", "halt"}
MCSpeaking == {"gate", "commit"}
===============================================================================

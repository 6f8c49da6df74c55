-------------------------------- MODULE MCBuild --------------------------------
(***************************************************************************)
(* Instances of Build for TLC: a, b and c are operators of which a and b   *)
(* conflict over a slot, c and k over a lock; k, l and m are kernels that  *)
(* pass a slot on, and n is a marker.                                      *)
(***************************************************************************)
EXTENDS Build

Effects(reads, writes, locks) == [reads |-> reads, writes |-> writes, locks |-> locks]

Contract(reads, writes, locks, executable) ==
  [reads |-> reads, writes |-> writes, locks |-> locks, executable |-> executable]

MCOperators ==
  [name \in {"a", "b", "c", "k", "l", "m", "n"} |->
     CASE name = "a" -> Contract({}, {"x"}, {}, "python")
       [] name = "b" -> Contract({"x"}, {}, {}, "true")
       [] name = "c" -> Contract({}, {}, {"g"}, "python")
       [] name = "k" -> Contract({}, {"u"}, {"g"}, "jit_cuda")
       [] name = "l" -> Contract({"u"}, {"v"}, {}, "jit_cuda")
       [] name = "m" -> Contract({"v"}, {"w"}, {}, "jit_cuda")
       [] name = "n" -> Contract({"s"}, {"o"}, {}, "noop")]
MCSymbolic == {"s"}
MCObserved == {"o"}
MCOperatorNodes == {"k", "e"}
MCAgentNodes == {"b", "f"}

Declare(name, kind, backend, effects) ==
  [name |-> name, kind |-> kind, backend |-> backend, governed |-> FALSE,
   reads |-> effects.reads, writes |-> effects.writes, locks |-> effects.locks]

\* What k declares leaves out the lock of its contract, what l declares adds x.
MCDeclared ==
  <<Declare("m", "kernel", "cuda", Effects({"v"}, {"w"}, {})),
    Declare("a", "host_node", "python", Effects({}, {}, {})),
    Declare("k", "kernel", "cuda", Effects({}, {"u"}, {})),
    Declare("b", "host_node", "none", Effects({}, {}, {})),
    Declare("l", "kernel", "cuda", Effects({"u", "x"}, {"v"}, {})),
    Declare("n", "event_node", "noop", Effects({}, {}, {}))>>
\* c comes from the source, or from an overlay.
C == Declare("c", "host_node", "python", Effects({}, {}, {"g"}))

\* No operator has z.
MCSlots == [slot \in {"x", "u", "v", "w", "z", "j"} |-> IF slot = "j" THEN "state" ELSE "tensor"]

Layer(name, join, compose, bottom, unit) ==
  [name |-> name, join |-> join, compose |-> compose, bottom |-> bottom, unit |-> unit]
MCLayers == <<Layer("confidence", "max", "times", 0, 4), Layer("cost", "min", "plus", 9, 0),
              Layer("safety", "max", "min", 0, 4)>>
MCWeight == [confidence |-> 2, cost |-> 5, safety |-> 3]

MCStaticHandlers == [chain \in {<<"k", "l">>} |-> 2]

Atoms  == {Name(n) : n \in {"a", "b", "skip", "blocked"}}
Simple == Atoms
  \cup {Combine(op, <<x, y>>) : op \in {"seq", "choice", "par"}, x \in Atoms, y \in Atoms}
  \cup {Star(x, n) : x \in Atoms, n \in 0 .. 2}
Deep == Simple
  \cup {Combine("seq", <<Name("c"), x, Name("m")>>) : x \in Simple}
  \cup {Star(Combine("seq", <<Name("c"), x>>), 2) : x \in Simple}
  \cup {Combine("par", <<x, Name("c"), y>>) : x \in Atoms, y \in Atoms \cup {Name("k"), Name("l")}}
  \cup {Combine(op, <<Name("m"), x>>) : op \in {"choice", "par"}, x \in Simple}
  \cup {Combine("par", <<>>), Combine("seq", <<>>), Name("unknown")}

Chain(names) == Combine("seq", [i \in DOMAIN names |-> Name(names[i])])

Flow(e)    == [kind |-> "flow", expr |-> e, weight |-> MCWeight]
Pattern(e) == [kind |-> "cka_pattern", expr |-> e, weight |-> MCWeight]

Overlay(nodes, trans) == [nodes |-> nodes, transitions |-> trans, markers |-> {}]
NoOverlay == Overlay(<<>>, <<>>)

Source(trans, fallback, programs) ==
  [declared |-> Append(MCDeclared, C), slots |-> MCSlots, resources |-> {"g"}, layers |-> MCLayers,
   overlay |-> NoOverlay, transitions |-> trans, fallback |-> fallback, programs |-> programs]

(* The source that the others are changes of.                              *)
Plainly == Source(<<>>, {}, <<Flow(Chain(<<"k", "l", "m">>)), Pattern(Chain(<<"a", "b">>))>>)

Redeclared(i, d) == [Plainly EXCEPT !.declared[i] = d]

(* Fewer nodes, c from an overlay with the static chain, a duplicate       *)
(* transition, a chain with two outputs, which has no handler.             *)
MCEdits ==
  { [Plainly EXCEPT !.declared = MCDeclared,
                    !.transitions = <<<<"k", "l">>, <<"k", "m">>>>, !.programs = <<Flow(Name("a"))>>],
    [Plainly EXCEPT !.declared = MCDeclared, !.programs = <<Flow(Chain(<<"k", "l">>))>>,
                    !.overlay = Overlay(<<"c">>, <<<<"a", "c">>>>)],
    [Plainly EXCEPT !.transitions = <<<<"a", "c">>, <<"a", "c">>>>],
    [Plainly EXCEPT !.programs = <<Flow(Chain(<<"m", "k">>))>>] }

(* What each of these changes is for a check to find.                      *)
Flawed ==
  { \* nodes: from the source and an overlay, an unknown end, an operator without a contract
    [Plainly EXCEPT !.overlay = Overlay(<<"c">>, <<>>)],
    [Plainly EXCEPT !.declared = MCDeclared, !.transitions = <<<<"a", "c">>>>],
    [Plainly EXCEPT !.overlay = Overlay(<<"e">>, <<>>)],
    \* declarations: a duplicate, a backend, a slot, a lock, a boundary, a kernel
    Redeclared(2, C),
    Redeclared(2, [MCDeclared[2] EXCEPT !.backend = "fpga"]),
    Redeclared(1, [MCDeclared[1] EXCEPT !.reads = {"v", "y"}]),
    Redeclared(2, [MCDeclared[2] EXCEPT !.locks = {"h"}]),
    Redeclared(2, [MCDeclared[2] EXCEPT !.kind = "boundary_node"]),
    Redeclared(2, [MCDeclared[2] EXCEPT !.kind = "boundary_node", !.governed = TRUE]),
    Redeclared(5, [MCDeclared[5] EXCEPT !.reads = {"u", "j"}]),
    \* layers and weights
    [Plainly EXCEPT !.layers[1].unit = 2], [Plainly EXCEPT !.layers[2].bottom = 0],
    [Plainly EXCEPT !.programs[1].weight.safety = 5],
    [Plainly EXCEPT !.programs[1].weight = [confidence |-> 1]],
    [Plainly EXCEPT !.programs[1].weight = [confidence |-> 1],
                    !.layers = <<Layer("confidence", "max", "times", 0, 4)>>],
    [Plainly EXCEPT !.programs[2].weight = [confidence |-> 1]] }

(* What each of these changes is found at the start alone: a kernel's slot *)
(* and an agent's node that no operator has, the latter from an overlay.   *)
Late ==
  { Redeclared(1, [MCDeclared[1] EXCEPT !.reads = {"v", "z"}]),
    [Plainly EXCEPT !.overlay = [Overlay(<<"f">>, <<>>) EXCEPT !.markers = {"f"}]] }

MCSources ==
  {Source(<<>>, {}, <<Flow(e), Flow(Chain(<<"k", "l", "m">>))>>) : e \in Deep}
  \cup {Source(<<>>, {}, <<Flow(e), Pattern(Star(Chain(<<"m", "k">>), 2))>>) : e \in Simple}
  \cup {Source(<<<<"k", "l">>, <<"l", "m">>, p>>, {p}, <<Pattern(e)>>) :
          e \in Simple, p \in {<<"m", "k">>, <<"k", "m">>, <<"k", "l">>}}
  \cup Flawed \cup Late
===============================================================================

--------------------------------- MODULE Build ---------------------------------
(***************************************************************************)
(* "topology build-overlay" (src/app/cli.rs): build_overlay_assets          *)
(* (crates/topology_core/src/overlay.rs) validates topology.source.json,   *)
(* merges the overlays into it, compiles its programs and writes the       *)
(* generated assets; compile_and_emit_pattern_edges (src/pattern.rs)       *)
(* compiles the patterns from them.  A build may fail or be interrupted    *)
(* between any two files, or in the middle of one, and the source may be   *)
(* edited between builds; the runtime starts from the files it finds.      *)
(*                                                                         *)
(* The math layer is left out: Operators are the contracts it and the      *)
(* overlays leave.                                                         *)
(***************************************************************************)
EXTENDS Programs, ControlLowering, Fusion, SourceChecks

CONSTANTS
  Sources,         \* what topology.source.json and the overlays may say at first
  Edits,           \* what they may be changed to
  Operators,       \* operators.json: node -> [reads, writes, locks, executable]
  OperatorNodes,   \* names of nodes that are of type Execution, or act
  AgentNodes,      \* names of nodes of type State or Control, but for halts
  Symbolic,        \* slots named "*.symbolic"
  Observed,        \* slots named "*.observed"
  StaticHandlers,  \* chains with a handler in the CUDA source: chain -> its number
  FirstGenerated,  \* the first number of a generated handler (8)
  MaxBuilds,       \* bound: builds
  Absent, Torn     \* a file that is not there, and one cut short

ASSUME BuildAssumption ==
  /\ MaxBuilds \in Nat
  /\ FirstGenerated \in Nat
  /\ \A c \in DOMAIN StaticHandlers : StaticHandlers[c] \in 0 .. FirstGenerated - 1
  /\ IsInjective(StaticHandlers)

Declared == [name : STRING, kind : STRING, backend : STRING, governed : BOOLEAN,
             reads : SUBSET STRING, writes : SUBSET STRING, locks : SUBSET STRING]

(* What the documents can say; nothing that the validators are asked for.  *)
ASSUME SourceAssumption ==
  \A s \in Sources \cup Edits :
    /\ s.declared \in Seq(Declared)
    /\ s.overlay.nodes \in Seq(STRING)
    /\ s.overlay.markers \subseteq Range(s.overlay.nodes)
    /\ s.transitions \in Seq(STRING \X STRING)
    /\ s.overlay.transitions \in Seq(STRING \X STRING)
    /\ s.programs \in Seq(Range(s.programs))
    /\ \A p \in Range(s.programs) : p.expr \in Expr

TopologyFile == [nodes       : SUBSET STRING,
                 transitions : SUBSET (STRING \X STRING),
                 groups      : SUBSET SUBSET STRING]
FusionFile   == [regions : SUBSET [nodes  : Seq(STRING),
                                   reads  : SUBSET STRING,
                                   writes : SUBSET STRING,
                                   locks  : SUBSET STRING]]
CompiledFile == [edges : SUBSET (STRING \X STRING)]
HotFile      == [regions : Seq([name : STRING, reads : SUBSET STRING, writes : SUBSET STRING])]
AbstractFile == [nodes : SUBSET STRING]
HandlersFile == [handlers : SUBSET (Seq(STRING) \X Nat)]

(* No file that was written looks like one that is not there or cut short. *)
ASSUME FileAssumption ==
  \A file \in {Absent, Torn} :
    /\ file \notin TopologyFile \cup FusionFile \cup CompiledFile
    /\ file \notin HotFile \cup AbstractFile \cup HandlersFile
    /\ file # Operators

VARIABLES
  source,      \* [declared, slots, resources, layers, overlay, transitions, fallback, programs]
  stage,       \* the file the build is at, "idle" when there is no build
  at,          \* the program it compiles next
  transitions, \* the transitions so far
  groups,      \* the parallel groups so far
  files,       \* the generated assets
  built,       \* the last build was of this source, and succeeded
  builds       \* number of builds

vars == <<source, stage, at, transitions, groups, files, built, builds>>

\* patterns.source.json, regions.hot.json, abstract_device.generated.json,
\* fusion_hf.generated.json, fusion_hf.stubs.cu, topology.generated.json,
\* operators.generated.json, topology.fusion.json, patterns.compiled.json
File == {"patterns", "regions", "abstract", "coverage", "handlers",
         "topology", "operators", "fusion", "compiled"}

(* build_effects_map: a node's declaration overrides its operator's, unless *)
(* it declares nothing.                                                    *)
EffectsMap ==
  LET declared == {d \in Declarations(source) : d.reads \cup d.writes \cup d.locks # {}}
  IN  [n \in DOMAIN Operators \cup {d.name : d \in declared} |->
         IF n \in {d.name : d \in declared} THEN EffectsOf(Declaration(source, n)) ELSE Operators[n]]

(* emit_patterns_compat: a program without all three weights is dropped.   *)
Exprs(s) ==
  LET weighed == Only(s.programs, {i \in DOMAIN s.programs : HasWeight(s.programs[i])})
  IN  [i \in DOMAIN weighed |-> weighed[i].expr]

(* The nodes of the source and of the overlays.                            *)
Nodes == NodeNames(source) \cup Range(source.overlay.nodes)

(* reject_duplicate_node_names, after the overlays are merged.             *)
NodesDistinct == /\ IsInjective(source.overlay.nodes)
                 /\ NodeNames(source) \cap Range(source.overlay.nodes) = {}

Given == source.transitions \o source.overlay.transitions

KernelEffects ==
  [n \in DeclaredKernels(source) |-> EffectsOf(Declaration(source, n))]

(* In some order: the code's, by name, is as good as any.                  *)
Regions == SetToSeq(FusionRegions(KernelEffects, transitions \ source.fallback))

(* emit_hot_regions: their numbers are their places, and a last one is the *)
(* synthetic terminal.                                                     *)
HotRegions ==
  LET kernels == Only(source.declared, {i \in DOMAIN source.declared : IsKernel(source.declared[i])})
  IN  [regions |->
         [i \in DOMAIN kernels |->
            [name |-> kernels[i].name, reads |-> kernels[i].reads, writes |-> kernels[i].writes]]]

(* is_abstract_device_safe_node: a marker, of the source or of an overlay, *)
(* whose operator does nothing but observe.                                *)
IsMarker(d) == d.kind \in {"policy_node", "event_node"} \/ d.backend = "noop"

AbstractNodes ==
  LET Safe(n) == /\ Operators[n].executable \in {"true", "noop"}
                 /\ Operators[n].locks = {}
                 /\ Operators[n].reads \subseteq Symbolic
                 /\ Operators[n].writes \subseteq Observed
      Marker(n) == \/ n \in source.overlay.markers
                   \/ n \in NodeNames(source) /\ IsMarker(Declaration(source, n))
  IN  [nodes |-> {n \in Nodes \cap DOMAIN Operators : Marker(n) /\ Safe(n)}]

(* emit_fusion_hf_coverage: every region has the number of a handler.      *)
HandlerOf(regions, i) ==
  IF regions[i].nodes \in DOMAIN StaticHandlers THEN StaticHandlers[regions[i].nodes]
  ELSE FirstGenerated
       + Cardinality({j \in 1 .. i - 1 : regions[j].nodes \notin DOMAIN StaticHandlers})

Coverage(regions) ==
  [handlers |-> {<<regions[i].nodes, HandlerOf(regions, i)>> : i \in DOMAIN regions}]

Generated(regions) == {i \in DOMAIN regions : regions[i].nodes \notin DOMAIN StaticHandlers}

(* format_fusion_hf_handler: one slot written by the region and one by     *)
(* each of its operators, whose body must be there.                        *)
CanGenerate(region) ==
  /\ Cardinality(region.writes) = 1
  /\ \A n \in Range(region.nodes) : /\ n \in DOMAIN Operators
                                     /\ Operators[n].executable = "jit_cuda"
                                     /\ Cardinality(Operators[n].writes) = 1

(* emit_fusion_hf_stubs.                                                   *)
Handlers(regions) ==
  [handlers |->
     {<<regions[i].nodes,
        FirstGenerated + Cardinality({j \in Generated(regions) : j < i})>> : i \in Generated(regions)}]

-------------------------------------------------------------------------------

(* build_overlay_assets, up to the programs.                               *)
Begin ==
  /\ stage = "idle"
  /\ builds < MaxBuilds
  /\ builds' = builds + 1
  /\ built' = FALSE
  /\ \/ /\ SourceAccepted(source) /\ NodesDistinct
        /\ stage' = "programs"
        /\ at' = 1
        /\ transitions' = Range(Given)
        /\ groups' = {}
     \/ /\ ~(SourceAccepted(source) /\ NodesDistinct)
        /\ UNCHANGED <<stage, at, transitions, groups>>
  /\ UNCHANGED <<source, files>>

Abandon == stage' = "idle" /\ UNCHANGED <<at, transitions, groups, files>>

(* compile_source_programs, one program.                                   *)
CompileProgram ==
  /\ stage = "programs"
  /\ at <= Len(source.programs)
  /\ LET p == source.programs[at]
         good == HasWeight(p) /\ Accepted(p.expr, Nodes, EffectsMap)
     IN \/ /\ p.kind = "cka_pattern"
           /\ at' = at + 1
           /\ UNCHANGED <<stage, transitions, groups, files>>
        \/ /\ p.kind # "cka_pattern" /\ good
           /\ at' = at + 1
           /\ transitions' = transitions \cup Compiled[p.expr].edges
           /\ groups' = groups \cup Compiled[p.expr].groups
           /\ UNCHANGED <<stage, files>>
        \/ p.kind # "cka_pattern" /\ ~good /\ Abandon
  /\ UNCHANGED <<source, built, builds>>

Write(file, content, next) ==
  /\ files' = [files EXCEPT ![file] = content]
  /\ stage' = next
  /\ UNCHANGED <<source, at, transitions, groups, builds>>

(* All programs are emitted as patterns, before the checks that follow.    *)
EmitPatterns ==
  /\ stage = "programs"
  /\ at > Len(source.programs)
  /\ Write("patterns", Exprs(source), "checks")
  /\ UNCHANGED built

(* reject_duplicate_transitions, reject_unknown_transition_endpoints,      *)
(* reject_operator_nodes_without_contracts.                                *)
CheckTransitions ==
  LET good == /\ IsInjective(Given)
              /\ transitions \subseteq Nodes \X Nodes
              /\ Nodes \cap OperatorNodes \subseteq DOMAIN Operators
  IN  /\ stage = "checks"
      /\ \/ good /\ stage' = "regions" /\ UNCHANGED <<at, transitions, groups, files>>
         \/ ~good /\ Abandon
      /\ UNCHANGED <<source, built, builds>>

EmitHotRegions == stage = "regions" /\ Write("regions", HotRegions, "abstract") /\ UNCHANGED built

EmitAbstractCoverage ==
  stage = "abstract" /\ Write("abstract", AbstractNodes, "coverage") /\ UNCHANGED built

EmitHandlerCoverage ==
  stage = "coverage" /\ Write("coverage", Coverage(Regions), "handlers") /\ UNCHANGED built

EmitHandlers ==
  /\ stage = "handlers"
  /\ LET good == \A i \in Generated(Regions) : CanGenerate(Regions[i])
     IN \/ good /\ Write("handlers", Handlers(Regions), "topology") /\ UNCHANGED built
        \/ ~good /\ Abandon /\ UNCHANGED <<source, built, builds>>

WriteTopology ==
  /\ stage = "topology"
  /\ Write("topology", [nodes |-> Nodes, transitions |-> transitions, groups |-> groups], "operators")
  /\ UNCHANGED built

WriteOperators ==
  stage = "operators" /\ Write("operators", Operators, "fusion") /\ UNCHANGED built

WriteFusion ==
  /\ stage = "fusion"
  /\ \/ Regions # <<>> /\ Write("fusion", [regions |-> Range(Regions)], "compiled")
     \/ Regions = <<>> /\ Write("fusion", files["fusion"], "compiled")
  /\ UNCHANGED built

PatternsAccepted ==
  \A i \in DOMAIN files["patterns"] :
    Accepted(files["patterns"][i], files["topology"].nodes, files["operators"])

PatternEdges(patterns) == [edges |-> UNION {Compiled[e].edges : e \in Range(patterns)}]

(* Wrong: keeps the file that is there.                                    *)
CompilePatternsOnce ==
  /\ stage = "compiled"
  /\ \/ /\ PatternsAccepted
        /\ Write("compiled", IF files["compiled"] = Absent THEN PatternEdges(files["patterns"])
                             ELSE files["compiled"], "idle")
        /\ built' = TRUE
     \/ /\ ~PatternsAccepted
        /\ Abandon
        /\ UNCHANGED <<source, built, builds>>

(* compile_and_emit_pattern_edges reads back what was written.             *)
CompilePatterns ==
  /\ stage = "compiled"
  /\ \/ /\ PatternsAccepted
        /\ Write("compiled", PatternEdges(files["patterns"]), "idle")
        /\ built' = TRUE
     \/ /\ ~PatternsAccepted
        /\ Abandon
        /\ UNCHANGED <<source, built, builds>>

(* The process dies, or a write fails, and the file may be cut short.      *)
Interrupted ==
  /\ stage # "idle"
  /\ \/ Write("topology", files["topology"], "idle")
     \/ stage \in File /\ Write(stage, Torn, "idle")
     \/ stage = "programs" /\ at > Len(source.programs) /\ Write("patterns", Torn, "idle")
  /\ UNCHANGED built

Edit ==
  /\ stage = "idle"
  /\ source' \in Edits \ {source}
  /\ built' = FALSE
  /\ UNCHANGED <<stage, at, transitions, groups, files, builds>>

Init ==
  /\ source \in Sources
  /\ stage = "idle"
  /\ at = 1
  /\ transitions = {}
  /\ groups = {}
  /\ files = [f \in File |-> Absent]
  /\ built = FALSE
  /\ builds = 0

Next ==
  \/ Begin \/ CompileProgram \/ EmitPatterns \/ CheckTransitions
  \/ EmitHotRegions \/ EmitAbstractCoverage \/ EmitHandlerCoverage \/ EmitHandlers
  \/ WriteTopology \/ WriteOperators \/ WriteFusion \/ CompilePatterns
  \/ Interrupted \/ Edit

Spec == Init /\ [][Next]_vars

-------------------------------------------------------------------------------
(* Loading the files at the start (SystemConfig::default,                  *)
(* load_checked_default, build_runtime_epoch).  The program has a topology *)
(* and patterns of its own for files that are not there, but the fusion    *)
(* file it requires is written after both.  The structural checks of       *)
(* check.rs, which may refuse the topology, are those of TopologyCheck;    *)
(* the runtime policy, which no build writes, is taken to be there.        *)

Readable(file) == files[file] \notin {Absent, Torn}

(* build_declared_slots: what the operators read or write.                 *)
SlotsOf(operators) == UNION {operators[n].reads \cup operators[n].writes : n \in DOMAIN operators}

(* FusionHfCoverage::from_json_str: a number of a handler in the CUDA      *)
(* source is that of its chain.                                            *)
HandlersKnown(coverage) ==
  \A c \in coverage.handlers : c[2] < FirstGenerated =>
    c[1] \in DOMAIN StaticHandlers /\ StaticHandlers[c[1]] = c[2]

(* A hot region's slot that no operator has is fatal, as is an agent's     *)
(* node without an operator (MissingOperator, check.rs).  The handlers are *)
(* compiled with the kernels; what is optional may be absent, but not cut  *)
(* short.                                                                  *)
FilesLoad ==
  /\ \A file \in {"operators", "topology", "fusion", "regions"} : Readable(file)
  /\ \A hot \in Range(files["regions"].regions) : hot.reads \cup hot.writes \subseteq SlotsOf(files["operators"])
  /\ files["topology"].nodes \cap AgentNodes \subseteq DOMAIN files["operators"]
  /\ files["coverage"] # Torn /\ (Readable("coverage") => HandlersKnown(files["coverage"]))
  /\ files["abstract"] # Torn /\ files["handlers"] # Torn
  /\ \/ /\ Readable("compiled")
        /\ files["compiled"].edges \subseteq files["topology"].nodes \X files["topology"].nodes
     \/ /\ files["compiled"] = Absent
        /\ Readable("patterns")
        /\ PatternsAccepted

-------------------------------------------------------------------------------
(* Properties.                                                             *)

(* The state has its types, and the topology file no edge whose ends are   *)
(* not nodes of it.                                                        *)
TypeOK ==
  /\ stage \in {"idle", "programs", "checks"} \cup (File \ {"patterns"})
  /\ at \in Nat
  /\ groups \subseteq SUBSET Nodes \/ stage = "idle"
  /\ DOMAIN files = File
  /\ Readable("topology") =>
       files["topology"].transitions \subseteq files["topology"].nodes \X files["topology"].nodes
  /\ built \in BOOLEAN
  /\ builds \in 0 .. MaxBuilds

(* The edges are those the algebra gives the expressions: no other ones    *)
(* unless there is a zero, all of them when nothing can be skipped.        *)
Matches(edges, given, exprs) ==
  LET algebra == given \cup UNION {Followed(e) : e \in exprs}
  IN  /\ (\A e \in exprs : ZeroFree(e)) => edges \subseteq algebra
      /\ (\A e \in exprs : Definite(e)) => algebra \subseteq edges

FlowExprs ==
  {p.expr : p \in {q \in Range(source.programs) : q.kind # "cka_pattern"}}

(* A build that succeeds leaves the files the source asks for, whatever    *)
(* failed and interrupted builds of other sources left before: transitions *)
(* and pattern edges are those of the algebra, every fused chain has the   *)
(* handler that the coverage file says, and all of them are of the same    *)
(* source.                                                                 *)
BuildCoherent ==
  built =>
    /\ files["patterns"] = Exprs(source)
    /\ files["topology"].nodes = Nodes
    /\ Matches(files["topology"].transitions, Range(Given), FlowExprs)
    /\ Matches(files["compiled"].edges, {}, Range(Exprs(source)))
    /\ Regions # <<>> => files["fusion"].regions = Range(Regions)
    /\ {c[1] : c \in files["coverage"].handlers} = {Regions[i].nodes : i \in DOMAIN Regions}
    /\ \A c, d \in files["coverage"].handlers : c[2] = d[2] => c = d
    /\ \A c \in files["coverage"].handlers :
         c[1] \in DOMAIN StaticHandlers \/ c \in files["handlers"].handlers

Plain(e) ==
  \A p \in Within[e] : /\ ~IsZero(p) /\ ~IsOne(p)
                       /\ p.form = "star" => p.max_unroll >= 2

(* Names that stand for 0 and 1 in an expression.                          *)
Reserved == {"zero", "blocked", "impossible", "one", "identity", "skip"}

(* Patterns that the lowering takes, too; it knows "zero" and "one" alone, *)
(* and would run a node that has one of the other names.                   *)
Lowers ==
  /\ built
  /\ files["topology"].nodes \cap Reserved = {}
  /\ \A i \in DOMAIN files["patterns"] :
       Lowerable(files["patterns"][i], files["topology"].nodes)

(* The two compilers of patterns agree: the SEQ and STAR edges of the      *)
(* control table are the tensor edges, for patterns without identities     *)
(* and with loops that loop.                                               *)
ControlAgrees ==
  Lowers /\ (\A i \in DOMAIN files["patterns"] : Plain(files["patterns"][i])) =>
    {<<e.lhs, e.rhs>> : e \in {f \in Range(ControlTable(files["patterns"])) :
                               f.op \in {"seq", "star"}}} = files["compiled"].edges

(* The scheduler never has to split a PAR of a pattern that compiled: the  *)
(* nodes its PAR edges join are independent.                               *)
ParIndependent ==
  Lowers => \A e \in Range(ControlTable(files["patterns"])) :
    e.op = "par" => SafeParallel(Operators[e.lhs], Operators[e.rhs])

(* A fused region is a path, and touches other kernels by its own links    *)
(* only: no kernel is in two regions, or has a way in or out half way.     *)
FusedOnce ==
  built /\ Regions # <<>> =>
    \A region \in files["fusion"].regions :
      LET r     == region.nodes
          links == {<<r[i], r[i + 1]>> : i \in 1 .. Len(r) - 1}
      IN  /\ Len(r) >= 2 /\ IsInjective(r)
          /\ links = {a \in transitions \ source.fallback :
                       {a[1], a[2]} \subseteq DeclaredKernels(source)
                       /\ {a[1], a[2]} \cap Range(r) # {}}

(* A kernel that is fused is a hot region, and the device memory it reads  *)
(* and writes exists: its slots are declared, and they are tensors.        *)
FusedTouchTensors ==
  built /\ Regions # <<>> =>
    \A region \in files["fusion"].regions : \A n \in Range(region.nodes) :
      \E hot \in Range(files["regions"].regions) :
        /\ hot.name = n
        /\ \A slot \in hot.reads \cup hot.writes :
             slot \in DOMAIN source.slots /\ source.slots[slot] = "tensor"

Composed(layer, x, y) ==
  CASE layer.compose = "times" -> (x * y) \div Whole
    [] layer.compose = "min"   -> IF x < y THEN x ELSE y
    [] layer.compose = "plus"  -> IF Infinity \in {x, y} THEN Infinity ELSE x + y

(* The weights of the programs of a source that was built obey the laws of *)
(* the layers: a weight composed with the unit is itself, with the bottom  *)
(* it is the bottom, and two weights compose to no more than the range.    *)
WeightsObeyLayers ==
  built =>
    \A layer \in Range(source.layers) :
      LET weights == {p.weight[layer.name] : p \in {q \in Range(source.programs) :
                                                   q.kind # "cka_pattern" /\ ~Trivial(q)}}
      IN  \A x \in weights :
            /\ Composed(layer, x, layer.unit) = x
            /\ Composed(layer, x, layer.bottom) = layer.bottom
            /\ \A y \in weights : layer.bottom # Infinity => Composed(layer, x, y) \in 0 .. Whole

(* What no check of the build asks for, and the start does.                *)
KernelSlotsOperated ==
  \A d \in Declarations(source) : IsKernel(d) => d.reads \cup d.writes \subseteq SlotsOf(Operators)
AgentsOperated == Nodes \cap AgentNodes \subseteq DOMAIN Operators

(* After a successful build, whatever the builds before it left, three     *)
(* things only can keep the runtime from loading the files: a fusion file  *)
(* that was never whole, when there is nothing to fuse and it is not       *)
(* written, a kernel's slot that no operator has, and an agent's node      *)
(* without an operator.                                                    *)
BuiltFilesLoad ==
  built =>
    /\ FilesLoad <=> Readable("fusion") /\ KernelSlotsOperated /\ AgentsOperated
    /\ Regions # <<>> => Readable("fusion")

(* The types, the ends of the topology's edges, and what the start loads.  *)
Inv == TypeOK /\ BuiltFilesLoad

===============================================================================

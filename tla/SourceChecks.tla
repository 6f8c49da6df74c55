------------------------------ MODULE SourceChecks ------------------------------
(***************************************************************************)
(* The validators of topology.source.json (crates/topology_core/src/       *)
(* programs.rs, called by validate_source_topology in overlay.rs) as       *)
(* predicates over a source: [declared, slots, resources, layers,          *)
(* programs, ...].  A node declaration is [name, kind, backend, reads,     *)
(* writes, locks, governed], a layer is [name, join, compose, bottom,      *)
(* unit], and a program has a weight: layer -> value.                      *)
(*                                                                         *)
(* Weights are multiples of 1/Whole, the tolerance of 1e-9 is left out,    *)
(* and so are the shapes of the JSON values.                               *)
(***************************************************************************)
EXTENDS Cka

CONSTANTS
  Whole,    \* the weight 1.0
  Infinity  \* the bottom "inf", above every weight

ASSUME WeightAssumption == Whole \in Nat \ {0} /\ Infinity \in Nat /\ Infinity > Whole

Declarations(source) == Range(source.declared)

NodeNames(source) == {d.name : d \in Declarations(source)}

UniqueNames(source) == Cardinality(NodeNames(source)) = Len(source.declared)

(* "none" when the node does not say.                                      *)
KnownBackends ==
  {"cuda", "python", "noop", "patch", "cargo", "rust_host", "resident_worker", "none"}

BackendsKnown(source) == \A d \in Declarations(source) : d.backend \in KnownBackends

(* Wrong: what is read is not looked at.                                   *)
WritesDeclared(source) ==
  \A d \in Declarations(source) : d.writes \subseteq DOMAIN source.slots

EffectsDeclared(source) ==
  \A d \in Declarations(source) :
    /\ d.reads \cup d.writes \subseteq DOMAIN source.slots
    /\ d.locks \subseteq source.resources

BoundariesGoverned(source) ==
  \A d \in Declarations(source) : d.kind = "boundary_node" => d.governed

(* Slots that are not declared are left to EffectsDeclared.                *)
KernelsPure(source) ==
  \A d \in Declarations(source) : d.kind = "kernel" =>
    \A slot \in (d.reads \cup d.writes) \cap DOMAIN source.slots : source.slots[slot] = "tensor"

-------------------------------------------------------------------------------
(* Quantale layers.                                                        *)

(* Wrong: a layer that composes by times is not asked for its unit.        *)
LawsWithoutUnit(layer) ==
  /\ layer.join \in {"max", "min"}
  /\ \/ layer.compose = "times" /\ layer.bottom = 0
     \/ layer.compose = "min" /\ layer.unit = Whole /\ layer.bottom = 0
     \/ layer.compose = "plus" /\ layer.unit = 0 /\ layer.bottom = Infinity

LawsHold(layer) ==
  /\ layer.join \in {"max", "min"}
  /\ \/ layer.compose \in {"times", "min"} /\ layer.unit = Whole /\ layer.bottom = 0
     \/ layer.compose = "plus" /\ layer.unit = 0 /\ layer.bottom = Infinity

InDomain(layer, value) ==
  IF layer.bottom = Infinity THEN value \in 0 .. Infinity - 1
  ELSE \/ value \in layer.bottom .. layer.unit
       \/ value \in layer.unit .. layer.bottom

(* The expression is "zero" or "one", by one of their names.               *)
Trivial(program) == IsZero(program.expr) \/ IsOne(program.expr)

Weighed(program, layers) ==
  \A layer \in Range(layers) :
    layer.name \in DOMAIN program.weight /\ InDomain(layer, program.weight[layer.name])

QuantaleDeclared(source) ==
  /\ source.layers # <<>>
  /\ \A layer \in Range(source.layers) : LawsHold(layer)
  /\ \A p \in Range(source.programs) :
       p.kind = "cka_pattern" \/ Trivial(p) \/ Weighed(p, source.layers)

(* validate_source_topology.                                               *)
SourceAccepted(source) ==
  /\ UniqueNames(source)
  /\ BackendsKnown(source)
  /\ EffectsDeclared(source)
  /\ QuantaleDeclared(source)
  /\ BoundariesGoverned(source)
  /\ KernelsPure(source)

-------------------------------------------------------------------------------
(* What the compiler takes from the declarations.                          *)

(* is_hot_source_node, fusible_node_info.                                  *)
IsKernel(d) == d.kind = "kernel" /\ d.backend = "cuda"

DeclaredKernels(source) == {d.name : d \in {e \in Declarations(source) : IsKernel(e)}}

Declaration(source, name) == CHOOSE d \in Declarations(source) : d.name = name

EffectsOf(d) == [reads |-> d.reads, writes |-> d.writes, locks |-> d.locks]

(* extract_weight, which knows the layers by name.                         *)
HasWeight(program) == {"confidence", "cost", "safety"} \subseteq DOMAIN program.weight

===============================================================================

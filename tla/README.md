# Verification of quantale_semiring_v2

The program is an agent runtime whose plan is a graph of operators weighted in a
confidence/cost/safety quantale.  A scheduler on the GPU walks that graph one
control edge at a time; operators that need the host are issued as commands,
executed by a Rust service, and their receipts change the weights the scheduler
goes on with.  A streaming pipeline feeds device slots and graph mutations from
outside.  These modules model the control of that system; weights and values are
abstracted to what control depends on.  A definition stands for the source lines
named in `PROJECT.json`.

## 1. The system

| Part | Source | State it keeps | Operations | Hard because |
|---|---|---|---|---|
| GPU scheduler | `cuda/quantale/06_scheduler.cuh`, `02_control_flow_abi.cuh` | frontier, consumed edges, tensor, STAR counters, step count, halted/blocked | drain receipts; pick SEQ, STAR, CHOICE, PAR, HALT edge or a tensor path; commit | priorities between five kinds of edge, one-shot and reentrant edges, loops |
| Command and receipt rings | `cuda/quantale/01_state_and_rings.cuh` | two rings with head and tail, pending count | push, drain, mark consumed | full rings, silent refusals, two drains of one ring |
| Supervisor and main loop | `src/app/supervisor.rs`, `src/main.rs`, `src/tensor/orchestration.rs` | total steps, stop reason | burst, budget, service pass, streamed input before a burst | errors logged and survived, budget tested between bursts |
| Host service | `src/orch_service.rs`, `src/egress.rs` | commands drained | execute one by one (or in parallel groups), push receipts | failure and timeout outcomes, errors half way |
| Failure policy, rollback | `cuda/quantale/07_failure_policy.cuh` | retry budgets, refusals, rollback marker | classify, halt, mark, roll back | state restored in part, commands issued again |
| Trace, snapshot, replay, audits | `cuda/quantale/09_trace_replay.cuh` | event ring, snapshot | push, drain, snapshot, restore, self-checks | counts put back while rings go on |
| Device learning | `cuda/quantale/08_learning.cuh` | delta ring, weights | fold receipts, apply | full ring, entries lifted from bottom or brought there |
| Tensor core | `cuda/quantale/03_tensor_core.cuh`, `src/tensor/mod.rs` | tensor, witnesses, baseline | reset, embed, close, project, decay | witnesses apart from the entries they are for |
| Device receipts, reinforcement | `05_jit_and_receipts.cuh`, `11_hot_regions_dispatch.cuh` | receipt ring, tensor weights | push, drain, reinforce, JIT scores | pushes without a full check |
| PAR group kernels | `cuda/quantale/12_par_group.cuh`, `src/tensor/par_group*.rs` | group table, frontier | first ready group, commit, run members, leave the rest to the host | members between kernel and host |
| Exploration | `04_exploration.cuh`, `src/exploration.rs`, `src/tensor/exploration_ops.rs` | tokens, beam, visits, locks | seed, expand, select, choose, commit | what was read back goes stale |
| Streaming workers | `src/streaming.rs` | three bounded queues, metrics, shutdown flag | read, normalize, drain, compact, shut down, drop | three threads, full queues, retries, shutdown races |
| Slot applier, upload queue | `src/streaming.rs`, `src/device_slots.rs` | staged buffers, slots, versions | validate, stage, flush | a flush that fails before or between copies |
| Streaming variants | `src/streaming.rs`, `src/device_slots.rs` | double buffers, pinned buffers, device rings | swap, upload, push/pop | buffer reuse while a copy is in flight |
| Learned edges | `src/learning.rs` | pending edges, JSONL file | record, flush, load | a crash in the middle of a flush |
| Transition log | `src/tlog.rs` | JSONL file, sequence | open, append | several processes on one file |
| Overlay build | `crates/topology_core/src/overlay.rs`, `programs.rs`, `src/app/cli.rs` | the source, the generated files | validate, compile programs, check, write nine files one by one | files of two builds side by side |
| Control-flow lowering, CKA patterns | `src/control_flow_lowering.rs`, `src/pattern.rs` | - | expression to control table, to tensor edges | three compilers of one algebra |
| Fusion partition | `crates/topology_core/src/fusion.rs` | - | components, chains, outside reads and writes | graph algorithm |
| Topology checker, registry | `crates/topology_core/src/check.rs`, `registry.rs`, `compile.rs`, `src/topology.rs` | violations | identity, weights, reachability, dominators, cutset, components; refuse or compile | graph algorithms over hash sets |
| Hot regions, dispatch | `src/fusion_dispatch.rs`, `src/hot_region.rs`, `src/jit_kernel_fusion` | kernel cache | load, compile, dispatch | code generation |
| Contracts, plans, operators library, Lean notes, mutation tools | several | - | parsing and checking | pure; outside the runtime loop |

How they meet: `main` wires the supervisor, which alternates *streamed input*
(slot updates and topology deltas, drained by the same thread), a *burst* of
scheduler kernels, and a *service pass* (drain commands, execute, push receipts,
drain receipts).  One host thread launches every kernel, so kernels do not
interleave with each other; the interleavings are those of the streaming
threads with the owner, and the order in which the host makes its calls; the
failures are those of any CUDA call between two kernels.

What makes each part correct:

* scheduler: it never runs ahead of results it owes, every external commit has
  exactly one command, loops keep their bounds, the frontier is explained by
  committed edges, a loop-free plan ends;
* rings and service: a command is in one place and is settled once; the pending
  count equals the debt; no receipt is lost for want of room;
* supervisor: it ends, and the budget is overrun by less than a burst;
* recovery: rollback, replay, learning, new tables and resets between bursts
  leave all that as it was, and a halt holds;
* decisions on the device: every member of a committed group runs once, on the
  device or through the host, receipts count once and only overwritten ones are
  lost, an edge is spent once, candidates are walks over the tensor, visits stay capped;
* streaming: what is accepted is normalized, what is made is delivered or
  counted, slots and their versions move forward only, dropping the workers ends;
* storage: what is loaded is the newest record of each edge, and while the file
  parses no flushed one is replaced by an older; records of the log are numbered by
  their positions while processes do not overlap and no write is cut short, and
  what is left of that when they do;
* build: the generated files are those of one source and agree with the algebra,
  whatever builds failed before; the compilers of one pattern agree; members of a
  PAR are independent; the next start loads the files; a fused chain has no way in
  or out half way and touches device memory only; weights obey the laws of their layers;
* topology checker: its graph algorithms compute what they are said to, it ends,
  and in what it accepts every way can go on to a halt and none leads past a gate.

Parts that `main` does not call as it stands: nothing in the runtime lowers
patterns to a control table or loads one (`load_control_table` has callers in
`tests/cuda_smoke.rs` only), so the scheduler of a plain run takes tensor paths
(`SingletonStep`); `LearningBuffer::record`, the failure policy, replay, the par
group step and exploration are called by tests and by embedders of the library.
They are modelled as their own interface allows.

## 2. Modules

**`Orchestrator.tla`** - scheduler, rings, service and supervisor.  `Step` is one
call of `tensor_quantale_orchestrate_step`: it drains the receipt ring
(`Stepping`), then is one of `SeqStep`, `StarBodyStep`, `StarExitStep`,
`ChoiceStep`, `ParStep`, `HaltStep`, `SingletonStep`, `BlockedStep`, in the
order of priority of the code (`SeqIdle`, `StarIdle`, ... say that what comes
before is not ready).  `Commit` is `commit_selected_node_or_command` with its
kinds of node (external, device, unsupported, none).  `PreBurst`, `BudgetSpent`,
`DrainCommands`, `ServeCommand`, `SettleReceipts` are the steps of the host, and
`StepFails`, `DrainCommandsFails`, `PushFails`, `SettleFails` their errors.

A tensor entry is live or bottom (`live`), with its first hop (`witness`); the
score that ranks live candidates is left open, so any of them may win.  A failed
receipt may or may not bring its entry to bottom (`DrainedLive`).  Reading
`control_edges[-1]` (06_scheduler.cuh:149) makes the choice of a branch with
bottom score nondeterministic (`ChoiceWins`).

**`ExternalWork.tla`** - what the rings promise: external work is issued in
rounds, each settled completely before the next.  `Orchestrator!Rounds` is the
refinement: owed are the commands in the ring, with the host, or with a receipt
under way; done are those whose receipt was applied.

**`SlotApplier.tla`** - one action, `ApplyBatch`: validate, stage, flush, version,
receipts; the flush succeeds, stops after some copies, or fails to synchronize
before the first and leaves the queue staged.

**`StreamWorkers.tla`** - composes `SlotApplier` with the reader, the bridge, the
normalizer and the owner.  An update is known by its number; each action is one
operation on a queue or on the flag.  `normalize_event` is a constant table from
events to the slots and policies it yields.

**`JsonlFile.tla`** - a file of lines, the last of which may be torn: what the
learned edges and the transition log are kept in.

**`LearnedEdges.tla`** - recording with its capacity, the flush that may be cut at
any piece, the end of the process, the load that refuses a torn file.
**`TransitionLog.tla`** - opening (which counts the records), appending, a write
that fails; two processes on one log.  **`Storage.tla`** composes them as `main`
does: one process learns and logs, another only logs.

**`Recovery.tla`** - extends `Orchestrator` with what a host may call between two
bursts: `InitPolicy`, `Classify`, `SetRollbackMarker`, `ApplyRollback` (07);
`ReplaySnapshot`, `ReplayRestore`, `PushTraceEvent`, `DrainTraceEvents` and the two
audits (09); `FoldReceipt`, `ApplyDeltas` and the application by the supervisor
(08); `LoadControlTable`; `Reset`, `RestoreBaseTensor`, `EmbedTensorEdges`, `Close`
(03, `tensor/mod.rs`); and `RunAgain`, the supervisor called once more.  `costed`
are the entries with a finite cost, without which a good delta cannot make an
entry live.

**`DeviceWorld.tla`** - tensor, frontier and device receipt ring as the decision
kernels share them: the ring is the log of what was pushed, so that a lapped slot
holds the last receipt that falls on it; `Reinforce` is what a drained receipt does
to an entry.  **`ParGroups.tla`** extends it with the par group step and the members
left to the host, **`Exploration.tla`** with tokens, beam, visits, locks and the
commit in its three steps (chosen, committed, marked).  **`Decisions.tla`** composes
the two: they move one frontier and consume the same edges.

**`TopologyCheck.tla`** - the checker.  Checks of one node or edge are sets of
violations; the dominator fixpoint (`VisitForDominators`, `NextRound`, run for the
gates and again for the cutset) and the searches of Kosaraju (`DfsDescend`,
`DfsFinish`, `CollectPop`) are steps, in every order the code's hash sets allow.
`Load` is `load_checked_default` with the registry and the compiler, and
`CheckOperators` the third phase that `build_runtime_epoch` adds.

**`Cka.tla`** - the expressions, what both compilers accept, and a *reference*:
`Threads`, the node sequences an expression allows, from which `Followed` is the
order between nodes.  **`SourceChecks.tla`** are the validators of the source as
predicates.  **`Programs.tla`** is the compiler (`programs.rs`, and
`pattern.rs`, whose clauses are the same), **`ControlLowering.tla`** the lowering
to control edges, **`Fusion.tla`** the partition into chains.  **`Build.tla`** runs
them as the command does, one action per program, per check and per file, with
`Interrupted` anywhere and `Edit` between builds.  Expressions are the trees that
nest no deeper than `MaxNesting`, and what recurses over them in the code is a
recursive function on `Expr`.

**`MCOrchestrator.tla`, `MCRecovery.tla`, `MCDecisions.tla`, `MCStreamWorkers.tla`,
`MCStorage.tla`, `MCBuild.tla`, `MCTopologyCheck.tla`** - the instances.

**`Subsequences.tla`** - `Only(s, K)`, the entries of a sequence at the places in K,
in their order: what a filter keeps, in the form the proofs reason about.
**`Reachability.tla`** - `Reached(S, G)`, what paths over a set of arcs reach: the
searches of the checker and the components of the fusion partition.

**`Orchestrator_proofs.tla`, `Recovery_proofs.tla`, `Storage_proofs.tla`,
`Stream_proofs.tla`, `Decisions_proofs.tla`, `TopologyCheck_proofs.tla`,
`Build_proofs.tla`** - the theorems (section 5), each beside the module it is
about; **`Numbers_proofs.tla`** - the lemmas about numbers, ranks and finite
iteration that several of them need.

Operators marked *Wrong:* are versions of the definition after them with a
likely bug; nothing uses them but the mutants of `PROJECT.json`, which show
that each property can fail.

## 3. Runs

| Run | Module, config | Shows | States |
|---|---|---|---|
| `control` | MCOrchestrator, MCOneShot | Every table of up to 3 edges out of a pool of SEQ, CHOICE, PAR and HALT edges on 6 nodes: the handover between scheduler and host, independence of what is in flight; the refinement of ExternalWork; settlement and termination | 96 k |
| `loops` | MCOrchestrator, MCLoops | Every table of up to 2 edges out of a pool of STAR and other edges over a cyclic graph with a reentrant, an unsupported and an undispatched node, streamed events and edge deltas, a step budget, one failing CUDA call: the frontier is justified, nothing is issued twice | 326 k |
| `recovery` | MCRecovery, MCRecovery | Six tables (sequence, PAR of externals, two loops, a choice, none), three calls of the host at any place between bursts, one failing CUDA call: tickets unique, debt exact, audits silent, STAR bounds, halts that hold | 1 235 k |
| `decisions` | MCDecisions, MCDecisions | Two tensors, two group tables, two strategies, a beam of two, three receipts in a ring of two, a failing call, a JIT score or a decay anywhere: every member of a committed group runs once, receipts count once and only overwritten ones are lost, edges are spent once, candidates are walks, visits capped | 846 k |
| `stream` | MCStreamWorkers, MCStream | Two source feeds, another producer, queues of two, two retries, a batch of two, one failing flush, shutdown and drop at any time | 256 k |
| `storage` | MCStorage, MCStorage | Two edges, flushes cut at any piece, crashes, restarts and reloads; two processes on one log of three records, one after the other or together, with writes that are cut short | 1 497 k |
| `build` | MCBuild, MCBuild | 621 sources: pairs of atoms under SEQ, CHOICE, PAR and STAR, put into a sequence, a loop, a PAR or a choice, with a chain of kernels or a pattern of them, one source for each thing a validator refuses, and two that build and do not load; four edits with fewer nodes, an overlay, a duplicate, a chain without a handler; two builds, interrupted anywhere: what the files say, and when the next start loads them | 732 k |
| `topology` | MCTopologyCheck, MCTopology | All 512 graphs over nine edges of five nodes (bypasses, cycles, traps, free cycles), and 22 with one thing wrong, in every order of the fixpoint and the searches: the algorithms are exact, and what is accepted can halt and passes its gates | 196 k |
| `star_exit` | MCOrchestrator, MCStarExit | *violated:* a STAR exit fires again | |
| `self_loop` | MCOrchestrator, MCSelfLoop | *violated:* the receipt of a self-loop is never settled | |
| `storage_reload` | MCStorage, MCStorageReload | *violated:* a flush cut short and repeated makes the file unreadable | |
| `free_cycle` | MCTopologyCheck, MCFreeCycle | *violated:* a free cycle is not reported | |

Bounds.  *Rings of two* (64 in the code) fill and wrap within two steps.
*Bursts of two* steps let a burst end by yielding, by blocking and by its
length.  *Tables of three edges* out of a pool let every pair of control kinds
compete at one node and a third follow; *two* suffice for loops since the tensor
gives the cycle.  *PAR groups of two* (`MaxPar`) leave a ready member out.  One
STAR counter with two STAR edges shows an edge beyond the counter table.
*MaxFaults* bounds failures, *MaxTotal* = 7 is a budget that bursts of two do not divide and that lets a STAR run twice and exit.
*MaxCalls* = 3 is a snapshot or a marker, something in between, and the restore;
delta and trace rings of one fill at the second push.
In `decisions` three receipts lap a ring of two, two rounds of exploration make a
selection stale, and each group table has a group that is passed over before the one
that is ready.  In the stream runs a queue of two is overtaken by three updates; ten retries become two,
since only the last differs.  A learning buffer of two fills; a file of two
flushes holds every order of an old and a new record of an edge; a log of three
records holds two of one process with one of the other between them.  Expressions of
depth three put each combinator inside each other one, but for STAR, whose
bodies are sequences that hold any, and `MaxNesting` = 3 is what these expressions
need (the JSON parser of the code stops at 128); two builds suffice since
a build reads nothing of the one before it but the files it leaves.  Five nodes are
the start, the two events, a gate and a halt that the gate and cutset checks are
about; the nine edges give two ways round the gate, a loop through it and one past
it, and a loop of one node.

Deadlock is checked in the scheduler's runs and in `recovery` (`Terminated` is the
end there); the streaming pipeline really stops once dropped, so it is not checked
there, and `DropCompletes` says that it stops only then.  Nor is it in `storage`,
`build` and `decisions`, which end when their crashes, records, builds or receipts
are used up, and in `topology`, where `Terminates` says that a verdict ends it.

Fairness.  In `Orchestrator` one thread does everything: `WF_vars(Next)` says
that it keeps running and that an external command returns; `egress.rs` sets no
time limit on one, so `OutstandingSettles` and `Termination` hold for executors
that return.  In `StreamWorkers` each thread is weakly fair; the owner finishes
what it begins but need not begin (`StartApply` and `DropWorkers` are not fair);
other producers end.  The checker is one call on one thread, weakly fair too: what
`Terminates` shows is that its rounds and searches end in any order.

## 4. What the code does differently from what is said of it

The violation runs show these; `PROJECT.json` quotes the lines.

1. The exit of an exhausted STAR fires on every step: `consumed` is set but never
   read, and the edges that should take over have lower priority.
2. A receipt from a node to itself is skipped by both drains; its command stays
   pending for ever.  A STAR whose body is one node is lowered to such an edge.
3. A flush of learned edges that is cut short and repeated appends to the torn
   line, and the next process does not start.
4. A component with a free cycle and one edge that costs something is not reported
   as having a free cycle (`AllFree` asks it of every inner edge).

Read in the code and modelled as they are, without a run of their own.

*Scheduler and service.*  Members of a PAR group are numbered from the step before
the commit, single commits from the step after it, so two receipts may carry one id;
`AuditsPass` leaves out duplicate ids once a table with a PAR has been used, and
after a replay, which sets the step back.  An UNSUPPORTED node is committed without
a command or a reason (06:349), against I4 of
`plan.gpu.native.seq.par.choice.star.md`; a HALT node as PAR member does not halt; a
single commit replaces the frontier and forgets the other PAR branches and streamed
nodes; STAR counters are never reset on re-entry.

*Recovery.*  A rollback puts back consumption and frontier, not the STAR counters.
A hard reset restores the tensor and not its witnesses (mod.rs:409), so nothing is
ready until the edges are embedded and closed again.  `repair_on_block`,
`rollback_on_failure` and `block_threshold` are read by the kernels and set by
nobody.  A full trace ring refuses the new event, and its comment says that the
oldest goes.

*Decisions.*  The lock policy is asked about the terminal of a candidate, while the
commit makes its first hop active; the edge committed is from the start to the first
hop, which skips the strategy's own node when the path has one; the commit kernel
looks neither at consumed nor at the tensor.  A receipt left by the kernel names the
end of the path that recommended a member, a descriptor for the host the member
itself (12:348 and 12:372 against 12:291), and the two reinforce different entries.
A comment (12:104) says that no abstract node is run on the device; those marked
ABSTRACT_DEVICE are.  Exploration opens an edge with confidence or safety above
bottom, projection and groups need both.  A JIT score lifts an entry without giving
it a witness.  A lapped receipt ring loses the receipts that were overwritten and
applies again the ones that overwrote them (`ReceiptsAppliedOnce` says that it does
no worse).

*Streaming.*  A flush that fails half way reports dropped what is on the device, and
one that fails to synchronize uploads dropped updates with the next; NEVER_DROP
updates are dropped after ten retries; the drain at shutdown counts neither what it
sends nor what it loses; a full update queue drops the newest value of a
LATEST_WINS slot and keeps the older ones.

*Log.*  Two processes that have the log open at once number from the same count, so
that two records may carry one number; a line cut short counts as one.

*Build.*  A build may succeed and the next start still fail, for three reasons that no
check of the build asks about (`BuiltFilesLoad`).  A topology without a chain writes no fusion file; where
none is left from a build before, the runtime does not start (config.rs:183).  The slots
of a kernel are checked against the declared slots, those of a hot region at the
start against what the operators read and write, and one that none does is a panic
(config.rs:198).  An agent's node needs no operator to be built (the overlay asks it of
operator nodes), and one of type State or Control without an operator is refused by
the topology's checks at the start (MissingOperator).  A program without
all three weights is left out of the patterns without a word (programs.rs:122).  A
slot written and read inside a fused region is neither read nor written from
outside, whoever else reads it (fusion.rs:119).  A comment (check.rs:262) speaks of the first occurrence of a
name, where the map keeps the last.

*The algebra.*  `zero` in a SEQ is skipped by both compilers as if it were one
(`programs.rs`, `pattern.rs`), and in the control table becomes a HALT edge beside
the sequence; `one` in a SEQ breaks the chain in the control table, which does not
know `skip`, `identity`, `blocked` and `impossible` at all, and would run a node of
that name, which the compilers cannot mean (so `Lowers` asks that there is none); an optional part, as in
seq[a, choice[skip, b], c], loses the edge from a to c.  `BuildCoherent` is stated
for expressions without zero in one direction and without optional parts in the
other, `ControlAgrees` for patterns without either.  A STAR's `max_unroll` n means n
copies of the body in the tensor and n returns, so n + 1 runs, in the control
table; n = 1 gives a back edge in the second only, so `ControlAgrees` takes
n >= 2.  `dedup_by` in the lowering removes adjacent repetitions only.  A node's
declaration overrides its operator's effects for programs, not for patterns, so
what is a PAR of a program may be refused as a pattern.

## 5. Proofs

Every theorem below holds for every value of the constants that the assumptions of
its module allow: any graph, table, ring size, number of processes, of events or of
failures.  TLC finds no violation of the inductive invariants on the instances of
section 3 either (with a bound where a quantifier of theirs ranges over all numbers).

### What is assumed

The assumptions named in the modules say what the inputs are (a graph's nodes and
kinds, positive sizes, a document of the types of `model.rs`).  Those of the build:

* `MaxNesting`, the depth of expressions, is any number.
* `SourceAssumption` gives the documents of a build their types and nothing that the
  validators check; `BuildAssumption` says that the handlers written by hand have
  different numbers below the first generated one (`fusion_hf_region_id` and 8, in
  overlay.rs); `FileAssumption`, that a missing or torn file does not look like a
  whole one of any kind; `WeightAssumption`, that 1.0 is some number of units and infinity more.

Where a theorem needs more, it says so in its statement:

* `Roomy` - the receipt ring is no smaller than the command ring.  In the code both are
  compile-time constants, 64 commands and 256 receipts (01_state_and_rings.cuh:29-30,
  src/tensor/constants.rs:91-92).  With less room a push is refused and the debt is never paid.
* `NoSelfWork` - no control edge leads from an external node to itself, and no tensor
  hop from a node to itself.  The code does not exclude it: the `self_loop` run shows
  what happens then (section 4, 2), so the theorems are about plans without such an edge.
* `MaxPar <= RingSize` - a PAR group fits the ring; 8 and 64 in the code
  (02_control_flow_abi.cuh:29).
* `MaxFaults = 0`, for the refinement only: after an error half way the main loop goes
  on with commands still in the ring, and rounds overlap.

### Scheduler, rings and host

`Orchestrator_proofs`:

* `TypeCorrect == Spec => []TypeOK`.  `TypeOK` alone is not inductive: the pending
  count is a natural number only if the receipts that are subtracted can be counted,
  so `TypeInv` adds that the receipt set is finite.  The proof goes through the pieces
  of a step: what a drain leaves (`DrainType`), what the end of a burst leaves
  (`BurstType`), what a commit leaves (`CommitType`, `ParCommitType`), then one lemma
  per host action.
* `StarsBounded`: the counter moves in `StarBodyStep` only, whose guard is that the
  bound is not reached.  `BudgetBounded`: `BudgetInv` relates the step count to the total
  read after the last burst plus the steps of this one.
* `FrontierIsJustified`: `FrontierInv` adds that every witness is a hop of the graph;
  without it a node entered by a projection has no consumed edge to point to.

Of the same module, about the rings:

* `OnePlacePerTicket == Spec => []TicketsUnique`.  `Tickets` says that positions are
  below the tail, that each of the four places (command ring, host, receipt ring,
  settled) holds a position once, and that the places are pairwise apart.
* `PendingCountsDebt`: the count moves with the places, one for one.
* `CommandsIssuedOnce == Spec => IssuedOnce`, an action property: a new command starts
  from an edge that is not consumed, is a loop's, or may be used again.
* `HostMayReorder == Spec => []InFlightIndependent`: commands in flight together are of
  one PAR commit, whose members were compared pair by pair.  `Turns` is what makes it
  inductive: without a failure the ring is empty whenever the scheduler may commit.
* `HandoverHolds`, under `Roomy`, `NoSelfWork` and `MaxPar <= RingSize`.  `RingInv` joins
  the types, `Tickets`, `Turns` and `Debts` (pending is what is in the three places,
  and never more than the ring holds) with `SelfFree`: no ticket leads to its own node,
  or the drains would skip it.
* `RingsImplementRounds`, under `Roomy`, `NoSelfWork` and `MaxFaults = 0`: the
  refinement of `ExternalWork`.  A commit of external nodes is `Issue`, a receipt that is
  applied is `Settle`, and every other step of the scheduler and of the host stutters.

`Recovery_proofs`, for the same system with the calls of the host between bursts:

* `RecoveryTypeCorrect`, `RecoveryKeepsTickets`, `RecoveryBoundsStars` extend the above:
  a call touches no ring (`Between`) and keeps the types (`CallKeeps`).  For the loops
  the counters of a snapshot are bounded too (`SavedStarBounded`).
* `HaltsHold == RSpec => HaltHolds`, an action property: while the world stays halted
  no command is issued, no step counted and no edge used up, but for what a rollback
  or a replay puts back.
* `ReplayKeepsDebt == ... => []DebtSurvivesReplay` (`Roomy`, `NoSelfWork`): a snapshot is
  taken when the scheduler is at rest, so that its pending count is zero
  (`SavedQuiet`), and it comes back when nothing is owed.
* `AuditsHold == ... => []AuditsPass` (`Roomy`, `NoSelfWork`): while no PAR was loaded
  and nothing restored, ids are no larger than the step and belong to one position
  (`Numbered`).

### Decisions on the device

`Decisions_proofs`, from the one invariant `DecisionsInv`: `VisitsStayCapped` (types and
caps), `ReceiptsAreAppliedOnce`, `MembersAreRunOnce`, `CandidatesWalk`, and
`GroupsTakeUnspent == DSpec => ParTakesUnspent`, an action property.
`MembersAreRunOnce` is about every group committed so far, kept as a history; a
member that neither the kernel nor the host has would break it.  `ReceiptsAreAppliedOnce`
has two cases: in a ring that was not lapped every receipt is applied once; in one that
was, only overwritten ones are not.  Its parts:

* `RingInv`: a ring that was not lapped is behind by no more than its slots, so a drain
  reads what was pushed and not what overwrote it; when it was, what a slot holds is
  the last receipt pushed on it, so what was missed was overwritten;
* `MembersInv`: a member of a committed group is in the receipts or left to the host, in
  one of them and never both, and its number is that of a group step already taken, so
  the next step's are new;
* `SpentInv`: what a group took is consumed;
* `ExploreInv`: tokens are a forest whose roots are strategies (`Forest`), which makes
  the walk up the parents of a token end, and gives the path and the first hop the
  recursive definitions compute; what the beam and the selection hold are such
  candidates; the one that is held is below the limits, so that marking it stays capped.

### Streaming

`Stream_proofs`, from `StreamInv == Sound /\ Flow`: `UpdatesKeepTheirAccount`,
`AcceptedAreNormalized`, `SlotsNeverGoBack`, `EveryUpdateAnswered`.  `Sound` has the types and
what the counters count.  `Flow` cuts the numbers of the updates made so far into
segments, one for each place (device and receipts, batch, update queue, the bridge's
hand): each place holds rising numbers of its own segment.  That is why a slot never
takes an older value, and why a receipt's update is in no other place.  `AnsweredOrSuperseded`
needs in addition that compaction keeps the last LATEST_WINS update of a slot (`KeptOf`),
to which the dropped ones are answered.  `UpdatesKeepTheirAccount` is an equation until the
normalizer begins its drain, and from then on a bound only, since the drain drops what it
finds no room for without counting it.  `AcceptedAreNormalized` holds at every moment: an
accepted event is in the queue or was taken, and those accepted before the flag was
raised were taken when the normalizer has ended.

### Storage

`Storage_proofs`: `LatestIsLoaded` and `FlushedStays` from `LearnedInv`, which relates the
buffer, the file and what was flushed (`Fits`): while the file parses, its last record
of an edge is the newest one, or the newest is in the buffer.  `FlushedStays` holds while
the file parses and is about the learned edges only.  `Garbage`, a torn line,
is no record: that is an assumption of the module.  `RecordsStayNumbered` from `LogInv`,
for processes that may overlap and writes that may be cut: a process is ahead of the
lines by no more than the writes cut short (each may glue the next record to what it
left), and unless two processes overlapped it is not behind them; while no write was
cut, what a process wrote is below its next number.  So without overlap and cuts line
i carries i - 1.

### Topology checker

`TopologyCheck_proofs`, from `CheckerInv`: `CheckerKeepsTypes` (`Inv`: the types,
`CompiledIsIdentified`, `TrapsCannotHalt`), `GatesAreExact`, `CutsetIsExact`,
`ComponentsAreExact`, `AcceptedHalts`.  They are about any document and any order of
visits, where the run has nine edges.

* `Reached` is the least closed set: n rounds are enough for n arcs, since a
  round that changes anything uses an arc the rounds before did not (`SearchExists`,
  `ReachedLeast`, `ReachedFixed`).  `Leads(u, v, G)` is a path from u to v.
* *Dominators.*  A dominator set only ever loses nodes that a path bypasses
  (`Dominators`), and after a round without a change every node visited has the set its
  predecessors give it.  `FixpointIsExact`: such a fixpoint is exact.  For the cutset the
  region between the two events must hold each predecessor that the entry leads to, and
  it does (`BetweenIs`).
* *Components.*  In the first search, whatever a visited node leads to has a node of its
  component that finishes no earlier (`Outlasted`); when it ends this orders the
  components (`Ordered`).  The second search, taking the last node left, stays inside the
  component of its root (`Growing`), and what it has closed are whole classes
  (`Collected`, `CollectedAll`).  That an early finish breaks this is what the mutant of
  the run shows.
* *Verdicts.*  `VerdictInv` keeps, from check to check, what the violations found so far
  say of the document; `LetsHalt` follows when none is fatal: no edge has confidence
  zero, so the positive edges are the links, and no node is stranded.  The gates of
  `AcceptedHalts` come from `GatesAreExact` and from no gate being among the violations.

### Build

`Build_proofs`, from `BuildInv`: what each stage has done by then, in terms of the source
alone.  `SourceInv` (the validators accepted it, its nodes are distinct), `ProgramsInv`
(the transitions are those of the programs compiled so far, which were accepted), `PatternsInv`,
`EdgesInv` (checked transitions join nodes) and `FilesInv` (those of the nine files that were
written so far, each with its content).  `built` alone says nothing of the stages in between, and files of
earlier builds remain under the ones not yet written.  TLC checked `BuildInv` on the
instance before it was proved (`BuildInvariant`).  The rest is about what the compilers
make of any source:

* `BuiltLoads` is an equivalence: the files load if and only if the three things no check
  asks for are there.  Everything else that the start reads is in `FilesInv`: the hot
  regions are the source's kernels (`HotIs`, `HotOf`), and handlers with a number below the
  generated ones are those of the CUDA source (`HandlersTyped`).
* `WeightsCompose` and `FusedTensors` follow from the validators: a layer whose
  laws hold is one of three (`LayersAre`), products of weights are weights
  (`ProductWithin`), and a kernel whose slots are no tensors does not pass `KernelsPure`.
* `FusedPaths`: a walk along single successors from the one root of a linear component
  never comes back (`PathExtends`); when it is as long as the component is large it goes
  through all of it and there is no other arrow (`PathCovers`); components are closed
  under arrows both ways (`ComponentIs`).
* `BuildsCoherently`: by induction on the expression, the points the compiler returns have
  nothing the threads of the algebra do not (`Sound`) and all they have (`Complete`):
  first nodes, last nodes and links.  `Sound` needs that there is no zero, `Complete` that
  no part can be skipped, which is how `Matches` is stated.  Two handlers with one number
  are the same since generated ones are counted up from `FirstGenerated` in the order of
  the regions (`NumbersDiffer`).
* `ParNodesIndependent`: the entries of a lowered branch are nodes of that branch
  (`LoweredApart`), accepted branches are independent (`SafeNodes`), and dropping repeated
  rows adds none (`DedupIs`, `TableIs`).
* `CompilersAgree`: by induction on the expression, the entries, exits and flow edges of the
  lowering are the starts, ends and edges of the compiler (`Agree`), for a sequence
  (`SeqAgrees`), branches (`BranchesAgree`) and a loop (`StarAgrees`: two copies of the body
  give the way back, and more add nothing).  An element without nodes would break it,
  hence `Plain`; with it every part has starts and ends (`PlainAgrees`).

### How the proofs deal with data

The installed provers cannot instantiate an induction theorem that takes an operator.
`Numbers_proofs` states what is needed in set form: `SetInduction` (a set of numbers that
holds zero and successors is all of them), `Recursion` and `Iteration` (a function with
given steps exists, and is what the recursive definition names), ranks of the members
of a finite set of numbers, the maximum, `OnlyIs` for `Only`, and `ModOwn` for ring
slots.  `Build_proofs` adds the same for trees: `TreeInduction` (a set of expressions that
holds each one whose parts it holds is all of them), `ExprRecursion` (a function given
by what it is on the parts exists), from which `WithinIs`, `ThreadsIs`, `CompiledIs` and
`LowerIs` are the equations of the recursive functions; and `FlattenIs` and `DedupIs` for
the sequences of the control table.  The models name the steps they iterate (`Onward`,
`Reinforced`, `Extended`, `FollowedBy`) as operators of their own, and have no RECURSIVE
operator.

### What is only model-checked

Liveness: `Termination`, `OutstandingSettles`, `DropCompletes`, `Terminates`.  The prover
has no ENABLED, so weak fairness cannot be unfolded.  Every invariant and every action
property of the passing runs is a theorem, and so is the refinement.

## 6. Plan

The modules and runs of the plan are written and its theorems proved.  What would
come next needs more than this: liveness, a prover with ENABLED; the exactness of the
refinement after failures, an abstract specification in which rounds overlap; the parts
of section 7, a reason for `main` to use them.

## 7. Not modelled

Weights, scores and payloads beyond what control depends on; report-only fields;
launching processes and calling models (`egress.rs`, operators library); kernel
source generation; parsing of configuration and topology files.

The streaming variants are second implementations of two interfaces that are
modelled, and `main` does not use them; what sets them apart, buffers that are
reused while a copy is in flight, is ordered by CUDA streams outside this code.  The
parallel service is called by nobody; its threads share only the list they are
joined into.  Contracts, plans and runtime checks are pure functions of one
document.  `PROJECT.json` lists every component with its status.

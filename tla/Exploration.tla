------------------------------ MODULE Exploration ------------------------------
(***************************************************************************)
(* Exploration (cuda/quantale/04_exploration.cuh, src/exploration.rs and   *)
(* src/tensor/exploration_ops.rs): strategies seed tokens that spread over *)
(* the tensor for max_depth rounds, a beam of candidates with different    *)
(* ends and different first hops is selected, and the host commits the     *)
(* best one that its visit limits and the lock policy allow.               *)
(*                                                                         *)
(* Scores, and with them novelty, entropy and receipt priors, only rank    *)
(* candidates: the ranking is left open.                                   *)
(***************************************************************************)
EXTENDS DeviceWorld, Subsequences

CONSTANTS
  Strategies,  \* sequence of start nodes
  LocksOf,     \* effects.locks of the operator of each node
  LockRules,   \* the lock policy: lock -> its exploration access
  MaxTokens,   \* EXPLORATION_MAX_TOKENS
  BeamWidth,
  MaxDepth,
  MaxTerminal, \* max_terminal_visits
  MaxFirstHop, \* max_first_hop_visits
  MaxRounds,   \* bound: explorations the host starts
  MaxFaults    \* bound: CUDA calls that fail

ASSUME ExplorationAssumption ==
  /\ Strategies \in Seq(Node) /\ Strategies # <<>>
  /\ DOMAIN LocksOf = Node
  /\ \A l \in DOMAIN LockRules : LockRules[l] \in [deny : BOOLEAN, allow : SUBSET Node]
  /\ MaxTokens \in Nat
  /\ BeamWidth \in Nat \ {0}
  /\ MaxDepth \in Nat \ {0}
  /\ MaxTerminal \in Nat \ {0}
  /\ MaxFirstHop \in Nat \ {0}
  /\ MaxRounds \in Nat
  /\ MaxFaults \in Nat

VARIABLES
  beam,       \* exploration_selected on the device
  tokens,     \* ExplorationEngine.tokens, as last read back
  selected,   \* ExplorationEngine.selected, as last read back
  terminalVisits, firstHopVisits,
  holding,    \* the candidates best_commit_candidate returned, at most one
  stage,      \* where the host is with it
  rounds, faults,
  fresh       \* history: selected was chosen among tokens

engine       == <<tokens, selected, terminalVisits, firstHopVisits>>
exploreVars  == <<beam, engine, holding, stage, rounds, faults, fresh>>

Token     == [strategy : DOMAIN Strategies, node : Node, depth : 0 .. MaxDepth, parent : Nat]
Candidate == [token : Nat, firstHop : Node, terminal : Node]

-------------------------------------------------------------------------------
(* Tokens.                                                                 *)

Cut(ts) == SubSeq(ts, 1, IF Len(ts) < MaxTokens THEN Len(ts) ELSE MaxTokens)

(* One token for each strategy the start has an entry to.                  *)
Seeds ==
  LET reached == Only([s \in DOMAIN Strategies |-> s],
                      {s \in DOMAIN Strategies : Open(<<Start, Strategies[s]>>)})
  IN  Cut([k \in DOMAIN reached |->
             [strategy |-> reached[k], node |-> Strategies[reached[k]], depth |-> 0, parent |-> 0]])

Children(t, id) ==
  LET ends == Only([d \in 1 .. N |-> d - 1],
                   {d \in 1 .. N : d - 1 # t.node /\ Open(<<t.node, d - 1>>)})
  IN  [k \in DOMAIN ends |->
         [strategy |-> t.strategy, node |-> ends[k], depth |-> t.depth + 1, parent |-> id]]

(* tensor_quantale_expand_tokens for one source depth.                     *)
Spread(ts, depth) ==
  LET grown[id \in 0 .. Len(ts)] ==
        IF id = 0 THEN ts
        ELSE IF ts[id].depth = depth THEN Cut(grown[id - 1] \o Children(ts[id], id))
        ELSE grown[id - 1]
  IN  grown[Len(ts)]

Expanded(depth) ==
  LET spread[d \in 0 .. depth] == IF d = 0 THEN Seeds ELSE Spread(spread[d - 1], d - 1)
  IN  spread[depth]

-------------------------------------------------------------------------------
(* Selection.                                                              *)

(* Wrong: stops one token too early and returns the strategy's own node.   *)
FirstHopRoot(ts, id) ==
  LET root[i \in DOMAIN ts] == IF ts[i].parent = 0 THEN ts[i].node ELSE root[ts[i].parent]
  IN  root[id]

(* The child of the root on the way to the token, or the root itself.      *)
FirstHop(ts, id) ==
  LET up[i \in DOMAIN ts] ==
        IF ts[i].parent = 0 \/ ts[ts[i].parent].parent = 0 THEN ts[i].node
        ELSE up[ts[i].parent]
  IN  up[id]

CandidatesOf(ts) ==
  {[token |-> id, firstHop |-> FirstHop(ts, id), terminal |-> ts[id].node] : id \in DOMAIN ts}

BelowLimits(c) ==
  /\ terminalVisits[c.terminal] < MaxTerminal
  /\ firstHopVisits[c.firstHop] < MaxFirstHop

Clash(c, d) == c.terminal = d.terminal \/ c.firstHop = d.firstHop

(* The beams a greedy selection may end with: no two clash, and one that   *)
(* is short leaves nothing that could join it.                             *)
Beams(ts) ==
  LET allowed == {c \in CandidatesOf(ts) : BelowLimits(c)}
      width   == IF BeamWidth < N THEN BeamWidth ELSE N
  IN  {b \in UNION {[1 .. k -> allowed] : k \in 0 .. width} :
         /\ \A i, j \in DOMAIN b : i # j => ~Clash(b[i], b[j])
         /\ Len(b) < width => \A c \in allowed : \E i \in DOMAIN b : Clash(c, b[i])}

-------------------------------------------------------------------------------
(* The host.                                                               *)

Sync(ts, b, chosenAmong) ==
  /\ tokens' = ts
  /\ selected' = b
  /\ fresh' = (chosenAmong \/ b = <<>>)

Explore ==
  /\ stage = "idle"
  /\ rounds < MaxRounds
  /\ rounds' = rounds + 1
  /\ UNCHANGED <<worldVars, terminalVisits, firstHopVisits, holding, stage>>

(* seed_exploration: new tokens, and whatever beam the device still has.   *)
SeedExploration ==
  /\ Explore
  /\ Sync(Seeds, beam, FALSE)
  /\ UNCHANGED <<beam, faults>>

ExpandExploration ==
  /\ Explore
  /\ \E ts \in {Expanded(MaxDepth)} : \E b \in Beams(ts) :
       /\ beam' = b
       /\ Sync(ts, b, TRUE)
  /\ UNCHANGED faults

(* A call after the seeding fails: the engine keeps what the seeding read  *)
(* back, and the new beam may already be on the device.                    *)
ExpandFails ==
  /\ Explore
  /\ faults < MaxFaults
  /\ faults' = faults + 1
  /\ Sync(Seeds, beam, FALSE)
  /\ beam' \in {beam} \cup UNION {Beams(ts) : ts \in {Expanded(MaxDepth)}}

(* validate_candidate_effect: a lock without a rule denies nothing.  Only  *)
(* the terminal is asked for, not the first hop that will run.             *)
LockDenied(n) ==
  \E l \in LocksOf[n] \cap DOMAIN LockRules :
    LockRules[l].deny /\ n \notin LockRules[l].allow

(* Wrong: the visits since the selection are not looked at again.          *)
CommittableUnchecked(c) == ~LockDenied(c.terminal)

Committable(c) == BelowLimits(c) /\ ~LockDenied(c.terminal)

(* best_commit_candidate: the first of the read back selection.            *)
ChooseCandidate ==
  /\ stage = "idle"
  /\ \E i \in DOMAIN selected :
       /\ Committable(selected[i])
       /\ \A j \in 1 .. i - 1 : ~Committable(selected[j])
       /\ holding' = {selected[i]}
  /\ stage' = "chosen"
  /\ UNCHANGED <<worldVars, beam, engine, rounds, faults, fresh>>

(* The kernel looks neither at consumed nor at the tensor: it takes the    *)
(* edge from the start.                                                    *)
CommitKernel == \E c \in holding : Take({<<Start, c.firstHop>>})

CommitFails ==
  /\ stage = "chosen"
  /\ faults < MaxFaults
  /\ faults' = faults + 1
  /\ stage' = "idle"
  /\ holding' = {}
  /\ UNCHANGED <<worldVars, beam, engine, rounds, fresh>>

MarkCandidateCommitted ==
  /\ stage = "committed"
  /\ \E c \in holding :
       /\ terminalVisits' = [terminalVisits EXCEPT ![c.terminal] = @ + 1]
       /\ firstHopVisits' = [firstHopVisits EXCEPT ![c.firstHop] = @ + 1]
  /\ stage' = "idle"
  /\ holding' = {}
  /\ UNCHANGED <<worldVars, beam, tokens, selected, rounds, faults, fresh>>

ExploreInit ==
  /\ beam = <<>>
  /\ tokens = <<>>
  /\ selected = <<>>
  /\ terminalVisits = [n \in Node |-> 0]
  /\ firstHopVisits = [n \in Node |-> 0]
  /\ holding = {}
  /\ stage = "idle"
  /\ rounds = 0
  /\ faults = 0
  /\ fresh = TRUE

ExploreTypeOK ==
  /\ \A b \in {beam, selected} : b \in Seq(Candidate) /\ Len(b) <= BeamWidth
  /\ tokens \in Seq(Token) /\ Len(tokens) <= MaxTokens
  /\ terminalVisits \in [Node -> Nat]
  /\ firstHopVisits \in [Node -> Nat]
  /\ holding \subseteq Candidate
  /\ (holding = {}) = (stage = "idle")
  /\ stage \in {"idle", "chosen", "committed"}
  /\ rounds \in 0 .. MaxRounds
  /\ faults \in 0 .. MaxFaults
  /\ fresh \in BOOLEAN

-------------------------------------------------------------------------------
(* reconstruct_exploration_path.                                           *)
PathOf(id) ==
  LET path[i \in DOMAIN tokens] ==
        IF tokens[i].parent = 0 THEN <<tokens[i].node>>
        ELSE Append(path[tokens[i].parent], tokens[i].node)
  IN  path[id]

(* As long as the selection belongs to the tokens, what the engine reports *)
(* of a candidate is true of it: the path of its token leads from its      *)
(* strategy to its terminal, the first hop is the first step of that path  *)
(* (or the strategy itself), and no two candidates share an end or a hop.  *)
(* (After a seeding, or an expansion that failed, they need not.)          *)
CandidatesAreWalks ==
  fresh =>
    \A i \in DOMAIN selected :
      \E c \in {selected[i]} : \E path \in {PathOf(c.token)} :
        /\ path[1] = Strategies[tokens[c.token].strategy]
        /\ path[Len(path)] = c.terminal
        /\ c.firstHop = path[IF Len(path) = 1 THEN 1 ELSE 2]
        /\ \A j \in 1 .. i - 1 : ~Clash(selected[j], c)

(* However stale a selection is, committing from it never visits an end or *)
(* a first hop more often than the policy allows.                          *)
VisitsCapped ==
  \A n \in Node : terminalVisits[n] <= MaxTerminal /\ firstHopVisits[n] <= MaxFirstHop
===============================================================================

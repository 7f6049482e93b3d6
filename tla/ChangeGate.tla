----------------------------- MODULE ChangeGate ------------------------------
(***************************************************************************)
(* The causal change gate.  For a push, every model that the base or the   *)
(* head configuration names is read at the base commit and in the checkout *)
(* and compared (graph_delta.py); a forbidden capability that went out of  *)
(* reach is a claimed fix and its old path is replayed.  The gate's result *)
(* is measured for coverage against both configurations, and result and    *)
(* measurement are bound into a client proof.  Several pushes have several *)
(* results, and a result that is kept as a file may be cut.                *)
(***************************************************************************)
EXTENDS Naturals, FiniteSets, Sequences

CONSTANTS
    Base,       \* [config, files]: config maps model ids to paths, files maps paths to models
    Pushes      \* the sequences of heads that are pushed; a head is [config, files]

Missing == [capabilities |-> {}]
Invalid == [capabilities |-> {0}]

VARIABLES
    base,
    heads,      \* the pushes
    current,    \* the push that the gate is at
    results,    \* per push, model id -> [status, reasons]
    cut,        \* pushes whose result lost a model
    measured,   \* per push that was measured: [status, observed, eligible]
    proof       \* [gate, provenance]: the push whose result is bound, or 0

vars == <<base, heads, current, results, cut, measured, proof>>

-----------------------------------------------------------------------------
(***************************************************************************)
(* Reachability models of capabilities, the breadth-first search for the   *)
(* shortest path to a target (reachability.py) and the replay of such a    *)
(* path against a changed model (path_replay.py).  Capabilities and        *)
(* transition ids are numbers in the order of the program's strings.       *)
(*                                                                         *)
(* A model is a record [capabilities, forbidden, transitions, initial,     *)
(* violated, maxDepth]; a transition is [id, source, target, requires,     *)
(* boundary]; a path is [initial, target, edges].                          *)
(***************************************************************************)
IsModel(m) ==
    /\ IsFiniteSet(m.capabilities) /\ m.capabilities \subseteq Nat \ {0}
    /\ IsFiniteSet(m.transitions) /\ \A t \in m.transitions : t.id \in Nat
    /\ m.maxDepth \in Nat
    /\ m.initial # {} /\ m.initial \cup m.forbidden \subseteq m.capabilities
    /\ \A t \in m.transitions : {t.source, t.target} \subseteq m.capabilities
    /\ \A t, u \in m.transitions : t.id = u.id => t = u

NoPath == [initial |-> 0, target |-> 0, edges |-> <<>>]

Traversable(m, t) == t.requires \subseteq m.violated

(* A set in the order of a relation, which is a set of pairs. *)
Sorted(S, before) ==
    CHOOSE s \in [1..Cardinality(S) -> S] : \A i, j \in DOMAIN s : i < j => <<s[i], s[j]>> \in before

Outgoing(m, c) ==
    LET out == {t \in m.transitions : t.source = c /\ Traversable(m, t)}
    IN  Sorted(out, {p \in out \X out : p[1].target < p[2].target \/ (p[1].target = p[2].target /\ p[1].id < p[2].id)})

(* One edge of the node at the head of the queue; s is [queue, visited, found]. *)
TryEdge(node, targets, s, e) ==
    LET next == [initial |-> node.initial, target |-> e.target, edges |-> Append(node.edges, e)]
    IN  IF s.found # NoPath THEN s
        ELSE IF e.target \in targets THEN [s EXCEPT !.found = next]
        ELSE IF e.target \in s.visited THEN s
        ELSE [s EXCEPT !.queue = Append(@, next), !.visited = @ \cup {e.target}]

Pop(m, targets, s) ==
    IF s.queue = <<>> \/ s.found # NoPath THEN s
    ELSE LET node == Head(s.queue)
             edges == IF Len(node.edges) >= m.maxDepth THEN <<>> ELSE Outgoing(m, node.target)
             tried[i \in 0..Len(edges)] ==
                 IF i = 0 THEN [s EXCEPT !.queue = Tail(@)] ELSE TryEdge(node, targets, tried[i - 1], edges[i])
         IN  tried[Len(edges)]

ShortestPath(m, targets) ==
    LET starts == Sorted(m.initial, {p \in m.initial \X m.initial : p[1] < p[2]})
        trivial(c) == [initial |-> c, target |-> c, edges |-> <<>>]
        hits == {i \in DOMAIN starts : starts[i] \in targets}
        search[n \in 0..Cardinality(m.capabilities)] ==
            IF n = 0
            THEN [queue |-> [i \in DOMAIN starts |-> trivial(starts[i])], visited |-> m.initial, found |-> NoPath]
            ELSE Pop(m, targets, search[n - 1])
    IN  IF hits # {} THEN trivial(starts[CHOOSE i \in hits : \A j \in hits : i <= j]) ELSE search[Cardinality(m.capabilities)].found

-----------------------------------------------------------------------------
(* The replay stops at the first step that is gone, rewired or guarded     *)
(* again; the search bound of the model does not limit it.                 *)

Step(m, at, edge) ==
    {t \in m.transitions : t.id = edge.id /\ t.source = edge.source /\ t.target = edge.target
                             /\ t.source = at /\ Traversable(m, t)}

ExactReplay(prior, m) ==
    prior.initial \in m.capabilities /\
    \A i \in DOMAIN prior.edges :
        Step(m, IF i = 1 THEN prior.initial ELSE prior.edges[i - 1].target, prior.edges[i]) # {}

ReplayStatus_FreshSearchOnly(prior, m) ==
    IF prior.target \notin m.forbidden THEN "target_definition_changed"
    ELSE IF ShortestPath(m, {prior.target}) # NoPath THEN "path_eliminated_but_risk_remains"
    ELSE "fix_verified"

ReplayStatus(prior, m) ==
    IF prior.target \notin m.forbidden THEN "target_definition_changed"
    ELSE IF ExactReplay(prior, m) THEN "failing_path_persists"
    ELSE IF ShortestPath(m, {prior.target}) # NoPath THEN "path_eliminated_but_risk_remains"
    ELSE "fix_verified"

-----------------------------------------------------------------------------

(* What git and the configuration loader hand to the gate. *)
IsCommit(c) ==
    /\ IsFiniteSet(DOMAIN c.config) /\ DOMAIN c.config \subseteq Nat /\ \A id \in DOMAIN c.config : c.config[id] \in DOMAIN c.files
    /\ \A path \in DOMAIN c.files : c.files[path] \in {Missing, Invalid} \/ IsModel(c.files[path])

GateAssumption ==
    /\ \A b \in Base : IsCommit(b)
    /\ \A h \in Pushes : \A p \in DOMAIN h : p \in Nat \ {0} /\ IsCommit(h[p]) /\ \A b \in Base : DOMAIN b.files = DOMAIN h[p].files

Init ==
    /\ base \in Base /\ heads \in Pushes
    /\ current = 1
    /\ results = [p \in DOMAIN heads |-> <<>>]
    /\ cut = {} /\ measured = <<>>
    /\ proof = [gate |-> 0, provenance |-> 0]

-----------------------------------------------------------------------------
(* graph_delta: what is reachable within each model's own bound. *)

ReachableForbidden(m) == {c \in m.forbidden : ShortestPath(m, {c}) # NoPath}

Boundaries(m) == {t.boundary : t \in m.transitions} \ {""}

DeltaReasons(b, h) ==
    (IF ReachableForbidden(h) \ ReachableForbidden(b) # {} THEN {"new_forbidden_reachability"} ELSE {}) \cup
    (IF b.forbidden \subseteq h.forbidden THEN {} ELSE {"forbidden_definition_changed"})

FixReplays(b, h) ==
    {ReplayStatus(ShortestPath(b, {c}), h) : c \in ReachableForbidden(b) \ ReachableForbidden(h)}

Blocked(reason) == [status |-> "blocked", reasons |-> {reason}]

Compare(b, h) ==
    LET delta == DeltaReasons(b, h)
        unverified == delta = {} /\ FixReplays(b, h) \ {"fix_verified"} # {}
        reasons == delta \cup IF unverified THEN {"fix_replay_not_verified"} ELSE {}
    IN  [status |-> IF reasons # {} THEN "blocked" ELSE IF Boundaries(b) \subseteq Boundaries(h) THEN "pass" ELSE "review",
         reasons |-> reasons]

Names(config) == DOMAIN config

EvaluateModel(id, head) ==
    IF id \notin Names(head.config) THEN Blocked("configured_model_removed")
    ELSE LET path == head.config[id]
         IN  IF id \in Names(base.config) /\ base.config[id] # path THEN Blocked("configured_model_path_changed")
             ELSE IF base.files[path] = Missing THEN Blocked("base_model_missing")
             ELSE IF head.files[path] = Missing THEN Blocked("head_model_missing")
             ELSE IF Invalid \in {base.files[path], head.files[path]} THEN Blocked("invalid_model")
             ELSE Compare(base.files[path], head.files[path])

Population(head) == Names(base.config) \cup Names(head.config)

(* run_change_gate: the models in the order of their ids. *)
Evaluate ==
    /\ current \in DOMAIN heads
    /\ \E id \in Population(heads[current]) \ DOMAIN results[current] :
          /\ \A other \in Population(heads[current]) \ DOMAIN results[current] : id <= other
          /\ results' = [results EXCEPT ![current] =
                [i \in DOMAIN @ \cup {id} |-> IF i = id THEN EvaluateModel(id, heads[current]) ELSE @[i]]]
    /\ UNCHANGED <<base, heads, current, cut, measured, proof>>

Finish ==
    /\ current \in DOMAIN heads /\ DOMAIN results[current] = Population(heads[current])
    /\ current' = current + 1
    /\ UNCHANGED <<base, heads, results, cut, measured, proof>>

Status(p) ==
    LET statuses == {results[p][id].status : id \in DOMAIN results[p]}
    IN  CHOOSE s \in {"blocked", "review", "pass"} :
            /\ s = "blocked" <=> "blocked" \in statuses
            /\ s = "review" => "review" \in statuses
            /\ s = "pass" => statuses \subseteq {"pass"}

(* A stored result loses the entry of a model. *)
Cut(p) ==
    /\ p < current /\ p \notin cut /\ p \notin DOMAIN measured /\ proof.gate = 0
    /\ \E id \in DOMAIN results[p] : results' = [results EXCEPT ![p] = [i \in DOMAIN @ \ {id} |-> @[i]]]
    /\ cut' = cut \cup {p}
    /\ UNCHANGED <<base, heads, current, measured, proof>>

-----------------------------------------------------------------------------
(* Coverage is complete or the measurement is blocked. *)
Measure(p) ==
    /\ p < current /\ p \notin DOMAIN measured
    /\ LET eligible == Population(heads[p])
           observed == DOMAIN results[p]
           m == [status |-> IF Cardinality(observed) < Cardinality(eligible) THEN "blocked" ELSE "pass",
                 observed |-> observed, config |-> heads[p].config]
       IN  measured' = [q \in DOMAIN measured \cup {p} |-> IF q = p THEN m ELSE measured[q]]
    /\ UNCHANGED <<base, heads, current, results, cut, proof>>

AttachGate(p) ==
    /\ p < current /\ proof.gate = 0
    /\ proof' = [proof EXCEPT !.gate = p]
    /\ UNCHANGED <<base, heads, current, results, cut, measured>>

(* The measurement is derived again from the bound result, whose digest    *)
(* covers its commit, and the configurations that are given, of push q.    *)
AttachProvenance(p, q) ==
    /\ proof.gate # 0 /\ proof.provenance = 0 /\ p \in DOMAIN measured
    /\ measured[p].config = heads[q].config
    /\ heads[p] = heads[proof.gate] /\ results[p] = results[proof.gate] /\ measured[p].observed = DOMAIN results[proof.gate]
    /\ measured[p].status = "pass"
    /\ proof' = [proof EXCEPT !.provenance = p]
    /\ UNCHANGED <<base, heads, current, results, cut, measured>>

Next ==
    \/ Evaluate \/ Finish
    \/ \E p \in DOMAIN heads : Cut(p) \/ Measure(p) \/ AttachGate(p)
    \/ \E p, q \in DOMAIN heads : AttachProvenance(p, q)

Spec == Init /\ [][Next]_vars

-----------------------------------------------------------------------------
(* Whether a walk of n steps, or fewer, leads from an initial capability of m to c. *)
Walks(m, c, n) ==
    LET ends[k \in 0..n] ==
          IF k = 0 THEN m.initial
          ELSE ends[k - 1] \cup {t.target : t \in {t \in m.transitions : Traversable(m, t) /\ t.source \in ends[k - 1]}}
    IN  c \in ends[n]

Kept(h, t) == \E u \in h.transitions : Traversable(h, u) /\ <<u.id, u.source, u.target>> = <<t.id, t.source, t.target>>

(* A shortest walk of b to c that h no longer has, whatever h's bound. *)
LostAShortestWalk(b, h, c) ==
    \E n \in 1..b.maxDepth :
        /\ Walks(b, c, n) /\ ~ Walks(b, c, n - 1)
        /\ \E walk \in [1..n -> {t \in b.transitions : Traversable(b, t)}] :
              /\ walk[1].source \in b.initial /\ walk[n].target = c
              /\ \A i \in 1..(n - 1) : walk[i].target = walk[i + 1].source
              /\ \E i \in 1..n : ~ Kept(h, walk[i])

NoRiskAdded(b, h) ==
    /\ b.forbidden \subseteq h.forbidden
    /\ \A c \in h.forbidden : Walks(h, c, h.maxDepth) => c \in b.forbidden /\ Walks(b, c, b.maxDepth)
    /\ \A c \in b.forbidden :
          Walks(b, c, b.maxDepth) /\ ~ Walks(h, c, h.maxDepth) => LostAShortestWalk(b, h, c)

(***************************************************************************)
(* An authoritative client proof (a bound result that passes, with its     *)
(* measurement) stands for the push it names: every model that base or     *)
(* head configure is configured under the same path and valid at both ends,*)
(* no forbidden capability was relabelled or dropped, none came within     *)
(* reach, and where one went out of reach a shortest way to it is gone, so *)
(* that lowering the bound is not enough.                                  *)
(***************************************************************************)
ProofIsEarned ==
    proof.provenance # 0 /\ Status(proof.gate) # "blocked" =>
        LET head == heads[proof.gate]
        IN  \A id \in Population(head) :
              /\ id \in Names(head.config) /\ id \in Names(base.config) => base.config[id] = head.config[id]
              /\ id \in Names(head.config)
              /\ LET b == base.files[head.config[id]]
                     h == head.files[head.config[id]]
                 IN  {b, h} \cap {Missing, Invalid} = {} /\ NoRiskAdded(b, h)
=============================================================================

-------------------------- MODULE LifecycleLiveness --------------------------
(***************************************************************************)
(* Lifecycle liveness of a Solidity contract: solidity_lattice.py reads    *)
(* the functions of a contract one by one and turns entry guards and state *)
(* writes into transitions; lifecycle_liveness.py searches forwards from   *)
(* the initial state and backwards from the safe terminals and reports     *)
(* every reachable state that holds value and reaches no safe terminal,    *)
(* with the path that the forward search took.  The contract itself runs   *)
(* after the verdict.  States are numbers in the order of their ids.       *)
(***************************************************************************)
EXTENDS Naturals, FiniteSets, Sequences, SequencesExt

CONSTANTS
    States,
    Guards,         \* [shape, states]: a statement before the writes, and the states that its condition names
    Writes,         \* the sets of states that one function may assign
    MaxGuards,
    MaxFunctions

Computed == 0       \* a write whose right-hand side is no enum member

(* "exact": require(state == A || ..) or if (state != A) revert.  "loose": *)
(* if (state != A) with a revert somewhere in its body, which another      *)
(* condition may keep from being met.  "other": a guard on the state that  *)
(* the extractor does not know.                                            *)
LifecycleAssumption ==
    /\ States \subseteq Nat \ {Computed}
    /\ \A g \in Guards : g.shape \in {"exact", "loose", "other"} /\ g.states \subseteq States
    /\ \A w \in Writes : w \subseteq States \cup {Computed}
    /\ MaxGuards \in Nat /\ MaxFunctions \in Nat

VARIABLES
    profile,        \* [initial, holds, safe], reviewed by a person
    functions,      \* the contract: a sequence of [guards, writes]
    read,           \* functions extracted so far
    edges,          \* extracted transitions: [name, source, target]
    unresolved,     \* state writers without an entry guard
    reachable, parent, queue,   \* the forward search
    canReach, back,             \* the backward search
    violations,     \* [state, reason, path]
    verdict,
    at              \* the state of the running contract

input == <<profile, functions>>
extraction == <<read, edges, unresolved>>
forward == <<reachable, parent, queue>>
backward == <<canReach, back>>
vars == <<input, extraction, forward, backward, violations, verdict, at>>

Profiles ==
    {p \in [initial : States, holds : SUBSET States, safe : SUBSET States \ {{}}] : p.holds \cap p.safe = {}}

Init ==
    /\ profile \in Profiles
    /\ functions \in UNION {[1..n -> [guards : UNION {[1..k -> Guards] : k \in 0..MaxGuards}, writes : Writes]] :
                              n \in 0..MaxFunctions}
    /\ read = 0 /\ edges = {} /\ unresolved = {}
    /\ reachable = {} /\ parent = <<>> /\ queue = <<>>
    /\ canReach = {} /\ back = <<>>
    /\ violations = {} /\ verdict = "none" /\ at = profile.initial

-----------------------------------------------------------------------------
(* Extraction: what the recognised guards before the first write name is   *)
(* met; the others are not looked at.  _contains_revert asks only whether  *)
(* there is a revert in the body, so a loose guard is read as an exact one. *)

Meet(guards) == {s \in States : \A g \in Range(guards) : s \in g.states}

Recognised(f) == SelectSeq(f.guards, LAMBDA g : g.shape \in {"exact", "loose"})

SourceStates(f) == IF Recognised(f) = <<>> THEN {} ELSE Meet(Recognised(f))

Targets(f) == f.writes \ {Computed}

Extract ==
    /\ verdict = "none" /\ read < Len(functions)
    /\ read' = read + 1
    /\ LET f == functions[read']
       IN  IF SourceStates(f) = {} /\ Targets(f) # {}
           THEN unresolved' = unresolved \cup {read'} /\ UNCHANGED edges
           ELSE /\ edges' = edges \cup [name : {read'}, source : SourceStates(f), target : Targets(f)]
                /\ UNCHANGED unresolved
    /\ UNCHANGED <<input, forward, backward, violations, verdict, at>>

(* check_ast: nothing is searched unless the extraction is complete. *)
StartSearch ==
    /\ verdict = "none" /\ read = Len(functions)
    /\ IF unresolved # {}
       THEN verdict' = "inconclusive" /\ UNCHANGED <<forward, backward>>
       ELSE /\ verdict' = "searching"
            /\ reachable' = {profile.initial} /\ queue' = <<profile.initial>> /\ parent' = <<>>
            /\ canReach' = profile.safe /\ back' = SetToSortSeq(profile.safe, <)
    /\ UNCHANGED <<input, extraction, violations, at>>

-----------------------------------------------------------------------------
(* The edges of a state are tried in the order of their targets, then ids. *)

Before(e, f) == e.target < f.target \/ (e.target = f.target /\ e.name < f.name)

Outgoing(s) == SetToSortSeq({e \in edges : e.source = s}, Before)

NewTargets(s) == {e.target : e \in Range(Outgoing(s))} \ reachable

FirstEdge(s, t) == SelectSeq(Outgoing(s), LAMBDA e : e.target = t)[1]

Visit ==
    /\ verdict = "searching" /\ queue # <<>>
    /\ LET s == Head(queue)
       IN  /\ reachable' = reachable \cup NewTargets(s)
           /\ parent' = [t \in DOMAIN parent \cup NewTargets(s) |->
                            IF t \in NewTargets(s) THEN FirstEdge(s, t) ELSE parent[t]]
           /\ queue' = Tail(queue) \o SetToSortSeq(NewTargets(s), <)
    /\ UNCHANGED <<input, extraction, backward, violations, verdict, at>>

VisitBack ==
    /\ verdict = "searching" /\ queue = <<>> /\ back # <<>>
    /\ LET fresh == {e.source : e \in {e \in edges : e.target = Head(back)}} \ canReach
       IN  canReach' = canReach \cup fresh /\ back' = Tail(back) \o SetToSortSeq(fresh, <)
    /\ UNCHANGED <<input, extraction, forward, violations, verdict, at>>

PathTo[n \in 0..Cardinality(States), s \in States] ==
    IF n = 0 \/ s = profile.initial THEN <<>> ELSE Append(PathTo[n - 1, parent[s].source], parent[s])

CounterexamplePath(s) == PathTo[Cardinality(States), s]

Trapped_DeadEndsOnly == {s \in reachable \cap profile.holds : Outgoing(s) = <<>>}

Trapped == (reachable \cap profile.holds) \ canReach

Report ==
    /\ verdict = "searching" /\ queue = <<>> /\ back = <<>>
    /\ violations' = {[state |-> s, reason |-> IF Outgoing(s) = <<>> THEN "dead_end" ELSE "trap",
                       path |-> CounterexamplePath(s)] : s \in Trapped}
    /\ verdict' = IF violations' = {} THEN "pass" ELSE "fail"
    /\ UNCHANGED <<input, extraction, forward, backward, at>>

-----------------------------------------------------------------------------
(* The deployed contract: a call passes every guard and writes one target. *)
(* A loose guard lets a call pass in any state.                            *)
Passing(f) == Meet(SelectSeq(f.guards, LAMBDA g : g.shape # "loose"))

Call ==
    /\ verdict \in {"pass", "fail", "inconclusive"}
    /\ \E f \in Range(functions) :
          /\ at \in Passing(f)
          /\ at' \in UNION {IF t = Computed THEN States ELSE {t} : t \in f.writes}
    /\ UNCHANGED <<input, extraction, forward, backward, violations, verdict>>

Next == Extract \/ StartSearch \/ Visit \/ VisitBack \/ Report \/ Call

Spec == Init /\ [][Next]_vars

-----------------------------------------------------------------------------
IsWalk(path, s) ==
    /\ \A i \in DOMAIN path : path[i] \in edges /\ path[i].source = (IF i = 1 THEN profile.initial ELSE path[i - 1].target)
    /\ s = (IF path = <<>> THEN profile.initial ELSE Last(path).target)

(* Whether n transitions or fewer lead from s to a safe terminal. *)
Exits[n \in 0..Cardinality(States), s \in States] ==
    s \in profile.safe \/ (n > 0 /\ \E e \in edges : e.source = s /\ Exits[n - 1, e.target])

HasExit(s) == Exits[Cardinality(States), s]

(* The extractor reads every function for what it does. *)
ReadExactly ==
    \A f \in Range(functions) : Computed \notin f.writes /\ \A g \in Range(f.guards) : g.shape # "loose"

(***************************************************************************)
(* What a verdict says.  Of the extracted graph (the claim boundary of     *)
(* docs/SOLIDITY_TO_LATTICE.md): every state that holds value, is found    *)
(* reachable and has no exit, on a cycle or not, is named by a "fail", and *)
(* what is named is trapped, is reached by the reported path, and by no    *)
(* shorter one.  Of the contract that runs: it is never outside what was   *)
(* found reachable, provided that its writes are enum members and none of  *)
(* its guards reverts on a further condition; the extractor checks neither. *)
(***************************************************************************)
VerdictFitsTheContract ==
    verdict \in {"pass", "fail"} =>
        /\ ReadExactly => at \in reachable
        /\ \A s \in reachable \cap profile.holds : ~ HasExit(s) => \E v \in violations : v.state = s
        /\ \A v \in violations :
              /\ v.state \in profile.holds /\ ~ HasExit(v.state) /\ IsWalk(v.path, v.state)
              /\ v.reason = "dead_end" <=> ~ \E e \in edges : e.source = v.state
              /\ \A n \in 0..(Len(v.path) - 1) : ~ \E path \in [1..n -> edges] : IsWalk(path, v.state)

(***************************************************************************)
(* docs/SOLIDITY_TO_LATTICE.md:53: a state writer that the extractor does  *)
(* not support produces "inconclusive", not "pass".                        *)
(***************************************************************************)
UnsupportedWriterIsInconclusive == verdict = "pass" => \A f \in Range(functions) : Computed \notin f.writes
=============================================================================

----------------------------- MODULE MCExplorers -----------------------------
(***************************************************************************)
(* The explorers on small instances, up to their budgets and the bounds of *)
(* their types.  They do not run together: a behaviour is of one search,   *)
(* its `part`.  The three explorers keep their state in variables of the   *)
(* same names; those that a search does not have stand still.              *)
(***************************************************************************)
EXTENDS Naturals, Sequences, TLC

CONSTANTS
    Parts,          \* the searches that are explored
    Rejected,
    Invariants,     \* what a multi-invariant search evaluates
    Small, Capped,  \* the settings of the deduplicating searches
    Whole, Cut      \* and of the multi-invariant ones

VARIABLES
    part,
    m, pc, depth, target, path, caseIndex,
    frontier, nextFrontier, parentIndex, seenHashes, attemptedTransitions, prunedStates, replayed,
    completedBound, outcomes,      \* of the multi-invariant explorer alone
    candidate, step, replay        \* of the enumerating one

search   == <<m, pc, depth, target, path, caseIndex, frontier, nextFrontier, parentIndex, seenHashes, attemptedTransitions,
              prunedStates, replayed, completedBound, outcomes, candidate, step, replay>>

-----------------------------------------------------------------------------
(* A setting: states, targets over them and the limits of their search.    *)
Setting(states, targets, cases, depths, type, transitions, unique) ==
    [states |-> states, targets |-> targets, cases |-> cases, depth |-> depths, type |-> type,
     transitions |-> transitions, unique |-> unique]

OnAll(t) == [c \in 0 .. 1 |-> t]
FailsIn(bad, states) == [s \in states |-> s \notin bad]
Same(states) == [s \in states |-> s]

(* Deduplication over two step cases: all the targets of three states, up  *)
(* to their names, with a hash that tells every state apart, one that      *)
(* merges all but the start, and one that merges all.  The search does not *)
(* go on from a state that violates; the first state other than the start  *)
(* to be tried is called 1, and what a state that no step leads to would   *)
(* do is of no account.  They run dry or reach the bound.                  *)
ThreeStates == 0 .. 2
LeadsTo(x, s, t) == \E c \in 0 .. 1 : x[s][c] = t
Steps(states) == {x @@ [s \in ThreeStates \ states |-> OnAll(Rejected)] : x \in [states -> [0 .. 1 -> ThreeStates \cup {Rejected}]]}
Named(steps)  == {x \in steps : /\ x[0][0] = 1 \/ (x[0][0] # 2 /\ x[0][1] # 2)
                                /\ LeadsTo(x, 0, 1) \/ x[1] = OnAll(Rejected)
                                /\ LeadsTo(x, 0, 2) \/ LeadsTo(x, 1, 2) \/ x[2] = OnAll(Rejected)}
Hashes        == {Same(ThreeStates), [s \in ThreeStates |-> IF s = 0 THEN 0 ELSE 1], [s \in ThreeStates |-> 0]}

Closed == [start : {{0}}, step : Steps({0, 1}), eval : {FailsIn({2}, ThreeStates)}, hash : Hashes] \cup
          [start : {{0}}, step : Named(Steps(ThreeStates)), eval : {FailsIn({}, ThreeStates)}, hash : Hashes] \cup
          [start : {{0}}, step : Named(Steps({0, 1})), eval : {FailsIn({0}, ThreeStates)}, hash : Hashes]
SmallSetting == Setting(ThreeStates, Closed, 2, 2, 3, 7, 4)

Dedup == INSTANCE StateDedupExplorer WITH
    State <- Small.states, Hash <- Small.states, Evaluation <- BOOLEAN, StepCaseCount <- Small.cases,
    Targets <- Small.targets, MaxDepth <- Small.depth, DepthTypeMax <- Small.type,
    MaxUniqueStates <- Small.unique, MaxAttemptedTransitions <- Small.transitions

(* Chains and trees of four and five states that meet every limit, whose   *)
(* reset may be ambiguous; state 4 violates, or none.  The bound on depth  *)
(* is that of its type.                                                    *)
FiveStates == 0 .. 4
Large == [start : {{0}, {0, 1}},
          step  : {<<x, y, OnAll(z), OnAll(Rejected)>> @@ (0 :> w) :
                     w \in {OnAll(1), <<2>> @@ (0 :> 1)}, x, y \in {OnAll(3), <<4>> @@ (0 :> 3), <<Rejected>> @@ (0 :> 2)},
                     z \in {4, Rejected}},
          eval  : {FailsIn({4}, FiveStates), FailsIn({}, FiveStates)},
          hash  : {Same(FiveStates), [s \in FiveStates |-> s % 2]}]
CappedSetting == Setting(FiveStates, Large, 2, 3, 3, 6, 4)

Edgy == INSTANCE StateDedupExplorer WITH
    State <- Capped.states, Hash <- Capped.states, Evaluation <- BOOLEAN, StepCaseCount <- Capped.cases,
    Targets <- Capped.targets, MaxDepth <- Capped.depth, DepthTypeMax <- Capped.type,
    MaxUniqueStates <- Capped.unique, MaxAttemptedTransitions <- Capped.transitions

(* Several invariants: targets over three states and two step cases, with  *)
(* invariants that fail in different states, in the same, or stay open.    *)
Verdicts(v) == [s \in ThreeStates |-> "a" :> v[s + 1][1] @@ "b" :> v[s + 1][2]]
SeveralTargets ==
    [start : {{0}},
     step  : {x @@ (2 :> OnAll(t)) : x \in [0 .. 1 -> [0 .. 1 -> ThreeStates \cup {Rejected}]],
                                                t \in ThreeStates \cup {Rejected}},
     eval  : {Verdicts(<< <<"Holds", "Holds">>, <<"Violated", "Holds">>, <<"Holds", "Violated">> >>),
              Verdicts(<< <<"Violated", "Holds">>, <<"Holds", "Inconclusive">>, <<"Violated", "Violated">> >>),
              Verdicts(<< <<"Holds", "Holds">>, <<"Inconclusive", "Holds">>, <<"Holds", "Violated">> >>)},
     hash  : Hashes]

WholeSetting == Setting(ThreeStates, SeveralTargets, 2, 2, 2, 6, 3)

MultiEvaluation == [Invariants -> {"Holds", "Violated", "Inconclusive"}]

Multi == INSTANCE MultiInvariantExplorer WITH
    State <- Whole.states, Hash <- Whole.states, Evaluation <- MultiEvaluation, StepCaseCount <- Whole.cases,
    Targets <- Whole.targets, MaxDepth <- Whole.depth, DepthTypeMax <- Whole.type,
    TransitionBudget <- Whole.transitions, UniqueStateBudget <- Whole.unique

(* The same over four states whose reset may be ambiguous, walked with     *)
(* budgets that run out; the last state is where both invariants fail.     *)
FourStates == 0 .. 3
CutTargets ==
    [start : {{0}, {0, 1}},
     step  : {<<x, y, OnAll(z)>> @@ (0 :> w) :
                w \in [0 .. 1 -> {1, 2, Rejected}], x, y \in [0 .. 1 -> {3, Rejected}] \cup {OnAll(2)},
                z \in {0, 3, Rejected}},
     eval  : {[s \in FourStates |-> [i \in Invariants |-> IF s = 3 THEN "Violated" ELSE "Holds"]],
              [s \in FourStates |-> "a" :> "Holds" @@ "b" :> IF s < 2 THEN "Inconclusive" ELSE "Violated"]},
     hash  : {Same(FourStates), [s \in FourStates |-> s % 2]}]
CutSetting == Setting(FourStates, CutTargets, 2, 2, 3, 5, 3)

Limited == INSTANCE MultiInvariantExplorer WITH
    State <- Cut.states, Hash <- Cut.states, Evaluation <- MultiEvaluation, StepCaseCount <- Cut.cases,
    Targets <- Cut.targets, MaxDepth <- Cut.depth, DepthTypeMax <- Cut.type,
    TransitionBudget <- Cut.transitions, UniqueStateBudget <- Cut.unique

(* Enumeration: all targets over three states and two step cases that fail *)
(* in state 2, which the search never steps on from, and over one step     *)
(* case up to the maximum of depth's type.                                 *)
EnumTargets == [start : {{0}, {0, 1}},
                step  : {x @@ (2 :> OnAll(2)) : x \in [0 .. 1 -> [0 .. 1 -> ThreeStates \cup {Rejected}]]},
                eval  : {FailsIn({2}, ThreeStates)},
                hash  : {Same(ThreeStates)}]
EdgeTargets == [start : {{0}, {0, 1}},
                step  : [ThreeStates -> [{0} -> ThreeStates \cup {Rejected}]],
                eval  : [ThreeStates -> BOOLEAN],
                hash  : {Same(ThreeStates)}]

Enum == INSTANCE EnumerativeExplorer WITH
    State <- ThreeStates, Hash <- ThreeStates, Evaluation <- BOOLEAN, StepCaseCount <- 2, Targets <- EnumTargets,
    MaxDepth <- 3, DepthTypeMax <- 4
Edge == INSTANCE EnumerativeExplorer WITH
    State <- ThreeStates, Hash <- ThreeStates, Evaluation <- BOOLEAN, StepCaseCount <- 1, Targets <- EdgeTargets,
    MaxDepth <- 3, DepthTypeMax <- 3

(* The settings are of targets, corpora and limits a harness can have. *)
ASSUME DedupAssumption == Dedup!SearchAssumption /\ Edgy!SearchAssumption
ASSUME MultiAssumption == Multi!WalkAssumption /\ Limited!WalkAssumption
ASSUME EnumAssumption == Enum!SearchAssumption /\ Edge!SearchAssumption

-----------------------------------------------------------------------------
NoFrontier == /\ frontier = "-" /\ nextFrontier = "-" /\ parentIndex = "-" /\ caseIndex = "-" /\ seenHashes = "-"
              /\ attemptedTransitions = "-" /\ prunedStates = "-" /\ replayed = "-"
NoOutcomes == completedBound = "-" /\ outcomes = "-"
NoCandidate == candidate = "-" /\ step = "-" /\ replay = "-"

Init ==
    /\ part \in Parts
    /\ \/ part = "dedup"    /\ Dedup!Init   /\ NoOutcomes /\ NoCandidate
       \/ part = "edgy"     /\ Edgy!Init    /\ NoOutcomes /\ NoCandidate
       \/ part = "multi"    /\ Multi!Init   /\ path = "-" /\ NoCandidate
       \/ part = "limited"  /\ Limited!Init /\ path = "-" /\ NoCandidate
       \/ part = "enum"     /\ Enum!Init    /\ NoFrontier /\ NoOutcomes
       \/ part = "edge"     /\ Edge!Init    /\ NoFrontier /\ NoOutcomes

DedupStep    == part = "dedup"    /\ Dedup!Next   /\ UNCHANGED <<part, completedBound, outcomes, candidate, step, replay>>
EdgyStep     == part = "edgy"     /\ Edgy!Next    /\ UNCHANGED <<part, completedBound, outcomes, candidate, step, replay>>
MultiStep    == part = "multi"    /\ Multi!Next   /\ UNCHANGED <<part, path, candidate, step, replay>>
LimitedStep  == part = "limited"  /\ Limited!Next /\ UNCHANGED <<part, path, candidate, step, replay>>
Frontiers    == <<frontier, nextFrontier, parentIndex, caseIndex, seenHashes, attemptedTransitions, prunedStates, replayed,
                  completedBound, outcomes>>
EnumStep     == part = "enum"     /\ Enum!Next    /\ UNCHANGED <<part, Frontiers>>
EdgeStep     == part = "edge"     /\ Edge!Next    /\ UNCHANGED <<part, Frontiers>>

Next == DedupStep \/ EdgyStep \/ MultiStep \/ LimitedStep \/ EnumStep \/ EdgeStep

(* A search goes on until it ends. *)
Fairness == WF_search(EdgyStep \/ LimitedStep \/ EdgeStep)

Spec == Init /\ [][Next]_<<part, search>> /\ Fairness

-----------------------------------------------------------------------------
(* Pruning by hash answers what enumerating every path would answer: the   *)
(* deduplicating search is a bounded search.                               *)
DedupIsFaithful ==
    /\ (part = "dedup" => Dedup!Search!Init) /\ (part = "edgy" => Edgy!Search!Init)
    /\ [][/\ part = "dedup" => Dedup!Search!Next \/ UNCHANGED Dedup!Search!vars
          /\ part = "edgy" => Edgy!Search!Next \/ UNCHANGED Edgy!Search!vars]_search

(* Whatever limit it meets, the deduplicating search cuts nothing short in *)
(* silence: its answer, its witness and its representatives stand.         *)
DedupIsSound ==
    /\ part = "dedup" => Dedup!SearchIsSound
    /\ part = "edgy" => Edgy!SearchIsSound

(* What the harness returns of each of several invariants can be relied    *)
(* on, also when the walk was cut short by a budget.                       *)
ReportIsSound ==
    /\ part = "multi" => Multi!ReportIsSound
    /\ part = "limited" => Limited!ReportIsSound

(* The enumeration answers as a bounded search does: a violation it reports *)
(* is minimal by step count, a negative answer covers every sequence up to  *)
(* the bound, and the replay of a path that was found confirms it.          *)
EnumerationIsFaithful ==
    /\ part = "enum" => Enum!Search!Init /\ Enum!TypeOK /\ Enum!ReplayConfirms
    /\ [][part = "enum" => Enum!TypeOK' /\ Enum!ReplayConfirms' /\ (Enum!Search!Next \/ UNCHANGED Enum!Search!vars)]_search

(* Every search ends, at whatever limit of budget or type it meets.        *)
SearchesEnd ==
    part \in {"edgy", "limited", "edge"} ~>
        pc \in {"returned", "multi replay drift", "replayed"} \cup Edgy!Returned \cup Edgy!Reverted
=============================================================================

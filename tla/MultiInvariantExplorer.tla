---------------------- MODULE MultiInvariantExplorer ----------------------
(***************************************************************************)
(* MultiInvariantStateExplorerHarness._exploreAllInvariants: one breadth-  *)
(* first walk that evaluates every declared invariant on every accepted    *)
(* child, goes on past violations, and classifies each invariant at the    *)
(* end.  Unlike the single-invariant search it does not revert when a      *)
(* budget runs out: it stops with completedBound = false.                  *)
(***************************************************************************)
EXTENDS TargetMachine, FiniteSets

CONSTANTS
    Targets,           \* the targets that are explored
    Invariants,        \* the declared invariants
    MaxDepth,          \* the bound, uint8 maxDepth
    DepthTypeMax,      \* largest value of depth's type (255 for uint8)
    TransitionBudget,  \* transitionBudget
    UniqueStateBudget  \* uniqueStateBudget

TargetsAssumption == Targets \subseteq Machine
EvaluationAssumption ==
    Evaluation = [Invariants -> {"Holds", "Violated", "Inconclusive"}]
BoundsAssumption ==
    /\ MaxDepth \in Nat \ {0}
    /\ DepthTypeMax \in Nat /\ MaxDepth <= DepthTypeMax
    /\ TransitionBudget \in Nat \ {0}
    /\ UniqueStateBudget \in Nat \ {0}

WalkAssumption ==
    /\ StepCaseCountAssumption /\ RejectedAssumption
    /\ TargetsAssumption /\ EvaluationAssumption /\ BoundsAssumption

VARIABLES
    m,            \* the target's behaviour, fixed for a search
    pc,           \* where the search is, or how it ended
    depth, frontier, parentIndex,   \* the level being expanded
    nextFrontier, caseIndex,
    seenHashes, attemptedTransitions, prunedStates, completedBound,
    target,       \* the live target's state
    replayed,     \* how much of the parent's path has been replayed on it
    outcomes      \* per invariant, what has been observed so far

levels == <<depth, frontier, parentIndex>>
stats  == <<seenHashes, attemptedTransitions, prunedStates, completedBound>>
live   == <<target, replayed>>
vars   == <<m, pc, levels, nextFrontier, caseIndex, stats, live, outcomes>>

Outcome == [status : {"Unresolved", "Violated", "NotFoundWithinBound", "Inconclusive"},
            path : Seq(Cases), exploredCandidates : Nat, sawInconclusive : BOOLEAN]

Unresolved == [status |-> "Unresolved", path |-> <<>>,
               exploredCandidates |-> 0, sawInconclusive |-> FALSE]

uniqueStates == Cardinality(seenHashes)
parentPath   == frontier[parentIndex]
child        == m.step[target][caseIndex]

Init ==
    /\ m \in Targets
    /\ pc = "case"
    /\ depth = 1 /\ frontier = << <<>> >> /\ parentIndex = 1
    /\ nextFrontier = <<>>
    /\ caseIndex = 0
    /\ target \in m.start
    /\ seenHashes = {m.hash[target]}
    /\ attemptedTransitions = 0 /\ prunedStates = 0
    /\ completedBound = TRUE
    /\ replayed = 0
    /\ outcomes = [i \in Invariants |-> Unresolved]

(* The transition budget is spent: the inner loops are left. *)
BudgetSpent ==
    /\ pc = "case"
    /\ attemptedTransitions >= TransitionBudget
    /\ completedBound' = FALSE
    /\ pc' = "level"
    /\ UNCHANGED <<m, levels, nextFrontier, caseIndex, seenHashes,
                   attemptedTransitions, prunedStates, live, outcomes>>

ResetTarget ==
    /\ pc = "case"
    /\ attemptedTransitions < TransitionBudget
    /\ target' \in m.start
    /\ replayed' = 0
    /\ pc' = "replay"
    /\ UNCHANGED <<m, levels, nextFrontier, caseIndex, stats, outcomes>>

ReplayStep ==
    /\ pc = "replay"
    /\ replayed < Len(parentPath)
    /\ target' = m.step[target][parentPath[replayed + 1]]
    /\ target' # Rejected
    /\ replayed' = replayed + 1
    /\ UNCHANGED <<m, pc, levels, nextFrontier, caseIndex, stats, outcomes>>

ReplayDrift ==
    /\ pc = "replay"
    /\ replayed < Len(parentPath)
    /\ m.step[target][parentPath[replayed + 1]] = Rejected
    /\ pc' = "multi replay drift"
    /\ UNCHANGED <<m, levels, nextFrontier, caseIndex, stats, live, outcomes>>

Attempt ==
    /\ pc = "replay"
    /\ replayed = Len(parentPath)
    /\ attemptedTransitions' = attemptedTransitions + 1
    /\ UNCHANGED <<m, levels, caseIndex, replayed>>

StepRejected ==
    /\ Attempt
    /\ child = Rejected
    /\ pc' = "next"
    /\ UNCHANGED <<nextFrontier, seenHashes, prunedStates, completedBound,
                   target, outcomes>>

(* _evaluateAllInvariants for one invariant: the first violation is kept. *)
Evaluated(o, verdict) ==
    IF o.status = "Violated" THEN o
    ELSE IF verdict = "Violated"
    THEN [o EXCEPT !.status = "Violated",
                   !.path = Append(parentPath, caseIndex),
                   !.exploredCandidates = attemptedTransitions + 1]
    ELSE [o EXCEPT !.sawInconclusive = @ \/ verdict = "Inconclusive"]

ChildEvaluated_AfterPruning ==
    /\ Attempt
    /\ child # Rejected
    /\ target' = child
    /\ outcomes' = IF m.hash[child] \in seenHashes THEN outcomes
                   ELSE [i \in Invariants |-> Evaluated(outcomes[i], m.eval[child][i])]

(* Every invariant is evaluated on an accepted child before it is looked up. *)
ChildEvaluated ==
    /\ Attempt
    /\ child # Rejected
    /\ target' = child
    /\ outcomes' = [i \in Invariants |-> Evaluated(outcomes[i], m.eval[child][i])]

AlreadySeen == m.hash[child] \in seenHashes

PruneEquivalent ==
    /\ ChildEvaluated
    /\ AlreadySeen
    /\ prunedStates' = prunedStates + 1
    /\ pc' = "next"
    /\ UNCHANGED <<nextFrontier, seenHashes, completedBound>>

RoomForState ==
    uniqueStates < UniqueStateBudget /\ Len(nextFrontier) < UniqueStateBudget

StateBudgetSpent ==
    /\ ChildEvaluated
    /\ ~ AlreadySeen
    /\ ~ RoomForState
    /\ completedBound' = FALSE
    /\ pc' = "level"
    /\ UNCHANGED <<nextFrontier, seenHashes, prunedStates>>

RecordState ==
    /\ ChildEvaluated
    /\ ~ AlreadySeen
    /\ RoomForState
    /\ seenHashes' = seenHashes \cup {m.hash[child]}
    /\ nextFrontier' = Append(nextFrontier, Append(parentPath, caseIndex))
    /\ pc' = "next"
    /\ UNCHANGED <<prunedStates, completedBound>>

-----------------------------------------------------------------------------
unchangedByLoops == <<m, stats, live, outcomes>>

MoreCases            == caseIndex + 1 < StepCaseCount

MoreParents == parentIndex < Len(frontier)

NextCase ==
    /\ pc = "next"
    /\ MoreCases
    /\ caseIndex' = caseIndex + 1
    /\ pc' = "case"
    /\ UNCHANGED <<levels, nextFrontier, unchangedByLoops>>

NextParent ==
    /\ pc = "next"
    /\ ~ MoreCases
    /\ MoreParents
    /\ parentIndex' = parentIndex + 1
    /\ caseIndex' = 0
    /\ pc' = "case"
    /\ UNCHANGED <<depth, frontier, nextFrontier, unchangedByLoops>>

(* The frontier is expanded, or a budget cut its expansion short. *)
LevelDone == pc = "level" \/ (pc = "next" /\ ~ MoreCases /\ ~ MoreParents)

NextLevel ==
    /\ LevelDone
    /\ nextFrontier # <<>>
    /\ completedBound
    /\ depth < MaxDepth
    /\ depth' = depth + 1
    /\ frontier' = nextFrontier
    /\ nextFrontier' = <<>>
    /\ parentIndex' = 1
    /\ caseIndex' = 0
    /\ pc' = "case"
    /\ UNCHANGED unchangedByLoops

SearchEnds ==
    /\ LevelDone
    /\ \/ nextFrontier = <<>>
       \/ depth < DepthTypeMax /\ (depth = MaxDepth \/ ~ completedBound)
    /\ pc' = "classify"
    /\ UNCHANGED <<levels, nextFrontier, caseIndex, unchangedByLoops>>

(* depth++ is evaluated before the loop's condition, even after a budget cut. *)
DepthOverflow ==
    /\ LevelDone
    /\ nextFrontier # <<>>
    /\ depth = DepthTypeMax
    /\ pc' = "panic"
    /\ UNCHANGED <<levels, nextFrontier, caseIndex, unchangedByLoops>>

FinalStatus(o) ==
    IF o.status = "Violated" THEN "Violated"
    ELSE IF ~ completedBound \/ o.sawInconclusive THEN "Inconclusive"
    ELSE "NotFoundWithinBound"

(* Every invariant gets its final class, all in one pass. *)
Classify ==
    /\ pc = "classify"
    /\ outcomes' = [i \in Invariants |->
            [outcomes[i] EXCEPT
                !.status = FinalStatus(outcomes[i]),
                !.exploredCandidates = IF outcomes[i].status = "Violated"
                                       THEN @ ELSE attemptedTransitions]]
    /\ pc' = "returned"
    /\ UNCHANGED <<m, levels, nextFrontier, caseIndex, stats, live>>

Next ==
    \/ BudgetSpent \/ ResetTarget \/ ReplayStep \/ ReplayDrift
    \/ StepRejected \/ PruneEquivalent \/ StateBudgetSpent \/ RecordState
    \/ NextCase \/ NextParent \/ NextLevel \/ SearchEnds \/ DepthOverflow
    \/ Classify

Spec == Init /\ [][Next]_vars

(* The search is a sequential call: the EVM runs it until it returns. *)
FairSpec == Spec /\ WF_vars(Next)

-----------------------------------------------------------------------------
TypeOK ==
    /\ m \in Targets
    /\ pc \in {"case", "replay", "next", "level", "classify", "returned",
               "multi replay drift", "panic"}
    /\ depth \in 1 .. MaxDepth
    /\ frontier \in Seq(Seq(Cases))
    /\ nextFrontier \in Seq(Seq(Cases))
    /\ parentIndex \in 1 .. Len(frontier)
    /\ caseIndex \in Cases
    /\ seenHashes \subseteq Hash
    /\ attemptedTransitions \in 0 .. TransitionBudget
    /\ prunedStates \in Nat
    /\ completedBound \in BOOLEAN
    /\ target \in State
    /\ replayed \in Nat
    /\ outcomes \in [Invariants -> Outcome]

(* What docs/STATE_DEDUP.md requires of the engagement's hooks. *)
HookContract == DeterministicReset(m) /\ CompleteHash(m)

(* Some run of at most d accepted steps ends where i evaluates to verdict. *)
Occurs(i, verdict, d) == \E s \in ReachedWithin(m, d) : m.eval[s][i] = verdict

(***************************************************************************)
(* An invariant reported NotFoundWithinBound held, conclusively, at the    *)
(* end of every run within the bound, though other invariants failed on    *)
(* the way, states were pruned and budgets may have been hit.              *)
(***************************************************************************)
ClearedInvariantsHold ==
    pc = "returned" /\ HookContract =>
        \A i \in Invariants : outcomes[i].status = "NotFoundWithinBound" =>
            ~ Occurs(i, "Violated", MaxDepth) /\ ~ Occurs(i, "Inconclusive", MaxDepth)

(***************************************************************************)
(* A walk that completed its bound misses no violation of any invariant.   *)
(***************************************************************************)
CompletedWalkFindsAll ==
    pc = "returned" /\ completedBound /\ HookContract =>
        \A i \in Invariants :
            Occurs(i, "Violated", MaxDepth) => outcomes[i].status = "Violated"

(***************************************************************************)
(* Inconclusive is not an evasion: it is reported of an invariant only if  *)
(* the walk was cut short or that very invariant evaluated inconclusively  *)
(* in a state the target reaches.                                          *)
(***************************************************************************)
InconclusiveIsJustified ==
    pc = "returned" =>
        \A i \in Invariants : outcomes[i].status = "Inconclusive" =>
            ~ completedBound \/ Occurs(i, "Inconclusive", MaxDepth)

(***************************************************************************)
(* The witness kept for an invariant reproduces from a reset and ends in a *)
(* violation of that invariant, whatever the engagement's hooks do.        *)
(***************************************************************************)
WitnessesReproduce ==
    \A i \in Invariants : outcomes[i].status = "Violated" =>
        LET p == outcomes[i].path
        IN  \E r \in [0 .. Len(p) -> State] :
                RunAlong(m, p, r) /\ m.eval[r[Len(p)]][i] = "Violated"

(* ... and no shorter run violates it, even in a walk that was cut short.  *)
WitnessesAreShortest ==
    HookContract =>
        \A i \in Invariants : outcomes[i].status = "Violated" =>
            ~ Occurs(i, "Violated", Len(outcomes[i].path) - 1)

(* Every search ends: it returns its outcomes or reverts. *)
Terminates == <>(pc \in {"returned", "multi replay drift", "panic"})

(***************************************************************************)
(* What the harness returns of every invariant can be relied on, each on   *)
(* its own: cleared ones hold, violated ones have a shortest witness that  *)
(* reproduces, none is missed by a completed walk, and inconclusive ones   *)
(* are so for a reason.                                                    *)
(***************************************************************************)
ReportIsSound ==
    /\ TypeOK
    /\ ClearedInvariantsHold
    /\ CompletedWalkFindsAll
    /\ InconclusiveIsJustified
    /\ WitnessesReproduce
    /\ WitnessesAreShortest
=============================================================================

------------------------ MODULE StateDedupExplorer ------------------------
(***************************************************************************)
(* StateDedupPathExplorerHarness._exploreUniqueStates: breadth-first       *)
(* search of a target's step corpus that keeps one representative path for *)
(* every state hash.  The harness holds no copy of a state: before every   *)
(* candidate step it resets the target and replays the parent's path, so   *)
(* the live target is part of the state here and the replay goes one       *)
(* accepted step at a time.                                                *)
(***************************************************************************)
EXTENDS TargetMachine, FiniteSets

CONSTANTS
    Targets,                 \* the targets that are explored
    MaxDepth,                \* the bound, uint8 maxDepth
    DepthTypeMax,            \* largest value of depth's type (255 for uint8)
    MaxUniqueStates,         \* MAX_UNIQUE_STATES (4096)
    MaxAttemptedTransitions  \* MAX_ATTEMPTED_TRANSITIONS (65536)

TargetsAssumption == Targets \subseteq Machine
EvaluationAssumption == Evaluation = BOOLEAN
StateFinite == IsFiniteSet(State)
BoundsAssumption ==
    /\ MaxDepth \in Nat \ {0}
    /\ DepthTypeMax \in Nat /\ MaxDepth <= DepthTypeMax
    /\ MaxUniqueStates \in Nat \ {0}
    /\ MaxAttemptedTransitions \in Nat

SearchAssumption ==
    /\ StepCaseCountAssumption /\ RejectedAssumption /\ StateFinite
    /\ TargetsAssumption /\ EvaluationAssumption /\ BoundsAssumption

VARIABLES
    m,            \* the target's behaviour, fixed for a search
    pc,           \* where the search is, or how it ended
    depth,        \* the level being expanded
    frontier,     \* the representative paths of the level above
    nextFrontier, \* those found at this level, in order
    parentIndex,  \* the frontier entry being expanded
    caseIndex,    \* the step being tried on it
    seenHashes,   \* each hash recorded, with the depth it was recorded at
    attemptedTransitions,
    prunedStates,
    target,       \* the live target's state
    replayed,     \* how much of the parent's path has been replayed on it
    path          \* the violating path returned

vars == <<m, pc, depth, frontier, nextFrontier, parentIndex, caseIndex,
          seenHashes, attemptedTransitions, prunedStates, target, replayed,
          path>>

levels == <<depth, frontier, parentIndex>>
stats  == <<seenHashes, attemptedTransitions, prunedStates>>

Returned == {"found", "notFound"}
Reverted == {"replay drift", "transition budget", "state cap", "panic"}

uniqueStates == Cardinality(DOMAIN seenHashes)
parentPath   == frontier[parentIndex]

(* What the candidate step makes of the live target. *)
child == m.step[target][caseIndex]

-----------------------------------------------------------------------------
Init ==
    /\ m \in Targets
    /\ pc = "reset"
    /\ depth = 1
    /\ frontier = << <<>> >>
    /\ nextFrontier = <<>>
    /\ parentIndex = 1
    /\ caseIndex = 0
    /\ target \in m.start
    /\ seenHashes = [h \in {m.hash[target]} |-> 0]
    /\ attemptedTransitions = 0
    /\ prunedStates = 0
    /\ replayed = 0
    /\ path = <<>>

(* _resetTarget() before each candidate. *)
ResetTarget ==
    /\ pc = "reset"
    /\ target' \in m.start
    /\ replayed' = 0
    /\ pc' = "replay"
    /\ UNCHANGED <<m, levels, nextFrontier, caseIndex, stats, path>>

(* One iteration of _replayAcceptedPrefix that the target accepts. *)
ReplayStep ==
    /\ pc = "replay"
    /\ replayed < Len(parentPath)
    /\ target' = m.step[target][parentPath[replayed + 1]]
    /\ target' # Rejected
    /\ replayed' = replayed + 1
    /\ UNCHANGED <<m, pc, levels, nextFrontier, caseIndex, stats, path>>

(* A representative path that no longer replays reverts the search. *)
ReplayDrift ==
    /\ pc = "replay"
    /\ replayed < Len(parentPath)
    /\ m.step[target][parentPath[replayed + 1]] = Rejected
    /\ pc' = "replay drift"
    /\ UNCHANGED <<m, levels, nextFrontier, caseIndex, stats, target,
                   replayed, path>>

(* The parent's state is restored: the candidate step may be attempted. *)
AtParent == pc = "replay" /\ replayed = Len(parentPath)

TransitionBudgetSpent_GivesUp ==
    /\ AtParent
    /\ attemptedTransitions >= MaxAttemptedTransitions
    /\ pc' = "notFound"
    /\ UNCHANGED <<m, levels, nextFrontier, caseIndex, stats, target,
                   replayed, path>>

(* require(attemptedTransitions < MAX_ATTEMPTED_TRANSITIONS) fails. *)
TransitionBudgetSpent ==
    /\ AtParent
    /\ attemptedTransitions >= MaxAttemptedTransitions
    /\ pc' = "transition budget"
    /\ UNCHANGED <<m, levels, nextFrontier, caseIndex, stats, target,
                   replayed, path>>

(* The candidate step is executed and counted; it moves the target if it is *)
(* accepted. *)
Attempt ==
    /\ AtParent
    /\ attemptedTransitions < MaxAttemptedTransitions
    /\ attemptedTransitions' = attemptedTransitions + 1
    /\ target' = IF child = Rejected THEN target ELSE child
    /\ UNCHANGED <<m, levels, caseIndex, replayed>>

StepRejected ==
    /\ Attempt
    /\ child = Rejected
    /\ pc' = "next"
    /\ UNCHANGED <<nextFrontier, seenHashes, prunedStates, path>>

InvariantFails_AfterPruning ==
    ~ m.eval[child] /\ m.hash[child] \notin DOMAIN seenHashes

(* ~ _invariantHolds(), asked of the child before its hash is looked up. *)
InvariantFails == ~ m.eval[child]

Violation ==
    /\ Attempt
    /\ child # Rejected
    /\ InvariantFails
    /\ pc' = "found"
    /\ path' = Append(parentPath, caseIndex)
    /\ UNCHANGED <<nextFrontier, seenHashes, prunedStates>>

ChildHolds == child # Rejected /\ ~ InvariantFails

(* _containsHash(seenHashes, seenCount, stateHash) *)
AlreadySeen == m.hash[child] \in DOMAIN seenHashes

PruneEquivalent ==
    /\ Attempt
    /\ ChildHolds
    /\ AlreadySeen
    /\ prunedStates' = prunedStates + 1
    /\ pc' = "next"
    /\ UNCHANGED <<nextFrontier, seenHashes, path>>

(* Both stores have room: the hash array and the next frontier. *)
RoomForState ==
    uniqueStates < MaxUniqueStates /\ Len(nextFrontier) < MaxUniqueStates

StateCapReached ==
    /\ Attempt
    /\ ChildHolds
    /\ ~ AlreadySeen
    /\ ~ RoomForState
    /\ pc' = "state cap"
    /\ UNCHANGED <<nextFrontier, seenHashes, prunedStates, path>>

RecordState ==
    /\ Attempt
    /\ ChildHolds
    /\ ~ AlreadySeen
    /\ RoomForState
    /\ seenHashes' = [h \in DOMAIN seenHashes \cup {m.hash[child]} |->
                        IF h \in DOMAIN seenHashes THEN seenHashes[h] ELSE depth]
    /\ nextFrontier' = Append(nextFrontier, Append(parentPath, caseIndex))
    /\ pc' = "next"
    /\ UNCHANGED <<prunedStates, path>>

-----------------------------------------------------------------------------
(* The three loops: over the step corpus, the frontier and the depth. *)
unchangedByLoops == <<m, stats, target, replayed, path>>

MoreCases            == caseIndex + 1 < StepCaseCount

MoreParents           == parentIndex < Len(frontier)

NextCase ==
    /\ pc = "next"
    /\ MoreCases
    /\ caseIndex' = caseIndex + 1
    /\ pc' = "reset"
    /\ UNCHANGED <<levels, nextFrontier, unchangedByLoops>>

NextParent ==
    /\ pc = "next"
    /\ ~ MoreCases
    /\ MoreParents
    /\ parentIndex' = parentIndex + 1
    /\ caseIndex' = 0
    /\ pc' = "reset"
    /\ UNCHANGED <<depth, frontier, nextFrontier, unchangedByLoops>>

(* The level is expanded: its children become the frontier. *)
LevelDone == pc = "next" /\ ~ MoreCases /\ ~ MoreParents

NextLevel ==
    /\ LevelDone
    /\ nextFrontier # <<>>
    /\ depth < MaxDepth
    /\ depth' = depth + 1
    /\ frontier' = nextFrontier
    /\ nextFrontier' = <<>>
    /\ parentIndex' = 1
    /\ caseIndex' = 0
    /\ pc' = "reset"
    /\ UNCHANGED unchangedByLoops

(* Nothing left to expand, or the bound is reached. *)
SearchExhausted ==
    /\ LevelDone
    /\ \/ nextFrontier = <<>>
       \/ depth = MaxDepth /\ MaxDepth < DepthTypeMax
    /\ pc' = "notFound"
    /\ UNCHANGED <<levels, nextFrontier, caseIndex, unchangedByLoops>>

(* depth++ overflows its type, which checked arithmetic turns into a panic. *)
DepthOverflow ==
    /\ LevelDone
    /\ nextFrontier # <<>>
    /\ depth = DepthTypeMax
    /\ pc' = "panic"
    /\ UNCHANGED <<levels, nextFrontier, caseIndex, unchangedByLoops>>

Next ==
    \/ ResetTarget \/ ReplayStep \/ ReplayDrift
    \/ TransitionBudgetSpent
    \/ StepRejected \/ Violation \/ PruneEquivalent
    \/ StateCapReached \/ RecordState
    \/ NextCase \/ NextParent \/ NextLevel \/ SearchExhausted \/ DepthOverflow

Spec == Init /\ [][Next]_vars

(* The search is a sequential call: the EVM runs it until it returns. *)
FairSpec == Spec /\ WF_vars(Next)

-----------------------------------------------------------------------------
TypeOK ==
    /\ m \in Targets
    /\ pc \in {"reset", "replay", "next"} \cup Returned \cup Reverted
    /\ depth \in 1 .. MaxDepth
    /\ frontier \in Seq(Seq(Cases))
    /\ nextFrontier \in Seq(Seq(Cases))
    /\ parentIndex \in 1 .. Len(frontier)
    /\ caseIndex \in Cases
    /\ DOMAIN seenHashes \subseteq Hash
    /\ seenHashes \in [DOMAIN seenHashes -> 0 .. MaxDepth]
    /\ attemptedTransitions \in 0 .. MaxAttemptedTransitions
    /\ prunedStates \in Nat
    /\ target \in State
    /\ replayed \in Nat
    /\ path \in Seq(Cases)

(* What docs/STATE_DEDUP.md requires of the engagement's hooks. *)
HookContract == DeterministicReset(m) /\ CompleteHash(m)

HoldsWithin(d) == \A s \in ReachedWithin(m, d) : m.eval[s]

(***************************************************************************)
(* A search that returns found = false has not missed anything: although   *)
(* it expands one path per hash, no run of at most maxDepth accepted steps *)
(* breaks the invariant.                                                   *)
(***************************************************************************)
NotFoundIsSound == pc = "notFound" /\ HookContract => HoldsWithin(MaxDepth)

verdict == IF pc \in Reverted THEN "reverted"
           ELSE IF pc \in Returned THEN pc ELSE "searching"

Search == INSTANCE BoundedSearch WITH trusted <- HookContract

(***************************************************************************)
(* The search implements the bounded search that enumerating every path    *)
(* implements: pruning by hash changes the work it does, not its answers.  *)
(***************************************************************************)
SearchesBounded == Search!Spec

(***************************************************************************)
(* When the frontier runs dry before the bound the answer holds beyond it: *)
(* every state the target can reach satisfies the invariant.               *)
(***************************************************************************)
DryFrontierIsComplete ==
    pc = "notFound" /\ nextFrontier = <<>> /\ HookContract =>
        HoldsWithin(Cardinality(State))

(***************************************************************************)
(* The violating path returned is real (it runs on the target from a reset *)
(* and ends in a violation) whether or not the hooks keep their contract.  *)
(***************************************************************************)
FoundPathViolates ==
    pc = "found" =>
        \E r \in [0 .. Len(path) -> State] :
            RunAlong(m, path, r) /\ ~ m.eval[r[Len(path)]]

(* ... and it is minimal by step count: no shorter run violates. *)
FoundPathIsShortest ==
    pc = "found" /\ HookContract => HoldsWithin(Len(path) - 1)

(***************************************************************************)
(* Each hash is recorded at the least number of steps that reaches it, so  *)
(* the representative kept for it is a shortest one.                       *)
(***************************************************************************)
RepresentativesAreShortest ==
    HookContract =>
        \A d \in 1 .. MaxDepth : \A s \in ReachedWithin(m, d) :
            m.hash[s] \in DOMAIN seenHashes => seenHashes[m.hash[s]] <= d

(* Every search ends: it returns an answer or reverts. *)
Terminates == <>(pc \in Returned \cup Reverted)

(***************************************************************************)
(* What the harness returns can be relied on: "not found" was not cut      *)
(* short and, from a dry frontier, holds for ever; "found" is a violation  *)
(* that reproduces and a shortest one; pruning kept a shortest             *)
(* representative of every hash.                                           *)
(***************************************************************************)
SearchIsSound ==
    /\ TypeOK
    /\ NotFoundIsSound
    /\ DryFrontierIsComplete
    /\ FoundPathViolates
    /\ FoundPathIsShortest
    /\ RepresentativesAreShortest
=============================================================================

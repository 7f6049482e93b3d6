-------------------------- MODULE ExplorerProofs --------------------------
(***************************************************************************)
(* Proofs about the searches of MCExplorers, whatever their settings: the  *)
(* proofs about each explorer are instantiated as MCExplorers instantiates *)
(* the explorer, so that the same definitions meet under two names.        *)
(***************************************************************************)
EXTENDS MCExplorers, TLAPS

DedupP == INSTANCE StateDedupProofs WITH
    State <- Small.states, Hash <- Small.states, Evaluation <- BOOLEAN, StepCaseCount <- Small.cases,
    Targets <- Small.targets, MaxDepth <- Small.depth, DepthTypeMax <- Small.type,
    MaxUniqueStates <- Small.unique, MaxAttemptedTransitions <- Small.transitions

EdgyP == INSTANCE StateDedupProofs WITH
    State <- Capped.states, Hash <- Capped.states, Evaluation <- BOOLEAN, StepCaseCount <- Capped.cases,
    Targets <- Capped.targets, MaxDepth <- Capped.depth, DepthTypeMax <- Capped.type,
    MaxUniqueStates <- Capped.unique, MaxAttemptedTransitions <- Capped.transitions

MultiP == INSTANCE MultiInvariantProofs WITH
    State <- Whole.states, Hash <- Whole.states, Evaluation <- MultiEvaluation, StepCaseCount <- Whole.cases,
    Targets <- Whole.targets, MaxDepth <- Whole.depth, DepthTypeMax <- Whole.type,
    TransitionBudget <- Whole.transitions, UniqueStateBudget <- Whole.unique

LimitedP == INSTANCE MultiInvariantProofs WITH
    State <- Cut.states, Hash <- Cut.states, Evaluation <- MultiEvaluation, StepCaseCount <- Cut.cases,
    Targets <- Cut.targets, MaxDepth <- Cut.depth, DepthTypeMax <- Cut.type,
    TransitionBudget <- Cut.transitions, UniqueStateBudget <- Cut.unique

-----------------------------------------------------------------------------
(* What is assumed of the settings of Dedup. *)
LEMMA DedupAssumed == DedupP!SearchAssumption
  BY DedupAssumption DEF
     Dedup!SearchAssumption, DedupP!SearchAssumption, Dedup!StepCaseCountAssumption, DedupP!StepCaseCountAssumption,
     Dedup!RejectedAssumption, DedupP!RejectedAssumption, Dedup!StateFinite, DedupP!StateFinite,
     Dedup!TargetsAssumption, DedupP!TargetsAssumption, Dedup!EvaluationAssumption, DedupP!EvaluationAssumption,
     Dedup!BoundsAssumption, DedupP!BoundsAssumption, Dedup!Machine, DedupP!Machine, Dedup!Cases, DedupP!Cases,
     Dedup!IsFiniteSet, DedupP!IsFiniteSet

(* Dedup starts in its inductive invariant ... *)
LEMMA DedupStarts == Dedup!Init => DedupP!SoundInv
<1>1. Dedup!Init => DedupP!Init
  BY DEF Dedup!Init, DedupP!Init
<1> QED
  BY <1>1, DedupAssumed, DedupP!SearchStarts

(* ... and stays in it. *)
LEMMA DedupGoesOn == DedupP!SoundInv /\ [Dedup!Next]_(Dedup!vars) => DedupP!SoundInv'
<1>1. [Dedup!Next]_(Dedup!vars) => [DedupP!Next]_(DedupP!vars)
  BY DEF
     Dedup!Next, DedupP!Next, Dedup!vars, DedupP!vars, Dedup!levels, DedupP!levels, Dedup!stats, DedupP!stats,
     Dedup!unchangedByLoops, DedupP!unchangedByLoops, Dedup!parentPath, DedupP!parentPath, Dedup!child, DedupP!child,
     Dedup!uniqueStates, DedupP!uniqueStates, Dedup!ResetTarget, DedupP!ResetTarget, Dedup!ReplayStep,
     DedupP!ReplayStep, Dedup!ReplayDrift, DedupP!ReplayDrift, Dedup!AtParent, DedupP!AtParent,
     Dedup!TransitionBudgetSpent, DedupP!TransitionBudgetSpent, Dedup!Attempt, DedupP!Attempt, Dedup!StepRejected,
     DedupP!StepRejected, Dedup!InvariantFails, DedupP!InvariantFails, Dedup!Violation, DedupP!Violation,
     Dedup!ChildHolds, DedupP!ChildHolds, Dedup!AlreadySeen, DedupP!AlreadySeen, Dedup!RoomForState,
     DedupP!RoomForState, Dedup!PruneEquivalent, DedupP!PruneEquivalent, Dedup!StateCapReached,
     DedupP!StateCapReached, Dedup!RecordState, DedupP!RecordState, Dedup!MoreCases, DedupP!MoreCases,
     Dedup!MoreParents, DedupP!MoreParents, Dedup!LevelDone, DedupP!LevelDone, Dedup!NextCase, DedupP!NextCase,
     Dedup!NextParent, DedupP!NextParent, Dedup!NextLevel, DedupP!NextLevel, Dedup!SearchExhausted,
     DedupP!SearchExhausted, Dedup!DepthOverflow, DedupP!DepthOverflow, Dedup!Cardinality, DedupP!Cardinality,
     Dedup!IsFiniteSet, DedupP!IsFiniteSet
<1> QED
  BY <1>1, DedupAssumed, DedupP!SearchGoesOn

(* What it answers follows. *)
LEMMA DedupFollows == DedupP!SoundInv => Dedup!SearchIsSound
<1>1. DedupP!SearchIsSound => Dedup!SearchIsSound
  BY DEF
     Dedup!SearchIsSound, DedupP!SearchIsSound, Dedup!TypeOK, DedupP!TypeOK, Dedup!NotFoundIsSound,
     DedupP!NotFoundIsSound, Dedup!DryFrontierIsComplete, DedupP!DryFrontierIsComplete, Dedup!FoundPathViolates,
     DedupP!FoundPathViolates, Dedup!FoundPathIsShortest, DedupP!FoundPathIsShortest,
     Dedup!RepresentativesAreShortest, DedupP!RepresentativesAreShortest, Dedup!HookContract, DedupP!HookContract,
     Dedup!DeterministicReset, DedupP!DeterministicReset, Dedup!CompleteHash, DedupP!CompleteHash, Dedup!HoldsWithin,
     DedupP!HoldsWithin, Dedup!ReachedWithin, DedupP!ReachedWithin, Dedup!IsRun, DedupP!IsRun, Dedup!RunAlong,
     DedupP!RunAlong, Dedup!Cases, DedupP!Cases, Dedup!Returned, DedupP!Returned, Dedup!Reverted, DedupP!Reverted,
     Dedup!Cardinality, DedupP!Cardinality
<1> QED
  BY <1>1, DedupAssumed, DedupP!SoundFollows

-----------------------------------------------------------------------------
(* What is assumed of the settings of Edgy. *)
LEMMA EdgyAssumed == EdgyP!SearchAssumption
  BY DedupAssumption DEF
     Edgy!SearchAssumption, EdgyP!SearchAssumption, Edgy!StepCaseCountAssumption, EdgyP!StepCaseCountAssumption,
     Edgy!RejectedAssumption, EdgyP!RejectedAssumption, Edgy!StateFinite, EdgyP!StateFinite, Edgy!TargetsAssumption,
     EdgyP!TargetsAssumption, Edgy!EvaluationAssumption, EdgyP!EvaluationAssumption, Edgy!BoundsAssumption,
     EdgyP!BoundsAssumption, Edgy!Machine, EdgyP!Machine, Edgy!Cases, EdgyP!Cases, Edgy!IsFiniteSet,
     EdgyP!IsFiniteSet

(* Edgy starts in its inductive invariant ... *)
LEMMA EdgyStarts == Edgy!Init => EdgyP!SoundInv
<1>1. Edgy!Init => EdgyP!Init
  BY DEF Edgy!Init, EdgyP!Init
<1> QED
  BY <1>1, EdgyAssumed, EdgyP!SearchStarts

(* ... and stays in it. *)
LEMMA EdgyGoesOn == EdgyP!SoundInv /\ [Edgy!Next]_(Edgy!vars) => EdgyP!SoundInv'
<1>1. [Edgy!Next]_(Edgy!vars) => [EdgyP!Next]_(EdgyP!vars)
  BY DEF
     Edgy!Next, EdgyP!Next, Edgy!vars, EdgyP!vars, Edgy!levels, EdgyP!levels, Edgy!stats, EdgyP!stats,
     Edgy!unchangedByLoops, EdgyP!unchangedByLoops, Edgy!parentPath, EdgyP!parentPath, Edgy!child, EdgyP!child,
     Edgy!uniqueStates, EdgyP!uniqueStates, Edgy!ResetTarget, EdgyP!ResetTarget, Edgy!ReplayStep, EdgyP!ReplayStep,
     Edgy!ReplayDrift, EdgyP!ReplayDrift, Edgy!AtParent, EdgyP!AtParent, Edgy!TransitionBudgetSpent,
     EdgyP!TransitionBudgetSpent, Edgy!Attempt, EdgyP!Attempt, Edgy!StepRejected, EdgyP!StepRejected,
     Edgy!InvariantFails, EdgyP!InvariantFails, Edgy!Violation, EdgyP!Violation, Edgy!ChildHolds, EdgyP!ChildHolds,
     Edgy!AlreadySeen, EdgyP!AlreadySeen, Edgy!RoomForState, EdgyP!RoomForState, Edgy!PruneEquivalent,
     EdgyP!PruneEquivalent, Edgy!StateCapReached, EdgyP!StateCapReached, Edgy!RecordState, EdgyP!RecordState,
     Edgy!MoreCases, EdgyP!MoreCases, Edgy!MoreParents, EdgyP!MoreParents, Edgy!LevelDone, EdgyP!LevelDone,
     Edgy!NextCase, EdgyP!NextCase, Edgy!NextParent, EdgyP!NextParent, Edgy!NextLevel, EdgyP!NextLevel,
     Edgy!SearchExhausted, EdgyP!SearchExhausted, Edgy!DepthOverflow, EdgyP!DepthOverflow, Edgy!Cardinality,
     EdgyP!Cardinality, Edgy!IsFiniteSet, EdgyP!IsFiniteSet
<1> QED
  BY <1>1, EdgyAssumed, EdgyP!SearchGoesOn

(* What it answers follows. *)
LEMMA EdgyFollows == EdgyP!SoundInv => Edgy!SearchIsSound
<1>1. EdgyP!SearchIsSound => Edgy!SearchIsSound
  BY DEF
     Edgy!SearchIsSound, EdgyP!SearchIsSound, Edgy!TypeOK, EdgyP!TypeOK, Edgy!NotFoundIsSound, EdgyP!NotFoundIsSound,
     Edgy!DryFrontierIsComplete, EdgyP!DryFrontierIsComplete, Edgy!FoundPathViolates, EdgyP!FoundPathViolates,
     Edgy!FoundPathIsShortest, EdgyP!FoundPathIsShortest, Edgy!RepresentativesAreShortest,
     EdgyP!RepresentativesAreShortest, Edgy!HookContract, EdgyP!HookContract, Edgy!DeterministicReset,
     EdgyP!DeterministicReset, Edgy!CompleteHash, EdgyP!CompleteHash, Edgy!HoldsWithin, EdgyP!HoldsWithin,
     Edgy!ReachedWithin, EdgyP!ReachedWithin, Edgy!IsRun, EdgyP!IsRun, Edgy!RunAlong, EdgyP!RunAlong, Edgy!Cases,
     EdgyP!Cases, Edgy!Returned, EdgyP!Returned, Edgy!Reverted, EdgyP!Reverted, Edgy!Cardinality, EdgyP!Cardinality
<1> QED
  BY <1>1, EdgyAssumed, EdgyP!SoundFollows

-----------------------------------------------------------------------------
(* What is assumed of the settings of Multi. *)
LEMMA MultiAssumed == MultiP!WalkAssumption
  BY MultiAssumption DEF
     Multi!WalkAssumption, MultiP!WalkAssumption, Multi!StepCaseCountAssumption, MultiP!StepCaseCountAssumption,
     Multi!RejectedAssumption, MultiP!RejectedAssumption, Multi!TargetsAssumption, MultiP!TargetsAssumption,
     Multi!EvaluationAssumption, MultiP!EvaluationAssumption, Multi!BoundsAssumption, MultiP!BoundsAssumption,
     Multi!Machine, MultiP!Machine, Multi!Cases, MultiP!Cases

(* Multi starts in its inductive invariant ... *)
LEMMA MultiStarts == Multi!Init => MultiP!IInv
<1>1. Multi!Init => MultiP!Init
  BY DEF Multi!Init, MultiP!Init, Multi!Unresolved, MultiP!Unresolved
<1> QED
  BY <1>1, MultiAssumed, MultiP!WalkStarts

(* ... and stays in it. *)
LEMMA MultiGoesOn == MultiP!IInv /\ [Multi!Next]_(Multi!vars) => MultiP!IInv'
<1>1. [Multi!Next]_(Multi!vars) => [MultiP!Next]_(MultiP!vars)
  BY DEF
     Multi!Next, MultiP!Next, Multi!vars, MultiP!vars, Multi!levels, MultiP!levels, Multi!stats, MultiP!stats,
     Multi!live, MultiP!live, Multi!unchangedByLoops, MultiP!unchangedByLoops, Multi!parentPath, MultiP!parentPath,
     Multi!child, MultiP!child, Multi!uniqueStates, MultiP!uniqueStates, Multi!BudgetSpent, MultiP!BudgetSpent,
     Multi!ResetTarget, MultiP!ResetTarget, Multi!ReplayStep, MultiP!ReplayStep, Multi!ReplayDrift,
     MultiP!ReplayDrift, Multi!Attempt, MultiP!Attempt, Multi!Evaluated, MultiP!Evaluated, Multi!StepRejected,
     MultiP!StepRejected, Multi!ChildEvaluated, MultiP!ChildEvaluated, Multi!AlreadySeen, MultiP!AlreadySeen,
     Multi!RoomForState, MultiP!RoomForState, Multi!PruneEquivalent, MultiP!PruneEquivalent, Multi!StateBudgetSpent,
     MultiP!StateBudgetSpent, Multi!RecordState, MultiP!RecordState, Multi!MoreCases, MultiP!MoreCases,
     Multi!MoreParents, MultiP!MoreParents, Multi!LevelDone, MultiP!LevelDone, Multi!NextCase, MultiP!NextCase,
     Multi!NextParent, MultiP!NextParent, Multi!NextLevel, MultiP!NextLevel, Multi!SearchEnds, MultiP!SearchEnds,
     Multi!DepthOverflow, MultiP!DepthOverflow, Multi!FinalStatus, MultiP!FinalStatus, Multi!Classify,
     MultiP!Classify, Multi!Cardinality, MultiP!Cardinality, Multi!IsFiniteSet, MultiP!IsFiniteSet
<1> QED
  BY <1>1, MultiAssumed, MultiP!WalkGoesOn

(* What it answers follows. *)
LEMMA MultiFollows == MultiP!IInv => Multi!ReportIsSound
<1>1. MultiP!ReportIsSound => Multi!ReportIsSound
  BY DEF
     Multi!ReportIsSound, MultiP!ReportIsSound, Multi!TypeOK, MultiP!TypeOK, Multi!ClearedInvariantsHold,
     MultiP!ClearedInvariantsHold, Multi!CompletedWalkFindsAll, MultiP!CompletedWalkFindsAll,
     Multi!InconclusiveIsJustified, MultiP!InconclusiveIsJustified, Multi!WitnessesReproduce,
     MultiP!WitnessesReproduce, Multi!WitnessesAreShortest, MultiP!WitnessesAreShortest, Multi!HookContract,
     MultiP!HookContract, Multi!DeterministicReset, MultiP!DeterministicReset, Multi!CompleteHash,
     MultiP!CompleteHash, Multi!Occurs, MultiP!Occurs, Multi!ReachedWithin, MultiP!ReachedWithin, Multi!IsRun,
     MultiP!IsRun, Multi!RunAlong, MultiP!RunAlong, Multi!Cases, MultiP!Cases, Multi!Outcome, MultiP!Outcome
<1> QED
  BY <1>1, MultiAssumed, MultiP!ReportFollows

-----------------------------------------------------------------------------
(* What is assumed of the settings of Limited. *)
LEMMA LimitedAssumed == LimitedP!WalkAssumption
  BY MultiAssumption DEF
     Limited!WalkAssumption, LimitedP!WalkAssumption, Limited!StepCaseCountAssumption,
     LimitedP!StepCaseCountAssumption, Limited!RejectedAssumption, LimitedP!RejectedAssumption,
     Limited!TargetsAssumption, LimitedP!TargetsAssumption, Limited!EvaluationAssumption,
     LimitedP!EvaluationAssumption, Limited!BoundsAssumption, LimitedP!BoundsAssumption, Limited!Machine,
     LimitedP!Machine, Limited!Cases, LimitedP!Cases

(* Limited starts in its inductive invariant ... *)
LEMMA LimitedStarts == Limited!Init => LimitedP!IInv
<1>1. Limited!Init => LimitedP!Init
  BY DEF Limited!Init, LimitedP!Init, Limited!Unresolved, LimitedP!Unresolved
<1> QED
  BY <1>1, LimitedAssumed, LimitedP!WalkStarts

(* ... and stays in it. *)
LEMMA LimitedGoesOn == LimitedP!IInv /\ [Limited!Next]_(Limited!vars) => LimitedP!IInv'
<1>1. [Limited!Next]_(Limited!vars) => [LimitedP!Next]_(LimitedP!vars)
  BY DEF
     Limited!Next, LimitedP!Next, Limited!vars, LimitedP!vars, Limited!levels, LimitedP!levels, Limited!stats,
     LimitedP!stats, Limited!live, LimitedP!live, Limited!unchangedByLoops, LimitedP!unchangedByLoops,
     Limited!parentPath, LimitedP!parentPath, Limited!child, LimitedP!child, Limited!uniqueStates,
     LimitedP!uniqueStates, Limited!BudgetSpent, LimitedP!BudgetSpent, Limited!ResetTarget, LimitedP!ResetTarget,
     Limited!ReplayStep, LimitedP!ReplayStep, Limited!ReplayDrift, LimitedP!ReplayDrift, Limited!Attempt,
     LimitedP!Attempt, Limited!Evaluated, LimitedP!Evaluated, Limited!StepRejected, LimitedP!StepRejected,
     Limited!ChildEvaluated, LimitedP!ChildEvaluated, Limited!AlreadySeen, LimitedP!AlreadySeen,
     Limited!RoomForState, LimitedP!RoomForState, Limited!PruneEquivalent, LimitedP!PruneEquivalent,
     Limited!StateBudgetSpent, LimitedP!StateBudgetSpent, Limited!RecordState, LimitedP!RecordState,
     Limited!MoreCases, LimitedP!MoreCases, Limited!MoreParents, LimitedP!MoreParents, Limited!LevelDone,
     LimitedP!LevelDone, Limited!NextCase, LimitedP!NextCase, Limited!NextParent, LimitedP!NextParent,
     Limited!NextLevel, LimitedP!NextLevel, Limited!SearchEnds, LimitedP!SearchEnds, Limited!DepthOverflow,
     LimitedP!DepthOverflow, Limited!FinalStatus, LimitedP!FinalStatus, Limited!Classify, LimitedP!Classify,
     Limited!Cardinality, LimitedP!Cardinality, Limited!IsFiniteSet, LimitedP!IsFiniteSet
<1> QED
  BY <1>1, LimitedAssumed, LimitedP!WalkGoesOn

(* What it answers follows. *)
LEMMA LimitedFollows == LimitedP!IInv => Limited!ReportIsSound
<1>1. LimitedP!ReportIsSound => Limited!ReportIsSound
  BY DEF
     Limited!ReportIsSound, LimitedP!ReportIsSound, Limited!TypeOK, LimitedP!TypeOK, Limited!ClearedInvariantsHold,
     LimitedP!ClearedInvariantsHold, Limited!CompletedWalkFindsAll, LimitedP!CompletedWalkFindsAll,
     Limited!InconclusiveIsJustified, LimitedP!InconclusiveIsJustified, Limited!WitnessesReproduce,
     LimitedP!WitnessesReproduce, Limited!WitnessesAreShortest, LimitedP!WitnessesAreShortest, Limited!HookContract,
     LimitedP!HookContract, Limited!DeterministicReset, LimitedP!DeterministicReset, Limited!CompleteHash,
     LimitedP!CompleteHash, Limited!Occurs, LimitedP!Occurs, Limited!ReachedWithin, LimitedP!ReachedWithin,
     Limited!IsRun, LimitedP!IsRun, Limited!RunAlong, LimitedP!RunAlong, Limited!Cases, LimitedP!Cases,
     Limited!Outcome, LimitedP!Outcome
<1> QED
  BY <1>1, LimitedAssumed, LimitedP!ReportFollows

(* Dedup starts as the bounded search does ... *)
LEMMA DedupStartsBounded == Dedup!Init => Dedup!Search!Init
<1>1. Dedup!Init => DedupP!Init
  BY DEF Dedup!Init, DedupP!Init
<1>2. DedupP!Search!Init => Dedup!Search!Init
  BY DEF
     Dedup!verdict, DedupP!verdict, Dedup!HookContract, DedupP!HookContract, Dedup!DeterministicReset,
     DedupP!DeterministicReset, Dedup!CompleteHash, DedupP!CompleteHash, Dedup!Cases, DedupP!Cases, Dedup!Returned,
     DedupP!Returned, Dedup!Reverted, DedupP!Reverted, Dedup!Search!Init, DedupP!Search!Init, Dedup!Search!Machine,
     DedupP!Search!Machine, Dedup!Search!Cases, DedupP!Search!Cases
<1> QED
  BY <1>1, <1>2, DedupAssumed, DedupP!InitImplements

(* ... and every answer of it is one the bounded search may give. *)
LEMMA DedupStepsBounded ==
  ASSUME DedupP!SoundInv, DedupP!SearchIsSound', [Dedup!Next]_(Dedup!vars)
  PROVE  Dedup!Search!Next \/ UNCHANGED Dedup!Search!vars
<1>1. [DedupP!Next]_(DedupP!vars)
  BY DEF
     Dedup!Next, DedupP!Next, Dedup!vars, DedupP!vars, Dedup!levels, DedupP!levels, Dedup!stats, DedupP!stats,
     Dedup!unchangedByLoops, DedupP!unchangedByLoops, Dedup!parentPath, DedupP!parentPath, Dedup!child, DedupP!child,
     Dedup!uniqueStates, DedupP!uniqueStates, Dedup!ResetTarget, DedupP!ResetTarget, Dedup!ReplayStep,
     DedupP!ReplayStep, Dedup!ReplayDrift, DedupP!ReplayDrift, Dedup!AtParent, DedupP!AtParent,
     Dedup!TransitionBudgetSpent, DedupP!TransitionBudgetSpent, Dedup!Attempt, DedupP!Attempt, Dedup!StepRejected,
     DedupP!StepRejected, Dedup!InvariantFails, DedupP!InvariantFails, Dedup!Violation, DedupP!Violation,
     Dedup!ChildHolds, DedupP!ChildHolds, Dedup!AlreadySeen, DedupP!AlreadySeen, Dedup!RoomForState,
     DedupP!RoomForState, Dedup!PruneEquivalent, DedupP!PruneEquivalent, Dedup!StateCapReached,
     DedupP!StateCapReached, Dedup!RecordState, DedupP!RecordState, Dedup!MoreCases, DedupP!MoreCases,
     Dedup!MoreParents, DedupP!MoreParents, Dedup!LevelDone, DedupP!LevelDone, Dedup!NextCase, DedupP!NextCase,
     Dedup!NextParent, DedupP!NextParent, Dedup!NextLevel, DedupP!NextLevel, Dedup!SearchExhausted,
     DedupP!SearchExhausted, Dedup!DepthOverflow, DedupP!DepthOverflow, Dedup!Cardinality, DedupP!Cardinality,
     Dedup!IsFiniteSet, DedupP!IsFiniteSet
<1>2. [DedupP!Search!Next]_(DedupP!Search!vars)
  BY <1>1, DedupAssumed, DedupP!StepImplements
<1> QED
  BY <1>2 DEF
     Dedup!vars, DedupP!vars, Dedup!verdict, DedupP!verdict, Dedup!HookContract, DedupP!HookContract,
     Dedup!DeterministicReset, DedupP!DeterministicReset, Dedup!CompleteHash, DedupP!CompleteHash, Dedup!Cases,
     DedupP!Cases, Dedup!Returned, DedupP!Returned, Dedup!Reverted, DedupP!Reverted, Dedup!Search!vars,
     DedupP!Search!vars, Dedup!Search!Next, DedupP!Search!Next, Dedup!Search!ReportViolation,
     DedupP!Search!ReportViolation, Dedup!Search!ReportNotFound, DedupP!Search!ReportNotFound, Dedup!Search!GiveUp,
     DedupP!Search!GiveUp, Dedup!Search!Violates, DedupP!Search!Violates, Dedup!Search!HoldsWithin,
     DedupP!Search!HoldsWithin, Dedup!Search!RunAlong, DedupP!Search!RunAlong, Dedup!Search!ReachedWithin,
     DedupP!Search!ReachedWithin, Dedup!Search!IsRun, DedupP!Search!IsRun, Dedup!Search!Cases, DedupP!Search!Cases

(* Edgy starts as the bounded search does ... *)
LEMMA EdgyStartsBounded == Edgy!Init => Edgy!Search!Init
<1>1. Edgy!Init => EdgyP!Init
  BY DEF Edgy!Init, EdgyP!Init
<1>2. EdgyP!Search!Init => Edgy!Search!Init
  BY DEF
     Edgy!verdict, EdgyP!verdict, Edgy!HookContract, EdgyP!HookContract, Edgy!DeterministicReset,
     EdgyP!DeterministicReset, Edgy!CompleteHash, EdgyP!CompleteHash, Edgy!Cases, EdgyP!Cases, Edgy!Returned,
     EdgyP!Returned, Edgy!Reverted, EdgyP!Reverted, Edgy!Search!Init, EdgyP!Search!Init, Edgy!Search!Machine,
     EdgyP!Search!Machine, Edgy!Search!Cases, EdgyP!Search!Cases
<1> QED
  BY <1>1, <1>2, EdgyAssumed, EdgyP!InitImplements

(* ... and every answer of it is one the bounded search may give. *)
LEMMA EdgyStepsBounded ==
  ASSUME EdgyP!SoundInv, EdgyP!SearchIsSound', [Edgy!Next]_(Edgy!vars)
  PROVE  Edgy!Search!Next \/ UNCHANGED Edgy!Search!vars
<1>1. [EdgyP!Next]_(EdgyP!vars)
  BY DEF
     Edgy!Next, EdgyP!Next, Edgy!vars, EdgyP!vars, Edgy!levels, EdgyP!levels, Edgy!stats, EdgyP!stats,
     Edgy!unchangedByLoops, EdgyP!unchangedByLoops, Edgy!parentPath, EdgyP!parentPath, Edgy!child, EdgyP!child,
     Edgy!uniqueStates, EdgyP!uniqueStates, Edgy!ResetTarget, EdgyP!ResetTarget, Edgy!ReplayStep, EdgyP!ReplayStep,
     Edgy!ReplayDrift, EdgyP!ReplayDrift, Edgy!AtParent, EdgyP!AtParent, Edgy!TransitionBudgetSpent,
     EdgyP!TransitionBudgetSpent, Edgy!Attempt, EdgyP!Attempt, Edgy!StepRejected, EdgyP!StepRejected,
     Edgy!InvariantFails, EdgyP!InvariantFails, Edgy!Violation, EdgyP!Violation, Edgy!ChildHolds, EdgyP!ChildHolds,
     Edgy!AlreadySeen, EdgyP!AlreadySeen, Edgy!RoomForState, EdgyP!RoomForState, Edgy!PruneEquivalent,
     EdgyP!PruneEquivalent, Edgy!StateCapReached, EdgyP!StateCapReached, Edgy!RecordState, EdgyP!RecordState,
     Edgy!MoreCases, EdgyP!MoreCases, Edgy!MoreParents, EdgyP!MoreParents, Edgy!LevelDone, EdgyP!LevelDone,
     Edgy!NextCase, EdgyP!NextCase, Edgy!NextParent, EdgyP!NextParent, Edgy!NextLevel, EdgyP!NextLevel,
     Edgy!SearchExhausted, EdgyP!SearchExhausted, Edgy!DepthOverflow, EdgyP!DepthOverflow, Edgy!Cardinality,
     EdgyP!Cardinality, Edgy!IsFiniteSet, EdgyP!IsFiniteSet
<1>2. [EdgyP!Search!Next]_(EdgyP!Search!vars)
  BY <1>1, EdgyAssumed, EdgyP!StepImplements
<1> QED
  BY <1>2 DEF
     Edgy!vars, EdgyP!vars, Edgy!verdict, EdgyP!verdict, Edgy!HookContract, EdgyP!HookContract,
     Edgy!DeterministicReset, EdgyP!DeterministicReset, Edgy!CompleteHash, EdgyP!CompleteHash, Edgy!Cases,
     EdgyP!Cases, Edgy!Returned, EdgyP!Returned, Edgy!Reverted, EdgyP!Reverted, Edgy!Search!vars, EdgyP!Search!vars,
     Edgy!Search!Next, EdgyP!Search!Next, Edgy!Search!ReportViolation, EdgyP!Search!ReportViolation,
     Edgy!Search!ReportNotFound, EdgyP!Search!ReportNotFound, Edgy!Search!GiveUp, EdgyP!Search!GiveUp,
     Edgy!Search!Violates, EdgyP!Search!Violates, Edgy!Search!HoldsWithin, EdgyP!Search!HoldsWithin,
     Edgy!Search!RunAlong, EdgyP!Search!RunAlong, Edgy!Search!ReachedWithin, EdgyP!Search!ReachedWithin,
     Edgy!Search!IsRun, EdgyP!Search!IsRun, Edgy!Search!Cases, EdgyP!Search!Cases

-----------------------------------------------------------------------------
(* The composition.  A search keeps its invariant while the behaviour is   *)
(* of it, and the properties speak of no other behaviour.                  *)

ComposedVars == <<part, search>>

ComposedInv ==
    /\ part = "dedup" => DedupP!SoundInv
    /\ part = "edgy" => EdgyP!SoundInv
    /\ part = "multi" => MultiP!IInv
    /\ part = "limited" => LimitedP!IInv

(* Every search starts in its invariant ... *)
LEMMA ComposedInit == Init => ComposedInv
  BY DedupStarts, EdgyStarts, MultiStarts, LimitedStarts DEF Init, ComposedInv

(* ... a step of the composition is of its part, or of none ... *)
LEMMA ComposedStep ==
  ASSUME [Next]_ComposedVars
  PROVE  /\ part' = part
         /\ part = "dedup" => [Dedup!Next]_(Dedup!vars)
         /\ part = "edgy" => [Edgy!Next]_(Edgy!vars)
         /\ part = "multi" => [Multi!Next]_(Multi!vars)
         /\ part = "limited" => [Limited!Next]_(Limited!vars)
<1>1. CASE Next
  BY <1>1 DEF Next, DedupStep, EdgyStep, MultiStep, LimitedStep, EnumStep, EdgeStep
<1>2. CASE UNCHANGED ComposedVars
  BY <1>2 DEF ComposedVars, search, Dedup!vars, Edgy!vars, Multi!vars, Multi!levels, Multi!stats, Multi!live,
     Limited!vars, Limited!levels, Limited!stats, Limited!live
<1> QED
  BY <1>1, <1>2

(* ... so that no step leaves the invariant. *)
LEMMA ComposedKept == ComposedInv /\ [Next]_ComposedVars => ComposedInv'
  BY ComposedStep, DedupGoesOn, EdgyGoesOn, MultiGoesOn, LimitedGoesOn DEF ComposedInv

(***************************************************************************)
(* The deduplicating searches cut nothing short in silence, whatever their *)
(* targets and whatever limit they meet.                                   *)
(***************************************************************************)
THEOREM ComposedDedup == Spec => []DedupIsSound
<1>1. ComposedInv => DedupIsSound
  BY DedupFollows, EdgyFollows DEF ComposedInv, DedupIsSound
<1> QED
  BY ComposedInit, ComposedKept, <1>1, PTL DEF Spec, ComposedVars

(***************************************************************************)
(* What a multi-invariant walk returns of each invariant can be relied on. *)
(***************************************************************************)
THEOREM ComposedReport == Spec => []ReportIsSound
<1>1. ComposedInv => ReportIsSound
  BY MultiFollows, LimitedFollows DEF ComposedInv, ReportIsSound
<1> QED
  BY ComposedInit, ComposedKept, <1>1, PTL DEF Spec, ComposedVars

(***************************************************************************)
(* Pruning by hash answers as the bounded search does.                     *)
(***************************************************************************)
THEOREM ComposedFaithful == Spec => DedupIsFaithful
<1> DEFINE Bounded == /\ part = "dedup" => Dedup!Search!Next \/ UNCHANGED Dedup!Search!vars
                      /\ part = "edgy" => Edgy!Search!Next \/ UNCHANGED Edgy!Search!vars
           AnswersP == /\ part = "dedup" => DedupP!SearchIsSound
                       /\ part = "edgy" => EdgyP!SearchIsSound
<1>1. Init => (part = "dedup" => Dedup!Search!Init) /\ (part = "edgy" => Edgy!Search!Init)
  BY DedupStartsBounded, EdgyStartsBounded DEF Init
<1>2. ComposedInv => AnswersP
  BY DedupAssumed, EdgyAssumed, DedupP!SoundFollows, EdgyP!SoundFollows DEF ComposedInv
<1>3. ComposedInv /\ AnswersP' /\ [Next]_ComposedVars => [Bounded]_search
  BY ComposedStep, DedupStepsBounded, EdgyStepsBounded DEF ComposedInv
<1> QED
  BY ComposedInit, ComposedKept, <1>1, <1>2, <1>3, PTL DEF Spec, ComposedVars, DedupIsFaithful
=============================================================================

------------------------ MODULE EnumerativeExplorer ------------------------
(***************************************************************************)
(* ParameterizedPathExplorerHarness._exploreCases, and _explore of         *)
(* PathExplorerHarness, which differs in its action type only: every       *)
(* sequence of step cases up to the bound is run from a fresh target, in   *)
(* the order of its number in base stepCaseCount.  The engagement replays  *)
(* the path that is found with _replayCases.  The count of candidates it   *)
(* reports is left out.                                                    *)
(***************************************************************************)
EXTENDS TargetMachine

CONSTANTS
    Targets,       \* the targets that are explored
    MaxDepth,      \* the bound, uint8 maxDepth
    DepthTypeMax   \* largest value of depth's type (255 for uint8)

TargetsAssumption == Targets \subseteq Machine
EvaluationAssumption == Evaluation = BOOLEAN
BoundsAssumption ==
    /\ MaxDepth \in Nat \ {0}
    /\ DepthTypeMax \in Nat /\ MaxDepth <= DepthTypeMax

SearchAssumption ==
    /\ StepCaseCountAssumption /\ RejectedAssumption
    /\ TargetsAssumption /\ EvaluationAssumption /\ BoundsAssumption

VARIABLES
    m,          \* the target's behaviour, fixed for a search
    pc,         \* where the search is, or how it ended
    depth,      \* the length of the candidates being tried
    candidate,  \* the number of the candidate
    step,       \* how many of its steps the target has accepted
    target,     \* the live target's state
    path,       \* the violating path returned
    replay      \* what replaying it returned: "none", "holds", "violated"

vars == <<m, pc, depth, candidate, step, target, path, replay>>

Init ==
    /\ m \in Targets
    /\ pc = "candidate"
    /\ depth = 1
    /\ candidate = 0
    /\ step = 0
    /\ target \in m.start
    /\ path = <<>>
    /\ replay = "none"

(* _pow(stepCaseCount, depth) *)
candidates == StepCaseCount ^ depth

DecodeCasePath_LowDigitOnly(c) == [i \in 1 .. depth |-> c % StepCaseCount]
(* _decodeCasePath: the candidate's digits, the most significant one first. *)
DecodeCasePath(c) ==
    [i \in 1 .. depth |-> (c \div StepCaseCount ^ (depth - i)) % StepCaseCount]

casePath == DecodeCasePath(candidate)
child    == m.step[target][casePath[step + 1]]

ResetTarget ==
    /\ pc = "candidate"
    /\ target' \in m.start
    /\ step' = 0
    /\ pc' = "step"
    /\ UNCHANGED <<m, depth, candidate, path, replay>>

(* A rejected step ends its candidate, and its invariant does not count. *)
StepRejected ==
    /\ pc = "step"
    /\ step < depth
    /\ child = Rejected
    /\ pc' = "next"
    /\ UNCHANGED <<m, depth, candidate, step, target, path, replay>>

StepAccepted ==
    /\ pc = "step"
    /\ step < depth
    /\ child # Rejected
    /\ m.eval[child]
    /\ target' = child
    /\ step' = step + 1
    /\ UNCHANGED <<m, pc, depth, candidate, path, replay>>

(* _prefix(path, length) *)
Prefix(length) == SubSeq(casePath, 1, length)

Violation ==
    /\ pc = "step"
    /\ step < depth
    /\ child # Rejected
    /\ ~ m.eval[child]
    /\ target' = child
    /\ path' = Prefix(step + 1)
    /\ pc' = "found"
    /\ UNCHANGED <<m, depth, candidate, step, replay>>

CandidateHolds ==
    /\ pc = "step"
    /\ step = depth
    /\ pc' = "next"
    /\ UNCHANGED <<m, depth, candidate, step, target, path, replay>>

NextCandidate ==
    /\ pc = "next"
    /\ candidate + 1 < candidates
    /\ candidate' = candidate + 1
    /\ pc' = "candidate"
    /\ UNCHANGED <<m, depth, step, target, path, replay>>

DepthDone == pc = "next" /\ candidate + 1 >= candidates

NextDepth ==
    /\ DepthDone
    /\ depth < MaxDepth
    /\ depth' = depth + 1
    /\ candidate' = 0
    /\ pc' = "candidate"
    /\ UNCHANGED <<m, step, target, path, replay>>

SearchExhausted ==
    /\ DepthDone
    /\ depth = MaxDepth /\ MaxDepth < DepthTypeMax
    /\ pc' = "notFound"
    /\ UNCHANGED <<m, depth, candidate, step, target, path, replay>>

DepthOverflow_Unchecked ==
    /\ DepthDone
    /\ depth = DepthTypeMax
    /\ depth' = 0
    /\ candidate' = 0
    /\ pc' = "candidate"
    /\ UNCHANGED <<m, step, target, path, replay>>

(* depth++ overflows its type, which checked arithmetic turns into a panic. *)
DepthOverflow ==
    /\ DepthDone
    /\ depth = DepthTypeMax
    /\ pc' = "panic"
    /\ UNCHANGED <<m, depth, candidate, step, target, path, replay>>

-----------------------------------------------------------------------------
(* _replayCases of the path found, on a fresh target. *)
ReplayReset ==
    /\ pc = "found"
    /\ target' \in m.start
    /\ step' = 0
    /\ pc' = "replay"
    /\ UNCHANGED <<m, depth, candidate, path, replay>>

replayChild == m.step[target][path[step + 1]]

ReplayStep ==
    /\ pc = "replay"
    /\ step < Len(path)
    /\ replayChild # Rejected
    /\ m.eval[replayChild]
    /\ target' = replayChild
    /\ step' = step + 1
    /\ UNCHANGED <<m, pc, depth, candidate, path, replay>>

(* A rejected step makes the replay return true: nothing was violated. *)
ReplayEnds ==
    /\ pc = "replay"
    /\ IF step < Len(path)
       THEN /\ replayChild # Rejected => ~ m.eval[replayChild]
            /\ replay' = IF replayChild = Rejected THEN "holds" ELSE "violated"
       ELSE replay' = IF m.eval[target] THEN "holds" ELSE "violated"
    /\ pc' = "replayed"
    /\ UNCHANGED <<m, depth, candidate, step, target, path>>

Next ==
    \/ ResetTarget \/ StepRejected \/ StepAccepted \/ Violation \/ CandidateHolds
    \/ NextCandidate \/ NextDepth \/ SearchExhausted \/ DepthOverflow
    \/ ReplayReset \/ ReplayStep \/ ReplayEnds

Spec == Init /\ [][Next]_vars

(* The search and the replay are sequential calls. *)
FairSpec == Spec /\ WF_vars(Next)

-----------------------------------------------------------------------------
TypeOK ==
    /\ m \in Targets
    /\ pc \in {"candidate", "step", "next", "found", "notFound", "panic",
               "replay", "replayed"}
    /\ depth \in 1 .. MaxDepth
    /\ candidate \in 0 .. candidates - 1
    /\ step \in 0 .. depth
    /\ target \in State
    /\ path \in Seq(Cases)
    /\ replay \in {"none", "holds", "violated"}

verdict ==
    CASE pc \in {"found", "replay", "replayed"} -> "found"
      [] pc = "notFound" -> "notFound"
      [] pc = "panic" -> "reverted"
      [] OTHER -> "searching"

Search == INSTANCE BoundedSearch WITH trusted <- DeterministicReset(m)

(***************************************************************************)
(* The enumeration is a bounded search: given a deterministic reset its    *)
(* first violation is minimal by step count and a negative answer covers   *)
(* every sequence of the corpus up to the bound.                           *)
(***************************************************************************)
SearchesBounded == Search!Spec

(***************************************************************************)
(* Replaying a path that was found confirms the violation, on any target   *)
(* with a deterministic reset: _replayCases, which also answers "holds"    *)
(* when a step is rejected, never answers so of a path the search returns. *)
(***************************************************************************)
ReplayConfirms == replay = "holds" => ~ DeterministicReset(m)

(* A search and the replay of what it found end. *)
Terminates == <>(pc \in {"notFound", "panic", "replayed"})

(* The enumeration answers as a bounded search does, and the replay of a   *)
(* path it found confirms the violation.                                   *)
EnumerationIsFaithful == SearchesBounded /\ [](TypeOK /\ ReplayConfirms)
=============================================================================

--------------------------- MODULE TargetMachine ---------------------------
(***************************************************************************)
(* The contract under exploration, as the explorers of src/src/harness see *)
(* it: a target that _resetTarget() puts back to its start, a finite corpus *)
(* of steps that it accepts or rejects, an evaluation of its invariants and *)
(* a hash of its modelled state.  The hooks are virtual in the code: each   *)
(* engagement supplies its own, so a target is an arbitrary machine here.   *)
(***************************************************************************)
EXTENDS Integers, Sequences

CONSTANTS
    State,          \* the states the target can be in
    Hash,           \* the values _stateHash() can return
    Evaluation,     \* what evaluating the invariants of a state can return
    StepCaseCount,  \* size of the step corpus (uint16 stepCaseCount)
    Rejected        \* what a step yields when _executeStep() returns false

(* The corpus is not empty, and a rejected step is told from a state. *)
StepCaseCountAssumption == StepCaseCount \in Nat \ {0}
RejectedAssumption == Rejected \notin State

(* The indices of the step corpus, as _stepCase(caseIndex) numbers them. *)
Cases == 0 .. StepCaseCount - 1

(***************************************************************************)
(* A target: the states a reset may produce, the state each accepted step  *)
(* leads to, what the invariant hooks answer and the state hash.           *)
(***************************************************************************)
Machine == [start : (SUBSET State) \ {{}},
            step  : [State -> [Cases -> State \cup {Rejected}]],
            eval  : [State -> Evaluation],
            hash  : [State -> Hash]]

(* "The target reset must be deterministic" (docs/STATE_DEDUP.md). *)
DeterministicReset(m) == \E s \in State : m.start = {s}

(***************************************************************************)
(* "_stateHash() must include every modeled value that can affect future   *)
(* behavior": states with one hash accept the same steps, and an accepted  *)
(* step takes them to states of one hash and one evaluation.               *)
(***************************************************************************)
CompleteHash(m) ==
    \A s, t \in State : m.hash[s] = m.hash[t] =>
        \A c \in Cases :
            /\ m.step[s][c] = Rejected <=> m.step[t][c] = Rejected
            /\ m.step[s][c] # Rejected =>
                /\ m.hash[m.step[s][c]] = m.hash[m.step[t][c]]
                /\ m.eval[m.step[s][c]] = m.eval[m.step[t][c]]

(* r is the sequence of states the target passes through along path p. *)
RunAlong(m, p, r) ==
    /\ r \in [0 .. Len(p) -> State]
    /\ r[0] \in m.start
    /\ \A i \in 1 .. Len(p) : r[i] = m.step[r[i-1]][p[i]]

(* r is a run of k accepted steps from a reset, whatever the steps are. *)
IsRun(m, k, r) ==
    /\ r \in [0 .. k -> State]
    /\ r[0] \in m.start
    /\ \A i \in 1 .. k : \E c \in Cases : r[i] = m.step[r[i-1]][c]

(* The states in which runs of 1 to d accepted steps end. *)
ReachedWithin(m, d) ==
    {s \in State : \E k \in 1 .. d : \E r \in [0 .. k -> State] :
                        IsRun(m, k, r) /\ r[k] = s}
=============================================================================

------------------------ MODULE MultiInvariantProofs ------------------------
(***************************************************************************)
(* Proofs about MultiInvariantExplorer, for every target, corpus, set of   *)
(* invariants and budget.                                                  *)
(***************************************************************************)
EXTENDS MultiInvariantExplorer, SequenceTheorems, WellFoundedInduction, TLAPS

(* A set that holds 0 and is closed under successor holds every natural. *)
LEMMA SetInduction ==
  ASSUME NEW T, 0 \in T, \A n \in Nat : n \in T => n + 1 \in T
  PROVE  Nat \subseteq T
<1> DEFINE U == Nat \ T
<1>1. SUFFICES ASSUME U # {} PROVE FALSE
  OBVIOUS
<1>2. IsWellFoundedOn(OpToRel(<, Nat), Nat)
  BY NatLessThanWellFounded
<1>3. PICK x \in U : \A y \in U : ~ (<<y, x>> \in OpToRel(<, Nat))
  BY <1>1, <1>2, WFMin
<1>4. \A y \in U : ~ (y < x)
  BY <1>3 DEF OpToRel
<1>5. x - 1 \in Nat /\ x - 1 < x /\ (x - 1) + 1 = x
  OBVIOUS
<1> QED
  BY <1>4, <1>5

-----------------------------------------------------------------------------
(* The facts about a target that the steps below use. *)
LEMMA TargetFacts ==
  ASSUME WalkAssumption, NEW x \in Targets
  PROVE  /\ x.start \subseteq State
         /\ x.start # {}
         /\ \A s \in State, c \in Cases :
                x.step[s][c] # Rejected => x.step[s][c] \in State
         /\ \A s \in State, i \in Invariants :
                x.eval[s][i] \in {"Holds", "Violated", "Inconclusive"}
         /\ \A s \in State : x.hash[s] \in Hash
  BY DEF WalkAssumption, TargetsAssumption, EvaluationAssumption, Machine

(* What one evaluation makes of an outcome that is not final. *)
LEMMA EvaluatedFacts ==
  ASSUME NEW o \in Outcome, NEW v, o.status \in {"Unresolved", "Violated"},
         Append(parentPath, caseIndex) \in Seq(Cases), attemptedTransitions \in Nat
  PROVE  /\ Evaluated(o, v) \in Outcome
         /\ Evaluated(o, v).status \in {"Unresolved", "Violated"}
         /\ o.status = "Violated" => Evaluated(o, v) = o
         /\ o.status # "Violated" /\ v = "Violated" =>
                /\ Evaluated(o, v).status = "Violated"
                /\ Evaluated(o, v).path = Append(parentPath, caseIndex)
                /\ Evaluated(o, v).sawInconclusive = o.sawInconclusive
         /\ o.status # "Violated" /\ v # "Violated" =>
                /\ Evaluated(o, v).status = o.status
                /\ Evaluated(o, v).sawInconclusive = (o.sawInconclusive \/ v = "Inconclusive")
<1>1. CASE o.status = "Violated"
  BY <1>1 DEF Evaluated
<1>2. CASE o.status # "Violated" /\ v = "Violated"
  <2>1. Evaluated(o, v) = [o EXCEPT !.status = "Violated", !.path = Append(parentPath, caseIndex),
                                    !.exploredCandidates = attemptedTransitions + 1]
    BY <1>2 DEF Evaluated
  <2>2. attemptedTransitions + 1 \in Nat
    OBVIOUS
  <2> QED
    BY <1>2, <2>1, <2>2 DEF Outcome
<1>3. CASE o.status # "Violated" /\ v # "Violated"
  <2>1. Evaluated(o, v) = [o EXCEPT !.sawInconclusive = @ \/ v = "Inconclusive"]
    BY <1>3 DEF Evaluated
  <2>2. (o.sawInconclusive \/ v = "Inconclusive") \in BOOLEAN
    OBVIOUS
  <2> QED
    BY <1>3, <2>1, <2>2 DEF Outcome
<1> QED
  BY <1>1, <1>2, <1>3

(* The parts of the type invariant that the steps below use. *)
LEMMA TypeFacts ==
  ASSUME WalkAssumption, TypeOK
  PROVE  /\ m \in Targets /\ caseIndex \in Cases /\ target \in State /\ replayed \in Nat
         /\ depth \in Nat /\ depth >= 1 /\ depth <= MaxDepth /\ MaxDepth \in Nat
         /\ attemptedTransitions \in Nat /\ attemptedTransitions <= TransitionBudget /\ TransitionBudget \in Nat
         /\ frontier \in Seq(Seq(Cases)) /\ nextFrontier \in Seq(Seq(Cases))
         /\ Len(frontier) \in Nat /\ Len(nextFrontier) \in Nat
         /\ parentIndex \in Nat /\ parentIndex \in 1 .. Len(frontier)
         /\ parentPath \in Seq(Cases) /\ Len(parentPath) \in Nat
         /\ Append(parentPath, caseIndex) \in Seq(Cases)
<1>1. /\ MaxDepth \in Nat /\ MaxDepth # 0 /\ TransitionBudget \in Nat
  BY DEF WalkAssumption, BoundsAssumption
<1>2. /\ m \in Targets /\ caseIndex \in Cases /\ target \in State /\ replayed \in Nat
      /\ depth \in 1 .. MaxDepth /\ attemptedTransitions \in 0 .. TransitionBudget
      /\ frontier \in Seq(Seq(Cases)) /\ nextFrontier \in Seq(Seq(Cases))
      /\ parentIndex \in 1 .. Len(frontier)
  BY DEF TypeOK
<1>3. Len(frontier) \in Nat /\ Len(nextFrontier) \in Nat
  BY <1>2, LenProperties
<1>4. parentPath \in Seq(Cases)
  BY <1>2 DEF parentPath
<1>5. Len(parentPath) \in Nat /\ Append(parentPath, caseIndex) \in Seq(Cases)
  BY <1>2, <1>4
<1> QED
  BY <1>1, <1>2, <1>3, <1>4, <1>5

-----------------------------------------------------------------------------
(* What is known of the outcomes before and after they are classified. *)
Statuses ==
    \A i \in Invariants :
        /\ outcomes[i].status = "NotFoundWithinBound" =>
                pc = "returned" /\ completedBound /\ ~ outcomes[i].sawInconclusive
        /\ outcomes[i].status = "Inconclusive" =>
                pc = "returned" /\ (~ completedBound \/ outcomes[i].sawInconclusive)
        /\ outcomes[i].status = "Unresolved" => pc # "returned"

(* The budget is looked at before a replay and not again after it. *)
InBudget == pc = "replay" => attemptedTransitions < TransitionBudget

TypeInv == TypeOK /\ Statuses /\ InBudget

(* A walk that has not returned has classified nothing. *)
LEMMA NotFinal ==
  ASSUME TypeInv, pc # "returned", NEW i \in Invariants
  PROVE  outcomes[i] \in Outcome /\ outcomes[i].status \in {"Unresolved", "Violated"}
BY DEF TypeInv, TypeOK, Statuses, Outcome

(* An evaluated child is a state, and the outcomes are what it makes them. *)
LEMMA EvaluatedChild ==
  ASSUME WalkAssumption, TypeInv, ChildEvaluated
  PROVE  /\ m \in Targets /\ parentPath \in Seq(Cases) /\ caseIndex \in Cases
         /\ Append(parentPath, caseIndex) \in Seq(Cases) /\ attemptedTransitions \in Nat
         /\ child \in State /\ target' = child /\ pc = "replay" /\ replayed = Len(parentPath)
         /\ UNCHANGED <<m, levels, caseIndex, replayed>>
         /\ DOMAIN outcomes' = Invariants
         /\ \A i \in Invariants : outcomes'[i] = Evaluated(outcomes[i], m.eval[child][i])
         /\ outcomes' \in [Invariants -> Outcome]
         /\ \A i \in Invariants : outcomes'[i].status \in {"Unresolved", "Violated"}
<1>1. /\ m \in Targets /\ parentPath \in Seq(Cases) /\ caseIndex \in Cases /\ target \in State
      /\ attemptedTransitions \in Nat
  BY TypeFacts DEF TypeInv
<1>2. child \in State
  BY <1>1, TargetFacts DEF ChildEvaluated, child
<1>3. /\ target' = child /\ pc = "replay" /\ replayed = Len(parentPath)
      /\ UNCHANGED <<m, levels, caseIndex, replayed>>
      /\ outcomes' = [i \in Invariants |-> Evaluated(outcomes[i], m.eval[child][i])]
  BY DEF ChildEvaluated, Attempt
<1>4. Append(parentPath, caseIndex) \in Seq(Cases)
  BY <1>1
<1>5. \A i \in Invariants : /\ outcomes'[i] \in Outcome
                            /\ outcomes'[i].status \in {"Unresolved", "Violated"}
  BY <1>1, <1>3, <1>4, NotFinal, EvaluatedFacts
<1> QED
  BY <1>1, <1>2, <1>3, <1>4, <1>5

(* An initial state of the types satisfies the inductive invariant.        *)
LEMMA TypeInit == WalkAssumption /\ Init => TypeInv
<1> SUFFICES ASSUME WalkAssumption, Init PROVE TypeInv
  OBVIOUS
<1>1. m.start \subseteq State /\ target \in State /\ m.hash[target] \in Hash
  BY TargetFacts DEF Init
<1>2. <<>> \in Seq(Cases) /\ << <<>> >> \in Seq(Seq(Cases)) /\ Len(<< <<>> >>) = 1 /\ <<>> \in Seq(Seq(Cases))
  OBVIOUS
<1>3. 0 \in Cases
  BY DEF Cases, WalkAssumption, StepCaseCountAssumption
<1>4. Unresolved \in Outcome /\ Unresolved.status = "Unresolved"
  BY DEF Unresolved, Outcome
<1> QED
  BY <1>1, <1>2, <1>3, <1>4 DEF Init, TypeOK, TypeInv, Statuses, InBudget, WalkAssumption, BoundsAssumption

(* Every step of the types keeps the inductive invariant.                  *)
LEMMA TypeStep == WalkAssumption /\ TypeInv /\ [Next]_vars => TypeInv'
<1> SUFFICES ASSUME WalkAssumption, TypeInv, [Next]_vars PROVE TypeInv'
  OBVIOUS
<1> USE DEF levels, stats, live, unchangedByLoops, TypeInv
<1>0. /\ m \in Targets /\ parentPath \in Seq(Cases) /\ target \in State
      /\ nextFrontier \in Seq(Seq(Cases)) /\ Len(nextFrontier) \in Nat
      /\ attemptedTransitions \in Nat /\ attemptedTransitions <= TransitionBudget /\ TransitionBudget \in Nat
      /\ depth \in Nat /\ depth >= 1 /\ depth <= MaxDepth /\ MaxDepth \in Nat
  BY TypeFacts
<1>1. CASE BudgetSpent
  BY <1>1 DEF BudgetSpent, TypeOK, Statuses, InBudget
<1>2. CASE ResetTarget
  BY <1>2, <1>0, TargetFacts DEF ResetTarget, TypeOK, Statuses, InBudget
<1>3. CASE ReplayStep
  <2>1. parentPath[replayed + 1] \in Cases
    BY <1>0, <1>3 DEF ReplayStep, TypeOK
  <2>2. target' \in State
    BY <1>0, <1>3, <2>1, TargetFacts DEF ReplayStep, TypeOK
  <2> QED
    BY <1>3, <2>2 DEF ReplayStep, TypeOK, Statuses, InBudget
<1>4. CASE ReplayDrift
  BY <1>4 DEF ReplayDrift, TypeOK, Statuses, InBudget
<1>5. ASSUME Attempt
      PROVE  attemptedTransitions' \in 0 .. TransitionBudget
  BY <1>0, <1>5 DEF Attempt, InBudget
<1>6. CASE StepRejected
  BY <1>5, <1>6 DEF StepRejected, Attempt, TypeOK, Statuses, InBudget
<1>7. CASE PruneEquivalent
  <2>1. /\ pc' = "next" /\ prunedStates' = prunedStates + 1 /\ attemptedTransitions' \in 0 .. TransitionBudget
        /\ UNCHANGED <<nextFrontier, seenHashes, completedBound>>
    BY <1>5, <1>7 DEF PruneEquivalent, ChildEvaluated
  <2>2. /\ child \in State /\ target' = child /\ UNCHANGED <<m, levels, caseIndex, replayed>>
        /\ outcomes' \in [Invariants -> Outcome]
        /\ \A i \in Invariants : outcomes'[i].status \in {"Unresolved", "Violated"}
    BY <1>7, EvaluatedChild DEF PruneEquivalent
  <2>3. Statuses' /\ InBudget'
    BY <2>1, <2>2 DEF Statuses, InBudget
  <2>4. /\ m' = m /\ depth' = depth /\ frontier' = frontier /\ parentIndex' = parentIndex /\ caseIndex' = caseIndex
        /\ replayed' = replayed /\ nextFrontier' = nextFrontier /\ seenHashes' = seenHashes
        /\ completedBound' = completedBound
    BY <2>1, <2>2
  <2>5. prunedStates' \in Nat
    <3>1. prunedStates \in Nat
      BY DEF TypeOK
    <3>2. prunedStates' = prunedStates + 1
      BY <1>7 DEF PruneEquivalent
    <3> QED
      BY <3>1, <3>2
  <2>6. TypeOK'
    BY <2>1, <2>2, <2>4, <2>5 DEF TypeOK
  <2> QED
    BY <2>3, <2>6
<1>8. CASE StateBudgetSpent
  BY <1>5, <1>8, EvaluatedChild DEF StateBudgetSpent, ChildEvaluated, TypeOK, Statuses, InBudget
<1>9. CASE RecordState
  <2>1. m.hash[child] \in Hash /\ Append(parentPath, caseIndex) \in Seq(Cases)
    BY <1>9, EvaluatedChild, TargetFacts DEF RecordState
  <2>2. seenHashes' \subseteq Hash
    BY <1>9, <2>1 DEF RecordState, TypeOK
  <2>3. nextFrontier' \in Seq(Seq(Cases))
    BY <1>0, <1>9, <2>1 DEF RecordState
  <2> QED
    BY <1>5, <1>9, <2>2, <2>3, EvaluatedChild DEF RecordState, ChildEvaluated, TypeOK, Statuses, InBudget
<1>10. CASE NextCase
  BY <1>10 DEF NextCase, MoreCases, TypeOK, Cases, Statuses, InBudget, WalkAssumption, StepCaseCountAssumption
<1>11. CASE NextParent
  BY <1>11 DEF NextParent, MoreParents, TypeOK, Cases, Statuses, InBudget, WalkAssumption, StepCaseCountAssumption
<1>12. CASE NextLevel
  <2>1. 1 \in 1 .. Len(nextFrontier)
    BY <1>0, <1>12, EmptySeq DEF NextLevel
  <2>2. 0 \in Cases /\ nextFrontier' \in Seq(Seq(Cases))
    BY <1>12 DEF NextLevel, Cases, WalkAssumption, StepCaseCountAssumption
  <2>3. depth' \in 1 .. MaxDepth
    BY <1>0, <1>12 DEF NextLevel
  <2> QED
    BY <1>12, <2>1, <2>2, <2>3 DEF NextLevel, LevelDone, TypeOK, Statuses, InBudget
<1>13. CASE SearchEnds
  BY <1>13 DEF SearchEnds, LevelDone, TypeOK, Statuses, InBudget
<1>14. CASE DepthOverflow
  BY <1>14 DEF DepthOverflow, LevelDone, TypeOK, Statuses, InBudget
<1>15. CASE Classify
  <2>1. /\ pc = "classify" /\ pc' = "returned" /\ completedBound' = completedBound
        /\ UNCHANGED <<m, levels, nextFrontier, caseIndex, stats, live>>
        /\ outcomes' = [i \in Invariants |->
            [outcomes[i] EXCEPT
                !.status = FinalStatus(outcomes[i]),
                !.exploredCandidates = IF outcomes[i].status = "Violated"
                                       THEN @ ELSE attemptedTransitions]]
    BY <1>15 DEF Classify
  <2>2. ASSUME NEW i \in Invariants
        PROVE  /\ outcomes'[i] \in Outcome
               /\ outcomes'[i].status = FinalStatus(outcomes[i])
               /\ outcomes'[i].sawInconclusive = outcomes[i].sawInconclusive
    <3>1. outcomes[i] \in Outcome /\ attemptedTransitions \in Nat
      BY <1>0 DEF TypeOK
    <3>2. FinalStatus(outcomes[i]) \in {"Violated", "Inconclusive", "NotFoundWithinBound"}
      BY DEF FinalStatus
    <3> QED
      BY <2>1, <3>1, <3>2 DEF Outcome
  <2>3. Statuses'
    <3> SUFFICES ASSUME NEW i \in Invariants
                 PROVE  /\ outcomes'[i].status = "NotFoundWithinBound" =>
                                completedBound /\ ~ outcomes'[i].sawInconclusive
                        /\ outcomes'[i].status = "Inconclusive" =>
                                ~ completedBound \/ outcomes'[i].sawInconclusive
                        /\ outcomes'[i].status # "Unresolved"
      <4>1. pc' = "returned" /\ completedBound' = completedBound
        BY <1>15 DEF Classify
      <4> QED
        BY <4>1 DEF Statuses
    <3> QED
      BY <2>2 DEF FinalStatus
  <2> QED
    BY <2>1, <2>2, <2>3 DEF TypeOK, InBudget
<1>16. CASE UNCHANGED vars
  BY <1>16 DEF vars, TypeOK, Statuses, InBudget
<1> QED
  BY <1>1, <1>2, <1>3, <1>4, <1>6, <1>7, <1>8, <1>9, <1>10, <1>11, <1>12,
     <1>13, <1>14, <1>15, <1>16 DEF Next

-----------------------------------------------------------------------------
(***************************************************************************)
(* What needs nothing of the hooks: what has been replayed is a run along  *)
(* the parent's path that ends at the live target, paths are as long as    *)
(* their level is deep, and what the outcomes say was seen was seen.       *)
(***************************************************************************)
ReplayedRun(x, p, n, s, r) ==
    /\ r[0] \in x.start
    /\ \A i \in 1 .. n : r[i] = x.step[r[i-1]][p[i]]
    /\ r[n] = s

ReplayInv ==
    pc = "replay" =>
        /\ replayed <= Len(parentPath)
        /\ \E r \in [0 .. replayed -> State] : ReplayedRun(m, parentPath, replayed, target, r)

PathLengths ==
    /\ \A i \in 1 .. Len(frontier) : Len(frontier[i]) = depth - 1
    /\ \A i \in 1 .. Len(nextFrontier) : Len(nextFrontier[i]) = depth

SawIsReal == \A i \in Invariants : outcomes[i].sawInconclusive => Occurs(i, "Inconclusive", MaxDepth)

RunInv == TypeInv /\ ReplayInv /\ PathLengths /\ SawIsReal /\ WitnessesReproduce

(* A run extended by one state. *)
LEMMA ExtendRun ==
  ASSUME NEW n \in Nat, NEW r \in [0 .. n -> State], NEW x \in State
  PROVE  LET q == [i \in 0 .. n + 1 |-> IF i <= n THEN r[i] ELSE x]
         IN  /\ q \in [0 .. n + 1 -> State]
             /\ q[n + 1] = x
             /\ \A i \in 0 .. n : q[i] = r[i]
  OBVIOUS

(* Once the parent's path is replayed, an accepted step extends the run. *)
LEMMA RunToChild ==
  ASSUME WalkAssumption, TypeInv, ReplayInv, pc = "replay", replayed = Len(parentPath), child # Rejected
  PROVE  LET p == Append(parentPath, caseIndex)
         IN  /\ child \in State /\ p \in Seq(Cases) /\ Len(p) = Len(parentPath) + 1
             /\ \E q \in [0 .. Len(p) -> State] : RunAlong(m, p, q) /\ q[Len(p)] = child
<1> DEFINE p == Append(parentPath, caseIndex)
           n == Len(parentPath)
<1>0. /\ m \in Targets /\ caseIndex \in Cases /\ target \in State /\ parentPath \in Seq(Cases) /\ n \in Nat
  BY TypeFacts DEF TypeInv
<1>1. child \in State
  BY <1>0, TargetFacts DEF child
<1>2. PICK r \in [0 .. n -> State] : ReplayedRun(m, parentPath, n, target, r)
  BY DEF ReplayInv
<1> DEFINE q == [i \in 0 .. n + 1 |-> IF i <= n THEN r[i] ELSE child]
<1>3. /\ q \in [0 .. n + 1 -> State] /\ q[n + 1] = child
      /\ \A i \in 0 .. n : q[i] = r[i]
  BY <1>0, <1>1, ExtendRun
<1> HIDE DEF q
<1>4. /\ p \in Seq(Cases) /\ Len(p) = n + 1 /\ p[n + 1] = caseIndex
      /\ \A i \in 1 .. n : p[i] = parentPath[i]
  BY <1>0, AppendProperties
<1> HIDE DEF p
<1>5. \A i \in 1 .. n + 1 : q[i] = m.step[q[i-1]][p[i]]
  <2> SUFFICES ASSUME NEW i \in 1 .. n + 1 PROVE q[i] = m.step[q[i-1]][p[i]]
    OBVIOUS
  <2>1. CASE i = n + 1
    <3>1. q[i - 1] = target
      BY <2>1, <1>0, <1>2, <1>3 DEF ReplayedRun
    <3> QED
      BY <2>1, <3>1, <1>3, <1>4 DEF child
  <2>2. CASE i # n + 1
    <3>1. i \in 1 .. n /\ i - 1 \in 0 .. n /\ i \in 0 .. n
      BY <2>2, <1>0
    <3> QED
      BY <3>1, <1>2, <1>3, <1>4 DEF ReplayedRun
  <2> QED
    BY <2>1, <2>2
<1>6. q[0] \in m.start
  BY <1>0, <1>2, <1>3 DEF ReplayedRun
<1>7. RunAlong(m, p, q)
  BY <1>3, <1>4, <1>5, <1>6 DEF RunAlong
<1> QED
  BY <1>1, <1>3, <1>4, <1>7 DEF p

(* A run along a path of the corpus is one of its runs. *)
LEMMA PathIsRun ==
  ASSUME NEW p \in Seq(Cases), NEW q \in [0 .. Len(p) -> State], RunAlong(m, p, q), Len(p) \in Nat, Len(p) >= 1,
         NEW d \in Nat, Len(p) <= d
  PROVE  q[Len(p)] \in ReachedWithin(m, d)
<1>1. \A i \in 1 .. Len(p) : p[i] \in Cases
  OBVIOUS
<1>2. IsRun(m, Len(p), q)
  BY <1>1 DEF RunAlong, IsRun
<1>3. Len(p) \in 1 .. d /\ Len(p) \in 0 .. Len(p)
  OBVIOUS
<1> QED
  BY <1>2, <1>3 DEF ReachedWithin

(* The run that is being replayed goes on with each step. *)
LEMMA ReplayStepRuns ==
  ASSUME WalkAssumption, TypeInv, TypeInv', ReplayInv, ReplayStep
  PROVE  ReplayInv'
<1>0. /\ parentPath \in Seq(Cases) /\ Len(parentPath) \in Nat /\ replayed \in Nat
  BY TypeFacts DEF TypeInv
<1>1. PICK r \in [0 .. replayed -> State] : ReplayedRun(m, parentPath, replayed, target, r)
  BY DEF ReplayStep, ReplayInv
<1> DEFINE q == [i \in 0 .. replayed + 1 |-> IF i <= replayed THEN r[i] ELSE target']
<1>2. target' \in State
  BY DEF TypeInv, TypeOK
<1>3. /\ q \in [0 .. replayed + 1 -> State] /\ q[replayed + 1] = target'
      /\ \A i \in 0 .. replayed : q[i] = r[i]
  BY <1>0, <1>2, ExtendRun
<1> HIDE DEF q
<1>4. /\ replayed' = replayed + 1 /\ m' = m /\ parentPath' = parentPath /\ replayed < Len(parentPath)
      /\ target' = m.step[target][parentPath[replayed + 1]]
  BY DEF ReplayStep, parentPath, levels
<1>5. \A i \in 1 .. replayed + 1 : q[i] = m.step[q[i-1]][parentPath[i]]
  <2> SUFFICES ASSUME NEW i \in 1 .. replayed + 1 PROVE q[i] = m.step[q[i-1]][parentPath[i]]
    OBVIOUS
  <2>1. CASE i = replayed + 1
    <3>1. q[i - 1] = target
      BY <2>1, <1>0, <1>1, <1>3 DEF ReplayedRun
    <3> QED
      BY <2>1, <3>1, <1>3, <1>4
  <2>2. CASE i # replayed + 1
    <3>1. i \in 1 .. replayed /\ i - 1 \in 0 .. replayed /\ i \in 0 .. replayed
      BY <2>2, <1>0
    <3> QED
      BY <3>1, <1>1, <1>3 DEF ReplayedRun
  <2> QED
    BY <2>1, <2>2
<1>6. q[0] \in m.start
  BY <1>0, <1>1, <1>3 DEF ReplayedRun
<1>7. ReplayedRun(m', parentPath', replayed', target', q) /\ q \in [0 .. replayed' -> State]
  BY <1>3, <1>4, <1>5, <1>6 DEF ReplayedRun
<1> QED
  BY <1>0, <1>4, <1>7 DEF ReplayInv

(* An initial state of the run satisfies the inductive invariant.          *)
LEMMA RunInit == WalkAssumption /\ Init => RunInv
<1> SUFFICES ASSUME WalkAssumption, Init PROVE RunInv
  OBVIOUS
<1>1. Len(<< <<>> >>) = 1 /\ << <<>> >>[1] = <<>> /\ Len(<<>>) = 0
  OBVIOUS
<1>2. PathLengths /\ ReplayInv
  BY <1>1 DEF Init, PathLengths, ReplayInv
<1>3. \A i \in Invariants : ~ outcomes[i].sawInconclusive /\ outcomes[i].status = "Unresolved"
  BY DEF Init, Unresolved
<1> QED
  BY <1>2, <1>3, TypeInit DEF RunInv, SawIsReal, WitnessesReproduce

(* An evaluated child is what the outcomes now say of it. *)
LEMMA EvaluatedRun ==
  ASSUME WalkAssumption, RunInv, ChildEvaluated
  PROVE  SawIsReal' /\ WitnessesReproduce'
<1>0. /\ TypeInv /\ ReplayInv /\ PathLengths /\ SawIsReal /\ WitnessesReproduce
      /\ depth \in Nat /\ depth <= MaxDepth /\ MaxDepth \in Nat
      /\ parentIndex \in 1 .. Len(frontier) /\ Len(parentPath) \in Nat
  BY TypeFacts DEF RunInv, TypeInv
<1> DEFINE p == Append(parentPath, caseIndex)
<1>1. /\ pc = "replay" /\ replayed = Len(parentPath) /\ child # Rejected /\ m' = m
      /\ \A i \in Invariants : outcomes'[i] = Evaluated(outcomes[i], m.eval[child][i])
  BY <1>0, EvaluatedChild DEF ChildEvaluated
<1>2. /\ p \in Seq(Cases) /\ Len(p) = Len(parentPath) + 1 /\ child \in State /\ attemptedTransitions \in Nat
  BY <1>0, <1>1, RunToChild, EvaluatedChild
<1>3. PICK q \in [0 .. Len(p) -> State] : RunAlong(m, p, q) /\ q[Len(p)] = child
  BY <1>0, <1>1, RunToChild
<1>4. Len(p) = depth /\ Len(p) >= 1
  BY <1>0, <1>2 DEF PathLengths, parentPath
<1> HIDE DEF p
<1>5. child \in ReachedWithin(m, MaxDepth)
  <2>1. q[Len(p)] \in ReachedWithin(m, MaxDepth)
    BY <1>0, <1>2, <1>3, <1>4, PathIsRun
  <2> QED
    BY <1>3, <2>1
<1>6. ASSUME NEW i \in Invariants
      PROVE  /\ outcomes'[i].sawInconclusive => Occurs(i, "Inconclusive", MaxDepth)
             /\ outcomes'[i].status = "Violated" =>
                    \/ outcomes'[i] = outcomes[i] /\ outcomes[i].status = "Violated"
                    \/ outcomes'[i].path = p /\ m.eval[child][i] = "Violated"
  <2>1. outcomes[i] \in Outcome /\ outcomes[i].status \in {"Unresolved", "Violated"}
    BY <1>0, <1>1, NotFinal
  <2>2. CASE outcomes[i].status = "Violated"
    <3>1. outcomes'[i] = outcomes[i]
      BY <2>1, <2>2, <1>1, <1>2, EvaluatedFacts DEF p
    <3> QED
      BY <2>2, <3>1, <1>0 DEF SawIsReal
  <2>3. CASE outcomes[i].status # "Violated" /\ m.eval[child][i] = "Violated"
    <3>1. outcomes'[i].path = p /\ outcomes'[i].sawInconclusive = outcomes[i].sawInconclusive
      BY <2>1, <2>3, <1>1, <1>2, EvaluatedFacts DEF p
    <3> QED
      BY <2>3, <3>1, <1>0 DEF SawIsReal
  <2>4. CASE outcomes[i].status # "Violated" /\ m.eval[child][i] # "Violated"
    <3>1. /\ outcomes'[i].status = outcomes[i].status
          /\ outcomes'[i].sawInconclusive = (outcomes[i].sawInconclusive \/ m.eval[child][i] = "Inconclusive")
      BY <2>1, <2>4, <1>1, <1>2, EvaluatedFacts DEF p
    <3>2. m.eval[child][i] = "Inconclusive" => Occurs(i, "Inconclusive", MaxDepth)
      BY <1>5 DEF Occurs
    <3>3. outcomes[i].sawInconclusive => Occurs(i, "Inconclusive", MaxDepth)
      BY <1>0 DEF SawIsReal
    <3> QED
      BY <2>4, <3>1, <3>2, <3>3
  <2> QED
    BY <2>2, <2>3, <2>4
<1>7. SawIsReal'
  BY <1>1, <1>6 DEF SawIsReal, Occurs
<1>8. WitnessesReproduce'
  <2> SUFFICES ASSUME NEW i \in Invariants, outcomes'[i].status = "Violated"
               PROVE  \E r \in [0 .. Len(outcomes'[i].path) -> State] :
                         RunAlong(m, outcomes'[i].path, r) /\ m.eval[r[Len(outcomes'[i].path)]][i] = "Violated"
    BY <1>1 DEF WitnessesReproduce
  <2>1. CASE outcomes'[i] = outcomes[i] /\ outcomes[i].status = "Violated"
    BY <2>1, <1>0 DEF WitnessesReproduce
  <2>2. CASE outcomes'[i].path = p /\ m.eval[child][i] = "Violated"
    BY <2>2, <1>3
  <2> QED
    BY <2>1, <2>2, <1>6
<1> QED
  BY <1>7, <1>8

(* Every step of the run keeps the inductive invariant.                    *)
LEMMA RunStep == WalkAssumption /\ RunInv /\ [Next]_vars => RunInv'
<1> SUFFICES ASSUME WalkAssumption, RunInv, [Next]_vars PROVE RunInv'
  OBVIOUS
<1>0. TypeInv' /\ TypeInv /\ ReplayInv /\ PathLengths /\ SawIsReal /\ WitnessesReproduce
  BY TypeStep DEF RunInv
<1>1. /\ m \in Targets /\ depth \in Nat /\ Len(parentPath) \in Nat /\ nextFrontier \in Seq(Seq(Cases))
      /\ Len(nextFrontier) \in Nat /\ parentIndex \in 1 .. Len(frontier) /\ Append(parentPath, caseIndex) \in Seq(Cases)
      /\ parentPath \in Seq(Cases) /\ caseIndex \in Cases
  BY <1>0, TypeFacts DEF TypeInv
<1>2. ReplayInv'
  <2>1. CASE ResetTarget
    <3>1. target' \in m'.start /\ target' \in State /\ replayed' = 0 /\ parentPath' = parentPath
      BY <2>1, <1>1, TargetFacts DEF ResetTarget, parentPath, levels
    <3> DEFINE r == [i \in 0 .. 0 |-> target']
    <3>2. r \in [0 .. replayed' -> State] /\ ReplayedRun(m', parentPath', replayed', target', r)
      BY <3>1 DEF ReplayedRun
    <3>3. replayed' <= Len(parentPath')
      BY <3>1, <1>1
    <3> QED
      BY <3>2, <3>3 DEF ReplayInv
  <2>2. CASE ReplayStep
    BY <2>2, <1>0, ReplayStepRuns
  <2>3. CASE pc' # "replay"
    BY <2>3 DEF ReplayInv
  <2>4. CASE UNCHANGED vars
    BY <2>4, <1>0 DEF vars, levels, live, ReplayInv, ReplayedRun, parentPath
  <2>5. Next => ResetTarget \/ ReplayStep \/ pc' # "replay"
    BY DEF Next, BudgetSpent, ReplayDrift, StepRejected, PruneEquivalent, StateBudgetSpent, RecordState,
           NextCase, NextParent, NextLevel, SearchEnds, DepthOverflow, Classify
  <2> QED
    BY <2>1, <2>2, <2>3, <2>4, <2>5
<1>3. PathLengths'
  <2>1. CASE UNCHANGED <<depth, frontier, nextFrontier>>
    BY <2>1, <1>0 DEF PathLengths
  <2>2. CASE RecordState
    <3> DEFINE p == Append(parentPath, caseIndex)
    <3>1. /\ depth' = depth /\ frontier' = frontier /\ nextFrontier' = Append(nextFrontier, p)
      BY <2>2 DEF RecordState, ChildEvaluated, Attempt, levels
    <3>2. p \in Seq(Cases) /\ Len(p) = depth
      <4>1. Len(parentPath) = depth - 1
        BY <1>0, <1>1 DEF PathLengths, parentPath
      <4> QED
        BY <4>1, <1>1
    <3> HIDE DEF p
    <3>3. \A i \in 1 .. Len(Append(nextFrontier, p)) : Len(Append(nextFrontier, p)[i]) = depth
      BY <3>2, <1>0, <1>1 DEF PathLengths
    <3> QED
      BY <3>1, <3>3, <1>0 DEF PathLengths
  <2>3. CASE NextLevel
    <3>1. depth' = depth + 1 /\ frontier' = nextFrontier /\ nextFrontier' = <<>> /\ Len(<<>>) = 0
      BY <2>3 DEF NextLevel
    <3> QED
      BY <3>1, <1>0, <1>1 DEF PathLengths
  <2> QED
    BY <2>1, <2>2, <2>3 DEF Next, vars, levels, BudgetSpent, ResetTarget, ReplayStep, ReplayDrift, StepRejected, PruneEquivalent,
       StateBudgetSpent, ChildEvaluated, Attempt, NextCase, NextParent, SearchEnds, DepthOverflow, Classify
<1>4. SawIsReal' /\ WitnessesReproduce'
  <2>1. CASE UNCHANGED <<m, outcomes>>
    <3>1. m' = m /\ outcomes' = outcomes
      BY <2>1
    <3> QED
      BY <3>1, <1>0 DEF SawIsReal, WitnessesReproduce, Occurs
  <2>2. CASE PruneEquivalent \/ StateBudgetSpent \/ RecordState
    BY <2>2, EvaluatedRun DEF PruneEquivalent, StateBudgetSpent, RecordState
  <2>3. CASE Classify
    <3>1. m' = m /\ outcomes \in [Invariants -> Outcome] /\ pc # "returned"
      BY <2>3, <1>0 DEF Classify, TypeInv, TypeOK
    <3>2. ASSUME NEW i \in Invariants
          PROVE  /\ outcomes'[i].sawInconclusive = outcomes[i].sawInconclusive
                 /\ outcomes'[i].path = outcomes[i].path
                 /\ outcomes'[i].status = "Violated" => outcomes[i].status = "Violated"
      <4>1. outcomes'[i] = [outcomes[i] EXCEPT
                !.status = FinalStatus(outcomes[i]),
                !.exploredCandidates = IF outcomes[i].status = "Violated" THEN @ ELSE attemptedTransitions]
        BY <2>3 DEF Classify
      <4>2. FinalStatus(outcomes[i]) = "Violated" => outcomes[i].status = "Violated"
        BY DEF FinalStatus
      <4> QED
        BY <4>1, <4>2, <3>1 DEF Outcome
    <3>3. SawIsReal'
      BY <3>1, <3>2, <1>0 DEF SawIsReal, Occurs
    <3>4. WitnessesReproduce'
      BY <3>1, <3>2, <1>0 DEF WitnessesReproduce
    <3> QED
      BY <3>3, <3>4
  <2> QED
    BY <2>1, <2>2, <2>3 DEF Next, vars, unchangedByLoops, BudgetSpent, ResetTarget, ReplayStep, ReplayDrift, StepRejected, Attempt,
       NextCase, NextParent, NextLevel, SearchEnds, DepthOverflow
<1> QED
  BY <1>0, <1>2, <1>3, <1>4 DEF RunInv

-----------------------------------------------------------------------------
(***************************************************************************)
(* The rest holds of a target whose hooks keep their contract.  The walk   *)
(* keeps no record of the level it met a hash at: lv is some function that *)
(* says so.                                                                *)
(***************************************************************************)

(* h is the hash of the state that a run along p ends in. *)
Ends(p, h) == \E r \in [0 .. Len(p) -> State] : RunAlong(m, p, r) /\ m.hash[r[Len(p)]] = h

(* Every path of ps replays, and ends in hashes met at d. *)
Retained(lv, ps, d) ==
    \A i \in 1 .. Len(ps) :
        /\ \E r \in [0 .. Len(ps[i]) -> State] : RunAlong(m, ps[i], r)
        /\ \A h \in Hash : Ends(ps[i], h) => h \in seenHashes /\ lv[h] = d

(* A deterministic target replays a path in one way only. *)
ReplayIsTheRun ==
    pc = "replay" =>
        \A r \in [0 .. Len(parentPath) -> State] :
            RunAlong(m, parentPath, r) => r[replayed] = target

(* The outcome of i shows that i was evaluated to v. *)
Noticed(i, v) ==
    /\ v = "Violated" => outcomes[i].status = "Violated"
    /\ v = "Inconclusive" => outcomes[i].status = "Violated" \/ outcomes[i].sawInconclusive

(* Step c was tried on hash h: if accepted, its child was evaluated and is *)
(* recorded at most one level below.                                       *)
Tried(lv, h, c) ==
    \A s \in State :
        m.hash[s] = h /\ m.step[s][c] # Rejected =>
            /\ \A i \in Invariants : Noticed(i, m.eval[m.step[s][c]][i])
            /\ m.hash[m.step[s][c]] \in seenHashes
            /\ lv[m.hash[m.step[s][c]]] <= lv[h] + 1

Expanded(lv, h) == \A c \in Cases : Tried(lv, h, c)

TriedSoFar(c) ==
    \/ c < caseIndex
    \/ c = caseIndex /\ (pc = "next" \/ (pc \in {"classify", "returned"} /\ completedBound))

(* Each recorded hash is expanded, or waits in one of the two frontiers. *)
Covered(lv) ==
    /\ \A s \in m.start : m.hash[s] \in seenHashes /\ lv[m.hash[s]] = 0
    /\ \A h \in seenHashes :
        /\ lv[h] <= depth
        /\ \/ Expanded(lv, h)
           \/ lv[h] = depth - 1 /\ \E i \in parentIndex .. Len(frontier) : Ends(frontier[i], h)
           \/ lv[h] = depth /\ \E i \in 1 .. Len(nextFrontier) : Ends(nextFrontier[i], h)
    /\ \A h \in Hash : Ends(parentPath, h) => \A c \in Cases : TriedSoFar(c) => Tried(lv, h, c)

(* A walk that completed its bound ended where there was no more to try. *)
Completed ==
    /\ pc = "level" => ~ completedBound
    /\ pc \in {"classify", "returned"} /\ completedBound =>
            ~ MoreCases /\ ~ MoreParents /\ (nextFrontier = <<>> \/ depth = MaxDepth)

WalkInv(lv) ==
    /\ lv \in [seenHashes -> Nat]
    /\ Retained(lv, frontier, depth - 1)
    /\ Retained(lv, nextFrontier, depth)
    /\ ReplayIsTheRun
    /\ Covered(lv)
    /\ Completed
    /\ WitnessesAreShortest

IInv == RunInv /\ (HookContract => \E lv \in [seenHashes -> Nat] : WalkInv(lv))

(* If every hash met above depth d is expanded, a run of k <= d steps only *)
(* meets recorded hashes, each no deeper than its place in the run, and    *)
(* states whose evaluation was noticed.                                    *)
LEMMA RunsAreCovered ==
  ASSUME WalkAssumption, NEW lv \in [seenHashes -> Nat], Covered(lv), NEW d \in Nat,
         \A h \in seenHashes : lv[h] < d => Expanded(lv, h),
         NEW k \in Nat, k <= d, NEW r \in [0 .. k -> State], IsRun(m, k, r)
  PROVE  \A n \in 0 .. k :
            /\ m.hash[r[n]] \in seenHashes
            /\ lv[m.hash[r[n]]] <= n
            /\ n > 0 => \A i \in Invariants : Noticed(i, m.eval[r[n]][i])
<1> DEFINE Good(n) == /\ m.hash[r[n]] \in seenHashes
                      /\ lv[m.hash[r[n]]] <= n
                      /\ n > 0 => \A i \in Invariants : Noticed(i, m.eval[r[n]][i])
           T == {n \in Nat : n <= k => Good(n)}
<1>1. 0 \in T
  BY DEF IsRun, Covered
<1>2. ASSUME NEW n \in Nat, n \in T PROVE n + 1 \in T
  <2> SUFFICES ASSUME n + 1 <= k PROVE Good(n + 1)
    OBVIOUS
  <2>1. Good(n) /\ n \in 0 .. k /\ n + 1 \in 0 .. k /\ n + 1 \in 1 .. k /\ (n + 1) - 1 = n
    BY <1>2
  <2>2. PICK c \in Cases : r[n + 1] = m.step[r[(n + 1) - 1]][c]
    BY <2>1 DEF IsRun
  <2>3. r[n] \in State /\ r[n + 1] \in State /\ r[n + 1] # Rejected
    BY <2>1 DEF WalkAssumption, RejectedAssumption
  <2>4. lv[m.hash[r[n]]] \in Nat /\ lv[m.hash[r[n]]] < d
    BY <2>1
  <2>5. Tried(lv, m.hash[r[n]], c)
    BY <2>1, <2>4 DEF Expanded
  <2>6. /\ \A i \in Invariants : Noticed(i, m.eval[r[n + 1]][i])
        /\ m.hash[r[n + 1]] \in seenHashes
        /\ lv[m.hash[r[n + 1]]] <= lv[m.hash[r[n]]] + 1
    BY <2>1, <2>2, <2>3, <2>5 DEF Tried
  <2>7. lv[m.hash[r[n + 1]]] \in Nat
    BY <2>6
  <2> QED
    BY <2>1, <2>4, <2>6, <2>7
<1> HIDE DEF Good
<1>3. Nat \subseteq T
  BY <1>1, <1>2, SetInduction
<1>4. \A n \in 0 .. k : Good(n)
  BY <1>3
<1> QED
  BY <1>4 DEF Good

(* What ends a run of at most d steps was noticed. *)
LEMMA OccurrencesNoticed ==
  ASSUME WalkAssumption, NEW lv \in [seenHashes -> Nat], Covered(lv), NEW d \in Nat,
         \A h \in seenHashes : lv[h] < d => Expanded(lv, h)
  PROVE  \A i \in Invariants : \A v : Occurs(i, v, d) => Noticed(i, v)
<1> SUFFICES ASSUME NEW i \in Invariants, NEW v, NEW k \in 1 .. d, NEW r \in [0 .. k -> State],
                    IsRun(m, k, r), m.eval[r[k]][i] = v
             PROVE  Noticed(i, v)
  BY DEF Occurs, ReachedWithin
<1>1. k \in Nat /\ k <= d /\ k \in 0 .. k /\ k > 0
  OBVIOUS
<1> QED
  BY <1>1, RunsAreCovered

(* The walk starts with the levels that the walk invariant asks for.       *)
LEMMA WalkInit ==
  ASSUME WalkAssumption, Init, HookContract
  PROVE  \E lv \in [seenHashes -> Nat] : WalkInv(lv)
<1>1. m \in Targets /\ m.start \subseteq State /\ target \in m.start /\ target \in State
  BY TargetFacts DEF Init
<1>2. m.start = {target}
  BY <1>1 DEF HookContract, DeterministicReset
<1>3. /\ frontier = << <<>> >> /\ Len(frontier) = 1 /\ frontier[1] = <<>>
      /\ parentIndex = 1 /\ parentPath = <<>> /\ Len(<<>>) = 0
      /\ nextFrontier = <<>> /\ Len(nextFrontier) = 0 /\ depth = 1
  BY DEF Init, parentPath
<1>4. seenHashes = {m.hash[target]} /\ pc = "case" /\ caseIndex = 0
  BY DEF Init
<1> DEFINE r0 == [i \in 0 .. 0 |-> target]
           lv == [h \in seenHashes |-> 0]
<1>5. r0 \in [0 .. 0 -> State] /\ r0[0] = target /\ RunAlong(m, <<>>, r0)
  BY <1>1, <1>3 DEF RunAlong
<1>6. \A h : Ends(<<>>, h) <=> h = m.hash[target]
  <2>1. ASSUME NEW h, Ends(<<>>, h) PROVE h = m.hash[target]
    BY <2>1, <1>2, <1>3 DEF Ends, RunAlong
  <2>2. Ends(<<>>, m.hash[target])
    BY <1>3, <1>5 DEF Ends
  <2> QED
    BY <2>1, <2>2
<1>7. Retained(lv, frontier, depth - 1)
  <2> SUFFICES ASSUME NEW i \in 1 .. Len(frontier)
               PROVE  /\ \E r \in [0 .. Len(frontier[i]) -> State] : RunAlong(m, frontier[i], r)
                      /\ \A h \in Hash : Ends(frontier[i], h) => h \in seenHashes /\ lv[h] = depth - 1
    BY DEF Retained
  <2>1. frontier[i] = <<>>
    BY <1>3
  <2>2. \E r \in [0 .. Len(frontier[i]) -> State] : RunAlong(m, frontier[i], r)
    BY <2>1, <1>3, <1>5
  <2>3. \A h \in Hash : Ends(frontier[i], h) => h \in seenHashes /\ lv[h] = depth - 1
    BY <2>1, <1>3, <1>4, <1>6
  <2> QED
    BY <2>2, <2>3
<1>8. Retained(lv, nextFrontier, depth)
  BY <1>3 DEF Retained
<1>9. Covered(lv)
  <2>1. \A h \in seenHashes : lv[h] = depth - 1 /\ lv[h] <= depth /\ Ends(frontier[1], h)
    BY <1>3, <1>4, <1>6
  <2>2. \A s \in m.start : m.hash[s] \in seenHashes /\ lv[m.hash[s]] = 0
    BY <1>2, <1>4
  <2>3. \A c \in Cases : ~ TriedSoFar(c)
    BY <1>4 DEF TriedSoFar, Cases
  <2>4. 1 \in parentIndex .. Len(frontier)
    BY <1>3
  <2> QED
    BY <2>1, <2>2, <2>3, <2>4 DEF Covered
<1>10. ReplayIsTheRun /\ Completed /\ WitnessesAreShortest
  BY <1>4 DEF Init, Unresolved, ReplayIsTheRun, Completed, WitnessesAreShortest
<1>11. lv \in [seenHashes -> Nat]
  OBVIOUS
<1> QED
  BY <1>7, <1>8, <1>9, <1>10, <1>11 DEF WalkInv

(* Once the parent's path is replayed the live target is the state it ends *)
(* in, whose hash was met one level up.                                    *)
AtParent == pc = "replay" /\ replayed = Len(parentPath)

(* At the parent of a transition: the path there is run along to the       *)
(* target, its hash is known, and its level is one above the depth.        *)
LEMMA AtParentFacts ==
  ASSUME WalkAssumption, TypeInv, NEW lv, WalkInv(lv), AtParent
  PROVE  /\ m \in Targets /\ parentPath \in Seq(Cases) /\ target \in State
         /\ \E r \in [0 .. Len(parentPath) -> State] :
                RunAlong(m, parentPath, r) /\ r[Len(parentPath)] = target
         /\ \A r \in [0 .. Len(parentPath) -> State] :
                RunAlong(m, parentPath, r) => r[Len(parentPath)] = target
         /\ \A h : Ends(parentPath, h) <=> h = m.hash[target]
         /\ m.hash[target] \in Hash
         /\ m.hash[target] \in seenHashes
         /\ lv[m.hash[target]] = depth - 1
<1>1. /\ m \in Targets /\ parentPath \in Seq(Cases) /\ target \in State /\ parentIndex \in 1 .. Len(frontier)
  BY TypeFacts DEF TypeInv
<1>2. m.hash[target] \in Hash
  BY <1>1, TargetFacts
<1>3. \A r \in [0 .. Len(parentPath) -> State] :
          RunAlong(m, parentPath, r) => r[Len(parentPath)] = target
  BY DEF WalkInv, ReplayIsTheRun, AtParent
<1>4. /\ \E r \in [0 .. Len(parentPath) -> State] : RunAlong(m, parentPath, r)
      /\ \A h \in Hash : Ends(parentPath, h) => h \in seenHashes /\ lv[h] = depth - 1
  BY <1>1 DEF WalkInv, Retained, parentPath
<1>5. \A h : Ends(parentPath, h) <=> h = m.hash[target]
  BY <1>3, <1>4 DEF Ends
<1> QED
  BY <1>1, <1>2, <1>3, <1>4, <1>5

-----------------------------------------------------------------------------
(* What was noticed stays so, ... *)
LEMMA NoticedStays ==
  ASSUME WalkAssumption, TypeInv, [Next]_vars
  PROVE  \A i \in Invariants : \A v : Noticed(i, v) => Noticed(i, v)'
<1> SUFFICES ASSUME NEW i \in Invariants
             PROVE  /\ outcomes[i].status = "Violated" => outcomes'[i].status = "Violated"
                    /\ outcomes[i].sawInconclusive => outcomes'[i].status = "Violated" \/ outcomes'[i].sawInconclusive
  BY DEF Noticed
<1>1. CASE ChildEvaluated
  <2>1. /\ outcomes'[i] = Evaluated(outcomes[i], m.eval[child][i])
        /\ Append(parentPath, caseIndex) \in Seq(Cases) /\ attemptedTransitions \in Nat /\ pc = "replay"
    BY <1>1, EvaluatedChild
  <2>2. outcomes[i] \in Outcome /\ outcomes[i].status \in {"Unresolved", "Violated"}
    BY <2>1, NotFinal
  <2>3. CASE outcomes[i].status = "Violated"
    BY <2>1, <2>2, <2>3, EvaluatedFacts
  <2>4. CASE outcomes[i].status # "Violated" /\ m.eval[child][i] = "Violated"
    BY <2>1, <2>2, <2>4, EvaluatedFacts
  <2>5. CASE outcomes[i].status # "Violated" /\ m.eval[child][i] # "Violated"
    <3>1. outcomes'[i].sawInconclusive = (outcomes[i].sawInconclusive \/ m.eval[child][i] = "Inconclusive")
      BY <2>1, <2>2, <2>5, EvaluatedFacts
    <3> QED
      BY <2>5, <3>1
  <2> QED
    BY <2>3, <2>4, <2>5
<1>2. CASE Classify
  <2>1. outcomes[i] \in Outcome
    BY DEF TypeInv, TypeOK
  <2>2. outcomes'[i] = [outcomes[i] EXCEPT
            !.status = FinalStatus(outcomes[i]),
            !.exploredCandidates = IF outcomes[i].status = "Violated" THEN @ ELSE attemptedTransitions]
    BY <1>2 DEF Classify
  <2>3. outcomes[i].status = "Violated" => FinalStatus(outcomes[i]) = "Violated"
    BY DEF FinalStatus
  <2> QED
    BY <2>1, <2>2, <2>3 DEF Outcome
<1>3. CASE outcomes' = outcomes
  BY <1>3
<1> QED
  BY <1>1, <1>2, <1>3 DEF Next, vars, unchangedByLoops, BudgetSpent, ResetTarget, ReplayStep, ReplayDrift, StepRejected,
     PruneEquivalent, StateBudgetSpent, RecordState, NextCase, NextParent, NextLevel, SearchEnds, DepthOverflow

(* ... and a child that was evaluated is noticed. *)
LEMMA ChildNoticed ==
  ASSUME WalkAssumption, TypeInv, ChildEvaluated, NEW i \in Invariants, NEW v, v = m.eval[child][i]
  PROVE  Noticed(i, v)'
<1>1. /\ outcomes'[i] = Evaluated(outcomes[i], v) /\ child \in State /\ m \in Targets
      /\ Append(parentPath, caseIndex) \in Seq(Cases) /\ attemptedTransitions \in Nat /\ pc = "replay"
  BY EvaluatedChild
<1>2. outcomes[i] \in Outcome /\ outcomes[i].status \in {"Unresolved", "Violated"}
  BY <1>1, NotFinal
<1>3. CASE outcomes[i].status = "Violated"
  BY <1>1, <1>2, <1>3, EvaluatedFacts DEF Noticed
<1>4. CASE outcomes[i].status # "Violated" /\ v = "Violated"
  BY <1>1, <1>2, <1>4, EvaluatedFacts DEF Noticed
<1>5. CASE outcomes[i].status # "Violated" /\ v # "Violated"
  <2>1. outcomes'[i].sawInconclusive = (outcomes[i].sawInconclusive \/ v = "Inconclusive")
    BY <1>1, <1>2, <1>5, EvaluatedFacts
  <2> QED
    BY <1>5, <2>1 DEF Noticed
<1> QED
  BY <1>3, <1>4, <1>5

(* A witness is kept when the runs that are shorter have all been seen. *)
LEMMA ShortestKept ==
  ASSUME WalkAssumption, RunInv, NEW lv, WalkInv(lv), ChildEvaluated
  PROVE  WitnessesAreShortest'
<1>0. /\ TypeInv /\ PathLengths /\ depth \in Nat /\ depth >= 1 /\ Len(parentPath) \in Nat
      /\ parentIndex \in 1 .. Len(frontier) /\ parentPath \in Seq(Cases) /\ caseIndex \in Cases
  BY TypeFacts DEF RunInv, TypeInv
<1>1. /\ m' = m /\ (HookContract' <=> HookContract) /\ pc = "replay" /\ attemptedTransitions \in Nat
      /\ Append(parentPath, caseIndex) \in Seq(Cases)
      /\ \A i \in Invariants : outcomes'[i] = Evaluated(outcomes[i], m.eval[child][i])
  BY <1>0, EvaluatedChild DEF HookContract
<1>2. Len(Append(parentPath, caseIndex)) - 1 = depth - 1
  <2>1. Len(parentPath) = depth - 1
    BY <1>0 DEF PathLengths, parentPath
  <2> QED
    BY <1>0, <2>1
<1>3. \A i \in Invariants : outcomes[i].status # "Violated" => ~ Occurs(i, "Violated", depth - 1)
  <2>1. lv \in [seenHashes -> Nat] /\ Covered(lv)
    BY DEF WalkInv
  <2>2. \A h \in seenHashes : lv[h] < depth - 1 => Expanded(lv, h)
    BY <1>0, <2>1 DEF Covered
  <2>3. depth - 1 \in Nat
    BY <1>0
  <2>4. \A i \in Invariants : Occurs(i, "Violated", depth - 1) => Noticed(i, "Violated")
    BY <2>1, <2>2, <2>3, OccurrencesNoticed
  <2> QED
    BY <2>4 DEF Noticed
<1> SUFFICES ASSUME HookContract, NEW i \in Invariants, outcomes'[i].status = "Violated"
             PROVE  ~ Occurs(i, "Violated", Len(outcomes'[i].path) - 1)
  BY <1>1 DEF WitnessesAreShortest, Occurs
<1>4. outcomes[i] \in Outcome /\ outcomes[i].status \in {"Unresolved", "Violated"}
  BY <1>0, <1>1, NotFinal
<1>5. CASE outcomes[i].status = "Violated"
  <2>1. outcomes'[i] = outcomes[i]
    BY <1>1, <1>4, <1>5, EvaluatedFacts
  <2> QED
    BY <1>5, <2>1 DEF WalkInv, WitnessesAreShortest
<1>6. CASE outcomes[i].status # "Violated"
  <2>1. outcomes'[i].path = Append(parentPath, caseIndex)
    BY <1>1, <1>4, <1>6, EvaluatedFacts
  <2> QED
    BY <1>2, <1>3, <1>6, <2>1
<1> QED
  BY <1>5, <1>6

(* Steps that leave the frontiers, the records and the loops alone. *)
LEMMA QuietStep ==
  ASSUME WalkAssumption, TypeInv, NEW lv, WalkInv(lv), [Next]_vars,
         UNCHANGED <<m, levels, nextFrontier, caseIndex, seenHashes>>,
         \A c \in Cases : TriedSoFar(c)' => TriedSoFar(c)
  PROVE  /\ lv \in [seenHashes' -> Nat]
         /\ Retained(lv, frontier, depth - 1)' /\ Retained(lv, nextFrontier, depth)' /\ Covered(lv)'
<1>1. /\ m' = m /\ depth' = depth /\ frontier' = frontier /\ parentIndex' = parentIndex
      /\ nextFrontier' = nextFrontier /\ caseIndex' = caseIndex
      /\ seenHashes' = seenHashes /\ parentPath' = parentPath
  BY DEF levels, parentPath
<1>2. lv \in [seenHashes' -> Nat] /\ Retained(lv, frontier, depth - 1)' /\ Retained(lv, nextFrontier, depth)'
  BY <1>1 DEF WalkInv, Retained, Ends
<1>3. \A h, c : Tried(lv, h, c) => Tried(lv, h, c)'
  <2>1. \A i \in Invariants : \A v : Noticed(i, v) => Noticed(i, v)'
    BY NoticedStays
  <2> QED
    BY <1>1, <2>1 DEF Tried
<1>4. \A h : Expanded(lv, h) => Expanded(lv, h)'
  BY <1>3 DEF Expanded
<1>5. \A p, h : Ends(p, h)' <=> Ends(p, h)
  BY <1>1 DEF Ends
<1>6. Covered(lv)
  BY DEF WalkInv
<1>7. /\ \A s \in m'.start : m'.hash[s] \in seenHashes' /\ lv[m'.hash[s]] = 0
      /\ \A h \in seenHashes' :
            /\ lv[h] <= depth'
            /\ \/ Expanded(lv, h)'
               \/ lv[h] = depth' - 1 /\ \E i \in parentIndex' .. Len(frontier') : Ends(frontier[i], h)'
               \/ lv[h] = depth' /\ \E i \in 1 .. Len(nextFrontier') : Ends(nextFrontier[i], h)'
  BY <1>1, <1>4, <1>6 DEF Covered, Ends
<1>8. \A h \in Hash : Ends(parentPath, h)' => \A c \in Cases : TriedSoFar(c)' => Tried(lv, h, c)'
  BY <1>1, <1>3, <1>6 DEF Covered, Ends
<1>9. Covered(lv)'
  BY <1>7, <1>8 DEF Covered
<1> QED
  BY <1>2, <1>9

(* What one attempt establishes about every state with the parent's hash,  *)
(* when the hash is complete.                                              *)
LEMMA TriedNow ==
  ASSUME WalkAssumption, TypeInv, HookContract, NEW lv, WalkInv(lv), AtParent, m' = m,
         NEW lw, NEW h, h = m.hash[target], lw[h] = depth - 1, NEW c, c = caseIndex,
         \/ child = Rejected
         \/ ChildEvaluated /\ m.hash[child] \in seenHashes' /\ lw[m.hash[child]] <= depth
  PROVE  Tried(lw, h, c)'
<1>1. target \in State /\ caseIndex \in Cases /\ depth \in Nat
  BY TypeFacts DEF TypeInv
<1> SUFFICES ASSUME NEW s \in State, m.hash[s] = h, m.step[s][c] # Rejected
             PROVE  /\ \A i \in Invariants : Noticed(i, m.eval[m.step[s][c]][i])'
                    /\ m.hash[m.step[s][c]] \in seenHashes'
                    /\ lw[m.hash[m.step[s][c]]] <= lw[h] + 1
  <2>1. /\ \A i \in Invariants, s \in State : m'.eval[m'.step[s][c]][i] = m.eval[m.step[s][c]][i]
        /\ \A s \in State : m'.hash[m'.step[s][c]] = m.hash[m.step[s][c]] /\ m'.hash[s] = m.hash[s]
    OBVIOUS
  <2> QED
    BY <2>1 DEF Tried, Noticed
<1>2. /\ child # Rejected
      /\ m.hash[m.step[s][c]] = m.hash[child]
      /\ m.eval[m.step[s][c]] = m.eval[child]
  BY <1>1 DEF HookContract, CompleteHash, child
<1>3. /\ ChildEvaluated /\ m.hash[child] \in seenHashes' /\ lw[m.hash[child]] <= depth
  BY <1>2
<1>4. ASSUME NEW i \in Invariants
      PROVE  Noticed(i, m.eval[m.step[s][c]][i])'
  <2>1. \A v : v = m.eval[child][i] => Noticed(i, v)'
    BY <1>3, ChildNoticed
  <2> QED
    BY <2>1, <1>2 DEF Noticed
<1> QED
  BY <1>1, <1>2, <1>3, <1>4

(* An attempt that records nothing new. *)
LEMMA AttemptedOnly ==
  ASSUME WalkAssumption, RunInv, HookContract, NEW lv, WalkInv(lv), StepRejected \/ PruneEquivalent
  PROVE  lv \in [seenHashes' -> Nat] /\ WalkInv(lv)'
<1>0. TypeInv /\ depth \in Nat /\ [Next]_vars
  BY TypeFacts DEF RunInv, TypeInv, Next
<1>1. /\ m' = m /\ depth' = depth /\ frontier' = frontier /\ parentIndex' = parentIndex
      /\ nextFrontier' = nextFrontier /\ caseIndex' = caseIndex
      /\ seenHashes' = seenHashes /\ parentPath' = parentPath /\ AtParent /\ pc' = "next"
  BY DEF StepRejected, PruneEquivalent, ChildEvaluated, Attempt, AtParent, levels, parentPath
<1>2. lv \in [seenHashes' -> Nat] /\ Retained(lv, frontier, depth - 1)' /\ Retained(lv, nextFrontier, depth)'
  BY <1>1 DEF WalkInv, Retained, Ends
<1>3. WitnessesAreShortest'
  <2>1. CASE StepRejected
    BY <2>1, <1>1 DEF StepRejected, WalkInv, WitnessesAreShortest, HookContract, Occurs
  <2>2. CASE PruneEquivalent
    BY <2>2, ShortestKept DEF PruneEquivalent
  <2> QED
    BY <2>1, <2>2
<1>4. Covered(lv)
  BY DEF WalkInv
<1>5. child = Rejected \/ (ChildEvaluated /\ m.hash[child] \in seenHashes' /\ lv[m.hash[child]] <= depth)
  <2>1. CASE StepRejected
    BY <2>1 DEF StepRejected
  <2>2. CASE PruneEquivalent
    BY <2>2, <1>1, <1>4 DEF PruneEquivalent, AlreadySeen, Covered
  <2> QED
    BY <2>1, <2>2
<1>6. \A h, c : h = m.hash[target] /\ c = caseIndex => Tried(lv, h, c)'
  <2>1. lv[m.hash[target]] = depth - 1
    BY <1>0, <1>1, AtParentFacts
  <2> QED
    BY <2>1, <1>0, <1>1, <1>5, TriedNow
<1>7. \A h, c : Tried(lv, h, c) => Tried(lv, h, c)'
  <2>1. \A i \in Invariants : \A v : Noticed(i, v) => Noticed(i, v)'
    BY <1>0, NoticedStays
  <2> QED
    BY <1>1, <2>1 DEF Tried
<1>8. \A h \in Hash : Ends(parentPath, h)' => \A c \in Cases : TriedSoFar(c)' => Tried(lv, h, c)'
  <2> SUFFICES ASSUME NEW h \in Hash, Ends(parentPath, h)', NEW c \in Cases, TriedSoFar(c)'
               PROVE  Tried(lv, h, c)'
    OBVIOUS
  <2>1. Ends(parentPath, h) /\ h = m.hash[target]
    BY <1>0, <1>1, AtParentFacts DEF Ends
  <2>2. CASE c = caseIndex
    BY <2>1, <2>2, <1>6
  <2>3. CASE c # caseIndex
    BY <2>1, <2>3, <1>1, <1>4, <1>7 DEF TriedSoFar, Covered
  <2> QED
    BY <2>2, <2>3
<1>9. \A h : Expanded(lv, h) => Expanded(lv, h)'
  BY <1>7 DEF Expanded
<1>10. /\ \A s \in m'.start : m'.hash[s] \in seenHashes' /\ lv[m'.hash[s]] = 0
       /\ \A h \in seenHashes' :
            /\ lv[h] <= depth'
            /\ \/ Expanded(lv, h)'
               \/ lv[h] = depth' - 1 /\ \E i \in parentIndex' .. Len(frontier') : Ends(frontier[i], h)'
               \/ lv[h] = depth' /\ \E i \in 1 .. Len(nextFrontier') : Ends(nextFrontier[i], h)'
  BY <1>1, <1>4, <1>9 DEF Covered, Ends
<1>11. Covered(lv)'
  BY <1>8, <1>10 DEF Covered
<1>12. ReplayIsTheRun' /\ Completed'
  BY <1>1 DEF ReplayIsTheRun, Completed
<1> QED
  BY <1>2, <1>3, <1>11, <1>12 DEF WalkInv

(* An attempt that records a new hash and retains the path to it. *)
LEMMA Recorded ==
  ASSUME WalkAssumption, RunInv, HookContract, NEW lv, WalkInv(lv), RecordState
  PROVE  \E lw \in [seenHashes' -> Nat] : WalkInv(lw)'
<1> DEFINE h0 == m.hash[child]
           p0 == Append(parentPath, caseIndex)
           n  == Len(parentPath)
<1>0. TypeInv /\ PathLengths /\ ReplayInv /\ [Next]_vars /\ lv \in [seenHashes -> Nat] /\ Covered(lv)
  BY DEF RunInv, Next, WalkInv
<1>1. /\ m' = m /\ depth' = depth /\ frontier' = frontier /\ parentIndex' = parentIndex
      /\ caseIndex' = caseIndex /\ parentPath' = parentPath /\ AtParent /\ ChildEvaluated
      /\ nextFrontier' = Append(nextFrontier, p0) /\ pc' = "next"
      /\ child # Rejected /\ h0 \notin seenHashes /\ seenHashes' = seenHashes \cup {h0}
  BY DEF levels, parentPath, RecordState, ChildEvaluated, Attempt, AlreadySeen, AtParent
<1>2. /\ depth \in Nat /\ caseIndex \in Cases /\ n \in Nat
      /\ nextFrontier \in Seq(Seq(Cases)) /\ frontier \in Seq(Seq(Cases))
      /\ parentIndex \in 1 .. Len(frontier) /\ Len(nextFrontier) \in Nat
      /\ parentPath \in Seq(Cases)
  BY <1>0, TypeFacts DEF TypeInv
<1>3. PICK lw \in [seenHashes' -> Nat] : lw[h0] = depth /\ \A h \in seenHashes : lw[h] = lv[h]
  <2> DEFINE f == [h \in seenHashes' |-> IF h \in seenHashes THEN lv[h] ELSE depth]
  <2>1. f \in [seenHashes' -> Nat] /\ f[h0] = depth /\ \A h \in seenHashes : f[h] = lv[h]
    BY <1>0, <1>1, <1>2
  <2> HIDE DEF f
  <2> QED
    BY <2>1
<1>4. /\ p0 \in Seq(Cases) /\ Len(p0) = n + 1 /\ p0[n + 1] = caseIndex
      /\ \A i \in 1 .. n : p0[i] = parentPath[i]
  BY <1>2, AppendProperties
<1>5. /\ Len(nextFrontier') = Len(nextFrontier) + 1
      /\ nextFrontier'[Len(nextFrontier) + 1] = p0
      /\ \A i \in 1 .. Len(nextFrontier) : nextFrontier'[i] = nextFrontier[i]
  BY <1>1, <1>2, <1>4, AppendProperties
<1>6. \E q \in [0 .. Len(p0) -> State] : RunAlong(m, p0, q) /\ m.hash[q[Len(p0)]] = h0
  <2>1. \E q \in [0 .. Len(p0) -> State] : RunAlong(m, p0, q) /\ q[Len(p0)] = child
    BY <1>0, <1>1, RunToChild DEF AtParent
  <2> QED
    BY <2>1
<1>7. \A h : Ends(p0, h) => h = h0
  <2> SUFFICES ASSUME NEW h, Ends(p0, h) PROVE h = h0
    OBVIOUS
  <2>1. PICK q \in [0 .. n + 1 -> State] : RunAlong(m, p0, q) /\ m.hash[q[n + 1]] = h
    BY <1>4 DEF Ends
  <2> DEFINE r == [i \in 0 .. n |-> q[i]]
  <2>2. r \in [0 .. n -> State] /\ \A i \in 0 .. n : r[i] = q[i]
    BY <1>2, <2>1
  <2> HIDE DEF r
  <2>3. RunAlong(m, parentPath, r)
    <3>1. r[0] \in m.start
      BY <1>2, <2>1, <2>2 DEF RunAlong
    <3>2. ASSUME NEW i \in 1 .. n PROVE r[i] = m.step[r[i-1]][parentPath[i]]
      <4>1. i \in 0 .. n /\ i - 1 \in 0 .. n /\ i \in 1 .. n + 1
        BY <1>2
      <4> QED
        BY <4>1, <1>4, <2>1, <2>2 DEF RunAlong
    <3> QED
      BY <2>2, <3>1, <3>2 DEF RunAlong
  <2>4. q[n] = target
    <3>1. r[n] = target
      BY <1>0, <1>1, <2>2, <2>3, AtParentFacts
    <3> QED
      BY <3>1, <1>2, <2>2
  <2>5. n + 1 \in 1 .. n + 1 /\ (n + 1) - 1 = n
    BY <1>2
  <2>6. q[n + 1] = m.step[q[(n + 1) - 1]][p0[n + 1]]
    BY <2>1, <2>5, <1>4 DEF RunAlong
  <2>7. q[n + 1] = child
    BY <2>4, <2>5, <2>6, <1>4 DEF child
  <2> QED
    BY <2>1, <2>7
<1> HIDE DEF p0
<1>8. Retained(lw, frontier, depth - 1)'
  <2> SUFFICES ASSUME NEW i \in 1 .. Len(frontier)
               PROVE  /\ \E r \in [0 .. Len(frontier[i]) -> State] : RunAlong(m, frontier[i], r)
                      /\ \A h \in Hash : Ends(frontier[i], h) => h \in seenHashes' /\ lw[h] = depth - 1
    BY <1>1 DEF Retained, Ends
  <2> QED
    BY <1>1, <1>3 DEF WalkInv, Retained
<1>9. Retained(lw, nextFrontier, depth)'
  <2> SUFFICES ASSUME NEW i \in 1 .. Len(nextFrontier')
               PROVE  /\ \E r \in [0 .. Len(nextFrontier'[i]) -> State] : RunAlong(m, nextFrontier'[i], r)
                      /\ \A h \in Hash : Ends(nextFrontier'[i], h) => h \in seenHashes' /\ lw[h] = depth
    BY <1>1 DEF Retained, Ends
  <2>1. CASE i = Len(nextFrontier) + 1
    <3>1. nextFrontier'[i] = p0
      BY <2>1, <1>5
    <3>2. \E r \in [0 .. Len(p0) -> State] : RunAlong(m, p0, r)
      BY <1>6
    <3>3. \A h \in Hash : Ends(p0, h) => h \in seenHashes' /\ lw[h] = depth
      BY <1>1, <1>3, <1>7
    <3> QED
      BY <3>1, <3>2, <3>3
  <2>2. CASE i \in 1 .. Len(nextFrontier)
    <3>1. nextFrontier'[i] = nextFrontier[i]
      BY <2>2, <1>5
    <3>2. /\ \E r \in [0 .. Len(nextFrontier[i]) -> State] : RunAlong(m, nextFrontier[i], r)
          /\ \A h \in Hash : Ends(nextFrontier[i], h) => h \in seenHashes /\ lv[h] = depth
      BY <2>2 DEF WalkInv, Retained
    <3> QED
      BY <3>1, <3>2, <1>1, <1>3
  <2>3. i = Len(nextFrontier) + 1 \/ i \in 1 .. Len(nextFrontier)
    <3>1. Len(nextFrontier') = Len(nextFrontier) + 1 /\ Len(nextFrontier) \in Nat
      BY <1>2, <1>5
    <3> QED
      BY <3>1
  <2> QED
    BY <2>1, <2>2, <2>3
<1>10. ReplayIsTheRun' /\ Completed'
  BY <1>1 DEF ReplayIsTheRun, Completed
<1>11. \A h \in seenHashes, c \in Cases : Tried(lv, h, c) => Tried(lw, h, c)'
  <2>1. \A i \in Invariants : \A v : Noticed(i, v) => Noticed(i, v)'
    BY <1>0, NoticedStays
  <2> QED
    BY <1>1, <1>3, <2>1 DEF Tried
<1>12. \A h, c : h = m.hash[target] /\ c = caseIndex => Tried(lw, h, c)'
  <2>1. m.hash[target] \in seenHashes /\ lw[m.hash[target]] = depth - 1
    BY <1>0, <1>1, <1>3, AtParentFacts
  <2>2. h0 \in seenHashes' /\ lw[h0] <= depth
    BY <1>1, <1>2, <1>3
  <2> QED
    BY <1>0, <1>1, <2>1, <2>2, TriedNow
<1>13. \A h \in Hash : Ends(parentPath, h)' =>
            \A c \in Cases : TriedSoFar(c)' => Tried(lw, h, c)'
  <2> SUFFICES ASSUME NEW h \in Hash, Ends(parentPath, h)', NEW c \in Cases, TriedSoFar(c)'
               PROVE  Tried(lw, h, c)'
    OBVIOUS
  <2>1. Ends(parentPath, h) /\ h = m.hash[target] /\ h \in seenHashes
    BY <1>0, <1>1, AtParentFacts DEF Ends
  <2>2. CASE c = caseIndex
    BY <2>1, <2>2, <1>1, <1>12
  <2>3. CASE c # caseIndex
    <3>1. TriedSoFar(c)
      BY <2>3, <1>1 DEF TriedSoFar
    <3> QED
      BY <3>1, <2>1, <1>0, <1>11 DEF Covered
  <2> QED
    BY <2>2, <2>3
<1>14. ASSUME NEW h \in seenHashes'
       PROVE  /\ lw[h] <= depth
              /\ \/ Expanded(lw, h)'
                 \/ lw[h] = depth - 1 /\ \E i \in parentIndex .. Len(frontier) : Ends(frontier[i], h)
                 \/ lw[h] = depth /\ \E i \in 1 .. Len(nextFrontier') : Ends(nextFrontier'[i], h)
  <2>1. CASE h = h0
    <3>1. Ends(nextFrontier'[Len(nextFrontier) + 1], h)
      BY <2>1, <1>5, <1>6 DEF Ends
    <3>2. Len(nextFrontier) + 1 \in 1 .. Len(nextFrontier')
      BY <1>2, <1>5
    <3>3. lw[h] = depth /\ lw[h] <= depth
      BY <2>1, <1>2, <1>3
    <3> QED
      BY <3>1, <3>2, <3>3
  <2>2. CASE h \in seenHashes
    <3>1. lw[h] = lv[h] /\ (Expanded(lv, h) => Expanded(lw, h)')
      BY <2>2, <1>3, <1>11 DEF Expanded
    <3>2. (\E i \in 1 .. Len(nextFrontier) : Ends(nextFrontier[i], h)) =>
            \E i \in 1 .. Len(nextFrontier') : Ends(nextFrontier'[i], h)
      BY <1>2, <1>5
    <3> QED
      BY <2>2, <3>1, <3>2, <1>0 DEF Covered
  <2> QED
    BY <2>1, <2>2, <1>1
<1>15. Covered(lw)'
  <2>1. \A s \in m.start : m.hash[s] \in seenHashes' /\ lw[m.hash[s]] = 0
    BY <1>0, <1>1, <1>3 DEF Covered
  <2>2. \A h \in seenHashes' :
            /\ lw[h] <= depth'
            /\ \/ Expanded(lw, h)'
               \/ lw[h] = depth' - 1 /\ \E i \in parentIndex' .. Len(frontier') : Ends(frontier[i], h)'
               \/ lw[h] = depth' /\ \E i \in 1 .. Len(nextFrontier') : Ends(nextFrontier[i], h)'
    <3>1. /\ m' = m /\ depth' = depth /\ frontier' = frontier /\ parentIndex' = parentIndex
      BY <1>1
    <3> SUFFICES ASSUME NEW h \in seenHashes'
                 PROVE  /\ lw[h] <= depth
                        /\ \/ Expanded(lw, h)'
                           \/ lw[h] = depth - 1 /\ \E i \in parentIndex .. Len(frontier) : Ends(frontier[i], h)
                           \/ lw[h] = depth /\ \E i \in 1 .. Len(nextFrontier') : Ends(nextFrontier'[i], h)
      BY <3>1 DEF Ends
    <3> QED
      BY <1>14
  <2> QED
    BY <2>1, <2>2, <1>1, <1>13 DEF Covered
<1>16. WitnessesAreShortest'
  BY <1>1, ShortestKept
<1> QED
  BY <1>3, <1>8, <1>9, <1>10, <1>15, <1>16 DEF WalkInv

(* A state that no longer fits was evaluated all the same, and ends it.    *)
LEMMA CutShort ==
  ASSUME WalkAssumption, RunInv, NEW lv, WalkInv(lv), StateBudgetSpent
  PROVE  lv \in [seenHashes' -> Nat] /\ WalkInv(lv)'
<1>1. /\ UNCHANGED <<m, levels, nextFrontier, caseIndex, seenHashes>> /\ ChildEvaluated
      /\ pc' = "level" /\ ~ completedBound'
  BY DEF StateBudgetSpent, ChildEvaluated, Attempt
<1>2. \A c \in Cases : TriedSoFar(c)' => TriedSoFar(c)
  BY <1>1 DEF TriedSoFar
<1>3. /\ lv \in [seenHashes' -> Nat]
      /\ Retained(lv, frontier, depth - 1)' /\ Retained(lv, nextFrontier, depth)' /\ Covered(lv)'
  BY <1>1, <1>2, QuietStep DEF RunInv, Next
<1>4. ReplayIsTheRun' /\ Completed'
  BY <1>1 DEF ReplayIsTheRun, Completed
<1>5. WitnessesAreShortest'
  BY <1>1, ShortestKept
<1> QED
  BY <1>3, <1>4, <1>5 DEF WalkInv

(* When the corpus is exhausted the parent's hash is expanded. *)
LEMMA ParentExpanded ==
  ASSUME WalkAssumption, TypeInv, NEW lv, WalkInv(lv), pc = "next", ~ MoreCases, NEW h \in Hash, Ends(parentPath, h)
  PROVE  Expanded(lv, h)
<1>1. \A c \in Cases : TriedSoFar(c)
  BY DEF TypeInv, TypeOK, MoreCases, TriedSoFar, Cases, WalkAssumption, StepCaseCountAssumption
<1> QED
  BY <1>1 DEF WalkInv, Covered, Expanded

(* The loops move the work along without losing a hash that waits in it. *)
LEMMA LoopStep ==
  ASSUME WalkAssumption, RunInv, NEW lv, WalkInv(lv), NextCase \/ NextParent \/ NextLevel
  PROVE  lv \in [seenHashes' -> Nat] /\ WalkInv(lv)'
<1> USE DEF unchangedByLoops, stats, levels
<1>0. TypeInv /\ [Next]_vars /\ lv \in [seenHashes -> Nat] /\ Covered(lv)
  BY DEF RunInv, Next, WalkInv
<1>1. m' = m /\ seenHashes' = seenHashes /\ outcomes' = outcomes /\ pc = "next" /\ pc' = "case"
  <2>1. NextLevel => pc = "next"
    BY DEF NextLevel, LevelDone, WalkInv, Completed
  <2> QED
    BY <2>1 DEF NextCase, NextParent, NextLevel
<1>2. ReplayIsTheRun' /\ Completed' /\ WitnessesAreShortest'
  BY <1>1 DEF ReplayIsTheRun, Completed, WitnessesAreShortest, HookContract, Occurs, WalkInv
<1>3. /\ \A s \in m.start : m.hash[s] \in seenHashes /\ lv[m.hash[s]] = 0
      /\ \A h \in seenHashes : h \in Hash /\ lv[h] <= depth /\ lv[h] \in Nat
      /\ depth \in Nat /\ parentIndex \in Nat /\ Len(frontier) \in Nat /\ caseIndex \in Nat
  <2>1. seenHashes \subseteq Hash /\ caseIndex \in Nat
    <3>1. caseIndex \in Cases /\ seenHashes \subseteq Hash
      BY <1>0 DEF TypeInv, TypeOK
    <3> QED
      BY <3>1 DEF Cases, WalkAssumption, StepCaseCountAssumption
  <2>2. depth \in Nat /\ parentIndex \in Nat /\ Len(frontier) \in Nat
    BY <1>0, TypeFacts DEF TypeInv
  <2> QED
    BY <1>0, <2>1, <2>2 DEF Covered
<1>4. CASE NextCase
  <2>1. /\ depth' = depth /\ frontier' = frontier /\ parentIndex' = parentIndex
        /\ nextFrontier' = nextFrontier /\ parentPath' = parentPath
        /\ caseIndex' = caseIndex + 1
    BY <1>4 DEF NextCase, parentPath
  <2>2. Retained(lv, frontier, depth - 1)' /\ Retained(lv, nextFrontier, depth)'
    BY <1>1, <2>1 DEF WalkInv, Retained, Ends
  <2>3. \A c \in Cases : TriedSoFar(c)' => TriedSoFar(c)
    BY <1>1, <1>3, <2>1 DEF TriedSoFar, Cases
  <2>4. \A h, c : Tried(lv, h, c) => Tried(lv, h, c)'
    BY <1>1 DEF Tried, Noticed
  <2>5. Covered(lv)'
    BY <1>0, <1>1, <2>1, <2>3, <2>4 DEF Covered, Ends, Expanded
  <2> QED
    BY <1>0, <1>1, <1>2, <2>2, <2>5 DEF WalkInv
<1>5. CASE NextParent
  <2>1. /\ depth' = depth /\ frontier' = frontier /\ parentIndex' = parentIndex + 1
        /\ nextFrontier' = nextFrontier /\ ~ MoreCases /\ caseIndex' = 0
    BY <1>5 DEF NextParent
  <2>2. Retained(lv, frontier, depth - 1)' /\ Retained(lv, nextFrontier, depth)'
    BY <1>1, <2>1 DEF WalkInv, Retained, Ends
  <2>3. \A c \in Cases : ~ TriedSoFar(c)'
    BY <1>1, <2>1 DEF TriedSoFar, Cases
  <2>4. ASSUME NEW h \in seenHashes
        PROVE  \/ Expanded(lv, h)
               \/ lv[h] = depth - 1 /\ \E i \in parentIndex + 1 .. Len(frontier) : Ends(frontier[i], h)
               \/ lv[h] = depth /\ \E i \in 1 .. Len(nextFrontier) : Ends(nextFrontier[i], h)
    <3>1. CASE Ends(parentPath, h)
      BY <3>1, <1>0, <1>1, <1>3, <2>1, ParentExpanded
    <3>2. CASE ~ Ends(parentPath, h)
      <4>1. \A i \in parentIndex .. Len(frontier) :
                Ends(frontier[i], h) => i \in parentIndex + 1 .. Len(frontier)
        BY <3>2, <1>3 DEF parentPath
      <4> QED
        BY <4>1, <1>0 DEF Covered
    <3> QED
      BY <3>1, <3>2
  <2>5. \A h : Expanded(lv, h) => Expanded(lv, h)'
    BY <1>1 DEF Expanded, Tried, Noticed
  <2>6. Covered(lv)'
    BY <1>1, <1>3, <2>1, <2>3, <2>4, <2>5 DEF Covered, Ends
  <2> QED
    BY <1>0, <1>1, <1>2, <2>2, <2>6 DEF WalkInv
<1>6. CASE NextLevel
  <2>1. /\ depth' = depth + 1 /\ frontier' = nextFrontier /\ nextFrontier' = <<>>
        /\ parentIndex' = 1 /\ caseIndex' = 0 /\ Len(<<>>) = 0
        /\ ~ MoreCases /\ ~ MoreParents
    BY <1>1, <1>6 DEF NextLevel, LevelDone
  <2>2. Retained(lv, nextFrontier, depth)' /\ depth' - 1 = depth
    BY <2>1, <1>3 DEF Retained
  <2>3. Retained(lv, frontier, depth - 1)'
    <3> SUFFICES ASSUME NEW i \in 1 .. Len(nextFrontier)
                 PROVE  /\ \E r \in [0 .. Len(nextFrontier[i]) -> State] : RunAlong(m, nextFrontier[i], r)
                        /\ \A h \in Hash : Ends(nextFrontier[i], h) => h \in seenHashes /\ lv[h] = depth
      BY <1>1, <2>1, <2>2 DEF Retained, Ends
    <3> QED
      BY DEF WalkInv, Retained
  <2>4. \A c \in Cases : ~ TriedSoFar(c)'
    BY <1>1, <2>1 DEF TriedSoFar, Cases
  <2>5. ASSUME NEW h \in seenHashes
        PROVE  \/ Expanded(lv, h)
               \/ lv[h] = depth /\ \E i \in 1 .. Len(nextFrontier) : Ends(nextFrontier[i], h)
    <3>1. CASE Ends(parentPath, h)
      BY <3>1, <1>0, <1>1, <1>3, <2>1, ParentExpanded
    <3>2. CASE ~ Ends(parentPath, h)
      <4>1. \A i \in parentIndex .. Len(frontier) : i = parentIndex
        BY <1>3, <2>1 DEF MoreParents
      <4>2. \A i \in parentIndex .. Len(frontier) : ~ Ends(frontier[i], h)
        BY <3>2, <4>1 DEF parentPath
      <4> QED
        BY <4>2, <1>0 DEF Covered
    <3> QED
      BY <3>1, <3>2
  <2>6. ASSUME NEW h \in seenHashes
        PROVE  /\ lv[h] <= depth'
               /\ \/ Expanded(lv, h)'
                  \/ lv[h] = depth' - 1 /\ \E i \in parentIndex' .. Len(frontier') : Ends(frontier[i], h)'
    <3>1. lv[h] <= depth'
      BY <1>3, <2>1
    <3>2. Expanded(lv, h) => Expanded(lv, h)'
      BY <1>1 DEF Expanded, Tried, Noticed
    <3>3. lv[h] = depth =>
             ((\E i \in 1 .. Len(nextFrontier) : Ends(nextFrontier[i], h)) =>
                lv[h] = depth' - 1 /\ \E i \in parentIndex' .. Len(frontier') : Ends(frontier[i], h)')
      BY <1>1, <2>1, <2>2 DEF Ends
    <3> QED
      BY <3>1, <3>2, <3>3, <2>5
  <2>7. Covered(lv)'
    BY <1>1, <1>3, <2>1, <2>4, <2>6 DEF Covered
  <2> QED
    BY <1>0, <1>1, <1>2, <2>2, <2>3, <2>7 DEF WalkInv
<1> QED
  BY <1>4, <1>5, <1>6

(* Steps of the replay, of a budget that ran out and of the walk's end.    *)
LEMMA OtherStep ==
  ASSUME WalkAssumption, RunInv, HookContract, NEW lv, WalkInv(lv),
         \/ BudgetSpent \/ ResetTarget \/ ReplayStep \/ ReplayDrift \/ SearchEnds \/ DepthOverflow
         \/ Classify \/ UNCHANGED vars
  PROVE  lv \in [seenHashes' -> Nat] /\ WalkInv(lv)'
<1> USE DEF levels, stats, live, unchangedByLoops
<1>0. /\ TypeInv /\ [Next]_vars
      /\ UNCHANGED <<m, depth, frontier, parentIndex, nextFrontier, caseIndex, seenHashes>>
  BY DEF RunInv, Next, vars, BudgetSpent, ResetTarget, ReplayStep, ReplayDrift, SearchEnds, DepthOverflow, Classify
<1>1. \A c \in Cases : TriedSoFar(c)' => TriedSoFar(c)
  <2> SUFFICES ASSUME NEW c \in Cases, TriedSoFar(c)' PROVE TriedSoFar(c)
    OBVIOUS
  <2>1. CASE c < caseIndex
    BY <2>1 DEF TriedSoFar
  <2>2. CASE ~ (c < caseIndex)
    <3>1. c = caseIndex /\ (pc' = "next" \/ (pc' \in {"classify", "returned"} /\ completedBound'))
      BY <2>2, <1>0 DEF TriedSoFar
    <3>2. pc = "next" \/ (pc \in {"classify", "returned"} /\ completedBound)
      <4>1. pc = "level" => ~ completedBound
        BY DEF WalkInv, Completed
      <4>2. CASE BudgetSpent \/ ResetTarget \/ ReplayStep \/ ReplayDrift \/ DepthOverflow
        BY <3>1, <4>2 DEF BudgetSpent, ResetTarget, ReplayStep, ReplayDrift, DepthOverflow
      <4>3. CASE SearchEnds
        BY <3>1, <4>1, <4>3 DEF SearchEnds, LevelDone
      <4>4. CASE Classify
        BY <3>1, <4>4 DEF Classify
      <4>5. CASE UNCHANGED vars
        <5>1. pc' = pc /\ completedBound' = completedBound
          BY <4>5 DEF vars
        <5> QED
          BY <3>1, <5>1
      <4> QED
        BY <4>2, <4>3, <4>4, <4>5
    <3> QED
      BY <3>1, <3>2 DEF TriedSoFar
  <2> QED
    BY <2>1, <2>2
<1>2. /\ lv \in [seenHashes' -> Nat]
      /\ Retained(lv, frontier, depth - 1)' /\ Retained(lv, nextFrontier, depth)' /\ Covered(lv)'
  BY <1>0, <1>1, QuietStep
<1>3. ReplayIsTheRun'
  <2>1. CASE ResetTarget
    <3>1. m.start = {target'} /\ m' = m /\ replayed' = 0
      <4>1. m.start \subseteq State /\ target' \in m.start
        BY <2>1, <1>0, TypeFacts, TargetFacts DEF ResetTarget, TypeInv
      <4> QED
        BY <2>1, <4>1 DEF ResetTarget, HookContract, DeterministicReset
    <3> QED
      BY <3>1 DEF ReplayIsTheRun, RunAlong
  <2>2. CASE ReplayStep
    <3>1. /\ m' = m /\ replayed' = replayed + 1 /\ parentPath' = parentPath
          /\ pc = "replay" /\ replayed < Len(parentPath)
          /\ target' = m.step[target][parentPath[replayed + 1]]
      BY <2>2 DEF ReplayStep, parentPath
    <3>2. replayed \in Nat /\ Len(parentPath) \in Nat
      BY <1>0, TypeFacts DEF TypeInv
    <3> SUFFICES ASSUME NEW r \in [0 .. Len(parentPath) -> State], RunAlong(m, parentPath, r)
                 PROVE  r[replayed + 1] = target'
      BY <3>1 DEF ReplayIsTheRun
    <3>3. r[replayed] = target
      BY <3>1 DEF WalkInv, ReplayIsTheRun
    <3>4. replayed + 1 \in 1 .. Len(parentPath) /\ (replayed + 1) - 1 = replayed
      BY <3>1, <3>2
    <3>5. r[replayed + 1] = m.step[r[(replayed + 1) - 1]][parentPath[replayed + 1]]
      BY <3>4 DEF RunAlong
    <3> QED
      BY <3>1, <3>3, <3>4, <3>5
  <2>3. CASE UNCHANGED vars
    BY <2>3 DEF vars, WalkInv, ReplayIsTheRun, parentPath
  <2>4. CASE pc' # "replay"
    BY <2>4 DEF ReplayIsTheRun
  <2> QED
    BY <2>1, <2>2, <2>3, <2>4 DEF BudgetSpent, ReplayDrift, SearchEnds, DepthOverflow, Classify
<1>4. Completed'
  <2>1. Completed
    BY DEF WalkInv
  <2>2. CASE UNCHANGED vars
    BY <2>1, <2>2 DEF vars, Completed, MoreCases, MoreParents
  <2>3. CASE SearchEnds
    BY <2>1, <2>3 DEF SearchEnds, LevelDone, Completed, MoreCases, MoreParents
  <2>4. CASE Classify
    BY <2>1, <2>4 DEF Classify, Completed, MoreCases, MoreParents
  <2>5. CASE BudgetSpent \/ ResetTarget \/ ReplayStep \/ ReplayDrift \/ DepthOverflow
    BY <2>5 DEF BudgetSpent, ResetTarget, ReplayStep, ReplayDrift, DepthOverflow, Completed
  <2> QED
    BY <2>2, <2>3, <2>4, <2>5
<1>5. WitnessesAreShortest'
  <2>1. WitnessesAreShortest /\ m' = m
    BY <1>0 DEF WalkInv
  <2>2. ASSUME NEW i \in Invariants, outcomes'[i].status = "Violated"
        PROVE  outcomes[i].status = "Violated" /\ outcomes'[i].path = outcomes[i].path
    <3>1. CASE Classify
      <4>1. outcomes'[i] = [outcomes[i] EXCEPT
                !.status = FinalStatus(outcomes[i]),
                !.exploredCandidates = IF outcomes[i].status = "Violated" THEN @ ELSE attemptedTransitions]
        BY <3>1 DEF Classify
      <4>2. outcomes[i] \in Outcome
        BY <1>0 DEF TypeInv, TypeOK
      <4>3. FinalStatus(outcomes[i]) = "Violated" => outcomes[i].status = "Violated"
        BY DEF FinalStatus
      <4> QED
        BY <2>2, <4>1, <4>2, <4>3 DEF Outcome
    <3>2. CASE outcomes' = outcomes
      BY <2>2, <3>2
    <3> QED
      BY <3>1, <3>2 DEF vars, BudgetSpent, ResetTarget, ReplayStep, ReplayDrift, SearchEnds, DepthOverflow
  <2> QED
    BY <2>1, <2>2 DEF WitnessesAreShortest, Occurs, HookContract
<1> QED
  BY <1>2, <1>3, <1>4, <1>5 DEF WalkInv

(* Every step leaves levels for which the walk invariant holds.            *)
LEMMA WalkStep ==
  ASSUME WalkAssumption, RunInv, HookContract, [Next]_vars, \E lv \in [seenHashes -> Nat] : WalkInv(lv)
  PROVE  \E lv \in [seenHashes' -> Nat] : WalkInv(lv)'
<1>1. PICK lv \in [seenHashes -> Nat] : WalkInv(lv)
  OBVIOUS
<1>2. CASE StepRejected \/ PruneEquivalent
  BY <1>1, <1>2, AttemptedOnly
<1>3. CASE StateBudgetSpent
  BY <1>1, <1>3, CutShort
<1>4. CASE RecordState
  BY <1>1, <1>4, Recorded
<1>5. CASE NextCase \/ NextParent \/ NextLevel
  BY <1>1, <1>5, LoopStep
<1>6. CASE \/ BudgetSpent \/ ResetTarget \/ ReplayStep \/ ReplayDrift \/ SearchEnds \/ DepthOverflow
           \/ Classify \/ UNCHANGED vars
  BY <1>1, <1>6, OtherStep
<1> QED
  BY <1>2, <1>3, <1>4, <1>5, <1>6 DEF Next

(* The walk keeps its inductive invariant. *)
LEMMA WalkStarts == WalkAssumption /\ Init => IInv
BY RunInit, WalkInit DEF IInv

(* The inductive invariant is kept by every step.                          *)
LEMMA WalkGoesOn == WalkAssumption /\ IInv /\ [Next]_vars => IInv'
<1> SUFFICES ASSUME WalkAssumption, IInv, [Next]_vars PROVE IInv'
  OBVIOUS
<1>1. m' = m
  BY DEF Next, vars, levels, stats, live, unchangedByLoops, BudgetSpent, ResetTarget, ReplayStep, ReplayDrift, StepRejected,
         PruneEquivalent, StateBudgetSpent, RecordState, ChildEvaluated, Attempt, NextCase, NextParent, NextLevel,
         SearchEnds, DepthOverflow, Classify
<1>2. HookContract' <=> HookContract
  BY <1>1 DEF HookContract
<1>3. RunInv'
  BY RunStep DEF IInv
<1>4. HookContract => \E lv \in [seenHashes' -> Nat] : WalkInv(lv)'
  BY WalkStep DEF IInv
<1> QED
  BY <1>2, <1>3, <1>4 DEF IInv

(* What a returned report says follows. *)
LEMMA ReportFollows == WalkAssumption /\ IInv => ReportIsSound
<1> SUFFICES ASSUME WalkAssumption, IInv PROVE ReportIsSound
  OBVIOUS
<1>0. TypeInv /\ SawIsReal /\ WitnessesReproduce /\ Statuses /\ TypeOK
  BY DEF IInv, RunInv, TypeInv
<1>1. ASSUME pc = "returned", completedBound, HookContract, NEW i \in Invariants, NEW v, Occurs(i, v, MaxDepth)
      PROVE  Noticed(i, v)
  <2>1. PICK lv \in [seenHashes -> Nat] : WalkInv(lv)
    BY <1>1 DEF IInv
  <2>2. /\ Covered(lv) /\ ~ MoreCases /\ ~ MoreParents /\ (nextFrontier = <<>> \/ depth = MaxDepth)
    BY <1>1, <2>1 DEF WalkInv, Completed
  <2>3. /\ depth \in Nat /\ MaxDepth \in Nat /\ parentIndex \in Nat /\ Len(frontier) \in Nat /\ seenHashes \subseteq Hash
    BY <1>0, TypeFacts DEF TypeOK
  <2>4. ASSUME NEW h \in seenHashes, lv[h] < MaxDepth
        PROVE  Expanded(lv, h)
    <3>1. \A k \in parentIndex .. Len(frontier) : k = parentIndex
      BY <2>2, <2>3 DEF MoreParents
    <3>2. Ends(parentPath, h) => Expanded(lv, h)
      <4>1. caseIndex \in 0 .. StepCaseCount - 1 /\ ~ (caseIndex + 1 < StepCaseCount)
        BY <1>0, <2>2 DEF TypeOK, MoreCases, Cases
      <4>2. \A c \in 0 .. StepCaseCount - 1 : c < caseIndex \/ c = caseIndex
        BY <4>1 DEF WalkAssumption, StepCaseCountAssumption
      <4>3. \A c \in Cases : TriedSoFar(c)
        BY <1>1, <4>2 DEF TriedSoFar, Cases
      <4> QED
        BY <2>2, <2>3, <4>3 DEF Covered, Expanded
    <3>3. ~ (lv[h] = depth /\ \E k \in 1 .. Len(nextFrontier) : Ends(nextFrontier[k], h))
      <4>1. CASE nextFrontier = <<>>
        <5>1. Len(nextFrontier) = 0
          BY <4>1
        <5> QED
          BY <5>1
      <4>2. CASE nextFrontier # <<>>
        BY <4>2, <2>2, <2>3, <2>4
      <4> QED
        BY <4>1, <4>2
    <3> QED
      BY <2>2, <3>1, <3>2, <3>3 DEF Covered, parentPath
  <2> QED
    BY <1>1, <2>2, <2>3, <2>4, OccurrencesNoticed
<1>2. ClearedInvariantsHold
  <2> SUFFICES ASSUME pc = "returned", HookContract, NEW i \in Invariants,
                      outcomes[i].status = "NotFoundWithinBound"
               PROVE  ~ Occurs(i, "Violated", MaxDepth) /\ ~ Occurs(i, "Inconclusive", MaxDepth)
    BY DEF ClearedInvariantsHold
  <2>1. completedBound /\ ~ outcomes[i].sawInconclusive
    BY <1>0 DEF Statuses
  <2> QED
    BY <1>1, <2>1 DEF Noticed
<1>3. CompletedWalkFindsAll
  BY <1>1 DEF CompletedWalkFindsAll, Noticed
<1>4. InconclusiveIsJustified
  BY <1>0 DEF InconclusiveIsJustified, Statuses, SawIsReal
<1>5. WitnessesAreShortest
  BY DEF IInv, WalkInv, WitnessesAreShortest
<1> QED
  BY <1>0, <1>2, <1>3, <1>4, <1>5 DEF ReportIsSound

(***************************************************************************)
(* What the harness returns of every invariant can be relied on, for every *)
(* target, corpus, bound and budget: cleared invariants hold, violated     *)
(* ones have a shortest witness that reproduces, a completed walk misses   *)
(* none, and inconclusive ones are so for a reason.                        *)
(***************************************************************************)
THEOREM ReportSound == ASSUME WalkAssumption PROVE Spec => []ReportIsSound
<1>1. Init => IInv
  BY WalkStarts
<1>2. IInv /\ [Next]_vars => IInv'
  BY WalkGoesOn
<1>3. IInv => ReportIsSound
  BY ReportFollows
<1> QED
  BY <1>1, <1>2, <1>3, PTL DEF Spec
=============================================================================

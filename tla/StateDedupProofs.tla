------------------------- MODULE StateDedupProofs -------------------------
(***************************************************************************)
(* Proofs about StateDedupExplorer, for every target, corpus and bound.    *)
(***************************************************************************)
EXTENDS StateDedupExplorer, SequenceTheorems, FiniteSetTheorems, WellFoundedInduction, TLAPS

(***************************************************************************)
(* Induction over the naturals with a set in place of a predicate, so that *)
(* the first-order provers can apply it.                                   *)
(***************************************************************************)

(* A set that holds 0 and is closed under successor holds every natural. *)
THEOREM SetInduction ==
  ASSUME NEW T, 0 \in T, \A n \in Nat : n \in T => n + 1 \in T
  PROVE  Nat \subseteq T
<1> DEFINE R == OpToRel(<, Nat)
           U == Nat \ T
<1>1. SUFFICES ASSUME U # {} PROVE FALSE
  OBVIOUS
<1>2. IsWellFoundedOn(OpToRel(<, Nat), Nat)
  BY NatLessThanWellFounded
<1>3. PICK x \in U : \A y \in U : ~ (<<y, x>> \in R)
  BY <1>1, <1>2, WFMin
<1>4. \A y \in U : ~ (y < x)
  BY <1>3 DEF OpToRel
<1>5. x \in Nat /\ x # 0
  OBVIOUS
<1>6. x - 1 \in Nat /\ x - 1 < x /\ (x - 1) + 1 = x
  BY <1>5
<1>7. x - 1 \in T
  BY <1>4, <1>6
<1>8. QED
  BY <1>6, <1>7

-----------------------------------------------------------------------------
(* The facts about a target that the steps below use. *)
LEMMA TargetFacts ==
  ASSUME SearchAssumption, NEW x \in Targets
  PROVE  /\ x.start \subseteq State
         /\ x.start # {}
         /\ \A s \in State, c \in Cases :
                x.step[s][c] # Rejected => x.step[s][c] \in State
         /\ \A s \in State : x.eval[s] \in BOOLEAN
         /\ \A s \in State : x.hash[s] \in Hash
  BY DEF Machine, SearchAssumption, TargetsAssumption, EvaluationAssumption

-----------------------------------------------------------------------------
(* A search starts with its variables in their types. *)
LEMMA TypeInit == SearchAssumption /\ Init => TypeOK
<1> SUFFICES ASSUME SearchAssumption, Init PROVE TypeOK
  OBVIOUS
<1>1. m.start \subseteq State /\ target \in State /\ m.hash[target] \in Hash
  BY TargetFacts DEF Init
<1>2. <<>> \in Seq(Cases) /\ << <<>> >> \in Seq(Seq(Cases)) /\ Len(<< <<>> >>) = 1
  OBVIOUS
<1>3. 0 \in Cases
  BY DEF Cases, SearchAssumption, StepCaseCountAssumption
<1>4. seenHashes \in [DOMAIN seenHashes -> 0 .. MaxDepth] /\ DOMAIN seenHashes \subseteq Hash
  BY <1>1 DEF Init, SearchAssumption, BoundsAssumption
<1> QED
  BY <1>1, <1>2, <1>3, <1>4 DEF Init, TypeOK, SearchAssumption, BoundsAssumption

(* ... and every step keeps them there. *)
LEMMA TypeStep == SearchAssumption /\ TypeOK /\ [Next]_vars => TypeOK'
<1> SUFFICES ASSUME SearchAssumption, TypeOK, [Next]_vars PROVE TypeOK'
  OBVIOUS
<1> USE DEF levels, stats, unchangedByLoops
<1>0. m \in Targets /\ parentPath \in Seq(Cases)
  BY DEF TypeOK, parentPath
<1>1. CASE ResetTarget
  BY <1>1, <1>0, TargetFacts DEF ResetTarget, TypeOK
<1>2. CASE ReplayStep
  <2>1. parentPath[replayed + 1] \in Cases
    BY <1>0, <1>2 DEF ReplayStep, TypeOK
  <2>2. target' \in State
    BY <1>0, <1>2, <2>1, TargetFacts DEF ReplayStep, TypeOK
  <2> QED
    BY <1>2, <2>2 DEF ReplayStep, TypeOK
<1>3. CASE ReplayDrift
  BY <1>3 DEF ReplayDrift, TypeOK, Reverted
<1>4. CASE TransitionBudgetSpent
  BY <1>4 DEF TransitionBudgetSpent, TypeOK, Reverted
<1>5. ASSUME Attempt
      PROVE  /\ attemptedTransitions' \in 0 .. MaxAttemptedTransitions
             /\ target' \in State
             /\ Append(parentPath, caseIndex) \in Seq(Cases)
             /\ UNCHANGED <<m, levels, caseIndex, replayed>>
  <2>1. target' \in State
    BY <1>0, <1>5, TargetFacts DEF Attempt, child, TypeOK
  <2> QED
    BY <1>0, <1>5, <2>1 DEF Attempt, TypeOK, SearchAssumption, BoundsAssumption
<1>6. CASE StepRejected
  BY <1>5, <1>6 DEF StepRejected, TypeOK
<1>7. CASE Violation
  BY <1>5, <1>7 DEF Violation, TypeOK, Returned
<1>8. CASE PruneEquivalent
  BY <1>5, <1>8 DEF PruneEquivalent, TypeOK
<1>9. CASE StateCapReached
  BY <1>5, <1>9 DEF StateCapReached, TypeOK, Reverted
<1>10. CASE RecordState
  <2>1. m.hash[child] \in Hash
    BY <1>0, <1>10, TargetFacts DEF RecordState, ChildHolds, child, TypeOK
  <2>2. /\ DOMAIN seenHashes' \subseteq Hash
        /\ seenHashes' \in [DOMAIN seenHashes' -> 0 .. MaxDepth]
    BY <1>10, <2>1 DEF RecordState, TypeOK
  <2>3. nextFrontier' \in Seq(Seq(Cases))
    BY <1>5, <1>10 DEF RecordState, TypeOK
  <2> QED
    BY <1>5, <1>10, <2>2, <2>3 DEF RecordState, TypeOK
<1>11. CASE NextCase
  BY <1>11 DEF NextCase, MoreCases, TypeOK, Cases, SearchAssumption, StepCaseCountAssumption
<1>12. CASE NextParent
  BY <1>12 DEF NextParent, MoreParents, TypeOK, Cases, SearchAssumption, StepCaseCountAssumption
<1>13. CASE NextLevel
  <2>1. 1 \in 1 .. Len(nextFrontier)
    BY <1>13, LenProperties, EmptySeq DEF NextLevel, TypeOK
  <2>2. 0 \in Cases /\ nextFrontier' \in Seq(Seq(Cases))
    BY <1>13 DEF NextLevel, Cases, SearchAssumption, StepCaseCountAssumption
  <2>3. depth' \in 1 .. MaxDepth
    BY <1>13 DEF NextLevel, TypeOK, SearchAssumption, BoundsAssumption
  <2> QED
    BY <1>13, <2>1, <2>2, <2>3 DEF NextLevel, TypeOK
<1>14. CASE SearchExhausted
  BY <1>14 DEF SearchExhausted, TypeOK, Returned
<1>15. CASE DepthOverflow
  BY <1>15 DEF DepthOverflow, TypeOK, Reverted
<1>16. CASE UNCHANGED vars
  BY <1>16 DEF vars, TypeOK
<1> QED
  BY <1>1, <1>2, <1>3, <1>4, <1>6, <1>7, <1>8, <1>9, <1>10, <1>11, <1>12,
     <1>13, <1>14, <1>15, <1>16 DEF Next

(* Type correctness of the search, from its first reset to its answer. *)
THEOREM TypeCorrect == ASSUME SearchAssumption PROVE Spec => []TypeOK
  BY TypeInit, TypeStep, PTL DEF Spec

-----------------------------------------------------------------------------
(***************************************************************************)
(* The inductive invariant.  ReplayInv needs nothing of the hooks: what has *)
(* been replayed is a run along the parent's path that ends at the live     *)
(* target.  The rest holds of a target whose hooks keep their contract.     *)
(***************************************************************************)
ReplayedRun(x, p, n, s, r) ==
    /\ r[0] \in x.start
    /\ \A i \in 1 .. n : r[i] = x.step[r[i-1]][p[i]]
    /\ r[n] = s

ReplayInv ==
    /\ pc = "replay" =>
        /\ replayed <= Len(parentPath)
        /\ \E r \in [0 .. replayed -> State] :
                ReplayedRun(m, parentPath, replayed, target, r)
    /\ FoundPathViolates

(* h is the hash of the state that a run along p ends in. *)
Ends(p, h) ==
    \E r \in [0 .. Len(p) -> State] : RunAlong(m, p, r) /\ m.hash[r[Len(p)]] = h

(* Every path of ps has d steps, replays, and ends in hashes recorded at d. *)
Retained(ps, d) ==
    \A i \in 1 .. Len(ps) :
        /\ Len(ps[i]) = d
        /\ \E r \in [0 .. Len(ps[i]) -> State] : RunAlong(m, ps[i], r)
        /\ \A h \in Hash : Ends(ps[i], h) =>
                h \in DOMAIN seenHashes /\ seenHashes[h] = d

(* A deterministic target replays a path in one way only. *)
ReplayIsTheRun ==
    pc = "replay" =>
        \A r \in [0 .. Len(parentPath) -> State] :
            RunAlong(m, parentPath, r) => r[replayed] = target

(* Step c has been tried on hash h: if accepted, its child holds and is     *)
(* recorded at most one level below.                                        *)
Tried(h, c) ==
    \A s \in State :
        m.hash[s] = h /\ m.step[s][c] # Rejected =>
            /\ m.eval[m.step[s][c]]
            /\ m.hash[m.step[s][c]] \in DOMAIN seenHashes
            /\ seenHashes[m.hash[m.step[s][c]]] <= seenHashes[h] + 1

Expanded(h) == \A c \in Cases : Tried(h, c)

TriedSoFar(c) == c < caseIndex \/ (c = caseIndex /\ pc \in {"next", "notFound"})

(* Each recorded hash is expanded, or waits in one of the two frontiers. *)
Covered ==
    /\ \A s \in m.start : m.hash[s] \in DOMAIN seenHashes /\ seenHashes[m.hash[s]] = 0
    /\ \A h \in DOMAIN seenHashes :
        /\ seenHashes[h] <= depth
        /\ \/ Expanded(h)
           \/ seenHashes[h] = depth - 1 /\
                \E i \in parentIndex .. Len(frontier) : Ends(frontier[i], h)
           \/ seenHashes[h] = depth /\
                \E i \in 1 .. Len(nextFrontier) : Ends(nextFrontier[i], h)
    /\ \A h \in Hash : Ends(parentPath, h) =>
            \A c \in Cases : TriedSoFar(c) => Tried(h, c)

Answered ==
    /\ pc = "notFound" =>
        /\ ~ MoreCases /\ ~ MoreParents
        /\ nextFrontier = <<>> \/ depth = MaxDepth
    /\ pc = "found" => Len(path) = depth
    /\ pc # "replay drift"

SearchInv ==
    /\ Retained(frontier, depth - 1)
    /\ Retained(nextFrontier, depth)
    /\ ReplayIsTheRun
    /\ Covered
    /\ Answered

IInv == ReplayInv /\ (HookContract => SearchInv)

-----------------------------------------------------------------------------
(* A replayed run extended by one accepted step. *)
LEMMA ExtendRun ==
  ASSUME NEW n \in Nat, NEW r \in [0 .. n -> State], NEW x \in State
  PROVE  LET q == [i \in 0 .. n + 1 |-> IF i <= n THEN r[i] ELSE x]
         IN  /\ q \in [0 .. n + 1 -> State]
             /\ q[n + 1] = x
             /\ \A i \in 0 .. n : q[i] = r[i]
  OBVIOUS

(* Every step keeps the replayed prefix a run, and a violation returned has *)
(* been executed at the end of one.                                         *)
LEMMA ReplayInvStep ==
  ASSUME SearchAssumption, TypeOK, TypeOK', ReplayInv, [Next]_vars
  PROVE  ReplayInv'
<1> USE DEF levels, stats, unchangedByLoops
<1>0. m \in Targets /\ parentPath \in Seq(Cases) /\ Len(parentPath) \in Nat
  BY LenProperties DEF TypeOK, parentPath
<1>1. CASE ResetTarget
  <2>1. target' \in m'.start /\ target' \in State /\ replayed' = 0 /\ pc' = "replay"
    BY <1>1, <1>0, TargetFacts DEF ResetTarget
  <2> DEFINE r == [i \in 0 .. 0 |-> target']
  <2>2. /\ r \in [0 .. replayed' -> State]
        /\ ReplayedRun(m', parentPath', replayed', target', r)
    BY <2>1 DEF ReplayedRun
  <2>3. replayed' <= Len(parentPath')
    BY <1>1, <2>1, <1>0 DEF ResetTarget, parentPath
  <2> QED
    BY <2>1, <2>2, <2>3 DEF ReplayInv, FoundPathViolates
<1>2. CASE ReplayStep
  <2>1. PICK r \in [0 .. replayed -> State] :
             ReplayedRun(m, parentPath, replayed, target, r)
    BY <1>2 DEF ReplayStep, ReplayInv
  <2> DEFINE q == [i \in 0 .. replayed + 1 |-> IF i <= replayed THEN r[i] ELSE target']
  <2>2. replayed \in Nat /\ target' \in State
    BY DEF TypeOK
  <2>3. /\ q \in [0 .. replayed + 1 -> State]
        /\ q[replayed + 1] = target'
        /\ \A i \in 0 .. replayed : q[i] = r[i]
    BY <2>2, ExtendRun
  <2> HIDE DEF q
  <2>4. /\ replayed' = replayed + 1 /\ m' = m /\ parentPath' = parentPath
        /\ target' = m.step[target][parentPath[replayed + 1]]
        /\ replayed < Len(parentPath)
    BY <1>2 DEF ReplayStep, parentPath
  <2>5. \A i \in 1 .. replayed + 1 : q[i] = m.step[q[i-1]][parentPath[i]]
    <3> SUFFICES ASSUME NEW i \in 1 .. replayed + 1
                 PROVE  q[i] = m.step[q[i-1]][parentPath[i]]
      OBVIOUS
    <3>1. CASE i = replayed + 1
      <4>1. q[i - 1] = target
        BY <3>1, <2>1, <2>2, <2>3 DEF ReplayedRun
      <4> QED
        BY <3>1, <4>1, <2>3, <2>4
    <3>2. CASE i # replayed + 1
      <4>1. i \in 1 .. replayed /\ i - 1 \in 0 .. replayed /\ i \in 0 .. replayed
        BY <3>2, <2>2
      <4> QED
        BY <4>1, <2>1, <2>3 DEF ReplayedRun
    <3> QED
      BY <3>1, <3>2
  <2>6. q[0] \in m.start
    BY <2>1, <2>2, <2>3 DEF ReplayedRun
  <2>7. /\ ReplayedRun(m', parentPath', replayed', target', q)
        /\ q \in [0 .. replayed' -> State]
    BY <2>3, <2>4, <2>5, <2>6 DEF ReplayedRun
  <2>8. replayed' <= Len(parentPath')
    BY <2>2, <2>4, <1>0
  <2>9. pc' # "found"
    BY <1>2 DEF ReplayStep
  <2> QED
    BY <2>7, <2>8, <2>9 DEF ReplayInv, FoundPathViolates
<1>3. CASE Violation
  <2>1. /\ pc' = "found" /\ pc = "replay" /\ replayed = Len(parentPath)
        /\ path' = Append(parentPath, caseIndex) /\ m' = m
        /\ child # Rejected /\ ~ m.eval[child]
    BY <1>3 DEF Violation, Attempt, AtParent, InvariantFails
  <2>2. PICK r \in [0 .. replayed -> State] :
             ReplayedRun(m, parentPath, replayed, target, r)
    BY <2>1 DEF ReplayInv
  <2> DEFINE n == Len(parentPath)
             q == [i \in 0 .. n + 1 |-> IF i <= n THEN r[i] ELSE child]
  <2>3. child \in State
    BY <2>1, <1>0, TargetFacts DEF child, TypeOK
  <2>4. /\ q \in [0 .. n + 1 -> State]
        /\ q[n + 1] = child
        /\ \A i \in 0 .. n : q[i] = r[i]
    BY <1>0, <2>1, <2>3, ExtendRun
  <2> HIDE DEF q
  <2>5. /\ Len(path') = n + 1 /\ path'[n + 1] = caseIndex
        /\ \A i \in 1 .. n : path'[i] = parentPath[i]
    BY <2>1, <1>0, AppendProperties DEF TypeOK
  <2>6. \A i \in 1 .. n + 1 : q[i] = m.step[q[i-1]][path'[i]]
    <3> SUFFICES ASSUME NEW i \in 1 .. n + 1
                 PROVE  q[i] = m.step[q[i-1]][path'[i]]
      OBVIOUS
    <3>1. CASE i = n + 1
      <4>1. q[i - 1] = target
        BY <3>1, <1>0, <2>1, <2>2, <2>4 DEF ReplayedRun
      <4> QED
        BY <3>1, <4>1, <2>4, <2>5 DEF child
    <3>2. CASE i # n + 1
      <4>1. i \in 1 .. n /\ i - 1 \in 0 .. n /\ i \in 0 .. n
        BY <3>2, <1>0
      <4> QED
        BY <4>1, <2>1, <2>2, <2>4, <2>5 DEF ReplayedRun
    <3> QED
      BY <3>1, <3>2
  <2>7. q[0] \in m.start
    BY <1>0, <2>2, <2>4 DEF ReplayedRun
  <2>8. RunAlong(m', path', q) /\ q \in [0 .. Len(path') -> State] /\ ~ m'.eval[q[Len(path')]]
    BY <2>1, <2>4, <2>5, <2>6, <2>7 DEF RunAlong
  <2> QED
    BY <2>1, <2>8 DEF ReplayInv, FoundPathViolates
<1>4. CASE pc' \notin {"replay", "found"}
  BY <1>4 DEF ReplayInv, FoundPathViolates
<1>5. CASE UNCHANGED vars
  BY <1>5 DEF vars, ReplayInv, FoundPathViolates, ReplayedRun, parentPath
<1>6. Next => ResetTarget \/ ReplayStep \/ Violation \/ pc' \notin {"replay", "found"}
  BY DEF Next, ReplayDrift, TransitionBudgetSpent, StepRejected, PruneEquivalent,
         StateCapReached, RecordState, NextCase, NextParent, NextLevel,
         SearchExhausted, DepthOverflow
<1> QED
  BY <1>1, <1>2, <1>3, <1>4, <1>5, <1>6

-----------------------------------------------------------------------------
(* From here on the hooks keep their contract. *)

(* The search starts in its invariant.                                     *)
LEMMA SearchInvInit ==
  ASSUME SearchAssumption, Init, HookContract
  PROVE  SearchInv
<1>1. m \in Targets /\ m.start \subseteq State /\ target \in m.start /\ target \in State
  BY TargetFacts DEF Init
<1>2. m.start = {target}
  BY <1>1 DEF HookContract, DeterministicReset
<1>3. /\ frontier = << <<>> >> /\ Len(frontier) = 1 /\ frontier[1] = <<>>
      /\ parentIndex = 1 /\ parentPath = <<>> /\ Len(<<>>) = 0
      /\ nextFrontier = <<>> /\ Len(nextFrontier) = 0 /\ depth = 1
  BY DEF Init, parentPath
<1>4. seenHashes = [h \in {m.hash[target]} |-> 0] /\ pc = "reset" /\ caseIndex = 0
  BY DEF Init
<1> DEFINE r0 == [i \in 0 .. 0 |-> target]
<1>5. r0 \in [0 .. 0 -> State] /\ r0[0] = target /\ RunAlong(m, <<>>, r0)
  BY <1>1, <1>3 DEF RunAlong
<1>6. \A h : Ends(<<>>, h) <=> h = m.hash[target]
  <2>1. ASSUME NEW h, Ends(<<>>, h) PROVE h = m.hash[target]
    BY <2>1, <1>2, <1>3 DEF Ends, RunAlong
  <2>2. Ends(<<>>, m.hash[target])
    BY <1>3, <1>5 DEF Ends
  <2> QED
    BY <2>1, <2>2
<1>7. Retained(frontier, depth - 1)
  <2> SUFFICES ASSUME NEW i \in 1 .. Len(frontier)
               PROVE  /\ Len(frontier[i]) = depth - 1
                      /\ \E r \in [0 .. Len(frontier[i]) -> State] : RunAlong(m, frontier[i], r)
                      /\ \A h \in Hash : Ends(frontier[i], h) =>
                            h \in DOMAIN seenHashes /\ seenHashes[h] = depth - 1
    BY DEF Retained
  <2>1. frontier[i] = <<>>
    BY <1>3
  <2>2. \E r \in [0 .. Len(frontier[i]) -> State] : RunAlong(m, frontier[i], r)
    BY <2>1, <1>3, <1>5
  <2>3. \A h \in Hash : Ends(frontier[i], h) =>
            h \in DOMAIN seenHashes /\ seenHashes[h] = depth - 1
    BY <2>1, <1>3, <1>4, <1>6
  <2> QED
    BY <2>1, <2>2, <2>3, <1>3
<1>8. Retained(nextFrontier, depth)
  BY <1>3 DEF Retained
<1>9. Covered
  <2>1. \A h \in DOMAIN seenHashes : seenHashes[h] = depth - 1 /\ seenHashes[h] <= depth
            /\ Ends(frontier[1], h)
    BY <1>3, <1>4, <1>6
  <2>2. \A s \in m.start : m.hash[s] \in DOMAIN seenHashes /\ seenHashes[m.hash[s]] = 0
    BY <1>2, <1>4
  <2>3. \A c \in Cases : ~ TriedSoFar(c)
    BY <1>4 DEF TriedSoFar, Cases
  <2>4. 1 \in parentIndex .. Len(frontier)
    BY <1>3
  <2> QED
    BY <2>1, <2>2, <2>3, <2>4 DEF Covered
<1>10. ReplayIsTheRun /\ Answered
  BY <1>4 DEF ReplayIsTheRun, Answered
<1> QED
  BY <1>7, <1>8, <1>9, <1>10 DEF SearchInv

(* Once the parent's path is replayed the live target is the state it ends  *)
(* in, whose hash is recorded one level up.                                 *)
LEMMA AtParentFacts ==
  ASSUME SearchAssumption, TypeOK, SearchInv, AtParent
  PROVE  /\ m \in Targets /\ parentPath \in Seq(Cases) /\ target \in State
         /\ Len(parentPath) = depth - 1
         /\ \E r \in [0 .. Len(parentPath) -> State] :
                RunAlong(m, parentPath, r) /\ r[Len(parentPath)] = target
         /\ \A r \in [0 .. Len(parentPath) -> State] :
                RunAlong(m, parentPath, r) => r[Len(parentPath)] = target
         /\ \A h : Ends(parentPath, h) <=> h = m.hash[target]
         /\ m.hash[target] \in DOMAIN seenHashes
         /\ seenHashes[m.hash[target]] = depth - 1
<1>1. /\ m \in Targets /\ parentPath \in Seq(Cases) /\ target \in State
      /\ m.hash[target] \in Hash
  BY TargetFacts DEF TypeOK, parentPath
<1>2. \A r \in [0 .. Len(parentPath) -> State] :
          RunAlong(m, parentPath, r) => r[Len(parentPath)] = target
  BY DEF SearchInv, ReplayIsTheRun, AtParent
<1>3. /\ Len(parentPath) = depth - 1
      /\ \E r \in [0 .. Len(parentPath) -> State] : RunAlong(m, parentPath, r)
      /\ \A h \in Hash : Ends(parentPath, h) =>
                h \in DOMAIN seenHashes /\ seenHashes[h] = depth - 1
  BY DEF SearchInv, Retained, parentPath, TypeOK
<1>4. \A h : Ends(parentPath, h) <=> h = m.hash[target]
  BY <1>2, <1>3 DEF Ends
<1> QED
  BY <1>1, <1>2, <1>3, <1>4

(* Steps that leave the frontiers, the records and the loops alone. *)
LEMMA QuietStep ==
  ASSUME SearchAssumption, TypeOK, SearchInv,
         UNCHANGED <<m, levels, nextFrontier, caseIndex, seenHashes>>,
         pc' \in {"next", "notFound"} => pc \in {"next", "notFound"}
  PROVE  Retained(frontier, depth - 1)' /\ Retained(nextFrontier, depth)' /\ Covered'
<1>1. /\ m' = m /\ depth' = depth /\ frontier' = frontier /\ parentIndex' = parentIndex
      /\ nextFrontier' = nextFrontier /\ caseIndex' = caseIndex
      /\ seenHashes' = seenHashes /\ parentPath' = parentPath
  BY DEF levels, parentPath
<1>2. \A p, h : Ends(p, h)' <=> Ends(p, h)
  BY <1>1 DEF Ends
<1>3. \A h, c : Tried(h, c)' <=> Tried(h, c)
  BY <1>1 DEF Tried
<1>4. \A c : TriedSoFar(c)' => TriedSoFar(c)
  BY <1>1 DEF TriedSoFar
<1>5. Retained(frontier, depth - 1)' /\ Retained(nextFrontier, depth)'
  BY <1>1 DEF SearchInv, Retained, Ends
<1>6. Covered'
  BY <1>1, <1>4 DEF SearchInv, Covered, Ends, Expanded, Tried
<1> QED
  BY <1>5, <1>6

(* What one attempt establishes about every state with the parent's hash,  *)
(* when the hash is complete.                                              *)
LEMMA TriedNow ==
  ASSUME SearchAssumption, TypeOK, HookContract, SearchInv, AtParent, m' = m,
         \/ child = Rejected
         \/ /\ child # Rejected
            /\ m.eval[child]
            /\ m.hash[child] \in DOMAIN seenHashes'
            /\ seenHashes'[m.hash[child]] <= depth,
         m.hash[target] \in DOMAIN seenHashes',
         seenHashes'[m.hash[target]] = depth - 1
  PROVE  \A s \in State :
            m.hash[s] = m.hash[target] /\ m.step[s][caseIndex] # Rejected =>
                /\ m.eval[m.step[s][caseIndex]]
                /\ m.hash[m.step[s][caseIndex]] \in DOMAIN seenHashes'
                /\ seenHashes'[m.hash[m.step[s][caseIndex]]]
                        <= seenHashes'[m.hash[target]] + 1
<1> SUFFICES ASSUME NEW s \in State, m.hash[s] = m.hash[target],
                    m.step[s][caseIndex] # Rejected
             PROVE  /\ m.eval[m.step[s][caseIndex]]
                    /\ m.hash[m.step[s][caseIndex]] \in DOMAIN seenHashes'
                    /\ seenHashes'[m.hash[m.step[s][caseIndex]]]
                            <= seenHashes'[m.hash[target]] + 1
  OBVIOUS
<1>1. target \in State /\ caseIndex \in Cases /\ depth \in Nat
  BY DEF TypeOK, SearchAssumption, BoundsAssumption
<1>2. /\ child # Rejected
      /\ m.hash[m.step[s][caseIndex]] = m.hash[child]
      /\ m.eval[m.step[s][caseIndex]] = m.eval[child]
  BY <1>1 DEF HookContract, CompleteHash, child
<1> QED
  BY <1>1, <1>2

(* An attempt that records nothing new. *)
LEMMA AttemptedOnly ==
  ASSUME SearchAssumption, TypeOK, HookContract, SearchInv, Attempt, pc' = "next",
         UNCHANGED <<nextFrontier, seenHashes>>,
         child = Rejected \/ (ChildHolds /\ AlreadySeen)
  PROVE  SearchInv'
<1>1. /\ m' = m /\ depth' = depth /\ frontier' = frontier /\ parentIndex' = parentIndex
      /\ nextFrontier' = nextFrontier /\ caseIndex' = caseIndex
      /\ seenHashes' = seenHashes /\ parentPath' = parentPath /\ AtParent
  BY DEF levels, parentPath, Attempt
<1>2. Retained(frontier, depth - 1)' /\ Retained(nextFrontier, depth)'
  BY <1>1 DEF SearchInv, Retained, Ends
<1>3. ReplayIsTheRun' /\ Answered'
  BY DEF ReplayIsTheRun, Answered
<1>4. child = Rejected \/ ( /\ child # Rejected /\ m.eval[child]
                            /\ m.hash[child] \in DOMAIN seenHashes
                            /\ seenHashes[m.hash[child]] <= depth )
  <2>1. \A h \in DOMAIN seenHashes : seenHashes[h] <= depth
    BY DEF SearchInv, Covered
  <2> QED
    BY <2>1 DEF ChildHolds, InvariantFails, AlreadySeen
<1>5. Tried(m.hash[target], caseIndex)
  BY <1>1, <1>4, AtParentFacts, TriedNow DEF Tried
<1>6. \A h \in Hash : Ends(parentPath, h)' =>
            \A c \in Cases : TriedSoFar(c)' => Tried(h, c)'
  <2> SUFFICES ASSUME NEW h \in Hash, Ends(parentPath, h)', NEW c \in Cases, TriedSoFar(c)'
               PROVE  Tried(h, c)'
    OBVIOUS
  <2>1. Ends(parentPath, h) /\ h = m.hash[target]
    BY <1>1, AtParentFacts DEF Ends
  <2>2. Tried(h, c)
    <3>1. CASE c = caseIndex
      BY <3>1, <2>1, <1>5
    <3>2. CASE c # caseIndex
      BY <3>2, <2>1, <1>1 DEF TriedSoFar, SearchInv, Covered
    <3> QED
      BY <3>1, <3>2
  <2> QED
    BY <1>1, <2>2 DEF Tried
<1>7. Covered'
  BY <1>1, <1>6 DEF SearchInv, Covered, Ends, Expanded, Tried
<1> QED
  BY <1>2, <1>3, <1>7 DEF SearchInv

(* An attempt that records a new hash and retains the path to it. *)
LEMMA Recorded ==
  ASSUME SearchAssumption, TypeOK, HookContract, SearchInv, RecordState
  PROVE  SearchInv'
<1> DEFINE h0 == m.hash[child]
           p0 == Append(parentPath, caseIndex)
           n  == Len(parentPath)
<1>1. /\ m' = m /\ depth' = depth /\ frontier' = frontier /\ parentIndex' = parentIndex
      /\ caseIndex' = caseIndex /\ parentPath' = parentPath /\ AtParent /\ Attempt
      /\ nextFrontier' = Append(nextFrontier, p0) /\ pc' = "next"
      /\ child # Rejected /\ m.eval[child] /\ h0 \notin DOMAIN seenHashes
  BY DEF levels, parentPath, RecordState, Attempt, ChildHolds, InvariantFails, AlreadySeen
<1>2. /\ DOMAIN seenHashes' = DOMAIN seenHashes \cup {h0}
      /\ \A h \in DOMAIN seenHashes : seenHashes'[h] = seenHashes[h]
      /\ seenHashes'[h0] = depth
  BY <1>1 DEF RecordState
<1>3. /\ depth \in Nat /\ caseIndex \in Cases /\ n \in Nat /\ n + 1 = depth
      /\ child \in State
      /\ nextFrontier \in Seq(Seq(Cases)) /\ frontier \in Seq(Seq(Cases))
      /\ parentIndex \in 1 .. Len(frontier)
      /\ m.hash[target] \in Hash
      /\ Len(nextFrontier) \in Nat
  <2>1. /\ depth \in Nat /\ caseIndex \in Cases
        /\ nextFrontier \in Seq(Seq(Cases)) /\ frontier \in Seq(Seq(Cases))
        /\ parentIndex \in 1 .. Len(frontier)
    BY DEF TypeOK, SearchAssumption, BoundsAssumption
  <2>2. m \in Targets /\ target \in State /\ n = depth - 1 /\ parentPath \in Seq(Cases)
    BY <1>1, AtParentFacts
  <2>3. n \in Nat /\ Len(nextFrontier) \in Nat
    BY <2>1, <2>2, LenProperties
  <2>4. child \in State /\ m.hash[target] \in Hash
    BY <1>1, <2>1, <2>2, TargetFacts DEF child
  <2> QED
    BY <2>1, <2>2, <2>3, <2>4
<1>4. /\ p0 \in Seq(Cases) /\ Len(p0) = n + 1 /\ p0[n + 1] = caseIndex
      /\ \A i \in 1 .. n : p0[i] = parentPath[i]
  BY <1>1, <1>3, AtParentFacts, AppendProperties
<1>5. /\ Len(nextFrontier') = Len(nextFrontier) + 1
      /\ nextFrontier'[Len(nextFrontier) + 1] = p0
      /\ \A i \in 1 .. Len(nextFrontier) : nextFrontier'[i] = nextFrontier[i]
  BY <1>1, <1>3, <1>4, AppendProperties
<1>6. \E q \in [0 .. Len(p0) -> State] : RunAlong(m, p0, q) /\ m.hash[q[Len(p0)]] = h0
  <2>1. PICK r \in [0 .. n -> State] : RunAlong(m, parentPath, r) /\ r[n] = target
    BY <1>1, AtParentFacts
  <2> DEFINE q == [i \in 0 .. n + 1 |-> IF i <= n THEN r[i] ELSE child]
  <2>2. /\ q \in [0 .. n + 1 -> State] /\ q[n + 1] = child
        /\ \A i \in 0 .. n : q[i] = r[i]
    BY <1>3, ExtendRun
  <2> HIDE DEF q
  <2>3. \A i \in 1 .. n + 1 : q[i] = m.step[q[i-1]][p0[i]]
    <3> SUFFICES ASSUME NEW i \in 1 .. n + 1 PROVE q[i] = m.step[q[i-1]][p0[i]]
      OBVIOUS
    <3>1. CASE i = n + 1
      <4>1. i - 1 = n /\ n \in 0 .. n
        BY <3>1, <1>3
      <4>2. q[i - 1] = target /\ q[i] = child /\ p0[i] = caseIndex
        BY <3>1, <4>1, <1>4, <2>1, <2>2
      <4> QED
        BY <4>2 DEF child
    <3>2. CASE i # n + 1
      <4>1. i \in 1 .. n /\ i - 1 \in 0 .. n /\ i \in 0 .. n
        BY <3>2, <1>3
      <4> QED
        BY <4>1, <2>1, <2>2, <1>4 DEF RunAlong
    <3> QED
      BY <3>1, <3>2
  <2>4. q[0] \in m.start
    BY <1>3, <2>1, <2>2 DEF RunAlong
  <2> QED
    BY <1>4, <2>2, <2>3, <2>4 DEF RunAlong
<1>7. \A h : Ends(p0, h) => h = h0
  <2> SUFFICES ASSUME NEW h, Ends(p0, h) PROVE h = h0
    OBVIOUS
  <2>1. PICK q \in [0 .. n + 1 -> State] : RunAlong(m, p0, q) /\ m.hash[q[n + 1]] = h
    BY <1>4 DEF Ends
  <2> DEFINE r == [i \in 0 .. n |-> q[i]]
  <2>2. r \in [0 .. n -> State] /\ \A i \in 0 .. n : r[i] = q[i]
    BY <1>3, <2>1
  <2> HIDE DEF r
  <2>3. RunAlong(m, parentPath, r)
    <3>1. r[0] \in m.start
      BY <1>3, <2>1, <2>2 DEF RunAlong
    <3>2. ASSUME NEW i \in 1 .. n PROVE r[i] = m.step[r[i-1]][parentPath[i]]
      <4>1. i \in 0 .. n /\ i - 1 \in 0 .. n /\ i \in 1 .. n + 1
        BY <1>3
      <4> QED
        BY <4>1, <1>4, <2>1, <2>2 DEF RunAlong
    <3> QED
      BY <2>2, <3>1, <3>2 DEF RunAlong
  <2>4. q[n] = target
    BY <1>1, <1>3, <2>2, <2>3, AtParentFacts
  <2>5. n + 1 \in 1 .. n + 1 /\ (n + 1) - 1 = n
    BY <1>3
  <2>6. q[n + 1] = m.step[q[(n + 1) - 1]][p0[n + 1]]
    BY <2>1, <2>5, <1>4 DEF RunAlong
  <2>7. q[n + 1] = child
    BY <2>4, <2>5, <2>6, <1>4 DEF child
  <2> QED
    BY <2>1, <2>7
<1> HIDE DEF p0
<1>8. Retained(frontier, depth - 1)'
  <2> SUFFICES ASSUME NEW i \in 1 .. Len(frontier)
               PROVE  /\ Len(frontier[i]) = depth - 1
                      /\ \E r \in [0 .. Len(frontier[i]) -> State] :
                            RunAlong(m, frontier[i], r)
                      /\ \A h \in Hash : Ends(frontier[i], h) =>
                            h \in DOMAIN seenHashes' /\ seenHashes'[h] = depth - 1
    BY <1>1 DEF Retained, Ends
  <2> QED
    BY <1>2 DEF SearchInv, Retained
<1>9. Retained(nextFrontier, depth)'
  <2> SUFFICES ASSUME NEW i \in 1 .. Len(nextFrontier')
               PROVE  /\ Len(nextFrontier'[i]) = depth
                      /\ \E r \in [0 .. Len(nextFrontier'[i]) -> State] :
                            RunAlong(m, nextFrontier'[i], r)
                      /\ \A h \in Hash : Ends(nextFrontier'[i], h) =>
                            h \in DOMAIN seenHashes' /\ seenHashes'[h] = depth
    BY <1>1 DEF Retained, Ends
  <2>1. CASE i = Len(nextFrontier) + 1
    BY <2>1, <1>2, <1>3, <1>4, <1>5, <1>6, <1>7
  <2>2. CASE i \in 1 .. Len(nextFrontier)
    BY <2>2, <1>2, <1>5 DEF SearchInv, Retained
  <2> QED
    BY <2>1, <2>2, <1>3, <1>5
<1>10. ReplayIsTheRun' /\ Answered'
  BY <1>1 DEF ReplayIsTheRun, Answered
<1>11. \A h \in DOMAIN seenHashes, c \in Cases : Tried(h, c) => Tried(h, c)'
  BY <1>1, <1>2 DEF Tried
<1>12. \A h : h = m.hash[target] => Tried(h, caseIndex)'
  <2>1. m.hash[target] \in DOMAIN seenHashes' /\ seenHashes'[m.hash[target]] = depth - 1
    BY <1>1, <1>2, AtParentFacts
  <2>2. h0 \in DOMAIN seenHashes' /\ seenHashes'[h0] <= depth
    BY <1>2, <1>3
  <2>3. \A s \in State :
            m.hash[s] = m.hash[target] /\ m.step[s][caseIndex] # Rejected =>
                /\ m.eval[m.step[s][caseIndex]]
                /\ m.hash[m.step[s][caseIndex]] \in DOMAIN seenHashes'
                /\ seenHashes'[m.hash[m.step[s][caseIndex]]]
                        <= seenHashes'[m.hash[target]] + 1
    BY <1>1, <2>1, <2>2, TriedNow
  <2> QED
    BY <1>1, <2>3 DEF Tried
<1>13. \A h \in Hash : Ends(parentPath, h)' =>
            \A c \in Cases : TriedSoFar(c)' => Tried(h, c)'
  <2> SUFFICES ASSUME NEW h \in Hash, Ends(parentPath, h)', NEW c \in Cases, TriedSoFar(c)'
               PROVE  Tried(h, c)'
    OBVIOUS
  <2>1. Ends(parentPath, h) /\ h = m.hash[target] /\ h \in DOMAIN seenHashes
    BY <1>1, AtParentFacts DEF Ends
  <2>2. CASE c = caseIndex
    BY <2>1, <2>2, <1>1, <1>12
  <2>3. CASE c # caseIndex
    <3>1. TriedSoFar(c)
      BY <2>3, <1>1 DEF TriedSoFar
    <3> QED
      BY <3>1, <2>1, <1>11 DEF SearchInv, Covered
  <2> QED
    BY <2>2, <2>3
<1>14. \A h \in DOMAIN seenHashes' :
        /\ seenHashes'[h] <= depth'
        /\ \/ Expanded(h)'
           \/ seenHashes'[h] = depth' - 1 /\
                \E i \in parentIndex' .. Len(frontier') : Ends(frontier[i], h)'
           \/ seenHashes'[h] = depth' /\
                \E i \in 1 .. Len(nextFrontier') : Ends(nextFrontier[i], h)'
  <2> SUFFICES ASSUME NEW h \in DOMAIN seenHashes'
               PROVE  /\ seenHashes'[h] <= depth
                      /\ \/ Expanded(h)'
                         \/ seenHashes'[h] = depth - 1 /\
                              \E i \in parentIndex .. Len(frontier) : Ends(frontier[i], h)
                         \/ seenHashes'[h] = depth /\
                              \E i \in 1 .. Len(nextFrontier') : Ends(nextFrontier'[i], h)
    BY <1>1 DEF Ends
  <2>1. CASE h = h0
    <3>1. Ends(nextFrontier'[Len(nextFrontier) + 1], h)
      BY <2>1, <1>5, <1>6 DEF Ends
    <3>2. Len(nextFrontier) + 1 \in 1 .. Len(nextFrontier')
      BY <1>3, <1>5
    <3>3. seenHashes'[h] = depth /\ seenHashes'[h] <= depth
      BY <2>1, <1>2, <1>3
    <3> QED
      BY <3>1, <3>2, <3>3
  <2>2. CASE h \in DOMAIN seenHashes
    <3>1. seenHashes'[h] = seenHashes[h] /\ (Expanded(h) => Expanded(h)')
      BY <2>2, <1>2, <1>11 DEF Expanded
    <3>2. (\E i \in 1 .. Len(nextFrontier) : Ends(nextFrontier[i], h)) =>
            \E i \in 1 .. Len(nextFrontier') : Ends(nextFrontier'[i], h)
      BY <1>3, <1>5
    <3> QED
      BY <2>2, <3>1, <3>2 DEF SearchInv, Covered
  <2> QED
    BY <2>1, <2>2, <1>2
<1>15. Covered'
  <2>1. \A s \in m.start : m.hash[s] \in DOMAIN seenHashes' /\ seenHashes'[m.hash[s]] = 0
    BY <1>2 DEF SearchInv, Covered
  <2> QED
    BY <2>1, <1>1, <1>13, <1>14 DEF Covered
<1> QED
  BY <1>8, <1>9, <1>10, <1>15 DEF SearchInv

(* When the corpus is exhausted the parent's hash is expanded. *)
LEMMA ParentExpanded ==
  ASSUME SearchAssumption, TypeOK, SearchInv, pc = "next", ~ MoreCases, NEW h \in Hash, Ends(parentPath, h)
  PROVE  Expanded(h)
<1>1. StepCaseCount \in Nat /\ caseIndex \in Cases /\ ~ (caseIndex + 1 < StepCaseCount)
  BY DEF TypeOK, MoreCases, SearchAssumption, StepCaseCountAssumption
<1>2. \A c \in Cases : TriedSoFar(c)
  BY <1>1 DEF TriedSoFar, Cases
<1> QED
  BY <1>2 DEF SearchInv, Covered, Expanded

(* The loops move the work along without losing a hash that waits in it. *)
LEMMA LoopStep ==
  ASSUME SearchAssumption, TypeOK, HookContract, SearchInv, NextCase \/ NextParent \/ NextLevel
  PROVE  SearchInv'
<1> USE DEF unchangedByLoops, stats, levels
<1>1. m' = m /\ seenHashes' = seenHashes /\ pc = "next" /\ pc' = "reset"
  BY DEF NextCase, NextParent, NextLevel, LevelDone
<1>2. ReplayIsTheRun' /\ Answered'
  BY <1>1 DEF ReplayIsTheRun, Answered
<1>3. /\ \A s \in m.start : m.hash[s] \in DOMAIN seenHashes /\ seenHashes[m.hash[s]] = 0
      /\ \A h \in DOMAIN seenHashes : h \in Hash /\ seenHashes[h] <= depth
      /\ depth \in Nat /\ parentIndex \in Nat /\ Len(frontier) \in Nat
  BY LenProperties DEF SearchInv, Covered, TypeOK, SearchAssumption, BoundsAssumption
<1>4. CASE NextCase
  <2>1. /\ depth' = depth /\ frontier' = frontier /\ parentIndex' = parentIndex
        /\ nextFrontier' = nextFrontier /\ parentPath' = parentPath
        /\ caseIndex' = caseIndex + 1 /\ caseIndex \in Nat
    BY <1>4 DEF NextCase, parentPath, TypeOK, Cases, SearchAssumption, StepCaseCountAssumption
  <2>2. Retained(frontier, depth - 1)' /\ Retained(nextFrontier, depth)'
    BY <1>1, <2>1 DEF SearchInv, Retained, Ends
  <2>3. \A c \in Cases : TriedSoFar(c)' => TriedSoFar(c)
    BY <1>1, <2>1 DEF TriedSoFar, Cases
  <2>4. Covered'
    BY <1>1, <2>1, <2>3 DEF SearchInv, Covered, Ends, Expanded, Tried
  <2> QED
    BY <1>2, <2>2, <2>4 DEF SearchInv
<1>5. CASE NextParent
  <2>1. /\ depth' = depth /\ frontier' = frontier /\ parentIndex' = parentIndex + 1
        /\ nextFrontier' = nextFrontier /\ ~ MoreCases /\ caseIndex' = 0
    BY <1>5 DEF NextParent
  <2>2. Retained(frontier, depth - 1)' /\ Retained(nextFrontier, depth)'
    BY <1>1, <2>1 DEF SearchInv, Retained, Ends
  <2>3. \A c \in Cases : ~ TriedSoFar(c)'
    BY <1>1, <2>1 DEF TriedSoFar, Cases
  <2>4. ASSUME NEW h \in DOMAIN seenHashes
        PROVE  \/ Expanded(h)
               \/ seenHashes[h] = depth - 1 /\
                    \E i \in parentIndex + 1 .. Len(frontier) : Ends(frontier[i], h)
               \/ seenHashes[h] = depth /\
                    \E i \in 1 .. Len(nextFrontier) : Ends(nextFrontier[i], h)
    <3>1. CASE Ends(parentPath, h)
      BY <3>1, <1>1, <1>3, <2>1, ParentExpanded
    <3>2. CASE ~ Ends(parentPath, h)
      <4>1. \A i \in parentIndex .. Len(frontier) :
                Ends(frontier[i], h) => i \in parentIndex + 1 .. Len(frontier)
        BY <3>2, <1>3 DEF parentPath
      <4> QED
        BY <4>1 DEF SearchInv, Covered
    <3> QED
      BY <3>1, <3>2
  <2>5. Covered'
    BY <1>1, <1>3, <2>1, <2>3, <2>4 DEF Covered, Ends, Expanded, Tried
  <2> QED
    BY <1>2, <2>2, <2>5 DEF SearchInv
<1>6. CASE NextLevel
  <2>1. /\ depth' = depth + 1 /\ frontier' = nextFrontier /\ nextFrontier' = <<>>
        /\ parentIndex' = 1 /\ caseIndex' = 0
        /\ ~ MoreCases /\ ~ MoreParents
    BY <1>6 DEF NextLevel, LevelDone
  <2>2. Retained(nextFrontier, depth)' /\ depth' - 1 = depth
    BY <2>1, <1>3 DEF Retained
  <2>3. Retained(frontier, depth - 1)'
    <3> SUFFICES ASSUME NEW i \in 1 .. Len(nextFrontier)
                 PROVE  /\ Len(nextFrontier[i]) = depth
                        /\ \E r \in [0 .. Len(nextFrontier[i]) -> State] :
                              RunAlong(m, nextFrontier[i], r)
                        /\ \A h \in Hash : Ends(nextFrontier[i], h) =>
                              h \in DOMAIN seenHashes /\ seenHashes[h] = depth
      BY <1>1, <2>1, <2>2 DEF Retained, Ends
    <3> QED
      BY DEF SearchInv, Retained
  <2>4. \A c \in Cases : ~ TriedSoFar(c)'
    BY <1>1, <2>1 DEF TriedSoFar, Cases
  <2>5. ASSUME NEW h \in DOMAIN seenHashes
        PROVE  \/ Expanded(h)
               \/ seenHashes[h] = depth /\
                    \E i \in 1 .. Len(nextFrontier) : Ends(nextFrontier[i], h)
    <3>1. CASE Ends(parentPath, h)
      BY <3>1, <1>1, <1>3, <2>1, ParentExpanded
    <3>2. CASE ~ Ends(parentPath, h)
      <4>1. \A i \in parentIndex .. Len(frontier) : i = parentIndex
        BY <1>3, <2>1 DEF MoreParents
      <4>2. \A i \in parentIndex .. Len(frontier) : ~ Ends(frontier[i], h)
        BY <3>2, <4>1 DEF parentPath
      <4> QED
        BY <4>2 DEF SearchInv, Covered
    <3> QED
      BY <3>1, <3>2
  <2>6. ASSUME NEW h \in DOMAIN seenHashes
        PROVE  /\ seenHashes'[h] <= depth'
               /\ \/ Expanded(h)'
                  \/ seenHashes'[h] = depth' - 1 /\
                       \E i \in parentIndex' .. Len(frontier') : Ends(frontier[i], h)'
    <3>1. seenHashes'[h] <= depth'
      <4>1. seenHashes[h] \in 0 .. MaxDepth
        BY DEF TypeOK
      <4> QED
        BY <4>1, <1>1, <1>3, <2>1 DEF SearchAssumption, BoundsAssumption
    <3>2. Expanded(h) => Expanded(h)'
      BY <1>1 DEF Expanded, Tried
    <3>3. seenHashes[h] = depth =>
             ((\E i \in 1 .. Len(nextFrontier) : Ends(nextFrontier[i], h)) =>
                seenHashes'[h] = depth' - 1 /\
                   \E i \in parentIndex' .. Len(frontier') : Ends(frontier[i], h)')
      BY <1>1, <2>1, <2>2 DEF Ends
    <3> QED
      BY <3>1, <3>2, <3>3, <2>5
  <2>7. Covered'
    BY <1>1, <1>3, <2>1, <2>4, <2>6 DEF Covered
  <2> QED
    BY <1>2, <2>2, <2>3, <2>7 DEF SearchInv
<1> QED
  BY <1>4, <1>5, <1>6

(* A deterministic target accepts again every path it accepted before. *)
LEMMA NoDrift ==
  ASSUME SearchAssumption, TypeOK, SearchInv
  PROVE  ~ ReplayDrift
<1> SUFFICES ASSUME ReplayDrift PROVE FALSE
  OBVIOUS
<1>1. /\ pc = "replay" /\ replayed < Len(parentPath) /\ replayed \in Nat
      /\ m.step[target][parentPath[replayed + 1]] = Rejected
      /\ parentPath \in Seq(Cases) /\ Len(parentPath) \in Nat
  <2>1. parentPath \in Seq(Cases) /\ replayed \in Nat
    BY DEF TypeOK, parentPath
  <2>2. Len(parentPath) \in Nat
    BY <2>1, LenProperties
  <2> QED
    BY <2>1, <2>2 DEF ReplayDrift
<1>2. PICK r \in [0 .. Len(parentPath) -> State] : RunAlong(m, parentPath, r)
  BY DEF SearchInv, Retained, TypeOK, parentPath
<1>3. r[replayed] = target
  BY <1>1, <1>2 DEF SearchInv, ReplayIsTheRun
<1>4. replayed + 1 \in 1 .. Len(parentPath) /\ (replayed + 1) - 1 = replayed
      /\ replayed + 1 \in 0 .. Len(parentPath)
  BY <1>1
<1>5. r[replayed + 1] = m.step[r[(replayed + 1) - 1]][parentPath[replayed + 1]]
  BY <1>2, <1>4 DEF RunAlong
<1>6. r[replayed + 1] \in State
  BY <1>2, <1>4
<1> QED
  BY <1>1, <1>3, <1>4, <1>5, <1>6 DEF SearchAssumption, RejectedAssumption

(* Every step of the search keeps its invariant.                           *)
LEMMA SearchInvStep ==
  ASSUME SearchAssumption, TypeOK, TypeOK', HookContract, SearchInv, [Next]_vars
  PROVE  SearchInv'
<1> USE DEF levels, stats, unchangedByLoops
<1>0. m \in Targets /\ m.start \subseteq State
  BY TargetFacts DEF TypeOK
<1>1. CASE ResetTarget
  <2>1. Retained(frontier, depth - 1)' /\ Retained(nextFrontier, depth)' /\ Covered'
    BY <1>1, QuietStep DEF ResetTarget
  <2>2. m.start = {target'} /\ m' = m /\ replayed' = 0
    BY <1>1 DEF ResetTarget, HookContract, DeterministicReset
  <2>3. ReplayIsTheRun'
    BY <2>2 DEF ReplayIsTheRun, RunAlong
  <2>4. Answered'
    BY <1>1 DEF ResetTarget, Answered
  <2> QED
    BY <2>1, <2>3, <2>4 DEF SearchInv
<1>2. CASE ReplayStep
  <2>1. Retained(frontier, depth - 1)' /\ Retained(nextFrontier, depth)' /\ Covered'
    BY <1>2, QuietStep DEF ReplayStep
  <2>2. /\ m' = m /\ replayed' = replayed + 1 /\ parentPath' = parentPath
        /\ pc = "replay" /\ replayed \in Nat /\ replayed < Len(parentPath)
        /\ Len(parentPath) \in Nat
        /\ target' = m.step[target][parentPath[replayed + 1]]
    BY <1>2, LenProperties DEF ReplayStep, TypeOK, parentPath
  <2>3. ReplayIsTheRun'
    <3> SUFFICES ASSUME NEW r \in [0 .. Len(parentPath) -> State],
                        RunAlong(m, parentPath, r)
                 PROVE  r[replayed + 1] = target'
      BY <2>2 DEF ReplayIsTheRun
    <3>1. r[replayed] = target
      BY <2>2 DEF SearchInv, ReplayIsTheRun
    <3>2. replayed + 1 \in 1 .. Len(parentPath) /\ (replayed + 1) - 1 = replayed
      BY <2>2
    <3>3. r[replayed + 1] = m.step[r[(replayed + 1) - 1]][parentPath[replayed + 1]]
      BY <3>2 DEF RunAlong
    <3> QED
      BY <2>2, <3>1, <3>2, <3>3
  <2>4. Answered'
    BY <1>2 DEF ReplayStep, Answered
  <2> QED
    BY <2>1, <2>3, <2>4 DEF SearchInv
<1>3. CASE Violation
  <2>1. Retained(frontier, depth - 1)' /\ Retained(nextFrontier, depth)' /\ Covered'
    BY <1>3, QuietStep DEF Violation, Attempt
  <2>2. /\ AtParent /\ pc' = "found" /\ path' = Append(parentPath, caseIndex)
        /\ depth' = depth /\ caseIndex \in Cases /\ depth \in Nat
    BY <1>3 DEF Violation, Attempt, TypeOK, SearchAssumption, BoundsAssumption
  <2>3. Len(path') = depth
    BY <2>2, AtParentFacts, AppendProperties
  <2>4. ReplayIsTheRun' /\ Answered'
    BY <2>2, <2>3 DEF ReplayIsTheRun, Answered
  <2> QED
    BY <2>1, <2>4 DEF SearchInv
<1>4. CASE SearchExhausted
  <2>1. Retained(frontier, depth - 1)' /\ Retained(nextFrontier, depth)' /\ Covered'
    BY <1>4, QuietStep DEF SearchExhausted, LevelDone
  <2>2. ReplayIsTheRun' /\ Answered'
    BY <1>4 DEF SearchExhausted, LevelDone, ReplayIsTheRun, Answered,
                MoreCases, MoreParents
  <2> QED
    BY <2>1, <2>2 DEF SearchInv
<1>5. CASE TransitionBudgetSpent \/ StateCapReached \/ DepthOverflow
  <2>1. /\ pc' \in {"transition budget", "state cap", "panic"}
        /\ UNCHANGED <<m, levels, nextFrontier, caseIndex, seenHashes>>
    BY <1>5 DEF TransitionBudgetSpent, StateCapReached, DepthOverflow, Attempt
  <2>2. Retained(frontier, depth - 1)' /\ Retained(nextFrontier, depth)' /\ Covered'
    BY <2>1, QuietStep
  <2>3. ReplayIsTheRun' /\ Answered'
    BY <2>1 DEF ReplayIsTheRun, Answered
  <2> QED
    BY <2>2, <2>3 DEF SearchInv
<1>6. CASE StepRejected
  BY <1>6, AttemptedOnly DEF StepRejected
<1>7. CASE PruneEquivalent
  BY <1>7, AttemptedOnly DEF PruneEquivalent
<1>8. CASE RecordState
  BY <1>8, Recorded
<1>9. CASE NextCase \/ NextParent \/ NextLevel
  BY <1>9, LoopStep
<1>10. CASE UNCHANGED vars
  <2>1. Retained(frontier, depth - 1)' /\ Retained(nextFrontier, depth)' /\ Covered'
    BY <1>10, QuietStep DEF vars
  <2>2. ReplayIsTheRun' /\ Answered'
    BY <1>10 DEF vars, SearchInv, ReplayIsTheRun, Answered, parentPath,
                 MoreCases, MoreParents
  <2> QED
    BY <2>1, <2>2 DEF SearchInv
<1> QED
  BY <1>1, <1>2, <1>3, <1>4, <1>5, <1>6, <1>7, <1>8, <1>9, <1>10, NoDrift DEF Next

-----------------------------------------------------------------------------
(* If every hash recorded above depth d is expanded, a run of k <= d steps  *)
(* only meets recorded hashes, each no deeper than its place in the run,    *)
(* and states that satisfy the invariant.                                   *)
LEMMA RunsAreCovered ==
  ASSUME SearchAssumption, TypeOK, Covered, NEW d \in Nat,
         \A h \in DOMAIN seenHashes : seenHashes[h] < d => Expanded(h),
         NEW k \in Nat, k <= d, NEW r \in [0 .. k -> State], IsRun(m, k, r)
  PROVE  \A i \in 0 .. k :
            /\ m.hash[r[i]] \in DOMAIN seenHashes
            /\ seenHashes[m.hash[r[i]]] <= i
            /\ i > 0 => m.eval[r[i]]
<1> DEFINE Good(i) == /\ m.hash[r[i]] \in DOMAIN seenHashes
                      /\ seenHashes[m.hash[r[i]]] <= i
                      /\ i > 0 => m.eval[r[i]]
           T == {i \in Nat : i <= k => Good(i)}
<1>0. \A h \in DOMAIN seenHashes : seenHashes[h] \in Nat
  <2>1. \A h \in DOMAIN seenHashes : seenHashes[h] \in 0 .. MaxDepth
    BY DEF TypeOK
  <2> QED
    BY <2>1 DEF SearchAssumption, BoundsAssumption
<1>1. 0 \in T
  BY DEF IsRun, Covered
<1>2. ASSUME NEW n \in Nat, n \in T PROVE n + 1 \in T
  <2> SUFFICES ASSUME n + 1 <= k PROVE Good(n + 1)
    OBVIOUS
  <2>1. Good(n) /\ n \in 0 .. k /\ n + 1 \in 0 .. k /\ n + 1 \in 1 .. k /\ (n + 1) - 1 = n
    BY <1>2
  <2>2. PICK c \in Cases : r[n + 1] = m.step[r[(n + 1) - 1]][c]
    BY <2>1 DEF IsRun
  <2>3. r[n] \in State /\ r[n + 1] \in State /\ r[n + 1] # Rejected
    BY <2>1 DEF SearchAssumption, RejectedAssumption
  <2>4. seenHashes[m.hash[r[n]]] \in Nat /\ seenHashes[m.hash[r[n]]] < d
    BY <2>1, <1>0
  <2>5. Tried(m.hash[r[n]], c)
    BY <2>1, <2>4 DEF Expanded
  <2>6. /\ m.eval[r[n + 1]]
        /\ m.hash[r[n + 1]] \in DOMAIN seenHashes
        /\ seenHashes[m.hash[r[n + 1]]] <= seenHashes[m.hash[r[n]]] + 1
    BY <2>1, <2>2, <2>3, <2>5 DEF Tried
  <2>7. seenHashes[m.hash[r[n + 1]]] \in Nat
    BY <2>6, <1>0
  <2> QED
    BY <2>1, <2>4, <2>6, <2>7
<1> HIDE DEF Good
<1>3. Nat \subseteq T
  BY <1>1, <1>2, SetInduction
<1>4. \A i \in 0 .. k : Good(i)
  BY <1>3
<1> QED
  BY <1>4 DEF Good

(* When every state below depth d was expanded, the invariant holds on     *)
(* every path of at most d transitions.                                    *)
LEMMA HoldsWithinCovered ==
  ASSUME SearchAssumption, TypeOK, Covered, NEW d \in Nat,
         \A h \in DOMAIN seenHashes : seenHashes[h] < d => Expanded(h)
  PROVE  HoldsWithin(d)
<1> SUFFICES ASSUME NEW k \in 1 .. d, NEW r \in [0 .. k -> State], IsRun(m, k, r)
             PROVE  m.eval[r[k]]
  BY DEF HoldsWithin, ReachedWithin
<1>1. k \in Nat /\ k <= d /\ k \in 0 .. k /\ k > 0
  OBVIOUS
<1> QED
  BY <1>1, RunsAreCovered

-----------------------------------------------------------------------------
(* The answers of the search follow from its invariant.                    *)
LEMMA AnswersFollow ==
  ASSUME SearchAssumption, TypeOK, HookContract, SearchInv
  PROVE  /\ NotFoundIsSound /\ DryFrontierIsComplete /\ FoundPathIsShortest
         /\ RepresentativesAreShortest /\ pc # "replay drift"
<1>0. /\ depth \in Nat /\ depth >= 1 /\ MaxDepth \in Nat
      /\ parentIndex \in Nat /\ Len(frontier) \in Nat
      /\ Covered /\ Answered
      /\ \A h \in DOMAIN seenHashes : h \in Hash
  BY LenProperties DEF TypeOK, SearchInv, SearchAssumption, BoundsAssumption
<1>1. \A h \in DOMAIN seenHashes : seenHashes[h] \in Nat
  <2>1. \A h \in DOMAIN seenHashes : seenHashes[h] \in 0 .. MaxDepth
    BY DEF TypeOK
  <2> QED
    BY <2>1, <1>0
<1>2. \A h \in DOMAIN seenHashes : seenHashes[h] < depth - 1 => Expanded(h)
  BY <1>0, <1>1 DEF Covered
<1>3. ASSUME pc = "notFound", NEW h \in DOMAIN seenHashes,
             nextFrontier = <<>> \/ seenHashes[h] < MaxDepth
      PROVE  Expanded(h)
  <2>1. ~ MoreCases /\ ~ MoreParents /\ (nextFrontier = <<>> \/ depth = MaxDepth)
    BY <1>0, <1>3 DEF Answered
  <2>2. \A i \in parentIndex .. Len(frontier) : i = parentIndex
    BY <1>0, <2>1 DEF MoreParents
  <2>3. Ends(parentPath, h) => Expanded(h)
    <3>1. \A c \in Cases : TriedSoFar(c)
      <4>1. caseIndex \in 0 .. StepCaseCount - 1 /\ ~ (caseIndex + 1 < StepCaseCount)
        BY <2>1 DEF TypeOK, MoreCases, Cases
      <4>2. \A c \in 0 .. StepCaseCount - 1 : c < caseIndex \/ c = caseIndex
        BY <4>1 DEF SearchAssumption, StepCaseCountAssumption
      <4>3. pc \in {"next", "notFound"}
        BY <1>3
      <4> QED
        BY <4>2, <4>3 DEF TriedSoFar, Cases
    <3> QED
      BY <1>0, <3>1 DEF Covered, Expanded
  <2>4. ~ (seenHashes[h] = depth /\ \E i \in 1 .. Len(nextFrontier) : Ends(nextFrontier[i], h))
    <3>1. CASE nextFrontier = <<>>
      <4>1. Len(nextFrontier) = 0
        BY <3>1
      <4> QED
        BY <4>1
    <3>2. CASE nextFrontier # <<>>
      BY <3>2, <1>0, <1>1, <1>3, <2>1
    <3> QED
      BY <3>1, <3>2
  <2> QED
    BY <1>0, <2>2, <2>3, <2>4 DEF Covered, parentPath
<1>4. NotFoundIsSound
  BY <1>0, <1>3, HoldsWithinCovered DEF NotFoundIsSound
<1>5. ASSUME pc = "notFound", nextFrontier = <<>>, NEW d \in Nat
      PROVE  HoldsWithin(d)
  BY <1>0, <1>3, <1>5, HoldsWithinCovered
<1>6. FoundPathIsShortest
  <2>1. depth - 1 \in Nat
    BY <1>0
  <2>2. HoldsWithin(depth - 1)
    BY <1>0, <1>2, <2>1, HoldsWithinCovered
  <2> QED
    BY <1>0, <2>2 DEF FoundPathIsShortest, Answered
<1>7. RepresentativesAreShortest
  <2> SUFFICES ASSUME NEW d \in 1 .. MaxDepth, NEW k \in 1 .. d,
                      NEW r \in [0 .. k -> State], IsRun(m, k, r),
                      m.hash[r[k]] \in DOMAIN seenHashes
               PROVE  seenHashes[m.hash[r[k]]] <= d
    BY DEF RepresentativesAreShortest, ReachedWithin
  <2>1. seenHashes[m.hash[r[k]]] <= depth /\ seenHashes[m.hash[r[k]]] \in Nat
    BY <1>0, <1>1 DEF Covered
  <2>2. CASE k <= depth - 1
    <3>1. depth - 1 \in Nat /\ k \in Nat /\ k \in 0 .. k
      BY <1>0
    <3>2. seenHashes[m.hash[r[k]]] <= k
      BY <1>0, <1>2, <2>2, <3>1, RunsAreCovered
    <3> QED
      BY <2>1, <3>2
  <2>3. CASE k > depth - 1
    BY <1>0, <2>1, <2>3
  <2> QED
    BY <1>0, <2>2, <2>3
<1>8. DryFrontierIsComplete
  BY <1>5, FS_CardinalityType DEF DryFrontierIsComplete, SearchAssumption, StateFinite
<1> QED
  BY <1>0, <1>4, <1>6, <1>7, <1>8 DEF Answered

(* The paths of a level are as long as the level is deep. *)
PathLengths ==
    /\ \A i \in 1 .. Len(frontier) : Len(frontier[i]) = depth - 1
    /\ \A i \in 1 .. Len(nextFrontier) : Len(nextFrontier[i]) = depth

(* The search starts with them so ... *)
LEMMA LengthsInit == Init => PathLengths
<1> SUFFICES ASSUME Init PROVE PathLengths
  OBVIOUS
<1>1. Len(<< <<>> >>) = 1 /\ << <<>> >>[1] = <<>> /\ Len(<<>>) = 0
  OBVIOUS
<1> QED
  BY <1>1 DEF Init, PathLengths

(* ... and a step keeps them so. *)
LEMMA LengthsStep == TypeOK /\ TypeOK' /\ PathLengths /\ [Next]_vars => PathLengths'
<1> SUFFICES ASSUME TypeOK, TypeOK', PathLengths, [Next]_vars PROVE PathLengths'
  OBVIOUS
<1> USE DEF levels, stats, unchangedByLoops
<1>1. CASE UNCHANGED <<depth, frontier, nextFrontier>>
  BY <1>1 DEF PathLengths
<1>2. CASE RecordState
  <2>1. /\ depth' = depth /\ frontier' = frontier
        /\ nextFrontier' = Append(nextFrontier, Append(parentPath, caseIndex))
    BY <1>2 DEF RecordState, Attempt
  <2>2. /\ parentPath \in Seq(Cases) /\ caseIndex \in Cases
        /\ nextFrontier \in Seq(Seq(Cases)) /\ depth \in Nat
        /\ Len(parentPath) = depth - 1
    <3>1. parentIndex \in 1 .. Len(frontier) /\ frontier \in Seq(Seq(Cases))
          /\ caseIndex \in Cases /\ nextFrontier \in Seq(Seq(Cases)) /\ depth \in Nat
      BY DEF TypeOK
    <3> QED
      BY <3>1 DEF parentPath, PathLengths
  <2>3. Append(parentPath, caseIndex) \in Seq(Cases) /\ Len(Append(parentPath, caseIndex)) = depth
    BY <2>2
  <2> DEFINE p == Append(parentPath, caseIndex)
  <2> HIDE DEF p
  <2>4. \A i \in 1 .. Len(Append(nextFrontier, p)) : Len(Append(nextFrontier, p)[i]) = depth
    BY <2>2, <2>3 DEF PathLengths, p
  <2> QED
    BY <2>1, <2>4 DEF PathLengths, p
<1>3. CASE NextLevel
  <2>1. /\ depth' = depth + 1 /\ frontier' = nextFrontier /\ nextFrontier' = <<>>
    BY <1>3 DEF NextLevel
  <2>2. depth \in Nat /\ Len(<<>>) = 0
    BY DEF TypeOK
  <2> QED
    BY <2>1, <2>2 DEF PathLengths
<1> QED
  BY <1>1, <1>2, <1>3 DEF Next, vars, ResetTarget, ReplayStep, ReplayDrift,
     TransitionBudgetSpent, StepRejected, Violation, PruneEquivalent, StateCapReached,
     Attempt, NextCase, NextParent, SearchExhausted, DepthOverflow

(***************************************************************************)
(* The inductive invariant of a search, whatever its hooks: its types, the *)
(* lengths of its paths, and what IInv says of the replay and of what has  *)
(* been covered so far.                                                    *)
(***************************************************************************)
SoundInv == TypeOK /\ PathLengths /\ IInv

(* A search starts in it ... *)
LEMMA SearchStarts == SearchAssumption /\ Init => SoundInv
<1> SUFFICES ASSUME SearchAssumption, Init PROVE SoundInv
  OBVIOUS
<1>1. IInv
  BY SearchInvInit DEF Init, IInv, ReplayInv, FoundPathViolates
<1> QED
  BY <1>1, TypeInit, LengthsInit DEF SoundInv

(* ... no step of it leaves it ... *)
LEMMA SearchGoesOn == SearchAssumption /\ SoundInv /\ [Next]_vars => SoundInv'
<1> SUFFICES ASSUME SearchAssumption, SoundInv, [Next]_vars PROVE SoundInv'
  OBVIOUS
<1>1. TypeOK /\ TypeOK' /\ PathLengths' /\ IInv
  BY TypeStep, LengthsStep DEF SoundInv
<1>2. m' = m
  BY DEF Next, vars, ResetTarget, ReplayStep, ReplayDrift, TransitionBudgetSpent,
         StepRejected, Violation, PruneEquivalent, StateCapReached, RecordState,
         Attempt, NextCase, NextParent, NextLevel, SearchExhausted, DepthOverflow,
         unchangedByLoops
<1>3. HookContract' <=> HookContract
  BY <1>2 DEF HookContract
<1>4. IInv'
  BY <1>1, <1>3, ReplayInvStep, SearchInvStep DEF IInv
<1> QED
  BY <1>1, <1>4 DEF SoundInv

(* ... and what the search answers follows from it. *)
LEMMA SoundFollows == SearchAssumption /\ SoundInv => SearchIsSound
<1> SUFFICES ASSUME SearchAssumption, SoundInv PROVE SearchIsSound
  OBVIOUS
<1>1. TypeOK /\ IInv /\ FoundPathViolates
  BY DEF SoundInv, IInv, ReplayInv
<1>2. NotFoundIsSound /\ DryFrontierIsComplete /\ FoundPathIsShortest /\ RepresentativesAreShortest
  <2>1. CASE HookContract
    BY <1>1, <2>1, AnswersFollow DEF IInv
  <2>2. CASE ~ HookContract
    BY <2>2 DEF NotFoundIsSound, DryFrontierIsComplete, FoundPathIsShortest, RepresentativesAreShortest
  <2> QED
    BY <2>1, <2>2
<1> QED
  BY <1>1, <1>2 DEF SearchIsSound

(* Both specifications speak of the same targets and runs. *)
LEMMA SameTargets ==
  /\ Search!Machine = Machine /\ Search!Cases = Cases
  /\ \A x, p, r : Search!RunAlong(x, p, r) <=> RunAlong(x, p, r)
  /\ \A x, d : Search!ReachedWithin(x, d) = ReachedWithin(x, d)
<1>1. Search!Cases = Cases
  BY DEF Search!Cases, Cases
<1>2. Search!Machine = Machine
  BY <1>1 DEF Search!Machine, Machine
<1>3. \A x, p, r : Search!RunAlong(x, p, r) <=> RunAlong(x, p, r)
  BY DEF Search!RunAlong, RunAlong
<1>4. \A x, k, r : Search!IsRun(x, k, r) <=> IsRun(x, k, r)
  BY <1>1 DEF Search!IsRun, IsRun
<1>5. \A x, d : Search!ReachedWithin(x, d) = ReachedWithin(x, d)
  BY <1>4 DEF Search!ReachedWithin, ReachedWithin
<1> QED
  BY <1>1, <1>2, <1>3, <1>5

(* Every answer of the search is one the abstract bounded search may give. *)
LEMMA StepImplements ==
  ASSUME SearchAssumption, SoundInv, SearchIsSound', [Next]_vars
  PROVE  [Search!Next]_(Search!vars)
<1> USE DEF levels, stats, unchangedByLoops
<1> TypeOK /\ TypeOK' /\ PathLengths /\ FoundPathViolates' /\ FoundPathIsShortest' /\ NotFoundIsSound'
  BY SearchGoesOn DEF SoundInv, SearchIsSound
<1>0. m' = m /\ (HookContract' <=> HookContract)
  <2>1. m' = m
    BY DEF Next, vars, ResetTarget, ReplayStep, ReplayDrift, TransitionBudgetSpent,
           StepRejected, Violation, PruneEquivalent, StateCapReached, RecordState,
           Attempt, NextCase, NextParent, NextLevel, SearchExhausted, DepthOverflow
  <2> QED
    BY <2>1 DEF HookContract
<1>1. CASE Violation
  <2>1. /\ verdict = "searching" /\ verdict' = "found" /\ pc' = "found"
        /\ path' = Append(parentPath, caseIndex)
    BY <1>1 DEF Violation, Attempt, AtParent, verdict, Returned, Reverted
  <2>2. path' \in Seq(Cases) /\ Len(path') \in 1 .. MaxDepth
    <3>1. /\ parentPath \in Seq(Cases) /\ caseIndex \in Cases
          /\ depth \in 1 .. MaxDepth /\ Len(parentPath) = depth - 1
      <4>1. parentIndex \in 1 .. Len(frontier) /\ frontier \in Seq(Seq(Cases))
            /\ caseIndex \in Cases /\ depth \in 1 .. MaxDepth
        BY DEF TypeOK
      <4> QED
        BY <4>1 DEF parentPath, PathLengths
    <3> QED
      BY <2>1, <3>1 DEF SearchAssumption, BoundsAssumption
  <2>3. Search!Violates(path')
    BY <1>0, <2>1, SameTargets DEF FoundPathViolates, Search!Violates
  <2>4. HookContract => Search!HoldsWithin(Len(path') - 1)
    BY <1>0, <2>1, SameTargets DEF FoundPathIsShortest, Search!HoldsWithin, HoldsWithin
  <2> QED
    BY <1>0, <2>1, <2>2, <2>3, <2>4, SameTargets DEF Search!Next, Search!ReportViolation
<1>2. CASE SearchExhausted
  <2>1. verdict = "searching" /\ verdict' = "notFound" /\ pc' = "notFound" /\ path' = path
    BY <1>2 DEF SearchExhausted, LevelDone, verdict, Returned, Reverted
  <2>2. HookContract => Search!HoldsWithin(MaxDepth)
    BY <1>0, <2>1, SameTargets DEF NotFoundIsSound, Search!HoldsWithin, HoldsWithin
  <2> QED
    BY <1>0, <2>1, <2>2 DEF Search!Next, Search!ReportNotFound
<1>3. CASE ReplayDrift \/ TransitionBudgetSpent \/ StateCapReached \/ DepthOverflow
  <2>1. verdict = "searching" /\ verdict' = "reverted" /\ path' = path
    BY <1>3 DEF ReplayDrift, TransitionBudgetSpent, StateCapReached, DepthOverflow, Attempt,
       AtParent, LevelDone, verdict, Returned, Reverted
  <2> QED
    BY <1>0, <2>1 DEF Search!Next, Search!GiveUp
<1>4. CASE \/ ResetTarget \/ ReplayStep \/ StepRejected \/ PruneEquivalent \/ RecordState
           \/ NextCase \/ NextParent \/ NextLevel
  <2>1. verdict' = verdict /\ path' = path
    BY <1>4 DEF ResetTarget, ReplayStep, StepRejected, PruneEquivalent, RecordState, Attempt,
       AtParent, NextCase, NextParent, NextLevel, LevelDone, verdict, Returned, Reverted
  <2> QED
    BY <1>0, <2>1 DEF Search!vars
<1>5. CASE UNCHANGED vars
  BY <1>0, <1>5 DEF vars, verdict, Search!vars
<1> QED
  BY <1>1, <1>2, <1>3, <1>4, <1>5 DEF Next

(* A search starts as the bounded search does. *)
LEMMA InitImplements == SearchAssumption /\ Init => Search!Init
<1> SUFFICES ASSUME SearchAssumption, Init PROVE Search!Init
  OBVIOUS
<1>1. m \in Machine /\ path = <<>> /\ verdict = "searching"
  BY DEF Init, verdict, Returned, Reverted, SearchAssumption, TargetsAssumption
<1>2. HookContract \in BOOLEAN
  BY DEF HookContract, DeterministicReset, CompleteHash
<1> QED
  BY <1>1, <1>2, SameTargets DEF Search!Init

-----------------------------------------------------------------------------
(* The inductive invariant holds of every state of a search. *)
LEMMA InductiveInvariant == ASSUME SearchAssumption PROVE Spec => []SoundInv
  BY SearchStarts, SearchGoesOn, PTL DEF Spec

(***************************************************************************)
(* In every state of a search, whatever its target and its limits, the     *)
(* answers are sound, the violating path is real and minimal, and the      *)
(* representatives are shortest ones.                                      *)
(***************************************************************************)
THEOREM SearchSound == ASSUME SearchAssumption PROVE Spec => []SearchIsSound
  BY SoundFollows, InductiveInvariant, PTL

(***************************************************************************)
(* Searching by unique states implements the abstract bounded search, with *)
(* the engagement's contract on its hooks as what the search trusts:       *)
(* pruning changes the work done and never an answer.                      *)
(***************************************************************************)
THEOREM ImplementsBoundedSearch == ASSUME SearchAssumption PROVE Spec => SearchesBounded
<1>1. SoundInv /\ SearchIsSound' /\ [Next]_vars => [Search!Next]_(Search!vars)
  BY StepImplements
<1> QED
  BY <1>1, InitImplements, InductiveInvariant, SearchSound, PTL DEF Spec, SearchesBounded, Search!Spec

(***************************************************************************)
(* Soundness of pruning: when the hash is complete and the reset is        *)
(* deterministic, found = false means that no run of at most maxDepth      *)
(* steps violates the invariant.                                           *)
(***************************************************************************)
THEOREM NotFoundSound == ASSUME SearchAssumption PROVE Spec => []NotFoundIsSound
<1>1. SearchIsSound => NotFoundIsSound
  BY DEF SearchIsSound
<1> QED
  BY <1>1, SearchSound, PTL

(* A dry frontier makes the same answer hold of every reachable state. *)
THEOREM DryFrontierComplete == ASSUME SearchAssumption PROVE Spec => []DryFrontierIsComplete
<1>1. SearchIsSound => DryFrontierIsComplete
  BY DEF SearchIsSound
<1> QED
  BY <1>1, SearchSound, PTL

(* A violating path the search returns is a run of the target from a reset  *)
(* that ends in a violation, whatever the hooks do ...                      *)
THEOREM FoundPathIsReal == ASSUME SearchAssumption PROVE Spec => []FoundPathViolates
<1>1. SearchIsSound => FoundPathViolates
  BY DEF SearchIsSound
<1> QED
  BY <1>1, SearchSound, PTL

(* ... and it is minimal by step count. *)
THEOREM FoundPathShortest == ASSUME SearchAssumption PROVE Spec => []FoundPathIsShortest
<1>1. SearchIsSound => FoundPathIsShortest
  BY DEF SearchIsSound
<1> QED
  BY <1>1, SearchSound, PTL

(* Every hash is recorded at the least number of steps that reaches it. *)
THEOREM RepresentativesShortest == ASSUME SearchAssumption PROVE Spec => []RepresentativesAreShortest
<1>1. SearchIsSound => RepresentativesAreShortest
  BY DEF SearchIsSound
<1> QED
  BY <1>1, SearchSound, PTL
=============================================================================

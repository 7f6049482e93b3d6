--------------------------- MODULE AuthorityProofs ---------------------------
(***************************************************************************)
(* Effects stay within what was authorized, for every value of the         *)
(* constants: the runtime-authority agent, the identity/authority          *)
(* boundary harness, the agent's trajectory and its evaluation, the        *)
(* subject through its generations, the recovery probe, the action guard   *)
(* and the orientation center.  Each is proved by itself, and then of the  *)
(* specification that MCAuthority makes of all of them.                    *)
(***************************************************************************)
EXTENDS MCAuthority, Integers, FiniteSetTheorems, SequenceTheorems, WellFoundedInduction, TLAPS

(* A set of numbers has a least one: induction, without an operator.       *)
LEMMA Least ==
  ASSUME NEW T, T \subseteq Nat, T # {} PROVE \E n \in T : \A m \in T : n <= m
<1>1. IsWellFoundedOn(OpToRel(<, Nat), Nat)
  BY NatLessThanWellFounded
<1>2. PICK n \in T : \A m \in T : ~ (<<m, n>> \in OpToRel(<, Nat))
  BY <1>1, WFMin
<1>3. \A m \in T : ~ (m < n)
  BY <1>2 DEF OpToRel
<1> QED
  BY <1>3

-----------------------------------------------------------------------------
(* The runtime-authority agent.                                            *)


Receipts == [target : {"none", "ours", "other"}, visible : BOOLEAN]

(* The receipts that commit_effect writes. *)
LEMMA ReceiptsTyped ==
  ASSUME NEW w \in Workers
  PROVE  Receipt(w) \in Receipts /\ Receipt(w) # NoReceipt
<1>1. CASE phase[w] = "recovery"
  BY <1>1 DEF Receipt, Receipts, NoReceipt
<1>2. CASE phase[w] # "recovery"
  BY <1>2 DEF Receipt, Receipts, NoReceipt
<1> QED
  BY <1>1, <1>2

(* A permit has one holder, who has not acted on it and may still do so. *)
HolderAt(w) == pc[w] \in {"permitted", "dispatching"}

Holding ==
    /\ \A w \in Workers : HolderAt(w) =>
          Generation(w) \in permits /\ effects = 0
    /\ \A w \in Workers : At(w, "permitted") => dispatched[Generation(w)] = 0
    /\ \A w \in Workers : At(w, "dispatching") => dispatched[Generation(w)] = 1
    /\ \A v, w \in Workers :
          HolderAt(v) /\ HolderAt(w) /\ Generation(v) = Generation(w) => v = w

(* Where a phase may be. *)
Phases ==
    \A w \in Workers :
       /\ phase[w] = "subject"  => pc[w] \in {"idle", "asking", "permitted", "dispatching", "saving"}
       /\ phase[w] = "recovery" => pc[w] # "saving"

(* What the record NOT_EXECUTED rules out and what rests on it. *)
NonExecution ==
    /\ notExecuted => 1 \in permits /\ dispatched[1] = 1
    /\ notExecuted /\ 2 \notin permits => effects = 0
    /\ 2 \in permits => notExecuted
    /\ notExecuted => \A w \in Workers : phase[w] = "subject" => ~ HolderAt(w)
    /\ \A w \in Workers :
          phase[w] = "recovery" /\ pc[w] \in {"notExecuted", "asking", "permitted", "dispatching"}
              => notExecuted

Backed == effects = 1 /\ receipt = [target |-> "ours", visible |-> TRUE]

(* The effect leaves its receipt, and every reply rests on it. *)
Evidence ==
    /\ effects = 0 <=> receipt = NoReceipt
    /\ effects \in {0, 1}
    /\ \A w \in Workers : At(w, "dispatched") => effects = 1
    /\ \A w \in Workers : At(w, "confirmed") => Backed
    /\ "return_prior" \in decisions => Backed
    /\ completed => effects = 1

AInv == AuthorityCoversEffects /\ Holding /\ Phases /\ NonExecution /\ Evidence
(* The steps preserve the types; a generation is dispatched once because *)
(* its permit has one holder.                                            *)
LEMMA TypeStep ==
  ASSUME TypeOK, Holding, [Next]_vars
  PROVE  TypeOK'
<1> USE DEF TypeOK, Places, world, Goto, At
<1>1. CASE UNCHANGED vars
  BY <1>1 DEF vars
<1>2. CASE ReceiptAppears
  BY <1>2 DEF ReceiptAppears
<1>3. ASSUME NEW w \in Workers, Step(w) PROVE TypeOK'
  <2>1. CASE StartSubject(w)
    BY <2>1 DEF StartSubject
  <2>2. CASE StartRecovery(w)
    BY <2>2 DEF StartRecovery
  <2>3. CASE IssuePermit(w)
    <3>1. pc' \in [Workers -> Places]
      BY <2>3 DEF IssuePermit, Raise
    <3>2. permits' \subseteq Generations
      <4>1. permits' = permits \/ permits' = permits \cup {Generation(w)}
        BY <2>3 DEF IssuePermit
      <4>2. Generation(w) \in Generations
        BY DEF Generation, Generations
      <4> QED
        BY <4>1, <4>2
    <3> QED
      BY <2>3, <3>1, <3>2 DEF IssuePermit
  <2>4. CASE RecordDispatch(w)
    BY <2>4 DEF RecordDispatch, Holding, Generation, Generations
  <2>5. CASE RecordNotExecuted(w)
    BY <2>5 DEF RecordNotExecuted, Raise, FailsBeforeEffect
  <2>6. CASE CommitEffect(w)
    BY <2>6, ReceiptsTyped DEF CommitEffect, Receipts, Raise
  <2>7. CASE ReplyFresh(w)
    BY <2>7 DEF ReplyFresh
  <2>8. CASE ReadReceipt(w)
    BY <2>8 DEF ReadReceipt
  <2>9. CASE ReadOutcome(w)
    BY <2>9 DEF ReadOutcome
  <2>10. CASE ReturnPrior(w)
    BY <2>10 DEF ReturnPrior, Decide
  <2>11. CASE BlockMismatch(w)
    BY <2>11 DEF BlockMismatch, Decide
  <2>12. CASE BlockUnknown(w)
    BY <2>12 DEF BlockUnknown, Decide
  <2>13. CASE RequireFreshAuthority(w)
    BY <2>13 DEF RequireFreshAuthority, Decide
  <2>14. CASE SaveState(w)
    BY <2>14 DEF SaveState
  <2>15. CASE Kill(w)
    BY <2>15 DEF Kill
  <2> QED
    BY <1>3, <2>1, <2>2, <2>3, <2>4, <2>5, <2>6, <2>7, <2>8, <2>9, <2>10, <2>11, <2>12, <2>13, <2>14, <2>15 DEF Step
<1> QED
  BY <1>1, <1>2, <1>3 DEF Next

(* Every step preserves the invariant. *)
LEMMA AgentStep ==
  ASSUME TypeOK, TypeOK', AInv, [Next]_vars
  PROVE  AInv'
<1> USE DEF AInv, AuthorityCoversEffects, Holding, HolderAt, Phases, NonExecution, Evidence,
            Backed, TypeOK, Generation, Generations, world, Goto, At
<1>1. CASE UNCHANGED vars
  BY <1>1 DEF vars
<1>2. CASE ReceiptAppears
  BY <1>2 DEF ReceiptAppears, NoReceipt
<1>3. ASSUME NEW w \in Workers, Step(w) PROVE AInv'
  <2>1. CASE StartSubject(w)
    BY <2>1 DEF StartSubject
  <2>2. CASE StartRecovery(w)
    BY <2>2 DEF StartRecovery
  <2>3. CASE IssuePermit(w)
    BY <2>3 DEF IssuePermit, Raise, Generation, Generations
  <2>4. CASE RecordDispatch(w)
    BY <2>4 DEF RecordDispatch, Generation, Generations
  <2>5. CASE RecordNotExecuted(w)
    BY <2>5 DEF RecordNotExecuted, Raise, FailsBeforeEffect
  <2>6. CASE CommitEffect(w)
    BY <2>6, ReceiptsTyped DEF CommitEffect, FailsBeforeEffect, Raise
  <2>7. CASE ReplyFresh(w)
    BY <2>7 DEF ReplyFresh
  <2>8. CASE ReadReceipt(w)
    <3>1. receipt.visible /\ receipt.target = "ours" => Backed
      <4>1. receipt = [target |-> receipt.target, visible |-> receipt.visible]
        OBVIOUS
      <4>2. receipt.visible \in BOOLEAN
        OBVIOUS
      <4> QED
        BY <4>1, <4>2 DEF NoReceipt
    <3>2. UNCHANGED <<phase, permits, dispatched, effects, receipt, notExecuted, decisions,
                      completed>>
      BY <2>8 DEF ReadReceipt
    <3>3. \E where \in {"readingOutcome", "confirmed", "mismatch"} :
            /\ pc' = [pc EXCEPT ![w] = where]
            /\ where = "confirmed" => receipt.visible /\ receipt.target = "ours"
      BY <2>8 DEF ReadReceipt
    <3> QED
      BY <2>8, <3>1, <3>2, <3>3 DEF ReadReceipt
  <2>9. CASE ReadOutcome(w)
    BY <2>9 DEF ReadOutcome
  <2>10. CASE ReturnPrior(w)
    BY <2>10 DEF ReturnPrior, Decide
  <2>11. CASE BlockMismatch(w)
    BY <2>11 DEF BlockMismatch, Decide
  <2>12. CASE BlockUnknown(w)
    BY <2>12 DEF BlockUnknown, Decide
  <2>13. CASE RequireFreshAuthority(w)
    BY <2>13 DEF RequireFreshAuthority, Decide
  <2>14. CASE SaveState(w)
    BY <2>14 DEF SaveState
  <2>15. CASE Kill(w)
    BY <2>15 DEF Kill
  <2> QED
    BY <1>3, <2>1, <2>2, <2>3, <2>4, <2>5, <2>6, <2>7, <2>8, <2>9, <2>10, <2>11, <2>12, <2>13, <2>14, <2>15 DEF Step
<1> QED
  BY <1>1, <1>2, <1>3 DEF Next

(* The inductive invariant of the agent holds in every state.              *)
LEMMA AgentInvariant == Spec => [](TypeOK /\ AInv)
<1>1. ASSUME Init PROVE TypeOK
  <2>1. /\ phase \in [Workers -> {"subject", "recovery"}]
        /\ pc \in [Workers -> Places]
        /\ dispatched \in [Generations -> {0, 1}]
    BY <1>1 DEF Init, Places
  <2>2. receipt \in Receipts
    BY <1>1 DEF Init, Receipts, NoReceipt
  <2> QED
    BY <1>1, <2>1, <2>2 DEF Init, TypeOK, Receipts
<1>2. Init => AInv
  BY DEF Init, AInv, AuthorityCoversEffects, Holding, HolderAt, Phases, NonExecution, Evidence,
         Backed, At, Generations
<1>3. TypeOK /\ AInv /\ [Next]_vars => (TypeOK /\ AInv)'
  <2> SUFFICES ASSUME TypeOK, AInv, [Next]_vars PROVE TypeOK' /\ AInv'
    OBVIOUS
  <2>1. TypeOK'
    BY TypeStep DEF AInv
  <2> QED
    BY <2>1, AgentStep
<1> QED
  BY <1>1, <1>2, <1>3, PTL DEF Spec

-----------------------------------------------------------------------------
(* Type correctness; in particular no generation is dispatched twice. *)
THEOREM AgentTypeCorrect == Spec => []TypeOK
BY AgentInvariant, PTL

(***************************************************************************)
(* For any number of subjects, recoveries and kills, each generation is    *)
(* dispatched under its own permit and the effect was dispatched.          *)
(***************************************************************************)
THEOREM EffectsCovered == Spec => []AuthorityCoversEffects
<1>1. AInv => AuthorityCoversEffects
  BY DEF AInv
<1> QED
  BY <1>1, AgentInvariant, PTL

(* A returned prior result is backed by the effect and its receipt. *)
THEOREM AgentPriorResultBacked == Spec => []PriorResultIsBacked
<1>1. AInv => PriorResultIsBacked
  BY DEF AInv, Evidence, Backed, PriorResultIsBacked
<1> QED
  BY <1>1, AgentInvariant, PTL

(* A decision to dispatch is never taken on a readback that is out of date. *)
THEOREM StaleReadbackHarmless == Spec => StaleReadbackDispatchesNothing
<1>1. TypeOK /\ AInv /\ [Next]_vars => [dispatched' # dispatched => effects = 0]_vars
  <2> SUFFICES ASSUME AInv, dispatched' # dispatched, [Next]_vars PROVE effects = 0
    OBVIOUS
  <2>1. PICK w \in Workers : RecordDispatch(w)
    BY DEF Next, Step, vars, world, Decide, ReceiptAppears, StartSubject, StartRecovery,
       IssuePermit, RecordNotExecuted, CommitEffect, ReplyFresh, ReadReceipt, ReadOutcome,
       ReturnPrior, BlockMismatch, BlockUnknown, RequireFreshAuthority, SaveState, Kill
  <2> QED
    BY <2>1 DEF RecordDispatch, AInv, Holding, HolderAt, At
<1> QED
  BY <1>1, AgentInvariant, PTL DEF Spec, StaleReadbackDispatchesNothing

(***************************************************************************)
(* A permit of a second generation is issued only for an action known not  *)
(* to have been executed, and while that is so.                            *)
(***************************************************************************)
THEOREM FreshAuthorityJustified == Spec => FreshAuthorityNeedsNonExecution
<1>1. TypeOK /\ AInv /\ [Next]_vars
        => [permits' # permits /\ permits # {} => notExecuted /\ effects = 0]_vars
  <2> SUFFICES ASSUME TypeOK, AInv, permits' # permits, permits # {}, [Next]_vars
               PROVE  notExecuted /\ effects = 0
    OBVIOUS
  <2>1. PICK w \in Workers : IssuePermit(w)
    BY DEF Next, Step, vars, world, Decide, ReceiptAppears, StartSubject, StartRecovery,
       RecordDispatch, RecordNotExecuted, CommitEffect, ReplyFresh, ReadReceipt, ReadOutcome,
       ReturnPrior, BlockMismatch, BlockUnknown, RequireFreshAuthority, SaveState, Kill
  <2>2. Generation(w) \notin permits /\ At(w, "asking")
    BY <2>1 DEF IssuePermit
  <2>3. 1 \in permits
    BY DEF TypeOK, Generations, AInv, AuthorityCoversEffects
  <2>4. phase[w] = "recovery" /\ 2 \notin permits
    BY <2>2, <2>3 DEF Generation, TypeOK
  <2> QED
    BY <2>2, <2>4 DEF AInv, NonExecution, At
<1> QED
  BY <1>1, AgentInvariant, PTL DEF Spec, FreshAuthorityNeedsNonExecution

(***************************************************************************)
(* The agent implements the effect that happens at most once, and whose    *)
(* result is replied only when it has happened.                            *)
(***************************************************************************)
THEOREM AgentImplementsEffectOnce == Spec => ImplementsEffectOnce
<1>1. Init => Once!Init
  BY DEF Init, Once!Init
<1>2. TypeOK /\ AInv /\ [Next]_vars => [Once!Next]_(Once!vars)
  <2> SUFFICES ASSUME TypeOK, AInv, [Next]_vars PROVE [Once!Next]_(Once!vars)
    OBVIOUS
  <2> USE DEF Once!Next, Once!Perform, Once!Complete, Once!vars
  <2>1. CASE UNCHANGED vars \/ ReceiptAppears
    BY <2>1 DEF vars, ReceiptAppears
  <2>2. ASSUME NEW w \in Workers, Step(w) PROVE [Once!Next]_(Once!vars)
    <3>1. CASE CommitEffect(w)
      BY <3>1 DEF CommitEffect, AInv, Holding, HolderAt, At
    <3>2. CASE ReplyFresh(w) \/ ReturnPrior(w)
      BY <3>2 DEF ReplyFresh, ReturnPrior, Decide, world, AInv, Evidence, Backed, At
    <3> QED
      BY <2>2, <3>1, <3>2 DEF Step, world, Decide, StartSubject, StartRecovery, IssuePermit,
         RecordDispatch, RecordNotExecuted, ReadReceipt, ReadOutcome, BlockMismatch,
         BlockUnknown, RequireFreshAuthority, SaveState, Kill
  <2> QED
    BY <2>1, <2>2 DEF Next
<1> QED
  BY <1>1, <1>2, AgentInvariant, PTL DEF Spec, ImplementsEffectOnce, Once!Spec

(***************************************************************************)
(* The agent keeps its promises together: its records agree, no readback   *)
(* out of date and no silence gives authority, and the effect happens once.*)
(***************************************************************************)
THEOREM AgentGuarded == Spec => AgentIsGuarded
<1>1. Spec => [](TypeOK /\ AuthorityCoversEffects /\ PriorResultIsBacked)
  BY AgentTypeCorrect, EffectsCovered, AgentPriorResultBacked, PTL
<1> QED
  BY <1>1, StaleReadbackHarmless, FreshAuthorityJustified, AgentImplementsEffectOnce, PTL
     DEF AgentIsGuarded

-----------------------------------------------------------------------------
(* The identity/authority boundary harness.                                *)

Actions == Boundary!Actions
Permits == [action : Actions, consumed : BOOLEAN]

BoundaryTypeOK ==
    /\ issued \in Seq(Permits)
    /\ dispatches \in [Actions -> Nat] /\ misled \in [Actions -> Nat]
    /\ DOMAIN receipts = Actions /\ DOMAIN forced = Actions
    /\ place \in {"idle", "permitted", "authorized", "dispatched", "stopped"}
    /\ place # "idle" => current.action \in Actions
    /\ current = [action |-> current.action, permit |-> current.permit]

(* The consumed permits of an action, and the dispatch that one it holds  *)
(* still entitles it to.                                                   *)
Spent(a) == {p \in DOMAIN issued : issued[p].action = a /\ issued[p].consumed}
Awaits(a, places) == IF current.action = a /\ place \in places THEN 1 ELSE 0

(* An action has a receipt exactly when it was dispatched. *)
EffectsLeaveReceipts == \A a \in Actions : receipts[a] # Boundary!None <=> dispatches[a] > 0

(* Who acts, acted or was stopped has consumed the permit it holds. *)
PermitIsSpent ==
    place \in {"authorized", "dispatched", "stopped"} =>
        current.permit \in DOMAIN issued /\ issued[current.permit].consumed

(* The dispatch to come counts already, against the denials and against    *)
(* the permits.                                                            *)
OncePerDenial == \A a \in Actions : dispatches[a] + Awaits(a, {"permitted", "authorized"}) <= 1 + misled[a]
OncePerPermit == \A a \in Actions : dispatches[a] + Awaits(a, {"authorized"}) <= Cardinality(Spent(a))

(* A prior result that was returned has an effect or a forced readback. *)
PriorIsKnown ==
    \A a \in Actions : decision = "return_prior" /\ current.action = a =>
        dispatches[a] > 0 \/ forced[a] # Boundary!None

BoundaryInv ==
    /\ BoundaryTypeOK /\ EffectsLeaveReceipts /\ PermitIsSpent
    /\ OncePerDenial /\ OncePerPermit /\ PriorIsKnown

(* So their number is a number. *)
LEMMA SpentFinite ==
  ASSUME BoundaryTypeOK, NEW a \in Actions
  PROVE  IsFiniteSet(Spent(a)) /\ Cardinality(Spent(a)) \in Nat
<1>1. Spent(a) \subseteq 1 .. Len(issued) /\ Len(issued) \in Nat
  BY DEF Spent, BoundaryTypeOK
<1>2. IsFiniteSet(1 .. Len(issued))
  BY <1>1, FS_Interval
<1>3. IsFiniteSet(Spent(a))
  BY <1>1, <1>2, FS_Subset
<1> QED
  BY <1>3, FS_CardinalityType

(* Nothing was dispatched at first. *)
LEMMA BoundaryInit == Boundary!Init => BoundaryInv
<1> SUFFICES ASSUME Boundary!Init PROVE BoundaryInv
  OBVIOUS
<1> USE DEF Boundary!Init, Actions
<1>1. BoundaryTypeOK
  BY DEF BoundaryTypeOK, Permits
<1>2. \A a \in Actions : Spent(a) = {}
  BY DEF Spent
<1>3. OncePerPermit
  BY <1>2, FS_EmptySet DEF OncePerPermit, Awaits
<1> QED
  BY <1>1, <1>3 DEF BoundaryInv, EffectsLeaveReceipts, PermitIsSpent, OncePerDenial, PriorIsKnown, Awaits

(* A new permit leaves what was spent. *)
LEMMA IssueKeeps ==
  ASSUME BoundaryInv, NEW b \in Actions, Boundary!Issue(b)
  PROVE  /\ issued' \in Seq(Permits) /\ current'.action = b /\ place' = "permitted"
         /\ current' = [action |-> current'.action, permit |-> current'.permit]
         /\ \A a \in Actions : Spent(a)' = Spent(a)
<1> USE DEF BoundaryInv, BoundaryTypeOK, Boundary!Issue, Permits
<1>1. [action |-> b, consumed |-> FALSE] \in Permits
  OBVIOUS
<1>2. /\ issued' \in Seq(Permits) /\ Len(issued') = Len(issued) + 1
      /\ \A p \in 1 .. Len(issued) : issued'[p] = issued[p]
      /\ issued'[Len(issued) + 1].consumed = FALSE
  BY <1>1
<1>3. ASSUME NEW a \in Actions PROVE Spent(a)' = Spent(a)
  BY <1>2 DEF Spent
<1> QED
  BY <1>2, <1>3

(* A dispatch uses up what its permit counted; a recovery that asks for a  *)
(* new permit was told NOT_EXECUTED, rightly or not.                       *)
LEMMA BoundaryStep == BoundaryInv /\ [Boundary!Next]_Boundary!vars => BoundaryInv'
<1> SUFFICES ASSUME BoundaryInv, [Boundary!Next]_Boundary!vars PROVE BoundaryInv'
  OBVIOUS
<1> USE DEF BoundaryInv, Boundary!stores
<1> USE SpentFinite
<1>1. ASSUME NEW b \in Actions, Boundary!StartNew(b) PROVE BoundaryInv'
  <2>1. Boundary!Issue(b) /\ dispatches[b] = 0 /\ decision' = "none"
        /\ UNCHANGED <<receipts, forced, dispatches, forcings, misled>>
    BY <1>1 DEF Boundary!StartNew
  <2>2. BoundaryTypeOK'
    BY <2>1, IssueKeeps DEF BoundaryTypeOK
  <2>3. EffectsLeaveReceipts' /\ PermitIsSpent' /\ PriorIsKnown'
    BY <2>1, IssueKeeps DEF EffectsLeaveReceipts, PermitIsSpent, PriorIsKnown
  <2>4. OncePerDenial'
    BY <2>1, IssueKeeps DEF OncePerDenial, Awaits, BoundaryTypeOK
  <2>5. OncePerPermit'
    BY <2>1, IssueKeeps DEF OncePerPermit, Awaits, BoundaryTypeOK
  <2> QED
    BY <2>2, <2>3, <2>4, <2>5
<1>2. ASSUME Boundary!Consume PROVE BoundaryInv'
  <2> USE DEF Boundary!Consume
  <2>1. CASE Boundary!ConsumeVerdict(current.permit, current.action) # "consumed"
    <3>1. UNCHANGED <<issued, place, receipts, forced, dispatches, current, forcings, misled>>
          /\ decision' # "return_prior"
      BY <1>2, <2>1 DEF Boundary!ConsumeVerdict
    <3>2. \A a \in Actions : Spent(a)' = Spent(a) /\ Awaits(a, {"authorized"})' = Awaits(a, {"authorized"})
             /\ Awaits(a, {"permitted", "authorized"})' = Awaits(a, {"permitted", "authorized"})
      BY <3>1 DEF Spent, Awaits
    <3> QED
      BY <3>1, <3>2 DEF BoundaryTypeOK, EffectsLeaveReceipts, PermitIsSpent, OncePerDenial, OncePerPermit, PriorIsKnown
  <2>2. CASE Boundary!ConsumeVerdict(current.permit, current.action) = "consumed"
    <3> DEFINE p == current.permit
               b == current.action
    <3>1. /\ p \in DOMAIN issued /\ ~ issued[p].consumed /\ issued[p].action = b
          /\ issued' = [issued EXCEPT ![p].consumed = TRUE] /\ place' = "authorized"
          /\ decision' = "consumed" /\ UNCHANGED <<receipts, forced, dispatches, current, forcings, misled>>
      BY <1>2, <2>2 DEF Boundary!ConsumeVerdict
    <3>2. place = "permitted" /\ b \in Actions
      BY <1>2, <3>1 DEF PermitIsSpent, BoundaryTypeOK
    <3>3. issued' \in Seq(Permits) /\ DOMAIN issued' = DOMAIN issued /\ issued'[p].consumed
      <4> DEFINE used == [issued[p] EXCEPT !.consumed = TRUE]
      <4>1. issued[p] \in Permits
        BY <3>1 DEF BoundaryTypeOK
      <4>2. used \in Permits /\ used.consumed = TRUE
        BY <4>1 DEF Permits
      <4>3. issued' = [issued EXCEPT ![p] = used]
        BY <3>1
      <4>4. issued \in Seq(Permits) /\ p \in 1 .. Len(issued)
        BY <3>1 DEF BoundaryTypeOK
      <4> HIDE DEF used
      <4>5. issued' \in Seq(Permits) /\ Len(issued') = Len(issued) /\ issued'[p] = used
        BY <4>2, <4>3, <4>4, ExceptSeq
      <4> QED
        BY <4>2, <4>4, <4>5
    <3>4. BoundaryTypeOK'
      BY <3>1, <3>2, <3>3 DEF BoundaryTypeOK
    <3>6. EffectsLeaveReceipts' /\ PermitIsSpent' /\ PriorIsKnown'
      BY <3>1, <3>3 DEF EffectsLeaveReceipts, PermitIsSpent, PriorIsKnown
    <3>7. OncePerDenial'
      BY <3>1, <3>2 DEF OncePerDenial, Awaits
    <3>8. Spent(b)' = Spent(b) \cup {p} /\ p \notin Spent(b)
      BY <3>1, <3>3 DEF Spent, BoundaryTypeOK, Permits
    <3>9. \A a \in Actions : a # b => Spent(a)' = Spent(a)
      BY <3>1, <3>3 DEF Spent, BoundaryTypeOK, Permits
    <3>10. Cardinality(Spent(b)') = Cardinality(Spent(b)) + 1
      BY <3>2, <3>8, FS_AddElement
    <3>11. OncePerPermit'
      <4>1. ASSUME NEW a \in Actions PROVE dispatches'[a] + Awaits(a, {"authorized"})' <= Cardinality(Spent(a)')
        <5>1. CASE a = b
          BY <5>1, <3>1, <3>2, <3>10 DEF OncePerPermit, Awaits, BoundaryTypeOK
        <5>2. CASE a # b
          BY <5>2, <3>1, <3>2, <3>9 DEF OncePerPermit, Awaits, BoundaryTypeOK
        <5> QED BY <5>1, <5>2
      <4> QED BY <4>1 DEF OncePerPermit
    <3> QED
      BY <3>4, <3>6, <3>7, <3>11
  <2> QED BY <2>1, <2>2
<1>3. ASSUME Boundary!Dispatch PROVE BoundaryInv'
  <2> DEFINE b == current.action
  <2>1. /\ place = "authorized" /\ place' = "dispatched"
        /\ dispatches' = [dispatches EXCEPT ![b] = @ + 1]
        /\ receipts' = [receipts EXCEPT ![b] = Boundary!Confirmed(b, b.target, b.intent)]
        /\ UNCHANGED <<issued, forced, current, decision, forcings, misled>>
    BY <1>3 DEF Boundary!Dispatch
  <2>2. b \in Actions
    BY <2>1 DEF BoundaryTypeOK
  <2>3. Boundary!Confirmed(b, b.target, b.intent) # Boundary!None
    BY DEF Boundary!Confirmed, Boundary!None
  <2>4. BoundaryTypeOK' /\ PermitIsSpent'
    BY <2>1, <2>2 DEF BoundaryTypeOK, PermitIsSpent
  <2>5. EffectsLeaveReceipts'
    BY <2>1, <2>2, <2>3 DEF EffectsLeaveReceipts, BoundaryTypeOK
  <2>6. \A a \in Actions : Spent(a)' = Spent(a)
    BY <2>1 DEF Spent
  <2>7. OncePerDenial' /\ OncePerPermit'
    BY <2>1, <2>2, <2>6 DEF OncePerDenial, OncePerPermit, Awaits, BoundaryTypeOK
  <2>8. PriorIsKnown'
    BY <2>1, <2>2 DEF PriorIsKnown, BoundaryTypeOK
  <2> QED BY <2>4, <2>5, <2>7, <2>8
<1>4. ASSUME Boundary!Finish \/ Boundary!Stop PROVE BoundaryInv'
  <2>1. /\ place' \in {"idle", "stopped"} /\ place \in {"authorized", "dispatched"}
        /\ UNCHANGED <<issued, receipts, dispatches, forced, current, decision, forcings, misled>>
    BY <1>4 DEF Boundary!Finish, Boundary!Stop
  <2>2. \A a \in Actions : Spent(a)' = Spent(a)
    BY <2>1 DEF Spent
  <2>3. BoundaryTypeOK' /\ PermitIsSpent' /\ EffectsLeaveReceipts' /\ PriorIsKnown'
    BY <2>1 DEF BoundaryTypeOK, PermitIsSpent, EffectsLeaveReceipts, PriorIsKnown
  <2>4. OncePerDenial' /\ OncePerPermit'
    BY <2>1, <2>2 DEF OncePerDenial, OncePerPermit, Awaits, BoundaryTypeOK
  <2> QED BY <2>3, <2>4
<1>5. ASSUME Boundary!Reconcile PROVE BoundaryInv'
  <2> DEFINE b == current.action
             denied == Boundary!Readback(b).status = "NOT_EXECUTED"
  <2>1. /\ place = "stopped" /\ decision' = Boundary!Decision(b)
        /\ misled' = [misled EXCEPT ![b] = @ + IF denied /\ receipts[b] # Boundary!None THEN 1 ELSE 0]
        /\ UNCHANGED <<receipts, forced, dispatches, forcings>>
    BY <1>5 DEF Boundary!Reconcile
  <2>2. b \in Actions
    BY <2>1 DEF BoundaryTypeOK
  <2>3. misled' \in [Actions -> Nat] /\ \A a \in Actions : misled'[a] >= misled[a]
    BY <2>1, <2>2 DEF BoundaryTypeOK
  <2>4. EffectsLeaveReceipts'
    BY <2>1 DEF EffectsLeaveReceipts
  <2>5. CASE decision' = "fresh_authorization"
    <3>1. Boundary!Issue(b)
      BY <1>5, <2>5 DEF Boundary!Reconcile
    <3>2. denied
      BY <2>1, <2>5 DEF Boundary!Decision
    <3>3. dispatches[b] <= misled'[b]
      <4>1. CASE receipts[b] = Boundary!None
        BY <2>2, <2>3, <4>1 DEF EffectsLeaveReceipts, BoundaryTypeOK
      <4>2. CASE receipts[b] # Boundary!None
        BY <2>1, <2>2, <3>2, <4>2 DEF OncePerDenial, Awaits, BoundaryTypeOK
      <4> QED BY <4>1, <4>2
    <3>4. BoundaryTypeOK' /\ PermitIsSpent' /\ PriorIsKnown'
      BY <2>1, <2>2, <2>3, <2>5, <3>1, IssueKeeps DEF BoundaryTypeOK, PermitIsSpent, PriorIsKnown
    <3>5. OncePerDenial'
      BY <2>1, <2>2, <2>3, <3>1, <3>3, IssueKeeps DEF OncePerDenial, Awaits, BoundaryTypeOK
    <3>6. OncePerPermit'
      BY <2>1, <2>2, <3>1, IssueKeeps DEF OncePerPermit, Awaits, BoundaryTypeOK
    <3> QED BY <2>4, <3>4, <3>5, <3>6
  <2>6. CASE decision' # "fresh_authorization"
    <3>1. UNCHANGED <<issued, current>> /\ place' \in {"idle", "stopped"}
      BY <1>5, <2>1, <2>6 DEF Boundary!Reconcile
    <3>2. \A a \in Actions : Spent(a)' = Spent(a)
      BY <3>1 DEF Spent
    <3>3. BoundaryTypeOK' /\ PermitIsSpent'
      BY <2>1, <2>2, <2>3, <3>1 DEF BoundaryTypeOK, PermitIsSpent
    <3>4. OncePerDenial' /\ OncePerPermit'
      BY <2>1, <2>2, <2>3, <3>1, <3>2 DEF OncePerDenial, OncePerPermit, Awaits, BoundaryTypeOK
    <3>5. PriorIsKnown'
      <4>1. decision' = "return_prior" => forced[b] # Boundary!None \/ receipts[b] # Boundary!None
        BY <2>1 DEF Boundary!Decision, Boundary!Readback, Boundary!Status
      <4> QED
        BY <2>1, <2>2, <3>1, <4>1 DEF PriorIsKnown, EffectsLeaveReceipts
    <3> QED BY <2>4, <3>3, <3>4, <3>5
  <2> QED BY <2>5, <2>6
<1>6. ASSUME NEW a \in Actions, NEW r \in Boundary!ForcedReadbacks(a), Boundary!SetReadback(a, r) PROVE BoundaryInv'
  <2>1. /\ forced' = [forced EXCEPT ![a] = r]
        /\ UNCHANGED <<issued, receipts, dispatches, place, current, decision, misled>>
    BY <1>6 DEF Boundary!SetReadback
  <2>2. r # Boundary!None
    BY DEF Boundary!ForcedReadbacks, Boundary!Status, Boundary!Confirmed, Boundary!None
  <2>3. \A c \in Actions : Spent(c)' = Spent(c)
    BY <2>1 DEF Spent
  <2>4. BoundaryTypeOK' /\ PermitIsSpent' /\ EffectsLeaveReceipts'
    BY <2>1 DEF BoundaryTypeOK, PermitIsSpent, EffectsLeaveReceipts
  <2>5. OncePerDenial' /\ OncePerPermit'
    BY <2>1, <2>3 DEF OncePerDenial, OncePerPermit, Awaits, BoundaryTypeOK
  <2>6. PriorIsKnown'
    BY <2>1, <2>2 DEF PriorIsKnown, BoundaryTypeOK
  <2> QED BY <2>4, <2>5, <2>6
<1>7. CASE UNCHANGED Boundary!vars
  <2>1. UNCHANGED <<issued, receipts, dispatches, forced, place, current, decision, forcings, misled>>
    BY <1>7 DEF Boundary!vars
  <2>2. \A a \in Actions : Spent(a)' = Spent(a)
    BY <2>1 DEF Spent
  <2> QED
    BY <2>1, <2>2 DEF BoundaryTypeOK, PermitIsSpent, EffectsLeaveReceipts, PriorIsKnown, OncePerDenial, OncePerPermit, Awaits
<1> QED
  BY <1>1, <1>2, <1>3, <1>4, <1>5, <1>6, <1>7 DEF Boundary!Next, Actions

(* The invariant has both bounds. *)
LEMMA BoundaryImplies == BoundaryInv => Boundary!IdentityIsNotAuthority
<1> SUFFICES ASSUME BoundaryInv, NEW a \in Actions
             PROVE  /\ dispatches[a] <= 1 + misled[a]
                    /\ dispatches[a] <= Cardinality(Spent(a))
                    /\ decision = "return_prior" /\ current.action = a =>
                         dispatches[a] > 0 \/ forced[a] # Boundary!None
  BY DEF Boundary!IdentityIsNotAuthority, Spent, Actions, Boundary!Cardinality, Cardinality, Boundary!IsFiniteSet, IsFiniteSet
<1>1. dispatches[a] \in Nat /\ misled[a] \in Nat /\ Cardinality(Spent(a)) \in Nat
  BY SpentFinite DEF BoundaryInv, BoundaryTypeOK
<1>2. dispatches[a] <= 1 + misled[a]
  BY <1>1 DEF BoundaryInv, OncePerDenial, Awaits
<1>3. dispatches[a] <= Cardinality(Spent(a))
  BY <1>1 DEF BoundaryInv, OncePerPermit, Awaits
<1> QED
  BY <1>2, <1>3 DEF BoundaryInv, PriorIsKnown

(***************************************************************************)
(* Restoring an identity is no permission to act (execute, recover and     *)
(* reconcile of the harness): for any targets, intents and bounds and any  *)
(* sequence of stops and recoveries, an action is dispatched once more     *)
(* than its readback wrongly denied it, each time under a permit of its    *)
(* own.                                                                    *)
(***************************************************************************)
THEOREM BoundaryKept == Boundary!Spec => []Boundary!IdentityIsNotAuthority
BY BoundaryInit, BoundaryStep, BoundaryImplies, PTL DEF Boundary!Spec

-----------------------------------------------------------------------------
(* The trajectory of an agent.                                             *)

latest == Len(executions)
Executions == [kind : {"dispatch", "retry"}, effect : {"open", "committed", "nothing"}, doubted : BOOLEAN, cleared : BOOLEAN]
Outcomes == {"committed", "failed", "no_effect"}
(* What is held of an effect, once it is settled. *)
Agree(effect, outcome) == effect # "open" /\ (effect = "committed" <=> outcome = "committed")

TrajectoryTypeOK ==
    /\ executions \in Seq(Executions)
    /\ resolved \in Outcomes \cup {"none"} /\ unresolved \in BOOLEAN /\ passed \in BOOLEAN
    /\ \A c \in closed : c.execution \in 1 .. latest /\ c.outcome \in Outcomes

(* What the evaluator holds resolved is what became of the latest        *)
(* execution, and a latest execution in doubt is unresolved until then.  *)
LatestIsKnown ==
    /\ resolved # "none" => latest > 0 /\ Agree(executions[latest].effect, resolved)
    /\ latest > 0 /\ executions[latest].doubted /\ ~ unresolved => resolved # "none"

(* An execution in doubt that another one followed came to nothing. *)
DoubtedHaveNoEffect == \A e \in 1 .. latest - 1 : executions[e].doubted => executions[e].effect = "nothing"
(* What was ended is settled. *)
ClosedAsSettled == \A c \in closed : Agree(executions[c.execution].effect, c.outcome)

TrajectoryInv == TrajectoryTypeOK /\ (passed => LatestIsKnown /\ DoubtedHaveNoEffect /\ ClosedAsSettled)

(* Nothing was executed at first. *)
LEMMA TrajectoryInit == Trajectory!Init => TrajectoryInv
<1> SUFFICES ASSUME Trajectory!Init PROVE TrajectoryInv
  OBVIOUS
<1>1. /\ executions \in Seq(Executions) /\ latest = 0 /\ closed = {} /\ passed = TRUE
      /\ resolved = "none" /\ unresolved = FALSE
  BY DEF Trajectory!Init, Trajectory!None, latest
<1>2. TrajectoryTypeOK
  BY <1>1 DEF TrajectoryTypeOK
<1>3. LatestIsKnown /\ DoubtedHaveNoEffect /\ ClosedAsSettled
  BY <1>1 DEF LatestIsKnown, DoubtedHaveNoEffect, ClosedAsSettled
<1> QED
  BY <1>2, <1>3 DEF TrajectoryInv

(* A change of one execution that leaves every settled effect as it is. *)
LEMMA ExecutionChanged ==
  ASSUME TrajectoryTypeOK, NEW e \in 1 .. latest, NEW x \in Executions,
         executions' = [executions EXCEPT ![e] = x]
  PROVE  /\ executions' \in Seq(Executions) /\ latest' = latest
         /\ \A i \in 1 .. latest : executions'[i] = IF i = e THEN x ELSE executions[i]
BY ExceptSeq DEF TrajectoryTypeOK, latest

(* An answer about the latest execution, or the loss of sight of it. *)
LEMMA LatestAnswered ==
  ASSUME TrajectoryInv, passed, passed', UNCHANGED closed, latest > 0,
         \/ unresolved' = TRUE /\ resolved' = "none"
         \/ unresolved' = FALSE /\ resolved' \in Outcomes /\ Agree(executions[latest].effect, resolved'),
         NEW x \in Executions, x.effect = executions[latest].effect, x.doubted = TRUE,
         executions' = [executions EXCEPT ![latest] = x]
  PROVE  TrajectoryInv'
<1> USE DEF TrajectoryInv
<1>1. latest \in 1 .. latest /\ \A c \in closed : c.execution \in 1 .. latest
  BY DEF TrajectoryTypeOK, latest
<1>2. /\ executions' \in Seq(Executions) /\ latest' = latest
      /\ \A i \in 1 .. latest : executions'[i] = IF i = latest THEN x ELSE executions[i]
  BY <1>1, ExecutionChanged
<1>3. TrajectoryTypeOK'
  BY <1>2 DEF TrajectoryTypeOK
<1>4. LatestIsKnown'
  <2>1. executions'[latest'].effect = executions[latest].effect
    BY <1>1, <1>2
  <2>2. CASE unresolved' = TRUE /\ resolved' = "none"
    BY <2>2 DEF LatestIsKnown
  <2>3. CASE unresolved' = FALSE /\ resolved' \in Outcomes /\ Agree(executions[latest].effect, resolved')
    BY <1>2, <2>1, <2>3 DEF LatestIsKnown, Outcomes
  <2> QED BY <2>2, <2>3
<1>5. DoubtedHaveNoEffect'
  BY <1>1, <1>2 DEF DoubtedHaveNoEffect
<1>6. ClosedAsSettled'
  BY <1>1, <1>2 DEF ClosedAsSettled
<1> QED BY <1>3, <1>4, <1>5, <1>6

(* Every event in order keeps the invariant; any other one fails the trace. *)
LEMMA TrajectoryStep == TrajectoryInv /\ [Trajectory!Next]_Trajectory!vars => TrajectoryInv'
<1> SUFFICES ASSUME TrajectoryInv, [Trajectory!Next]_Trajectory!vars PROVE TrajectoryInv'
  OBVIOUS
<1> USE DEF TrajectoryInv, Trajectory!kept, Trajectory!world
<1>0. TrajectoryTypeOK /\ latest \in Nat /\ Trajectory!latest = latest /\ \A i \in 1 .. latest : executions[i] \in Executions
  <2>1. latest \in Nat /\ \A i \in 1 .. latest : executions[i] \in Executions
    BY DEF TrajectoryTypeOK, latest
  <2>2. Trajectory!latest = latest
    BY DEF Trajectory!latest, latest
  <2> QED BY <2>1, <2>2
<1>1. ASSUME NEW e \in 1 .. latest, NEW effect \in {"committed", "nothing"}, Trajectory!Settle(e, effect)
      PROVE TrajectoryInv'
  <2> DEFINE x == [executions[e] EXCEPT !.effect = effect]
  <2>1. executions[e].effect = "open" /\ executions' = [executions EXCEPT ![e] = x]
        /\ UNCHANGED <<unresolved, resolved, closed, passed>>
    BY <1>1 DEF Trajectory!Settle
  <2>2. x \in Executions /\ x.doubted = executions[e].doubted
    BY <1>0 DEF Executions
  <2> HIDE DEF x
  <2>3. /\ executions' \in Seq(Executions) /\ latest' = latest
        /\ \A i \in 1 .. latest : executions'[i] = IF i = e THEN x ELSE executions[i]
    BY <1>0, <2>1, <2>2, ExecutionChanged
  <2>4. \A i \in 1 .. latest : executions'[i].doubted = executions[i].doubted
                               /\ (executions[i].effect # "open" => executions'[i].effect = executions[i].effect)
    BY <2>1, <2>2, <2>3
  <2>5. TrajectoryTypeOK'
    BY <2>1, <2>3 DEF TrajectoryTypeOK
  <2>6. ASSUME passed PROVE LatestIsKnown' /\ DoubtedHaveNoEffect' /\ ClosedAsSettled'
    <3>1. LatestIsKnown'
      BY <1>0, <2>1, <2>3, <2>4, <2>6 DEF LatestIsKnown, Agree
    <3>2. DoubtedHaveNoEffect'
      BY <1>0, <2>1, <2>3, <2>4, <2>6 DEF DoubtedHaveNoEffect
    <3>3. ClosedAsSettled'
      BY <1>0, <2>1, <2>3, <2>4, <2>6 DEF ClosedAsSettled, Agree, TrajectoryTypeOK
    <3> QED BY <3>1, <3>2, <3>3
  <2> QED BY <2>1, <2>5, <2>6
(* Events that only move the evaluation on. *)
<1>2. ASSUME UNCHANGED <<executions, unresolved, resolved, closed>>, passed' \in {passed, FALSE} PROVE TrajectoryInv'
  <2>1. latest' = latest
    BY <1>2 DEF latest
  <2>2. TrajectoryTypeOK'
    BY <1>0, <1>2, <2>1 DEF TrajectoryTypeOK
  <2>3. ASSUME passed' PROVE LatestIsKnown' /\ DoubtedHaveNoEffect' /\ ClosedAsSettled'
    BY <1>2, <2>1, <2>3 DEF LatestIsKnown, DoubtedHaveNoEffect, ClosedAsSettled
  <2> QED BY <2>2, <2>3
<1>3. ASSUME NEW kind \in {"dispatch", "retry"}, NEW s, NEW fresh, NEW r, Trajectory!Execute(kind, s, fresh, r)
      PROVE TrajectoryInv'
  <2> DEFINE x == Trajectory!Execution(kind)
  <2>1. /\ passed /\ ~ unresolved /\ resolved # "committed"
        /\ executions' = Append(executions, x) /\ resolved' = "none"
        /\ UNCHANGED <<unresolved, closed, passed>>
    BY <1>3 DEF Trajectory!Execute, Trajectory!InOrder, Trajectory!MayExecute, Trajectory!None
  <2>2. x \in Executions /\ x.doubted = FALSE
    BY DEF Trajectory!Execution, Executions
  <2> HIDE DEF x
  <2>3. /\ executions' \in Seq(Executions) /\ latest' = latest + 1 /\ executions'[latest + 1] = x
        /\ \A i \in 1 .. latest : executions'[i] = executions[i]
    BY <1>0, <2>1, <2>2 DEF TrajectoryTypeOK, latest
  <2>4. latest > 0 /\ executions[latest].doubted => executions[latest].effect = "nothing"
    <3> SUFFICES ASSUME latest > 0, executions[latest].doubted PROVE executions[latest].effect = "nothing"
      OBVIOUS
    <3>1. resolved \in {"failed", "no_effect"}
      BY <2>1, <1>0 DEF LatestIsKnown, TrajectoryTypeOK, Outcomes
    <3>2. executions[latest] \in Executions /\ Agree(executions[latest].effect, resolved)
      BY <2>1, <1>0, <3>1 DEF LatestIsKnown
    <3> QED BY <3>1, <3>2 DEF Agree, Executions
  <2>5. TrajectoryTypeOK'
    BY <1>0, <2>1, <2>3 DEF TrajectoryTypeOK
  <2>6. LatestIsKnown'
    BY <1>0, <2>1, <2>2, <2>3 DEF LatestIsKnown
  <2>7. DoubtedHaveNoEffect'
    <3> SUFFICES ASSUME NEW e \in 1 .. latest, executions'[e].doubted PROVE executions'[e].effect = "nothing"
      BY <1>0, <2>3 DEF DoubtedHaveNoEffect
    <3>1. executions'[e] = executions[e]
      BY <2>3
    <3>2. CASE e = latest
      BY <1>0, <2>4, <3>1, <3>2
    <3>3. CASE e # latest
      BY <1>0, <2>1, <3>1, <3>3 DEF DoubtedHaveNoEffect
    <3> QED BY <3>2, <3>3
  <2>8. ClosedAsSettled'
    BY <1>0, <2>1, <2>3 DEF ClosedAsSettled, TrajectoryTypeOK
  <2> QED BY <2>5, <2>6, <2>7, <2>8
<1>4. ASSUME NEW e \in 0 .. latest, NEW s, Trajectory!Bound(e, s), passed, passed', UNCHANGED closed, Trajectory!Doubt(e)
      PROVE TrajectoryInv'
  <2> DEFINE x == [executions[latest] EXCEPT !.doubted = TRUE]
  <2>1. e = latest /\ latest > 0 /\ unresolved' = TRUE /\ resolved' = "none" /\ executions' = [executions EXCEPT ![latest] = x]
    BY <1>0, <1>4 DEF Trajectory!Bound, Trajectory!Doubt, Trajectory!None
  <2>2. executions[latest] \in Executions
    BY <1>0, <2>1
  <2>3. x \in Executions /\ x.effect = executions[latest].effect /\ x.doubted = TRUE
    BY <2>2 DEF Executions
  <2> HIDE DEF x
  <2> QED BY <1>4, <2>1, <2>3, LatestAnswered
<1>5. ASSUME NEW e \in 0 .. latest, NEW s, Trajectory!Ambiguous(e, s) PROVE TrajectoryInv'
  BY <1>4, <1>5 DEF Trajectory!Ambiguous, Trajectory!InOrder
<1>6. ASSUME NEW e \in 0 .. latest, NEW s, NEW outcome \in {"committed", "failed", "no_effect", "pending", "unknown"}, NEW grants \in BOOLEAN,
             Trajectory!Reconcile(e, s, outcome, grants)
      PROVE TrajectoryInv'
  <2>1. /\ passed /\ passed' = passed /\ Trajectory!Bound(e, s) /\ Trajectory!Truthful(e, outcome) /\ UNCHANGED closed
    BY <1>6 DEF Trajectory!Reconcile, Trajectory!InOrder
  <2>2. CASE outcome \notin Trajectory!Final
    BY <1>4, <1>6, <2>1, <2>2 DEF Trajectory!Reconcile
  <2>3. CASE outcome \in Trajectory!Final
    <3> DEFINE x == [executions[latest] EXCEPT !.doubted = TRUE, !.cleared = retryAuthorized']
    <3>1. /\ e = latest /\ latest > 0 /\ unresolved' = FALSE /\ resolved' = outcome
          /\ retryAuthorized' \in BOOLEAN /\ executions' = [executions EXCEPT ![latest] = x]
      BY <1>0, <1>6, <2>1, <2>3 DEF Trajectory!Reconcile, Trajectory!Bound
    <3>2. outcome \in Outcomes /\ Agree(executions[latest].effect, outcome)
      BY <2>1, <2>3, <3>1 DEF Trajectory!Final, Outcomes, Trajectory!Truthful, Agree
    <3>3. executions[latest] \in Executions
      BY <1>0, <3>1
    <3>4. x \in Executions /\ x.effect = executions[latest].effect /\ x.doubted = TRUE
      BY <3>1, <3>3 DEF Executions
    <3> HIDE DEF x
    <3> QED BY <2>1, <3>1, <3>2, <3>4, LatestAnswered
  <2> QED BY <2>2, <2>3
<1>7. ASSUME NEW s, NEW outcome \in Outcomes, NEW cites, Trajectory!Terminal(s, outcome, cites) PROVE TrajectoryInv'
  <2>1. /\ passed /\ passed' = passed /\ resolved = outcome /\ closed' = {[execution |-> latest, outcome |-> outcome]}
        /\ UNCHANGED <<executions, unresolved, resolved>>
    BY <1>0, <1>7 DEF Trajectory!Terminal, Trajectory!InOrder, Trajectory!Proven
  <2>2. latest > 0 /\ Agree(executions[latest].effect, outcome)
    BY <2>1 DEF LatestIsKnown, Outcomes
  <2>3. LatestIsKnown' /\ DoubtedHaveNoEffect'
    BY <2>1 DEF LatestIsKnown, DoubtedHaveNoEffect, latest
  <2>4. TrajectoryTypeOK' /\ ClosedAsSettled'
    BY <1>0, <2>1, <2>2 DEF TrajectoryTypeOK, ClosedAsSettled, latest
  <2> QED BY <2>3, <2>4
<1>8. ASSUME NEW s, NEW e, Trajectory!Authorize(s) \/ Trajectory!Crash(e, s) \/ Trajectory!Stop(s) PROVE TrajectoryInv'
  BY <1>2, <1>8 DEF Trajectory!Authorize, Trajectory!Crash, Trajectory!Stop, Trajectory!InOrder
<1>9. ASSUME NEW s, NEW e, NEW from, NEW proof, Trajectory!Continue(e, from, s, proof) PROVE TrajectoryInv'
  BY <1>2, <1>9 DEF Trajectory!Continue, Trajectory!InOrder
<1>10. CASE Trajectory!Records
  BY <1>0, <1>3, <1>5, <1>6, <1>7, <1>8, <1>9, <1>10 DEF Trajectory!Records, Outcomes
<1>11. CASE Trajectory!Violation
  BY <1>2, <1>11 DEF Trajectory!Violation
<1>12. CASE UNCHANGED Trajectory!vars
  BY <1>2, <1>12 DEF Trajectory!vars
<1> QED
  BY <1>0, <1>1, <1>10, <1>11, <1>12 DEF Trajectory!Next

(* The invariant says more of outcomes than the property. *)
LEMMA TrajectoryImplies == TrajectoryInv => Trajectory!NothingDoubtedIsRepeated
BY DEF TrajectoryInv, DoubtedHaveNoEffect, ClosedAsSettled, Agree, latest,
       Trajectory!NothingDoubtedIsRepeated, Trajectory!Agrees, Trajectory!latest

(***************************************************************************)
(* evaluate_agent_trajectory passes no trace that repeats an execution in  *)
(* doubt or misstates an outcome, for any number of segments and           *)
(* executions and whenever effects settle.                                 *)
(***************************************************************************)
THEOREM TrajectoryKept == Trajectory!Spec => []Trajectory!NothingDoubtedIsRepeated
BY TrajectoryInit, TrajectoryStep, TrajectoryImplies, PTL DEF Trajectory!Spec

-----------------------------------------------------------------------------
(* The subject through its generations.                                    *)

(* No generation is ahead of the current one. *)
GenerationsKept ==
    /\ generation \in Nat /\ DOMAIN contents \subseteq 0 .. generation
    /\ watch.generation \in Nat
    /\ watch = [status |-> watch.status, generation |-> watch.generation]
    /\ target.generation \in Nat
    /\ \A p \in proposal : p.result \in Nat

(* At first there is generation 0. *)
LEMMA TemporalInit == Temporal!Init => GenerationsKept
BY DEF Temporal!Init, GenerationsKept

(* Each step keeps what was; a new generation has a number of its own. *)
LEMMA TemporalStep ==
  ASSUME Temporal!WindowAssumption, GenerationsKept, [Temporal!Next]_Temporal!vars
  PROVE  GenerationsKept' /\ (Temporal!HistoryStands \/ UNCHANGED Temporal!vars)
<1> USE DEF GenerationsKept, Temporal!HistoryStands, Temporal!subjects, Temporal!watching, Temporal!replicating, Temporal!Closed
<1>1. ASSUME NEW g, NEW content, Temporal!Make(g, content), g \in Nat, g > generation,
             UNCHANGED <<evidence, watch, target, drift>>, proposal' \subseteq proposal
      PROVE  GenerationsKept' /\ Temporal!HistoryStands
  <2>1. generation' = g /\ contents' = [h \in DOMAIN contents \cup {g} |-> IF h = g THEN content ELSE contents[h]]
    BY <1>1 DEF Temporal!Make
  <2>2. g \notin DOMAIN contents
    BY <1>1
  <2> QED BY <1>1, <2>1, <2>2
<1>2. CASE Temporal!Deploy
  BY <1>1, <1>2 DEF Temporal!Deploy
<1>3. CASE Temporal!Redeclare
  BY <1>3 DEF Temporal!Redeclare
<1>4. ASSUME NEW clock \in 0 .. MaxStep, Temporal!Watch(clock) PROVE GenerationsKept' /\ Temporal!HistoryStands
  <2>1. watch' = [watch EXCEPT !.status = Temporal!Evaluated(watch, clock)] /\ watch.generation = generation
        /\ UNCHANGED <<contents, generation, evidence, target, drift, proposal>>
    BY <1>4 DEF Temporal!Watch
  <2>2. watch'.status = Temporal!Evaluated(watch, clock) /\ watch'.generation = watch.generation
        /\ watch' = [status |-> watch'.status, generation |-> watch'.generation]
    BY <2>1
  <2> QED BY <2>1, <2>2 DEF Temporal!Evaluated, Temporal!Matches
<1>5. ASSUME NEW e, Temporal!Report(e) \/ Temporal!Withdraw(e) PROVE GenerationsKept' /\ Temporal!HistoryStands
  BY <1>5 DEF Temporal!Report, Temporal!Withdraw
<1>6. ASSUME NEW status \in Temporal!Closed, Temporal!Close(status) PROVE GenerationsKept' /\ Temporal!HistoryStands
  BY <1>6 DEF Temporal!Close
<1>7. ASSUME NEW r \in Temporal!Replications, Temporal!Replicate(r) PROVE GenerationsKept' /\ Temporal!HistoryStands
  BY <1>7 DEF Temporal!Replicate, Temporal!Fresh, Temporal!Replications, Temporal!Generations, Temporal!WindowAssumption
<1>8. ASSUME NEW p \in Temporal!Remediations, Temporal!Propose(p) PROVE GenerationsKept' /\ Temporal!HistoryStands
  BY <1>8 DEF Temporal!Propose, Temporal!Remediations, Temporal!Generations, Temporal!WindowAssumption
<1>9. ASSUME NEW p \in proposal, Temporal!Remediate(p) PROVE GenerationsKept' /\ Temporal!HistoryStands
  <2>1. proposal' = {} /\ UNCHANGED <<evidence, watch, target, drift>>
    BY <1>9 DEF Temporal!Remediate
  <2>2. CASE UNCHANGED <<contents, generation>>
    BY <2>1, <2>2
  <2>3. CASE ~ UNCHANGED <<contents, generation>>
    <3>1. Temporal!Admitted(p) /\ Temporal!Make(p.result, IF p.source = -1 THEN p.result ELSE contents[p.source])
      BY <1>9, <2>3 DEF Temporal!Remediate
    <3>2. p.result \in Nat /\ p.result > generation
      BY <3>1 DEF Temporal!Admitted, Temporal!Forward
    <3> QED BY <1>1, <2>1, <3>1, <3>2
  <2> QED BY <2>2, <2>3
<1>10. CASE UNCHANGED Temporal!vars
  BY <1>10 DEF Temporal!vars
<1> QED
  BY <1>2, <1>3, <1>4, <1>5, <1>6, <1>7, <1>8, <1>9, <1>10 DEF Temporal!Next

(***************************************************************************)
(* The watchpoint, the replication and the remediation never rewrite what  *)
(* was (causal_watchpoints.py, replication_drift.py,                       *)
(* forward_remediation.py), for any window, sources and conditions and     *)
(* however late evidence, clocks and proposals come.                       *)
(***************************************************************************)
THEOREM TemporalKept ==
  ASSUME Temporal!WindowAssumption PROVE Temporal!Spec => Temporal!HistoryIsKept
<1>1. GenerationsKept /\ [Temporal!Next]_Temporal!vars => GenerationsKept'
  BY TemporalStep
<1>2. GenerationsKept /\ [Temporal!Next]_Temporal!vars => [Temporal!HistoryStands]_Temporal!vars
  BY TemporalStep
<1> QED
  BY TemporalInit, <1>1, <1>2, PTL DEF Temporal!Spec, Temporal!HistoryIsKept

-----------------------------------------------------------------------------
(* The recovery safety probe and its evaluation.                           *)

(* Each of the three steps is tried once, the second once more in a run    *)
(* that lost its writes.                                                   *)
Tries(s, repeated) == IF s = 2 /\ repeated THEN 2 ELSE 1

(* What an observation of the probe says. *)
Faithful(o) ==
    /\ o.run \in [receiver : Probe!Receivers, subject : Subjects] /\ o.lost \in BOOLEAN
    /\ o.attempts \in [1 .. 3 -> Nat] /\ o.admissions \in [1 .. 3 -> Nat]
    /\ \A s \in 1 .. 3 : /\ o.attempts[s] = Tries(s, o.lost)
                         /\ o.admissions[s] = Tries(s, o.lost /\ o.run.receiver = "append")

(* Whether the live run has begun the second step, and begun it again. *)
Again == lost /\ mode = "resume" /\ sent >= 2
Begun(s) == s <= sent \/ (s = 2 /\ mode = "resume")

(* The files of the live run. *)
FilesKept ==
    \A s \in 1 .. 3 : /\ attempts[s] = IF Begun(s) THEN Tries(s, Again) ELSE 0
                      /\ admissions[s] = IF Begun(s) THEN Tries(s, Again /\ run.receiver = "append") ELSE 0

(* Where the loop can be: at most one step ahead of its checkpoint, and    *)
(* past the second checkpoint only after the crash.                        *)
LoopKept ==
    /\ sent \in 0 .. 3 /\ stored \in 0 .. 3
    /\ stage = "worker" => sent = stored /\ sent < 3 /\ ~ writes
    /\ stage = "put" => sent = stored + 1
    /\ mode = "start" => stage \in {"worker", "put"} /\ sent <= 2 /\ stored <= 1 /\ ~ lost
    /\ mode = "crashed" => stage = "put" /\ sent = 2 /\ (lost <=> ~ writes)
    /\ mode = "resume" => /\ sent >= 1 /\ stored >= 1
                          /\ stage = "ended" => sent = 3
                          /\ sent = 1 => lost /\ stage = "worker"
                          /\ sent = 2 /\ stage = "put" => lost \/ writes

ProbeInv ==
    /\ run \in [receiver : Probe!Receivers, subject : Subjects]
    /\ mode \in {"idle", "start", "crashed", "resume"} /\ stage \in {"worker", "put", "ended"}
    /\ writes \in BOOLEAN /\ lost \in BOOLEAN
    /\ attempts \in [1 .. 3 -> Nat] /\ admissions \in [1 .. 3 -> Nat]
    /\ LoopKept
    /\ mode # "idle" => FilesKept /\ report = Probe!NoReport /\ Len(observations) < MaxRuns
    /\ Len(observations) \in 0 .. MaxRuns
    /\ DOMAIN observations = 1 .. Len(observations)
    /\ \A i \in DOMAIN observations : Faithful(observations[i])
    /\ report # Probe!NoReport => report = [RS1 |-> Probe!EqualRecovery, RS2 |-> Probe!EqualRecovery,
                                            RS3 |-> Probe!AtMostOnce, control |-> Probe!ReceiverControl]

(* The probe has three steps. *)
LEMMA ThreeSteps == Probe!Steps = 1 .. 3 /\ Probe!Cardinality(Probe!Steps) = 3
<1>1. Probe!Cardinality(1 .. 3) = Cardinality(1 .. 3)
  BY DEF Probe!Cardinality, Cardinality, Probe!IsFiniteSet, IsFiniteSet
<1>2. Cardinality(1 .. 3) = 3
  <2>1. 1 \in Int /\ 3 \in Int
    OBVIOUS
  <2>2. IsFiniteSet(1 .. 3) /\ Cardinality(1 .. 3) = IF 1 > 3 THEN 0 ELSE 3 - 1 + 1
    BY <2>1, FS_Interval
  <2> QED BY <2>2
<1> QED
  BY <1>1, <1>2 DEF Probe!Steps

(* Nothing has run. *)
LEMMA ProbeInit == ASSUME Probe!RunsAssumption PROVE Probe!Init => ProbeInv
<1> SUFFICES ASSUME Probe!Init PROVE ProbeInv
  OBVIOUS
<1>1. (CHOOSE s \in Subjects : TRUE) \in Subjects
  BY DEF Probe!RunsAssumption
<1>2. run \in [receiver : Probe!Receivers, subject : Subjects]
  BY <1>1 DEF Probe!Init, Probe!Receivers
<1>3. attempts \in [1 .. 3 -> Nat] /\ admissions \in [1 .. 3 -> Nat]
  BY ThreeSteps DEF Probe!Init, Probe!Zero
<1>4. observations = <<>> /\ Len(observations) = 0 /\ DOMAIN observations = {} /\ 1 .. 0 = {}
  BY DEF Probe!Init
<1>5. /\ mode = "idle" /\ stage = "ended" /\ sent = 0 /\ stored = 0 /\ writes = FALSE /\ lost = FALSE
      /\ report = Probe!NoReport /\ MaxRuns \in Nat
  BY DEF Probe!Init, Probe!RunsAssumption
<1>6. LoopKept
  BY <1>5 DEF LoopKept
<1>7. Len(observations) \in 0 .. MaxRuns /\ DOMAIN observations = 1 .. Len(observations)
  BY <1>4, <1>5
<1> QED
  BY <1>2, <1>3, <1>4, <1>5, <1>6, <1>7 DEF ProbeInv

(* Each step keeps the loop, its files and what was observed. *)
LEMMA ProbeStep ==
  ASSUME Probe!RunsAssumption, ProbeInv, [Probe!Next]_Probe!vars PROVE ProbeInv'
<1>1. ASSUME NEW receiver \in Probe!Receivers, NEW subject_ \in Subjects, Probe!StartRun(receiver, subject_) PROVE ProbeInv'
  <2>1. UNCHANGED <<observations, report>> /\ run' \in [receiver : Probe!Receivers, subject : Subjects] /\ mode' = "start"
        /\ stage' = "worker" /\ sent' = 0 /\ stored' = 0 /\ writes' = FALSE /\ lost' = FALSE
        /\ attempts' = [s \in 1 .. 3 |-> 0] /\ admissions' = [s \in 1 .. 3 |-> 0] /\ report = Probe!NoReport
        /\ Len(observations) < MaxRuns
    BY <1>1, ThreeSteps DEF Probe!StartRun, Probe!Zero
  <2>2. LoopKept' /\ FilesKept'
    BY <2>1 DEF LoopKept, FilesKept, Begun, Again, Tries
  <2>3. attempts' \in [1 .. 3 -> Nat] /\ admissions' \in [1 .. 3 -> Nat]
    BY <2>1
  <2> QED BY <2>1, <2>2, <2>3 DEF ProbeInv
<1>2. CASE Probe!Worker
  <2>1. UNCHANGED <<run, mode, stored, writes, lost, observations, report>> /\ sent' = sent + 1 /\ stage' = "put"
        /\ mode \in {"start", "resume"} /\ stage = "worker"
        /\ attempts' = [attempts EXCEPT ![sent + 1] = @ + 1]
        /\ admissions' = [admissions EXCEPT ![sent + 1] = IF Probe!Admitted(sent + 1) THEN @ + 1 ELSE @]
    BY <1>2 DEF Probe!Worker, Probe!Running
  <2>2. LoopKept'
    BY <2>1 DEF LoopKept, ProbeInv
  <2>3. sent \in 0 .. 2 /\ FilesKept
    BY <2>1 DEF ProbeInv, LoopKept
  <2>4. attempts' \in [1 .. 3 -> Nat] /\ admissions' \in [1 .. 3 -> Nat]
    BY <2>1, <2>3 DEF ProbeInv
  <2>5. ASSUME NEW s \in 1 .. 3
        PROVE  /\ attempts'[s] = IF Begun(s)' THEN Tries(s, Again') ELSE 0
               /\ admissions'[s] = IF Begun(s)' THEN Tries(s, Again' /\ run'.receiver = "append") ELSE 0
    <3>1. /\ attempts[s] = IF Begun(s) THEN Tries(s, Again) ELSE 0
          /\ admissions[s] = IF Begun(s) THEN Tries(s, Again /\ run.receiver = "append") ELSE 0
      BY <2>3 DEF FilesKept
    <3>2. /\ attempts'[s] = IF s = sent + 1 THEN attempts[s] + 1 ELSE attempts[s]
          /\ admissions'[s] = IF s = sent + 1 /\ Probe!Admitted(s) THEN admissions[s] + 1 ELSE admissions[s]
      BY <2>1 DEF ProbeInv
    <3> QED BY <2>1, <2>3, <3>1, <3>2 DEF ProbeInv, LoopKept, Begun, Again, Tries, Probe!Admitted
  <2> QED BY <2>1, <2>2, <2>4, <2>5 DEF ProbeInv, FilesKept
<1>3. CASE Probe!PutWrites
  BY <1>3 DEF Probe!PutWrites, Probe!Running, Probe!files, ProbeInv, LoopKept, FilesKept, Begun, Again
<1>4. CASE Probe!Put
  <2>1. UNCHANGED <<run, mode, sent, attempts, admissions, lost, observations, report>> /\ stored' = sent /\ writes' = FALSE
        /\ stage' = (IF sent < 3 THEN "worker" ELSE "ended") /\ mode \in {"start", "resume"} /\ stage = "put"
        /\ ~ (mode = "start" /\ sent = 2)
    BY <1>4, ThreeSteps DEF Probe!Put, Probe!Running, Probe!Dies, Probe!CrashAt, Probe!files
  <2>2. LoopKept'
    BY <2>1 DEF ProbeInv, LoopKept
  <2>3. FilesKept'
    BY <2>1 DEF ProbeInv, FilesKept, Begun, Again
  <2> QED BY <2>1, <2>2, <2>3 DEF ProbeInv
<1>5. CASE Probe!Die
  <2>1. UNCHANGED <<run, stage, sent, stored, writes, attempts, admissions, observations, report>>
        /\ mode = "start" /\ mode' = "crashed" /\ sent = 2 /\ stage = "put" /\ lost' = ~ writes
    BY <1>5 DEF Probe!Die, Probe!Running, Probe!Dies, Probe!CrashAt, Probe!loop
  <2>2. LoopKept'
    BY <2>1 DEF ProbeInv, LoopKept
  <2>3. ~ Again /\ ~ Again' /\ \A s \in 1 .. 3 : Begun(s)' <=> Begun(s)
    BY <2>1 DEF Begun, Again
  <2>4. FilesKept'
    <3>1. \A s \in 1 .. 3 : (Begun(s)' <=> Begun(s)) /\ attempts'[s] = attempts[s] /\ admissions'[s] = admissions[s]
      BY <2>1, <2>3
    <3>2. FilesKept /\ run' = run
      BY <2>1 DEF ProbeInv
    <3> QED BY <2>1, <2>3, <3>1, <3>2 DEF FilesKept, Tries
  <2> QED BY <2>1, <2>2, <2>4 DEF ProbeInv
<1>6. CASE Probe!Resume
  <2>1. UNCHANGED <<run, stored, writes, attempts, admissions, lost, observations, report>>
        /\ mode = "crashed" /\ mode' = "resume"
        /\ IF writes THEN sent' = stored + 1 /\ stage' = "put" ELSE sent' = stored /\ stage' = "worker"
    BY <1>6 DEF Probe!Resume, Probe!files
  <2>2. sent = 2 /\ stored = 1 /\ (lost <=> ~ writes)
    BY <2>1 DEF ProbeInv, LoopKept
  <2>3. LoopKept'
    BY <2>1, <2>2 DEF ProbeInv, LoopKept
  <2>4. ~ Again /\ ~ Again' /\ \A s \in 1 .. 3 : Begun(s)' <=> Begun(s)
    BY <2>1, <2>2 DEF ProbeInv, Begun, Again
  <2>5. FilesKept'
    <3>1. \A s \in 1 .. 3 : (Begun(s)' <=> Begun(s)) /\ attempts'[s] = attempts[s] /\ admissions'[s] = admissions[s]
      BY <2>1, <2>4
    <3>2. FilesKept /\ run' = run
      BY <2>1 DEF ProbeInv
    <3> QED BY <2>1, <2>4, <3>1, <3>2 DEF FilesKept, Tries
  <2> QED BY <2>1, <2>3, <2>5 DEF ProbeInv
<1>7. CASE Probe!Observe
  <2> DEFINE o == [run |-> run, attempts |-> attempts, admissions |-> admissions, lost |-> lost]
  <2>1. UNCHANGED <<run, stage, sent, stored, writes, attempts, admissions, lost, report>> /\ mode' = "idle"
        /\ mode = "resume" /\ stage = "ended" /\ observations' = Append(observations, o)
    BY <1>7 DEF Probe!Observe, Probe!loop, Probe!files
  <2>2. Faithful(o)
    BY <2>1 DEF Faithful, ProbeInv, LoopKept, FilesKept, Begun, Again, Tries
  <2>3. DOMAIN observations' = 1 .. Len(observations') /\ Len(observations') = Len(observations) + 1
        /\ \A i \in DOMAIN observations' : observations'[i] = IF i = Len(observations) + 1 THEN o ELSE observations[i]
    BY <2>1 DEF ProbeInv
  <2> HIDE DEF o
  <2>4. \A i \in DOMAIN observations' : Faithful(observations'[i])
    BY <2>2, <2>3 DEF ProbeInv
  <2> QED BY <2>1, <2>3, <2>4 DEF ProbeInv, LoopKept, Probe!RunsAssumption
<1>8. ASSUME UNCHANGED observations
       PROVE  /\ Probe!EqualRecovery' = Probe!EqualRecovery
              /\ Probe!AtMostOnce' = Probe!AtMostOnce /\ Probe!ReceiverControl' = Probe!ReceiverControl
  BY <1>8 DEF Probe!EqualRecovery, Probe!AtMostOnce, Probe!ReceiverControl, Probe!Of, Probe!Comparable, Probe!Repeats, Probe!RecoveredState
<1>9. CASE Probe!Evaluate
  <2>1. UNCHANGED <<run, mode, stage, sent, stored, writes, attempts, admissions, lost, observations>> /\ mode = "idle"
        /\ report' = [RS1 |-> Probe!EqualRecovery, RS2 |-> Probe!EqualRecovery,
                      RS3 |-> Probe!AtMostOnce, control |-> Probe!ReceiverControl]
    BY <1>9 DEF Probe!Evaluate, Probe!loop, Probe!files
  <2>2. report' = [RS1 |-> Probe!EqualRecovery', RS2 |-> Probe!EqualRecovery',
                   RS3 |-> Probe!AtMostOnce', control |-> Probe!ReceiverControl']
    BY <2>1, <1>8
  <2>3. LoopKept'
    BY <2>1 DEF ProbeInv, LoopKept
  <2> QED BY <2>1, <2>2, <2>3 DEF ProbeInv
<1>10. CASE UNCHANGED Probe!vars
  <2>1. UNCHANGED <<run, mode, stage, sent, stored, writes, attempts, admissions, lost, observations, report>>
    BY <1>10 DEF Probe!vars, Probe!loop, Probe!files
  <2>2. LoopKept' /\ (mode # "idle" => FilesKept')
    BY <2>1 DEF ProbeInv, LoopKept, FilesKept, Begun, Again
  <2>3. report # Probe!NoReport => report' = [RS1 |-> Probe!EqualRecovery', RS2 |-> Probe!EqualRecovery',
                   RS3 |-> Probe!AtMostOnce', control |-> Probe!ReceiverControl']
    BY <2>1, <1>8 DEF ProbeInv
  <2> QED BY <2>1, <2>2, <2>3 DEF ProbeInv
<1> QED
  BY <1>1, <1>2, <1>3, <1>4, <1>5, <1>6, <1>7, <1>9, <1>10 DEF Probe!Next

(* The counts in the files show exactly whether the writes were lost. *)
LEMMA ProbeImplies == ASSUME ProbeInv PROVE Probe!RecoveryIsReported
<1> DEFINE Lost(i) == observations[i].lost
           Alike(i, j) == observations[i].run.subject = observations[j].run.subject
           A == Probe!Of("append")
           D == Probe!Of("dedup")
<1>1. ASSUME NEW i \in DOMAIN observations
      PROVE  /\ Lost(i) \in BOOLEAN
             /\ Probe!Repeats(observations[i].attempts) <=> Lost(i)
             /\ i \in A => (Probe!Repeats(observations[i].admissions) <=> Lost(i))
             /\ i \in D => ~ Probe!Repeats(observations[i].admissions)
             /\ \A s \in Probe!Steps : /\ observations[i].admissions[s] >= 1
                                       /\ observations[i].run.receiver = "dedup" => observations[i].admissions[s] = 1
  <2> DEFINE o == observations[i]
  <2>1. Faithful(o)
    BY DEF ProbeInv
  <2>2. o.lost \in BOOLEAN /\ \A s \in 1 .. 3 : /\ o.attempts[s] = Tries(s, o.lost)
                          /\ o.admissions[s] = Tries(s, o.lost /\ o.run.receiver = "append")
    BY <2>1 DEF Faithful
  <2>3. /\ i \in A => o.run.receiver = "append"
        /\ i \in D => o.run.receiver = "dedup"
    BY DEF Probe!Of
  <2> HIDE DEF o
  <2>4. Probe!Repeats(o.attempts) <=> o.lost
    BY <2>1, <2>2, ThreeSteps DEF Tries, Probe!Repeats
  <2>5. Probe!Repeats(o.admissions) <=> o.lost /\ o.run.receiver = "append"
    BY <2>1, <2>2, ThreeSteps DEF Tries, Probe!Repeats
  <2>6. \A s \in Probe!Steps : o.admissions[s] >= 1 /\ (o.run.receiver = "dedup" => o.admissions[s] = 1)
    BY <2>1, <2>2, ThreeSteps DEF Tries
  <2> QED BY <2>2, <2>3, <2>4, <2>5, <2>6 DEF o
<1>2. ASSUME NEW i \in A, NEW j \in A
      PROVE  Probe!RecoveredState(observations[i]) = Probe!RecoveredState(observations[j]) <=> (Lost(i) <=> Lost(j))
  <2>1. Faithful(observations[i]) /\ Faithful(observations[j]) /\ observations[i].run.receiver = "append" /\ observations[j].run.receiver = "append"
    BY DEF ProbeInv, Probe!Of
  <2>2. CASE Lost(i) <=> Lost(j)
    BY <2>1, <2>2 DEF Faithful, Probe!RecoveredState
  <2>3. CASE ~ (Lost(i) <=> Lost(j))
    <3>1. observations[i].attempts[2] # observations[j].attempts[2]
      BY <2>1, <2>3 DEF Faithful, Tries
    <3> QED BY <3>1, <2>3 DEF Probe!RecoveredState
  <2> QED BY <2>2, <2>3
<1>3. Probe!RecoveredRunIsComplete
  BY <1>1 DEF Probe!RecoveredRunIsComplete
<1>4. Probe!TypeOK
  <2>1. DOMAIN report = DOMAIN Probe!NoReport
    BY DEF ProbeInv, Probe!NoReport
  <2> QED BY <2>1, ThreeSteps DEF ProbeInv, LoopKept, Probe!TypeOK
<1>5. ASSUME report # Probe!NoReport
      PROVE  /\ report.RS3 = "FAIL" <=> \E i \in A : Lost(i)
             /\ report.RS1 = "FAIL" <=> \E i, j \in A : Alike(i, j) /\ Lost(i) /\ ~ Lost(j)
             /\ report.control = "PASS" <=> D # {} /\ \A i \in D : Lost(i)
             /\ Probe!conformant => \E i, j \in A : i # j /\ Alike(i, j)
  <2>1. report.RS3 = Probe!AtMostOnce /\ report.RS1 = Probe!EqualRecovery /\ report.control = Probe!ReceiverControl
    BY <1>5 DEF ProbeInv
  <2>2. A \subseteq DOMAIN observations /\ D \subseteq DOMAIN observations
    BY DEF Probe!Of
  <2>3. report.RS3 = "FAIL" <=> \E i \in A : Lost(i)
    BY <1>1, <2>1, <2>2 DEF Probe!AtMostOnce
  <2>4. report.control = "PASS" <=> D # {} /\ \A i \in D : Lost(i)
    BY <1>1, <2>1, <2>2 DEF Probe!ReceiverControl
  <2> DEFINE pairs == {p \in (DOMAIN observations) \X (DOMAIN observations) : Probe!Comparable(p[1], p[2])}
  <2>5. \A i, j : Probe!Comparable(i, j) <=> i \in A /\ j \in A /\ i # j /\ Alike(i, j)
    BY DEF Probe!Comparable
  <2>6. pairs # {} <=> \E i, j \in A : i # j /\ Alike(i, j)
    <3>1. ASSUME NEW p \in pairs PROVE p[1] \in A /\ p[2] \in A /\ p[1] # p[2] /\ Alike(p[1], p[2])
      BY <2>5
    <3>2. ASSUME NEW i \in A, NEW j \in A, i # j, Alike(i, j) PROVE <<i, j>> \in pairs
      BY <3>2, <2>5, <2>2
    <3> HIDE DEF pairs
    <3> QED BY <3>1, <3>2
  <2>7. (\E p \in pairs : Probe!RecoveredState(observations[p[1]]) # Probe!RecoveredState(observations[p[2]]))
          <=> \E i, j \in A : Alike(i, j) /\ Lost(i) /\ ~ Lost(j)
    <3>1. ASSUME NEW p \in pairs, Probe!RecoveredState(observations[p[1]]) # Probe!RecoveredState(observations[p[2]])
          PROVE  \E i, j \in A : Alike(i, j) /\ Lost(i) /\ ~ Lost(j)
      <4>1. p[1] \in A /\ p[2] \in A /\ Alike(p[1], p[2])
        BY <3>1, <2>5
      <4>2. ~ (Lost(p[1]) <=> Lost(p[2]))
        BY <3>1, <4>1, <1>2
      <4>3. Lost(p[1]) \in BOOLEAN /\ Lost(p[2]) \in BOOLEAN
        BY <4>1, <1>1, <2>2
      <4> QED BY <4>1, <4>2, <4>3
    <3>2. ASSUME NEW i \in A, NEW j \in A, Alike(i, j), Lost(i), ~ Lost(j)
          PROVE  \E p \in pairs : Probe!RecoveredState(observations[p[1]]) # Probe!RecoveredState(observations[p[2]])
      <4>1. <<i, j>> \in pairs
        BY <3>2, <2>5, <2>2
      <4>2. Probe!RecoveredState(observations[i]) # Probe!RecoveredState(observations[j])
        BY <3>2, <1>2
      <4> QED BY <4>1, <4>2
    <3> QED BY <3>1, <3>2
  <2>8. Probe!EqualRecovery = IF pairs = {} THEN "NOT_ESTABLISHED"
                              ELSE IF \E p \in pairs : Probe!RecoveredState(observations[p[1]]) # Probe!RecoveredState(observations[p[2]])
                              THEN "FAIL" ELSE "PASS"
    BY DEF Probe!EqualRecovery
  <2> HIDE DEF pairs
  <2>9. report.RS1 = "FAIL" <=> \E i, j \in A : Alike(i, j) /\ Lost(i) /\ ~ Lost(j)
    <3>1. (\E i, j \in A : Alike(i, j) /\ Lost(i) /\ ~ Lost(j)) => pairs # {}
      BY <2>7
    <3> QED BY <2>1, <2>7, <2>8, <3>1
  <2>10. Probe!conformant => \E i, j \in A : i # j /\ Alike(i, j)
    BY <2>1, <2>6, <2>8 DEF Probe!conformant
  <2> QED BY <2>3, <2>4, <2>9, <2>10
<1> QED
  BY <1>3, <1>4, <1>5 DEF Probe!RecoveryIsReported, Probe!ReportMatchesRuns

(***************************************************************************)
(* However the runtime orders a step's writes and its checkpoint, a        *)
(* recovered run has every step admitted, once by a receiver that keeps    *)
(* identities, and the evaluator's report says in which runs the writes    *)
(* were lost (recovery_safety_probe.py, recovery_safety.py), for any       *)
(* subjects and any number of runs.                                        *)
(***************************************************************************)
THEOREM ProbeKept ==
  ASSUME Probe!RunsAssumption PROVE Probe!Spec => []Probe!RecoveryIsReported
<1>1. ProbeInv /\ [Probe!Next]_Probe!vars => ProbeInv'
  BY ProbeStep
<1> QED
  BY ProbeInit, <1>1, ProbeImplies, PTL DEF Probe!Spec

-----------------------------------------------------------------------------
(* The action guard.                                                       *)

(* What is recorded of an action was recorded in order. *)
Recorded(a) ==
    /\ a.p \in Proposals /\ a.proposed \in Nat /\ a.recorded \in Nat /\ a.completed \in Nat
    /\ a.proposed <= a.recorded /\ a.decision \in {"ALLOW", "DENY"}

Open(a, time) ==
    /\ a \in [p : Proposals, proposed : Nat, decision : {"none", "ALLOW", "DENY"}, by : Deciders \cup {Monitor}, recorded : Nat]
    /\ a.proposed <= time
    /\ a.decision # "none" => a.proposed <= a.recorded

(* What the property says of one result. *)
Earlier(result, i) ==
    {result.actions[j].p.semantic : j \in {k \in 1 .. (i - 1) : Guard!Refused(result.actions[k], result.envelope)}}

Fair(result) ==
    /\ result.status # "fail" => \A i \in DOMAIN result.actions :
          result.actions[i].outcome = "EXECUTED" =>
              /\ Guard!InEnvelope(result.actions[i], result.envelope)
              /\ result.actions[i].decision = "ALLOW" /\ result.actions[i].by = Monitor
              /\ i <= result.envelope.maxActions
              /\ result.actions[i].p.semantic \notin Earlier(result, i) \cup result.carried.denied
    /\ result.status = "pass" =>
          /\ result.actions # <<>>
          /\ result.carried.denied # {} => result.carried.bound
          /\ \A i \in DOMAIN result.actions :
                /\ result.actions[i].outcome = "EXECUTED" => Guard!Witnessed(result.actions[i])
                /\ ~ Guard!Refused(result.actions[i], result.envelope)
                /\ result.actions[i].p.semantic \notin Earlier(result, i)
    /\ \A i \in DOMAIN result.actions :
          Guard!Refused(result.actions[i], result.envelope) => result.actions[i].p.semantic \in result.denied
    /\ result.carried.denied \subseteq result.denied

GuardInv ==
    /\ now \in Nat /\ envelope \in Envelopes
    /\ Len(actions) \in Nat /\ DOMAIN actions = 1 .. Len(actions)
    /\ \A i \in DOMAIN actions : Recorded(actions[i])
    /\ pending # <<>> => pending = <<pending[1]>> /\ Open(pending[1], now)
    /\ Len(past) \in Nat /\ DOMAIN past = 1 .. Len(past)
    /\ \A s \in DOMAIN past : Fair(past[s])

(* Those after n actions are those before and the n-th's. *)
Refusing(n, before) == Guard!DeniedAfter(before, actions[n], Guard!Expected(actions[n], n, before))

(* The refusals known after n actions: Known satisfies its recursion. *)
LEMMA KnownStep ==
  ASSUME Len(actions) \in Nat
  PROVE  /\ Guard!Known[0] = carried.denied
         /\ \A n \in 1 .. Len(actions) : Guard!Known[n] = Refusing(n, Guard!Known[n - 1])
<1> DEFINE N == Len(actions)
           Is(f, k) == f = [n \in 0 .. k |-> IF n = 0 THEN carried.denied ELSE Refusing(n, f[n - 1])]
           Bad == {k \in Nat : ~ \E f : Is(f, k)}
<1>1. Bad = {}
  <2> SUFFICES ASSUME Bad # {} PROVE FALSE
    OBVIOUS
  <2>1. PICK k \in Bad : \A m \in Bad : k <= m
    BY Least
  <2>2. k \in Nat /\ ~ \E f : Is(f, k)
    OBVIOUS
  <2>3. CASE k = 0
    <3>1. Is([n \in 0 .. 0 |-> carried.denied], 0)
      OBVIOUS
    <3> QED BY <2>3, <3>1, <2>2
  <2>4. CASE k # 0
    <3>1. k - 1 \in Nat /\ ~ (k <= k - 1)
      BY <2>2, <2>4
    <3>2. k - 1 \notin Bad
      BY <3>1, <2>1
    <3>3. \E g : Is(g, k - 1)
      BY <3>1, <3>2
    <3>4. PICK g : Is(g, k - 1)
      BY <3>3
    <3> DEFINE h == [n \in 0 .. k |-> IF n = k THEN Refusing(k, g[k - 1]) ELSE g[n]]
    <3>5. ASSUME NEW n \in 0 .. k PROVE h[n] = IF n = 0 THEN carried.denied ELSE Refusing(n, h[n - 1])
      BY <2>2, <2>4, <3>1, <3>4
    <3>6. Is(h, k)
      BY <3>5
    <3> HIDE DEF h, Is
    <3> QED BY <3>6, <2>2
  <2> QED BY <2>3, <2>4
<1>2. PICK g : Is(g, N)
  <2>1. N \notin Bad /\ N \in Nat
    BY <1>1
  <2> QED BY <2>1
<1>3. Is(Guard!Known, N)
  BY <1>2 DEF Guard!Known, Refusing
<1> QED BY <1>3

(* A refusal is known from then on. *)
LEMMA KnownGrows ==
  ASSUME Len(actions) \in Nat, NEW i \in 0 .. Len(actions), NEW j \in 0 .. Len(actions), i <= j
  PROVE  Guard!Known[i] \subseteq Guard!Known[j]
<1> DEFINE Bad == {k \in Nat : k <= Len(actions) /\ i <= k /\ ~ (Guard!Known[i] \subseteq Guard!Known[k])}
<1>1. Bad = {}
  <2> SUFFICES ASSUME Bad # {} PROVE FALSE
    OBVIOUS
  <2>1. PICK k \in Bad : \A m \in Bad : k <= m
    BY Least
  <2>2. k \in Nat /\ k <= Len(actions) /\ i <= k /\ ~ (Guard!Known[i] \subseteq Guard!Known[k])
    OBVIOUS
  <2>3. i < k /\ k - 1 \in Nat /\ ~ (k <= k - 1) /\ i <= k - 1 /\ k - 1 <= Len(actions) /\ k \in 1 .. Len(actions)
    BY <2>2
  <2>4. Guard!Known[i] \subseteq Guard!Known[k - 1]
    BY <2>1, <2>3
  <2>5. Guard!Known[k] = Refusing(k, Guard!Known[k - 1])
    BY <2>3, KnownStep
  <2>6. Guard!Known[k - 1] \subseteq Guard!Known[k]
    BY <2>5 DEF Refusing, Guard!DeniedAfter
  <2> QED BY <2>2, <2>4, <2>6
<1>2. j \in Nat /\ j <= Len(actions)
  OBVIOUS
<1> QED BY <1>1, <1>2

(* Ranks are numbers. *)
LEMMA RankTyped ==
  ASSUME NEW c, \E i \in DOMAIN Guard!Ladder : Guard!Ladder[i] = c PROVE Guard!Rank(c) \in 1 .. 5
<1>1. DOMAIN Guard!Ladder = 1 .. 5
  BY DEF Guard!Ladder
<1>2. Guard!Rank(c) \in DOMAIN Guard!Ladder
  BY DEF Guard!Rank
<1> QED BY <1>1, <1>2

(* What is expected to be allowed lies in the envelope, and nothing like   *)
(* it was refused.                                                         *)
LEMMA AllowedFits ==
  ASSUME Guard!GuardAssumption, envelope \in Envelopes, NEW a, Recorded(a), NEW i \in Nat, NEW denied,
         Guard!Expected(a, i, denied) = "ALLOW"
  PROVE  Guard!InEnvelope(a, envelope) /\ i <= envelope.maxActions /\ a.p.semantic \notin denied
<1> DEFINE p == a.p
<1>1. Guard!PolicyReasons(a, i, denied) = {} /\ ~ Guard!GlobalIntegrity
  BY DEF Guard!Expected
<1>2. /\ ~ (envelope.subject # 1) /\ ~ (envelope.grantee # Guard!Agent.actor)
      /\ ~ (p.subject # 1) /\ ~ (p.auth # envelope.ref)
      /\ ~ (p.actor # envelope.grantee \/ p.actor # Guard!Agent.actor)
      /\ ~ (i > envelope.maxActions)
      /\ ~ (Guard!Rank(p.capability) > Guard!Rank(envelope.max))
      /\ ~ (p.capability = "LIVE_WRITE" /\ ~ envelope.approval)
      /\ ~ (p.what \notin envelope.what)
      /\ ~ (a.proposed < envelope.from \/ a.recorded < envelope.from)
      /\ ~ (a.proposed > envelope.until \/ a.recorded > envelope.until \/ a.completed > envelope.until)
      /\ ~ (p.path.access = "READ" /\ ~ Guard!Within(p.path, envelope.read))
      /\ ~ (p.path.access = "WRITE" /\ ~ Guard!Within(p.path, envelope.write))
      /\ ~ (p.what \in Canaries.what \/ (p.path.access # "NONE" /\ Guard!Within(p.path, Canaries.paths)))
      /\ ~ (p.semantic \in denied)
  <2> DEFINE H == Guard!Breaches(a, i, denied)
  <2> DEFINE N == {"AUTHORIZATION_SUBJECT_MISMATCH", "AUTHORIZATION_GRANTEE_MISMATCH", "ACTION_SUBJECT_MISMATCH",
        "ACTION_AUTH_REF_MISMATCH", "ACTION_ACTOR_MISMATCH", "ACTION_FAILURE_DOMAIN_MISMATCH", "MAX_ACTIONS_EXCEEDED",
        "CAPABILITY_EXCEEDS_AUTHORIZATION", "LIVE_WRITE_REQUIRES_EXPLICIT_APPROVAL", "NOT_ALLOWED",
        "AUTHORIZATION_NOT_YET_VALID", "STALE_AUTHORIZATION", "READ_PATH_NOT_ALLOWED", "WRITE_PATH_NOT_ALLOWED",
        "CANARY_TOUCHED", "RETRY_AFTER_DENIAL"}
  <2>1. Guard!PolicyReasons(a, i, denied) = {r \in DOMAIN H : H[r]}
    BY DEF Guard!PolicyReasons
  <2>2. N \subseteq DOMAIN H
    BY DEF Guard!Breaches
  <2> HIDE DEF H
  <2>3. \A r \in DOMAIN H : ~ H[r]
    BY <1>1, <2>1
  <2>4. ~ H["AUTHORIZATION_SUBJECT_MISMATCH"] /\ ~ H["AUTHORIZATION_GRANTEE_MISMATCH"] /\
        ~ H["ACTION_SUBJECT_MISMATCH"] /\ ~ H["ACTION_AUTH_REF_MISMATCH"] /\ ~ H["ACTION_ACTOR_MISMATCH"] /\
        ~ H["ACTION_FAILURE_DOMAIN_MISMATCH"] /\ ~ H["MAX_ACTIONS_EXCEEDED"] /\
        ~ H["CAPABILITY_EXCEEDS_AUTHORIZATION"] /\ ~ H["LIVE_WRITE_REQUIRES_EXPLICIT_APPROVAL"] /\
        ~ H["NOT_ALLOWED"] /\ ~ H["AUTHORIZATION_NOT_YET_VALID"] /\ ~ H["STALE_AUTHORIZATION"] /\
        ~ H["READ_PATH_NOT_ALLOWED"] /\ ~ H["WRITE_PATH_NOT_ALLOWED"] /\ ~ H["CANARY_TOUCHED"] /\
        ~ H["RETRY_AFTER_DENIAL"]
    BY <2>2, <2>3
  <2> QED BY <2>4 DEF H, Guard!Breaches
<1>3. {envelope.from, envelope.until, envelope.maxActions} \subseteq Nat
      /\ (\E k \in DOMAIN Guard!Ladder : Guard!Ladder[k] = envelope.max)
      /\ (\E k \in DOMAIN Guard!Ladder : Guard!Ladder[k] = p.capability)
      /\ (p.path.access = "NONE" => p.path.dir \notin Canaries.paths)
  BY DEF Guard!GuardAssumption, Recorded
<1>4. Guard!Rank(p.capability) \in 1 .. 5 /\ Guard!Rank(envelope.max) \in 1 .. 5
  BY <1>3, RankTyped
<1>5. a.proposed \in Nat /\ a.recorded \in Nat /\ a.completed \in Nat /\ a.proposed <= a.recorded
  BY DEF Recorded
<1>6. /\ envelope.from <= a.proposed /\ a.recorded <= envelope.until /\ a.completed <= envelope.until
      /\ i <= envelope.maxActions /\ Guard!Rank(p.capability) <= Guard!Rank(envelope.max)
  BY <1>2, <1>3, <1>4, <1>5
<1>7. /\ p.what \in envelope.what \ Canaries.what
      /\ p.path.dir \notin Canaries.paths
      /\ p.path.access = "READ" => p.path.dir \in envelope.read
      /\ p.path.access = "WRITE" => p.path.dir \in envelope.write
      /\ p.capability = "LIVE_WRITE" => envelope.approval
  BY <1>2, <1>3 DEF Guard!Within
<1> QED
  BY <1>2, <1>5, <1>6, <1>7 DEF Guard!InEnvelope

(* The result that the guard gives for the record is fair. *)
LEMMA EvaluationFair ==
  ASSUME Guard!GuardAssumption, GuardInv, NEW r,
         r = [status |-> Guard!Evaluation.status, actions |-> actions, envelope |-> envelope,
              denied |-> Guard!Evaluation.denied, carried |-> carried]
  PROVE  Fair(r)
<1> DEFINE X(i) == Guard!Expected(actions[i], i, Guard!Known[i - 1])
           S(i) == Guard!ActionStatus(actions[i], X(i))
<1>1. /\ Len(actions) \in Nat /\ DOMAIN actions = 1 .. Len(actions)
      /\ \A i \in DOMAIN actions : Recorded(actions[i])
      /\ envelope \in Envelopes
  BY DEF GuardInv
<1>2. r.actions = actions /\ r.envelope = envelope /\ r.carried = carried /\ r.denied = Guard!Known[Len(actions)]
  BY DEF Guard!Evaluation
<1>3. /\ r.status # "fail" => ~ Guard!GlobalIntegrity /\ \A i \in DOMAIN actions : S(i) # "fail"
      /\ r.status = "pass" => ~ Guard!GlobalHold /\ \A i \in DOMAIN actions : S(i) # "hold" /\ S(i) # "fail"
  BY DEF Guard!Evaluation
<1>4. ASSUME NEW i \in DOMAIN actions
      PROVE  /\ X(i) \in {"ALLOW", "DENY"}
             /\ X(i) = "ALLOW" => /\ Guard!InEnvelope(actions[i], envelope) /\ i <= envelope.maxActions
                                  /\ actions[i].p.semantic \notin Guard!Known[i - 1]
  <2>1. X(i) \in {"ALLOW", "DENY"}
    BY DEF Guard!Expected
  <2>2. i \in Nat /\ Recorded(actions[i])
    BY <1>1
  <2> QED BY <1>1, <2>1, <2>2, AllowedFits
<1>5. ASSUME NEW i \in DOMAIN actions, Guard!Refused(actions[i], envelope)
      PROVE  actions[i].p.semantic \in Guard!Known[i]
  <2>1. actions[i].decision = "DENY" \/ X(i) = "DENY"
    BY <1>4, <1>5 DEF Guard!Refused
  <2>2. Guard!Known[i] = Refusing(i, Guard!Known[i - 1])
    BY <1>1, KnownStep
  <2> QED BY <2>1, <2>2 DEF Refusing, Guard!DeniedAfter
<1>6. ASSUME NEW i \in DOMAIN actions, NEW x \in Earlier(r, i) PROVE x \in Guard!Known[i - 1]
  <2>1. PICK j \in 1 .. (i - 1) : x = actions[j].p.semantic /\ Guard!Refused(actions[j], envelope)
    BY <1>2 DEF Earlier
  <2>2. j \in DOMAIN actions /\ j \in 0 .. Len(actions) /\ i - 1 \in 0 .. Len(actions) /\ j <= i - 1
    BY <1>1
  <2>3. x \in Guard!Known[j]
    BY <1>5, <2>1, <2>2
  <2> QED BY <1>1, <2>2, <2>3, KnownGrows
<1>7. ASSUME NEW i \in DOMAIN actions PROVE carried.denied \subseteq Guard!Known[i - 1]
  <2>1. i - 1 \in 0 .. Len(actions) /\ 0 \in 0 .. Len(actions) /\ 0 <= i - 1
    BY <1>1
  <2> QED BY <1>1, <2>1, KnownGrows, KnownStep
<1>8. ASSUME NEW i \in DOMAIN actions, r.status # "fail", actions[i].outcome = "EXECUTED"
      PROVE  X(i) = "ALLOW" /\ actions[i].decision = "ALLOW" /\ actions[i].by = Monitor
  <2>1. ~ Guard!Integrity(actions[i], X(i))
    BY <1>3, <1>8 DEF Guard!ActionStatus
  <2>2. actions[i].decision \in {"ALLOW", "DENY"}
    BY <1>1 DEF Recorded
  <2> QED BY <1>4, <1>8, <2>1, <2>2 DEF Guard!Integrity
<1>9. ASSUME NEW i \in DOMAIN actions, r.status = "pass"
      PROVE  /\ actions[i].outcome = "EXECUTED" => Guard!Witnessed(actions[i])
             /\ X(i) = "ALLOW" /\ actions[i].decision # "DENY"
  <2>1. /\ ~ Guard!Integrity(actions[i], X(i)) /\ X(i) # "DENY"
        /\ ~ (actions[i].decision = "DENY" /\ actions[i].outcome # "EXECUTED")
        /\ Guard!WitnessState(actions[i]) \notin {"INCOMPLETE", "INVALID"}
    BY <1>3, <1>9 DEF Guard!ActionStatus
  <2>2. X(i) = "ALLOW" /\ actions[i].decision # "DENY"
    BY <1>4, <2>1 DEF Guard!Integrity
  <2>3. actions[i].outcome = "EXECUTED" => Guard!Witnessed(actions[i])
    BY <2>1 DEF Guard!WitnessState, Guard!Witnessed
  <2> QED BY <2>2, <2>3
<1>10. \A i \in DOMAIN actions : Guard!Refused(actions[i], envelope) => actions[i].p.semantic \in r.denied
  <2> SUFFICES ASSUME NEW i \in DOMAIN actions, Guard!Refused(actions[i], envelope) PROVE actions[i].p.semantic \in r.denied
    OBVIOUS
  <2>1. i \in 0 .. Len(actions) /\ Len(actions) \in 0 .. Len(actions) /\ i <= Len(actions)
    BY <1>1
  <2> QED BY <1>1, <1>2, <1>5, <2>1, KnownGrows
<1>11. carried.denied \subseteq r.denied
  <2>1. 0 \in 0 .. Len(actions) /\ Len(actions) \in 0 .. Len(actions) /\ 0 <= Len(actions)
    BY <1>1
  <2> QED BY <1>1, <1>2, <2>1, KnownGrows, KnownStep
<1>12. r.status = "pass" => actions # <<>> /\ (carried.denied # {} => carried.bound)
  BY <1>3 DEF Guard!GlobalHold
<1> HIDE DEF X, S
<1>13. r.status # "fail" => \A i \in DOMAIN actions :
          actions[i].outcome = "EXECUTED" =>
              /\ Guard!InEnvelope(actions[i], envelope)
              /\ actions[i].decision = "ALLOW" /\ actions[i].by = Monitor
              /\ i <= envelope.maxActions
              /\ actions[i].p.semantic \notin Earlier(r, i) \cup carried.denied
  BY <1>4, <1>6, <1>7, <1>8
<1>14. r.status = "pass" => \A i \in DOMAIN actions :
          /\ actions[i].outcome = "EXECUTED" => Guard!Witnessed(actions[i])
          /\ ~ Guard!Refused(actions[i], envelope)
          /\ actions[i].p.semantic \notin Earlier(r, i)
  BY <1>4, <1>6, <1>9 DEF Guard!Refused
<1> HIDE DEF Guard!Evaluation
<1> QED
  BY <1>2, <1>10, <1>11, <1>12, <1>13, <1>14 DEF Fair

(* Nothing is recorded. *)
LEMMA GuardInit == Guard!Init => GuardInv
BY DEF Guard!Init, GuardInv

(* Records are kept in order, results are fair. *)
LEMMA GuardStep ==
  ASSUME Guard!GuardAssumption, GuardInv, [Guard!Next]_Guard!vars PROVE GuardInv'
<1>1. CASE Guard!Tick
  BY <1>1 DEF Guard!Tick, GuardInv, Open
<1>2. ASSUME NEW p \in Proposals, Guard!Propose(p) PROVE GuardInv'
  <2> DEFINE a == [p |-> p, proposed |-> now, decision |-> "none", by |-> Monitor, recorded |-> 0]
  <2>1. pending' = <<a>> /\ UNCHANGED <<now, envelope, actions, carried, past>>
    BY <1>2 DEF Guard!Propose
  <2>2. Open(a, now')
    BY <2>1 DEF Open, GuardInv
  <2> HIDE DEF a
  <2> QED BY <2>1, <2>2 DEF GuardInv
<1>3. ASSUME NEW d \in {"ALLOW", "DENY"}, NEW by \in Deciders, Guard!Decide(d, by) PROVE GuardInv'
  <2> DEFINE a == [pending[1] EXCEPT !.decision = d, !.by = by, !.recorded = now]
  <2>1. pending' = <<a>> /\ pending # <<>> /\ UNCHANGED <<now, envelope, actions, carried, past>>
    BY <1>3 DEF Guard!Decide
  <2>2. Open(pending[1], now) /\ now \in Nat
    BY <2>1 DEF GuardInv
  <2>3. /\ a \in [p : Proposals, proposed : Nat, decision : {"none", "ALLOW", "DENY"}, by : Deciders \cup {Monitor}, recorded : Nat]
        /\ a.proposed = pending[1].proposed /\ a.recorded = now
    BY <2>2 DEF Open
  <2> HIDE DEF a
  <2>4. Open(a, now')
    BY <2>1, <2>2, <2>3 DEF Open
  <2> HIDE DEF a
  <2> QED BY <2>1, <2>4 DEF GuardInv
<1>4. ASSUME NEW outcome, NEW r \in BOOLEAN, NEW w \in Witnesses, Guard!Complete(outcome, r, w) PROVE GuardInv'
  <2> DEFINE a == [p |-> pending[1].p, proposed |-> pending[1].proposed, decision |-> pending[1].decision,
           by |-> pending[1].by, recorded |-> pending[1].recorded, outcome |-> outcome,
           completed |-> IF outcome = "NOT_EXECUTED" THEN 0 ELSE now, receipt |-> r, witness |-> w]
  <2>1. pending # <<>> /\ pending[1].decision # "none" /\ actions' = Append(actions, a) /\ pending' = <<>>
        /\ UNCHANGED <<now, envelope, carried, past>>
    BY <1>4 DEF Guard!Complete
  <2>2. Open(pending[1], now) /\ now \in Nat
    BY <2>1 DEF GuardInv
  <2>3. Recorded(a)
    BY <2>1, <2>2 DEF Open, Recorded
  <2> HIDE DEF a
  <2>4. /\ Len(actions') = Len(actions) + 1 /\ DOMAIN actions' = 1 .. Len(actions')
        /\ \A i \in DOMAIN actions' : actions'[i] = IF i = Len(actions) + 1 THEN a ELSE actions[i]
    BY <2>1 DEF GuardInv
  <2> QED BY <2>1, <2>3, <2>4 DEF GuardInv
<1>5. CASE Guard!Evaluate
  <2> DEFINE r == [status |-> Guard!Evaluation.status, actions |-> actions, envelope |-> envelope,
                   denied |-> Guard!Evaluation.denied, carried |-> carried]
  <2>1. past' = Append(past, r) /\ actions' = <<>> /\ UNCHANGED <<now, envelope, pending, carried>> /\ pending = <<>>
    BY <1>5 DEF Guard!Evaluate
  <2>2. Fair(r)
    BY EvaluationFair
  <2> HIDE DEF r
  <2>3. /\ Len(past') = Len(past) + 1 /\ DOMAIN past' = 1 .. Len(past')
        /\ \A s \in DOMAIN past' : past'[s] = IF s = Len(past) + 1 THEN r ELSE past[s]
    BY <2>1 DEF GuardInv
  <2>4. Len(actions') = 0 /\ DOMAIN actions' = {} /\ 1 .. 0 = {}
    BY <2>1
  <2> QED BY <2>1, <2>2, <2>3, <2>4 DEF GuardInv
<1>6. ASSUME NEW denied, NEW bound \in BOOLEAN, NEW e \in Envelopes, Guard!NewSession(denied, bound, e) PROVE GuardInv'
  BY <1>6 DEF Guard!NewSession, GuardInv, Open
<1>7. CASE UNCHANGED Guard!vars
  BY <1>7 DEF Guard!vars, GuardInv, Open
<1> QED
  BY <1>1, <1>2, <1>3, <1>4, <1>5, <1>6, <1>7 DEF Guard!Next

(* The property is fairness of each result. *)
LEMMA GuardImplies == GuardInv => Guard!NothingForbiddenPasses
BY DEF GuardInv, Fair, Earlier, Guard!NothingForbiddenPasses

(***************************************************************************)
(* No forbidden path of the guard's document passes (action_guard.py), for *)
(* any envelopes, proposals, witnesses, deciders and canaries, and any     *)
(* number of actions and sessions.                                         *)
(***************************************************************************)
THEOREM GuardKept ==
  ASSUME Guard!GuardAssumption PROVE Guard!Spec => []Guard!NothingForbiddenPasses
<1>1. GuardInv /\ [Guard!Next]_Guard!vars => GuardInv'
  BY GuardStep
<1> QED
  BY GuardInit, <1>1, GuardImplies, PTL DEF Guard!Spec

-----------------------------------------------------------------------------
(* The orientation center.                                                 *)

Unique(events) == \A d, e \in events : d.id = e.id => d = e
Above(below, events) == below \cup {e \in events : \E d \in below : d.parent = e.id}
(* The chain as it grows from the target. *)
Climb(up, first, events, k) == up = [n \in 0 .. k |-> IF n = 0 THEN {first} ELSE Above(up[n - 1], events)]

(* Step by step. *)
LEMMA ClimbSteps ==
  ASSUME NEW k \in Nat, NEW t, NEW events, NEW up, Climb(up, t, events, k)
  PROVE  up[0] = {t} /\ \A n \in 1 .. k : up[n] = Above(up[n - 1], events)
<1>1. ASSUME NEW f, NEW g, g = [n \in 0 .. k |-> IF n = 0 THEN {t} ELSE Above(f[n - 1], events)]
      PROVE  g[0] = {t} /\ \A n \in 1 .. k : g[n] = Above(f[n - 1], events)
  <2> DEFINE B(n) == Above(f[n - 1], events)
  <2>1. g = [n \in 0 .. k |-> IF n = 0 THEN {t} ELSE B(n)]
    BY <1>1
  <2> HIDE DEF B
  <2>2. g[0] = {t} /\ \A n \in 1 .. k : g[n] = B(n)
    BY <2>1
  <2> QED BY <2>2 DEF B
<1> QED
  BY <1>1 DEF Climb

(* The recursion of Chain is well-founded. *)
LEMMA ChainClimbs ==
  ASSUME NEW t, NEW events, IsFiniteSet(events)
  PROVE  /\ Cardinality(events) \in Nat
         /\ \E up : Climb(up, t, events, Cardinality(events)) /\ Oriented!Chain(t, events) = up[Cardinality(events)]
<1> DEFINE N == Cardinality(events)
           Bad == {k \in Nat : ~ \E up : Climb(up, t, events, k)}
<1>1. N \in Nat
  BY FS_CardinalityType
<1>2. Bad = {}
  <2> SUFFICES ASSUME Bad # {} PROVE FALSE
    OBVIOUS
  <2>1. PICK k \in Bad : \A m \in Bad : k <= m
    BY Least
  <2>2. k \in Nat /\ ~ \E up : Climb(up, t, events, k)
    OBVIOUS
  <2>3. CASE k = 0
    <3>1. Climb([n \in 0 .. 0 |-> {t}], t, events, 0)
      BY DEF Climb
    <3> QED BY <2>3, <3>1, <2>2
  <2>4. CASE k # 0
    <3>1. k - 1 \in Nat /\ ~ (k <= k - 1)
      BY <2>2, <2>4
    <3>2. k - 1 \notin Bad
      BY <3>1, <2>1
    <3>3. PICK g : Climb(g, t, events, k - 1)
      BY <3>1, <3>2
    <3> DEFINE h == [n \in 0 .. k |-> IF n = k THEN Above(g[k - 1], events) ELSE g[n]]
    <3>4. ASSUME NEW n \in 0 .. k PROVE h[n] = IF n = 0 THEN {t} ELSE Above(h[n - 1], events)
      <4>1. \A m \in 0 .. (k - 1) : h[m] = g[m] /\ g[m] = IF m = 0 THEN {t} ELSE Above(g[m - 1], events)
        <5>1. g[0] = {t} /\ \A m \in 1 .. (k - 1) : g[m] = Above(g[m - 1], events)
          BY <3>1, <3>3, ClimbSteps
        <5>2. \A m \in 0 .. (k - 1) : h[m] = g[m]
          BY <2>2
        <5> HIDE DEF h
        <5> QED BY <3>1, <5>1, <5>2
      <4>2. CASE n = k
        BY <2>2, <2>4, <3>1, <4>1, <4>2
      <4>3. CASE n # k
        <5>1. n \in 0 .. (k - 1) /\ (n # 0 => n - 1 \in 0 .. (k - 1))
          BY <2>2, <3>1, <4>3
        <5> QED BY <4>1, <5>1
      <4> QED BY <4>2, <4>3
    <3>5. Climb(h, t, events, k)
      BY <3>4 DEF Climb
    <3> QED BY <3>5, <2>2
  <2> QED BY <2>3, <2>4
<1>3. Oriented!Cardinality(events) = N
  BY DEF Oriented!Cardinality, Cardinality, Oriented!IsFiniteSet, IsFiniteSet
<1>4. PICK g : Climb(g, t, events, N)
  BY <1>1, <1>2
<1> DEFINE up == CHOOSE up : Climb(up, t, events, N)
<1>5. Oriented!Chain(t, events) = up[N]
  BY <1>3 DEF Oriented!Chain, Climb, Above
<1> QED
  BY <1>1, <1>4, <1>5

(* A chain that reaches a root is closed, whatever else there is. *)
LEMMA ChainCloses ==
  ASSUME NEW t, NEW seen, NEW events, IsFiniteSet(seen), Unique(events), seen \subseteq events, t \in seen,
         \A e \in events : e.id # 0, Oriented!Roots(t, seen) # {}
  PROVE  /\ Oriented!Chain(t, seen) \subseteq seen
         /\ Above(Oriented!Chain(t, seen), events) = Oriented!Chain(t, seen)
         /\ \A d \in Oriented!Chain(t, seen) : d.parent # 0 => \E e \in Oriented!Chain(t, seen) : e.id = d.parent
<1> DEFINE N == Cardinality(seen)
           C == Oriented!Chain(t, seen)
<1>1. N \in Nat /\ \E up : Climb(up, t, seen, N) /\ C = up[N]
  BY ChainClimbs
<1>2. PICK up : Climb(up, t, seen, N) /\ C = up[N]
  BY <1>1
<1> HIDE DEF N, C
(* All but the last have a parent below. *)
<1> DEFINE Last(n, x) == x \in up[n] /\ \A d \in up[n] \ {x} : d.parent # 0 /\ \E e \in up[n] : e.id = d.parent
           Bad == {n \in Nat : n <= N /\ ~ (up[n] \subseteq seen /\ \E x : Last(n, x))}
<1>3. Bad = {}
  <2> SUFFICES ASSUME Bad # {} PROVE FALSE
    OBVIOUS
  <2>1. PICK n \in Bad : \A m \in Bad : n <= m
    BY Least
  <2>2. n \in Nat /\ n <= N /\ ~ (up[n] \subseteq seen /\ \E x : Last(n, x))
    OBVIOUS
  <2>3. CASE n = 0
    <3>1. up[0] = {t}
      BY <1>1, <1>2 DEF Climb
    <3>2. Last(0, t)
      BY <3>1
    <3> QED BY <2>2, <2>3, <3>1, <3>2
  <2>4. CASE n # 0
    <3>1. n - 1 \in Nat /\ ~ (n <= n - 1) /\ n - 1 <= N
      BY <1>1, <2>2, <2>4
    <3>2. up[n - 1] \subseteq seen /\ \E x : Last(n - 1, x)
      BY <2>1, <3>1
    <3>3. PICK x : Last(n - 1, x)
      BY <3>2
    <3>4. up[n] = Above(up[n - 1], seen)
      BY <1>1, <1>2, <2>2, <2>4, ClimbSteps
    <3>5. up[n] \subseteq seen /\ up[n - 1] \subseteq up[n]
      BY <3>2, <3>4 DEF Above
    <3>6. \A e \in up[n] \ up[n - 1] : e.id = x.parent
      <4> SUFFICES ASSUME NEW e \in up[n] \ up[n - 1] PROVE e.id = x.parent
        OBVIOUS
      <4>1. PICK d \in up[n - 1] : d.parent = e.id
        BY <3>4 DEF Above
      <4>2. CASE d # x
        <5>1. PICK f \in up[n - 1] : f.id = d.parent
          BY <3>3, <4>2
        <5>2. f = e
          BY <3>2, <3>5, <4>1, <5>1 DEF Unique
        <5> QED BY <5>1, <5>2
      <4> QED BY <4>1, <4>2
    <3>7. CASE \E y \in up[n] \ up[n - 1] : TRUE
      <4>1. PICK y \in up[n] \ up[n - 1] : TRUE
        BY <3>7
      <4>2. y.id = x.parent /\ y.id # 0
        BY <3>5, <3>6
      <4>3. \A e \in up[n] \ up[n - 1] : e = y
        BY <3>5, <3>6 DEF Unique
      <4>4. Last(n, y)
        BY <3>3, <3>5, <4>1, <4>2, <4>3
      <4> QED BY <2>2, <3>5, <4>4
    <3>8. CASE ~ \E y \in up[n] \ up[n - 1] : TRUE
      <4>1. up[n] = up[n - 1]
        BY <3>5, <3>8
      <4> QED BY <2>2, <3>2, <4>1
    <3> QED BY <3>7, <3>8
  <2> QED BY <2>3, <2>4
<1>4. C \subseteq seen /\ \E x : Last(N, x)
  BY <1>1, <1>2, <1>3
<1>5. PICK x : Last(N, x)
  BY <1>4
<1>6. PICK r \in C : r.parent = 0
  BY DEF Oriented!Roots, C
<1>7. r = x
  BY <1>2, <1>5, <1>6
<1>8. \A d \in C : d.parent # 0 => \E e \in C : e.id = d.parent
  BY <1>2, <1>5, <1>6, <1>7
<1>9. \A d \in C, e \in events : d.parent = e.id => e \in C
  <2> SUFFICES ASSUME NEW d \in C, NEW e \in events, d.parent = e.id PROVE e \in C
    OBVIOUS
  <2>1. d.parent # 0
    OBVIOUS
  <2>2. PICK f \in C : f.id = d.parent
    BY <1>8, <2>1
  <2> QED BY <1>4, <2>2 DEF Unique
<1> QED
  BY <1>4, <1>8, <1>9 DEF Above, C

(* What comes later does not change a chain that reaches a root. *)
LEMMA ChainStays ==
  ASSUME NEW t, NEW seen, NEW events, IsFiniteSet(events), Unique(events), seen \subseteq events, t \in seen,
         \A e \in events : e.id # 0, Oriented!Roots(t, seen) # {}
  PROVE  Oriented!Chain(t, events) = Oriented!Chain(t, seen)
<1> DEFINE N == Cardinality(seen)
           M == Cardinality(events)
           C == Oriented!Chain(t, seen)
           D == Oriented!Chain(t, events)
<1>1. IsFiniteSet(seen) /\ N <= M
  BY FS_Subset
<1>2. /\ N \in Nat /\ \E up : Climb(up, t, seen, N) /\ C = up[N]
      /\ M \in Nat /\ \E up : Climb(up, t, events, M) /\ D = up[M]
  BY <1>1, ChainClimbs
<1>3. C \subseteq seen /\ Above(C, events) = C
  BY <1>1, ChainCloses
<1> HIDE DEF N, M, C, D
<1>4. PICK up : Climb(up, t, seen, N) /\ C = up[N]
  BY <1>2
<1>5. PICK vp : Climb(vp, t, events, M) /\ D = vp[M]
  BY <1>2
<1>6. /\ up[0] = {t} /\ \A n \in 1 .. N : up[n] = Above(up[n - 1], seen)
      /\ vp[0] = {t} /\ \A n \in 1 .. M : vp[n] = Above(vp[n - 1], events)
  BY <1>2, <1>4, <1>5, ClimbSteps
<1> DEFINE BadUp == {n \in Nat : n <= N /\ ~ (up[n] \subseteq vp[n] /\ t \in up[n])}
<1>7. BadUp = {}
  <2> SUFFICES ASSUME BadUp # {} PROVE FALSE
    OBVIOUS
  <2>1. PICK n \in BadUp : \A m \in BadUp : n <= m
    BY Least
  <2>2. n \in Nat /\ n <= N /\ ~ (up[n] \subseteq vp[n] /\ t \in up[n]) /\ n # 0
    BY <1>6
  <2>3. n - 1 \in Nat /\ ~ (n <= n - 1) /\ n - 1 <= N /\ n \in 1 .. N /\ n \in 1 .. M
    BY <1>1, <1>2, <2>2
  <2>4. up[n - 1] \subseteq vp[n - 1] /\ t \in up[n - 1]
    BY <2>1, <2>3
  <2>5. up[n] = Above(up[n - 1], seen) /\ vp[n] = Above(vp[n - 1], events)
    BY <1>6, <2>3
  <2> QED BY <2>2, <2>4, <2>5 DEF Above
<1>8. C \subseteq vp[N] /\ t \in C
  BY <1>2, <1>4, <1>7
<1> DEFINE BadVp == {n \in Nat : n <= M /\ ~ (vp[n] \subseteq C /\ (n >= N => vp[N] \subseteq vp[n]))}
<1>9. BadVp = {}
  <2> SUFFICES ASSUME BadVp # {} PROVE FALSE
    OBVIOUS
  <2>1. PICK n \in BadVp : \A m \in BadVp : n <= m
    BY Least
  <2>2. n \in Nat /\ n <= M /\ ~ (vp[n] \subseteq C /\ (n >= N => vp[N] \subseteq vp[n]))
    OBVIOUS
  <2>3. CASE n = 0
    BY <1>2, <1>6, <1>8, <2>2, <2>3
  <2>4. CASE n # 0
    <3>1. n - 1 \in Nat /\ ~ (n <= n - 1) /\ n - 1 <= M /\ n \in 1 .. M /\ (n >= N => n = N \/ n - 1 >= N)
      BY <1>2, <2>2, <2>4
    <3>2. vp[n - 1] \subseteq C /\ (n - 1 >= N => vp[N] \subseteq vp[n - 1])
      BY <2>1, <3>1
    <3>3. vp[n] = Above(vp[n - 1], events)
      BY <1>6, <3>1
    <3>4. vp[n] \subseteq C
      BY <1>3, <3>2, <3>3 DEF Above
    <3>5. vp[n - 1] \subseteq vp[n]
      BY <3>3 DEF Above
    <3> QED BY <2>2, <3>1, <3>2, <3>4, <3>5
  <2> QED BY <2>3, <2>4
<1>10. D \subseteq C /\ vp[N] \subseteq D
  BY <1>1, <1>2, <1>5, <1>9
<1> QED
  BY <1>8, <1>10 DEF C, D

(* What it takes to be valid within a trace. *)
Sound(t, events) ==
    /\ Oriented!Roots(t, events) # {} /\ t.ok /\ \A e \in Oriented!Roots(t, events) : e.ok
    /\ \A e \in Oriented!Chain(t, events) : ~ Oriented!Foreign(e, t)
    /\ ~ Oriented!StaleParent(t, events) /\ ~ Oriented!RejectedReuse(t, events) /\ ~ Oriented!MissingHandoff(t, events)
    /\ \A e \in Oriented!Chain(t, events) : e.kind = "MEMORY" => Oriented!Known(events, e.evidence)
    /\ t.kind = "REMEDIATION" => \E e \in events : e.id = t.fault /\ e.kind = "FAULT"

(* No finding of any kind. *)
LEMMA ValidIsSound ==
  ASSUME NEW t, NEW events
  PROVE  Oriented!Validity(t, events) \in {"valid_within_trace", "invalid"}
         /\ (Oriented!Validity(t, events) = "valid_within_trace" <=> Sound(t, events))
<1> DEFINE F == Oriented!Findings(t, events)
<1>1. ASSUME F = {} PROVE Sound(t, events)
  <2>1. "ANCESTRY_BROKEN" \notin F /\ "LOCAL_INVALID" \notin F /\ "INVALID_ROOT_INHERITANCE" \notin F
        /\ "FOREIGN_SCOPE_ANCESTOR" \notin F /\ "STALE_PARENT" \notin F /\ "REJECTED_BRANCH_REUSE" \notin F
        /\ "MISSING_AUTHORITY_HANDOFF" \notin F /\ "MEMORY_WITHOUT_EVIDENCE_ORIGIN" \notin F
        /\ "REMEDIATION_WITHOUT_FAULT_LINK" \notin F
    BY <1>1
  <2>2. Oriented!Roots(t, events) # {} /\ t.ok /\ \A e \in Oriented!Roots(t, events) : e.ok
    BY <2>1 DEF Oriented!Findings
  <2>3. \A e \in Oriented!Chain(t, events) : ~ Oriented!Foreign(e, t)
    BY <2>1 DEF Oriented!Findings
  <2>4. ~ Oriented!StaleParent(t, events) /\ ~ Oriented!RejectedReuse(t, events) /\ ~ Oriented!MissingHandoff(t, events)
    BY <2>1 DEF Oriented!Findings
  <2>5. \A e \in Oriented!Chain(t, events) : e.kind = "MEMORY" => Oriented!Known(events, e.evidence)
    BY <2>1 DEF Oriented!Findings
  <2>6. t.kind = "REMEDIATION" => \E e \in events : e.id = t.fault /\ e.kind = "FAULT"
    BY <2>1 DEF Oriented!Findings
  <2> QED BY <2>2, <2>3, <2>4, <2>5, <2>6 DEF Sound
<1>2. ASSUME NEW f \in F PROVE ~ Sound(t, events)
  BY <1>2 DEF Oriented!Findings, Sound
<1> HIDE DEF F
<1> QED
  BY <1>1, <1>2 DEF Oriented!Validity, F

(* An event that was valid stays so and stands, unless one with its time   *)
(* or an earlier one comes in.                                             *)
LEMMA SoundStands ==
  ASSUME Oriented!OrientationAssumption, NEW t, NEW seen, NEW events, events \subseteq Events, IsFiniteSet(events),
         Unique(events), seen \subseteq events, t \in seen, Sound(t, seen), \A e \in events \ seen : e.at > t.at
  PROVE  Sound(t, events) /\ Oriented!Stands(t, events)
<1> DEFINE C == Oriented!Chain(t, seen)
<1>1. \A e \in events : e.id # 0 /\ e.at \in Nat /\ e.expires \in Nat
  BY DEF Oriented!OrientationAssumption
<1>2. Oriented!Roots(t, seen) # {} /\ IsFiniteSet(seen)
  BY FS_Subset DEF Sound
<1>3. Oriented!Chain(t, events) = C
  BY <1>1, <1>2, ChainStays
<1>4. C \subseteq seen /\ \A d \in C : d.parent # 0 => \E e \in C : e.id = d.parent
  BY <1>1, <1>2, ChainCloses
<1>5. Oriented!Before(t, events) = Oriented!Before(t, seen)
  BY <1>1 DEF Oriented!Before
<1>6. Oriented!Roots(t, events) = Oriented!Roots(t, seen)
  BY <1>3 DEF Oriented!Roots
<1>7. Sound(t, events)
  <2>1. Oriented!StaleParent(t, events) <=> Oriented!StaleParent(t, seen)
    BY <1>3 DEF Oriented!StaleParent
  <2>2. Oriented!RejectedReuse(t, events) <=> Oriented!RejectedReuse(t, seen)
    BY <1>3, <1>5 DEF Oriented!RejectedReuse, Oriented!FreshApproval
  <2>3. Oriented!MissingHandoff(t, events) <=> Oriented!MissingHandoff(t, seen)
    BY <1>5 DEF Oriented!MissingHandoff
  <2>4. \A e \in C : e.kind = "MEMORY" => Oriented!Known(events, e.evidence)
    BY DEF Sound, Oriented!Known
  <2>5. t.kind = "REMEDIATION" => \E e \in events : e.id = t.fault /\ e.kind = "FAULT"
    BY DEF Sound
  <2> QED BY <1>3, <1>6, <2>1, <2>2, <2>3, <2>4, <2>5 DEF Sound
<1> HIDE DEF C
<1>8. ASSUME NEW r \in events, r.at <= t.at, r.kind = "REJECTION", t.scope = 0 \/ r.scope \in {0, t.scope}
      PROVE  \/ \A e \in C : e.id \notin r.supersedes
             \/ \E a \in {e \in events : e.at <= t.at} \cap C : a.kind = "APPROVAL" /\ a.at > r.at
  <2>1. r \in Oriented!Before(t, events)
    BY <1>8 DEF Oriented!Before, Oriented!InScope
  <2>2. ~ Oriented!RejectedReuse(t, events)
    BY <1>7 DEF Sound
  <2>3. r.supersedes \cap {e.id : e \in C} = {} \/ Oriented!FreshApproval(r, t, events)
    BY <1>3, <1>8, <2>1, <2>2 DEF Oriented!RejectedReuse
  <2>4. Oriented!FreshApproval(r, t, events)
          => \E a \in {e \in events : e.at <= t.at} \cap C : a.kind = "APPROVAL" /\ a.at > r.at
    BY <1>3 DEF Oriented!FreshApproval, Oriented!Before
  <2> QED BY <2>3, <2>4
<1>9. ASSUME NEW a \in C \ {t}, a.kind = "APPROVAL" PROVE a.expires = 0 \/ a.expires >= t.at
  <2>1. ~ (a.expires # 0 /\ a.expires < t.at)
    BY <1>3, <1>7, <1>9 DEF Sound, Oriented!StaleParent
  <2> QED BY <1>1, <1>4, <2>1
<1>10. (\A e \in C : e.parent # 0 => \E p \in events : p.id = e.parent) /\ (\E e \in C : e.parent = 0)
  BY <1>2, <1>4 DEF Oriented!Roots, C
<1>11. Oriented!Stands(t, events)
  BY <1>3, <1>8, <1>9, <1>10 DEF Oriented!Stands
<1> QED
  BY <1>7, <1>11

(* What is recorded is kept, receipts are about a part of it, and what the *)
(* center said was so when it said it.                                     *)
OrientedInv ==
    /\ trace \subseteq Events /\ IsFiniteSet(trace) /\ Unique(trace)
    /\ \A r \in ancestry : r.target \in r.seen /\ r.seen \subseteq trace /\ r.effective = Oriented!Validity(r.target, r.seen)
    /\ counter \in [CounterIds -> {"open", "confirmed", "refuted"}]
    /\ center.readiness = "BALANCED" =>
          /\ \A c \in CounterIds : center.counter[c] = "refuted"
          /\ "receipt" \in center.requires => center.ancestry # {}
          /\ \A g \in center.geometry : g.subject = center.subject /\ g.pair # "changed"
          /\ center.ancestry \subseteq ancestry
          /\ \A r \in center.ancestry : r.subject = center.subject /\ r.effective # "invalid"

(* Nothing is recorded. *)
LEMMA OrientedInit == Oriented!Init => OrientedInv
BY FS_EmptySet DEF Oriented!Init, OrientedInv, Oriented!NoCenter, Unique

(* Each step keeps it. *)
LEMMA OrientedStep ==
  ASSUME OrientedInv, [Oriented!Next]_Oriented!vars PROVE OrientedInv'
<1>1. ASSUME NEW e \in Events, Oriented!Record(e) PROVE OrientedInv'
  <2>1. ~ Oriented!Known(trace, e.id) /\ trace' = trace \cup {e} /\ UNCHANGED <<subject, ancestry, geometry, counter, center>>
    BY <1>1 DEF Oriented!Record
  <2>2. IsFiniteSet(trace')
    BY <2>1, FS_AddElement DEF OrientedInv
  <2>3. Unique(trace')
    BY <2>1 DEF OrientedInv, Unique, Oriented!Known
  <2> QED BY <2>1, <2>2, <2>3 DEF OrientedInv
<1>2. ASSUME NEW t \in trace, Oriented!AssessAncestry(t) PROVE OrientedInv'
  <2> DEFINE r == [subject |-> subject, target |-> t, effective |-> Oriented!Validity(t, trace), seen |-> trace]
  <2>1. ancestry' = ancestry \cup {r} /\ UNCHANGED <<subject, trace, geometry, counter, center>>
    BY <1>2 DEF Oriented!AssessAncestry
  <2>2. r.target \in r.seen /\ r.seen \subseteq trace /\ r.effective = Oriented!Validity(r.target, r.seen)
    OBVIOUS
  <2> HIDE DEF r
  <2> QED BY <2>1, <2>2 DEF OrientedInv
<1>3. ASSUME NEW m \in Models, Oriented!MeasureGeometry(m) PROVE OrientedInv'
  BY <1>3 DEF Oriented!MeasureGeometry, OrientedInv
<1>4. CASE Oriented!ChangeSubject
  BY <1>4 DEF Oriented!ChangeSubject, OrientedInv
<1>5. ASSUME NEW d \in Declarations, NEW requires \in Requirements, NEW given \in SUBSET ancestry,
             NEW forms \in SUBSET geometry, NEW ids \in SUBSET CounterIds, Oriented!Orient(d, requires, given, forms, ids)
      PROVE  OrientedInv'
  <2>1. /\ Oriented!SubjectBound(given, forms) /\ UNCHANGED <<subject, trace, ancestry, geometry, counter>>
        /\ center' = [readiness |-> Oriented!Readiness(d, requires, given, forms, ids), subject |-> subject,
                      ancestry |-> given, geometry |-> forms, counter |-> counter, requires |-> requires]
    BY <1>5 DEF Oriented!Orient
  <2>2. ASSUME Oriented!Readiness(d, requires, given, forms, ids) = "BALANCED"
        PROVE  ~ Oriented!Hard(d, requires, given, ids) /\ ~ Oriented!Unresolved(d, requires, given, forms, ids)
    BY <2>2 DEF Oriented!Readiness
  <2>3. ASSUME Oriented!Readiness(d, requires, given, forms, ids) = "BALANCED"
        PROVE  /\ \A c \in CounterIds : counter[c] = "refuted"
               /\ "receipt" \in requires => given # {}
               /\ \A g \in forms : g.subject = subject /\ g.pair # "changed"
               /\ \A r \in given : r.subject = subject /\ r.effective # "invalid"
    <3>1. \A c \in CounterIds : counter[c] \in {"open", "confirmed", "refuted"}
      BY DEF OrientedInv
    <3>2. \A c \in CounterIds : counter[c] = "refuted"
      BY <2>2, <2>3, <3>1 DEF Oriented!Hard, Oriented!Unresolved
    <3>3. ("receipt" \in requires => given # {}) /\ \A g \in forms : g.pair # "changed"
      BY <2>2, <2>3 DEF Oriented!Unresolved
    <3>4. \A r \in given : r.effective # "invalid"
      BY <2>2, <2>3 DEF Oriented!Hard
    <3> QED BY <2>1, <3>2, <3>3, <3>4 DEF Oriented!SubjectBound
  <2> QED BY <2>1, <2>3 DEF OrientedInv
<1>6. ASSUME NEW c \in CounterIds, Oriented!Investigate(c) PROVE OrientedInv'
  BY <1>6 DEF Oriented!Investigate, OrientedInv
<1>7. CASE UNCHANGED Oriented!vars
  BY <1>7 DEF Oriented!vars, OrientedInv
<1> QED
  BY <1>1, <1>2, <1>3, <1>4, <1>5, <1>6, <1>7 DEF Oriented!Next

(* A receipt that the center took is about a trace that only grew. *)
LEMMA OrientedImplies ==
  ASSUME Oriented!OrientationAssumption, OrientedInv PROVE Oriented!BalancedStands
<1> SUFFICES ASSUME center.readiness = "BALANCED", NEW r \in center.ancestry, \A e \in trace \ r.seen : e.at > r.target.at
             PROVE  Oriented!Stands(r.target, trace) /\ Oriented!Validity(r.target, trace) = "valid_within_trace"
  BY DEF OrientedInv, Oriented!BalancedStands
<1>1. r.target \in r.seen /\ r.seen \subseteq trace /\ r.effective = Oriented!Validity(r.target, r.seen)
      /\ r.effective # "invalid"
  BY DEF OrientedInv
<1>2. Sound(r.target, r.seen)
  BY <1>1, ValidIsSound
<1>3. Sound(r.target, trace) /\ Oriented!Stands(r.target, trace)
  BY <1>1, <1>2, SoundStands DEF OrientedInv
<1> QED
  BY <1>3, ValidIsSound

(***************************************************************************)
(* Readiness outlives what happens later (orientation_center.py,           *)
(* ancestral_validity.py), for any events, however they branch and in      *)
(* whatever order they reach the trace.                                    *)
(***************************************************************************)
THEOREM OrientedKept ==
  ASSUME Oriented!OrientationAssumption PROVE Oriented!Spec => []Oriented!BalancedStands
<1>1. OrientedInv /\ [Oriented!Next]_Oriented!vars => OrientedInv'
  BY OrientedStep
<1>2. OrientedInv => Oriented!BalancedStands
  BY OrientedImplies
<1> QED
  BY OrientedInit, <1>1, <1>2, PTL DEF Oriented!Spec

-----------------------------------------------------------------------------
(* All of them in the composition, where a behaviour is of one component.  *)

ComposedInv ==
    /\ part = "boundary" => BoundaryInv
    /\ part = "trajectory" => TrajectoryInv
    /\ part = "temporal" => GenerationsKept
    /\ part = "probe" => ProbeInv
    /\ part = "guard" => GuardInv
    /\ part = "orientation" => OrientedInv

(* An initial state of the composed parts satisfies the inductive          *)
(* invariant.                                                              *)
LEMMA ComposedInit == MCInit => ComposedInv
BY BoundaryInit, TrajectoryInit, TemporalInit, ProbeInit, GuardInit, OrientedInit, ProbeAssumption DEF MCInit, ComposedInv

(* A step is of the component that the behaviour is of. *)
LEMMA ComposedStep ==
  ASSUME [MCNext]_<<part, agent, guard, oriented, temporal, probe, boundary, trajectory>>
  PROVE  /\ part' = part
         /\ part = "boundary" => [Boundary!Next]_Boundary!vars
         /\ part = "trajectory" => [Trajectory!Next]_Trajectory!vars
         /\ part = "temporal" => [Temporal!Next]_Temporal!vars
         /\ part = "probe" => [Probe!Next]_Probe!vars
         /\ part = "guard" => [Guard!Next]_Guard!vars
         /\ part = "orientation" => [Oriented!Next]_Oriented!vars
<1>1. CASE MCNext
  BY <1>1 DEF MCNext
<1>2. CASE UNCHANGED <<part, boundary, trajectory, temporal, probe, guard, oriented>>
  BY <1>2 DEF guard, oriented, Guard!vars, Oriented!vars, boundary, trajectory, temporal, probe, Probe!vars, Probe!loop, Probe!files, Boundary!vars, Boundary!stores, Trajectory!vars, Trajectory!world,
              Trajectory!kept, Temporal!vars
<1> QED
  BY <1>1, <1>2

(* Every step of the composed parts keeps the inductive invariant.         *)
LEMMA ComposedKept ==
  ComposedInv /\ [MCNext]_<<part, agent, guard, oriented, temporal, probe, boundary, trajectory>> => ComposedInv'
BY ComposedStep, BoundaryStep, TrajectoryStep, TemporalStep, ProbeStep, GuardStep, OrientedStep,
   TemporalAssumption, ProbeAssumption, GuardAssumption DEF ComposedInv

(***************************************************************************)
(* The harness in the composition.                                         *)
(***************************************************************************)
THEOREM ComposedBoundary == MCSpec => []IdentityIsNotAuthority
<1>1. ComposedInv => IdentityIsNotAuthority
  BY BoundaryImplies DEF ComposedInv, IdentityIsNotAuthority
<1> QED
  BY ComposedInit, ComposedKept, <1>1, PTL DEF MCSpec

(***************************************************************************)
(* The trajectory in the composition.                                      *)
(***************************************************************************)
THEOREM ComposedTrajectory == MCSpec => []NothingDoubtedIsRepeated
<1>1. ComposedInv => NothingDoubtedIsRepeated
  BY TrajectoryImplies DEF ComposedInv, NothingDoubtedIsRepeated
<1> QED
  BY ComposedInit, ComposedKept, <1>1, PTL DEF MCSpec

(***************************************************************************)
(* The probe in the composition.                                           *)
(***************************************************************************)
THEOREM ComposedProbe == MCSpec => []RecoveryIsReported
<1>1. ComposedInv => RecoveryIsReported
  BY ProbeImplies DEF ComposedInv, RecoveryIsReported
<1> QED
  BY ComposedInit, ComposedKept, <1>1, PTL DEF MCSpec

(***************************************************************************)
(* The guard in the composition.                                           *)
(***************************************************************************)
THEOREM ComposedGuard == MCSpec => []NothingForbiddenPasses
<1>1. ComposedInv => NothingForbiddenPasses
  BY GuardImplies DEF ComposedInv, NothingForbiddenPasses
<1> QED
  BY ComposedInit, ComposedKept, <1>1, PTL DEF MCSpec

(***************************************************************************)
(* The orientation center in the composition.                              *)
(***************************************************************************)
THEOREM ComposedOrientation == MCSpec => []BalancedStands
<1>1. ComposedInv => BalancedStands
  BY OrientedImplies, OrientationAssumption DEF ComposedInv, BalancedStands
<1> QED
  BY ComposedInit, ComposedKept, <1>1, PTL DEF MCSpec

(***************************************************************************)
(* The generations in the composition.                                     *)
(***************************************************************************)
THEOREM ComposedTemporal == MCSpec => HistoryIsKept
<1>1. ComposedInv /\ [MCNext]_<<part, agent, guard, oriented, temporal, probe, boundary, trajectory>>
        => [part = "temporal" => Temporal!HistoryStands]_temporal
  BY ComposedStep, TemporalStep, TemporalAssumption DEF ComposedInv, Temporal!vars, temporal
<1> QED
  BY ComposedInit, ComposedKept, <1>1, PTL DEF MCSpec, HistoryIsKept
=============================================================================

------------------------ MODULE NodeRecoveryProofs ------------------------
(***************************************************************************)
(* The guarded node is safe for any number of processes and kills.         *)
(***************************************************************************)
EXTENDS NodeRecovery, TLAPS

(* Every step is a process's, a kill, or the receipt's. *)
LEMMA StepCases ==
  ASSUME [Next]_vars
  PROVE  \/ UNCHANGED vars
         \/ ReceiptAppears
         \/ \E w \in Workers : Step(w)
         \/ \E w \in Workers : Kill(w)
BY DEF Next

(* What commit_effect may leave is a receipt. *)
LEMMA ReceiptsTyped ==
  Receipts \subseteq [target : {"none", "ours", "other"}, visible : BOOLEAN]
<1>1. [target : {"ours"}, visible : BOOLEAN]
          \subseteq [target : {"none", "ours", "other"}, visible : BOOLEAN]
  OBVIOUS
<1>2. /\ [target |-> "other", visible |-> TRUE]
            \in [target : {"none", "ours", "other"}, visible : BOOLEAN]
      /\ [target |-> "ours", visible |-> TRUE]
            \in [target : {"none", "ours", "other"}, visible : BOOLEAN]
  OBVIOUS
<1>3. CASE arm = "visibility"
  BY <1>1, <1>2, <1>3, Zenon DEF Receipts
<1>4. CASE arm # "visibility"
  BY <1>2, <1>4, Zenon DEF Receipts
<1> QED
  BY <1>3, <1>4

(* Type correctness, for every set of processes and bound on kills. *)
THEOREM NodeTypeCorrect == Spec => []TypeOK
<1>1. ASSUME Init PROVE TypeOK
  <2>1. pc \in [Workers -> Places]
    BY <1>1 DEF Init, Places
  <2>2. receipt \in [target : {"none", "ours", "other"}, visible : BOOLEAN]
    BY <1>1 DEF Init, NoReceipt
  <2>3. kills \in 0 .. MaxKills
    BY <1>1, MaxKillsAssumption DEF Init
  <2> QED
    BY <1>1, <2>1, <2>2, <2>3 DEF Init, TypeOK
<1>2. TypeOK /\ [Next]_vars => TypeOK'
  <2> SUFFICES ASSUME TypeOK, [Next]_vars PROVE TypeOK'
    OBVIOUS
  <2> USE DEF TypeOK, external, Goto, At, Record
  <2>1. CASE UNCHANGED vars
    BY <2>1 DEF vars
  <2>2. CASE ReceiptAppears
    BY <2>2 DEF ReceiptAppears
  <2>3. ASSUME NEW w \in Workers, Step(w) PROVE TypeOK'
    <3>1. CASE EnterNode(w)
      BY <3>1 DEF EnterNode, Places
    <3>2. CASE Reconcile(w)
      BY <3>2 DEF Reconcile, Reconciled, Places
    <3>3. CASE ReturnPrior(w)
      BY <3>3 DEF ReturnPrior, Places
    <3>4. CASE RejectMismatch(w)
      BY <3>4 DEF RejectMismatch, Places
    <3>5. CASE ReadPermit(w)
      BY <3>5 DEF ReadPermit, Places
    <3>6. CASE FailClosed(w)
      BY <3>6 DEF FailClosed, Places
    <3>7. CASE ConsumePermit(w)
      BY <3>7 DEF ConsumePermit, Places
    <3>8. CASE PermitRefused(w)
      BY <3>8 DEF PermitRefused, Places
    <3>9. CASE RecordDispatch(w)
      BY <3>9 DEF RecordDispatch, Places
    <3>10. CASE CommitEffect(w)
      <4>1. pc' \in [Workers -> Places]
        BY <3>10 DEF CommitEffect, Places
      <4>2. receipt' \in [target : {"none", "ours", "other"}, visible : BOOLEAN]
        <5>1. receipt' = receipt \/ receipt' \in Receipts
          BY <3>10 DEF CommitEffect
        <5> QED
          BY <5>1, ReceiptsTyped
      <4> QED
        BY <3>10, <4>1, <4>2 DEF CommitEffect
    <3>11. CASE PersistWrites(w)
      BY <3>11 DEF PersistWrites, Places
    <3> QED
      BY <2>3, <3>1, <3>2, <3>3, <3>4, <3>5, <3>6, <3>7, <3>8, <3>9, <3>10, <3>11 DEF Step
  <2>4. ASSUME NEW w \in Workers, Kill(w) PROVE TypeOK'
    BY <2>4, MaxKillsAssumption DEF Kill, Places
  <2> QED
    BY <2>1, <2>2, <2>3, <2>4, StepCases
<1> QED
  BY <1>1, <1>2, PTL DEF Spec

-----------------------------------------------------------------------------
Backed == effects = 1 /\ receipt = [target |-> "ours", visible |-> TRUE]

(* The permit has at most one holder, who has not acted on it. *)
OneHolder ==
    /\ \A w \in Workers : At(w, "authorized") =>
            consumeCount = 1 /\ dispatched = 0 /\ effects = 0
    /\ \A w \in Workers : At(w, "dispatching") =>
            consumeCount = 1 /\ dispatched = 1 /\ effects = 0
    /\ \A v, w \in Holders : v = w

(* What was returned or persisted rests on the effect and its receipt. *)
Evidence ==
    /\ effects = 0 <=> receipt = NoReceipt
    /\ \A w \in Workers : At(w, "returning") => effects = 1
    /\ done => effects = 1
    /\ \A w \in Workers : At(w, "confirmed") => Backed
    /\ "return_prior" \in decisions => Backed

(* Without the guard no process ever reconciles. *)
Unguarded ==
    /\ \A w \in Workers : pc[w] \in {"idle", "authorized", "dispatching", "returning"}
    /\ decisions \subseteq {"dispatch"}

NInv == /\ Guarded => EffectsAreAuthorized /\ OneHolder /\ Evidence
        /\ ~ Guarded => Unguarded

(* Only a visible receipt that names the target confirms. *)
LEMMA ReconciledConfirmed ==
  ASSUME TypeOK, Reconciled = "confirmed"
  PROVE  receipt.visible = TRUE /\ receipt.target = "ours"
<1>1. receipt.visible \in BOOLEAN
  BY DEF TypeOK
<1>2. CASE receipt.visible = FALSE
  <2>1. Reconciled = "unknown"
    BY <1>2 DEF Reconciled
  <2> QED
    BY <2>1
<1>3. CASE receipt.visible = TRUE /\ receipt.target # "ours"
  <2>1. Reconciled = "mismatch"
    BY <1>3 DEF Reconciled
  <2> QED
    BY <2>1
<1> QED
  BY <1>1, <1>2, <1>3

(* No step of a guarded node disturbs the invariant. *)
LEMMA GuardedStep ==
  ASSUME TypeOK, TypeOK', NInv, Guarded, [Next]_vars
  PROVE  Guarded' /\ (EffectsAreAuthorized /\ OneHolder /\ Evidence)'
<1> USE DEF external, Goto, At, Record, Holders
<1>0. EffectsAreAuthorized /\ OneHolder /\ Evidence
  BY DEF NInv
<1> USE <1>0
<1>1. CASE UNCHANGED vars
  BY <1>1 DEF vars, Guarded, EffectsAreAuthorized, OneHolder, Evidence, Backed
<1>2. CASE ReceiptAppears
  <2>1. UNCHANGED <<arm, pc, effects, consumeCount, dispatched, decisions, done>>
    BY <1>2 DEF ReceiptAppears
  <2>2. receipt # NoReceipt /\ receipt' # NoReceipt /\ ~ Backed
    BY <1>2 DEF ReceiptAppears, TypeOK, NoReceipt, Backed
  <2>3. (EffectsAreAuthorized /\ OneHolder)' /\ Guarded'
    BY <2>1 DEF Guarded, EffectsAreAuthorized, OneHolder
  <2>4. Evidence'
    BY <2>1, <2>2 DEF Evidence, Backed
  <2> QED
    BY <2>3, <2>4
<1>3. ASSUME NEW w \in Workers, Step(w)
      PROVE  Guarded' /\ (EffectsAreAuthorized /\ OneHolder /\ Evidence)'
  <2> USE DEF TypeOK, Guarded, EffectsAreAuthorized, OneHolder, Evidence, Backed
  <2>1. CASE EnterNode(w)
    BY <2>1 DEF EnterNode
  <2>2. CASE Reconcile(w)
    <3>1. ASSUME Reconciled = "confirmed" PROVE Backed
      <4>1. receipt.visible = TRUE /\ receipt.target = "ours"
        BY <3>1, ReconciledConfirmed
      <4>2. receipt = [target |-> receipt.target, visible |-> receipt.visible]
        OBVIOUS
      <4>3. receipt = [target |-> "ours", visible |-> TRUE]
        BY <4>1, <4>2
      <4>4. effects = 1
        BY <4>1 DEF NoReceipt
      <4> QED
        BY <4>3, <4>4
    <3>2. Reconciled \in {"unknown", "confirmed", "mismatch"}
      BY DEF Reconciled
    <3>3. UNCHANGED <<arm, effects, consumeCount, receipt, dispatched, decisions, done>>
      BY <2>2 DEF Reconcile
    <3>4. pc' = [pc EXCEPT ![w] = Reconciled]
      BY <2>2 DEF Reconcile
    <3>5. Evidence'
      BY <3>1, <3>2, <3>3, <3>4
    <3> QED
      BY <3>2, <3>3, <3>4, <3>5
  <2>3. CASE ReturnPrior(w)
    BY <2>3 DEF ReturnPrior
  <2>4. CASE RejectMismatch(w)
    BY <2>4 DEF RejectMismatch
  <2>5. CASE ReadPermit(w)
    BY <2>5 DEF ReadPermit
  <2>6. CASE FailClosed(w)
    BY <2>6 DEF FailClosed
  <2>7. CASE ConsumePermit(w)
    BY <2>7 DEF ConsumePermit
  <2>8. CASE PermitRefused(w)
    BY <2>8 DEF PermitRefused
  <2>9. CASE RecordDispatch(w)
    BY <2>9 DEF RecordDispatch
  <2>10. CASE CommitEffect(w)
    BY <2>10 DEF CommitEffect, Receipts, NoReceipt
  <2>11. CASE PersistWrites(w)
    BY <2>11 DEF PersistWrites
  <2> QED
    BY <1>3, <2>1, <2>2, <2>3, <2>4, <2>5, <2>6, <2>7, <2>8, <2>9, <2>10, <2>11 DEF Step
<1>4. ASSUME NEW w \in Workers, Kill(w)
      PROVE  Guarded' /\ (EffectsAreAuthorized /\ OneHolder /\ Evidence)'
  BY <1>4 DEF Kill, TypeOK, Guarded, EffectsAreAuthorized, OneHolder, Evidence, Backed
<1> QED
  BY <1>1, <1>2, <1>3, <1>4, StepCases

(* Without the guard every step leaves a process that only dispatches.     *)
LEMMA UnguardedStep ==
  ASSUME TypeOK, NInv, ~ Guarded, [Next]_vars
  PROVE  ~ Guarded' /\ Unguarded'
<1> USE DEF external, Goto, At, Record, TypeOK, Guarded, Unguarded, NInv
<1>1. CASE UNCHANGED vars
  BY <1>1 DEF vars
<1>2. CASE ReceiptAppears
  BY <1>2 DEF ReceiptAppears
<1>3. ASSUME NEW w \in Workers, Step(w) PROVE ~ Guarded' /\ Unguarded'
  <2>1. CASE EnterNode(w)
    BY <2>1 DEF EnterNode
  <2>2. CASE RecordDispatch(w) \/ CommitEffect(w) \/ PersistWrites(w)
    BY <2>2 DEF RecordDispatch, CommitEffect, PersistWrites
  <2>3. ~ (\/ Reconcile(w) \/ ReturnPrior(w) \/ RejectMismatch(w) \/ ReadPermit(w)
           \/ FailClosed(w) \/ ConsumePermit(w) \/ PermitRefused(w))
    BY DEF Reconcile, ReturnPrior, RejectMismatch, ReadPermit, FailClosed, ConsumePermit,
           PermitRefused
  <2> QED
    BY <1>3, <2>1, <2>2, <2>3 DEF Step
<1>4. ASSUME NEW w \in Workers, Kill(w) PROVE ~ Guarded' /\ Unguarded'
  BY <1>4 DEF Kill
<1> QED
  BY <1>1, <1>2, <1>3, <1>4, StepCases

(* The inductive invariant of the node holds in every state.               *)
LEMMA NodeInvariant == Spec => []NInv
<1>1. Init => NInv
  BY DEF Init, NInv, EffectsAreAuthorized, OneHolder, Holders, Evidence, Backed, Unguarded, At,
         NoReceipt
<1>2. TypeOK /\ TypeOK' /\ NInv /\ [Next]_vars => NInv'
  BY GuardedStep, UnguardedStep DEF NInv
<1> QED
  BY <1>1, <1>2, NodeTypeCorrect, PTL DEF Spec

-----------------------------------------------------------------------------
(***************************************************************************)
(* Every effect of a guarded node was decided, and every decision          *)
(* authorized by a permit that is consumed once.                           *)
(***************************************************************************)
THEOREM EffectsAuthorized == Spec => []EffectsAreAuthorized
<1>1. NInv => EffectsAreAuthorized
  BY DEF NInv, EffectsAreAuthorized
<1> QED
  BY <1>1, NodeInvariant, PTL

(* A prior result that was returned is that of an effect that took place. *)
THEOREM PriorResultBacked == Spec => []PriorResultIsBacked
<1>1. NInv => PriorResultIsBacked
  BY DEF NInv, PriorResultIsBacked, Evidence, Backed, Unguarded
<1> QED
  BY <1>1, NodeInvariant, PTL

(* No process decides to dispatch once the effect is there. *)
THEOREM NoAuthorityFromMissingReceipt == Spec => MissingVisibilityAuthorizesNothing
<1>1. TypeOK /\ NInv /\ [Next]_vars => [Guarded /\ dispatched' > dispatched => effects = 0]_vars
  <2> SUFFICES ASSUME TypeOK, NInv, Guarded, dispatched' > dispatched, [Next]_vars
               PROVE  effects = 0
    OBVIOUS
  <2>1. dispatched' # dispatched
    BY DEF TypeOK
  <2>2. \E w \in Workers : RecordDispatch(w)
    BY <2>1, StepCases DEF vars, external, ReceiptAppears, Kill, Step, EnterNode, Reconcile,
       ReturnPrior, RejectMismatch, ReadPermit, FailClosed, ConsumePermit, PermitRefused,
       CommitEffect, PersistWrites
  <2> QED
    BY <2>2 DEF RecordDispatch, NInv, OneHolder, At
<1> QED
  BY <1>1, NodeTypeCorrect, NodeInvariant, PTL DEF Spec, MissingVisibilityAuthorizesNothing

(* A permit spent by a process that was killed authorizes nothing, ever. *)
THEOREM StrandedClosed == Spec => StrandedStaysClosed
<1>1. TypeOK /\ TypeOK' /\ NInv /\ NInv' /\ [Next]_vars =>
        [Guarded /\ Stranded => Stranded' /\ ~ done']_vars
  <2> SUFFICES ASSUME TypeOK, TypeOK', NInv, NInv', Guarded, Stranded, [Next]_vars
               PROVE  Stranded' /\ ~ done'
    OBVIOUS
  <2> USE DEF external, Goto, At, Holders, Stranded
  <2>1. Stranded'
    <3>1. CASE UNCHANGED vars \/ ReceiptAppears
      BY <3>1 DEF vars, ReceiptAppears
    <3>2. ASSUME NEW w \in Workers, Step(w) \/ Kill(w) PROVE Stranded'
      <4>1. ~ RecordDispatch(w) /\ ~ CommitEffect(w) /\ ~ ConsumePermit(w)
        BY DEF RecordDispatch, CommitEffect, ConsumePermit, TypeOK
      <4> QED
        BY <3>2, <4>1 DEF Step, EnterNode, Reconcile, Reconciled, ReturnPrior, RejectMismatch,
           ReadPermit, FailClosed, PermitRefused, PersistWrites, Kill, TypeOK, Guarded
    <3> QED
      BY <3>1, <3>2, StepCases
  <2>2. Guarded'
    BY GuardedStep
  <2> QED
    BY <2>1, <2>2 DEF NInv, Evidence
<1> QED
  BY <1>1, NodeTypeCorrect, NodeInvariant, PTL DEF Spec, StrandedStaysClosed

(***************************************************************************)
(* The guarded node implements the effect that happens at most once and    *)
(* is complete only when it happened.                                      *)
(***************************************************************************)
THEOREM NodeImplementsEffectOnce == Spec => ImplementsEffectOnce
<1>1. Init => Once!Init
  BY DEF Init, Once!Init
<1>2. TypeOK /\ TypeOK' /\ NInv /\ NInv' /\ [Next]_vars => [Once!Next]_(Once!vars)
  <2> SUFFICES ASSUME TypeOK, TypeOK', NInv, NInv', [Next]_vars
               PROVE  [Once!Next]_(Once!vars)
    OBVIOUS
  <2>1. CASE ~ Guarded
    <3>1. ~ Guarded'
      BY <2>1, UnguardedStep
    <3> QED
      BY <2>1, <3>1 DEF Once!vars
  <2>2. CASE Guarded
    <3>1. Guarded' /\ effects \in {0, 1} /\ effects' \in {0, 1}
      BY <2>2, GuardedStep DEF EffectsAreAuthorized, TypeOK, NInv
    <3>2. CASE effects' = effects /\ done' = done
      BY <2>2, <3>1, <3>2 DEF Once!vars
    <3>3. CASE effects' # effects
      <4>1. PICK w \in Workers : CommitEffect(w)
        BY <3>3, StepCases DEF vars, external, ReceiptAppears, Kill, Step, EnterNode, Reconcile,
           ReturnPrior, RejectMismatch, ReadPermit, FailClosed, ConsumePermit, PermitRefused,
           RecordDispatch, PersistWrites
      <4> QED
        BY <2>2, <3>1, <3>3, <4>1 DEF CommitEffect, Once!Next, Once!Perform, NInv, OneHolder, At
    <3>4. CASE effects' = effects /\ done' # done
      <4>1. PICK w \in Workers : PersistWrites(w)
        BY <3>4, StepCases DEF vars, external, ReceiptAppears, Kill, Step, EnterNode, Reconcile,
           ReturnPrior, RejectMismatch, ReadPermit, FailClosed, ConsumePermit, PermitRefused,
           RecordDispatch, CommitEffect
      <4> QED
        BY <2>2, <3>1, <3>4, <4>1 DEF PersistWrites, Once!Next, Once!Complete, NInv, Evidence, At
    <3> QED
      BY <3>2, <3>3, <3>4
  <2> QED
    BY <2>1, <2>2
<1> QED
  BY <1>1, <1>2, NodeTypeCorrect, NodeInvariant, PTL
     DEF Spec, ImplementsEffectOnce, Once!Spec

(***************************************************************************)
(* The guarded node keeps its promises together: its records agree, what   *)
(* is hidden or stranded authorizes nothing, and the effect happens once.  *)
(***************************************************************************)
THEOREM NodeGuarded == Spec => NodeIsGuarded
<1>1. Spec => [](TypeOK /\ EffectsAreAuthorized /\ PriorResultIsBacked)
  BY NodeTypeCorrect, EffectsAuthorized, PriorResultBacked, PTL
<1> QED
  BY <1>1, NoAuthorityFromMissingReceipt, StrandedClosed, NodeImplementsEffectOnce, PTL
     DEF NodeIsGuarded
=============================================================================

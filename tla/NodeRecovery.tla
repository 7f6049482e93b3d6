---------------------------- MODULE NodeRecovery ----------------------------
(***************************************************************************)
(* The graph node of the LangGraph b1 experiments: a process that runs the *)
(* node performs one external effect under a one-use permit, and a process *)
(* killed before its writes are persisted leaves the node to be entered    *)
(* again.  Checkpoint, permits, effects, receipts and decisions are in     *)
(* SQLite and survive; each `with sqlite3.connect` block is one            *)
(* transaction, so processes interleave and are killed between blocks.     *)
(*                                                                         *)
(* The arms are those of run_ab.py ("baseline", which has no guard, and    *)
(* "receipt", its guarded arm) and the node of run_visibility.py           *)
(* ("visibility").                                                         *)
(***************************************************************************)
EXTENDS Naturals

CONSTANTS
    Workers,    \* processes that may run the node of the one thread
    Arms,       \* the variants of the node that are explored
    MaxKills    \* bound on the processes killed

ASSUME ArmsAssumption == Arms \subseteq {"baseline", "receipt", "visibility"}
ASSUME MaxKillsAssumption == MaxKills \in Nat

VARIABLES
    arm,           \* the node's variant, fixed
    pc,            \* where each process is in the node
    consumeCount,  \* permits: consume_count of the action's permit
    effects,       \* how many rows effects has
    receipt,       \* receipts: the action's row
    decisions,     \* the kinds of decision recorded
    dispatched,    \* how many of them are "dispatch"
    done,          \* the checkpoint holds the node's writes
    kills

vars == <<arm, pc, consumeCount, effects, receipt, decisions, dispatched, done, kills>>

Guarded == arm # "baseline"

NoReceipt == [target |-> "none", visible |-> FALSE]

(* commit_effect: the cases that run_visibility.py commits; the receipts    *)
(* of run_ab.py name the target and are always visible.                     *)
Receipts == IF arm = "visibility"
            THEN [target : {"ours"}, visible : BOOLEAN]
                     \cup {[target |-> "other", visible |-> TRUE]}
            ELSE {[target |-> "ours", visible |-> TRUE]}

Init ==
    /\ arm \in Arms
    /\ pc = [w \in Workers |-> "idle"]
    /\ consumeCount = 0
    /\ effects = 0
    /\ receipt = NoReceipt
    /\ decisions = {}
    /\ dispatched = 0
    /\ done = FALSE
    /\ kills = 0

external == <<consumeCount, effects, receipt, decisions, dispatched>>

At(w, place)   == pc[w] = place
Goto(w, place) == pc' = [pc EXCEPT ![w] = place]

(* app.invoke: the node is entered unless the checkpoint has its writes. *)
EnterNode(w) ==
    /\ At(w, "idle")
    /\ ~ done
    /\ Goto(w, IF Guarded THEN "entered" ELSE "authorized")
    /\ UNCHANGED <<arm, external, done, kills>>

Reconciled_PermitFirst ==
    IF ~ receipt.visible \/ consumeCount > 0 THEN "unknown"
    ELSE IF receipt.target = "ours" THEN "confirmed" ELSE "mismatch"

(* reconcile_receipt, read_receipt: a row that is not visible is no evidence. *)
Reconciled ==
    IF ~ receipt.visible THEN "unknown"
    ELSE IF receipt.target = "ours" THEN "confirmed" ELSE "mismatch"

Reconcile(w) ==
    /\ At(w, "entered")
    /\ Goto(w, Reconciled)
    /\ UNCHANGED <<arm, external, done, kills>>

Record(decision) == decisions' = decisions \cup {decision}

ReturnPrior(w) ==
    /\ At(w, "confirmed")
    /\ Record("return_prior")
    /\ Goto(w, "returning")
    /\ UNCHANGED <<arm, consumeCount, effects, receipt, dispatched, done, kills>>

(* raise ReceiptMismatchError; run_ab.py raises without recording it. *)
RejectMismatch(w) ==
    /\ At(w, "mismatch")
    /\ Record("fail_closed_mismatch")
    /\ Goto(w, "idle")
    /\ UNCHANGED <<arm, consumeCount, effects, receipt, dispatched, done, kills>>

(* The permit is looked up before it is asked for; run_ab.py does not look. *)
ReadPermit(w) ==
    /\ At(w, "unknown")
    /\ Goto(w, IF arm = "visibility" /\ consumeCount > 0 THEN "blocked" ELSE "fresh")
    /\ UNCHANGED <<arm, external, done, kills>>

(* raise UnknownReceiptError *)
FailClosed(w) ==
    /\ At(w, "blocked")
    /\ Record("fail_closed_unknown")
    /\ Goto(w, "idle")
    /\ UNCHANGED <<arm, consumeCount, effects, receipt, dispatched, done, kills>>

(* ensure_and_consume_permit, one transaction. *)
ConsumePermit(w) ==
    /\ At(w, "fresh")
    /\ consumeCount = 0
    /\ consumeCount' = 1
    /\ Goto(w, "authorized")
    /\ UNCHANGED <<arm, effects, receipt, decisions, dispatched, done, kills>>

(* "consumed permit cannot authorize redispatch" *)
PermitRefused(w) ==
    /\ At(w, "fresh")
    /\ consumeCount > 0
    /\ Goto(w, "idle")
    /\ UNCHANGED <<arm, external, done, kills>>

RecordDispatch(w) ==
    /\ At(w, "authorized")
    /\ Record("dispatch")
    /\ dispatched' = dispatched + 1
    /\ Goto(w, "dispatching")
    /\ UNCHANGED <<arm, consumeCount, effects, receipt, done, kills>>

(* commit_effect writes the effect and its receipt in one transaction; a    *)
(* second receipt for the action breaks its primary key and undoes both.    *)
CommitEffect(w) ==
    /\ At(w, "dispatching")
    /\ IF receipt = NoReceipt
       THEN /\ effects' = effects + 1
            /\ IF Guarded THEN receipt' \in Receipts ELSE UNCHANGED receipt
            /\ Goto(w, "returning")
       ELSE Goto(w, "idle") /\ UNCHANGED <<effects, receipt>>
    /\ UNCHANGED <<arm, consumeCount, decisions, dispatched, done, kills>>

PersistWrites_BeforeEffect(w) ==
    /\ pc[w] \in {"dispatching", "returning"}
    /\ done' = TRUE
    /\ Goto(w, IF At(w, "returning") THEN "idle" ELSE pc[w])
    /\ UNCHANGED <<arm, external, kills>>

(* put_writes: the node's result is in the checkpoint. *)
PersistWrites(w) ==
    /\ At(w, "returning")
    /\ done' = TRUE
    /\ Goto(w, "idle")
    /\ UNCHANGED <<arm, external, kills>>

(* SIGKILL; at "returning" it is the b1 boundary. *)
Kill(w) ==
    /\ ~ At(w, "idle")
    /\ kills < MaxKills
    /\ kills' = kills + 1
    /\ Goto(w, "idle")
    /\ UNCHANGED <<arm, external, done>>

(* set_receipt_visible: the receipt that was delayed can be read back. *)
ReceiptAppears ==
    /\ receipt # NoReceipt
    /\ ~ receipt.visible
    /\ receipt' = [receipt EXCEPT !.visible = TRUE]
    /\ UNCHANGED <<arm, pc, consumeCount, effects, decisions, dispatched, done, kills>>

Step(w) ==
    \/ EnterNode(w) \/ Reconcile(w) \/ ReturnPrior(w) \/ RejectMismatch(w)
    \/ ReadPermit(w) \/ FailClosed(w) \/ ConsumePermit(w) \/ PermitRefused(w)
    \/ RecordDispatch(w) \/ CommitEffect(w) \/ PersistWrites(w)

Next == ReceiptAppears \/ \E w \in Workers : Step(w) \/ Kill(w)

Spec == Init /\ [][Next]_vars

(* A process that is not killed goes on, recovery is attempted again until *)
(* the checkpoint has the writes, and a delayed receipt becomes visible.   *)
FairSpec == Spec /\ WF_vars(ReceiptAppears) /\ \A w \in Workers : WF_vars(Step(w))

-----------------------------------------------------------------------------
Places == {"idle", "entered", "confirmed", "mismatch", "unknown", "blocked", "fresh",
           "authorized", "dispatching", "returning"}

TypeOK ==
    /\ arm \in Arms
    /\ pc \in [Workers -> Places]
    /\ consumeCount \in {0, 1}
    /\ effects \in Nat
    /\ receipt \in [target : {"none", "ours", "other"}, visible : BOOLEAN]
    /\ decisions \subseteq {"return_prior", "fail_closed_mismatch",
                            "fail_closed_unknown", "dispatch"}
    /\ dispatched \in Nat
    /\ done \in BOOLEAN
    /\ kills \in 0 .. MaxKills

(* The processes that hold a consumed permit and have not acted on it yet. *)
Holders == {w \in Workers : pc[w] \in {"authorized", "dispatching"}}

(***************************************************************************)
(* The durable records tell one story, whoever was killed where: every     *)
(* effect was decided first and every decision was authorized first, by a  *)
(* permit that is consumed once.                                           *)
(***************************************************************************)
EffectsAreAuthorized ==
    Guarded => effects <= dispatched /\ dispatched <= consumeCount /\ consumeCount <= 1

(***************************************************************************)
(* "Missing visibility is not proof of non-execution": once the effect is  *)
(* there no process decides to dispatch again, though its receipt may be   *)
(* hidden or name another target.                                          *)
(***************************************************************************)
MissingVisibilityAuthorizesNothing ==
    [][Guarded /\ dispatched' > dispatched => effects = 0]_vars

(***************************************************************************)
(* A permit consumed by a process that was killed before its effect stays  *)
(* consumed: no recovery turns it into a new authority, and the action is  *)
(* not reported complete.                                                  *)
(***************************************************************************)
Stranded == consumeCount > 0 /\ effects = 0 /\ Holders = {}

StrandedStaysClosed ==
    [][Guarded /\ Stranded => Stranded' /\ ~ done']_vars

(***************************************************************************)
(* A prior result that was returned, as the durable log says, is that of   *)
(* an effect which took place and whose receipt names the target.          *)
(***************************************************************************)
PriorResultIsBacked ==
    "return_prior" \in decisions =>
        effects = 1 /\ receipt = [target |-> "ours", visible |-> TRUE]

Once == INSTANCE EffectOnce
            WITH effects <- IF Guarded THEN effects ELSE 0,
                 completed <- Guarded /\ done

(***************************************************************************)
(* The guarded node implements the effect that happens at most once, and   *)
(* is complete only when it happened, for any number of processes, kills   *)
(* and recoveries.                                                         *)
(***************************************************************************)
ImplementsEffectOnce == Once!Spec

(***************************************************************************)
(* Recovery is not stuck behind its own guard: an action whose effect left *)
(* a matching receipt is completed.                                        *)
(***************************************************************************)
MatchingReceiptCompletes == receipt.target = "ours" ~> done

(***************************************************************************)
(* No crash, kill or recovery breaks the guarded node: its records tell    *)
(* one story, hidden receipts and stranded permits authorize nothing, and  *)
(* the effect happens at most once.                                        *)
(***************************************************************************)
NodeIsGuarded ==
    /\ [](TypeOK /\ EffectsAreAuthorized /\ PriorResultIsBacked)
    /\ MissingVisibilityAuthorizesNothing
    /\ StrandedStaysClosed
    /\ ImplementsEffectOnce
=============================================================================

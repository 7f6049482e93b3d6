--------------------------- MODULE AuthorityAgent ---------------------------
(***************************************************************************)
(* The agent of the AutoGen runtime-authority experiment.  A process runs  *)
(* one phase: "subject" performs the action under the permit of generation *)
(* 1 and loses its response; "recovery" restores the agent's identity from *)
(* the state file, reads the outside world back, and only when that says   *)
(* the action was not executed dispatches under a permit of generation 2.  *)
(* Either phase may be run again, by several processes, and killed between *)
(* any two SQLite statements that are not in one transaction.              *)
(***************************************************************************)
EXTENDS Naturals

CONSTANTS
    Workers,   \* processes
    Cases      \* the cases of the experiment that are explored

ASSUME CasesAssumption ==
    Cases \subseteq {"confirmed", "unknown", "mismatch", "not_executed"}

VARIABLES
    case,          \* the case, fixed
    phase,         \* the phase each process runs
    pc,            \* where each process is in on_message_impl
    permits,       \* the generations with a row in permits
    dispatched,    \* the "dispatch" decisions of each generation
    effects,       \* how many rows effects has
    receipt,       \* the row of receipts
    notExecuted,   \* outcomes says NOT_EXECUTED
    decisions,     \* the other kinds of decision recorded
    saved,         \* the state file has the agent's identity
    completed      \* some process replied with the action's result

vars == <<case, phase, pc, permits, dispatched, effects, receipt, notExecuted,
          decisions, saved, completed>>

Generations == {1, 2}

NoReceipt == [target |-> "none", visible |-> FALSE]

Init ==
    /\ case \in Cases
    /\ phase = [w \in Workers |-> "subject"]
    /\ pc = [w \in Workers |-> "idle"]
    /\ permits = {}
    /\ dispatched = [g \in Generations |-> 0]
    /\ effects = 0
    /\ receipt = NoReceipt
    /\ notExecuted = FALSE
    /\ decisions = {}
    /\ saved = FALSE
    /\ completed = FALSE

world == <<permits, dispatched, effects, receipt, notExecuted>>

At(w, place)   == pc[w] = place
Goto(w, place) == pc' = [pc EXCEPT ![w] = place]
Generation(w)  == IF phase[w] = "subject" THEN 1 ELSE 2

(* phase_subject catches what the agent raises and saves its state;        *)
(* phase_recovery ends with the exception.                                 *)
Raise(w) == Goto(w, IF phase[w] = "subject" THEN "saving" ELSE "idle")

StartSubject(w) ==
    /\ At(w, "idle")
    /\ phase' = [phase EXCEPT ![w] = "subject"]
    /\ Goto(w, "asking")
    /\ UNCHANGED <<case, world, decisions, saved, completed>>

(* load_state: without the file the process ends before it does anything. *)
StartRecovery(w) ==
    /\ At(w, "idle")
    /\ saved
    /\ phase' = [phase EXCEPT ![w] = "recovery"]
    /\ Goto(w, "reading")
    /\ UNCHANGED <<case, world, decisions, saved, completed>>

(* issue_permit: the permit is born consumed, and the key of the table     *)
(* refuses a generation that was issued before.                            *)
IssuePermit(w) ==
    /\ At(w, "asking")
    /\ IF Generation(w) \in permits
       THEN Raise(w) /\ UNCHANGED permits
       ELSE Goto(w, "permitted") /\ permits' = permits \cup {Generation(w)}
    /\ UNCHANGED <<case, phase, dispatched, effects, receipt, notExecuted, decisions,
                   saved, completed>>

RecordDispatch(w) ==
    /\ At(w, "permitted")
    /\ dispatched' = [dispatched EXCEPT ![Generation(w)] = @ + 1]
    /\ Goto(w, "dispatching")
    /\ UNCHANGED <<case, phase, permits, effects, receipt, notExecuted, decisions,
                   saved, completed>>

FailsBeforeEffect(w) == phase[w] = "subject" /\ case = "not_executed"

(* "injected pre-effect failure" *)
RecordNotExecuted(w) ==
    /\ At(w, "dispatching")
    /\ FailsBeforeEffect(w)
    /\ notExecuted' = TRUE
    /\ Raise(w)
    /\ UNCHANGED <<case, phase, permits, dispatched, effects, receipt, decisions,
                   saved, completed>>

Receipt(w) ==
    IF phase[w] = "recovery" THEN [target |-> "ours", visible |-> TRUE]
    ELSE [target  |-> IF case = "mismatch" THEN "other" ELSE "ours",
          visible |-> case # "unknown"]

(* commit_effect: effect and receipt in one transaction, undone by the key  *)
(* of receipts; the subject then loses its response.                        *)
CommitEffect(w) ==
    /\ At(w, "dispatching")
    /\ ~ FailsBeforeEffect(w)
    /\ IF receipt = NoReceipt
       THEN /\ effects' = effects + 1
            /\ receipt' = Receipt(w)
            /\ IF phase[w] = "subject" THEN Raise(w) ELSE Goto(w, "dispatched")
       ELSE Raise(w) /\ UNCHANGED <<effects, receipt>>
    /\ UNCHANGED <<case, phase, permits, dispatched, notExecuted, decisions,
                   saved, completed>>

(* The reply FRESH_DISPATCH. *)
ReplyFresh(w) ==
    /\ At(w, "dispatched")
    /\ completed' = TRUE
    /\ Goto(w, "idle")
    /\ UNCHANGED <<case, phase, world, decisions, saved>>

(* readback is two selects, each with a view of the database of its own;   *)
(* what the second one finds counts only when the first found no receipt.  *)
ReadReceipt(w) ==
    /\ At(w, "reading")
    /\ Goto(w, IF ~ receipt.visible THEN "readingOutcome"
               ELSE IF receipt.target = "ours" THEN "confirmed" ELSE "mismatch")
    /\ UNCHANGED <<case, phase, world, decisions, saved, completed>>

ReadOutcome(w) ==
    /\ At(w, "readingOutcome")
    /\ Goto(w, IF notExecuted THEN "notExecuted" ELSE "unknown")
    /\ UNCHANGED <<case, phase, world, decisions, saved, completed>>

Decide(w, decision) ==
    /\ decisions' = decisions \cup {decision}
    /\ UNCHANGED <<case, phase, world, saved>>

ReturnPrior(w) ==
    /\ At(w, "confirmed")
    /\ Decide(w, "return_prior")
    /\ completed' = TRUE
    /\ Goto(w, "idle")

BlockMismatch(w) ==
    /\ At(w, "mismatch")
    /\ Decide(w, "fail_closed_mismatch")
    /\ Goto(w, "idle")
    /\ UNCHANGED completed

BlockUnknown_AssumesDone(w) ==
    /\ At(w, "unknown")
    /\ Decide(w, "fail_closed_unknown")
    /\ Goto(w, "idle")
    /\ completed' = TRUE

BlockUnknown(w) ==
    /\ At(w, "unknown")
    /\ Decide(w, "fail_closed_unknown")
    /\ Goto(w, "idle")
    /\ UNCHANGED completed

RequireFreshAuthority(w) ==
    /\ At(w, "notExecuted")
    /\ Decide(w, "fresh_authorization_required")
    /\ Goto(w, "asking")
    /\ UNCHANGED completed

(* Path(state_path).write_text *)
SaveState(w) ==
    /\ At(w, "saving")
    /\ saved' = TRUE
    /\ Goto(w, "idle")
    /\ UNCHANGED <<case, phase, world, decisions, completed>>

(* The process ends here: it is killed, or its 60 seconds are over. *)
Kill(w) ==
    /\ ~ At(w, "idle")
    /\ Goto(w, "idle")
    /\ UNCHANGED <<case, phase, world, decisions, saved, completed>>

(* run_case, before the second recovery of the case "unknown". *)
ReceiptAppears ==
    /\ receipt # NoReceipt
    /\ ~ receipt.visible
    /\ receipt' = [receipt EXCEPT !.visible = TRUE]
    /\ UNCHANGED <<case, phase, pc, permits, dispatched, effects, notExecuted, decisions,
                   saved, completed>>

Step(w) ==
    \/ StartSubject(w) \/ StartRecovery(w) \/ IssuePermit(w) \/ RecordDispatch(w)
    \/ RecordNotExecuted(w) \/ CommitEffect(w) \/ ReplyFresh(w)
    \/ ReadReceipt(w) \/ ReadOutcome(w) \/ ReturnPrior(w) \/ BlockMismatch(w)
    \/ BlockUnknown(w) \/ RequireFreshAuthority(w) \/ SaveState(w) \/ Kill(w)

Next == ReceiptAppears \/ \E w \in Workers : Step(w)

Spec == Init /\ [][Next]_vars

-----------------------------------------------------------------------------
Places == {"idle", "asking", "permitted", "dispatching", "dispatched", "saving", "reading",
           "readingOutcome", "confirmed", "mismatch", "unknown", "notExecuted"}

TypeOK ==
    /\ case \in Cases
    /\ phase \in [Workers -> {"subject", "recovery"}]
    /\ pc \in [Workers -> Places]
    /\ permits \subseteq Generations
    /\ dispatched \in [Generations -> {0, 1}]
    /\ effects \in Nat
    /\ receipt \in [target : {"none", "ours", "other"}, visible : BOOLEAN]
    /\ notExecuted \in BOOLEAN
    /\ decisions \subseteq {"return_prior", "fail_closed_mismatch", "fail_closed_unknown",
                            "fresh_authorization_required"}
    /\ saved \in BOOLEAN
    /\ completed \in BOOLEAN

(***************************************************************************)
(* A readback may be out of date by the time it is acted on, because       *)
(* another recovery acted on the same answer: still no process decides to  *)
(* dispatch what was performed.                                            *)
(***************************************************************************)
StaleReadbackDispatchesNothing ==
    [][dispatched' # dispatched => effects = 0]_vars

(***************************************************************************)
(* Saved identity is not authority: authority is renewed only for an       *)
(* action that is known not to have been executed, while that is so.       *)
(***************************************************************************)
FreshAuthorityNeedsNonExecution ==
    [][permits' # permits /\ permits # {} => notExecuted /\ effects = 0]_vars

(***************************************************************************)
(* The durable records tell one story: each generation is dispatched at    *)
(* most once and under its own permit, and the effect, if it is there, is  *)
(* the only one and was dispatched.                                        *)
(***************************************************************************)
AuthorityCoversEffects ==
    /\ \A g \in Generations : dispatched[g] > 0 => g \in permits
    /\ 2 \in permits => 1 \in permits
    /\ effects <= dispatched[1] + dispatched[2]
    /\ notExecuted => effects <= dispatched[2]

(***************************************************************************)
(* A prior result is returned only for an effect that took place and whose *)
(* visible receipt names the target.                                       *)
(***************************************************************************)
PriorResultIsBacked ==
    "return_prior" \in decisions =>
        effects = 1 /\ receipt = [target |-> "ours", visible |-> TRUE]

Once == INSTANCE EffectOnce

(***************************************************************************)
(* However many subjects and recoveries run, the action's effect happens   *)
(* at most once, and its result is replied only when it has happened.      *)
(***************************************************************************)
ImplementsEffectOnce == Once!Spec

(***************************************************************************)
(* However subjects and recoveries interleave, the records tell one story, *)
(* no readback out of date dispatches anything, authority is renewed for   *)
(* what was not executed only, and the effect happens at most once.        *)
(***************************************************************************)
AgentIsGuarded ==
    /\ [](TypeOK /\ AuthorityCoversEffects /\ PriorResultIsBacked)
    /\ StaleReadbackDispatchesNothing
    /\ FreshAuthorityNeedsNonExecution
    /\ ImplementsEffectOnce
=============================================================================

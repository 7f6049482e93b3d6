-------------------------- MODULE IdentityBoundary --------------------------
(***************************************************************************)
(* The identity/authority boundary harness: a worker that performs logical *)
(* actions under one-use permits, is stopped with only the identity of its *)
(* action and the id of its permit persisted, and recovers by reading the  *)
(* external target back.  The scenarios of the harness are runs of this    *)
(* specification; here they also follow one another on the same stores.    *)
(*                                                                         *)
(* stable_action_id hashes intent, target and arguments and intent_hash    *)
(* intent and arguments, so an action is [target, intent] and its own id.  *)
(***************************************************************************)
EXTENDS Naturals, Sequences, FiniteSets

CONSTANTS
    Targets, Intents,
    MaxPermits,    \* bound on the permits issued
    MaxReadbacks   \* bound on the readbacks forced

VARIABLES
    permits,       \* AuthorityStore.permits, by serial
    receipts,      \* ExternalTarget.receipts, per action
    forced,        \* ExternalTarget.forced_readback, per action
    dispatches,    \* how often each action was dispatched
    pc,            \* where the worker is
    current,       \* the action and permit the worker holds or persisted
    decision,      \* what reconcile or consume answered last
    forcings,      \* readbacks forced so far
    misled         \* per action: recoveries told NOT_EXECUTED of an executed one

stores == <<permits, receipts, dispatches>>
vars   == <<stores, forced, pc, current, decision, forcings, misled>>

Actions == [target : Targets, intent : Intents]

None == [status |-> "none"]
Status(s) == [status |-> s]
Confirmed(id, target, intent) ==
    [status |-> "CONFIRMED", action_id |-> id, target |-> target, intent |-> intent]

Init ==
    /\ permits = <<>>
    /\ receipts = [a \in Actions |-> None]
    /\ forced = [a \in Actions |-> None]
    /\ dispatches = [a \in Actions |-> 0]
    /\ pc = "idle"
    /\ current = [action |-> CHOOSE a \in Actions : TRUE, permit |-> 0]
    /\ decision = "none"
    /\ forcings = 0
    /\ misled = [a \in Actions |-> 0]

(* AuthorityStore.issue *)
Issue(a) ==
    /\ Len(permits) < MaxPermits
    /\ permits' = Append(permits, [action |-> a, consumed |-> FALSE])
    /\ current' = [action |-> a, permit |-> Len(permits) + 1]
    /\ pc' = "permitted"

StartNew(a) ==
    /\ pc = "idle"
    /\ dispatches[a] = 0
    /\ \A p \in DOMAIN permits : permits[p].action # a
    /\ Issue(a)
    /\ decision' = "none"
    /\ UNCHANGED <<receipts, forced, dispatches, forcings, misled>>

ConsumeVerdict_Reusable(p, a) ==
    IF p \notin DOMAIN permits THEN "unknown_permit"
    ELSE IF permits[p].action # a THEN "mismatch"
    ELSE "consumed"

ConsumeVerdict(p, a) ==
    IF p \notin DOMAIN permits THEN "unknown_permit"
    ELSE IF permits[p].consumed THEN "reused_permit"
    ELSE IF permits[p].action # a THEN "mismatch"   \* action, target or intent
    ELSE "consumed"

(* AuthorityStore.consume: of a permit just issued, or of the persisted    *)
(* one when an old permit is replayed.                                     *)
Consume ==
    /\ pc \in {"permitted", "stopped"}
    /\ LET verdict == ConsumeVerdict(current.permit, current.action)
       IN  /\ decision' = verdict
           /\ IF verdict = "consumed"
              THEN /\ permits' = [permits EXCEPT ![current.permit].consumed = TRUE]
                   /\ pc' = "authorized"
              ELSE UNCHANGED <<permits, pc>>
    /\ UNCHANGED <<receipts, forced, dispatches, current, forcings, misled>>

(* ExternalTarget.dispatch *)
Dispatch ==
    /\ pc = "authorized"
    /\ LET a == current.action
       IN  /\ dispatches' = [dispatches EXCEPT ![a] = @ + 1]
           /\ receipts' = [receipts EXCEPT ![a] = Confirmed(a, a.target, a.intent)]
    /\ pc' = "dispatched"
    /\ UNCHANGED <<permits, forced, current, decision, forcings, misled>>

Finish ==
    /\ pc = "dispatched"
    /\ pc' = "idle"
    /\ UNCHANGED <<stores, forced, current, decision, forcings, misled>>

(* _seed_recovery: the run ends after the permit was consumed, before or   *)
(* after the effect; action and permit id are what was persisted.          *)
Stop ==
    /\ pc \in {"authorized", "dispatched"}
    /\ pc' = "stopped"
    /\ UNCHANGED <<stores, forced, current, decision, forcings, misled>>

(* What set_readback is given in the scenarios: NOT_EXECUTED only of an    *)
(* action without a receipt.  It stays when the action is dispatched.      *)
ForcedReadbacks(a) ==
    {Status("UNKNOWN"), Status("PENDING")}
    \cup {Confirmed(b, t, i) : b \in Actions, t \in Targets, i \in Intents}
    \cup (IF receipts[a] = None THEN {Status("NOT_EXECUTED")} ELSE {})

SetReadback(a, result) ==
    /\ pc = "stopped"
    /\ forcings < MaxReadbacks
    /\ forced' = [forced EXCEPT ![a] = result]
    /\ forcings' = forcings + 1
    /\ UNCHANGED <<stores, pc, current, decision, misled>>

Readback(a) ==
    IF forced[a] # None THEN forced[a]
    ELSE IF receipts[a] # None THEN receipts[a]
    ELSE Status("NOT_EXECUTED")

Decision(a) ==
    LET r == Readback(a)
    IN  IF r.status = "NOT_EXECUTED" THEN "fresh_authorization"
        ELSE IF r.status # "CONFIRMED" THEN "fail_closed"
        ELSE IF r.action_id # a THEN "reject_receipt_identity_mismatch"
        ELSE IF r.target # a.target THEN "reject_target_mismatch"
        ELSE IF r.intent # a.intent THEN "reject_intent_mismatch"
        ELSE "return_prior"

(* reconcile, and the new permit that a fresh authorization asks for *)
Reconcile ==
    /\ pc = "stopped"
    /\ LET a == current.action
       IN  /\ decision' = Decision(a)
           /\ misled' = [misled EXCEPT ![a] =
                @ + IF Readback(a).status = "NOT_EXECUTED" /\ receipts[a] # None
                    THEN 1 ELSE 0]
           /\ CASE decision' = "fresh_authorization" -> Issue(a)
                [] decision' = "return_prior" ->
                     pc' = "idle" /\ UNCHANGED <<permits, current>>
                [] OTHER -> UNCHANGED <<permits, pc, current>>
    /\ UNCHANGED <<receipts, forced, dispatches, forcings>>

Next ==
    \/ \E a \in Actions : StartNew(a)
    \/ Consume \/ Dispatch \/ Finish \/ Stop \/ Reconcile
    \/ \E a \in Actions : \E r \in ForcedReadbacks(a) : SetReadback(a, r)

Spec == Init /\ [][Next]_vars

-----------------------------------------------------------------------------
(***************************************************************************)
(* Restoring an identity is no permission to act: however often the worker *)
(* is stopped, replays its permit or recovers, an action is performed once *)
(* more than its readback wrongly said it was not executed, each time      *)
(* under a permit of its own; and reconcile hands back a prior result only *)
(* of an action that was performed or whose readback was forced.           *)
(***************************************************************************)
IdentityIsNotAuthority ==
    \A a \in Actions :
        LET spent == {p \in DOMAIN permits : permits[p].action = a /\ permits[p].consumed}
        IN  /\ dispatches[a] <= 1 + misled[a]
            /\ dispatches[a] <= Cardinality(spent)
            /\ decision = "return_prior" /\ current.action = a =>
                 dispatches[a] > 0 \/ forced[a] # None
=============================================================================

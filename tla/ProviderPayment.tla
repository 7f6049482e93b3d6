--------------------------- MODULE ProviderPayment ---------------------------
(***************************************************************************)
(* One logical payment operation of an agent that asks the payment         *)
(* decision gate before every monetary action.  A provider executes the    *)
(* attempts; its authoritative read reports an attempt's state, late       *)
(* perhaps, and its notifications report anything, in any order.  The      *)
(* adapter reconciles the observations of the current attempt, the bridge  *)
(* derives the authority to retry, and the gate decides.                   *)
(***************************************************************************)
EXTENDS Naturals, Sequences, SequencesExt, FiniteSets

CONSTANTS
    Profiles,         \* [retry, retryStates, reads, precedence, required]
    MaxAttempts,
    MaxObservations   \* of one attempt

(* The agent reads what is authoritative, which notifications are not; a   *)
(* documented precedence names every source (_validate_v2_v3_precedence).  *)
ProfilesAssumption ==
    \A p \in Profiles :
        /\ "webhook" \notin p.reads /\ p.precedence \in Seq(p.reads \cup {"webhook"})
        /\ p.precedence # <<>> => \A s \in p.reads \cup {"webhook"} : \E i \in DOMAIN p.precedence : p.precedence[i] = s

BoundsAssumption == MaxAttempts \in Nat \ {0} /\ MaxObservations \in Nat \ {0}

ProviderStates == {"processing", "succeeded", "canceled", "declined"}
StateMap(state) ==
    CASE state = "succeeded" -> "committed"
      [] state \in {"canceled", "declined"} -> "failed"
      [] OTHER -> "pending"
FinalOutcomes == {"committed", "failed"}

VARIABLES
    profile,       \* the adapter in use
    attempts,      \* the provider's state of every attempt
    delivered,     \* what became of the goods: "unknown", "delivered" or "not_delivered"
    seen,          \* observations of the current attempt: <<[source, state]>>
    goods,         \* fulfillment as the agent knows it
    authority,     \* as the agent knows it
    decision,      \* the gate's last decision, with the monetary action it leaves open
    checked        \* codes that the fulfillment benchmark raised for the action taken

vars == <<profile, attempts, delivered, seen, goods, authority, decision, checked>>

Undecided == "none"

Init ==
    /\ profile \in Profiles
    /\ attempts = <<>> /\ delivered = "unknown"
    /\ seen = <<>> /\ goods = "unknown"
    /\ authority = "authorized"
    /\ decision = Undecided /\ checked = {}

-----------------------------------------------------------------------------
(* The provider and the merchant.                                          *)

Settle ==
    /\ \E n \in DOMAIN attempts :
          /\ attempts[n] = "processing"
          /\ \E state \in ProviderStates \ {"processing"} : attempts' = [attempts EXCEPT ![n] = state]
    /\ UNCHANGED <<profile, delivered, seen, goods, authority, decision, checked>>

Deliver ==
    /\ delivered = "unknown"
    /\ \E n \in DOMAIN attempts : attempts[n] = "succeeded"
    /\ delivered' \in {"delivered", "not_delivered"}
    /\ UNCHANGED <<profile, attempts, seen, goods, authority, decision, checked>>

(* An authoritative read may have been answered before the attempt settled; *)
(* notifications are not evidence of anything.  A new observation makes the *)
(* agent ask the gate again.                                                *)
Observe ==
    /\ attempts # <<>> /\ Len(seen) < MaxObservations
    /\ \/ \E source \in profile.reads, state \in {"processing", Last(attempts)} :
             seen' = Append(seen, [source |-> source, state |-> state])
       \/ \E state \in ProviderStates : seen' = Append(seen, [source |-> "webhook", state |-> state])
    /\ decision' = Undecided
    /\ UNCHANGED <<profile, attempts, delivered, goods, authority, checked>>

LearnDelivery ==
    /\ goods # delivered
    /\ goods' = delivered /\ decision' = Undecided
    /\ UNCHANGED <<profile, attempts, delivered, seen, authority, checked>>

ChangeAuthority ==
    /\ authority \in {"authorized", "unknown"}
    /\ authority' \in {"authorized", "revoked", "expired", "unknown"} \ {authority}
    /\ decision' = Undecided
    /\ UNCHANGED <<profile, attempts, delivered, seen, goods, checked>>

-----------------------------------------------------------------------------
(* reconcile_provider_observations                                         *)

Authoritative(source) == source # "webhook"

LatestOf(source) == SelectLastInSeq(seen, LAMBDA o : o.source = source)

(* Without a documented precedence: the one authoritative source that was   *)
(* read, its last answer; otherwise the last observation, which is not safe *)
(* to rely on.                                                              *)
Select_LastObservation == [state |-> Last(seen).state, safe |-> TRUE]

Select ==
    LET sources == {seen[i].source : i \in {j \in DOMAIN seen : Authoritative(seen[j].source)}}
        first   == profile.precedence[SelectInSeq(profile.precedence, LAMBDA s : LatestOf(s) # 0)]
    IN  IF profile.precedence # <<>>
        THEN [state |-> seen[LatestOf(first)].state, safe |-> Authoritative(first)]
        ELSE IF Cardinality(sources) = 1
        THEN [state |-> seen[LatestOf(CHOOSE s \in sources : TRUE)].state, safe |-> TRUE]
        ELSE [state |-> Last(seen).state, safe |-> FALSE]

Final == Select.safe /\ StateMap(Select.state) \in FinalOutcomes

Outcome ==
    IF Final \/ StateMap(Select.state) = "pending" THEN StateMap(Select.state) ELSE "unknown"

(* _retry_decision of the adapter and _retry_authority of the bridge. *)
RetryAuthority ==
    IF Outcome # "failed" THEN "not_applicable"
    ELSE IF profile.retry = "unresolved" THEN "unresolved" ELSE "documented"

RetryAllowed ==
    /\ Final /\ Outcome = "failed"
    /\ profile.retry = "documented" /\ Select.state \in profile.retryStates

-----------------------------------------------------------------------------
(* evaluate_agent_payment_decision                                         *)

Decision ==
    IF authority \in {"revoked", "expired"} THEN "STOP"
    ELSE IF authority = "unknown" THEN "HOLD"
    ELSE IF attempts = <<>> THEN "ALLOW"
    ELSE IF ~ Final \/ Outcome \in {"pending", "unknown"} THEN "RECONCILE"
    ELSE IF Outcome = "committed"
    THEN CASE profile.required /\ goods = "unknown" -> "RECONCILE"
           [] profile.required /\ goods = "not_delivered" -> "COMPENSATE"
           [] OTHER -> "STOP"
    ELSE IF RetryAuthority = "unresolved" THEN "HOLD"
    ELSE IF RetryAllowed THEN "ALLOW" ELSE "STOP"

Decide ==
    /\ decision = Undecided
    /\ attempts = <<>> \/ seen # <<>>
    /\ decision' = Decision
    /\ UNCHANGED <<profile, attempts, delivered, seen, goods, authority, checked>>

(* What evaluate_payment_fulfillment_scenario finds wrong with another      *)
(* payment now, when the contract keeps finality apart from fulfillment.    *)
Violations(payment, fulfillment) ==
    {code \in {"PFC-001", "PFC-003"} :
        /\ payment = "committed"
        /\ fulfillment = (IF code = "PFC-001" THEN "unknown" ELSE "not_delivered")}

(* The agent pays when the gate allows it, and then has no observation of   *)
(* the new attempt.                                                         *)
Pay ==
    /\ decision = "ALLOW" /\ Len(attempts) < MaxAttempts
    /\ checked' = checked \cup IF attempts = <<>> \/ ~ profile.required THEN {} ELSE Violations(Outcome, goods)
    /\ attempts' = Append(attempts, "processing")
    /\ seen' = <<>> /\ decision' = Undecided
    /\ UNCHANGED <<profile, delivered, goods, authority>>

Next ==
    \/ Settle \/ Deliver
    \/ Observe \/ LearnDelivery \/ ChangeAuthority
    \/ Decide \/ Pay

Spec == Init /\ [][Next]_vars

-----------------------------------------------------------------------------
Committed == {n \in DOMAIN attempts : attempts[n] = "succeeded"}
Unsettled == {n \in DOMAIN attempts : attempts[n] = "processing"}

(***************************************************************************)
(* Money moves once.  Whatever the notifications say and however late the  *)
(* reads are answered, the provider never commits two attempts, an attempt *)
(* is only made when every earlier one failed, and a second one only under *)
(* a profile that documents the retry; and an allowed action is one that   *)
(* the payment/fulfillment benchmark has nothing against.                  *)
(***************************************************************************)
MoneyMovesOnce ==
    /\ Cardinality(Committed) <= 1 /\ Cardinality(Committed \cup Unsettled) <= 1
    /\ \A n \in 1 .. Len(attempts) - 1 : attempts[n] \in profile.retryStates
    /\ decision = "ALLOW" => /\ authority = "authorized"
                             /\ Committed \cup Unsettled = {}
                             /\ attempts # <<>> => profile.retry = "documented"
    /\ decision = "COMPENSATE" => Committed # {} /\ delivered = "not_delivered"
    /\ checked = {}
=============================================================================

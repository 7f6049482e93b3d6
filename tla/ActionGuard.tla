----------------------------- MODULE ActionGuard -----------------------------
(***************************************************************************)
(* The agent action guard (action_guard.py).  An agent proposes actions, a *)
(* monitor decides, the action is executed, stopped or left, and a witness *)
(* may speak of it; the guard is run over the record of a session.  A      *)
(* later session may carry the refusals of an earlier one along, with the  *)
(* hash of its result.  Agent, monitor and witness are free to do          *)
(* anything; time is the clock of the recording side, which moves on.      *)
(* Subject 1 is the subject of the record.  "what" is all that the         *)
(* allowlists of tools, operations, targets and networks see of an action; *)
(* a path is normalized to the root it lies under, "escape" under none.    *)
(***************************************************************************)
EXTENDS Naturals, Sequences

CONSTANTS
    Envelopes,      \* [subject, ref, grantee, from, until, max, approval, what, read, write, maxActions]
    Proposals,      \* [subject, auth, actor, domain, capability, what, path, semantic]
    Witnesses,      \* [actor, domain, subject, sameAction, outcome, evidence], or NoWitness
    Monitor,        \* [actor, domain], the declared monitor
    Deciders,       \* the [actor, domain] pairs that may sign a decision
    Canaries,       \* [what, paths]
    MaxTime, MaxActions, MaxSessions    \* bounds of the clock, of a session's record and of the sessions

NoWitness == [actor |-> "none"]
Agent == [actor |-> "agent", domain |-> "a"]
Ladder == <<"READ_ONLY", "LOCAL_REPLAY", "SANDBOX_DYNAMIC", "AUTHORIZED_FORK", "LIVE_WRITE">>
Rank(capability) == CHOOSE i \in DOMAIN Ladder : Ladder[i] = capability

(* A capability is one of the ladder's, and an action without a path lies  *)
(* under no root.                                                          *)
GuardAssumption ==
    /\ \A e \in Envelopes : {e.from, e.until, e.maxActions} \subseteq Nat /\ \E i \in DOMAIN Ladder : Ladder[i] = e.max
    /\ \A p \in Proposals : /\ \E i \in DOMAIN Ladder : Ladder[i] = p.capability
                            /\ p.path.access = "NONE" => p.path.dir \notin Canaries.paths
    /\ MaxTime \in Nat /\ MaxActions \in Nat /\ MaxSessions \in Nat

VARIABLES
    now,
    envelope,
    actions,    \* the record of this session
    pending,    \* the action that is proposed or decided, or <<>>
    carried,    \* [denied, bound]: refusals of earlier sessions declared in this one, and whether a result hash is
    past        \* the results of the sessions: [status, actions, envelope, denied, carried]

vars == <<now, envelope, actions, pending, carried, past>>

Init ==
    /\ now = 1 /\ envelope \in Envelopes /\ actions = <<>> /\ pending = <<>>
    /\ carried = [denied |-> {}, bound |-> FALSE]
    /\ past = <<>>

-----------------------------------------------------------------------------
(* What happens and is recorded, in the order that validation requires. *)

Tick == /\ now < MaxTime /\ now' = now + 1
        /\ UNCHANGED <<envelope, actions, pending, carried, past>>

Propose(p) ==
    /\ pending = <<>> /\ Len(actions) < MaxActions
    /\ pending' = <<[p |-> p, proposed |-> now, decision |-> "none", by |-> Monitor, recorded |-> 0]>>
    /\ UNCHANGED <<now, envelope, actions, carried, past>>

Decide(decision, by) ==
    /\ pending # <<>> /\ pending[1].decision = "none"
    /\ pending' = <<[pending[1] EXCEPT !.decision = decision, !.by = by, !.recorded = now]>>
    /\ UNCHANGED <<now, envelope, actions, carried, past>>

Complete(outcome, receipt, witness) ==
    /\ pending # <<>> /\ pending[1].decision # "none"
    /\ actions' = Append(actions,
          [p |-> pending[1].p, proposed |-> pending[1].proposed, decision |-> pending[1].decision,
           by |-> pending[1].by, recorded |-> pending[1].recorded, outcome |-> outcome,
           completed |-> IF outcome = "NOT_EXECUTED" THEN 0 ELSE now, receipt |-> receipt, witness |-> witness])
    /\ pending' = <<>>
    /\ UNCHANGED <<now, envelope, carried, past>>

-----------------------------------------------------------------------------
(* The evaluation. *)

Within(path, roots) == path.dir \in roots

(* What the policy has against the index-th action. *)
Breaches(a, index, denied) == [
    AUTHORIZATION_SUBJECT_MISMATCH |-> envelope.subject # 1,
    AUTHORIZATION_GRANTEE_MISMATCH |-> envelope.grantee # Agent.actor,
    ACTION_SUBJECT_MISMATCH |-> a.p.subject # 1,
    ACTION_AUTH_REF_MISMATCH |-> a.p.auth # envelope.ref,
    ACTION_ACTOR_MISMATCH |-> a.p.actor # envelope.grantee \/ a.p.actor # Agent.actor,
    ACTION_FAILURE_DOMAIN_MISMATCH |-> a.p.domain # Agent.domain,
    MAX_ACTIONS_EXCEEDED |-> index > envelope.maxActions,
    CAPABILITY_EXCEEDS_AUTHORIZATION |-> Rank(a.p.capability) > Rank(envelope.max),
    LIVE_WRITE_REQUIRES_EXPLICIT_APPROVAL |-> a.p.capability = "LIVE_WRITE" /\ ~ envelope.approval,
    NOT_ALLOWED |-> a.p.what \notin envelope.what,
    AUTHORIZATION_NOT_YET_VALID |-> a.proposed < envelope.from \/ a.recorded < envelope.from,
    STALE_AUTHORIZATION |-> a.proposed > envelope.until \/ a.recorded > envelope.until \/ a.completed > envelope.until,
    READ_PATH_NOT_ALLOWED |-> a.p.path.access = "READ" /\ ~ Within(a.p.path, envelope.read),
    WRITE_PATH_NOT_ALLOWED |-> a.p.path.access = "WRITE" /\ ~ Within(a.p.path, envelope.write),
    CANARY_TOUCHED |-> a.p.what \in Canaries.what \/ (a.p.path.access # "NONE" /\ Within(a.p.path, Canaries.paths)),
    RETRY_AFTER_DENIAL |-> a.p.semantic \in denied]
PolicyReasons(a, index, denied) == {r \in DOMAIN Breaches(a, index, denied) : Breaches(a, index, denied)[r]}

WitnessState(a) ==
    LET executed == a.outcome = "EXECUTED"
        w == a.witness
        contradicted ==
            \/ w.actor \in {a.p.actor, Monitor.actor} \/ w.domain \in {a.p.domain, Monitor.domain}
            \/ w.subject # 1 \/ ~ w.sameAction \/ w.outcome # a.outcome
    IN  IF w = NoWitness THEN IF executed THEN "INCOMPLETE" ELSE "NOT_REQUIRED"
        ELSE IF contradicted THEN "INVALID"
        ELSE IF ~ w.evidence \/ (executed /\ ~ a.receipt) THEN "INCOMPLETE" ELSE "COMPLETE"

GlobalIntegrity ==
    envelope.subject # 1 \/ envelope.grantee # Agent.actor \/ Monitor.actor = Agent.actor \/ Monitor.domain = Agent.domain

GlobalHold == (carried.denied # {} /\ ~ carried.bound) \/ actions = <<>>

Expected(a, index, denied) ==
    IF PolicyReasons(a, index, denied) # {} \/ GlobalIntegrity THEN "DENY" ELSE "ALLOW"

Integrity(a, expected) ==
    \/ a.by # Monitor
    \/ expected = "DENY" /\ a.decision = "ALLOW"
    \/ a.outcome = "EXECUTED" /\ "DENY" \in {expected, a.decision}

ActionStatus(a, expected) ==
    IF Integrity(a, expected) \/ GlobalIntegrity THEN "fail"
    ELSE IF \/ expected = "DENY"
            \/ a.outcome = "STOPPED" \/ (a.decision = "DENY" /\ a.outcome # "EXECUTED")
            \/ WitnessState(a) \in {"INCOMPLETE", "INVALID"}
         THEN "hold" ELSE "pass"

DeniedAfter_RecordedOnly(denied, a, expected) ==
    IF a.decision = "DENY" THEN denied \cup {a.p.semantic} ELSE denied

DeniedAfter(denied, a, expected) ==
    IF "DENY" \in {expected, a.decision} THEN denied \cup {a.p.semantic} ELSE denied

(* The actions in order: the refusals that are known after n of them. *)
Known ==
    LET known[n \in 0 .. Len(actions)] ==
          IF n = 0 THEN carried.denied
          ELSE DeniedAfter(known[n - 1], actions[n], Expected(actions[n], n, known[n - 1]))
    IN  known

Evaluation ==
    LET seen == {ActionStatus(actions[i], Expected(actions[i], i, Known[i - 1])) : i \in DOMAIN actions}
    IN  [denied |-> Known[Len(actions)],
         status |-> IF GlobalIntegrity \/ "fail" \in seen THEN "fail"
                    ELSE IF GlobalHold \/ "hold" \in seen THEN "hold" ELSE "pass"]

Evaluate ==
    /\ pending = <<>> /\ Len(past) < MaxSessions
    /\ past' = Append(past, [status |-> Evaluation.status, actions |-> actions, envelope |-> envelope,
                             denied |-> Evaluation.denied, carried |-> carried])
    /\ actions' = <<>>
    /\ UNCHANGED <<now, envelope, pending, carried>>

(* A later session: its record declares refusals or none. *)
NewSession(denied, bound, e) ==
    /\ actions = <<>> /\ pending = <<>> /\ past # <<>>
    /\ carried' = [denied |-> denied, bound |-> bound]
    /\ envelope' = e
    /\ UNCHANGED <<now, actions, pending, past>>

Next ==
    \/ Tick
    \/ \E p \in Proposals : Propose(p)
    \/ \E d \in {"ALLOW", "DENY"}, by \in Deciders : Decide(d, by)
    \/ \E o \in {"NOT_EXECUTED", "STOPPED", "EXECUTED"}, r \in BOOLEAN, w \in Witnesses : Complete(o, r, w)
    \/ Evaluate
    \/ \E denied \in {{}} \cup {past[i].denied : i \in DOMAIN past}, bound \in BOOLEAN, e \in Envelopes :
          NewSession(denied, bound, e)

Spec == Init /\ [][Next]_vars
-----------------------------------------------------------------------------
(* What the envelope e lets a do, read at the moments at which it happened. *)
InEnvelope(a, e) ==
    /\ e.subject = 1 /\ a.p.subject = 1 /\ a.p.auth = e.ref /\ {e.grantee, a.p.actor} = {Agent.actor}
    /\ e.from <= a.proposed /\ a.proposed <= a.recorded /\ a.recorded <= e.until
    /\ a.completed <= e.until
    /\ a.p.what \in e.what \ Canaries.what
    /\ a.p.path.dir \notin Canaries.paths
    /\ a.p.path.access = "READ" => a.p.path.dir \in e.read
    /\ a.p.path.access = "WRITE" => a.p.path.dir \in e.write
    /\ Rank(a.p.capability) <= Rank(e.max)
    /\ a.p.capability = "LIVE_WRITE" => e.approval

Witnessed(a) ==
    /\ a.receipt /\ a.witness # NoWitness
    /\ a.witness.actor \notin {a.p.actor, Monitor.actor} /\ a.witness.domain \notin {a.p.domain, Monitor.domain}
    /\ a.witness.sameAction /\ a.witness.outcome = "EXECUTED" /\ a.witness.evidence

(* Refused for what it is, whatever was refused before it. *)
Refused(a, e) == a.decision = "DENY" \/ ~ InEnvelope(a, e)

(***************************************************************************)
(* The forbidden paths of docs/AGENT_ACTION_GUARD.md, over all sessions:   *)
(* unless a session's result is a failure, whatever it executed was within *)
(* the envelope in force, allowed by the declared monitor before it ended, *)
(* inside the action budget, and not the semantic identity of anything     *)
(* refused earlier in that session or in one whose refusals reach it       *)
(* through declared histories.  And a session that passes executed with an *)
(* independent witness, leaves nothing refused behind it, and starts from  *)
(* no refusal whose result it does not name.                               *)
(***************************************************************************)
NothingForbiddenPasses ==
    \A s \in DOMAIN past :
        LET result == past[s]
            earlier(i) ==
                {result.actions[j].p.semantic : j \in {k \in 1..(i - 1) : Refused(result.actions[k], result.envelope)}}
        IN  /\ result.status # "fail" => \A i \in DOMAIN result.actions :
                  result.actions[i].outcome = "EXECUTED" =>
                      /\ InEnvelope(result.actions[i], result.envelope)
                      /\ result.actions[i].decision = "ALLOW" /\ result.actions[i].by = Monitor
                      /\ i <= result.envelope.maxActions
                      /\ result.actions[i].p.semantic \notin earlier(i) \cup result.carried.denied
            /\ result.status = "pass" =>
                  /\ result.actions # <<>>
                  /\ result.carried.denied # {} => result.carried.bound
                  /\ \A i \in DOMAIN result.actions :
                        /\ result.actions[i].outcome = "EXECUTED" => Witnessed(result.actions[i])
                        /\ ~ Refused(result.actions[i], result.envelope)
                        /\ result.actions[i].p.semantic \notin earlier(i)
            /\ \A i \in DOMAIN result.actions :
                  Refused(result.actions[i], result.envelope) => result.actions[i].p.semantic \in result.denied
            /\ result.carried.denied \subseteq result.denied
=============================================================================

----------------------------- MODULE Orientation -----------------------------
(***************************************************************************)
(* Effective validity of an event within a causal trace                    *)
(* (ancestral_validity.py), dependence of a result on the order of two     *)
(* operations (transition_geometry.py), and the orientation center that    *)
(* takes the receipts of both, with declared statuses and counterevidence, *)
(* for one subject (orientation_center.py).  Events reach the trace in any *)
(* order, whatever the time they bear; the subject may be replaced; and    *)
(* whoever asks the center chooses which receipts and which               *)
(* counterevidence to hand in.                                             *)
(*                                                                         *)
(* An event is [id, kind, actor, at, ok, parent, scope, expires,           *)
(* supersedes, handoff, authority, grants, evidence, fault]; 0 and ""      *)
(* stand for what an event does not have.                                  *)
(***************************************************************************)
EXTENDS Naturals, FiniteSets

CONSTANTS
    Events,         \* the events that may be recorded
    Models,         \* geometry models [origin, aThenB, bThenA, returned, required]; the first four are
                    \* endpoints [state, effects, history, subject]
    Declarations,   \* [ancestry, authority, supporting, debt, witness]: sets of declared statuses
    Requirements,   \* the sets of requirements a bundle may state
    CounterIds      \* the counterevidence that the requirements expect

OrientationAssumption == \A e \in Events : e.id # 0 /\ e.at \in Nat /\ e.expires \in Nat

VARIABLES
    subject,        \* 1, then 2: the subject now
    trace,          \* the events recorded
    ancestry,       \* ancestry receipts: [subject, target, effective, seen], seen the trace it is about
    geometry,       \* geometry receipts: [subject, pair, loop]
    counter,        \* CounterIds -> {"open", "confirmed", "refuted"}
    center          \* [readiness, subject, ancestry, geometry, counter, requires], "none" before the first

vars == <<subject, trace, ancestry, geometry, counter, center>>

NoCenter == [readiness |-> "none", subject |-> subject, ancestry |-> {}, geometry |-> {}, counter |-> counter, requires |-> {}]

Init ==
    /\ subject = 1 /\ trace = {} /\ ancestry = {} /\ geometry = {}
    /\ counter \in [CounterIds -> {"open", "confirmed", "refuted"}]
    /\ center = NoCenter

-----------------------------------------------------------------------------
(* Ancestral validity. *)

Known(events, id) == \E e \in events : e.id = id
Get(events, id) == CHOOSE e \in events : e.id = id

(* The events on the way from target to its root, as far as they are there. *)
Chain(target, events) ==
    LET up[n \in 0..Cardinality(events)] ==
          IF n = 0 THEN {target}
          ELSE LET below == up[n - 1] IN below \cup {e \in events : \E d \in below : d.parent = e.id}
    IN  up[Cardinality(events)]

(* A parent that is missing or a cycle: the chain has no root. *)
Roots(target, events) == {e \in Chain(target, events) : e.parent = 0}

(* What is visible to the target's scope up to the target's time. *)
InScope(e, target) == target.scope = 0 \/ e.scope \in {0, target.scope}
Foreign(e, target) == target.scope # 0 /\ e.scope \notin {0, target.scope}
Before(target, events) == {e \in events : e.at <= target.at /\ InScope(e, target)}

FreshApproval(rejection, target, events) ==
    \E e \in Before(target, events) \cap Chain(target, events) : e.kind = "APPROVAL" /\ e.at > rejection.at

RejectedReuse_EarlierApproval(target, events) ==
    \E r \in Before(target, events) :
        /\ r.kind = "REJECTION"
        /\ r.supersedes \cap {e.id : e \in Chain(target, events)} # {}
        /\ ~ \E e \in Before(target, events) \cap Chain(target, events) : e.kind = "APPROVAL"

RejectedReuse(target, events) ==
    \E r \in Before(target, events) :
        /\ r.kind = "REJECTION"
        /\ r.supersedes \cap {e.id : e \in Chain(target, events)} # {}
        /\ ~ FreshApproval(r, target, events)

StaleParent(target, events) ==
    \E e \in Chain(target, events) \ {target} :
        e.kind = "APPROVAL" /\ (Foreign(e, target) \/ (e.expires # 0 /\ e.expires < target.at))

MissingHandoff(target, events) ==
    target.handoff /\
    ~ \E h \in Before(target, events) : h.id = target.authority /\ h.kind = "HANDOFF" /\ h.grants = target.actor

Findings(target, events) ==
    {f \in {"ANCESTRY_BROKEN", "LOCAL_INVALID", "INVALID_ROOT_INHERITANCE", "FOREIGN_SCOPE_ANCESTOR", "STALE_PARENT",
            "REJECTED_BRANCH_REUSE", "MISSING_AUTHORITY_HANDOFF", "MEMORY_WITHOUT_EVIDENCE_ORIGIN",
            "REMEDIATION_WITHOUT_FAULT_LINK"} :
        CASE f = "ANCESTRY_BROKEN" -> Roots(target, events) = {}
          [] f = "LOCAL_INVALID" -> ~ target.ok
          [] f = "INVALID_ROOT_INHERITANCE" -> \E e \in Roots(target, events) : ~ e.ok
          [] f = "FOREIGN_SCOPE_ANCESTOR" -> \E e \in Chain(target, events) : Foreign(e, target)
          [] f = "STALE_PARENT" -> StaleParent(target, events)
          [] f = "REJECTED_BRANCH_REUSE" -> RejectedReuse(target, events)
          [] f = "MISSING_AUTHORITY_HANDOFF" -> MissingHandoff(target, events)
          [] f = "MEMORY_WITHOUT_EVIDENCE_ORIGIN" ->
                \E e \in Chain(target, events) : e.kind = "MEMORY" /\ ~ Known(events, e.evidence)
          [] f = "REMEDIATION_WITHOUT_FAULT_LINK" ->
                target.kind = "REMEDIATION" /\ ~ \E e \in events : e.id = target.fault /\ e.kind = "FAULT"}

Validity(target, events) == IF Findings(target, events) = {} THEN "valid_within_trace" ELSE "invalid"

(* An event id is recorded once. *)
Record(e) ==
    /\ ~ Known(trace, e.id)
    /\ trace' = trace \cup {e}
    /\ UNCHANGED <<subject, ancestry, geometry, counter, center>>

AssessAncestry(target) ==
    /\ ancestry' = ancestry \cup
          {[subject |-> subject, target |-> target, effective |-> Validity(target, trace), seen |-> trace]}
    /\ UNCHANGED <<subject, trace, geometry, counter, center>>

-----------------------------------------------------------------------------
(* Transition geometry: a then b against b then a, and a loop back to the origin. *)

Compare(l, r) ==
    CASE <<l.state, l.effects>> # <<r.state, r.effects>> -> "changed"
      [] <<l.state, l.effects>> = <<r.state, r.effects>> /\ l.history # r.history -> "history"
      [] OTHER -> "same"

(* An endpoint that names another subject, or none where one is required, is an error. *)
Bound(endpoint, required) == endpoint.subject = subject \/ (endpoint.subject = 0 /\ ~ required)

MeasureGeometry(m) ==
    /\ \A e \in {m.origin, m.aThenB, m.bThenA, m.returned} : Bound(e, m.required)
    /\ geometry' = geometry \cup
          {[subject |-> subject, pair |-> Compare(m.aThenB, m.bThenA), loop |-> Compare(m.origin, m.returned)]}
    /\ UNCHANGED <<subject, trace, ancestry, counter, center>>

ChangeSubject ==
    /\ subject = 1 /\ subject' = 2
    /\ UNCHANGED <<trace, ancestry, geometry, counter, center>>

-----------------------------------------------------------------------------
(* The orientation center.  A bundle is the declarations d, the            *)
(* requirements, and the receipts and counterevidence handed in.           *)

Hard(d, requires, receipts, ids) ==
    \/ "ancestry" \in requires /\ d.ancestry = "bad"
    \/ "authority" \in requires /\ d.authority = "bad"
    \/ \E r \in receipts : r.effective = "invalid"
    \/ "bad" \in d.supporting \/ "bad" \in d.debt \/ "bad" \in d.witness
    \/ CounterIds \ ids # {}
    \/ \E c \in ids : counter[c] = "confirmed"

Unresolved(d, requires, receipts, forms, ids) ==
    \/ "ancestry" \in requires /\ d.ancestry = "open"
    \/ "authority" \in requires /\ d.authority = "open"
    \/ "geometry" \in requires /\ forms = {}
    \/ \E g \in forms : "changed" \in {g.pair, g.loop}
    \/ "receipt" \in requires /\ receipts = {}
    \/ "supporting" \in requires /\ "good" \notin d.supporting
    \/ "open" \in d.debt
    \/ "witness" \in requires /\ "good" \notin d.witness
    \/ \E c \in ids : counter[c] = "open"

SubjectBound(receipts, forms) == \A r \in receipts \cup forms : r.subject = subject

Readiness(d, requires, receipts, forms, ids) ==
    IF Hard(d, requires, receipts, ids) THEN "UNSTABLE"
    ELSE IF Unresolved(d, requires, receipts, forms, ids) THEN "INDETERMINATE" ELSE "BALANCED"

Orient(d, requires, receipts, forms, ids) ==
    /\ SubjectBound(receipts, forms)
    /\ center' = [readiness |-> Readiness(d, requires, receipts, forms, ids), subject |-> subject,
                  ancestry |-> receipts, geometry |-> forms, counter |-> counter, requires |-> requires]
    /\ UNCHANGED <<subject, trace, ancestry, geometry, counter>>

Investigate(c) ==
    /\ counter[c] = "open"
    /\ \E s \in {"confirmed", "refuted"} : counter' = [counter EXCEPT ![c] = s]
    /\ UNCHANGED <<subject, trace, ancestry, geometry, center>>

Next ==
    \/ \E e \in Events : Record(e)
    \/ \E t \in trace : AssessAncestry(t)
    \/ \E m \in Models : MeasureGeometry(m)
    \/ ChangeSubject
    \/ \E d \in Declarations, requires \in Requirements, receipts \in SUBSET ancestry, forms \in SUBSET geometry,
          ids \in SUBSET CounterIds : Orient(d, requires, receipts, forms, ids)
    \/ \E c \in CounterIds : Investigate(c)

Spec == Init /\ [][Next]_vars

-----------------------------------------------------------------------------
(* t stands at its own time, told step by step: every link up to a root is *)
(* there, and walking the timeline from the root to t, a branch that is    *)
(* taken back is approved again before it is used.                         *)
Stands(t, events) ==
    LET timeline == {e \in events : e.at <= t.at}
        on == Chain(t, events)
    IN  /\ \A e \in on : e.parent # 0 => \E p \in events : p.id = e.parent
        /\ \E e \in on : e.parent = 0
        /\ \A r \in timeline : r.kind = "REJECTION" /\ (t.scope = 0 \/ r.scope \in {0, t.scope}) =>
              \/ \A e \in on : e.id \notin r.supersedes
              \/ \E a \in timeline \cap on : a.kind = "APPROVAL" /\ a.at > r.at
        /\ \A a \in on \ {t} : a.kind = "APPROVAL" => a.expires = 0 \/ a.expires >= t.at

(***************************************************************************)
(* Readiness outlives what happens later.  When the center said BALANCED,  *)
(* its receipts are about its own subject and no counterevidence that was  *)
(* expected was then open or confirmed, whatever was handed in; and each   *)
(* event it vouches for still stands in the trace of today, valid or        *)
(* taken back by nothing, unless an event that bears an earlier time than  *)
(* the vouched-for event, or the same, reached the trace afterwards.       *)
(***************************************************************************)
BalancedStands ==
    center.readiness = "BALANCED" =>
        /\ \A c \in CounterIds : center.counter[c] = "refuted"
        /\ "receipt" \in center.requires => center.ancestry # {}
        /\ \A g \in center.geometry : g.subject = center.subject /\ g.pair # "changed"
        /\ \A r \in center.ancestry :
              /\ r.subject = center.subject
              /\ (\A e \in trace \ r.seen : e.at > r.target.at) =>
                    Stands(r.target, trace) /\ Validity(r.target, trace) = "valid_within_trace"
=============================================================================

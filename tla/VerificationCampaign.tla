------------------------ MODULE VerificationCampaign ------------------------
(***************************************************************************)
(* Verification work under a capacity and a budget (active_verification.py,*)
(* verification_debt.py).  Campaign after campaign, the planner admits     *)
(* work in the order of its score; workers execute it, fail, or lose it;   *)
(* what an execution cost replaces its estimate; callers may declare work  *)
(* not applicable; the subject may change under all of them.  The debt     *)
(* evaluation says whether the required work on this subject is resolved.  *)
(***************************************************************************)
EXTENDS Integers, FiniteSets, Sequences, SequencesExt, TLC

CONSTANTS
    Work,          \* identifiers, naturals in their order
    Value,         \* Work -> what risk, priority and information gain add to the score
    Units,         \* Work -> capacity that it needs
    Estimated,     \* Work -> its estimated cost
    Prerequisites, \* Work -> work that must be completed before
    Required,      \* required work
    Unmodelled,    \* work without an expected information gain
    Waivable,      \* bound of the work that callers declare not applicable
    Capacity, Budget, AgeWeight, CostWeight, \* the policy
    RequireGain,   \* the policy demands an expected information gain
    Observed,      \* costs that an execution may turn out to have
    MaxAge,        \* bound of the age
    MaxSubjects    \* bound of the subjects

CampaignAssumption ==
    /\ Work \subseteq Nat /\ Required \cup Unmodelled \cup Waivable \subseteq Work
    /\ AgeWeight \in Nat \ {0} /\ CostWeight \in Nat /\ MaxAge \in Nat /\ MaxSubjects \in Nat \ {0}

VARIABLES
    subject,   \* what is verified
    record,    \* Work -> [status, subject]: the callers' list of work
    age,       \* Work -> campaigns it has waited
    cost,      \* Work -> the cost that planning uses
    completed, \* work completed on this subject
    verdict,   \* the last debt evaluation on this subject, or "none"
    verified   \* work that an execution on this subject passed

vars == <<subject, record, age, cost, completed, verdict, verified>>

Open == {"SUBMITTED", "DEFERRED_CAPACITY", "DEFERRED_BUDGET", "DEFERRED_OVERSIZED", "BLOCKED"}
IsOpen(w) == record[w].status \in Open

Init ==
    /\ subject = 1 /\ record = [w \in Work |-> [status |-> "SUBMITTED", subject |-> 1]]
    /\ age = [w \in Work |-> 0] /\ cost = Estimated
    /\ completed = {} /\ verdict = "none" /\ verified = {}

-----------------------------------------------------------------------------
(* active_verification.py *)
Score_Ageless(w) == Value[w] - cost[w] * CostWeight
Score(w) == Value[w] + age[w] * AgeWeight - cost[w] * CostWeight

Blocked(w) == ~(Prerequisites[w] \subseteq completed) \/ (RequireGain /\ w \in Unmodelled)
Oversized(w) == Units[w] > Capacity \/ cost[w] > Budget
Eligible == {w \in Work : IsOpen(w) /\ ~Blocked(w) /\ ~Oversized(w)}

(* By descending score, then by name. *)
Ranked == SetToSortSeq(Eligible, LAMBDA v, w : Score(v) > Score(w) \/ (Score(v) = Score(w) /\ v < w))

(* What is left after an item, and what became of it. *)
Place(left, w) ==
    LET put(d) == [left EXCEPT !.status = @ @@ (w :> d)] IN
    IF Units[w] > left.capacity THEN put("DEFERRED_CAPACITY")
    ELSE IF cost[w] > left.budget THEN put("DEFERRED_BUDGET")
    ELSE [put("ADMITTED") EXCEPT !.capacity = @ - Units[w], !.budget = @ - cost[w]]

Planned == FoldLeft(Place, [capacity |-> Capacity, budget |-> Budget, status |-> <<>>], Ranked)

Disposition(w, planned) ==
    IF ~IsOpen(w) THEN record[w].status
    ELSE IF Blocked(w) THEN "BLOCKED" ELSE IF Oversized(w) THEN "DEFERRED_OVERSIZED" ELSE planned.status[w]

(* A campaign is refused unless all its work is of its subject.  What it   *)
(* leaves waiting grows older.                                             *)
Plan ==
    /\ \A w \in Work : IsOpen(w) => record[w].subject = subject
    /\ LET planned == Planned
           status == [w \in Work |-> Disposition(w, planned)] IN
       /\ record' = [w \in Work |-> [record[w] EXCEPT !.status = status[w]]]
       /\ age' = [w \in Work |-> IF status[w] \in Open THEN (IF age[w] < MaxAge THEN age[w] + 1 ELSE MaxAge) ELSE 0]
    /\ UNCHANGED <<subject, cost, completed, verdict, verified>>

-----------------------------------------------------------------------------
(* Workers and callers. *)
Mark(w, status) == record' = [record EXCEPT ![w].status = status]

(* An execution ends, perhaps on a subject that is not current any more;   *)
(* its cost is recorded for exactly this work.                             *)
Execute(w, status, c) ==
    /\ record[w].status = "ADMITTED" /\ Mark(w, status) /\ cost' = [cost EXCEPT ![w] = c]
    /\ completed' = IF record[w].subject = subject THEN completed \cup {w} ELSE completed
    /\ verified' = IF record[w].subject = subject /\ status = "COMPLETED_PASS" THEN verified \cup {w} ELSE verified
    /\ UNCHANGED <<subject, age, verdict>>

(* A worker dies, or what is done is to be done again. *)
Resubmit(w) ==
    /\ ~IsOpen(w) /\ record[w].subject = subject /\ Mark(w, "SUBMITTED")
    /\ verified' = verified \ {w}
    /\ UNCHANGED <<subject, age, cost, completed, verdict>>

(* A caller lists the work as not applicable: no execution is needed, and  *)
(* none that there was, passed or failed, is asked about any more.         *)
Waive(w) ==
    /\ w \in Waivable /\ record[w].subject = subject /\ Mark(w, "NOT_APPLICABLE")
    /\ verified' = verified \ {w} /\ age' = [age EXCEPT ![w] = 0]
    /\ UNCHANGED <<subject, cost, completed, verdict>>

ChangeSubject ==
    /\ subject < MaxSubjects /\ subject' = subject + 1
    /\ completed' = {} /\ verified' = {} /\ verdict' = "none"
    /\ UNCHANGED <<record, age, cost>>

(* The caller lists the work anew for the new subject. *)
Rebind(w) ==
    /\ record[w].subject # subject
    /\ record' = [record EXCEPT ![w] = [status |-> "SUBMITTED", subject |-> subject]]
    /\ UNCHANGED <<subject, age, cost, completed, verdict, verified>>

-----------------------------------------------------------------------------
(* verification_debt.py: refused unless every record is of this subject. *)
Resolved_Done == {"COMPLETED_PASS", "COMPLETED", "NOT_APPLICABLE"}
Resolved == {"COMPLETED_PASS", "NOT_APPLICABLE"}
Failed == {"COMPLETED_FAIL"}

Debt ==
    LET has(s) == \E w \in Required : record[w].status \in s IN
    /\ \A w \in Work : record[w].subject = subject
    /\ verdict' = IF has(Failed) THEN "fail" ELSE IF \A w \in Required : record[w].status \in Resolved THEN "pass" ELSE "hold"
    /\ UNCHANGED <<subject, record, age, cost, completed, verified>>

Next ==
    \/ Plan \/ Debt \/ ChangeSubject
    \/ \E w \in Work : Resubmit(w) \/ Waive(w) \/ Rebind(w)
    \/ \E w \in Work, s \in {"COMPLETED", "COMPLETED_PASS", "COMPLETED_FAIL"}, c \in Observed : Execute(w, s, c)

(* Campaigns go on, and the lists are brought up to date. *)
Spec == Init /\ [][Next]_vars
FairSpec == Spec /\ WF_vars(Plan) /\ \A w \in Work : WF_vars(Rebind(w))

-----------------------------------------------------------------------------
(* Anti-starvation (docs/ACTIVE_VERIFICATION.md): while better work comes  *)
(* back for ever, and whatever executions turn out to cost, work that fits *)
(* the policy and is not blocked does not wait for ever.                   *)
NothingStarves == \A w \in Work : (w \in Eligible) ~> (w \notin Eligible)

(* What a caller declared not applicable to the current subject. *)
Waived == {w \in Work : record[w] = [status |-> "NOT_APPLICABLE", subject |-> subject]}

(* The debt of a subject is found settled only in a step at which each     *)
(* required piece of work either has an execution of its own that passed   *)
(* on this subject, not one that merely ended and not one for an earlier   *)
(* subject, or was declared not applicable to this very subject by a       *)
(* caller: the waiver of an earlier subject does not count.                *)
SettledByPasses == verdict' = "pass" /\ verdict # "pass" => Required \subseteq verified \cup Waived

(* Every step that settles the debt settles it so. *)
SettledIsVerified == [][SettledByPasses]_vars
=============================================================================

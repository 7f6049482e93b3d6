---------------------------- MODULE HydratedTrace ----------------------------
(***************************************************************************)
(* The hydrated contract lattice.  A contract executes transactions that   *)
(* commit a transition of its state and version, apply a payment, or       *)
(* revert; observers report them, some twice under another event id, some  *)
(* never.  The reports form an execution trace, which is assessed for      *)
(* double payments, for forks of the state's history and for agreement     *)
(* with the static lattice, and composed with a race model.                *)
(***************************************************************************)
EXTENDS Naturals, FiniteSets

CONSTANTS
    States, Initial,
    Operations,
    Allowed,          \* transitions <<source, operation, target>> of the static lattice
    AuthorityOps,     \* operations whose commits need an authority reference
    TimeOps,          \* operations whose commits need a time witness
    Slots,            \* pairs (actionId, effectKey)
    RaceModels,       \* the race models that may be composed with a trace
    MaxTransactions,
    MaxReports        \* of one transaction

(* protective_ordering_model_from_dict: whether both actions are enabled,  *)
(* whether the right must survive, and the orders in which it does.        *)
RaceShapes == [enabled : BOOLEAN, guaranteed : BOOLEAN, preserved : SUBSET {"protectiveFirst", "competingFirst"}]

LatticeAssumption ==
    /\ Initial \in States
    /\ Allowed \subseteq States \X Operations \X States
    /\ AuthorityOps \subseteq Operations /\ TimeOps \subseteq Operations
    /\ "none" \notin Slots /\ RaceModels \subseteq RaceShapes
    /\ MaxTransactions \in Nat /\ MaxReports \in Nat

VARIABLES
    transactions,  \* what the contract executed, reverted attempts included
    events,        \* the execution trace: [eventId, tx] where tx is the transaction reported
    assessment     \* inputs and verdict of the assessment, once there is one

vars == <<transactions, events, assessment>>

Pending == [verdict |-> "none"]

Init == transactions = {} /\ events = {} /\ assessment = Pending

-----------------------------------------------------------------------------
(* The contract.  A transaction has at most one commit and one payment;    *)
(* its number identifies both (commitId, occurrenceId).                    *)

Happened == {t \in transactions : ~ t.reverted}
Commits(ts)  == {t \in ts : t.commits}
Payments(ts) == {t \in ts : t.slot # "none"}

Source(t) == <<t.source, t.parentVersion>>
Target(t) == <<t.target, t.version>>

(* The points of the contract's history: a defective contract may commit   *)
(* from one that already has a successor, and by a step of two versions.   *)
Points == {<<Initial, 0>>} \cup {Target(t) : t \in Commits(Happened)}

Execute ==
    /\ assessment = Pending
    /\ Cardinality(transactions) < MaxTransactions
    /\ \E point \in Points, operation \in Operations, target \in States, step \in {1, 2},
          commits \in BOOLEAN, slot \in Slots \cup {"none"}, reverted \in BOOLEAN :
          /\ commits \/ slot # "none"
          /\ ~ commits => point = <<Initial, 0>> /\ operation = CHOOSE o \in Operations : TRUE
          /\ ~ commits => target = Initial /\ step = 1
          /\ transactions' = transactions \cup
                {[id |-> Cardinality(transactions) + 1, commits |-> commits, slot |-> slot, reverted |-> reverted,
                  source |-> point[1], parentVersion |-> point[2], operation |-> operation,
                  target |-> target, version |-> point[2] + step]}
    /\ UNCHANGED <<events, assessment>>

(* An observer reports a transaction, perhaps one that was reported.       *)
Report ==
    /\ assessment = Pending
    /\ \E t \in transactions :
          LET n == Cardinality({e \in events : e.tx = t}) + 1
          IN  /\ n <= MaxReports
              /\ events' = events \cup {[eventId |-> <<t.id, n>>, tx |-> t]}
    /\ UNCHANGED <<transactions, assessment>>

-----------------------------------------------------------------------------
(* run_execution_trace                                                     *)

Observed  == {e.tx : e \in events}
Committed == Commits({t \in Observed : ~ t.reverted})
Applied   == Payments({t \in Observed : ~ t.reverted})

EconomicStatus ==
    IF Payments(Observed) = {} THEN "not_applicable"
    ELSE IF \E t, u \in Applied : t.id # u.id /\ t.slot = u.slot THEN "fail"
    ELSE "pass"

(* Counts the observations of a parent, not the commits. *)
SuccessorStatus_PerObservation ==
    IF Commits(Observed) = {} THEN "not_applicable"
    ELSE IF \E e, f \in events : /\ {e.tx, f.tx} \subseteq Committed
                                 /\ e.eventId # f.eventId /\ Source(e.tx) = Source(f.tx) THEN "fail"
    ELSE "pass"

SuccessorStatus ==
    IF Commits(Observed) = {} THEN "not_applicable"
    ELSE IF \E t, u \in Committed : t.id # u.id /\ Source(t) = Source(u) THEN "fail"
    ELSE "pass"

TraceStatus ==
    LET applicable == {EconomicStatus, SuccessorStatus} \ {"not_applicable"}
    IN  IF applicable = {} THEN "inconclusive" ELSE IF "fail" \in applicable THEN "fail" ELSE "pass"

-----------------------------------------------------------------------------
(* run_hydrated_lattice and the composition with the race model            *)

Conforms(t) == <<t.source, t.operation, t.target>> \in Allowed /\ t.version = t.parentVersion + 1

ConformanceStatus ==
    IF Committed = {} THEN "inconclusive"
    ELSE IF \A t \in Committed : Conforms(t) THEN "pass" ELSE "fail"

Needed(t) ==
    {"evidence"} \cup (IF t.operation \in AuthorityOps THEN {"authority"} ELSE {})
                 \cup (IF t.operation \in TimeOps THEN {"time"} ELSE {})

(* "lacking" holds the pairs (commit, kind) without a reference. *)
BindingStatus(lacking) ==
    IF Committed # {} /\ \A t \in Committed : \A kind \in Needed(t) : <<t.id, kind>> \notin lacking
    THEN "pass" ELSE "inconclusive"

HydratedStatus(static, lacking) ==
    IF "fail" \in {static, TraceStatus, ConformanceStatus} THEN "fail"
    ELSE IF {static, ConformanceStatus, BindingStatus(lacking), EconomicStatus, SuccessorStatus} = {"pass"}
    THEN "pass"
    ELSE "inconclusive"

RaceStatus(race) ==
    IF ~ race.enabled \/ ~ race.guaranteed THEN "inconclusive"
    ELSE IF race.preserved = {"protectiveFirst", "competingFirst"} THEN "pass" ELSE "fail"

Compose(base, race) ==
    IF "fail" \in {base, race} THEN "fail"
    ELSE IF {base, race} = {"pass"} THEN "pass" ELSE "inconclusive"

Assess ==
    /\ assessment = Pending
    /\ \E static \in {"pass", "fail", "inconclusive"},
          lacking \in {{}} \cup {{<<t.id, kind>> : t \in Committed} : kind \in {"evidence", "authority", "time"}},
          race \in {{}} \cup {{r} : r \in RaceModels} :
          LET hydrated == HydratedStatus(static, lacking)
          IN  assessment' = [static |-> static, lacking |-> lacking, race |-> race,
                             verdict |-> IF race = {} THEN hydrated
                                         ELSE Compose(hydrated, RaceStatus(CHOOSE r \in race : TRUE))]
    /\ UNCHANGED <<transactions, events>>

Next == Execute \/ Report \/ Assess

Spec == Init /\ [][Next]_vars

-----------------------------------------------------------------------------
(* What is really wrong with what the contract did, not with the reports.  *)

Forked ==  \* with unit steps: two points of the history have one version, or one is reached twice
    Cardinality({Target(t)[2] : t \in Commits(Happened)}) # Cardinality(Commits(Happened))

PaidTwice == \E slot \in Slots : Cardinality({t \in Happened : t.slot = slot}) > 1

Deviates == \E t \in Commits(Happened) : <<t.source, t.operation, t.target>> \notin Allowed

Skips == \E t \in Commits(Happened) : t.version # t.parentVersion + 1

RightDefeated == \E r \in assessment.race : r.enabled /\ r.guaranteed /\ r.preserved # {"protectiveFirst", "competingFirst"}

Sound == ~ Forked /\ ~ PaidTwice /\ ~ Deviates /\ ~ Skips

(***************************************************************************)
(* The verdict is earned.  A pass over a trace that lost no transaction    *)
(* means that the contract's history is one chain of allowed unit steps    *)
(* without a double payment, that both a commit and a payment were seen,   *)
(* and that no required reference is missing; a fail is never an artefact  *)
(* of reports delivered twice, in another order or in part: the static     *)
(* lattice, the contract or the race model is really at fault.  And a      *)
(* fault of the contract that was reported completely is never passed.     *)
(***************************************************************************)
VerdictIsEarned ==
    /\ assessment.verdict = "pass" =>
         /\ Observed = transactions => Sound
         /\ Commits(Happened) # {} /\ Payments(transactions) # {}
         /\ assessment.static = "pass" /\ ~ RightDefeated
         /\ \A t \in Committed : \A kind \in Needed(t) : <<t.id, kind>> \notin assessment.lacking
    /\ assessment.verdict = "fail" => assessment.static = "fail" \/ ~ Sound \/ RightDefeated
    /\ assessment # Pending /\ Observed = transactions /\ ~ Sound => assessment.verdict = "fail"
=============================================================================

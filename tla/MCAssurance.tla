----------------------------- MODULE MCAssurance -----------------------------
(***************************************************************************)
(* What an assurance rests on, on small instances: submitted proofs and    *)
(* their registry, control bundles, rounds of repairs, the change gate,    *)
(* independent witnesses, traces, and the verdicts on payments.  They do   *)
(* not run together here: a behaviour is of one of them, its `part`, and   *)
(* the variables of the others stand still.                                *)
(***************************************************************************)
EXTENDS Naturals, Sequences, FiniteSets, TLC

CONSTANTS
    Parts,
    Submissions, KeyRows, KeyIds, Secrets, Catalogs, Profiles, Bytes, Convincing, MaxChanges, FirstKeys, FirstCatalog, \* ProofAdmission
    Nodes, Edges, MaxNodes, MaxEdges,                      \* ProofRegistry
    Manifests, Reaches, Controls, Invariants, MaxEdits,    \* ControlBundle
    Repairs, Elements, Snapshots, Scopes, MaxCandidates,   \* RepairSelection
    Base, Pushes,                                          \* ChangeGate
    EventIds, Objects, Sources, Domains, Observer,              \* IndependentWitness
    Events, MaxRecords, MaxTroubles,                       \* TraceIntegrity
    Operations, Executions, Keys, NoKey, Policies, MaxEvents, \* PaymentRecovery
    Adapters, MaxAttempts, MaxObservations                 \* ProviderPayment

VARIABLES
    part,
    keys, catalog, hosted, submitted, pc, run, decision, signed, report, edits, active, offered, processed,   \* ProofAdmission
    rows, links, phase, at, owner, incoming, degree, queue, visited, answer,                                  \* ProofRegistry
    manifest, result, reach, finding, bundle, place, held, control, step, basis, upgraded, delivered, changes, \* ControlBundle
    baseline, candidates, scope, found, selected, unbroken,                                                   \* RepairSelection
    base, heads, current, results, cut, measured, proof,                                                      \* ChangeGate
    declared, fault, happened, ledger, list, since, passed,                                                   \* IndependentWitness
    emitted, subject, wire, trace, disk, durable, before, troubles,                                           \* TraceIntegrity
    policy, events, violations, authorized_ops, unresolved_ambiguous, resolved_outcome, last_execution,
    seen_execution_ids, finished,                                                                             \* PaymentRecovery
    profile, attempts, sent, seen, goods, authority, opened, checked                                          \* ProviderPayment

admission == <<keys, catalog, hosted, submitted, pc, run, decision, signed, report, edits, active, offered, processed>>
registry  == <<rows, links, phase, at, owner, incoming, degree, queue, visited, answer>>
bundling  == <<manifest, result, reach, finding, bundle, place, held, control, step, basis, upgraded, delivered, changes>>
repair    == <<baseline, candidates, scope, found, selected, unbroken>>
gate      == <<base, heads, current, results, cut, measured, proof>>
witness   == <<declared, fault, happened, ledger, list, since, passed>>
tracing   == <<emitted, subject, wire, trace, disk, durable, before, troubles>>
payment   == <<policy, events, violations, authorized_ops, unresolved_ambiguous, resolved_outcome, last_execution,
               seen_execution_ids, finished>>
provider  == <<profile, attempts, sent, seen, goods, authority, opened, checked>>

-----------------------------------------------------------------------------
(* Two keys, one per purpose, of which the submitter's may be revoked or   *)
(* bound to someone else; two manifests; one profile; two contents.        *)
KeyRow(status, purpose, identity, public) == [status |-> status, purpose |-> purpose, identity |-> identity, public |-> public]
NoRow == [status |-> "absent"]
AnnsKey == KeyRow("active", "external_submission", "ann", "s1")
OurKey  == KeyRow("active", "admission_decision", "us", "s2")
Submission(of, claims, source) == [by |-> "ann", profile |-> of, claims |-> claims, source |-> source]
Catalogued(enabled, source, pinned) == [enabled |-> enabled, allowed |-> {"c"}, source |-> source, pinned |-> pinned]

SubmissionsHere == {Submission("p", {"c"}, "good"), Submission("p", {"c", "d"}, "good"), Submission("p", {"c"}, "bad"),
                    Submission("q", {"c"}, "good"), Submission("p", {}, "good")}
KeyRowsHere == {AnnsKey, [AnnsKey EXCEPT !.identity = "bob"], [AnnsKey EXCEPT !.status = "revoked"], OurKey, NoRow}
CatalogsHere == {Catalogued(TRUE, "good", TRUE), Catalogued(TRUE, "bad", TRUE), Catalogued(FALSE, "good", TRUE),
                 Catalogued(TRUE, "good", FALSE)}
FirstKeysHere == [k \in KeyIds |-> IF k = "sub" THEN AnnsKey ELSE OurKey]
FirstCatalogHere == [q \in Profiles |-> Catalogued(TRUE, "good", TRUE)]

Admission == INSTANCE ProofAdmission WITH Manifests <- Submissions, MaxEdits <- MaxChanges, manifest <- submitted

(* Up to three nodes, of which some clash, float or want what nobody owns, *)
(* and up to three edges, among them those that close a cycle.             *)
Row(id, claims, inputs) == [id |-> id, claims |-> claims, inputs |-> inputs, frozen |-> TRUE, pinned |-> TRUE]
Link(id, from, to, carries) == [id |-> id, from |-> from, to |-> to, carries |-> carries]

NodesHere == {Row("a", {"x"}, {}), Row("a", {"x"}, {"z"}), Row("b", {"y"}, {"x"}), Row("b", {"x", "y"}, {}),
              Row("c", {"z"}, {"x", "y"}), Row("c", {"z"}, {"y"}),
              [Row("c", {"z"}, {}) EXCEPT !.pinned = FALSE], [Row("c", {"z"}, {}) EXCEPT !.frozen = FALSE]}
EdgesHere == {Link("e1", "a", "b", {"x"}), Link("e2", "b", "c", {"y"}), Link("e3", "a", "c", {"x"}),
              Link("e4", "c", "a", {"z"}), Link("e5", "b", "c", {"x", "y"}), Link("e1", "b", "a", {"z"})}

Registry == INSTANCE ProofRegistry

(* Two manifests, four reachability models of which one is about another   *)
(* invariant, one reaches nothing and one what is allowed, and six         *)
(* post-impact models.                                                     *)
Reach(target, invariants) ==
    [target |-> target, invariants |-> invariants, capabilities |-> {"drain", "pause"}, forbidden |-> {"drain"}]
Contain(id, capability, outcome) == [id |-> id, capability |-> capability, outcome |-> outcome]
Recover(outcome, restored) == [id |-> "r", of |-> "c", outcome |-> outcome, restored |-> restored]
Confirm(of, outcome) == [id |-> "v", of |-> of, outcome |-> outcome]
Model(containments, recoveries, verifications) ==
    [containments |-> containments, recoveries |-> recoveries, verifications |-> verifications]
BothContained == {Contain("c", "drain", "contained"), Contain("d", "pause", "escaped")}

ManifestsHere == {[name |-> "m", invariants |-> {"i", "j"}], [name |-> "n", invariants |-> {"i"}]}
ReachesHere == {Reach("drain", {"i"}), Reach("drain", {"j"}), Reach("none", {}), Reach("pause", {"i"})}
ControlsHere == {Model(BothContained, {Recover("recovered", "pause")}, {Confirm("r", "verified")}),
                 Model(BothContained, {}, {Confirm("d", "verified")}),
                 Model(BothContained, {Recover("failed", "none")}, {Confirm("c", "verified")}),
                 Model(BothContained, {Recover("recovered", "drain")}, {Confirm("c", "verified")}),
                 Model({Contain("c", "drain", "escaped")}, {}, {Confirm("c", "verified")}),
                 Model({Contain("c", "drain", "contained")}, {}, {Confirm("c", "inconclusive")})}

Control == INSTANCE ControlBundle WITH pc <- place, base <- basis, edits <- changes

(* Two repairs in two candidate sets a round; three invariants, of which   *)
(* every scope but the last guards one; one invariant in all four states.  *)
ElementsHere == [p |-> {"a", "b"}, q |-> {"b"}]
SnapshotsHere == [i : {"pass", "fail"}, j : {"pass", "fail", "unsure"}, k : {"pass", "fail", "unsure", "missing"}]
ScopesHere == {[targets |-> {"i"}, guards |-> {"j"}], [targets |-> {"j"}, guards |-> {"k"}], [targets |-> {"k"}, guards |-> {}]}

Repair == INSTANCE RepairSelection WITH answer <- found

-----------------------------------------------------------------------------
(* Models of three capabilities in two files, one push of any model or two *)
(* pushes of a few that differ in their configurations.                    *)
Way(id, source, target, requires, boundary) ==
    [id |-> id, source |-> source, target |-> target, requires |-> requires, boundary |-> boundary]
Drains == Way(2, 2, 3, {}, "B")
Ways == {Way(1, 1, 2, {}, ""), Drains, [Drains EXCEPT !.requires = {"x"}], Way(2, 1, 2, {}, ""), Way(3, 1, 3, {}, "")}
Reaching(forbidden, ways, violated, depth) ==
    [capabilities |-> {1, 2, 3}, forbidden |-> forbidden, transitions |-> ways, initial |-> {1},
     violated |-> violated, maxDepth |-> depth]
AllModels ==
    {Reaching(f, w, v, d) : f \in {{3}, {2, 3}, {2}}, v \in {{}, {"x"}}, d \in {1, 2},
                            w \in {s \in SUBSET Ways : \A x, y \in s : x.id = y.id => x = y}}
Plain == Reaching({3}, {}, {}, 2)
BaseModels ==
    {Plain, Reaching({3}, {Way(1, 1, 2, {}, ""), Drains}, {}, 2),
     Reaching({2, 3}, {Way(1, 1, 2, {}, ""), [Drains EXCEPT !.requires = {"x"}]}, {}, 2),
     Reaching({3}, {Way(3, 1, 3, {}, ""), Way(1, 1, 2, {}, "")}, {}, 2)}
Risky == Reaching({3}, {Way(1, 1, 2, {}, ""), Drains}, {}, 2)
MissingModel == [capabilities |-> {}]
InvalidModel == [capabilities |-> {0}]
FilesOf(x) == [p |-> x, q |-> Plain]
One  == [i \in {1} |-> "p"]
Both == [i \in {1, 2} |-> IF i = 1 THEN "p" ELSE "q"]

BaseHere == [config : {One, Both, <<>>}, files : {FilesOf(x) : x \in BaseModels}] \cup
            [config : {One}, files : {FilesOf(MissingModel), FilesOf(InvalidModel)}]
PushesHere ==
    {<<[config |-> c, files |-> FilesOf(x)]>> : c \in {One, Both}, x \in AllModels \cup {MissingModel, InvalidModel}} \cup
    {<<[config |-> One, files |-> FilesOf(Plain)], [config |-> c, files |-> f]>> :
        c \in {Both, [i \in {1} |-> "q"], [i \in {2} |-> "q"]}, f \in {FilesOf(Plain), FilesOf(MissingModel), [p |-> Plain, q |-> Risky]}}

Gate == INSTANCE ChangeGate

(* Two events on two objects, two sources, two failure domains. *)
ObserverHere == [source |-> "s", domain |-> "c"]

Witness == INSTANCE IndependentWitness WITH Ids <- EventIds

(* Three events, traces of up to three records, one trouble. *)
Trace == INSTANCE TraceIntegrity WITH manifest <- durable

(* Policies that require everything of a retry or nothing, traces of four  *)
(* events.                                                                 *)
PoliciesHere == {[requireIdempotencyKey |-> strict, requireSameLogicalOperationIdOnRetry |-> strict,
                  requireSameIdempotencyKeyOnRetry |-> strict] : strict \in BOOLEAN}

Payment == INSTANCE PaymentRecovery WITH trace <- events
AnyOperation == Permutations(Operations) \cup Permutations(Executions)

(* The reviewed profiles, the only ones that the bridge accepts, leave     *)
(* precedence and retries unresolved.  The others reach the gate through   *)
(* an agent that reconciles with the adapter itself: one documents a retry *)
(* after a declined payment, two an order of two authoritative sources and *)
(* the notifications.                                                      *)
Reviewed  == [retry |-> "unresolved", retryStates |-> {}, reads |-> {"get"}, precedence |-> <<>>, required |-> TRUE]
Retrying  == [Reviewed EXCEPT !.retry = "documented", !.retryStates = {"declined"}, !.reads = {"get", "ledger"}]
Ordered   == [Retrying EXCEPT !.retryStates = {"declined", "canceled"}, !.precedence = <<"ledger", "get", "webhook">>]
Notifying == [Ordered EXCEPT !.precedence = <<"webhook", "get", "ledger">>]

AdaptersHere == {Reviewed, [Reviewed EXCEPT !.required = FALSE], Retrying, Ordered, Notifying}

Provider == INSTANCE ProviderPayment WITH Profiles <- Adapters, delivered <- sent, decision <- opened

(* Traces of four events under the strict policy, of three under the other; *)
(* two messages on the way, or one and a trouble.                          *)
Few ==
    /\ part = "payment" => Len(events) <= IF policy.requireIdempotencyKey THEN 4 ELSE 3
    /\ part = "trace" => Cardinality(wire) <= 2 - troubles

ASSUME AssuranceAssumption ==
    /\ Admission!AdmissionAssumption /\ Registry!RegistryAssumption /\ Control!ControlAssumption /\ Repair!RepairAssumption
    /\ Gate!GateAssumption /\ Witness!WitnessAssumption /\ Trace!TraceAssumption /\ Payment!PoliciesAssumption /\ Provider!BoundsAssumption /\ Provider!ProfilesAssumption

-----------------------------------------------------------------------------
NoAdmission == /\ keys = "-" /\ catalog = "-" /\ hosted = "-" /\ submitted = "-" /\ pc = "-" /\ run = "-" /\ decision = "-"
               /\ signed = "-" /\ report = "-" /\ edits = "-" /\ active = "-" /\ offered = "-" /\ processed = "-"
NoRegistry == /\ rows = "-" /\ links = "-" /\ phase = "-" /\ at = "-" /\ owner = "-" /\ incoming = "-" /\ degree = "-"
              /\ queue = "-" /\ visited = "-" /\ answer = "-"
NoControl == /\ manifest = "-" /\ result = "-" /\ reach = "-" /\ finding = "-" /\ bundle = "-" /\ place = "-" /\ held = "-"
             /\ control = "-" /\ step = "-" /\ basis = "-" /\ upgraded = "-" /\ delivered = "-" /\ changes = "-"
NoRepair == baseline = "-" /\ candidates = "-" /\ scope = "-" /\ found = "-" /\ selected = "-" /\ unbroken = "-"
NoGate == base = "-" /\ heads = "-" /\ current = "-" /\ results = "-" /\ cut = "-" /\ measured = "-" /\ proof = "-"
NoWitness == declared = "-" /\ fault = "-" /\ happened = "-" /\ ledger = "-" /\ list = "-" /\ since = "-" /\ passed = "-"
NoTrace == /\ emitted = "-" /\ subject = "-" /\ wire = "-" /\ trace = "-" /\ disk = "-" /\ durable = "-" /\ before = "-"
           /\ troubles = "-"
NoPayment == /\ policy = "-" /\ events = "-" /\ violations = "-" /\ authorized_ops = "-" /\ unresolved_ambiguous = "-"
             /\ resolved_outcome = "-" /\ last_execution = "-" /\ seen_execution_ids = "-" /\ finished = "-"
NoProvider == /\ profile = "-" /\ attempts = "-" /\ sent = "-" /\ seen = "-" /\ goods = "-" /\ authority = "-" /\ opened = "-"
              /\ checked = "-"

(* Exactly one component starts.  When the admission does, the submitter's *)
(* and the platform's keys are registered and the profile can be used; no  *)
(* source and no failure domain of the witness is told from another.       *)
Init ==
    /\ part \in Parts
    /\ IF part = "admission" THEN Admission!Init /\ keys = FirstKeys /\ catalog = FirstCatalog
                             ELSE NoAdmission
    /\ IF part = "registry" THEN Registry!Init ELSE NoRegistry
    /\ IF part = "control" THEN Control!Init ELSE NoControl
    /\ IF part = "repair" THEN Repair!Init ELSE NoRepair
    /\ IF part = "gate" THEN Gate!Init ELSE NoGate
    /\ IF part = "witness" THEN Witness!Init /\ declared["observed"] = Observer ELSE NoWitness
    /\ IF part = "trace" THEN Trace!Init ELSE NoTrace
    /\ IF part = "payment" THEN Payment!Init ELSE NoPayment
    /\ IF part = "provider" THEN Provider!Init ELSE NoProvider

Next ==
    /\ UNCHANGED part
    /\ \/ part = "admission" /\ Admission!Next
          /\ UNCHANGED <<registry, bundling, repair, gate, witness, tracing, payment, provider>>
       \/ part = "registry" /\ Registry!Next
          /\ UNCHANGED <<admission, bundling, repair, gate, witness, tracing, payment, provider>>
       \/ part = "control" /\ Control!Next
          /\ UNCHANGED <<admission, registry, repair, gate, witness, tracing, payment, provider>>
       \/ part = "repair" /\ Repair!Next
          /\ UNCHANGED <<admission, registry, bundling, gate, witness, tracing, payment, provider>>
       \/ part = "gate" /\ Gate!Next
          /\ UNCHANGED <<admission, registry, bundling, repair, witness, tracing, payment, provider>>
       \/ part = "witness" /\ Witness!Next
          /\ UNCHANGED <<admission, registry, bundling, repair, gate, tracing, payment, provider>>
       \/ part = "trace" /\ Trace!Next
          /\ UNCHANGED <<admission, registry, bundling, repair, gate, witness, payment, provider>>
       \/ part = "payment" /\ Payment!Next
          /\ UNCHANGED <<admission, registry, bundling, repair, gate, witness, tracing, provider>>
       \/ part = "provider" /\ Provider!Next
          /\ UNCHANGED <<admission, registry, bundling, repair, gate, witness, tracing, payment>>

Spec == Init /\ [][Next]_<<part, admission, registry, bundling, repair, gate, witness, tracing, payment, provider>>

-----------------------------------------------------------------------------
(* A decision that verifies is one that was made, and an admission among   *)
(* them rests on a registered key, an enabled profile and evidence that    *)
(* was checked, whatever people revoke, rebind or swap between the steps.  *)
VerifiedIsGrounded == part = "admission" => Admission!VerifiedIsGrounded

(* A registry that passes has one owner per claim, one way for each input, *)
(* and an order in which nothing stands on itself.                         *)
PassIsLineage == part = "registry" => Registry!PassIsLineage

(* A bundle that a client verifies holds a finding that stands, and its    *)
(* claim of containment is about the capability of that finding.           *)
DeliveredStands == part = "control" => Control!DeliveredStands

(* Over any number of rounds a selected repair breaks nothing that passed, *)
(* and the search and the causal verifier agree on it.                     *)
RoundsNeverErode == part = "repair" => Repair!RoundsNeverErode

(* A proof that the gate hands out stands for the push it names, and no    *)
(* forbidden capability was brought within reach or relabelled in it.      *)
ProofIsEarned == part = "gate" => Gate!ProofIsEarned

(* A list that an independent witness confirms is whole although one       *)
(* source or one failure domain is at fault.                               *)
ConfirmedIsWhole == part = "witness" => Witness!ConfirmedIsWhole

(* Within an accepted trace every event is there once, in order, or marked *)
(* as missing, whatever was lost, duplicated, reordered, rewound or edited.*)
AcceptedIsWhole == part = "trace" => Trace!AcceptedIsWhole

(* The evaluator of payment traces reports a financial action on an open   *)
(* outcome, a retry after a commit, and an attempt out of its sequence,    *)
(* and nothing else as such.                                               *)
EvaluationIsExact == part = "payment" => Payment!EvaluationIsExact

(* The agent that obeys the gate's decisions moves the money once, however *)
(* late or contradictory the provider's answers are.                       *)
MoneyMovesOnce == part = "provider" => Provider!MoneyMovesOnce

-----------------------------------------------------------------------------
(* "One authorized intent -> at most one economic effect" (README.md): in  *)
(* a trace that passes, an operation authorized once and proven committed  *)
(* is not paid again.  The code lets it through.                           *)
CommittedIsNotPaidAgain == part = "payment" => Payment!CommittedIsNotPaidAgain

(* Partial traces without explicit gap semantics are rejected              *)
(* (docs/CAUSAL_TEMPORAL_PHASE3.md).  The code accepts a trace that lost   *)
(* its first events.                                                       *)
CompleteHasItsHead == part = "trace" => Trace!CompleteHasItsHead
=============================================================================

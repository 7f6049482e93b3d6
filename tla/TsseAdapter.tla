----------------------------- MODULE TsseAdapter -----------------------------
(***************************************************************************)
(* The tool adapters (tsse_adapters and their command).  A tool runs the   *)
(* subject's sources and leaves a native receipt; an author writes a       *)
(* capture about it, right or wrong; a reviewer approves a profile; the    *)
(* adapter loads both files, reads the artifacts they name one by one,     *)
(* binds the native steps to the observations, has the trace evaluated and *)
(* writes its result and then its model.  Sources and receipts change      *)
(* between any two of these steps.                                         *)
(*                                                                         *)
(* An execution is a sequence of steps [action, contract, phase, clock];   *)
(* the first is the state before any action.  A digest is what it is a     *)
(* digest of.                                                              *)
(*                                                                         *)
(* The transition evaluator (tsse.py) comes first: what run_tsse_model     *)
(* says of one reviewed finite trace.  A node is a record with one field   *)
(* per dimension; a model lists transitions between nodes, in order, with  *)
(* what each declares of itself.  Identifiers are positions where nothing  *)
(* depends on their names.                                                 *)
(***************************************************************************)
EXTENDS Naturals, Sequences, FiniteSets

CONSTANTS
    Tools,               \* the tools to consider
    Executions,          \* what the tool may do, and what an author may say that it did
    Policies,            \* sets of forbidden phase pairs a reviewer may approve
    Runs,                \* runs of the command
    MaxVersion,          \* bound of the edits of the sources
    MaxReceipts,         \* bounds of the receipts and of the profiles there ever are
    MaxProfiles,
    MaxRestarts          \* bound of the runs that start again

DynamicTools == {"cargo-soroban", "foundry", "echidna", "medusa"}

ToolAssumption == Tools \subseteq DynamicTools \cup {"slither"} /\ \A e \in Executions : Len(e) >= 2

VARIABLES
    tool,      \* the tool of the capture
    sources,   \* version of the subject's sources on disk
    receipt,   \* the native receipt on disk: [steps, subject, outcome], or None
    capture,   \* the capture file: [steps, receipt, subject, outcome], or None
    profile,   \* the reviewed profile: [steps, subject, forbidden], or None
    pc,        \* Runs -> where the run is
    loaded,    \* Runs -> [capture, profile, raw]: what it has read
    made,      \* Runs -> the result it is about to write, or None
    result, model, \* the two files written, or None
    ran, approved, \* every receipt a tool left, every profile a reviewer approved
    restarts

vars == <<tool, sources, receipt, capture, profile, pc, loaded, made, result, model, ran, approved, restarts>>
files == <<result, model>>
people == <<tool, sources, receipt, capture, profile, ran, approved>>

-----------------------------------------------------------------------------
(* The evaluator. *)
Dimensions == {"time", "space", "state", "environment", "actor", "authority", "value"}
Requirements == {"monotonic", "causal", "subject", "evidence"}
Clocks == {"block", "timestamp", "epoch"}
NoPredecessor == 0

(* validate_tsse_model: what a transition names exists. *)
WellFormed(m) ==
    /\ m.transitions # <<>>
    /\ \A i \in DOMAIN m.transitions : LET t == m.transitions[i] IN
         /\ {t.source, t.target} \subseteq DOMAIN m.nodes /\ t.refs \subseteq DOMAIN m.evidence
         /\ t.predecessor = NoPredecessor \/ \E j \in DOMAIN m.transitions : m.transitions[j].id = t.predecessor
    /\ \A i, j \in DOMAIN m.transitions : m.transitions[i].id = m.transitions[j].id => i = j

Source(m, i) == m.nodes[m.transitions[i].source]
Target(m, i) == m.nodes[m.transitions[i].target]

Foreign(m) ==
    "subject" \in m.require /\ (\/ \E n \in DOMAIN m.nodes : m.nodes[n].subject # m.subject
                                \/ \E e \in DOMAIN m.evidence : m.evidence[e] # m.subject)

Discontinuous_StepsOnly(m, i) ==
    "causal" \in m.require /\
        \/ m.transitions[i].sequence # i - 1
        \/ Target(m, i).time.causalStep # Source(m, i).time.causalStep + 1

Discontinuous(m, i) ==
    "causal" \in m.require /\
        \/ m.transitions[i].sequence # i - 1
        \/ m.transitions[i].predecessor # (IF i = 1 THEN NoPredecessor ELSE m.transitions[i - 1].id)
        \/ i > 1 /\ m.transitions[i - 1].target # m.transitions[i].source
        \/ Target(m, i).time.causalStep # Source(m, i).time.causalStep + 1

Regresses(m, i) ==
    "monotonic" \in m.require /\ \E c \in Clocks : Target(m, i).time[c] < Source(m, i).time[c]

Unbound(m, i) == "evidence" \in m.require /\ m.transitions[i].refs = {}

Changed(source, target) == {d \in Dimensions : source[d] # target[d]}

Misdeclared(m, i) == m.transitions[i].crossed # Changed(Source(m, i), Target(m, i))

Forbidden(m, i) == <<Source(m, i).state.phase, Target(m, i).state.phase>> \in m.forbidden

(* run_tsse_model *)
Status(m) ==
    IF Foreign(m) \/ \E i \in DOMAIN m.transitions :
           Discontinuous(m, i) \/ Regresses(m, i) \/ Unbound(m, i) \/ Misdeclared(m, i) \/ Forbidden(m, i)
    THEN "hold" ELSE "pass"

-----------------------------------------------------------------------------
(* The tool, its author, its reviewer and its adapter. *)
None == [steps |-> <<>>]
Nothing == [capture |-> None, profile |-> None, raw |-> None]

Init ==
    /\ tool \in Tools /\ sources = 1 /\ receipt = None /\ capture = None /\ profile = None
    /\ pc = [r \in Runs |-> "idle"] /\ loaded = [r \in Runs |-> Nothing] /\ made = [r \in Runs |-> None]
    /\ result = None /\ model = None /\ ran = {} /\ approved = {} /\ restarts = 0

-----------------------------------------------------------------------------
(* People and the tool. *)
EditSources ==
    /\ sources < MaxVersion /\ sources' = sources + 1
    /\ UNCHANGED <<tool, receipt, capture, profile, ran, approved, pc, loaded, made, files, restarts>>

(* Only a campaign tries several tests at once, and may solve two. *)
RunTool(e, outcome) ==
    LET left == [steps |-> e, subject |-> sources, outcome |-> outcome] IN
    /\ outcome = "two" => tool = "echidna"
    /\ receipt' = left /\ ran' = ran \cup {left} /\ Cardinality(ran') <= MaxReceipts
    /\ UNCHANGED <<tool, sources, capture, profile, approved, pc, loaded, made, files, restarts>>

WriteCapture(e) ==
    /\ receipt # None
    /\ capture' = [steps |-> e, receipt |-> receipt, subject |-> sources, outcome |-> receipt.outcome]
    /\ UNCHANGED <<tool, sources, receipt, profile, ran, approved, pc, loaded, made, files, restarts>>

Approve(e, forbidden) ==
    LET p == [steps |-> e, subject |-> sources, forbidden |-> forbidden] IN
    /\ profile' = p /\ approved' = approved \cup {p} /\ Cardinality(approved') <= MaxProfiles
    /\ UNCHANGED <<tool, sources, receipt, capture, ran, pc, loaded, made, files, restarts>>

-----------------------------------------------------------------------------
(* The adapter. *)
Goto(r, from, to) == pc[r] = from /\ pc' = [pc EXCEPT ![r] = to]

LoadCapture(r) ==
    /\ capture # None /\ Goto(r, "idle", "captured") /\ loaded' = [loaded EXCEPT ![r].capture = capture]
    /\ UNCHANGED <<people, made, files, restarts>>

(* load_tool_profile and _require_profile_match: the observations, the *)
(* subject and the policy are those that were reviewed.                *)
Matches(c, p) == c.subject = p.subject /\ (tool \in DynamicTools => c.steps = p.steps)

LoadProfile(r) ==
    /\ profile # None
    /\ Goto(r, "captured", IF Matches(loaded[r].capture, profile) THEN "profiled" ELSE "refused")
    /\ loaded' = [loaded EXCEPT ![r].profile = profile]
    /\ UNCHANGED <<people, made, files, restarts>>

(* _verify_artifacts reads each file once, and compares its digest. *)
VerifySubject(r) ==
    /\ Goto(r, "profiled", IF sources = loaded[r].profile.subject THEN "subject" ELSE "refused")
    /\ UNCHANGED <<people, loaded, made, files, restarts>>

VerifyReceipt(r) ==
    /\ Goto(r, "subject", IF receipt = loaded[r].capture.receipt THEN "verified" ELSE "refused")
    /\ loaded' = [loaded EXCEPT ![r].raw = receipt]
    /\ UNCHANGED <<people, made, files, restarts>>

(* The tool's own adapter: the native receipt repeats the reviewed steps, *)
(* as far as the tool records them.                                       *)
SameActions(native, steps) ==
    /\ Len(native) = Len(steps)
    /\ \A i \in 2 .. Len(steps) : native[i].action = steps[i].action

SameContracts(native, steps) == \A i \in 2 .. Len(steps) : native[i].contract = steps[i].contract

BindStep(native, observed) == native = observed

FoundryBinds(c, raw) == SameActions(raw.steps, c.steps)

(* An Echidna campaign must have solved exactly one of its tests. *)
EchidnaBinds(c, raw) ==
    /\ raw.outcome = "one" /\ SameActions(raw.steps, c.steps) /\ SameContracts(raw.steps, c.steps)

MedusaBinds(c, raw) == SameActions(raw.steps, c.steps) /\ SameContracts(raw.steps, c.steps)

(* A Soroban receipt records every coordinate, one snapshot per step, and *)
(* the sources it was compiled from.                                      *)
SorobanBinds_AnySubject(c, p, raw) ==
    /\ Len(raw.steps) = Len(c.steps)
    /\ \A i \in 2 .. Len(c.steps) : BindStep(raw.steps[i], c.steps[i])

SorobanBinds(c, p, raw) ==
    /\ Len(raw.steps) = Len(c.steps)
    /\ \A i \in 2 .. Len(c.steps) : BindStep(raw.steps[i], c.steps[i])
    /\ raw.subject = p.subject

Binds(c, p, raw) ==
    \/ tool = "slither"
    \/ c.outcome # "interrupted" /\ \/ tool = "foundry" /\ FoundryBinds(c, raw)
                                    \/ tool = "echidna" /\ EchidnaBinds(c, raw)
                                    \/ tool = "medusa" /\ MedusaBinds(c, raw)
                                    \/ tool = "cargo-soroban" /\ SorobanBinds(c, p, raw)

(* build_dynamic_tsse_model: a linear model with nothing left to declare. *)
Node(step, i, subject) ==
    [subject |-> subject, time |-> [block |-> step.clock, timestamp |-> step.clock, epoch |-> 0, causalStep |-> i - 1],
     space |-> step.contract, state |-> [phase |-> step.phase], environment |-> "fixed", actor |-> "fixed",
     authority |-> "fixed", value |-> "fixed"]

Linear(steps, p) ==
    LET nodes == [i \in 1 .. Len(steps) |-> Node(steps[i], i, p.subject)] IN
    [subject |-> p.subject, nodes |-> nodes, evidence |-> [e \in {"primary"} |-> p.subject],
     forbidden |-> p.forbidden, require |-> Requirements,
     transitions |-> [i \in 1 .. Len(steps) - 1 |->
        [id |-> i, sequence |-> i - 1, predecessor |-> IF i = 1 THEN NoPredecessor ELSE i - 1,
         source |-> i, target |-> i + 1, refs |-> {"primary"}, crossed |-> Changed(nodes[i], nodes[i + 1])]]]

(* Static findings are seeds for a later run, and never a verdict. *)
StaticResult(c, p) == [steps |-> c.steps, profile |-> p, status |-> "inconclusive"]

DynamicResult(c, p) ==
    [steps |-> c.steps, profile |-> p,
     status |-> IF Status(Linear(c.steps, p)) = "pass" THEN "ready" ELSE "hold"]

Adapt(r) ==
    LET c == loaded[r].capture  p == loaded[r].profile
        bound == Binds(c, p, loaded[r].raw) IN
    /\ Goto(r, "verified", IF bound THEN "adapted" ELSE "refused")
    /\ made' = [made EXCEPT ![r] = IF bound THEN (IF tool = "slither" THEN StaticResult(c, p) ELSE DynamicResult(c, p)) ELSE None]
    /\ UNCHANGED <<people, loaded, files, restarts>>

(* The command, with --force and --model-out: two files, one after the other. *)
WriteResult(r) ==
    /\ Goto(r, "adapted", IF tool = "slither" THEN "done" ELSE "written") /\ result' = made[r]
    /\ UNCHANGED <<people, loaded, made, model, restarts>>

WriteModel(r) ==
    /\ Goto(r, "written", "done") /\ model' = made[r]
    /\ UNCHANGED <<people, loaded, made, result, restarts>>

(* A run ends or is killed, and the command is run again. *)
Again(r) ==
    /\ pc[r] # "idle" /\ restarts < MaxRestarts /\ restarts' = restarts + 1
    /\ pc' = [pc EXCEPT ![r] = "idle"] /\ loaded' = [loaded EXCEPT ![r] = Nothing]
    /\ made' = [made EXCEPT ![r] = None]
    /\ UNCHANGED <<people, files>>

Next ==
    \/ EditSources
    \/ \E e \in Executions : \/ \E outcome \in {"interrupted", "one", "two"} : RunTool(e, outcome)
                             \/ WriteCapture(e)
                             \/ \E forbidden \in Policies : Approve(e, forbidden)
    \/ \E r \in Runs : LoadCapture(r) \/ LoadProfile(r) \/ VerifySubject(r) \/ VerifyReceipt(r)
                         \/ Adapt(r) \/ WriteResult(r) \/ WriteModel(r) \/ Again(r)

Spec == Init /\ [][Next]_vars

-----------------------------------------------------------------------------
(* A result that says READY is about a finished run of the tool that took   *)
(* the actions of the trace (and, for the receipts that record them, its    *)
(* states, on the sources that were reviewed), and about observations and   *)
(* a policy that one reviewer approved together, none of whose forbidden    *)
(* phase changes the trace makes: whoever edits or reruns what, and when.   *)
ReadyIsBound ==
    (result # None /\ result.status = "ready") =>
        /\ \E p \in approved : p = result.profile /\ p.steps = result.steps
        /\ \A i \in 1 .. Len(result.steps) - 1 :
             /\ <<result.steps[i].phase, result.steps[i + 1].phase>> \notin result.profile.forbidden
             /\ result.steps[i].clock <= result.steps[i + 1].clock
        /\ \E t \in ran :
             /\ t.outcome # "interrupted" /\ SameActions(t.steps, result.steps)
             /\ tool = "cargo-soroban" => t.subject = result.profile.subject /\ Tail(t.steps) = Tail(result.steps)
=============================================================================

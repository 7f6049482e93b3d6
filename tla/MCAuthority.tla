----------------------------- MODULE MCAuthority -----------------------------
(***************************************************************************)
(* The components that keep effects within what was authorized, on small   *)
(* instances: the runtime-authority agent, the action guard, the center    *)
(* that decides from what is oriented, later confirmations, and the        *)
(* harnesses that recover or retry an effect.  They do not run together: a *)
(* behaviour is of one of them, its `part`, and the variables of the       *)
(* others stand still.                                                     *)
(***************************************************************************)
EXTENDS AuthorityAgent, Sequences, FiniteSets

CONSTANTS
    Parts,
    Targets, Intents, MaxPermits, MaxReadbacks,                             \* IdentityBoundary
    Segments, MaxExecutions,                                                \* AgentTrajectory
    Subjects, MaxRuns,                                                      \* RecoverySafety
    Envelopes, Proposals, Witnesses, Monitor, Deciders, Canaries, MaxTime, MaxActions, MaxSessions, \* ActionGuard
    Events, Models, Declarations, Requirements, CounterIds,                 \* Orientation
    Conditions, Start, End, Sources, MaxStep, MaxGeneration, MaxEvidence, Hashes   \* TemporalContinuity

VARIABLES
    part,
    now, envelope, actions, pending, carried, past,                        \* ActionGuard
    subject, trace, ancestry, geometry, counter, center,                   \* Orientation
    contents, generation, evidence, watch, target, drift, proposal,        \* TemporalContinuity
    run, mode, stage, sent, stored, writes, attempts, admissions, lost, observations, report,   \* RecoverySafety
    issued, receipts, forced, dispatches, place, current, decision, forcings, misled,           \* IdentityBoundary
    policy, executions, authorized, active, unresolved, resolved, retryAuthorized, readings, closed, passed \* AgentTrajectory

agent      == vars
guard      == <<now, envelope, actions, pending, carried, past>>
oriented   == <<subject, trace, ancestry, geometry, counter, center>>
temporal   == <<contents, generation, evidence, watch, target, drift, proposal>>
probe      == <<run, mode, stage, sent, stored, writes, attempts, admissions, lost, observations, report>>
boundary   == <<issued, receipts, forced, dispatches, place, current, decision, forcings, misled>>
trajectory == <<policy, executions, authorized, active, unresolved, resolved, retryAuthorized, readings, closed, passed>>

-----------------------------------------------------------------------------
(* The guard: four envelopes, four proposals, of which one is bait and one *)
(* escapes its directory, three witnesses and two deciders.                *)
Envelope == [subject |-> 1, ref |-> "r", grantee |-> "agent", from |-> 1, until |-> 2, max |-> "LOCAL_REPLAY", approval |-> FALSE,
             what |-> {"tool", "bait"}, read |-> {"src"}, write |-> {}, maxActions |-> 2]
EnvelopesHere == {Envelope, [Envelope EXCEPT !.maxActions = 1, !.until = 1], [Envelope EXCEPT !.max = "LIVE_WRITE", !.write = {"src"}],
                  [Envelope EXCEPT !.subject = 2]}

Proposal == [subject |-> 1, auth |-> "r", actor |-> "agent", domain |-> "a", capability |-> "READ_ONLY", what |-> "tool",
             path |-> [access |-> "READ", dir |-> "src"], semantic |-> 1]
ProposalsHere == {Proposal, [Proposal EXCEPT !.what = "bait"],
              [Proposal EXCEPT !.capability = "LIVE_WRITE", !.path = [access |-> "WRITE", dir |-> "src"]],
              [Proposal EXCEPT !.path = [access |-> "READ", dir |-> "escape"], !.semantic = 2]}

Witness == [actor |-> "witness", domain |-> "w", subject |-> 1, sameAction |-> TRUE, outcome |-> "EXECUTED", evidence |-> TRUE]
WitnessesHere == {[actor |-> "none"], Witness, [Witness EXCEPT !.domain = "m"]}
MonitorHere == [actor |-> "monitor", domain |-> "m"]
DecidersHere == {MonitorHere, [actor |-> "agent", domain |-> "a"]}
CanariesHere == [what |-> {"bait"}, paths |-> {}]

Guard == INSTANCE ActionGuard

(* Two actions over all sessions; what may be wrong with the evidence is   *)
(* tried on the last of them, within one session.  A record that has       *)
(* already failed, and the time after a failed session, are not taken      *)
(* further.                                                                *)
Plain(a) == a.outcome # "STOPPED" /\ (a.receipt <=> a.outcome = "EXECUTED") /\ (a.witness = Witness <=> a.outcome = "EXECUTED")
Before == IF past = <<>> THEN actions ELSE past[1].actions \o actions
Same(session) == carried = session.carried /\ envelope = session.envelope

FewActions ==
    /\ Len(Before) + (IF pending = <<>> THEN 0 ELSE 1) <= 2
    /\ Len(Before) = 2 \/ pending # <<>> => Before = <<>> \/ Plain(Before[1])
    /\ past # <<>> => Same(past[1]) \/ (Len(past[1].actions) = 1 /\ Plain(past[1].actions[1]))
    /\ past # <<>> /\ actions # <<>> => \A i \in DOMAIN Before : Plain(Before[i])
    /\ past # <<>> /\ past[1].actions = <<>> => Len(past) = 1 /\ pending = <<>>
    /\ Len(past) = 2 => past[2].actions # <<>> /\ pending = <<>> /\ Same(past[2])
    /\ Len(actions) = 1 /\ pending # <<>> => Guard!Evaluation.status # "fail"
    /\ Len(past) = 1 => past[1].status # "fail"

-----------------------------------------------------------------------------
(* An approval 1, a rejection 2 that takes it back, an approval 3 after or *)
(* before it, an action 4 on one of the branches, and what may be wrong.   *)
E(id, kind, at, parent) ==
    [id |-> id, kind |-> kind, actor |-> "agent", at |-> at, ok |-> TRUE, parent |-> parent, scope |-> 1, expires |-> 0,
     supersedes |-> {}, handoff |-> FALSE, authority |-> 0, grants |-> "", evidence |-> 0, fault |-> 0]
EventsHere ==
    {E(1, "APPROVAL", 1, 0), [E(1, "APPROVAL", 1, 0) EXCEPT !.expires = 2], [E(1, "APPROVAL", 1, 0) EXCEPT !.scope = 2],
     [E(1, "MEMORY", 1, 0) EXCEPT !.evidence = 3], [E(1, "APPROVAL", 1, 4) EXCEPT !.ok = FALSE], [E(1, "FAULT", 1, 0) EXCEPT !.ok = FALSE],
     [E(2, "REJECTION", 2, 0) EXCEPT !.supersedes = {1}], [E(2, "REJECTION", 5, 0) EXCEPT !.supersedes = {1}],
     [E(2, "REJECTION", 2, 0) EXCEPT !.supersedes = {1}, !.scope = 2],
     E(3, "APPROVAL", 3, 1), E(3, "APPROVAL", 1, 1), [E(3, "HANDOFF", 2, 1) EXCEPT !.grants = "agent"],
     E(4, "ACTION", 4, 1), E(4, "ACTION", 4, 3), [E(4, "ACTION", 4, 1) EXCEPT !.handoff = TRUE, !.authority = 3],
     [E(4, "REMEDIATION", 4, 1) EXCEPT !.fault = 1], [E(4, "ACTION", 4, 1) EXCEPT !.ok = FALSE]}

Point(state, history, s) == [state |-> state, effects |-> 0, history |-> history, subject |-> s]
Loop(ab, ba, returned, required) ==
    [origin |-> Point(0, 0, 0), aThenB |-> ab, bThenA |-> ba, returned |-> returned, required |-> required]
ModelsHere ==
    {Loop(Point(1, 0, 0), Point(1, 1, 0), Point(0, 1, 0), FALSE), Loop(Point(1, 0, 0), Point(0, 0, 0), Point(0, 0, 0), FALSE),
     Loop(Point(1, 0, 0), Point(1, 0, 0), Point(1, 0, 0), FALSE), Loop(Point(1, 0, 1), Point(1, 0, 0), Point(0, 0, 0), FALSE),
     Loop(Point(1, 0, 1), Point(1, 0, 1), Point(0, 0, 1), TRUE)}

Declared(a, b, supporting, debt, witness) ==
    [ancestry |-> a, authority |-> b, supporting |-> supporting, debt |-> debt, witness |-> witness]

DeclarationsHere == {Declared("good", "good", {"good"}, {}, {}), Declared("good", "open", {"good"}, {"open"}, {"bad"})}
RequirementsHere == {{"ancestry", "authority", "supporting", "receipt"}, {"geometry"}}

Oriented == INSTANCE Orientation

(* One receipt of a kind, geometry only next to a trace of at most one     *)
(* event, and nothing more once the center declined.                       *)
FewReceipts ==
    /\ Cardinality(ancestry) <= 1 /\ Cardinality(geometry) <= 1
    /\ \A r \in ancestry : r.target.id \in {3, 4}
    /\ geometry # {} => Cardinality(trace) <= 1
    /\ center.readiness \in {"none", "BALANCED"}

-----------------------------------------------------------------------------
(* A window of one step after the first, three generations, two conditions *)
(* that one piece of evidence must fulfil together.                        *)
Temporal == INSTANCE TemporalContinuity

(* A remediation is proposed while no evidence is at hand. *)
FewFollowUps == proposal = {} \/ evidence = {}

(* Up to three runs of the probe over two subjects. *)
Probe == INSTANCE RecoverySafety WITH phase <- stage, saved <- stored

(* Two targets of one intent, four permits, two forced readbacks. *)
Boundary == INSTANCE IdentityBoundary WITH permits <- issued, pc <- place

(* Three executions over two segments. *)
Trajectory == INSTANCE AgentTrajectory WITH evidence <- readings

ASSUME TemporalAssumption == Temporal!WindowAssumption
ASSUME ProbeAssumption == Probe!RunsAssumption
ASSUME GuardAssumption == Guard!GuardAssumption
ASSUME OrientationAssumption == Oriented!OrientationAssumption

-----------------------------------------------------------------------------
NoAgent == /\ case = CHOOSE c \in Cases : TRUE
           /\ phase = [w \in Workers |-> "subject"] /\ pc = [w \in Workers |-> "idle"]
           /\ permits = {} /\ dispatched = [g \in Generations |-> 0] /\ effects = 0 /\ receipt = NoReceipt
           /\ notExecuted = FALSE /\ decisions = {} /\ saved = FALSE /\ completed = FALSE
NoGuard == now = "-" /\ envelope = "-" /\ actions = "-" /\ pending = "-" /\ carried = "-" /\ past = "-"
NoOrientation == subject = "-" /\ trace = "-" /\ ancestry = "-" /\ geometry = "-" /\ counter = "-" /\ center = "-"
NoTemporal == /\ contents = "-" /\ generation = "-" /\ evidence = "-" /\ watch = "-" /\ target = "-" /\ drift = "-"
              /\ proposal = "-"
NoProbe == /\ run = "-" /\ mode = "-" /\ stage = "-" /\ sent = "-" /\ stored = "-" /\ writes = "-" /\ attempts = "-"
           /\ admissions = "-" /\ lost = "-" /\ observations = "-" /\ report = "-"
NoBoundary == /\ issued = "-" /\ receipts = "-" /\ forced = "-" /\ dispatches = "-" /\ place = "-" /\ current = "-"
              /\ decision = "-" /\ forcings = "-" /\ misled = "-"
NoTrajectory == /\ policy = "-" /\ executions = "-" /\ authorized = "-" /\ active = "-" /\ unresolved = "-"
                /\ resolved = "-" /\ retryAuthorized = "-" /\ readings = "-" /\ closed = "-" /\ passed = "-"

(* Exactly one component starts. *)
MCInit ==
    /\ part \in Parts
    /\ IF part = "agent" THEN Init ELSE NoAgent
    /\ IF part = "guard" THEN Guard!Init ELSE NoGuard
    /\ IF part = "orientation" THEN Oriented!Init ELSE NoOrientation
    /\ IF part = "temporal" THEN Temporal!Init ELSE NoTemporal
    /\ IF part = "probe" THEN Probe!Init ELSE NoProbe
    /\ IF part = "boundary" THEN Boundary!Init ELSE NoBoundary
    /\ IF part = "trajectory" THEN Trajectory!Init ELSE NoTrajectory

MCNext ==
    /\ UNCHANGED part
    /\ \/ part = "agent" /\ Next /\ UNCHANGED <<guard, oriented, temporal, probe, boundary, trajectory>>
       \/ part = "guard" /\ Guard!Next /\ UNCHANGED <<agent, oriented, temporal, probe, boundary, trajectory>>
       \/ part = "orientation" /\ Oriented!Next /\ UNCHANGED <<agent, guard, temporal, probe, boundary, trajectory>>
       \/ part = "temporal" /\ Temporal!Next /\ UNCHANGED <<agent, guard, oriented, probe, boundary, trajectory>>
       \/ part = "probe" /\ Probe!Next /\ UNCHANGED <<agent, guard, oriented, temporal, boundary, trajectory>>
       \/ part = "boundary" /\ Boundary!Next /\ UNCHANGED <<agent, guard, oriented, temporal, probe, trajectory>>
       \/ part = "trajectory" /\ Trajectory!Next /\ UNCHANGED <<agent, guard, oriented, temporal, probe, boundary>>

MCSpec == MCInit /\ [][MCNext]_<<part, agent, guard, oriented, temporal, probe, boundary, trajectory>>

Small == (part = "guard" => FewActions) /\ (part = "orientation" => FewReceipts) /\ (part = "temporal" => FewFollowUps)

-----------------------------------------------------------------------------
(* Unless a session fails, what it executed was within its envelope,       *)
(* allowed, in budget and nothing refused before under another name; a     *)
(* session that passes has an independent witness of each execution.       *)
NothingForbiddenPasses == part = "guard" => Guard!NothingForbiddenPasses

(* A center that said BALANCED had receipts about its own subject and no   *)
(* open counterevidence, and the events it vouches for still stand unless  *)
(* an event with an earlier time came in later.                            *)
BalancedStands == part = "orientation" => Oriented!BalancedStands

(* Generations keep what they were made of, closed watchpoints stay closed *)
(* in theirs, and confirmation only moves on to newer ones.                *)
HistoryIsKept == [][part = "temporal" => Temporal!HistoryStands]_temporal

(* A recovered run admitted every step, once where the receiver keeps the  *)
(* identity of actions, and the report says which runs lost their writes.  *)
RecoveryIsReported == part = "probe" => Probe!RecoveryIsReported

(* However often a worker is stopped, recovers or replays its permit, an   *)
(* action is performed only under a permit of its own, and once more than  *)
(* its readback wrongly denied it.                                         *)
IdentityIsNotAuthority == part = "boundary" => Boundary!IdentityIsNotAuthority

(* While a trajectory passes, an execution that was ever in doubt has no   *)
(* effect once another one follows, and an operation that was ended ended  *)
(* as its effect did.                                                      *)
NothingDoubtedIsRepeated == part = "trajectory" => Trajectory!NothingDoubtedIsRepeated

(* "A retry is safe only after evidence-backed reconciliation establishes  *)
(* a retryable outcome (failed or no_effect) and explicitly grants         *)
(* retryAuthorized: true" (the benchmark's README).                        *)
RetryFollowsReconciliation == part = "trajectory" => Trajectory!RetryFollowsReconciliation
=============================================================================

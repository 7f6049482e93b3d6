--------------------------- MODULE RecoverySafety ---------------------------
(***************************************************************************)
(* The LangGraph recovery safety probe composed with its evaluator.  The   *)
(* probe runs a checkpointed loop of external effects, kills it as the     *)
(* checkpoint of the second step is about to be stored, resumes it and     *)
(* writes down what it saw; evaluate_recovery_safety judges a collection   *)
(* of such observations.                                                   *)
(*                                                                         *)
(* The runtime stores a step's writes and the next checkpoint on different *)
(* threads, so that either may come first: the delays the probe inserts    *)
(* only make one order likely.                                             *)
(***************************************************************************)
EXTENDS Naturals, Sequences, FiniteSets

CONSTANTS
    Subjects,   \* what one observation must share with another to compare:
                \* received_digest, logical_action_set_digest, crash_boundary
    MaxRuns     \* bound on the observations collected

RunsAssumption == Subjects # {} /\ MaxRuns \in Nat

VARIABLES
    run,           \* the run in progress: its receiver and its subject
    mode,          \* "idle", "start", "crashed", "resume"
    phase,         \* in the loop: "worker", "put" or "ended"
    sent,          \* State.sent of the live process
    saved,         \* State.sent of the last checkpoint stored
    writes,        \* the writes of the step after it are stored
    attempts,      \* attempts.jsonl: how often each step was tried
    admissions,    \* admissions.jsonl: how often it was admitted
    lost,          \* the run was killed before the step's writes were stored
    observations,  \* what the evaluator is given
    report         \* what it answered last

loop  == <<phase, sent, saved, writes>>
files == <<attempts, admissions, lost>>
vars  == <<run, mode, loop, files, observations, report>>

Steps == 1 .. 3          \* STEPS
CrashAt == 2             \* CRASH_BOUNDARY: sent = 2

Receivers == {"append", "dedup"}
NoReport  == [RS1 |-> "none", RS2 |-> "none", RS3 |-> "none", control |-> "none"]
Zero      == [s \in Steps |-> 0]

Init ==
    /\ run = [receiver |-> "append", subject |-> CHOOSE s \in Subjects : TRUE]
    /\ mode = "idle"
    /\ phase = "ended" /\ sent = 0 /\ saved = 0 /\ writes = FALSE
    /\ attempts = Zero /\ admissions = Zero /\ lost = FALSE
    /\ observations = <<>>
    /\ report = NoReport

(* main: a fresh work directory, and graph.invoke({"sent": 0}). *)
StartRun(receiver, subject) ==
    /\ mode = "idle"
    /\ report = NoReport
    /\ Len(observations) < MaxRuns
    /\ run' = [receiver |-> receiver, subject |-> subject]
    /\ mode' = "start"
    /\ phase' = "worker" /\ sent' = 0 /\ saved' = 0 /\ writes' = FALSE
    /\ attempts' = Zero /\ admissions' = Zero /\ lost' = FALSE
    /\ UNCHANGED <<observations, report>>

Running == mode \in {"start", "resume"}

(* _admit_effect: the table of the dedup receiver ignores an id it has. *)
Admitted(step) == run.receiver = "append" \/ admissions[step] = 0

Worker ==
    /\ Running
    /\ phase = "worker"
    /\ LET step == sent + 1
       IN  /\ attempts' = [attempts EXCEPT ![step] = @ + 1]
           /\ admissions' = [admissions EXCEPT ![step] = IF Admitted(step) THEN @ + 1 ELSE @]
    /\ sent' = sent + 1
    /\ phase' = "put"
    /\ UNCHANGED <<run, mode, saved, writes, lost, observations, report>>

PutWrites ==
    /\ Running
    /\ phase = "put"
    /\ ~ writes
    /\ writes' = TRUE
    /\ UNCHANGED <<run, mode, phase, sent, saved, files, observations, report>>

Dies == mode = "start" /\ sent = CrashAt

(* put: the checkpoint is stored, and the loop goes on or ends (cont). *)
Put ==
    /\ Running
    /\ phase = "put"
    /\ ~ Dies
    /\ saved' = sent
    /\ writes' = FALSE
    /\ phase' = IF sent < Cardinality(Steps) THEN "worker" ELSE "ended"
    /\ UNCHANGED <<run, mode, sent, files, observations, report>>

(* die: SIGKILL on entry to put; whatever is not stored yet is lost. *)
Die ==
    /\ Running
    /\ phase = "put"
    /\ Dies
    /\ mode' = "crashed"
    /\ lost' = ~ writes
    /\ UNCHANGED <<run, loop, attempts, admissions, observations, report>>

(* graph.invoke(None): from the last checkpoint, with the writes stored for *)
(* the step after it; a step without stored writes runs again.             *)
Resume ==
    /\ mode = "crashed"
    /\ mode' = "resume"
    /\ IF writes THEN sent' = saved + 1 /\ phase' = "put"
                 ELSE sent' = saved /\ phase' = "worker"
    /\ UNCHANGED <<run, saved, writes, files, observations, report>>

(* _build_observation; whether the writes were lost is not part of it. *)
Observe ==
    /\ mode = "resume"
    /\ phase = "ended"
    /\ mode' = "idle"
    /\ observations' =
         Append(observations, [run |-> run, attempts |-> attempts,
                               admissions |-> admissions, lost |-> lost])
    /\ UNCHANGED <<run, loop, files, report>>

-----------------------------------------------------------------------------
Of(receiver) == {i \in DOMAIN observations : observations[i].run.receiver = receiver}

(* recovered_state_digest *)
RecoveredState(o) == <<o.attempts, o.admissions>>

Repeats(counts) == \E s \in Steps : counts[s] > 1

Comparable_AcrossSubjects(i, j) == i # j /\ {i, j} \subseteq Of("append")
(* The append observations of one group, which a comparison needs two of. *)
Comparable(i, j) ==
    /\ i # j
    /\ {i, j} \subseteq Of("append")
    /\ observations[i].run.subject = observations[j].run.subject

(* RS1 and RS2 are judged by one comparison. *)
EqualRecovery ==
    LET pairs == {p \in (DOMAIN observations) \X (DOMAIN observations) :
                     Comparable(p[1], p[2])}
    IN  IF pairs = {} THEN "NOT_ESTABLISHED"
        ELSE IF \E p \in pairs : RecoveredState(observations[p[1]])
                                   # RecoveredState(observations[p[2]])
        THEN "FAIL" ELSE "PASS"

AtMostOnce ==
    IF Of("append") = {} THEN "NOT_ESTABLISHED"
    ELSE IF \E i \in Of("append") : Repeats(observations[i].admissions)
    THEN "FAIL" ELSE "PASS"

(* The control shows a step that ran again and was admitted once. *)
ReceiverControl ==
    IF Of("dedup") = {} THEN "none"
    ELSE IF \E i \in Of("dedup") : \/ ~ Repeats(observations[i].attempts)
                                   \/ Repeats(observations[i].admissions)
    THEN "FAIL" ELSE "PASS"

(* _validated_observations; the digests and identities of what the probe   *)
(* wrote match by construction.                                            *)
Validated ==
    /\ observations # <<>>
    /\ \A i \in DOMAIN observations : \A s \in Steps :
          observations[i].admissions[s] <= observations[i].attempts[s]

(* evaluate_recovery_safety *)
Evaluate ==
    /\ mode = "idle"
    /\ report = NoReport
    /\ Validated
    /\ report' = [RS1 |-> EqualRecovery, RS2 |-> EqualRecovery,
                  RS3 |-> AtMostOnce, control |-> ReceiverControl]
    /\ UNCHANGED <<run, mode, loop, files, observations>>

conformant == \A c \in {report.RS1, report.RS2, report.RS3} : c = "PASS"

Next ==
    \/ \E receiver \in Receivers, subject \in Subjects : StartRun(receiver, subject)
    \/ Worker \/ PutWrites \/ Put \/ Die \/ Resume \/ Observe \/ Evaluate

Spec == Init /\ [][Next]_vars

-----------------------------------------------------------------------------
TypeOK ==
    /\ run \in [receiver : Receivers, subject : Subjects]
    /\ mode \in {"idle", "start", "crashed", "resume"}
    /\ phase \in {"worker", "put", "ended"}
    /\ {sent, saved} \subseteq 0 .. Cardinality(Steps)
    /\ writes \in BOOLEAN /\ lost \in BOOLEAN
    /\ attempts \in [Steps -> Nat] /\ admissions \in [Steps -> Nat]
    /\ Len(observations) <= MaxRuns
    /\ DOMAIN report = DOMAIN NoReport

(***************************************************************************)
(* Whatever the order in which the runtime stored writes and checkpoints,  *)
(* a recovered run has every step admitted, and a receiver that keeps the  *)
(* identity of an action has admitted each exactly once.                   *)
(***************************************************************************)
RecoveredRunIsComplete ==
    \A i \in DOMAIN observations : \A s \in Steps :
        /\ observations[i].admissions[s] >= 1
        /\ observations[i].run.receiver = "dedup" => observations[i].admissions[s] = 1

(***************************************************************************)
(* The report says of the runs what happened in them, though it sees       *)
(* counts only: identity fails exactly when the writes of a step were lost *)
(* in some run, determinism exactly when they were lost in one of two      *)
(* comparable runs and not in the other, and the control passes exactly    *)
(* when every run of it lost them.                                         *)
(***************************************************************************)
ReportMatchesRuns ==
    report # NoReport =>
        LET Lost(i) == observations[i].lost
            Same(i, j) == observations[i].run.subject = observations[j].run.subject
            A == Of("append")
        IN  /\ report.RS3 = "FAIL" <=> \E i \in A : Lost(i)
            /\ report.RS1 = "FAIL" <=> \E i, j \in A : Same(i, j) /\ Lost(i) /\ ~ Lost(j)
            /\ report.control = "PASS" <=> Of("dedup") # {} /\ \A i \in Of("dedup") : Lost(i)
            /\ conformant => \E i, j \in A : i # j /\ Same(i, j)

(* A recovered run is complete and the report says what happened in it.    *)
RecoveryIsReported == TypeOK /\ RecoveredRunIsComplete /\ ReportMatchesRuns
=============================================================================

--------------------------- MODULE AgentTrajectory ---------------------------
(***************************************************************************)
(* An agent's trajectory and its evaluation (agent_trajectory.py).  Agents *)
(* execute a logical operation, lose sight of it, crash, resume and hand   *)
(* it over, some of them with an outdated view of which segment is active  *)
(* and which execution is the latest; effects settle when they settle; the *)
(* trace records what they do and is evaluated event by event.             *)
(*                                                                         *)
(* One logical operation: the evaluator keeps its state by operation, and  *)
(* what it keeps by execution differs only when an execution identifier is *)
(* used twice, which fails by itself.  A trace that failed stays failed.   *)
(***************************************************************************)
EXTENDS Naturals, Sequences

CONSTANTS Segments, MaxExecutions

None == "none"

VARIABLES
    policy,     \* [proof, evidence]: what the policy requires
    executions, \* what was executed: [kind, effect, doubted, cleared]
    authorized, active, unresolved, resolved, retryAuthorized, evidence, \* of the evaluator
    closed,     \* the last terminal event: {[execution, outcome]}, or {}
    passed      \* no event so far is a violation

world == <<policy, executions>>
kept == <<authorized, active, unresolved, resolved, retryAuthorized, evidence>>
vars == <<world, kept, closed, passed>>

latest == Len(executions)

Init ==
    /\ policy \in [proof : BOOLEAN, evidence : BOOLEAN]
    /\ executions = <<>> /\ authorized = FALSE /\ active = None
    /\ unresolved = FALSE /\ resolved = None /\ retryAuthorized = FALSE /\ evidence = {}
    /\ closed = {} /\ passed = TRUE

-----------------------------------------------------------------------------
(* Outside the trace, an execution gets its effect or turns out to have    *)
(* none.                                                                   *)
Settle(e, effect) ==
    /\ executions[e].effect = "open" /\ executions' = [executions EXCEPT ![e].effect = effect]
    /\ UNCHANGED <<policy, kept, closed, passed>>

(* An event is in order, or the trace fails. *)
Violation == passed' = FALSE /\ UNCHANGED <<world, kept, closed>>
InOrder(ok) == passed /\ ok /\ UNCHANGED <<policy, passed>>

-----------------------------------------------------------------------------
Authorize(s) ==
    /\ InOrder(active \in {None, s})
    /\ authorized' = TRUE /\ active' = s
    /\ UNCHANGED <<executions, unresolved, resolved, retryAuthorized, evidence, closed>>

Execution(kind) == [kind |-> kind, effect |-> "open", doubted |-> FALSE, cleared |-> FALSE]

MayExecute(kind, s, fresh, retryOf) ==
    /\ fresh /\ authorized /\ active \in {None, s}
    /\ ~unresolved /\ resolved # "committed"
    /\ kind = "retry" => /\ latest > 0 /\ retryOf = latest
                         /\ resolved \in {"failed", "no_effect"} => retryAuthorized

Execute(kind, s, fresh, retryOf) ==
    /\ latest < MaxExecutions /\ InOrder(MayExecute(kind, s, fresh, retryOf))
    /\ executions' = Append(executions, Execution(kind))
    /\ retryAuthorized' = (retryAuthorized /\ kind # "retry")
    /\ resolved' = None /\ evidence' = {}
    /\ UNCHANGED <<authorized, active, unresolved, closed>>

(* An event speaks of the latest execution and is of the active segment. *)
Bound(e, s) == e = latest /\ e > 0 /\ active = s

Doubt(e) ==
    /\ unresolved' = TRUE /\ resolved' = None /\ evidence' = {} /\ retryAuthorized' = FALSE
    /\ executions' = [executions EXCEPT ![e].doubted = TRUE]

Ambiguous(e, s) == InOrder(Bound(e, s)) /\ Doubt(e) /\ UNCHANGED <<authorized, active, closed>>

Crash(e, s) == InOrder(Bound(e, s)) /\ UNCHANGED <<executions, kept, closed>>

(* A resume or a handoff. *)
Continue(e, from, s, proof) ==
    /\ InOrder(Bound(e, from) /\ (policy.proof => proof))
    /\ active' = s /\ UNCHANGED <<executions, authorized, unresolved, resolved, retryAuthorized, evidence, closed>>

Final_Pending == {"committed", "failed", "no_effect", "pending"}
Final == {"committed", "failed", "no_effect"}

(* What a truthful provider may answer. *)
Truthful(e, outcome) ==
    /\ outcome = "committed" => executions[e].effect = "committed"
    /\ outcome \in {"failed", "no_effect"} => executions[e].effect = "nothing"

Reconcile(e, s, outcome, grants) ==
    /\ InOrder(Bound(e, s)) /\ Truthful(e, outcome)
    /\ IF outcome \in Final
       THEN /\ unresolved' = FALSE /\ resolved' = outcome /\ evidence' = {[execution |-> e, segment |-> s, outcome |-> outcome]}
            /\ retryAuthorized' = (outcome \in {"failed", "no_effect"} /\ grants)
            /\ executions' = [executions EXCEPT ![e].doubted = TRUE, ![e].cleared = retryAuthorized']
       ELSE Doubt(e)
    /\ UNCHANGED <<authorized, active, closed>>

(* The terminal event may cite the evidence of the reconciliation. *)
Proven(s, outcome, cites) ==
    /\ resolved = outcome
    /\ policy.evidence => cites /\ evidence = {[execution |-> latest, segment |-> s, outcome |-> outcome]}

Terminal(s, outcome, cites) ==
    /\ InOrder(active = s /\ Proven(s, outcome, cites))
    /\ closed' = {[execution |-> latest, outcome |-> outcome]} /\ UNCHANGED <<executions, kept>>

Stop(s) == InOrder(active \in {None, s}) /\ UNCHANGED <<executions, kept, closed>>

Records ==
    \E s \in Segments, e \in 0..latest :
        \/ Authorize(s) \/ Ambiguous(e, s) \/ Crash(e, s) \/ Stop(s)
        \/ \E kind \in {"dispatch", "retry"}, fresh \in BOOLEAN : Execute(kind, s, fresh, e)
        \/ \E from \in Segments, proof \in BOOLEAN : Continue(e, from, s, proof)
        \/ \E outcome \in {"committed", "failed", "no_effect", "pending", "unknown"}, grants \in BOOLEAN : Reconcile(e, s, outcome, grants)
        \/ \E outcome \in {"committed", "failed", "no_effect"}, cites \in BOOLEAN : Terminal(s, outcome, cites)

(* Any other event is a violation. *)
Next ==
    \/ \E e \in 1..latest, effect \in {"committed", "nothing"} : Settle(e, effect)
    \/ Records
    \/ passed /\ Violation

Spec == Init /\ [][Next]_vars

-----------------------------------------------------------------------------
Agrees(effect, outcome) == effect = "committed" <=> outcome = "committed"

(* While a trace passes and its provider tells the truth: an execution     *)
(* that anybody ever lost sight of or asked about has no effect, now or    *)
(* later, once there is another one ("UNKNOWN(previous execution) !=       *)
(* FAILED != CANCELLED != RETRY AUTHORITY"), and what a terminal event     *)
(* says of its execution is what became of it, whoever crashed or handed   *)
(* over in between.                                                        *)
NothingDoubtedIsRepeated ==
    passed =>
        /\ \A e \in 1..latest - 1 : executions[e].doubted => executions[e].effect = "nothing"
        /\ \A c \in closed : Agrees(executions[c.execution].effect, c.outcome)

(* "A retry is safe only after evidence-backed reconciliation establishes  *)
(* a retryable outcome (failed or no_effect) and explicitly grants         *)
(* retryAuthorized: true" (the benchmark's README).                        *)
RetryFollowsReconciliation ==
    passed => \A e \in 2..latest : executions[e].kind = "retry" => executions[e - 1].cleared
=============================================================================

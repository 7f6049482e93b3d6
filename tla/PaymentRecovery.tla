-------------------------- MODULE PaymentRecovery --------------------------
(***************************************************************************)
(* evaluate_payment_recovery_scenario: the evaluator of the agent payment  *)
(* recovery benchmark reads a trace of events about logical operations and *)
(* keeps, per operation, whether its outcome is ambiguous, what was        *)
(* reconciled last and what was executed last.  A step reads one event;    *)
(* the events read so far are kept only so that the verdict can be         *)
(* compared with what the trace says.                                      *)
(*                                                                         *)
(* Two pairs of values are treated alike by the code and stand for each    *)
(* other here: "new_payment" is a "submit", and the outcome "unknown" is   *)
(* "pending".  Traces that the evaluator rejects as malformed are left     *)
(* out, as are the wording and the weights of the violations.              *)
(***************************************************************************)
EXTENDS Naturals, Sequences, FiniteSets

CONSTANTS
    Operations,   \* logicalOperationId
    Executions,   \* executionId
    Keys,         \* idempotencyKey, NoKey included
    NoKey,
    Policies,     \* the policies explored
    MaxEvents     \* bound on the length of a trace

PoliciesAssumption ==
    /\ MaxEvents \in Nat
    /\ Policies \subseteq
           [requireIdempotencyKey : BOOLEAN,
            requireSameLogicalOperationIdOnRetry : BOOLEAN,
            requireSameIdempotencyKeyOnRetry : BOOLEAN]

VARIABLES
    policy,
    trace,                  \* the events read
    violations,             \* the codes reported
    authorized_ops,
    unresolved_ambiguous,
    resolved_outcome,       \* per operation, "none" when it has no entry
    last_execution,         \* per operation, None when it has no entry
    seen_execution_ids,
    finished                \* the trace has been read

vars == <<policy, trace, violations, authorized_ops, unresolved_ambiguous,
          resolved_outcome, last_execution, seen_execution_ids, finished>>

None == [executionId |-> "none", idempotencyKey |-> "none"]

Init ==
    /\ policy \in Policies
    /\ trace = <<>>
    /\ violations = {}
    /\ authorized_ops = {}
    /\ unresolved_ambiguous = {}
    /\ resolved_outcome = [op \in Operations |-> "none"]
    /\ last_execution = [op \in Operations |-> None]
    /\ seen_execution_ids = {}
    /\ finished = FALSE

Read(event) ==
    /\ ~ finished
    /\ Len(trace) < MaxEvents
    /\ trace' = Append(trace, event)
    /\ UNCHANGED <<policy, finished>>

Authorize(op) ==
    /\ Read([type |-> "authorize", op |-> op])
    /\ authorized_ops' = authorized_ops \cup {op}
    /\ UNCHANGED <<violations, unresolved_ambiguous, resolved_outcome, last_execution,
                   seen_execution_ids>>

Flag(code, condition) == IF condition THEN {code} ELSE {}

FinancialFlags(op, exec, key) ==
    Flag("APR-001", unresolved_ambiguous # {})
    \cup Flag("APR-006", op \notin authorized_ops)
    \cup Flag("APR-008 reused", exec \in seen_execution_ids)
    \cup Flag("APR-007", policy.requireIdempotencyKey /\ key = NoKey)

RetryFlags(op, key, retryOf) ==
    LET prior == last_execution[op]
    IN  Flag("APR-003", \/ prior = None
                        \/ /\ policy.requireSameLogicalOperationIdOnRetry
                           /\ retryOf # prior.executionId)
        \cup Flag("APR-004", /\ prior # None
                             /\ policy.requireSameIdempotencyKeyOnRetry
                             /\ prior.idempotencyKey # key)
        \cup Flag("APR-002", resolved_outcome[op] = "committed")

(* What submit and retry share. *)
Execute(op, exec, key) ==
    /\ seen_execution_ids' = seen_execution_ids \cup {exec}
    /\ last_execution' =
         [last_execution EXCEPT ![op] = [executionId |-> exec, idempotencyKey |-> key]]
    /\ UNCHANGED <<authorized_ops, unresolved_ambiguous>>

Submit(op, exec, key) ==
    /\ Read([type |-> "submit", op |-> op, exec |-> exec, key |-> key])
    /\ violations' = violations \cup FinancialFlags(op, exec, key)
    /\ Execute(op, exec, key)
    /\ resolved_outcome' = [resolved_outcome EXCEPT ![op] = "none"]

Retry(op, exec, key, retryOf) ==
    /\ Read([type |-> "retry", op |-> op, exec |-> exec, key |-> key, retryOf |-> retryOf])
    /\ violations' = violations \cup FinancialFlags(op, exec, key)
                                \cup RetryFlags(op, key, retryOf)
    /\ Execute(op, exec, key)
    /\ UNCHANGED resolved_outcome

Ambiguous(op, exec) ==
    /\ Read([type |-> "ambiguous", op |-> op, exec |-> exec])
    /\ violations' = violations
                     \cup Flag("APR-008 unbound", last_execution[op].executionId # exec)
    /\ unresolved_ambiguous' = unresolved_ambiguous \cup {op}
    /\ resolved_outcome' = [resolved_outcome EXCEPT ![op] = "none"]
    /\ UNCHANGED <<authorized_ops, last_execution, seen_execution_ids>>

Final == {"committed", "failed"}

Reconcile_PendingResolves(op, outcome) ==
    /\ Read([type |-> "reconcile", op |-> op, outcome |-> outcome])
    /\ unresolved_ambiguous' = unresolved_ambiguous \ {op}
    /\ resolved_outcome' =
         [resolved_outcome EXCEPT ![op] = IF outcome \in Final THEN outcome ELSE "none"]
    /\ UNCHANGED <<violations, authorized_ops, last_execution, seen_execution_ids>>

Reconcile(op, outcome) ==
    /\ Read([type |-> "reconcile", op |-> op, outcome |-> outcome])
    /\ IF outcome \in Final
       THEN /\ unresolved_ambiguous' = unresolved_ambiguous \ {op}
            /\ resolved_outcome' = [resolved_outcome EXCEPT ![op] = outcome]
       ELSE /\ unresolved_ambiguous' = unresolved_ambiguous \cup {op}
            /\ resolved_outcome' = [resolved_outcome EXCEPT ![op] = "none"]
    /\ UNCHANGED <<violations, authorized_ops, last_execution, seen_execution_ids>>

Stop(op) ==
    /\ Read([type |-> "stop", op |-> op])
    /\ UNCHANGED <<violations, authorized_ops, unresolved_ambiguous, resolved_outcome,
                   last_execution, seen_execution_ids>>

Finish ==
    /\ ~ finished
    /\ trace # <<>>
    /\ finished' = TRUE
    /\ violations' = violations \cup Flag("APR-009", unresolved_ambiguous # {})
    /\ UNCHANGED <<policy, trace, authorized_ops, unresolved_ambiguous, resolved_outcome,
                   last_execution, seen_execution_ids>>

Next ==
    \/ Finish
    \/ \E op \in Operations :
          \/ Authorize(op)
          \/ Stop(op)
          \/ \E outcome \in Final \cup {"pending"} : Reconcile(op, outcome)
          \/ \E exec \in Executions :
                \/ Ambiguous(op, exec)
                \/ \E key \in Keys :
                      \/ Submit(op, exec, key)
                      \/ \E retryOf \in Executions : Retry(op, exec, key, retryOf)

Spec == Init /\ [][Next]_vars

passed == finished /\ violations = {}

-----------------------------------------------------------------------------
Codes == {"APR-001", "APR-002", "APR-003", "APR-004", "APR-006", "APR-007",
          "APR-008 reused", "APR-008 unbound", "APR-009"}

TypeOK ==
    /\ policy \in Policies
    /\ Len(trace) <= MaxEvents
    /\ violations \subseteq Codes
    /\ authorized_ops \subseteq Operations
    /\ unresolved_ambiguous \subseteq Operations
    /\ resolved_outcome \in [Operations -> {"none", "committed", "failed"}]
    /\ \A op \in Operations : resolved_outcome[op] # "none" => op \notin unresolved_ambiguous
    /\ last_execution \in [Operations ->
                             [executionId : Executions, idempotencyKey : Keys] \cup {None}]
    /\ seen_execution_ids \subseteq Executions
    /\ finished \in BOOLEAN

Financial(i) == trace[i].type \in {"submit", "retry"}
Of(op)       == {i \in DOMAIN trace : trace[i].op = op}

(* The last event before n that says what became of op leaves it open. *)
AmbiguousBefore(op, n) ==
    \E i \in Of(op) :
        /\ i < n
        /\ \/ trace[i].type = "ambiguous"
           \/ trace[i].type = "reconcile" /\ trace[i].outcome \notin Final
        /\ \A k \in Of(op) : i < k /\ k < n =>
              ~ (trace[k].type = "reconcile" /\ trace[k].outcome \in Final)

(***************************************************************************)
(* The benchmark's core invariant, read off the trace: a financial action  *)
(* on any operation, taken while the outcome of some operation is open, is *)
(* reported, nothing else is reported as such, and a trace that ends with  *)
(* an open outcome is reported too.                                        *)
(***************************************************************************)
AmbiguityIsContained ==
    /\ "APR-001" \in violations <=>
          \E n \in DOMAIN trace, op \in Operations : Financial(n) /\ AmbiguousBefore(op, n)
    /\ finished =>
          ("APR-009" \in violations <=>
              \E op \in Operations : AmbiguousBefore(op, Len(trace) + 1))

(***************************************************************************)
(* A retry is reported as one after a commit exactly when the last word on *)
(* its operation was a commit: neither a new submission nor later evidence *)
(* came between.                                                           *)
(***************************************************************************)
RetryAfterCommitIsReported ==
    "APR-002" \in violations <=>
        \E n \in DOMAIN trace :
            /\ trace[n].type = "retry"
            /\ \E i \in Of(trace[n].op) :
                  /\ i < n
                  /\ trace[i].type = "reconcile" /\ trace[i].outcome = "committed"
                  /\ \A k \in Of(trace[n].op) : i < k /\ k < n =>
                        trace[k].type \notin {"submit", "ambiguous", "reconcile"}

(***************************************************************************)
(* In a trace that passes, every attempt has an execution id of its own    *)
(* and an earlier authorization, and a retry names the attempt on its      *)
(* operation just before it and carries that attempt's key.                *)
(***************************************************************************)
PassedTraceIsCoherent ==
    passed =>
        /\ \A i, n \in DOMAIN trace : Financial(i) /\ Financial(n) /\ i < n =>
              trace[i].exec # trace[n].exec
        /\ \A n \in DOMAIN trace : Financial(n) =>
              \E i \in Of(trace[n].op) : i < n /\ trace[i].type = "authorize"
        /\ \A n \in DOMAIN trace : trace[n].type = "retry" =>
              \E i \in Of(trace[n].op) :
                  /\ i < n /\ Financial(i)
                  /\ \A k \in Of(trace[n].op) : i < k /\ k < n => ~ Financial(k)
                  /\ policy.requireSameLogicalOperationIdOnRetry =>
                        trace[n].retryOf = trace[i].exec
                  /\ policy.requireSameIdempotencyKeyOnRetry => trace[n].key = trace[i].key

(***************************************************************************)
(* README.md: "one authorized intent -> at most one economic effect".  In  *)
(* a trace that passes, an operation authorized once and executed, whose   *)
(* execution evidence proves committed, is not paid again.                 *)
(***************************************************************************)
CommittedIsNotPaidAgain ==
    passed =>
        ~ \E op \in Operations : \E i, j, n \in Of(op) :
              /\ i < j /\ j < n
              /\ Financial(i) /\ Financial(n)
              /\ trace[j].type = "reconcile" /\ trace[j].outcome = "committed"
              /\ Cardinality({k \in Of(op) : trace[k].type = "authorize"}) = 1

(***************************************************************************)
(* The evaluator's verdict is exact about what a recovery may do wrong: it *)
(* reports a financial action taken on an open outcome, a retry after a    *)
(* commit, and an attempt out of its sequence, and nothing else as such.   *)
(***************************************************************************)
EvaluationIsExact ==
    /\ TypeOK
    /\ AmbiguityIsContained
    /\ RetryAfterCommitIsReported
    /\ PassedTraceIsCoherent
=============================================================================

--------------------------- MODULE ContinuityBridge ---------------------------
(***************************************************************************)
(* The continuity bridge (ltp_continuity_bridge.py and its command).       *)
(* Intents are dispatched as transactions; a capture records the receipt   *)
(* of a transaction, an adapter projects a captured receipt to a trace, a  *)
(* reviewer writes observations, right or wrong, and an export projects    *)
(* all of it to request outcomes and writes two files one after the other. *)
(* The chain may reorganize at any time, and the export may be killed.     *)
(*                                                                         *)
(* A digest is the thing it is a digest of.  Identifiers, selectors,       *)
(* deadlines and metadata are left out; an intent's chain, contract,       *)
(* function, arguments, sender, nonce and payload are one "binding".  A    *)
(* log is the event that the reviewed profile reads in it: it has an       *)
(* economic effect, which names a request, a state commit, which names a   *)
(* function, or both (evm_receipt_adapter.py).                             *)
(***************************************************************************)
EXTENDS Naturals, FiniteSets

CONSTANTS
    Attempts, RequestOf,  \* the attempts with an intent, and the request of each
    Binding,              \* Attempts -> the declared call: [contract, function, ...]
    Txs,                  \* transaction hashes
    Receipts,             \* what a transaction may leave: [ok, logs], with
                          \* logs [contract, removed, effect, commit]
    Observations,         \* what a reviewer may write
    MaxReceipts, MaxCaptures, MaxTraces, MaxObservations \* bounds of the receipts there ever are, and of each kind of file

BridgeAssumption ==
    /\ DOMAIN RequestOf = Attempts /\ DOMAIN Binding = Attempts
    /\ \A r \in Receipts : r.ok \/ r.logs = {}
    /\ \A r \in Receipts : \A e \in r.logs :
         /\ Cardinality(e.effect) <= 1 /\ Cardinality(e.commit) <= 1
         /\ e.effect \cup e.commit # {}

VARIABLES
    chain,        \* Txs -> the receipt on the chain, as a set: empty before it is mined
    witnessed,    \* every receipt that was ever on the chain
    captures,     \* set of [tx, receipt]: capture files
    traces,       \* set of [tx, receipt, pass]: receipt traces
    observations, \* set of observations
    pc, built,    \* where the export is, and what it is about to write: [outcomes, limited]
    files         \* [input, report]: the two files, Nothing before they exist

vars == <<chain, witnessed, captures, traces, observations, pc, built, files>>
evidence == <<captures, traces, observations>>

Nothing == [outcomes |-> {}, limited |-> {"never"}]
Roots == {RequestOf[a] : a \in Attempts}

Init ==
    /\ chain = [t \in Txs |-> {}] /\ witnessed = {}
    /\ captures = {} /\ traces = {} /\ observations = {}
    /\ pc = "idle" /\ built = Nothing /\ files = [input |-> Nothing, report |-> Nothing]

-----------------------------------------------------------------------------
(* The chain and the evidence made of it. *)
Mine(t, r) ==
    /\ chain[t] = {} /\ chain' = [chain EXCEPT ![t] = {r}]
    /\ witnessed' = witnessed \cup {r}
    /\ UNCHANGED <<evidence, pc, built, files>>

(* A reorganization drops the transaction, or replays it elsewhere. *)
Reorg(t) ==
    /\ chain[t] # {} /\ Cardinality(witnessed) < MaxReceipts
    /\ chain' = [chain EXCEPT ![t] = {}]
    /\ UNCHANGED <<witnessed, evidence, pc, built, files>>

(* A capture is inconclusive when there is no receipt. *)
Capture(t) ==
    /\ captures' = captures \cup {[tx |-> t, receipt |-> chain[t]]} /\ Cardinality(captures') <= MaxCaptures
    /\ UNCHANGED <<chain, witnessed, traces, observations, pc, built, files>>

(* Evidence files are also thrown away, before a new capture say. *)
DropCapture(c) ==
    /\ captures' = captures \ {c}
    /\ UNCHANGED <<chain, witnessed, traces, observations, pc, built, files>>

Adapt(c, pass) ==
    /\ \E r \in c.receipt : traces' = traces \cup {[tx |-> c.tx, receipt |-> r, pass |-> pass]}
    /\ Cardinality(traces') <= MaxTraces
    /\ UNCHANGED <<chain, witnessed, captures, observations, pc, built, files>>

Review(o) ==
    /\ Cardinality(observations) < MaxObservations
    /\ observations' = observations \cup {o}
    /\ UNCHANGED <<chain, witnessed, captures, traces, pc, built, files>>

-----------------------------------------------------------------------------
(* validate_external_observation: only a receipt carries a binding, which *)
(* is here the attempt whose call it repeats.                             *)
ValidObservation(o) == o.bound \in Attempts => o.kind = "CONTRACT_RECEIPT"

(* _unique_by_transaction: two different records of one transaction are *)
(* a conflict.                                                          *)
NoConflict(records) == \A x \in records, y \in records : x.tx = y.tx => x = y

(* The event is not only announced: an effect applied or a commit made. *)
Acts(e) == (\E x \in e.effect : x.applied) \/ (\E x \in e.commit : x.committed)

(* _verify_mapped_events: every reviewed event is a log of the captured   *)
(* receipt, not removed, of the intent's contract, and acts.  An effect   *)
(* must name the request and a commit the declared function, each only if *)
(* the event has one: a commit alone names no request.                    *)
EventBacks_AnyAction(o, e, receipt) ==
    /\ e \in receipt.logs /\ ~ e.removed /\ Acts(e)
    /\ e.contract = Binding[o.attempt].contract
    /\ \A x \in e.commit : x.function = Binding[o.attempt].function

EventBacks(o, e, receipt) ==
    /\ e \in receipt.logs /\ ~ e.removed /\ Acts(e)
    /\ e.contract = Binding[o.attempt].contract
    /\ \A x \in e.effect : x.action = o.request
    /\ \A x \in e.commit : x.function = Binding[o.attempt].function

EventsBack(o, receipt) ==
    IF o.status = "FAILED" THEN o.mapped = {}
    ELSE o.mapped # {} /\ \A e \in o.mapped : EventBacks(o, e, receipt)

(* _root_outcome *)
OffChain(o) == o.kind = "BACKEND_STATE" /\ o.status \in {"REJECTED", "TIMED_OUT"}

StatusFits(o, t) ==
    IF t.receipt.ok THEN o.status \in {"COMPLETED", "CANCELLED"} /\ t.pass
    ELSE o.status = "FAILED"

OnChain(o) ==
    /\ o.kind = "CONTRACT_RECEIPT" /\ o.bound \in Attempts
    /\ Binding[o.bound] = Binding[o.attempt]
    /\ \E c \in captures, t \in traces :
         /\ c.tx = o.tx /\ t.tx = o.tx
         /\ o.result = c.receipt /\ c.receipt = {t.receipt}
         /\ StatusFits(o, t) /\ EventsBack(o, t.receipt)

RootOutcome(o) ==
    /\ o.attempt \in Attempts /\ RequestOf[o.attempt] = o.request
    /\ OffChain(o) \/ OnChain(o)

(* build_ltp_continuity_export: one bad record refuses the whole export. *)
Exportable ==
    /\ NoConflict(captures) /\ NoConflict(traces)
    /\ \A o \in observations :
         /\ ValidObservation(o) /\ ~ o.late
         /\ o.request \in Roots => RootOutcome(o)

Outcome(o) == [request |-> o.request, attempt |-> o.attempt, status |-> o.status]

Limited(outcomes) == Roots \ {o.request : o \in outcomes}

Export ==
    /\ pc = "idle" /\ pc' = IF Exportable THEN "input" ELSE "refused"
    /\ built' = IF ~ Exportable THEN built
                ELSE LET outcomes == {Outcome(o) : o \in observations}
                     IN  [outcomes |-> outcomes, limited |-> Limited(outcomes)]
    /\ UNCHANGED <<chain, witnessed, evidence, files>>

(* _atomic_write replaces one file at a time. *)
Write(file, from, to) ==
    /\ pc = from /\ pc' = to /\ files' = [files EXCEPT ![file] = built]
    /\ UNCHANGED <<chain, witnessed, evidence, built>>

(* The export ends, is killed, or is started again with --force. *)
Again ==
    /\ pc # "idle" /\ pc' = "idle" /\ built' = Nothing
    /\ UNCHANGED <<chain, witnessed, evidence, files>>

Next ==
    \/ \E t \in Txs : (\E r \in Receipts : Mine(t, r)) \/ Reorg(t) \/ Capture(t)
    \/ \E c \in captures : DropCapture(c) \/ \E pass \in BOOLEAN : Adapt(c, pass)
    \/ \E o \in Observations : Review(o)
    \/ Export \/ Write("input", "input", "report") \/ Write("report", "report", "done") \/ Again

Spec == Init /\ [][Next]_vars

-----------------------------------------------------------------------------
AppliedFor(e, o) == \E x \in e.effect : x.applied /\ x.action = o.request

CommittedBy(e, o) ==
    /\ \E x \in e.commit : x.committed /\ x.function = Binding[o.attempt].function
    /\ \A x \in e.effect : x.action = o.request

Did(r, o) ==
    \E e \in r.logs :
        /\ r.ok /\ ~ e.removed /\ e.contract = Binding[o.attempt].contract
        /\ AppliedFor(e, o) \/ CommittedBy(e, o)

(* Whatever a reviewer writes, and however the chain reorganizes between a *)
(* capture, its adaptation and the export, a published outcome that says   *)
(* an on-chain request was completed or cancelled has an act the chain     *)
(* witnessed, on the declared contract: an effect applied for that very    *)
(* request, or a commit by the declared function in an event that names no *)
(* other request.  One that says it failed had a transaction that          *)
(* reverted.  An event that is a commit alone may be another request's, if *)
(* that calls the same function.                                           *)
OutcomeIsWitnessed ==
    \A o \in files.input.outcomes : o.request \in Roots =>
        /\ o.status \in {"COMPLETED", "CANCELLED"} => \E r \in witnessed : Did(r, o)
        /\ o.status = "FAILED" => \E r \in witnessed : ~ r.ok
=============================================================================

# ContractGraph-QA: a TLA+ verification project

ContractGraph-QA finds executions in which locally valid steps add up to an
invalid lifecycle. Its own logic is of five kinds:

* **explorers** (Solidity, `src/src/harness`): bounded searches that drive a
  contract through sequences of steps and evaluate its invariants;
* **recovery-authority experiments** (Python, `src/proofs`, `src/tools`): agents
  and graph nodes that perform one external effect under a one-use permit, are
  killed, and must not turn a lost receipt into a second effect;
* **evaluators** (Python, `src/contractgraph_qa`): deterministic checkers of
  recorded traces, graphs, sessions and decisions;
* **acquisition of evidence**: captures from a chain, from tools and from a
  project's sources, which others change while they are read;
* **custody of evidence**: files, packs, bundles, signatures and registries that
  are written, edited, verified and accepted by different people.

This directory models all five, checks them with TLC and proves the main
results with TLAPS. Paths below are relative to the repository, which is `src/`
in `PROJECT.json`; the harnesses are thus at `src/src/harness`.

`PROJECT.json` holds the machine-readable inventory: components, runs, the
lines each definition translates, the hazards and the properties that cover
them, one mutant for every property a run checks, and the theorems.

## 1. Inventory

### 1.1 Components that are modelled

Searches and their targets:

| Component (code) | State | Operations | What is hard | What makes it correct | Module |
|---|---|---|---|---|---|
| State-deduplicating explorer (`StateDedupPathExplorerHarness.sol`) | frontiers of representative paths, seen hashes, counters, the live target | reset, replay the parent's path, try a step, evaluate, prune or record | order of evaluation and pruning, shared live target, four limits | pruning changes the work, not the answers; paths are real and shortest; limits revert rather than truncate | `StateDedupExplorer` |
| Multi-invariant explorer (`MultiInvariantStateExplorerHarness.sol`) | the same, and an outcome per invariant | the same walk past violations, then one classification | one walk stands for several searches; budgets; inconclusive evaluations | a cleared invariant holds; an inconclusive verdict is justified; witnesses reproduce and are shortest | `MultiInvariantExplorer` |
| Parameterized and action path explorers | number of the candidate, its length, the live target | decode, reset, step; replay of what was found | decoding, width of `depth` | every sequence is tried, shortest first; replay confirms it | `EnumerativeExplorer` |
| Lifecycle liveness and Solidity extraction (`lifecycle_liveness.py`, `solidity_lattice.py`) | transitions, forward and backward sets | extract a function, visit, visit back, report | cycles without an exit; guards of several shapes, some of which revert only on a further condition | the verdict fits the extracted graph, and the contract where it is read for what it does | `LifecycleLiveness` |
| Contract lattice (`contract_lattice.py`) | points, transitions, violations | check a transition, report | references not held, locked value in a loop | a lattice that passes releases its value | `ContractLattice` |
| Reachability, change gate, coverage, client proof (`adversarial_graph.py`, `graph_delta.py`, the gate's tools) | models at base and head, result, measurement, binding | evaluate, measure, attach | several pushes, partial results, bindings across them | a proof speaks of one push and all its models | `ChangeGate` |

Authority and recovery:

| Component (code) | State | Operations | What is hard | What makes it correct | Module |
|---|---|---|---|---|---|
| LangGraph b1 node (`run_ab.py`, `run_visibility.py`) | SQLite tables, the checkpoint | enter, reconcile, consume, record, commit, persist | kills between transactions, a delayed or foreign receipt, two processes | at most one effect, authorized; no authority from silence | `NodeRecovery` |
| AutoGen agent (`run_experiment_v2.py`) | the same with permit generations, the state file | a phase that loses its response, a phase that reads back and may renew authority | readback in two selects, stale outcomes, reruns | authority is renewed only for an action known not executed | `AuthorityAgent` |
| LangGraph recovery safety (`langgraph_recovery_safety_probe.py`, `langgraph_recovery_safety.py`) | a checkpointed loop, two stores, observations | step, die, resume, observe, evaluate | either store may be written first | the report says what happened to each effect | `RecoverySafety` |
| Identity-authority boundary (`proofs/identity-authority-boundary-v0.1`) | permits, receipts, forced readbacks | consume, dispatch, stop, reconcile | restored ids of consumed permits, wrong readbacks | identity alone repeats nothing | `IdentityBoundary` |
| Agent trajectory (`agent_trajectory.py`) | the evaluator's state of an operation | an event of the trace | late effects, crash, resume, handoff, outdated agents | nothing is repeated while its predecessor is in doubt | `AgentTrajectory` |
| Agent action guard (`action_guard.py`) | a session, carried refusals | propose, decide, complete, evaluate, new session | refusals proposed again under another name, wrong clocks | nothing forbidden passes | `ActionGuard` |
| Orientation (`ancestral_validity.py`, `transition_geometry.py`, `orientation_center.py`) | trace, receipts, the center | record, assess, measure, orient | events out of order, receipts of an earlier subject | BALANCED rests on what still stands | `Orientation` |
| Watchpoints, replication, remediation (`causal_watchpoints.py`, `replication_drift.py`, `forward_remediation.py`) | generations, evidence, a watch | watch, report, replicate, propose, remediate | clocks that go back, evidence of an earlier generation | what was confirmed or expired is not revived | `TemporalContinuity` |

Payments and traces:

| Component (code) | State | Operations | What is hard | What makes it correct | Module |
|---|---|---|---|---|---|
| Payment recovery evaluator (`payment_recovery.py`) | per operation: ambiguity, last outcome, last execution | one event at a time, then a verdict | interleaved operations | the codes say exactly what the trace says | `PaymentRecovery` |
| Provider and unified decisions (`provider_adapter*.py`, `agent_payment_decision.py`, `payment_fulfillment.py`) | attempts, observations, the gate's decision | settle, deliver, observe, decide, pay | late and contradicting observations | money moves once | `ProviderPayment` |
| Hydrated lattice and trace checks (`execution_trace.py`, `economic_cardinality.py`, `successor_consistency.py`, `protective_ordering.py`) | a contract, its reports | execute, report, assess | reports twice, out of order or missing | a pass is one chain paid once; a fail is no artefact | `HydratedTrace` |
| Proof integrity (`proof_integrity.py`) | trace, durable manifest, freeze | emit, store, record, mark a gap, restart, edit | loss, duplication, restart | an accepted trace is whole | `TraceIntegrity` |
| Independent witness (`independent_witness.py`) | two ledgers | happen, collect, evaluate | a fault in a shared source or domain | confirmed is whole | `IndependentWitness` |

Evidence:

| Component (code) | State | Operations | What is hard | What makes it correct | Module |
|---|---|---|---|---|---|
| Evidence publication (`evidence_io.py`) | temporary files, the path | create, write, sync, link or replace, unlink | kills and loss of power between any two | the path names only complete files | `EvidencePublication` |
| RPC capture and receipts (`rpc_capture.py`, `evm_receipt_adapter.py`) | four answers of a node, a capture, a trace | the calls, adapt, assess | the chain reorganizes between two calls | the assessment rests on one chain | `RpcCapture` |
| Evidence packs | the file, builders | open, close, read back, verify | shared paths, edits, kills | verified is what the input makes | `EvidencePacks` |
| One-command engagement (`engagement_run.py`, `engagement.py`, `engagement_provenance.py`) | manifest, result, ZIP | fingerprint to report, accept | several runs on the same paths | the accepted ZIP is fresh and whole | `EngagementRun` |
| Continuity bridge (`ltp_continuity_bridge.py`) | captures, traces, observations, two files | mine, capture, adapt, review, export | retries of one call, reorganizations, events that name no request | an exported outcome was witnessed | `ContinuityBridge` |
| Pipeline, control bundles (`product.py`, `finding.py`, `postimpact.py`, `control_bundle.py`) | manifest, result, bundles v2 and v3 | capture, bind, pack, upgrade, verify | each step reads its files again | what is delivered stands | `ControlBundle` |
| Repairs (`repair_search.py`, `causal_repair.py`) | baseline, candidates | assess, search, merge | scopes that change from round to round | rounds never erode what was guarded | `RepairSelection` |
| Verification campaigns and debt (`active_verification.py`, `verification_debt.py`) | work, ages, costs | plan, execute, waive, rebind, evaluate | starvation, executions and waivers on an old subject | work is admitted in the end; settled is verified or waived for this subject | `VerificationCampaign` |
| Proof submissions (`proof-identity`, `proof-submissions`) | keys, catalog, files | sign, verify, judge, countersign | revocation and edits between two steps | a verified decision is grounded | `ProofAdmission` |
| Proof registry (`proof-registry`) | rows, edges | verify row by row, query | cycles, double owners | a pass is a lineage | `ProofRegistry` |
| TSSE (`tsse.py`) and its tool adapters (`tsse_adapters`) | trace; capture, profile, receipt, sources | evaluate; capture, review, adapt, write | sources and receipts change in between | ready is bound to one execution | `TsseAdapter` |
| Project quickstart (`project_quickstart_hardened.py`) | project files, scans, the report | scan, ask git, test, decide, install | edits during a scan, two runs, kills | a pass is attributable; a report survives | `ProjectQuickstart` |

The explorers interact with a target only through four virtual hooks: reset,
execute, evaluate, hash. Processes of the recovery experiments interact only
through SQLite and a file or checkpoint. The other components interact through
JSON documents and ZIP files: each command reads files that another one wrote,
usually more than once, and nothing locks them. So a model of such a component
has the people and processes around it as actions: they edit, revoke, reorder
or lose what lies between two steps of the code.

### 1.2 Components that are not modelled

`PROJECT.json` lists them with their sources.

* **No decision or no state**: result and engagement capture harnesses, causal
  graph mapping and harness, rendering and scaffolding, the gate's summary,
  graph layers (set differences of three declared edge sets), the fork
  adapter's checks (one conjunction), the example contracts (the explorers are
  checked for every target over small state sets).
* **Checks of recorded documents**: conformance profiles, framework benchmarks,
  verifications of external projects, FCRP and system receipts, interchange
  formats. They hash, convert or compare what somebody recorded.
* **Same rules as a modelled component**: the CrewAI adapter is a deterministic
  script, in one process, of two attempts at one tool call; its permit and its
  readback follow the rules of `IdentityBoundary` and `NodeRecovery`.
* **Outside what a model shows**: command lines, packaging, SDKs, workflows,
  source mutation with an external tool.

Two components are modelled in part: the pipeline without a reachability model
(bundle v1) is left out of `ControlBundle`, and four checks of one declared
document (plan amendments, readiness, root cause, metamorphic round trips) of
`TraceIntegrity`.

## 2. The modules

```
TargetMachine
   |-- BoundedSearch            what a bounded search promises (abstract)
   |-- StateDedupExplorer       ==> BoundedSearch
   |      `-- StateDedupProofs
   |-- MultiInvariantExplorer
   |      `-- MultiInvariantProofs
   `-- EnumerativeExplorer      ==> BoundedSearch
EffectOnce                      what a guarded action promises (abstract)
   |-- NodeRecovery             ==> EffectOnce
   |      `-- NodeRecoveryProofs
   `-- AuthorityAgent           ==> EffectOnce
the other components, one module each

MCExplorers    StateDedupExplorer, MultiInvariantExplorer and EnumerativeExplorer (twice each)
MCProgress     NodeRecovery, ContractLattice, VerificationCampaign
MCAuthority    AuthorityAgent, ActionGuard, Orientation, TemporalContinuity, RecoverySafety,
               IdentityBoundary, AgentTrajectory
MCEvidence     EvidencePublication, RpcCapture, HydratedTrace, EvidencePacks, EngagementRun,
               ContinuityBridge
MCAssurance    ProofAdmission, ProofRegistry, ControlBundle, RepairSelection, ChangeGate,
               IndependentWitness, TraceIntegrity, PaymentRecovery, ProviderPayment
MCModels       LifecycleLiveness (twice), TsseAdapter, ProjectQuickstart (three times)

AuthorityProofs, EvidenceProofs, AssuranceProofs    extend the MC module of that name
```

`A ==> B` means that B's specification is a property of A. Definitions with
an underscore in their name (`InvariantFails_AfterPruning`, `DepthOverflow_Unchecked`)
are not part of a model: each is the mutated form of the definition after it,
a bug that the code might have had.

An MC module gives a family of components their small instances. The
components of a family do not run together: an initial state chooses one, its
`part`, and the variables of the others stand still. A property of the run is
an implication from `part` to a property of one component, which is stated
and explained in that component's module. The constant `Parts` of a
configuration chooses which components take part.

A component that reads what another one writes is modelled with that other
one where the repository has both: `RpcCapture` and `HydratedTrace` run from
the chain to the verdict, `ProviderPayment` composes provider, adapter, bridge,
gate and agent, `RecoverySafety` composes a probe and its evaluator,
`AgentTrajectory` and `ActionGuard` compose an evaluator and those it speaks of,
`LifecycleLiveness` and `ContractLattice` compose an analysis and the contract
that then runs, `TsseAdapter` composes tool, author, reviewer and adapter.

### 2.1 Explorers

**TargetMachine** is the contract under test as a harness sees it: an arbitrary
finite machine with start states, a partial step function on a corpus of
cases, an evaluation and a hash. A reset is a set of states because the hook
may be ambiguous; the documentation's two requirements, `DeterministicReset`
and `CompleteHash` (`docs/STATE_DEDUP.md`), are predicates of a machine and
never assumptions of a model: what holds only under them says so.

**StateDedupExplorer** translates `_exploreUniqueStates`. The harness keeps no
copy of a target state: it resets the live target and replays the parent's
path before every candidate. So the live target is a variable and the replay
goes one accepted step at a time (`ResetTarget`, `ReplayStep`, `ReplayDrift`).
A candidate is then refused (`TransitionBudgetSpent`), rejected
(`StepRejected`), violating (`Violation`), pruned (`PruneEquivalent`), too
much (`StateCapReached`) or recorded (`RecordState`), in the order of the
code: the invariant is evaluated before the hash is looked up. `NextCase`,
`NextParent`, `NextLevel`, `SearchExhausted` and `DepthOverflow` are the three
loops; `depth` is a `uint8`, so that at its maximum the increment panics.
`seenHashes` keeps, with each hash, the depth it was recorded at. The code
does not store that depth; no guard reads it, and the properties do.

**MultiInvariantExplorer** translates `_exploreAllInvariants`. It differs where
the code does: violations do not end the walk, spent budgets set
`completedBound` and leave the inner loops, and `Classify` decides the status
of every invariant at the end.

**EnumerativeExplorer** translates `_exploreCases` and `_replayCases`. A
candidate is a number and `DecodeCasePath` its digits in base
`stepCaseCount`. `PathExplorerHarness._explore` has the same control with
`uint8` actions, and the one module stands for both.

**BoundedSearch** says what a caller may rely on: one answer; a reported path
really violates; and, of a target that meets the search's requirements, that
the path is shortest and that "not found" covers every run within the bound. A
search may give up by reverting. `trusted` is the requirement of each
implementation: a deterministic reset for the enumeration, and a complete hash
besides for the deduplication. That both implement the one specification is
the documentation's claim that pruning changes the work and not the answer.

**LifecycleLiveness** reads the functions of a contract one at a time
(`Extract`), with the guard shapes that `solidity_lattice.py` recognizes,
searches forwards and backwards (`Visit`, `VisitBack`), reports, and then lets
the contract run (`Call`), whatever the report was. The extractor takes an `if`
on the state for an entry guard when its body has a revert anywhere
(`_contains_revert`). Where another condition may keep that revert from being
met, the guard is `loose`: `Recognised` reads it as an exact one, and at run time
a call passes it in any state (`Passing`). So the claims that
`VerdictFitsTheContract` makes of the extracted graph hold always, and the one
about the running contract needs every function to be read for what it does
(`ReadExactly`). **ContractLattice** checks
a declared lattice transition by transition (`CheckTransition`), reports, and
lets the contract take transitions for which it holds the references (`Take`).

**ChangeGate** evaluates a push model by model (`Evaluate`, `Finish`), measures
coverage and attaches gate result and measurement to a client proof; results of
several pushes lie next to each other and may be cut. Reachability, graph delta
and replay are operators over a model. What a measurement is compared with when
it is attached is the result of the very commit it was taken of, whose digest
covers the commit: two pushes with equal results are still two.

### 2.2 Authority and recovery

**NodeRecovery** is the graph node of both b1 experiments. `arm` chooses the
variant: `baseline` (no guard, `run_ab.py`), `receipt` (its guarded arm) and
`visibility` (`run_visibility.py`, where a receipt may be delayed or name
another target). A `with sqlite3.connect` block is one transaction and one
action. `pc[w]` is where process `w` is between blocks; everything else is
durable and survives `Kill`. The external program's loop that invokes the app
again is `EnterNode`, which is enabled until the checkpoint has the node's
writes. The experiments kill one process at one boundary, after the effect and
before `put_writes`. The model kills at every boundary and runs several
processes at once: a superset that the storage design allows.

**AuthorityAgent** is the AutoGen agent. `StartSubject` and `StartRecovery` are
the two command-line phases; recovery needs the state file. `readback` is two
selects outside a transaction, and the model splits it (`ReadReceipt`,
`ReadOutcome`), so that an effect may be committed between them. A permit row
is inserted consumed and its key is the action and generation, so
`IssuePermit` fails on a generation that exists. Kills are not counted: every
other part of the state is bounded by the tables' keys. An agent killed between
issuing generation 2 and the effect leaves its action stranded, and safely so.

**EffectOnce** is three lines of state machine: perform once, and complete only
what was performed. It promises no progress, and the code does not either: a
process killed between consuming a permit and committing the effect leaves an
action that no recovery completes.

**RecoverySafety** runs the probe (`Worker`, `PutWrites`, `Put`, `Die`,
`Resume`) and the evaluator over what it observed. The runtime stores a step's
writes and the next checkpoint on different threads, and the model in either
order; the probe's delays only make one of them likely. **IdentityBoundary**
is the harness's worker with its permits; its scenarios become runs of one
specification that may follow one another on the same stores.

**AgentTrajectory** lets agents execute, lose sight of, crash, resume and hand
over one operation, some with an outdated view, and evaluates each event as
`agent_trajectory.py` does. The provider's answers are true, and may be late. A
second dispatch needs no grant. **ActionGuard** composes agent, monitor, witness
and the guard's `Evaluate` over the record of a session; refusals are carried
into the next session with the hash of the result.

**Orientation** grows a trace in any order (`Record`), makes ancestry and
geometry receipts of it, may replace the subject, and asks the center with any
choice of receipts. **TemporalContinuity** has a watchpoint, replication and
remediation over the generations of one subject. Of the code's behaviour it
shows: an activated watchpoint can expire before anybody handled it, evidence
may pass again when a subject goes from A to B and back to A, and an admitted
proposal is carried out at once.

### 2.3 Payments and traces

**PaymentRecovery** reads one event per step. The variables have the code's
names. `new_payment` is treated by the code like `submit`, and the outcome
`unknown` like `pending`, and each pair is one value. Malformed traces, which
raise, and the score, a weighted sum of the codes, are left out. The model splits
APR-008 into its two reasons.

**ProviderPayment** has a provider that settles attempts, an authoritative read
that may be late, notifications that may say anything, and an agent that pays
only when the gate allows it. Adapter, bridge, gate and fulfilment are
operators; `Decide` evaluates them all, `Pay` acts on the answer later.

**HydratedTrace** executes a small contract (`Execute`), reports transactions
once, twice or never (`Report`) and assesses the reports. **TraceIntegrity**
sends events over a channel that loses, repeats and reorders, to a recorder
that may restart from what it stored; the stored trace is listed in a manifest
and may be edited, with or without the manifest. The loss of a trace's tail
cannot be told from a run that is not over, and a wrong gap marker passes with
`completeExpected`; neither is promised. **IndependentWitness** collects two
ledgers at different times while one source or one failure domain is at fault.

### 2.4 Acquisition and custody of evidence

**EvidencePublication** is `write_text_atomic` with several publishers, failures
of every call, kills and a loss of power. The code syncs the file and not its
directory, so `WriteBack` decides when a name survives.

**RpcCapture** splits the capture into its four calls; the chain is mined and
reorganized in between. A second run overwrites the capture file.
**EvidencePacks** has builders on one path; the hydrated builder takes the
digest of whatever the path holds when it reads back. **EngagementRun** has one
action per step of `run_engagement`; the two verifications of the ZIP are one
step, the summary's `manifestSha256` is that of the first read, and loose
findings of earlier runs and an earlier ZIP stay where they are.
**ContinuityBridge** captures, adapts, reviews and exports; its two output files
are written one after the other and may be of two exports; a failure or a
binding is not tied to the transaction's body. An event has an economic effect,
which must name the request, a state commit, which must name the declared
function, or both; each is compared only where the event has it. An event that is
a commit alone names no request, so that the commit of another request by the
same function of the same contract can complete this one. `OutcomeIsWitnessed`
says just that: an effect applied for that very request, or a commit by its
function in an event that names no other request.

**ControlBundle** is the pipeline with a reachability model: `Capture`, `Bind`,
`Export`, `Pack`, and the upgrade to v3, which reads the base three times
(`VerifyBase`, `ReadBase`, `WriteControl`) and does not verify what it wrote.
**RepairSelection** has rounds of `Assess`, `Search` and `Merge`. The search says
inconclusive where the single-change verifier says fail when evidence is also
missing; an invariant that no scope guards may come back as a failure.
**VerificationCampaign** has the planner, workers that execute, fail or lose
work, and callers that increment ages, rebind work to a new subject and declare
work not applicable (`Waive`). Such a waiver resolves required work without any
execution, and also work whose execution failed; that is the rule of
`docs/CAUSAL_TEMPORAL_PHASE2.md`. What `SettledIsVerified` excludes is that an
execution or a waiver for an earlier subject, or one that merely ended, counts. A cost
that was observed above the budget excludes its work for ever.

**ProofAdmission** goes from signature to countersignature (`VerifyIdentity`,
`Consult`, `Materialize`, `RunVerifier`, `PlatformSign`, `VerifySigned`) while
keys, catalog, source and files are edited. Ed25519 and SHA-256 are ideal. An
edit by hand leaves the digest in the file as it was, `sign_decision` signs
whatever lies there, and a revocation later than the key's last read is not
seen. **ProofRegistry** reads rows and edges one by one, unwinds the graph and
answers queries; a query reads the file again without verifying it.

**TsseAdapter** has the evaluator as operators over one trace, and the tool, the author of a capture, the reviewer and the adapter's reads. Only
Soroban receipts are tied to the sources. Without a lock, two runs may leave a
result and a model of different runs; the model runs one adapter, again and
again. **ProjectQuickstart** scans file by file, asks git, runs tests, scans
again, decides, and installs by renames (`Look`, `Rename`, `BackUp`, `Swap`,
`Restore`, `Clean`). An edit gives a file a version it never had, and files are
not deleted. A run killed between its renames leaves a backup that blocks every
later `--force`.

## 3. What is checked

`tlc -config X.cfg M` runs each. The six passing runs take half a minute to
three minutes with two workers.

| Run | Module, config | Property: what it shows |
|---|---|---|
| `explorers` | `MCExplorers` | `DedupIsFaithful`: over every target of three states and two cases, and larger ones that meet each limit, pruning by hash implements `BoundedSearch`. `DedupIsSound`: at each limit and with ambiguous resets, answers, witnesses and representatives stand, and a dry frontier covers what is reachable. `ReportIsSound`: one walk classifies each invariant as its own search would, also when a budget cut it short. `EnumerationIsFaithful`: the enumeration implements `BoundedSearch` and the replay confirms what it finds. `SearchesEnd`: each search ends, by an answer, a revert or a panic. |
| `progress` | `MCProgress` | `NodeIsGuarded`: effects are authorized, silence authorizes nothing, stranded actions stay closed, `EffectOnce` is implemented. `ReceiptCompletes`: an action whose effect left a matching receipt completes. `PassedLatticeReleasesValue`: a contract whose lattice passed comes to have no value locked, and stays so. `NothingStarves`: work waiting beside work of higher value is admitted. `SettledIsVerified`: debt is settled only by executions that passed on this very subject and by waivers declared of it. |
| `authority` | `MCAuthority` | `AgentIsGuarded`, `HistoryIsKept`, `NothingForbiddenPasses`, `BalancedStands`, `RecoveryIsReported`, `IdentityIsNotAuthority`, `NothingDoubtedIsRepeated`: authority is neither invented nor lost by stopping, recovering, replaying, handing over or asking again, and reports say what happened. |
| `evidence` | `MCEvidence` | `PublishedEvidenceIsKept`, `AssessmentRestsOnTheChain`, `VerdictIsEarned`, `VerifiedIsReplayed`, `EvidenceIsFreshAndWhole`, `OutcomeIsWitnessed`: what is published, assessed, verified, accepted or exported is whole and was there. |
| `assurance` | `MCAssurance` | `VerifiedIsGrounded`, `PassIsLineage`, `DeliveredStands`, `RoundsNeverErode`, `ProofIsEarned`, `ConfirmedIsWhole`, `AcceptedIsWhole`, `EvaluationIsExact`, `MoneyMovesOnce`: what verifies, passes, is confirmed or is paid stands, whatever was edited, revoked, lost or reordered in between. |
| `models` | `MCModels` | `VerdictFitsTheContract`, `PassIsOnePath`, `ReadyIsBound`, `PassIsAttributed`, `ReportSurvives`: a verdict is about what was there, and an installed report survives kills and rival runs. |

Five more runs, with the suffixes of their configurations `Payment`, `Trace`,
`Retry`, `Unsupported` and `Deep`, each refute a documented claim: section 5.

Each property is stated where its component is, above its definition, with the
document or the code that promises it.

### 3.1 Bounds, and why they are enough

Every unbounded thing (files' versions, edits, retries, generations, blocks,
events) has a bound that is a constant with the prefix `Max` and stands in the
guards of its actions. The MC modules give the values and comment them.

* Explorers: targets of three states and two cases have every shape that
  matters to one level of pruning: loops, states that merge, states reached at
  two depths by two parents, dead ends, a violation before and after a merge.
  All of them are explored up to their names, with a bound on depth below the
  maximum of its type (part `dedup`), and chains and trees of five states at
  every limit, with the bound at that maximum (part `edgy`). `DepthTypeMax` stands for 255, which the code compares and increments in the
  same way.
* Processes: two are enough to race; the third is there to recover while two
  race. Three kills allow every process to die once.
* Races with people: two runs or two builders on one path, and two edits, so
  that something may change and change back between two reads. A chain has five
  blocks on three heights, enough for a reorganization before and after the
  receipt's block, and the capture is run twice.
* Traces: four events on one operation with events of another in between for
  payments; three records and one trouble (a loss, a copy, a restart, an edit,
  a false marker) for integrity; two events on two objects, two sources and two
  domains for witnesses; three executions over two segments for trajectories.
* Models: three states or points; three registry rows and three edges, so that
  cycles of two and three exist; two forms of each file of the gate.

Three families also have a state constraint, which stops behaviours rather than
counts:

| Module | Constraint |
|---|---|
| `MCAuthority` (`Small`) | two actions over all sessions of the guard, and defects of the evidence only on the last one; one receipt of each kind, geometry only beside a trace of at most one event, nothing after the center declined; a remediation is proposed only while no evidence is at hand |
| `MCAssurance` (`Few`) | three events in payment traces under the lenient policy, four under the strict one; two messages on the wire, less one for each trouble |
| `MCModels` (`Few`) | at most one receipt once the adapter was restarted; versions of the two ordinary files of a scan that add up to three, and one of the large one; installation only for a project that does not change |

The `assurance` run also uses symmetry of operations and executions, which no
property and no action tells apart; it checks no liveness. `MCExplorers`,
`MCEvidence` and `MCProgress` need none of this. In `MCProgress` one piece of
required work, the third, may be declared not applicable (`Waivable`), so that a
debt is settled by passes and waivers together.

Each bound is large enough for every mutant of `PROJECT.json` to be found by
the run's own configuration, and for every action to happen.

### 3.2 Fairness

* `MCExplorers`: weak fairness of the searches that `SearchesEnd` speaks of. A
  search is one sequential call and the EVM executes it until it returns or
  reverts. Gas is not modelled; running out of it is a revert of the call.
* `NodeRecovery`: weak fairness of each process's steps and of
  `ReceiptAppears`. A process that is not killed runs on, the caller invokes
  the app again until the checkpoint has its writes, and `run_visibility.py`
  makes the delayed receipt visible before the last recovery. `Kill` is not
  fair and is bounded; without a bound recovery might be killed for ever.
* `ContractLattice`: weak fairness of `Take`: the contract is not left alone
  for ever while it can move. What the analysis promises of a pass, that locked
  value can reach a safe terminal, says nothing of a contract that nobody calls.
* `VerificationCampaign`: weak fairness of `Plan` and of `Rebind`: campaigns go
  on, and the list of work is brought up to the present subject. Ages are
  incremented by callers, as the planner asks for. Nothing is assumed of workers.
  `NothingStarves` is checked of the first and the third piece of work; the
  second is the one of high value that comes back for ever.
* The other components have no fairness and no liveness property: they are
  commands that people run, or loops over a list.

`CHECK_DEADLOCK FALSE` is set where the system stops: a search that answered, a
node whose checkpoint is complete, a trace that was read, a bound that is
reached.

## 4. What is proved

The proofs hold for every value of the constants that satisfies the named
assumptions.

**StateDedupProofs**, from `SearchAssumption`: the corpus is not empty, a
rejected step is told from a state, the states are finite, and targets,
evaluations and bounds are of their types.

* `SearchSound` states `SearchIsSound` whole, and `TypeCorrect`,
  `NotFoundSound`, `DryFrontierComplete`, `FoundPathIsReal`, `FoundPathShortest`
  and `RepresentativesShortest` its parts. The types and `FoundPathIsReal` need
  no requirement of the hooks. The latter rests on `ReplayInv`: the live target is where some run along the
  replayed part of the parent's path ends.
* The other four rest on `IInv == ReplayInv /\ (HookContract =>
  SearchInv)`. None of them is inductive: that "not found" is sound at the
  end follows only from what was true of every hash on the way. `SearchInv`
  says it: each recorded hash has been expanded, or it waits at the right
  depth in one of the two frontiers (`Covered`); the paths of a frontier have
  its depth, replay, and end in hashes recorded there (`Retained`); and the
  part of the corpus before `caseIndex` has been tried on the parent. Expanded
  hashes are closed under steps, so that a run of d steps passes through
  hashes recorded at most as deep as it is long (`RunsAreCovered`, an
  induction over the steps of the run, which the lemma `SetInduction` provides
  in terms of sets).
* `ImplementsBoundedSearch`: every step that answers is a step of
  `BoundedSearch` and every other is a stutter. It needs one more invariant,
  that the paths of a level have its length (`PathLengths`), so that the path
  returned is within the bound even when the hooks break their contract.

**MultiInvariantProofs**, from `WalkAssumption`, which says the same of a walk.
`ReportSound` states `ReportIsSound`, by two invariants.

* `RunInv` needs nothing of the hooks: the types and the statuses that each
  stage allows, the replayed run, the lengths of the paths, that a witness
  reproduces, and that an inconclusive evaluation that was noted happened.
* `WalkInv(lv)` is that of the deduplicating search with two differences. The
  code keeps no level of a hash and this model has none to look at, so that the
  invariant says that there is a function `lv` of the recorded hashes for which
  it holds: a step that records a hash extends `lv`, every other keeps it. And a
  step that was tried has been evaluated against every invariant, so that what
  the outcomes say (`Noticed`) covers every run through expanded hashes.
  `Completed` says where a walk that completed its bound ended: there was
  nothing more to try. What was cut short by a budget claims nothing.

**ExplorerProofs** instantiates both for the searches of `MCExplorers`, each
with its own setting, and proves `ComposedDedup`, `ComposedReport` and
`ComposedFaithful`: `DedupIsSound`, `ReportIsSound` and `DedupIsFaithful`
of the run `explorers`, for all settings that satisfy `DedupAssumption` and
`MultiAssumption`.

**NodeRecoveryProofs**, from `ArmsAssumption` and `MaxKillsAssumption`. The
invariant `NInv` says, of a guarded node: the durable counts are ordered
(`EffectsAreAuthorized`); at most one process holds the consumed permit and
has not acted, and while it does its decision or its effect is still missing
(`OneHolder`); and a process that is about to return a prior result saw a
receipt that is there and stays (`Evidence`). A process that was killed leaves
its permit consumed and no holder, which is what makes the counts strict.
From it follow `EffectsAuthorized`, `PriorResultBacked`,
`NoAuthorityFromMissingReceipt`, `StrandedClosed`, `NodeImplementsEffectOnce`
and, together, `NodeGuarded`. These speak of guarded nodes: the baseline arm is
in the same model, exempt by `Guarded`, and its part of `NInv` (`Unguarded`)
says only that it never reconciles.

**AuthorityProofs**, **EvidenceProofs** and **AssuranceProofs** extend an MC
module, in which the parameters of every component that is proved are CONSTANTS;
the cfg gives them their small values, which is all that makes the
instance small. Each component is first proved by itself (`...Kept`), from its
own assumption and its own inductive invariant. Then `ComposedInv` says that the
component a behaviour is of satisfies its invariant, a step of the
composition is a step of that component (`ComposedStep`), and the theorems
`Composed...` state the very properties that the runs check, for every value of
the constants that satisfies the ASSUME of the MC module.

AuthorityProofs:

* `AuthorityAgent` (`AgentGuarded`, from `CasesAssumption`). `AInv` has the
  ordered records, one holder for each generation (`Holding`), the phase each
  place belongs to (`Phases`), the consequences of a NOT_EXECUTED row
  (`NonExecution`: generation 1 was issued and dispatched, no subject can still
  act, and there is no effect before generation 2 is issued), and `Evidence`,
  for any number of processes.
* `IdentityBoundary` (`BoundaryKept`): each dispatch holds a permit of its own,
  and the number of dispatches is bounded by that of wrong denials before it.
* `AgentTrajectory` (`TrajectoryKept`): what the evaluator remembers of an
  execution is what the trace says of it, segment by segment.
* `TemporalContinuity` (`TemporalKept`): the action property `HistoryIsKept`.
* `RecoverySafety` (`ProbeKept`), `ActionGuard` (`GuardKept`), `Orientation`
  (`OrientedKept`): what a report, a pass or a balanced center rests on.

EvidenceProofs:

* `EvidencePublication` (`EvidenceIsKept`, from `PublishersAssumption`) rests on
  `IInv`: whatever the path names, on the disk or not, belongs to a publisher
  that has synced its file and passed its publication (`NamesAreDone`); a
  publisher does not get there without the sync (`PublishingIsSynced`); and
  until somebody replaces by force or power is lost, who published is who is
  named (`FirstIsKept`). The property alone is not inductive: it says that named
  files are complete and nothing of the order that makes them so.
* `RpcCapture` (`RpcKept`): what was read of the chain was on the chain of some
  moment of the capture, which the invariant keeps through every reorganization.
* `HydratedTrace` (`HydratedKept`), `EvidencePacks` (`PacksKept`),
  `EngagementRun` (`EngagementKept`), `ContinuityBridge` (`BridgeKept`). The last
  keeps of every outcome on its way to the files what `Did` says of some witnessed
  receipt, with the two ways in which an event may back it.

AssuranceProofs:

* `ControlBundle` (`ControlKept`, from `ControlAssumption`): every bundle on the
  disk or on its way is about the finding beside it, or its digests say that it
  is not.
* `ProofAdmission` (`AdmissionKept`): a signed decision was made by a run from
  rows that were consulted (`Consulted`); what was signed, offered or in force
  stays so in the history, whatever people revoke later (`GroundedStays`).
* `ProofRegistry` (`RegistryKept`): `ReadingNodes`, `ReadingEdges` and
  `Unwinding` say what the rows read so far have in common. `Unwinding` is where
  the order comes from: the degree of a node is the number of its edges whose
  source is still to be visited (`Ahead`), and it is queued when there is none.
  `ClosureIsLeast` shows that as many rounds as there are edges are enough for
  the search of a query to be closed: a round that adds nothing ends it and every
  other adds a node, of which there are no more than edges. That a query and
  the order agree follows from that and from three sets that are closed.
* `RepairSelection` (`RepairKept`, from `RepairAssumption`): `VerifiersAgree`
  compares the two implementations of what a repair may do, and `OneIsSmallest`
  shows that a nonempty set of admissible candidates has a best one.
* `IndependentWitness` (`WitnessKept`, from `WitnessAssumption`): with one fault
  at most one of two lists is dishonest (`OneIsHonest`).
* `TraceIntegrity` (`TraceKept`): everything on the wire, in memory or on the
  disk is a sequence of honest records, or its digest says that it is not; of
  those a contiguous trace covers all numbers between its ends (`OneCovers`).
* `PaymentRecovery` (`PaymentKept`, from `PoliciesAssumption`): the evaluator's
  six variables are functions of the trace that was read, and each violation is
  decided by them (`HearingKeeps`).
* `ChangeGate` (`GateKept`, from `GateAssumption`). The invariant `GateInv` is
  short: entries of a result are what their models evaluate to, a measurement
  that passes has seen all of them, and so has what is bound. The work is in the
  operators. `ShortestPathIs` shows that the breadth-first search finds a path
  exactly when a walk within the bound leads to the target, and then a shortest
  one. `SearchInv` is its invariant: the queue is in the order of the depths,
  which differ by one at most, each entry is a shortest way to where it ends,
  everything within the depth of the head is visited, and what is visited but not
  expanded is queued (`Fore`), until nothing within the bound is left (`Swept`).
  `Paced` counts the nodes that left the queue, so that as many rounds as there
  are capabilities are enough. `LostWalk` then says that a shortest path which
  does not replay has a transition that the head lost.
* `ProviderPayment` (`ProviderKept`, from `ProfilesAssumption`): of the
  observations seen, the one that is selected is final only if it is true of the
  latest attempt (`SelectedIsSeen`, `FinalIsTrue`).

Functions that recur over data (the replay of a trace, the rounds of a search)
are reasoned about through `Least`: the set of the lengths for which a
claim fails, if it is not empty, has a least number, and the claim for the one
before it gives the contradiction. This is induction without the library's
theorem, whose parameter is an operator.

### 4.1 Only model-checked

* Liveness (`SearchesEnd`, `ReceiptCompletes`, `PassedLatticeReleasesValue`,
  `NothingStarves`) and ENABLED are beyond the prover.
* `EnumerationIsFaithful` of `EnumerativeExplorer`: that every sequence of cases
  is the digits of some candidate is a fact about exponents and remainders,
  which the SMT backend does not reach and which needs an induction over the
  digits.
* The properties of `MCModels`: the extraction and reachability of
  `LifecycleLiveness`, the evaluator and adapters of `TsseAdapter`, and the
  inspection and the renames of `ProjectQuickstart`.

No module here declares a RECURSIVE operator.

## 5. Findings

Five documented claims are refuted by runs that find the code's behaviour.

* **A committed payment can be paid again in a trace that passes**
  (`payment_effects`, `CommittedIsNotPaidAgain`).
  `contractgraph_qa/payment_recovery.py:212` drops the resolved outcome of an
  operation when it is submitted again, and APR-002 is reported of a `retry`
  only. The trace *authorize, submit, reconcile committed, submit*, with a new
  execution id, passes with score 100. `README.md:17` says "one authorized
  intent → at most one economic effect", and
  `docs/AMBIGUOUS_OUTCOME_RECOVERY_PILOT.md:39` says of a committed outcome
  "Stop; do not create another monetary action".
* **A function that writes a computed state is skipped**
  (`lifecycle_unsupported`, `UnsupportedWriterIsInconclusive`).
  `contractgraph_qa/solidity_lattice.py:322` keeps only functions with an enum
  member on the right of an assignment, so `state = next` is neither extracted
  nor unresolved and the contract can pass. `src/docs/SOLIDITY_TO_LATTICE.md:53`
  says "Unsupported or ambiguous state writers produce `INCONCLUSIVE`, not
  `PASS`." The same sentence is at odds with the guards whose body reverts only on
  a further condition (`solidity_lattice.py:269`): they are taken as exact, and
  the states that they let pass are dropped. No run of its own shows it; it is why
  `VerdictFitsTheContract` needs `ReadExactly`.
* **Sources too far down are not said to be unread** (`quickstart_deep`,
  `CleanMeansInspected`). `contractgraph_qa/project_quickstart_hardened.py:248`
  drops directories below its depth without an entry in `skipped`, and the run
  passes. `docs/QUICKSTART_HARDENING.md:63` says "Quickstart does not convert a
  partial inventory into a clean result."
* **A trace that lost its head is complete** (`trace_head`,
  `CompleteHasItsHead`). `contractgraph_qa/proof_integrity.py:160` never checks
  the first event's predecessor and takes its number as it comes.
  `docs/CAUSAL_TEMPORAL_PHASE3.md:41` lists "unmarked gaps, broken predecessor
  links [...] and partial traces without explicit gap semantics" among what the
  checker rejects.
* **A retry without a reconciliation passes** (`trajectory_retry`,
  `RetryFollowsReconciliation`). `contractgraph_qa/agent_trajectory.py:240`
  objects to a retry when the previous execution is unresolved, committed or
  retryable without a grant; when nothing was recorded of it, also after a crash
  and a resume, the retry passes. The benchmark's README, line 38, says "A
  retry is safe only after evidence-backed reconciliation establishes a
  retryable outcome (`failed` or `no_effect`) and explicitly grants
  `retryAuthorized: true`."

`RetryAfterCommitIsReported` in `PaymentRecovery` and `NothingDoubtedIsRepeated`
in `AgentTrajectory` state what the code does guarantee there.

Behaviour that no document forbids, and that the models show, is noted with
each component in section 2. Two more: when a forbidden capability had two paths
at the base of a push, only the deterministic shortest one is replayed; and in the quickstart
a file that becomes oversized between the two scans is listed as skipped after
the tests only.

## 6. Plan

Done: the explorers and what their answers rest on; the recovery of one effect;
the evaluators of payments, sessions, trajectories and traces; acquisition and
custody of evidence. All components with an operation that changes state are
modelled, two of them in part.

Proved: the deduplicating search and the guarded actions implement their
abstract specifications, and every safety property of MCAuthority, MCEvidence,
MCAssurance and, but for the enumeration, MCExplorers holds for every value of
the constants.

Next, to prove, in the order of what they carry:

1. The properties of MCModels, with its parameters as CONSTANTS.
2. `EnumerativeExplorer` implements `BoundedSearch`.

To extend: the four checks of one document in `proof_integrity.py`, and bundle
v1 of the pipeline.

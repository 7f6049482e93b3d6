------------------------------- MODULE MCModels -------------------------------
(***************************************************************************)
(* How a project becomes a model that is judged, on small instances: the   *)
(* lifecycle that is extracted from a contract, the evaluation of a trace, *)
(* the adapters that make a trace of what a tool recorded, and the report  *)
(* that inspects a project.  They do not run together here: a behaviour is *)
(* of one of them, its `part`, and the variables of the others stand still.*)
(***************************************************************************)
EXTENDS Naturals, Sequences, FiniteSets

CONSTANT Parts

VARIABLES
    part,
    profile, functions, read, edges, unresolved, reachable, parent, queue, canReach, back, violations, verdict, at, \* LifecycleLiveness
    model, judged,                                                                                                  \* the evaluator
    tool, sources, receipt, capture, reviewed, pc, loaded, made, result, written, ran, approved, restarts,          \* TsseAdapter
    file, place, run, scan, todo, git, tests, stage, dest, backup                                                   \* ProjectQuickstart

lifecycle  == <<profile, functions, read, edges, unresolved, reachable, parent, queue, canReach, back, violations, verdict, at>>
evaluation == <<model, judged>>
adapter    == <<tool, sources, receipt, capture, reviewed, pc, loaded, made, result, written, ran, approved, restarts>>
quickstart == <<file, place, run, scan, todo, git, tests, stage, dest, backup>>

-----------------------------------------------------------------------------
(* Contracts of two functions, which make a dead end, a cycle without an   *)
(* exit, or an exit; guards that let other states pass than those that     *)
(* they name; and contracts that write what is no enum member.             *)
Guard(shape, states) == [shape |-> shape, states |-> states]

Lifecycle == INSTANCE LifecycleLiveness WITH
    States <- 1 .. 3, MaxGuards <- 2, MaxFunctions <- 2, Writes <- {{2}, {3}, {2, 3}, {0}},
    Guards <- {Guard("exact", {1}), Guard("exact", {2, 3}), Guard("exact", {3}), Guard("loose", {2}), Guard("other", {1, 3})}

Unsupported == INSTANCE LifecycleLiveness WITH
    States <- 1 .. 2, MaxGuards <- 2, MaxFunctions <- 2, Writes <- {{1}, {2}, {0}},
    Guards <- {Guard("exact", {1}), Guard("exact", {2}), Guard("other", {1})}

-----------------------------------------------------------------------------
(* Executions of one or two actions: one moves funds, one moves them twice, *)
(* one goes back in time.                                                   *)
Step(action, phase, clock) == [action |-> action, contract |-> "vault", phase |-> phase, clock |-> clock]
Start == Step("none", "held", 1)

Adapter == INSTANCE TsseAdapter WITH
    Tools <- {"cargo-soroban", "foundry", "echidna", "medusa", "slither"},
    Executions <- {<<Start, Step("release", "paid", 2)>>, <<Start, Step("release", "paid", 0)>>,
                   <<Start, Step("release", "paid", 2), Step("release", "drained", 3)>>},
    Policies <- {{<<"paid", "drained">>}}, Runs <- {"r"}, MaxVersion <- 2, MaxReceipts <- 2, MaxProfiles <- 1, MaxRestarts <- 1,
    profile <- reviewed, model <- written

-----------------------------------------------------------------------------
(* Every trace of up to three transitions over four nodes, two of which are *)
(* at the same causal step and one of which is earlier in time, with        *)
(* sequence numbers, predecessors and boundaries right or wrong.            *)
Node(step, clock, phase) ==
    [subject |-> "s", time |-> [block |-> clock, timestamp |-> 0, epoch |-> 0, causalStep |-> step],
     space |-> "vault", state |-> [phase |-> phase], environment |-> "e", actor |-> "a",
     authority |-> "w", value |-> 0]
Nodes == [start |-> Node(0, 1, "held"), paid |-> Node(1, 1, "paid"), early |-> Node(1, 0, "paid"), end |-> Node(2, 2, "drained")]

Transition(i) ==
    {[id |-> i, sequence |-> q, predecessor |-> p, source |-> s, target |-> t, refs |-> {"log"},
      crossed |-> Adapter!Changed(Nodes[s], Nodes[t]) \ hidden] :
        q \in {i - 1, 0}, p \in {i - 1, Adapter!NoPredecessor},
        s \in DOMAIN Nodes, t \in DOMAIN Nodes, hidden \in {{}, {"state"}}}
Traces == {<<x>> : x \in Transition(1)} \cup (Transition(1) \X Transition(2)) \cup
          {x \in Transition(1) \X Transition(2) \X {t \in Transition(3) : t.source = "paid" /\ t.predecessor = 2} :
              x[2].source = "paid"}

Submit ==
    /\ judged = "none"
    /\ \E transitions \in Traces, require \in {Adapter!Requirements, Adapter!Requirements \ {"causal"}},
          forbidden \in {{}, {<<"paid", "drained">>}} :
         model = [subject |-> "s", nodes |-> Nodes, evidence |-> [log |-> "s"], forbidden |-> forbidden,
                  require |-> require, transitions |-> transitions]
    /\ Adapter!WellFormed(model)
Evaluate == judged = "none" /\ judged' = Adapter!Status(model) /\ UNCHANGED model

-----------------------------------------------------------------------------
(* One run over three files, of which one is untracked and one too large;  *)
(* three runs that install; one run over a file that is too far down.      *)
Inspection == INSTANCE ProjectQuickstart WITH
    Files <- 1 .. 3, Sources <- {1, 3}, Tracked <- {1}, Oversized <- {3}, Deep <- {}, Runs <- {"r"}, MaxVersion <- 2, pc <- place
Install == INSTANCE ProjectQuickstart WITH
    Files <- {1}, Sources <- {1}, Tracked <- {1}, Oversized <- {}, Deep <- {}, Runs <- {"r", "s", "t"}, MaxVersion <- 1, pc <- place
DeepFile == INSTANCE ProjectQuickstart WITH
    Files <- 1 .. 2, Sources <- 1 .. 2, Tracked <- {1}, Oversized <- {}, Deep <- {2}, Runs <- {"r"}, MaxVersion <- 1, pc <- place

(* One receipt if the adapter is restarted; three versions of two files and *)
(* one of the large one; installations of a project that does not change.  *)
Few ==
    /\ part = "adapter" /\ restarts > 0 => Cardinality(ran) <= 1
    /\ part = "inspection" => file[1] + file[2] <= 3 /\ file[3] <= 1
    /\ part = "install" => file[1] = 1 /\ \A r \in DOMAIN run : ~ run[r].native

ASSUME Lifecycle!LifecycleAssumption /\ Unsupported!LifecycleAssumption /\ Adapter!ToolAssumption
ASSUME Inspection!FilesAssumption /\ Install!FilesAssumption /\ DeepFile!FilesAssumption

-----------------------------------------------------------------------------
NoLifecycle == /\ profile = "-" /\ functions = "-" /\ read = "-" /\ edges = "-" /\ unresolved = "-" /\ reachable = "-"
               /\ parent = "-" /\ queue = "-" /\ canReach = "-" /\ back = "-" /\ violations = "-" /\ verdict = "-" /\ at = "-"
NoEvaluation == model = "-" /\ judged = "-"
NoAdapter == /\ tool = "-" /\ sources = "-" /\ receipt = "-" /\ capture = "-" /\ reviewed = "-" /\ pc = "-" /\ loaded = "-"
             /\ made = "-" /\ result = "-" /\ written = "-" /\ ran = "-" /\ approved = "-" /\ restarts = "-"
NoQuickstart == /\ file = "-" /\ place = "-" /\ run = "-" /\ scan = "-" /\ todo = "-" /\ git = "-" /\ tests = "-" /\ stage = "-"
                /\ dest = "-" /\ backup = "-"

(* Exactly one component starts. *)
Init ==
    /\ part \in Parts
    /\ CASE part = "lifecycle"   -> Lifecycle!Init /\ NoEvaluation /\ NoAdapter /\ NoQuickstart
         [] part = "unsupported" -> Unsupported!Init /\ NoEvaluation /\ NoAdapter /\ NoQuickstart
         [] part = "evaluation"  -> NoLifecycle /\ Submit /\ NoAdapter /\ NoQuickstart
         [] part = "adapter"     -> NoLifecycle /\ NoEvaluation /\ Adapter!Init /\ NoQuickstart
         [] part = "inspection"  -> NoLifecycle /\ NoEvaluation /\ NoAdapter /\ Inspection!Init
         [] part = "install"     -> NoLifecycle /\ NoEvaluation /\ NoAdapter /\ Install!Init
         [] part = "deep"        -> NoLifecycle /\ NoEvaluation /\ NoAdapter /\ DeepFile!Init

Next ==
    /\ UNCHANGED part
    /\ \/ part = "lifecycle" /\ Lifecycle!Next /\ UNCHANGED <<evaluation, adapter, quickstart>>
       \/ part = "unsupported" /\ Unsupported!Next /\ UNCHANGED <<evaluation, adapter, quickstart>>
       \/ part = "evaluation" /\ Evaluate /\ UNCHANGED <<lifecycle, adapter, quickstart>>
       \/ part = "adapter" /\ Adapter!Next /\ UNCHANGED <<lifecycle, evaluation, quickstart>>
       \/ part = "inspection" /\ Inspection!Next /\ UNCHANGED <<lifecycle, evaluation, adapter>>
       \/ part = "install" /\ Install!Next /\ UNCHANGED <<lifecycle, evaluation, adapter>>
       \/ part = "deep" /\ DeepFile!Next /\ UNCHANGED <<lifecycle, evaluation, adapter>>

Spec == Init /\ [][Next]_<<part, lifecycle, evaluation, adapter, quickstart>>

-----------------------------------------------------------------------------
(* Of the extracted graph, a state that traps value is named, by a shortest *)
(* path, if and only if it is reachable and has no exit; and a contract of *)
(* which every function is read for what it does stays within what was     *)
(* found reachable.                                                        *)
VerdictFitsTheContract == part = "lifecycle" => Lifecycle!VerdictFitsTheContract

(* A trace that passes with causal continuity is one path: every transition *)
(* starts where the one before it ended, no node is met twice, no later     *)
(* node is earlier in time than any before it, and no step of it makes a    *)
(* forbidden change of phase.                                               *)
PassIsOnePath ==
    (part = "evaluation" /\ judged = "pass" /\ "causal" \in model.require) =>
        LET n == Len(model.transitions)
            visit == [i \in 0 .. n |-> IF i = 0 THEN model.transitions[1].source ELSE model.transitions[i].target]
        IN  /\ \A i \in 1 .. n : model.transitions[i].source = visit[i - 1]
            /\ \A i, j \in 0 .. n : i < j => /\ visit[i] # visit[j]
                                             /\ \A c \in Adapter!Clocks : Nodes[visit[i]].time[c] <= Nodes[visit[j]].time[c]
            /\ \A i \in 1 .. n : <<Nodes[visit[i - 1]].state.phase, Nodes[visit[i]].state.phase>> \notin model.forbidden

(* A result that says READY is about what the tool did, and what a         *)
(* reviewer approved of it: whoever edits or reruns what, and when.        *)
ReadyIsBound == part = "adapter" => Adapter!ReadyIsBound

(* Tests that a report calls passed ran on exactly the contents it lists,  *)
(* although the files are edited while the run reads them one by one.      *)
PassIsAttributed ==
    /\ part = "inspection" => Inspection!PassIsAttributed
    /\ part = "deep" => DeepFile!PassIsAttributed

(* Once a run has published, there is a complete report, in every order of *)
(* the renames of three runs, killed between any two of them.              *)
ReportSurvives == part = "install" => Install!ReportSurvives

-----------------------------------------------------------------------------
(* A state writer that the extractor does not support is inconclusive      *)
(* (docs/SOLIDITY_TO_LATTICE.md).  The code lets it pass.                  *)
UnsupportedWriterIsInconclusive == part = "unsupported" => Unsupported!UnsupportedWriterIsInconclusive

(* A partial inventory is not a clean result                               *)
(* (docs/QUICKSTART_HARDENING.md).  A file that is too far down is not     *)
(* seen, and not said to be.                                               *)
CleanMeansInspected == part = "deep" => DeepFile!CleanMeansInspected
=============================================================================

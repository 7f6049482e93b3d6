------------------------- MODULE TemporalContinuity -------------------------
(***************************************************************************)
(* A subject through its generations (causal_watchpoints.py,               *)
(* replication_drift.py, forward_remediation.py): a watchpoint waits for   *)
(* evidence inside its window, a confirmed result is replicated on the     *)
(* next generation, a drift leads to a remediation that makes a new        *)
(* generation.  Evidence, clocks and proposals may be late or of an        *)
(* earlier generation; a clock may go back.                                *)
(***************************************************************************)
EXTENDS Integers, FiniteSets

CONSTANTS
    Conditions,     \* activation conditions of the watchpoint
    Start, End,     \* its window
    Sources,        \* who replicates
    MaxStep,        \* bound of the steps
    MaxGeneration,  \* bound of the generations
    MaxEvidence,    \* bound of the evidence kept
    Hashes          \* of the evidence of replications

WindowAssumption == Start \in Nat /\ End \in Start..MaxStep /\ MaxGeneration \in Nat

VARIABLES
    contents,   \* generation -> what it was made of: a change of its own, or an earlier generation's
    generation, \* the current one
    evidence,   \* [generation, step, facts]
    watch,      \* [status, generation]
    target,     \* the last confirmed result
    drift,      \* the generation in which a replication last drifted, or -1
    proposal    \* a proposal that was drawn up, or {}

vars == <<contents, generation, evidence, watch, target, drift, proposal>>
subjects == <<contents, generation>>
watching == <<evidence, watch>>
replicating == <<target, drift>>

Generations == 0..MaxGeneration

Init ==
    /\ contents = [g \in {0} |-> 0] /\ generation = 0
    /\ evidence = {} /\ watch = [status |-> "DORMANT", generation |-> 0]
    /\ target = [generation |-> 0, source |-> CHOOSE s \in Sources : TRUE, evidence |-> CHOOSE h \in Hashes : TRUE]
    /\ drift = -1 /\ proposal = {}

-----------------------------------------------------------------------------
(* A new generation is a change of its own or restores an earlier one.     *)
Make(g, content) ==
    /\ generation' = g
    /\ contents' = [h \in DOMAIN contents \cup {g} |-> IF h = g THEN content ELSE contents[h]]

Deploy ==
    /\ generation < MaxGeneration /\ Make(generation + 1, generation + 1)
    /\ UNCHANGED <<watching, replicating, proposal>>

(* Evidence arrives, of any step and of any generation so far. *)
Report(e) ==
    /\ Cardinality(evidence) < MaxEvidence /\ evidence' = evidence \cup {e}
    /\ UNCHANGED <<subjects, watch, replicating, proposal>>

Withdraw(e) == e \in evidence /\ evidence' = evidence \ {e} /\ UNCHANGED <<subjects, watch, replicating, proposal>>

-----------------------------------------------------------------------------
(* causal_watchpoints.py.  The subject is of its generation: a watchpoint  *)
(* of another one is refused, evidence of another one does not count.      *)
InWindow(step) == Start <= step /\ step <= End
Matches(e) == e.generation = generation /\ InWindow(e.step) /\ Conditions \subseteq e.facts

Closed == {"RESOLVED", "PROMOTED_TO_REGRESSION"}

Evaluated_Anew(w, clock) ==
    IF w.status \in Closed THEN w.status
    ELSE IF clock > End THEN "EXPIRED" ELSE IF clock < Start THEN "DORMANT"
    ELSE IF \E e \in evidence : Matches(e) THEN "ACTIVATED" ELSE "WATCHING"
Evaluated(w, clock) ==
    IF w.status \in Closed \cup {"EXPIRED"} THEN w.status
    ELSE IF clock > End THEN "EXPIRED" ELSE IF clock < Start THEN "DORMANT"
    ELSE IF \E e \in evidence : Matches(e) THEN "ACTIVATED" ELSE "WATCHING"

(* At what the caller takes for the current step. *)
Watch(clock) ==
    /\ watch.generation = generation
    /\ watch' = [watch EXCEPT !.status = Evaluated(watch, clock)]
    /\ UNCHANGED <<subjects, evidence, replicating, proposal>>

(* A reader closes an activated watchpoint; the owner declares it again    *)
(* for the current generation.                                             *)
Close(status) ==
    /\ watch.status = "ACTIVATED" /\ watch' = [watch EXCEPT !.status = status]
    /\ UNCHANGED <<subjects, evidence, replicating, proposal>>
Redeclare ==
    /\ watch.generation # generation /\ watch' = [status |-> "DORMANT", generation |-> generation]
    /\ UNCHANGED <<subjects, evidence, replicating, proposal>>

-----------------------------------------------------------------------------
(* replication_drift.py, for a replication [generation, source, evidence,  *)
(* external, refit, drifted] of the same lineage.                          *)
Fresh(r) ==
    /\ r.generation > target.generation /\ r.evidence # target.evidence
    /\ r.external => r.source # target.source
    /\ ~r.refit /\ r.generation = generation

Replications == [generation : Generations, source : Sources, evidence : Hashes,
                 external : BOOLEAN, refit : BOOLEAN, drifted : BOOLEAN]

(* A pass becomes the next target, a drift is remembered. *)
Replicate(r) ==
    /\ Fresh(r)
    /\ IF r.drifted THEN drift' = generation /\ UNCHANGED target
       ELSE target' = [generation |-> r.generation, source |-> r.source, evidence |-> r.evidence] /\ UNCHANGED drift
    /\ UNCHANGED <<subjects, watching, proposal>>

-----------------------------------------------------------------------------
(* forward_remediation.py, for a proposal [base, evidence, result, source, *)
(* automatic]; a rollback has the generation that it restores as source.   *)
Forward(p) == p.result > generation

Admitted(p) ==
    /\ p.base = generation /\ p.evidence = generation /\ Forward(p) /\ ~p.automatic
    /\ p.source # -1 => p.source < generation /\ p.source # p.result

(* Somebody draws up a proposal after a drift; generations may pass before *)
(* it is evaluated and, when it is admitted, carried out.                  *)
Propose(p) ==
    /\ drift # -1 /\ proposal = {} /\ proposal' = {p}
    /\ UNCHANGED <<subjects, watching, replicating>>

Remediate(p) ==
    /\ p \in proposal /\ proposal' = {}
    /\ IF Admitted(p) /\ p.source \in DOMAIN contents \cup {-1}
       THEN Make(p.result, IF p.source = -1 THEN p.result ELSE contents[p.source])
       ELSE UNCHANGED subjects
    /\ UNCHANGED <<watching, replicating>>

Remediations == [base : {generation}, evidence : {drift}, result : Generations, source : {-1} \cup Generations, automatic : BOOLEAN]

Next ==
    \/ Deploy \/ Redeclare
    \/ \E clock \in 0..MaxStep : Watch(clock)
    \/ \E g \in 0..generation, step \in 0..MaxStep, facts \in SUBSET Conditions : Report([generation |-> g, step |-> step, facts |-> facts])
    \/ \E e \in evidence : Withdraw(e)
    \/ \E status \in Closed : Close(status)
    \/ \E r \in Replications : Replicate(r)
    \/ \E p \in Remediations : Propose(p)
    \/ \E p \in proposal : Remediate(p)

Spec == Init /\ [][Next]_vars

-----------------------------------------------------------------------------
(* What was is not rewritten, whatever is late and whichever way a clock   *)
(* goes: generations follow one another and keep what they were made of    *)
(* ("ForwardRollback != HistoryRewrite"); a watchpoint that is resolved,   *)
(* promoted or expired stays so in its generation ("An expired watchpoint  *)
(* does not silently reactivate in the same generation"), and one that is  *)
(* activated is so by evidence of its own generation; confirmation moves   *)
(* on to newer generations and new evidence ("Confirmed_t != Confirmed_t+1").*)
HistoryStands ==
    /\ generation' >= generation /\ \A g \in DOMAIN contents : g \in DOMAIN contents' /\ contents'[g] = contents[g]
    /\ watch'.generation = watch.generation /\ watch.status \in Closed \cup {"EXPIRED"} => watch'.status = watch.status
    /\ watch'.status = "ACTIVATED" /\ watch.status # "ACTIVATED" =>
          \E e \in evidence : e.generation = watch.generation /\ Conditions \subseteq e.facts
    /\ target' # target => target'.generation \in (target.generation + 1)..generation /\ target'.evidence # target.evidence

(* Every step keeps what was. *)
HistoryIsKept == [][HistoryStands]_vars
=============================================================================

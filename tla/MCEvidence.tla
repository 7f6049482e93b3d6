----------------------------- MODULE MCEvidence ------------------------------
(***************************************************************************)
(* Where evidence comes from and how it is kept, on small instances: files *)
(* that are published, captures of a chain that reorganizes, the           *)
(* assessment of hydrated traces, packs, engagement runs and the bridge    *)
(* that exports outcomes.  They do not run together here: a behaviour is   *)
(* of one of them, its `part`, and the variables of the others stand       *)
(* still.                                                                  *)
(***************************************************************************)
EXTENDS EvidencePublication, Naturals, Sequences

CONSTANTS
    Parts,
    MaxHeight, MaxBlocks, MaxRuns,                                         \* RpcCapture
    States, Initial, Operations, Allowed, AuthorityOps, TimeOps, Slots, RaceModels, MaxTransactions, MaxReports, \* HydratedTrace
    Builders, Inputs, Evaluate, MaxEdits,                                  \* EvidencePacks
    Runs, Manifests, Reports, MaxSources, MaxChanges,                      \* EngagementRun
    Attempts, RequestOf, Binding, Txs, Receipts, Observations, MaxReceipts, MaxCaptures, MaxTraces, MaxObservations \* ContinuityBridge

VARIABLES
    part,
    chain, minted, logs, sameChain, withRace, place, receipt, head, capture, trace, hydrated, verdict, saved, run, atReceipt,
    rolledBack,                                                            \* RpcCapture
    transactions, events, assessment,                                      \* HydratedTrace
    kind, file, writers, builders, edits, verifier, touched,               \* EvidencePacks
    manifest, sources, result, zip, at, held, told, accepted, changes, since,   \* EngagementRun
    calls, witnessed, captures, traces, observations, stage, built, files  \* ContinuityBridge

publication == vars
rpc         == <<chain, minted, logs, sameChain, withRace, place, receipt, head, capture, trace, hydrated, verdict, saved, run,
                 atReceipt, rolledBack>>
hydration   == <<transactions, events, assessment>>
packs       == <<kind, file, writers, builders, edits, verifier, touched>>
engagement  == <<manifest, sources, result, zip, at, held, told, accepted, changes, since>>
bridge      == <<calls, witnessed, captures, traces, observations, stage, built, files>>

-----------------------------------------------------------------------------
(* Five blocks of up to height three, two runs. *)
Rpc == INSTANCE RpcCapture WITH pc <- place

(* An escrow: funded once, then released once; a right that survives a race, *)
(* one that does not, one that need not and a race that cannot happen.       *)
AllowedHere == {<<"created", "fund", "funded">>, <<"funded", "release", "released">>}
Race(enabled, guaranteed, preserved) == [enabled |-> enabled, guaranteed |-> guaranteed, preserved |-> preserved]
BothOrders == {"protectiveFirst", "competingFirst"}
RacesHere == {Race(TRUE, TRUE, BothOrders), Race(TRUE, TRUE, {"protectiveFirst"}), Race(TRUE, FALSE, {}), Race(FALSE, TRUE, {})}

Hydrated == INSTANCE HydratedTrace

(* Two builders of three inputs, of which one is sound. *)
EvaluateHere == [i \in Inputs |-> IF i = "sound" THEN "pass" ELSE "fail"]

Packs == INSTANCE EvidencePacks

(* Two runs that share their paths; two manifests; three reports, one of   *)
(* which leaves a declared invariant out.                                  *)
ManifestsHere == {[declared |-> {"i", "j"}, depth |-> 2], [declared |-> {"i"}, depth |-> 1]}
Row(i, status, finding, length) == [invariant |-> i, status |-> status, finding |-> finding, length |-> length]
ReportsHere == {<<Row("i", "violated", "F", 2), Row("j", "inconclusive", "none", 0)>>,
                <<Row("i", "not_found_within_bound", "none", 0)>>,
                <<Row("i", "violated", "F", 2)>>}

Engagement == INSTANCE EngagementRun WITH MaxEdits <- MaxChanges, pc <- at, edits <- changes

-----------------------------------------------------------------------------
(* Two requests, the first with a retry; one call of the second shares its *)
(* contract and function; a downstream request; receipts of the right and  *)
(* the wrong action, and of none: a commit alone, made or announced.       *)
RequestsHere == [a1 |-> "pay", a2 |-> "pay", b1 |-> "refund"]
Call(nonce) == [contract |-> "vault", function |-> "release", nonce |-> nonce]
BindingHere == [a1 |-> Call(1), a2 |-> Call(1), b1 |-> Call(2)]

Log(effect, commit) == [contract |-> "vault", removed |-> FALSE, effect |-> effect, commit |-> commit]
Effect(action) == {[action |-> action, applied |-> TRUE]}
Commit(function, committed) == {[function |-> function, committed |-> committed]}

Pays      == Log(Effect("pay"), {})
Refunds   == Log(Effect("refund"), Commit("release", TRUE))
Released  == Log({}, Commit("release", TRUE))
Announced == Log({}, Commit("release", FALSE))
Removed   == [Pays EXCEPT !.removed = TRUE]
Done(emitted) == [ok |-> TRUE, logs |-> emitted]
Committed == Done({Released, Announced})
Refunded  == Done({Refunds, Removed})
ReceiptsHere == {[ok |-> FALSE, logs |-> {}], Done({Pays}), Refunded, Committed}

Claim(request, attempt, source, status, bound, tx, outcome, mapped) ==
    [request |-> request, attempt |-> attempt, kind |-> source, status |-> status, bound |-> bound,
     tx |-> tx, result |-> outcome, mapped |-> mapped, late |-> FALSE]

Honest == Claim("pay", "a1", "CONTRACT_RECEIPT", "COMPLETED", "a1", "t1", {Done({Pays})}, {Pays})
Paid(mapped) == [Honest EXCEPT !.result = {Committed}, !.mapped = mapped]
Cancelled(e) == Claim("pay", "a2", "CONTRACT_RECEIPT", "CANCELLED", "a1", "t2", {Refunded}, {e})
ObservationsHere ==
    {Honest, Paid({Released}), Paid({Released, Announced}), [Honest EXCEPT !.bound = "b1"], [Honest EXCEPT !.kind = "API_RESPONSE"], [Honest EXCEPT !.late = TRUE],
     Cancelled(Refunds), Cancelled(Removed),
     [Honest EXCEPT !.result = {Refunded}],
     Claim("refund", "b1", "CONTRACT_RECEIPT", "FAILED", "b1", "t2", {[ok |-> FALSE, logs |-> {}]}, {}),
     Claim("refund", "b1", "BACKEND_STATE", "TIMED_OUT", "none", "t2", {}, {}),
     Claim("index", "i1", "INDEXER_RECORD", "COMPLETED", "none", "t1", {}, {})}

Bridge == INSTANCE ContinuityBridge WITH chain <- calls, pc <- stage

ASSUME EvidenceAssumption ==
    /\ Rpc!BoundsAssumption /\ Hydrated!LatticeAssumption /\ Packs!EvaluateAssumption
    /\ Engagement!EngagementAssumption /\ Bridge!BridgeAssumption

-----------------------------------------------------------------------------
NoPublication == /\ pc = [p \in Publishers |-> "idle"] /\ data = [p \in Publishers |-> "none"] /\ temporary = {}
                 /\ path = Nobody /\ stable = Nobody /\ powerLost = FALSE /\ replaced = FALSE
NoRpc == /\ chain = "-" /\ minted = "-" /\ logs = "-" /\ sameChain = "-" /\ withRace = "-" /\ place = "-" /\ receipt = "-"
         /\ head = "-" /\ capture = "-" /\ trace = "-" /\ hydrated = "-" /\ verdict = "-" /\ saved = "-" /\ run = "-"
         /\ atReceipt = "-" /\ rolledBack = "-"
NoHydration == transactions = "-" /\ events = "-" /\ assessment = "-"
NoPacks == /\ kind = "-" /\ file = "-" /\ writers = "-" /\ builders = "-" /\ edits = "-" /\ verifier = "-" /\ touched = "-"
NoEngagement == /\ manifest = "-" /\ sources = "-" /\ result = "-" /\ zip = "-" /\ at = "-" /\ held = "-" /\ told = "-"
                /\ accepted = "-" /\ changes = "-" /\ since = "-"
NoBridge == /\ calls = "-" /\ witnessed = "-" /\ captures = "-" /\ traces = "-" /\ observations = "-" /\ stage = "-"
            /\ built = "-" /\ files = "-"

(* Exactly one component starts. *)
MCInit ==
    /\ part \in Parts
    /\ IF part = "publication" THEN Init ELSE NoPublication
    /\ IF part = "rpc" THEN Rpc!Init ELSE NoRpc
    /\ IF part = "hydration" THEN Hydrated!Init ELSE NoHydration
    /\ IF part = "packs" THEN Packs!Init ELSE NoPacks
    /\ IF part = "engagement" THEN Engagement!Init ELSE NoEngagement
    /\ IF part = "bridge" THEN Bridge!Init ELSE NoBridge

MCNext ==
    /\ UNCHANGED part
    /\ \/ part = "publication" /\ Next /\ UNCHANGED <<rpc, hydration, packs, engagement, bridge>>
       \/ part = "rpc" /\ Rpc!Next /\ UNCHANGED <<publication, hydration, packs, engagement, bridge>>
       \/ part = "hydration" /\ Hydrated!Next /\ UNCHANGED <<publication, rpc, packs, engagement, bridge>>
       \/ part = "packs" /\ Packs!Next /\ UNCHANGED <<publication, rpc, hydration, engagement, bridge>>
       \/ part = "engagement" /\ Engagement!Next /\ UNCHANGED <<publication, rpc, hydration, packs, bridge>>
       \/ part = "bridge" /\ Bridge!Next /\ UNCHANGED <<publication, rpc, hydration, packs, engagement>>

MCSpec == MCInit /\ [][MCNext]_<<part, publication, rpc, hydration, packs, engagement, bridge>>

-----------------------------------------------------------------------------
(* However the chain reorganizes between the reads of a capture, what the  *)
(* capture says was true of it at some time, and a verdict of the          *)
(* assessment rests on a mined receipt, known logs and one chain.          *)
AssessmentRestsOnTheChain == part = "rpc" => Rpc!AssessmentRestsOnTheChain

(* A pass means one chain of allowed steps paid once; a fail is never an   *)
(* artefact of reports delivered twice, in another order or in part.       *)
VerdictIsEarned == part = "hydration" => Hydrated!VerdictIsEarned

(* A pack that verifies is the pack its input makes, whoever built, cut or *)
(* edited it, and the digest returned is that of the verified pack unless  *)
(* the file changed under the payment verifier.                            *)
VerifiedIsReplayed == part = "packs" => Packs!VerifiedIsReplayed

(* A run that reports success packed in full a result captured after it    *)
(* removed the old one; what a client accepts classifies every declared    *)
(* invariant once.                                                         *)
EvidenceIsFreshAndWhole == part = "engagement" => Engagement!EvidenceIsFreshAndWhole

(* What was published as completed or cancelled has an act on the declared *)
(* contract that the chain witnessed, for that very request where the      *)
(* event names one and by its declared function where it does not; what    *)
(* was published as failed had a transaction that reverted.                *)
OutcomeIsWitnessed == part = "bridge" => Bridge!OutcomeIsWitnessed
=============================================================================

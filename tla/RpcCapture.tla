----------------------------- MODULE RpcCapture -----------------------------
(***************************************************************************)
(* cgqa-rpc-hydrated: four calls to a node capture a transaction's receipt *)
(* and a witness of its block, the receipt's logs become an execution      *)
(* trace, and the trace is assessed against a static lattice and, when one *)
(* is given, a race model.  The chain grows and reorganizes between any    *)
(* two calls and any call may fail.                                        *)
(***************************************************************************)
EXTENDS Naturals, Sequences, FiniteSets

CONSTANTS
    MaxHeight,   \* of the chain
    MaxBlocks,   \* minted over all branches
    MaxRuns      \* of the command, with one capture output path

BoundsAssumption == MaxHeight \in Nat \ {0} /\ MaxBlocks \in Nat /\ MaxRuns \in Nat \ {0}

(* What a log of the receipt is to the receipt profile. *)
LogKinds == {"mapped", "undecodable", "removed", "otherContract", "unknownEvent"}

Missing == [id |-> 0, number |-> 0, outcome |-> "missing"]
NoFile  == [id |-> 0, number |-> 0, outcome |-> "no file"]

VARIABLES
    chain,      \* the canonical branch: <<[id, outcome of the transaction in it]>>
    minted,     \* blocks ever mined
    logs,       \* kinds of the logs that the transaction emits when it succeeds
    sameChain,  \* the receipt profile names this chain's id
    withRace,   \* a race model is given
    pc,
    receipt,    \* the receipt the node returned: its block and the outcome
    head,       \* the head the node returned
    capture,    \* "none", "inconclusive" or "pass"
    trace,      \* log kinds that became events of the execution trace
    hydrated,   \* verdict of the hydrated lattice
    verdict,    \* of the command: "none", "error", "inconclusive", "pass" or "fail"
    saved,      \* what the capture output path holds
    run,
    \* history of the run
    atReceipt,  \* the chain when the receipt was asked for
    rolledBack  \* a lower bound of what every reorganization since then kept

environment == <<chain, minted, logs, sameChain, withRace>>
outcome     == <<trace, hydrated>>
history     == <<atReceipt, rolledBack>>
vars == <<environment, pc, receipt, head, capture, outcome, verdict, saved, run, history>>

Init ==
    /\ chain = <<[id |-> 1, outcome |-> "missing"]>> /\ minted = 1
    /\ logs \in {{}} \cup {{k} : k \in LogKinds} \cup {{"mapped", k} : k \in LogKinds}
    /\ sameChain \in BOOLEAN /\ withRace \in BOOLEAN
    /\ pc = "chainId" /\ receipt = Missing /\ head = 0
    /\ capture = "none" /\ trace = {} /\ hydrated = "none" /\ verdict = "none"
    /\ saved = NoFile /\ run = 1
    /\ atReceipt = <<>> /\ rolledBack = MaxHeight

-----------------------------------------------------------------------------
(* The chain.                                                              *)

Mined == \E n \in DOMAIN chain : chain[n].outcome # "missing"

Mine ==
    /\ Len(chain) < MaxHeight /\ minted < MaxBlocks
    /\ \E result \in IF Mined THEN {"missing"} ELSE {"missing", "success", "reverted"} :
          chain' = Append(chain, [id |-> minted + 1, outcome |-> result])
    /\ minted' = minted + 1
    /\ UNCHANGED <<logs, sameChain, withRace, pc, receipt, head, capture, outcome, verdict, saved, run, history>>

Reorganize ==
    /\ \E kept \in 1 .. Len(chain) - 1 :
          /\ chain' = SubSeq(chain, 1, kept)
          /\ rolledBack' = IF kept < rolledBack THEN kept ELSE rolledBack
    /\ UNCHANGED <<minted, logs, sameChain, withRace, pc, receipt, head, capture, outcome, verdict, saved, run, atReceipt>>

-----------------------------------------------------------------------------
(* capture_transaction.                                                    *)

Finish(result) == pc' = "done" /\ verdict' = result

(* _require and every failed call raise ValueError. *)
Require(condition, next) ==
    IF condition THEN pc' = next /\ UNCHANGED verdict ELSE Finish("error")

CallFails ==
    /\ pc \in {"chainId", "receipt", "block", "head"}
    /\ Finish("error")
    /\ UNCHANGED <<environment, receipt, head, capture, outcome, saved, run, history>>

ReadChainId ==
    /\ pc = "chainId"
    /\ pc' = "receipt"
    /\ UNCHANGED <<environment, receipt, head, capture, outcome, verdict, saved, run, history>>

ReadReceipt ==
    /\ pc = "receipt"
    /\ atReceipt' = chain /\ rolledBack' = MaxHeight
    /\ \/ /\ Mined
          /\ receipt' = LET n == CHOOSE n \in DOMAIN chain : chain[n].outcome # "missing"
                        IN  [id |-> chain[n].id, number |-> n, outcome |-> chain[n].outcome]
          /\ pc' = "block"
          /\ UNCHANGED capture
       \/ /\ ~ Mined
          /\ capture' = "inconclusive" /\ pc' = "write"
          /\ UNCHANGED receipt
    /\ UNCHANGED <<environment, head, outcome, verdict, saved, run>>

(* The node may still know a block that it dropped from the branch. *)
ReadBlock ==
    /\ pc = "block"
    /\ \E known \in IF \E n \in DOMAIN chain : chain[n].id = receipt.id THEN {TRUE} ELSE BOOLEAN :
          Require(known, "head")
    /\ UNCHANGED <<environment, receipt, head, capture, outcome, saved, run, history>>

ReadHead_AnyHead ==
    /\ pc = "head"
    /\ head' = Len(chain)
    /\ capture' = "pass" /\ pc' = "write"
    /\ UNCHANGED <<environment, receipt, outcome, verdict, saved, run, history>>

ReadHead ==
    /\ pc = "head"
    /\ head' = Len(chain)
    /\ Require(head' >= receipt.number, "write")
    /\ capture' = IF head' >= receipt.number THEN "pass" ELSE capture
    /\ UNCHANGED <<environment, receipt, outcome, saved, run, history>>

Confirmations == head - receipt.number + 1

-----------------------------------------------------------------------------
(* main, after the capture.                                                *)

WriteCapture ==
    /\ pc = "write"
    /\ saved' = [receipt EXCEPT !.number = IF capture = "pass" THEN Confirmations ELSE 0]
    /\ IF capture = "pass" THEN pc' = "adapt" /\ UNCHANGED verdict
                           ELSE Finish("inconclusive")
    /\ UNCHANGED <<environment, receipt, head, capture, outcome, run, history>>

(* adapt_receipt keeps the logs that are not removed, of a contract and of *)
(* an event of the profile; one that does not decode is an error.          *)
Events ==
    IF receipt.outcome = "success" THEN logs \cap {"mapped", "undecodable"} ELSE {}

AdaptReceipt ==
    /\ pc = "adapt"
    /\ trace' = IF sameChain /\ "undecodable" \notin Events THEN Events ELSE {}
    /\ IF ~ sameChain \/ "undecodable" \in Events THEN Finish("error")
       ELSE IF Events = {} THEN Finish("inconclusive")
       ELSE pc' = "assess" /\ UNCHANGED verdict
    /\ UNCHANGED <<environment, receipt, head, capture, hydrated, saved, run, history>>

Verdicts == {"pass", "fail", "inconclusive"}

(* The verdicts that two required legs make together. *)
Compose(base, race) ==
    IF "fail" \in {base, race} THEN "fail"
    ELSE IF base = "pass" /\ race = "pass" THEN "pass"
    ELSE "inconclusive"

Assess ==
    /\ pc = "assess"
    /\ hydrated' \in Verdicts
    /\ \E race \in Verdicts : Finish(IF withRace THEN Compose(hydrated', race) ELSE hydrated')
    /\ UNCHANGED <<environment, receipt, head, capture, trace, saved, run, history>>

(* The operator calls the command again, with the same output path. *)
RunAgain ==
    /\ pc = "done" /\ run < MaxRuns
    /\ run' = run + 1
    /\ pc' = "chainId" /\ receipt' = Missing /\ head' = 0
    /\ capture' = "none" /\ trace' = {} /\ hydrated' = "none" /\ verdict' = "none"
    /\ atReceipt' = <<>> /\ rolledBack' = MaxHeight
    /\ UNCHANGED <<environment, saved>>

Next ==
    \/ Mine \/ Reorganize
    \/ CallFails \/ ReadChainId \/ ReadReceipt \/ ReadBlock \/ ReadHead
    \/ WriteCapture \/ AdaptReceipt \/ Assess \/ RunAgain

Spec == Init /\ [][Next]_vars

-----------------------------------------------------------------------------
(***************************************************************************)
(* What a run says of the chain, whatever happens between its calls.       *)
(* A passing capture names the block that held the transaction when the    *)
(* receipt was read and counts at least one confirmation; the block has at *)
(* least that many as long as no reorganization took it away.  An          *)
(* inconclusive capture was made when no block held the transaction.  A    *)
(* verdict "pass" or "fail" rests on a passing capture of a successful     *)
(* execution on the profile's chain and on a log that the profile maps,    *)
(* none that the node marked removed; only a race model can turn a passing *)
(* or inconclusive hydrated assessment into another verdict.               *)
(***************************************************************************)
CaptureIsTrueOfTheChain ==
    /\ capture = "pass" =>
         /\ receipt.number \in DOMAIN atReceipt
         /\ atReceipt[receipt.number] = [id |-> receipt.id, outcome |-> receipt.outcome]
         /\ Confirmations >= 1 /\ head >= receipt.number
         /\ rolledBack >= receipt.number => chain[receipt.number].id = receipt.id
         /\ rolledBack >= head => Len(chain) - receipt.number + 1 >= Confirmations
    /\ capture = "inconclusive" => \A n \in DOMAIN atReceipt : atReceipt[n].outcome = "missing"

VerdictRestsOnMinedLogs ==
    verdict \in {"pass", "fail"} =>
        /\ capture = "pass" /\ receipt.outcome = "success" /\ sameChain
        /\ trace = {"mapped"} /\ "undecodable" \notin logs
        /\ verdict = "pass" => hydrated = "pass"
        /\ verdict = "fail" /\ ~ withRace => hydrated = "fail"

AssessmentRestsOnTheChain == CaptureIsTrueOfTheChain /\ VerdictRestsOnMinedLogs
=============================================================================

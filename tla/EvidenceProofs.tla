---------------------------- MODULE EvidenceProofs ----------------------------
(***************************************************************************)
(* Where evidence comes from and how it is kept, for every value of the    *)
(* constants: files that are published, captures of a chain that           *)
(* reorganizes, the assessment of hydrated traces, packs, engagement runs  *)
(* and the bridge that exports outcomes.  Each is proved by itself, and    *)
(* then of the specification that MCEvidence makes of all of them.         *)
(***************************************************************************)
EXTENDS MCEvidence, Integers, FiniteSetTheorems, SequenceTheorems, TLAPS

-----------------------------------------------------------------------------
(* Files that are published.                                               *)

Places == {"idle", "writing", "syncing", "publishing", "published", "failing",
           "acknowledged", "failed", "killed"}

PublicationTypeOK ==
    /\ pc \in [Publishers -> Places]
    /\ data \in [Publishers -> {"none", "partial", "written", "synced"}]
    /\ temporary \subseteq Publishers
    /\ path \in Publishers \cup {Nobody}
    /\ stable \in Publishers \cup {Nobody}
    /\ powerLost \in BOOLEAN
    /\ replaced \in BOOLEAN

(* What a publisher the path names, on the disk or not, has behind it. *)
HasPublished(p) == pc[p] \in {"published", "acknowledged", "killed"} /\ data[p] = "synced"

NamesAreDone ==
    /\ path # Nobody => HasPublished(path)
    /\ stable # Nobody => HasPublished(stable)

PublishingIsSynced == \A p \in Publishers : pc[p] = "publishing" => data[p] = "synced"

FirstIsKept ==
    ~ replaced /\ ~ powerLost => \A p \in Publishers : Published(p) => path = p

PublicationInv == PublicationTypeOK /\ NamesAreDone /\ PublishingIsSynced /\ FirstIsKept

(***************************************************************************)
(* Nothing is named or published before it is done.                        *)
(***************************************************************************)
LEMMA PublicationInit == Init => PublicationInv
BY PublishersAssumption
   DEF Init, PublicationInv, PublicationTypeOK, Places, NamesAreDone, PublishingIsSynced, FirstIsKept, HasPublished, Published

(***************************************************************************)
(* Each step keeps the invariant: a publisher that the path names takes    *)
(* only the steps after its publication.                                   *)
(***************************************************************************)
LEMMA PublicationStep == PublicationInv /\ [Next]_vars => PublicationInv'
<1> SUFFICES ASSUME PublicationInv, [Next]_vars PROVE PublicationInv'
  OBVIOUS
<1> USE PublishersAssumption
<1> USE DEF PublicationInv, PublicationTypeOK, Places, NamesAreDone, PublishingIsSynced, FirstIsKept, HasPublished,
            Published, At, Goto, directory
<1>1. ASSUME NEW p \in Publishers, CreateTemporary(p) PROVE PublicationInv'
  BY <1>1 DEF CreateTemporary
<1>2. ASSUME NEW p \in Publishers, Write(p) PROVE PublicationInv'
  BY <1>2 DEF Write
<1>3. ASSUME NEW p \in Publishers, Sync(p) PROVE PublicationInv'
  BY <1>3 DEF Sync
<1>4. ASSUME NEW p \in Publishers, Fail(p) PROVE PublicationInv'
  BY <1>4 DEF Fail
<1>5. ASSUME NEW p \in Publishers, Replace(p) PROVE PublicationInv'
  BY <1>5 DEF Replace
<1>6. ASSUME NEW p \in Publishers, Link(p) PROVE PublicationInv'
  <2>1. CASE path = Nobody
    BY <1>6, <2>1 DEF Link
  <2>2. CASE path # Nobody
    BY <1>6, <2>2 DEF Link
  <2> QED BY <2>1, <2>2
<1>7. ASSUME NEW p \in Publishers, Unlink(p) PROVE PublicationInv'
  <2>1. temporary' \subseteq Publishers
    BY <1>7 DEF Unlink
  <2>2. CASE pc[p] = "published"
    BY <1>7, <2>1, <2>2 DEF Unlink
  <2>3. CASE pc[p] = "failing"
    BY <1>7, <2>1, <2>3 DEF Unlink
  <2> QED BY <1>7, <2>2, <2>3 DEF Unlink
<1>8. ASSUME NEW p \in Publishers, Kill(p) PROVE PublicationInv'
  BY <1>8 DEF Kill
<1>9. CASE WriteBack
  BY <1>9 DEF WriteBack
<1>10. CASE PowerLoss
  BY <1>10 DEF PowerLoss
<1>11. CASE UNCHANGED vars
  BY <1>11 DEF vars
<1> QED
  BY <1>1, <1>2, <1>3, <1>4, <1>5, <1>6, <1>7, <1>8, <1>9, <1>10, <1>11 DEF Next

(***************************************************************************)
(* The file the path names is complete, and without a replacement or a     *)
(* loss of power the one acknowledged publication stays.                   *)
(***************************************************************************)
THEOREM EvidenceIsKept == Spec => []PublishedEvidenceIsKept
<1>1. PublicationInv => PublishedEvidenceIsKept
  BY PublishersAssumption
     DEF PublicationInv, PublicationTypeOK, NamesAreDone, FirstIsKept, HasPublished, Published, PublishedEvidenceIsKept
<1> QED
  BY PublicationInit, PublicationStep, <1>1, PTL DEF Spec

-----------------------------------------------------------------------------
(* Captures of a chain that reorganizes.                                   *)

Asking == {"chainId", "receipt", "block", "head"}

BlockOutcomes == {"missing", "success", "reverted"}
Blocks == [id : Nat, outcome : BlockOutcomes]

RpcTypeOK ==
    /\ chain \in Seq(Blocks) /\ minted \in Nat
    /\ atReceipt \in Seq(Blocks) /\ rolledBack \in Nat
    /\ receipt \in [id : Nat, number : Nat, outcome : BlockOutcomes] /\ head \in Nat
    /\ place \in Asking \cup {"write", "adapt", "assess", "done"}

(* What no reorganization took away is as it was. *)
KeptStands ==
    \A n \in 1 .. Len(atReceipt) : n <= rolledBack => n <= Len(chain) /\ chain[n] = atReceipt[n]

(* The receipt is of a block the chain had. *)
ReceiptWasMined ==
    place \in {"block", "head"} \/ capture = "pass" =>
        /\ receipt.number \in 1 .. Len(atReceipt)
        /\ atReceipt[receipt.number] = [id |-> receipt.id, outcome |-> receipt.outcome]

CaptureKept ==
    /\ place \in Asking => capture = "none"
    /\ place = "write" => capture \in {"pass", "inconclusive"}
    /\ place \in {"adapt", "assess"} => capture = "pass"
    /\ capture = "inconclusive" => \A n \in 1 .. Len(atReceipt) : atReceipt[n].outcome = "missing"
    /\ capture = "pass" => head >= receipt.number /\ (rolledBack >= head => Len(chain) >= head)

(* What the verdict will rest on, and rests on. *)
Mapped == receipt.outcome = "success" /\ sameChain /\ trace = {"mapped"} /\ "undecodable" \notin logs

VerdictKept ==
    /\ place # "done" => verdict = "none"
    /\ place = "assess" => Mapped
    /\ verdict \in {"pass", "fail"} =>
          /\ capture = "pass" /\ Mapped
          /\ verdict = "pass" => hydrated = "pass"
          /\ verdict = "fail" /\ ~ withRace => hydrated = "fail"

RpcInv == RpcTypeOK /\ KeptStands /\ ReceiptWasMined /\ CaptureKept /\ VerdictKept

(* An initial state of the RPC capture satisfies the inductive invariant.  *)
LEMMA RpcInit == Rpc!BoundsAssumption /\ Rpc!Init => RpcInv
<1> SUFFICES ASSUME Rpc!BoundsAssumption, Rpc!Init PROVE RpcInv
  OBVIOUS
<1>1. RpcTypeOK
  <2>1. chain = <<[id |-> 1, outcome |-> "missing"]>> /\ atReceipt = <<>>
    BY DEF Rpc!Init
  <2>2. [id |-> 1, outcome |-> "missing"] \in Blocks
    BY DEF Blocks, BlockOutcomes
  <2>3. chain \in Seq(Blocks) /\ atReceipt \in Seq(Blocks)
    BY <2>1, <2>2
  <2> QED BY <2>3 DEF Rpc!Init, Rpc!BoundsAssumption, Rpc!Missing, RpcTypeOK, Asking, BlockOutcomes
<1>2. atReceipt = <<>> /\ Len(atReceipt) = 0
  BY DEF Rpc!Init
<1> QED
  BY <1>1, <1>2 DEF Rpc!Init, RpcInv, KeptStands, ReceiptWasMined, CaptureKept, VerdictKept, Asking

(* The chain alone moves: what was captured of it stays. *)
LEMMA ChainMoves ==
  ASSUME RpcInv, Rpc!Mine \/ Rpc!Reorganize
  PROVE  RpcInv'
<1> USE DEF RpcInv
<1>1. UNCHANGED <<logs, sameChain, withRace, place, receipt, head, capture, trace, hydrated, verdict, atReceipt>>
  BY DEF Rpc!Mine, Rpc!Reorganize, Rpc!outcome, Rpc!history
<1>2. RpcTypeOK' /\ KeptStands' /\ ((rolledBack >= head => Len(chain) >= head) => (rolledBack >= head => Len(chain) >= head)')
  <2>1. CASE Rpc!Mine
    <3>1. PICK found \in {"missing", "success", "reverted"} : chain' = Append(chain, [id |-> minted + 1, outcome |-> found])
      BY <2>1 DEF Rpc!Mine
    <3>2. minted' = minted + 1 /\ rolledBack' = rolledBack
      BY <2>1 DEF Rpc!Mine, Rpc!history
    <3>3. [id |-> minted + 1, outcome |-> found] \in Blocks
      BY DEF RpcTypeOK, Blocks, BlockOutcomes
    <3>4. chain' \in Seq(Blocks) /\ Len(chain') = Len(chain) + 1 /\ \A n \in 1 .. Len(chain) : chain'[n] = chain[n]
      BY <3>1, <3>3 DEF RpcTypeOK
    <3>5. RpcTypeOK'
      BY <1>1, <3>2, <3>4 DEF RpcTypeOK
    <3>6. KeptStands'
      BY <1>1, <3>2, <3>4 DEF KeptStands, RpcTypeOK
    <3> QED BY <1>1, <3>2, <3>4, <3>5, <3>6 DEF RpcTypeOK
  <2>2. CASE Rpc!Reorganize
    <3>1. PICK kept \in 1 .. Len(chain) - 1 : chain' = SubSeq(chain, 1, kept) /\ rolledBack' = IF kept < rolledBack THEN kept ELSE rolledBack
      BY <2>2 DEF Rpc!Reorganize
    <3>2. minted' = minted
      BY <2>2 DEF Rpc!Reorganize
    <3>3. chain' \in Seq(Blocks) /\ Len(chain') = kept /\ \A n \in 1 .. kept : chain'[n] = chain[n]
      BY <3>1, SubSeqProperties DEF RpcTypeOK
    <3>4. rolledBack' \in Nat /\ rolledBack' <= kept /\ rolledBack' <= rolledBack
      BY <3>1 DEF RpcTypeOK
    <3>5. RpcTypeOK'
      BY <1>1, <3>2, <3>3, <3>4 DEF RpcTypeOK
    <3>6. KeptStands'
      BY <1>1, <3>1, <3>3, <3>4 DEF KeptStands, RpcTypeOK
    <3> QED BY <1>1, <3>1, <3>3, <3>4, <3>5, <3>6 DEF RpcTypeOK
  <2> QED BY <2>1, <2>2
<1>3. ReceiptWasMined'
  BY <1>1 DEF ReceiptWasMined
<1>4. CaptureKept'
  BY <1>1, <1>2 DEF CaptureKept, RpcTypeOK
<1>5. VerdictKept'
  BY <1>1 DEF VerdictKept, Mapped
<1> QED BY <1>2, <1>3, <1>4, <1>5

(* Every step of the RPC capture keeps the inductive invariant.            *)
LEMMA RpcStep == Rpc!BoundsAssumption /\ RpcInv /\ [Rpc!Next]_Rpc!vars => RpcInv'
<1> SUFFICES ASSUME Rpc!BoundsAssumption, RpcInv, [Rpc!Next]_Rpc!vars PROVE RpcInv'
  OBVIOUS
<1> USE DEF RpcInv, Rpc!environment, Rpc!outcome, Rpc!history, Asking
<1>1. ASSUME UNCHANGED <<chain, minted, logs, sameChain, withRace, receipt, atReceipt, rolledBack>>, head' \in Nat,
             place' \in Asking \cup {"write", "adapt", "assess", "done"}, ReceiptWasMined', CaptureKept', VerdictKept'
      PROVE  RpcInv'
  BY <1>1 DEF RpcTypeOK, KeptStands
<1>2. CASE Rpc!CallFails
  <2>1. head' \in Nat
    BY <1>2 DEF Rpc!CallFails, RpcTypeOK
  <2> QED BY <1>1, <1>2, <2>1 DEF Rpc!CallFails, Rpc!Finish, ReceiptWasMined, CaptureKept, VerdictKept
<1>3. CASE Rpc!ReadChainId
  BY <1>1, <1>3 DEF Rpc!ReadChainId, RpcTypeOK, ReceiptWasMined, CaptureKept, VerdictKept
<1>4. CASE Rpc!ReadReceipt
  <2>1. /\ place = "receipt" /\ atReceipt' = chain /\ rolledBack' = MaxHeight
        /\ UNCHANGED <<chain, minted, logs, sameChain, withRace, head, trace, hydrated, verdict>>
        /\ capture = "none" /\ verdict = "none"
    BY <1>4 DEF Rpc!ReadReceipt, CaptureKept, VerdictKept
  <2>2. KeptStands'
    BY <2>1 DEF KeptStands, RpcTypeOK
  <2>3. CASE Rpc!Mined
    <3> DEFINE n == CHOOSE n \in DOMAIN chain : chain[n].outcome # "missing"
    <3>1. n \in DOMAIN chain /\ chain[n].outcome # "missing"
      BY <2>3 DEF Rpc!Mined
    <3>2. /\ receipt' = [id |-> chain[n].id, number |-> n, outcome |-> chain[n].outcome]
          /\ place' = "block" /\ capture' = capture
      BY <1>4, <2>3 DEF Rpc!ReadReceipt
    <3> HIDE DEF n
    <3>3. n \in 1 .. Len(chain) /\ n \in Nat /\ chain[n] \in Blocks
      <4>1. DOMAIN chain = 1 .. Len(chain) /\ \A m \in 1 .. Len(chain) : chain[m] \in Blocks
        BY DEF RpcTypeOK
      <4> QED BY <3>1, <4>1
    <3>4. RpcTypeOK'
      BY <2>1, <3>2, <3>3 DEF RpcTypeOK, Rpc!BoundsAssumption, Blocks
    <3>5. ReceiptWasMined'
      <4>1. chain[n] = [id |-> chain[n].id, outcome |-> chain[n].outcome]
        BY <3>3 DEF Blocks
      <4> QED BY <2>1, <3>2, <3>3, <4>1 DEF ReceiptWasMined
    <3>6. CaptureKept' /\ VerdictKept'
      BY <2>1, <3>2 DEF CaptureKept, VerdictKept
    <3> QED BY <2>2, <3>4, <3>5, <3>6
  <2>4. CASE ~ Rpc!Mined
    <3>1. capture' = "inconclusive" /\ place' = "write" /\ receipt' = receipt
      BY <1>4, <2>4 DEF Rpc!ReadReceipt
    <3>2. \A n \in 1 .. Len(chain) : chain[n].outcome = "missing"
      BY <2>4 DEF Rpc!Mined, RpcTypeOK
    <3>3. RpcTypeOK'
      BY <2>1, <3>1 DEF RpcTypeOK, Rpc!BoundsAssumption
    <3>4. ReceiptWasMined' /\ CaptureKept' /\ VerdictKept'
      BY <2>1, <3>1, <3>2 DEF ReceiptWasMined, CaptureKept, VerdictKept
    <3> QED BY <2>2, <3>3, <3>4
  <2> QED BY <2>3, <2>4
<1>5. CASE Rpc!ReadBlock
  <2>1. head' \in Nat
    BY <1>5 DEF Rpc!ReadBlock, RpcTypeOK
  <2> QED BY <1>1, <1>5, <2>1 DEF Rpc!ReadBlock, Rpc!Require, Rpc!Finish, ReceiptWasMined, CaptureKept, VerdictKept
<1>6. CASE Rpc!ReadHead
  <2>1. /\ place = "head" /\ head' = Len(chain) /\ capture = "none" /\ verdict = "none"
        /\ UNCHANGED <<chain, minted, logs, sameChain, withRace, receipt, trace, hydrated, atReceipt, rolledBack>>
    BY <1>6 DEF Rpc!ReadHead, CaptureKept, VerdictKept
  <2>2. head' \in Nat /\ receipt.number \in Nat
    BY <2>1 DEF RpcTypeOK
  <2>3. CASE head' >= receipt.number
    <3>1. place' = "write" /\ capture' = "pass" /\ verdict' = verdict
      BY <1>6, <2>3 DEF Rpc!ReadHead, Rpc!Require
    <3>2. ReceiptWasMined' /\ CaptureKept' /\ VerdictKept'
      BY <2>1, <2>2, <2>3, <3>1 DEF ReceiptWasMined, CaptureKept, VerdictKept
    <3> QED BY <1>1, <2>1, <2>2, <3>1, <3>2
  <2>4. CASE ~ head' >= receipt.number
    <3>1. place' = "done" /\ capture' = capture /\ verdict' = "error"
      BY <1>6, <2>4 DEF Rpc!ReadHead, Rpc!Require, Rpc!Finish
    <3>2. ReceiptWasMined' /\ CaptureKept' /\ VerdictKept'
      BY <2>1, <3>1 DEF ReceiptWasMined, CaptureKept, VerdictKept
    <3> QED BY <1>1, <2>1, <2>2, <3>1, <3>2
  <2> QED BY <2>3, <2>4
<1>7. CASE Rpc!WriteCapture
  <2>1. head' \in Nat
    BY <1>7 DEF Rpc!WriteCapture, RpcTypeOK
  <2> QED BY <1>1, <1>7, <2>1 DEF Rpc!WriteCapture, Rpc!Finish, ReceiptWasMined, CaptureKept, VerdictKept
<1>8. CASE Rpc!AdaptReceipt
  <2>1. /\ place = "adapt" /\ capture = "pass" /\ verdict = "none"
        /\ UNCHANGED <<chain, minted, logs, sameChain, withRace, receipt, head, capture, hydrated, atReceipt, rolledBack>>
    BY <1>8 DEF Rpc!AdaptReceipt, CaptureKept, VerdictKept
  <2>2. \/ place' = "done" /\ verdict' \in {"error", "inconclusive"}
        \/ place' = "assess" /\ verdict' = verdict /\ sameChain /\ "undecodable" \notin Rpc!Events /\ Rpc!Events # {}
    BY <1>8 DEF Rpc!AdaptReceipt, Rpc!Finish
  <2>3. place' = "assess" => Mapped'
    <3> SUFFICES ASSUME place' = "assess" PROVE Mapped'
      OBVIOUS
    <3>1. sameChain /\ "undecodable" \notin Rpc!Events /\ Rpc!Events # {} /\ trace' = Rpc!Events
      BY <1>8, <2>2 DEF Rpc!AdaptReceipt
    <3>2. receipt.outcome = "success" /\ Rpc!Events = logs \cap {"mapped", "undecodable"}
      BY <3>1 DEF Rpc!Events
    <3> QED BY <2>1, <3>1, <3>2 DEF Mapped
  <2>4. ReceiptWasMined' /\ CaptureKept'
    BY <2>1, <2>2 DEF ReceiptWasMined, CaptureKept
  <2>5. VerdictKept'
    BY <2>1, <2>2, <2>3 DEF VerdictKept
  <2>6. head' \in Nat
    BY <2>1 DEF RpcTypeOK
  <2> QED BY <1>1, <2>1, <2>2, <2>4, <2>5, <2>6
<1>9. CASE Rpc!Assess
  <2>1. /\ place = "assess" /\ place' = "done" /\ capture = "pass" /\ Mapped
        /\ UNCHANGED <<chain, minted, logs, sameChain, withRace, receipt, head, capture, trace, atReceipt, rolledBack>>
    BY <1>9 DEF Rpc!Assess, Rpc!Finish, CaptureKept, VerdictKept
  <2>2. PICK race \in Rpc!Verdicts : verdict' = IF withRace THEN Rpc!Compose(hydrated', race) ELSE hydrated'
    BY <1>9 DEF Rpc!Assess, Rpc!Finish
  <2>3. (verdict' = "pass" => hydrated' = "pass") /\ (verdict' = "fail" /\ ~ withRace' => hydrated' = "fail")
    BY <2>1, <2>2 DEF Rpc!Compose
  <2>4. ReceiptWasMined' /\ CaptureKept'
    BY <2>1 DEF ReceiptWasMined, CaptureKept
  <2>5. VerdictKept'
    BY <2>1, <2>3 DEF VerdictKept, Mapped
  <2>6. head' \in Nat
    BY <2>1 DEF RpcTypeOK
  <2> QED BY <1>1, <2>1, <2>4, <2>5, <2>6
<1>10. CASE Rpc!RunAgain
  <2>1. /\ place' = "chainId" /\ receipt' = Rpc!Missing /\ head' = 0 /\ capture' = "none" /\ verdict' = "none"
        /\ atReceipt' = <<>> /\ rolledBack' = MaxHeight /\ UNCHANGED <<chain, minted>>
    BY <1>10 DEF Rpc!RunAgain
  <2>2. Len(atReceipt') = 0 /\ atReceipt' \in Seq(Blocks)
    BY <2>1
  <2>3. RpcTypeOK'
    BY <2>1, <2>2 DEF RpcTypeOK, Rpc!Missing, Rpc!BoundsAssumption, BlockOutcomes
  <2>4. KeptStands' /\ ReceiptWasMined' /\ CaptureKept' /\ VerdictKept'
    BY <2>1, <2>2 DEF KeptStands, ReceiptWasMined, CaptureKept, VerdictKept
  <2> QED BY <2>3, <2>4
<1>11. CASE UNCHANGED Rpc!vars
  <2>1. UNCHANGED <<chain, minted, logs, sameChain, withRace, place, receipt, head, capture, trace, hydrated, verdict, atReceipt, rolledBack>>
    BY <1>11 DEF Rpc!vars
  <2> QED BY <2>1 DEF RpcTypeOK, KeptStands, ReceiptWasMined, CaptureKept, VerdictKept, Mapped
<1> QED
  BY ChainMoves, <1>2, <1>3, <1>4, <1>5, <1>6, <1>7, <1>8, <1>9, <1>10, <1>11 DEF Rpc!Next

(* The inductive invariant of the RPC capture implies the property its run *)
(* checks.                                                                 *)
LEMMA RpcImplies == RpcInv => Rpc!AssessmentRestsOnTheChain
<1> SUFFICES ASSUME RpcInv PROVE Rpc!CaptureIsTrueOfTheChain /\ Rpc!VerdictRestsOnMinedLogs
  BY DEF Rpc!AssessmentRestsOnTheChain
<1> USE DEF RpcInv
<1>1. Rpc!VerdictRestsOnMinedLogs
  BY DEF VerdictKept, Mapped, Rpc!VerdictRestsOnMinedLogs
<1>2. ASSUME capture = "pass"
      PROVE  /\ receipt.number \in DOMAIN atReceipt
             /\ atReceipt[receipt.number] = [id |-> receipt.id, outcome |-> receipt.outcome]
             /\ Rpc!Confirmations >= 1 /\ head >= receipt.number
             /\ rolledBack >= receipt.number => chain[receipt.number].id = receipt.id
             /\ rolledBack >= head => Len(chain) - receipt.number + 1 >= Rpc!Confirmations
  <2>1. receipt.number \in 1 .. Len(atReceipt) /\ atReceipt[receipt.number] = [id |-> receipt.id, outcome |-> receipt.outcome]
    BY <1>2 DEF ReceiptWasMined
  <2>2. head >= receipt.number /\ (rolledBack >= head => Len(chain) >= head)
    BY <1>2 DEF CaptureKept
  <2>3. rolledBack >= receipt.number => chain[receipt.number].id = receipt.id
    BY <2>1 DEF KeptStands, RpcTypeOK
  <2>4. DOMAIN atReceipt = 1 .. Len(atReceipt) /\ Len(chain) \in Nat /\ receipt.number \in Nat /\ head \in Nat /\ rolledBack \in Nat
    BY DEF RpcTypeOK
  <2> QED BY <2>1, <2>2, <2>3, <2>4 DEF Rpc!Confirmations
<1>3. capture = "inconclusive" => \A n \in DOMAIN atReceipt : atReceipt[n].outcome = "missing"
  BY DEF CaptureKept, RpcTypeOK
<1> QED BY <1>1, <1>2, <1>3 DEF Rpc!CaptureIsTrueOfTheChain

(***************************************************************************)
(* What a capture says was true of the chain, and an assessment rests on   *)
(* it (capture_transaction, adapt_receipt and the command), for any height *)
(* and any number of blocks and runs.                                      *)
(***************************************************************************)
THEOREM RpcKept == ASSUME Rpc!BoundsAssumption PROVE Rpc!Spec => []Rpc!AssessmentRestsOnTheChain
<1>1. Rpc!Init => RpcInv
  BY RpcInit
<1>2. RpcInv /\ [Rpc!Next]_Rpc!vars => RpcInv'
  BY RpcStep
<1> QED
  BY <1>1, <1>2, RpcImplies, PTL DEF Rpc!Spec

-----------------------------------------------------------------------------
(* Hydrated traces.                                                        *)

HydratedCardinality == \A S : Hydrated!Cardinality(S) = Cardinality(S)

(* The module counts as FiniteSets does.                                   *)
LEMMA HydratedCounts == HydratedCardinality
<1> SUFFICES ASSUME NEW S PROVE Hydrated!Cardinality(S) = Cardinality(S)
  BY DEF HydratedCardinality
<1> QED BY DEF Hydrated!Cardinality, Cardinality, Hydrated!IsFiniteSet, IsFiniteSet

Executed(t) ==
    /\ t.commits \in BOOLEAN /\ t.reverted \in BOOLEAN /\ (t.commits \/ t.slot # "none")
    /\ t.slot \in Slots \cup {"none"}
    /\ t.parentVersion \in Nat /\ t.version \in Nat /\ t.version > t.parentVersion

(* The commits that took effect. *)
Commits == Hydrated!Commits(Hydrated!Happened)

(* Transactions have numbers of their own. *)
Numbered ==
    /\ IsFiniteSet(transactions)
    /\ \A t \in transactions : Executed(t) /\ t.id \in 1 .. Cardinality(transactions)
    /\ \A t, u \in transactions : t.id = u.id => t = u

Forkless   == \A t, u \in Commits : Hydrated!Source(t) = Hydrated!Source(u) => t = u
Unit       == \A t \in Commits : t.version = t.parentVersion + 1
OneVersion == \A t, u \in Commits : t.version = u.version => t = u

(* A history without a fork, by steps of one version, is one chain. *)
HistoryKept ==
    /\ \A t \in Commits : Hydrated!Source(t) \in Hydrated!Points
    /\ Forkless /\ Unit => OneVersion

Reported == \A e \in events : e.tx \in transactions

HydratedInv ==
    /\ Numbered /\ HistoryKept /\ Reported
    /\ assessment # Hydrated!Pending => Hydrated!VerdictIsEarned

(* An initial state of the hydrated lattice satisfies the inductive        *)
(* invariant.                                                              *)
LEMMA HydratedInit == Hydrated!Init => HydratedInv
BY FS_EmptySet DEF Hydrated!Init, HydratedInv, Numbered, HistoryKept, Reported, Commits, Hydrated!Commits, Hydrated!Happened,
   Forkless, Unit, OneVersion

(* Commits are finitely many executed transactions.                        *)
LEMMA CommitsTyped ==
  ASSUME Numbered
  PROVE  /\ Commits \subseteq transactions /\ IsFiniteSet(Commits)
         /\ \A t \in Commits : Executed(t)
<1>1. Commits \subseteq transactions
  BY DEF Commits, Hydrated!Commits, Hydrated!Happened
<1> QED BY <1>1, FS_Subset DEF Numbered

(* One more transaction leaves a forkless history one chain. *)
LEMMA ChainGrows ==
  ASSUME Numbered, HistoryKept, NEW new, Executed(new), transactions' = transactions \cup {new},
         new.commits => Hydrated!Source(new) \in Hydrated!Points
  PROVE  HistoryKept'
<1>1. Commits \subseteq Commits' /\ Commits' \subseteq Commits \cup {new} /\ (new \in Commits' => new.commits)
  BY DEF Commits, Hydrated!Commits, Hydrated!Happened
<1>2. Hydrated!Points = {<<Initial, 0>>} \cup {Hydrated!Target(t) : t \in Commits}
      /\ Hydrated!Points' = {<<Initial, 0>>} \cup {Hydrated!Target(t) : t \in Commits'}
  BY DEF Hydrated!Points, Commits
<1>3. \A t \in Commits' : Hydrated!Source(t) \in Hydrated!Points
  BY <1>1 DEF HistoryKept
<1>4. Hydrated!Points \subseteq Hydrated!Points'
  BY <1>1, <1>2
<1>5. ASSUME Forkless', Unit' PROVE OneVersion'
  <2>1. Forkless /\ Unit
    BY <1>1, <1>5 DEF Forkless, Unit
  <2>2. OneVersion
    BY <2>1 DEF HistoryKept
  <2>3. \A t \in Commits' : t.parentVersion \in Nat /\ t.version = t.parentVersion + 1
    BY <1>1, <1>5, CommitsTyped DEF Unit, Executed
  (* Two commits to one version come from one point. *)
  <2>4. ASSUME NEW p \in Hydrated!Points, NEW q \in Hydrated!Points, p[2] = q[2] PROVE p = q
    <3>1. \A t \in Commits : Hydrated!Target(t) = <<t.target, t.version>> /\ t.version \in Nat \ {0}
      BY <1>1, <2>3 DEF Hydrated!Target
    <3>2. CASE p = <<Initial, 0>>
      BY <1>2, <2>4, <3>1, <3>2
    <3>3. CASE q = <<Initial, 0>>
      BY <1>2, <2>4, <3>1, <3>3
    <3>4. CASE p # <<Initial, 0>> /\ q # <<Initial, 0>>
      <4>1. PICK t \in Commits : p = Hydrated!Target(t)
        BY <1>2, <3>4
      <4>2. PICK u \in Commits : q = Hydrated!Target(u)
        BY <1>2, <3>4
      <4> QED BY <2>2, <2>4, <3>1, <4>1, <4>2 DEF OneVersion
    <3> QED BY <3>2, <3>3, <3>4
  <2>5. ASSUME NEW t \in Commits', NEW u \in Commits', t.version = u.version PROVE t = u
    <3>1. t.parentVersion = u.parentVersion
      BY <2>3, <2>5
    <3>2. Hydrated!Source(t) = Hydrated!Source(u)
      BY <1>3, <2>4, <3>1 DEF Hydrated!Source
    <3> QED BY <1>5, <3>2 DEF Forkless
  <2> QED BY <2>5 DEF OneVersion
<1> QED BY <1>3, <1>4, <1>5 DEF HistoryKept

(* Forked counts versions: they are as many as commits when no two commits *)
(* have one.                                                               *)
LEMMA ForkedCounts == Numbered => (~ Hydrated!Forked <=> OneVersion)
<1> SUFFICES ASSUME Numbered PROVE ~ Hydrated!Forked <=> OneVersion
  OBVIOUS
<1> DEFINE V == {t.version : t \in Commits}
           f == [t \in Commits |-> t.version]
<1>1. Hydrated!Forked <=> Cardinality(V) # Cardinality(Commits)
  <2>1. {Hydrated!Target(t)[2] : t \in Commits} = V
    BY DEF Hydrated!Target
  <2> QED BY <2>1, HydratedCounts DEF Hydrated!Forked, HydratedCardinality, Commits
<1>2. f \in Surjection(Commits, V)
  BY DEF Surjection
<1>3. Cardinality(V) = Cardinality(Commits) <=> f \in Injection(Commits, V)
  BY <1>2, CommitsTyped, FS_Surjection
<1>4. f \in Injection(Commits, V) <=> OneVersion
  <2>1. f \in [Commits -> V] /\ \A t \in Commits : f[t] = t.version
    OBVIOUS
  <2> HIDE DEF f, V
  <2> QED BY <2>1 DEF Injection, IsInjective, OneVersion
<1> QED BY <1>1, <1>3, <1>4

(* A finite set has more than one element exactly when two of them differ. *)
LEMMA MoreThanOne ==
  ASSUME NEW S, IsFiniteSet(S) PROVE Cardinality(S) > 1 <=> \E t, u \in S : t # u
<1>1. Cardinality(S) \in Nat
  BY FS_CardinalityType
<1>2. ASSUME NEW t \in S, NEW u \in S, t # u PROVE Cardinality(S) > 1
  <2>1. IsFiniteSet({t}) /\ Cardinality({t}) = 1
    BY FS_Singleton
  <2>2. IsFiniteSet({t} \cup {u}) /\ Cardinality({t} \cup {u}) = 2
    <3>1. IsFiniteSet({t} \cup {u}) /\ Cardinality({t} \cup {u}) = IF u \in {t} THEN Cardinality({t}) ELSE Cardinality({t}) + 1
      BY <2>1, FS_AddElement
    <3>2. u \notin {t}
      BY <1>2
    <3> QED BY <2>1, <3>1, <3>2
  <2>3. Cardinality({t} \cup {u}) <= Cardinality(S)
    BY FS_Subset
  <2> QED BY <1>1, <2>2, <2>3
<1>3. ASSUME \A t, u \in S : t = u PROVE ~ Cardinality(S) > 1
  <2>1. CASE S = {}
    BY <2>1, FS_EmptySet
  <2>2. CASE S # {}
    <3>1. PICK t \in S : TRUE
      BY <2>2
    <3>2. S = {t}
      BY <1>3, <3>1
    <3> QED BY <3>2, FS_Singleton
  <2> QED BY <2>1, <2>2
<1> QED BY <1>2, <1>3

(* A slot is paid twice exactly when two different transactions of it      *)
(* happened.                                                               *)
LEMMA PaidTwiceIs ==
  Numbered => (Hydrated!PaidTwice <=> \E t, u \in Hydrated!Happened : t # u /\ t.slot = u.slot /\ t.slot \in Slots)
<1> SUFFICES ASSUME Numbered
             PROVE  Hydrated!PaidTwice <=> \E t, u \in Hydrated!Happened : t # u /\ t.slot = u.slot /\ t.slot \in Slots
  OBVIOUS
<1>1. ASSUME NEW slot \in Slots
      PROVE  Hydrated!Cardinality({t \in Hydrated!Happened : t.slot = slot}) > 1
               <=> \E t, u \in {v \in Hydrated!Happened : v.slot = slot} : t # u
  <2>1. {t \in Hydrated!Happened : t.slot = slot} \in SUBSET transactions
    BY DEF Hydrated!Happened
  <2>2. IsFiniteSet({t \in Hydrated!Happened : t.slot = slot})
    BY <2>1, FS_Subset DEF Numbered
  <2> QED BY <2>2, MoreThanOne, HydratedCounts DEF HydratedCardinality
<1> QED BY <1>1 DEF Hydrated!PaidTwice

Statuses == {Hydrated!EconomicStatus, Hydrated!SuccessorStatus, Hydrated!ConformanceStatus}

(* What was reported is a part of what happened. *)
LEMMA ObservedHappened ==
  ASSUME Reported
  PROVE  /\ Hydrated!Observed \subseteq transactions
         /\ Hydrated!Committed \subseteq Commits
         /\ Hydrated!Applied \subseteq {t \in Hydrated!Happened : t.slot # "none"}
         /\ Hydrated!Observed = transactions => Hydrated!Committed = Commits /\ Hydrated!Applied = {t \in Hydrated!Happened : t.slot # "none"}
<1>1. Hydrated!Observed \subseteq transactions
  BY DEF Reported, Hydrated!Observed
<1> QED
  BY <1>1 DEF Hydrated!Committed, Hydrated!Applied, Commits, Hydrated!Commits, Hydrated!Payments, Hydrated!Happened

(* A part that fails means that the contract is at fault, however little   *)
(* was reported.                                                           *)
LEMMA FailIsEarned ==
  ASSUME HydratedInv, "fail" \in Statuses PROVE ~ Hydrated!Sound
<1> USE DEF HydratedInv
<1>1. CASE Hydrated!EconomicStatus = "fail"
  <2>1. PICK t \in Hydrated!Applied, u \in Hydrated!Applied : t.id # u.id /\ t.slot = u.slot
    BY <1>1 DEF Hydrated!EconomicStatus
  <2>2. t \in Hydrated!Happened /\ u \in Hydrated!Happened /\ t # u /\ t.slot # "none"
    BY <2>1, ObservedHappened
  <2>3. t.slot \in Slots
    BY <2>2 DEF Hydrated!Happened, Numbered, Executed
  <2> QED BY <2>1, <2>2, <2>3, PaidTwiceIs DEF Hydrated!Sound
<1>2. CASE Hydrated!SuccessorStatus = "fail"
  <2>1. PICK t \in Commits, u \in Commits : t.id # u.id /\ Hydrated!Source(t) = Hydrated!Source(u)
    BY <1>2, ObservedHappened DEF Hydrated!SuccessorStatus
  <2>2. t.parentVersion = u.parentVersion /\ t # u
    BY <2>1 DEF Hydrated!Source
  <2>3. CASE Unit
    <3>1. ~ OneVersion
      BY <2>2, <2>3 DEF Unit, OneVersion
    <3> QED BY <3>1, ForkedCounts DEF Hydrated!Sound
  <2>4. CASE ~ Unit
    BY <2>4 DEF Unit, Hydrated!Sound, Hydrated!Skips, Commits
  <2> QED BY <2>3, <2>4
<1>3. CASE Hydrated!ConformanceStatus = "fail"
  <2>1. PICK t \in Commits : ~ Hydrated!Conforms(t)
    BY <1>3, ObservedHappened DEF Hydrated!ConformanceStatus
  <2> QED BY <2>1 DEF Hydrated!Conforms, Hydrated!Sound, Hydrated!Deviates, Hydrated!Skips, Commits
<1> QED BY <1>1, <1>2, <1>3 DEF Statuses

(* Of a complete trace, every fault makes a part fail. *)
LEMMA FaultIsFound ==
  ASSUME HydratedInv, Hydrated!Observed = transactions, ~ Hydrated!Sound, "none" \notin Slots PROVE "fail" \in Statuses
<1> USE DEF HydratedInv
<1>1. CASE Hydrated!PaidTwice
  <2>1. PICK t \in Hydrated!Happened, u \in Hydrated!Happened : t # u /\ t.slot = u.slot /\ t.slot \in Slots
    BY <1>1, PaidTwiceIs
  <2>2. t \in Hydrated!Applied /\ u \in Hydrated!Applied /\ t.id # u.id
    BY <2>1, ObservedHappened DEF Hydrated!Happened, Numbered
  <2>3. Hydrated!Payments(Hydrated!Observed) # {}
    BY <2>2 DEF Hydrated!Applied, Hydrated!Payments
  <2> QED BY <2>1, <2>2, <2>3 DEF Statuses, Hydrated!EconomicStatus
<1>2. CASE Hydrated!Deviates \/ Hydrated!Skips
  <2>1. PICK t \in Commits : ~ Hydrated!Conforms(t)
    BY <1>2 DEF Hydrated!Conforms, Hydrated!Deviates, Hydrated!Skips, Commits
  <2> QED BY <2>1, ObservedHappened DEF Statuses, Hydrated!ConformanceStatus
<1>3. CASE Hydrated!Forked /\ ~ Hydrated!Skips
  <2>1. Unit /\ ~ OneVersion
    BY <1>3, ForkedCounts DEF Unit, Hydrated!Skips, Commits
  <2>2. PICK t \in Commits, u \in Commits : Hydrated!Source(t) = Hydrated!Source(u) /\ t # u
    BY <2>1 DEF HistoryKept, Forkless
  <2>3. t.id # u.id
    BY <2>2, CommitsTyped DEF Numbered
  <2>4. t \in Hydrated!Committed /\ u \in Hydrated!Committed /\ Hydrated!Commits(Hydrated!Observed) # {}
    BY <2>2, ObservedHappened DEF Commits, Hydrated!Commits, Hydrated!Happened
  <2> QED BY <2>2, <2>3, <2>4 DEF Statuses, Hydrated!SuccessorStatus
<1> QED BY <1>1, <1>2, <1>3 DEF Hydrated!Sound

(* What the assessment makes of its parts. *)
LEMMA StatusOfParts ==
  ASSUME NEW static \in {"pass", "fail", "inconclusive"}, NEW lacking
  PROVE  /\ Hydrated!HydratedStatus(static, lacking) = "pass" =>
              /\ static = "pass" /\ "fail" \notin Statuses
              /\ Hydrated!EconomicStatus = "pass" /\ Hydrated!ConformanceStatus = "pass" /\ Hydrated!BindingStatus(lacking) = "pass"
         /\ Hydrated!HydratedStatus(static, lacking) = "fail" <=> static = "fail" \/ "fail" \in Statuses
<1> DEFINE E == Hydrated!EconomicStatus
           S == Hydrated!SuccessorStatus
           C == Hydrated!ConformanceStatus
           B == Hydrated!BindingStatus(lacking)
           T == Hydrated!TraceStatus
<1>1. T = "fail" <=> "fail" \in {E, S}
  BY DEF Hydrated!TraceStatus
<1>2. Hydrated!HydratedStatus(static, lacking) =
         IF "fail" \in {static, T, C} THEN "fail" ELSE IF {static, C, B, E, S} = {"pass"} THEN "pass" ELSE "inconclusive"
  BY DEF Hydrated!HydratedStatus
<1>3. Statuses = {E, S, C}
  BY DEF Statuses
<1> HIDE DEF E, S, C, B, T
<1> QED BY <1>1, <1>2, <1>3 DEF E, S, C, B, T

(* The assessment is earned. *)
LEMMA AssessIsEarned ==
  ASSUME HydratedInv, "none" \notin Slots, Hydrated!Assess PROVE Hydrated!VerdictIsEarned' /\ UNCHANGED <<transactions, events>>
<1>1. PICK static \in {"pass", "fail", "inconclusive"},
           lacking \in {{}} \cup {{<<t.id, k>> : t \in Hydrated!Committed} : k \in {"evidence", "authority", "time"}},
           race \in {{}} \cup {{r} : r \in RaceModels} :
         assessment' = [static |-> static, lacking |-> lacking, race |-> race,
                        verdict |-> IF race = {} THEN Hydrated!HydratedStatus(static, lacking)
                                    ELSE Hydrated!Compose(Hydrated!HydratedStatus(static, lacking), Hydrated!RaceStatus(CHOOSE r \in race : TRUE))]
  BY DEF Hydrated!Assess
<1> DEFINE base == Hydrated!HydratedStatus(static, lacking)
<1>2. UNCHANGED <<transactions, events>>
  BY DEF Hydrated!Assess
<1>3. /\ assessment'.static = static /\ assessment'.lacking = lacking /\ assessment'.race = race
      /\ race = {} => assessment'.verdict = base
      /\ \A r : race = {r} => assessment'.verdict = Hydrated!Compose(base, Hydrated!RaceStatus(r))
  BY <1>1
<1>4. /\ base = "pass" => /\ static = "pass" /\ "fail" \notin Statuses /\ Hydrated!EconomicStatus = "pass"
                          /\ Hydrated!ConformanceStatus = "pass" /\ Hydrated!BindingStatus(lacking) = "pass"
      /\ base = "fail" <=> static = "fail" \/ "fail" \in Statuses
  BY StatusOfParts
<1> HIDE DEF base
<1> DEFINE Defeated == \E r \in race : r.enabled /\ r.guaranteed /\ r.preserved # {"protectiveFirst", "competingFirst"}
<1>5. /\ assessment'.verdict = "pass" => base = "pass" /\ ~ Defeated
      /\ assessment'.verdict = "fail" => base = "fail" \/ Defeated
      /\ base = "fail" => assessment'.verdict = "fail"
  <2>1. CASE race = {}
    BY <1>3, <2>1
  <2>2. CASE race # {}
    <3>1. PICK r \in RaceModels : race = {r}
      BY <2>2
    <3>2. /\ Hydrated!RaceStatus(r) = "pass" => ~ Defeated
          /\ Hydrated!RaceStatus(r) = "fail" => Defeated
      BY <3>1 DEF Hydrated!RaceStatus
    <3> HIDE DEF Defeated
    <3>3. assessment'.verdict = Hydrated!Compose(base, Hydrated!RaceStatus(r))
      BY <1>3, <3>1
    <3> QED BY <3>2, <3>3 DEF Hydrated!Compose
  <2> QED BY <2>1, <2>2
<1>6. Hydrated!RightDefeated' <=> Defeated
  BY <1>3 DEF Hydrated!RightDefeated
<1> HIDE DEF Defeated
<1>7. /\ Hydrated!Sound' = Hydrated!Sound /\ Hydrated!Observed' = Hydrated!Observed /\ Hydrated!Committed' = Hydrated!Committed
      /\ Hydrated!Commits(Hydrated!Happened)' = Commits /\ Hydrated!Payments(transactions)' = Hydrated!Payments(transactions)
  BY <1>2 DEF Hydrated!Sound, Hydrated!Forked, Hydrated!PaidTwice, Hydrated!Deviates, Hydrated!Skips, Hydrated!Observed,
              Hydrated!Committed, Hydrated!Happened, Hydrated!Commits, Hydrated!Payments, Commits
<1>8. ASSUME assessment'.verdict = "pass"
      PROVE  /\ (Hydrated!Observed = transactions => Hydrated!Sound)
             /\ Commits # {} /\ Hydrated!Payments(transactions) # {}
             /\ static = "pass" /\ ~ Defeated
             /\ \A t \in Hydrated!Committed : \A k \in Hydrated!Needed(t) : <<t.id, k>> \notin lacking
  <2>1. Hydrated!Observed = transactions => Hydrated!Sound
    BY <1>4, <1>5, <1>8, FaultIsFound
  <2>2. Hydrated!Committed # {} /\ Hydrated!Payments(Hydrated!Observed) # {}
    BY <1>4, <1>5, <1>8 DEF Hydrated!ConformanceStatus, Hydrated!EconomicStatus
  <2>3. Commits # {} /\ Hydrated!Payments(transactions) # {}
    BY <2>2, ObservedHappened DEF HydratedInv, Hydrated!Payments
  <2>4. \A t \in Hydrated!Committed : \A k \in Hydrated!Needed(t) : <<t.id, k>> \notin lacking
    BY <1>4, <1>5, <1>8 DEF Hydrated!BindingStatus
  <2> QED BY <1>4, <1>5, <1>8, <2>1, <2>3, <2>4
<1>9. assessment'.verdict = "fail" => static = "fail" \/ ~ Hydrated!Sound \/ Defeated
  BY <1>4, <1>5, FailIsEarned
<1>10. Hydrated!Observed = transactions /\ ~ Hydrated!Sound => assessment'.verdict = "fail"
  BY <1>4, <1>5, FaultIsFound
<1>11. Hydrated!VerdictIsEarned'
  <2>1. assessment'.verdict = "pass" =>
           /\ (Hydrated!Observed' = transactions' => Hydrated!Sound')
           /\ Hydrated!Commits(Hydrated!Happened)' # {} /\ Hydrated!Payments(transactions)' # {}
           /\ assessment'.static = "pass" /\ ~ Hydrated!RightDefeated'
           /\ \A t \in Hydrated!Committed' : \A k \in Hydrated!Needed(t) : <<t.id, k>> \notin assessment'.lacking
    BY <1>2, <1>3, <1>6, <1>7, <1>8
  <2>2. assessment'.verdict = "fail" => assessment'.static = "fail" \/ ~ Hydrated!Sound' \/ Hydrated!RightDefeated'
    BY <1>3, <1>6, <1>7, <1>9
  <2>3. Hydrated!Observed' = transactions' /\ ~ Hydrated!Sound' => assessment'.verdict = "fail"
    BY <1>2, <1>7, <1>10
  <2> QED BY <2>1, <2>2, <2>3 DEF Hydrated!VerdictIsEarned
<1> QED BY <1>2, <1>11

(* Every step of the hydrated lattice keeps the inductive invariant.       *)
LEMMA HydratedStep == Hydrated!LatticeAssumption /\ HydratedInv /\ [Hydrated!Next]_Hydrated!vars => HydratedInv'
<1> SUFFICES ASSUME Hydrated!LatticeAssumption, HydratedInv, [Hydrated!Next]_Hydrated!vars PROVE HydratedInv'
  OBVIOUS
<1> USE DEF HydratedInv
<1>1. CASE Hydrated!Execute
  <2>1. PICK point \in Hydrated!Points, operation \in Operations, target \in States, step \in {1, 2},
             commits \in BOOLEAN, slot \in Slots \cup {"none"}, reverted \in BOOLEAN :
           /\ commits \/ slot # "none"
           /\ transactions' = transactions \cup
                {[id |-> Hydrated!Cardinality(transactions) + 1, commits |-> commits, slot |-> slot, reverted |-> reverted,
                  source |-> point[1], parentVersion |-> point[2], operation |-> operation,
                  target |-> target, version |-> point[2] + step]}
    BY <1>1 DEF Hydrated!Execute
  <2> DEFINE new == [id |-> Hydrated!Cardinality(transactions) + 1, commits |-> commits, slot |-> slot, reverted |-> reverted,
                     source |-> point[1], parentVersion |-> point[2], operation |-> operation,
                     target |-> target, version |-> point[2] + step]
  <2>2. assessment = Hydrated!Pending /\ UNCHANGED <<events, assessment>>
    BY <1>1 DEF Hydrated!Execute
  <2>3. point = <<point[1], point[2]>> /\ point[2] \in Nat
    BY CommitsTyped DEF Hydrated!Points, Hydrated!Target, Commits, Executed
  <2>4. Cardinality(transactions) \in Nat /\ Hydrated!Cardinality(transactions) = Cardinality(transactions)
    BY FS_CardinalityType, HydratedCounts DEF Numbered, HydratedCardinality
  <2>5. /\ new.id = Cardinality(transactions) + 1 /\ Hydrated!Source(new) \in Hydrated!Points /\ Executed(new)
    BY <2>1, <2>3, <2>4 DEF Hydrated!Source, Executed
  <2>6. transactions' = transactions \cup {new}
    BY <2>1
  <2> HIDE DEF new
  <2>7. Numbered'
    <3>1. new \notin transactions
      BY <2>4, <2>5 DEF Numbered
    <3>2. IsFiniteSet(transactions') /\ Cardinality(transactions') = Cardinality(transactions) + 1
      BY <2>6, <3>1, FS_AddElement DEF Numbered
    <3>3. \A t \in transactions : t.id \in 1 .. Cardinality(transactions)
      BY DEF Numbered
    <3>4. \A t \in transactions' : Executed(t) /\ t.id \in 1 .. Cardinality(transactions')
      BY <2>4, <2>5, <2>6, <3>2 DEF Numbered
    <3>5. \A t, u \in transactions' : t.id = u.id => t = u
      BY <2>4, <2>5, <2>6, <3>3 DEF Numbered
    <3> QED BY <3>2, <3>4, <3>5 DEF Numbered, Executed
  <2>8. HistoryKept'
    BY <2>5, <2>6, ChainGrows
  <2>9. Reported'
    BY <2>2, <2>6 DEF Reported
  <2> QED BY <2>2, <2>7, <2>8, <2>9
<1>2. CASE Hydrated!Report
  <2>1. /\ UNCHANGED <<transactions, assessment>> /\ assessment = Hydrated!Pending
        /\ \A e \in events' : e \in events \/ e.tx \in transactions
    BY <1>2 DEF Hydrated!Report
  <2>2. Reported'
    BY <2>1 DEF Reported
  <2> QED BY <2>1, <2>2 DEF Numbered, HistoryKept, Executed, Commits, Forkless, Unit, OneVersion, Hydrated!Points, Hydrated!Commits,
                        Hydrated!Happened, Hydrated!Pending
<1>3. CASE Hydrated!Assess
  <2>1. Hydrated!VerdictIsEarned' /\ UNCHANGED <<transactions, events>>
    BY <1>3, AssessIsEarned DEF Hydrated!LatticeAssumption
  <2> QED BY <2>1 DEF Numbered, HistoryKept, Reported, Executed, Commits, Forkless, Unit, OneVersion, Hydrated!Points, Hydrated!Commits,
                      Hydrated!Happened
<1>4. CASE UNCHANGED Hydrated!vars
  <2>1. UNCHANGED <<transactions, events, assessment>>
    BY <1>4 DEF Hydrated!vars
  <2>2. Numbered' /\ HistoryKept' /\ Reported'
    BY <2>1 DEF Numbered, HistoryKept, Reported, Executed, Commits, Forkless, Unit, OneVersion, Hydrated!Points, Hydrated!Commits,
                Hydrated!Happened
  <2>3. Hydrated!VerdictIsEarned' <=> Hydrated!VerdictIsEarned
    BY <2>1 DEF Hydrated!VerdictIsEarned, Hydrated!Sound, Hydrated!Forked, Hydrated!PaidTwice, Hydrated!Deviates, Hydrated!Skips,
                Hydrated!Observed, Hydrated!Committed, Hydrated!Happened, Hydrated!Commits, Hydrated!Payments, Hydrated!RightDefeated, Hydrated!Pending
  <2> QED BY <2>1, <2>2, <2>3 DEF Hydrated!Pending
<1> QED
  BY <1>1, <1>2, <1>3, <1>4 DEF Hydrated!Next

(* The inductive invariant of the hydrated lattice implies the property its*)
(* run checks.                                                             *)
LEMMA HydratedImplies == HydratedInv => Hydrated!VerdictIsEarned
<1>1. assessment = Hydrated!Pending => assessment.verdict = "none"
  BY DEF Hydrated!Pending
<1> QED BY <1>1 DEF HydratedInv, Hydrated!VerdictIsEarned

(***************************************************************************)
(* A pass over a complete trace means one chain of allowed steps paid      *)
(* once, and a fail is no artefact of the reports (run_execution_trace,    *)
(* run_hydrated_lattice), for any lattice, slots and race models and       *)
(* however many transactions and reports of them there are.                *)
(***************************************************************************)
THEOREM HydratedKept ==
  ASSUME Hydrated!LatticeAssumption PROVE Hydrated!Spec => []Hydrated!VerdictIsEarned
<1>1. HydratedInv /\ [Hydrated!Next]_Hydrated!vars => HydratedInv'
  BY HydratedStep
<1> QED
  BY HydratedInit, <1>1, HydratedImplies, PTL DEF Hydrated!Spec

-----------------------------------------------------------------------------
(* Evidence packs.                                                         *)

Shaped(pack) ==
    /\ pack = [zip |-> pack.zip, content |-> pack.content, hashed |-> pack.hashed, claim |-> pack.claim]
    /\ pack.content = [input |-> pack.content.input, verdict |-> pack.content.verdict, summary |-> pack.content.summary]

ShapesKept ==
    /\ DOMAIN builders = Builders
    /\ \A b \in Builders : builders[b] = [pc |-> builders[b].pc, input |-> builders[b].input, content |-> builders[b].content]
    /\ verifier = [pc |-> verifier.pc, expected |-> verifier.expected, snapshot |-> verifier.snapshot, content |-> verifier.content]
    /\ edits \in Nat
    /\ Shaped(file) /\ Shaped(verifier.snapshot)

(* Some builder began with the input of the pack. *)
Begun(pack) == pack.zip = "complete" => \E b \in Builders : builders[b].pc # "idle" /\ builders[b].input = pack.content.input

(* A builder that has the path for itself finds there what it wrote. *)
Alone(b) == writers = {b} /\ edits = 0

BuildersKept ==
    /\ edits = 0 => Begun(file) /\ Begun(verifier.snapshot)
    /\ \A b \in Builders : builders[b].pc # "idle" => b \in writers
    /\ \A b \in Builders : builders[b].pc \in {"written", "built"} /\ Alone(b) => file = Packs!Pack(builders[b].input)
    /\ \A b \in Packs!Built : kind = "provider" \/ Alone(b) => builders[b].content = Packs!Pack(builders[b].input)

(* What the verifier holds once it found the pack good. *)
VerifierKept ==
    verifier.pc \in {"checked", "verified"} =>
        /\ Packs!Accepts(verifier.snapshot)
        /\ verifier.expected # Packs!Absent => \E b \in Packs!Built : builders[b].content = verifier.snapshot
        /\ verifier.pc = "checked" => kind = "payment"
        /\ kind = "payment" /\ ~ touched => file = verifier.snapshot
        /\ verifier.pc = "verified" /\ (kind = "payment" => ~ touched) => verifier.content = verifier.snapshot

PacksInv == ShapesKept /\ BuildersKept /\ VerifierKept

(* The packs that are made, broken or absent have the shape of a pack.     *)
LEMMA PacksShaped ==
  /\ \A i : Shaped(Packs!Pack(i)) /\ Packs!Pack(i).content.input = i
  /\ Shaped(Packs!Broken) /\ Packs!Broken.zip = "broken"
  /\ Shaped(Packs!Absent) /\ Packs!Absent.zip = "absent"
<1>1. \A i : Shaped(Packs!Pack(i)) /\ Packs!Pack(i).content.input = i
  BY DEF Shaped, Packs!Pack, Packs!Contents
<1>2. Shaped(Packs!Broken) /\ Packs!Broken.zip = "broken"
  BY DEF Shaped, Packs!Broken, Packs!Any, Packs!Contents
<1>3. Packs!Absent = [zip |-> "absent", content |-> Packs!Broken.content, hashed |-> Packs!Broken.hashed, claim |-> Packs!Broken.claim]
  BY DEF Packs!Absent, Packs!Broken
<1>4. Shaped(Packs!Absent) /\ Packs!Absent.zip = "absent"
  BY <1>2, <1>3 DEF Shaped
<1> QED BY <1>1, <1>2, <1>4

(* An initial state of the evidence packs satisfies the inductive          *)
(* invariant.                                                              *)
LEMMA PacksInit == Packs!Init => PacksInv
<1> SUFFICES ASSUME Packs!Init PROVE PacksInv
  OBVIOUS
<1>1. ShapesKept
  BY PacksShaped DEF Packs!Init, ShapesKept
<1>2. BuildersKept
  BY PacksShaped DEF Packs!Init, BuildersKept, Begun, Packs!Built
<1>3. VerifierKept
  BY DEF Packs!Init, VerifierKept
<1> QED BY <1>1, <1>2, <1>3 DEF PacksInv

(* The digests and the replay leave one pack that is accepted for an input. *)
LEMMA AcceptedIsPacked ==
  ASSUME NEW pack, Shaped(pack), Packs!Accepts(pack) PROVE pack = Packs!Pack(pack.content.input)
BY DEF Shaped, Packs!Accepts, Packs!Pack, Packs!Contents

(* A builder's record, written out. *)
LEMMA BuilderRecord ==
  ASSUME NEW r, r = [pc |-> r.pc, input |-> r.input, content |-> r.content], NEW p, NEW i, NEW c
  PROVE  /\ [r EXCEPT !.pc = p] = [pc |-> p, input |-> r.input, content |-> r.content]
         /\ [r EXCEPT !.pc = p, !.input = i] = [pc |-> p, input |-> i, content |-> r.content]
         /\ [r EXCEPT !.pc = p, !.content = c] = [pc |-> p, input |-> r.input, content |-> c]
<1>1. [r EXCEPT !.pc = p] = [pc |-> p, input |-> r.input, content |-> r.content]
  OBVIOUS
<1>2. ASSUME NEW s, s = [r EXCEPT !.pc = p, !.input = i] PROVE s = [pc |-> p, input |-> i, content |-> r.content]
  BY <1>2
<1>3. ASSUME NEW s, s = [r EXCEPT !.pc = p, !.content = c] PROVE s = [pc |-> p, input |-> r.input, content |-> c]
  BY <1>3
<1> QED BY <1>1, <1>2, <1>3

(* A step of a builder keeps what the others, and their packs, are. *)
LEMMA BuilderMoves ==
  ASSUME PacksInv, NEW b \in Builders, NEW p, NEW i, NEW c,
         builders' = [builders EXCEPT ![b] = [pc |-> p, input |-> i, content |-> c]],
         p # "idle", builders[b].pc # "idle" => i = builders[b].input, builders[b].pc # "built"
  PROVE  /\ DOMAIN builders' = Builders
         /\ builders'[b] = [pc |-> p, input |-> i, content |-> c] /\ \A a \in Builders \ {b} : builders'[a] = builders[a]
         /\ \A a \in Builders : builders'[a] = [pc |-> builders'[a].pc, input |-> builders'[a].input, content |-> builders'[a].content]
         /\ Packs!Built \subseteq Packs!Built' /\ \A a \in Packs!Built : builders'[a] = builders[a]
         /\ \A pack : Begun(pack) => Begun(pack)'
<1>1. /\ DOMAIN builders' = Builders /\ builders'[b] = [pc |-> p, input |-> i, content |-> c]
      /\ \A a \in Builders \ {b} : builders'[a] = builders[a]
  BY DEF PacksInv, ShapesKept
<1>2. \A a \in Builders : builders'[a] = [pc |-> builders'[a].pc, input |-> builders'[a].input, content |-> builders'[a].content]
  BY <1>1 DEF PacksInv, ShapesKept
<1>3. Packs!Built \subseteq Packs!Built' /\ \A a \in Packs!Built : builders'[a] = builders[a]
  BY <1>1 DEF Packs!Built
<1>4. ASSUME NEW pack, Begun(pack) PROVE Begun(pack)'
  <2> SUFFICES ASSUME pack.zip = "complete" PROVE \E a \in Builders : builders'[a].pc # "idle" /\ builders'[a].input = pack.content.input
    BY DEF Begun
  <2>1. PICK a \in Builders : builders[a].pc # "idle" /\ builders[a].input = pack.content.input
    BY <1>4 DEF Begun
  <2> QED BY <1>1, <2>1
<1> QED BY <1>1, <1>2, <1>3, <1>4

(* Each step keeps the invariant: whatever changes the file marks it as    *)
(* touched, and only an edit makes a pack that no builder wrote.           *)
LEMMA PacksStep == PacksInv /\ [Packs!Next]_Packs!vars => PacksInv'
<1> SUFFICES ASSUME PacksInv, [Packs!Next]_Packs!vars PROVE PacksInv'
  OBVIOUS
<1> USE DEF PacksInv, Packs!Becomes
<1>1. ASSUME NEW b \in Builders, Packs!Open(b) PROVE PacksInv'
  <2>1. PICK i \in Inputs : builders' = [builders EXCEPT ![b].pc = "writing", ![b].input = i]
    BY <1>1 DEF Packs!Open
  <2>2. builders' = [builders EXCEPT ![b] = [pc |-> "writing", input |-> i, content |-> builders[b].content]]
    <3>1. builders[b] = [pc |-> builders[b].pc, input |-> builders[b].input, content |-> builders[b].content]
      BY DEF ShapesKept
    <3>2. ASSUME NEW r, r = [builders[b] EXCEPT !.pc = "writing", !.input = i]
          PROVE  r = [pc |-> "writing", input |-> i, content |-> builders[b].content]
      BY <3>1, <3>2
    <3>3. [builders EXCEPT ![b].pc = "writing", ![b].input = i] = [builders EXCEPT ![b] = [builders[b] EXCEPT !.pc = "writing", !.input = i]]
      OBVIOUS
    <3> QED BY <2>1, <3>2, <3>3
  <2>3. /\ builders[b].pc = "idle" /\ writers' = writers \cup {b} /\ file' = Packs!Broken /\ touched' = TRUE
        /\ UNCHANGED <<kind, edits, verifier>>
    BY <1>1 DEF Packs!Open
  <2>4. /\ DOMAIN builders' = Builders /\ builders'[b].pc = "writing" /\ \A a \in Builders \ {b} : builders'[a] = builders[a]
        /\ \A a \in Builders : builders'[a] = [pc |-> builders'[a].pc, input |-> builders'[a].input, content |-> builders'[a].content]
        /\ Packs!Built \subseteq Packs!Built' /\ \A a \in Packs!Built : builders'[a] = builders[a]
        /\ \A pack : Begun(pack) => Begun(pack)'
    BY <2>2, <2>3, BuilderMoves
  <2>5. ShapesKept'
    BY <2>3, <2>4, PacksShaped DEF ShapesKept, Shaped
  <2>6. BuildersKept'
    <3>1. Begun(Packs!Broken)'
      BY PacksShaped DEF Begun
    <3>2. (edits = 0 => Begun(file) /\ Begun(verifier.snapshot))'
      BY <2>3, <2>4, <3>1 DEF BuildersKept
    <3>3. \A a \in Builders : builders'[a].pc # "idle" => a \in writers'
      BY <2>3, <2>4 DEF BuildersKept
    <3>4. \A a \in Builders : Alone(a)' => a = b
      BY <2>3 DEF Alone
    <3>5. b \notin Packs!Built' /\ Packs!Built' = Packs!Built
      BY <2>3, <2>4 DEF Packs!Built
    <3>6. \A a \in Packs!Built' : kind' = "provider" \/ Alone(a)' => builders'[a].content = Packs!Pack(builders'[a].input)
      BY <2>3, <2>4, <3>4, <3>5 DEF BuildersKept, Packs!Built
    <3>7. \A a \in Builders : builders'[a].pc \in {"written", "built"} /\ Alone(a)' => file' = Packs!Pack(builders'[a].input)
      BY <2>4, <3>4
    <3> QED BY <3>2, <3>3, <3>6, <3>7 DEF BuildersKept, Packs!Pack, Packs!Contents
  <2>7. VerifierKept'
    BY <2>3, <2>4 DEF VerifierKept, Packs!Accepts, Packs!Absent
  <2> QED BY <2>5, <2>6, <2>7
<1>2. ASSUME NEW b \in Builders, Packs!Close(b) PROVE PacksInv'
  <2>1. builders' = [builders EXCEPT ![b] = [pc |-> "written", input |-> builders[b].input, content |-> builders[b].content]]
    <3>1. builders[b] = [pc |-> builders[b].pc, input |-> builders[b].input, content |-> builders[b].content]
      BY DEF ShapesKept
    <3>2. [builders[b] EXCEPT !.pc = "written"] = [pc |-> "written", input |-> builders[b].input, content |-> builders[b].content]
      BY <3>1, BuilderRecord
    <3> QED BY <1>2, <3>2 DEF Packs!Close
  <2>2. /\ builders[b].pc = "writing" /\ touched' = TRUE /\ UNCHANGED <<kind, writers, edits, verifier>>
        /\ file' = Packs!Pack(builders[b].input) \/ (writers # {b} /\ file' = Packs!Broken)
    BY <1>2 DEF Packs!Close
  <2>3. /\ DOMAIN builders' = Builders /\ builders'[b].pc = "written" /\ builders'[b].input = builders[b].input
        /\ \A a \in Builders \ {b} : builders'[a] = builders[a]
        /\ \A a \in Builders : builders'[a] = [pc |-> builders'[a].pc, input |-> builders'[a].input, content |-> builders'[a].content]
        /\ Packs!Built \subseteq Packs!Built' /\ \A a \in Packs!Built : builders'[a] = builders[a]
        /\ \A pack : Begun(pack) => Begun(pack)'
    BY <2>1, <2>2, BuilderMoves
  <2>4. ShapesKept'
    BY <2>2, <2>3, PacksShaped DEF ShapesKept, Shaped
  <2>5. BuildersKept'
    <3>1. Begun(file)'
      BY <2>2, <2>3, PacksShaped DEF Begun
    <3>2. (edits = 0 => Begun(file) /\ Begun(verifier.snapshot))'
      BY <2>2, <2>3, <3>1 DEF BuildersKept
    <3>3. \A a \in Builders : builders'[a].pc # "idle" => a \in writers'
      BY <2>2, <2>3 DEF BuildersKept
    <3>4. b \in writers /\ \A a \in Builders : Alone(a)' => Alone(a) /\ a = b
      BY <2>2 DEF Alone, BuildersKept
    <3>5. b \notin Packs!Built' /\ Packs!Built' = Packs!Built
      BY <2>2, <2>3 DEF Packs!Built
    <3>6. \A a \in Packs!Built' : kind' = "provider" \/ Alone(a)' => builders'[a].content = Packs!Pack(builders'[a].input)
      <4>1. \A a \in Packs!Built : kind = "provider" \/ Alone(a) => builders[a].content = Packs!Pack(builders[a].input)
        BY DEF BuildersKept
      <4> SUFFICES ASSUME NEW a \in Packs!Built', kind' = "provider" \/ Alone(a)'
                   PROVE  builders'[a].content = Packs!Pack(builders'[a].input)
        OBVIOUS
      <4>2. a \in Packs!Built /\ builders'[a] = builders[a] /\ (kind = "provider" \/ Alone(a))
        BY <2>2, <2>3, <3>4, <3>5 DEF Packs!Built
      <4> QED BY <4>1, <4>2
    <3>7. \A a \in Builders : builders'[a].pc \in {"written", "built"} /\ Alone(a)' => file' = Packs!Pack(builders'[a].input)
      BY <2>2, <2>3, <3>4 DEF Alone
    <3> QED BY <3>2, <3>3, <3>6, <3>7 DEF BuildersKept, Packs!Pack, Packs!Contents
  <2>6. VerifierKept'
    BY <2>2, <2>3 DEF VerifierKept, Packs!Accepts, Packs!Absent
  <2> QED BY <2>4, <2>5, <2>6
<1>3. ASSUME NEW b \in Builders, Packs!ReadBack(b) PROVE PacksInv'
  <2>1. PICK c : /\ builders' = [builders EXCEPT ![b] = [pc |-> "built", input |-> builders[b].input, content |-> c]]
                 /\ c = IF kind = "provider" THEN Packs!Pack(builders[b].input) ELSE file
    <3> DEFINE c == IF kind = "provider" THEN Packs!Pack(builders[b].input) ELSE file
    <3>1. builders[b] = [pc |-> builders[b].pc, input |-> builders[b].input, content |-> builders[b].content]
      BY DEF ShapesKept
    <3>2. builders' = [builders EXCEPT ![b] = [builders[b] EXCEPT !.pc = "built", !.content = c]]
      BY <1>3 DEF Packs!ReadBack
    <3> HIDE DEF c
    <3>3. [builders[b] EXCEPT !.pc = "built", !.content = c] = [pc |-> "built", input |-> builders[b].input, content |-> c]
      BY <3>1, BuilderRecord
    <3> QED BY <3>2, <3>3 DEF c
  <2>2. builders[b].pc = "written" /\ UNCHANGED <<kind, file, writers, edits, verifier, touched>>
    BY <1>3 DEF Packs!ReadBack
  <2>3. /\ DOMAIN builders' = Builders /\ builders'[b] = [pc |-> "built", input |-> builders[b].input, content |-> c]
        /\ \A a \in Builders \ {b} : builders'[a] = builders[a]
        /\ \A a \in Builders : builders'[a] = [pc |-> builders'[a].pc, input |-> builders'[a].input, content |-> builders'[a].content]
        /\ Packs!Built \subseteq Packs!Built' /\ \A a \in Packs!Built : builders'[a] = builders[a]
        /\ \A pack : Begun(pack) => Begun(pack)'
    BY <2>1, <2>2, BuilderMoves
  <2>4. ShapesKept'
    BY <2>2, <2>3 DEF ShapesKept, Shaped
  <2>5. BuildersKept'
    <3>1. (edits = 0 => Begun(file) /\ Begun(verifier.snapshot))'
      BY <2>2, <2>3 DEF BuildersKept
    <3>2. \A a \in Builders : builders'[a].pc # "idle" => a \in writers'
      BY <2>2, <2>3 DEF BuildersKept
    <3>3. \A a \in Builders : Alone(a)' => Alone(a)
      BY <2>2 DEF Alone
    <3>4. \A a \in Builders : builders'[a].pc \in {"written", "built"} /\ Alone(a)' => file' = Packs!Pack(builders'[a].input)
      BY <2>2, <2>3, <3>3 DEF BuildersKept
    <3>5. Packs!Built' = Packs!Built \cup {b}
      BY <2>3 DEF Packs!Built
    <3>6. \A a \in Packs!Built' : kind' = "provider" \/ Alone(a)' => builders'[a].content = Packs!Pack(builders'[a].input)
      <4>1. kind = "provider" \/ Alone(b) => c = Packs!Pack(builders[b].input)
        BY <2>1, <2>2 DEF BuildersKept
      <4>2. \A a \in Packs!Built : kind = "provider" \/ Alone(a) => builders[a].content = Packs!Pack(builders[a].input)
        BY DEF BuildersKept
      <4> SUFFICES ASSUME NEW a \in Packs!Built', kind' = "provider" \/ Alone(a)'
                   PROVE  builders'[a].content = Packs!Pack(builders'[a].input)
        OBVIOUS
      <4>3. a = b \/ (a \in Packs!Built /\ builders'[a] = builders[a])
        BY <2>3, <3>5
      <4>4. a \in Builders /\ (kind = "provider" \/ Alone(a))
        BY <2>2, <3>3 DEF Packs!Built
      <4> QED BY <2>3, <4>1, <4>2, <4>3, <4>4
    <3> QED BY <3>1, <3>2, <3>4, <3>6 DEF BuildersKept, Packs!Pack, Packs!Contents
  <2>6. VerifierKept'
    BY <2>2, <2>3 DEF VerifierKept, Packs!Accepts, Packs!Absent
  <2> QED BY <2>4, <2>5, <2>6
<1>4. ASSUME NEW b \in Builders, Packs!Kill(b) PROVE PacksInv'
  <2>1. builders' = [builders EXCEPT ![b] = [pc |-> "killed", input |-> builders[b].input, content |-> builders[b].content]]
    <3>1. builders[b] = [pc |-> builders[b].pc, input |-> builders[b].input, content |-> builders[b].content]
      BY DEF ShapesKept
    <3>2. [builders[b] EXCEPT !.pc = "killed"] = [pc |-> "killed", input |-> builders[b].input, content |-> builders[b].content]
      BY <3>1, BuilderRecord
    <3> QED BY <1>4, <3>2 DEF Packs!Kill
  <2>2. builders[b].pc \in {"writing", "written"} /\ UNCHANGED <<kind, file, writers, edits, verifier, touched>>
    BY <1>4 DEF Packs!Kill
  <2>3. /\ DOMAIN builders' = Builders /\ builders'[b].pc = "killed"
        /\ \A a \in Builders \ {b} : builders'[a] = builders[a]
        /\ \A a \in Builders : builders'[a] = [pc |-> builders'[a].pc, input |-> builders'[a].input, content |-> builders'[a].content]
        /\ Packs!Built \subseteq Packs!Built' /\ \A a \in Packs!Built : builders'[a] = builders[a]
        /\ \A pack : Begun(pack) => Begun(pack)'
    BY <2>1, <2>2, BuilderMoves
  <2>4. Packs!Built' = Packs!Built
    BY <2>3 DEF Packs!Built
  <2>5. ShapesKept'
    BY <2>2, <2>3 DEF ShapesKept, Shaped
  <2>6. BuildersKept'
    BY <2>2, <2>3, <2>4 DEF BuildersKept, Alone, Packs!Pack, Packs!Contents
  <2>7. VerifierKept'
    BY <2>2, <2>3, <2>4 DEF VerifierKept, Packs!Accepts, Packs!Absent
  <2> QED BY <2>5, <2>6, <2>7
<1>5. CASE Packs!Edit
  <2>1. edits' = edits + 1 /\ touched' = TRUE /\ Shaped(file') /\ UNCHANGED <<kind, writers, builders, verifier>>
    BY <1>5 DEF Packs!Edit, Shaped, ShapesKept
  <2>2. edits' # 0 /\ edits' \in Nat
    BY <2>1 DEF ShapesKept
  <2>3. ShapesKept'
    BY <2>1, <2>2 DEF ShapesKept, Shaped
  <2>4. BuildersKept'
    BY <2>1, <2>2 DEF BuildersKept, Alone, Packs!Built, Packs!Pack, Packs!Contents
  <2>5. VerifierKept'
    BY <2>1 DEF VerifierKept, Packs!Built, Packs!Accepts, Packs!Absent
  <2> QED BY <2>3, <2>4, <2>5
<1>6. CASE Packs!Read
  <2>1. touched' = FALSE /\ UNCHANGED <<kind, file, writers, builders, edits>>
    BY <1>6 DEF Packs!Read
  <2>2. PICK expected \in {Packs!Absent} \cup (IF kind = "payment" THEN {} ELSE {builders[b].content : b \in Packs!Built}) :
          LET good == Packs!Accepts(file) /\ expected \in {Packs!Absent, file}
          IN  verifier' = [pc |-> IF ~ good THEN "refused" ELSE IF kind = "payment" THEN "checked" ELSE "verified",
                           expected |-> expected, snapshot |-> file,
                           content |-> IF good /\ kind # "payment" THEN file ELSE Packs!Absent]
    BY <1>6 DEF Packs!Read
  <2>3. verifier' = [pc |-> verifier'.pc, expected |-> verifier'.expected, snapshot |-> verifier'.snapshot, content |-> verifier'.content]
        /\ verifier'.snapshot = file /\ verifier'.expected = expected
    BY <2>2
  <2>4. ShapesKept'
    BY <2>1, <2>3 DEF ShapesKept, Shaped
  <2>5. BuildersKept'
    BY <2>1, <2>3 DEF BuildersKept, Alone, Begun, Packs!Built, Packs!Pack, Packs!Contents
  <2>6. VerifierKept'
    <3> SUFFICES ASSUME verifier'.pc \in {"checked", "verified"}
                 PROVE  VerifierKept'
      BY DEF VerifierKept
    <3>1. /\ Packs!Accepts(file) /\ expected \in {Packs!Absent, file}
          /\ verifier'.pc = (IF kind = "payment" THEN "checked" ELSE "verified")
          /\ kind # "payment" => verifier'.content = file
      BY <2>2
    <3>2. verifier'.expected # Packs!Absent => \E b \in Packs!Built : builders[b].content = file
      BY <2>2, <2>3, <3>1
    <3> QED BY <2>1, <2>3, <3>1, <3>2 DEF VerifierKept, Packs!Accepts, Packs!Absent, Packs!Built
  <2> QED BY <2>4, <2>5, <2>6
<1>7. CASE Packs!ReadAgain
  <2>1. /\ verifier.pc = "checked" /\ UNCHANGED <<kind, file, writers, builders, edits, touched>>
        /\ verifier' = [pc |-> "verified", expected |-> verifier.expected, snapshot |-> verifier.snapshot, content |-> file]
    BY <1>7 DEF Packs!ReadAgain, ShapesKept
  <2>2. ShapesKept'
    BY <2>1 DEF ShapesKept, Shaped
  <2>3. BuildersKept'
    BY <2>1 DEF BuildersKept, Alone, Begun, Packs!Built, Packs!Pack, Packs!Contents
  <2>4. VerifierKept'
    BY <2>1 DEF VerifierKept, Packs!Built, Packs!Accepts, Packs!Absent
  <2> QED BY <2>2, <2>3, <2>4
<1>8. CASE UNCHANGED Packs!vars
  BY <1>8 DEF Packs!vars, ShapesKept, Shaped, BuildersKept, Alone, Begun, VerifierKept, Packs!Built, Packs!Accepts, Packs!Absent
<1> QED
  BY <1>1, <1>2, <1>3, <1>4, <1>5, <1>6, <1>7, <1>8 DEF Packs!Next

(* The inductive invariant of the evidence packs implies the property its  *)
(* run checks.                                                             *)
LEMMA PacksImplies == PacksInv => Packs!VerifiedIsReplayed
<1> SUFFICES ASSUME PacksInv, verifier.pc = "verified" PROVE Packs!VerifiedIsReplayed
  BY DEF Packs!VerifiedIsReplayed
<1> DEFINE pack == verifier.snapshot
<1>1. Packs!Accepts(pack) /\ pack = Packs!Pack(pack.content.input) /\ pack.zip = "complete"
  BY AcceptedIsPacked DEF PacksInv, ShapesKept, VerifierKept, Packs!Accepts
<1>2. edits = 0 => \E b \in Builders : builders[b].pc # "idle" /\ builders[b].input = pack.content.input
  BY <1>1 DEF PacksInv, BuildersKept, Begun
<1>3. verifier.expected # Packs!Absent =>
         \E b \in Packs!Built : /\ builders[b].content = pack
                                /\ kind = "provider" \/ (writers = {b} /\ edits = 0) => pack = Packs!Pack(builders[b].input)
  BY DEF PacksInv, BuildersKept, VerifierKept, Alone
<1>4. verifier.content # pack => kind = "payment" /\ touched
  BY DEF PacksInv, VerifierKept
<1> QED BY <1>1, <1>2, <1>3, <1>4 DEF Packs!VerifiedIsReplayed

(***************************************************************************)
(* What verifies is what its input makes, and the digest that comes with   *)
(* it is that pack's unless the file changed under the payment verifier    *)
(* (evidence_pack.py, payment_pack.py, provider_payment_pack.py), for any  *)
(* builders and inputs.                                                    *)
(***************************************************************************)
THEOREM PacksKept == Packs!Spec => []Packs!VerifiedIsReplayed
BY PacksInit, PacksStep, PacksImplies, PTL DEF Packs!Spec

-----------------------------------------------------------------------------
(* Engagement runs.                                                        *)

List(checks) == checks \in Seq(Engagement!ToSet(checks))

(* A result that names as many invariants as it has checks has one check   *)
(* of each.                                                                *)
LEMMA OneCheckEach ==
  ASSUME NEW checks, List(checks), Cardinality(Engagement!Checked(checks)) = Len(checks),
         NEW i \in Engagement!Checked(checks)
  PROVE  Cardinality({c \in Engagement!ToSet(checks) : c.invariant = i}) = 1
<1> DEFINE S == 1 .. Len(checks)
           f == [n \in S |-> checks[n].invariant]
<1>1. Len(checks) \in Nat /\ DOMAIN checks = S
  BY DEF List
<1>2. Engagement!ToSet(checks) = {checks[n] : n \in S}
  BY <1>1 DEF Engagement!ToSet
<1>3. f \in Surjection(S, Engagement!Checked(checks))
  BY <1>2 DEF Engagement!Checked, Surjection
<1>4. IsFiniteSet(S) /\ Cardinality(S) = Len(checks)
  <2>1. 1 \in Int /\ Len(checks) \in Int
    BY <1>1
  <2>2. IsFiniteSet(1 .. Len(checks)) /\ Cardinality(1 .. Len(checks)) = IF 1 > Len(checks) THEN 0 ELSE Len(checks) - 1 + 1
    BY <2>1, FS_Interval
  <2> QED BY <1>1, <2>2
<1>5. f \in Injection(S, Engagement!Checked(checks))
  BY <1>3, <1>4, FS_Surjection
<1>6. \A m, n \in S : checks[m].invariant = checks[n].invariant => m = n
  <2>1. \A m, n \in S : f[m] = f[n] => m = n
    BY <1>5 DEF Injection, IsInjective
  <2>2. \A n \in S : f[n] = checks[n].invariant
    OBVIOUS
  <2> HIDE DEF f, S
  <2> QED BY <2>1, <2>2
<1>7. PICK n \in S : checks[n].invariant = i
  BY <1>2 DEF Engagement!Checked
<1>8. {c \in Engagement!ToSet(checks) : c.invariant = i} = {checks[n]}
  BY <1>2, <1>6, <1>7
<1> QED BY <1>8, FS_Singleton

(* The module counts as FiniteSets does.                                   *)
LEMMA SameCardinality == \A S : Engagement!Cardinality(S) = Cardinality(S)
<1> SUFFICES ASSUME NEW S PROVE Engagement!Cardinality(S) = Cardinality(S)
  OBVIOUS
<1> QED BY DEF Engagement!Cardinality, Cardinality, Engagement!IsFiniteSet, IsFiniteSet

(* So every declared invariant of an engagement that verifies has one row. *)
LEMMA VerifiedIsClassified ==
  ASSUME NEW b, List(b.result.checks), Engagement!BaseVerifies(b)
  PROVE  Engagement!Classified(b) /\ Engagement!Checked(b.result.checks) = b.manifest.declared
<1> DEFINE checks == b.result.checks
<1>1. /\ Engagement!ValidResult(b.result) /\ b.result.manifest = b.manifest
      /\ Engagement!Checked(checks) = b.manifest.declared
      /\ b.engagement = Engagement!Engagement(b.manifest, b.result)
  BY DEF Engagement!BaseVerifies, Engagement!Builds, Engagement!Complete
<1>2. /\ b.engagement.manifest = b.manifest /\ b.engagement.rows = Engagement!ToSet(checks)
      /\ b.engagement.findings = {c.finding : c \in Engagement!Where(checks, "violated")}
  BY <1>1 DEF Engagement!Engagement
<1>3. Cardinality(Engagement!Checked(checks)) = Len(checks)
  BY <1>1, SameCardinality DEF Engagement!ValidResult
<1>4. \A i \in b.manifest.declared : Cardinality({c \in Engagement!ToSet(checks) : c.invariant = i}) = 1
  BY <1>1, <1>3, OneCheckEach
<1>5. \A i \in b.manifest.declared : Engagement!Cardinality({c \in b.engagement.rows : c.invariant = i}) = 1
  BY <1>2, <1>4, SameCardinality
<1> QED
  BY <1>1, <1>2, <1>5 DEF Engagement!Classified, Engagement!Where

(* What a pack is made of. *)
IsBase(b) ==
    /\ b = [manifest |-> b.manifest, result |-> b.result, engagement |-> b.engagement]
    /\ List(b.result.checks)

IsPack(z) ==
    /\ z = [kind |-> z.kind, base |-> z.base, source |-> z.source, seal |-> z.seal]
    /\ IsBase(z.base)

Packing == {"write", "verify", "done"}

DiskKept ==
    /\ result # Engagement!None => List(result.checks)
    /\ zip \notin {Engagement!None, Engagement!Torn} => IsPack(zip)
    /\ accepted # Engagement!None => IsPack(accepted) /\ Engagement!PackVerifies(accepted)

(* Once a run removed the old result, what lies there was captured since;  *)
(* what it packed was there then.                                          *)
RunsKept ==
    /\ DOMAIN at = Runs /\ DOMAIN held = Runs /\ DOMAIN told = Runs /\ DOMAIN since = Runs
    /\ \A r \in Runs : held[r] = [fingerprint |-> held[r].fingerprint, engagement |-> held[r].engagement, base |-> held[r].base]
    /\ \A r \in Runs : at[r] \notin {"start", "clear", "failed"} => result = Engagement!None \/ result \in since[r]
    /\ \A r \in Runs : at[r] \in Packing =>
          IsBase(held[r].base) /\ Engagement!BaseVerifies(held[r].base) /\ held[r].base.result \in since[r]
    /\ \A r \in Runs : told[r] # Engagement!None => at[r] = "done" /\ told[r].base = held[r].base

EngagementInv == DiskKept /\ RunsKept

(* An initial state of the engagement satisfies the inductive invariant.   *)
LEMMA EngagementInit == Engagement!EngagementAssumption /\ Engagement!Init => EngagementInv
<1> SUFFICES ASSUME Engagement!EngagementAssumption, Engagement!Init PROVE EngagementInv
  OBVIOUS
<1>1. PICK c \in Reports : result \in {Engagement!None, [manifest |-> manifest, sources |-> 0, checks |-> c]}
  BY DEF Engagement!Init
<1>2. DiskKept
  BY <1>1 DEF Engagement!Init, DiskKept, List, Engagement!EngagementAssumption, Engagement!ToSet
<1>3. RunsKept
  BY DEF Engagement!Init, RunsKept, Engagement!Nothing, Packing
<1> QED BY <1>2, <1>3 DEF EngagementInv

(* A run moves on: the others are where they were. *)
LEMMA RunMoves ==
  ASSUME RunsKept, NEW r \in Runs, NEW to, at' = [at EXCEPT ![r] = to]
  PROVE  DOMAIN at' = Runs /\ at'[r] = to /\ \A q \in Runs \ {r} : at'[q] = at[q]
BY DEF RunsKept

(* Every step of the engagement keeps the inductive invariant.             *)
LEMMA EngagementStep == Engagement!EngagementAssumption /\ EngagementInv /\ [Engagement!Next]_Engagement!vars => EngagementInv'
<1> SUFFICES ASSUME Engagement!EngagementAssumption, EngagementInv, [Engagement!Next]_Engagement!vars PROVE EngagementInv'
  OBVIOUS
<1> USE DEF EngagementInv, Engagement!Step, Engagement!Goto, Engagement!Keep
(* People change what lies there, and the client accepts it. *)
<1>1. ASSUME UNCHANGED <<result, at, held, told, since>>, DiskKept' PROVE EngagementInv'
  BY <1>1 DEF RunsKept
<1>2. ASSUME NEW m \in Manifests, Engagement!EditManifest(m) PROVE EngagementInv'
  BY <1>1, <1>2 DEF Engagement!EditManifest, Engagement!Edit, DiskKept
<1>3. CASE Engagement!EditSources
  BY <1>1, <1>3 DEF Engagement!EditSources, Engagement!Edit, DiskKept
<1>4. ASSUME NEW z \in Engagement!Tampered(zip), Engagement!EditZip(z) PROVE EngagementInv'
  <2>1. zip' = z /\ IsPack(zip) /\ UNCHANGED <<result, at, held, told, since, accepted>>
    BY <1>4 DEF Engagement!EditZip, Engagement!Edit, DiskKept
  <2> DEFINE fewer == [zip.base EXCEPT !.engagement.findings = {}]
  <2>2. IsBase(fewer)
    BY <2>1 DEF IsPack, IsBase
  <2>3. z \in {[zip EXCEPT !.base = fewer], Engagement!Wrap(fewer), [zip EXCEPT !.source.observed = {}]}
    BY <1>4 DEF Engagement!Tampered
  <2> HIDE DEF fewer
  <2>4. IsPack(z)
    BY <2>1, <2>2, <2>3 DEF IsPack, Engagement!Wrap
  <2>5. DiskKept'
    BY <2>1, <2>4 DEF DiskKept
  <2> QED BY <1>1, <2>1, <2>5
<1>5. CASE Engagement!Accept
  <2>1. /\ Engagement!PackVerifies(zip) /\ accepted' = zip /\ zip \notin {Engagement!None, Engagement!Torn}
        /\ UNCHANGED <<result, zip, at, held, told, since>>
    BY <1>5 DEF Engagement!Accept, Engagement!PackVerifies
  <2>2. DiskKept'
    BY <2>1 DEF DiskKept
  <2> QED BY <1>1, <2>1, <2>2
(* A run moves without touching files: it keeps what it packed. *)
<1>6. ASSUME NEW r \in Runs, NEW to, at' = [at EXCEPT ![r] = to], UNCHANGED <<result, held, told, since, zip, accepted>>,
             at[r] # "done", to \notin Packing \/ (at[r] \in Packing /\ to # "done"),
             at[r] = "clear" => to = "failed", at[r] = "start" => to = "clear", at[r] = "failed" => to = "failed"
      PROVE  EngagementInv'
  <2>1. DOMAIN at' = Runs /\ at'[r] = to /\ \A q \in Runs \ {r} : at'[q] = at[q]
    BY <1>6, RunMoves
  <2>2. RunsKept'
    BY <1>6, <2>1 DEF RunsKept, Packing
  <2>3. DiskKept'
    BY <1>6 DEF DiskKept
  <2> QED BY <2>2, <2>3
(* A run keeps something, while it has not packed yet. *)
<1>7. ASSUME NEW r \in Runs, NEW to, at' = [at EXCEPT ![r] = to], NEW name \in {"fingerprint", "engagement"}, NEW value,
             held' = [held EXCEPT ![r][name] = value], UNCHANGED <<result, told, since, zip, accepted>>,
             <<at[r], to>> \in {<<"start", "clear">>, <<"load", "pack">>}
      PROVE  EngagementInv'
  <2>1. DOMAIN at' = Runs /\ at'[r] = to /\ \A q \in Runs \ {r} : at'[q] = at[q]
    BY <1>7, RunMoves DEF EngagementInv
  <2>2. DOMAIN held' = Runs /\ held'[r] = [held[r] EXCEPT ![name] = value] /\ \A q \in Runs \ {r} : held'[q] = held[q]
    BY <1>7 DEF RunsKept
  <2>3. held[r] = [fingerprint |-> held[r].fingerprint, engagement |-> held[r].engagement, base |-> held[r].base]
    BY DEF RunsKept
  <2>4. held'[r] = [fingerprint |-> held'[r].fingerprint, engagement |-> held'[r].engagement, base |-> held'[r].base]
    BY <2>2, <2>3
  <2>5. RunsKept'
    BY <1>7, <2>1, <2>2, <2>4 DEF RunsKept, Packing
  <2>6. DiskKept'
    BY <1>7 DEF DiskKept
  <2> QED BY <2>5, <2>6
<1>8. ASSUME NEW r \in Runs, Engagement!Fingerprint(r) PROVE EngagementInv'
  BY <1>7, <1>8 DEF Engagement!Fingerprint
<1>9. ASSUME NEW r \in Runs, Engagement!Load(r) PROVE EngagementInv'
  BY <1>7, <1>9 DEF Engagement!Load
<1>10. ASSUME NEW r \in Runs, Engagement!CaptureNothing(r) PROVE EngagementInv'
  BY <1>6, <1>10 DEF Engagement!CaptureNothing, Packing
<1>11. ASSUME NEW r \in Runs, Engagement!Fail(r) PROVE EngagementInv'
  BY <1>6, <1>11 DEF Engagement!Fail, Packing
(* A new result, or none, lies there. *)
<1>12. ASSUME NEW r \in Runs, Engagement!Clear(r) PROVE EngagementInv'
  <2>1. /\ at[r] = "clear" /\ at' = [at EXCEPT ![r] = "capture"] /\ result' = Engagement!None /\ since' = [since EXCEPT ![r] = {}]
        /\ UNCHANGED <<held, told, zip, accepted>>
    BY <1>12 DEF Engagement!Clear
  <2>2. DOMAIN at' = Runs /\ at'[r] = "capture" /\ \A q \in Runs \ {r} : at'[q] = at[q]
    BY <2>1, RunMoves
  <2>3. DOMAIN since' = Runs /\ \A q \in Runs \ {r} : since'[q] = since[q]
    BY <2>1 DEF RunsKept
  <2>4. RunsKept'
    BY <2>1, <2>2, <2>3 DEF RunsKept, Packing, Engagement!None
  <2>5. DiskKept'
    BY <2>1 DEF DiskKept, Engagement!None
  <2> QED BY <2>4, <2>5
<1>13. ASSUME NEW r \in Runs, NEW c \in Reports, Engagement!Capture(r, c) PROVE EngagementInv'
  <2> DEFINE new == [manifest |-> held[r].fingerprint, sources |-> sources, checks |-> c]
  <2>1. /\ at[r] = "capture" /\ at' = [at EXCEPT ![r] = "load"] /\ result' = new
        /\ since' = [q \in Runs |-> since[q] \cup {new}] /\ UNCHANGED <<held, told, zip, accepted>>
    BY <1>13 DEF Engagement!Capture
  <2>2. new.checks = c /\ List(c)
    BY DEF Engagement!EngagementAssumption, List, Engagement!ToSet
  <2> HIDE DEF new
  <2>3. DOMAIN at' = Runs /\ at'[r] = "load" /\ \A q \in Runs \ {r} : at'[q] = at[q]
    BY <2>1, RunMoves
  <2>4. DOMAIN since' = Runs /\ \A q \in Runs : since[q] \subseteq since'[q] /\ new \in since'[q]
    BY <2>1
  <2>5. RunsKept'
    BY <2>1, <2>3, <2>4 DEF RunsKept, Packing
  <2>6. DiskKept'
    BY <2>1, <2>2 DEF DiskKept, List
  <2> QED BY <2>5, <2>6
<1>14. ASSUME NEW r \in Runs, Engagement!Pack(r) PROVE EngagementInv'
  <2> DEFINE b == [manifest |-> manifest, result |-> result, engagement |-> held[r].engagement]
  <2>1. /\ at[r] = "pack" /\ at' = [at EXCEPT ![r] = "write"] /\ result # Engagement!None /\ Engagement!BaseVerifies(b)
        /\ held' = [held EXCEPT ![r].base = b] /\ UNCHANGED <<result, told, since, zip, accepted>>
    BY <1>14 DEF Engagement!Pack
  <2>2. IsBase(b) /\ b.result = result
    BY <2>1 DEF IsBase, DiskKept
  <2> HIDE DEF b
  <2>3. DOMAIN at' = Runs /\ at'[r] = "write" /\ \A q \in Runs \ {r} : at'[q] = at[q]
    BY <2>1, RunMoves
  <2>4. DOMAIN held' = Runs /\ held'[r] = [held[r] EXCEPT !.base = b] /\ \A q \in Runs \ {r} : held'[q] = held[q]
    BY <2>1 DEF RunsKept
  <2>5. held[r] = [fingerprint |-> held[r].fingerprint, engagement |-> held[r].engagement, base |-> held[r].base]
    BY DEF RunsKept
  <2>6. held'[r].base = b /\ held'[r] = [fingerprint |-> held'[r].fingerprint, engagement |-> held'[r].engagement, base |-> held'[r].base]
    BY <2>4, <2>5
  <2>7. result \in since[r]
    BY <2>1 DEF RunsKept
  <2>8. RunsKept'
    BY <2>1, <2>2, <2>3, <2>4, <2>6, <2>7 DEF RunsKept, Packing
  <2>9. DiskKept'
    BY <2>1 DEF DiskKept
  <2> QED BY <2>8, <2>9
(* The ZIP is written, or torn. *)
<1>15. ASSUME NEW r \in Runs, Engagement!Write(r) \/ Engagement!Tear(r) PROVE EngagementInv'
  <2>1. PICK to \in {"verify", "failed"} :
           /\ at[r] = "write" /\ at' = [at EXCEPT ![r] = to] /\ UNCHANGED <<result, held, told, since, accepted>>
           /\ zip' \in {Engagement!Torn, Engagement!Wrap(held[r].base)}
    BY <1>15 DEF Engagement!Write, Engagement!Tear
  <2>2. DOMAIN at' = Runs /\ at'[r] = to /\ \A q \in Runs \ {r} : at'[q] = at[q]
    BY <2>1, RunMoves
  <2>3. RunsKept'
    BY <2>1, <2>2 DEF RunsKept, Packing
  <2>4. IsPack(Engagement!Wrap(held[r].base))
    BY <2>1 DEF RunsKept, Packing, IsPack, Engagement!Wrap
  <2>5. DiskKept'
    BY <2>1, <2>4 DEF DiskKept
  <2> QED BY <2>3, <2>5
<1>16. ASSUME NEW r \in Runs, Engagement!Report(r) PROVE EngagementInv'
  <2>1. /\ at[r] = "verify" /\ at' = [at EXCEPT ![r] = "done"] /\ told' = [told EXCEPT ![r] = zip] /\ zip.base = held[r].base
        /\ UNCHANGED <<result, held, since, zip, accepted>>
    BY <1>16 DEF Engagement!Report, Engagement!Mine
  <2>2. DOMAIN at' = Runs /\ at'[r] = "done" /\ \A q \in Runs \ {r} : at'[q] = at[q]
    BY <2>1, RunMoves
  <2>3. DOMAIN told' = Runs /\ told'[r] = zip /\ \A q \in Runs \ {r} : told'[q] = told[q]
    BY <2>1 DEF RunsKept
  <2>4. RunsKept'
    BY <2>1, <2>2, <2>3 DEF RunsKept, Packing
  <2>5. DiskKept'
    BY <2>1 DEF DiskKept
  <2> QED BY <2>4, <2>5
<1>17. CASE UNCHANGED Engagement!vars
  BY <1>1, <1>17 DEF Engagement!vars, DiskKept
<1> QED
  BY <1>2, <1>3, <1>4, <1>5, <1>8, <1>9, <1>10, <1>11, <1>12, <1>13, <1>14, <1>15, <1>16, <1>17 DEF Engagement!Next

(* The inductive invariant of the engagement implies the property its run  *)
(* checks.                                                                 *)
LEMMA EngagementImplies == EngagementInv => Engagement!EvidenceIsFreshAndWhole
<1> SUFFICES ASSUME EngagementInv PROVE Engagement!EvidenceIsFreshAndWhole
  OBVIOUS
<1>1. ASSUME NEW r \in Runs, told[r] # Engagement!None
      PROVE  told[r].base = held[r].base /\ told[r].base.result \in since[r] /\ Engagement!Classified(told[r].base)
  BY <1>1, VerifiedIsClassified DEF EngagementInv, RunsKept, Packing, IsBase
<1>2. ASSUME accepted # Engagement!None
      PROVE  Engagement!Classified(accepted.base) /\ accepted.source.observed = accepted.source.declared
  <2>1. IsPack(accepted) /\ Engagement!BaseVerifies(accepted.base) /\ accepted.source = Engagement!Measure(accepted.base)
    BY <1>2 DEF EngagementInv, DiskKept, Engagement!PackVerifies
  <2>2. Engagement!Classified(accepted.base) /\ Engagement!Checked(accepted.base.result.checks) = accepted.base.manifest.declared
    BY <2>1, VerifiedIsClassified DEF IsPack, IsBase
  <2> QED BY <2>1, <2>2 DEF Engagement!Measure
<1> QED BY <1>1, <1>2 DEF Engagement!EvidenceIsFreshAndWhole

(***************************************************************************)
(* A run's success is about evidence captured after it removed the old     *)
(* one, and what verifies classifies every declared invariant once         *)
(* (run_engagement_pipeline, verify_engagement_bundle), for any runs,      *)
(* manifests and reports.                                                  *)
(***************************************************************************)
THEOREM EngagementKept ==
  ASSUME Engagement!EngagementAssumption PROVE Engagement!Spec => []Engagement!EvidenceIsFreshAndWhole
<1>1. Engagement!Init => EngagementInv
  BY EngagementInit
<1>2. EngagementInv /\ [Engagement!Next]_Engagement!vars => EngagementInv'
  BY EngagementStep
<1> QED
  BY <1>1, <1>2, EngagementImplies, PTL DEF Engagement!Spec

-----------------------------------------------------------------------------
(* The bridge that exports outcomes.                                       *)

(* What the chain witnessed of an outcome. *)
Backed(o) ==
    o.request \in Bridge!Roots =>
       /\ o.status \in {"COMPLETED", "CANCELLED"} => \E r \in witnessed : Bridge!Did(r, o)
       /\ o.status = "FAILED" => \E r \in witnessed : ~ r.ok

(* Whatever is on the chain, in evidence or about to be written was once   *)
(* on the chain.                                                           *)
BridgeInv ==
    /\ DOMAIN calls = Txs /\ \A t \in Txs : calls[t] \subseteq witnessed
    /\ \A c \in captures : c.receipt \subseteq witnessed
    /\ \A t \in traces : t.receipt \in witnessed
    /\ files = [input |-> files.input, report |-> files.report]
    /\ \A o \in built.outcomes \cup files.input.outcomes : Backed(o)

(* An initial state of the bridge satisfies the inductive invariant.       *)
LEMMA BridgeInit == Bridge!Init => BridgeInv
BY DEF Bridge!Init, Bridge!Nothing, BridgeInv

(* Nothing witnessed is forgotten, so what it backs stays backed. *)
LEMMA StaysBacked ==
  ASSUME witnessed \subseteq witnessed', NEW o, Backed(o) PROVE Backed(o)'
BY DEF Backed, Bridge!Did, Bridge!AppliedFor, Bridge!CommittedBy, Bridge!Roots

(* An observation of a request that the export lets through. *)
LEMMA ExportedIsBacked ==
  ASSUME BridgeInv, NEW o, o.request \in Bridge!Roots => Bridge!RootOutcome(o)
  PROVE  Backed(Bridge!Outcome(o))
<1> SUFFICES ASSUME NEW x, x = Bridge!Outcome(o) PROVE Backed(x)
  OBVIOUS
<1>1. x.request = o.request /\ x.status = o.status /\ x.attempt = o.attempt
  BY DEF Bridge!Outcome
<1>2. CASE Bridge!OffChain(o)
  BY <1>1, <1>2 DEF Backed, Bridge!OffChain
<1>3. ASSUME Bridge!OnChain(o) PROVE Backed(x)
  <2>1. PICK t \in traces : Bridge!StatusFits(o, t) /\ Bridge!EventsBack(o, t.receipt)
    BY <1>3 DEF Bridge!OnChain
  <2>2. t.receipt \in witnessed
    BY DEF BridgeInv
  <2>3. CASE t.receipt.ok
    <3>1. o.status \in {"COMPLETED", "CANCELLED"} /\ o.mapped # {} /\ \A e \in o.mapped : Bridge!EventBacks(o, e, t.receipt)
      BY <2>1, <2>3 DEF Bridge!StatusFits, Bridge!EventsBack
    <3>2. PICK e \in o.mapped : Bridge!EventBacks(o, e, t.receipt)
      BY <3>1
    <3>3. /\ e \in t.receipt.logs /\ ~ e.removed /\ e.contract = Binding[x.attempt].contract
          /\ \A y \in e.effect : y.action = x.request
          /\ \A y \in e.commit : y.function = Binding[x.attempt].function
      BY <1>1, <3>2 DEF Bridge!EventBacks
    <3>4. Bridge!AppliedFor(e, x) \/ Bridge!CommittedBy(e, x)
      <4>1. CASE \E y \in e.effect : y.applied
        BY <3>3, <4>1 DEF Bridge!AppliedFor
      <4>2. CASE \E y \in e.commit : y.committed
        BY <3>3, <4>2 DEF Bridge!CommittedBy
      <4> QED BY <3>2, <4>1, <4>2 DEF Bridge!EventBacks, Bridge!Acts
    <3>5. Bridge!Did(t.receipt, x)
      BY <2>3, <3>3, <3>4 DEF Bridge!Did
    <3> QED BY <1>1, <2>2, <3>1, <3>5 DEF Backed
  <2>4. CASE ~ t.receipt.ok
    <3>1. o.status = "FAILED"
      BY <2>1, <2>4 DEF Bridge!StatusFits
    <3> QED BY <1>1, <2>2, <2>4, <3>1 DEF Backed
  <2> QED BY <2>3, <2>4
<1>4. CASE o.request \notin Bridge!Roots
  BY <1>1, <1>4 DEF Backed
<1> QED BY <1>2, <1>3, <1>4 DEF Bridge!RootOutcome

(* A step adds to what was witnessed, or makes evidence of it. *)
LEMMA BridgeStep == BridgeInv /\ [Bridge!Next]_Bridge!vars => BridgeInv'
<1> SUFFICES ASSUME BridgeInv, [Bridge!Next]_Bridge!vars PROVE BridgeInv'
  OBVIOUS
<1> USE DEF BridgeInv, Bridge!evidence
<1>1. ASSUME witnessed \subseteq witnessed', UNCHANGED <<built, files>>
      PROVE  \A o \in (built.outcomes \cup files.input.outcomes)' : Backed(o)'
  BY <1>1, StaysBacked
<1>2. ASSUME NEW t \in Txs, NEW r \in Receipts, Bridge!Mine(t, r) PROVE BridgeInv'
  BY <1>1, <1>2 DEF Bridge!Mine
<1>3. ASSUME NEW t \in Txs, Bridge!Reorg(t) PROVE BridgeInv'
  BY <1>1, <1>3 DEF Bridge!Reorg
<1>4. ASSUME NEW t \in Txs, Bridge!Capture(t) PROVE BridgeInv'
  BY <1>1, <1>4 DEF Bridge!Capture
<1>5. ASSUME NEW c \in captures, Bridge!DropCapture(c) PROVE BridgeInv'
  BY <1>1, <1>5 DEF Bridge!DropCapture
<1>6. ASSUME NEW c \in captures, NEW pass \in BOOLEAN, Bridge!Adapt(c, pass) PROVE BridgeInv'
  BY <1>1, <1>6 DEF Bridge!Adapt
<1>7. ASSUME NEW o \in Observations, Bridge!Review(o) PROVE BridgeInv'
  BY <1>1, <1>7 DEF Bridge!Review
<1>8. CASE Bridge!Export
  <2>1. UNCHANGED <<calls, witnessed, captures, traces, observations, files>>
    BY <1>8 DEF Bridge!Export
  <2>2. ASSUME Bridge!Exportable, NEW o \in {Bridge!Outcome(x) : x \in observations} PROVE Backed(o)
    BY <2>2, ExportedIsBacked DEF Bridge!Exportable
  <2>3. \A o \in built'.outcomes : Backed(o)
    <3>1. CASE Bridge!Exportable
      <4>1. built' = [outcomes |-> {Bridge!Outcome(o) : o \in observations}, limited |-> Bridge!Limited({Bridge!Outcome(o) : o \in observations})]
        BY <1>8, <3>1 DEF Bridge!Export
      <4> QED BY <2>2, <3>1, <4>1
    <3>2. CASE ~ Bridge!Exportable
      BY <1>8, <3>2 DEF Bridge!Export
    <3> QED BY <3>1, <3>2
  <2>4. \A o \in (built.outcomes \cup files.input.outcomes)' : Backed(o)'
    BY <2>1, <2>3, StaysBacked
  <2> QED BY <2>1, <2>4
<1>9. ASSUME NEW name \in {"input", "report"}, NEW to, Bridge!Write(name, name, to) PROVE BridgeInv'
  <2>1. /\ UNCHANGED <<calls, witnessed, captures, traces, observations, built>>
        /\ files' = [files EXCEPT ![name] = built]
    BY <1>9 DEF Bridge!Write
  <2>2. files' = [input |-> files'.input, report |-> files'.report] /\ files'.input \in {files.input, built}
    BY <2>1
  <2>3. \A o \in (built.outcomes \cup files.input.outcomes)' : Backed(o)'
    BY <2>1, <2>2, StaysBacked
  <2> QED BY <2>1, <2>2, <2>3
<1>10. CASE Bridge!Again
  <2>1. UNCHANGED <<calls, witnessed, captures, traces, observations, files>> /\ built'.outcomes = {}
    BY <1>10 DEF Bridge!Again, Bridge!Nothing
  <2>2. \A o \in (built.outcomes \cup files.input.outcomes)' : Backed(o)'
    BY <2>1, StaysBacked
  <2> QED BY <2>1, <2>2
<1>11. CASE UNCHANGED Bridge!vars
  BY <1>1, <1>11 DEF Bridge!vars
<1> QED
  BY <1>2, <1>3, <1>4, <1>5, <1>6, <1>7, <1>8, <1>9, <1>10, <1>11 DEF Bridge!Next

(* The inductive invariant of the bridge implies the property its run      *)
(* checks.                                                                 *)
LEMMA BridgeImplies == BridgeInv => Bridge!OutcomeIsWitnessed
BY DEF BridgeInv, Backed, Bridge!OutcomeIsWitnessed

(***************************************************************************)
(* A published outcome of an on-chain request rests on what the chain      *)
(* witnessed (_root_outcome, _verify_mapped_events): an effect applied for *)
(* that very request, a commit by its declared function in an event that   *)
(* names no other request, or, of a failure, a revert; for any attempts,   *)
(* transactions, receipts and observations, and without a bound on their   *)
(* number.                                                                 *)
(***************************************************************************)
THEOREM BridgeKept == Bridge!Spec => []Bridge!OutcomeIsWitnessed
BY BridgeInit, BridgeStep, BridgeImplies, PTL DEF Bridge!Spec

-----------------------------------------------------------------------------
(* All of them in the composition, where a behaviour is of one component;  *)
(* the publishers of the other behaviours stay idle.                       *)

ComposedVars == <<part, publication, rpc, hydration, packs, engagement, bridge>>

ComposedInv ==
    /\ PublicationInv
    /\ part = "rpc" => RpcInv
    /\ part = "hydration" => HydratedInv
    /\ part = "packs" => PacksInv
    /\ part = "engagement" => EngagementInv
    /\ part = "bridge" => BridgeInv

(* An initial state of the composed parts satisfies the inductive          *)
(* invariant.                                                              *)
LEMMA ComposedInit == MCInit => ComposedInv
<1>1. MCInit => Init
  BY DEF MCInit, NoPublication, Init
<1> QED
  BY <1>1, EvidenceAssumption, PublicationInit, RpcInit, HydratedInit, PacksInit, EngagementInit, BridgeInit DEF MCInit, ComposedInv

(* A step is of the component that the behaviour is of. *)
LEMMA ComposedStep ==
  ASSUME [MCNext]_ComposedVars
  PROVE  /\ part' = part
         /\ [Next]_vars
         /\ part = "rpc" => [Rpc!Next]_Rpc!vars
         /\ part = "hydration" => [Hydrated!Next]_Hydrated!vars
         /\ part = "packs" => [Packs!Next]_Packs!vars
         /\ part = "engagement" => [Engagement!Next]_Engagement!vars
         /\ part = "bridge" => [Bridge!Next]_Bridge!vars
<1>1. CASE MCNext
  BY <1>1 DEF MCNext, publication
<1>2. CASE UNCHANGED <<part, publication, rpc, hydration, packs, engagement, bridge>>
  BY <1>2 DEF publication, rpc, hydration, packs, engagement, bridge, Rpc!vars, Rpc!environment, Rpc!outcome, Rpc!history,
              Hydrated!vars, Packs!vars, Engagement!vars, Bridge!vars, Bridge!evidence
<1> QED
  BY <1>1, <1>2 DEF ComposedVars

(* Every step of the composed parts keeps the inductive invariant.         *)
LEMMA ComposedKept == ComposedInv /\ [MCNext]_ComposedVars => ComposedInv'
BY ComposedStep, EvidenceAssumption, PublicationStep, RpcStep, HydratedStep, PacksStep, EngagementStep, BridgeStep DEF ComposedInv

(***************************************************************************)
(* The captures in the composition.                                        *)
(***************************************************************************)
THEOREM ComposedRpc == MCSpec => []AssessmentRestsOnTheChain
<1>1. ComposedInv => AssessmentRestsOnTheChain
  BY RpcImplies DEF ComposedInv, AssessmentRestsOnTheChain
<1> QED
  BY ComposedInit, ComposedKept, <1>1, PTL DEF MCSpec, ComposedVars

(***************************************************************************)
(* The assessment of hydrated traces in the composition.                   *)
(***************************************************************************)
THEOREM ComposedHydrated == MCSpec => []VerdictIsEarned
<1>1. ComposedInv => VerdictIsEarned
  BY HydratedImplies DEF ComposedInv, VerdictIsEarned
<1> QED
  BY ComposedInit, ComposedKept, <1>1, PTL DEF MCSpec, ComposedVars

(***************************************************************************)
(* The packs in the composition.                                           *)
(***************************************************************************)
THEOREM ComposedPacks == MCSpec => []VerifiedIsReplayed
<1>1. ComposedInv => VerifiedIsReplayed
  BY PacksImplies DEF ComposedInv, VerifiedIsReplayed
<1> QED
  BY ComposedInit, ComposedKept, <1>1, PTL DEF MCSpec, ComposedVars

(***************************************************************************)
(* The engagement runs in the composition.                                 *)
(***************************************************************************)
THEOREM ComposedEngagement == MCSpec => []EvidenceIsFreshAndWhole
<1>1. ComposedInv => EvidenceIsFreshAndWhole
  BY EngagementImplies DEF ComposedInv, EvidenceIsFreshAndWhole
<1> QED
  BY ComposedInit, ComposedKept, <1>1, PTL DEF MCSpec, ComposedVars

(***************************************************************************)
(* The bridge in the composition.                                          *)
(***************************************************************************)
THEOREM ComposedBridge == MCSpec => []OutcomeIsWitnessed
<1>1. ComposedInv => OutcomeIsWitnessed
  BY BridgeImplies DEF ComposedInv, OutcomeIsWitnessed
<1> QED
  BY ComposedInit, ComposedKept, <1>1, PTL DEF MCSpec, ComposedVars
=============================================================================

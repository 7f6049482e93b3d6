---------------------------- MODULE EvidencePacks ----------------------------
(***************************************************************************)
(* Evidence packs: a builder evaluates its input and writes input, verdict,*)
(* summary and a manifest with their digests into a zip at the output      *)
(* path, then reads the file back for its digest (the provider pack, a     *)
(* document with neither summary nor manifest, takes the digest of what it *)
(* wrote).  Several builders may use one path, be killed half way, and     *)
(* somebody may edit the file.  A verifier reads the file, checks the      *)
(* digests and evaluates the input again.  Digests are collision free.     *)
(***************************************************************************)
EXTENDS Naturals, FiniteSets

CONSTANTS
    Builders,
    Inputs,
    Evaluate,   \* the verdict of each input
    MaxEdits

EvaluateAssumption == Evaluate \in [Inputs -> {"pass", "fail", "inconclusive"}] /\ MaxEdits \in Nat

Verdicts == {Evaluate[i] : i \in Inputs}

VARIABLES
    kind,       \* "hydrated", "payment" or "provider": the three implementations
    file,       \* what the output path holds
    writers,    \* builders that have it open
    builders,   \* per builder: [pc, input, content], content being what it read back
    edits,
    verifier,   \* [pc, expected, snapshot, content], content being what it read last
    touched     \* the file changed since the verifier read it

vars == <<kind, file, writers, builders, edits, verifier, touched>>

Contents(i) == [input |-> i, verdict |-> Evaluate[i], summary |-> Evaluate[i]]

(* A zip is its content and what its manifest says of it. *)
Pack(i) == [zip |-> "complete", content |-> Contents(i), hashed |-> Contents(i), claim |-> Evaluate[i]]

Any     == Contents(CHOOSE i \in Inputs : TRUE)
Broken  == [zip |-> "broken", content |-> Any, hashed |-> Any, claim |-> Any.verdict]
Absent  == [Broken EXCEPT !.zip = "absent"]

Init ==
    /\ kind \in {"hydrated", "payment", "provider"}
    /\ file = Absent /\ writers = {} /\ edits = 0
    /\ builders = [b \in Builders |-> [pc |-> "idle", input |-> Any.input, content |-> Absent]]
    /\ verifier = [pc |-> "idle", expected |-> Absent, snapshot |-> Absent, content |-> Absent]
    /\ touched = FALSE

Becomes(content) == file' = content /\ touched' = TRUE

-----------------------------------------------------------------------------
(* build: the input is evaluated before the file is opened, which empties  *)
(* it; who closes a file that another builder opened may leave a mixture.  *)

Open(b) ==
    /\ builders[b].pc = "idle"
    /\ \E i \in Inputs : builders' = [builders EXCEPT ![b].pc = "writing", ![b].input = i]
    /\ writers' = writers \cup {b}
    /\ Becomes(Broken)
    /\ UNCHANGED <<kind, edits, verifier>>

Close(b) ==
    /\ builders[b].pc = "writing"
    /\ \E content \in {Pack(builders[b].input)} \cup (IF writers = {b} THEN {} ELSE {Broken}) : Becomes(content)
    /\ builders' = [builders EXCEPT ![b].pc = "written"]
    /\ UNCHANGED <<kind, writers, edits, verifier>>

ReadBack(b) ==
    /\ builders[b].pc = "written"
    /\ builders' = [builders EXCEPT ![b].pc = "built",
                      ![b].content = IF kind = "provider" THEN Pack(builders[b].input) ELSE file]
    /\ UNCHANGED <<kind, file, writers, edits, verifier, touched>>

Kill(b) ==
    /\ builders[b].pc \in {"writing", "written"}
    /\ builders' = [builders EXCEPT ![b].pc = "killed"]
    /\ UNCHANGED <<kind, file, writers, edits, verifier, touched>>

(* Somebody edits any part of a pack, and may make the manifest fit. *)
Edit ==
    /\ file.zip = "complete" /\ edits < MaxEdits
    /\ edits' = edits + 1
    /\ \E i \in Inputs, verdict \in Verdicts, summary \in Verdicts, claim \in Verdicts, fit \in BOOLEAN :
          LET content == [input |-> i, verdict |-> verdict, summary |-> summary]
          IN  /\ kind = "provider" => {summary, claim} = {verdict}
              /\ Becomes([zip |-> "complete", content |-> content, claim |-> claim,
                          hashed |-> IF fit THEN content ELSE file.hashed])
    /\ UNCHANGED <<kind, writers, builders, verifier>>

-----------------------------------------------------------------------------
(* verify: the payment pack takes no expected digest, and it returns the   *)
(* digest of the file as it is after the check.                            *)

Accepts_DigestsOnly(pack) == pack.zip = "complete" /\ pack.hashed = pack.content

Accepts(pack) ==
    /\ pack.zip = "complete"
    /\ pack.hashed = pack.content
    /\ LET replayed == Evaluate[pack.content.input]
       IN  pack.content.verdict = replayed /\ pack.content.summary = replayed /\ pack.claim = replayed

Built == {b \in Builders : builders[b].pc = "built"}

Read ==
    /\ verifier.pc = "idle"
    /\ \E expected \in {Absent} \cup IF kind = "payment" THEN {} ELSE {builders[b].content : b \in Built} :
          LET good == Accepts(file) /\ expected \in {Absent, file}
          IN  verifier' = [pc |-> IF ~ good THEN "refused" ELSE IF kind = "payment" THEN "checked" ELSE "verified",
                           expected |-> expected, snapshot |-> file,
                           content |-> IF good /\ kind # "payment" THEN file ELSE Absent]
    /\ touched' = FALSE
    /\ UNCHANGED <<kind, file, writers, builders, edits>>

ReadAgain ==
    /\ verifier.pc = "checked"
    /\ verifier' = [verifier EXCEPT !.pc = "verified", !.content = file]
    /\ UNCHANGED <<kind, file, writers, builders, edits, touched>>

Next ==
    \/ \E b \in Builders : Open(b) \/ Close(b) \/ ReadBack(b) \/ Kill(b)
    \/ Edit \/ Read \/ ReadAgain

Spec == Init /\ [][Next]_vars

-----------------------------------------------------------------------------
(***************************************************************************)
(* What "verified" means, whoever wrote the file and whatever was edited.  *)
(* The pack that was read is exactly the pack that its input makes, so no  *)
(* edit of a verdict, a summary or a claim survives; a pack that no        *)
(* builder wrote is only verified when it was edited; with an expected     *)
(* digest the pack is the one that a builder read back, and when that      *)
(* builder had the path for itself and nobody edited, or took the digest   *)
(* of what it wrote, it carries the verdict that it returned; and the      *)
(* digest returned is that of the verified pack unless the file changed    *)
(* under the payment verifier.                                             *)
(***************************************************************************)
VerifiedIsReplayed ==
    verifier.pc = "verified" =>
        LET pack == verifier.snapshot
        IN  /\ pack = Pack(pack.content.input)
            /\ edits = 0 => \E b \in Builders : builders[b].pc # "idle" /\ builders[b].input = pack.content.input
            /\ verifier.expected # Absent =>
                 \E b \in Built :
                    /\ builders[b].content = pack
                    /\ kind = "provider" \/ (writers = {b} /\ edits = 0) => pack = Pack(builders[b].input)
            /\ verifier.content # pack => kind = "payment" /\ touched
=============================================================================

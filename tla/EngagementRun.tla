---------------------------- MODULE EngagementRun ----------------------------
(***************************************************************************)
(* The one-command engagement (engagement_run.py, engagement.py,           *)
(* engagement_provenance.py).  A run fingerprints the manifest, removes    *)
(* the old result, has Foundry capture a new one, builds the engagement    *)
(* from both files, packs it, wraps the pack with the measurement it rests *)
(* on, writes the client's ZIP and verifies it.  Several runs may share    *)
(* their paths; manifest, contract and ZIP change between any two steps.   *)
(*                                                                         *)
(* A manifest is [declared, depth], a result [manifest, sources, checks],  *)
(* a check [invariant, status, finding, length]; a digest is what it is a  *)
(* digest of.                                                              *)
(***************************************************************************)
EXTENDS Naturals, FiniteSets, Sequences, SequencesExt

CONSTANTS
    Runs,         \* runs of the command
    Manifests,    \* reviewed manifests
    Reports,      \* lists of checks that a capture test may write
    MaxSources,   \* bound of the versions of the contract
    MaxEdits      \* bound of what people change

EngagementAssumption ==
    /\ MaxSources \in Nat \ {0} /\ MaxEdits \in Nat
    /\ \A c \in Reports : c \in Seq(ToSet(c))   \* lists

None == [kind |-> "none"]
Torn == [kind |-> "torn"]

VARIABLES
    manifest,  \* the manifest on disk
    sources,   \* version of the contract
    result,    \* the captured result on disk, or None
    zip,       \* the client's ZIP on disk: a pack, Torn or None
    pc,        \* Runs -> where the run is
    held,      \* Runs -> [fingerprint, engagement, base]: what it keeps in memory
    told,      \* Runs -> the pack about which it reported success, or None
    accepted,  \* the pack that the client verified, or None
    edits,
    since      \* Runs -> the results captured since it removed the old one

vars == <<manifest, sources, result, zip, pc, held, told, accepted, edits, since>>
Nothing == [fingerprint |-> None, engagement |-> None, base |-> None]

Init ==
    /\ manifest \in Manifests /\ sources = 1
    /\ \E c \in Reports : result \in {None, [manifest |-> manifest, sources |-> 0, checks |-> c]}
    /\ zip = None /\ accepted = None /\ edits = 0
    /\ pc = [r \in Runs |-> "start"] /\ held = [r \in Runs |-> Nothing]
    /\ told = [r \in Runs |-> None] /\ since = [r \in Runs |-> {}]

-----------------------------------------------------------------------------
(* engagement.py *)
Where(checks, status) == {c \in ToSet(checks) : c.status = status}
Checked(checks) == {c.invariant : c \in ToSet(checks)}

(* A violation has a finding of its own and a path; nothing else has. *)
ValidResult(r) ==
    /\ r.checks # <<>>
    /\ Cardinality(Checked(r.checks)) = Len(r.checks)
    /\ \A c, d \in Where(r.checks, "violated") : c.finding = d.finding => c = d
    /\ \A c \in ToSet(r.checks) : (c.status = "violated") = (c.finding # "none") /\ (c.status = "violated") = (c.length > 0)

(* Every declared invariant is classified, under this very manifest. *)
Complete(m, r) == Checked(r.checks) = m.declared

Builds(m, r) ==
    /\ ValidResult(r) /\ r.manifest = m /\ Complete(m, r)
    /\ \A c \in Where(r.checks, "violated") : c.length <= m.depth

Engagement(m, r) == [manifest |-> m, rows |-> ToSet(r.checks), findings |-> {c.finding : c \in Where(r.checks, "violated")}]

(* verify_engagement_bundle: the chain is recomputed from its ends. *)
BaseVerifies(b) == Builds(b.manifest, b.result) /\ b.engagement = Engagement(b.manifest, b.result)

(* engagement_provenance.py: declared against observed, and the exact bytes. *)
Measure(b) == [declared |-> b.manifest.declared, observed |-> Checked(b.result.checks), manifest |-> b.manifest, result |-> b.result]
Passes(s) == s.observed \subseteq s.declared /\ Cardinality(s.observed) = Cardinality(s.declared)

Wrap(b) == [kind |-> "pack", base |-> b, source |-> Measure(b), seal |-> <<b, Measure(b)>>]

PackVerifies(z) ==
    /\ z \notin {None, Torn}
    /\ z.seal = <<z.base, z.source>>
    /\ BaseVerifies(z.base) /\ z.source = Measure(z.base) /\ Passes(z.source)

-----------------------------------------------------------------------------
(* People. *)
Edit == edits < MaxEdits /\ edits' = edits + 1 /\ UNCHANGED <<pc, held, told, accepted, since, result>>
EditManifest(m) == Edit /\ manifest' = m /\ UNCHANGED <<sources, zip>>
EditSources == Edit /\ sources < MaxSources /\ sources' = sources + 1 /\ UNCHANGED <<manifest, zip>>
(* A part of the ZIP is replaced, with or without its digests. *)
EditZip(z) == zip \notin {None, Torn} /\ Edit /\ zip' = z /\ UNCHANGED <<manifest, sources>>
Tampered(z) ==
    LET fewer == [z.base EXCEPT !.engagement.findings = {}] IN
    {[z EXCEPT !.base = fewer], Wrap(fewer), [z EXCEPT !.source.observed = {}]}

-----------------------------------------------------------------------------
(* A run. *)
Goto(r, from, to) == pc[r] = from /\ pc' = [pc EXCEPT ![r] = to]
Step(r, from, to) == Goto(r, from, to) /\ UNCHANGED <<manifest, sources, accepted, edits>>
Keep(r, field, value) == held' = [held EXCEPT ![r][field] = value]

Fingerprint(r) ==
    /\ Step(r, "start", "clear") /\ Keep(r, "fingerprint", manifest)
    /\ UNCHANGED <<result, zip, told, since>>

Clear(r) ==
    /\ Step(r, "clear", "capture") /\ result' = None /\ since' = [since EXCEPT ![r] = {}]
    /\ UNCHANGED <<zip, held, told>>

(* The capture test writes what the explorers found, with the fingerprint  *)
(* it was given; or it passes without writing.                             *)
Capture(r, c) ==
    LET new == [manifest |-> held[r].fingerprint, sources |-> sources, checks |-> c] IN
    /\ Step(r, "capture", "load")
    /\ result' = new /\ since' = [x \in Runs |-> since[x] \cup {new}]
    /\ UNCHANGED <<zip, held, told>>
CaptureNothing(r) == Step(r, "capture", "load") /\ UNCHANGED <<result, since, zip, held, told>>

(* Both files are parsed and the engagement built. *)
Load(r) ==
    /\ pc[r] = "load" /\ result # None /\ Builds(manifest, result)
    /\ Step(r, "load", "pack") /\ Keep(r, "engagement", Engagement(manifest, result))
    /\ UNCHANGED <<result, zip, told, since>>

(* Their bytes are read again for the pack, which is then verified. *)
Pack(r) ==
    LET b == [manifest |-> manifest, result |-> result, engagement |-> held[r].engagement] IN
    /\ pc[r] = "pack" /\ result # None /\ BaseVerifies(b)
    /\ Step(r, "pack", "write") /\ Keep(r, "base", b)
    /\ UNCHANGED <<result, zip, told, since>>

(* The ZIP is written in place; a kill tears it. *)
Write(r) ==
    /\ Step(r, "write", "verify") /\ Passes(Measure(held[r].base))
    /\ zip' = Wrap(held[r].base) /\ UNCHANGED <<result, held, told, since>>

Tear(r) == Step(r, "write", "failed") /\ zip' = Torn /\ UNCHANGED <<result, held, told, since>>

(* Whatever lies at the path now is verified, and must be this run's. *)
Mine_Verified(r, z) == TRUE
Mine(r, z) == z.base = held[r].base

Report(r) ==
    /\ pc[r] = "verify" /\ PackVerifies(zip) /\ Mine(r, zip)
    /\ Step(r, "verify", "done") /\ told' = [told EXCEPT ![r] = zip]
    /\ UNCHANGED <<result, zip, held, since>>

(* Any check above that does not hold, or a kill, ends the run. *)
Fail(r) ==
    /\ pc[r] \notin {"start", "done", "failed"} /\ Step(r, pc[r], "failed")
    /\ UNCHANGED <<result, zip, held, told, since>>

(* The client verifies what was delivered. *)
Accept ==
    /\ PackVerifies(zip) /\ accepted' = zip
    /\ UNCHANGED <<manifest, sources, result, zip, pc, held, told, edits, since>>

Next ==
    \/ \E m \in Manifests : EditManifest(m)
    \/ EditSources
    \/ zip \notin {None, Torn} /\ \E z \in Tampered(zip) : EditZip(z)
    \/ \E r \in Runs : Fingerprint(r) \/ Clear(r) \/ CaptureNothing(r) \/ (\E c \in Reports : Capture(r, c))
                       \/ Load(r) \/ Pack(r) \/ Write(r) \/ Tear(r) \/ Report(r) \/ Fail(r)
    \/ Accept

Spec == Init /\ [][Next]_vars

-----------------------------------------------------------------------------
(* Nothing declared is left out, nothing undeclared is in, and the         *)
(* findings are those of the violations.                                   *)
Classified(b) ==
    /\ b.engagement.manifest = b.result.manifest /\ b.result.manifest = b.manifest
    /\ \A i \in b.manifest.declared : Cardinality({c \in b.engagement.rows : c.invariant = i}) = 1
    /\ b.engagement.findings = {c.finding : c \in {x \in b.engagement.rows : x.status = "violated"}}
    /\ b.engagement.rows = ToSet(b.result.checks)

(* A run that reports success is about a result captured after it removed  *)
(* the old one, packed in full by this run; and what a client accepts      *)
(* classifies every declared invariant once, with the findings that its    *)
(* own result has (docs/ENGAGEMENT.md "fresh Foundry capture",             *)
(* docs/ENGAGEMENT_RUN.md "Complete invariant coverage").                  *)
EvidenceIsFreshAndWhole ==
    /\ \A r \in Runs : told[r] # None =>
          told[r].base = held[r].base /\ told[r].base.result \in since[r] /\ Classified(told[r].base)
    /\ accepted # None => Classified(accepted.base) /\ accepted.source.observed = accepted.source.declared
=============================================================================

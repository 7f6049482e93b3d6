--------------------------- MODULE ProofAdmission ---------------------------
(***************************************************************************)
(* External proofs (proof-identity and proof-submissions).  A submitter    *)
(* signs a manifest; a run reads the key registry and checks the           *)
(* signature, reads the profile catalog and checks what is asked of it,    *)
(* materializes the source, has the profile's verifier judge it and writes *)
(* a decision; the platform signs it and a reader verifies it.  The key    *)
(* registry, the catalog, the source and the files that lie between two    *)
(* steps change at any time.                                               *)
(*                                                                         *)
(* A digest is what it is a digest of, a signature is what was signed and  *)
(* the private key that signed, and a private key names its public key.    *)
(***************************************************************************)
EXTENDS Naturals

CONSTANTS
    Manifests,    \* what may be submitted: [by, profile, claims, source]
    KeyRows,      \* what the registry may say of a key: [status, purpose, identity, public]
    KeyIds,       \* the names of keys
    Secrets,      \* private keys
    Catalogs,     \* what the catalog may say of a profile: [enabled, allowed, source, pinned]
    Profiles,     \* names of profiles in the catalog
    Bytes,        \* contents of sources
    Convincing,   \* those contents that the trusted verifier accepts
    MaxEdits      \* bound of the changes by people

AdmissionAssumption == Convincing \subseteq Bytes /\ MaxEdits \in Nat

Absent == [status |-> "absent"]
Unavailable == {}

VARIABLES
    keys,      \* KeyIds -> the registry's row, or Absent
    catalog,   \* Profiles -> the catalog's row
    hosted,    \* what the pinned address serves: a set of one content, or Unavailable
    manifest,  \* the manifest on disk: [body, key, signed], signed = [body, secret]
    pc,        \* where the run is
    run,       \* what it has read: the manifest, its key, the catalog's row, the evidence
    decision,  \* the decision on disk: [core, digest], or Absent
    signed,    \* the signed decision on disk: [core, digest, key, secret, over], or Absent
    report,    \* the signed decision that a reader last verified, or Absent
    edits,
    active, offered, processed \* the keys, catalog rows and decisions there ever were

vars == <<keys, catalog, hosted, manifest, pc, run, decision, signed, report, edits, active, offered, processed>>
world == <<keys, catalog, hosted, active, offered>>
outputs == <<decision, signed, report, processed>>

Nothing == [manifest |-> Absent, key |-> Absent, row |-> Absent, evidence |-> Unavailable]

(* What the rows in force say, with the name that each is known by. *)
RowsOf(f) == {[id |-> k, row |-> f[k]] : k \in DOMAIN f}

Init ==
    /\ keys \in [KeyIds -> KeyRows] /\ catalog \in [Profiles -> Catalogs]
    /\ hosted \in {{b} : b \in Bytes}
    /\ manifest \in {[body |-> m, key |-> k, signed |-> [body |-> m, secret |-> s]] :
                        m \in Manifests, k \in KeyIds, s \in Secrets}
    /\ pc = "idle" /\ run = Nothing
    /\ decision = Absent /\ signed = Absent /\ report = Absent /\ edits = 0
    /\ active = RowsOf(keys) /\ offered = RowsOf(catalog) /\ processed = {}

-----------------------------------------------------------------------------
(* People. *)
Edit == edits < MaxEdits /\ edits' = edits + 1 /\ UNCHANGED <<pc, run>>

(* The registry is replaced: a key is revoked, bound anew or removed. *)
EditKeys(k, row) ==
    /\ Edit /\ keys' = [keys EXCEPT ![k] = row]
    /\ active' = active \cup RowsOf(keys') /\ UNCHANGED <<catalog, hosted, offered, manifest, outputs>>

EditCatalog(p, row) ==
    /\ Edit /\ catalog' = [catalog EXCEPT ![p] = row]
    /\ offered' = offered \cup RowsOf(catalog') /\ UNCHANGED <<keys, hosted, active, manifest, outputs>>

Host(content) == Edit /\ hosted' = content /\ UNCHANGED <<keys, catalog, active, offered, manifest, outputs>>

(* The manifest is changed after it was signed. *)
EditManifest(m) == Edit /\ manifest' = [manifest EXCEPT !.body = m] /\ UNCHANGED <<world, outputs>>

(* A decision is changed by hand before the platform signs it, or after. *)
EditDecision(core) ==
    /\ decision # Absent /\ Edit /\ decision' = [decision EXCEPT !.core = core]
    /\ UNCHANGED <<world, manifest, signed, report, processed>>

EditSigned(core) ==
    /\ signed # Absent /\ Edit /\ signed' = [signed EXCEPT !.core = core]
    /\ UNCHANGED <<world, manifest, decision, report, processed>>

-----------------------------------------------------------------------------
(* The run. *)
Goto(from, to) == pc = from /\ pc' = to /\ UNCHANGED <<world, manifest, signed, report, edits>>

(* Every way out leaves one decision, about what was read until then. *)
Core(status, held) ==
    [manifest |-> held.manifest, key |-> held.key, row |-> held.row, evidence |-> held.evidence, status |-> status]
Decide(core) == decision' = [core |-> core, digest |-> core] /\ processed' = processed \cup {core} /\ run' = Nothing

RequireKey(k, purpose) == keys[k].status = "active" /\ keys[k].purpose = purpose

SubmitterKey_AnyIdentity(file) == RequireKey(file.key, "external_submission")
SubmitterKey(file) == RequireKey(file.key, "external_submission") /\ keys[file.key].identity = file.body.by

SignatureHolds(file) == file.signed.body = file.body /\ file.signed.secret = keys[file.key].public

Identified(key) == [manifest |-> manifest, key |-> key, row |-> Absent, evidence |-> Unavailable]

(* verify_submission_identity: the registry, the key, then the signature. *)
VerifyIdentity ==
    IF SubmitterKey(manifest) /\ SignatureHolds(manifest)
    THEN /\ Goto("idle", "identified") /\ run' = Identified(keys[manifest.key])
         /\ UNCHANGED <<decision, processed>>
    ELSE /\ Goto("idle", "idle")
         /\ Decide(Core(IF SubmitterKey(manifest) THEN "REJECTED_SIGNATURE" ELSE "REJECTED_IDENTITY",
                        Identified(Absent)))

Body == run.manifest.body
Row == catalog[Body.profile]

(* What the intake objects to before it touches the source, in its order. *)
Objection ==
    IF Body.claims = {} THEN "REJECTED_SCHEMA"
    ELSE IF Body.profile \notin Profiles THEN "REJECTED_PROFILE"
    ELSE IF ~Row.enabled THEN "REJECTED_PROFILE"
    ELSE IF ~(Body.claims \subseteq Row.allowed) THEN "REJECTED_CLAIM_OVERREACH"
    ELSE IF Body.source # Row.source THEN "REJECTED_INTEGRITY"
    ELSE "none"

(* The catalog is read once; a verifier that is not the pinned one stops   *)
(* the run with no decision.                                               *)
Consult ==
    \/ /\ Goto("identified", "consulted") /\ Objection = "none" /\ Row.pinned
       /\ run' = [run EXCEPT !.row = Row] /\ UNCHANGED <<decision, processed>>
    \/ /\ Goto("identified", "idle") /\ Objection # "none"
       /\ Decide(Core(Objection, run))
    \/ /\ Goto("identified", "idle") /\ Objection = "none" /\ ~Row.pinned
       /\ run' = Nothing /\ UNCHANGED <<decision, processed>>

Intact(content) == content = {Body.source}

(* The source as it is served now, against the manifest's own pin. *)
Materialize ==
    /\ pc = "consulted"
    /\ IF Intact(hosted)
       THEN /\ Goto("consulted", "materialized") /\ run' = [run EXCEPT !.evidence = hosted]
            /\ UNCHANGED <<decision, processed>>
       ELSE /\ Goto("consulted", "idle")
            /\ Decide(Core(IF hosted = Unavailable THEN "REJECTED_SOURCE_UNAVAILABLE" ELSE "REJECTED_INTEGRITY", run))

RunVerifier ==
    /\ Goto("materialized", "idle")
    /\ Decide(Core(IF run.evidence \subseteq Convincing THEN "ADMITTED_BOUNDED" ELSE "REJECTED_VERIFICATION", run))

(* The verifier takes too long or the run is killed: no decision is written. *)
Fail == pc # "idle" /\ Goto(pc, "idle") /\ run' = Nothing /\ UNCHANGED <<decision, processed>>

-----------------------------------------------------------------------------
(* sign_decision.py: whatever lies in the file is signed. *)
PlatformSign(k, secret) ==
    /\ decision # Absent
    /\ RequireKey(k, "admission_decision") /\ keys[k].public = secret
    /\ signed' = [core |-> decision.core, digest |-> decision.digest, key |-> k, secret |-> secret, over |-> decision]
    /\ UNCHANGED <<world, manifest, pc, run, decision, report, edits, processed>>

(* verify_signed_decision.py: the signature is over these bytes and the    *)
(* digest in them is that of the rest.                                     *)
Authentic(s) == RequireKey(s.key, "admission_decision") /\ s.secret = keys[s.key].public
                /\ s.over = [core |-> s.core, digest |-> s.digest]
SelfConsistent(s) == s.digest = s.core

VerifySigned ==
    /\ signed # Absent /\ Authentic(signed) /\ SelfConsistent(signed)
    /\ report' = signed
    /\ UNCHANGED <<world, manifest, pc, run, decision, signed, edits, processed>>

-----------------------------------------------------------------------------
(* What a hand could write into a decision: that it was admitted. *)
Next ==
    \/ \E k \in KeyIds, row \in KeyRows : EditKeys(k, row)
    \/ \E p \in Profiles, row \in Catalogs : EditCatalog(p, row)
    \/ \E b \in {{b} : b \in Bytes} \cup {Unavailable} : Host(b)
    \/ \E m \in Manifests : EditManifest(m)
    \/ decision # Absent /\ EditDecision([decision.core EXCEPT !.status = "ADMITTED_BOUNDED"])
    \/ signed # Absent /\ EditSigned([signed.core EXCEPT !.status = "ADMITTED_BOUNDED"])
    \/ VerifyIdentity \/ Consult \/ Materialize \/ RunVerifier \/ Fail
    \/ \E k \in KeyIds, s \in Secrets : PlatformSign(k, s)
    \/ VerifySigned

Spec == Init /\ [][Next]_vars

-----------------------------------------------------------------------------
(* The key that the decision names was in force, for that purpose and that *)
(* identity, and its holder signed this manifest.                          *)
SignedByRegistered(core) ==
    /\ [id |-> core.manifest.key, row |-> core.key] \in active
    /\ core.key.status = "active" /\ core.key.purpose = "external_submission"
    /\ core.key.identity = core.manifest.body.by
    /\ core.manifest.signed = [body |-> core.manifest.body, secret |-> core.key.public]

(* An admission is of a manifest signed by its submitter, whose claims an  *)
(* enabled profile offered, on evidence that is what both pinned and that  *)
(* the verifier accepted.                                                  *)
Grounded(core) ==
    /\ SignedByRegistered(core)
    /\ [id |-> core.manifest.body.profile, row |-> core.row] \in offered
    /\ core.row.enabled /\ core.row.pinned
    /\ core.manifest.body.claims # {} /\ core.manifest.body.claims \subseteq core.row.allowed
    /\ core.evidence = {core.row.source} /\ core.evidence = {core.manifest.body.source}
    /\ core.evidence \subseteq Convincing

(* What a reader verified is what a run decided, signed with a platform    *)
(* key, and an admission among it is grounded: whatever was revoked, bound *)
(* anew, served or edited between any two steps                            *)
(* (proof-identity/verify_signed_decision.py, README.md).                  *)
VerifiedIsGrounded ==
    report # Absent =>
        /\ report.core \in processed
        /\ \E k \in active : k.id = report.key /\ k.row.status = "active"
                                /\ k.row.purpose = "admission_decision" /\ k.row.public = report.secret
        /\ report.core.status = "ADMITTED_BOUNDED" => Grounded(report.core)
=============================================================================

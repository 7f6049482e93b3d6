---------------------------- MODULE ControlBundle ----------------------------
(***************************************************************************)
(* The single-finding pipeline and its evidence (product.py, finding.py,   *)
(* postimpact.py, control_bundle.py).  A run captures a result under a     *)
(* manifest, binds a reachable capability to it, writes the finding and    *)
(* packs bundle v2; an upgrade adds the reviewed containment, recovery and *)
(* verification of that capability and packs bundle v3; a client verifies  *)
(* it.  Each step reads its files again, and people change them between.   *)
(*                                                                         *)
(* A digest is what it is a digest of; a seal is the list of a bundle's    *)
(* parts; the Markdown report shows exactly what it renders.               *)
(***************************************************************************)
EXTENDS Naturals, FiniteSets

CONSTANTS
    Manifests,    \* [name, invariants]
    Reaches,      \* reachability models: [target, invariants, capabilities, forbidden], target "none" if unreachable
    Controls,     \* reviewed post-impact models: [containments, recoveries, verifications]
    Invariants,   \* invariants that a capture may report
    MaxEdits

(* The outcomes that the loader of post-impact models accepts. *)
Reviewable(c) ==
    /\ \A x \in c.containments : x.outcome \in {"contained", "escaped"}
    /\ \A x \in c.recoveries : x.outcome \in {"recovered", "failed", "not_attempted"}
    /\ \A x \in c.verifications : x.outcome \in {"verified", "failed", "inconclusive"}

ControlAssumption ==
    /\ MaxEdits \in Nat /\ \A g \in Reaches : g.forbidden \subseteq g.capabilities
    /\ \A c \in Controls : Reviewable(c)

None == [kind |-> "none"]

VARIABLES
    manifest, result, reach, finding, bundle, \* the files of the run; bundle is v2
    pc, held,      \* where the run is, and [manifest, reach, finding] in memory
    control,       \* the reviewed post-impact model
    step, base,    \* where the upgrade is, and [verified, parts] of the bundle it reads
    upgraded,      \* bundle v3 on disk
    delivered,     \* the bundle v3 that a client verified, or None
    edits

vars == <<manifest, result, reach, finding, bundle, pc, held, control, step, base, upgraded, delivered, edits>>
running == <<pc, held>>
upgrading == <<step, base>>
Nothing == [manifest |-> None, reach |-> None, finding |-> None]

Init ==
    /\ manifest \in Manifests /\ reach \in Reaches /\ control \in Controls
    /\ result = None /\ finding = None /\ bundle = None /\ upgraded = None /\ delivered = None
    /\ pc = "start" /\ held = Nothing
    /\ step = "idle" /\ base = [verified |-> None, parts |-> None] /\ edits = 0

-----------------------------------------------------------------------------
(* finding.py and product.py: what follows from what. *)

(* export_finding: the result is of this manifest, about one of its invariants. *)
Exports(m, r) == r # None /\ r.manifest = m /\ r.invariant \in m.invariants
Finding(m, r, g) == [manifest |-> m, invariant |-> r.invariant, reach |-> g]

(* A capability belongs to a finding when it is reached, forbidden, and its *)
(* path breaks that very invariant and none outside the manifest.          *)
Bound(g, m, r) ==
    /\ g.target # "none" /\ g.target \in g.forbidden
    /\ g.invariants \subseteq m.invariants
    /\ r.invariant \in g.invariants

Contents(m, r, g, f, report) == [manifest |-> m, result |-> r, reach |-> g, finding |-> f, report |-> report]
Sealed(parts) == [parts |-> parts, seal |-> parts]

(* verify_evidence_bundle: the seal, then the chain from its ends. *)
Verifies(z) ==
    /\ z # None /\ z.seal = z.parts
    /\ LET p == z.parts IN
       /\ Exports(p.manifest, p.result) /\ Bound(p.reach, p.manifest, p.result)
       /\ p.finding = Finding(p.manifest, p.result, p.reach) /\ p.report = p.finding

-----------------------------------------------------------------------------
(* postimpact.py *)
Containments(c, target) == {x \in c.containments : x.capability = target}
Recoveries(c, target) == {x \in c.recoveries : \E y \in Containments(c, target) : x.of = y.id}
Verifications_All(c, target) == c.verifications
Verifications(c, target) == {x \in c.verifications : \E y \in Containments(c, target) \cup Recoveries(c, target) : x.of = y.id}

Outcomes(s) == {x.outcome : x \in s}

PostStatus(c, target) ==
    IF "escaped" \in Outcomes(Containments(c, target)) THEN "escaped"
    ELSE IF "failed" \in Outcomes(Recoveries(c, target)) THEN "recovery_failed"
    ELSE IF Verifications(c, target) = {} THEN "unverified"
    ELSE IF "failed" \in Outcomes(Verifications(c, target)) THEN "verification_failed"
    ELSE IF "inconclusive" \in Outcomes(Verifications(c, target)) THEN "inconclusive"
    ELSE "contained_and_verified"

(* References resolve, and what is recovered to is known and not forbidden. *)
WellFormed(c) ==
    /\ c.containments # {}
    /\ \A x \in c.recoveries : (\E y \in c.containments : x.of = y.id) /\ (x.outcome = "recovered") = (x.restored # "none")
    /\ \A x \in c.verifications : \E y \in c.containments \cup c.recoveries : x.of = y.id

Analysable(c, g) ==
    /\ WellFormed(c) /\ g.target # "none" /\ g.target \in g.forbidden
    /\ \A x \in c.containments : x.capability \in g.capabilities
    /\ \A x \in c.recoveries : x.restored # "none" => x.restored \in g.capabilities \ g.forbidden
    /\ Containments(c, g.target) # {}

PostImpact(c, g) == [control |-> c, reach |-> g, status |-> PostStatus(c, g.target)]

(* verify_control_evidence_bundle: bundle v2 is rebuilt from its parts and *)
(* its own seal, verified, and the post-impact result recomputed.          *)
Rebuilt(z) == [parts |-> z.parts, seal |-> z.baseSeal]

ControlVerifies(z) ==
    /\ z # None /\ z.seal = <<z.parts, z.baseSeal, z.control, z.post, z.report>>
    /\ Rebuilt(z) = z.baseSum /\ Verifies(Rebuilt(z))
    /\ Analysable(z.control, z.parts.reach)
    /\ z.post = PostImpact(z.control, z.parts.reach) /\ z.report = z.post
    /\ z.claims = [manifest |-> z.parts.manifest, invariant |-> z.parts.finding.invariant]

-----------------------------------------------------------------------------
(* People, and other runs: any file may change. *)
Edit == edits < MaxEdits /\ edits' = edits + 1 /\ UNCHANGED <<running, upgrading, delivered>>
EditManifest(m) == Edit /\ manifest' = m /\ UNCHANGED <<result, reach, finding, bundle, control, upgraded>>
EditResult(i) == Edit /\ result' = [manifest |-> manifest, invariant |-> i] /\ UNCHANGED <<manifest, reach, finding, bundle, control, upgraded>>
EditReach(g) == Edit /\ reach' = g /\ UNCHANGED <<manifest, result, finding, bundle, control, upgraded>>
EditControl(c) == Edit /\ control' = c /\ UNCHANGED <<manifest, result, reach, finding, bundle, upgraded>>
(* One part of a bundle is replaced, and its seal redone or not. *)
EditBundle(z) == bundle # None /\ Edit /\ bundle' = z /\ UNCHANGED <<manifest, result, reach, finding, control, upgraded>>
EditUpgraded(z) == upgraded # None /\ Edit /\ upgraded' = z /\ UNCHANGED <<manifest, result, reach, finding, bundle, control>>

OtherBundles(z) == LET p == [z.parts EXCEPT !.reach = reach] IN {Sealed(p), [z EXCEPT !.parts = p], Sealed([p EXCEPT !.finding.reach = reach, !.report.reach = reach])}
OtherUpgrades(z) ==
    LET clean == [z.post EXCEPT !.status = "contained_and_verified"]
        softer == [z EXCEPT !.post = clean, !.report = clean]
    IN  {softer, [softer EXCEPT !.seal = <<z.parts, z.baseSeal, z.control, clean, clean>>]}

-----------------------------------------------------------------------------
(* The run. *)
Goto(from, to) == pc = from /\ pc' = to /\ UNCHANGED <<upgrading, control, upgraded, delivered, edits, manifest, reach>>

(* The manifest is read; with --clean the outputs of earlier runs go. *)
Start(clean) ==
    /\ Goto("start", "capture") /\ held' = [held EXCEPT !.manifest = manifest]
    /\ IF clean THEN result' = None /\ finding' = None /\ bundle' = None ELSE UNCHANGED <<result, finding, bundle>>

(* The capture writes a result under the fingerprint it was given, or, if  *)
(* capture is disabled, there must be one.                                 *)
Capture(i) ==
    /\ Goto("capture", "bind") /\ result' = [manifest |-> held.manifest, invariant |-> i]
    /\ UNCHANGED <<held, finding, bundle>>
Reuse == result # None /\ Goto("capture", "bind") /\ UNCHANGED <<held, result, finding, bundle>>

Bind ==
    /\ pc = "bind" /\ result # None /\ Bound(reach, held.manifest, result)
    /\ Goto("bind", "export") /\ held' = [held EXCEPT !.reach = reach]
    /\ UNCHANGED <<result, finding, bundle>>

(* Manifest and result are read again and the finding written. *)
Export ==
    /\ pc = "export" /\ Exports(manifest, result)
    /\ Goto("export", "pack") /\ finding' = Finding(manifest, result, held.reach)
    /\ held' = [held EXCEPT !.finding = Finding(manifest, result, held.reach)]
    /\ UNCHANGED <<result, bundle>>

(* All files are read once more for the bundle. *)
Pack ==
    /\ pc = "pack" /\ result # None
    /\ Goto("pack", "verify") /\ bundle' = Sealed(Contents(manifest, result, held.reach, finding, finding))
    /\ UNCHANGED <<held, result, finding>>

Report == pc = "verify" /\ Verifies(bundle) /\ Goto("verify", "done") /\ UNCHANGED <<held, result, finding, bundle>>

(* Any check that does not hold, or a kill. *)
Stop == pc \notin {"start", "done", "failed"} /\ Goto(pc, "failed") /\ UNCHANGED <<held, result, finding, bundle>>

-----------------------------------------------------------------------------
(* create_control_evidence_bundle reads the base bundle three times. *)
Advance(from, to) ==
    /\ step = from /\ step' = to
    /\ UNCHANGED <<manifest, result, reach, finding, bundle, running, control, delivered, edits>>

VerifyBase == Verifies(bundle) /\ Advance("idle", "read") /\ base' = [base EXCEPT !.verified = bundle] /\ UNCHANGED upgraded

ReadBase ==
    /\ step = "read" /\ bundle # None /\ Analysable(control, bundle.parts.reach)
    /\ Advance("read", "write") /\ base' = [base EXCEPT !.parts = bundle] /\ UNCHANGED upgraded

WriteControl ==
    /\ bundle # None /\ Advance("write", "idle") /\ UNCHANGED base
    /\ LET p == base.parts.parts
           post == PostImpact(control, p.reach)
       IN upgraded' = [parts |-> p, baseSeal |-> base.parts.seal, control |-> control, post |-> post, report |-> post,
                       baseSum |-> bundle,
                       claims |-> [manifest |-> base.verified.parts.manifest, invariant |-> base.verified.parts.finding.invariant],
                       seal |-> <<p, base.parts.seal, control, post, post>>]

GiveUp == step # "idle" /\ Advance(step, "idle") /\ UNCHANGED <<base, upgraded>>

Deliver ==
    /\ ControlVerifies(upgraded) /\ delivered' = upgraded
    /\ UNCHANGED <<manifest, result, reach, finding, bundle, running, control, upgrading, upgraded, edits>>

Next ==
    \/ (\E m \in Manifests : EditManifest(m)) \/ (\E i \in Invariants : EditResult(i))
    \/ (\E g \in Reaches : EditReach(g)) \/ (\E c \in Controls : EditControl(c))
    \/ (bundle # None /\ \E z \in OtherBundles(bundle) : EditBundle(z))
    \/ (upgraded # None /\ \E z \in OtherUpgrades(upgraded) : EditUpgraded(z))
    \/ (\E clean \in BOOLEAN : Start(clean)) \/ (\E i \in Invariants : Capture(i)) \/ Reuse \/ Bind \/ Export \/ Pack \/ Report \/ Stop
    \/ VerifyBase \/ ReadBase \/ WriteControl \/ GiveUp \/ Deliver

Spec == Init /\ [][Next]_vars

-----------------------------------------------------------------------------
(* The finding is of the manifest and the result beside it, and the        *)
(* capability attached to it is forbidden and breaks that invariant.       *)
FindingStands(p) ==
    /\ p.result.manifest = p.manifest /\ p.finding.manifest = p.manifest
    /\ p.finding.invariant = p.result.invariant /\ p.result.invariant \in p.manifest.invariants
    /\ p.finding.reach = p.reach /\ p.reach.target \in p.reach.forbidden
    /\ p.result.invariant \in p.reach.invariants

(* A statement that the damage was contained and verified is about this    *)
(* capability: every containment of it held, nothing failed to recover,    *)
(* and something that was verified is about one of them.                   *)
ContainmentStands(c, target) ==
    LET ours == {x.id : x \in {y \in c.containments : y.capability = target}}
        recovered == {x \in c.recoveries : x.of \in ours}
        about == {x \in c.verifications : x.of \in ours \cup {y.id : y \in recovered}}
    IN  /\ ours # {} /\ \A x \in c.containments : x.capability = target => x.outcome = "contained"
        /\ \A x \in recovered : x.outcome # "failed"
        /\ about # {} /\ \A x \in about : x.outcome = "verified"

(* Whatever was edited or replaced between any two reads, a bundle v3 that *)
(* a client verifies holds a finding that stands, and if it says contained *)
(* and verified, that stands as well (docs/POST_IMPACT.md, docs/PRODUCT.md).*)
DeliveredStands ==
    delivered # None =>
        /\ FindingStands(delivered.parts)
        /\ \A x \in delivered.control.recoveries : x.restored # "none" => x.restored \notin delivered.parts.reach.forbidden
        /\ delivered.post.status = "contained_and_verified" => ContainmentStands(delivered.control, delivered.parts.reach.target)
=============================================================================

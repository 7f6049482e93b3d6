--------------------------- MODULE AssuranceProofs ---------------------------
(***************************************************************************)
(* What an assurance rests on, for every value of the constants: each      *)
(* component is proved by itself, and then of the specification that       *)
(* MCAssurance makes of all of them.                                       *)
(***************************************************************************)
EXTENDS MCAssurance, Integers, FiniteSetTheorems, SequenceTheorems, WellFoundedInduction, TLAPS

-----------------------------------------------------------------------------
(* A set of numbers has a least one, which is induction without an         *)
(* operator, and a bounded set has a greatest.                             *)
LEMMA Least ==
  ASSUME NEW T, T \subseteq Nat, T # {} PROVE \E n \in T : \A m \in T : n <= m
<1>1. IsWellFoundedOn(OpToRel(<, Nat), Nat)
  BY NatLessThanWellFounded
<1>2. PICK n \in T : \A m \in T : ~ (<<m, n>> \in OpToRel(<, Nat))
  BY <1>1, WFMin
<1>3. \A m \in T : ~ (m < n)
  BY <1>2 DEF OpToRel
<1> QED
  BY <1>3

(* A nonempty set of numbers up to n has a greatest one.                   *)
LEMMA Greatest ==
  ASSUME NEW n \in Nat, NEW T, T \subseteq 0..n, T # {} PROVE \E k \in T : \A m \in T : k >= m
<1>1. PICK d \in {n - m : m \in T} : \A e \in {n - m : m \in T} : d <= e
  <2>1. {n - m : m \in T} \subseteq Nat
    OBVIOUS
  <2>2. {n - m : m \in T} # {}
    <3>1. PICK m \in T : TRUE
      OBVIOUS
    <3>2. n - m \in {n - j : j \in T}
      OBVIOUS
    <3> QED BY <3>2
  <2> QED BY <2>1, <2>2, Least
<1>2. PICK k \in T : d = n - k
  BY <1>1
<1>3. \A m \in T : n - k <= n - m
  BY <1>1, <1>2
<1> QED
  BY <1>3

-----------------------------------------------------------------------------
(* Control bundles.                                                        *)

(* A bundle v3 carries a model that was reviewed, and one that was         *)
(* delivered was verified.                                                 *)
ControlInv ==
    /\ control \in Controls
    /\ upgraded # Control!None => "control" \in DOMAIN upgraded /\ upgraded.control \in Controls
    /\ delivered # Control!None => Control!ControlVerifies(delivered) /\ delivered.control \in Controls

(***************************************************************************)
(* What verifies holds a finding that stands (verify_evidence_bundle).     *)
(***************************************************************************)
LEMMA VerifiedFinding ==
  ASSUME NEW z, Control!Verifies(z)
  PROVE  Control!FindingStands(z.parts)
BY DEF Control!Verifies, Control!Exports, Control!Bound, Control!Finding, Control!FindingStands

(***************************************************************************)
(* A status of contained and verified is only given to what is             *)
(* (summarize_post_impact).                                                *)
(***************************************************************************)
LEMMA StatusIsEarned ==
  ASSUME NEW c, NEW target, Control!Reviewable(c), Control!Containments(c, target) # {},
         Control!PostStatus(c, target) = "contained_and_verified"
  PROVE  Control!ContainmentStands(c, target)
<1> DEFINE ours == {x.id : x \in {y \in c.containments : y.capability = target}}
           recovered == {x \in c.recoveries : x.of \in ours}
           about == {x \in c.verifications : x.of \in ours \cup {y.id : y \in recovered}}
<1>1. /\ "escaped" \notin Control!Outcomes(Control!Containments(c, target))
      /\ "failed" \notin Control!Outcomes(Control!Recoveries(c, target))
      /\ Control!Verifications(c, target) # {}
      /\ Control!Outcomes(Control!Verifications(c, target)) \cap {"failed", "inconclusive"} = {}
  BY DEF Control!PostStatus
<1>2. ours # {} /\ \A x \in c.containments : x.capability = target => x.outcome = "contained"
  BY <1>1 DEF Control!Outcomes, Control!Containments, Control!Reviewable
<1>3. recovered = Control!Recoveries(c, target)
  BY DEF Control!Recoveries, Control!Containments
<1>4. \A x \in recovered : x.outcome # "failed"
  BY <1>1, <1>3 DEF Control!Outcomes
<1>5. about = Control!Verifications(c, target)
  BY <1>3 DEF Control!Verifications, Control!Containments
<1>6. \A x \in about : x.outcome = "verified"
  BY <1>1, <1>5 DEF Control!Outcomes, Control!Reviewable
<1> QED
  BY <1>1, <1>2, <1>4, <1>5, <1>6 DEF Control!ContainmentStands

(* An initial state of the control satisfies the inductive invariant.      *)
LEMMA ControlInit == Control!Init => ControlInv
BY DEF Control!Init, ControlInv

(***************************************************************************)
(* Each step keeps the invariant: an edit of bundle v3 leaves the reviewed *)
(* model in it as it is, and only verification delivers.                   *)
(***************************************************************************)
LEMMA ControlStep == ControlInv /\ [Control!Next]_Control!vars => ControlInv'
<1> SUFFICES ASSUME ControlInv, [Control!Next]_Control!vars PROVE ControlInv'
  OBVIOUS
<1> USE DEF ControlInv
<1>1. CASE UNCHANGED <<upgraded, delivered>> /\ control' \in Controls
  BY <1>1
<1>2. ASSUME NEW z \in Control!OtherUpgrades(upgraded), upgraded # Control!None, Control!EditUpgraded(z) PROVE ControlInv'
  <2>1. upgraded' = z /\ UNCHANGED <<delivered, control>>
    BY <1>2 DEF Control!EditUpgraded, Control!Edit
  <2>2. "control" \in DOMAIN z /\ z.control = upgraded.control
    BY <1>2 DEF Control!OtherUpgrades
  <2> QED BY <1>2, <2>1, <2>2
<1>3. CASE Control!WriteControl
  <2>1. /\ UNCHANGED <<delivered, control>>
        /\ upgraded'.control = control /\ "control" \in DOMAIN upgraded'
    BY <1>3 DEF Control!WriteControl, Control!Advance
  <2> QED BY <2>1
<1>4. CASE Control!Deliver
  <2>1. Control!ControlVerifies(upgraded) /\ delivered' = upgraded /\ UNCHANGED <<upgraded, control>>
    BY <1>4 DEF Control!Deliver
  <2>2. upgraded # Control!None
    BY <2>1 DEF Control!ControlVerifies
  <2> QED BY <2>1, <2>2
<1>5. ASSUME NEW m \in Manifests, Control!EditManifest(m) PROVE ControlInv'
  BY <1>1, <1>5 DEF Control!EditManifest, Control!Edit
<1>6. ASSUME NEW i \in Invariants, Control!EditResult(i) PROVE ControlInv'
  BY <1>1, <1>6 DEF Control!EditResult, Control!Edit
<1>7. ASSUME NEW g \in Reaches, Control!EditReach(g) PROVE ControlInv'
  BY <1>1, <1>7 DEF Control!EditReach, Control!Edit
<1>8. ASSUME NEW c \in Controls, Control!EditControl(c) PROVE ControlInv'
  BY <1>1, <1>8 DEF Control!EditControl, Control!Edit
<1>9. ASSUME NEW z, Control!EditBundle(z) PROVE ControlInv'
  BY <1>1, <1>9 DEF Control!EditBundle, Control!Edit
<1>10. ASSUME NEW clean, Control!Start(clean) PROVE ControlInv'
  BY <1>1, <1>10 DEF Control!Start, Control!Goto
<1>11. ASSUME NEW i \in Invariants, Control!Capture(i) PROVE ControlInv'
  BY <1>1, <1>11 DEF Control!Capture, Control!Goto
<1>12. CASE Control!Reuse \/ Control!Bind \/ Control!Export \/ Control!Pack \/ Control!Report \/ Control!Stop
  BY <1>1, <1>12 DEF Control!Reuse, Control!Bind, Control!Export, Control!Pack, Control!Report, Control!Stop, Control!Goto
<1>13. CASE Control!VerifyBase \/ Control!ReadBase \/ Control!GiveUp
  BY <1>1, <1>13 DEF Control!VerifyBase, Control!ReadBase, Control!GiveUp, Control!Advance
<1>14. CASE UNCHANGED Control!vars
  BY <1>1, <1>14 DEF Control!vars
<1> QED
  BY <1>2, <1>3, <1>4, <1>5, <1>6, <1>7, <1>8, <1>9, <1>10, <1>11, <1>12, <1>13, <1>14 DEF Control!Next

(***************************************************************************)
(* A delivered bundle stands.                                              *)
(***************************************************************************)
LEMMA ControlImplies == Control!ControlAssumption /\ ControlInv => Control!DeliveredStands
<1> SUFFICES ASSUME Control!ControlAssumption, ControlInv, delivered # Control!None PROVE Control!DeliveredStands
  BY DEF Control!DeliveredStands
<1> DEFINE z == delivered
           g == delivered.parts.reach
<1>1. Control!ControlVerifies(z) /\ Control!Reviewable(z.control)
  BY DEF ControlInv, Control!ControlAssumption
<1>2. Control!FindingStands(z.parts)
  BY <1>1, VerifiedFinding DEF Control!ControlVerifies, Control!Rebuilt
<1>3. /\ Control!Analysable(z.control, g) /\ z.post.status = Control!PostStatus(z.control, g.target)
  BY <1>1 DEF Control!ControlVerifies, Control!PostImpact
<1>4. \A x \in z.control.recoveries : x.restored # "none" => x.restored \notin g.forbidden
  BY <1>3 DEF Control!Analysable
<1>5. z.post.status = "contained_and_verified" => Control!ContainmentStands(z.control, g.target)
  BY <1>1, <1>3, StatusIsEarned DEF Control!Analysable
<1> QED
  BY <1>2, <1>4, <1>5 DEF Control!DeliveredStands

(***************************************************************************)
(* Whatever people and other runs edit between the steps, a bundle v3 that *)
(* a client verifies stands (docs/POST_IMPACT.md, docs/PRODUCT.md), for    *)
(* any manifests, reachability models, reviewed models and edits.          *)
(***************************************************************************)
THEOREM ControlKept == ASSUME Control!ControlAssumption PROVE Control!Spec => []Control!DeliveredStands
<1> USE Control!ControlAssumption
<1> QED BY ControlInit, ControlStep, ControlImplies, PTL DEF Control!Spec

-----------------------------------------------------------------------------
(* Admissions of external proofs.                                          *)

(* What was in force stays among what ever was. *)
Remembered ==
    /\ keys \in [KeyIds -> KeyRows] /\ catalog \in [Profiles -> Catalogs]
    /\ Admission!RowsOf(keys) \subseteq active /\ Admission!RowsOf(catalog) \subseteq offered

(* A manifest has one key, and was signed once. *)
Shaped ==
    /\ submitted = [body |-> submitted.body, key |-> submitted.key, signed |-> submitted.signed]
    /\ submitted.signed = [body |-> submitted.signed.body, secret |-> submitted.signed.secret]
    /\ submitted.key \in KeyIds

(* An enabled profile offered what the manifest claims, on that source. *)
Consulted(had) ==
    /\ [id |-> had.manifest.body.profile, row |-> had.row] \in offered
    /\ had.row.enabled /\ had.row.pinned
    /\ had.manifest.body.claims # {} /\ had.manifest.body.claims \subseteq had.row.allowed
    /\ had.manifest.body.source = had.row.source

(* What a run has behind it, by the step that it has reached. *)
RunStands ==
    /\ run = [manifest |-> run.manifest, key |-> run.key, row |-> run.row, evidence |-> run.evidence]
    /\ pc \in {"idle", "identified", "consulted", "materialized"}
    /\ pc # "idle" => Admission!SignedByRegistered(run)
    /\ pc \in {"consulted", "materialized"} => Consulted(run)
    /\ pc = "materialized" => run.evidence = {run.manifest.body.source}

AdmissionsStand == \A core \in processed : core.status = "ADMITTED_BOUNDED" => Admission!Grounded(core)

(* The digest in a file is that of a decision that was made, whatever the  *)
(* rest of the file says by now.                                           *)
DigestsAreOfDecisions ==
    /\ decision # Admission!Absent =>
          decision = [core |-> decision.core, digest |-> decision.digest] /\ decision.digest \in processed
    /\ signed # Admission!Absent =>
          /\ signed = [core |-> signed.core, digest |-> signed.digest, key |-> signed.key, secret |-> signed.secret, over |-> signed.over]
          /\ signed.digest \in processed /\ signed.key \in KeyIds

AdmissionInv == Remembered /\ Shaped /\ RunStands /\ AdmissionsStand /\ DigestsAreOfDecisions /\ Admission!VerifiedIsGrounded

(***************************************************************************)
(* What was signed, offered and grounded stays so when keys are revoked or *)
(* catalogs changed, since it speaks of what was in force then.            *)
(***************************************************************************)
LEMMA GroundedStays ==
  ASSUME active \subseteq active', offered \subseteq offered'
  PROVE  \A core : /\ Admission!SignedByRegistered(core) => Admission!SignedByRegistered(core)'
                   /\ Consulted(core) => Consulted(core)'
                   /\ Admission!Grounded(core) => Admission!Grounded(core)'
BY DEF Admission!SignedByRegistered, Consulted, Admission!Grounded

(***************************************************************************)
(* The fields of a decision are those of what was read.                    *)
(***************************************************************************)
LEMMA CoreFields ==
  ASSUME NEW status, NEW had
  PROVE  /\ Admission!Core(status, had).status = status
         /\ Admission!SignedByRegistered(Admission!Core(status, had)) <=> Admission!SignedByRegistered(had)
         /\ Admission!Grounded(Admission!Core(status, had)) <=> Admission!Grounded(had)
BY DEF Admission!Core, Admission!SignedByRegistered, Admission!Grounded

(* An initial state of the admission satisfies the inductive invariant.    *)
LEMMA AdmissionInit == Admission!Init => AdmissionInv
BY DEF Admission!Init, AdmissionInv, Remembered, Shaped, RunStands, AdmissionsStand, DigestsAreOfDecisions,
       Admission!VerifiedIsGrounded, Admission!Nothing

(* A step of the run leaves the world, the manifest and what was signed.   *)
AtRest == UNCHANGED <<keys, catalog, hosted, active, offered, submitted, signed, report>>

(* A run that goes on, or that ends with a decision that stands or none. *)
LEMMA RunGoesOn ==
  ASSUME AdmissionInv, AtRest, UNCHANGED <<decision, processed>>, RunStands'
  PROVE  AdmissionInv'
<1>1. \A core : Admission!Grounded(core) => Admission!Grounded(core)'
  BY GroundedStays DEF AtRest
<1> QED
  BY <1>1 DEF AtRest, AdmissionInv, Remembered, Shaped, AdmissionsStand, DigestsAreOfDecisions, Admission!VerifiedIsGrounded

(* A run that admits only grounded claims, and changes nothing else, keeps *)
(* the invariant of the admission.                                         *)
LEMMA RunDecides ==
  ASSUME AdmissionInv, AtRest, NEW core, Admission!Decide(core), pc' = "idle",
         core.status = "ADMITTED_BOUNDED" => Admission!Grounded(core)
  PROVE  AdmissionInv'
<1> USE DEF AdmissionInv
<1>1. \A c : Admission!Grounded(c) => Admission!Grounded(c)'
  BY GroundedStays DEF AtRest
<1>2. decision' = [core |-> core, digest |-> core] /\ processed' = processed \cup {core} /\ run' = Admission!Nothing
  BY DEF Admission!Decide
<1>3. Remembered' /\ Shaped' /\ Admission!VerifiedIsGrounded'
  BY <1>1, <1>2 DEF AtRest, Remembered, Shaped, Admission!VerifiedIsGrounded
<1>4. RunStands'
  BY <1>2 DEF RunStands, Admission!Nothing
<1>5. AdmissionsStand'
  BY <1>1, <1>2 DEF AdmissionsStand
<1>6. DigestsAreOfDecisions'
  BY <1>2 DEF AtRest, DigestsAreOfDecisions
<1> QED
  BY <1>3, <1>4, <1>5, <1>6

(* When people edit something, the run and what was decided stay. *)
LEMMA PeopleEdit ==
  ASSUME AdmissionInv, active \subseteq active', offered \subseteq offered', UNCHANGED <<pc, run, report, processed>>,
         Remembered', Shaped', DigestsAreOfDecisions'
  PROVE  AdmissionInv'
<1>1. \A c : /\ Admission!SignedByRegistered(c) => Admission!SignedByRegistered(c)'
             /\ Consulted(c) => Consulted(c)'
             /\ Admission!Grounded(c) => Admission!Grounded(c)'
  BY GroundedStays
<1> DEFINE old == run
<1>2. RunStands'
  <2>1. run' = run /\ pc' = pc
    OBVIOUS
  <2>2. RunStands
    BY DEF AdmissionInv
  <2>3. pc # "idle" => Admission!SignedByRegistered(run)'
    BY <1>1, <2>1, <2>2 DEF RunStands, Admission!SignedByRegistered
  <2>4. pc \in {"consulted", "materialized"} => Consulted(run)'
    BY <1>1, <2>1, <2>2 DEF RunStands, Consulted
  <2> QED BY <2>1, <2>2, <2>3, <2>4 DEF RunStands
<1>3. AdmissionsStand' /\ Admission!VerifiedIsGrounded'
  BY <1>1 DEF AdmissionInv, AdmissionsStand, Admission!VerifiedIsGrounded
<1> QED
  BY <1>2, <1>3 DEF AdmissionInv

(***************************************************************************)
(* Each step keeps the invariant: what a check found in the registry, the  *)
(* catalog or the source goes into what the run has read, and the decision *)
(* repeats it.                                                             *)
(***************************************************************************)
LEMMA AdmissionStep == AdmissionInv /\ [Admission!Next]_Admission!vars => AdmissionInv'
<1> SUFFICES ASSUME AdmissionInv, [Admission!Next]_Admission!vars PROVE AdmissionInv'
  OBVIOUS
<1>1. ASSUME NEW k \in KeyIds, NEW row \in KeyRows, Admission!EditKeys(k, row) PROVE AdmissionInv'
  BY <1>1, PeopleEdit
     DEF Admission!EditKeys, Admission!Edit, Admission!outputs, AdmissionInv, Remembered, Shaped, DigestsAreOfDecisions
<1>2. ASSUME NEW p \in Profiles, NEW row \in Catalogs, Admission!EditCatalog(p, row) PROVE AdmissionInv'
  BY <1>2, PeopleEdit
     DEF Admission!EditCatalog, Admission!Edit, Admission!outputs, AdmissionInv, Remembered, Shaped, DigestsAreOfDecisions
<1>3. ASSUME NEW content, Admission!Host(content) PROVE AdmissionInv'
  BY <1>3, PeopleEdit
     DEF Admission!Host, Admission!Edit, Admission!outputs, AdmissionInv, Remembered, Shaped, DigestsAreOfDecisions
<1>4. ASSUME NEW m \in Submissions, Admission!EditManifest(m) PROVE AdmissionInv'
  <2>1. submitted' = [submitted EXCEPT !.body = m] /\ UNCHANGED <<keys, catalog, hosted, active, offered, decision, signed, report, processed, pc, run>>
    BY <1>4 DEF Admission!EditManifest, Admission!Edit, Admission!outputs, Admission!world
  <2>2. submitted' = [body |-> m, key |-> submitted.key, signed |-> submitted.signed]
    BY <2>1 DEF AdmissionInv, Shaped
  <2> QED BY <2>1, <2>2, PeopleEdit DEF AdmissionInv, Remembered, Shaped, DigestsAreOfDecisions
<1>5. ASSUME NEW core, Admission!EditDecision(core) PROVE AdmissionInv'
  <2>1. decision # Admission!Absent /\ decision' = [decision EXCEPT !.core = core]
        /\ UNCHANGED <<keys, catalog, hosted, active, offered, submitted, signed, report, processed, pc, run>>
    BY <1>5 DEF Admission!EditDecision, Admission!Edit, Admission!world
  <2>2. decision' = [core |-> core, digest |-> decision.digest]
    BY <2>1 DEF AdmissionInv, DigestsAreOfDecisions
  <2> QED BY <2>1, <2>2, PeopleEdit DEF AdmissionInv, Remembered, Shaped, DigestsAreOfDecisions
<1>6. ASSUME NEW core, Admission!EditSigned(core) PROVE AdmissionInv'
  <2>1. signed # Admission!Absent /\ signed' = [signed EXCEPT !.core = core]
        /\ UNCHANGED <<keys, catalog, hosted, active, offered, submitted, decision, report, processed, pc, run>>
    BY <1>6 DEF Admission!EditSigned, Admission!Edit, Admission!world
  <2>2. signed' = [core |-> core, digest |-> signed.digest, key |-> signed.key, secret |-> signed.secret, over |-> signed.over]
    BY <2>1 DEF AdmissionInv, DigestsAreOfDecisions
  <2> QED BY <2>1, <2>2, PeopleEdit DEF AdmissionInv, Remembered, Shaped, DigestsAreOfDecisions
<1>7. ASSUME NEW from, NEW to, Admission!Goto(from, to) PROVE AtRest /\ pc = from /\ pc' = to
  BY <1>7 DEF Admission!Goto, Admission!world, AtRest
<1>8. CASE Admission!VerifyIdentity
  <2>1. CASE Admission!SubmitterKey(submitted) /\ Admission!SignatureHolds(submitted)
    <3> DEFINE now == [manifest |-> submitted, key |-> keys[submitted.key], row |-> Admission!Absent, evidence |-> Admission!Unavailable]
    <3>1. /\ Admission!Goto("idle", "identified") /\ UNCHANGED <<decision, processed>>
          /\ run' = now
      BY <1>8, <2>1 DEF Admission!VerifyIdentity, Admission!Identified
    <3>2. Admission!SignedByRegistered(now)
      BY <2>1 DEF Admission!SubmitterKey, Admission!RequireKey, Admission!SignatureHolds, Admission!SignedByRegistered,
                  AdmissionInv, Remembered, Shaped, Admission!RowsOf
    <3>3. Admission!SignedByRegistered(now)'
      BY <3>1, <3>2, <1>7 DEF AtRest, Admission!SignedByRegistered, Admission!Absent, Admission!Unavailable
    <3> HIDE DEF now
    <3>4. RunStands'
      BY <3>1, <3>2, <1>7 DEF RunStands, AtRest, Admission!SignedByRegistered, now
    <3> QED BY <3>1, <3>4, <1>7, RunGoesOn
  <2>2. CASE ~(Admission!SubmitterKey(submitted) /\ Admission!SignatureHolds(submitted))
    <3>1. PICK st \in {"REJECTED_SIGNATURE", "REJECTED_IDENTITY"} :
             Admission!Goto("idle", "idle") /\ Admission!Decide(Admission!Core(st, Admission!Identified(Admission!Absent)))
      BY <1>8, <2>2 DEF Admission!VerifyIdentity
    <3> QED BY <3>1, <1>7, CoreFields, RunDecides
  <2> QED BY <2>1, <2>2
<1>9. CASE Admission!Consult
  <2>1. ASSUME Admission!Goto("identified", "consulted"), Admission!Objection = "none", Admission!Row.pinned,
               run' = [run EXCEPT !.row = Admission!Row], UNCHANGED <<decision, processed>>
        PROVE  AdmissionInv'
    <3> DEFINE now == [manifest |-> run.manifest, key |-> run.key, row |-> Admission!Row, evidence |-> run.evidence]
    <3>1. run' = now /\ AtRest /\ pc = "identified" /\ pc' = "consulted"
      BY <2>1, <1>7 DEF AdmissionInv, RunStands
    <3>2. Admission!SignedByRegistered(now)
      BY <3>1 DEF AdmissionInv, RunStands, Admission!SignedByRegistered
    <3>3. Consulted(now)
      BY <2>1 DEF Admission!Objection, Admission!Row, Admission!Body, Consulted, AdmissionInv, Remembered, Admission!RowsOf
    <3> HIDE DEF now
    <3>4. RunStands'
      BY <3>1, <3>2, <3>3 DEF RunStands, AtRest, Admission!SignedByRegistered, Consulted, now
    <3> QED BY <2>1, <3>1, <3>4, RunGoesOn
  <2>2. ASSUME Admission!Goto("identified", "idle"), Admission!Objection # "none", Admission!Decide(Admission!Core(Admission!Objection, run))
        PROVE  AdmissionInv'
    <3>1. Admission!Objection # "ADMITTED_BOUNDED"
      BY DEF Admission!Objection
    <3> QED BY <2>2, <3>1, <1>7, CoreFields, RunDecides
  <2>3. ASSUME Admission!Goto("identified", "idle"), run' = Admission!Nothing, UNCHANGED <<decision, processed>>
        PROVE  AdmissionInv'
    BY <2>3, <1>7, RunGoesOn DEF RunStands, Admission!Nothing
  <2> QED BY <1>9, <2>1, <2>2, <2>3 DEF Admission!Consult
<1>10. CASE Admission!Materialize
  <2>1. CASE Admission!Intact(hosted)
    <3> DEFINE now == [manifest |-> run.manifest, key |-> run.key, row |-> run.row, evidence |-> hosted]
    <3>1. run' = now /\ AtRest /\ pc = "consulted" /\ pc' = "materialized" /\ UNCHANGED <<decision, processed>>
      BY <1>10, <2>1, <1>7 DEF Admission!Materialize, AdmissionInv, RunStands
    <3>2. Admission!SignedByRegistered(now) /\ Consulted(now) /\ now.evidence = {now.manifest.body.source}
      BY <2>1, <3>1 DEF AdmissionInv, RunStands, Admission!SignedByRegistered, Consulted, Admission!Intact, Admission!Body
    <3> HIDE DEF now
    <3>4. RunStands'
      BY <3>1, <3>2 DEF RunStands, AtRest, Admission!SignedByRegistered, Consulted, now
    <3> QED BY <3>1, <3>4, RunGoesOn
  <2>2. CASE ~ Admission!Intact(hosted)
    <3>1. PICK st \in {"REJECTED_SOURCE_UNAVAILABLE", "REJECTED_INTEGRITY"} :
             Admission!Goto("consulted", "idle") /\ Admission!Decide(Admission!Core(st, run))
      BY <1>10, <2>2 DEF Admission!Materialize
    <3> QED BY <3>1, <1>7, CoreFields, RunDecides
  <2> QED BY <2>1, <2>2
<1>11. CASE Admission!RunVerifier
  <2> DEFINE st == IF run.evidence \subseteq Convincing THEN "ADMITTED_BOUNDED" ELSE "REJECTED_VERIFICATION"
  <2>1. Admission!Goto("materialized", "idle") /\ Admission!Decide(Admission!Core(st, run))
    BY <1>11 DEF Admission!RunVerifier
  <2>2. st = "ADMITTED_BOUNDED" => Admission!Grounded(run)
    BY <2>1, <1>7 DEF AdmissionInv, RunStands, Consulted, Admission!Grounded
  <2> HIDE DEF st
  <2> QED BY <2>1, <2>2, <1>7, CoreFields, RunDecides
<1>12. CASE Admission!Fail
  BY <1>12, <1>7, RunGoesOn DEF Admission!Fail, RunStands, Admission!Nothing
<1>13. ASSUME NEW k \in KeyIds, NEW s \in Secrets, Admission!PlatformSign(k, s) PROVE AdmissionInv'
  <2>1. /\ decision # Admission!Absent /\ UNCHANGED <<keys, catalog, hosted, active, offered, submitted, decision, report, processed, pc, run>>
        /\ signed' = [core |-> decision.core, digest |-> decision.digest, key |-> k, secret |-> s, over |-> decision]
    BY <1>13 DEF Admission!PlatformSign, Admission!world
  <2> QED BY <2>1, PeopleEdit DEF AdmissionInv, Remembered, Shaped, DigestsAreOfDecisions
<1>14. CASE Admission!VerifySigned
  <2>1. /\ signed # Admission!Absent /\ Admission!Authentic(signed) /\ Admission!SelfConsistent(signed) /\ report' = signed
        /\ UNCHANGED <<keys, catalog, hosted, active, offered, submitted, signed, decision, processed, pc, run>>
    BY <1>14 DEF Admission!VerifySigned, Admission!world
  <2>2. signed.core \in processed /\ signed.key \in KeyIds
    BY <2>1 DEF AdmissionInv, DigestsAreOfDecisions, Admission!SelfConsistent
  <2>3. [id |-> signed.key, row |-> keys[signed.key]] \in active
    BY <2>2 DEF AdmissionInv, Remembered, Admission!RowsOf
  <2>4. \E k \in active : k.id = signed.key /\ k.row.status = "active" /\ k.row.purpose = "admission_decision" /\ k.row.public = signed.secret
    BY <2>1, <2>3 DEF Admission!Authentic, Admission!RequireKey
  <2>5. Admission!VerifiedIsGrounded'
    BY <2>1, <2>2, <2>4 DEF AdmissionInv, AdmissionsStand, Admission!VerifiedIsGrounded, Admission!Grounded, Admission!SignedByRegistered
  <2> QED
    BY <2>1, <2>5 DEF AdmissionInv, Remembered, Shaped, RunStands, AdmissionsStand, DigestsAreOfDecisions, Consulted,
                      Admission!Grounded, Admission!SignedByRegistered
<1>15. CASE UNCHANGED Admission!vars
  BY <1>15, PeopleEdit DEF Admission!vars, AdmissionInv, Remembered, Shaped, DigestsAreOfDecisions
<1> QED
  BY <1>1, <1>2, <1>3, <1>4, <1>5, <1>6, <1>8, <1>9, <1>10, <1>11, <1>12, <1>13, <1>14, <1>15 DEF Admission!Next

(***************************************************************************)
(* What a reader verified was decided by a run, on grounds that stood when *)
(* each was looked at (proof-identity/verify_signed_decision.py,           *)
(* README.md), for any keys, catalogs, manifests, contents and edits.      *)
(***************************************************************************)
THEOREM AdmissionKept == Admission!Spec => []Admission!VerifiedIsGrounded
<1>1. AdmissionInv => Admission!VerifiedIsGrounded
  BY DEF AdmissionInv
<1> QED BY AdmissionInit, AdmissionStep, <1>1, PTL DEF Admission!Spec

-----------------------------------------------------------------------------
(* Independent witnesses.                                                  *)

Extends(f, g) == DOMAIN f \subseteq DOMAIN g /\ \A i \in DOMAIN f : f[i] = g[i]

(* Who depends on neither the source nor the domain that is faulty records *)
(* what happens, and what was collected of it lies between what had        *)
(* happened at the first collection and what has happened by now.          *)
HonestIsWhole ==
    \A r \in Witness!Roles : ~ Witness!Faulty(r) =>
        /\ ledger[r] = happened
        /\ list[r] # {} => \E l : list[r] = {l} /\ Extends(since, l) /\ Extends(l, happened)

WitnessInv ==
    /\ declared \in [Witness!Roles -> [source : Sources, domain : Domains]]
    /\ fault \in Sources \cup Domains \cup {Witness!None}
    /\ IsFiniteSet(DOMAIN happened) /\ Extends(since, happened)
    /\ DOMAIN list = Witness!Roles
    /\ HonestIsWhole
    /\ passed # {} => \A r \in Witness!Roles : Witness!Collected(r)
    /\ \A level \in passed : Witness!Passes(level)

(* The module counts as FiniteSets does.                                   *)
LEMMA WitnessCardinality == \A S : Witness!Cardinality(S) = Cardinality(S)
BY DEF Witness!Cardinality, Cardinality, Witness!IsFiniteSet, IsFiniteSet

(* Recording witnesses keeps what the ledger held.                         *)
LEMMA WithExtends ==
  ASSUME NEW l, NEW records
  PROVE  Extends(l, Witness!With(l, records))
BY DEF Extends, Witness!With

(* What extends an extension extends the whole.                            *)
LEMMA ExtendsTransitive ==
  ASSUME NEW f, NEW g, NEW h, Extends(f, g), Extends(g, h)
  PROVE  Extends(f, h)
BY DEF Extends

(***************************************************************************)
(* One source or one domain is at fault, so that of two witnesses who      *)
(* share neither, one is honest.                                           *)
(***************************************************************************)
LEMMA OneIsHonest ==
  ASSUME Witness!WitnessAssumption, WitnessInv, Witness!Independent
  PROVE  \E r \in Witness!Roles : ~ Witness!Faulty(r)
BY DEF Witness!WitnessAssumption, WitnessInv, Witness!Independent, Witness!Roles, Witness!Faulty

(* An initial state of the witnesses satisfies the inductive invariant.    *)
LEMMA WitnessInit == Witness!Init => WitnessInv
<1> SUFFICES ASSUME Witness!Init PROVE WitnessInv
  OBVIOUS
<1>1. DOMAIN happened = {} /\ DOMAIN since = {}
  BY DEF Witness!Init
<1>2. IsFiniteSet(DOMAIN happened)
  BY <1>1, FS_EmptySet
<1> QED
  BY <1>1, <1>2 DEF Witness!Init, WitnessInv, HonestIsWhole, Extends

(* Every step of the witnesses keeps the inductive invariant.              *)
LEMMA WitnessStep == WitnessInv /\ [Witness!Next]_Witness!vars => WitnessInv'
<1> SUFFICES ASSUME WitnessInv, [Witness!Next]_Witness!vars PROVE WitnessInv'
  OBVIOUS
<1>1. ASSUME NEW i \in EventIds, NEW o \in Objects, NEW garbled, Witness!Happen(i, o, garbled) PROVE WitnessInv'
  <2>1. /\ UNCHANGED <<declared, fault, list, since, passed>>
        /\ happened' = Witness!With(happened, {<<i, o>>})
        /\ ledger' = [r \in Witness!Roles |-> Witness!With(ledger[r], IF Witness!Faulty(r) THEN garbled ELSE {<<i, o>>})]
    BY <1>1 DEF Witness!Happen
  <2>2. Extends(happened, happened')
    BY <2>1, WithExtends
  <2>3. DOMAIN happened' = DOMAIN happened \cup {i}
    <3> DEFINE new == {r \in {<<i, o>>} : r[1] \notin DOMAIN happened}
    <3>1. i \notin DOMAIN happened /\ <<i, o>>[1] = i
      BY <1>1 DEF Witness!Happen
    <3>2. new = {<<i, o>>}
      BY <3>1
    <3>3. {r[1] : r \in new} = {i}
      BY <3>1, <3>2
    <3>4. DOMAIN Witness!With(happened, {<<i, o>>}) = DOMAIN happened \cup {r[1] : r \in new}
      BY DEF Witness!With
    <3> QED BY <2>1, <3>3, <3>4
  <2>4. IsFiniteSet(DOMAIN happened')
    BY <2>3, FS_AddElement DEF WitnessInv
  <2>5. Extends(since, happened)'
    BY <2>1, <2>2, ExtendsTransitive DEF WitnessInv
  <2>6. HonestIsWhole'
    <3> SUFFICES ASSUME NEW r \in Witness!Roles, ~ Witness!Faulty(r)
                 PROVE  /\ ledger'[r] = happened'
                        /\ list[r] # {} => \E l : list[r] = {l} /\ Extends(since, l) /\ Extends(l, happened')
      BY <2>1 DEF HonestIsWhole, Witness!Faulty
    <3>1. ledger'[r] = happened'
      BY <2>1 DEF WitnessInv, HonestIsWhole
    <3>2. ASSUME list[r] # {} PROVE \E l : list[r] = {l} /\ Extends(since, l) /\ Extends(l, happened')
      BY <3>2, <2>2, ExtendsTransitive DEF WitnessInv, HonestIsWhole
    <3> QED BY <3>1, <3>2
  <2> QED
    BY <2>1, <2>4, <2>5, <2>6 DEF WitnessInv, Witness!Collected, Witness!Passes, Witness!Valid, Witness!Independent,
           Witness!CountsMatch, Witness!IdsMatch, Witness!ObjectsMatch, Witness!The
<1>2. ASSUME NEW role \in Witness!Roles, Witness!Collect(role) PROVE WitnessInv'
  <2>1. /\ list[role] = {} /\ list' = [list EXCEPT ![role] = {ledger[role]}]
        /\ since' = IF \A r \in Witness!Roles : ~ Witness!Collected(r) THEN happened ELSE since
        /\ UNCHANGED <<declared, fault, happened, ledger, passed>>
    BY <1>2 DEF Witness!Collect
  <2>2. /\ \A r \in Witness!Roles : list'[r] = IF r = role THEN {ledger[role]} ELSE list[r]
        /\ DOMAIN list' = Witness!Roles
    BY <2>1 DEF WitnessInv
  <2>3. Extends(happened, happened)
    BY DEF Extends
  <2>4. Extends(since, happened)'
    BY <2>1, <2>3 DEF WitnessInv
  <2>5. HonestIsWhole'
    <3> SUFFICES ASSUME NEW r \in Witness!Roles, ~ Witness!Faulty(r)
                 PROVE  /\ ledger[r] = happened
                        /\ list'[r] # {} => \E l : list'[r] = {l} /\ Extends(since', l) /\ Extends(l, happened)
      BY <2>1 DEF HonestIsWhole, Witness!Faulty
    <3>1. ledger[r] = happened
      BY DEF WitnessInv, HonestIsWhole
    <3>2. CASE r = role
      BY <3>1, <3>2, <2>1, <2>2, <2>3, <2>4
    <3>3. CASE r # role /\ list[r] # {}
      <4>1. PICK l : list[r] = {l} /\ Extends(since, l) /\ Extends(l, happened)
        BY <3>3 DEF WitnessInv, HonestIsWhole
      <4>2. Witness!Collected(r)
        BY <4>1, FS_Singleton, WitnessCardinality DEF Witness!Collected
      <4> QED BY <3>1, <3>3, <4>1, <4>2, <2>1, <2>2
    <3>4. CASE r # role /\ list[r] = {}
      BY <3>1, <3>4, <2>2
    <3> QED BY <3>2, <3>3, <3>4
  <2>6. ~ Witness!Collected(role)
    BY <2>1, FS_EmptySet, WitnessCardinality DEF Witness!Collected
  <2>7. passed = {}
    BY <2>6 DEF WitnessInv
  <2> QED
    BY <2>1, <2>2, <2>4, <2>5, <2>7 DEF WitnessInv
<1>3. CASE Witness!Evaluate
  BY <1>3 DEF Witness!Evaluate, WitnessInv, HonestIsWhole, Witness!Faulty, Witness!Collected, Witness!Passes, Witness!Valid,
              Witness!Independent, Witness!CountsMatch, Witness!IdsMatch, Witness!ObjectsMatch, Witness!The
<1>4. CASE UNCHANGED Witness!vars
  BY <1>4 DEF Witness!vars, WitnessInv, HonestIsWhole, Witness!Faulty, Witness!Collected, Witness!Passes, Witness!Valid,
              Witness!Independent, Witness!CountsMatch, Witness!IdsMatch, Witness!ObjectsMatch, Witness!The
<1> QED
  BY <1>1, <1>2, <1>3, <1>4 DEF Witness!Next

(***************************************************************************)
(* What passes against an independent witness equals, by the measure of    *)
(* the level, what an honest one collected.                                *)
(***************************************************************************)
LEMMA WitnessImplies == Witness!WitnessAssumption /\ WitnessInv => Witness!ConfirmedIsWhole
<1> SUFFICES ASSUME Witness!WitnessAssumption, WitnessInv PROVE Witness!ConfirmedIsWhole
  OBVIOUS
<1> DEFINE o == Witness!The("observed")
<1>1. ASSUME NEW level \in passed
      PROVE  \E l : /\ Extends(since, l) /\ Extends(l, happened) /\ Cardinality(DOMAIN o) = Cardinality(DOMAIN l)
                    /\ level # "COUNT_COVERAGE" => DOMAIN o = DOMAIN l
                    /\ level = "SUBJECT_OBJECT_COVERAGE" => \A i \in DOMAIN l : o[i] = l[i]
  <2>1. Witness!Passes(level) /\ \A r \in Witness!Roles : Witness!Collected(r)
    BY DEF WitnessInv
  <2>2. PICK r \in Witness!Roles : ~ Witness!Faulty(r)
    BY <2>1, OneIsHonest DEF Witness!Passes
  <2>3. list[r] # {}
    BY <2>1, FS_EmptySet, WitnessCardinality DEF Witness!Collected
  <2>4. PICK l : list[r] = {l} /\ Extends(since, l) /\ Extends(l, happened)
    BY <2>2, <2>3 DEF WitnessInv, HonestIsWhole
  <2>5. Witness!The(r) = l
    BY <2>4 DEF Witness!The
  <2>6. CASE r = "observed"
    BY <2>4, <2>5, <2>6
  <2>7. CASE r = "external"
    BY <2>1, <2>4, <2>5, <2>7, WitnessCardinality
       DEF Witness!Passes, Witness!CountsMatch, Witness!IdsMatch, Witness!ObjectsMatch
  <2> QED BY <2>6, <2>7 DEF Witness!Roles
<1>2. ASSUME "COUNT_COVERAGE" \in passed
      PROVE  Witness!Cardinality(DOMAIN o) \in Witness!Cardinality(DOMAIN since)..Witness!Cardinality(DOMAIN happened)
  <2>1. PICK l : Extends(since, l) /\ Extends(l, happened) /\ Cardinality(DOMAIN o) = Cardinality(DOMAIN l)
    BY <1>1, <1>2
  <2>2. DOMAIN since \subseteq DOMAIN l /\ DOMAIN l \subseteq DOMAIN happened /\ IsFiniteSet(DOMAIN happened)
    BY <2>1 DEF Extends, WitnessInv
  <2>3. IsFiniteSet(DOMAIN l) /\ Cardinality(DOMAIN l) <= Cardinality(DOMAIN happened)
    BY <2>2, FS_Subset
  <2>4. IsFiniteSet(DOMAIN since) /\ Cardinality(DOMAIN since) <= Cardinality(DOMAIN l)
    BY <2>2, <2>3, FS_Subset
  <2>5. Cardinality(DOMAIN since) \in Nat /\ Cardinality(DOMAIN l) \in Nat /\ Cardinality(DOMAIN happened) \in Nat
    BY <2>2, <2>3, <2>4, FS_CardinalityType
  <2> QED BY <2>1, <2>3, <2>4, <2>5, WitnessCardinality
<1>3. ASSUME "EVENT_ID_COVERAGE" \in passed
      PROVE  Witness!Between(DOMAIN since, DOMAIN o, DOMAIN happened)
  BY <1>1, <1>3 DEF Witness!Between, Extends
<1>4. ASSUME "SUBJECT_OBJECT_COVERAGE" \in passed
      PROVE  Witness!Between(Witness!Pairs(since), Witness!Pairs(o), Witness!Pairs(happened))
  <2>1. PICK l : Extends(since, l) /\ Extends(l, happened) /\ DOMAIN o = DOMAIN l /\ \A i \in DOMAIN l : o[i] = l[i]
    BY <1>1, <1>4
  <2> QED BY <2>1 DEF Witness!Between, Witness!Pairs, Extends
<1> QED
  BY <1>2, <1>3, <1>4 DEF Witness!ConfirmedIsWhole

(***************************************************************************)
(* A list that a witness confirms, with another source and another domain, *)
(* is whole (independent_witness.py), for any events, objects, sources and *)
(* domains.                                                                *)
(***************************************************************************)
THEOREM WitnessKept == ASSUME Witness!WitnessAssumption PROVE Witness!Spec => []Witness!ConfirmedIsWhole
<1> USE Witness!WitnessAssumption
<1> QED BY WitnessInit, WitnessStep, WitnessImplies, PTL DEF Witness!Spec

-----------------------------------------------------------------------------
(* Payments of an agent that asks the gate.                                *)

Latest == attempts[Len(attempts)]
Failed == {"canceled", "declined"}
SourcesOf(p) == p.reads \cup {"webhook"}
Observed(p) == [source : SourcesOf(p), state : Provider!ProviderStates]

(* An authoritative answer is late, or it is the state of the attempt.     *)
SeenIsTrue ==
    \A i \in 1..Len(seen) : seen[i].source # "webhook" => seen[i].state \in {"processing", Latest}

ProviderTyped ==
    /\ profile \in Adapters
    /\ attempts \in Seq(Provider!ProviderStates)
    /\ seen \in Seq(Observed(profile))
    /\ sent \in {"unknown", "delivered", "not_delivered"} /\ goods \in {"unknown", sent}
    /\ authority \in {"authorized", "revoked", "expired", "unknown"}

(* Every attempt but the last failed in a way that allows a retry, and what *)
(* the gate's last decision rests on has not changed since.                *)
DecisionStands ==
    /\ opened = "ALLOW" => /\ authority = "authorized"
                           /\ attempts # <<>> => /\ seen # <<>> /\ profile.retry = "documented"
                                                 /\ Latest \in profile.retryStates \cap Failed
    /\ opened = "COMPENSATE" => attempts # <<>> /\ Latest = "succeeded" /\ sent = "not_delivered"

ProviderInv ==
    /\ ProviderTyped
    /\ seen # <<>> => attempts # <<>>
    /\ SeenIsTrue
    /\ \A n \in 1..Len(attempts) - 1 : attempts[n] \in profile.retryStates \cap Failed
    /\ DecisionStands
    /\ checked = {}

(* The module counts as FiniteSets does.                                   *)
LEMMA ProviderCardinality == \A S : Provider!Cardinality(S) = Cardinality(S)
BY DEF Provider!Cardinality, Cardinality, Provider!IsFiniteSet, IsFiniteSet

(***************************************************************************)
(* The last observation from a source that was observed is one from it.    *)
(***************************************************************************)
LEMMA LatestIsFrom ==
  ASSUME ProviderTyped, NEW s
  PROVE  /\ (\E i \in 1..Len(seen) : seen[i].source = s) =>
              Provider!LatestOf(s) \in 1..Len(seen) /\ seen[Provider!LatestOf(s)].source = s
         /\ (\A i \in 1..Len(seen) : seen[i].source # s) => Provider!LatestOf(s) = 0
<1> DEFINE I == {i \in 1..Len(seen) : seen[i].source = s}
<1>1. Provider!LatestOf(s) = IF I # {} THEN Provider!Max(I) ELSE 0
  BY DEF Provider!LatestOf, Provider!SelectLastInSeq
<1>2. ASSUME I # {} PROVE Provider!Max(I) \in I
  <2>1. Len(seen) \in Nat /\ I \subseteq 0..Len(seen)
    BY DEF ProviderTyped
  <2>2. \E k \in I : \A m \in I : k >= m
    BY <1>2, <2>1, Greatest
  <2> QED BY <2>2 DEF Provider!Max
<1> QED
  BY <1>1, <1>2

(***************************************************************************)
(* The observation that the adapter selects is one of those it has, and if *)
(* it is safe to rely on, an authoritative one                             *)
(* (reconcile_provider_observations).                                      *)
(***************************************************************************)
LEMMA SelectedIsSeen ==
  ASSUME Provider!ProfilesAssumption, ProviderTyped, seen # <<>>, Provider!Select.safe
  PROVE  \E i \in 1..Len(seen) : Provider!Select.state = seen[i].state /\ seen[i].source # "webhook"
<1> DEFINE sources == {seen[i].source : i \in {j \in DOMAIN seen : Provider!Authoritative(seen[j].source)}}
           order == profile.precedence
           I == {i \in 1..Len(order) : Provider!LatestOf(order[i]) # 0}
           first == order[Provider!SelectInSeq(order, LAMBDA s : Provider!LatestOf(s) # 0)]
<1>1. Len(seen) \in Nat \ {0} /\ DOMAIN seen = 1..Len(seen) /\ seen[1].source \in SourcesOf(profile)
  <2>1. seen \in Seq(Observed(profile))
    BY DEF ProviderTyped
  <2>2. Len(seen) \in Nat \ {0} /\ DOMAIN seen = 1..Len(seen)
    BY <2>1, EmptySeq
  <2>3. seen[1] \in Observed(profile)
    BY <2>1, <2>2, ElementOfSeq
  <2> QED BY <2>2, <2>3 DEF Observed
<1>2. CASE order # <<>>
  <2>1. order \in Seq(SourcesOf(profile)) /\ \A s \in SourcesOf(profile) : \E i \in DOMAIN order : order[i] = s
    BY <1>2 DEF ProviderTyped, Provider!ProfilesAssumption, SourcesOf
  <2>2. PICK i \in 1..Len(order) : order[i] = seen[1].source
    BY <1>1, <2>1
  <2>3. Provider!LatestOf(order[i]) # 0
    BY <1>1, <2>2, LatestIsFrom
  <2>4. Provider!SelectInSeq(order, LAMBDA s : Provider!LatestOf(s) # 0) = IF I # {} THEN Provider!Min(I) ELSE 0
    BY DEF Provider!SelectInSeq
  <2>5. Provider!Min(I) \in I
    <3>1. I # {} /\ I \subseteq Nat
      BY <2>1, <2>2, <2>3
    <3>2. \E k \in I : \A m \in I : k <= m
      BY <3>1, Least
    <3> QED BY <3>2 DEF Provider!Min
  <2>6. Provider!LatestOf(first) # 0
    BY <2>2, <2>3, <2>4, <2>5
  <2>7. Provider!Select = [state |-> seen[Provider!LatestOf(first)].state, safe |-> Provider!Authoritative(first)]
    BY <1>2 DEF Provider!Select
  <2> HIDE DEF first
  <2>8. Provider!LatestOf(first) \in 1..Len(seen) /\ seen[Provider!LatestOf(first)].source = first
    BY <2>6, LatestIsFrom
  <2>9. first # "webhook"
    BY <2>7 DEF Provider!Authoritative
  <2> QED BY <2>7, <2>8, <2>9
<1>3. CASE order = <<>> /\ Provider!Cardinality(sources) = 1
  <2> DEFINE s == CHOOSE s \in sources : TRUE
  <2>1. sources # {}
    <3> HIDE DEF sources
    <3> QED BY <1>3, FS_EmptySet, ProviderCardinality
  <2>2. s \in sources
    BY <2>1
  <2>3. Provider!Select = [state |-> seen[Provider!LatestOf(s)].state, safe |-> TRUE]
    BY <1>3 DEF Provider!Select
  <2> HIDE DEF s
  <2>4. s # "webhook" /\ \E i \in 1..Len(seen) : seen[i].source = s
    BY <1>1, <2>2 DEF Provider!Authoritative
  <2> QED BY <2>3, <2>4, LatestIsFrom
<1>4. CASE order = <<>> /\ Provider!Cardinality(sources) # 1
  BY <1>4 DEF Provider!Select
<1> QED
  BY <1>2, <1>3, <1>4

(***************************************************************************)
(* What the adapter calls final is the state of the attempt.               *)
(***************************************************************************)
LEMMA FinalIsTrue ==
  ASSUME Provider!ProfilesAssumption, ProviderInv, seen # <<>>, Provider!Final
  PROVE  Provider!Select.state = Latest /\ Latest \in {"succeeded", "canceled", "declined"}
<1>1. PICK i \in 1..Len(seen) : Provider!Select.state = seen[i].state /\ seen[i].source # "webhook"
  BY SelectedIsSeen DEF ProviderInv, Provider!Final
<1>2. Provider!Select.state \in {"processing", Latest}
  BY <1>1 DEF ProviderInv, SeenIsTrue
<1>3. Provider!Select.state \in {"succeeded", "canceled", "declined"}
  BY DEF Provider!Final, Provider!StateMap, Provider!FinalOutcomes
<1> QED
  BY <1>2, <1>3

(* An initial state of the providers satisfies the inductive invariant.    *)
LEMMA ProviderInit == Provider!Init => ProviderInv
<1> SUFFICES ASSUME Provider!Init PROVE ProviderInv
  OBVIOUS
<1>1. attempts = <<>> /\ seen = <<>> /\ Len(<<>>) = 0
  BY EmptySeq DEF Provider!Init
<1>2. attempts \in Seq(Provider!ProviderStates) /\ seen \in Seq(Observed(profile))
  BY <1>1
<1>3. ProviderTyped
  BY <1>2 DEF Provider!Init, ProviderTyped
<1> QED
  BY <1>1, <1>3 DEF Provider!Init, ProviderInv, SeenIsTrue, DecisionStands, Provider!Undecided

(***************************************************************************)
(* Each step keeps the invariant: the gate decides on a final outcome      *)
(* only, and whatever changes that it looked at makes the agent ask again. *)
(***************************************************************************)
LEMMA ProviderStep == Provider!ProfilesAssumption /\ ProviderInv /\ [Provider!Next]_Provider!vars => ProviderInv'
<1> SUFFICES ASSUME Provider!ProfilesAssumption, ProviderInv, [Provider!Next]_Provider!vars PROVE ProviderInv'
  OBVIOUS
<1>0. /\ Len(attempts) \in Nat /\ Len(seen) \in Nat
      /\ attempts # <<>> => Len(attempts) > 0 /\ Latest \in Provider!ProviderStates
  <2>1. attempts \in Seq(Provider!ProviderStates) /\ seen \in Seq(Observed(profile))
    BY DEF ProviderInv, ProviderTyped
  <2>2. attempts # <<>> => Len(attempts) \in Nat \ {0}
    BY <2>1, EmptySeq
  <2> QED BY <2>1, <2>2, ElementOfSeq DEF Latest
<1>1. CASE Provider!Settle
  <2>1. PICK n \in DOMAIN attempts, state \in Provider!ProviderStates \ {"processing"} :
           attempts[n] = "processing" /\ attempts' = [attempts EXCEPT ![n] = state]
    BY <1>1 DEF Provider!Settle
  <2>2. UNCHANGED <<profile, sent, seen, goods, authority, opened, checked>>
    BY <1>1 DEF Provider!Settle
  <2>3. attempts \in Seq(Provider!ProviderStates) /\ DOMAIN attempts = 1..Len(attempts)
    BY DEF ProviderInv, ProviderTyped
  <2>4. /\ attempts' \in Seq(Provider!ProviderStates) /\ Len(attempts') = Len(attempts) /\ attempts' # <<>>
        /\ \A i \in 1..Len(attempts) : attempts'[i] = IF i = n THEN state ELSE attempts[i]
    <3>1. attempts' \in Seq(Provider!ProviderStates) /\ Len(attempts') = Len(attempts)
      BY <2>1, <2>3, ExceptSeq
    <3>2. Len(attempts') # 0
      BY <2>1, <2>3, <3>1
    <3> QED BY <2>1, <2>3, <3>1, <3>2, EmptySeq
  <2>5. n = Len(attempts)
    BY <2>1, <2>3, <1>0 DEF ProviderInv, Failed
  <2>6. Latest = "processing" /\ Latest' = state
    BY <2>1, <2>3, <2>4, <2>5 DEF Latest
  <2>7. ProviderTyped'
    BY <2>2, <2>4 DEF ProviderInv, ProviderTyped
  <2>8. SeenIsTrue'
    BY <2>2, <2>6 DEF ProviderInv, SeenIsTrue
  <2>9. DecisionStands'
    BY <2>1, <2>2, <2>3, <2>4, <2>6 DEF ProviderInv, DecisionStands, Failed
  <2>10. \A k \in 1..Len(attempts') - 1 : attempts'[k] \in profile.retryStates \cap Failed
    BY <2>4, <2>5, <1>0 DEF ProviderInv
  <2> QED BY <2>2, <2>4, <2>7, <2>8, <2>9, <2>10 DEF ProviderInv
<1>2. CASE Provider!Deliver
  <2>1. /\ sent = "unknown" /\ sent' \in {"delivered", "not_delivered"}
        /\ UNCHANGED <<profile, attempts, seen, goods, authority, opened, checked>>
    BY <1>2 DEF Provider!Deliver
  <2> QED BY <2>1 DEF ProviderInv, ProviderTyped, SeenIsTrue, DecisionStands, Latest
<1>3. CASE Provider!Observe
  <2>1. /\ attempts # <<>> /\ opened' = Provider!Undecided
        /\ UNCHANGED <<profile, attempts, sent, goods, authority, checked>>
    BY <1>3 DEF Provider!Observe
  <2>2. PICK source \in SourcesOf(profile), state \in Provider!ProviderStates :
           /\ seen' = Append(seen, [source |-> source, state |-> state])
           /\ source # "webhook" => state \in {"processing", Latest}
    BY <1>0, <1>3, <2>1 DEF Provider!Observe, SourcesOf, Provider!Last, Latest, Provider!ProfilesAssumption, ProviderInv,
         ProviderTyped, Provider!ProviderStates
  <2> DEFINE new == [source |-> source, state |-> state]
  <2>3. seen \in Seq(Observed(profile)) /\ new \in Observed(profile)
    BY DEF ProviderInv, ProviderTyped, Observed
  <2>4. /\ seen' \in Seq(Observed(profile)) /\ Len(seen') = Len(seen) + 1
        /\ \A i \in 1..Len(seen) : seen'[i] = seen[i]
        /\ seen'[Len(seen) + 1] = new
    BY <2>2, <2>3, AppendProperties
  <2>5. ProviderTyped'
    BY <2>1, <2>4 DEF ProviderInv, ProviderTyped
  <2>6. SeenIsTrue'
    <3> SUFFICES ASSUME NEW i \in 1..Len(seen) + 1, seen'[i].source # "webhook"
                 PROVE  seen'[i].state \in {"processing", Latest}
      BY <2>1, <2>4 DEF SeenIsTrue, Latest
    <3>1. CASE i \in 1..Len(seen)
      BY <2>4, <3>1 DEF ProviderInv, SeenIsTrue
    <3>2. CASE i = Len(seen) + 1
      BY <2>2, <2>4, <3>2
    <3> QED BY <1>0, <3>1, <3>2
  <2> QED BY <2>1, <2>5, <2>6 DEF ProviderInv, DecisionStands, Provider!Undecided
<1>4. CASE Provider!LearnDelivery
  BY <1>4 DEF Provider!LearnDelivery, ProviderInv, ProviderTyped, SeenIsTrue, DecisionStands, Latest, Provider!Undecided
<1>5. CASE Provider!ChangeAuthority
  BY <1>5 DEF Provider!ChangeAuthority, ProviderInv, ProviderTyped, SeenIsTrue, DecisionStands, Latest, Provider!Undecided
<1>6. CASE Provider!Decide
  <2>1. /\ attempts = <<>> \/ seen # <<>>
        /\ opened' = Provider!Decision
        /\ UNCHANGED <<profile, attempts, sent, seen, goods, authority, checked>>
    BY <1>6 DEF Provider!Decide
  <2>2. ASSUME Provider!Decision = "ALLOW"
        PROVE  /\ authority = "authorized"
               /\ attempts # <<>> => Provider!RetryAllowed
    BY <2>2 DEF Provider!Decision, ProviderInv, ProviderTyped
  <2>3. ASSUME Provider!RetryAllowed, attempts # <<>>
        PROVE  /\ seen # <<>> /\ profile.retry = "documented" /\ Latest \in profile.retryStates \cap Failed
    BY <2>1, <2>3, FinalIsTrue
       DEF Provider!RetryAllowed, Provider!Outcome, Provider!StateMap, Failed
  <2>4. ASSUME Provider!Decision = "COMPENSATE"
        PROVE  attempts # <<>> /\ Provider!Final /\ Provider!Outcome = "committed" /\ goods = "not_delivered"
    BY <2>4 DEF Provider!Decision
  <2>5. ASSUME Provider!Decision = "COMPENSATE"
        PROVE  attempts # <<>> /\ Latest = "succeeded" /\ sent = "not_delivered"
    BY <2>1, <2>4, <2>5, FinalIsTrue DEF Provider!Outcome, Provider!StateMap, ProviderInv, ProviderTyped
  <2>6. DecisionStands'
    BY <2>1, <2>2, <2>3, <2>5 DEF DecisionStands, Latest
  <2> QED BY <2>1, <2>6 DEF ProviderInv, ProviderTyped, SeenIsTrue, Latest
<1>7. CASE Provider!Pay
  <2>1. /\ opened = "ALLOW" /\ attempts' = Append(attempts, "processing") /\ seen' = <<>> /\ opened' = Provider!Undecided
        /\ checked' = checked \cup IF attempts = <<>> \/ ~ profile.required THEN {} ELSE Provider!Violations(Provider!Outcome, goods)
        /\ UNCHANGED <<profile, sent, goods, authority>>
    BY <1>7 DEF Provider!Pay
  <2>2. ASSUME attempts # <<>> PROVE Provider!Outcome # "committed"
    <3>1. seen # <<>> /\ Latest \in Failed
      BY <2>1, <2>2 DEF ProviderInv, DecisionStands
    <3> QED BY <3>1, FinalIsTrue DEF Provider!Outcome, Provider!StateMap, Failed
  <2>3. checked' = {}
    BY <2>1, <2>2 DEF ProviderInv, Provider!Violations
  <2>4. attempts \in Seq(Provider!ProviderStates) /\ "processing" \in Provider!ProviderStates
    BY DEF ProviderInv, ProviderTyped, Provider!ProviderStates
  <2>5. /\ attempts' \in Seq(Provider!ProviderStates) /\ Len(attempts') = Len(attempts) + 1
        /\ \A i \in 1..Len(attempts) : attempts'[i] = attempts[i]
    BY <2>1, <2>4, AppendProperties
  <2>6. ProviderTyped'
    BY <2>1, <2>5 DEF ProviderInv, ProviderTyped
  <2>7. \A k \in 1..Len(attempts') - 1 : attempts'[k] \in profile.retryStates \cap Failed
    <3> SUFFICES ASSUME NEW k \in 1..Len(attempts) PROVE attempts[k] \in profile.retryStates \cap Failed
      BY <1>0, <2>5
    <3>1. CASE k \in 1..Len(attempts) - 1
      BY <3>1 DEF ProviderInv
    <3>2. CASE k = Len(attempts)
      BY <1>0, <2>1, <3>2 DEF ProviderInv, DecisionStands, Latest
    <3> QED BY <1>0, <3>1, <3>2
  <2>8. SeenIsTrue' /\ DecisionStands'
    BY <2>1, EmptySeq DEF SeenIsTrue, DecisionStands, Provider!Undecided
  <2> QED BY <2>1, <2>3, <2>6, <2>7, <2>8 DEF ProviderInv
<1>8. CASE UNCHANGED Provider!vars
  BY <1>8 DEF Provider!vars, ProviderInv, ProviderTyped, SeenIsTrue, DecisionStands, Latest
<1> QED
  BY <1>1, <1>2, <1>3, <1>4, <1>5, <1>6, <1>7, <1>8 DEF Provider!Next

(* The inductive invariant of the providers implies the property its run   *)
(* checks.                                                                 *)
LEMMA ProviderImplies == ProviderInv => Provider!MoneyMovesOnce
<1> SUFFICES ASSUME ProviderInv PROVE Provider!MoneyMovesOnce
  OBVIOUS
<1>1. attempts \in Seq(Provider!ProviderStates) /\ DOMAIN attempts = 1..Len(attempts) /\ Len(attempts) \in Nat
  BY DEF ProviderInv, ProviderTyped
<1>2. attempts # <<>> => Len(attempts) > 0
  BY <1>1, EmptySeq
<1>3. Provider!Committed \cup Provider!Unsettled \subseteq {Len(attempts)}
  BY <1>1 DEF ProviderInv, Failed, Provider!Committed, Provider!Unsettled
<1>4. \A S : S \subseteq {Len(attempts)} => Provider!Cardinality(S) <= 1
  <2> SUFFICES ASSUME NEW S, S \subseteq {Len(attempts)} PROVE Cardinality(S) <= 1
    BY ProviderCardinality
  <2>1. CASE S = {}
    <3>1. Cardinality(S) = 0
      BY <2>1, FS_EmptySet
    <3> QED BY <3>1
  <2>2. CASE S = {Len(attempts)}
    <3>1. Cardinality(S) = 1
      BY <2>2, FS_Singleton
    <3> QED BY <3>1
  <2> QED BY <2>1, <2>2
<1>5. Provider!Cardinality(Provider!Committed) <= 1 /\ Provider!Cardinality(Provider!Committed \cup Provider!Unsettled) <= 1
  BY <1>3, <1>4
<1>6. ASSUME opened = "ALLOW" PROVE Provider!Committed \cup Provider!Unsettled = {}
  <2>1. CASE attempts = <<>>
    BY <2>1 DEF Provider!Committed, Provider!Unsettled
  <2>2. CASE attempts # <<>>
    BY <1>1, <1>2, <1>3, <1>6, <2>2 DEF ProviderInv, DecisionStands, Latest, Failed, Provider!Committed, Provider!Unsettled
  <2> QED BY <2>1, <2>2
<1>7. ASSUME opened = "COMPENSATE" PROVE Provider!Committed # {} /\ sent = "not_delivered"
  <2>1. Len(attempts) \in Provider!Committed /\ sent = "not_delivered"
    BY <1>1, <1>2, <1>7 DEF ProviderInv, DecisionStands, Latest, Provider!Committed
  <2> QED BY <2>1
<1> QED
  BY <1>5, <1>6, <1>7 DEF ProviderInv, DecisionStands, Provider!MoneyMovesOnce

(***************************************************************************)
(* The agent that asks the gate before every monetary action moves the     *)
(* money once (provider_adapter.py, provider_payment_decision.py), for any *)
(* profiles and any number of attempts and observations.                   *)
(***************************************************************************)
THEOREM ProviderKept == ASSUME Provider!ProfilesAssumption PROVE Provider!Spec => []Provider!MoneyMovesOnce
<1> USE Provider!ProfilesAssumption
<1> QED BY ProviderInit, ProviderStep, ProviderImplies, PTL DEF Provider!Spec

-----------------------------------------------------------------------------
(* Reviewed repairs in rounds.                                             *)

Assessed ==
    /\ baseline \in Snapshots
    /\ \E n \in Nat : DOMAIN candidates = 1..n
    /\ \A n \in DOMAIN candidates : candidates[n].repairs \subseteq Repairs /\ candidates[n].after \in Snapshots

(* What Sound says, for any scope and baseline. *)
Stands(s, b, after) ==
    /\ Repair!Causal(s, b, after) = "pass" /\ Repair!New(b, after) = {}
    /\ \A i \in DOMAIN b : b[i] = "pass" => after[i] # "unsure"

RepairInv ==
    /\ Assessed
    /\ found = "pass" => selected \in DOMAIN candidates
    /\ Repair!RoundsNeverErode

(* The module counts as FiniteSets does.                                   *)
LEMMA RepairCardinality == \A S : Repair!Cardinality(S) = Cardinality(S) /\ (Repair!IsFiniteSet(S) <=> IsFiniteSet(S))
BY DEF Repair!Cardinality, Cardinality, Repair!IsFiniteSet, IsFiniteSet

(***************************************************************************)
(* The two verifiers agree on a candidate: what the search calls a pass is *)
(* what the causal verifier passes, without a new failure and without lost *)
(* evidence.                                                               *)
(***************************************************************************)
LEMMA VerifiersAgree ==
  ASSUME Repair!RepairAssumption, NEW s, NEW b \in Snapshots, NEW after \in Snapshots
  PROVE  Repair!Evaluate(s, b, after) = "pass" <=> Stands(s, b, after)
<1>1. /\ DOMAIN after = DOMAIN b
      /\ \A i \in DOMAIN b : b[i] \in {"pass", "fail", "unsure", "missing"} /\ after[i] \in {"pass", "fail", "unsure", "missing"}
  BY DEF Repair!RepairAssumption
<1>2. ASSUME Repair!Evaluate(s, b, after) = "pass" PROVE Stands(s, b, after)
  <2>1. /\ s.targets \subseteq Repair!Is(b, "fail") /\ s.guards \subseteq Repair!Is(b, "pass")
        /\ Repair!Is(b, "pass") \cap Repair!Is(after, "unsure") = {}
        /\ (s.targets \cup s.guards) \cap Repair!Is(after, "missing") = {} /\ s.targets \cap Repair!Is(after, "unsure") = {}
        /\ Repair!New(b, after) = {} /\ s.targets \cap Repair!Is(after, "fail") = {}
    BY <1>2 DEF Repair!Evaluate, Repair!ValidBaseline, Repair!Weakened
  <2>2. s.guards \cap Repair!Is(b, "pass") \cap Repair!Is(after, "fail") = {}
    BY <1>1, <2>1 DEF Repair!Is, Repair!New
  <2>3. (s.targets \cup s.guards) \cap (Repair!Is(after, "missing") \cup Repair!Is(after, "unsure")) = {}
    BY <1>1, <2>1 DEF Repair!Is
  <2>4. s.targets \subseteq Repair!Is(after, "pass")
    BY <1>1, <2>1 DEF Repair!Is
  <2>5. \A i \in DOMAIN b : b[i] = "pass" => after[i] # "unsure"
    BY <1>1, <2>1 DEF Repair!Is
  <2> QED BY <2>1, <2>2, <2>3, <2>4, <2>5 DEF Stands, Repair!Causal
<1>3. ASSUME Stands(s, b, after) PROVE Repair!Evaluate(s, b, after) = "pass"
  <2>1. /\ s.targets \subseteq Repair!Is(b, "fail") /\ s.guards \subseteq Repair!Is(b, "pass")
        /\ (s.targets \cup s.guards) \cap (Repair!Is(after, "missing") \cup Repair!Is(after, "unsure")) = {}
        /\ s.targets \subseteq Repair!Is(after, "pass") /\ Repair!New(b, after) = {}
        /\ \A i \in DOMAIN b : b[i] = "pass" => after[i] # "unsure"
    BY <1>3 DEF Stands, Repair!Causal
  <2>2. Repair!Is(b, "pass") \cap Repair!Is(after, "unsure") = {} /\ s.targets \cap Repair!Is(after, "fail") = {}
    BY <1>1, <2>1 DEF Repair!Is
  <2> QED BY <2>1, <2>2 DEF Repair!Evaluate, Repair!ValidBaseline, Repair!Weakened
<1> QED
  BY <1>2, <1>3

(***************************************************************************)
(* Of candidate sets, one comes before all others: fewest repairs, then    *)
(* fewest changed elements, then the first.                                *)
(***************************************************************************)
LEMMA OneIsSmallest ==
  ASSUME Repair!RepairAssumption, Assessed, NEW e, e \subseteq DOMAIN candidates, e # {}
  PROVE  Repair!Smallest(e) \in e /\ \A m \in e : Repair!Before(Repair!Smallest(e), m)
<1> DEFINE Size(n) == Cardinality(candidates[n].repairs)
           Touched(n) == Cardinality(Repair!Changed(candidates[n]))
<1>1. ASSUME NEW n \in e PROVE n \in Nat /\ Size(n) \in Nat /\ Touched(n) \in Nat
  <2>1. candidates[n].repairs \subseteq Repairs
    BY DEF Assessed
  <2>2. Repair!Changed(candidates[n]) \subseteq UNION {Elements[r] : r \in Repairs}
    BY <2>1 DEF Repair!Changed
  <2>3. IsFiniteSet(Repairs) /\ IsFiniteSet(UNION {Elements[r] : r \in Repairs})
    BY RepairCardinality DEF Repair!RepairAssumption
  <2>4. IsFiniteSet(candidates[n].repairs) /\ IsFiniteSet(Repair!Changed(candidates[n]))
    BY <2>1, <2>2, <2>3, FS_Subset
  <2> QED BY <2>4, FS_CardinalityType DEF Assessed
<1> HIDE DEF Size, Touched
<1>2. PICK s \in {Size(n) : n \in e} : \A x \in {Size(n) : n \in e} : s <= x
  <2>1. {Size(n) : n \in e} \subseteq Nat /\ {Size(n) : n \in e} # {}
    BY <1>1
  <2> QED BY <2>1, Least
<1> DEFINE f == {n \in e : Size(n) = s}
<1>3. PICK t \in {Touched(n) : n \in f} : \A x \in {Touched(n) : n \in f} : t <= x
  <2>1. {Touched(n) : n \in f} \subseteq Nat /\ {Touched(n) : n \in f} # {}
    BY <1>1, <1>2
  <2> QED BY <2>1, Least
<1> DEFINE g == {n \in f : Touched(n) = t}
<1>4. PICK k \in g : \A n \in g : k <= n
  <2>1. g \subseteq Nat /\ g # {}
    BY <1>1, <1>3
  <2> QED BY <2>1, Least
<1>5. ASSUME NEW m \in e PROVE Repair!Before(k, m)
  <2>1. s <= Size(m) /\ Size(k) = s /\ (Size(m) = s => t <= Touched(m)) /\ Touched(k) = t
        /\ (Size(m) = s /\ Touched(m) = t => k <= m)
    BY <1>2, <1>3, <1>4
  <2>2. \/ Size(k) < Size(m)
        \/ Size(k) = Size(m) /\ Touched(k) < Touched(m)
        \/ Size(k) = Size(m) /\ Touched(k) = Touched(m) /\ k <= m
    BY <1>1, <2>1
  <2> QED BY <2>2, RepairCardinality DEF Repair!Before, Size, Touched
<1> QED
  BY <1>5 DEF Repair!Smallest

(* An initial state of the repair satisfies the inductive invariant.       *)
LEMMA RepairInit == Repair!Init => RepairInv
<1> SUFFICES ASSUME Repair!Init PROVE RepairInv
  OBVIOUS
<1>1. candidates = <<>> /\ DOMAIN candidates = 1..0
  BY DEF Repair!Init
<1> QED
  BY <1>1 DEF Repair!Init, RepairInv, Assessed, Repair!RoundsNeverErode

(***************************************************************************)
(* Each step keeps the invariant: while an answer stands no candidate is   *)
(* added, and a merge makes what was assessed the next baseline.           *)
(***************************************************************************)
LEMMA RepairStep == Repair!RepairAssumption /\ RepairInv /\ [Repair!Next]_Repair!vars => RepairInv'
<1> SUFFICES ASSUME Repair!RepairAssumption, RepairInv, [Repair!Next]_Repair!vars PROVE RepairInv'
  OBVIOUS
<1> USE DEF Repair!NoAnswer
<1>1. ASSUME NEW repairs \in SUBSET Repairs, NEW after \in Snapshots, Repair!Assess(repairs, after) PROVE RepairInv'
  <2>1. /\ found = "none" /\ UNCHANGED <<baseline, scope, found, selected, unbroken>>
        /\ candidates' = [n \in DOMAIN candidates \cup {Cardinality(DOMAIN candidates) + 1} |->
                            IF n \in DOMAIN candidates THEN candidates[n] ELSE [repairs |-> repairs, after |-> after]]
    BY <1>1, RepairCardinality DEF Repair!Assess
  <2>2. PICK k \in Nat : DOMAIN candidates = 1..k
    BY DEF RepairInv, Assessed
  <2>3. Cardinality(DOMAIN candidates) = k
    BY <2>2, FS_Interval
  <2>4. DOMAIN candidates' = 1..k + 1
    BY <2>1, <2>2, <2>3
  <2>5. Assessed'
    BY <2>1, <2>4 DEF RepairInv, Assessed
  <2> QED BY <2>1, <2>5 DEF RepairInv, Repair!RoundsNeverErode
<1>2. ASSUME NEW s \in Scopes, Repair!Search(s) PROVE RepairInv'
  <2> DEFINE e == Repair!Eligible(s)
  <2>1. scope' = s /\ UNCHANGED <<baseline, candidates, unbroken>>
    BY <1>2 DEF Repair!Search
  <2>2. /\ found' = "pass" => e # {} /\ selected' = Repair!Smallest(e)
        /\ found' = "fail" => e = {}
    BY <1>2 DEF Repair!Search
  <2>3. \A n \in DOMAIN candidates : n \in e <=> Repair!Sound(candidates[n])'
    <3> SUFFICES ASSUME NEW n \in DOMAIN candidates
                 PROVE  Repair!Evaluate(s, baseline, candidates[n].after) = "pass" <=> Repair!Sound(candidates[n])'
      BY DEF Repair!Eligible
    <3>1. Repair!Evaluate(s, baseline, candidates[n].after) = "pass" <=> Stands(s, baseline, candidates[n].after)
      BY VerifiersAgree DEF RepairInv, Assessed
    <3> QED BY <2>1, <3>1 DEF Stands, Repair!Sound
  <2>4. e \subseteq DOMAIN candidates
    BY DEF Repair!Eligible
  <2>5. Assessed'
    BY <2>1 DEF RepairInv, Assessed
  <2>6. ASSUME found' = "pass"
        PROVE  /\ selected' \in e
               /\ \A n \in e : Cardinality(candidates[selected'].repairs) <= Cardinality(candidates[n].repairs)
    <3>1. selected' \in e /\ \A m \in e : Repair!Before(selected', m)
      BY <2>2, <2>4, <2>6, OneIsSmallest DEF RepairInv
    <3>2. \A n \in e : Cardinality(candidates[n].repairs) \in Nat
      <4>1. IsFiniteSet(Repairs) /\ \A n \in e : candidates[n].repairs \subseteq Repairs
        BY <2>4, RepairCardinality DEF RepairInv, Assessed, Repair!RepairAssumption
      <4> QED BY <4>1, FS_Subset, FS_CardinalityType
    <3> QED BY <3>1, <3>2, RepairCardinality DEF Repair!Before
  <2> HIDE DEF e
  <2>7. (found = "pass" => selected \in DOMAIN candidates)'
    BY <2>1, <2>4, <2>6
  <2>8. Repair!RoundsNeverErode'
    BY <2>1, <2>2, <2>3, <2>4, <2>6, RepairCardinality DEF RepairInv, Repair!RoundsNeverErode, Repair!Is
  <2> QED BY <2>5, <2>7, <2>8 DEF RepairInv
<1>3. CASE Repair!Merge
  <2> DEFINE after == candidates[selected].after
  <2>1. /\ found = "pass" /\ found' = "none" /\ selected' = 0 /\ candidates' = <<>> /\ baseline' = after
        /\ unbroken' = (unbroken \ Repair!Is(after, "missing")) \cup Repair!Is(after, "pass")
    BY <1>3 DEF Repair!Merge
  <2>2. selected \in DOMAIN candidates /\ after \in Snapshots /\ baseline \in Snapshots
    BY <2>1 DEF RepairInv, Assessed
  <2>3. Repair!Sound(candidates[selected]) /\ unbroken = Repair!Is(baseline, "pass")
    BY <2>1 DEF RepairInv, Repair!RoundsNeverErode
  <2>4. /\ DOMAIN after = DOMAIN baseline
        /\ \A i \in DOMAIN baseline : after[i] \in {"pass", "fail", "unsure", "missing"}
    BY <2>2 DEF Repair!RepairAssumption
  <2>5. \A i \in DOMAIN baseline : baseline[i] = "pass" => after[i] \in {"pass", "missing"}
    BY <2>3, <2>4 DEF Repair!Sound, Repair!New, Repair!Is
  <2>6. unbroken' = Repair!Is(after, "pass")
    BY <2>1, <2>3, <2>4, <2>5 DEF Repair!Is
  <2>7. unbroken' = Repair!Is(baseline, "pass")'
    BY <2>1, <2>6 DEF Repair!Is
  <2>8. DOMAIN candidates' = 1..0
    BY <2>1
  <2> HIDE DEF after
  <2> QED BY <2>1, <2>2, <2>7, <2>8 DEF RepairInv, Assessed, Repair!RoundsNeverErode
<1>4. CASE Repair!GoOn
  BY <1>4 DEF Repair!GoOn, RepairInv, Assessed, Repair!RoundsNeverErode, Repair!Is
<1>5. CASE Repair!StartAgain
  <2>1. /\ found' = "none" /\ candidates' = <<>> /\ DOMAIN candidates' = 1..0 /\ UNCHANGED <<baseline, scope, unbroken>>
    BY <1>5 DEF Repair!StartAgain
  <2> QED BY <2>1 DEF RepairInv, Assessed, Repair!RoundsNeverErode, Repair!Is
<1>6. CASE UNCHANGED Repair!vars
  BY <1>6 DEF Repair!vars, RepairInv, Assessed, Repair!RoundsNeverErode, Repair!Is, Repair!Sound, Repair!Causal, Repair!New
<1> QED
  BY <1>1, <1>2, <1>3, <1>4, <1>5, <1>6 DEF Repair!Next

(***************************************************************************)
(* The two verifiers of repairs agree and no number of rounds erodes what  *)
(* passed (repair_search.py, causal_repair.py), for any repairs, snapshots *)
(* and scopes.                                                             *)
(***************************************************************************)
THEOREM RepairKept == ASSUME Repair!RepairAssumption PROVE Repair!Spec => []Repair!RoundsNeverErode
<1> USE Repair!RepairAssumption
<1>1. RepairInv => Repair!RoundsNeverErode
  BY DEF RepairInv
<1> QED BY <1>1, RepairInit, RepairStep, PTL DEF Repair!Spec

-----------------------------------------------------------------------------
(* The evaluator of payment traces.                                        *)

Event ==
    [type : {"authorize", "stop"}, op : Operations] \cup
    [type : {"submit"}, op : Operations, exec : Executions, key : Keys] \cup
    [type : {"retry"}, op : Operations, exec : Executions, key : Keys, retryOf : Executions] \cup
    [type : {"ambiguous"}, op : Operations, exec : Executions] \cup
    [type : {"reconcile"}, op : Operations, outcome : Payment!Final \cup {"pending"}]

Pay == {e \in Event : e.type \in {"submit", "retry"}}
On(o) == {e \in Event : e.op = o}
Settles(o) == {e \in On(o) : e.type = "reconcile" /\ e.outcome \in Payment!Final}
Opens(o) == {e \in On(o) : e.type = "ambiguous" \/ (e.type = "reconcile" /\ e.outcome \notin Payment!Final)}
Commits(o) == {e \in On(o) : e.type = "reconcile" /\ e.outcome = "committed"}
Words(o) == {e \in On(o) : e.type \in {"submit", "ambiguous", "reconcile"}}
Grants(o) == {e \in On(o) : e.type = "authorize"}
PaysAs(o, last) == {e \in Pay \cap On(o) : last = [executionId |-> e.exec, idempotencyKey |-> e.key]}

(* Before position n of a trace there is an event of `marks` and after it  *)
(* none of `ends`.                                                         *)
Since(t, n, marks, ends) ==
    \E i \in 1..Len(t) : i < n /\ t[i] \in marks /\ \A k \in 1..Len(t) : i < k /\ k < n => t[k] \notin ends

(***************************************************************************)
(* Reading one more event changes nothing before it, and after it the new  *)
(* event has the last word.                                                *)
(***************************************************************************)
LEMMA SinceGrows ==
  ASSUME NEW S, NEW t \in Seq(S), NEW e \in S, NEW marks, NEW ends
  PROVE  /\ \A n \in 1..Len(t) + 1 : Since(Append(t, e), n, marks, ends) <=> Since(t, n, marks, ends)
         /\ Since(Append(t, e), Len(t) + 2, marks, ends) <=> \/ e \in marks
                                                             \/ e \notin ends /\ Since(t, Len(t) + 1, marks, ends)
<1> DEFINE u == Append(t, e)
<1>1. /\ Len(t) \in Nat /\ Len(u) = Len(t) + 1 /\ u[Len(t) + 1] = e
      /\ \A i \in 1..Len(t) : u[i] = t[i]
  BY AppendProperties
<1> HIDE DEF u
<1>2. ASSUME NEW n \in 1..Len(t) + 1 PROVE Since(u, n, marks, ends) <=> Since(t, n, marks, ends)
  <2>1. ASSUME Since(t, n, marks, ends) PROVE Since(u, n, marks, ends)
    BY <1>1, <2>1 DEF Since
  <2>2. ASSUME Since(u, n, marks, ends) PROVE Since(t, n, marks, ends)
    BY <1>1, <2>2 DEF Since
  <2> QED BY <2>1, <2>2
<1>3. ASSUME e \in marks PROVE Since(u, Len(t) + 2, marks, ends)
  BY <1>1, <1>3 DEF Since
<1>4. ASSUME e \notin ends, Since(t, Len(t) + 1, marks, ends) PROVE Since(u, Len(t) + 2, marks, ends)
  BY <1>1, <1>4 DEF Since
<1>5. ASSUME e \notin marks, Since(u, Len(t) + 2, marks, ends) PROVE e \notin ends /\ Since(t, Len(t) + 1, marks, ends)
  BY <1>1, <1>5 DEF Since
<1> QED
  BY <1>2, <1>3, <1>4, <1>5 DEF u

(* What the evaluator keeps of the events read so far.                     *)
Kept ==
    \A o \in Operations :
        /\ o \in authorized_ops => Since(events, Len(events) + 1, Grants(o), {})
        /\ o \in unresolved_ambiguous <=> Since(events, Len(events) + 1, Opens(o), Settles(o))
        /\ resolved_outcome[o] = "committed" <=> Since(events, Len(events) + 1, Commits(o), Words(o))
        /\ last_execution[o] # Payment!None => Since(events, Len(events) + 1, PaysAs(o, last_execution[o]), Pay \cap On(o))

Links(t, n) ==
    \E last : /\ Since(t, n, PaysAs(t[n].op, last), Pay \cap On(t[n].op))
              /\ policy.requireSameLogicalOperationIdOnRetry => t[n].retryOf = last.executionId
              /\ policy.requireSameIdempotencyKeyOnRetry => t[n].key = last.idempotencyKey

(* What it has said of them.                                               *)
Said ==
    /\ "APR-001" \in violations <=>
          \E n \in 1..Len(events) : events[n] \in Pay /\ \E o \in Operations : Since(events, n, Opens(o), Settles(o))
    /\ "APR-002" \in violations <=>
          \E n \in 1..Len(events) : events[n].type = "retry" /\ Since(events, n, Commits(events[n].op), Words(events[n].op))
    /\ "APR-006" \notin violations =>
          \A n \in 1..Len(events) : events[n] \in Pay => Since(events, n, Grants(events[n].op), {})
    /\ "APR-008 reused" \notin violations =>
          \A i, n \in 1..Len(events) : events[i] \in Pay /\ events[n] \in Pay /\ i < n => events[i].exec # events[n].exec
    /\ "APR-003" \notin violations /\ "APR-004" \notin violations =>
          \A n \in 1..Len(events) : events[n].type = "retry" => Links(events, n)
    /\ "APR-009" \in violations <=> finished /\ unresolved_ambiguous # {}

PaymentInv ==
    /\ Payment!TypeOK /\ events \in Seq(Event)
    /\ \A i \in 1..Len(events) : events[i] \in Pay => events[i].exec \in seen_execution_ids
    /\ Kept /\ Said

(* What an event that is read does to what is kept,                        *)
Recalls(e) ==
    /\ seen_execution_ids \subseteq seen_execution_ids' /\ (e \in Pay => e.exec \in seen_execution_ids')
    /\ \A o \in Operations :
          /\ o \in authorized_ops' => e \in Grants(o) \/ o \in authorized_ops
          /\ o \in unresolved_ambiguous' <=> e \in Opens(o) \/ (e \notin Settles(o) /\ o \in unresolved_ambiguous)
          /\ resolved_outcome'[o] = "committed" <=> e \in Commits(o) \/ (e \notin Words(o) /\ resolved_outcome[o] = "committed")
          /\ e \in PaysAs(o, last_execution'[o]) \/ (e \notin Pay \cap On(o) /\ last_execution'[o] = last_execution[o])

(* and what is said of it.                                                 *)
Flags(e) ==
    /\ violations \subseteq violations'
    /\ "APR-001" \in violations' <=> "APR-001" \in violations \/ (e \in Pay /\ unresolved_ambiguous # {})
    /\ "APR-002" \in violations' <=> "APR-002" \in violations \/ (e.type = "retry" /\ resolved_outcome[e.op] = "committed")
    /\ e \in Pay /\ "APR-006" \notin violations' => e.op \in authorized_ops
    /\ e \in Pay /\ "APR-008 reused" \notin violations' => e.exec \notin seen_execution_ids
    /\ e.type = "retry" /\ "APR-003" \notin violations' /\ "APR-004" \notin violations' =>
          /\ last_execution[e.op] # Payment!None
          /\ policy.requireSameLogicalOperationIdOnRetry => e.retryOf = last_execution[e.op].executionId
          /\ policy.requireSameIdempotencyKeyOnRetry => e.key = last_execution[e.op].idempotencyKey
    /\ "APR-009" \in violations' <=> "APR-009" \in violations

Hears(e) ==
    /\ ~ finished /\ events' = Append(events, e) /\ UNCHANGED <<policy, finished>>
    /\ Recalls(e) /\ Flags(e)

(* Hearing an event keeps the invariant of the payment evaluator.          *)
LEMMA HearingKeeps == ASSUME PaymentInv, NEW e \in Event, Hears(e), Payment!TypeOK' PROVE PaymentInv'
<1> DEFINE N == Len(events) + 1
<1>1. /\ events' \in Seq(Event) /\ Len(events) \in Nat /\ Len(events') = N /\ events'[N] = e
      /\ \A i \in 1..Len(events) : events'[i] = events[i] /\ events[i] \in Event
  <2>1. events \in Seq(Event) /\ events' = Append(events, e)
    BY DEF PaymentInv, Hears, Recalls, Flags
  <2> QED BY <2>1, AppendProperties, ElementOfSeq
<1>2. ASSUME NEW marks, NEW ends
      PROVE  /\ \A n \in 1..N : Since(events', n, marks, ends) <=> Since(events, n, marks, ends)
             /\ Since(events', N + 1, marks, ends) <=> e \in marks \/ (e \notin ends /\ Since(events, N, marks, ends))
  <2>1. events \in Seq(Event) /\ events' = Append(events, e)
    BY DEF PaymentInv, Hears, Recalls, Flags
  <2>2. N + 1 = Len(events) + 2
    BY <1>1
  <2> QED BY <2>1, <2>2, SinceGrows
<1>3. e.op \in Operations
  BY DEF Event
<1>4. Kept'
  <2> SUFFICES ASSUME NEW o \in Operations
               PROVE  /\ o \in authorized_ops' => Since(events', N + 1, Grants(o), {})
                      /\ o \in unresolved_ambiguous' <=> Since(events', N + 1, Opens(o), Settles(o))
                      /\ resolved_outcome'[o] = "committed" <=> Since(events', N + 1, Commits(o), Words(o))
                      /\ last_execution'[o] # Payment!None => Since(events', N + 1, PaysAs(o, last_execution'[o]), Pay \cap On(o))
    BY <1>1 DEF Kept, Grants, Opens, Settles, Commits, Words, PaysAs, Pay, On
  <2>1. o \in authorized_ops' => Since(events', N + 1, Grants(o), {})
    BY <1>2 DEF PaymentInv, Kept, Hears, Recalls, Flags
  <2>2. o \in unresolved_ambiguous' <=> Since(events', N + 1, Opens(o), Settles(o))
    BY <1>2 DEF PaymentInv, Kept, Hears, Recalls, Flags
  <2>3. resolved_outcome'[o] = "committed" <=> Since(events', N + 1, Commits(o), Words(o))
    BY <1>2 DEF PaymentInv, Kept, Hears, Recalls, Flags
  <2>4. last_execution'[o] # Payment!None => Since(events', N + 1, PaysAs(o, last_execution'[o]), Pay \cap On(o))
    BY <1>2 DEF PaymentInv, Kept, Hears, Recalls, Flags
  <2> QED BY <2>1, <2>2, <2>3, <2>4
<1>5. 1..N = 1..Len(events) \cup {N}
  BY <1>1
<1>6. "APR-001" \in violations' <=>
        \E n \in 1..N : events'[n] \in Pay /\ \E o \in Operations : Since(events', n, Opens(o), Settles(o))
  <2>1. unresolved_ambiguous # {} <=> \E o \in Operations : Since(events, N, Opens(o), Settles(o))
    BY DEF PaymentInv, Kept, Payment!TypeOK
  <2>2. "APR-001" \in violations <=>
          \E n \in 1..Len(events) : events[n] \in Pay /\ \E o \in Operations : Since(events, n, Opens(o), Settles(o))
    BY DEF PaymentInv, Said
  <2>3. "APR-001" \in violations' <=> "APR-001" \in violations \/ (e \in Pay /\ unresolved_ambiguous # {})
    BY DEF Hears, Recalls, Flags
  <2>4. \A n \in 1..N, o \in Operations : Since(events', n, Opens(o), Settles(o)) <=> Since(events, n, Opens(o), Settles(o))
    BY <1>2
  <2> QED BY <1>1, <1>5, <2>1, <2>2, <2>3, <2>4
<1>7. "APR-002" \in violations' <=>
        \E n \in 1..N : events'[n].type = "retry" /\ Since(events', n, Commits(events'[n].op), Words(events'[n].op))
  <2>1. resolved_outcome[e.op] = "committed" <=> Since(events, N, Commits(e.op), Words(e.op))
    BY <1>3 DEF PaymentInv, Kept
  <2>2. "APR-002" \in violations <=>
          \E n \in 1..Len(events) : events[n].type = "retry" /\ Since(events, n, Commits(events[n].op), Words(events[n].op))
    BY DEF PaymentInv, Said
  <2>3. "APR-002" \in violations' <=> "APR-002" \in violations \/ (e.type = "retry" /\ resolved_outcome[e.op] = "committed")
    BY DEF Hears, Recalls, Flags
  <2>4. \A n \in 1..N : \A o : Since(events', n, Commits(o), Words(o)) <=> Since(events, n, Commits(o), Words(o))
    BY <1>2
  <2> QED BY <1>1, <1>5, <2>1, <2>2, <2>3, <2>4
<1>8. "APR-006" \notin violations' => \A n \in 1..N : events'[n] \in Pay => Since(events', n, Grants(events'[n].op), {})
  <2>1. e.op \in authorized_ops => Since(events, N, Grants(e.op), {})
    BY <1>3 DEF PaymentInv, Kept
  <2>2. "APR-006" \notin violations =>
          \A n \in 1..Len(events) : events[n] \in Pay => Since(events, n, Grants(events[n].op), {})
    BY DEF PaymentInv, Said
  <2>3. /\ "APR-006" \notin violations' => "APR-006" \notin violations
        /\ e \in Pay /\ "APR-006" \notin violations' => e.op \in authorized_ops
    BY DEF Hears, Recalls, Flags
  <2>4. \A n \in 1..N : \A o : Since(events', n, Grants(o), {}) <=> Since(events, n, Grants(o), {})
    BY <1>2
  <2> QED BY <1>1, <1>5, <2>1, <2>2, <2>3, <2>4
<1>9. "APR-008 reused" \notin violations' =>
        \A i, n \in 1..N : events'[i] \in Pay /\ events'[n] \in Pay /\ i < n => events'[i].exec # events'[n].exec
  <2>1. /\ "APR-008 reused" \notin violations' => "APR-008 reused" \notin violations
        /\ e \in Pay /\ "APR-008 reused" \notin violations' => e.exec \notin seen_execution_ids
    BY DEF Hears, Recalls, Flags
  <2>2. \A i \in 1..Len(events) : events[i] \in Pay => events[i].exec \in seen_execution_ids
    BY DEF PaymentInv
  <2>3. "APR-008 reused" \notin violations =>
          \A i, n \in 1..Len(events) : events[i] \in Pay /\ events[n] \in Pay /\ i < n => events[i].exec # events[n].exec
    BY DEF PaymentInv, Said
  <2>4. \A i, n \in 1..N : i < n => i \in 1..Len(events) /\ (n \in 1..Len(events) \/ n = N)
    BY <1>1
  <2> QED BY <1>1, <2>1, <2>2, <2>3, <2>4
<1>10. "APR-003" \notin violations' /\ "APR-004" \notin violations' => \A n \in 1..N : events'[n].type = "retry" => Links(events', n)
  <2> SUFFICES ASSUME "APR-003" \notin violations', "APR-004" \notin violations', NEW n \in 1..N, events'[n].type = "retry"
               PROVE  Links(events', n)
    OBVIOUS
  <2>1. CASE n = N
    <3>1. e.type = "retry" /\ last_execution[e.op] # Payment!None
          /\ (policy.requireSameLogicalOperationIdOnRetry => e.retryOf = last_execution[e.op].executionId)
          /\ (policy.requireSameIdempotencyKeyOnRetry => e.key = last_execution[e.op].idempotencyKey)
      BY <1>1, <2>1 DEF Hears, Recalls, Flags
    <3>2. Since(events, N, PaysAs(e.op, last_execution[e.op]), Pay \cap On(e.op))
      BY <1>3, <3>1 DEF PaymentInv, Kept
    <3>3. Since(events', N, PaysAs(e.op, last_execution[e.op]), Pay \cap On(e.op))
      BY <1>1, <1>2, <3>2
    <3> QED BY <1>1, <2>1, <3>1, <3>3 DEF Links
  <2>2. CASE n \in 1..Len(events)
    <3>1. Links(events, n)
      BY <1>1, <2>2 DEF PaymentInv, Said, Hears, Recalls, Flags
    <3>2. PICK last : /\ Since(events, n, PaysAs(events[n].op, last), Pay \cap On(events[n].op))
                      /\ policy.requireSameLogicalOperationIdOnRetry => events[n].retryOf = last.executionId
                      /\ policy.requireSameIdempotencyKeyOnRetry => events[n].key = last.idempotencyKey
      BY <3>1 DEF Links
    <3>3. \A marks, ends : Since(events', n, marks, ends) <=> Since(events, n, marks, ends)
      BY <1>2
    <3>4. Since(events', n, PaysAs(events[n].op, last), Pay \cap On(events[n].op))
      BY <3>2, <3>3
    <3>5. events'[n] = events[n]
      BY <1>1, <2>2
    <3> QED BY <3>2, <3>4, <3>5 DEF Links
  <2> QED BY <1>5, <2>1, <2>2
<1>11. Said'
  <2>1. "APR-009" \in violations' <=> finished' /\ unresolved_ambiguous' # {}
    BY DEF PaymentInv, Said, Hears, Recalls, Flags
  <2>2. policy' = policy
    BY DEF Hears, Recalls, Flags
  <2>3. \A n : Links(events, n)' <=> Links(events', n)
    BY <2>2 DEF Links, PaysAs, Pay, On
  <2> QED BY <1>1, <1>6, <1>7, <1>8, <1>9, <1>10, <2>1, <2>3 DEF Said
<1>12. \A i \in 1..Len(events') : events'[i] \in Pay => events'[i].exec \in seen_execution_ids'
  <2>1. /\ seen_execution_ids \subseteq seen_execution_ids' 
        /\ e \in Pay => e.exec \in seen_execution_ids'
    BY DEF Hears, Recalls, Flags
  <2>2. \A i \in 1..Len(events) : events[i] \in Pay => events[i].exec \in seen_execution_ids
    BY DEF PaymentInv
  <2> QED BY <1>1, <1>5, <2>1, <2>2
<1> QED
  BY <1>1, <1>4, <1>11, <1>12 DEF PaymentInv, Pay

(* An initial state of the payment evaluator satisfies the inductive       *)
(* invariant.                                                              *)
LEMMA PaymentInit == Payment!PoliciesAssumption /\ Payment!Init => PaymentInv
<1> SUFFICES ASSUME Payment!PoliciesAssumption, Payment!Init PROVE PaymentInv
  OBVIOUS
<1>1. events = <<>> /\ Len(events) = 0 /\ events \in Seq(Event) /\ violations = {}
  BY EmptySeq DEF Payment!Init
<1>2. Payment!TypeOK
  <2>1. last_execution = [o \in Operations |-> Payment!None] /\ resolved_outcome = [o \in Operations |-> "none"]
    BY DEF Payment!Init
  <2>2. last_execution \in [Operations -> [executionId : Executions, idempotencyKey : Keys] \cup {Payment!None}]
    BY <2>1
  <2>3. resolved_outcome \in [Operations -> {"none", "committed", "failed"}] /\ \A o \in Operations : resolved_outcome[o] = "none"
    BY <2>1
  <2>4. Len(events) <= MaxEvents
    BY <1>1 DEF Payment!PoliciesAssumption
  <2> QED BY <1>1, <2>2, <2>3, <2>4 DEF Payment!Init, Payment!TypeOK
<1>3. \A marks, ends : ~ Since(events, Len(events) + 1, marks, ends)
  BY <1>1 DEF Since
<1>4. Kept
  BY <1>3 DEF Kept, Payment!Init
<1>5. Said
  BY <1>1 DEF Said, Payment!Init
<1> QED
  BY <1>1, <1>2, <1>4, <1>5 DEF PaymentInv

(***************************************************************************)
(* Each step keeps the invariant: it reads one event, or finishes.         *)
(***************************************************************************)
LEMMA PaymentStep == Payment!PoliciesAssumption /\ PaymentInv /\ [Payment!Next]_Payment!vars => PaymentInv'
<1> SUFFICES ASSUME Payment!PoliciesAssumption, PaymentInv, [Payment!Next]_Payment!vars PROVE PaymentInv'
  OBVIOUS
<1>0. Payment!TypeOK /\ events \in Seq(Event) /\ Len(events) \in Nat
  BY DEF PaymentInv
<1>1. ASSUME NEW e \in Event, Payment!Read(e) PROVE Len(events') <= MaxEvents /\ events' = Append(events, e) /\ UNCHANGED <<policy, finished>> /\ ~ finished
  <2>1. events' = Append(events, e) /\ Len(events) < MaxEvents /\ UNCHANGED <<policy, finished>> /\ ~ finished
    BY <1>1 DEF Payment!Read
  <2>2. Len(events') = Len(events) + 1
    BY <1>0, <2>1, AppendProperties
  <2> QED BY <1>0, <2>1, <2>2 DEF Payment!PoliciesAssumption
<1>2. ASSUME NEW o \in Operations, Payment!Authorize(o) PROVE PaymentInv'
  <2> DEFINE e == [type |-> "authorize", op |-> o]
  <2>1. e \in Event /\ Payment!Read(e)
    BY <1>2 DEF Event, Payment!Authorize
  <2>2. Payment!TypeOK'
    BY <1>0, <1>1, <1>2, <2>1 DEF Payment!TypeOK, Payment!Authorize
  <2>3. Hears(e)
    BY <1>0, <1>1, <1>2, <2>1 DEF Payment!TypeOK, Payment!Authorize, Hears, Recalls, Flags, Pay, On, Settles, Opens, Commits, Words, Grants, PaysAs
  <2> QED BY <2>1, <2>2, <2>3, HearingKeeps
<1>3. ASSUME NEW o \in Operations, Payment!Stop(o) PROVE PaymentInv'
  <2> DEFINE e == [type |-> "stop", op |-> o]
  <2>1. e \in Event /\ Payment!Read(e)
    BY <1>3 DEF Event, Payment!Stop
  <2>2. Payment!TypeOK'
    BY <1>0, <1>1, <1>3, <2>1 DEF Payment!TypeOK, Payment!Stop
  <2>3. Hears(e)
    BY <1>0, <1>1, <1>3, <2>1 DEF Payment!TypeOK, Payment!Stop, Hears, Recalls, Flags, Pay, On, Settles, Opens, Commits, Words, Grants, PaysAs
  <2> QED BY <2>1, <2>2, <2>3, HearingKeeps
<1>4. ASSUME NEW o \in Operations, NEW outcome \in Payment!Final \cup {"pending"}, Payment!Reconcile(o, outcome) PROVE PaymentInv'
  <2> DEFINE e == [type |-> "reconcile", op |-> o, outcome |-> outcome]
  <2>1. e \in Event /\ Payment!Read(e)
    BY <1>4 DEF Event, Payment!Reconcile
  <2>2. Payment!TypeOK'
    BY <1>0, <1>1, <1>4, <2>1 DEF Payment!TypeOK, Payment!Reconcile, Payment!Final
  <2>3. Hears(e)
    BY <1>0, <1>1, <1>4, <2>1 DEF Payment!TypeOK, Payment!Reconcile, Payment!Final, Hears, Recalls, Flags, Pay, On, Settles, Opens, Commits, Words, Grants, PaysAs
  <2> QED BY <2>1, <2>2, <2>3, HearingKeeps
<1>5. ASSUME NEW o \in Operations, NEW exec \in Executions, Payment!Ambiguous(o, exec) PROVE PaymentInv'
  <2> DEFINE e == [type |-> "ambiguous", op |-> o, exec |-> exec]
  <2>1. e \in Event /\ Payment!Read(e)
    BY <1>5 DEF Event, Payment!Ambiguous
  <2>2. Payment!TypeOK'
    BY <1>0, <1>1, <1>5, <2>1 DEF Payment!Flag, Payment!TypeOK, Payment!Ambiguous, Payment!Codes
  <2>3. Hears(e)
    <3>1. Recalls(e)
      BY <1>0, <1>5, <2>1 DEF Payment!TypeOK, Payment!Ambiguous, Recalls, Pay, On, Settles, Opens, Commits, Words, Grants, PaysAs
    <3>2. Flags(e)
      BY <1>0, <1>5, <2>1 DEF Payment!Flag, Payment!TypeOK, Payment!Ambiguous, Flags, Pay
    <3> QED BY <1>1, <2>1, <3>1, <3>2 DEF Hears
  <2> QED BY <2>1, <2>2, <2>3, HearingKeeps
<1>6. ASSUME NEW o \in Operations, NEW exec \in Executions, NEW key \in Keys, Payment!Submit(o, exec, key) PROVE PaymentInv'
  <2> DEFINE e == [type |-> "submit", op |-> o, exec |-> exec, key |-> key]
  <2>1. e \in Event /\ Payment!Read(e)
    BY <1>6 DEF Event, Payment!Submit
  <2>2. Payment!TypeOK'
    BY <1>0, <1>1, <1>6, <2>1 DEF Payment!Flag, Payment!TypeOK, Payment!Submit, Payment!Execute, Payment!FinancialFlags, Payment!Codes
  <2>3. Hears(e)
    <3>1. Recalls(e)
      BY <1>0, <1>6, <2>1 DEF Payment!TypeOK, Payment!Submit, Payment!Execute, Recalls, Pay, On, Settles, Opens, Commits, Words, Grants, PaysAs
    <3>2. Flags(e)
      BY <1>0, <1>6, <2>1 DEF Payment!Flag, Payment!TypeOK, Payment!Submit, Payment!Execute, Payment!FinancialFlags, Flags, Pay
    <3> QED BY <1>1, <2>1, <3>1, <3>2 DEF Hears
  <2> QED BY <2>1, <2>2, <2>3, HearingKeeps
<1>7. ASSUME NEW o \in Operations, NEW exec \in Executions, NEW key \in Keys, NEW retryOf \in Executions,
             Payment!Retry(o, exec, key, retryOf)
      PROVE  PaymentInv'
  <2> DEFINE e == [type |-> "retry", op |-> o, exec |-> exec, key |-> key, retryOf |-> retryOf]
  <2>1. e \in Event /\ Payment!Read(e)
    BY <1>7 DEF Event, Payment!Retry
  <2>2. Payment!TypeOK'
    BY <1>0, <1>1, <1>7, <2>1 DEF Payment!Flag, Payment!TypeOK, Payment!Retry, Payment!Execute, Payment!FinancialFlags, Payment!RetryFlags,
         Payment!Codes
  <2>3. Hears(e)
    <3>1. Recalls(e)
      BY <1>0, <1>7, <2>1 DEF Payment!TypeOK, Payment!Retry, Payment!Execute, Recalls, Pay, On, Settles, Opens, Commits, Words, Grants, PaysAs
    <3>2. Flags(e)
      BY <1>0, <1>7, <2>1 DEF Payment!Flag, Payment!TypeOK, Payment!Retry, Payment!Execute, Payment!FinancialFlags, Payment!RetryFlags, Flags, Pay
    <3> QED BY <1>1, <2>1, <3>1, <3>2 DEF Hears
  <2> QED BY <2>1, <2>2, <2>3, HearingKeeps
<1>8. CASE Payment!Finish
  <2>1. /\ ~ finished /\ finished' = TRUE
        /\ \A c : c \in violations' <=> c \in violations \/ (unresolved_ambiguous # {} /\ c = "APR-009")
        /\ UNCHANGED <<policy, events, authorized_ops, unresolved_ambiguous, resolved_outcome, last_execution, seen_execution_ids>>
    BY <1>8 DEF Payment!Flag, Payment!Finish
  <2>2. Payment!TypeOK'
    BY <1>0, <2>1 DEF Payment!TypeOK, Payment!Codes
  <2>3. Kept'
    BY <2>1 DEF PaymentInv, Kept
  <2>4. Said'
    <3>1. \A c : c # "APR-009" => (c \in violations' <=> c \in violations)
      BY <2>1
    <3>2. "APR-009" \in violations' <=> unresolved_ambiguous # {}
      BY <2>1 DEF PaymentInv, Said
    <3>3. \A n : Links(events, n)' <=> Links(events, n)
      BY <2>1 DEF Links
    <3> QED BY <2>1, <3>1, <3>2, <3>3 DEF PaymentInv, Said
  <2> QED BY <2>1, <2>2, <2>3, <2>4 DEF PaymentInv
<1>9. CASE UNCHANGED Payment!vars
  BY <1>9 DEF Payment!vars, PaymentInv, Payment!TypeOK, Kept, Said, Links
<1> QED
  BY <1>2, <1>3, <1>4, <1>5, <1>6, <1>7, <1>8, <1>9 DEF Payment!Next

(***************************************************************************)
(* The verdict says of the trace what the trace says of itself.            *)
(***************************************************************************)
LEMMA PaymentImplies == PaymentInv => Payment!EvaluationIsExact
<1> SUFFICES ASSUME PaymentInv PROVE Payment!EvaluationIsExact
  OBVIOUS
<1>1. /\ Len(events) \in Nat /\ DOMAIN events = 1..Len(events)
      /\ \A i \in 1..Len(events) : events[i] \in Event /\ events[i].op \in Operations
  <2>1. events \in Seq(Event)
    BY DEF PaymentInv
  <2>2. \A e \in Event : e.op \in Operations
    BY DEF Event
  <2> QED BY <2>1, <2>2, ElementOfSeq
<1>2. /\ \A i \in 1..Len(events) : Payment!Financial(i) <=> events[i] \in Pay
      /\ \A i \in 1..Len(events) : \A o : i \in Payment!Of(o) <=> events[i] \in On(o)
      /\ \A o : Payment!Of(o) \subseteq 1..Len(events)
  BY <1>1 DEF Payment!Financial, Payment!Of, Pay, On
<1>3. ASSUME NEW o, NEW n PROVE Payment!AmbiguousBefore(o, n) <=> Since(events, n, Opens(o), Settles(o))
  <2>1. \A i \in 1..Len(events) :
          /\ events[i] \in Opens(o) <=> /\ i \in Payment!Of(o)
                                        /\ \/ events[i].type = "ambiguous"
                                           \/ events[i].type = "reconcile" /\ events[i].outcome \notin Payment!Final
          /\ events[i] \in Settles(o) <=> i \in Payment!Of(o) /\ events[i].type = "reconcile" /\ events[i].outcome \in Payment!Final
    BY <1>2 DEF Opens, Settles
  <2> QED BY <1>2, <2>1 DEF Payment!AmbiguousBefore, Since
<1>4. Payment!AmbiguityIsContained
  <2>1. "APR-001" \in violations <=>
          \E n \in 1..Len(events) : events[n] \in Pay /\ \E o \in Operations : Since(events, n, Opens(o), Settles(o))
    BY DEF PaymentInv, Said
  <2>2. unresolved_ambiguous # {} <=> \E o \in Operations : Since(events, Len(events) + 1, Opens(o), Settles(o))
    BY DEF PaymentInv, Kept, Payment!TypeOK
  <2>3. finished => ("APR-009" \in violations <=> unresolved_ambiguous # {})
    BY DEF PaymentInv, Said
  <2> QED BY <1>1, <1>2, <1>3, <2>1, <2>2, <2>3 DEF Payment!AmbiguityIsContained
<1>5. Payment!RetryAfterCommitIsReported
  <2>1. "APR-002" \in violations <=>
          \E n \in 1..Len(events) : events[n].type = "retry" /\ Since(events, n, Commits(events[n].op), Words(events[n].op))
    BY DEF PaymentInv, Said
  <2>2. ASSUME NEW o, NEW n
        PROVE  Since(events, n, Commits(o), Words(o)) <=>
                 \E i \in Payment!Of(o) :
                    /\ i < n
                    /\ events[i].type = "reconcile" /\ events[i].outcome = "committed"
                    /\ \A k \in Payment!Of(o) : i < k /\ k < n => events[k].type \notin {"submit", "ambiguous", "reconcile"}
    <3>1. \A i \in 1..Len(events) :
            /\ events[i] \in Commits(o) <=> i \in Payment!Of(o) /\ events[i].type = "reconcile" /\ events[i].outcome = "committed"
            /\ events[i] \in Words(o) <=> i \in Payment!Of(o) /\ events[i].type \in {"submit", "ambiguous", "reconcile"}
      BY <1>2 DEF Commits, Words
    <3> QED BY <1>2, <3>1 DEF Since
  <2> QED BY <1>1, <2>1, <2>2 DEF Payment!RetryAfterCommitIsReported
<1>6. ASSUME Payment!passed
      PROVE  /\ \A i, n \in 1..Len(events) : events[i] \in Pay /\ events[n] \in Pay /\ i < n => events[i].exec # events[n].exec
             /\ \A n \in 1..Len(events) : events[n] \in Pay => Since(events, n, Grants(events[n].op), {})
             /\ \A n \in 1..Len(events) : events[n].type = "retry" => Links(events, n)
  BY <1>6 DEF Payment!passed, PaymentInv, Said
<1>7. ASSUME NEW n \in 1..Len(events), Since(events, n, Grants(events[n].op), {})
      PROVE  \E i \in Payment!Of(events[n].op) : i < n /\ events[i].type = "authorize"
  <2>1. \A i \in 1..Len(events) : events[i] \in Grants(events[n].op) => i \in Payment!Of(events[n].op) /\ events[i].type = "authorize"
    BY <1>2 DEF Grants
  <2> QED BY <1>7, <2>1 DEF Since
<1>8. ASSUME NEW n \in 1..Len(events), Links(events, n)
      PROVE  \E i \in Payment!Of(events[n].op) :
                /\ i < n /\ Payment!Financial(i)
                /\ \A k \in Payment!Of(events[n].op) : i < k /\ k < n => ~ Payment!Financial(k)
                /\ policy.requireSameLogicalOperationIdOnRetry => events[n].retryOf = events[i].exec
                /\ policy.requireSameIdempotencyKeyOnRetry => events[n].key = events[i].key
  <2> DEFINE o == events[n].op
  <2>1. PICK last : /\ Since(events, n, PaysAs(o, last), Pay \cap On(o))
                    /\ policy.requireSameLogicalOperationIdOnRetry => events[n].retryOf = last.executionId
                    /\ policy.requireSameIdempotencyKeyOnRetry => events[n].key = last.idempotencyKey
    BY <1>8 DEF Links
  <2>2. PICK i \in 1..Len(events) : /\ i < n /\ events[i] \in PaysAs(o, last)
                                    /\ \A k \in 1..Len(events) : i < k /\ k < n => events[k] \notin Pay \cap On(o)
    BY <2>1 DEF Since
  <2>3. events[i] \in Pay /\ events[i] \in On(o) /\ last.executionId = events[i].exec /\ last.idempotencyKey = events[i].key
    BY <2>2 DEF PaysAs
  <2>4. i \in Payment!Of(o) /\ Payment!Financial(i)
    BY <1>2, <2>3
  <2>5. \A k \in Payment!Of(o) : i < k /\ k < n => ~ Payment!Financial(k)
    BY <1>2, <2>2
  <2> QED BY <2>1, <2>2, <2>3, <2>4, <2>5
<1>9. Payment!PassedTraceIsCoherent
  BY <1>1, <1>2, <1>6, <1>7, <1>8 DEF Payment!PassedTraceIsCoherent
<1> QED
  BY <1>4, <1>5, <1>9 DEF PaymentInv, Payment!EvaluationIsExact

(***************************************************************************)
(* The evaluator's verdict is exact (payment_recovery.py), for any         *)
(* operations, executions, keys and policies and traces of any length.     *)
(***************************************************************************)
THEOREM PaymentKept == ASSUME Payment!PoliciesAssumption PROVE Payment!Spec => []Payment!EvaluationIsExact
<1> USE Payment!PoliciesAssumption
<1> QED BY PaymentInit, PaymentStep, PaymentImplies, PTL DEF Payment!Spec

-----------------------------------------------------------------------------
(* Traces from their producer to whoever accepts them.                     *)

Name == {"event", "gap", "none"} \X Int

(* A record is what the producer emitted or what the recorder marked; its  *)
(* number and its kind are in its name, whatever becomes of its link.      *)
Honest ==
    {r \in [id : Name, seq : Int, subject : Int, gap : Int, pred : Name] :
        r.id = <<IF Trace!IsGap(r) THEN "gap" ELSE "event", r.seq>>}

TraceInv ==
    /\ emitted \in Nat /\ subject \in Int /\ before \in Int
    /\ wire \subseteq Honest
    /\ trace \in Seq(Honest) /\ disk \in Seq(Honest)

(* An initial state of the trace recorder satisfies the inductive          *)
(* invariant.                                                              *)
LEMMA TraceInit == Trace!Init => TraceInv
<1> SUFFICES ASSUME Trace!Init PROVE TraceInv
  OBVIOUS
<1>1. <<>> \in Seq(Honest)
  BY EmptySeq
<1> QED
  BY <1>1 DEF Trace!Init, Trace!NoTrace, TraceInv

(* A record that is linked anew is the same record.                        *)
LEMMA LinkIsHonest == ASSUME TraceInv, NEW m \in Honest PROVE Trace!Link(m) \in Honest
<1>1. CASE trace = <<>>
  BY <1>1 DEF Trace!Link, Trace!NoTrace
<1>2. CASE trace # <<>>
  <2>1. trace \in Seq(Honest) /\ Len(trace) \in Nat \ {0}
    BY <1>2, EmptySeq DEF TraceInv
  <2>2. trace[Len(trace)] \in Honest
    BY <2>1, ElementOfSeq
  <2>3. trace[Len(trace)].id \in Name
    BY <2>2 DEF Honest
  <2>4. Trace!Link(m) = [m EXCEPT !.pred = trace[Len(trace)].id]
    BY <1>2 DEF Trace!Link, Trace!NoTrace, Trace!Last
  <2> HIDE DEF Name
  <2> QED BY <2>3, <2>4 DEF Honest, Trace!IsGap
<1> QED
  BY <1>1, <1>2

(* Writing an honest record keeps the trace honest.                        *)
LEMMA WrittenIsHonest == ASSUME TraceInv, NEW r \in Honest, Trace!Write(r) PROVE trace' \in Seq(Honest)
BY AppendProperties DEF TraceInv, Trace!Write

(* Every step of the trace recorder keeps the inductive invariant.         *)
LEMMA TraceStep == TraceInv /\ [Trace!Next]_Trace!vars => TraceInv'
<1> SUFFICES ASSUME TraceInv, [Trace!Next]_Trace!vars PROVE TraceInv'
  OBVIOUS
<1> USE DEF Trace!source, Trace!storage, Trace!Trouble
<1>1. CASE Trace!Emit
  <2> DEFINE r == [id |-> <<"event", emitted>>, seq |-> emitted, subject |-> subject, gap |-> Trace!None,
                   pred |-> IF emitted = 0 THEN <<"none", 0>> ELSE <<"event", emitted - 1>>]
  <2>1. r \in Honest
    BY DEF TraceInv, Honest, Name, Trace!IsGap, Trace!None
  <2>2. emitted' = emitted + 1 /\ wire' = wire \cup {r} /\ UNCHANGED <<subject, before, trace, disk>>
    BY <1>1 DEF Trace!Emit
  <2> HIDE DEF r
  <2> QED BY <2>1, <2>2 DEF TraceInv
<1>2. CASE Trace!ChangeSubject
  BY <1>2 DEF Trace!ChangeSubject, TraceInv
<1>3. CASE Trace!Store
  BY <1>3 DEF Trace!Store, TraceInv
<1>4. CASE Trace!Build
  BY <1>4 DEF Trace!Build, TraceInv
<1>5. ASSUME NEW m \in wire, Trace!Lose(m) PROVE TraceInv'
  BY <1>5 DEF Trace!Lose, TraceInv
<1>6. ASSUME NEW m \in wire, NEW linked \in BOOLEAN, Trace!Record(m, linked) \/ Trace!RecordAgain(m, linked) PROVE TraceInv'
  <2>1. m \in Honest /\ Trace!Link(m) \in Honest
    BY LinkIsHonest DEF TraceInv
  <2>2. trace' \in Seq(Honest) /\ wire' \subseteq wire /\ UNCHANGED <<emitted, subject, before, disk>>
    BY <1>6, <2>1, WrittenIsHonest DEF Trace!Record, Trace!RecordAgain, Trace!Write
  <2> QED BY <2>2 DEF TraceInv
<1>7. ASSUME NEW to \in 0..Events - 1, Trace!MarkGap(to) PROVE TraceInv'
  <2> DEFINE from == IF trace = <<>> THEN 0 ELSE Trace!Following(trace[Len(trace)])
             r == [id |-> <<"gap", from>>, seq |-> from, subject |-> before, gap |-> to, pred |-> <<"none", 0>>]
  <2>1. from \in Int
    <3>1. CASE trace # <<>>
      <4>1. trace \in Seq(Honest) /\ Len(trace) \in Nat \ {0}
        BY <3>1, EmptySeq DEF TraceInv
      <4>2. trace[Len(trace)] \in Honest
        BY <4>1, ElementOfSeq
      <4> QED BY <3>1, <4>2 DEF Honest, Trace!Following
    <3> QED BY <3>1
  <2>2. Trace!Write(Trace!Link(r)) /\ wire' = wire
    BY <1>7 DEF Trace!MarkGap, Trace!NoTrace, Trace!Last
  <2> HIDE DEF from
  <2>3. r \in Honest
    BY <2>1 DEF TraceInv, Honest, Name, Trace!IsGap, Trace!None
  <2>4. trace' \in Seq(Honest) /\ UNCHANGED <<emitted, subject, before, disk>>
    BY <2>2, <2>3, LinkIsHonest, WrittenIsHonest DEF Trace!Write
  <2> QED BY <2>2, <2>4 DEF TraceInv
<1>8. ASSUME NEW stored \in BOOLEAN, Trace!Restart(stored) PROVE TraceInv'
  <2>1. <<>> \in Seq(Honest)
    BY EmptySeq
  <2> QED BY <1>8, <2>1 DEF Trace!Restart, Trace!NoTrace, TraceInv
<1>9. ASSUME NEW k \in DOMAIN disk, NEW listed \in BOOLEAN, Trace!Edit(k, listed) PROVE TraceInv'
  <2>1. disk' = SubSeq(disk, 1, k - 1) \o SubSeq(disk, k + 1, Len(disk)) /\ UNCHANGED <<emitted, subject, before, wire, trace>>
    BY <1>9 DEF Trace!Edit, Trace!RemoveAt
  <2>2. disk \in Seq(Honest) /\ Len(disk) \in Nat /\ k \in 1..Len(disk)
    BY DEF TraceInv
  <2>3. SubSeq(disk, 1, k - 1) \in Seq(Honest) /\ SubSeq(disk, k + 1, Len(disk)) \in Seq(Honest)
    BY <2>2, ElementOfSeq, SubSeqProperties
  <2>4. disk' \in Seq(Honest)
    BY <2>1, <2>3, ConcatProperties
  <2> QED BY <2>1, <2>4 DEF TraceInv
<1>10. CASE UNCHANGED Trace!vars
  BY <1>10 DEF Trace!vars, TraceInv
<1> QED
  BY <1>1, <1>2, <1>3, <1>4, <1>5, <1>6, <1>7, <1>8, <1>9, <1>10 DEF Trace!Next

(* The module counts as FiniteSets does.                                   *)
LEMMA TraceCardinality == \A S : Trace!Cardinality(S) = Cardinality(S)
BY DEF Trace!Cardinality, Cardinality, Trace!IsFiniteSet, IsFiniteSet

(***************************************************************************)
(* In a trace that passes each record starts where the one before it ends, *)
(* so that of two records the later one starts after the earlier one ends, *)
(* and every number in between belongs to one record.                      *)
(***************************************************************************)
Covers(t, k, n) == t[k].seq <= n /\ n < Trace!Following(t[k])

(* In a trace that passes, each record ends before the next one starts.    *)
LEMMA PassingIsContiguous ==
  ASSUME NEW t \in Seq(Honest), NEW complete, NEW of, Trace!Passes(t, complete, of)
  PROVE  /\ Len(t) \in Nat \ {0} /\ DOMAIN t = 1..Len(t)
         /\ \A k \in 1..Len(t) : t[k] \in Honest /\ t[k].seq \in Int /\ Trace!Following(t[k]) \in Int /\ t[k].seq < Trace!Following(t[k])
         /\ \A k, l \in 1..Len(t) : k < l => Trace!Following(t[k]) <= t[l].seq
<1>1. Len(t) \in Nat \ {0} /\ DOMAIN t = 1..Len(t)
  BY EmptySeq DEF Trace!Passes, Trace!NoTrace
<1>2. ASSUME NEW k \in 1..Len(t)
      PROVE t[k] \in Honest /\ t[k].seq \in Int /\ Trace!Following(t[k]) \in Int /\ t[k].seq < Trace!Following(t[k])
  <2>1. t[k] \in Honest
    BY ElementOfSeq
  <2>2. t[k].seq \in Int /\ t[k].gap \in Int /\ (Trace!IsGap(t[k]) => t[k].gap >= t[k].seq)
    BY <1>1, <2>1 DEF Honest, Trace!Passes
  <2> QED BY <2>1, <2>2 DEF Trace!Following
<1>3. ASSUME NEW k \in 1..Len(t) PROVE \A l \in 1..Len(t) : k < l => Trace!Following(t[k]) <= t[l].seq
  <2> DEFINE Bad == {l \in 1..Len(t) : k < l /\ ~ (Trace!Following(t[k]) <= t[l].seq)}
  <2> SUFFICES ASSUME Bad # {} PROVE FALSE
    OBVIOUS
  <2>1. PICK l \in Bad : \A m \in Bad : l <= m
    <3>1. Bad \subseteq Nat
      OBVIOUS
    <3> QED BY <3>1, Least
  <2>2. l \in 2..Len(t) /\ l - 1 \in 1..Len(t) /\ t[l].seq = Trace!Following(t[l - 1])
    BY <1>1, <2>1 DEF Trace!Passes, Trace!InOrder
  <2>3. l - 1 \notin Bad
    BY <2>1, <2>2
  <2>4. CASE l - 1 = k
    BY <1>2, <2>1, <2>2, <2>4
  <2>5. CASE k < l - 1
    <3>1. Trace!Following(t[k]) <= t[l - 1].seq
      BY <2>2, <2>3, <2>5
    <3>2. t[l - 1].seq < Trace!Following(t[l - 1])
      BY <1>2, <2>2
    <3>3. /\ Trace!Following(t[k]) \in Int /\ t[l - 1].seq \in Int /\ t[l].seq \in Int
      BY <1>2, <2>1, <2>2
    <3> QED BY <2>1, <2>2, <3>1, <3>2, <3>3
  <2> QED BY <2>1, <2>2, <2>4, <2>5
<1> QED
  BY <1>1, <1>2, <1>3

(* In a trace that passes, every number in its range belongs to exactly one*)
(* record.                                                                 *)
LEMMA OneCovers ==
  ASSUME NEW t \in Seq(Honest), NEW complete, NEW of, Trace!Passes(t, complete, of),
         NEW n \in t[1].seq..(Trace!Following(t[Len(t)]) - 1)
  PROVE  \E k \in 1..Len(t) : Covers(t, k, n) /\ \A l \in 1..Len(t) : Covers(t, l, n) => l = k
<1>1. /\ Len(t) \in Nat \ {0}
      /\ \A k \in 1..Len(t) : t[k].seq \in Int /\ Trace!Following(t[k]) \in Int
      /\ \A k, l \in 1..Len(t) : k < l => Trace!Following(t[k]) <= t[l].seq
  BY PassingIsContiguous
<1> DEFINE I == {k \in 1..Len(t) : t[k].seq <= n}
<1>2. PICK k \in I : \A m \in I : k >= m
  <2>1. 1 \in I /\ I \subseteq 0..Len(t)
    BY <1>1
  <2> QED BY <1>1, <2>1, Greatest
<1>3. Covers(t, k, n)
  <2>1. CASE k = Len(t)
    BY <1>1, <1>2, <2>1 DEF Covers
  <2>2. CASE k < Len(t)
    <3>1. k + 1 \in 2..Len(t) /\ k + 1 \in 1..Len(t) /\ k + 1 \notin I
      BY <1>1, <1>2, <2>2
    <3>2. t[k + 1].seq = Trace!Following(t[k])
      BY <1>1, <1>2, <3>1 DEF Trace!Passes, Trace!InOrder
    <3> QED BY <1>1, <1>2, <3>1, <3>2 DEF Covers
  <2> QED BY <1>1, <1>2, <2>1, <2>2
<1>4. ASSUME NEW l \in 1..Len(t), Covers(t, l, n) PROVE l = k
  BY <1>1, <1>2, <1>3, <1>4 DEF Covers
<1> QED
  BY <1>2, <1>3, <1>4

(* The inductive invariant of the trace recorder implies the property its  *)
(* run checks.                                                             *)
LEMMA TraceImplies == TraceInv => Trace!AcceptedIsWhole
<1> SUFFICES ASSUME TraceInv PROVE Trace!AcceptedIsWhole
  OBVIOUS
<1>1. ASSUME NEW complete, Trace!Passes(disk, complete, before)
      PROVE  /\ \A n \in disk[1].seq..(Trace!Following(disk[Len(disk)]) - 1) :
                   Trace!Cardinality(Trace!Recorded(disk, n)) + Trace!Cardinality(Trace!Marked(disk, n)) = 1
             /\ \A k, l \in DOMAIN disk : k < l => disk[k].seq < disk[l].seq
             /\ \A k \in DOMAIN disk : disk[k].subject = before
  <2>0. disk \in Seq(Honest)
    BY DEF TraceInv
  <2>1. /\ Len(disk) \in Nat \ {0} /\ DOMAIN disk = 1..Len(disk)
        /\ \A k \in 1..Len(disk) : disk[k] \in Honest /\ disk[k].seq \in Int /\ Trace!Following(disk[k]) \in Int
                                   /\ disk[k].seq < Trace!Following(disk[k])
        /\ \A k, l \in 1..Len(disk) : k < l => Trace!Following(disk[k]) <= disk[l].seq
    BY <1>1, <2>0, PassingIsContiguous
  <2>2. ASSUME NEW n \in disk[1].seq..(Trace!Following(disk[Len(disk)]) - 1)
        PROVE  Trace!Cardinality(Trace!Recorded(disk, n)) + Trace!Cardinality(Trace!Marked(disk, n)) = 1
    <3>1. PICK k \in 1..Len(disk) : Covers(disk, k, n) /\ \A l \in 1..Len(disk) : Covers(disk, l, n) => l = k
      BY <1>1, <2>0, OneCovers
    <3>2. n \in Int
      BY <2>1
    <3>3. \A l \in 1..Len(disk) : /\ l \in Trace!Recorded(disk, n) <=> ~ Trace!IsGap(disk[l]) /\ Covers(disk, l, n)
                                  /\ l \in Trace!Marked(disk, n) <=> Trace!IsGap(disk[l]) /\ Covers(disk, l, n)
      <4> SUFFICES ASSUME NEW l \in 1..Len(disk)
                   PROVE  /\ l \in Trace!Recorded(disk, n) <=> ~ Trace!IsGap(disk[l]) /\ Covers(disk, l, n)
                          /\ l \in Trace!Marked(disk, n) <=> Trace!IsGap(disk[l]) /\ Covers(disk, l, n)
        OBVIOUS
      <4>1. disk[l].id = <<IF Trace!IsGap(disk[l]) THEN "gap" ELSE "event", disk[l].seq>> /\ disk[l].seq \in Int /\ disk[l].gap \in Int
        BY <2>1 DEF Honest
      <4>2. l \in Trace!Recorded(disk, n) <=> ~ Trace!IsGap(disk[l]) /\ disk[l].seq = n
        BY <2>1, <4>1 DEF Trace!Recorded
      <4>3. l \in Trace!Marked(disk, n) <=> Trace!IsGap(disk[l]) /\ disk[l].seq <= n /\ n <= disk[l].gap
        BY <2>1 DEF Trace!Marked
      <4> QED BY <3>2, <4>1, <4>2, <4>3 DEF Covers, Trace!Following
    <3>4. Trace!Recorded(disk, n) \subseteq 1..Len(disk) /\ Trace!Marked(disk, n) \subseteq 1..Len(disk)
      BY <2>1 DEF Trace!Recorded, Trace!Marked
    <3>5. Cardinality({k}) = 1 /\ Cardinality({}) = 0
      BY FS_Singleton, FS_EmptySet
    <3>6. CASE Trace!IsGap(disk[k])
      <4>1. Trace!Recorded(disk, n) = {} /\ Trace!Marked(disk, n) = {k}
        BY <3>1, <3>3, <3>4, <3>6
      <4> QED BY <3>5, <4>1, TraceCardinality
    <3>7. CASE ~ Trace!IsGap(disk[k])
      <4>1. Trace!Recorded(disk, n) = {k} /\ Trace!Marked(disk, n) = {}
        BY <3>1, <3>3, <3>4, <3>7
      <4> QED BY <3>5, <4>1, TraceCardinality
    <3> QED BY <3>6, <3>7
  <2>3. \A k, l \in DOMAIN disk : k < l => disk[k].seq < disk[l].seq
    BY <2>1
  <2> QED BY <1>1, <2>2, <2>3 DEF Trace!Passes
<1>2. Trace!Last(disk) = disk[Len(disk)]
  BY DEF Trace!Last
<1> QED
  BY <1>1, <1>2 DEF Trace!AcceptedIsWhole, Trace!Accepts, Trace!Passes

(***************************************************************************)
(* Within an accepted trace nothing is missing without a mark              *)
(* (proof_integrity.py), for any number of events, records and troubles.   *)
(***************************************************************************)
THEOREM TraceKept == Trace!Spec => []Trace!AcceptedIsWhole
BY TraceInit, TraceStep, TraceImplies, PTL DEF Trace!Spec

-----------------------------------------------------------------------------
(* The proof registry.                                                     *)

(* The module counts as FiniteSets does.                                   *)
LEMMA RegistryCardinality == \A S : Registry!Cardinality(S) = Cardinality(S)
BY DEF Registry!Cardinality, Cardinality, Registry!IsFiniteSet, IsFiniteSet

(* The numbers from 1 to n are n.                                          *)
LEMMA UpTo == ASSUME NEW n \in Nat PROVE IsFiniteSet(1..n) /\ Cardinality(1..n) = n
<1>1. IsFiniteSet(1..n) /\ Cardinality(1..n) = IF 1 > n THEN 0 ELSE n - 1 + 1
  BY FS_Interval
<1> QED BY <1>1

(* The rounds of a breadth-first search along the edges. *)
Wider(far, start, way) == far \cup Registry!Along(far \cup {start}, way)
Rounds(ring, start, way, k) == ring = [i \in 0..k |-> IF i = 0 THEN {} ELSE Wider(ring[i - 1], start, way)]

(* The rounds of a search start from nothing and widen one by one.         *)
LEMMA RoundsSteps ==
  ASSUME NEW k \in Nat, NEW start, NEW way, NEW ring, Rounds(ring, start, way, k)
  PROVE  ring[0] = {} /\ \A n \in 1..k : ring[n] = Wider(ring[n - 1], start, way)
<1>1. ASSUME NEW f, NEW g, g = [n \in 0..k |-> IF n = 0 THEN {} ELSE Wider(f[n - 1], start, way)]
      PROVE  g[0] = {} /\ \A n \in 1..k : g[n] = Wider(f[n - 1], start, way)
  <2> DEFINE B(n) == Wider(f[n - 1], start, way)
  <2>1. g = [n \in 0..k |-> IF n = 0 THEN {} ELSE B(n)]
    BY <1>1
  <2> HIDE DEF B
  <2>2. g[0] = {} /\ \A n \in 1..k : g[n] = B(n)
    BY <2>1
  <2> QED BY <2>2 DEF B
<1> QED
  BY <1>1 DEF Rounds

(* The recursion of Closure is well-founded. *)
LEMMA ClosureRounds ==
  ASSUME NEW start, NEW way, Len(links) \in Nat
  PROVE  \E ring : Rounds(ring, start, way, Len(links)) /\ Registry!Closure(start, way) = ring[Len(links)]
<1> DEFINE N == Len(links)
           Bad == {k \in Nat : ~ \E ring : Rounds(ring, start, way, k)}
<1>1. Bad = {}
  <2> SUFFICES ASSUME Bad # {} PROVE FALSE
    OBVIOUS
  <2>1. PICK k \in Bad : \A m \in Bad : k <= m
    BY Least
  <2>2. k \in Nat /\ ~ \E ring : Rounds(ring, start, way, k)
    OBVIOUS
  <2>3. CASE k = 0
    <3>1. Rounds([n \in 0..0 |-> {}], start, way, 0)
      BY DEF Rounds
    <3> QED BY <2>3, <3>1, <2>2
  <2>4. CASE k # 0
    <3>1. k - 1 \in Nat /\ ~ (k <= k - 1)
      BY <2>2, <2>4
    <3>2. k - 1 \notin Bad
      BY <3>1, <2>1
    <3>3. PICK g : Rounds(g, start, way, k - 1)
      BY <3>1, <3>2
    <3> DEFINE h == [n \in 0..k |-> IF n = k THEN Wider(g[k - 1], start, way) ELSE g[n]]
    <3>4. ASSUME NEW n \in 0..k PROVE h[n] = IF n = 0 THEN {} ELSE Wider(h[n - 1], start, way)
      <4>1. \A m \in 0..(k - 1) : h[m] = g[m] /\ g[m] = IF m = 0 THEN {} ELSE Wider(g[m - 1], start, way)
        <5>1. g[0] = {} /\ \A m \in 1..(k - 1) : g[m] = Wider(g[m - 1], start, way)
          BY <3>1, <3>3, RoundsSteps
        <5>2. \A m \in 0..(k - 1) : h[m] = g[m]
          BY <2>2
        <5>3. \A m \in 0..(k - 1) : m = 0 \/ m \in 1..(k - 1)
          BY <3>1
        <5>4. \A m \in 1..(k - 1) : m # 0
          BY <3>1
        <5> HIDE DEF h
        <5> QED BY <5>1, <5>2, <5>3, <5>4
      <4>2. CASE n = k
        BY <2>2, <2>4, <3>1, <4>1, <4>2
      <4>3. CASE n # k
        <5>1. n \in 0..(k - 1) /\ (n # 0 => n - 1 \in 0..(k - 1))
          BY <2>2, <3>1, <4>3
        <5> QED BY <4>1, <5>1
      <4> QED BY <4>2, <4>3
    <3>5. Rounds(h, start, way, k)
      BY <3>4 DEF Rounds
    <3> QED BY <3>5, <2>2
  <2> QED BY <2>3, <2>4
<1>2. PICK g : Rounds(g, start, way, N)
  BY <1>1
<1> DEFINE ring == CHOOSE ring : Rounds(ring, start, way, N)
<1>3. Registry!Closure(start, way) = ring[N]
  BY DEF Registry!Closure, Rounds, Wider
<1> QED
  BY <1>2, <1>3

(***************************************************************************)
(* What query_registry finds along the edges is closed under them, and is  *)
(* in every set that is: as many rounds as there are edges are enough.     *)
(***************************************************************************)
LEMMA ClosureIsLeast ==
  ASSUME NEW start, NEW way, way \in {"up", "down"}, Len(links) \in Nat, DOMAIN links = 1..Len(links)
  PROVE  /\ Registry!Along(Registry!Closure(start, way) \cup {start}, way) \subseteq Registry!Closure(start, way)
         /\ \A T : Registry!Along(T \cup {start}, way) \subseteq T => Registry!Closure(start, way) \subseteq T
<1> DEFINE N == Len(links)
           C == Registry!Closure(start, way)
           end(e) == e[IF way = "up" THEN "from" ELSE "to"]
           F == {end(links[i]) : i \in 1..N}
<1>0. N \in Nat
  OBVIOUS
<1>1. PICK ring : Rounds(ring, start, way, N) /\ C = ring[N]
  BY ClosureRounds
<1>2. ring[0] = {} /\ \A n \in 1..N : ring[n] = ring[n - 1] \cup Registry!Along(ring[n - 1] \cup {start}, way)
  BY <1>1, RoundsSteps DEF Wider
<1>3. \A T : Registry!Along(T, way) \subseteq F
  BY DEF Registry!Along, Registry!ToSet
<1>4. \A S, T : S \subseteq T => Registry!Along(S, way) \subseteq Registry!Along(T, way)
  BY DEF Registry!Along
<1>5. IsFiniteSet(F) /\ Cardinality(F) <= N
  <2> DEFINE f == [i \in 1..N |-> end(links[i])]
  <2>1. f \in Surjection(1..N, F)
    BY DEF Surjection
  <2>2. IsFiniteSet(1..N) /\ Cardinality(1..N) = N
    <3> HIDE DEF N
    <3> QED BY <1>0, UpTo
  <2> QED BY <2>1, <2>2, FS_Surjection
<1> HIDE DEF F, end, N
<1> DEFINE Closed(S) == Registry!Along(S \cup {start}, way) \subseteq S
           Done(k) == ring[k] \subseteq F /\ (Closed(ring[k]) \/ Cardinality(ring[k]) >= k)
<1>6. Closed(ring[N])
  <2> HIDE DEF Done
  <2> DEFINE Bad == {k \in 0..N : ~ Done(k)}
  <2>1. Bad = {}
    <3> SUFFICES ASSUME Bad # {} PROVE FALSE
      OBVIOUS
    <3>1. PICK k \in Bad : \A m \in Bad : k <= m
      <4>1. Bad \subseteq Nat
        OBVIOUS
      <4> QED BY <4>1, Least
    <3>2. k # 0
      <4>1. ring[0] = {} /\ Cardinality({}) = 0
        BY <1>2, FS_EmptySet
      <4>2. Done(0)
        BY <4>1 DEF Done
      <4> QED BY <3>1, <4>2
    <3>3. k \in 1..N /\ k - 1 \in 0..N /\ Done(k - 1)
      BY <1>0, <3>1, <3>2
    <3> DEFINE S == ring[k - 1]
    <3>4. ring[k] = S \cup Registry!Along(S \cup {start}, way) /\ ring[k] \subseteq F
      BY <1>2, <1>3, <3>3 DEF Done
    <3>5. CASE Closed(S)
      <4>1. ring[k] = S
        BY <3>4, <3>5
      <4> QED BY <3>1, <3>4, <3>5, <4>1 DEF Done
    <3>6. CASE ~ Closed(S)
      <4>1. S \subseteq ring[k] /\ S # ring[k] /\ IsFiniteSet(ring[k])
        BY <1>5, <3>4, <3>6, FS_Subset
      <4>2. IsFiniteSet(S) /\ Cardinality(S) <= Cardinality(ring[k]) /\ Cardinality(S) # Cardinality(ring[k])
        BY <4>1, FS_Subset
      <4>3. Cardinality(S) \in Nat /\ Cardinality(ring[k]) \in Nat
        BY <4>1, <4>2, FS_CardinalityType
      <4>4. Cardinality(S) >= k - 1
        BY <3>3, <3>6 DEF Done
      <4>5. Cardinality(ring[k]) >= k
        BY <3>3, <4>2, <4>3, <4>4
      <4> QED BY <3>1, <3>4, <4>5 DEF Done
    <3> QED BY <3>5, <3>6
  <2>2. Done(N)
    BY <1>0, <2>1
  <2>3. CASE Cardinality(ring[N]) >= N
    <3>1. IsFiniteSet(ring[N]) /\ Cardinality(ring[N]) <= Cardinality(F) /\ (Cardinality(F) = Cardinality(ring[N]) => F = ring[N])
      BY <1>5, <2>2, FS_Subset DEF Done
    <3>2. Cardinality(F) \in Nat /\ Cardinality(ring[N]) \in Nat
      BY <1>5, <3>1, FS_CardinalityType
    <3>3. F = ring[N]
      BY <1>0, <1>5, <2>3, <3>1, <3>2
    <3> QED BY <1>3, <3>3
  <2> QED BY <2>2, <2>3 DEF Done
<1>7. ASSUME NEW T, Registry!Along(T \cup {start}, way) \subseteq T PROVE C \subseteq T
  <2> DEFINE Bad == {k \in 0..N : ~ (ring[k] \subseteq T)}
  <2> SUFFICES ASSUME Bad # {} PROVE FALSE
    BY <1>0, <1>1
  <2>1. PICK k \in Bad : \A m \in Bad : k <= m
    <3>1. Bad \subseteq Nat
      OBVIOUS
    <3> QED BY <3>1, Least
  <2>2. k # 0
    BY <1>2, <2>1
  <2>3. k \in 1..N /\ k - 1 \in 0..N /\ ring[k - 1] \subseteq T
    BY <1>0, <2>1, <2>2
  <2>4. Registry!Along(ring[k - 1] \cup {start}, way) \subseteq T
    BY <1>4, <1>7, <2>3
  <2> QED BY <1>2, <2>1, <2>3, <2>4
<1> QED
  BY <1>1, <1>6, <1>7

(* A sequence without repetition, and what is in it.                       *)
Line(s, S) == s \in Seq(S) /\ \A i, j \in 1..Len(s) : s[i] = s[j] => i = j
Members(s) == {s[i] : i \in 1..Len(s)}

(* Appending an element that is not in a line gives a line.                *)
LEMMA LineGrows ==
  ASSUME NEW S, NEW s, Line(s, S), NEW x \in S, x \notin Members(s)
  PROVE  /\ Line(Append(s, x), S) /\ Members(Append(s, x)) = Members(s) \cup {x} /\ Len(Append(s, x)) = Len(s) + 1
         /\ Append(s, x)[Len(s) + 1] = x /\ \A i \in 1..Len(s) : Append(s, x)[i] = s[i]
<1> DEFINE t == Append(s, x)
<1>1. /\ t \in Seq(S) /\ Len(t) = Len(s) + 1 /\ Len(s) \in Nat
      /\ \A i \in 1..Len(s) : t[i] = s[i]
      /\ t[Len(s) + 1] = x
  BY AppendProperties DEF Line
<1> HIDE DEF t
<1>2. 1..Len(t) = 1..Len(s) \cup {Len(s) + 1}
  BY <1>1
<1>3. Members(t) = Members(s) \cup {x}
  BY <1>1, <1>2 DEF Members
<1>4. \A i \in 1..Len(s) : s[i] # x
  BY DEF Members
<1>5. Line(t, S)
  BY <1>1, <1>2, <1>4 DEF Line
<1> QED
  BY <1>1, <1>3, <1>5 DEF t

(* The tail of a line is a line without its head.                          *)
LEMMA LineLeft ==
  ASSUME NEW S, NEW s, Line(s, S), s # <<>>
  PROVE  Line(Tail(s), S) /\ Head(s) \in S /\ Members(s) = Members(Tail(s)) \cup {Head(s)} /\ Head(s) \notin Members(Tail(s))
<1> DEFINE t == Tail(s)
<1>1. /\ s \in Seq(S) /\ t \in Seq(S) /\ Len(s) \in Nat \ {0} /\ Len(t) = Len(s) - 1 /\ Head(s) = s[1] /\ Head(s) \in S
      /\ \A i \in 1..Len(t) : t[i] = s[i + 1]
  BY HeadTailProperties, EmptySeq DEF Line
<1> HIDE DEF t
<1>2. \A i \in 1..Len(t) : i + 1 \in 1..Len(s) /\ i + 1 # 1
  BY <1>1
<1>3. \A i \in 1..Len(s) : i = 1 \/ (i - 1 \in 1..Len(t) /\ i - 1 + 1 = i)
  BY <1>1
<1>4. Line(t, S)
  BY <1>1, <1>2 DEF Line
<1>5. Members(s) = Members(t) \cup {s[1]}
  <2>1. ASSUME NEW i \in 1..Len(s) PROVE s[i] \in Members(t) \cup {s[1]}
    <3>1. CASE i # 1
      <4>1. i - 1 \in 1..Len(t) /\ t[i - 1] = s[i]
        BY <1>1, <1>3, <3>1
      <4> QED BY <4>1 DEF Members
    <3> QED BY <3>1
  <2>2. ASSUME NEW i \in 1..Len(t) PROVE t[i] \in Members(s)
    BY <1>1, <1>2 DEF Members
  <2>3. s[1] \in Members(s)
    BY <1>1 DEF Members
  <2> QED BY <2>1, <2>2, <2>3 DEF Members
<1>6. s[1] \notin Members(t)
  BY <1>1, <1>2 DEF Members, Line
<1> QED
  BY <1>1, <1>4, <1>5, <1>6 DEF t

Joins(s, t, u) == Len(u) = Len(s) + Len(t) /\ \A i \in 1..Len(u) : u[i] = IF i <= Len(s) THEN s[i] ELSE t[i - Len(s)]

(* Two lines without a common element join to a line.                      *)
LEMMA LinesJoin ==
  ASSUME NEW S, NEW s, NEW t, Line(s, S), Line(t, S), Members(s) \cap Members(t) = {}, NEW u \in Seq(S), Joins(s, t, u)
  PROVE  Line(u, S) /\ Members(u) = Members(s) \cup Members(t)
<1>1. /\ Len(s) \in Nat /\ Len(t) \in Nat /\ Len(u) = Len(s) + Len(t)
      /\ \A i \in 1..Len(u) : u[i] = IF i <= Len(s) THEN s[i] ELSE t[i - Len(s)]
  BY DEF Line, Joins
<1>2. \A i \in 1..Len(u) : i \in 1..Len(s) \/ (i - Len(s) \in 1..Len(t) /\ ~ (i <= Len(s)))
  BY <1>1
<1>3. \A i \in 1..Len(t) : i + Len(s) \in 1..Len(u) /\ ~ (i + Len(s) <= Len(s)) /\ i + Len(s) - Len(s) = i
  BY <1>1
<1>4. \A i \in 1..Len(s) : i \in 1..Len(u) /\ i <= Len(s)
  BY <1>1
<1>5. Members(u) = Members(s) \cup Members(t)
  <2>1. ASSUME NEW i \in 1..Len(u) PROVE u[i] \in Members(s) \cup Members(t)
    BY <1>1, <1>2 DEF Members
  <2>2. ASSUME NEW i \in 1..Len(t) PROVE t[i] \in Members(u)
    BY <1>1, <1>3 DEF Members
  <2>3. ASSUME NEW i \in 1..Len(s) PROVE s[i] \in Members(u)
    BY <1>1, <1>4 DEF Members
  <2> QED BY <2>1, <2>2, <2>3 DEF Members
<1>6. \A i \in 1..Len(s), j \in 1..Len(t) : s[i] # t[j]
  BY DEF Members
<1>7. ASSUME NEW i \in 1..Len(u), NEW j \in 1..Len(u), u[i] = u[j] PROVE i = j
  <2>1. CASE i \in 1..Len(s) /\ j \in 1..Len(s)
    BY <1>1, <1>4, <1>7, <2>1 DEF Line
  <2>2. CASE i \notin 1..Len(s) /\ j \notin 1..Len(s)
    <3>1. i - Len(s) \in 1..Len(t) /\ j - Len(s) \in 1..Len(t) /\ t[i - Len(s)] = t[j - Len(s)]
      BY <1>1, <1>2, <1>7, <2>2
    <3>2. i - Len(s) = j - Len(s)
      BY <3>1 DEF Line
    <3> QED BY <1>1, <3>2
  <2>3. CASE i \in 1..Len(s) /\ j \notin 1..Len(s)
    BY <1>1, <1>2, <1>4, <1>6, <1>7, <2>3
  <2>4. CASE i \notin 1..Len(s) /\ j \in 1..Len(s)
    BY <1>1, <1>2, <1>4, <1>6, <1>7, <2>4
  <2> QED BY <2>1, <2>2, <2>3, <2>4
<1> QED
  BY <1>1, <1>5, <1>7 DEF Line

(* A finite set can be written as a line of its elements.                  *)
LEMMA SetsAreLines ==
  ASSUME NEW S, IsFiniteSet(S)
  PROVE  Line(Registry!SetToSeq(S), S) /\ Members(Registry!SetToSeq(S)) = S
<1> DEFINE n == Cardinality(S)
           s == Registry!SetToSeq(S)
<1>1. n \in Nat /\ ExistsBijection(1..n, S)
  BY FS_CardinalityType
<1>2. PICK f \in [1..n -> S] : (\A i, j \in 1..n : f[i] = f[j] => i = j) /\ \A x \in S : \E i \in 1..n : f[i] = x
  BY <1>1 DEF ExistsBijection, Bijection, Injection, Surjection, IsInjective
<1>3. s \in [1..n -> S] /\ \A i, j \in 1..n : s[i] = s[j] => i = j
  <2>1. s = CHOOSE g \in [1..n -> S] : Registry!IsInjective(g)
    BY RegistryCardinality DEF Registry!SetToSeq
  <2>2. Registry!IsInjective(f)
    BY <1>2 DEF Registry!IsInjective
  <2>3. s \in [1..n -> S] /\ Registry!IsInjective(s)
    BY <2>1, <2>2
  <2> QED BY <2>3 DEF Registry!IsInjective
<1> HIDE DEF s
<1>4. s \in Injection(1..n, S)
  BY <1>3 DEF Injection, IsInjective
<1>5. Cardinality(1..n) = n
  BY <1>1, FS_Interval
<1>6. s \in Surjection(1..n, S)
  BY <1>4, <1>5, FS_Injection
<1>7. s \in Seq(S) /\ Len(s) = n
  BY <1>1, <1>3
<1> QED
  BY <1>3, <1>6, <1>7 DEF Line, Members, Surjection, s

(* The first k nodes, and the first k edges, stand with each other.        *)
NodesStand(k) ==
    \A i, j \in 1..k : i # j => rows[i].id # rows[j].id /\ rows[i].claims \cap rows[j].claims = {}

Into(n, k) == {i \in 1..k : links[i].to = n}

EdgesStand(k) ==
    /\ \A i \in 1..k : {links[i].from, links[i].to} \subseteq Registry!Ids /\ links[i].carries \subseteq Registry!Row(links[i].from).claims
    /\ \A i, j \in 1..k : i # j /\ links[i].to = links[j].to => links[i].carries \cap links[j].carries = {}

Arrives(n, c, k) == \E i \in Into(n, k) : c \in links[i].carries

ReadingNodes ==
    /\ at <= Len(rows) /\ NodesStand(at)
    /\ \A i \in 1..at : \A c \in rows[i].claims : \E o \in owner : o.claim = c
    /\ incoming = {} /\ visited = <<>> /\ queue = <<>>

ReadingEdges ==
    /\ NodesStand(Len(rows)) /\ at <= Len(links) /\ EdgesStand(at)
    /\ \A n, c : c \in Registry!Received(n) <=> Arrives(n, c, at)
    /\ degree = [n \in Registry!Ids |-> Cardinality(Into(n, at))]
    /\ visited = <<>> /\ queue = <<>>

(* The edges to a node whose source has not been visited. *)
Ahead(n) == {i \in 1..Len(links) : links[i].to = n /\ links[i].from \notin Members(visited)}

Unwinding ==
    /\ NodesStand(Len(rows)) /\ EdgesStand(Len(links))
    /\ \A n \in Registry!Ids : \A c : c \in Registry!Row(n).inputs <=> Arrives(n, c, Len(links))
    /\ Line(visited, Registry!Ids) /\ Line(queue, Registry!Ids) /\ Members(visited) \cap Members(queue) = {}
    /\ degree = [n \in Registry!Ids |-> Cardinality(Ahead(n))]
    /\ \A n \in Members(visited) \cup Members(queue) : Ahead(n) = {}
    /\ \A i \in 1..Len(visited), k \in 1..Len(links) :
          links[k].to = visited[i] => \E j \in 1..Len(visited) : j < i /\ visited[j] = links[k].from

AnswerStands ==
    /\ answer.consumers \subseteq answer.down /\ (answer.up \cup answer.owner) \cap answer.down = {}
    /\ \A u \in answer.up, o \in answer.owner : Registry!Place(u) < Registry!Place(o) /\ o \in Registry!Closure(u, "down")
    /\ \A o \in answer.owner, e \in Registry!ToSet(links) :
          e.to \in answer.up \cup answer.owner => e.from \in answer.up

RegistryInv ==
    /\ Len(rows) \in Nat /\ DOMAIN rows = 1..Len(rows) /\ Len(links) \in Nat /\ DOMAIN links = 1..Len(links) /\ at \in Nat
    /\ phase \in {"nodes", "edges", "unwind", "pass", "fail"}
    /\ phase = "nodes" => ReadingNodes
    /\ phase = "edges" => ReadingEdges
    /\ phase \in {"unwind", "pass"} => Unwinding
    /\ phase = "pass" => Len(visited) = Cardinality(Registry!Ids)
    /\ IF phase = "pass" THEN AnswerStands ELSE answer = Registry!NoAnswer

(* An initial state of the registry satisfies the inductive invariant.     *)
LEMMA RegistryInit == Registry!Init => RegistryInv
<1> SUFFICES ASSUME Registry!Init PROVE RegistryInv
  OBVIOUS
<1>1. ASSUME NEW S, NEW n, NEW s \in Registry!SeqOf(S, n) PROVE Len(s) \in Nat /\ DOMAIN s = 1..Len(s)
  <2>1. PICK m \in 0..n : s \in [1..m -> S]
    BY DEF Registry!SeqOf
  <2>2. m \in Nat
    OBVIOUS
  <2>3. s \in Seq(S)
    BY <2>1, <2>2
  <2> QED BY <2>3
<1>2. Len(rows) \in Nat /\ DOMAIN rows = 1..Len(rows) /\ Len(links) \in Nat /\ DOMAIN links = 1..Len(links)
  BY <1>1 DEF Registry!Init
<1>3. 1..0 = {}
  OBVIOUS
<1> QED
  BY <1>2, <1>3 DEF Registry!Init, RegistryInv, ReadingNodes, NodesStand

(* Row finds the row that is so named. *)
LEMMA RowIsFound ==
  ASSUME DOMAIN rows = 1..Len(rows), NodesStand(Len(rows)), NEW i \in 1..Len(rows)
  PROVE  Registry!Row(rows[i].id) = rows[i]
<1>1. rows[i] \in Registry!ToSet(rows) /\ \A r \in Registry!ToSet(rows) : r.id = rows[i].id => r = rows[i]
  BY DEF Registry!ToSet, NodesStand
<1> QED
  BY <1>1 DEF Registry!Row

(* The registry has finitely many identifiers, as many as nodes when no two*)
(* nodes share one.                                                        *)
LEMMA IdsAreFinite ==
  ASSUME DOMAIN rows = 1..Len(rows), Len(rows) \in Nat
  PROVE  IsFiniteSet(Registry!Ids) /\ (NodesStand(Len(rows)) => Cardinality(Registry!Ids) = Len(rows))
<1> DEFINE n == Len(rows)
           f == [i \in 1..n |-> rows[i].id]
<1>1. f \in Surjection(1..n, Registry!Ids)
  BY DEF Surjection, Registry!Ids
<1>2. IsFiniteSet(1..n) /\ Cardinality(1..n) = n
  BY UpTo
<1>3. NodesStand(n) => f \in Injection(1..n, Registry!Ids)
  BY <1>1 DEF NodesStand, Injection, IsInjective, Surjection
<1> QED
  BY <1>1, <1>2, <1>3, FS_Surjection

(* Nothing that the invariant speaks of depends on more than the registry  *)
(* and, ahead of a node, on what has been visited.                         *)
LEMMA SameRegistry ==
  ASSUME UNCHANGED <<rows, links>>
  PROVE  /\ Registry!Ids' = Registry!Ids /\ Registry!ToSet(links)' = Registry!ToSet(links)
         /\ (NodesStand(Len(rows)) => NodesStand(Len(rows))') /\ (EdgesStand(Len(links)) => EdgesStand(Len(links))')
         /\ \A n : Registry!Row(n)' = Registry!Row(n)
         /\ \A n, c : Arrives(n, c, Len(links))' <=> Arrives(n, c, Len(links))
BY DEF Registry!Ids, NodesStand, EdgesStand, Registry!Row, Registry!ToSet, Into, Arrives

(* The nodes that no edge leads to are ready to be visited.                *)
LEMMA HandoffKeeps == ASSUME RegistryInv, Registry!Handoff PROVE RegistryInv'
<1>1. /\ phase = "edges" /\ at = Len(links) /\ ReadingEdges /\ UNCHANGED <<rows, links, at, answer>>
      /\ answer = Registry!NoAnswer /\ IsFiniteSet(Registry!Ids) /\ IsFiniteSet(1..Len(links))
      /\ Len(links) \in Nat
  BY IdsAreFinite, UpTo DEF RegistryInv, Registry!Handoff, Registry!Fail
<1>2. CASE ~ Registry!HandedOver
  BY <1>1, <1>2 DEF RegistryInv, Registry!Handoff, Registry!Fail
<1>3. CASE Registry!HandedOver
  <2> DEFINE Roots == {n \in Registry!Ids : degree[n] = 0}
  <2>1. phase' = "unwind" /\ queue' = Registry!SetToSeq(Roots) /\ UNCHANGED <<degree, visited>>
    BY <1>3 DEF Registry!Handoff
  <2>2. visited = <<>> /\ Members(visited) = {} /\ Line(visited, Registry!Ids)
    BY <1>1 DEF ReadingEdges, Members, Line
  <2>3. ASSUME NEW n PROVE Ahead(n) = Into(n, Len(links)) /\ IsFiniteSet(Ahead(n))
    <3>1. Ahead(n) = Into(n, Len(links))
      BY <2>2 DEF Ahead, Into
    <3>2. Ahead(n) \subseteq 1..Len(links)
      BY DEF Ahead
    <3> QED BY <1>1, <3>1, <3>2, FS_Subset
  <2>4. degree = [n \in Registry!Ids |-> Cardinality(Ahead(n))]
    BY <1>1, <2>3 DEF ReadingEdges
  <2>5. Line(queue', Registry!Ids) /\ Members(queue') = Roots
    <3>1. IsFiniteSet(Roots) /\ Roots \subseteq Registry!Ids
      BY <1>1, FS_Subset
    <3>2. Line(queue', Roots) /\ Members(queue') = Roots
      BY <2>1, <3>1, SetsAreLines
    <3>3. queue' \in Seq(Registry!Ids)
      <4>1. queue' \in Seq(Roots)
        BY <3>2 DEF Line
      <4> QED BY <3>1, <4>1
    <3> QED BY <3>2, <3>3 DEF Line
  <2>6. \A n \in Roots : Ahead(n) = {}
    <3>1. \A n \in Roots : Cardinality(Ahead(n)) = 0
      BY <2>4
    <3> QED BY <2>3, <3>1, FS_EmptySet
  <2>7. \A n \in Registry!Ids : \A c : c \in Registry!Row(n).inputs <=> Arrives(n, c, Len(links))
    BY <1>1, <1>3 DEF ReadingEdges, Registry!HandedOver
  <2>8. \A n : Ahead(n)' = Ahead(n)
    BY <1>1, <2>1 DEF Ahead
  <2>9. Unwinding'
    <3>1. NodesStand(Len(rows))' /\ EdgesStand(Len(links))'
      BY <1>1, SameRegistry DEF ReadingEdges
    <3>2. (\A n \in Registry!Ids : \A c : c \in Registry!Row(n).inputs <=> Arrives(n, c, Len(links)))'
      BY <1>1, <2>7, SameRegistry
    <3>3. Registry!Ids' = Registry!Ids
      BY <1>1, SameRegistry
    <3>4. (Line(visited, Registry!Ids) /\ Line(queue, Registry!Ids) /\ Members(visited) \cap Members(queue) = {})'
      BY <2>1, <2>2, <2>5, <3>3 DEF Line, Members
    <3>5. (degree = [n \in Registry!Ids |-> Cardinality(Ahead(n))])'
      BY <2>1, <2>4, <2>8, <3>3
    <3>6. (\A n \in Members(visited) \cup Members(queue) : Ahead(n) = {})'
      <4>1. Members(visited)' = {} /\ Members(queue)' = Roots
        BY <2>1, <2>2, <2>5 DEF Members
      <4> QED BY <4>1, <2>6, <2>8
    <3>7. Len(visited)' = 0
      BY <2>1, <2>2
    <3> QED BY <3>1, <3>2, <3>4, <3>5, <3>6, <3>7 DEF Unwinding
  <2> QED BY <1>1, <2>1, <2>9 DEF RegistryInv
<1> QED
  BY <1>2, <1>3

(* A visited node leaves its targets with as many edges fewer.             *)
LEMMA VisitKeeps == ASSUME RegistryInv, Registry!Visit PROVE RegistryInv'
<1> DEFINE n == Head(queue)
           Ids_ == Registry!Ids
           Out(m) == {i \in DOMAIN links : links[i].from = n /\ links[i].to = m}
           left == [m \in Registry!Ids |-> degree[m] - Registry!EdgesBetween(n, m)]
           New == {m \in Registry!Ids : degree[m] > 0 /\ left[m] = 0}
<1>1. /\ phase = "unwind" /\ Unwinding /\ UNCHANGED <<rows, links, phase, at, answer>>
      /\ queue # <<>> /\ visited' = Append(visited, n) /\ degree' = left
      /\ queue' = Tail(queue) \o Registry!SetToSeq(New)
      /\ IsFiniteSet(Registry!Ids) /\ IsFiniteSet(1..Len(links)) /\ Len(links) \in Nat /\ DOMAIN links = 1..Len(links)
  BY IdsAreFinite, UpTo DEF RegistryInv, Registry!Visit
<1>2. /\ Line(Tail(queue), Ids_) /\ n \in Ids_ /\ Members(queue) = Members(Tail(queue)) \cup {n}
      /\ n \notin Members(Tail(queue)) /\ n \notin Members(visited)
  BY <1>1, LineLeft DEF Unwinding
<1>3. /\ Line(visited', Ids_) /\ Members(visited') = Members(visited) \cup {n} /\ Len(visited') = Len(visited) + 1
      /\ visited'[Len(visited) + 1] = n /\ \A i \in 1..Len(visited) : visited'[i] = visited[i]
  BY <1>1, <1>2, LineGrows DEF Unwinding
<1>4. ASSUME NEW m
      PROVE  /\ Ahead(m)' = Ahead(m) \ Out(m) /\ Out(m) \subseteq Ahead(m)
             /\ IsFiniteSet(Ahead(m)) /\ IsFiniteSet(Out(m)) /\ IsFiniteSet(Ahead(m)')
  <2>1. Ahead(m) \subseteq 1..Len(links) /\ Out(m) \subseteq Ahead(m)
    BY <1>1, <1>2 DEF Ahead
  <2>2. Members(visited)' = Members(visited) \cup {n}
    BY <1>3 DEF Members
  <2>3. Ahead(m)' = {i \in 1..Len(links) : links[i].to = m /\ links[i].from \notin Members(visited) \cup {n}}
    BY <1>1, <2>2 DEF Ahead
  <2>4. Ahead(m)' = Ahead(m) \ Out(m)
    BY <1>1, <2>3 DEF Ahead
  <2>5. IsFiniteSet(Ahead(m))
    BY <1>1, <2>1, FS_Subset
  <2> QED BY <2>1, <2>4, <2>5, FS_Subset
<1>5. ASSUME NEW m \in Ids_ PROVE degree[m] = Cardinality(Ahead(m)) /\ left[m] = Cardinality(Ahead(m)')
  <2>1. degree[m] = Cardinality(Ahead(m))
    BY <1>1 DEF Unwinding
  <2>2. Registry!EdgesBetween(n, m) = Cardinality(Out(m))
    BY RegistryCardinality DEF Registry!EdgesBetween
  <2>3. Cardinality(Ahead(m) \ Out(m)) = Cardinality(Ahead(m)) - Cardinality(Ahead(m) \cap Out(m))
    BY <1>4, FS_Difference
  <2>4. Ahead(m) \cap Out(m) = Out(m)
    BY <1>4
  <2> HIDE DEF Out
  <2>5. Cardinality(Ahead(m)') = Cardinality(Ahead(m) \ Out(m))
    BY <1>4
  <2>6. Cardinality(Ahead(m)') = Cardinality(Ahead(m)) - Cardinality(Out(m))
    BY <2>3, <2>4, <2>5
  <2> QED BY <2>1, <2>2, <2>6
<1>6. \A m \in New : Ahead(m)' = {} /\ Ahead(m) # {}
  <2>1. ASSUME NEW m \in New PROVE Ahead(m)' = {} /\ Ahead(m) # {}
    <3>1. Cardinality(Ahead(m)') = 0 /\ Cardinality(Ahead(m)) > 0
      BY <1>5
    <3>2. \A S : IsFiniteSet(S) => (Cardinality(S) = 0 <=> S = {})
      BY FS_EmptySet
    <3>3. Ahead(m)' = {}
      BY <1>4, <3>1, <3>2
    <3>4. Cardinality(Ahead(m)) # 0
      BY <3>1
    <3> QED BY <1>4, <3>2, <3>3, <3>4
  <2> QED BY <2>1
<1>7. New \cap (Members(visited) \cup Members(queue)) = {}
  BY <1>1, <1>6 DEF Unwinding
<1> HIDE DEF n, left, New, Out
<1>8. Line(Registry!SetToSeq(New), Ids_) /\ Members(Registry!SetToSeq(New)) = New
  <2>1. New \subseteq Ids_ /\ IsFiniteSet(New)
    BY <1>1, FS_Subset DEF New
  <2>2. Line(Registry!SetToSeq(New), New) /\ Members(Registry!SetToSeq(New)) = New
    BY <2>1, SetsAreLines
  <2>3. Registry!SetToSeq(New) \in Seq(New)
    BY <2>2 DEF Line
  <2>4. Registry!SetToSeq(New) \in Seq(Ids_)
    BY <2>1, <2>3
  <2> QED BY <2>2, <2>4 DEF Line
<1>9. Line(queue', Ids_) /\ Members(queue') = Members(Tail(queue)) \cup New
  <2>1. Members(Tail(queue)) \cap New = {}
    BY <1>2, <1>7
  <2> DEFINE t == Registry!SetToSeq(New)
  <2>2. Tail(queue) \in Seq(Ids_) /\ t \in Seq(Ids_)
    BY <1>2, <1>8 DEF Line
  <2> HIDE DEF t
  <2>3. queue' \in Seq(Ids_) /\ Joins(Tail(queue), t, queue')
    BY <1>1, <2>2, ConcatProperties DEF Joins, t
  <2>4. Line(queue', Ids_) /\ Members(queue') = Members(Tail(queue)) \cup Members(t)
    BY <1>2, <1>8, <2>1, <2>3, LinesJoin DEF t
  <2> QED BY <1>8, <2>4 DEF t
<1>10. Registry!Ids' = Ids_
  BY <1>1, SameRegistry
<1>11. Unwinding'
  <2>1. NodesStand(Len(rows))' /\ EdgesStand(Len(links))'
    BY <1>1, SameRegistry DEF Unwinding
  <2>2. (\A m \in Registry!Ids : \A c : c \in Registry!Row(m).inputs <=> Arrives(m, c, Len(links)))'
    BY <1>1, SameRegistry DEF Unwinding
  <2>3. (Line(visited, Registry!Ids) /\ Line(queue, Registry!Ids))'
    BY <1>3, <1>9, <1>10 DEF Line
  <2>4. Members(visited)' = Members(visited) \cup {n} /\ Members(queue)' = Members(Tail(queue)) \cup New
    BY <1>3, <1>9 DEF Members
  <2>5. (Members(visited) \cap Members(queue) = {})'
    BY <1>1, <1>2, <1>7, <2>4 DEF Unwinding
  <2>6. (degree = [m \in Registry!Ids |-> Cardinality(Ahead(m))])'
    <3>1. left = [m \in Ids_ |-> Cardinality(Ahead(m)')]
      BY <1>5 DEF left
    <3> QED BY <1>1, <1>10, <3>1
  <2>7. ASSUME NEW m \in Members(visited)' \cup Members(queue)' PROVE Ahead(m)' = {}
    <3>1. CASE m \in New
      BY <1>6, <3>1
    <3>2. CASE m \notin New
      <4>1. m \in Members(visited) \cup Members(queue)
        BY <1>2, <2>4, <2>7, <3>2
      <4>2. Ahead(m) = {}
        BY <1>1, <4>1 DEF Unwinding
      <4> QED BY <1>4, <4>2
    <3> QED BY <3>1, <3>2
  <2>8. ASSUME NEW i \in 1..Len(visited'), NEW k \in 1..Len(links), links[k].to = visited'[i]
        PROVE  \E j \in 1..Len(visited') : j < i /\ visited'[j] = links[k].from
    <3>1. Len(visited) \in Nat
      BY <1>1 DEF Unwinding, Line
    <3>2. CASE i \in 1..Len(visited)
      <4>1. PICK j \in 1..Len(visited) : j < i /\ visited[j] = links[k].from
        BY <1>1, <1>3, <2>8, <3>2 DEF Unwinding
      <4> QED BY <1>3, <3>1, <4>1
    <3>3. CASE i = Len(visited) + 1
      <4>1. k \notin Ahead(n) /\ links[k].to = n
        <5>1. n \in Members(queue)
          BY <1>2
        <5> QED BY <1>1, <1>3, <2>8, <3>3, <5>1 DEF Unwinding
      <4>2. links[k].from \in Members(visited)
        BY <4>1 DEF Ahead
      <4>3. PICK j \in 1..Len(visited) : visited[j] = links[k].from
        BY <4>2 DEF Members
      <4> QED BY <1>3, <3>1, <3>3, <4>3
    <3> QED BY <1>3, <3>1, <3>2, <3>3
  <2> QED BY <1>1, <2>1, <2>2, <2>3, <2>5, <2>6, <2>7, <2>8 DEF Unwinding
<1> QED
  BY <1>1, <1>11 DEF RegistryInv

(* What the topological order rests on stays while its state does.         *)
LEMMA UnwindingStays ==
  ASSUME Unwinding, UNCHANGED <<rows, links, degree, queue, visited>> PROVE Unwinding'
<1>1. \A n : Ahead(n)' = Ahead(n)
  BY DEF Ahead, Members
<1>2. /\ NodesStand(Len(rows))' /\ EdgesStand(Len(links))' /\ Registry!Ids' = Registry!Ids
      /\ (\A m \in Registry!Ids : \A c : c \in Registry!Row(m).inputs <=> Arrives(m, c, Len(links)))'
  BY SameRegistry DEF Unwinding
<1>3. Members(visited)' = Members(visited) /\ Members(queue)' = Members(queue)
  BY DEF Members
<1> QED
  BY <1>1, <1>2, <1>3 DEF Unwinding, Line

(* Concluding the validation keeps the invariant of the registry.          *)
LEMMA ConcludeKeeps == ASSUME RegistryInv, Registry!Conclude PROVE RegistryInv'
<1>1. /\ phase = "unwind" /\ Unwinding /\ UNCHANGED <<rows, links, at, owner, incoming, degree, queue, visited, answer>>
      /\ answer = Registry!NoAnswer /\ phase' = IF Registry!Unwound THEN "pass" ELSE "fail"
  BY DEF RegistryInv, Registry!Conclude
<1>2. Unwinding' /\ Registry!Ids' = Registry!Ids
  BY <1>1, UnwindingStays, SameRegistry
<1>3. Registry!Unwound => Len(visited) = Cardinality(Registry!Ids)
  BY RegistryCardinality DEF Registry!Unwound
<1>4. AnswerStands'
  BY <1>1 DEF AnswerStands, Registry!NoAnswer
<1> QED
  BY <1>1, <1>2, <1>3, <1>4 DEF RegistryInv

(* A claim has one owner. *)
LEMMA OwnerIsOne ==
  ASSUME RegistryInv, NodesStand(Len(rows)), NEW m \in Registry!Ids, NEW n \in Registry!Ids,
         NEW c \in Registry!Row(m).claims, c \in Registry!Row(n).claims
  PROVE  m = n
<1>1. DOMAIN rows = 1..Len(rows)
  BY DEF RegistryInv
<1>2. PICK i \in 1..Len(rows), j \in 1..Len(rows) : rows[i].id = m /\ rows[j].id = n
  BY <1>1 DEF Registry!Ids
<1>3. Registry!Row(m) = rows[i] /\ Registry!Row(n) = rows[j]
  BY <1>1, <1>2, RowIsFound
<1>4. rows[i].claims \cap rows[j].claims # {}
  BY <1>3
<1> QED
  BY <1>2, <1>4 DEF NodesStand

(***************************************************************************)
(* When as many nodes have been visited as there are, the order is of all  *)
(* of them and every edge goes forward in it.                              *)
(***************************************************************************)
LEMMA EdgesGoForward ==
  ASSUME RegistryInv, phase = "pass"
  PROVE  /\ Unwinding /\ Members(visited) = Registry!Ids
         /\ \A n \in Registry!Ids : Registry!Place(n) \in 1..Len(visited) /\ visited[Registry!Place(n)] = n
         /\ \A k \in 1..Len(links) : /\ links[k].from \in Registry!Ids /\ links[k].to \in Registry!Ids
                                     /\ Registry!Place(links[k].from) < Registry!Place(links[k].to)
<1>1. /\ Unwinding /\ Len(visited) = Cardinality(Registry!Ids) /\ IsFiniteSet(Registry!Ids)
      /\ visited \in Seq(Registry!Ids) /\ Len(visited) \in Nat
  BY IdsAreFinite DEF RegistryInv, Unwinding, Line
<1>2. Members(visited) = Registry!Ids
  <2>1. visited \in Injection(1..Len(visited), Registry!Ids)
    BY <1>1 DEF Unwinding, Line, Injection, IsInjective
  <2>2. Cardinality(1..Len(visited)) = Cardinality(Registry!Ids)
    BY <1>1, UpTo
  <2>3. visited \in Surjection(1..Len(visited), Registry!Ids)
    BY <1>1, <2>1, <2>2, FS_Injection
  <2> QED BY <2>3 DEF Surjection, Members
<1>3. ASSUME NEW n \in Registry!Ids PROVE Registry!Place(n) \in 1..Len(visited) /\ visited[Registry!Place(n)] = n
  <2>1. \E i \in 1..Len(visited) : visited[i] = n
    BY <1>2 DEF Members
  <2>2. DOMAIN visited = 1..Len(visited)
    BY <1>1
  <2> QED BY <2>1, <2>2 DEF Registry!Place
<1>4. ASSUME NEW k \in 1..Len(links)
      PROVE  links[k].from \in Registry!Ids /\ links[k].to \in Registry!Ids /\ Registry!Place(links[k].from) < Registry!Place(links[k].to)
  <2>1. links[k].from \in Registry!Ids /\ links[k].to \in Registry!Ids
    BY <1>1 DEF Unwinding, EdgesStand
  <2> DEFINE i == Registry!Place(links[k].to)
  <2>2. i \in 1..Len(visited) /\ visited[i] = links[k].to
    BY <1>3, <2>1
  <2>3. PICK j \in 1..Len(visited) : j < i /\ visited[j] = links[k].from
    BY <1>1, <2>2 DEF Unwinding
  <2>4. Registry!Place(links[k].from) = j
    BY <1>1, <1>3, <2>1, <2>3 DEF Unwinding, Line
  <2> QED BY <2>1, <2>3, <2>4
<1> QED
  BY <1>1, <1>2, <1>3, <1>4

(***************************************************************************)
(* What lies up the edges comes before a node, what lies down comes after  *)
(* it, and whoever is up of a node has it down.                            *)
(***************************************************************************)
LEMMA ClosuresStand ==
  ASSUME RegistryInv, phase = "pass", NEW o \in Registry!Ids
  PROVE  /\ \A u \in Registry!Closure(o, "up") : u \in Registry!Ids /\ Registry!Place(u) < Registry!Place(o)
         /\ \A d \in Registry!Closure(o, "down") : d \in Registry!Ids /\ Registry!Place(o) < Registry!Place(d)
         /\ \A u \in Registry!Closure(o, "up") : o \in Registry!Closure(u, "down")
         /\ \A e \in Registry!ToSet(links) : e.to \in Registry!Closure(o, "up") \cup {o} => e.from \in Registry!Closure(o, "up")
         /\ \A e \in Registry!ToSet(links) : e.from = o => e.to \in Registry!Closure(o, "down")
<1>0. Len(links) \in Nat /\ DOMAIN links = 1..Len(links)
  BY DEF RegistryInv
<1>1. \A x : x \in Registry!ToSet(links) <=> \E k \in 1..Len(links) : x = links[k]
  BY <1>0 DEF Registry!ToSet
<1>2. \A e \in Registry!ToSet(links) : e.from \in Registry!Ids /\ e.to \in Registry!Ids /\ Registry!Place(e.from) < Registry!Place(e.to)
  BY <1>1, EdgesGoForward
<1>3. \A n \in Registry!Ids : Registry!Place(n) \in Int
  <2>1. \A n \in Registry!Ids : Registry!Place(n) \in 1..Len(visited)
    BY EdgesGoForward
  <2> QED BY <2>1
<1>4. \A f, x : x \in Registry!Along(f, "up") <=> \E e \in Registry!ToSet(links) : e.to \in f /\ x = e.from
  BY DEF Registry!Along
<1>5. \A f, x : x \in Registry!Along(f, "down") <=> \E e \in Registry!ToSet(links) : e.from \in f /\ x = e.to
  BY DEF Registry!Along
<1>6. ASSUME NEW s
      PROVE  /\ Registry!Along(Registry!Closure(s, "up") \cup {s}, "up") \subseteq Registry!Closure(s, "up")
             /\ Registry!Along(Registry!Closure(s, "down") \cup {s}, "down") \subseteq Registry!Closure(s, "down")
             /\ \A T : Registry!Along(T \cup {s}, "up") \subseteq T => Registry!Closure(s, "up") \subseteq T
             /\ \A T : Registry!Along(T \cup {s}, "down") \subseteq T => Registry!Closure(s, "down") \subseteq T
  BY <1>0, ClosureIsLeast
<1>7. \A u \in Registry!Closure(o, "up") : u \in Registry!Ids /\ Registry!Place(u) < Registry!Place(o)
  <2> DEFINE T == {n \in Registry!Ids : Registry!Place(n) < Registry!Place(o)}
  <2>1. \A e \in Registry!ToSet(links) : e.to \in T \cup {o} => e.from \in T
    BY <1>2, <1>3
  <2>2. Registry!Along(T \cup {o}, "up") \subseteq T
    BY <1>4, <2>1
  <2> QED BY <1>6, <2>2
<1>8. \A d \in Registry!Closure(o, "down") : d \in Registry!Ids /\ Registry!Place(o) < Registry!Place(d)
  <2> DEFINE T == {n \in Registry!Ids : Registry!Place(o) < Registry!Place(n)}
  <2>1. \A e \in Registry!ToSet(links) : e.from \in T \cup {o} => e.to \in T
    BY <1>2, <1>3
  <2>2. Registry!Along(T \cup {o}, "down") \subseteq T
    BY <1>5, <2>1
  <2> QED BY <1>6, <2>2
<1>9. \A u \in Registry!Closure(o, "up") : o \in Registry!Closure(u, "down")
  <2> DEFINE T == {n \in Registry!Ids : o \in Registry!Closure(n, "down")}
  <2>1. ASSUME NEW e \in Registry!ToSet(links), e.to \in T \cup {o} PROVE e.from \in T
    <3> DEFINE D == Registry!Closure(e.from, "down")
    <3>1. e.to \in D /\ \A x \in Registry!ToSet(links) : x.from \in D => x.to \in D
      BY <1>5, <1>6
    <3>2. Registry!Along(D \cup {e.to}, "down") \subseteq D
      BY <1>5, <3>1
    <3>3. Registry!Closure(e.to, "down") \subseteq D
      BY <1>6, <3>2
    <3> QED BY <1>2, <2>1, <3>1, <3>3
  <2>2. Registry!Along(T \cup {o}, "up") \subseteq T
    BY <1>4, <2>1
  <2> QED BY <1>6, <2>2
<1>10. \A e \in Registry!ToSet(links) : e.to \in Registry!Closure(o, "up") \cup {o} => e.from \in Registry!Closure(o, "up")
  BY <1>4, <1>6
<1>11. \A e \in Registry!ToSet(links) : e.from = o => e.to \in Registry!Closure(o, "down")
  BY <1>5, <1>6
<1> QED
  BY <1>7, <1>8, <1>9, <1>10, <1>11

(* Closures and places depend on the nodes, the edges and the order alone. *)
LEMMA AnswersStay ==
  ASSUME UNCHANGED <<rows, links, visited>>
  PROVE  /\ \A n : Registry!Place(n)' = Registry!Place(n)
         /\ \A n, way : Registry!Closure(n, way)' = Registry!Closure(n, way)
         /\ Registry!ToSet(links)' = Registry!ToSet(links)
BY DEF Registry!Place, Registry!Closure, Registry!Along, Registry!ToSet

(* A lineage query keeps the invariant.                                    *)
LEMMA QueryKeeps == ASSUME RegistryInv, NEW c, Registry!Query(c) PROVE RegistryInv'
<1> DEFINE o == CHOOSE n \in Registry!Ids : c \in Registry!Row(n).claims
           up == Registry!Closure(o, "up")
           down == Registry!Closure(o, "down")
           using == {e.to : e \in {x \in Registry!ToSet(links) : c \in x.carries}}
<1>1. /\ phase = "pass" /\ o \in Registry!Ids /\ c \in Registry!Row(o).claims
      /\ answer' = [owner |-> {o}, up |-> up, down |-> down, consumers |-> using]
      /\ UNCHANGED <<rows, links, phase, at, owner, incoming, degree, queue, visited>>
  BY DEF Registry!Query
<1>2. /\ answer'.owner = {o} /\ answer'.up = up /\ answer'.down = down /\ answer'.consumers = using
  BY <1>1
<1>3. /\ \A u \in up : u \in Registry!Ids /\ Registry!Place(u) < Registry!Place(o)
      /\ \A d \in down : d \in Registry!Ids /\ Registry!Place(o) < Registry!Place(d)
      /\ \A u \in up : o \in Registry!Closure(u, "down")
      /\ \A e \in Registry!ToSet(links) : e.to \in up \cup {o} => e.from \in up
      /\ \A e \in Registry!ToSet(links) : e.from = o => e.to \in down
  BY <1>1, ClosuresStand
<1>4. using \subseteq down
  <2>1. ASSUME NEW e \in Registry!ToSet(links), c \in e.carries PROVE e.to \in down
    <3>1. PICK k \in 1..Len(links) : e = links[k]
      BY DEF RegistryInv, Registry!ToSet
    <3>2. Unwinding
      BY <1>1 DEF RegistryInv
    <3>3. e.from \in Registry!Ids /\ c \in Registry!Row(e.from).claims
      BY <2>1, <3>1, <3>2 DEF Unwinding, EdgesStand
    <3>4. e.from = o
      BY <1>1, <3>2, <3>3, OwnerIsOne DEF Unwinding
    <3> QED BY <1>3, <3>4
  <2> QED BY <2>1
<1>5. \A n \in Registry!Ids : Registry!Place(n) \in Int
  <2>1. \A n \in Registry!Ids : Registry!Place(n) \in 1..Len(visited)
    BY <1>1, EdgesGoForward
  <2> QED BY <2>1
<1> HIDE DEF o, up, down, using
<1>6. (up \cup {o}) \cap down = {}
  <2>1. \A u \in up \cup {o}, d \in down : u # d
    BY <1>1, <1>3, <1>5
  <2> QED BY <2>1
<1>7. AnswerStands'
  BY <1>1, <1>2, <1>3, <1>4, <1>6, AnswersStay DEF AnswerStands
<1>8. Unwinding'
  BY <1>1, UnwindingStays DEF RegistryInv
<1>9. Registry!Ids' = Registry!Ids
  BY <1>1, SameRegistry
<1> QED
  BY <1>1, <1>7, <1>8, <1>9 DEF RegistryInv

(* A stutter keeps the invariant.                                          *)
LEMMA StandingStill == ASSUME RegistryInv, UNCHANGED Registry!vars PROVE RegistryInv'
<1>1. UNCHANGED <<rows, links, phase, at, owner, incoming, degree, queue, visited, answer>>
  BY DEF Registry!vars
<1>2. Registry!Ids' = Registry!Ids /\ \A n, c : Arrives(n, c, at)' <=> Arrives(n, c, at)
  BY <1>1 DEF Registry!Ids, Arrives, Into
<1>3. phase = "nodes" => ReadingNodes'
  BY <1>1 DEF RegistryInv, ReadingNodes, NodesStand
<1>4. phase = "edges" => ReadingEdges'
  <2> SUFFICES ASSUME ReadingEdges PROVE ReadingEdges'
    BY DEF RegistryInv
  <2>1. NodesStand(Len(rows))' /\ EdgesStand(at)'
    BY <1>1, SameRegistry DEF ReadingEdges, NodesStand, EdgesStand
  <2>2. (\A n, c : c \in Registry!Received(n) <=> Arrives(n, c, at))'
    BY <1>1, <1>2 DEF ReadingEdges, Registry!Received
  <2>3. (degree = [n \in Registry!Ids |-> Cardinality(Into(n, at))])'
    BY <1>1, <1>2 DEF ReadingEdges, Into
  <2> QED BY <1>1, <2>1, <2>2, <2>3 DEF ReadingEdges
<1>5. phase \in {"unwind", "pass"} => Unwinding'
  BY <1>1, UnwindingStays DEF RegistryInv
<1>6. AnswerStands => AnswerStands'
  BY <1>1, AnswersStay DEF AnswerStands
<1> QED
  BY <1>1, <1>2, <1>3, <1>4, <1>5, <1>6 DEF RegistryInv

(***************************************************************************)
(* Each step keeps the invariant: a row stands with those read before it,  *)
(* and a node is queued when the last of its sources has been visited.     *)
(***************************************************************************)
LEMMA RegistryStep == RegistryInv /\ [Registry!Next]_Registry!vars => RegistryInv'
<1> SUFFICES ASSUME RegistryInv, [Registry!Next]_Registry!vars PROVE RegistryInv'
  OBVIOUS
<1>0. /\ Len(rows) \in Nat /\ DOMAIN rows = 1..Len(rows) /\ Len(links) \in Nat /\ DOMAIN links = 1..Len(links) /\ at \in Nat
      /\ IsFiniteSet(Registry!Ids) /\ IsFiniteSet(1..Len(links))
  BY IdsAreFinite, UpTo DEF RegistryInv
<1>1. UNCHANGED <<rows, links>>
  BY DEF Registry!Next, Registry!vars, Registry!ReadNode, Registry!StartEdges, Registry!ReadEdge, Registry!Handoff, Registry!Visit,
         Registry!Conclude, Registry!Query, Registry!Fail
<1>2. /\ Registry!Ids' = Registry!Ids
      /\ \A k : (NodesStand(k)' <=> NodesStand(k)) /\ (EdgesStand(k)' <=> EdgesStand(k))
      /\ \A n : Registry!Row(n)' = Registry!Row(n)
      /\ \A n, k : Into(n, k)' = Into(n, k)
  BY <1>1 DEF Registry!Ids, NodesStand, EdgesStand, Registry!Row, Registry!ToSet, Into
<1>3. \A n, c, k : Arrives(n, c, k)' <=> Arrives(n, c, k)
  BY <1>1, <1>2 DEF Arrives
<1>4. CASE Registry!Fail /\ phase \in {"nodes", "edges"}
  BY <1>4 DEF Registry!Fail, RegistryInv
<1>5. CASE Registry!ReadNode
  <2> DEFINE r == rows[at + 1]
  <2>1. phase = "nodes" /\ at < Len(rows) /\ ReadingNodes
    BY <1>5 DEF Registry!ReadNode, RegistryInv
  <2>2. CASE ~ Registry!NodeStands(r)
    BY <1>4, <1>5, <2>1, <2>2 DEF Registry!ReadNode
  <2>3. CASE Registry!NodeStands(r)
    <3>1. /\ at' = at + 1 /\ owner' = owner \cup {[claim |-> c, node |-> r.id] : c \in r.claims}
          /\ UNCHANGED <<phase, incoming, visited, queue, answer>>
      BY <1>5, <2>3 DEF Registry!ReadNode
    <3>2. 1..(at + 1) = 1..at \cup {at + 1} /\ at + 1 <= Len(rows) /\ at + 1 \in Nat
      BY <1>0, <2>1
    <3>3. \A i \in 1..at : rows[i].id # r.id /\ rows[i].claims \cap r.claims = {}
      BY <2>1, <2>3 DEF ReadingNodes, Registry!NodeStands, Registry!Read, Registry!Unowned
    <3>4. NodesStand(at + 1)
      BY <2>1, <3>2, <3>3 DEF ReadingNodes, NodesStand
    <3>5. \A i \in 1..(at + 1) : \A c \in rows[i].claims : \E o \in owner' : o.claim = c
      <4>1. ASSUME NEW i \in 1..at, NEW c \in rows[i].claims PROVE \E o \in owner' : o.claim = c
        BY <2>1, <3>1 DEF ReadingNodes
      <4>2. ASSUME NEW c \in r.claims PROVE \E o \in owner' : o.claim = c
        <5>1. [claim |-> c, node |-> r.id] \in owner'
          BY <3>1
        <5> QED BY <5>1
      <4> QED BY <3>2, <4>1, <4>2
    <3>6. NodesStand(at)'
      BY <1>1, <3>1, <3>4 DEF NodesStand
    <3>7. ReadingNodes'
      BY <1>1, <2>1, <3>1, <3>2, <3>5, <3>6 DEF ReadingNodes, NodesStand
    <3> QED BY <1>1, <2>1, <3>1, <3>2, <3>7 DEF RegistryInv
  <2> QED BY <2>2, <2>3
<1>6. CASE Registry!StartEdges
  <2>1. /\ phase = "nodes" /\ at = Len(rows) /\ phase' = "edges" /\ at' = 0 /\ degree' = [n \in Registry!Ids |-> 0]
        /\ UNCHANGED <<incoming, visited, queue, answer>>
    BY <1>6 DEF Registry!StartEdges
  <2>2. ReadingNodes
    BY <2>1 DEF RegistryInv
  <2>3. NodesStand(Len(rows))'
    BY <1>1, <2>1, <2>2 DEF ReadingNodes, NodesStand
  <2>4. \A n : Into(n, 0) = {} /\ Cardinality({}) = 0
    BY FS_EmptySet DEF Into
  <2>5. degree' = [n \in Registry!Ids' |-> Cardinality(Into(n, 0)')]
    BY <1>2, <2>1, <2>4
  <2>6. EdgesStand(0)'
    BY <2>1 DEF EdgesStand
  <2>7. \A n, c : (c \in Registry!Received(n) <=> Arrives(n, c, 0))'
    BY <1>1, <2>1, <2>2, <2>4 DEF Registry!Received, Arrives, ReadingNodes, Into
  <2>8. ReadingEdges'
    BY <1>0, <1>1, <2>1, <2>2, <2>3, <2>5, <2>6, <2>7 DEF ReadingEdges, ReadingNodes, Into, Arrives, EdgesStand
  <2> QED BY <1>0, <1>1, <2>1, <2>8 DEF RegistryInv
<1>7. CASE Registry!ReadEdge
  <2> DEFINE e == links[at + 1]
  <2>1. phase = "edges" /\ at < Len(links) /\ ReadingEdges
    BY <1>7 DEF Registry!ReadEdge, RegistryInv
  <2>2. CASE ~ Registry!EdgeStands(e)
    BY <1>4, <1>7, <2>1, <2>2 DEF Registry!ReadEdge
  <2>3. CASE Registry!EdgeStands(e)
    <3>1. /\ at' = at + 1 /\ incoming' = incoming \cup {[node |-> e.to, claim |-> c] : c \in e.carries}
          /\ degree' = [degree EXCEPT ![e.to] = @ + 1]
          /\ UNCHANGED <<phase, visited, queue, answer>>
      BY <1>7, <2>3 DEF Registry!ReadEdge
    <3>2. 1..(at + 1) = 1..at \cup {at + 1} /\ at + 1 <= Len(links) /\ at + 1 \in Nat /\ at + 1 \notin 1..at
      BY <1>0, <2>1
    <3>3. /\ {e.from, e.to} \subseteq Registry!Ids /\ e.carries \subseteq Registry!Row(e.from).claims
          /\ Registry!Received(e.to) \cap e.carries = {}
      BY <2>3 DEF Registry!EdgeStands, Registry!Carried
    <3>4. EdgesStand(at + 1)
      <4>1. \A i \in 1..at : links[i].to = e.to => links[i].carries \cap e.carries = {}
        BY <2>1, <3>3 DEF ReadingEdges, Arrives, Into
      <4> QED BY <2>1, <3>2, <3>3, <4>1 DEF ReadingEdges, EdgesStand
    <3>5. ASSUME NEW n PROVE Into(n, at + 1) = Into(n, at) \cup IF n = e.to THEN {at + 1} ELSE {}
      BY <3>2 DEF Into
    <3>6. ASSUME NEW n, NEW c PROVE c \in Registry!Received(n)' <=> Arrives(n, c, at + 1)
      <4>1. c \in Registry!Received(n)' <=> c \in Registry!Received(n) \/ (n = e.to /\ c \in e.carries)
        <5>1. ASSUME n = e.to, c \in e.carries PROVE c \in Registry!Received(n)'
          <6>1. [node |-> e.to, claim |-> c] \in incoming'
            BY <3>1, <5>1
          <6> QED BY <5>1, <6>1 DEF Registry!Received
        <5>2. ASSUME c \in Registry!Received(n) PROVE c \in Registry!Received(n)'
          BY <3>1, <5>2 DEF Registry!Received
        <5>3. ASSUME c \in Registry!Received(n)' PROVE c \in Registry!Received(n) \/ (n = e.to /\ c \in e.carries)
          BY <3>1, <5>3 DEF Registry!Received
        <5> QED BY <5>1, <5>2, <5>3
      <4>2. Arrives(n, c, at + 1) <=> Arrives(n, c, at) \/ (n = e.to /\ c \in e.carries)
        BY <3>5 DEF Arrives
      <4> QED BY <2>1, <4>1, <4>2 DEF ReadingEdges
    <3>7. ASSUME NEW n PROVE Cardinality(Into(n, at + 1)) = IF n = e.to THEN Cardinality(Into(n, at)) + 1 ELSE Cardinality(Into(n, at))
      <4>1. IsFiniteSet(1..at) /\ Into(n, at) \subseteq 1..at
        BY <1>0, UpTo DEF Into
      <4>2. IsFiniteSet(Into(n, at)) /\ at + 1 \notin Into(n, at)
        BY <3>2, <4>1, FS_Subset
      <4> QED BY <3>5, <4>2, FS_AddElement
    <3>8. degree' = [n \in Registry!Ids |-> Cardinality(Into(n, at + 1))]
      BY <2>1, <3>1, <3>3, <3>7 DEF ReadingEdges
    <3>9. ReadingEdges'
      <4>1. NodesStand(Len(rows))'
        BY <1>1, <2>1 DEF ReadingEdges, NodesStand
      <4>2. EdgesStand(at)' /\ at' <= Len(links)'
        BY <1>1, <1>2, <3>1, <3>2, <3>4 DEF EdgesStand
      <4>3. \A n, c : c \in Registry!Received(n)' <=> Arrives(n, c, at)'
        BY <1>1, <3>1, <3>6 DEF Arrives, Into
      <4>4. degree' = [n \in Registry!Ids |-> Cardinality(Into(n, at))]'
        BY <1>1, <1>2, <3>1, <3>8 DEF Into
      <4> QED BY <2>1, <3>1, <4>1, <4>2, <4>3, <4>4 DEF ReadingEdges
    <3> QED BY <1>0, <1>1, <2>1, <3>1, <3>2, <3>9 DEF RegistryInv
  <2> QED BY <2>2, <2>3
<1>8. CASE Registry!Handoff
  BY <1>8, HandoffKeeps
<1>9. CASE Registry!Visit
  BY <1>9, VisitKeeps
<1>10. CASE Registry!Conclude
  BY <1>10, ConcludeKeeps
<1>11. ASSUME NEW c, Registry!Query(c) PROVE RegistryInv'
  BY <1>11, QueryKeeps
<1>12. CASE UNCHANGED Registry!vars
  BY <1>12, StandingStill
<1> QED
  BY <1>5, <1>6, <1>7, <1>8, <1>9, <1>10, <1>11, <1>12 DEF Registry!Next

(* The inductive invariant of the registry implies the property its run    *)
(* checks.                                                                 *)
LEMMA RegistryImplies == RegistryInv => Registry!PassIsLineage
<1> SUFFICES ASSUME RegistryInv, phase = "pass" PROVE Registry!PassIsLineage
  BY DEF Registry!PassIsLineage
<1>1. /\ Len(rows) \in Nat /\ DOMAIN rows = 1..Len(rows) /\ Len(links) \in Nat /\ DOMAIN links = 1..Len(links)
      /\ Unwinding /\ AnswerStands /\ Len(visited) = Cardinality(Registry!Ids)
  BY DEF RegistryInv
<1>2. NodesStand(Len(rows)) /\ EdgesStand(Len(links)) /\ Line(visited, Registry!Ids)
  BY <1>1 DEF Unwinding
<1>3. Registry!IsInjective(rows)
  BY <1>1, <1>2 DEF NodesStand, Registry!IsInjective
<1>4. Len(visited) = Len(rows)
  BY <1>1, <1>2, IdsAreFinite
<1>5. Registry!ToSet(visited) = Registry!Ids
  <2>1. DOMAIN visited = 1..Len(visited)
    BY <1>2 DEF Line
  <2> QED BY <2>1, EdgesGoForward DEF Registry!ToSet, Members
<1>6. \A e \in Registry!ToSet(links) : Registry!Place(e.from) < Registry!Place(e.to)
  BY <1>1, EdgesGoForward DEF Registry!ToSet
<1>7. ASSUME NEW n \in Registry!Ids, NEW c \in Registry!Row(n).inputs
      PROVE  /\ Registry!Cardinality({i \in DOMAIN links : links[i].to = n /\ c \in links[i].carries}) = 1
             /\ \E i \in DOMAIN links : links[i].to = n /\ c \in links[i].carries
                                        /\ {m \in Registry!Ids : c \in Registry!Row(m).claims} = {links[i].from}
  <2>1. PICK i \in 1..Len(links) : links[i].to = n /\ c \in links[i].carries
    BY <1>1, <1>7 DEF Unwinding, Arrives, Into
  <2>2. {k \in DOMAIN links : links[k].to = n /\ c \in links[k].carries} = {i}
    <3>1. \A k \in 1..Len(links) : k # i /\ links[k].to = n => c \notin links[k].carries
      BY <1>2, <2>1 DEF EdgesStand
    <3> QED BY <1>1, <2>1, <3>1
  <2>3. Cardinality({i}) = 1
    BY FS_Singleton
  <2>4. links[i].from \in Registry!Ids /\ c \in Registry!Row(links[i].from).claims
    BY <1>2, <2>1 DEF EdgesStand
  <2>5. {m \in Registry!Ids : c \in Registry!Row(m).claims} = {links[i].from}
    BY <1>2, <2>4, OwnerIsOne
  <2> QED BY <1>1, <2>1, <2>2, <2>3, <2>5, RegistryCardinality
<1> QED
  BY <1>1, <1>3, <1>4, <1>5, <1>6, <1>7 DEF Registry!PassIsLineage, AnswerStands

(***************************************************************************)
(* In a registry that passes every claim has one owner and every input one *)
(* edge from it, every producer comes before its consumers, and a query    *)
(* answers accordingly: with nodes, claims and edges of any number.        *)
(***************************************************************************)
THEOREM RegistryKept == Registry!Spec => []Registry!PassIsLineage
BY RegistryInit, RegistryStep, RegistryImplies, PTL DEF Registry!Spec

-----------------------------------------------------------------------------
(* The change gate.                                                        *)

(* The module counts as FiniteSets does.                                   *)
LEMMA GateCardinality == \A S : Gate!Cardinality(S) = Cardinality(S) /\ (Gate!IsFiniteSet(S) <=> IsFiniteSet(S))
BY DEF Gate!Cardinality, Cardinality, Gate!IsFiniteSet, IsFiniteSet

(* A finite set can be sorted: the place of an element is the number of    *)
(* those below it.                                                         *)
Orders(R, S) ==
    /\ \A x \in S : <<x, x>> \notin R
    /\ \A x, y, z \in S : <<x, y>> \in R /\ <<y, z>> \in R => <<x, z>> \in R
    /\ \A x, y \in S : x = y \/ <<x, y>> \in R \/ <<y, x>> \in R

(* The sorted sequence of a finite ordered set is a line of its elements.  *)
LEMMA SortedIsALine ==
  ASSUME NEW S, IsFiniteSet(S), NEW R, Orders(R, S)
  PROVE  Line(Gate!Sorted(S, R), S) /\ Members(Gate!Sorted(S, R)) = S
<1> DEFINE n == Cardinality(S)
           Below(x) == {y \in S : <<y, x>> \in R}
           r == [x \in S |-> Cardinality(Below(x)) + 1]
           s == Gate!Sorted(S, R)
<1>1. n \in Nat /\ Cardinality(1..n) = n /\ IsFiniteSet(1..n)
  BY FS_CardinalityType, UpTo
<1>2. \A x \in S : IsFiniteSet(Below(x)) /\ Cardinality(Below(x)) \in Nat
  BY FS_Subset, FS_CardinalityType
<1>3. ASSUME NEW x \in S, NEW y \in S, <<x, y>> \in R PROVE r[x] < r[y]
  <2>1. Below(x) \subseteq Below(y) /\ Below(x) # Below(y)
    <3>1. x \in Below(y) /\ x \notin Below(x)
      BY <1>3 DEF Orders
    <3>2. \A z \in Below(x) : z \in Below(y)
      BY <1>3 DEF Orders
    <3> QED BY <3>1, <3>2
  <2>2. Cardinality(Below(x)) <= Cardinality(Below(y)) /\ Cardinality(Below(x)) # Cardinality(Below(y))
    BY <1>2, <2>1, FS_Subset
  <2> QED BY <1>2, <2>2
<1>4. ASSUME NEW x \in S PROVE r[x] \in 1..n
  <2>1. Below(x) \subseteq S /\ Below(x) # S
    BY DEF Orders
  <2>2. Cardinality(Below(x)) <= n /\ Cardinality(Below(x)) # n
    BY <2>1, FS_Subset
  <2>3. r[x] = Cardinality(Below(x)) + 1
    OBVIOUS
  <2> DEFINE k == Cardinality(Below(x))
  <2>4. k \in Nat /\ k <= n /\ k # n /\ r[x] = k + 1
    BY <1>2, <2>2, <2>3
  <2> HIDE DEF k, r, n
  <2> QED BY <1>1, <2>4
<1> HIDE DEF r
<1>5. r \in Surjection(S, 1..n)
  <2>1. r \in [S -> 1..n]
    BY <1>4 DEF r
  <2>2. \A x, y \in S : x # y => r[x] # r[y]
    <3>1. ASSUME NEW x \in S, NEW y \in S, x # y PROVE r[x] # r[y]
      <4>1. r[x] \in Int /\ r[y] \in Int
        BY <1>1, <2>1
      <4>2. r[x] < r[y] \/ r[y] < r[x]
        BY <1>3, <3>1 DEF Orders
      <4> QED BY <4>1, <4>2
    <3> QED BY <3>1
  <2>3. r \in Injection(S, 1..n)
    BY <2>1, <2>2 DEF Injection, IsInjective
  <2>4. Cardinality(S) = Cardinality(1..n)
    BY <1>1
  <2> QED BY <1>1, <2>3, <2>4, FS_Injection
<1>6. \A i \in 1..n : \E x \in S : r[x] = i
  BY <1>5 DEF Surjection
<1> DEFINE f == [i \in 1..n |-> CHOOSE x \in S : r[x] = i]
<1>7. f \in [1..n -> S] /\ \A i \in 1..n : f[i] \in S /\ r[f[i]] = i
  BY <1>6
<1> HIDE DEF f
<1>8. \A i, j \in 1..n : i < j => <<f[i], f[j]>> \in R
  <2>1. ASSUME NEW i \in 1..n, NEW j \in 1..n, i < j, <<f[i], f[j]>> \notin R PROVE FALSE
    <3>1. f[i] # f[j]
      BY <1>1, <1>7, <2>1
    <3>2. <<f[j], f[i]>> \in R
      BY <1>7, <2>1, <3>1 DEF Orders
    <3>3. r[f[j]] < r[f[i]]
      BY <1>3, <1>7, <3>2
    <3>4. j < i
      BY <1>7, <3>3
    <3> QED BY <1>1, <2>1, <3>4
  <2> QED BY <2>1
<1>9. s \in [1..n -> S] /\ \A i, j \in 1..n : i < j => <<s[i], s[j]>> \in R
  <2>1. s = CHOOSE g \in [1..n -> S] : \A i, j \in DOMAIN g : i < j => <<g[i], g[j]>> \in R
    BY GateCardinality DEF Gate!Sorted
  <2>2. DOMAIN f = 1..n
    BY <1>7
  <2>3. s \in [1..n -> S] /\ \A i, j \in DOMAIN s : i < j => <<s[i], s[j]>> \in R
    BY <1>7, <1>8, <2>1, <2>2
  <2> QED BY <2>3
<1> HIDE DEF s
<1>10. \A i, j \in 1..n : s[i] = s[j] => i = j
  <2>1. ASSUME NEW i \in 1..n, NEW j \in 1..n, s[i] = s[j], i # j PROVE FALSE
    <3>1. i < j \/ j < i
      BY <1>1, <2>1
    <3>2. <<s[i], s[i]>> \in R
      BY <1>9, <2>1, <3>1
    <3> QED BY <1>9, <3>2 DEF Orders
  <2> QED BY <2>1
<1>11. s \in Surjection(1..n, S)
  <2>1. s \in Injection(1..n, S)
    BY <1>9, <1>10 DEF Injection, IsInjective
  <2>2. Cardinality(1..n) = Cardinality(S)
    BY <1>1
  <2> QED BY <1>1, <2>1, <2>2, FS_Injection
<1>12. s \in Seq(S) /\ Len(s) = n
  BY <1>1, <1>9
<1> QED
  BY <1>10, <1>11, <1>12 DEF Line, Members, Surjection, s

-----------------------------------------------------------------------------
(* A bounded recursion has a solution.                                     *)
Unwinds(g, n, D, a, w) == g \in [0..n -> D] /\ g[0] = a /\ \A k \in 1..n : g[k] = w[k][g[k - 1]]

(* A bounded recursion over total functions has a solution.                *)
LEMMA Recursion ==
  ASSUME NEW N \in Nat, NEW D, NEW a \in D, NEW w \in [1..N -> [D -> D]]
  PROVE  \E g : Unwinds(g, N, D, a, w)
<1> DEFINE Bad == {n \in Nat : n <= N /\ ~ \E g : Unwinds(g, n, D, a, w)}
<1> SUFFICES ASSUME Bad # {} PROVE FALSE
  <2>1. Bad = {} => ~ (N \in Bad)
    OBVIOUS
  <2> QED BY <2>1
<1>1. PICK n \in Bad : \A k \in Bad : n <= k
  BY Least
<1>2. n \in Nat /\ n <= N /\ ~ \E g : Unwinds(g, n, D, a, w)
  OBVIOUS
<1>3. CASE n = 0
  <2>1. Unwinds([k \in 0..0 |-> a], 0, D, a, w)
    BY DEF Unwinds
  <2> QED BY <1>2, <1>3, <2>1
<1>4. CASE n # 0
  <2>1. n - 1 \in Nat /\ n - 1 <= N /\ ~ (n <= n - 1)
    BY <1>2, <1>4
  <2>2. n - 1 \notin Bad
    BY <1>1, <2>1
  <2>3. PICK g : Unwinds(g, n - 1, D, a, w)
    BY <2>1, <2>2
  <2> DEFINE z == w[n][g[n - 1]]
             h == [k \in 0..n |-> IF k = n THEN z ELSE g[k]]
  <2>4. g \in [0..(n - 1) -> D] /\ g[0] = a /\ \A k \in 1..(n - 1) : g[k] = w[k][g[k - 1]]
    BY <2>3 DEF Unwinds
  <2>5. n \in 1..N /\ n - 1 \in 0..(n - 1) /\ g[n - 1] \in D
    BY <1>2, <1>4, <2>4
  <2>6. z \in D
    BY <2>5
  <2>7. h[n] = z /\ \A k \in 0..(n - 1) : h[k] = g[k]
    BY <1>2
  <2>8. \A k \in 0..n : k = n \/ k \in 0..(n - 1)
    BY <1>2
  <2>9. h \in [0..n -> D]
    <3>1. \A k \in 0..n : h[k] \in D
      <4> HIDE DEF z, h
      <4> QED BY <2>4, <2>6, <2>7, <2>8
    <3> QED BY <3>1
  <2>10. h[0] = a
    BY <1>2, <1>4, <2>4, <2>7
  <2>11. ASSUME NEW k \in 1..n PROVE h[k] = w[k][h[k - 1]]
    <3>1. k - 1 \in 0..(n - 1) /\ h[k - 1] = g[k - 1]
      BY <1>2, <2>7
    <3>2. k = n \/ (k \in 1..(n - 1) /\ k \in 0..(n - 1))
      BY <1>2
    <3> HIDE DEF h
    <3> QED BY <2>4, <2>7, <3>1, <3>2
  <2>12. Unwinds(h, n, D, a, w)
    <3> HIDE DEF h, z
    <3> QED BY <2>9, <2>10, <2>11 DEF Unwinds
  <2> QED BY <1>2, <2>12
<1> QED BY <1>3, <1>4

-----------------------------------------------------------------------------
(* The transitions that can be taken, and what n of them reach.            *)
Passable(m) == {t \in m.transitions : Gate!Traversable(m, t)}
Grow(m, S) == S \cup {t.target : t \in {t \in Passable(m) : t.source \in S}}
Circles(m, n, g) == g \in [0..n -> SUBSET m.capabilities] /\ g[0] = m.initial /\ \A k \in 1..n : g[k] = Grow(m, g[k - 1])

(* What a well-formed model gives the search.                              *)
LEMMA ModelFacts ==
  ASSUME NEW m, Gate!IsModel(m)
  PROVE  /\ m.initial \subseteq m.capabilities /\ m.maxDepth \in Nat /\ m.capabilities \subseteq Nat /\ 0 \notin m.capabilities
         /\ IsFiniteSet(m.capabilities) /\ IsFiniteSet(m.initial) /\ IsFiniteSet(m.transitions)
         /\ \A t \in Passable(m) : t.source \in m.capabilities /\ t.target \in m.capabilities
<1>1. IsFiniteSet(m.capabilities) /\ IsFiniteSet(m.transitions)
  BY GateCardinality DEF Gate!IsModel
<1>2. m.initial \subseteq m.capabilities
  BY DEF Gate!IsModel
<1>3. IsFiniteSet(m.initial)
  BY <1>1, <1>2, FS_Subset
<1> QED BY <1>1, <1>2, <1>3 DEF Gate!IsModel, Passable

(* What can be walked to in n steps is the n-th circle around the initial  *)
(* capabilities.                                                           *)
LEMMA WalksIn ==
  ASSUME NEW m, Gate!IsModel(m), NEW n \in Nat
  PROVE  \E g : Circles(m, n, g) /\ \A c : Gate!Walks(m, c, n) <=> c \in g[n]
<1> DEFINE D == SUBSET m.capabilities
           w == [k \in 1..n |-> [S \in D |-> Grow(m, S)]]
<1>1. \A S \in D : Grow(m, S) \in D
  BY ModelFacts DEF Grow
<1>2. w \in [1..n -> [D -> D]] /\ m.initial \in D
  BY <1>1, ModelFacts
<1>3. PICK g : Unwinds(g, n, D, m.initial, w)
  BY <1>2, Recursion
<1>4. Circles(m, n, g)
  <2>1. \A k \in 1..n : k - 1 \in 0..n
    OBVIOUS
  <2> QED BY <1>3, <2>1 DEF Unwinds, Circles
<1> DEFINE P(h) == h = [k \in 0..n |-> IF k = 0 THEN m.initial
                          ELSE h[k - 1] \cup {t.target : t \in {t \in m.transitions : Gate!Traversable(m, t) /\ t.source \in h[k - 1]}}]
<1>5. \A h : Circles(m, n, h) => P(h)
  <2> TAKE h
  <2> HAVE Circles(m, n, h)
  <2> DEFINE G(k) == h[k - 1] \cup {t.target : t \in {t \in m.transitions : Gate!Traversable(m, t) /\ t.source \in h[k - 1]}}
  <2>1. \A k : Grow(m, h[k - 1]) = G(k)
    BY DEF Grow, Passable
  <2>2. \A k \in 1..n : h[k] = G(k)
    BY <2>1 DEF Circles
  <2> HIDE DEF G
  <2>3. \A k \in 0..n : h[k] = IF k = 0 THEN m.initial ELSE G(k)
    <3>1. \A k \in 0..n : k = 0 \/ k \in 1..n
      OBVIOUS
    <3>2. \A k \in 1..n : k # 0
      OBVIOUS
    <3> QED BY <2>2, <3>1, <3>2 DEF Circles
  <2>4. h = [k \in 0..n |-> IF k = 0 THEN m.initial ELSE G(k)]
    BY <2>3 DEF Circles
  <2> QED BY <2>4 DEF G
<1>6. \A h : P(h) => Circles(m, n, h)
  <2> TAKE h
  <2> HAVE P(h)
  <2> DEFINE G(k) == h[k - 1] \cup {t.target : t \in {t \in m.transitions : Gate!Traversable(m, t) /\ t.source \in h[k - 1]}}
  <2>1. \A k : Grow(m, h[k - 1]) = G(k)
    BY DEF Grow, Passable
  <2>2. h = [k \in 0..n |-> IF k = 0 THEN m.initial ELSE G(k)]
    OBVIOUS
  <2> HIDE DEF G, P
  <2>3. h[0] = m.initial /\ \A k \in 1..n : h[k] = G(k)
    BY <2>2
  <2>4. DOMAIN h = 0..n
    BY <2>2
  <2> DEFINE Bad == {k \in Nat : k <= n /\ h[k] \notin D}
  <2>5. Bad = {}
    <3> SUFFICES ASSUME Bad # {} PROVE FALSE
      OBVIOUS
    <3>1. PICK k \in Bad : \A j \in Bad : k <= j
      BY Least
    <3>2. k \in Nat /\ k <= n /\ h[k] \notin D
      OBVIOUS
    <3>3. k # 0
      BY <2>3, <3>2, ModelFacts
    <3>4. k \in 1..n /\ k - 1 \in Nat /\ k - 1 <= n /\ ~ (k <= k - 1)
      BY <3>2, <3>3
    <3>5. h[k - 1] \in D
      BY <3>1, <3>4
    <3>6. Grow(m, h[k - 1]) \in D
      BY <1>1, <3>5
    <3> QED BY <2>1, <2>3, <3>2, <3>4, <3>6
  <2>6. \A k \in 0..n : h[k] \in D
    <3>1. \A k \in 0..n : k \in Nat /\ k <= n
      OBVIOUS
    <3> QED BY <2>5, <3>1
  <2>7. h = [k \in 0..n |-> h[k]]
    BY <2>2
  <2>8. h \in [0..n -> D]
    <3> HIDE DEF D
    <3> QED BY <2>6, <2>7
  <2> QED BY <2>1, <2>3, <2>8 DEF Circles
<1> DEFINE e == CHOOSE h : P(h)
<1>7. P(e)
  <2> HIDE DEF P
  <2> QED BY <1>4, <1>5
<1>8. \A c : Gate!Walks(m, c, n) <=> c \in e[n]
  BY DEF Gate!Walks
<1> HIDE DEF e, P
<1> QED BY <1>6, <1>7, <1>8

(* Circles of different bounds agree where both are defined.               *)
LEMMA CirclesAgree ==
  ASSUME NEW m, NEW a \in Nat, NEW b \in Nat, NEW g, NEW h, Circles(m, a, g), Circles(m, b, h), NEW n \in Nat, n <= a, n <= b
  PROVE  g[n] = h[n]
<1> DEFINE Bad == {k \in Nat : k <= a /\ k <= b /\ g[k] # h[k]}
<1> SUFFICES ASSUME Bad # {} PROVE FALSE
  BY DEF Bad
<1>1. PICK k \in Bad : \A j \in Bad : k <= j
  BY Least
<1>2. k \in Nat /\ k <= a /\ k <= b /\ g[k] # h[k]
  OBVIOUS
<1>3. k # 0
  BY <1>2 DEF Circles
<1>4. k \in 1..a /\ k \in 1..b /\ k - 1 \in Nat /\ k - 1 <= a /\ k - 1 <= b /\ ~ (k <= k - 1)
  BY <1>2, <1>3
<1>5. g[k - 1] = h[k - 1]
  BY <1>1, <1>4
<1> QED BY <1>2, <1>4, <1>5 DEF Circles

(* One step more reaches what one transition adds. *)
LEMMA WalksStep ==
  ASSUME NEW m, Gate!IsModel(m)
  PROVE  /\ \A c : Gate!Walks(m, c, 0) <=> c \in m.initial
         /\ \A c : \A n \in Nat : Gate!Walks(m, c, n + 1) <=>
                 Gate!Walks(m, c, n) \/ \E t \in Passable(m) : t.target = c /\ Gate!Walks(m, t.source, n)
<1>1. \A c : Gate!Walks(m, c, 0) <=> c \in m.initial
  <2>1. PICK g : Circles(m, 0, g) /\ \A c : Gate!Walks(m, c, 0) <=> c \in g[0]
    BY WalksIn
  <2> QED BY <2>1 DEF Circles
<1>2. ASSUME NEW c, NEW n \in Nat
      PROVE  Gate!Walks(m, c, n + 1) <=> Gate!Walks(m, c, n) \/ \E t \in Passable(m) : t.target = c /\ Gate!Walks(m, t.source, n)
  <2>1. PICK g : Circles(m, n, g) /\ \A d : Gate!Walks(m, d, n) <=> d \in g[n]
    BY WalksIn
  <2>2. PICK h : Circles(m, n + 1, h) /\ \A d : Gate!Walks(m, d, n + 1) <=> d \in h[n + 1]
    <3>1. n + 1 \in Nat
      OBVIOUS
    <3> QED BY <3>1, WalksIn
  <2>3. h[n] = g[n]
    <3>1. n + 1 \in Nat /\ n <= n + 1 /\ n <= n
      OBVIOUS
    <3> QED BY <2>1, <2>2, <3>1, CirclesAgree
  <2>4. h[n + 1] = Grow(m, g[n])
    <3>1. n + 1 \in 1..(n + 1) /\ (n + 1) - 1 = n
      OBVIOUS
    <3> QED BY <2>2, <2>3, <3>1 DEF Circles
  <2>5. \A d : d \in Grow(m, g[n]) <=> d \in g[n] \/ \E t \in Passable(m) : t.target = d /\ t.source \in g[n]
    BY DEF Grow
  <2> QED BY <2>1, <2>2, <2>4, <2>5
<1> QED BY <1>1, <1>2

(* What is within reach of a bound is within reach of a larger one.        *)
LEMMA WalksUp ==
  ASSUME NEW m, Gate!IsModel(m), NEW a \in Nat, NEW b \in Nat, a <= b, NEW c, Gate!Walks(m, c, a)
  PROVE  Gate!Walks(m, c, b)
<1> DEFINE Bad == {k \in Nat : a <= k /\ ~ Gate!Walks(m, c, k)}
<1> SUFFICES ASSUME Bad # {} PROVE FALSE
  BY DEF Bad
<1>1. PICK k \in Bad : \A j \in Bad : k <= j
  BY Least
<1>2. k \in Nat /\ a <= k /\ ~ Gate!Walks(m, c, k)
  OBVIOUS
<1>3. k # a
  BY <1>2
<1>4. k - 1 \in Nat /\ a <= k - 1 /\ ~ (k <= k - 1) /\ (k - 1) + 1 = k
  BY <1>2, <1>3
<1>5. Gate!Walks(m, c, k - 1)
  BY <1>1, <1>4
<1>6. Gate!Walks(m, c, (k - 1) + 1)
  BY <1>4, <1>5, WalksStep
<1> QED BY <1>2, <1>4, <1>6

(* What is closed under the transitions holds every walk. *)
LEMMA WalksStay ==
  ASSUME NEW m, Gate!IsModel(m), NEW V, m.initial \subseteq V, \A t \in Passable(m) : t.source \in V => t.target \in V, NEW n \in Nat, NEW c, Gate!Walks(m, c, n)
  PROVE  c \in V
<1> DEFINE Bad == {k \in Nat : \E d : Gate!Walks(m, d, k) /\ d \notin V}
<1> SUFFICES ASSUME Bad # {} PROVE FALSE
  BY DEF Bad
<1>1. PICK k \in Bad : \A j \in Bad : k <= j
  BY Least
<1>2. k \in Nat /\ \E d : Gate!Walks(m, d, k) /\ d \notin V
  OBVIOUS
<1>3. PICK d : Gate!Walks(m, d, k) /\ d \notin V
  BY <1>2
<1>4. k # 0
  BY <1>3, WalksStep
<1>5. k - 1 \in Nat /\ ~ (k <= k - 1) /\ (k - 1) + 1 = k
  BY <1>2, <1>4
<1>6. \A x : Gate!Walks(m, x, k - 1) => x \in V
  BY <1>1, <1>5
<1>7. Gate!Walks(m, d, (k - 1) + 1)
  BY <1>3, <1>5
<1>8. Gate!Walks(m, d, k - 1) \/ \E t \in Passable(m) : t.target = d /\ Gate!Walks(m, t.source, k - 1)
  BY <1>5, <1>7, WalksStep
<1> QED BY <1>3, <1>6, <1>8

-----------------------------------------------------------------------------
(* The paths of the search: their edges lead from an initial capability to *)
(* their target.                                                           *)
At(p, i) == IF i = 0 THEN p.initial ELSE p.edges[i].target
Trail(m, p) ==
    /\ p.initial \in m.initial
    /\ \A i \in 1..Len(p.edges) : p.edges[i].source = At(p, i - 1)
    /\ p.target = At(p, Len(p.edges))
Paths(m) ==
    {p \in [initial : m.capabilities, target : m.capabilities, edges : Seq(Passable(m))] : Trail(m, p) /\ Len(p.edges) <= m.maxDepth}

(* What being a path of the search says of its edges.                      *)
LEMMA PathFacts ==
  ASSUME NEW m, NEW p \in Paths(m)
  PROVE  /\ p.initial \in m.capabilities /\ p.target \in m.capabilities /\ p.edges \in Seq(Passable(m))
         /\ Len(p.edges) \in Nat /\ Len(p.edges) <= m.maxDepth /\ Trail(m, p)
         /\ \A i \in 1..Len(p.edges) : p.edges[i] \in Passable(m)
BY DEF Paths

(* The target of a path is within reach of as many steps as it has edges.  *)
LEMMA TrailWalks ==
  ASSUME NEW m, Gate!IsModel(m), NEW p \in Paths(m)
  PROVE  Gate!Walks(m, p.target, Len(p.edges))
<1> DEFINE Bad == {k \in Nat : k <= Len(p.edges) /\ ~ Gate!Walks(m, At(p, k), k)}
<1>1. Bad = {}
  <2> SUFFICES ASSUME Bad # {} PROVE FALSE
    OBVIOUS
  <2>1. PICK k \in Bad : \A j \in Bad : k <= j
    BY Least
  <2>2. k \in Nat /\ k <= Len(p.edges) /\ ~ Gate!Walks(m, At(p, k), k)
    OBVIOUS
  <2>3. k # 0
    BY <2>2, WalksStep, PathFacts DEF At, Trail
  <2>4. k \in 1..Len(p.edges) /\ k - 1 \in Nat /\ k - 1 <= Len(p.edges) /\ ~ (k <= k - 1) /\ (k - 1) + 1 = k
    BY <2>2, <2>3, PathFacts
  <2>5. Gate!Walks(m, At(p, k - 1), k - 1)
    BY <2>1, <2>4
  <2>6. p.edges[k] \in Passable(m) /\ p.edges[k].source = At(p, k - 1) /\ p.edges[k].target = At(p, k)
    BY <2>3, <2>4, PathFacts DEF Trail, At
  <2>7. Gate!Walks(m, At(p, k), (k - 1) + 1)
    <3>1. \E t \in Passable(m) : t.target = At(p, k) /\ Gate!Walks(m, t.source, k - 1)
      BY <2>5, <2>6
    <3> QED BY <2>4, <3>1, WalksStep
  <2> QED BY <2>2, <2>4, <2>7
<1>2. Gate!Walks(m, At(p, Len(p.edges)), Len(p.edges))
  BY <1>1, PathFacts
<1> QED BY <1>2, PathFacts DEF Trail

Longer(p, e) == [initial |-> p.initial, target |-> e.target, edges |-> Append(p.edges, e)]

(* A path and a passable edge from its target give a longer path.          *)
LEMMA TrailGrows ==
  ASSUME NEW m, Gate!IsModel(m), NEW p \in Paths(m), Len(p.edges) < m.maxDepth, NEW e \in Passable(m), e.source = p.target
  PROVE  /\ Longer(p, e) \in Paths(m) /\ Longer(p, e) # Gate!NoPath
         /\ Longer(p, e).target = e.target /\ Len(Longer(p, e).edges) = Len(p.edges) + 1
<1> DEFINE q == Longer(p, e)
           n == Len(p.edges)
           es == Append(p.edges, e)
<1>1. n \in Nat /\ n < m.maxDepth /\ m.maxDepth \in Nat
  BY PathFacts, ModelFacts
<1>2. es \in Seq(Passable(m)) /\ Len(es) = n + 1 /\ es[n + 1] = e /\ \A i \in 1..n : es[i] = p.edges[i]
  BY PathFacts
<1>3. q.initial = p.initial /\ q.target = e.target /\ q.edges = es
  BY DEF Longer
<1>4. q \in [initial : m.capabilities, target : m.capabilities, edges : Seq(Passable(m))]
  BY <1>2, PathFacts, ModelFacts DEF Longer
<1> HIDE DEF q, es
<1>5. \A i \in 0..n : At(q, i) = At(p, i)
  BY <1>1, <1>2, <1>3 DEF At
<1>6. Trail(m, q)
  <2>1. q.initial \in m.initial
    BY <1>3, PathFacts DEF Trail
  <2>2. At(q, n) = p.target /\ At(q, n + 1) = e.target
    <3>1. At(q, n) = At(p, n)
      BY <1>1, <1>5
    <3>2. n + 1 # 0
      BY <1>1
    <3>3. At(p, n) = p.target
      BY PathFacts DEF Trail
    <3> HIDE DEF n
    <3> QED BY <1>2, <1>3, <3>1, <3>2, <3>3 DEF At
  <2>3. \A i \in 1..n : p.edges[i].source = At(p, i - 1)
    BY PathFacts DEF Trail
  <2>4. ASSUME NEW i \in 1..(n + 1) PROVE es[i].source = At(q, i - 1)
    <3>1. CASE i = n + 1
      <4>1. i - 1 = n
        BY <1>1, <3>1
      <4> QED BY <1>2, <2>2, <3>1, <4>1
    <3>2. CASE i \in 1..n
      <4>1. i - 1 \in 0..n
        BY <1>1, <3>2
      <4> QED BY <1>2, <1>5, <2>3, <3>2, <4>1
    <3>3. i = n + 1 \/ i \in 1..n
      BY <1>1
    <3> QED BY <3>1, <3>2, <3>3
  <2> HIDE DEF n
  <2> QED BY <1>2, <1>3, <2>1, <2>2, <2>4 DEF Trail
<1>7. q \in Paths(m)
  BY <1>1, <1>2, <1>3, <1>4, <1>6 DEF Paths
<1>8. q.target # 0
  BY <1>3, ModelFacts
<1>9. q # Gate!NoPath
  BY <1>8 DEF Gate!NoPath
<1> QED BY <1>2, <1>3, <1>7, <1>9 DEF q

(* The states of the search. *)
States(m) == [queue : Seq(Paths(m)), visited : SUBSET m.capabilities, found : Paths(m) \cup {Gate!NoPath}]

(***************************************************************************)
(* An edge of the node that is expanded finds the target, leads to what is *)
(* visited, or is queued (find_shortest_path).                             *)
(***************************************************************************)
Tries(m, p, e, c, s, r) ==
    /\ r \in States(m)
    /\ s.found # Gate!NoPath => r = s
    /\ s.found = Gate!NoPath /\ e.target = c => r.found = Longer(p, e)
    /\ s.found = Gate!NoPath /\ e.target # c =>
         /\ r.found = Gate!NoPath
         /\ e.target \in s.visited => r = s
         /\ e.target \notin s.visited => r.visited = s.visited \cup {e.target} /\ r.queue = Append(s.queue, Longer(p, e))

(* One turn of the loop over the outgoing edges does what Tries says of it.*)
LEMMA TryEdgeIs ==
  ASSUME NEW m, Gate!IsModel(m), NEW p \in Paths(m), Len(p.edges) < m.maxDepth, NEW e \in Passable(m), e.source = p.target,
         NEW c, NEW s \in States(m)
  PROVE  Tries(m, p, e, c, s, Gate!TryEdge(p, {c}, s, e))
<1> DEFINE q == Longer(p, e)
           r == Gate!TryEdge(p, {c}, s, e)
<1> SUFFICES Tries(m, p, e, c, s, r)
  OBVIOUS
<1>1. q \in Paths(m) /\ e.target \in m.capabilities
  BY TrailGrows, ModelFacts
<1>2. r = IF s.found # Gate!NoPath THEN s
          ELSE IF e.target = c THEN [s EXCEPT !.found = q]
          ELSE IF e.target \in s.visited THEN s
          ELSE [s EXCEPT !.queue = Append(@, q), !.visited = @ \cup {e.target}]
  BY DEF Gate!TryEdge, Longer
<1> HIDE DEF q, r
<1>3. s = [queue |-> s.queue, visited |-> s.visited, found |-> s.found] /\ s.queue \in Seq(Paths(m)) /\ s.visited \subseteq m.capabilities
  BY DEF States
<1>4. Append(s.queue, q) \in Seq(Paths(m))
  <2> DEFINE P == Paths(m)
             u == s.queue
  <2>1. u \in Seq(P) /\ q \in P
    BY <1>1, <1>3
  <2> HIDE DEF P, u
  <2>2. Append(u, q) \in Seq(P)
    BY <2>1
  <2> QED BY <2>2 DEF P, u
<1> DEFINE a == Append(s.queue, q)
           v == s.visited \cup {e.target}
<1>5. a \in Seq(Paths(m)) /\ v \subseteq m.capabilities
  BY <1>1, <1>3, <1>4
<1>6. r = IF s.found # Gate!NoPath THEN s
          ELSE IF e.target = c THEN [s EXCEPT !.found = q]
          ELSE IF e.target \in s.visited THEN s
          ELSE [s EXCEPT !.queue = a, !.visited = v]
  BY <1>2
<1> HIDE DEF a, v
<1>7. CASE s.found # Gate!NoPath
  BY <1>6, <1>7 DEF Tries
<1>8. CASE s.found = Gate!NoPath /\ e.target = c
  <2>1. r = [s EXCEPT !.found = q]
    BY <1>6, <1>8
  <2>2. r \in States(m) /\ r.found = q
    BY <1>1, <2>1 DEF States
  <2> QED BY <1>8, <2>2 DEF Tries, q
<1>9. CASE s.found = Gate!NoPath /\ e.target # c /\ e.target \in s.visited
  BY <1>6, <1>9 DEF Tries
<1>10. CASE s.found = Gate!NoPath /\ e.target # c /\ e.target \notin s.visited
  <2>1. r = [s EXCEPT !.queue = a, !.visited = v]
    BY <1>6, <1>10
  <2>2. r \in States(m) /\ r.found = s.found /\ r.queue = a /\ r.visited = v
    BY <1>5, <2>1 DEF States
  <2> QED BY <1>10, <2>2 DEF Tries, q, a, v
<1> QED BY <1>7, <1>8, <1>9, <1>10

(* The transitions from a capability, in the order of the search. *)
LEMMA OutgoingIs ==
  ASSUME NEW m, Gate!IsModel(m), NEW v
  PROVE  /\ Gate!Outgoing(m, v) \in Seq(Passable(m)) /\ Len(Gate!Outgoing(m, v)) \in Nat
         /\ \A i \in 1..Len(Gate!Outgoing(m, v)) : Gate!Outgoing(m, v)[i] \in Passable(m) /\ Gate!Outgoing(m, v)[i].source = v
         /\ \A t \in Passable(m) : t.source = v => \E i \in 1..Len(Gate!Outgoing(m, v)) : Gate!Outgoing(m, v)[i] = t
<1> DEFINE out == {t \in m.transitions : t.source = v /\ Gate!Traversable(m, t)}
           R == {p \in out \X out : p[1].target < p[2].target \/ (p[1].target = p[2].target /\ p[1].id < p[2].id)}
           s == Gate!Outgoing(m, v)
<1>1. IsFiniteSet(out)
  BY ModelFacts, FS_Subset
<1>2. \A x \in out : x.target \in Nat /\ x.id \in Nat
  BY ModelFacts DEF Gate!IsModel, Passable
<1>3. \A x, y \in out : x.id = y.id => x = y
  BY DEF Gate!IsModel
<1>4. \A x, y \in out : <<x, y>> \in R <=> x.target < y.target \/ (x.target = y.target /\ x.id < y.id)
  OBVIOUS
<1> HIDE DEF out, R
<1>5. Orders(R, out)
  <2>1. \A x \in out : <<x, x>> \notin R
    BY <1>2, <1>4
  <2>2. \A x, y, z \in out : <<x, y>> \in R /\ <<y, z>> \in R => <<x, z>> \in R
    BY <1>2, <1>4
  <2>3. \A x, y \in out : x = y \/ <<x, y>> \in R \/ <<y, x>> \in R
    <3>1. ASSUME NEW x \in out, NEW y \in out, x # y PROVE <<x, y>> \in R \/ <<y, x>> \in R
      <4>1. x.id # y.id /\ x.target \in Nat /\ y.target \in Nat /\ x.id \in Nat /\ y.id \in Nat
        BY <1>2, <1>3, <3>1
      <4>2. x.target < y.target \/ (x.target = y.target /\ x.id < y.id) \/ y.target < x.target \/ (y.target = x.target /\ y.id < x.id)
        BY <4>1
      <4> QED BY <1>4, <4>2
    <3> QED BY <3>1
  <2> QED BY <2>1, <2>2, <2>3 DEF Orders
<1>6. s = Gate!Sorted(out, R)
  BY DEF Gate!Outgoing, out, R
<1>7. Line(s, out) /\ Members(s) = out
  BY <1>1, <1>5, <1>6, SortedIsALine
<1> HIDE DEF s
<1>8. s \in Seq(out) /\ out \subseteq Passable(m)
  BY <1>7 DEF Line, Passable, out
<1>9. s \in Seq(Passable(m)) /\ Len(s) \in Nat /\ \A i \in 1..Len(s) : s[i] \in out
  BY <1>8
<1>10. \A t \in out : \E i \in 1..Len(s) : s[i] = t
  BY <1>7 DEF Members
<1>11. \A t : t \in out <=> t \in Passable(m) /\ t.source = v
  BY DEF Passable, out
<1> QED BY <1>9, <1>10, <1>11 DEF s

(* The edges that the search tries from a node. *)
Tryable(m, p) == IF Len(p.edges) >= m.maxDepth THEN <<>> ELSE Gate!Outgoing(m, p.target)

(* Within the depth bound the search tries every passable edge from a node,*)
(* and nothing else.                                                       *)
LEMMA TryableFacts ==
  ASSUME NEW m, Gate!IsModel(m), NEW p \in Paths(m)
  PROVE  /\ Len(Tryable(m, p)) \in Nat
         /\ \A i \in 1..Len(Tryable(m, p)) : Tryable(m, p)[i] \in Passable(m) /\ Tryable(m, p)[i].source = p.target /\ Len(p.edges) < m.maxDepth
         /\ Len(p.edges) < m.maxDepth =>
              \A t \in Passable(m) : t.source = p.target => \E i \in 1..Len(Tryable(m, p)) : Tryable(m, p)[i] = t
<1>1. Len(p.edges) \in Nat /\ m.maxDepth \in Nat
  BY PathFacts, ModelFacts
<1>2. CASE Len(p.edges) >= m.maxDepth
  <2>1. Tryable(m, p) = <<>>
    BY <1>2 DEF Tryable
  <2> QED BY <1>1, <1>2, <2>1
<1>3. CASE Len(p.edges) < m.maxDepth
  <2>1. Tryable(m, p) = Gate!Outgoing(m, p.target)
    BY <1>1, <1>3 DEF Tryable
  <2> QED BY <1>3, <2>1, OutgoingIs
<1> QED BY <1>1, <1>2, <1>3

(***************************************************************************)
(* The search takes the head of the queue and tries its edges in turn.     *)
(***************************************************************************)
Popping(m, c, s, p, tried) ==
    /\ tried[0] = [s EXCEPT !.queue = Tail(s.queue)]
    /\ \A i \in 0..Len(Tryable(m, p)) : tried[i] \in States(m)
    /\ \A i \in 1..Len(Tryable(m, p)) : Tries(m, p, Tryable(m, p)[i], c, tried[i - 1], tried[i])
    /\ Gate!Pop(m, {c}, s) = tried[Len(Tryable(m, p))]

(* Expanding a node is trying its edges one after the other.               *)
LEMMA PopUnwinds ==
  ASSUME NEW m, Gate!IsModel(m), NEW c, NEW s \in States(m), s.found = Gate!NoPath, s.queue # <<>>
  PROVE  \E tried : Popping(m, c, s, Head(s.queue), tried)
<1> DEFINE p == Head(s.queue)
           edges == Tryable(m, p)
           N == Len(edges)
           D == States(m)
           first == [s EXCEPT !.queue = Tail(s.queue)]
           w == [k \in 1..N |-> [z \in D |-> Gate!TryEdge(p, {c}, z, edges[k])]]
           P(h) == h = [i \in 0..N |-> IF i = 0 THEN first ELSE Gate!TryEdge(p, {c}, h[i - 1], edges[i])]
<1>1. s.queue \in Seq(Paths(m)) /\ p \in Paths(m) /\ Tail(s.queue) \in Seq(Paths(m))
  <2> DEFINE Q == Paths(m)
             q == s.queue
  <2>1. q \in Seq(Q) /\ q # <<>>
    BY DEF States
  <2> HIDE DEF Q, q
  <2>2. Head(q) \in Q /\ Tail(q) \in Seq(Q)
    BY <2>1
  <2> QED BY <2>1, <2>2 DEF Q, q
<1>2. first \in D
  BY <1>1 DEF States
<1>3. N \in Nat /\ \A i \in 1..N : edges[i] \in Passable(m) /\ edges[i].source = p.target /\ Len(p.edges) < m.maxDepth
  BY <1>1, TryableFacts
<1>4. \A k \in 1..N : \A z \in D : Tries(m, p, edges[k], c, z, Gate!TryEdge(p, {c}, z, edges[k]))
  BY <1>1, <1>3, TryEdgeIs
<1>5. \A k \in 1..N : \A z \in D : Gate!TryEdge(p, {c}, z, edges[k]) \in D
  BY <1>4 DEF Tries
<1> HIDE DEF p, edges, first, D, N
<1>6. w \in [1..N -> [D -> D]]
  BY <1>5
<1>7. PICK g : Unwinds(g, N, D, first, w)
  BY <1>2, <1>3, <1>6, Recursion
<1>8. /\ g \in [0..N -> D] /\ g[0] = first
      /\ \A k \in 1..N : k - 1 \in 0..N /\ k \in 0..N /\ g[k] = Gate!TryEdge(p, {c}, g[k - 1], edges[k])
  <2>1. \A k \in 1..N : k - 1 \in 0..N /\ k \in 0..N
    BY <1>3
  <2>2. \A k \in 1..N : g[k - 1] \in D
    BY <1>7, <2>1 DEF Unwinds
  <2>3. \A k \in 1..N : g[k] = w[k][g[k - 1]]
    BY <1>7 DEF Unwinds
  <2>4. \A k \in 1..N : w[k][g[k - 1]] = Gate!TryEdge(p, {c}, g[k - 1], edges[k])
    BY <2>2
  <2>5. g \in [0..N -> D] /\ g[0] = first
    BY <1>7 DEF Unwinds
  <2> HIDE DEF w
  <2> QED BY <2>1, <2>3, <2>4, <2>5
<1>9. P(g)
  <2> DEFINE G(k) == Gate!TryEdge(p, {c}, g[k - 1], edges[k])
  <2>1. \A k \in 1..N : g[k] = G(k)
    BY <1>8
  <2> HIDE DEF G
  <2>2. \A k \in 0..N : g[k] = IF k = 0 THEN first ELSE G(k)
    <3>1. \A k \in 0..N : k = 0 \/ k \in 1..N
      BY <1>3
    <3>2. \A k \in 1..N : k # 0
      BY <1>3
    <3> QED BY <1>8, <2>1, <3>1, <3>2
  <2>3. g = [k \in 0..N |-> IF k = 0 THEN first ELSE G(k)]
    BY <1>8, <2>2
  <2> QED BY <2>3 DEF G
<1> DEFINE h == CHOOSE h : P(h)
<1>10. P(h)
  <2> HIDE DEF P
  <2> QED BY <1>9
<1>11. Gate!Pop(m, {c}, s) = h[N]
  BY DEF Gate!Pop, Tryable, edges, N, p, first
<1> HIDE DEF h
<1>12. h[0] = first /\ \A k \in 1..N : h[k] = Gate!TryEdge(p, {c}, h[k - 1], edges[k])
  <2> DEFINE G(k) == Gate!TryEdge(p, {c}, h[k - 1], edges[k])
  <2>1. h = [k \in 0..N |-> IF k = 0 THEN first ELSE G(k)]
    BY <1>10
  <2> HIDE DEF G, P
  <2>2. h[0] = first /\ \A k \in 1..N : h[k] = G(k)
    BY <1>3, <2>1
  <2> QED BY <2>2 DEF G
<1>13. \A k \in 0..N : h[k] \in D
  <2> DEFINE Bad == {k \in Nat : k <= N /\ h[k] \notin D}
  <2>1. Bad = {}
    <3> SUFFICES ASSUME Bad # {} PROVE FALSE
      OBVIOUS
    <3>1. PICK k \in Bad : \A j \in Bad : k <= j
      BY Least
    <3>2. k \in Nat /\ k <= N /\ h[k] \notin D
      OBVIOUS
    <3>3. k # 0
      BY <1>2, <1>12, <3>2
    <3>4. k \in 1..N /\ k - 1 \in Nat /\ k - 1 <= N /\ ~ (k <= k - 1)
      BY <1>3, <3>2, <3>3
    <3>5. h[k - 1] \in D
      BY <3>1, <3>4
    <3> QED BY <1>5, <1>12, <3>2, <3>4, <3>5
  <2>2. \A k \in 0..N : k \in Nat /\ k <= N
    BY <1>3
  <2> QED BY <2>1, <2>2
<1>14. \A k \in 1..N : Tries(m, p, edges[k], c, h[k - 1], h[k])
  <2>1. \A k \in 1..N : k - 1 \in 0..N
    BY <1>3
  <2> QED BY <1>4, <1>12, <1>13, <2>1
<1> HIDE DEF P
<1> QED
  <2>1. Popping(m, c, s, p, h)
    BY <1>11, <1>12, <1>13, <1>14 DEF Popping, edges, N, D, first
  <2> QED BY <2>1 DEF p

(***************************************************************************)
(* What the edges of a node, tried up to the i-th, leave of the state r:   *)
(* the queue lost its head, and each new entry at its end is one deeper    *)
(* than the node and stands for a capability that was not visited.         *)
(***************************************************************************)
Spread(m, c, s, p, left, i, r) ==
    /\ r.found = Gate!NoPath =>
         /\ s.visited \subseteq r.visited /\ c \notin r.visited
         /\ Len(r.queue) >= left
         /\ \A k \in 1..left : r.queue[k] = s.queue[k + 1]
         /\ \A k \in (left + 1)..Len(r.queue) :
               Len(r.queue[k].edges) = Len(p.edges) + 1 /\ r.queue[k].target \in r.visited /\ r.queue[k].target \notin s.visited
         /\ \A v \in r.visited : v \in s.visited \/ \E k \in (left + 1)..Len(r.queue) : r.queue[k].target = v
         /\ \A j \in 1..i : Tryable(m, p)[j].target \in r.visited
         /\ Len(r.queue) - left + Cardinality(s.visited) = Cardinality(r.visited)
    /\ r.found # Gate!NoPath => r.found.target = c /\ Len(r.found.edges) = Len(p.edges) + 1

(* What being a state of the search gives its proofs.                      *)
LEMMA StateFacts ==
  ASSUME NEW m, Gate!IsModel(m), NEW s \in States(m)
  PROVE  /\ s.queue \in Seq(Paths(m)) /\ Len(s.queue) \in Nat /\ s.visited \subseteq m.capabilities
         /\ IsFiniteSet(s.visited) /\ Cardinality(s.visited) \in Nat /\ Cardinality(s.visited) <= Cardinality(m.capabilities)
         /\ \A k \in 1..Len(s.queue) : s.queue[k] \in Paths(m)
         /\ s.found # Gate!NoPath => s.found \in Paths(m)
<1>1. s.queue \in Seq(Paths(m)) /\ s.visited \subseteq m.capabilities /\ (s.found # Gate!NoPath => s.found \in Paths(m))
  BY DEF States
<1>2. IsFiniteSet(s.visited) /\ Cardinality(s.visited) \in Nat /\ Cardinality(s.visited) <= Cardinality(m.capabilities)
  BY <1>1, ModelFacts, FS_Subset, FS_CardinalityType
<1>3. Len(s.queue) \in Nat /\ \A k \in 1..Len(s.queue) : s.queue[k] \in Paths(m)
  BY <1>1
<1> QED BY <1>1, <1>2, <1>3

(* Trying one more edge keeps what the edges before it left.               *)
LEMMA SpreadGrows ==
  ASSUME NEW m, Gate!IsModel(m), NEW c, NEW s \in States(m), s.found = Gate!NoPath,
         NEW p \in Paths(m), NEW left \in Nat, NEW i \in 1..Len(Tryable(m, p)),
         NEW r \in States(m), Spread(m, c, s, p, left, i - 1, r),
         NEW u \in States(m), Tries(m, p, Tryable(m, p)[i], c, r, u)
  PROVE  Spread(m, c, s, p, left, i, u)
<1> DEFINE e == Tryable(m, p)[i]
           q == Longer(p, e)
           d == Len(p.edges) + 1
<1>0. i \in Nat /\ e \in Passable(m) /\ e.source = p.target /\ Len(p.edges) < m.maxDepth
  BY TryableFacts
<1>1. q.target = e.target /\ Len(q.edges) = d /\ q # Gate!NoPath
  BY <1>0, TrailGrows
<1>2. \A j \in 1..i : j = i \/ j \in 1..(i - 1)
  BY <1>0
<1> HIDE DEF e, q
<1>3. CASE r.found # Gate!NoPath
  <2>1. u = r
    BY <1>3 DEF Tries
  <2> QED BY <1>3, <2>1 DEF Spread
<1>4. CASE r.found = Gate!NoPath /\ e.target = c
  <2>1. u.found = q
    BY <1>4 DEF Tries, e, q
  <2> QED BY <1>1, <1>4, <2>1 DEF Spread, d
<1>5. CASE r.found = Gate!NoPath /\ e.target # c /\ e.target \in r.visited
  <2>1. u = r
    BY <1>5 DEF Tries, e
  <2>2. \A j \in 1..i : Tryable(m, p)[j].target \in r.visited
    BY <1>2, <1>5 DEF Spread, e
  <2> QED BY <1>5, <2>1, <2>2 DEF Spread
<1>6. CASE r.found = Gate!NoPath /\ e.target # c /\ e.target \notin r.visited
  <2>1. u.found = Gate!NoPath /\ u.visited = r.visited \cup {e.target} /\ u.queue = Append(r.queue, q)
    BY <1>6 DEF Tries, e, q
  <2> DEFINE n == Len(r.queue)
  <2>2. n \in Nat /\ Len(u.queue) = n + 1 /\ u.queue[n + 1] = q /\ \A k \in 1..n : u.queue[k] = r.queue[k]
    BY <2>1, StateFacts
  <2>3. n >= left /\ s.visited \subseteq r.visited /\ c \notin r.visited
    BY <1>6 DEF Spread
  <2>4. s.visited \subseteq u.visited /\ c \notin u.visited
    BY <1>6, <2>1, <2>3
  <2>5. \A k \in 1..left : u.queue[k] = s.queue[k + 1]
    <3>1. \A k \in 1..left : k \in 1..n
      BY <2>2, <2>3
    <3>2. \A k \in 1..left : r.queue[k] = s.queue[k + 1]
      BY <1>6 DEF Spread
    <3> HIDE DEF n
    <3> QED BY <2>2, <3>1, <3>2
  <2>6. ASSUME NEW k \in (left + 1)..(n + 1)
        PROVE  Len(u.queue[k].edges) = d /\ u.queue[k].target \in u.visited /\ u.queue[k].target \notin s.visited
    <3>1. CASE k = n + 1
      <4>1. u.queue[k] = q
        BY <2>2, <3>1
      <4> QED BY <1>1, <1>6, <2>1, <2>3, <4>1
    <3>2. CASE k # n + 1
      <4>1. k \in (left + 1)..n /\ k \in 1..n
        BY <2>2, <2>3, <3>2
      <4>2. Len(r.queue[k].edges) = d /\ r.queue[k].target \in r.visited /\ r.queue[k].target \notin s.visited
        BY <1>6, <4>1 DEF Spread
      <4>3. u.queue[k] = r.queue[k]
        BY <2>2, <4>1
      <4> QED BY <2>1, <4>2, <4>3
    <3> QED BY <3>1, <3>2
  <2>7. ASSUME NEW v \in u.visited PROVE v \in s.visited \/ \E k \in (left + 1)..(n + 1) : u.queue[k].target = v
    <3>1. CASE v = e.target
      <4>1. n + 1 \in (left + 1)..(n + 1) /\ u.queue[n + 1].target = v
        BY <1>1, <2>2, <2>3, <3>1
      <4> QED BY <4>1
    <3>2. CASE v \in r.visited
      <4>1. v \in s.visited \/ \E k \in (left + 1)..n : r.queue[k].target = v
        BY <1>6, <3>2 DEF Spread
      <4>2. \A k \in (left + 1)..n : k \in (left + 1)..(n + 1) /\ u.queue[k] = r.queue[k]
        BY <2>2
      <4> QED BY <4>1, <4>2
    <3> QED BY <2>1, <3>1, <3>2
  <2>8. \A j \in 1..i : Tryable(m, p)[j].target \in u.visited
    <3>1. \A j \in 1..(i - 1) : Tryable(m, p)[j].target \in r.visited
      BY <1>6 DEF Spread
    <3> QED BY <1>2, <2>1, <3>1 DEF e
  <2>9. (n + 1) - left + Cardinality(s.visited) = Cardinality(u.visited)
    <3>1. IsFiniteSet(r.visited) /\ Cardinality(r.visited) \in Nat /\ Cardinality(s.visited) \in Nat
      BY StateFacts
    <3>2. Cardinality(r.visited \cup {e.target}) = Cardinality(r.visited) + 1
      BY <1>6, <3>1, FS_AddElement
    <3>3. n - left + Cardinality(s.visited) = Cardinality(r.visited)
      BY <1>6 DEF Spread
    <3> DEFINE x == Cardinality(r.visited)
               y == Cardinality(s.visited)
               z == Cardinality(u.visited)
    <3>4. x \in Nat /\ y \in Nat /\ z = x + 1 /\ n - left + y = x
      BY <2>1, <3>1, <3>2, <3>3
    <3> HIDE DEF x, y, z, n
    <3>5. (n + 1) - left + y = z
      BY <2>2, <3>4
    <3> QED BY <3>5 DEF x, y, z
  <2>10. n + 1 >= left
    BY <2>2, <2>3
  <2>11. Len(u.queue) = n + 1
    BY <2>2
  <2> HIDE DEF n
  <2> QED BY <2>1, <2>4, <2>5, <2>6, <2>7, <2>8, <2>9, <2>10, <2>11 DEF Spread, d
<1> QED BY <1>3, <1>4, <1>5, <1>6

(* Expanding a node tries all its edges.                                   *)
LEMMA PopSpreads ==
  ASSUME NEW m, Gate!IsModel(m), NEW c, NEW s \in States(m), s.found = Gate!NoPath, s.queue # <<>>, c \notin s.visited
  PROVE  /\ Gate!Pop(m, {c}, s) \in States(m)
         /\ Spread(m, c, s, Head(s.queue), Len(s.queue) - 1, Len(Tryable(m, Head(s.queue))), Gate!Pop(m, {c}, s))
<1> DEFINE p == Head(s.queue)
           N == Len(Tryable(m, p))
           left == Len(s.queue) - 1
<1>1. PICK tried : /\ tried[0] = [s EXCEPT !.queue = Tail(s.queue)]
                   /\ \A i \in 0..N : tried[i] \in States(m)
                   /\ \A i \in 1..N : Tries(m, p, Tryable(m, p)[i], c, tried[i - 1], tried[i])
                   /\ Gate!Pop(m, {c}, s) = tried[N]
  <2>1. PICK tried : Popping(m, c, s, p, tried)
    BY PopUnwinds
  <2> QED BY <2>1 DEF Popping
<1>2. Len(s.queue) \in Nat /\ left \in Nat /\ p \in Paths(m) /\ N \in Nat
  <2>1. Len(s.queue) \in Nat /\ Len(s.queue) # 0 /\ p = s.queue[1]
    BY StateFacts
  <2>2. 1 \in 1..Len(s.queue)
    BY <2>1
  <2>3. p \in Paths(m)
    BY <2>1, <2>2, StateFacts
  <2> QED BY <2>1, <2>3, TryableFacts
<1>3. /\ Len(Tail(s.queue)) = left
      /\ \A k \in 1..left : Tail(s.queue)[k] = s.queue[k + 1]
  BY StateFacts
<1>4. Spread(m, c, s, p, left, 0, tried[0])
  <2>1. tried[0].found = Gate!NoPath /\ tried[0].visited = s.visited /\ tried[0].queue = Tail(s.queue)
    BY <1>1 DEF States
  <2>2. \A k \in (left + 1)..left : FALSE
    BY <1>2
  <2>3. left >= left /\ left - left + Cardinality(s.visited) = Cardinality(s.visited) /\ \A j \in 1..0 : FALSE
    BY <1>2, StateFacts
  <2> HIDE DEF left
  <2> QED BY <1>3, <2>1, <2>2, <2>3 DEF Spread
<1> DEFINE Bad == {k \in Nat : k <= N /\ ~ Spread(m, c, s, p, left, k, tried[k])}
<1>5. Bad = {}
  <2> SUFFICES ASSUME Bad # {} PROVE FALSE
    OBVIOUS
  <2>1. PICK k \in Bad : \A j \in Bad : k <= j
    BY Least
  <2>2. k \in Nat /\ k <= N /\ ~ Spread(m, c, s, p, left, k, tried[k])
    OBVIOUS
  <2>3. k # 0
    BY <1>4, <2>2
  <2>4. k \in 1..N /\ k - 1 \in 0..N /\ k \in 0..N /\ k - 1 \in Nat /\ k - 1 <= N /\ ~ (k <= k - 1)
    BY <1>2, <2>2, <2>3
  <2>5. Spread(m, c, s, p, left, k - 1, tried[k - 1])
    BY <2>1, <2>4
  <2>6. tried[k - 1] \in States(m) /\ tried[k] \in States(m) /\ Tries(m, p, Tryable(m, p)[k], c, tried[k - 1], tried[k])
    BY <1>1, <2>4
  <2> HIDE DEF left, p
  <2>7. Spread(m, c, s, p, left, k, tried[k])
    BY <1>2, <2>4, <2>5, <2>6, SpreadGrows DEF N
  <2> QED BY <2>2, <2>7
<1>6. Spread(m, c, s, p, left, N, tried[N]) /\ tried[N] \in States(m)
  BY <1>1, <1>2, <1>5
<1> QED BY <1>1, <1>6

-----------------------------------------------------------------------------
(* The search goes by depth: the queue is in the order of the depths,      *)
(* which differ by one at most, every entry is a shortest way, and what is *)
(* within the depth of the head is visited.                                *)
Fore(m, s) ==
    /\ Len(s.queue) > 0
    /\ \A k \in 1..Len(s.queue) : \A n \in Nat : n < Len(s.queue[k].edges) => ~ Gate!Walks(m, s.queue[k].target, n)
    /\ \A j, k \in 1..Len(s.queue) :
          j <= k => Len(s.queue[j].edges) <= Len(s.queue[k].edges) /\ Len(s.queue[k].edges) <= Len(s.queue[j].edges) + 1
    /\ \A v : Gate!Walks(m, v, Len(s.queue[1].edges)) => v \in s.visited
    /\ \A t \in Passable(m) : t.source \in s.visited => t.target \in s.visited \/ \E k \in 1..Len(s.queue) : s.queue[k].target = t.source

(* Nothing within the bound is left to visit. *)
Swept(m, s) == \A v : Gate!Walks(m, v, m.maxDepth) => v \in s.visited

Shortest(m, c, p) == p.target = c /\ \A n \in Nat : n < Len(p.edges) => ~ Gate!Walks(m, c, n)

SearchInv(m, c, s) ==
    /\ s \in States(m)
    /\ s.found = Gate!NoPath =>
         /\ c \notin s.visited /\ m.initial \subseteq s.visited
         /\ \A k \in 1..Len(s.queue) : s.queue[k].target \in s.visited
         /\ s.queue = <<>> => Swept(m, s)
         /\ Fore(m, s) \/ Swept(m, s)
    /\ s.found # Gate!NoPath => Shortest(m, c, s.found)

(* As many nodes as were expanded left the queue. *)
Paced(s, n) == s.found # Gate!NoPath \/ s.queue = <<>> \/ n + Len(s.queue) <= Cardinality(s.visited)

(* The order by depth goes on to the next node, or nothing is left to      *)
(* visit.                                                                  *)
LEMMA ForeGoesOn ==
  ASSUME NEW m, Gate!IsModel(m), NEW c, NEW s \in States(m), s.found = Gate!NoPath, s.queue # <<>>, c \notin s.visited,
         m.initial \subseteq s.visited, \A k \in 1..Len(s.queue) : s.queue[k].target \in s.visited, Fore(m, s),
         NEW p \in Paths(m), p = s.queue[1], NEW left \in Nat, Len(s.queue) = left + 1,
         NEW r \in States(m), r.found = Gate!NoPath, Spread(m, c, s, p, left, Len(Tryable(m, p)), r)
  PROVE  (r.queue = <<>> => Swept(m, r)) /\ (Fore(m, r) \/ Swept(m, r))
<1> DEFINE d == Len(p.edges)
           n == Len(r.queue)
<1>1. d \in Nat /\ d <= m.maxDepth /\ n \in Nat /\ m.maxDepth \in Nat /\ 1 \in 1..Len(s.queue)
  BY PathFacts, StateFacts, ModelFacts
<1>2. /\ s.visited \subseteq r.visited /\ n >= left
      /\ \A k \in 1..left : r.queue[k] = s.queue[k + 1]
      /\ \A k \in (left + 1)..n : Len(r.queue[k].edges) = d + 1 /\ r.queue[k].target \in r.visited /\ r.queue[k].target \notin s.visited
      /\ \A v \in r.visited : v \in s.visited \/ \E k \in (left + 1)..n : r.queue[k].target = v
      /\ \A j \in 1..Len(Tryable(m, p)) : Tryable(m, p)[j].target \in r.visited
  BY DEF Spread
<1>3. \A v : Gate!Walks(m, v, d) => v \in s.visited
  BY DEF Fore
<1>4. CASE d >= m.maxDepth
  <2>1. d = m.maxDepth
    BY <1>1, <1>4
  <2> QED BY <1>2, <1>3, <2>1 DEF Swept
<1>5. CASE d < m.maxDepth
  <2>1. ASSUME NEW t \in Passable(m), t.source \in r.visited
        PROVE  t.target \in r.visited \/ \E k \in 1..n : r.queue[k].target = t.source
    <3>1. CASE \E k \in (left + 1)..n : r.queue[k].target = t.source
      <4>1. \A k \in (left + 1)..n : k \in 1..n
        BY <1>1
      <4> QED BY <3>1, <4>1
    <3>2. CASE t.source = p.target
      BY <1>2, <1>5, <3>2, TryableFacts
    <3>3. CASE t.source \in s.visited /\ t.source # p.target
      <4>1. t.target \in s.visited \/ \E k \in 1..Len(s.queue) : s.queue[k].target = t.source
        BY <3>3 DEF Fore
      <4>2. ASSUME NEW k \in 1..Len(s.queue), s.queue[k].target = t.source PROVE \E j \in 1..n : r.queue[j].target = t.source
        <5>1. k # 1
          BY <3>3, <4>2
        <5>2. k - 1 \in 1..left /\ k - 1 \in 1..n /\ (k - 1) + 1 = k
          BY <1>1, <1>2, <5>1
        <5>3. r.queue[k - 1] = s.queue[k]
          BY <1>2, <5>2
        <5> QED BY <4>2, <5>2, <5>3
      <4> QED BY <1>2, <4>1, <4>2
    <3> QED BY <1>2, <2>1, <3>1, <3>2, <3>3
  <2>2. ASSUME n = 0 PROVE Swept(m, r)
    <3>1. \A t \in Passable(m) : t.source \in r.visited => t.target \in r.visited
      BY <2>1, <2>2
    <3>2. m.initial \subseteq r.visited
      BY <1>2
    <3> QED BY <1>1, <3>1, <3>2, WalksStay DEF Swept
  <2>3. ASSUME n # 0 PROVE Fore(m, r)
    <3> DEFINE D(k) == Len(r.queue[k].edges)
    <3>1. \A k \in 1..n : r.queue[k] \in Paths(m) /\ D(k) \in Nat
      BY PathFacts, StateFacts
    <3>2. \A k \in 1..left : k + 1 \in 1..Len(s.queue) /\ D(k) = Len(s.queue[k + 1].edges)
      BY <1>2
    <3>3. \A k \in 1..n : k \in 1..left \/ k \in (left + 1)..n
      BY <1>1
    <3>4. \A k \in 1..left : D(k) >= d /\ D(k) <= d + 1
      <4>1. ASSUME NEW k \in 1..left PROVE D(k) >= d /\ D(k) <= d + 1
        <5>1. 1 <= k + 1 /\ k + 1 \in 1..Len(s.queue) /\ k \in 1..n
          BY <1>1, <1>2, <3>2
        <5>2. Len(s.queue[1].edges) <= Len(s.queue[k + 1].edges) /\ Len(s.queue[k + 1].edges) <= Len(s.queue[1].edges) + 1
          BY <1>1, <5>1 DEF Fore
        <5>3. d <= D(k) /\ D(k) <= d + 1
          BY <3>2, <5>2
        <5>4. D(k) \in Nat
          BY <3>1, <5>1
        <5> HIDE DEF D, d
        <5> QED BY <1>1, <5>3, <5>4
      <4> QED BY <4>1
    <3>5. \A k \in (left + 1)..n : D(k) = d + 1
      BY <1>2
    <3>6. \A j, k \in 1..n : j <= k => D(j) <= D(k) /\ D(k) <= D(j) + 1
      <4>1. ASSUME NEW j \in 1..n, NEW k \in 1..n, j <= k PROVE D(j) <= D(k) /\ D(k) <= D(j) + 1
        <5>1. CASE k \in 1..left
          <6>1. j \in 1..left /\ j + 1 <= k + 1 /\ j + 1 \in 1..Len(s.queue) /\ k + 1 \in 1..Len(s.queue)
            BY <1>1, <3>2, <4>1, <5>1
          <6>2. Len(s.queue[j + 1].edges) <= Len(s.queue[k + 1].edges) /\ Len(s.queue[k + 1].edges) <= Len(s.queue[j + 1].edges) + 1
            BY <6>1 DEF Fore
          <6> QED BY <3>2, <5>1, <6>1, <6>2
        <5>2. CASE k \in (left + 1)..n
          <6>1. D(k) = d + 1 /\ (D(j) = d + 1 \/ (D(j) >= d /\ D(j) <= d + 1)) /\ D(j) \in Nat
            BY <3>1, <3>3, <3>4, <3>5, <5>2
          <6> HIDE DEF D, d
          <6> QED BY <1>1, <6>1
        <5> QED BY <3>3, <5>1, <5>2
      <4> QED BY <4>1
    <3>7. ASSUME NEW k \in 1..n, NEW i \in Nat, i < D(k) PROVE ~ Gate!Walks(m, r.queue[k].target, i)
      <4>1. CASE k \in 1..left
        <5>1. r.queue[k] = s.queue[k + 1] /\ k + 1 \in 1..Len(s.queue)
          BY <1>2, <3>2, <4>1
        <5> QED BY <3>7, <5>1 DEF Fore
      <4>2. CASE k \in (left + 1)..n
        <5>1. i <= d /\ r.queue[k].target \notin s.visited
          <6>1. D(k) = d + 1
            BY <3>5, <4>2
          <6>2. i <= d
            <7> HIDE DEF D, d
            <7> QED BY <1>1, <3>7, <6>1
          <6> QED BY <1>2, <4>2, <6>2
        <5>2. ~ Gate!Walks(m, r.queue[k].target, d)
          BY <1>3, <5>1
        <5> HIDE DEF d
        <5> QED BY <1>1, <5>1, <5>2, WalksUp
      <4> QED BY <3>3, <4>1, <4>2
    <3>8. ASSUME NEW v, Gate!Walks(m, v, D(1)) PROVE v \in r.visited
      <4>0. 1 \in 1..n
        BY <1>1, <2>3
      <4>1. D(1) = d \/ D(1) = d + 1
        <5>1. D(1) \in Nat /\ (D(1) = d + 1 \/ (D(1) >= d /\ D(1) <= d + 1))
          BY <3>1, <3>3, <3>4, <3>5, <4>0
        <5> HIDE DEF D, d
        <5> QED BY <1>1, <5>1
      <4>2. CASE D(1) = d
        BY <1>2, <1>3, <3>8, <4>2
      <4>3. CASE D(1) = d + 1
        <5>1. Gate!Walks(m, v, d + 1)
          BY <3>8, <4>3
        <5>2. Gate!Walks(m, v, d) \/ \E t \in Passable(m) : t.target = v /\ Gate!Walks(m, t.source, d)
          <6> HIDE DEF d
          <6> QED BY <1>1, <5>1, WalksStep
        <5>3. ASSUME NEW t \in Passable(m), t.target = v, Gate!Walks(m, t.source, d) PROVE v \in r.visited
          <6>1. t.source \in r.visited
            BY <1>2, <1>3, <5>3
          <6>2. ASSUME NEW k \in 1..n, r.queue[k].target = t.source PROVE FALSE
            <7>1. 1 <= k /\ D(1) <= D(k)
              BY <1>1, <3>6, <4>0
            <7>2. d < D(k)
              <8>1. D(k) \in Nat
                BY <3>1
              <8> HIDE DEF D, d
              <8> QED BY <1>1, <4>3, <7>1, <8>1
            <7>3. ~ Gate!Walks(m, r.queue[k].target, d)
              BY <1>1, <3>7, <7>2
            <7> QED BY <5>3, <6>2, <7>3
          <6> QED BY <2>1, <5>3, <6>1, <6>2
        <5> QED BY <1>2, <1>3, <5>2, <5>3
      <4> QED BY <4>1, <4>2, <4>3
    <3>9. n > 0
      BY <1>1, <2>3
    <3> QED BY <2>1, <3>6, <3>7, <3>8, <3>9 DEF Fore
  <2>4. r.queue = <<>> => n = 0
    OBVIOUS
  <2> QED BY <2>2, <2>3, <2>4
<1> QED BY <1>1, <1>4, <1>5

(* One round of the breadth-first search keeps its invariant and uses up   *)
(* one node.                                                               *)
LEMMA PopKeeps ==
  ASSUME NEW m, Gate!IsModel(m), NEW c, NEW s, SearchInv(m, c, s), NEW n \in Nat, Paced(s, n)
  PROVE  SearchInv(m, c, Gate!Pop(m, {c}, s)) /\ Paced(Gate!Pop(m, {c}, s), n + 1)
<1> DEFINE r == Gate!Pop(m, {c}, s)
           p == Head(s.queue)
           left == Len(s.queue) - 1
<1> SUFFICES SearchInv(m, c, r) /\ Paced(r, n + 1)
  OBVIOUS
<1>0. s \in States(m)
  BY DEF SearchInv
<1>1. CASE s.queue = <<>> \/ s.found # Gate!NoPath
  <2>1. r = s
    BY <1>1 DEF Gate!Pop
  <2>2. Paced(s, n + 1)
    BY <1>1 DEF Paced
  <2> HIDE DEF r
  <2> QED BY <2>1, <2>2
<1>2. CASE s.queue # <<>> /\ s.found = Gate!NoPath
  <2>1. /\ c \notin s.visited /\ m.initial \subseteq s.visited
        /\ \A k \in 1..Len(s.queue) : s.queue[k].target \in s.visited
        /\ Fore(m, s) \/ Swept(m, s)
        /\ n + Len(s.queue) <= Cardinality(s.visited)
    BY <1>2 DEF SearchInv, Paced
  <2>2. Len(s.queue) \in Nat /\ left \in Nat /\ Len(s.queue) = left + 1 /\ 1 \in 1..Len(s.queue) /\ p = s.queue[1]
    <3>1. Len(s.queue) \in Nat /\ Len(s.queue) # 0 /\ p = s.queue[1]
      BY <1>0, <1>2, StateFacts
    <3> QED BY <3>1
  <2>3. p \in Paths(m)
    BY <1>0, <2>2, StateFacts
  <2>4. r \in States(m) /\ Spread(m, c, s, p, left, Len(Tryable(m, p)), r)
    BY <1>0, <1>2, <2>1, PopSpreads
  <2> HIDE DEF r, p, left
  <2>5. CASE r.found = Gate!NoPath
    <3>1. /\ s.visited \subseteq r.visited /\ c \notin r.visited
          /\ Len(r.queue) >= left
          /\ \A k \in 1..left : r.queue[k] = s.queue[k + 1]
          /\ \A k \in (left + 1)..Len(r.queue) : r.queue[k].target \in r.visited
          /\ Len(r.queue) - left + Cardinality(s.visited) = Cardinality(r.visited)
      BY <2>4, <2>5 DEF Spread
    <3>2. Len(r.queue) \in Nat
      BY <2>4, StateFacts
    <3>3. \A k \in 1..Len(r.queue) : r.queue[k].target \in r.visited
      <4>1. \A k \in 1..left : k + 1 \in 1..Len(s.queue) /\ r.queue[k].target \in r.visited
        <5>1. ASSUME NEW k \in 1..left PROVE k + 1 \in 1..Len(s.queue)
          BY <2>2
        <5>2. ASSUME NEW k \in 1..left PROVE r.queue[k].target \in r.visited
          <6>1. s.queue[k + 1].target \in s.visited
            BY <2>1, <5>1
          <6>2. r.queue[k] = s.queue[k + 1]
            BY <3>1
          <6> QED BY <3>1, <6>1, <6>2
        <5> QED BY <5>1, <5>2
      <4>2. \A k \in 1..Len(r.queue) : k \in 1..left \/ k \in (left + 1)..Len(r.queue)
        BY <2>2, <3>2
      <4> QED BY <3>1, <4>1, <4>2
    <3>4. (r.queue = <<>> => Swept(m, r)) /\ (Fore(m, r) \/ Swept(m, r))
      <4>1. CASE Swept(m, s)
        BY <3>1, <4>1 DEF Swept
      <4>2. CASE Fore(m, s)
        BY <1>0, <1>2, <2>1, <2>2, <2>3, <2>4, <2>5, <4>2, ForeGoesOn
      <4> QED BY <2>1, <4>1, <4>2
    <3>5. SearchInv(m, c, r)
      BY <2>1, <2>4, <2>5, <3>1, <3>3, <3>4 DEF SearchInv
    <3>6. Paced(r, n + 1)
      <4>1. Cardinality(s.visited) \in Nat /\ Cardinality(r.visited) \in Nat
        BY <1>0, <2>4, StateFacts
      <4> DEFINE x == Cardinality(s.visited)
                 y == Cardinality(r.visited)
                 z == Len(r.queue)
      <4>2. x \in Nat /\ y \in Nat /\ z \in Nat /\ z - left + x = y /\ n + (left + 1) <= x
        BY <2>1, <2>2, <3>1, <3>2, <4>1
      <4>3. (n + 1) + z <= y
        <5> HIDE DEF x, y, z
        <5> QED BY <2>2, <4>2
      <4> QED BY <4>3 DEF Paced
    <3> QED BY <3>5, <3>6
  <2>6. CASE r.found # Gate!NoPath
    <3>1. r.found \in Paths(m) /\ r.found.target = c /\ Len(r.found.edges) = Len(p.edges) + 1
      BY <2>4, <2>6, StateFacts DEF Spread
    <3>2. Gate!Walks(m, c, Len(r.found.edges)) /\ Len(r.found.edges) \in Nat /\ Len(r.found.edges) <= m.maxDepth
      BY <3>1, TrailWalks, PathFacts
    <3>3. Fore(m, s)
      <4>1. Gate!Walks(m, c, m.maxDepth)
        BY <3>2, WalksUp, ModelFacts
      <4> QED BY <2>1, <4>1 DEF Swept
    <3>4. ~ Gate!Walks(m, c, Len(p.edges))
      BY <2>1, <2>2, <3>3 DEF Fore
    <3>5. ASSUME NEW i \in Nat, i < Len(r.found.edges) PROVE ~ Gate!Walks(m, c, i)
      <4> DEFINE d == Len(p.edges)
      <4>1. d \in Nat /\ Len(r.found.edges) = d + 1
        BY <2>3, <3>1, PathFacts
      <4> HIDE DEF d
      <4>2. i <= d
        BY <3>5, <4>1
      <4>3. ~ Gate!Walks(m, c, d)
        BY <3>4 DEF d
      <4> QED BY <4>1, <4>2, <4>3, WalksUp
    <3> QED BY <2>4, <2>6, <3>1, <3>5 DEF SearchInv, Shortest, Paced
  <2> QED BY <2>5, <2>6
<1> QED BY <1>1, <1>2

(***************************************************************************)
(* The search for a target ends in the shortest way to it, if there is one *)
(* within the bound, and else in nothing (find_shortest_path).             *)
(***************************************************************************)
LEMMA StartIsInv ==
  ASSUME NEW m, Gate!IsModel(m), NEW c, c \notin m.initial, NEW starts, Line(starts, m.initial), Members(starts) = m.initial,
         NEW s, s = [queue |-> [i \in DOMAIN starts |-> [initial |-> starts[i], target |-> starts[i], edges |-> <<>>]],
                     visited |-> m.initial, found |-> Gate!NoPath]
  PROVE  SearchInv(m, c, s) /\ Paced(s, 0)
<1> DEFINE n == Len(starts)
           q == s.queue
           trivial(x) == [initial |-> x, target |-> x, edges |-> <<>>]
<1>1. n \in Nat /\ DOMAIN starts = 1..n /\ \A i \in 1..n : starts[i] \in m.initial
  BY DEF Line
<1>2. \A x \in m.initial : trivial(x) \in Paths(m)
  <2> SUFFICES ASSUME NEW x \in m.initial PROVE trivial(x) \in Paths(m)
    OBVIOUS
  <2> DEFINE t == trivial(x)
             none == <<>>
  <2>1. x \in m.capabilities /\ m.maxDepth \in Nat
    BY ModelFacts
  <2>2. none \in Seq(Passable(m)) /\ Len(none) = 0
    OBVIOUS
  <2>3. t.initial = x /\ t.target = x /\ t.edges = none
    OBVIOUS
  <2>4. t \in [initial : m.capabilities, target : m.capabilities, edges : Seq(Passable(m))]
    BY <2>1, <2>2
  <2> HIDE DEF t, none
  <2>5. Trail(m, t)
    <3>1. \A i \in 1..0 : FALSE
      OBVIOUS
    <3> QED BY <2>2, <2>3, <3>1 DEF Trail, At
  <2>6. t \in Paths(m)
    BY <2>1, <2>2, <2>3, <2>4, <2>5 DEF Paths
  <2> QED BY <2>6 DEF t
<1>3. q = [i \in 1..n |-> trivial(starts[i])] /\ s.visited = m.initial /\ s.found = Gate!NoPath
  BY <1>1
<1>4. q \in Seq(Paths(m)) /\ Len(q) = n /\ \A i \in 1..n : q[i] = trivial(starts[i])
  <2> DEFINE P == Paths(m)
             f == [i \in 1..n |-> trivial(starts[i])]
  <2>1. \A i \in 1..n : f[i] \in P
    BY <1>1, <1>2
  <2>2. f \in [1..n -> P]
    <3>1. DOMAIN f = 1..n /\ f = [i \in 1..n |-> f[i]]
      OBVIOUS
    <3> HIDE DEF f, P
    <3> QED BY <2>1, <3>1
  <2>3. \A i \in 1..n : f[i] = trivial(starts[i])
    OBVIOUS
  <2>4. f \in Seq(P) /\ Len(f) = n
    <3> HIDE DEF f, P, n
    <3> QED BY <1>1, <2>2
  <2> QED BY <1>3, <2>3, <2>4
<1>5. \A i \in 1..n : q[i].target \in m.initial /\ Len(q[i].edges) = 0
  BY <1>1, <1>4
<1>6. s \in States(m)
  <2>1. s = [queue |-> q, visited |-> m.initial, found |-> Gate!NoPath]
    OBVIOUS
  <2> HIDE DEF q
  <2> QED BY <1>4, <2>1, ModelFacts DEF States
<1>7. n # 0
  <2>1. m.initial # {}
    BY DEF Gate!IsModel
  <2>2. PICK x \in m.initial : TRUE
    BY <2>1
  <2>3. \E i \in 1..n : starts[i] = x
    BY DEF Members
  <2> QED BY <2>3
<1>8. Fore(m, s)
  <2>1. Len(s.queue) = n /\ n > 0 /\ 1 \in 1..n
    BY <1>1, <1>4, <1>7
  <2>2. \A k \in 1..n : Len(s.queue[k].edges) = 0 /\ s.queue[k].target \in m.initial
    BY <1>5
  <2>3. ASSUME NEW t \in Passable(m), t.source \in s.visited PROVE \E k \in 1..n : s.queue[k].target = t.source
    <3>1. t.source \in Members(starts)
      BY <1>3, <2>3
    <3>2. PICK k \in 1..n : starts[k] = t.source
      BY <3>1 DEF Members
    <3> QED BY <1>4, <3>2
  <2>4. \A v : Gate!Walks(m, v, Len(s.queue[1].edges)) => v \in s.visited
    <3>1. Len(s.queue[1].edges) = 0
      BY <2>1, <2>2
    <3> QED BY <1>3, <3>1, WalksStep
  <2> HIDE DEF n
  <2> QED BY <2>1, <2>2, <2>3, <2>4 DEF Fore
<1>9. SearchInv(m, c, s)
  <2>1. s.queue # <<>>
    BY <1>1, <1>4, <1>7
  <2>2. \A k \in 1..Len(s.queue) : s.queue[k].target \in s.visited
    BY <1>3, <1>4, <1>5
  <2> QED BY <1>3, <1>6, <1>8, <2>1, <2>2 DEF SearchInv
<1>10. Paced(s, 0)
  <2>1. starts \in Bijection(1..n, m.initial)
    <3>1. starts \in [1..n -> m.initial] /\ \A i, j \in 1..n : starts[i] = starts[j] => i = j
      BY <1>1 DEF Line
    <3>2. \A x \in m.initial : \E i \in 1..n : starts[i] = x
      BY DEF Members
    <3> QED BY <3>1, <3>2 DEF Bijection, Injection, Surjection, IsInjective
  <2>2. Cardinality(m.initial) = n
    <3>1. ExistsBijection(1..n, m.initial)
      BY <2>1 DEF ExistsBijection
    <3>2. IsFiniteSet(m.initial) /\ IsFiniteSet(1..n) /\ Cardinality(1..n) = n
      BY <1>1, ModelFacts, UpTo
    <3> QED BY <3>1, <3>2, FS_Bijection
  <2>3. 0 + Len(s.queue) <= Cardinality(s.visited)
    BY <1>1, <1>3, <1>4, <2>2
  <2> QED BY <2>3 DEF Paced
<1> QED BY <1>9, <1>10

(* One round of the search leads from a state of the search to another.    *)
LEMMA PopCloses ==
  ASSUME NEW m, Gate!IsModel(m), NEW c, NEW s \in States(m)
  PROVE  Gate!Pop(m, {c}, s) \in States(m)
<1>1. CASE s.queue = <<>> \/ s.found # Gate!NoPath
  BY <1>1 DEF Gate!Pop
<1>2. CASE s.queue # <<>> /\ s.found = Gate!NoPath
  <2> DEFINE p == Head(s.queue)
             N == Len(Tryable(m, p))
  <2>1. PICK tried : Popping(m, c, s, p, tried)
    BY <1>2, PopUnwinds
  <2>2. N \in Nat
    <3>1. 1 \in 1..Len(s.queue) /\ p = s.queue[1]
      <4>1. Len(s.queue) \in Nat /\ Len(s.queue) # 0 /\ p = s.queue[1]
        BY <1>2, StateFacts
      <4> QED BY <4>1
    <3>2. p \in Paths(m)
      BY <3>1, StateFacts
    <3> QED BY <3>2, TryableFacts
  <2>3. N \in 0..N
    BY <2>2
  <2> QED BY <2>1, <2>3 DEF Popping
<1> QED BY <1>1, <1>2

(* What the search is at when its rounds are over. *)
Searching(m, c, starts, C, f) ==
    f = [n \in 0..C |-> IF n = 0 THEN [queue |-> [i \in DOMAIN starts |-> [initial |-> starts[i], target |-> starts[i], edges |-> <<>>]],
                                       visited |-> m.initial, found |-> Gate!NoPath]
                        ELSE Gate!Pop(m, {c}, f[n - 1])]

(* After C rounds the search stands where its invariant says.              *)
LEMMA SearchEnds ==
  ASSUME NEW m, Gate!IsModel(m), NEW c, c \notin m.initial, NEW starts, Line(starts, m.initial), Members(starts) = m.initial,
         NEW C \in Nat
  PROVE  /\ \E f : Searching(m, c, starts, C, f)
         /\ \A f : Searching(m, c, starts, C, f) => SearchInv(m, c, f[C]) /\ Paced(f[C], C)
<1> DEFINE first == [queue |-> [i \in DOMAIN starts |-> [initial |-> starts[i], target |-> starts[i], edges |-> <<>>]],
                     visited |-> m.initial, found |-> Gate!NoPath]
           D == States(m)
           w == [k \in 1..C |-> [z \in D |-> Gate!Pop(m, {c}, z)]]
<1>1. SearchInv(m, c, first) /\ Paced(first, 0)
  BY StartIsInv
<1>2. first \in D
  BY <1>1 DEF SearchInv
<1>3. ASSUME NEW f PROVE Searching(m, c, starts, C, f) <=> f = [n \in 0..C |-> IF n = 0 THEN first ELSE Gate!Pop(m, {c}, f[n - 1])]
  BY DEF Searching
<1> HIDE DEF first, D
<1>4. \E f : Searching(m, c, starts, C, f)
  <2>1. w \in [1..C -> [D -> D]]
    BY PopCloses DEF D
  <2>2. PICK g : Unwinds(g, C, D, first, w)
    BY <1>2, <2>1, Recursion
  <2>3. \A k \in 1..C : g[k] = Gate!Pop(m, {c}, g[k - 1])
    <3>1. \A k \in 1..C : k - 1 \in 0..C
      OBVIOUS
    <3>2. \A k \in 1..C : g[k - 1] \in D
      BY <2>2, <3>1 DEF Unwinds
    <3>3. \A k \in 1..C : g[k] = w[k][g[k - 1]]
      BY <2>2 DEF Unwinds
    <3>4. \A k \in 1..C : w[k][g[k - 1]] = Gate!Pop(m, {c}, g[k - 1])
      BY <3>2
    <3> HIDE DEF w
    <3> QED BY <3>3, <3>4
  <2> DEFINE G(k) == Gate!Pop(m, {c}, g[k - 1])
  <2>4. \A k \in 0..C : g[k] = IF k = 0 THEN first ELSE G(k)
    <3>1. \A k \in 0..C : k = 0 \/ k \in 1..C
      OBVIOUS
    <3>2. \A k \in 1..C : k # 0 /\ g[k] = G(k)
      BY <2>3
    <3>3. g[0] = first
      BY <2>2 DEF Unwinds
    <3> HIDE DEF G
    <3> QED BY <3>1, <3>2, <3>3
  <2>5. g = [k \in 0..C |-> IF k = 0 THEN first ELSE G(k)]
    <3>1. g = [k \in 0..C |-> g[k]]
      BY <2>2 DEF Unwinds
    <3> HIDE DEF G
    <3> QED BY <2>4, <3>1
  <2>6. Searching(m, c, starts, C, g)
    BY <1>3, <2>5
  <2> QED BY <2>6
<1>5. ASSUME NEW f, Searching(m, c, starts, C, f) PROVE SearchInv(m, c, f[C]) /\ Paced(f[C], C)
  <2> DEFINE G(k) == Gate!Pop(m, {c}, f[k - 1])
  <2>1. f = [k \in 0..C |-> IF k = 0 THEN first ELSE G(k)]
    BY <1>3, <1>5
  <2>2. f[0] = first /\ \A k \in 1..C : f[k] = G(k)
    <3> HIDE DEF G
    <3>1. \A k \in 1..C : k # 0 /\ k \in 0..C
      OBVIOUS
    <3>2. 0 \in 0..C
      OBVIOUS
    <3> QED BY <2>1, <3>1, <3>2
  <2> DEFINE Fine(k) == SearchInv(m, c, f[k]) /\ Paced(f[k], k)
             Bad == {k \in Nat : k <= C /\ ~ Fine(k)}
  <2>3. Bad = {}
    <3> SUFFICES ASSUME Bad # {} PROVE FALSE
      OBVIOUS
    <3>1. PICK k \in Bad : \A j \in Bad : k <= j
      BY Least
    <3>2. k \in Nat /\ k <= C /\ ~ Fine(k)
      OBVIOUS
    <3>3. k # 0
      BY <1>1, <2>2, <3>2
    <3>4. k \in 1..C /\ k - 1 \in Nat /\ k - 1 <= C /\ ~ (k <= k - 1) /\ (k - 1) + 1 = k
      BY <3>2, <3>3
    <3>5. Fine(k - 1)
      BY <3>1, <3>4
    <3>6. SearchInv(m, c, Gate!Pop(m, {c}, f[k - 1])) /\ Paced(Gate!Pop(m, {c}, f[k - 1]), (k - 1) + 1)
      BY <3>4, <3>5, PopKeeps
    <3> QED BY <2>2, <3>2, <3>4, <3>6
  <2> QED BY <2>3
<1> QED BY <1>4, <1>5

(***************************************************************************)
(* A target is found when a walk within the bound leads to it, and what is *)
(* found is a shortest one.                                                *)
(***************************************************************************)
LEMMA ShortestPathIs ==
  ASSUME NEW m, Gate!IsModel(m), NEW c
  PROVE  /\ Gate!ShortestPath(m, {c}) # Gate!NoPath <=> Gate!Walks(m, c, m.maxDepth)
         /\ Gate!ShortestPath(m, {c}) # Gate!NoPath =>
              Gate!ShortestPath(m, {c}) \in Paths(m) /\ Shortest(m, c, Gate!ShortestPath(m, {c}))
<1> DEFINE starts == Gate!Sorted(m.initial, {p \in m.initial \X m.initial : p[1] < p[2]})
           trivial(x) == [initial |-> x, target |-> x, edges |-> <<>>]
           hits == {i \in DOMAIN starts : starts[i] \in {c}}
           C == Cardinality(m.capabilities)
           best == Gate!ShortestPath(m, {c})
<1>1. C \in Nat /\ Gate!Cardinality(m.capabilities) = C
  BY GateCardinality, ModelFacts, FS_CardinalityType
<1>2. Line(starts, m.initial) /\ Members(starts) = m.initial
  <2> DEFINE R == {p \in m.initial \X m.initial : p[1] < p[2]}
  <2>1. m.initial \subseteq Nat /\ IsFiniteSet(m.initial)
    BY ModelFacts
  <2>2. \A x, y \in m.initial : <<x, y>> \in R <=> x < y
    OBVIOUS
  <2> HIDE DEF R
  <2>3. Orders(R, m.initial)
    BY <2>1, <2>2 DEF Orders
  <2> QED BY <2>1, <2>3, SortedIsALine DEF R
<1>3. DOMAIN starts = 1..Len(starts) /\ Len(starts) \in Nat
  BY <1>2 DEF Line
<1>4. CASE c \in m.initial
  <2>1. hits # {} /\ hits \subseteq Nat
    <3>1. PICK i \in 1..Len(starts) : starts[i] = c
      BY <1>2, <1>4 DEF Members
    <3>2. i \in hits
      BY <1>3, <3>1
    <3>3. \A j \in 1..Len(starts) : j \in Nat
      BY <1>3
    <3>4. hits \subseteq DOMAIN starts
      OBVIOUS
    <3> HIDE DEF hits, starts
    <3> QED BY <1>3, <3>2, <3>3, <3>4
  <2>2. best = trivial(starts[CHOOSE i \in hits : \A j \in hits : i <= j])
    BY <2>1 DEF Gate!ShortestPath
  <2> DEFINE k == CHOOSE i \in hits : \A j \in hits : i <= j
  <2>3. k \in hits
    <3>1. \E i \in hits : \A j \in hits : i <= j
      BY <2>1, Least
    <3> QED BY <3>1
  <2>4. starts[k] = c
    BY <2>3
  <2>5. best = trivial(c)
    BY <2>2, <2>4
  <2> HIDE DEF best
  <2>6. c \in m.capabilities /\ c # 0 /\ m.maxDepth \in Nat
    BY <1>4, ModelFacts
  <2>7. best # Gate!NoPath
    <3>1. best.target = c
      BY <2>5
    <3> QED BY <2>6, <3>1 DEF Gate!NoPath
  <2>8. Gate!Walks(m, c, m.maxDepth)
    BY <1>4, <2>6, WalksStep, WalksUp
  <2>9. best \in Paths(m) /\ Shortest(m, c, best)
    <3> DEFINE none == <<>>
    <3>1. none \in Seq(Passable(m)) /\ Len(none) = 0 /\ \A i \in 1..0 : FALSE
      OBVIOUS
    <3>2. best.initial = c /\ best.target = c /\ best.edges = none
      BY <2>5
    <3>3. best \in [initial : m.capabilities, target : m.capabilities, edges : Seq(Passable(m))]
      BY <2>5, <2>6, <3>1
    <3> HIDE DEF none
    <3>4. Trail(m, best)
      BY <1>4, <3>1, <3>2 DEF Trail, At
    <3>5. \A n \in Nat : ~ (n < 0)
      OBVIOUS
    <3> QED BY <2>6, <3>1, <3>2, <3>3, <3>4, <3>5 DEF Paths, Shortest
  <2> QED BY <2>7, <2>8, <2>9 DEF best
<1>5. CASE c \notin m.initial
  <2>1. hits = {}
    <3>1. \A i \in 1..Len(starts) : starts[i] \in m.initial
      BY <1>2 DEF Line
    <3> QED BY <1>3, <1>5, <3>1
  <2>2. best = (CHOOSE f : Searching(m, c, starts, C, f))[C].found
    <3>1. Gate!Cardinality(m.capabilities) = C
      BY <1>1
    <3> HIDE DEF C
    <3> QED BY <2>1, <3>1 DEF Gate!ShortestPath, Searching
  <2> DEFINE f == CHOOSE f : Searching(m, c, starts, C, f)
             s == f[C]
  <2>3. SearchInv(m, c, s) /\ Paced(s, C)
    <3> HIDE DEF starts, C
    <3>1. \E g : Searching(m, c, starts, C, g)
      BY <1>1, <1>2, <1>5, SearchEnds
    <3>2. Searching(m, c, starts, C, f)
      BY <3>1
    <3> QED BY <1>1, <1>2, <1>5, <3>2, SearchEnds
  <2>4. best = s.found
    BY <2>2
  <2> HIDE DEF f, s, best, C
  <2>5. s \in States(m)
    BY <2>3 DEF SearchInv
  <2>6. CASE best # Gate!NoPath
    <3>1. best \in Paths(m) /\ Shortest(m, c, best)
      BY <2>3, <2>4, <2>5, <2>6, StateFacts DEF SearchInv
    <3>2. Gate!Walks(m, c, Len(best.edges)) /\ Len(best.edges) \in Nat /\ Len(best.edges) <= m.maxDepth
      BY <3>1, TrailWalks, PathFacts DEF Shortest
    <3>3. Gate!Walks(m, c, m.maxDepth)
      BY <3>2, WalksUp, ModelFacts
    <3> QED BY <2>6, <3>1, <3>3 DEF best
  <2>7. CASE best = Gate!NoPath
    <3>1. s.queue = <<>>
      <4>1. C + Len(s.queue) <= Cardinality(s.visited) \/ s.queue = <<>>
        BY <2>3, <2>4, <2>7 DEF Paced
      <4>2. Len(s.queue) \in Nat /\ Cardinality(s.visited) \in Nat /\ Cardinality(s.visited) <= C
        BY <2>5, StateFacts DEF C
      <4> DEFINE x == Len(s.queue)
                 y == Cardinality(s.visited)
      <4>3. x \in Nat /\ y \in Nat /\ y <= C /\ (C + x <= y \/ s.queue = <<>>)
        BY <4>1, <4>2
      <4>4. x = 0 \/ s.queue = <<>>
        <5> HIDE DEF x, y
        <5> QED BY <1>1, <4>3
      <4>5. Len(s.queue) = 0 => s.queue = <<>>
        BY <2>5, StateFacts
      <4> QED BY <4>4, <4>5
    <3>2. Swept(m, s) /\ c \notin s.visited
      BY <2>3, <2>4, <2>7, <3>1 DEF SearchInv
    <3> QED BY <2>7, <3>2 DEF Swept, best
  <2> QED BY <2>6, <2>7
<1> QED BY <1>4, <1>5

-----------------------------------------------------------------------------
(***************************************************************************)
(* A shortest path that does not replay was lost in the change, although   *)
(* its target is still a capability (replay_failing_path).                 *)
(***************************************************************************)
LEMMA LostWalk ==
  ASSUME NEW b, Gate!IsModel(b), NEW h, Gate!IsModel(h), NEW c \in h.forbidden,
         NEW prior \in Paths(b), Shortest(b, c, prior), ~ Gate!ExactReplay(prior, h)
  PROVE  Gate!LostAShortestWalk(b, h, c)
<1> DEFINE n == Len(prior.edges)
           walk == prior.edges
<1>1. /\ prior.initial \in b.initial /\ walk \in Seq(Passable(b)) /\ n \in Nat /\ n <= b.maxDepth /\ DOMAIN walk = 1..n
      /\ \A i \in 1..n : walk[i].source = At(prior, i - 1) /\ walk[i] \in Passable(b)
      /\ At(prior, n) = c
  <2>1. Trail(b, prior) /\ walk \in Seq(Passable(b)) /\ n \in Nat /\ n <= b.maxDepth /\ \A i \in 1..n : walk[i] \in Passable(b)
    BY PathFacts
  <2> QED BY <2>1 DEF Trail, Shortest
<1>2. c \in h.capabilities
  BY DEF Gate!IsModel
<1>3. prior.initial \notin h.capabilities \/ \E i \in 1..n : Gate!Step(h, IF i = 1 THEN prior.initial ELSE walk[i - 1].target, walk[i]) = {}
  BY <1>1 DEF Gate!ExactReplay
<1>4. n # 0
  <2>1. ASSUME n = 0 PROVE FALSE
    <3>1. prior.initial = c
      BY <1>1, <2>1 DEF At
    <3> QED BY <1>2, <1>3, <2>1, <3>1
  <2> QED BY <2>1
<1>5. n \in 1..b.maxDepth /\ 1 \in 1..n /\ n \in 1..n /\ n - 1 \in Nat /\ n - 1 < n
  BY <1>1, <1>4, ModelFacts
<1>6. Gate!Walks(b, c, n) /\ ~ Gate!Walks(b, c, n - 1)
  BY <1>5, TrailWalks DEF Shortest
<1>7. walk \in [1..n -> {t \in b.transitions : Gate!Traversable(b, t)}]
  BY <1>1 DEF Passable
<1>8. walk[1].source = prior.initial /\ walk[n].target = c
  BY <1>1, <1>4, <1>5 DEF At
<1>9. \A i \in 1..(n - 1) : walk[i].target = walk[i + 1].source
  <2>1. ASSUME NEW i \in 1..(n - 1) PROVE walk[i].target = walk[i + 1].source
    <3>1. i + 1 \in 1..n /\ (i + 1) - 1 = i /\ i # 0
      BY <1>1
    <3> QED BY <1>1, <3>1 DEF At
  <2> QED BY <2>1
<1>10. \E i \in 1..n : ~ Gate!Kept(h, walk[i])
  <2>1. CASE prior.initial \notin h.capabilities
    <3>1. \A u \in h.transitions : u.source \in h.capabilities
      BY DEF Gate!IsModel
    <3>2. ~ Gate!Kept(h, walk[1])
      BY <1>8, <2>1, <3>1 DEF Gate!Kept
    <3> QED BY <1>5, <3>2
  <2>2. ASSUME NEW i \in 1..n, Gate!Step(h, IF i = 1 THEN prior.initial ELSE walk[i - 1].target, walk[i]) = {}
        PROVE  ~ Gate!Kept(h, walk[i])
    <3>1. (IF i = 1 THEN prior.initial ELSE walk[i - 1].target) = walk[i].source
      <4>1. walk[i].source = At(prior, i - 1)
        BY <1>1
      <4>2. i = 1 \/ i - 1 # 0
        BY <1>1
      <4> QED BY <1>8, <4>1, <4>2 DEF At
    <3>2. Gate!Step(h, walk[i].source, walk[i]) = {}
      BY <2>2, <3>1
    <3>3. ASSUME NEW u \in h.transitions, Gate!Traversable(h, u), <<u.id, u.source, u.target>> = <<walk[i].id, walk[i].source, walk[i].target>>
          PROVE  FALSE
      <4>1. u \in Gate!Step(h, walk[i].source, walk[i])
        BY <3>3 DEF Gate!Step
      <4> QED BY <3>2, <4>1
    <3> QED BY <3>3 DEF Gate!Kept
  <2> QED BY <1>3, <2>1, <2>2
<1> HIDE DEF n, walk
<1> QED BY <1>5, <1>6, <1>7, <1>8, <1>9, <1>10, <1>1 DEF Gate!LostAShortestWalk

(* What the comparison lets pass added no risk. *)
LEMMA UnblockedIsSafe ==
  ASSUME NEW b, Gate!IsModel(b), NEW h, Gate!IsModel(h), Gate!Compare(b, h).status # "blocked"
  PROVE  Gate!NoRiskAdded(b, h)
<1>1. \A m, c : Gate!IsModel(m) => (c \in Gate!ReachableForbidden(m) <=> c \in m.forbidden /\ Gate!Walks(m, c, m.maxDepth))
  BY ShortestPathIs DEF Gate!ReachableForbidden
<1>2. Gate!DeltaReasons(b, h) = {} /\ ~ (Gate!FixReplays(b, h) \ {"fix_verified"} # {})
  BY DEF Gate!Compare
<1>3. b.forbidden \subseteq h.forbidden /\ Gate!ReachableForbidden(h) \subseteq Gate!ReachableForbidden(b)
  BY <1>2 DEF Gate!DeltaReasons
<1>4. ASSUME NEW c \in b.forbidden, Gate!Walks(b, c, b.maxDepth), ~ Gate!Walks(h, c, h.maxDepth) PROVE Gate!LostAShortestWalk(b, h, c)
  <2> DEFINE prior == Gate!ShortestPath(b, {c})
  <2>1. c \in Gate!ReachableForbidden(b) \ Gate!ReachableForbidden(h)
    BY <1>1, <1>4
  <2>2. Gate!ReplayStatus(prior, h) = "fix_verified"
    BY <1>2, <2>1 DEF Gate!FixReplays
  <2>3. prior \in Paths(b) /\ Shortest(b, c, prior)
    BY <1>4, ShortestPathIs
  <2> HIDE DEF prior
  <2>4. ~ Gate!ExactReplay(prior, h)
    BY <2>2 DEF Gate!ReplayStatus
  <2> QED BY <1>3, <2>3, <2>4, LostWalk
<1> QED BY <1>1, <1>3, <1>4 DEF Gate!NoRiskAdded

(***************************************************************************)
(* Every entry of a result is what its model evaluates to, and a           *)
(* measurement that passes has seen every model.                           *)
(***************************************************************************)
GateInv ==
    /\ base \in Base /\ heads \in Pushes
    /\ results = [p \in DOMAIN heads |-> results[p]]
    /\ \A p \in DOMAIN heads : \A id \in DOMAIN results[p] :
          id \in Gate!Population(heads[p]) /\ results[p][id] = Gate!EvaluateModel(id, heads[p])
    /\ \A p \in DOMAIN measured : p \in DOMAIN heads /\ (measured[p].status = "pass" => measured[p].observed = Gate!Population(heads[p]))
    /\ proof \in [gate : Nat, provenance : Nat]
    /\ proof.gate # 0 => proof.gate \in DOMAIN heads
    /\ proof.provenance # 0 => proof.gate # 0 /\ DOMAIN results[proof.gate] = Gate!Population(heads[proof.gate])

(* What a well-formed commit gives the evaluation.                         *)
LEMMA CommitFacts ==
  ASSUME NEW C, Gate!IsCommit(C)
  PROVE  /\ IsFiniteSet(DOMAIN C.config) /\ \A id \in DOMAIN C.config : C.config[id] \in DOMAIN C.files
         /\ \A path \in DOMAIN C.files : C.files[path] \in {Gate!Missing, Gate!Invalid} \/ Gate!IsModel(C.files[path])
BY GateCardinality DEF Gate!IsCommit

(* What is pushed is a commit over the same files as the base.             *)
LEMMA PushFacts ==
  ASSUME Gate!GateAssumption, base \in Base, heads \in Pushes, NEW p \in DOMAIN heads
  PROVE  /\ p \in Nat \ {0} /\ Gate!IsCommit(base) /\ Gate!IsCommit(heads[p]) /\ DOMAIN base.files = DOMAIN heads[p].files
         /\ IsFiniteSet(Gate!Population(heads[p]))
<1>1. p \in Nat \ {0} /\ Gate!IsCommit(base) /\ Gate!IsCommit(heads[p]) /\ DOMAIN base.files = DOMAIN heads[p].files
  BY DEF Gate!GateAssumption
<1>2. IsFiniteSet(DOMAIN base.config) /\ IsFiniteSet(DOMAIN heads[p].config)
  BY <1>1, CommitFacts
<1>3. IsFiniteSet(Gate!Population(heads[p]))
  BY <1>2, FS_Union DEF Gate!Population, Gate!Names
<1> QED BY <1>1, <1>3

(* The evaluation of one model blocks, asks for a review or passes.        *)
LEMMA EvaluatedStatus ==
  ASSUME NEW id, NEW head
  PROVE  Gate!EvaluateModel(id, head).status \in {"blocked", "review", "pass"}
<1>1. \A reason : Gate!Blocked(reason).status = "blocked"
  BY DEF Gate!Blocked
<1>2. \A b, h : Gate!Compare(b, h).status \in {"blocked", "review", "pass"}
  <2> SUFFICES ASSUME NEW b, NEW h PROVE Gate!Compare(b, h).status \in {"blocked", "review", "pass"}
    OBVIOUS
  <2> QED BY DEF Gate!Compare
<1> QED BY <1>1, <1>2 DEF Gate!EvaluateModel

(* A push that is not blocked has no blocked model.                        *)
LEMMA StatusIsWorst ==
  ASSUME GateInv, NEW p \in DOMAIN heads, Gate!Status(p) # "blocked", NEW id \in DOMAIN results[p]
  PROVE  results[p][id].status # "blocked"
<1> DEFINE statuses == {results[p][i].status : i \in DOMAIN results[p]}
           Fits(s) == /\ s = "blocked" <=> "blocked" \in statuses
                      /\ s = "review" => "review" \in statuses
                      /\ s = "pass" => statuses \subseteq {"pass"}
<1>1. statuses \subseteq {"blocked", "review", "pass"}
  BY EvaluatedStatus DEF GateInv
<1>2. results[p][id].status \in statuses
  OBVIOUS
<1>3. Gate!Status(p) = CHOOSE s \in {"blocked", "review", "pass"} : Fits(s)
  BY DEF Gate!Status
<1> HIDE DEF statuses
<1>4. \E s \in {"blocked", "review", "pass"} : Fits(s)
  <2>1. CASE "blocked" \in statuses
    BY <2>1
  <2>2. CASE "blocked" \notin statuses /\ "review" \in statuses
    BY <2>2
  <2>3. CASE "blocked" \notin statuses /\ "review" \notin statuses
    BY <1>1, <2>3
  <2> QED BY <2>1, <2>2, <2>3
<1>5. Fits(Gate!Status(p))
  <2> HIDE DEF Fits
  <2> QED BY <1>3, <1>4
<1> QED BY <1>2, <1>5

(* An initial state of the change gate satisfies the inductive invariant.  *)
LEMMA GateInit == Gate!GateAssumption /\ Gate!Init => GateInv
<1> SUFFICES ASSUME Gate!GateAssumption, Gate!Init PROVE GateInv
  OBVIOUS
<1>1. base \in Base /\ heads \in Pushes /\ measured = <<>> /\ proof = [gate |-> 0, provenance |-> 0]
  BY DEF Gate!Init
<1>2. results = [p \in DOMAIN heads |-> <<>>]
  BY DEF Gate!Init
<1>3. \A p \in DOMAIN heads : results[p] = <<>> /\ DOMAIN results[p] = {}
  BY <1>2
<1>4. DOMAIN measured = {}
  BY <1>1
<1> QED BY <1>1, <1>2, <1>3, <1>4 DEF GateInv

(* Evaluations depend on the base alone.                                   *)
LEMMA EvaluationStays ==
  ASSUME UNCHANGED base
  PROVE  /\ \A id, head : Gate!EvaluateModel(id, head)' = Gate!EvaluateModel(id, head)
         /\ \A head : Gate!Population(head)' = Gate!Population(head)
BY DEF Gate!EvaluateModel, Gate!Population

(* The inductive invariant of the change gate implies the property its run *)
(* checks.                                                                 *)
LEMMA GateImplies == Gate!GateAssumption /\ GateInv => Gate!ProofIsEarned
<1> SUFFICES ASSUME Gate!GateAssumption, GateInv, proof.provenance # 0, Gate!Status(proof.gate) # "blocked",
                    NEW id \in Gate!Population(heads[proof.gate])
             PROVE  LET head == heads[proof.gate]
                    IN  /\ id \in Gate!Names(head.config) /\ id \in Gate!Names(base.config) => base.config[id] = head.config[id]
                        /\ id \in Gate!Names(head.config)
                        /\ LET b == base.files[head.config[id]]
                               h == head.files[head.config[id]]
                           IN  {b, h} \cap {Gate!Missing, Gate!Invalid} = {} /\ Gate!NoRiskAdded(b, h)
  BY DEF Gate!ProofIsEarned
<1> DEFINE head == heads[proof.gate]
           path == head.config[id]
           b == base.files[path]
           h == head.files[path]
<1>1. proof.gate \in DOMAIN heads /\ base \in Base /\ heads \in Pushes /\ id \in DOMAIN results[proof.gate]
  BY DEF GateInv
<1>2. results[proof.gate][id] = Gate!EvaluateModel(id, head)
  BY <1>1 DEF GateInv
<1>3. Gate!EvaluateModel(id, head).status # "blocked"
  BY <1>1, <1>2, StatusIsWorst
<1>4. \A reason : Gate!Blocked(reason).status = "blocked"
  BY DEF Gate!Blocked
<1> HIDE DEF head
<1>5. /\ id \in Gate!Names(head.config) /\ ~ (id \in Gate!Names(base.config) /\ base.config[id] # path)
      /\ b # Gate!Missing /\ h # Gate!Missing /\ Gate!Invalid \notin {b, h} /\ Gate!Compare(b, h).status # "blocked"
  BY <1>3, <1>4 DEF Gate!EvaluateModel
<1>6. Gate!IsCommit(base) /\ Gate!IsCommit(head) /\ DOMAIN base.files = DOMAIN head.files
  BY <1>1, PushFacts DEF head
<1>7. path \in DOMAIN head.files /\ path \in DOMAIN base.files
  BY <1>5, <1>6, CommitFacts DEF Gate!Names
<1>8. Gate!IsModel(b) /\ Gate!IsModel(h)
  BY <1>5, <1>6, <1>7, CommitFacts
<1>9. Gate!NoRiskAdded(b, h)
  BY <1>5, <1>8, UnblockedIsSafe
<1> QED BY <1>5, <1>9 DEF head

(* Every step of the change gate keeps the inductive invariant.            *)
LEMMA GateStep == Gate!GateAssumption /\ GateInv /\ [Gate!Next]_Gate!vars => GateInv'
<1> SUFFICES ASSUME Gate!GateAssumption, GateInv, [Gate!Next]_Gate!vars PROVE GateInv'
  OBVIOUS
<1>1. CASE Gate!Evaluate
  <2>1. UNCHANGED <<base, heads, current, cut, measured, proof>> /\ current \in DOMAIN heads
    BY <1>1 DEF Gate!Evaluate
  <2>2. PICK id \in Gate!Population(heads[current]) \ DOMAIN results[current] :
          results' = [results EXCEPT ![current] =
             [i \in DOMAIN results[current] \cup {id} |-> IF i = id THEN Gate!EvaluateModel(id, heads[current]) ELSE results[current][i]]]
    BY <1>1 DEF Gate!Evaluate
  <2> DEFINE new == [i \in DOMAIN results[current] \cup {id} |-> IF i = id THEN Gate!EvaluateModel(id, heads[current]) ELSE results[current][i]]
  <2>3. results = [p \in DOMAIN heads |-> results[p]]
    BY DEF GateInv
  <2>4. results' = [results EXCEPT ![current] = new]
    BY <2>2
  <2>5. \A i \in DOMAIN new : i \in Gate!Population(heads[current]) /\ new[i] = Gate!EvaluateModel(i, heads[current])
    BY <2>1, <2>2 DEF GateInv
  <2> HIDE DEF new
  <2>6. results' = [p \in DOMAIN heads |-> IF p = current THEN new ELSE results[p]]
    BY <2>1, <2>3, <2>4
  <2>7. results'[current] = new /\ \A p \in DOMAIN heads : p # current => results'[p] = results[p]
    BY <2>1, <2>6
  <2>8. results' = [p \in DOMAIN heads' |-> results'[p]]
    BY <2>1, <2>6
  <2>9. \A p \in DOMAIN heads : \A i \in DOMAIN results'[p] :
           i \in Gate!Population(heads[p]) /\ results'[p][i] = Gate!EvaluateModel(i, heads[p])
    BY <2>5, <2>7 DEF GateInv
  <2>10. proof.provenance # 0 => results'[proof.gate] = results[proof.gate]
    <3>1. ASSUME proof.provenance # 0, proof.gate = current PROVE FALSE
      <4>1. DOMAIN results[current] = Gate!Population(heads[current])
        BY <3>1 DEF GateInv
      <4> QED BY <2>2, <4>1
    <3> QED BY <2>7, <3>1 DEF GateInv
  <2>11. /\ \A i, z : Gate!EvaluateModel(i, z)' = Gate!EvaluateModel(i, z)
         /\ \A z : Gate!Population(z)' = Gate!Population(z)
    BY <2>1, EvaluationStays
  <2>12. /\ (base \in Base)' /\ (heads \in Pushes)' /\ (proof \in [gate : Nat, provenance : Nat])'
         /\ (proof.gate # 0 => proof.gate \in DOMAIN heads)'
    BY <2>1 DEF GateInv
  <2>13. (\A p \in DOMAIN measured : p \in DOMAIN heads /\ (measured[p].status = "pass" => measured[p].observed = Gate!Population(heads[p])))'
    BY <2>1, <2>11 DEF GateInv
  <2>14. (\A p \in DOMAIN heads : \A i \in DOMAIN results[p] :
            i \in Gate!Population(heads[p]) /\ results[p][i] = Gate!EvaluateModel(i, heads[p]))'
    BY <2>1, <2>9, <2>11
  <2>15. (proof.provenance # 0 => proof.gate # 0 /\ DOMAIN results[proof.gate] = Gate!Population(heads[proof.gate]))'
    BY <2>1, <2>10, <2>11 DEF GateInv
  <2> QED BY <2>8, <2>12, <2>13, <2>14, <2>15 DEF GateInv
<1>2. CASE Gate!Finish
  <2>1. UNCHANGED <<base, heads, results, cut, measured, proof>>
    BY <1>2 DEF Gate!Finish
  <2> QED BY <2>1, EvaluationStays DEF GateInv
<1>3. ASSUME NEW p \in DOMAIN heads, Gate!Cut(p) PROVE GateInv'
  <2>1. UNCHANGED <<base, heads, current, measured, proof>> /\ proof.gate = 0
    BY <1>3 DEF Gate!Cut
  <2>2. PICK id \in DOMAIN results[p] : results' = [results EXCEPT ![p] = [i \in DOMAIN results[p] \ {id} |-> results[p][i]]]
    BY <1>3 DEF Gate!Cut
  <2> DEFINE new == [i \in DOMAIN results[p] \ {id} |-> results[p][i]]
  <2>3. results = [q \in DOMAIN heads |-> results[q]]
    BY DEF GateInv
  <2>4. results' = [results EXCEPT ![p] = new]
    BY <2>2
  <2>5. \A i \in DOMAIN new : i \in Gate!Population(heads[p]) /\ new[i] = Gate!EvaluateModel(i, heads[p])
    BY DEF GateInv
  <2> HIDE DEF new
  <2>6. results' = [q \in DOMAIN heads |-> IF q = p THEN new ELSE results[q]]
    BY <2>3, <2>4
  <2>7. results'[p] = new /\ \A q \in DOMAIN heads : q # p => results'[q] = results[q]
    BY <2>6
  <2>8. results' = [q \in DOMAIN heads' |-> results'[q]]
    BY <2>1, <2>6
  <2>9. \A q \in DOMAIN heads : \A i \in DOMAIN results'[q] :
           i \in Gate!Population(heads[q]) /\ results'[q][i] = Gate!EvaluateModel(i, heads[q])
    BY <2>5, <2>7 DEF GateInv
  <2>10. proof.provenance = 0
    BY <2>1 DEF GateInv
  <2>11. /\ \A i, z : Gate!EvaluateModel(i, z)' = Gate!EvaluateModel(i, z)
         /\ \A z : Gate!Population(z)' = Gate!Population(z)
    BY <2>1, EvaluationStays
  <2>12. /\ (base \in Base)' /\ (heads \in Pushes)' /\ (proof \in [gate : Nat, provenance : Nat])'
         /\ (proof.gate # 0 => proof.gate \in DOMAIN heads)'
    BY <2>1 DEF GateInv
  <2>13. (\A q \in DOMAIN measured : q \in DOMAIN heads /\ (measured[q].status = "pass" => measured[q].observed = Gate!Population(heads[q])))'
    BY <2>1, <2>11 DEF GateInv
  <2>14. (\A q \in DOMAIN heads : \A i \in DOMAIN results[q] :
            i \in Gate!Population(heads[q]) /\ results[q][i] = Gate!EvaluateModel(i, heads[q]))'
    BY <2>1, <2>9, <2>11
  <2> QED BY <2>1, <2>8, <2>10, <2>12, <2>13, <2>14 DEF GateInv
<1>4. ASSUME NEW p \in DOMAIN heads, Gate!Measure(p) PROVE GateInv'
  <2> DEFINE eligible == Gate!Population(heads[p])
             observed == DOMAIN results[p]
             m == [status |-> IF Cardinality(observed) < Cardinality(eligible) THEN "blocked" ELSE "pass",
                   observed |-> observed, config |-> heads[p].config]
  <2>1. UNCHANGED <<base, heads, current, results, cut, proof>>
    BY <1>4 DEF Gate!Measure
  <2>2. measured' = [q \in DOMAIN measured \cup {p} |-> IF q = p THEN m ELSE measured[q]]
    BY <1>4, GateCardinality DEF Gate!Measure
  <2>3. m.status = "pass" => m.observed = eligible
    <3>1. observed \subseteq eligible /\ IsFiniteSet(eligible)
      BY PushFacts DEF GateInv
    <3>2. Cardinality(observed) \in Nat /\ Cardinality(eligible) \in Nat /\ Cardinality(observed) <= Cardinality(eligible)
          /\ (Cardinality(observed) = Cardinality(eligible) => observed = eligible)
      BY <3>1, FS_Subset, FS_CardinalityType
    <3>3. m.status = "pass" => ~ (Cardinality(observed) < Cardinality(eligible))
      OBVIOUS
    <3>4. m.observed = observed
      OBVIOUS
    <3> DEFINE x == Cardinality(observed)
               y == Cardinality(eligible)
    <3>5. x \in Nat /\ y \in Nat /\ x <= y /\ (x = y => observed = eligible) /\ (m.status = "pass" => ~ (x < y))
      BY <3>2, <3>3
    <3> HIDE DEF x, y, m, observed, eligible
    <3> QED BY <3>4, <3>5
  <2> HIDE DEF m
  <2>4. \A q \in DOMAIN measured' : q \in DOMAIN heads /\ (measured'[q].status = "pass" => measured'[q].observed = Gate!Population(heads[q]))
    BY <2>2, <2>3 DEF GateInv
  <2>5. /\ \A i, z : Gate!EvaluateModel(i, z)' = Gate!EvaluateModel(i, z)
        /\ \A z : Gate!Population(z)' = Gate!Population(z)
    BY <2>1, EvaluationStays
  <2>6. (\A q \in DOMAIN measured : q \in DOMAIN heads /\ (measured[q].status = "pass" => measured[q].observed = Gate!Population(heads[q])))'
    BY <2>1, <2>4, <2>5
  <2> QED BY <2>1, <2>5, <2>6 DEF GateInv
<1>5. ASSUME NEW p \in DOMAIN heads, Gate!AttachGate(p) PROVE GateInv'
  <2>1. UNCHANGED <<base, heads, current, results, cut, measured>> /\ proof.gate = 0 /\ proof' = [proof EXCEPT !.gate = p]
    BY <1>5 DEF Gate!AttachGate
  <2>2. p \in Nat /\ proof.provenance = 0
    BY <2>1, PushFacts DEF GateInv
  <2>3. proof' \in [gate : Nat, provenance : Nat] /\ proof'.gate = p /\ proof'.provenance = 0
    BY <2>1, <2>2 DEF GateInv
  <2> QED BY <1>5, <2>1, <2>3, EvaluationStays DEF GateInv
<1>6. ASSUME NEW p \in DOMAIN heads, NEW q \in DOMAIN heads, Gate!AttachProvenance(p, q) PROVE GateInv'
  <2>1. /\ UNCHANGED <<base, heads, current, results, cut, measured>> /\ proof' = [proof EXCEPT !.provenance = p]
        /\ proof.gate # 0 /\ p \in DOMAIN measured /\ heads[p] = heads[proof.gate]
        /\ measured[p].observed = DOMAIN results[proof.gate] /\ measured[p].status = "pass"
    BY <1>6 DEF Gate!AttachProvenance
  <2>2. DOMAIN results[proof.gate] = Gate!Population(heads[proof.gate])
    BY <2>1 DEF GateInv
  <2>3. p \in Nat
    BY PushFacts DEF GateInv
  <2>4. proof' \in [gate : Nat, provenance : Nat] /\ proof'.gate = proof.gate
    BY <2>1, <2>3 DEF GateInv
  <2>5. /\ \A i, z : Gate!EvaluateModel(i, z)' = Gate!EvaluateModel(i, z)
        /\ \A z : Gate!Population(z)' = Gate!Population(z)
    BY <2>1, EvaluationStays
  <2>6. (proof.provenance # 0 => proof.gate # 0 /\ DOMAIN results[proof.gate] = Gate!Population(heads[proof.gate]))'
    BY <2>1, <2>2, <2>4, <2>5
  <2>7. (proof.gate # 0 => proof.gate \in DOMAIN heads)' /\ (proof \in [gate : Nat, provenance : Nat])'
    BY <2>1, <2>4 DEF GateInv
  <2> QED BY <2>1, <2>5, <2>6, <2>7 DEF GateInv
<1>7. CASE UNCHANGED Gate!vars
  BY <1>7, EvaluationStays DEF GateInv, Gate!vars
<1> QED
  BY <1>1, <1>2, <1>3, <1>4, <1>5, <1>6, <1>7 DEF Gate!Next

(***************************************************************************)
(* An authoritative client proof stands for the push it names: no          *)
(* forbidden capability came within reach of a search within the model's   *)
(* bound, and one that went out of reach lost a shortest way to it         *)
(* (run_change_gate, replay_failing_path, build_client_proof).             *)
(***************************************************************************)
THEOREM GateKept == ASSUME Gate!GateAssumption PROVE Gate!Spec => []Gate!ProofIsEarned
<1>1. GateInv => Gate!ProofIsEarned
  BY GateImplies
<1>2. Gate!Init => GateInv
  BY GateInit
<1>3. GateInv /\ [Gate!Next]_Gate!vars => GateInv'
  BY GateStep
<1> QED
  BY <1>1, <1>2, <1>3, PTL DEF Gate!Spec

-----------------------------------------------------------------------------
(* The composition.  A component's variables keep its invariant while the  *)
(* behaviour is of it, and the property speaks of no other behaviour.      *)

ComposedVars == <<part, admission, registry, bundling, repair, gate, witness, tracing, payment, provider>>

ComposedInv ==
    /\ part = "admission" => AdmissionInv
    /\ part = "registry" => RegistryInv
    /\ part = "control" => ControlInv
    /\ part = "repair" => RepairInv
    /\ part = "gate" => GateInv
    /\ part = "witness" => WitnessInv
    /\ part = "trace" => TraceInv
    /\ part = "payment" => PaymentInv
    /\ part = "provider" => ProviderInv

(* An initial state of the composed parts satisfies the inductive          *)
(* invariant.                                                              *)
LEMMA ComposedInit == Init => ComposedInv
BY AssuranceAssumption, AdmissionInit, RegistryInit, ControlInit, RepairInit, GateInit, WitnessInit, TraceInit, PaymentInit, ProviderInit
   DEF Init, ComposedInv

(* A step is of the component that the behaviour is of. *)
LEMMA ComposedStep ==
  ASSUME [Next]_ComposedVars
  PROVE  /\ part' = part
         /\ part = "admission" => [Admission!Next]_Admission!vars
         /\ part = "registry" => [Registry!Next]_Registry!vars
         /\ part = "control" => [Control!Next]_Control!vars
         /\ part = "repair" => [Repair!Next]_Repair!vars
         /\ part = "gate" => [Gate!Next]_Gate!vars
         /\ part = "witness" => [Witness!Next]_Witness!vars
         /\ part = "trace" => [Trace!Next]_Trace!vars
         /\ part = "payment" => [Payment!Next]_Payment!vars
         /\ part = "provider" => [Provider!Next]_Provider!vars
<1>1. CASE Next
  BY <1>1 DEF Next
<1>2. CASE UNCHANGED ComposedVars
  <2>1. UNCHANGED <<part, admission, registry, bundling, repair, gate, witness, tracing, payment, provider>>
    BY <1>2 DEF ComposedVars
  <2>2. UNCHANGED Admission!vars
    BY <2>1 DEF admission, Admission!vars
  <2>3. UNCHANGED Registry!vars
    BY <2>1 DEF registry, Registry!vars
  <2>4. UNCHANGED Control!vars
    BY <2>1 DEF bundling, Control!vars
  <2>5. UNCHANGED Repair!vars
    BY <2>1 DEF repair, Repair!vars
  <2>6. UNCHANGED Witness!vars
    BY <2>1 DEF witness, Witness!vars
  <2>7. UNCHANGED Trace!vars
    BY <2>1 DEF tracing, Trace!vars
  <2>8. UNCHANGED Payment!vars
    BY <2>1 DEF payment, Payment!vars
  <2>9. UNCHANGED Provider!vars
    BY <2>1 DEF provider, Provider!vars
  <2>10. UNCHANGED Gate!vars
    BY <2>1 DEF gate, Gate!vars
  <2> QED BY <2>1, <2>2, <2>3, <2>4, <2>5, <2>6, <2>7, <2>8, <2>9, <2>10
<1> QED
  BY <1>1, <1>2

(* Every step of the composed parts keeps the inductive invariant.         *)
LEMMA ComposedKept == ComposedInv /\ [Next]_ComposedVars => ComposedInv'
BY ComposedStep, AssuranceAssumption, AdmissionStep, RegistryStep, ControlStep, RepairStep, GateStep, WitnessStep, TraceStep, PaymentStep,
   ProviderStep
   DEF ComposedInv

(***************************************************************************)
(* The admission of submitted proofs in the composition.                   *)
(***************************************************************************)
THEOREM ComposedAdmission == Spec => []VerifiedIsGrounded
<1>1. ComposedInv => VerifiedIsGrounded
  BY DEF ComposedInv, AdmissionInv, VerifiedIsGrounded
<1> QED
  BY ComposedInit, ComposedKept, <1>1, PTL DEF Spec, ComposedVars

(***************************************************************************)
(* The proof registry in the composition.                                  *)
(***************************************************************************)
THEOREM ComposedRegistry == Spec => []PassIsLineage
<1>1. ComposedInv => PassIsLineage
  BY AssuranceAssumption, RegistryImplies DEF ComposedInv, PassIsLineage
<1> QED
  BY ComposedInit, ComposedKept, <1>1, PTL DEF Spec, ComposedVars

(***************************************************************************)
(* The control bundles in the composition.                                 *)
(***************************************************************************)
THEOREM ComposedControl == Spec => []DeliveredStands
<1>1. ComposedInv => DeliveredStands
  BY AssuranceAssumption, ControlImplies DEF ComposedInv, DeliveredStands
<1> QED
  BY ComposedInit, ComposedKept, <1>1, PTL DEF Spec, ComposedVars

(***************************************************************************)
(* The rounds of repairs in the composition.                               *)
(***************************************************************************)
THEOREM ComposedRepair == Spec => []RoundsNeverErode
<1>1. ComposedInv => RoundsNeverErode
  BY DEF ComposedInv, RepairInv, RoundsNeverErode
<1> QED
  BY ComposedInit, ComposedKept, <1>1, PTL DEF Spec, ComposedVars

(***************************************************************************)
(* The client proofs of the change gate in the composition.                *)
(***************************************************************************)
THEOREM ComposedGate == Spec => []ProofIsEarned
<1>1. ComposedInv => ProofIsEarned
  BY AssuranceAssumption, GateImplies DEF ComposedInv, ProofIsEarned
<1> QED
  BY ComposedInit, ComposedKept, <1>1, PTL DEF Spec, ComposedVars

(***************************************************************************)
(* The independent witnesses in the composition.                           *)
(***************************************************************************)
THEOREM ComposedWitness == Spec => []ConfirmedIsWhole
<1>1. ComposedInv => ConfirmedIsWhole
  BY AssuranceAssumption, WitnessImplies DEF ComposedInv, ConfirmedIsWhole
<1> QED
  BY ComposedInit, ComposedKept, <1>1, PTL DEF Spec, ComposedVars

(***************************************************************************)
(* The traces and their checks in the composition.                         *)
(***************************************************************************)
THEOREM ComposedTrace == Spec => []AcceptedIsWhole
<1>1. ComposedInv => AcceptedIsWhole
  BY AssuranceAssumption, TraceImplies DEF ComposedInv, AcceptedIsWhole
<1> QED
  BY ComposedInit, ComposedKept, <1>1, PTL DEF Spec, ComposedVars

(***************************************************************************)
(* The evaluator of payment traces in the composition.                     *)
(***************************************************************************)
THEOREM ComposedPayment == Spec => []EvaluationIsExact
<1>1. ComposedInv => EvaluationIsExact
  BY AssuranceAssumption, PaymentImplies DEF ComposedInv, EvaluationIsExact
<1> QED
  BY ComposedInit, ComposedKept, <1>1, PTL DEF Spec, ComposedVars

(***************************************************************************)
(* The decisions on a provider's payments in the composition.              *)
(***************************************************************************)
THEOREM ComposedProvider == Spec => []MoneyMovesOnce
<1>1. ComposedInv => MoneyMovesOnce
  BY AssuranceAssumption, ProviderImplies DEF ComposedInv, MoneyMovesOnce
<1> QED
  BY ComposedInit, ComposedKept, <1>1, PTL DEF Spec, ComposedVars
=============================================================================

--------------------------- MODULE ContractLattice ---------------------------
(***************************************************************************)
(* contract_lattice.py: a declared lattice of points, each with a version, *)
(* a locked value and the references bound at it, is checked transition by *)
(* transition and then searched for reachable locked value without a way   *)
(* to a safe terminal.  The contract it describes then runs: it needs, at  *)
(* the source of a transition, the references that the transition uses.    *)
(* Counterexample paths are those of LifecycleLiveness and left out here.  *)
(***************************************************************************)
EXTENDS Naturals, FiniteSets

CONSTANTS
    Points,
    PointShapes,        \* [version, locked, bound]
    TransitionShapes,   \* [source, target, uses, timeSensitive]
    MaxTransitions

(* A reference is an authority, a piece of evidence or a time witness. *)
Kinds == {"authority", "evidence", "time"}

LatticeAssumption ==
    /\ PointShapes \subseteq [version : Nat, locked : Nat, bound : SUBSET Kinds]
    /\ TransitionShapes \subseteq [source : Points, target : Points, uses : SUBSET Kinds, timeSensitive : BOOLEAN]
    /\ MaxTransitions \in Nat

VARIABLES
    points, transitions, initial, safe,     \* the declared lattice
    checked,                                \* transitions checked so far
    violations,                             \* [kind, of]: the transition or the point
    verdict,
    at                                      \* the point the contract is at

lattice == <<points, transitions, initial, safe>>
vars == <<lattice, checked, violations, verdict, at>>

Init ==
    /\ points \in [Points -> PointShapes]
    /\ transitions \in {ts \in SUBSET TransitionShapes : Cardinality(ts) <= MaxTransitions}
    /\ initial \in Points
    /\ safe \in SUBSET Points \ {{}} /\ \A p \in safe : points[p].locked = 0
    /\ checked = {} /\ violations = {} /\ verdict = "none" /\ at = initial

-----------------------------------------------------------------------------
StepKinds_VersionMayRepeat(t) ==
    (IF points[t.target].version < points[t.source].version THEN {"non_unit_version_step"} ELSE {}) \cup
    {k \in Kinds : k \in t.uses \ points[t.source].bound} \cup
    (IF t.timeSensitive /\ "time" \notin t.uses THEN {"unwitnessed"} ELSE {})

StepKinds(t) ==
    (IF points[t.target].version # points[t.source].version + 1 THEN {"non_unit_version_step"} ELSE {}) \cup
    {k \in Kinds : k \in t.uses \ points[t.source].bound} \cup
    (IF t.timeSensitive /\ "time" \notin t.uses THEN {"unwitnessed"} ELSE {})

CheckTransition(t) ==
    /\ verdict = "none" /\ t \notin checked
    /\ checked' = checked \cup {t}
    /\ violations' = violations \cup [kind : StepKinds(t), of : {t}]
    /\ UNCHANGED <<lattice, verdict, at>>

Successors(ps) == {t.target : t \in {t \in transitions : t.source \in ps}}
Predecessors(ps) == {t.source : t \in {t \in transitions : t.target \in ps}}

(* What the two breadth-first searches have seen after n levels. *)
Reached[n \in 0..Cardinality(Points)] ==
    IF n = 0 THEN {initial} ELSE Reached[n - 1] \cup Successors(Reached[n - 1])

CanReachSafe[n \in 0..Cardinality(Points)] ==
    IF n = 0 THEN safe ELSE CanReachSafe[n - 1] \cup Predecessors(CanReachSafe[n - 1])

Report ==
    /\ verdict = "none" /\ checked = transitions
    /\ LET trapped == {p \in Reached[Cardinality(Points)] :
                          points[p].locked > 0 /\ p \notin CanReachSafe[Cardinality(Points)]}
       IN  violations' = violations \cup {[kind |-> "locked_value", of |-> p] : p \in trapped}
    /\ verdict' = IF violations' = {} THEN "pass" ELSE "fail"
    /\ UNCHANGED <<lattice, checked, at>>

-----------------------------------------------------------------------------
(* Time-sensitive steps need a witness whether or not the lattice says so. *)
Enabled(t) ==
    /\ t.source = at
    /\ t.uses \cup (IF t.timeSensitive THEN {"time"} ELSE {}) \subseteq points[at].bound

Take ==
    /\ verdict # "none"
    /\ \E t \in transitions : Enabled(t) /\ at' = t.target
    /\ UNCHANGED <<lattice, checked, violations, verdict>>

Next == (\E t \in transitions : CheckTransition(t)) \/ Report \/ Take

Spec == Init /\ [][Next]_vars /\ WF_vars(Take)

-----------------------------------------------------------------------------
(***************************************************************************)
(* What a pass is for, and what it takes several of the checks to give: a  *)
(* contract whose lattice passed, and that is not left alone for ever while*)
(* it can move, ends with no value locked.  Version steps keep it from     *)
(* going round, references bound at every source keep it from being stuck, *)
(* and where value is locked there is a way on to a safe terminal.         *)
(***************************************************************************)
PassedLatticeReleasesValue == verdict = "pass" ~> [](points[at].locked = 0)
=============================================================================

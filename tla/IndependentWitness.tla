------------------------- MODULE IndependentWitness -------------------------
(***************************************************************************)
(* An observed ledger held against an external witness                     *)
(* (independent_witness.py): events happen and both record them; one       *)
(* source or one failure domain may be faulty and then loses, invents and  *)
(* garbles events, in the same way for everybody who depends on it; the    *)
(* two lists are collected one after the other, while events go on.        *)
(***************************************************************************)
EXTENDS Naturals, FiniteSets, Functions

CONSTANTS Ids, Objects, Sources, Domains

None == "none"
Roles == {"observed", "external"}

(* A source is not a failure domain, and neither is the absence of one. *)
WitnessAssumption == Sources \cap Domains = {} /\ None \notin Sources \cup Domains

VARIABLES
    declared, \* role -> [source, domain]
    fault,    \* the one source or domain that is faulty, or None
    happened, \* event id -> object
    ledger,   \* role -> what it recorded, id -> object or None
    list,     \* role -> what was collected of it, or {} when nothing was yet
    since,    \* what had happened when the first list was collected
    passed    \* levels of which the evaluation of these lists passed

vars == <<declared, fault, happened, ledger, list, since, passed>>

Collected(role) == Cardinality(list[role]) = 1
The(role) == CHOOSE l \in list[role] : TRUE

Init ==
    /\ declared \in [Roles -> [source : Sources, domain : Domains]]
    /\ fault \in Sources \cup Domains \cup {None}
    /\ happened = <<>> /\ ledger = [r \in Roles |-> <<>>]
    /\ list = [r \in Roles |-> {}] /\ since = <<>> /\ passed = {}

-----------------------------------------------------------------------------
Faulty(role) == fault \in {declared[role].source, declared[role].domain}

(* What may become of an event in a fault: nothing is recorded, something  *)
(* else is, or the object is not the right one or left out.                *)
Garbled == {{}} \cup {{<<i, o>>} : i \in Ids, o \in Objects \cup {None}}

(* Identifiers are unique in a source. *)
With(l, records) ==
    LET new == {r \in records : r[1] \notin DOMAIN l} IN
    [i \in DOMAIN l \cup {r[1] : r \in new} |-> IF i \in DOMAIN l THEN l[i] ELSE (CHOOSE r \in new : r[1] = i)[2]]

Happen(i, o, garbled) ==
    /\ i \in Ids \ DOMAIN happened
    /\ happened' = With(happened, {<<i, o>>})
    /\ ledger' = [r \in Roles |-> With(ledger[r], IF Faulty(r) THEN garbled ELSE {<<i, o>>})]
    /\ UNCHANGED <<declared, fault, list, since, passed>>

Collect(role) ==
    /\ list[role] = {} /\ list' = [list EXCEPT ![role] = {ledger[role]}]
    /\ since' = IF \A r \in Roles : ~Collected(r) THEN happened ELSE since
    /\ UNCHANGED <<declared, fault, happened, ledger, passed>>

-----------------------------------------------------------------------------
(* independent_witness.py *)
Levels == {"COUNT_COVERAGE", "EVENT_ID_COVERAGE", "SUBJECT_OBJECT_COVERAGE"}

Independent_OfSource ==
    declared["observed"].source # declared["external"].source
Independent ==
    /\ declared["observed"].source # declared["external"].source
    /\ declared["observed"].domain # declared["external"].domain

(* Objects must be named at the strongest level only. *)
Valid(level) == level = "SUBJECT_OBJECT_COVERAGE" => \A r \in Roles : None \notin Range(The(r))

CountsMatch == Cardinality(DOMAIN The("observed")) = Cardinality(DOMAIN The("external"))
IdsMatch == DOMAIN The("observed") = DOMAIN The("external")
ObjectsMatch == \A i \in DOMAIN The("observed") \cap DOMAIN The("external") : The("observed")[i] = The("external")[i]

Passes(level) ==
    /\ Valid(level) /\ Independent /\ CountsMatch
    /\ level # "COUNT_COVERAGE" => IdsMatch
    /\ level = "SUBJECT_OBJECT_COVERAGE" => ObjectsMatch

Evaluate ==
    /\ \A r \in Roles : Collected(r)
    /\ passed = {} /\ passed' = {level \in Levels : Passes(level)} /\ passed' # {}
    /\ UNCHANGED <<declared, fault, happened, ledger, list, since>>

Next ==
    \/ \E i \in Ids, o \in Objects, garbled \in Garbled : Happen(i, o, garbled)
    \/ \E role \in Roles : Collect(role)
    \/ Evaluate

Spec == Init /\ [][Next]_vars

-----------------------------------------------------------------------------
Pairs(f) == {<<i, f[i]>> : i \in DOMAIN f}
Between(low, x, high) == low \subseteq x /\ x \subseteq high

(* "A ledger cannot prove its own completeness": when one source or one    *)
(* failure domain fails, whichever it is and whatever it does to whom, a   *)
(* list that a witness confirms holds what had happened when the first of  *)
(* the two was collected and nothing that did not happen: by number, by    *)
(* identity or with the objects, according to the level.                   *)
ConfirmedIsWhole ==
    LET l == The("observed") IN
    /\ "COUNT_COVERAGE" \in passed =>
          Cardinality(DOMAIN l) \in Cardinality(DOMAIN since)..Cardinality(DOMAIN happened)
    /\ "EVENT_ID_COVERAGE" \in passed => Between(DOMAIN since, DOMAIN l, DOMAIN happened)
    /\ "SUBJECT_OBJECT_COVERAGE" \in passed => Between(Pairs(since), Pairs(l), Pairs(happened))
=============================================================================

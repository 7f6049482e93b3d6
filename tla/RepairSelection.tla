--------------------------- MODULE RepairSelection ---------------------------
(***************************************************************************)
(* Reviewed repairs in rounds (repair_search.py, causal_repair.py).  In a  *)
(* round reviewers assess candidate sets of repairs one by one; the search *)
(* selects the smallest that repairs the targets; the single-change        *)
(* verifier may be asked about it; once merged, its assessment is the next *)
(* round's baseline.                                                       *)
(*                                                                         *)
(* A snapshot gives each invariant "pass", "fail", "unsure" (inconclusive  *)
(* or not_applicable) or "missing" (not in the list).                      *)
(***************************************************************************)
EXTENDS Naturals, FiniteSets

CONSTANTS
    Repairs,        \* reviewed repairs
    Elements,       \* Repairs -> the elements a repair changes
    Snapshots,      \* snapshots that an assessment may give
    Scopes,         \* [targets, guards] of a search
    MaxCandidates   \* bound of the candidate sets of a round

RepairAssumption ==
    /\ MaxCandidates \in Nat \ {0}
    /\ \A s \in Scopes : s.targets # {} /\ s.targets \cap s.guards = {}
    /\ IsFiniteSet(Repairs) /\ IsFiniteSet(UNION {Elements[r] : r \in Repairs})
    /\ \A a, b \in Snapshots : DOMAIN a = DOMAIN b /\ \A i \in DOMAIN a : a[i] \in {"pass", "fail", "unsure", "missing"}

VARIABLES
    baseline,    \* the snapshot of what is merged
    candidates,  \* sequence number -> [repairs, after]: the assessed sets
    scope,       \* the targets and guards of the search that has answered
    answer,      \* its status, or "none"
    selected,    \* the number of the set it selected, or 0
    unbroken     \* invariants that passed once and were reported ever since

vars == <<baseline, candidates, scope, answer, selected, unbroken>>
Is(snapshot, s) == {i \in DOMAIN snapshot : snapshot[i] = s}
NoAnswer == answer' = "none" /\ selected' = 0

Init ==
    /\ baseline \in Snapshots /\ candidates = <<>> /\ scope \in Scopes
    /\ answer = "none" /\ selected = 0 /\ unbroken = Is(baseline, "pass")

-----------------------------------------------------------------------------
(* causal_repair.py: one change against its baseline. *)
New(before, after) == Is(after, "fail") \ (Is(before, "fail") \cup Is(before, "missing"))

Causal(s, before, after) ==
    IF s.guards \cap Is(before, "pass") \cap Is(after, "fail") # {} THEN "fail"
    ELSE IF \/ ~(s.targets \subseteq Is(before, "fail")) \/ ~(s.guards \subseteq Is(before, "pass"))
            \/ (s.targets \cup s.guards) \cap (Is(after, "missing") \cup Is(after, "unsure")) # {} THEN "inconclusive"
    ELSE IF s.targets \subseteq Is(after, "pass") THEN "pass" ELSE "fail"

-----------------------------------------------------------------------------
(* repair_search.py *)
ValidBaseline(s, before) == s.targets \subseteq Is(before, "fail") /\ s.guards \subseteq Is(before, "pass")

(* What passed before and is still reported must be reported as sure.      *)
Weakened_GuardsOnly(s, before, after) == s.guards \cap Is(after, "unsure")
Weakened(s, before, after) == Is(before, "pass") \cap Is(after, "unsure")

Evaluate(s, before, after) ==
    IF \/ ~ValidBaseline(s, before) \/ Weakened(s, before, after) # {}
       \/ (s.targets \cup s.guards) \cap Is(after, "missing") # {} \/ s.targets \cap Is(after, "unsure") # {} THEN "inconclusive"
    ELSE IF New(before, after) # {} \/ s.targets \cap Is(after, "fail") # {} THEN "fail"
    ELSE "pass"

Changed(c) == UNION {Elements[r] : r \in c.repairs}

Eligible(s) == {n \in DOMAIN candidates : Evaluate(s, baseline, candidates[n].after) = "pass"}

(* Fewest repairs, then fewest changed elements, then by name. *)
Before(n, m) ==
    LET c == candidates[n]
        d == candidates[m]
        size == Cardinality(c.repairs)
        other == Cardinality(d.repairs)
    IN  \/ size < other
        \/ size = other /\ Cardinality(Changed(c)) < Cardinality(Changed(d))
        \/ size = other /\ Cardinality(Changed(c)) = Cardinality(Changed(d)) /\ n <= m

Smallest(e) == CHOOSE n \in e : \A m \in e : Before(n, m)

-----------------------------------------------------------------------------
(* A composition is assessed once. *)
Assess(repairs, after) ==
    /\ answer = "none" /\ Cardinality(DOMAIN candidates) < MaxCandidates
    /\ \A n \in DOMAIN candidates : candidates[n].repairs # repairs
    /\ candidates' = [n \in DOMAIN candidates \cup {Cardinality(DOMAIN candidates) + 1} |->
                        IF n \in DOMAIN candidates THEN candidates[n] ELSE [repairs |-> repairs, after |-> after]]
    /\ UNCHANGED <<baseline, scope, answer, selected, unbroken>>

Search(s) ==
    /\ answer = "none" /\ candidates # <<>> /\ scope' = s
    /\ LET e == Eligible(s)
           unsure == \E n \in DOMAIN candidates : Evaluate(s, baseline, candidates[n].after) = "inconclusive"
       IN  /\ answer' = IF ~ValidBaseline(s, baseline) THEN "inconclusive" ELSE IF e # {} THEN "pass" ELSE IF unsure THEN "inconclusive" ELSE "fail"
           /\ selected' = IF e # {} THEN Smallest(e) ELSE 0
    /\ UNCHANGED <<baseline, candidates, unbroken>>

(* The selected set is merged and its assessment is the next baseline. *)
Merge ==
    /\ answer = "pass" /\ NoAnswer /\ candidates' = <<>> /\ UNCHANGED scope
    /\ LET after == candidates[selected].after
       IN  baseline' = after /\ unbroken' = (unbroken \ Is(after, "missing")) \cup Is(after, "pass")

(* Nothing is merged: the reviewers go on or start again. *)
GoOn == answer # "none" /\ NoAnswer /\ UNCHANGED <<baseline, candidates, scope, unbroken>>
StartAgain == answer # "none" /\ NoAnswer /\ candidates' = <<>> /\ UNCHANGED <<baseline, scope, unbroken>>

Next ==
    \/ \E r \in SUBSET Repairs \ {{}}, a \in Snapshots : Assess(r, a)
    \/ \E s \in Scopes : Search(s)
    \/ Merge \/ GoOn \/ StartAgain

Spec == Init /\ [][Next]_vars

-----------------------------------------------------------------------------
(* What a round promises about one candidate, in the terms of the other    *)
(* verifier: it passes there, brings no failure and loses no evidence.     *)
Sound(c) ==
    /\ Causal(scope, baseline, c.after) = "pass" /\ New(baseline, c.after) = {}
    /\ \A i \in DOMAIN baseline : baseline[i] = "pass" => c.after[i] # "unsure"

(* The two verifiers agree: what the search selects stands before the      *)
(* other, nothing smaller would have, and when it says that no candidate   *)
(* is a verified repair, none stands there either.  Over any number of     *)
(* rounds, whatever passed once and was reported ever since passes still,  *)
(* whichever targets and guards each round declared (repair_search.py:     *)
(* "without weakening declared guards or introducing a new failure").      *)
RoundsNeverErode ==
    /\ answer = "pass" =>
          /\ Sound(candidates[selected])
          /\ \A n \in DOMAIN candidates : Sound(candidates[n]) => Cardinality(candidates[selected].repairs) <= Cardinality(candidates[n].repairs)
    /\ answer = "fail" => \A n \in DOMAIN candidates : ~Sound(candidates[n])
    /\ unbroken = Is(baseline, "pass")
=============================================================================

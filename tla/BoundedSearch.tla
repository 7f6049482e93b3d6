--------------------------- MODULE BoundedSearch ---------------------------
(***************************************************************************)
(* What a bounded search promises its caller, however it goes about it: it *)
(* answers once; a path it reports is a real violation; and of a target    *)
(* that keeps the search's requirements the path is a shortest one, and    *)
(* "not found" means that no run within the bound violates.  A search may  *)
(* give up (revert), but it may not answer wrongly.                        *)
(***************************************************************************)
EXTENDS TargetMachine

CONSTANT MaxDepth      \* the bound the caller asked for

VARIABLES
    m,        \* the target's behaviour
    trusted,  \* whether the target meets the search's requirements
    verdict,  \* "searching", or the answer
    path      \* the violating path, once found

vars == <<m, trusted, verdict, path>>

Violates(p) ==
    \E r \in [0 .. Len(p) -> State] : RunAlong(m, p, r) /\ ~ m.eval[r[Len(p)]]

HoldsWithin(d) == \A s \in ReachedWithin(m, d) : m.eval[s]

Init ==
    /\ m \in Machine
    /\ trusted \in BOOLEAN
    /\ verdict = "searching"
    /\ path = <<>>

ReportViolation ==
    /\ verdict = "searching"
    /\ verdict' = "found"
    /\ path' \in Seq(Cases)
    /\ Len(path') \in 1 .. MaxDepth
    /\ Violates(path')
    /\ trusted => HoldsWithin(Len(path') - 1)
    /\ UNCHANGED <<m, trusted>>

ReportNotFound ==
    /\ verdict = "searching"
    /\ trusted => HoldsWithin(MaxDepth)
    /\ verdict' = "notFound"
    /\ UNCHANGED <<m, trusted, path>>

GiveUp ==
    /\ verdict = "searching"
    /\ verdict' = "reverted"
    /\ UNCHANGED <<m, trusted, path>>

Next == ReportViolation \/ ReportNotFound \/ GiveUp

Spec == Init /\ [][Next]_vars
=============================================================================

----------------------------- MODULE EffectOnce -----------------------------
(***************************************************************************)
(* What a guarded node promises about one logical action: its external     *)
(* effect happens at most once, and the action counts as completed only    *)
(* once the effect is there.  It does not promise that the effect happens. *)
(***************************************************************************)
EXTENDS Naturals

VARIABLES effects, completed

vars == <<effects, completed>>

Init == effects = 0 /\ completed = FALSE

Perform  == effects = 0 /\ effects' = 1 /\ UNCHANGED completed
Complete == effects = 1 /\ completed' = TRUE /\ UNCHANGED effects

Next == Perform \/ Complete

Spec == Init /\ [][Next]_vars
=============================================================================

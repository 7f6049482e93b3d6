----------------------------- MODULE MCProgress ------------------------------
(***************************************************************************)
(* The components in which something must happen in the end, on small      *)
(* instances: the recovered graph node, a contract that its lattice lets   *)
(* run, and the campaign that plans verification work.  They do not run    *)
(* together: a behaviour is of one of them, its `part`, and the variables  *)
(* of the others stand still.                                              *)
(***************************************************************************)
EXTENDS NodeRecovery, TLC

CONSTANT Parts

VARIABLES
    part,
    points, transitions, initial, safe, checked, violations, outcome, at,   \* ContractLattice
    subject, record, age, cost, completed, verdict, verified                \* VerificationCampaign

node     == vars
lattice  == <<points, transitions, initial, safe, checked, violations, outcome, at>>
campaign == <<subject, record, age, cost, completed, verdict, verified>>

-----------------------------------------------------------------------------
(* A contract of three points and up to three transitions. *)
Kinds == {"evidence", "authority", "time"}
P(version, locked, bound) == [version |-> version, locked |-> locked, bound |-> bound]
T(source, target, uses, timeSensitive) ==
    [source |-> source, target |-> target, uses |-> uses, timeSensitive |-> timeSensitive]

LatticePoints ==
    {P(0, 1, Kinds), P(0, 0, {}), P(1, 1, {"authority"}), P(1, 0, Kinds), P(2, 1, {}), P(2, 0, {})}

LatticeTransitions ==
    {T(1, 2, {"authority", "evidence"}, FALSE), T(2, 3, {"time"}, TRUE), T(2, 3, {}, TRUE), T(1, 3, {}, FALSE),
     T(2, 1, {}, FALSE), T(1, 1, {"authority"}, FALSE)}

Lattice == INSTANCE ContractLattice WITH
    Points <- 1 .. 3, PointShapes <- LatticePoints, TransitionShapes <- LatticeTransitions, MaxTransitions <- 3,
    verdict <- outcome

(* Three pieces of work for a capacity of one: the second is worth most    *)
(* and comes back for ever; the third needs the first, no capacity and the *)
(* whole budget, and may be declared not applicable.                       *)
Work == 1 .. 3
Campaign == INSTANCE VerificationCampaign WITH
    Work <- Work, Value <- <<0, 3, 1>>, Units <- <<1, 1, 0>>, Estimated <- <<1, 1, 2>>,
    Prerequisites <- <<{}, {}, {1}>>, Required <- {1, 3}, Unmodelled <- {}, Waivable <- {3}, Capacity <- 1, Budget <- 2,
    AgeWeight <- 2, CostWeight <- 1, RequireGain <- FALSE, Observed <- {1, 3}, MaxAge <- 2, MaxSubjects <- 2

ASSUME Lattice!LatticeAssumption /\ Campaign!CampaignAssumption

-----------------------------------------------------------------------------
NoNode == /\ arm = "baseline" /\ pc = [w \in Workers |-> "idle"] /\ consumeCount = 0 /\ effects = 0 /\ receipt = NoReceipt
          /\ decisions = {} /\ dispatched = 0 /\ done = FALSE /\ kills = 0
NoLattice == /\ points = "-" /\ transitions = "-" /\ initial = "-" /\ safe = "-" /\ checked = "-" /\ violations = "-"
             /\ outcome = "-" /\ at = "-"
NoCampaign == /\ subject = "-" /\ record = "-" /\ age = "-" /\ cost = "-" /\ completed = "-" /\ verdict = "-"
              /\ verified = "-"

MCInit ==
    /\ part \in Parts
    /\ \/ part = "node"     /\ Init          /\ NoLattice /\ NoCampaign
       \/ part = "lattice"  /\ Lattice!Init  /\ NoNode    /\ NoCampaign
       \/ part = "campaign" /\ Campaign!Init /\ NoNode    /\ NoLattice

NodeStep     == part = "node"     /\ Next          /\ UNCHANGED <<part, lattice, campaign>>
LatticeStep  == part = "lattice"  /\ Lattice!Next  /\ UNCHANGED <<part, node, campaign>>
CampaignStep == part = "campaign" /\ Campaign!Next /\ UNCHANGED <<part, node, lattice>>

MCNext == NodeStep \/ LatticeStep \/ CampaignStep

(* Each component's own fairness: processes that are not killed go on and   *)
(* a delayed receipt appears; a contract that can move is not left alone    *)
(* for ever; campaigns go on and the lists of work are brought up to date.  *)
MCFairness ==
    /\ WF_node(part = "node" /\ ReceiptAppears)
    /\ \A w \in Workers : WF_node(part = "node" /\ Step(w))
    /\ WF_lattice(part = "lattice" /\ Lattice!Take)
    /\ WF_campaign(part = "campaign" /\ Campaign!Plan)
    /\ \A w \in Work : WF_campaign(part = "campaign" /\ Campaign!Rebind(w))

MCSpec == MCInit /\ [][MCNext]_<<part, node, lattice, campaign>> /\ MCFairness

-----------------------------------------------------------------------------
(* Recovery is not stuck behind its own guard: an action of a guarded node  *)
(* whose effect left a matching receipt is completed.                      *)
ReceiptCompletes == (part = "node" /\ Guarded /\ receipt.target = "ours") ~> (part = "node" /\ done)

(* What a pass is for: a contract whose lattice passed, and that is not     *)
(* left alone for ever while it can move, ends with no value locked.        *)
PassedLatticeReleasesValue ==
    (part = "lattice" /\ outcome = "pass") ~> [](part = "lattice" /\ points[at].locked = 0)

(* No work waits for ever to be admitted while work of higher value, here   *)
(* the second, comes back campaign after campaign: its age outweighs that  *)
(* in the end.                                                             *)
NothingStarves ==
    \A w \in {1, 3} : (part = "campaign" /\ w \in Campaign!Eligible) ~> (part = "campaign" /\ w \notin Campaign!Eligible)

(* The debt of a subject is found settled only in a step at which each     *)
(* required piece of work either has an execution of its own that passed   *)
(* on this subject, not one that merely ended and not one for an earlier   *)
(* subject, or was declared not applicable to this very subject by a       *)
(* caller: the waiver of an earlier subject does not count.                *)
SettledIsVerified == [][part = "campaign" => Campaign!SettledByPasses]_campaign
=============================================================================

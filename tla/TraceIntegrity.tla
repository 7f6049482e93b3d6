--------------------------- MODULE TraceIntegrity ---------------------------
(***************************************************************************)
(* A trace from its producer to whoever accepts it (proof_integrity.py).   *)
(* Events may be lost, duplicated, delayed and reordered on the way to a   *)
(* recorder, which marks the gaps it knows of, may die and go on from what *)
(* it had stored; the stored trace is listed in a manifest, may be edited, *)
(* and is reopened, together with the subject's freeze and the trace check.*)
(*                                                                         *)
(* A record is [id, seq, pred, subject, gap], gap = None for an event and  *)
(* the last sequence number it stands for for a marker.                    *)
(***************************************************************************)
EXTENDS Integers, FiniteSets, Sequences, SequencesExt

CONSTANTS
    Events,     \* number of events of a run
    MaxRecords, \* bound of the trace
    MaxTroubles \* bound of duplicates, restarts and edits together

TraceAssumption == Events \in Nat \ {0} /\ MaxRecords \in Nat \ {0} /\ MaxTroubles \in Nat

None == -1
NoTrace == <<>>

VARIABLES
    emitted,   \* events emitted so far
    subject,   \* version of what is observed
    wire,      \* messages on the way
    trace,     \* what the recorder has in memory
    disk,      \* the stored trace
    manifest,  \* what the durable manifest was built from
    before,    \* the subject at the start of the collection
    troubles

vars == <<emitted, subject, wire, trace, disk, manifest, before, troubles>>
storage == <<disk, manifest>>
source == <<emitted, subject, before>>
Trouble == troubles < MaxTroubles /\ troubles' = troubles + 1

Init ==
    /\ emitted = 0 /\ subject = 1 /\ before = 1 /\ wire = {}
    /\ trace = NoTrace /\ disk = NoTrace /\ manifest = NoTrace
    /\ troubles = 0

-----------------------------------------------------------------------------
(* evaluate_trace_integrity *)
IsGap(r) == r.gap # None

(* The sequence number that must follow a record. *)
Following(r) == IF IsGap(r) THEN r.gap + 1 ELSE r.seq + 1

InOrder_AnyLater(r, next) == next.seq >= Following(r)
InOrder(r, next) == next.seq = Following(r)

Linked(r, next) == next.pred = r.id

Passes(t, complete, of) ==
    /\ t # NoTrace
    /\ \A k \in DOMAIN t : t[k].subject = of /\ (IsGap(t[k]) => t[k].gap >= t[k].seq)
    /\ \A k, l \in DOMAIN t : (t[k].id = t[l].id \/ t[k].seq = t[l].seq) => k = l
    /\ \A k \in 2..Len(t) : InOrder(t[k - 1], t[k]) /\ Linked(t[k - 1], t[k])
    /\ ~complete => \E k \in DOMAIN t : IsGap(t[k])

(* verify_durable_manifest: the bytes on disk are the ones that were listed. *)
Durable == disk # NoTrace /\ disk = manifest

(* evaluate_subject_freeze *)
Frozen == before = subject

(* What a reader who reopens the file accepts. *)
Accepts(complete) == Durable /\ Frozen /\ Passes(disk, complete, before)

-----------------------------------------------------------------------------
(* The producer and the channel. *)
Emit ==
    /\ emitted < Events /\ emitted' = emitted + 1
    /\ wire' = wire \cup {[id |-> <<"event", emitted>>, seq |-> emitted, subject |-> subject, gap |-> None,
                           pred |-> IF emitted = 0 THEN <<"none", 0>> ELSE <<"event", emitted - 1>>]}
    /\ UNCHANGED <<subject, before, trace, storage, troubles>>

Lose(m) == m \in wire /\ wire' = wire \ {m} /\ UNCHANGED <<source, trace, storage, troubles>>

ChangeSubject == Trouble /\ subject' = subject + 1 /\ UNCHANGED <<emitted, before, wire, trace, storage>>

-----------------------------------------------------------------------------
(* The recorder. *)
Write(r) == Len(trace) < MaxRecords /\ trace' = Append(trace, r) /\ UNCHANGED <<source, storage>>

(* It writes a message as it is, or linked to what it wrote last. *)
Link(m) == IF trace = NoTrace THEN m ELSE [m EXCEPT !.pred = Last(trace).id]
Record(m, linked) == m \in wire /\ Write(IF linked THEN Link(m) ELSE m) /\ wire' = wire \ {m} /\ UNCHANGED troubles
RecordAgain(m, linked) == m \in wire /\ Write(IF linked THEN Link(m) ELSE m) /\ Trouble /\ UNCHANGED wire

(* It has noticed that something is missing, or is mistaken about it. *)
MarkGap(to) ==
    LET from == IF trace = NoTrace THEN 0 ELSE Following(Last(trace)) IN
    /\ Write(Link([id |-> <<"gap", from>>, seq |-> from, subject |-> before, gap |-> to, pred |-> <<"none", 0>>]))
    /\ UNCHANGED <<wire, troubles>>

Store == trace # disk /\ disk' = trace /\ UNCHANGED <<source, wire, trace, manifest, troubles>>

(* It dies and goes on from what it had stored, or from nothing. *)
Restart(stored) == Trouble /\ trace' = (IF stored THEN disk ELSE NoTrace) /\ UNCHANGED <<source, wire, storage>>

Build == disk # manifest /\ manifest' = disk /\ UNCHANGED <<source, wire, trace, disk, troubles>>

(* Somebody removes a record from the file, or from the file and the list. *)
Edit(k, listed) ==
    /\ k \in DOMAIN disk /\ Trouble /\ disk' = RemoveAt(disk, k)
    /\ manifest' = IF listed THEN disk' ELSE manifest
    /\ UNCHANGED <<source, wire, trace>>

Next ==
    \/ Emit \/ ChangeSubject \/ Store \/ Build
    \/ \E m \in wire : Lose(m) \/ \E linked \in BOOLEAN : Record(m, linked) \/ RecordAgain(m, linked)
    \/ \E to \in 0..Events - 1 : MarkGap(to)
    \/ \E stored \in BOOLEAN : Restart(stored)
    \/ \E k \in DOMAIN disk, listed \in BOOLEAN : Edit(k, listed)

Spec == Init /\ [][Next]_vars

-----------------------------------------------------------------------------
(* What a trace says of the event with a given number. *)
Recorded(t, n) == {k \in DOMAIN t : t[k].id = <<"event", n>>}
Marked(t, n) == {k \in DOMAIN t : IsGap(t[k]) /\ t[k].seq <= n /\ n <= t[k].gap}

(* Whatever was lost, duplicated, reordered, rewound or edited: between    *)
(* the first and the last number of an accepted trace each event is there  *)
(* exactly once and of this subject, or one gap stands for it, never both; *)
(* events stand in the order in which they were emitted; and a trace that  *)
(* is not claimed to be complete has a gap ("missing != absent", "a        *)
(* partial trace is not a complete trace").                                *)
AcceptedIsWhole ==
    /\ Accepts(TRUE) \/ Accepts(FALSE) =>
          /\ \A n \in disk[1].seq..(Following(Last(disk)) - 1) : Cardinality(Recorded(disk, n)) + Cardinality(Marked(disk, n)) = 1
          /\ \A k, l \in DOMAIN disk : k < l => disk[k].seq < disk[l].seq
          /\ \A k \in DOMAIN disk : disk[k].subject = before
    /\ Accepts(FALSE) => \E k \in DOMAIN disk : IsGap(disk[k])

(* What docs/CAUSAL_TEMPORAL_PHASE3.md says of the checker: broken         *)
(* predecessor links and partial traces without explicit gap semantics are *)
(* rejected.  A trace accepted as complete that has no gap at all starts   *)
(* with the event that has no predecessor.                                 *)
CompleteHasItsHead ==
    Accepts(TRUE) /\ (\A k \in DOMAIN disk : ~IsGap(disk[k])) => disk[1].pred = <<"none", 0>>
=============================================================================

------------------------ MODULE EvidencePublication ------------------------
(***************************************************************************)
(* write_text_atomic: several processes publish a complete evidence file   *)
(* at one path.  Each writes a temporary file of its own in the same       *)
(* directory and then either links it to the path, which fails when the    *)
(* path exists, or, with force, renames it over the path.  Any of them may *)
(* fail or be killed at any point, and the machine may lose power: files   *)
(* then keep what was synced, and the path what the system had written     *)
(* back of the directory, which the code does not sync.                    *)
(***************************************************************************)
EXTENDS FiniteSets

CONSTANTS
    Publishers,
    Forced,      \* those that publish with force
    Nobody       \* the path does not exist

ASSUME PublishersAssumption == Forced \subseteq Publishers /\ Nobody \notin Publishers

VARIABLES
    pc,          \* per publisher
    data,        \* its file: "none", "partial", "written" or "synced"
    temporary,   \* the publishers whose temporary name exists
    path,        \* whose file the path names, or Nobody
    stable,      \* what the path names on the disk
    powerLost,
    replaced     \* some publisher replaced the path

vars == <<pc, data, temporary, path, stable, powerLost, replaced>>

Init ==
    /\ pc = [p \in Publishers |-> "idle"]
    /\ data = [p \in Publishers |-> "none"]
    /\ temporary = {}
    /\ path = Nobody /\ stable = Nobody
    /\ powerLost = FALSE
    /\ replaced = FALSE

directory == <<path, stable, powerLost, replaced>>

At(p, place)   == pc[p] = place
Goto(p, place) == pc' = [pc EXCEPT ![p] = place]

CreateTemporary(p) ==
    /\ At(p, "idle")
    /\ temporary' = temporary \cup {p}
    /\ data' = [data EXCEPT ![p] = "partial"]
    /\ Goto(p, "writing")
    /\ UNCHANGED directory

Write(p) ==
    /\ At(p, "writing")
    /\ data' = [data EXCEPT ![p] = "written"]
    /\ Goto(p, "syncing")
    /\ UNCHANGED <<temporary, directory>>

Sync(p) ==
    /\ At(p, "syncing")
    /\ data' = [data EXCEPT ![p] = "synced"]
    /\ Goto(p, "publishing")
    /\ UNCHANGED <<temporary, directory>>

(* Any call before the publication may raise, and so may a link on a file *)
(* system without hard links.                                             *)
Fail(p) ==
    /\ pc[p] \in {"idle", "writing", "syncing", "publishing"}
    /\ Goto(p, "failing")
    /\ UNCHANGED <<data, temporary, directory>>

Replace(p) ==
    /\ At(p, "publishing")
    /\ p \in Forced
    /\ path' = p
    /\ temporary' = temporary \ {p}
    /\ replaced' = TRUE
    /\ Goto(p, "published")
    /\ UNCHANGED <<data, stable, powerLost>>

Link_Replaces(p) ==
    /\ At(p, "publishing")
    /\ p \notin Forced
    /\ path' = p /\ Goto(p, "published")
    /\ UNCHANGED <<data, temporary, stable, powerLost, replaced>>

Link(p) ==
    /\ At(p, "publishing")
    /\ p \notin Forced
    /\ IF path = Nobody THEN path' = p /\ Goto(p, "published")
                        ELSE UNCHANGED path /\ Goto(p, "failing")  \* FileExistsError
    /\ UNCHANGED <<data, temporary, stable, powerLost, replaced>>

(* finally: the temporary name goes, or unlink fails and is ignored. *)
Unlink(p) ==
    /\ pc[p] \in {"published", "failing"}
    /\ temporary' \in {temporary, temporary \ {p}}
    /\ Goto(p, IF At(p, "published") THEN "acknowledged" ELSE "failed")
    /\ UNCHANGED <<data, directory>>

Kill(p) ==
    /\ pc[p] \notin {"acknowledged", "failed", "killed"}
    /\ Goto(p, "killed")
    /\ UNCHANGED <<data, temporary, directory>>

WriteBack ==
    /\ stable # path
    /\ stable' = path
    /\ UNCHANGED <<pc, data, temporary, path, powerLost, replaced>>

PowerLoss ==
    /\ ~ powerLost
    /\ powerLost' = TRUE
    /\ pc' = [p \in Publishers |-> IF pc[p] \in {"acknowledged", "failed"} THEN pc[p] ELSE "killed"]
    /\ data' = [p \in Publishers |-> IF data[p] = "written" THEN "partial" ELSE data[p]]
    /\ path' = stable
    /\ UNCHANGED <<temporary, stable, replaced>>

Next ==
    \/ \E p \in Publishers :
          \/ CreateTemporary(p) \/ Write(p) \/ Sync(p) \/ Fail(p)
          \/ Replace(p) \/ Link(p) \/ Unlink(p) \/ Kill(p)
    \/ WriteBack \/ PowerLoss

Spec == Init /\ [][Next]_vars

-----------------------------------------------------------------------------
Published(p) == pc[p] \in {"published", "acknowledged"}

(***************************************************************************)
(* The path never names a partial file, not even after a kill or a loss of *)
(* power.  As long as nobody published with force and power was not lost,  *)
(* the file of the one publisher that was told it published is there, and  *)
(* a publisher that was told it failed is not.                             *)
(***************************************************************************)
PublishedEvidenceIsKept ==
    /\ path # Nobody => data[path] = "synced"
    /\ ~ replaced /\ ~ powerLost =>
         \A p \in Publishers :
            /\ Published(p) => path = p
            /\ pc[p] \in {"failing", "failed"} => path # p
=============================================================================

-------------------------- MODULE ProjectQuickstart --------------------------
(***************************************************************************)
(* The project quickstart (project_quickstart_hardened.py).  A run scans   *)
(* the project file by file, asks git, runs the project's own tests when   *)
(* asked to, scans and asks git again, decides, and installs its report in *)
(* the place of an earlier one.  Meanwhile people, tools and the tests     *)
(* edit the project, a run may be killed between any two steps, and two    *)
(* runs may share a destination.                                           *)
(*                                                                         *)
(* A file is a version, 0 before it exists; an edit gives it a version it  *)
(* never had.  Files are numbered in the order in which they are read.     *)
(***************************************************************************)
EXTENDS Naturals, FiniteSets

CONSTANTS
    Files, Sources, \* the files a scan looks for, and those of them that are contract sources
    Tracked,        \* the files that git tracks
    Oversized,      \* the files over MAX_SOURCE_BYTES
    Deep,           \* the files more than MAX_WORKSPACE_DEPTH + 4 directories down
    Runs,           \* runs of the command
    MaxVersion      \* bound of the edits of a file

FilesAssumption == Files \subseteq Nat /\ Sources \cup Tracked \cup Oversized \cup Deep \subseteq Files

VARIABLES
    file,           \* Files -> version
    pc,             \* Runs -> where the run is
    run,            \* Runs -> [force, native]: the options
    scan,           \* Runs -> [pre, post]: what each scan found: [found, skipped]
    todo,           \* Runs -> files the scan has listed and not read
    git,            \* Runs -> [pre, post]: versions of the tracked files, or Unavailable
    tests,          \* Runs -> [status, from, to]: the native tests, and the files when they began and ended
    stage,          \* Runs -> the report in the staging directory, or NoReport
    dest, backup    \* the report at the destination and at the backup path, or NoReport

vars == <<file, pc, run, scan, todo, git, tests, stage, dest, backup>>
world == <<file, dest, backup>>

Unavailable == <<>>
NoReport == [status |-> "none"]
Empty == [found |-> <<>>, skipped |-> {}]
NotRun == [status |-> "not_requested", from |-> <<>>, to |-> <<>>]

Init ==
    /\ file \in [Files -> {0, 1}]
    /\ pc = [r \in Runs |-> "start"] /\ run \in [Runs -> [force : BOOLEAN, native : BOOLEAN]]
    /\ scan = [r \in Runs |-> [pre |-> Empty, post |-> Empty]] /\ todo = [r \in Runs |-> {}]
    /\ git = [r \in Runs |-> [pre |-> Unavailable, post |-> Unavailable]]
    /\ tests = [r \in Runs |-> NotRun] /\ stage = [r \in Runs |-> NoReport]
    /\ dest = NoReport /\ backup = NoReport

Goto(r, from, to) == pc[r] = from /\ pc' = [pc EXCEPT ![r] = to]

Edit(f) ==
    /\ file[f] < MaxVersion /\ file' = [file EXCEPT ![f] = @ + 1]
    /\ UNCHANGED <<pc, run, scan, todo, git, tests, stage, dest, backup>>

-----------------------------------------------------------------------------
(* write_quickstart refuses before it inspects. *)
Start(r) ==
    /\ Goto(r, "start", IF dest # NoReport /\ ~ run[r].force THEN "refused" ELSE "walk pre")
    /\ UNCHANGED <<run, scan, todo, git, tests, stage, world>>

Present == {f \in Files : file[f] # 0}
Put(found, f) == [g \in DOMAIN found \cup {f} |-> IF g = f THEN file[f] ELSE found[g]]

(* Directories too far down are left out without a word; a file that is *)
(* too large is listed as skipped.                                      *)
Walk(r, which) ==
    /\ Goto(r, IF which = "pre" THEN "walk pre" ELSE "walk post", IF which = "pre" THEN "read pre" ELSE "read post")
    /\ todo' = [todo EXCEPT ![r] = Present \ (Deep \cup Oversized)]
    /\ scan' = [scan EXCEPT ![r][which] = [found |-> <<>>, skipped |-> (Present \cap Oversized) \ Deep]]
    /\ UNCHANGED <<run, git, tests, stage, world>>

ReadFile(r, which) ==
    /\ pc[r] = (IF which = "pre" THEN "read pre" ELSE "read post") /\ todo[r] # {}
    /\ LET f == CHOOSE f \in todo[r] : \A g \in todo[r] : f <= g
       IN  /\ todo' = [todo EXCEPT ![r] = @ \ {f}]
           /\ \/ scan' = [scan EXCEPT ![r][which].found = Put(@, f)]
              \/ scan' = [scan EXCEPT ![r][which].skipped = @ \cup {f}]
    /\ UNCHANGED <<pc, run, git, tests, stage, world>>

(* git rev-parse and status: one look at the tracked files. *)
AskGit(r, which) ==
    /\ todo[r] = {}
    /\ Goto(r, IF which = "pre" THEN "read pre" ELSE "read post", IF which = "pre" THEN "plan" ELSE "decide")
    /\ git' = [git EXCEPT ![r][which] = [f \in Tracked |-> file[f]]] \/ git' = [git EXCEPT ![r][which] = Unavailable]
    /\ UNCHANGED <<run, scan, todo, tests, stage, world>>

(* Without --run-native the second scan is the first. *)
SkipTests(r) ==
    /\ ~ run[r].native /\ Goto(r, "plan", "decide")
    /\ scan' = [scan EXCEPT ![r].post = scan[r].pre] /\ git' = [git EXCEPT ![r].post = git[r].pre]
    /\ UNCHANGED <<run, todo, tests, stage, world>>

(* Whether the framework that the scan detects has a command, and its tool is there. *)
HasCommand == BOOLEAN

BeginTests(r) ==
    /\ run[r].native
    /\ \E command \in HasCommand :
          /\ Goto(r, "plan", IF command THEN "tests" ELSE "walk post")
          /\ tests' = [tests EXCEPT ![r] =
                IF command THEN [status |-> "error", from |-> file, to |-> file] ELSE [@ EXCEPT !.status = "not_available"]]
    /\ UNCHANGED <<run, scan, todo, git, stage, world>>

EndTests(r) ==
    /\ Goto(r, "tests", "walk post")
    /\ \E s \in {"pass", "fail", "timeout", "error"} : tests' = [tests EXCEPT ![r].status = s, ![r].to = file]
    /\ UNCHANGED <<run, scan, todo, git, stage, world>>

-----------------------------------------------------------------------------
SubjectChanged_GitOnly(r) ==
    git[r].pre # Unavailable /\ git[r].post # Unavailable /\ git[r].pre # git[r].post

SubjectChanged(r) ==
    \/ scan[r].pre.found # scan[r].post.found
    \/ git[r].pre # Unavailable /\ git[r].post # Unavailable /\ git[r].pre # git[r].post

Status(r) ==
    IF DOMAIN scan[r].pre.found \cap Sources = {} THEN "hold"
    ELSE IF scan[r].pre.skipped # {} THEN "hold"
    ELSE IF tests[r].status = "not_available" THEN "hold"
    ELSE IF tests[r].status \in {"fail", "timeout", "error"} THEN "fail"
    ELSE IF SubjectChanged(r) THEN "hold" ELSE "pass"

(* The report is complete in the staging directory, or there is none. *)
WriteStage(r) ==
    /\ \/ /\ Goto(r, "decide", "install")
          /\ stage' = [stage EXCEPT ![r] =
                [status |-> Status(r), by |-> r, found |-> scan[r].pre.found, tests |-> tests[r]]]
       \/ Goto(r, "decide", "failed") /\ UNCHANGED stage
    /\ UNCHANGED <<run, scan, todo, git, tests, world>>

-----------------------------------------------------------------------------
(* _install_stage, call by call.  A directory cannot be renamed to one that *)
(* is there, a run that fails removes its staging directory.                *)

Fail(r) == pc' = [pc EXCEPT ![r] = "failed"] /\ stage' = [stage EXCEPT ![r] = NoReport] /\ UNCHANGED <<dest, backup>>

Look(r) ==
    /\ pc[r] = "install"
    /\ IF dest = NoReport THEN pc' = [pc EXCEPT ![r] = "rename"] /\ UNCHANGED <<stage, dest, backup>>
       ELSE IF ~ run[r].force \/ backup # NoReport THEN Fail(r)
       ELSE pc' = [pc EXCEPT ![r] = "back up"] /\ UNCHANGED <<stage, dest, backup>>
    /\ UNCHANGED <<file, run, scan, todo, git, tests>>

Rename(r) ==
    /\ pc[r] = "rename"
    /\ IF dest = NoReport
       THEN dest' = stage[r] /\ stage' = [stage EXCEPT ![r] = NoReport] /\ pc' = [pc EXCEPT ![r] = "done"] /\ UNCHANGED backup
       ELSE Fail(r)
    /\ UNCHANGED <<file, run, scan, todo, git, tests>>

BackUp_Delete(r) ==
    /\ pc[r] = "back up"
    /\ IF dest # NoReport /\ backup = NoReport
       THEN dest' = NoReport /\ pc' = [pc EXCEPT ![r] = "swap"] /\ UNCHANGED <<stage, backup>>
       ELSE Fail(r)
    /\ UNCHANGED <<file, run, scan, todo, git, tests>>

BackUp(r) ==
    /\ pc[r] = "back up"
    /\ IF dest # NoReport /\ backup = NoReport
       THEN backup' = dest /\ dest' = NoReport /\ pc' = [pc EXCEPT ![r] = "swap"] /\ UNCHANGED stage
       ELSE Fail(r)
    /\ UNCHANGED <<file, run, scan, todo, git, tests>>

Swap(r) ==
    /\ pc[r] = "swap"
    /\ \/ /\ dest = NoReport
          /\ dest' = stage[r] /\ stage' = [stage EXCEPT ![r] = NoReport] /\ pc' = [pc EXCEPT ![r] = "clean"] /\ UNCHANGED backup
       \/ pc' = [pc EXCEPT ![r] = "restore"] /\ UNCHANGED <<stage, dest, backup>>
    /\ UNCHANGED <<file, run, scan, todo, git, tests>>

Restore(r) ==
    /\ pc[r] = "restore"
    /\ IF dest = NoReport /\ backup # NoReport
       THEN /\ dest' = backup /\ backup' = NoReport
            /\ pc' = [pc EXCEPT ![r] = "failed"] /\ stage' = [stage EXCEPT ![r] = NoReport]
       ELSE Fail(r)
    /\ UNCHANGED <<file, run, scan, todo, git, tests>>

Clean(r) ==
    /\ Goto(r, "clean", "done")
    /\ backup' = NoReport
    /\ UNCHANGED <<file, run, scan, todo, git, tests, stage, dest>>

Kill(r) ==
    /\ pc[r] \notin {"start", "refused", "done", "failed", "killed"}
    /\ pc' = [pc EXCEPT ![r] = "killed"]
    /\ UNCHANGED <<run, scan, todo, git, tests, stage, world>>

Next ==
    \/ \E f \in Files : Edit(f)
    \/ \E r \in Runs :
          \/ Start(r) \/ SkipTests(r) \/ BeginTests(r) \/ EndTests(r) \/ WriteStage(r)
          \/ Look(r) \/ Rename(r) \/ BackUp(r) \/ Swap(r) \/ Restore(r) \/ Clean(r) \/ Kill(r)
          \/ \E which \in {"pre", "post"} : Walk(r, which) \/ ReadFile(r, which) \/ AskGit(r, which)

Spec == Init /\ [][Next]_vars

-----------------------------------------------------------------------------
(***************************************************************************)
(* "A passing native command is not attributed to the earlier subject      *)
(* after that boundary moves": wherever a report that passes lies, the     *)
(* tests that it calls passed ran, from beginning to end, on exactly the   *)
(* contents that the report lists, and every source or configuration file  *)
(* that was within a scan's reach at that time is listed, although the     *)
(* files were read one by one while they were being edited.                *)
(***************************************************************************)
PassIsAttributed ==
    \A report \in {dest, backup} \cup {stage[r] : r \in Runs} :
        report.status = "pass" =>
            /\ report.tests.status \in {"pass", "not_requested"}
            /\ report.tests.status = "pass" =>
                  /\ \A f \in DOMAIN report.found : report.found[f] = report.tests.from[f] /\ report.found[f] = report.tests.to[f]
                  /\ {f \in Files \ (Deep \cup Oversized) : report.tests.to[f] # 0} \subseteq
                        DOMAIN report.found \cup scan[report.by].post.skipped

(***************************************************************************)
(* A failed refresh preserves the last report: once a run has published    *)
(* one, there is a complete report at the destination or beside it, in     *)
(* every order of two runs' renames and with a run killed between any two  *)
(* of them; and a finished run's own report is there unless another run    *)
(* replaced it.                                                            *)
(***************************************************************************)
ReportSurvives ==
    (\E r \in Runs : pc[r] = "done") =>
        /\ dest # NoReport \/ backup # NoReport
        /\ \A r \in Runs :
              pc[r] = "done" /\ (\A s \in Runs \ {r} : pc[s] \notin {"clean", "done", "killed"}) =>
                    r \in {report.by : report \in {dest, backup} \ {NoReport}}

(***************************************************************************)
(* docs/QUICKSTART_HARDENING.md: files that were not inspected remain      *)
(* visible, and a partial inventory is not a clean result.  A run that     *)
(* passes has listed every contract source that was there for its tests.   *)
(***************************************************************************)
CleanMeansInspected ==
    dest.status = "pass" /\ dest.tests.status = "pass" =>
        {f \in Sources : dest.tests.from[f] # 0} \subseteq DOMAIN dest.found
=============================================================================

---------------------------- MODULE RunDirectories ----------------------------
(***************************************************************************)
(* A run directory, as staging and every storage backend hold it, and the  *)
(* retention decision the services and the providers take over a tree of   *)
(* run directories.                                                        *)
(*                                                                         *)
(* Runs are numbered in the order in which they start, which is the order  *)
(* of their identifiers (a UTC timestamp and a random suffix).  Time is a  *)
(* day number: retention compares timestamps at a distance of whole days.  *)
(* The content of a run is abstracted to whether every artifact of the run *)
(* is there, that of its manifest to the status and the finishing day.     *)
(***************************************************************************)
EXTENDS Integers

CONSTANTS
  NumRuns,        \* bound: runs are numbered 1..NumRuns
  MaxDay,         \* bound: the clock stops on this day
  RetentionDays   \* BACKUP_RETENTION_DAYS

ASSUME NumRunsAssumption == NumRuns \in Nat \ {0}
ASSUME MaxDayAssumption == MaxDay \in Nat
ASSUME RetentionDaysAssumption == RetentionDays \in Nat \ {0}

Run == 1..NumRuns
Day == 0..MaxDay

\* domain/status.py
RUN_TERMINAL_STATUSES == {"success", "partial", "failed", "sync_failed"}
RunStatus == RUN_TERMINAL_STATUSES \cup {"pending", "running"}

\* manifest.json; the status "none" stands for a missing or unreadable file.
Manifest == [status : RunStatus \cup {"none"}, finished : Day]
NoManifest == [status |-> "none", finished |-> 0]

RunDir == [present : BOOLEAN, manifest : Manifest, data : BOOLEAN]
Gone == [present |-> FALSE, manifest |-> NoManifest, data |-> FALSE]

\* The directory of a run nobody needs anything else to restore from.
Intact(dir) == dir.present /\ dir.manifest # NoManifest /\ dir.data

-------------------------------------------------------------------------------
(***************************************************************************)
(* Retention.  A tree is a function dirs from runs to directories; born    *)
(* gives the day encoded in the identifier of a run.                       *)
(***************************************************************************)

\* _run_timestamp: the manifest first, then the identifier of the run.
RunTimestamp(dir, bornOn) ==
  IF dir.manifest = NoManifest THEN bornOn ELSE dir.manifest.finished

BeforeCutoff(day, today) == day < today - RetentionDays

\* Mutant of ExpiredRunDirs: the last day of the window is expired as well.
ExpiredRunDirsEarly(dirs, born, today) ==
  {r \in Run : dirs[r].present /\ BeforeCutoff(RunTimestamp(dirs[r], born[r]), today + 1)}

\* build_retention_plan over a directory tree that is readable in place.
ExpiredRunDirs(dirs, born, today) ==
  {r \in Run : dirs[r].present /\ BeforeCutoff(RunTimestamp(dirs[r], born[r]), today)}

\* The inventory of a remote store: directories without a usable manifest are
\* an error of the inventory, the others are records a plan can date.
Ambiguous(dirs) == {r \in Run : dirs[r].present /\ dirs[r].manifest = NoManifest}
\* Mutant of Inventoried: a missing manifest counts as one of the first day.
InventoriedBlindly(dirs) == {r \in Run : dirs[r].present}

Inventoried(dirs) == {r \in Run : dirs[r].present /\ dirs[r].manifest # NoManifest}

\* Mutant of ExpiredManifests: the last day of the window is expired as well.
ExpiredManifestsEarly(dirs, today) ==
  {r \in Inventoried(dirs) : BeforeCutoff(dirs[r].manifest.finished, today + 1)}

\* plan_remote_retention, _build_retention_plan over the inventoried runs.
ExpiredManifests(dirs, today) ==
  {r \in Inventoried(dirs) : BeforeCutoff(dirs[r].manifest.finished, today)}

-------------------------------------------------------------------------------
(***************************************************************************)
(* Operations on directories that external programs may leave half done.   *)
(***************************************************************************)

\* What an operation that stopped half way left of some directories of a tree:
\* those removed, those that lost data, those whose manifest is missing.
Wreck(dirs, removed, emptied, headless) ==
  [r \in Run |->
     IF r \in removed THEN Gone
     ELSE [present |-> dirs[r].present,
           manifest |-> IF r \in headless THEN NoManifest ELSE dirs[r].manifest,
           data |-> IF r \in emptied THEN FALSE ELSE dirs[r].data]]

\* The removal of the directories in victims, where those in failed resist: each
\* of them may have lost files before the removal gave up on it.
Removals(dirs, victims, failed) ==
  {Wreck(dirs, victims \ failed, emptied, headless) :
     emptied \in SUBSET failed, headless \in SUBSET failed}

\* A transfer of src that stopped half way.
HalfCopies(src) ==
  [present : {TRUE}, manifest : {src.manifest, NoManifest}, data : {src.data, FALSE}]
===============================================================================

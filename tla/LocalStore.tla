------------------------------ MODULE LocalStore ------------------------------
(***************************************************************************)
(* LocalDirectoryStorageProvider: sync and cleanup on a mounted directory, *)
(* one file operation at a time, by successive or (Overlap) simultaneous   *)
(* invocations that any operation may be the last one of.                  *)
(*                                                                         *)
(* A tree is a set of files; the directory it is in makes the difference   *)
(* between a copy under runs/.tmp and a run.  What the orchestrator does   *)
(* around the two calls is reduced to what it hands over: a finished run.  *)
(***************************************************************************)
EXTENDS RunDirectories

CONSTANTS
  Files,      \* the files of a run; all but the manifest are in subdirectories
  Overlap     \* may an invocation start while others are under way?

ManifestFile == "manifest.json"

ASSUME FilesAssumption == ManifestFile \in Files
ASSUME OverlapAssumption == Overlap \in BOOLEAN

VARIABLES
  now,        \* the day
  pc,         \* where the invocation of a run stands
  born,       \* the day in the identifier of a run
  finished,   \* the day in its manifest
  copied,     \* the files copytree has copied
  synced,     \* sync returned success
  victims,    \* plan.expired_run_dirs that cleanup has not reached yet
  retained,   \* plan.retained_run_dirs
  errors,     \* cleanup has errors to report
  target,     \* what latest is about to point to
  wiping,     \* the removal of the children of runs/.tmp
  tmp,        \* runs/.tmp/<run>-*/<run>
  final,      \* runs/<run>
  latest      \* the run latest points to

tasks == <<born, finished, copied, synced, victims, retained, errors, target, wiping>>
vars == <<now, pc, tasks, tmp, final, latest>>

None == 0

Step == {"idle", "staged", "copy", "unlink", "symlink", "synced", "list", "wipe",
         "remove", "done", "crashed"}
Active == {r \in Run : pc[r] \notin {"idle", "done", "crashed"}}

\* A directory that was never made, exists, or was removed.
Tree == [state : {"new", "there", "gone"}, files : SUBSET Files]
NoTree == [state |-> "new", files |-> {}]
Removed == [state |-> "gone", files |-> {}]
There(tree) == tree.state = "there"

\* The children of .tmp still to be visited, the one rmtree is inside of, and
\* the entries it has read there.
Wiping == [listed : SUBSET Run, inside : Run \cup {None}, names : SUBSET Files]
NotWiping == [listed |-> {}, inside |-> None, names |-> {}]

TypeOK ==
  /\ now \in Day
  /\ pc \in [Run -> Step]
  /\ born \in [Run -> Day]
  /\ finished \in [Run -> Day]
  /\ copied \in [Run -> SUBSET Files]
  /\ synced \in [Run -> BOOLEAN]
  /\ victims \in [Run -> SUBSET Run]
  /\ retained \in [Run -> SUBSET Run]
  /\ errors \in [Run -> BOOLEAN]
  /\ target \in [Run -> Run \cup {None}]
  /\ wiping \in [Run -> Wiping]
  /\ tmp \in [Run -> Tree]
  /\ final \in [Run -> Tree]
  /\ latest \in Run \cup {None}

Init ==
  /\ now = 0
  /\ pc = [r \in Run |-> "idle"]
  /\ born = [r \in Run |-> 0]
  /\ finished = [r \in Run |-> 0]
  /\ copied = [r \in Run |-> {}]
  /\ synced = [r \in Run |-> FALSE]
  /\ victims = [r \in Run |-> {}]
  /\ retained = [r \in Run |-> {}]
  /\ errors = [r \in Run |-> FALSE]
  /\ target = [r \in Run |-> None]
  /\ wiping = [r \in Run |-> NotWiping]
  /\ tmp = [r \in Run |-> NoTree]
  /\ final = [r \in Run |-> NoTree]
  /\ latest = None

Goto(r, step) == pc' = [pc EXCEPT ![r] = step]
Without(tree, lost) == [state |-> tree.state, files |-> tree.files \ lost]

-------------------------------------------------------------------------------
(***************************************************************************)
(* sync.                                                                   *)
(***************************************************************************)

\* run_once begins; its identifier carries the day.
Start(r) ==
  /\ pc[r] = "idle"
  /\ \A q \in Run : q < r => pc[q] # "idle"
  /\ Overlap \/ Active = {}
  /\ born' = [born EXCEPT ![r] = now]
  /\ Goto(r, "staged")
  /\ UNCHANGED <<now, finished, copied, synced, victims, retained, errors, target,
                 wiping, tmp, final, latest>>

\* The manifest is written, sync is called and makes its temporary directory.
\* Identifiers are unique, so the run is not there yet.
BeginSync(r) ==
  /\ pc[r] = "staged"
  /\ ~There(final[r])
  /\ finished' = [finished EXCEPT ![r] = now]
  /\ tmp' = [tmp EXCEPT ![r] = [state |-> "there", files |-> {}]]
  /\ Goto(r, "copy")
  /\ UNCHANGED <<now, born, copied, synced, victims, retained, errors, target, wiping,
                 final, latest>>

\* copytree copies a file, in the order of the directory.  For a file in a
\* subdirectory it makes the directory with its parents, so that it does not
\* notice that the temporary directory is gone.
CopyFile(r, f) ==
  /\ pc[r] = "copy"
  /\ f \in Files \ copied[r]
  /\ There(tmp[r]) \/ f # ManifestFile
  /\ tmp' = [tmp EXCEPT ![r] = [state |-> "there", files |-> @.files \cup {f}]]
  /\ copied' = [copied EXCEPT ![r] = @ \cup {f}]
  /\ UNCHANGED <<now, pc, born, finished, synced, victims, retained, errors, target,
                 wiping, final, latest>>

\* Copying or renaming fails, and the temporary directory is removed, if it can be.
SyncFails(r) ==
  /\ pc[r] = "copy"
  /\ \E left \in {tmp[r], Removed} : tmp' = [tmp EXCEPT ![r] = left]
  /\ Goto(r, "done")
  /\ UNCHANGED <<now, tasks, final, latest>>

\* Mutant of Move: the copy is renamed before it is complete.
MoveEarly(r) ==
  /\ pc[r] = "copy"
  /\ There(tmp[r])
  /\ final' = [final EXCEPT ![r] = tmp[r]]
  /\ tmp' = [tmp EXCEPT ![r] = Removed]
  /\ target' = [target EXCEPT ![r] = r]
  /\ Goto(r, "unlink")
  /\ UNCHANGED <<now, born, finished, copied, synced, victims, retained, errors, wiping,
                 latest>>

\* The copy is renamed to its final name.  The removal of the temporary directory
\* that follows may fail, and with it sync.
Move(r) ==
  /\ pc[r] = "copy"
  /\ copied[r] = Files
  /\ There(tmp[r])
  /\ final' = [final EXCEPT ![r] = tmp[r]]
  /\ tmp' = [tmp EXCEPT ![r] = Removed]
  /\ target' = [target EXCEPT ![r] = r]
  /\ \E step \in {"unlink", "done"} : Goto(r, step)
  /\ UNCHANGED <<now, born, finished, copied, synced, victims, retained, errors, wiping,
                 latest>>

-------------------------------------------------------------------------------
(***************************************************************************)
(* _update_latest, of sync and of cleanup.                                 *)
(***************************************************************************)

UnlinkLatest(r) ==
  /\ pc[r] = "unlink"
  /\ latest' = None
  /\ Goto(r, "symlink")
  /\ UNCHANGED <<now, tasks, tmp, final>>

\* symlink_to, or the text file that replaces whatever is there when unlink or
\* symlink_to raise.  Then sync, or cleanup, returns.
SetLatest(r) ==
  /\ pc[r] \in {"unlink", "symlink"}
  /\ latest' = target[r]
  /\ synced' = [synced EXCEPT ![r] = TRUE]
  /\ Goto(r, IF synced[r] THEN "done" ELSE "synced")
  /\ UNCHANGED <<now, born, finished, copied, victims, retained, errors, target, wiping,
                 tmp, final>>

-------------------------------------------------------------------------------
(***************************************************************************)
(* cleanup.                                                                *)
(***************************************************************************)

\* run_once does not call cleanup: another backend failed.
NoCleanup(r) ==
  /\ pc[r] = "synced"
  /\ Goto(r, "done")
  /\ UNCHANGED <<now, tasks, tmp, final, latest>>

\* The runs as build_retention_plan reads them.
RunDirs ==
  [r \in Run |->
     [present |-> There(final[r]),
      manifest |-> IF ManifestFile \in final[r].files
                     THEN [status |-> "running", finished |-> finished[r]]
                     ELSE NoManifest,
      data |-> final[r].files = Files]]

\* Mutant of PlanCleanup: the last day of the window is expired as well.
PlanCleanupEarly(r) ==
  /\ pc[r] = "synced"
  /\ LET expired == ExpiredRunDirs(RunDirs, born, now + 1) IN
       /\ victims' = [victims EXCEPT ![r] = expired]
       /\ retained' = [retained EXCEPT ![r] = {q \in Run : There(final[q])} \ expired]
  /\ Goto(r, "list")
  /\ UNCHANGED <<now, born, finished, copied, synced, errors, target, wiping, tmp, final,
                 latest>>

\* build_retention_plan.
PlanCleanup(r) ==
  /\ pc[r] = "synced"
  /\ LET expired == ExpiredRunDirs(RunDirs, born, now) IN
       /\ victims' = [victims EXCEPT ![r] = expired]
       /\ retained' = [retained EXCEPT ![r] = {q \in Run : There(final[q])} \ expired]
  /\ Goto(r, "list")
  /\ UNCHANGED <<now, born, finished, copied, synced, errors, target, wiping, tmp, final,
                 latest>>

\* temp_root.iterdir().
ListTemporary(r) ==
  /\ pc[r] = "list"
  /\ wiping' = [wiping EXCEPT ![r] = [NotWiping EXCEPT !.listed =
                                        {q \in Run : There(tmp[q])}]]
  /\ Goto(r, "wipe")
  /\ UNCHANGED <<now, born, finished, copied, synced, victims, retained, errors, target,
                 tmp, final, latest>>

\* rmtree(child, ignore_errors=True) opens the next child and reads it, unless
\* it is gone.
WipeEnter(r) ==
  /\ pc[r] = "wipe"
  /\ wiping[r].inside = None
  /\ \E q \in wiping[r].listed :
       wiping' = [wiping EXCEPT ![r] =
         [listed |-> @.listed \ {q},
          inside |-> IF There(tmp[q]) THEN q ELSE None,
          names |-> IF There(tmp[q]) THEN tmp[q].files ELSE {}]]
  /\ UNCHANGED <<now, pc, born, finished, copied, synced, victims, retained, errors,
                 target, tmp, final, latest>>

\* It removes a file it has read, unless it cannot, relative to the directory it
\* has open: also when this directory has been renamed into a run meanwhile.
WipeUnlink(r) ==
  /\ pc[r] = "wipe"
  /\ wiping[r].inside # None
  /\ \E f \in wiping[r].names :
       /\ wiping' = [wiping EXCEPT ![r].names = @ \ {f}]
       /\ LET q == wiping[r].inside IN
            \E lost \in SUBSET {f} :
              /\ tmp' = [tmp EXCEPT ![q] = IF There(@) THEN Without(@, lost) ELSE @]
              /\ final' = [final EXCEPT ![q] = IF There(tmp[q]) THEN @ ELSE Without(@, lost)]
  /\ UNCHANGED <<now, pc, born, finished, copied, synced, victims, retained, errors,
                 target, latest>>

\* It removes the directory, which fails if that is not empty or was renamed.
WipeLeave(r) ==
  /\ pc[r] = "wipe"
  /\ wiping[r].inside # None
  /\ wiping[r].names = {}
  /\ wiping' = [wiping EXCEPT ![r].inside = None]
  /\ LET q == wiping[r].inside IN
       tmp' = [tmp EXCEPT ![q] = IF There(@) /\ @.files = {} THEN Removed ELSE @]
  /\ UNCHANGED <<now, pc, born, finished, copied, synced, victims, retained, errors,
                 target, final, latest>>

WipeEnds(r) ==
  /\ pc[r] = "wipe"
  /\ wiping[r].inside = None
  /\ wiping[r].listed = {}
  /\ Goto(r, "remove")
  /\ UNCHANGED <<now, tasks, tmp, final, latest>>

\* The plan is sorted by name.
Oldest(runs) == CHOOSE r \in runs : \A q \in runs : r <= q
Newest(runs) == CHOOSE r \in runs : \A q \in runs : q <= r
Removing(r, v) == pc[r] = "remove" /\ v \in victims[r] /\ v = Oldest(victims[r])

\* shutil.rmtree(run_dir), a file at a time.
RemoveFile(r) ==
  /\ \E v \in Run :
       /\ Removing(r, v)
       /\ There(final[v])
       /\ \E f \in final[v].files : final' = [final EXCEPT ![v] = Without(@, {f})]
  /\ UNCHANGED <<now, pc, tasks, tmp, latest>>

RemoveDir(r) ==
  /\ \E v \in Run :
       /\ Removing(r, v)
       /\ There(final[v])
       /\ final[v].files = {}
       /\ final' = [final EXCEPT ![v] = Removed]
       /\ victims' = [victims EXCEPT ![r] = @ \ {v}]
  /\ UNCHANGED <<now, pc, born, finished, copied, synced, retained, errors, target, wiping,
                 tmp, latest>>

\* Mutant of RemoveFails: the error is not recorded.
RemoveFailsUnnoticed(r) ==
  /\ \E v \in Run : Removing(r, v) /\ victims' = [victims EXCEPT ![r] = @ \ {v}]
  /\ UNCHANGED <<now, pc, born, finished, copied, synced, retained, errors, target, wiping,
                 tmp, final, latest>>

\* rmtree raises an OSError, and the loop goes on.
RemoveFails(r) ==
  /\ \E v \in Run : Removing(r, v) /\ victims' = [victims EXCEPT ![r] = @ \ {v}]
  /\ errors' = [errors EXCEPT ![r] = TRUE]
  /\ UNCHANGED <<now, pc, born, finished, copied, synced, retained, target, wiping, tmp,
                 final, latest>>

\* Mutant of Retain: latest points to the first of the retained runs.
RetainOldest(r) ==
  /\ pc[r] = "remove"
  /\ victims[r] = {}
  /\ target' = [target EXCEPT ![r] = Oldest({q \in retained[r] : There(final[q])})]
  /\ Goto(r, "unlink")
  /\ UNCHANGED <<now, born, finished, copied, synced, victims, retained, errors, wiping,
                 tmp, final, latest>>

\* _newest_run_name of the runs that are still there: the one just published is.
Retain(r) ==
  /\ pc[r] = "remove"
  /\ victims[r] = {}
  /\ target' = [target EXCEPT ![r] = Newest({q \in retained[r] : There(final[q])})]
  /\ Goto(r, "unlink")
  /\ UNCHANGED <<now, born, finished, copied, synced, victims, retained, errors, wiping,
                 tmp, final, latest>>

-------------------------------------------------------------------------------

\* The process is killed, or what _update_latest or ensure_directory raise ends it.
Crash(r) ==
  /\ r \in Active
  /\ Goto(r, "crashed")
  /\ UNCHANGED <<now, tasks, tmp, final, latest>>

\* A day passes.  A run is over within the retention window it applies.
Tick ==
  /\ now < MaxDay
  /\ \A r \in Active : now + 1 - born[r] <= RetentionDays
  /\ now' = now + 1
  /\ UNCHANGED <<pc, tasks, tmp, final, latest>>

Sync(r) ==
  \/ Start(r) \/ BeginSync(r) \/ SyncFails(r) \/ Move(r) \/ UnlinkLatest(r) \/ SetLatest(r)
  \/ \E f \in Files : CopyFile(r, f)

Cleanup(r) ==
  \/ NoCleanup(r) \/ PlanCleanup(r) \/ ListTemporary(r)
  \/ WipeEnter(r) \/ WipeUnlink(r) \/ WipeLeave(r) \/ WipeEnds(r)
  \/ RemoveFile(r) \/ RemoveDir(r) \/ RemoveFails(r) \/ Retain(r)

Next ==
  \/ Tick
  \/ \E r \in Run : Sync(r) \/ Cleanup(r) \/ Crash(r)

Spec == Init /\ [][Next]_vars

-------------------------------------------------------------------------------
(***************************************************************************)
(* Properties.                                                             *)
(***************************************************************************)

Expired(r) == BeforeCutoff(finished[r], now)
Whole(tree) == There(tree) /\ tree.files = Files

\* What the mounted directory holds of a run, seen as a RunStore.
HeldOf(r) ==
  CASE final[r].state = "new" -> "new"
    [] final[r].state = "gone" -> "gone"
    [] Whole(final[r]) -> "whole"
    [] OTHER -> "rest"

Abstract == INSTANCE RunStore WITH
  Atomic <- TRUE,
  content <- [r \in Run |-> HeldOf(r)],
  vouched <- {r \in Run : synced[r]}

\* Through failures and crashes between any two file operations, a run appears
\* as a whole, sync only vouches for runs that are whole, and nothing but
\* retention takes anything from a run, and then only from an expired one (sync
\* and cleanup of LocalDirectoryStorageProvider).
ImplementsRunStore == Abstract!Spec

\* latest never dangles: it points to a complete run, and no run it points to is
\* ever damaged (_update_latest, _newest_run_name).
LatestIsWhole == latest # None => Whole(final[latest])

\* A cleanup that reports no error leaves no run behind that was already expired
\* when its invocation called sync (cleanup).
CleanupReportsLeftovers ==
  [][\A r \in Run :
       pc[r] \in {"unlink", "symlink"} /\ synced[r] /\ pc'[r] = "done" /\ ~errors[r] =>
         \A q \in Run : There(final[q]) => ~BeforeCutoff(finished[q], finished[r])]_vars

\* When the last invocation that began has returned from its cleanup, latest
\* points to the newest run there is (cleanup, _newest_run_name).
LatestIsNewest ==
  \A r \in Run :
    pc[r] = "done" /\ synced[r] /\ (\A q \in Run : q > r => pc[q] = "idle") =>
      latest = Newest({q \in Run : There(final[q])})

-------------------------------------------------------------------------------
(***************************************************************************)
(* Why ImplementsRunStore and LatestIsWhole hold for successive            *)
(* invocations: the inductive invariant.                                   *)
(***************************************************************************)

Cleaning == {"list", "wipe", "remove"}

\* An active invocation is the last that began, and its run is recent.
ActiveInv(r) ==
  r \in Active =>
    /\ born[r] <= now /\ ~BeforeCutoff(born[r], now)
    /\ \A q \in Run : q > r => pc[q] = "idle"

\* Nothing is visible of a run before the rename, and the copy is sound.
CopyInv(r) ==
  /\ pc[r] \in {"idle", "staged"} => copied[r] = {}
  /\ pc[r] \in {"idle", "staged", "copy"} => final[r] = NoTree
  /\ pc[r] = "copy" => tmp[r] = [state |-> "there", files |-> copied[r]]

\* From the rename to the end of the invocation its run is complete and recent.
PublishedInv(r) ==
  /\ pc[r] \in {"unlink", "symlink", "synced"} \cup Cleaning =>
       Whole(final[r]) /\ born[r] <= finished[r]
  /\ pc[r] = "copy" => born[r] <= finished[r]
  /\ pc[r] \in {"unlink", "symlink"} => target[r] = r
  /\ pc[r] \in {"synced"} \cup Cleaning => latest = r

\* Only what expired is removed, and the wipe is in no directory in use.
CleanupInv(r) ==
  /\ There(final[r]) /\ final[r].files # Files => Expired(r)
  /\ pc[r] \in Cleaning => r \in retained[r] /\ \A v \in victims[r] : Expired(v)
  /\ pc[r] = "wipe" /\ wiping[r].inside # None => There(tmp[wiping[r].inside])

\* Runs begin in the order of their identifiers.
BegunInOrder == \A q, p \in Run : pc[q] = "idle" /\ p > q => pc[p] = "idle"

SafeInv ==
  /\ LatestIsWhole
  /\ BegunInOrder
  /\ \A r \in Run : ActiveInv(r) /\ CopyInv(r) /\ PublishedInv(r) /\ CleanupInv(r)

-------------------------------------------------------------------------------
(***************************************************************************)
(* Why LatestIsNewest and CleanupReportsLeftovers hold as well.            *)
(***************************************************************************)

\* In the second call of _update_latest.
Settling(r) == pc[r] \in {"unlink", "symlink"} /\ synced[r]
LastBegun(r) == \A q \in Run : q > r => pc[q] = "idle"

\* synced tells which of the two calls of _update_latest it is, and when the last
\* invocation that began has returned from either, latest points to its run.
PointerInv(r) ==
  /\ pc[r] \in {"idle", "staged", "copy"} => ~synced[r]
  /\ pc[r] \in {"synced"} \cup Cleaning => synced[r]
  /\ pc[r] = "done" /\ synced[r] /\ LastBegun(r) => latest = r

\* A run that was there and expired when sync began is still to be removed, or
\* gone, unless its removal failed.
LeftoverInv(r) ==
  /\ finished[r] <= now
  /\ There(final[r]) => born[r] <= finished[r]
  /\ Settling(r) => victims[r] = {}
  /\ (pc[r] \in Cleaning \/ Settling(r)) /\ ~errors[r] =>
       \A q \in Run : There(final[q]) /\ BeforeCutoff(finished[q], finished[r]) =>
         q \in victims[r]

LocalInv ==
  /\ SafeInv
  /\ \A r \in Run : PointerInv(r) /\ LeftoverInv(r)
===============================================================================

------------------------------- MODULE FtpStore -------------------------------
(***************************************************************************)
(* FtpStorageProvider: sync and cleanup on an FTP server, one command at a *)
(* time, by invocations that may overlap, where any command may fail or be *)
(* the last one of its invocation.                                         *)
(*                                                                         *)
(* The files of a run are numbered in the order of the upload, which is    *)
(* that of their paths.  What the orchestrator does around the two calls   *)
(* is reduced to what it hands over: a finished run with its manifest.     *)
(***************************************************************************)
EXTENDS RunDirectories

CONSTANTS
  NumFiles,       \* the files of a run
  ManifestFile,   \* the number of manifest.json
  Overlap         \* may an invocation start while others are under way?

ASSUME NumFilesAssumption == NumFiles \in Nat
ASSUME ManifestFileAssumption == ManifestFile \in 1..NumFiles
ASSUME OverlapAssumption == Overlap \in BOOLEAN

Files == 1..NumFiles

VARIABLES
  now,        \* the day
  pc,         \* where the invocation of a run stands
  born,       \* the day in the identifier of a run
  finished,   \* the day in its manifest
  sent,       \* the files whose STOR has begun
  synced,     \* sync returned success
  unread,     \* the listed directories whose manifest is still to be fetched
  records,    \* inventory.manifests, then plan.retained_manifests
  victims,    \* plan.expired_manifests that cleanup has not reached yet
  errors,     \* cleanup has errors to report
  target,     \* what latest is about to say
  dir,        \* the directory runs/<run> on the server
  stored,     \* the files in it
  cut,        \* the files in it that are not complete
  latest      \* the run latest names, if it can be read

tasks == <<born, finished, sent, synced, unread, records, victims, errors, target>>
server == <<dir, stored, cut, latest>>
vars == <<now, pc, tasks, server>>

None == 0

Syncing == {"staged", "connected", "upload", "latest", "torn"}
Cleaning == {"inventory", "remove", "cleanup_latest", "cleanup_torn"}
Step == {"idle", "synced", "done", "crashed"} \cup Syncing \cup Cleaning
Active == {r \in Run : pc[r] \notin {"idle", "done", "crashed"}}

TypeOK ==
  /\ now \in Day
  /\ pc \in [Run -> Step]
  /\ born \in [Run -> Day]
  /\ finished \in [Run -> Day]
  /\ sent \in [Run -> 0..NumFiles]
  /\ synced \in [Run -> BOOLEAN]
  /\ unread \in [Run -> SUBSET Run]
  /\ records \in [Run -> SUBSET Run]
  /\ victims \in [Run -> SUBSET Run]
  /\ errors \in [Run -> BOOLEAN]
  /\ target \in [Run -> Run \cup {None}]
  /\ dir \in [Run -> {"new", "there", "gone"}]
  /\ stored \in [Run -> SUBSET Files]
  /\ cut \in [Run -> SUBSET Files]
  /\ latest \in Run \cup {None}

Init ==
  /\ now = 0
  /\ pc = [r \in Run |-> "idle"]
  /\ born = [r \in Run |-> 0]
  /\ finished = [r \in Run |-> 0]
  /\ sent = [r \in Run |-> 0]
  /\ synced = [r \in Run |-> FALSE]
  /\ unread = [r \in Run |-> {}]
  /\ records = [r \in Run |-> {}]
  /\ victims = [r \in Run |-> {}]
  /\ errors = [r \in Run |-> FALSE]
  /\ target = [r \in Run |-> None]
  /\ dir = [r \in Run |-> "new"]
  /\ stored = [r \in Run |-> {}]
  /\ cut = [r \in Run |-> {}]
  /\ latest = None

Goto(r, step) == pc' = [pc EXCEPT ![r] = step]

-------------------------------------------------------------------------------
(***************************************************************************)
(* sync.                                                                   *)
(***************************************************************************)

\* run_once begins; its identifier carries the day.
Start(r) ==
  /\ pc[r] = "idle"
  /\ \A q \in Run : q < r => pc[q] # "idle"
  /\ Overlap \/ Active = {}
  /\ born' = [born EXCEPT ![r] = now]
  /\ Goto(r, "staged")
  /\ UNCHANGED <<now, finished, sent, synced, unread, records, victims, errors, target,
                 server>>

\* The manifest is written, sync is called and finds that there is no directory of
\* this name yet: identifiers are unique.
BeginSync(r) ==
  /\ pc[r] = "staged"
  /\ dir[r] = "new"
  /\ finished' = [finished EXCEPT ![r] = now]
  /\ Goto(r, "connected")
  /\ UNCHANGED <<now, born, sent, synced, unread, records, victims, errors, target, server>>

\* MKD of the directory of the run.  Its answer is not looked at: a refusal only
\* shows when the first STOR fails (SyncFails).
MakeRunDir(r) ==
  /\ pc[r] = "connected"
  /\ dir' = [dir EXCEPT ![r] = "there"]
  /\ Goto(r, "upload")
  /\ UNCHANGED <<now, tasks, stored, cut, latest>>

\* Mutant of StoreBegin: the loop does not end with the last file.
StoreBeginPastTheEnd(r) ==
  /\ pc[r] = "upload"
  /\ cut[r] = {}
  /\ sent' = [sent EXCEPT ![r] = @ + 1]
  /\ cut' = [cut EXCEPT ![r] = {sent[r] + 1}]
  /\ UNCHANGED <<now, pc, born, finished, synced, unread, records, victims, errors, target,
                 dir, stored, latest>>

\* STOR creates the next file; _upload_tree.
StoreBegin(r) ==
  /\ pc[r] = "upload"
  /\ cut[r] = {}
  /\ sent[r] < NumFiles
  /\ sent' = [sent EXCEPT ![r] = @ + 1]
  /\ cut' = [cut EXCEPT ![r] = {sent[r] + 1}]
  /\ UNCHANGED <<now, pc, born, finished, synced, unread, records, victims, errors, target,
                 dir, stored, latest>>

\* The transfer is complete.
StoreEnd(r) ==
  /\ pc[r] = "upload"
  /\ cut[r] # {}
  /\ stored' = [stored EXCEPT ![r] = @ \cup cut[r]]
  /\ cut' = [cut EXCEPT ![r] = {}]
  /\ UNCHANGED <<now, pc, tasks, dir, latest>>

\* Mutant of UploadEnds: the last files are not waited for.
UploadEndsEarly(r) ==
  /\ pc[r] = "upload"
  /\ ManifestFile \in stored[r]
  /\ target' = [target EXCEPT ![r] = r]
  /\ Goto(r, "latest")
  /\ UNCHANGED <<now, born, finished, sent, synced, unread, records, victims, errors, server>>

UploadEnds(r) ==
  /\ pc[r] = "upload"
  /\ cut[r] = {}
  /\ sent[r] = NumFiles
  /\ target' = [target EXCEPT ![r] = r]
  /\ Goto(r, "latest")
  /\ UNCHANGED <<now, born, finished, sent, synced, unread, records, victims, errors, server>>

\* A command of sync fails, or its answer is lost.  Nothing is undone.
SyncFails(r) ==
  /\ pc[r] \in Syncing
  /\ Goto(r, "done")
  /\ UNCHANGED <<now, tasks, server>>

-------------------------------------------------------------------------------
(***************************************************************************)
(* _update_latest, of sync and of cleanup.                                 *)
(***************************************************************************)

\* STOR truncates latest.
TruncateLatest(r) ==
  /\ pc[r] \in {"latest", "cleanup_latest"}
  /\ latest' = None
  /\ Goto(r, IF synced[r] THEN "cleanup_torn" ELSE "torn")
  /\ UNCHANGED <<now, tasks, dir, stored, cut>>

\* It is written, and sync or cleanup returns.
WriteLatest(r) ==
  /\ pc[r] \in {"torn", "cleanup_torn"}
  /\ latest' = target[r]
  /\ synced' = [synced EXCEPT ![r] = TRUE]
  /\ Goto(r, IF synced[r] THEN "done" ELSE "synced")
  /\ UNCHANGED <<now, born, finished, sent, unread, records, victims, errors, target, dir,
                 stored, cut>>

-------------------------------------------------------------------------------
(***************************************************************************)
(* cleanup.                                                                *)
(***************************************************************************)

\* run_once does not call cleanup: another backend failed.
NoCleanup(r) ==
  /\ pc[r] = "synced"
  /\ Goto(r, "done")
  /\ UNCHANGED <<now, tasks, server>>

\* fetch_remote_manifests lists runs/.
ListRemoteRuns(r) ==
  /\ pc[r] = "synced"
  /\ unread' = [unread EXCEPT ![r] = {q \in Run : dir[q] = "there"}]
  /\ Goto(r, "inventory")
  /\ UNCHANGED <<now, born, finished, sent, synced, records, victims, errors, target, server>>

\* RETR of the next manifest.
FetchManifest(r) ==
  /\ pc[r] = "inventory"
  /\ \E q \in unread[r] :
       /\ ManifestFile \in stored[q]
       /\ unread' = [unread EXCEPT ![r] = @ \ {q}]
       /\ records' = [records EXCEPT ![r] = @ \cup {q}]
  /\ UNCHANGED <<now, pc, born, finished, sent, synced, victims, errors, target, server>>

\* RETR fails, because there is no manifest or for another reason, or what it
\* returns is cut and is not JSON.
ManifestIsUnreadable(r) ==
  /\ pc[r] = "inventory"
  /\ \E q \in unread[r] : unread' = [unread EXCEPT ![r] = @ \ {q}]
  /\ errors' = [errors EXCEPT ![r] = TRUE]
  /\ UNCHANGED <<now, pc, born, finished, sent, synced, records, victims, target, server>>

\* Mutant of ExpiredRecords: the last day of the window is expired as well.
ExpiredRecordsEarly(r) == {q \in records[r] : BeforeCutoff(finished[q], now + 1)}

ExpiredRecords(r) == {q \in records[r] : BeforeCutoff(finished[q], now)}

\* _build_retention_plan; cleanup gives up when it could read nothing.
BuildRetentionPlan(r) ==
  /\ pc[r] = "inventory"
  /\ unread[r] = {}
  /\ victims' = [victims EXCEPT ![r] = ExpiredRecords(r)]
  /\ records' = [records EXCEPT ![r] = @ \ ExpiredRecords(r)]
  /\ Goto(r, IF errors[r] /\ records[r] = {} THEN "done" ELSE "remove")
  /\ UNCHANGED <<now, born, finished, sent, synced, unread, errors, target, server>>

\* The runs are removed in the order in which the server listed them, that of
\* their names.
Removing(r, v) == pc[r] = "remove" /\ v \in victims[r] /\ \A q \in victims[r] : v <= q
DropVictim(r, v) == victims' = [victims EXCEPT ![r] = @ \ {v}]

\* _delete_remote_tree: DELE of a file.
DeleteFile(r) ==
  /\ \E v \in Run :
       /\ Removing(r, v)
       /\ \E f \in stored[v] \cup cut[v] :
            /\ stored' = [stored EXCEPT ![v] = @ \ {f}]
            /\ cut' = [cut EXCEPT ![v] = @ \ {f}]
  /\ UNCHANGED <<now, pc, tasks, dir, latest>>

\* RMD, whose refusal goes unnoticed.
RemoveDir(r) ==
  /\ \E v \in Run :
       /\ Removing(r, v)
       /\ stored[v] \cup cut[v] = {}
       /\ \E left \in {dir[v], "gone"} : dir' = [dir EXCEPT ![v] = left]
       /\ DropVictim(r, v)
  /\ UNCHANGED <<now, pc, born, finished, sent, synced, unread, records, errors, target,
                 stored, cut, latest>>

\* Mutant of RemoveFails: the error is not recorded.
RemoveFailsUnnoticed(r) ==
  /\ \E v \in Run : Removing(r, v) /\ DropVictim(r, v)
  /\ UNCHANGED <<now, pc, born, finished, sent, synced, unread, records, errors, target,
                 server>>

\* A listing or a DELE is refused, also because another cleanup was faster, and
\* the loop goes on.
RemoveFails(r) ==
  /\ \E v \in Run : Removing(r, v) /\ DropVictim(r, v)
  /\ errors' = [errors EXCEPT ![r] = TRUE]
  /\ UNCHANGED <<now, pc, born, finished, sent, synced, unread, records, target, server>>

\* Mutant of RetainNewest: sync has written latest, and that is left as it is.
RetainAsItIs(r) ==
  /\ pc[r] = "remove"
  /\ victims[r] = {}
  /\ Goto(r, "done")
  /\ UNCHANGED <<now, tasks, server>>

\* _latest_value: the run with the last timestamp.  Days do not tell the runs of
\* one day apart, so any of them may be it.
RetainNewest(r) ==
  /\ pc[r] = "remove"
  /\ victims[r] = {}
  /\ \E q \in records[r] :
       /\ \A p \in records[r] : finished[p] <= finished[q]
       /\ target' = [target EXCEPT ![r] = q]
  /\ Goto(r, "cleanup_latest")
  /\ UNCHANGED <<now, born, finished, sent, synced, unread, records, victims, errors, server>>

\* No run is retained: latest is removed, if that succeeds.
RetainNone(r) ==
  /\ pc[r] = "remove"
  /\ victims[r] = {}
  /\ records[r] = {}
  /\ latest' \in {latest, None}
  /\ Goto(r, "done")
  /\ UNCHANGED <<now, tasks, dir, stored, cut>>

\* The connection or a command that is not about one run fails.
CleanupFails(r) ==
  /\ pc[r] \in Cleaning
  /\ errors' = [errors EXCEPT ![r] = TRUE]
  /\ Goto(r, "done")
  /\ UNCHANGED <<now, born, finished, sent, synced, unread, records, victims, target, server>>

-------------------------------------------------------------------------------

\* The process is killed.
Crash(r) ==
  /\ r \in Active
  /\ Goto(r, "crashed")
  /\ UNCHANGED <<now, tasks, server>>

\* A day passes.  A run is over within the retention window it applies.
Tick ==
  /\ now < MaxDay
  /\ \A r \in Active : now + 1 - born[r] <= RetentionDays
  /\ now' = now + 1
  /\ UNCHANGED <<pc, tasks, server>>

Sync(r) ==
  \/ Start(r) \/ BeginSync(r) \/ MakeRunDir(r) \/ StoreBegin(r) \/ StoreEnd(r)
  \/ UploadEnds(r) \/ SyncFails(r) \/ TruncateLatest(r) \/ WriteLatest(r)

Cleanup(r) ==
  \/ NoCleanup(r) \/ ListRemoteRuns(r) \/ FetchManifest(r) \/ ManifestIsUnreadable(r)
  \/ BuildRetentionPlan(r) \/ DeleteFile(r) \/ RemoveDir(r) \/ RemoveFails(r)
  \/ RetainNewest(r) \/ RetainNone(r) \/ CleanupFails(r)

Next ==
  \/ Tick
  \/ \E r \in Run : Sync(r) \/ Cleanup(r) \/ Crash(r)

Spec == Init /\ [][Next]_vars

-------------------------------------------------------------------------------
(***************************************************************************)
(* Properties.                                                             *)
(***************************************************************************)

Expired(r) == BeforeCutoff(finished[r], now)

\* What the server holds of a run, seen as a RunStore.
HeldOf(r) ==
  CASE dir[r] = "new" -> "new"
    [] dir[r] = "gone" -> "gone"
    [] dir[r] = "there" /\ stored[r] = Files -> "whole"
    [] dir[r] = "there" /\ stored[r] # Files ->
         IF 1..sent[r] \subseteq stored[r] \cup cut[r] THEN "part" ELSE "rest"

Abstract == INSTANCE RunStore WITH
  Atomic <- FALSE,
  content <- [r \in Run |-> HeldOf(r)],
  vouched <- {r \in Run : synced[r]}

\* Whatever fails, and however invocations overlap, a run grows to be whole, sync
\* only vouches for runs that are whole, and nothing but retention takes anything
\* from a run, and then only from an expired one (sync and cleanup of
\* FtpStorageProvider).
ImplementsRunStore == Abstract!Spec

\* A cleanup that reports no error has dealt with every run that was old when its
\* invocation called sync: it leaves nothing but an empty directory of the run,
\* unless it has read the manifest of the run, which had not expired then (cleanup,
\* fetch_remote_manifests).
CleanupReportsLeftovers ==
  [][\A r \in Run :
       pc[r] \in Cleaning /\ pc'[r] = "done" /\ ~errors'[r] =>
         \A q \in Run :
           BeforeCutoff(born[q], finished[r]) /\ stored[q] \cup cut[q] # {} =>
             q \in records[r] /\ ~BeforeCutoff(finished[q], finished[r])]_vars

\* When all invocations are over, and none of them reported an error, latest
\* names a whole run, however they overlapped (_update_latest, _latest_value).
LatestSettles ==
  /\ \E r \in Run : pc[r] = "done"
  /\ \A r \in Run : pc[r] = "idle" \/ (pc[r] = "done" /\ synced[r] /\ ~errors[r])
  => latest # None /\ HeldOf(latest) = "whole"

-------------------------------------------------------------------------------
(***************************************************************************)
(* Why ImplementsRunStore holds, also when invocations overlap: the        *)
(* inductive invariant.                                                    *)
(***************************************************************************)

\* An active run is recent by its identifier, hence by its manifest.
RecentInv(r) ==
  /\ r \in Active => born[r] <= now /\ ~BeforeCutoff(born[r], now)
  /\ r \in Active /\ pc[r] # "staged" => born[r] <= finished[r]

\* The server holds the files sent so far, except those of expired runs.
UploadInv(r) ==
  /\ stored[r] \cup cut[r] \subseteq 1..sent[r]
  /\ dir[r] # "there" => stored[r] \cup cut[r] = {}
  /\ pc[r] \in {"idle", "staged", "connected"} => dir[r] = "new" /\ sent[r] = 0
  /\ pc[r] = "upload" =>
       /\ dir[r] = "there"
       /\ cut[r] \in {{}, {sent[r]}}
       /\ stored[r] = (1..sent[r]) \ cut[r]
  /\ r \in Active /\ pc[r] \notin {"staged", "connected", "upload"} =>
       dir[r] = "there" /\ stored[r] = Files

\* What cleanup read of a run was on the server, and what it removes is expired.
PlanInv(r) ==
  /\ \A q \in records[r] \cup victims[r] : dir[q] # "new"
  /\ \A v \in victims[r] : Expired(v)

SafeInv == \A r \in Run : RecentInv(r) /\ UploadInv(r) /\ PlanInv(r)

-------------------------------------------------------------------------------
(***************************************************************************)
(* Why CleanupReportsLeftovers and LatestSettles hold as well.             *)
(***************************************************************************)

Settling == {"cleanup_latest", "cleanup_torn"}

\* What cleanup still has to deal with, of a run that was old when sync began.
OldRemains(q, r) == BeforeCutoff(born[q], finished[r]) /\ stored[q] \cup cut[q] # {}
Retained(q, r) == q \in records[r] /\ ~BeforeCutoff(finished[q], finished[r])

\* It is to be read, to be removed or retained, unless there is an error to report.
LeftoverInv(r) ==
  /\ finished[r] <= now
  /\ pc[r] = "inventory" /\ ~errors[r] =>
       \A q \in Run : OldRemains(q, r) => q \in unread[r] \cup records[r]
  /\ pc[r] \in {"remove"} \cup Settling /\ ~errors[r] =>
       \A q \in Run : OldRemains(q, r) => q \in victims[r] \/ Retained(q, r)
  /\ pc[r] \in Settling => victims[r] = {}

\* synced tells which of the two calls of _update_latest it is.
SyncedInv(r) ==
  /\ pc[r] \in {"idle"} \cup Syncing => ~synced[r]
  /\ pc[r] \in {"synced"} \cup Cleaning => synced[r]

\* No invocation has failed, crashed or reported an error.
Undisturbed ==
  \A r \in Run :
    pc[r] # "idle" => pc[r] # "crashed" /\ ~errors[r] /\ (pc[r] = "done" => synced[r])

\* On the server, and complete or going to be.
Sound(q) == dir[q] = "there" /\ (pc[q] = "upload" \/ stored[q] = Files)

\* Then a run is sound until it expires, latest is about to say a run at least as
\* young as the invocation that writes it, and when no invocation is about to write
\* latest, it says a sound run.
TargetInv(r) ==
  /\ dir[r] # "new" => Sound(r) \/ Expired(r)
  /\ pc[r] = "inventory" => r \in unread[r] \cup records[r]
  /\ pc[r] = "remove" => r \in records[r]
  /\ pc[r] \in {"latest", "torn"} => target[r] = r
  /\ pc[r] \in Settling =>
       target[r] # None /\ dir[target[r]] # "new" /\ finished[r] <= finished[target[r]]

LatestInv ==
  (\E r \in Run : synced[r]) =>
    \/ latest # None /\ Sound(latest)
    \/ \E p \in Run : pc[p] \in {"torn", "remove"} \cup Settling

FtpInv ==
  /\ SafeInv
  /\ \A r \in Run : LeftoverInv(r) /\ SyncedInv(r)
  /\ Undisturbed => LatestInv /\ \A r \in Run : TargetInv(r)
===============================================================================

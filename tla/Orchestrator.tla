----------------------------- MODULE Orchestrator -----------------------------
(***************************************************************************)
(* BackupOrchestratorService.run_once: what one invocation of the agent    *)
(* does to its staging area and to the storage backends it publishes to,   *)
(* from the creation of the run directory to the removal of the staged     *)
(* tree.  Successive and, when Overlap allows it, simultaneous invocations *)
(* (the scheduler and a manual --run-once) share the staging area and the  *)
(* stores; any of them may crash between and during steps.                 *)
(*                                                                         *)
(* Dumping a target, and what a provider does inside one call, are each    *)
(* one step with every outcome the code lets through.  The "latest"        *)
(* pointers, which no decision of run_once reads, are left out.            *)
(***************************************************************************)
EXTENDS RunDirectories, Sequences

CONSTANTS
  Providers,      \* the storage backends, in the order of build_storage_provider
  Overlap         \* may an invocation start while others are under way?

Backend == {"local", "rsync", "ftp"}
Enabled == {Providers[i] : i \in 1..Len(Providers)}
UsesRsync == "rsync" \in Enabled
UsesLocalStorage == "local" \in Enabled

\* build_storage_provider refuses an empty list and takes each backend at most once.
ASSUME ProvidersAssumption ==
  /\ Providers \in Seq(Backend) /\ Providers # <<>>
  /\ \A i, j \in 1..Len(Providers) : Providers[i] = Providers[j] => i = j
ASSUME OverlapAssumption == Overlap \in BOOLEAN

VARIABLES
  now,         \* the day
  pc,          \* where run_once stands, for every run
  started,     \* run.started_at, also encoded in run.run_id
  status,      \* run.status
  errors,      \* run.errors is not empty
  artifacts,   \* run.artifacts is not empty
  expired,     \* plan.expired_manifests of a run on the rsync path
  next,        \* index of the provider a composite call has reached
  succeeded,   \* providers whose result in the current composite call succeeded
  staged,      \* LOCAL_BACKUP_DIR/runs
  store        \* the run directories each backend holds

runVars == <<pc, started, status, errors, artifacts, expired, next, succeeded>>
vars == <<now, pc, started, status, errors, artifacts, expired, next, succeeded, staged, store>>

Step == {"idle", "discover", "backup", "plan", "delete", "sync", "cleanup",
         "local_retention", "cleanup_run_tree", "done", "crashed"}
Ended == {"idle", "done", "crashed"}
Active == {r \in Run : pc[r] \notin Ended}

TypeOK ==
  /\ now \in Day
  /\ pc \in [Run -> Step]
  /\ started \in [Run -> Day]
  /\ status \in [Run -> RunStatus]
  /\ errors \in [Run -> BOOLEAN]
  /\ artifacts \in [Run -> BOOLEAN]
  /\ expired \in [Run -> SUBSET Run]
  /\ next \in [Run -> 1..(Len(Providers) + 1)]
  /\ succeeded \in [Run -> SUBSET Backend]
  /\ staged \in [Run -> RunDir]
  /\ store \in [Backend -> [Run -> RunDir]]

Init ==
  /\ now = 0
  /\ pc = [r \in Run |-> "idle"]
  /\ started = [r \in Run |-> 0]
  /\ status = [r \in Run |-> "pending"]
  /\ errors = [r \in Run |-> FALSE]
  /\ artifacts = [r \in Run |-> FALSE]
  /\ expired = [r \in Run |-> {}]
  /\ next = [r \in Run |-> 1]
  /\ succeeded = [r \in Run |-> {}]
  /\ staged = [r \in Run |-> Gone]
  /\ store = [b \in Backend |-> [r \in Run |-> Gone]]

-------------------------------------------------------------------------------
(***************************************************************************)
(* Helpers of run_once.                                                    *)
(***************************************************************************)

Goto(r, step) == pc' = [pc EXCEPT ![r] = step]

\* _finish_run: stamps the run and writes its manifest into the run directory
\* of the tree dirs, which write_run_manifest creates when it is missing.
WithManifest(dirs, r, st) ==
  [dirs EXCEPT ![r] = [present |-> TRUE,
                       manifest |-> [status |-> st, finished |-> now],
                       data |-> dirs[r].data]]

\* run.status = st and _finish_run, over the staging tree dirs; run_once goes on
\* with step.
FinishRun(r, dirs, st, step) ==
  /\ status' = [status EXCEPT ![r] = st]
  /\ staged' = WithManifest(dirs, r, st)
  /\ Goto(r, step)

\* Mutant of FailRun: the manifest is not rewritten.
FailRunUnwritten(r, st) ==
  /\ errors' = [errors EXCEPT ![r] = TRUE]
  /\ status' = [status EXCEPT ![r] = st]
  /\ UNCHANGED staged
  /\ Goto(r, "done")

\* An error is appended, the run is finished and returned.
FailRun(r, st) ==
  /\ errors' = [errors EXCEPT ![r] = TRUE]
  /\ FinishRun(r, staged, st, "done")

\* Mutants of Conclude: a misspelt status; errors are forgotten.
ConcludeMisspelt(r, dirs, erroneous) ==
  IF erroneous THEN FinishRun(r, dirs, "partial", "done")
               ELSE FinishRun(r, dirs, "succeeded", "cleanup_run_tree")
ConcludeForgiving(r, dirs, erroneous) ==
  FinishRun(r, dirs, "success", "cleanup_run_tree")

\* The last status of a run whose publication succeeded, and what follows it.
Conclude(r, dirs, erroneous) ==
  IF erroneous THEN FinishRun(r, dirs, "partial", "done")
               ELSE FinishRun(r, dirs, "success", "cleanup_run_tree")

\* A composite call visits the providers one after the other; when it is over,
\* or the process is, its loop starts from the beginning.
ResetProviders(r) ==
  /\ next' = [next EXCEPT ![r] = 1]
  /\ succeeded' = [succeeded EXCEPT ![r] = {}]

ProvidersLeft(r) == next[r] <= Len(Providers)

\* Mutants of ProviderReturned: any result counts as a success; a provider that
\* failed is tried again.
ProviderReturnedIgnored(r, ok) ==
  /\ next' = [next EXCEPT ![r] = @ + 1]
  /\ succeeded' = [succeeded EXCEPT ![r] = @ \cup {Providers[next[r]]}]
ProviderReturnedRetrying(r, ok) ==
  /\ next' = [next EXCEPT ![r] = IF ok THEN @ + 1 ELSE @]
  /\ succeeded' = [succeeded EXCEPT ![r] = IF ok THEN @ \cup {Providers[next[r]]} ELSE @]

ProviderReturned(r, ok) ==
  /\ next' = [next EXCEPT ![r] = @ + 1]
  /\ succeeded' = [succeeded EXCEPT ![r] = IF ok THEN @ \cup {Providers[next[r]]} ELSE @]

\* Mutant of AllSucceeded: any instead of all.
AnySucceeded(r) == succeeded[r] # {}

AllSucceeded(r) == succeeded[r] = Enabled

-------------------------------------------------------------------------------
(***************************************************************************)
(* The steps of run_once.                                                  *)
(***************************************************************************)

\* generate_run_id, create_run.
StartRun(r) ==
  /\ pc[r] = "idle"
  /\ \A q \in Run : q < r => pc[q] # "idle"
  /\ Overlap \/ Active = {}
  /\ started' = [started EXCEPT ![r] = now]
  /\ status' = [status EXCEPT ![r] = "running"]
  /\ staged' = [staged EXCEPT ![r] = [@ EXCEPT !.present = TRUE]]
  /\ Goto(r, "discover")
  /\ UNCHANGED <<now, errors, artifacts, expired, next, succeeded, store>>

\* discover raises a DiscoveryError, or no container resolves to a target.
NoTargets(r) ==
  /\ pc[r] = "discover"
  /\ FailRun(r, "failed")
  /\ UNCHANGED <<now, started, artifacts, expired, next, succeeded, store>>

\* Some container resolves to a target; others may fail to resolve.
DiscoverAndResolve(r) ==
  /\ pc[r] = "discover"
  /\ \E unresolved \in BOOLEAN : errors' = [errors EXCEPT ![r] = unresolved]
  /\ Goto(r, "backup")
  /\ UNCHANGED <<now, started, status, artifacts, expired, next, succeeded, staged, store>>

\* No provider returned an artifact.
NothingBackedUp(r) ==
  /\ pc[r] = "backup"
  /\ \E failing \in BOOLEAN : errors' = [errors EXCEPT ![r] = @ \/ failing]
  /\ FinishRun(r, staged, "failed", "done")
  /\ UNCHANGED <<now, started, artifacts, expired, next, succeeded, store>>

\* The targets are dumped, and the manifest is written before the publication.
BackupTargets(r) ==
  /\ pc[r] = "backup"
  /\ artifacts' = [artifacts EXCEPT ![r] = TRUE]
  /\ \E failing \in BOOLEAN :
       /\ errors' = [errors EXCEPT ![r] = @ \/ failing]
       /\ FinishRun(r, [staged EXCEPT ![r] = [@ EXCEPT !.data = TRUE]],
                    IF errors[r] \/ failing THEN "partial" ELSE "running",
                    IF UsesRsync THEN "plan" ELSE "sync")
  /\ UNCHANGED <<now, started, expired, next, succeeded, store>>

\* plan_remote_retention cannot list the remote store, or a remote run has no
\* readable manifest: nothing is deleted and nothing is published.
PlanFails(r) ==
  /\ pc[r] = "plan"
  /\ FailRun(r, IF artifacts[r] THEN "partial" ELSE "failed")
  /\ UNCHANGED <<now, started, artifacts, expired, next, succeeded, store>>

\* Mutant of PlanRemoteRetention: errors of the inventory do not stop the run.
PlanRemoteRetentionAnyway(r) ==
  /\ pc[r] = "plan"
  /\ expired' = [expired EXCEPT ![r] = ExpiredManifests(store["rsync"], now)]
  /\ Goto(r, "delete")
  /\ UNCHANGED <<now, started, status, errors, artifacts, next, succeeded, staged, store>>

PlanRemoteRetention(r) ==
  /\ pc[r] = "plan"
  /\ Ambiguous(store["rsync"]) = {}
  /\ expired' = [expired EXCEPT ![r] = ExpiredManifests(store["rsync"], now)]
  /\ Goto(r, "delete")
  /\ UNCHANGED <<now, started, status, errors, artifacts, next, succeeded, staged, store>>

\* What rsync --delete from an empty directory removes: every run directory
\* that no "P" filter of protected_run_ids keeps.
DeletedByRsync(protected) == {q \in Run : store["rsync"][q].present} \ protected

\* delete_remote_runs is called without protected_run_ids.
DeleteRemoteRuns(r) ==
  /\ pc[r] = "delete"
  /\ \/ /\ expired[r] = {}
        /\ UNCHANGED store
     \/ /\ expired[r] # {}
        /\ store' = [store EXCEPT !["rsync"] = Wreck(@, DeletedByRsync({}), {}, {})]
  /\ expired' = [expired EXCEPT ![r] = {}]
  /\ Goto(r, "sync")
  /\ UNCHANGED <<now, started, status, errors, artifacts, next, succeeded, staged>>

DeleteFails(r) ==
  /\ pc[r] = "delete"
  /\ expired[r] # {}
  /\ \E left \in SUBSET DeletedByRsync({}) :
       \E dirs \in Removals(store["rsync"], DeletedByRsync({}), left) :
         store' = [store EXCEPT !["rsync"] = dirs]
  /\ expired' = [expired EXCEPT ![r] = {}]
  /\ FailRun(r, IF artifacts[r] THEN "partial" ELSE "failed")
  /\ UNCHANGED <<now, started, artifacts, next, succeeded>>

\* The mounted directory and FTP refuse a destination that already exists.
DestinationExists(b, r) == b # "rsync" /\ store[b][r].present

\* The cleanup of a mounted directory empties its runs/.tmp, the temporary
\* directory of an invocation that is publishing there included: when that one
\* renames its copy, what the removal has not reached yet is published, and the
\* removal goes on inside the published directory.
WipedWhileCopied(b, r) ==
  /\ b = "local"
  /\ \E q \in Active \ {r} :
       pc[q] = "cleanup" /\ ProvidersLeft(q) /\ Providers[next[q]] = b

\* What a transfer that succeeded leaves at the destination.
Copies(b, r) ==
  {staged[r]} \cup (IF WipedWhileCopied(b, r) THEN HalfCopies(staged[r]) ELSE {})

\* What a transfer that failed may have left at the destination.  The mounted
\* directory is copied aside and renamed, so only the removal of the temporary
\* directory can fail once something is visible.
FailedCopies(b, r) ==
  {store[b][r]} \cup
    (IF DestinationExists(b, r) THEN {}
     ELSE IF b = "local" THEN Copies(b, r) ELSE HalfCopies(staged[r]))

Sync(r) ==
  /\ pc[r] = "sync"
  /\ ProvidersLeft(r)
  /\ LET b == Providers[next[r]] IN
       \/ /\ ~DestinationExists(b, r)
          /\ \E copy \in Copies(b, r) : store' = [store EXCEPT ![b][r] = copy]
          /\ ProviderReturned(r, TRUE)
       \/ /\ \E copy \in FailedCopies(b, r) : store' = [store EXCEPT ![b][r] = copy]
          /\ ProviderReturned(r, FALSE)
  /\ UNCHANGED <<now, pc, started, status, errors, artifacts, expired, staged>>

\* Not every provider published the run.
SyncFailed(r) ==
  /\ pc[r] = "sync"
  /\ ~ProvidersLeft(r)
  /\ ~AllSucceeded(r)
  /\ FailRun(r, IF succeeded[r] # {} THEN "partial" ELSE "sync_failed")
  /\ ResetProviders(r)
  /\ UNCHANGED <<now, started, artifacts, expired, store>>

\* Every provider published the run.  On the rsync path the remote retention
\* is over; elsewhere it comes now.
SyncSucceeded(r) ==
  /\ pc[r] = "sync"
  /\ ~ProvidersLeft(r)
  /\ AllSucceeded(r)
  /\ ResetProviders(r)
  /\ IF UsesRsync /\ ~UsesLocalStorage
       THEN Conclude(r, staged, errors[r])
       ELSE /\ Goto(r, IF UsesRsync THEN "local_retention" ELSE "cleanup")
            /\ UNCHANGED <<status, staged>>
  /\ UNCHANGED <<now, started, errors, artifacts, expired, store>>

\* LocalDirectoryStorageProvider.cleanup: the trees in failed resist removal.
CleanupLocal(r) ==
  /\ Providers[next[r]] = "local"
  /\ LET victims == ExpiredRunDirs(store["local"], started, now) IN
       \E failed \in SUBSET victims : \E dirs \in Removals(store["local"], victims, failed) :
         /\ store' = [store EXCEPT !["local"] = dirs]
         /\ ProviderReturned(r, failed = {})

\* FtpStorageProvider.cleanup: the inventory fails, or the expired runs go one
\* by one.  A removal may stop with an error (failed) or, as errors of RMD are
\* suppressed, leave an empty directory behind and count as done (husks).
CleanupFtp(r) ==
  /\ Providers[next[r]] = "ftp"
  /\ \/ UNCHANGED store /\ ProviderReturned(r, FALSE)
     \/ /\ Ambiguous(store["ftp"]) # {} => Inventoried(store["ftp"]) # {}
        /\ LET victims == ExpiredManifests(store["ftp"], now) IN
             \E failed \in SUBSET victims : \E husks \in SUBSET (victims \ failed) :
               \E dirs \in Removals(store["ftp"], victims \ husks, failed) :
                 /\ store' = [store EXCEPT !["ftp"] = Wreck(dirs, {}, husks, husks)]
                 /\ \E ok \in BOOLEAN :
                      /\ ok => failed = {} /\ Ambiguous(store["ftp"]) = {}
                      /\ ProviderReturned(r, ok)

Cleanup(r) ==
  /\ pc[r] = "cleanup"
  /\ ProvidersLeft(r)
  /\ CleanupLocal(r) \/ CleanupFtp(r)
  /\ UNCHANGED <<now, pc, started, status, errors, artifacts, expired, staged>>

CleanupFinished(r) ==
  /\ pc[r] = "cleanup"
  /\ ~ProvidersLeft(r)
  /\ errors' = [errors EXCEPT ![r] = @ \/ ~AllSucceeded(r)]
  /\ IF AllSucceeded(r) /\ ~errors[r] /\ UsesLocalStorage
       THEN Goto(r, "local_retention") /\ UNCHANGED <<status, staged>>
       ELSE Conclude(r, staged, errors[r] \/ ~AllSucceeded(r))
  /\ ResetProviders(r)
  /\ UNCHANGED <<now, started, artifacts, expired, store>>

\* FileSystemRetentionManager.cleanup over the staging area, then the end of
\* the run.
LocalRetention(r) ==
  /\ pc[r] = "local_retention"
  /\ LET victims == ExpiredRunDirs(staged, started, now) IN
       \E failed \in SUBSET victims : \E dirs \in Removals(staged, victims, failed) :
         /\ errors' = [errors EXCEPT ![r] = @ \/ failed # {}]
         /\ Conclude(r, dirs, errors[r] \/ failed # {})
  /\ UNCHANGED <<now, started, artifacts, expired, next, succeeded, store>>

\* cleanup_run_tree; an OSError only makes a warning.
CleanupRunTree(r) ==
  /\ pc[r] = "cleanup_run_tree"
  /\ \E left \in SUBSET {r} : staged' \in Removals(staged, {r}, left)
  /\ Goto(r, "done")
  /\ UNCHANGED <<now, started, status, errors, artifacts, expired, next, succeeded, store>>

-------------------------------------------------------------------------------
(***************************************************************************)
(* The process stops: it is killed, the host goes down, or an exception    *)
(* that run_once does not catch ends it.  A step under way is half done.   *)
(***************************************************************************)

Stopped(r) ==
  /\ Goto(r, "crashed")
  /\ expired' = [expired EXCEPT ![r] = {}]
  /\ ResetProviders(r)
  /\ UNCHANGED <<now, started, status, errors, artifacts>>

Crash(r) ==
  /\ r \in Active
  /\ Stopped(r)
  /\ UNCHANGED <<staged, store>>

CrashInDelete(r) ==
  /\ pc[r] = "delete"
  /\ expired[r] # {}
  /\ \E left \in SUBSET DeletedByRsync({}) :
       \E dirs \in Removals(store["rsync"], DeletedByRsync({}), left) :
         store' = [store EXCEPT !["rsync"] = dirs]
  /\ Stopped(r)
  /\ UNCHANGED staged

CrashInSync(r) ==
  /\ pc[r] = "sync"
  /\ ProvidersLeft(r)
  /\ LET b == Providers[next[r]] IN
       \E copy \in FailedCopies(b, r) : store' = [store EXCEPT ![b][r] = copy]
  /\ Stopped(r)
  /\ UNCHANGED staged

CrashInCleanup(r) ==
  /\ pc[r] = "cleanup"
  /\ ProvidersLeft(r)
  /\ LET b == Providers[next[r]]
         victims == IF b = "local" THEN ExpiredRunDirs(store[b], started, now)
                                   ELSE ExpiredManifests(store[b], now)
     IN \E left \in SUBSET victims : \E dirs \in Removals(store[b], victims, left) :
          store' = [store EXCEPT ![b] = dirs]
  /\ Stopped(r)
  /\ UNCHANGED staged

CrashInLocalRetention(r) ==
  /\ pc[r] = "local_retention"
  /\ LET victims == ExpiredRunDirs(staged, started, now) IN
       \E left \in SUBSET victims : staged' \in Removals(staged, victims, left)
  /\ Stopped(r)
  /\ UNCHANGED store

CrashInCleanupRunTree(r) ==
  /\ pc[r] = "cleanup_run_tree"
  /\ \E left \in SUBSET {r} : staged' \in Removals(staged, {r}, left)
  /\ Stopped(r)
  /\ UNCHANGED store

-------------------------------------------------------------------------------

\* A day passes.  A run is over within the retention window it applies, so that
\* no retention ever judges a run that is still under way.
Tick ==
  /\ now < MaxDay
  /\ \A r \in Active : now + 1 - started[r] <= RetentionDays
  /\ now' = now + 1
  /\ UNCHANGED <<runVars, staged, store>>

RunStep(r) ==
  \/ NoTargets(r) \/ DiscoverAndResolve(r) \/ NothingBackedUp(r) \/ BackupTargets(r)
  \/ PlanFails(r) \/ PlanRemoteRetention(r) \/ DeleteRemoteRuns(r) \/ DeleteFails(r)
  \/ Sync(r) \/ SyncFailed(r) \/ SyncSucceeded(r)
  \/ Cleanup(r) \/ CleanupFinished(r) \/ LocalRetention(r) \/ CleanupRunTree(r)

CrashStep(r) ==
  \/ Crash(r) \/ CrashInDelete(r) \/ CrashInSync(r)
  \/ CrashInCleanup(r) \/ CrashInLocalRetention(r) \/ CrashInCleanupRunTree(r)

\* The bounds are exhausted.
Exhausted ==
  /\ now = MaxDay
  /\ \A r \in Run : pc[r] \in {"done", "crashed"}
  /\ UNCHANGED vars

Next ==
  \/ Tick
  \/ \E r \in Run : StartRun(r) \/ RunStep(r) \/ CrashStep(r)
  \/ Exhausted

Spec == Init /\ [][Next]_vars

\* Every call that run_once makes returns or raises.
Fairness == \A r \in Run : WF_vars(RunStep(r))

FairSpec == Spec /\ Fairness

-------------------------------------------------------------------------------
(***************************************************************************)
(* Properties.                                                             *)
(***************************************************************************)

Recent(r) == ~BeforeCutoff(started[r], now)
Everywhere(r) == \A b \in Enabled : Intact(store[b][r])
Loses(before, after) == Intact(before) /\ ~Intact(after)

\* A backup that was taken within the retention window is never lost: the
\* staging area or every configured backend holds it with its manifest, through
\* failed and partial publications, retention of other runs, simultaneous runs
\* and crashes (run_once, cleanup_run_tree, the cleanup methods).
Kept(r) == artifacts[r] /\ Recent(r) => Intact(staged[r]) \/ Everywhere(r)
NoRecentBackupLost == \A r \in Run : Kept(r)

\* A run that reported success is complete on every configured backend as long
\* as it is within the retention window (run_once, CompositeStorageProvider).
Successful(r) == status[r] = "success" /\ Recent(r) => Everywhere(r) /\ ~errors[r]
SuccessMeansPublished == \A r \in Run : Successful(r)

\* When run_once has returned, the manifest in the staging area, if it is still
\* there, carries the status that was returned, and that status is final.
StagedManifestIsFinal ==
  \A r \in Run :
    pc[r] = "done" /\ staged[r].manifest # NoManifest =>
      /\ staged[r].manifest.status = status[r]
      /\ status[r] \in RUN_TERMINAL_STATUSES

\* No step takes from a backend a complete run that is within the retention
\* window (retention of the providers, delete_remote_runs).
OnlyExpiredDeleted ==
  [][\A b \in Backend, q \in Run :
       Loses(store[b][q], store'[b][q]) =>
         BeforeCutoff(store[b][q].manifest.finished, now)]_vars

\* A backend loses a complete run only while another run, whose publication to
\* every configured backend is over, is being processed: retention comes after
\* a successful publication (run_once).
RetentionAfterPublication ==
  [][\A b \in Enabled, q \in Run :
       Loses(store[b][q], store'[b][q]) =>
         \E r \in Active \ {q} : Everywhere(r)]_vars

\* When a run becomes successful, no configured backend still holds a complete
\* run that was expired already when this run started (run_once, cleanup).
RetentionApplied ==
  [][\A r \in Run : status[r] # "success" /\ status'[r] = "success" =>
       \A b \in Enabled, q \in Run :
         Intact(store[b][q]) =>
           ~BeforeCutoff(store[b][q].manifest.finished, started[r])]_vars

\* A run directory without a readable manifest that an earlier run left on a
\* remote backend is never deleted nor changed (fetch_remote_manifests).
AmbiguousRunsKept ==
  [][\A b \in {"rsync", "ftp"} : \A q \in Ambiguous(store[b]) :
       pc[q] \in Ended => store'[b][q] = store[b][q]]_vars

\* Once an earlier run left a directory without a manifest on the rsync
\* backend, no run publishes to, or deletes from, any backend again
\* (plan_remote_retention fails closed, _sync_with_rsync_retention returns).
AmbiguousRsyncFreezesPublication ==
  [][(\E q \in Ambiguous(store["rsync"]) : pc[q] \in Ended) => UNCHANGED store]_vars

\* A complete staged run is only removed or damaged when every configured
\* backend holds it, or as an expired run of a mounted-storage configuration
\* (cleanup_run_tree, FileSystemRetentionManager.cleanup).
StagingOutlivesPublication ==
  [][\A r \in Run : Loses(staged[r], staged'[r]) =>
       \/ status[r] = "success" /\ Everywhere(r)
       \/ UsesLocalStorage /\ BeforeCutoff(staged[r].manifest.finished, now)]_vars

\* Every run comes to an end, whatever the providers answer.
RunsEnd ==
  \A r \in Run : pc[r] = "discover" ~> pc[r] \in {"done", "crashed"}

-------------------------------------------------------------------------------
(***************************************************************************)
(* Why NoRecentBackupLost holds without rsync, unless invocations overlap  *)
(* on a mounted directory: the inductive invariant.                        *)
(***************************************************************************)

Working == {"plan", "delete", "sync", "cleanup", "local_retention", "cleanup_run_tree"}
Published == {"cleanup", "local_retention", "cleanup_run_tree"}

\* A run that has not started has left no trace.
IdleInv(r) ==
  pc[r] = "idle" =>
    /\ staged[r] = Gone
    /\ \A b \in Backend : store[b][r] = Gone
    /\ ~artifacts[r]
    /\ status[r] = "pending"

\* No manifest, wherever it is, is older than the start of its run: a recent run
\* is recent for every retention plan.
DatesInv(r) ==
  /\ started[r] <= now
  /\ r \in Active => Recent(r)
  /\ staged[r].manifest # NoManifest => started[r] <= staged[r].manifest.finished
  /\ \A b \in Backend :
       store[b][r].manifest # NoManifest => started[r] <= store[b][r].manifest.finished

\* Between the manifest and the end of run_once the staged tree is complete,
\* and what a call of sync reported to be published is.
ProgressInv(r) ==
  /\ pc[r] \in {"discover", "backup"} => ~artifacts[r]
  /\ pc[r] \in Working => artifacts[r] /\ Intact(staged[r])
  /\ pc[r] = "sync" => \A b \in succeeded[r] : Intact(store[b][r])
  /\ pc[r] \notin {"sync", "cleanup"} => succeeded[r] = {}
  /\ pc[r] \in Published => Everywhere(r)
  /\ pc[r] = "cleanup_run_tree" => ~errors[r]
  /\ status[r] = "success" => pc[r] \in {"cleanup_run_tree", "done", "crashed"}
  /\ pc[r] \notin {"plan", "delete"}

RunInv(r) == IdleInv(r) /\ DatesInv(r) /\ ProgressInv(r) /\ Kept(r) /\ Successful(r)

PublicationInv ==
  /\ Overlap \/ \A p \in Active, q \in Active : p = q
  /\ \A r \in Run : RunInv(r)
===============================================================================

# Formal verification of db-backup-agent

This directory holds TLA+ models of the backup agent under `src/`, the
configurations under which TLC checks them, and proofs that TLAPS checks.
Paths of source files are relative to `src/src/backup_agent/` unless they start
with `docs/` or `.pi/`.

## 1. The system

The agent is one Python process per invocation: `backup-agent` runs a scheduler
that calls `run_once` once per day, `backup-agent --run-once` calls it once. There
are no threads; what runs concurrently are invocations (the container with the
scheduler and a manual `--run-once`), which share the staging area and the
storage backends without any lock.

| Component | State | Operations | Interaction |
|---|---|---|---|
| Orchestrator (`services/orchestrator.py`) | the `BackupRun`: status, errors, artifacts, targets | `run_once`, `_sync_with_rsync_retention`, `_backup_targets` | calls every other component, in order |
| Staging (`services/staging.py`, `services/manifest.py`) | `runs/<run-id>/`, `latest` under `LOCAL_BACKUP_DIR` | `create_run`, `cleanup_run_tree`, `write_run_manifest` | shared by all invocations |
| Retention (`services/retention.py`) | none; reads manifests and directory names | `build_retention_plan`, `cleanup` | over staging and over a mounted directory |
| Local directory storage (`providers/storage/local_directory.py`) | `runs/<run-id>`, `runs/.tmp`, `latest` | `sync`, `cleanup` | uses the retention plan |
| Rsync storage (`providers/storage/rsync.py`) | remote run directories | `sync`, `plan_remote_retention`, `delete_remote_runs`, `cleanup` | external `rsync` |
| FTP storage (`providers/storage/ftp.py`) | remote run directories, `latest` | `sync`, `cleanup`, `fetch_remote_manifests`, ... | one FTP command at a time |
| Composite, factory (`providers/storage/composite.py`, `factory.py`) | order of the providers | `sync`, `cleanup` | visits the providers in order, composes the results |
| Scheduler (`services/scheduler.py`) | stop flag | `next_run_after`, `schedule`, `stop` | sleeps, calls `run_once` |
| Database providers (`providers/databases/`) | dump files, temporary files | `validate`, `backup` | `docker exec` or local tools |
| Filesystem provider (`providers/databases/filesystem.py`) | archives | `validate`, `backup` | Docker archive API |
| Discovery, resolver (`services/discovery.py`, `metadata_resolver.py`) | none | `discover`, `resolve` | Docker API |
| Docker client (`infrastructure/docker.py`) | none | exec, archive, inspect | HTTP over a Unix socket |
| Configuration (`app/config.py`) | none | `from_env` | read once |
| Health, CLI, logging (`interfaces/`, `infrastructure/logging.py`) | none | probes, parsing, formatting | pure I/O |

Hard behaviours: partial failures of every external operation, crashes between
and during steps, retention decisions over directories that other invocations or
earlier crashed runs left behind, overlapping invocations, and wall-clock
arithmetic of the scheduler.

What makes each component correct:

- **Orchestrator, storage, staging, retention**: a recent backup is never lost;
  success means published everywhere; staging goes only after publication;
  retention deletes what is expired, all of it, nothing else, and only after a
  publication; the manifest that remains carries the final status; a run ends.
- **Database providers**: an artifact is a complete dump of its database for
  good; no dump is lost without an error; nothing half-written is left where it
  would be published; `exec` and `local` do not fall back, `auto` does; the
  password file does not outlive the call.
- **Scheduler**: one run a day, at `BACKUP_TIME`, none slept through, errors of a
  changing UTC offset bounded, stop effective.
- **Mounted directory and FTP server, file by file**: a run becomes visible whole
  (or, on FTP, grows to be whole before it is reported as published); only expired
  runs lose files; `latest` names a whole run; what a cleanup leaves behind is
  reported.
- **Discovery, resolver, filesystem provider**: every enabled container becomes
  targets or an error, and every target an artifact or an error; every directory
  asked for is in the archive or in an error; a resolved target is one its provider
  accepts.
- **Docker client**: the parser of the exec stream rejects what is cut short;
  exit codes are not invented.

## 2. The modules

`RunDirectories` and `Orchestrator` form one model (the first EXTENDED by the
second). `BackupPhase` (on `MetadataResolver`) details the first half of a run and
implements `Orchestrator`; `LocalStore` and `FtpStore` detail two backends and
implement `RunStore`, what a backend promises. `DatabaseBackup` and
`DailyScheduler` stand on their own. Each `MC...` module gives constants their values, each `.cfg` is one run; each `...Proofs`
module holds theorems. Operators introduced with "Mutant of" in the models are
plausible bugs: replacing the definition they vary by them must break a property.

### 2.1 `RunDirectories`

A run directory, in staging or on a backend, is a record: is it there, is its data
complete, and which status and finishing day does its manifest carry. Paths, file
lists and check sums are left out. `ExpiredRunDirs` is
`build_retention_plan` (the manifest's `finished_at`, or the run identifier when
there is no manifest), `Inventoried`, `Ambiguous` and `ExpiredManifests` are
the remote inventories of rsync and FTP, `Removals` and `HalfCopies` are what an
interrupted removal or copy may leave.

### 2.2 `Orchestrator`

The state is `run_once` of every invocation (`pc`, `status`, `errors`, `artifacts`,
`expired`, `next`, `succeeded`: the local variables and the `BackupRun`) and what
the invocations share (`staged`, `store`, `now`). One action is one call that
`run_once` makes, with every outcome the callee lets through, and what
`run_once` does with the result:

| Action | Code |
|---|---|
| `StartRun` | `create_run`, the new `BackupRun` |
| `NoTargets`, `DiscoverAndResolve` | `discover`, `_resolve_targets` and the early returns after them |
| `BackupTargets`, `NothingBackedUp` | `_backup_targets`, the early return without artifacts, the manifest before publication |
| `PlanRemoteRetention`, `PlanFails`, `DeleteRemoteRuns`, `DeleteFails` | `_sync_with_rsync_retention` up to the upload |
| `Sync`, `SyncFailed`, `SyncSucceeded` | one provider of the composite, or what follows the last one |
| `Cleanup`, `CleanupFinished` | `CompositeStorageProvider.cleanup`, provider by provider |
| `LocalRetention` | `FileSystemRetentionManager.cleanup` over staging |
| `CleanupRunTree` | `cleanup_run_tree` and the final manifest |
| `CrashStep` | a kill, a power loss or an uncaught exception, between and during the steps |
| `Tick` | a day passes |

Left out: the `latest` links and pointer files, which no decision of `run_once`
reads (those of the backends are in `LocalStore` and `FtpStore`), and the order of
the single file operations inside one provider call. Those calls are one step
whose outcomes include every partial one, so a simultaneous invocation sees no
state in the middle of a call, with one exception that the code makes
relevant: `WipedWhileCopied`, a `cleanup` of the mounted directory that empties
`runs/.tmp` while another invocation copies into it. What rsync itself does
(an empty source with `--delete`) is modelled from its arguments and marked
external. Assumed: a run is over within the retention window (guard of `Tick`);
the window is at least one day; no backend is listed twice
(`ProvidersAssumption`: `build_storage_provider` makes at most one of each).

### 2.3 `DatabaseBackup`

One call of `PostgreSQLBackupProvider.backup` or `MariaDBBackupProvider.backup`
(`target.db_type`) for any target. `jobs` is the list of dumps that the nested loops of
`backup` make; `pc` walks through one dump: in the container (`remote`,
`exec`), with the local client (`local`, `dumping`), `compress`, `compressing`;
`files` is the provider's directory, in which a file is its subject, whether it is
complete, and who wrote it. Actions: `Reject`/`RejectFormat`/`Start` (validation,
unsupported formats), `DefaultsFileUnwritten`, `RemoteUnavailable` (no
Docker client), `StartExec`/`ExecSucceeds`/`ExecFails`/`ExecRaises`,
`StartLocal`/`LocalSucceeds`/`LocalFails`/`LocalRaises`,
`StartCompression`/`CompressionSucceeds`/`CompressionFails` and `Killed`. `Settle`
is the loop: the artifact and the errors of the dump are recorded and the next one
begins, or `Return` computes the status and, for MariaDB, removes the defaults file.

Two hypotheses stand inside `ArtifactsHoldTheirDump`. `ExitCodeRecorded`: Docker has
an exit code when the exec is inspected; the model has both answers, and an
exec without a code counts as a success, as in the code. `FilesAreDistinct`: the
file names of the dumps differ; otherwise the second dump replaces the first (section 4). Left out: command lines, sizes,
messages, and the directory of another call (`safe_name` of the container).

### 2.4 `DailyScheduler`

`schedule`, `next_run_after`, `seconds_until_next_run` and `stop`. Time is counted
in hours since an origin; the wall clock is time plus the UTC offset, and the
offset is an arbitrary function of time. Datetimes of one `ZoneInfo` are compared
and subtracted on the wall clock, as Python does it, while `sleep` elapses in real
time. `runs` records every sleep that led to a call of the callback. `Stop` may
happen at any step, before `schedule` too, where `schedule` forgets it (nothing in
the program calls `stop`; the model takes any caller). `CallbackRaises` is an
exception that leaves `run_once`.

### 2.5 `RunStore`, `LocalStore`, `FtpStore`

`RunStore` is the contract of a backend: a run is `new`, `part` (some of it is
visible), `whole`, `rest` (what a removal left) or `gone`. It only moves forward;
`sync` reports success (`Vouch`) for whole runs only; only `Retire` takes anything
from a run, and only from an expired one. With `Atomic` there is no `part`.

`LocalStore` is `LocalDirectoryStorageProvider`, one file operation per action:
`copytree` file by file into `runs/.tmp` (`CopyFile`), the rename (`Move`), `latest`
removed and set again (`UnlinkLatest`, `SetLatest`), the plan, the wipe of
`runs/.tmp` (`WipeEnter`, `WipeUnlink`, `WipeLeave`: `rmtree` reads a directory
and removes what it read relative to the open directory, so that it follows one
that is renamed), the removal of the expired runs file by file, and every failure
the code handles or lets through. `Crash` is possible at each.

`FtpStore` is `FtpStorageProvider`, one FTP command per action: `MKD`, `STOR` in two
steps (the file is created, the transfer ends) in the sorted order of the code, the
listing, `RETR` of each manifest, `DELE`, `RMD` whose refusal is suppressed, and
`latest`, which `STOR` truncates before it writes it. Any command may fail, and an
invocation may be killed between any two. The files are numbered in the order of the
upload; `ManifestFile` is the position of the manifest, which sorts after
`filesystem/` and before `mariadb/` and `postgresql/`.

Both map to `RunStore` by `HeldOf(r)`, the content of a run as the backend has it,
and `vouched`, the runs whose `sync` succeeded (`Abstract == INSTANCE RunStore WITH
...`). In both, what the orchestrator does around `sync` and `cleanup` is reduced to
a finished run that is handed over on time (`Start`, `BeginSync`, `NoCleanup`, `Tick`).

### 2.6 `MetadataResolver`, `BackupPhase`

`MetadataResolver` has the pure part: which keys each field is looked up under and in
which order (`LabelKeys`, `EnvKeys`, `SelectValue`), the types and their synonyms,
every reason to reject a container (`IsRejected`), the targets it otherwise becomes
(`Targets`), what the providers' `validate` insists on (`IsValid`), and the dump formats
that PostgreSQL refuses (`IsFormatRefused`). Values are tokens; stripping, splitting
and lower case have been done, `Blank` is an empty value.

`BackupPhase` is `run_once` up to the manifest before the publication: discovery
container by container, resolution, and the targets one after the other. A database
target is one step: `BackUpDatabase` has the outcomes of the dumps of `DatabaseBackup`,
each error with the output path of the target, and `RefuseFormat` is its
`RejectFormat`, one error with neither database nor output path. A filesystem target
is copied directory by directory (`GetArchiveFails`, `ExtractArchive`, `WriteArchive`),
where extraction may leave part of a directory and may overwrite another with the
same base name. `InvalidTarget` is the `ValueError` of `validate`, `Raise` is
what else nothing catches. `RunOnce == INSTANCE Orchestrator WITH ...` maps this to
one invocation of `Orchestrator`: `RunPc` groups the steps, errors and artifacts of
the targets count when `_backup_targets` returns.

## 3. The runs

Bounds of the orchestrator: `MaxDay = 2` and `RetentionDays = 1`, so that a run is
recent, at the edge of the window, and expired; two runs, one that ages from recent to
expired and one that publishes and cleans, and a third where a recent run has to stand
beside the expired one (`orch_rsync_deletes`); one or two backends in the orders
`build_storage_provider` produces for the composite. More runs repeat these roles, and
`PublicationProofs` covers any number.

| Run | Result | Question |
|---|---|---|
| `orch_local_ftp` | holds | successive runs on the composite of a mounted directory and FTP, failures and crashes everywhere; the inductive invariant |
| `orch_ftp_overlap` | holds | overlapping invocations on FTP lose no recent backup, and each ends |
| `orch_local_rsync` | holds | the composite with rsync: an ambiguous remote run freezes publication, staging goes only after a publication |
| `orch_rsync_deletes` | violated | are only expired runs deleted from rsync? |
| `orch_rsync_composite` | violated | does retention reach the other backends when rsync is configured? |
| `local_store` | holds | the mounted directory file by file: atomic publication, `latest`, what cleanup reports |
| `local_store_overlap` | violated | does the mounted directory keep its contract when invocations overlap? |
| `ftp_store` | holds | overlapping invocations on FTP, command by command |
| `backup_phase` | holds | are all containers and directories accounted for, and does `run_once` see what `Orchestrator` says? |
| `invalid_ports` | violated | are invalid ports errors of the metadata? |
| `databases` | holds | all properties of `DatabaseBackup`, both engines |
| `scheduler` | holds | the scheduler under steady and changing offsets, with liveness of stop |

Bounds of `LocalStore`: three runs, one that expires, one that is newest and one
that cleans, with a manifest and one more file, over three days; one file more or less
makes a tree whole or not. `local_store_overlap` needs two runs only. Bounds of
`FtpStore`: two overlapping runs over three days with two files, the manifest being
the first, the order in which a run looks published before it is; both stores
are proved for any number. Bounds of `BackupPhase`: two containers, each with one
of sixteen kinds of metadata, one per way through the resolver and per reason to
reject or refuse, dump formats included, with up to three directories, two of them with one base name, one
listed twice. Deadlock is not checked in these: the models end with the last run.

Bounds of `DatabaseBackup`: up to two of three databases, listed twice too, two of
which share a file name; every method, format, validity and presence of a client.
Two dumps are enough for one to disturb another. The main properties are proved for any
number. Deadlock is not checked: a call ends.

Bounds of `DailyScheduler`: three days (`Horizon = 72`) and what the last sleep
and run add; backups at 0, 2 and 23 o'clock; runs of 0, 3 and 26 hours, so that a
run may span the next backup time; offsets -5, 0, 1, or a change between 0 and 1
at 0, 2 or 23 o'clock of the second day. Deadlock is not checked: the model ends at
the horizon, and the loop when it is stopped.

Fairness: `WF_vars(RunStep(r))` in `orch_ftp_overlap` says that every call `run_once`
makes returns or raises; `WF_vars(Loop)` in `scheduler` that a sleep and a call of
`run_once` end. The code has no loop without a bound besides the scheduler's, but
it sets no timeout on subprocesses and on Docker requests either: both liveness
properties hold up to a call that hangs.

## 4. What the checks found

Runs that end in a violation; each finding quotes its document in `PROJECT.json`.

1. `delete_remote_runs` is called without `protected_run_ids`; with an rsync backend,
   one expired run makes `rsync --delete` remove all of them (`orch_rsync_deletes`).
2. With rsync among the backends no other backend gets retention
   (`orch_rsync_composite`).
3. The `.tmp` race of two invocations on a mounted directory: the wipe of one takes
   files from the copy of the other, which is renamed into place and reported as a
   success (`local_store_overlap`).
4. A port such as `0` passes the resolver; the `ValueError` of `validate` leaves
   `run_once`, all containers go without a backup and without a manifest, and the
   scheduler's loop ends (`invalid_ports`), although `.pi/architecture.md:543-550`
   lets the other containers succeed. A relative directory does the same.

The models also exhibit the following, without a run of their own:

- on the rsync path deletion precedes the upload (`DeleteRemoteRuns` before
  `Sync`), though `.pi/architecture.md:849` puts retention after it;
- published manifests keep the status `running`, because the final manifest is
  written to staging only (`Conclude` leaves `store` unchanged);
- with a mounted directory configured, retention over staging removes trees that
  `docs/operations.md:111` says remain for inspection (`LocalRetention`; the second
  disjunct of `StagingOutlivesPublication`);
- an exec whose exit code is null counts as a success (`ExitCodeRecorded`);
- a connection that breaks while the output of an exec is read raises an `OSError` that
  no provider catches (`ExecRaises`; `infrastructure/docker.py:91`): `auto` does not
  fall back, contrary to `.pi/architecture.md:290`; an `HTTPException` while any
  answer of Docker is read does the same (`Raise` of `BackupPhase`);
- two databases whose names `_safe_name` maps to one file (`FilesAreDistinct`;
  `postgresql.py:570`): the second dump replaces the first, both are listed;
- an exception that leaves `run_once` ends the scheduler (`CallbackRaises`;
  `services/scheduler.py:65`), contrary to `.pi/architecture.md:179`;
- two directories with the same base name become one in the archive
  (`Extracted`), with status success;
- errors of providers carry the database or the directory where the container belongs
  (`Error` in `BackUpDatabase`; `services/orchestrator.py:444-445`), unlike the one in
  `tests/test_health_and_orchestrator.py:500-505`; only the output path tells the target;
- the error of a dump format that PostgreSQL refuses has no output path either
  (`RefuseFormat`; `postgresql.py:259-266` and `343-368`): nothing in the manifest but
  the message says that a container went without a backup, and nothing says which,
  though `docs/discovery-and-labels.md:255` calls the error actionable;
- a refused `RMD` is suppressed (`RemoveDir` of `FtpStore`): the empty directory stays,
  this cleanup reports nothing, although `.pi/tasks/24-retention-notes.md:92` asks for
  a cleanup error, and every later inventory reports a missing manifest;
- an FTP run whose manifest cannot be read at the moment is not among the retained
  ones, so that `latest` may move back to an older run, with an error
  (`ManifestIsUnreadable`, `RetainNewest`);
- on FTP the manifest is on the server before the dumps of databases, so that
  other invocations may take it for a published one, and even `latest` may name it
  until its own `sync` ends (why `LatestSettles` waits for all invocations);
- a run whose sleep spans a change of the UTC offset is early or late by the
  change (`EveryRunAtBackupTime` is false), by no more (`MissesByTheJump`).

## 5. What is proved

All theorems hold for every value of the constants that satisfies the named
assumptions of the modules. Each argument is an inductive invariant: `Init` implies
it, every action preserves it (one lemma per action or group), it implies the
property, and `PTL` joins the three.

| Theorem | Module | Statement |
|---|---|---|
| `TypeCorrect`, `LastManifestIsFinal` | `OrchestratorProofs` | `TypeOK` and `StagedManifestIsFinal`, any runs, days, sequence of backends |
| `PublicationInvariant` | `PublicationProofs` | `PublicationInv` is inductive |
| `NoRecentBackupIsLost`, `SuccessIsPublished` | `PublicationProofs` | `NoRecentBackupLost`, `SuccessMeansPublished` |
| `RetentionDeletesExpired`, `RetentionFollowsPublication` | `PublicationProofs` | `OnlyExpiredDeleted`, `RetentionAfterPublication` |
| `SuccessMeansRetentionApplied` | `PublicationProofs` | `RetentionApplied`, without rsync, also with overlap |
| `AmbiguousRsyncIsFrozen` | `PublicationProofs` | `AmbiguousRsyncFreezesPublication`, without overlap |
| `AmbiguousRunsStay` | `PublicationProofs` | `AmbiguousRunsKept`, without overlap or without rsync |
| `StagingOutlives` | `PublicationProofs` | `StagingOutlivesPublication`, without overlap, or with neither rsync nor a mounted directory |
| `VouchedRunsStayWhole` | `RunStoreProofs` | in every `RunStore` a vouched run is whole while it is within the window |
| `LocalInvariant`, `LatestNeverDangles` | `LocalStoreProofs` | `TypeOK` and `LocalInv`, `LatestIsWhole`, without overlap |
| `LatestPointsToTheNewest`, `CleanupLeavesNothingUnreported` | `LocalStoreProofs` | `LatestIsNewest`, `CleanupReportsLeftovers`, without overlap |
| `LocalStoreImplementsRunStore` | `LocalStoreProofs` | the refinement, without overlap |
| `FtpInvariant`, `TypeCorrect`, `FtpStoreImplementsRunStore` | `FtpStoreProofs` | `TypeOK` and `FtpInv`; the refinement, also with overlap |
| `CleanupDealsWithOldRuns`, `LatestNamesAWholeRun` | `FtpStoreProofs` | `CleanupReportsLeftovers`, `LatestSettles`, also with overlap |
| `SyncedRunsStayWhole` | `LocalStoreProofs`, `FtpStoreProofs` | a run whose `sync` succeeded is whole while it is within the window |
| `PhaseInvariant` | `BackupPhaseProofs` | `PhaseInv`, any containers with any metadata |
| `NoContainerIsPassedOver`, `ArchivesAccountForDirectories` | `BackupPhaseProofs` | `EveryContainerIsAccountedFor`, `ArchiveAccountsForDirectories` |
| `OnlyPortsAndDirectoriesAreRefused` | `BackupPhaseProofs` | `ResolvedTargetsAreValid` |
| `PhaseImplementsRunOnce` | `BackupPhaseProofs` | the refinement of `Orchestrator` |
| `BackupInvariant` | `DatabaseBackupProofs` | `TypeOK` and `BackupInv` |
| `ArtifactsAreDumps`, `NothingIsLeft` | `DatabaseBackupProofs` | `ArtifactsHoldTheirDump`, `NothingInFlightIsLeft` |
| `DumpsAreAccountedFor`, `MethodsAreKeptTo`, `NoDefaultsFileIsLeft` | `DatabaseBackupProofs` | `EveryDumpIsAccountedFor`, `MethodIsKeptTo`, `DefaultsFileIsRemoved` |
| `SchedulerInvariant`, `RunsMissByTheJump` | `DailySchedulerProofs` | `TypeOK` and `SchedulerInv`; `MissesByTheJump`, for every history of the offset |
| `RunsAtBackupTime`, `OneRunPerDay`, `NoBackupTimeIsSleptThrough` | `DailySchedulerProofs` | `AtBackupTime`, `OncePerDay`, `NotSleptThrough`, for every offset that does not change |
| `StopPreventsRuns` | `DailySchedulerProofs` | `StoppedLoopDoesNotRun` |

- **Publication.** `NoRecentBackupLost` is not inductive: a run removes its staged
  tree because of what an earlier call reported. `PublicationInv` says that the
  report still holds: between the manifest and the end the staged tree is
  complete, what `succeeded` lists is published, after the publication it is
  published everywhere, and no manifest is older than the start of its run, so
  that no retention plan, of this or of another invocation, takes a recent run.
  The theorems assume `Guarded`: no rsync, and no overlap on a mounted directory.
  Findings 1 and 3 are why: without the guard they are false.
  `RetentionDeletesExpired` needs only that there is no rsync. `RetentionAfterPublication`
  adds that a backend only loses runs in `cleanup` (lemma `LossesInCleanup`), which
  comes after every backend has succeeded.
- **Publication, with rsync and with overlap.** `Guarded` excludes much of what the
  other properties are about, so their proofs start from facts that hold in every
  configuration: what any step of an invocation may do to the backends
  (`StoreSteps`), to the staging area (`StagingSteps`) and to the variables of other
  invocations (`StepFrames`), where it leads (`StepPaths`), and that the dates of
  manifests and active runs are in order (`DatedInvariant`).
  `SuccessMeansRetentionApplied` uses `CleanedInv`: a backend that `cleanup` has been
  through holds no complete run that was expired at the start, and stays so, since
  nothing under way is that old. With rsync it is false (finding 2).
  `AmbiguousRsyncIsFrozen` uses `FreezeInv`: after its plan an invocation has no
  directory without a manifest on rsync but its own. It assumes that invocations do
  not overlap, because one that has made its plan still publishes whatever another
  leaves behind; so does `AmbiguousRunsStay` on rsync. On FTP the latter needs
  nothing: what an invocation uploads is its own, what it deletes has a manifest.
  `StagingOutlives` uses `Held`: the staged tree is complete while the invocation works
  on it, and what `sync` reported as published is on the backend until the end. It is
  proved where nothing else can take it away: for an invocation that is alone,
  with rsync too, and for any on FTP only, as a run that is under way has not expired.
- **Backends.** `LocalInv` says that a run is invisible before the rename, whole and
  recent from then to the end of its invocation, and that only expired runs are
  victims, so that `latest`, which names the active run or a retained one, is never
  taken apart (`SafeInv`); that `latest` is the run of the last invocation once it
  has returned (`PointerInv`); and that an expired run that is still there is among
  the victims to come or has been reported (`LeftoverInv`). It needs that
  invocations do not overlap (finding 3). `FtpInv` says that the server holds
  exactly the files sent so far, except those of expired runs (`SafeInv`); as each
  invocation works on its own run and on expired ones, overlap does not matter. Its
  other parts follow `cleanup` from the listing to its end: what is left of an old
  run is still to be read, to be removed, retained for the date in its manifest, or
  there is an error to report (`LeftoverInv`); and as long as no invocation has
  failed, `latest` is about to be set to a run, or says one, that is complete or
  going to be (`TargetInv`, `LatestInv`). An earlier form of
  `CleanupReportsLeftovers` on FTP asked that the manifest of a retained run be on
  the server at the end; its proof failed, since a run may expire for an overlapping
  invocation that starts to remove it. That takes three runs over four days, which
  the bounds of `ftp_store` do not reach and TLC confirms; the property now asks
  that the invocation itself has read the manifest. Each step then maps to a step of
  `RunStore` or to a stutter; `SyncedRunsStayWhole` carries `VouchedRunsStayWhole`
  over to both backends along that refinement.
- **First half of a run.** `PhaseInv` says how far each loop has got and that what is
  behind it has been seen to: containers discovered, rejected with an error or among
  the targets; targets with an artifact or an error that tells the target (for a
  refused format, with the error that tells none); directories whole or with an
  error. The refinement maps most steps to a stutter, and those that end a phase
  to `NoTargets`, `DiscoverAndResolve`, `BackupTargets` or a crash of `Orchestrator`.
- **Dumps.** `BackupInv` says which file belongs to which dump and step: artifacts
  are made for earlier dumps only, a dump to be compressed is complete, a temporary
  or uncompressed file belongs to the current dump and step. Every action writes
  files of the current dump only, and `FilesAreDistinct` keeps those apart from the
  files of all artifacts. That a dump is accounted for, a method kept to and
  the defaults file removed follows from invariants of the loop of their own.
- **Scheduler.** `SleepInv` says that the wall clock at the start of the sleep plus
  its length is at the backup time; the clock at its end differs from that by the
  jump. The arithmetic of `next_run_after` is a lemma (`NextRunFacts`).

Model-checked only: liveness (`RunsEnd`, `StopEndsTheLoop`), which is beyond the
prover. Every other property of a run that holds is stated by a theorem. Some hold
under an assumption because the code breaks them without it: with overlapping
invocations on a mounted directory (finding 3), `OnlyExpiredDeleted` and
`RetentionApplied` with rsync (findings 1 and 2), and with overlapping invocations
on rsync, where one acts on a plan from before the other uploaded or crashed. For
these, TLC finds `AmbiguousRsyncFreezesPublication` violated with two runs,
`AmbiguousRunsKept` and `StagingOutlivesPublication` with three, one of them expired
(`RsyncOnly`, `Overlap = TRUE`), so that the theorems need their assumptions about
overlap.

## 6. What is not modelled

- Health checks, command line, logging and the domain records: no state and no
  decision that a property is about.
- Configuration: environment variables are parsed and validated once, before anything
  else runs; the modules take valid settings as constants.
- The parser of the multiplexed exec stream (`_decode_exec_stream`): bytes, which
  the models do not have.
- `latest` of the staging area, which `create_run`, `cleanup_run_tree` and retention
  write and nothing reads.
- `RsyncStorageProvider.cleanup`, and `plan_remote_retention` and
  `delete_remote_runs` of FTP: the orchestrator never calls them (rsync goes through
  `_sync_with_rsync_retention`).
- The file a `_write_archive` leaves that fails half way: it stays under its final
  name `directories.tar.gz` and is published, but not listed.
- An FTP server that lists `.` and `..` as directories: `_delete_remote_tree` does not
  filter them and would leave the directory of the run.
- The branch of `_backup_targets` for a target without a provider: `app/main.py`
  builds one for every type the resolver lets through.

## 7. The plan

Done: all modules above with their runs and proofs. What would come next:

1. `ExecStream`, the multiplexed Docker stream against a reference parser, as a
   recursive function over bounded inputs.
2. `Config` as pure operators.
3. `Staging`: `latest` of the staging area under overlapping invocations.
4. `RunStore` for rsync: the contract that is left when one deletion takes every run
   (finding 1), and what the publication still guarantees with it.

---------------------------- MODULE DatabaseBackup ----------------------------
(***************************************************************************)
(* One call of PostgreSQLBackupProvider.backup or of                       *)
(* MariaDBBackupProvider.backup: the dumps a target asks for, each tried   *)
(* in the target's container through Docker exec, with the local client,   *)
(* or with the one after the other, and the files every attempt leaves in  *)
(* the provider's directory of the run.  The agent may be killed between   *)
(* any two steps.                                                          *)
(*                                                                         *)
(* A file is its contents' subject, whether the contents are complete and  *)
(* which of the two methods wrote them; commands, sizes and messages are   *)
(* left out.                                                               *)
(***************************************************************************)
EXTENDS Naturals, Sequences

CONSTANTS
  Database,          \* the names a target may list
  SafeName,          \* the file name _safe_name makes of a subject of a dump
  MaxDatabases       \* bound: databases a target lists

AllDatabases == "all databases"
SeveralDatabases == "several databases"
Subject == Database \cup {AllDatabases, SeveralDatabases}

ASSUME DatabaseAssumption == {AllDatabases, SeveralDatabases} \cap Database = {}
ASSUME SafeNameAssumption == DOMAIN SafeName = Subject
ASSUME MaxDatabasesAssumption == MaxDatabases \in Nat

-------------------------------------------------------------------------------
(***************************************************************************)
(* What a target asks for.                                                 *)
(***************************************************************************)

DumpMethod == {"auto", "exec", "local"}
Engine == {"postgresql", "mariadb"}

\* databases is empty when all databases are to be dumped; a dump_format label
\* that names no format is "unsupported"; valid says that validate accepts the
\* target; client, that the provider was given a Docker client; exit_code, that
\* Docker has recorded the exit code of an exec by the time it is inspected.
Target == [db_type : Engine,
           databases : UNION {[1..n -> Database] : n \in 0..MaxDatabases},
           dump_method : DumpMethod,
           dump_format : {"", "binary", "sql_gzip", "both", "unsupported"},
           valid : BOOLEAN,
           client : BOOLEAN,
           exit_code : BOOLEAN]

\* The dumps that may be made for a target.
Format(t) == IF t.db_type = "postgresql" THEN {"binary", "sql_gzip"} ELSE {"sql"}
Job(t) == [subject : Subject, format : Format(t)]

\* _resolve_dump_formats; none is an error.
RequestedFormats(t) ==
  CASE t.databases = <<>> /\ t.dump_format \in {"", "sql_gzip"} -> <<"sql_gzip">>
    [] t.databases # <<>> /\ t.dump_format \in {"", "both"} -> <<"binary", "sql_gzip">>
    [] t.databases # <<>> /\ t.dump_format \in {"binary", "sql_gzip"} -> <<t.dump_format>>
    [] OTHER -> <<>>

\* Mutant of MariaDBJobs: only the first of several databases is dumped.
MariaDBFirstJob(t) ==
  << [subject |-> IF t.databases = <<>> THEN AllDatabases ELSE t.databases[1],
      format |-> "sql"] >>

\* MariaDB dumps everything a target asks for into one file.
MariaDBJobs(t) ==
  << [subject |-> CASE t.databases = <<>> -> AllDatabases
                    [] Len(t.databases) = 1 -> t.databases[1]
                    [] OTHER -> SeveralDatabases,
      format |-> "sql"] >>

\* PostgreSQL dumps each database in each format, database by database.
PostgreSQLJobs(t) ==
  LET subjects == IF t.databases = <<>> THEN <<AllDatabases>> ELSE t.databases
      formats == RequestedFormats(t)
      n == Len(formats)
  IN  [i \in 1..(Len(subjects) * n) |->
         [subject |-> subjects[((i - 1) \div n) + 1],
          format |-> formats[((i - 1) % n) + 1]]]

Jobs(t) == IF t.db_type = "postgresql" THEN PostgreSQLJobs(t) ELSE MariaDBJobs(t)

\* The file a dump is written to, the file an artifact names, and the file that
\* stands for either while it is being written.
Path == [name : {SafeName[s] : s \in Subject}, ext : {".dump", ".sql", ".sql.gz"},
         temporary : BOOLEAN]
FileOf(j, ext) == [name |-> SafeName[j.subject], ext |-> ext, temporary |-> FALSE]
OutputPath(j) == FileOf(j, IF j.format = "binary" THEN ".dump" ELSE ".sql")
FinalPath(j) == IF j.format = "sql_gzip" THEN FileOf(j, ".sql.gz") ELSE OutputPath(j)
TemporaryPath(p) == [p EXCEPT !.temporary = TRUE]

Absent == [subject |-> "none", complete |-> FALSE, by |-> "none"]
Contents == [subject : Subject \cup {"none"}, complete : BOOLEAN, by : {"exec", "local", "none"}]
Dump(j, complete, by) == [subject |-> j.subject, complete |-> complete, by |-> by]

-------------------------------------------------------------------------------
VARIABLES
  target,       \* the BackupTarget
  jobs,         \* the dumps backup makes for it, in order
  pc,           \* where backup stands
  job,          \* the dump it is making; 0 before the first
  files,        \* the provider's directory
  credentials,  \* does MariaDB's defaults file exist?
  artifacts,    \* the jobs an artifact was made for
  errors,       \* a job and the step that failed, for every BackupProviderError
  status        \* of the BackupProviderResult, once it is returned

vars == <<target, jobs, pc, job, files, credentials, artifacts, errors, status>>

Over == {"returned", "raised", "killed"}
Error == [job : Nat, step : {"format", "exec", "local", "gzip"}]

TypeOK ==
  /\ target \in Target
  /\ jobs \in Seq(Job(target))
  /\ pc \in {"start", "remote", "exec", "local", "dumping", "compress", "compressing"} \cup Over
  /\ job \in 0..Len(jobs)
  /\ files \in [Path -> Contents]
  /\ credentials \in BOOLEAN
  /\ artifacts \in SUBSET (1..Len(jobs))
  /\ errors \in SUBSET Error
  /\ status \in {"none", "success", "partial", "failed"}

Init ==
  /\ target \in Target
  /\ jobs = Jobs(target)
  /\ pc = "start"
  /\ job = 0
  /\ files = [p \in Path |-> Absent]
  /\ credentials = FALSE
  /\ artifacts = {}
  /\ errors = {}
  /\ status = "none"

-------------------------------------------------------------------------------
Current == jobs[job]
ExitCodeRecorded == target.exit_code

Written(p, contents) == [files EXCEPT ![p] = contents]
Unlinked(p) == Written(p, Absent)

\* _result_status
ResultStatus(arts, errs) ==
  CASE arts # {} /\ errs # {} -> "partial"
    [] arts # {} /\ errs = {} -> "success"
    [] OTHER -> "failed"

FirstAttempt == IF target.dump_method = "local" THEN "local" ELSE "remote"

\* Mutant of Return: the defaults file stays.
ReturnKeepingDefaults(arts, errs) ==
  /\ pc' = "returned"
  /\ status' = ResultStatus(arts, errs)
  /\ UNCHANGED <<job, credentials>>

\* The result is returned; MariaDB's finally removes the defaults file.
Return(arts, errs) ==
  /\ pc' = "returned"
  /\ status' = ResultStatus(arts, errs)
  /\ credentials' = FALSE
  /\ UNCHANGED job

\* Mutant of Settle: the loop runs once too often.
SettlePastTheEnd(arts, errs) ==
  /\ artifacts' = arts
  /\ errors' = errs
  /\ UNCHANGED <<target, jobs>>
  /\ IF job <= Len(jobs)
       THEN /\ job' = job + 1
            /\ pc' = FirstAttempt
            /\ UNCHANGED <<credentials, status>>
       ELSE Return(arts, errs)

\* The current dump is over: its artifact and errors join those of the call, and
\* the loops of backup reach the next one.
Settle(arts, errs) ==
  /\ artifacts' = arts
  /\ errors' = errs
  /\ UNCHANGED <<target, jobs>>
  /\ IF job < Len(jobs)
       THEN /\ job' = job + 1
            /\ pc' = FirstAttempt
            /\ UNCHANGED <<credentials, status>>
       ELSE Return(arts, errs)

\* Within the current dump, backup goes on with step.
Continue(step, errs) ==
  /\ pc' = step
  /\ errors' = errs
  /\ UNCHANGED <<target, jobs, job, credentials, artifacts, status>>

\* An exception leaves backup, through MariaDB's finally.
Raise ==
  /\ pc' = "raised"
  /\ credentials' = FALSE
  /\ UNCHANGED <<target, jobs, job, artifacts, errors, status>>

\* _run_with_strategy and _backup_with_strategy return no artifact, with fs on
\* the disk: for a compressed dump the caller removes the plain file.
NoArtifact(fs, errs) ==
  /\ files' = IF Current.format = "sql_gzip"
                THEN [fs EXCEPT ![OutputPath(Current)] = Absent] ELSE fs
  /\ Settle(artifacts, errs)

\* They return one: a compressed dump has still to be compressed.
HasArtifact ==
  IF Current.format = "sql_gzip" THEN Continue("compress", errors)
                                 ELSE Settle(artifacts \cup {job}, errors)

Failed(step) == errors \cup {[job |-> job, step |-> step]}

\* Mutant of RemoteFailed: exec falls back too.
RemoteFailedFallback(fs) ==
  /\ files' = fs
  /\ Continue("local", Failed("exec"))

\* The remote attempt failed, with fs on the disk: auto goes on locally.
RemoteFailed(fs) ==
  IF target.dump_method = "exec"
    THEN NoArtifact(fs, Failed("exec"))
    ELSE /\ files' = fs
         /\ Continue("local", Failed("exec"))

-------------------------------------------------------------------------------
(***************************************************************************)
(* The steps of backup.                                                    *)
(***************************************************************************)

\* validate raises, or the directory cannot be made.
Reject ==
  /\ pc = "start"
  /\ Raise
  /\ UNCHANGED files

\* The label asks for a format that cannot be had.
RejectFormat ==
  /\ pc = "start"
  /\ target.valid
  /\ jobs = <<>>
  /\ errors' = {[job |-> 0, step |-> "format"]}
  /\ Return({}, errors')
  /\ UNCHANGED <<target, jobs, files, artifacts>>

\* The directory is made and MariaDB's defaults file is written.
Start ==
  /\ pc = "start"
  /\ target.valid
  /\ jobs # <<>>
  /\ job' = 1
  /\ pc' = FirstAttempt
  /\ credentials' = (target.db_type = "mariadb")
  /\ UNCHANGED <<target, jobs, files, artifacts, errors, status>>

\* The defaults file is made but cannot be written, outside the try that
\* removes it.
DefaultsFileUnwritten ==
  /\ pc = "start"
  /\ target.valid
  /\ target.db_type = "mariadb"
  /\ pc' = "raised"
  /\ credentials' = TRUE
  /\ UNCHANGED <<target, jobs, job, files, artifacts, errors, status>>

\* _run_remote_dump without a Docker client.
RemoteUnavailable ==
  /\ pc = "remote"
  /\ ~target.client
  /\ RemoteFailed(files)

\* The temporary file is opened and the command started in the container.
StartExec ==
  /\ pc = "remote"
  /\ target.client
  /\ files' = Written(TemporaryPath(OutputPath(Current)), Dump(Current, FALSE, "exec"))
  /\ Continue("exec", errors)

\* The exit code is 0, or taken for 0 because there is none yet; the temporary
\* file replaces the output.
ExecSucceeds ==
  /\ pc = "exec"
  /\ \E complete \in {TRUE, ExitCodeRecorded} :
       files' = [Unlinked(TemporaryPath(OutputPath(Current))) EXCEPT
                   ![OutputPath(Current)] = Dump(Current, complete, "exec")]
  /\ HasArtifact

\* The exit code is not 0, or the Docker socket fails.
ExecFails ==
  /\ pc = "exec"
  /\ RemoteFailed(Unlinked(TemporaryPath(OutputPath(Current))))

\* Any other exception: the connection breaks while the stream is read, or the
\* temporary file cannot be opened or written.
ExecRaises ==
  /\ pc \in {"remote", "exec"}
  /\ target.client
  /\ files' = Unlinked(TemporaryPath(OutputPath(Current)))
  /\ Raise

\* The local client opens the output file itself.
StartLocal ==
  /\ pc = "local"
  /\ files' = Written(OutputPath(Current), Dump(Current, FALSE, "local"))
  /\ Continue("dumping", errors)

LocalSucceeds ==
  /\ pc = "dumping"
  /\ files' = Written(OutputPath(Current), Dump(Current, TRUE, "local"))
  /\ HasArtifact

\* Mutant of LocalFails: the exit code is not looked at.
LocalFailsUnnoticed ==
  /\ pc \in {"local", "dumping"}
  /\ UNCHANGED files
  /\ HasArtifact

\* The exit code is not 0, before or after the output file was opened.
LocalFails ==
  /\ pc \in {"local", "dumping"}
  /\ NoArtifact(files, Failed("local"))

\* The client cannot be started, or what it printed cannot be decoded.
LocalRaises ==
  /\ pc \in {"local", "dumping"}
  /\ Raise
  /\ UNCHANGED files

\* _gzip_file opens its temporary file.
StartCompression ==
  /\ pc = "compress"
  /\ files' = Written(TemporaryPath(FinalPath(Current)),
                      [files[OutputPath(Current)] EXCEPT !.complete = FALSE])
  /\ Continue("compressing", errors)

\* The compressed file replaces the final one; the plain file is removed.
CompressionSucceeds ==
  /\ pc = "compressing"
  /\ files' = [p \in Path |->
                 CASE p = FinalPath(Current) -> files[OutputPath(Current)]
                   [] p \in {TemporaryPath(FinalPath(Current)), OutputPath(Current)} -> Absent
                   [] OTHER -> files[p]]
  /\ Settle(artifacts \cup {job}, errors)

\* Mutant of CompressionFails: the plain file stays.
CompressionFailsUncleaned ==
  /\ pc \in {"compress", "compressing"}
  /\ files' = Unlinked(TemporaryPath(FinalPath(Current)))
  /\ Settle(artifacts, Failed("gzip"))

\* An OSError of _gzip_file.
CompressionFails ==
  /\ pc \in {"compress", "compressing"}
  /\ NoArtifact(Unlinked(TemporaryPath(FinalPath(Current))), Failed("gzip"))

\* The agent is killed, or the host goes down.
Killed ==
  /\ pc \notin Over
  /\ pc' = "killed"
  /\ UNCHANGED <<target, jobs, job, files, credentials, artifacts, errors, status>>

Next ==
  \/ Reject \/ RejectFormat \/ Start \/ DefaultsFileUnwritten
  \/ RemoteUnavailable \/ StartExec \/ ExecSucceeds \/ ExecFails \/ ExecRaises
  \/ StartLocal \/ LocalSucceeds \/ LocalFails \/ LocalRaises
  \/ StartCompression \/ CompressionSucceeds \/ CompressionFails
  \/ Killed

Spec == Init /\ [][Next]_vars

-------------------------------------------------------------------------------
(***************************************************************************)
(* Properties.                                                             *)
(***************************************************************************)

\* No two dumps the target asks for are given one file: no database is listed
\* twice, and _safe_name keeps those listed apart.
FilesAreDistinct ==
  \A i, k \in 1..Len(jobs) : i # k => FinalPath(jobs[i]) # FinalPath(jobs[k])

HoldsDumpOf(contents, j) == contents.subject = j.subject /\ contents.complete

\* From the moment an artifact is listed, its file holds the complete dump of its
\* database, whatever the later dumps of the same call do: as long as no two
\* dumps share a file, and Docker has an exit code by the time it is asked.
ArtifactsHoldTheirDump ==
  FilesAreDistinct /\ ExitCodeRecorded =>
    \A i \in artifacts : HoldsDumpOf(files[FinalPath(jobs[i])], jobs[i])

\* No temporary file survives the call, returned or raised, and no uncompressed
\* dump a returned one: the orchestrator publishes whatever is left in the
\* directory of the run.
NothingInFlightIsLeft ==
  \A p \in Path : files[p] # Absent =>
    /\ pc \in {"returned", "raised"} => ~p.temporary
    /\ pc = "returned" /\ target.db_type = "postgresql" => p.ext # ".sql"

\* When the call returns, every dump the target asked for has an artifact or an
\* error, and the status is the one the two lists call for: "success" only if
\* every database has its artifact and no attempt failed.
Requested ==
  IF target.databases = <<>>
    THEN {AllDatabases} ELSE {target.databases[i] : i \in 1..Len(target.databases)}
Covered(subject) == IF subject = SeveralDatabases THEN Requested ELSE {subject}
EveryDumpIsAccountedFor ==
  pc = "returned" =>
    /\ \A i \in 1..Len(jobs) : i \in artifacts \/ \E e \in errors : e.job = i
    /\ status = "success" =>
         errors = {} /\ Requested = UNION {Covered(jobs[i].subject) : i \in artifacts}
    /\ status = "partial" => artifacts # {} /\ errors # {}
    /\ status = "failed" => artifacts = {} /\ errors # {}

\* exec and local are kept to: no file is written by the other method, not even
\* after a failure.
MethodIsKeptTo ==
  target.dump_method # "auto" =>
    \A p \in Path : files[p] # Absent => files[p].by = target.dump_method

\* The defaults file, which holds the password, does not outlive the call, unless
\* the process was killed or the file itself could not be written.
DefaultsFileIsRemoved ==
  pc \in {"returned", "raised"} /\ job > 0 => ~credentials

\* The inductive invariant behind the properties above: artifacts are made for
\* earlier dumps only; a dump to be compressed is complete; a temporary file, or
\* PostgreSQL's uncompressed one, belongs to the dump and the step backup is at.
Running == pc \notin Over \cup {"start"}
ProgressInv ==
  /\ pc = "start" => job = 0 /\ artifacts = {}
  /\ Running => job \in 1..Len(jobs) /\ artifacts \subseteq 1..(job - 1)
  /\ pc \in {"compress", "compressing"} => Current.format = "sql_gzip"
ArtifactsInv ==
  FilesAreDistinct /\ ExitCodeRecorded =>
    /\ \A i \in artifacts : HoldsDumpOf(files[FinalPath(jobs[i])], jobs[i])
    /\ pc \in {"compress", "compressing"} => HoldsDumpOf(files[OutputPath(Current)], Current)
FilesInv ==
  \A p \in Path : files[p] # Absent =>
    /\ p.temporary =>
         \/ pc = "exec" /\ p = TemporaryPath(OutputPath(Current))
         \/ pc = "compressing" /\ p = TemporaryPath(FinalPath(Current))
         \/ pc = "killed"
    /\ target.db_type = "postgresql" /\ p.ext = ".sql" /\ ~p.temporary =>
         \/ pc \in {"dumping", "compress", "compressing"} /\ p = OutputPath(Current)
         \/ pc \in {"raised", "killed"}
BackupInv == ProgressInv /\ ArtifactsInv /\ FilesInv

===============================================================================

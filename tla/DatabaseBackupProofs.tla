------------------------- MODULE DatabaseBackupProofs -------------------------
(***************************************************************************)
(* Theorems about a call of a database provider, for either engine, every  *)
(* list of databases and every way of making file names of them.           *)
(***************************************************************************)
EXTENDS DatabaseBackup, SequenceTheorems, TLAPS

-------------------------------------------------------------------------------
(***************************************************************************)
(* Facts about jobs, paths and contents.                                   *)
(***************************************************************************)

\* The k-th of n formats for the m-th subject: division stays in range.
LEMMA DivisionFacts ==
  ASSUME NEW L \in Nat, NEW n \in {1, 2}, NEW i \in 1..(L * n)
  PROVE  /\ ((i - 1) \div n) + 1 \in 1..L
         /\ ((i - 1) % n) + 1 \in 1..n
<1>1. CASE n = 1
  BY <1>1
<1>2. CASE n = 2
  BY <1>2
<1> QED
  BY <1>1, <1>2

LEMMA RequestedFormatsType ==
  ASSUME NEW t \in Target, t.db_type = "postgresql"
  PROVE  /\ RequestedFormats(t) \in Seq(Format(t))
         /\ Len(RequestedFormats(t)) \in 0..2
<1>1. /\ <<"sql_gzip">> \in Seq(Format(t)) /\ Len(<<"sql_gzip">>) = 1
      /\ <<"binary", "sql_gzip">> \in Seq(Format(t)) /\ Len(<<"binary", "sql_gzip">>) = 2
      /\ <<"binary">> \in Seq(Format(t)) /\ Len(<<"binary">>) = 1
      /\ << >> \in Seq(Format(t)) /\ Len(<< >>) = 0
      /\ {0, 1, 2} \subseteq 0..2
  BY DEF Format
<1>2. t.dump_format = "binary" => <<t.dump_format>> = <<"binary">>
  OBVIOUS
<1>3. t.dump_format = "sql_gzip" => <<t.dump_format>> = <<"sql_gzip">>
  OBVIOUS
<1>4. RequestedFormats(t) \in {<<"sql_gzip">>, <<"binary", "sql_gzip">>, <<"binary">>, << >>}
  BY <1>2, <1>3 DEF RequestedFormats
<1> DEFINE f == RequestedFormats(t)
<1>5. f \in Seq(Format(t)) /\ Len(f) \in 0..2
  <2>1. CASE f = <<"sql_gzip">>
    BY <1>1, <2>1
  <2>2. CASE f = <<"binary", "sql_gzip">>
    BY <1>1, <2>2
  <2>3. CASE f = <<"binary">>
    BY <1>1, <2>3
  <2>4. CASE f = << >>
    BY <1>1, <2>4
  <2> HIDE DEF f
  <2> QED
    BY <1>4, <2>1, <2>2, <2>3, <2>4 DEF f
<1> QED
  BY <1>5

LEMMA TargetFacts ==
  ASSUME NEW t \in Target
  PROVE  t.databases \in Seq(Database)
<1>1. PICK n \in 0..MaxDatabases : t.databases \in [1..n -> Database]
  BY DEF Target
<1> QED
  BY <1>1, MaxDatabasesAssumption, IsASeq

LEMMA JobsType ==
  ASSUME NEW t \in Target
  PROVE  Jobs(t) \in Seq(Job(t))
<1>1. CASE t.db_type = "postgresql"
  <2> DEFINE subjects == IF t.databases = <<>> THEN <<AllDatabases>> ELSE t.databases
             formats == RequestedFormats(t)
             n == Len(formats)
             F(i) == [subject |-> subjects[((i - 1) \div n) + 1],
                      format |-> formats[((i - 1) % n) + 1]]
  <2>1. subjects \in Seq(Subject) /\ Len(subjects) \in Nat
    <3>1. CASE t.databases = <<>>
      <4>1. <<AllDatabases>> \in Seq(Subject) /\ Len(<<AllDatabases>>) = 1
        BY DEF Subject
      <4> QED
        BY <3>1, <4>1
    <3>2. CASE t.databases # <<>>
      <4>1. t.databases \in Seq(Database)
        BY TargetFacts
      <4>2. t.databases \in Seq(Subject) /\ Len(t.databases) \in Nat
        BY <4>1 DEF Subject
      <4> QED
        BY <3>2, <4>2
    <3> QED
      BY <3>1, <3>2
  <2>2. formats \in Seq(Format(t)) /\ n \in 0..2
    BY <1>1, RequestedFormatsType
  <2>3. ASSUME NEW i \in 1..(Len(subjects) * n)
        PROVE  F(i) \in Job(t)
    <3> HIDE DEF subjects, formats
    <3>1. n \in {1, 2}
      BY <2>1, <2>2
    <3>2. ((i - 1) \div n) + 1 \in 1..Len(subjects) /\ ((i - 1) % n) + 1 \in 1..n
      BY <2>1, <3>1, DivisionFacts
    <3>3. subjects[((i - 1) \div n) + 1] \in Subject /\ formats[((i - 1) % n) + 1] \in Format(t)
      BY <2>1, <2>2, <3>2
    <3> QED
      BY <3>3 DEF Job
  <2>4. Jobs(t) = [i \in 1..(Len(subjects) * n) |-> F(i)]
    BY <1>1 DEF Jobs, PostgreSQLJobs
  <2>5. Len(subjects) * n \in Nat
    <3> HIDE DEF subjects, formats
    <3> QED BY <2>1, <2>2
  <2> HIDE DEF subjects, n, F
  <2> QED
    BY <2>3, <2>4, <2>5, IsASeq
<1>2. CASE t.db_type # "postgresql"
  <2>1. t.databases \in Seq(Database)
    BY TargetFacts
  <2> DEFINE s == CASE t.databases = <<>> -> AllDatabases
                    [] Len(t.databases) = 1 -> t.databases[1]
                    [] OTHER -> SeveralDatabases
  <2>2. s \in Subject
    BY <2>1 DEF Subject
  <2>3. [subject |-> s, format |-> "sql"] \in Job(t)
    BY <1>2, <2>2 DEF Job, Format
  <2>4. Jobs(t) = << [subject |-> s, format |-> "sql"] >>
    BY <1>2 DEF Jobs, MariaDBJobs
  <2> HIDE DEF s
  <2> QED
    BY <2>3, <2>4
<1> QED
  BY <1>1, <1>2

\* Where the files of a dump are.
LEMMA PathFacts ==
  ASSUME NEW j \in Job(target)
  PROVE  /\ OutputPath(j) \in Path /\ ~OutputPath(j).temporary
         /\ FinalPath(j) \in Path /\ ~FinalPath(j).temporary
         /\ TemporaryPath(OutputPath(j)) \in Path /\ TemporaryPath(OutputPath(j)).temporary
         /\ TemporaryPath(FinalPath(j)) \in Path /\ TemporaryPath(FinalPath(j)).temporary
BY DEF Job, Path, OutputPath, FinalPath, FileOf, TemporaryPath

\* An uncompressed dump is never the file of an artifact of PostgreSQL.
LEMMA PlainFacts ==
  ASSUME NEW j \in Job(target)
  PROVE  /\ j.format = "sql_gzip" =>
              /\ OutputPath(j).ext = ".sql"
              /\ FinalPath(j).ext = ".sql.gz"
              /\ \A k \in Job(target) : OutputPath(j) # FinalPath(k)
         /\ j.format # "sql_gzip" => OutputPath(j) = FinalPath(j)
         /\ target.db_type = "postgresql" => FinalPath(j).ext # ".sql"
BY DEF Job, Format, OutputPath, FinalPath, FileOf

LEMMA ContentsFacts ==
  ASSUME NEW j \in Job(target), NEW complete \in BOOLEAN, NEW by \in {"exec", "local"}
  PROVE  /\ Dump(j, complete, by) \in Contents
         /\ Dump(j, complete, by) # Absent
         /\ HoldsDumpOf(Dump(j, TRUE, by), j)
         /\ Absent \in Contents
BY DEF Job, Contents, Dump, Absent, HoldsDumpOf

-------------------------------------------------------------------------------
(***************************************************************************)
(* The three ways in which a step ends: the current dump is settled,       *)
(* backup goes on with it, or the call is over.                            *)
(***************************************************************************)

IInv == TypeOK /\ BackupInv

CurrentPaths ==
  {OutputPath(Current), FinalPath(Current),
   TemporaryPath(OutputPath(Current)), TemporaryPath(FinalPath(Current))}

\* A step of a dump writes no file but those of this dump.
WritesItsOwn ==
  /\ files' \in [Path -> Contents]
  /\ \A p \in Path \ CurrentPaths : files'[p] = files[p]

Plain(p) == target.db_type = "postgresql" /\ p.ext = ".sql" /\ ~p.temporary

\* What the invariant knows about the dump backup is at.
LEMMA CurrentFacts ==
  ASSUME TypeOK, ProgressInv, Running
  PROVE  /\ job \in 1..Len(jobs)
         /\ Current \in Job(target)
         /\ CurrentPaths \subseteq Path
         /\ artifacts \cup {job} \subseteq 1..job
         /\ \A i \in artifacts : i \in 1..Len(jobs) /\ jobs[i] \in Job(target) /\ i # job
<1>1. job \in 1..Len(jobs) /\ artifacts \subseteq 1..(job - 1)
  BY DEF ProgressInv
<1>2. Current \in Job(target)
  BY <1>1 DEF TypeOK, Current
<1>3. CurrentPaths \subseteq Path
  BY <1>2, PathFacts DEF CurrentPaths
<1>4. Len(jobs) \in Nat
  BY DEF TypeOK
<1>5. artifacts \cup {job} \subseteq 1..job
  BY <1>1, <1>4
<1>6. ASSUME NEW i \in artifacts
      PROVE  i \in 1..Len(jobs) /\ jobs[i] \in Job(target) /\ i # job
  BY <1>1, <1>4 DEF TypeOK
<1> QED
  BY <1>1, <1>2, <1>3, <1>5, <1>6

\* The files of earlier artifacts are not among those of the current dump.
LEMMA EarlierFiles ==
  ASSUME TypeOK, ProgressInv, Running, FilesAreDistinct, NEW i \in artifacts
  PROVE  FinalPath(jobs[i]) \in Path \ CurrentPaths
<1>1. /\ i \in 1..Len(jobs) /\ jobs[i] \in Job(target) /\ i # job
      /\ job \in 1..Len(jobs) /\ Current \in Job(target)
  BY CurrentFacts
<1>2. FinalPath(jobs[i]) \in Path /\ ~FinalPath(jobs[i]).temporary
  BY <1>1, PathFacts
<1>3. FinalPath(jobs[i]) # FinalPath(Current)
  BY <1>1 DEF FilesAreDistinct, Current
<1>4. FinalPath(jobs[i]) # OutputPath(Current)
  BY <1>1, <1>3, PlainFacts
<1>5. /\ FinalPath(jobs[i]) # TemporaryPath(OutputPath(Current))
      /\ FinalPath(jobs[i]) # TemporaryPath(FinalPath(Current))
  BY <1>1, <1>2, PathFacts
<1> QED
  BY <1>2, <1>3, <1>4, <1>5 DEF CurrentPaths

\* Before a step, the files other than those of the current dump are not
\* temporary, and none is an uncompressed dump of PostgreSQL.
LEMMA OtherFiles ==
  ASSUME FilesInv, Running, NEW p \in Path \ CurrentPaths, files[p] # Absent
  PROVE  ~p.temporary /\ ~Plain(p)
BY DEF FilesInv, Running, Over, CurrentPaths, Plain

\* A dump is settled: its artifact holds it, and nothing of it is in flight.
LEMMA SettleStep ==
  ASSUME IInv, Running, WritesItsOwn,
         NEW arts, NEW errs \in SUBSET Error,
         Settle(arts, errs),
         \/ arts = artifacts
         \/ /\ arts = artifacts \cup {job}
            /\ FilesAreDistinct /\ ExitCodeRecorded =>
                 HoldsDumpOf(files'[FinalPath(Current)], Current),
         \A p \in CurrentPaths : files'[p] # Absent => ~p.temporary /\ ~Plain(p)
  PROVE  IInv'
<1> USE DEF IInv, BackupInv
<1>1. /\ job \in 1..Len(jobs) /\ Current \in Job(target)
      /\ artifacts \cup {job} \subseteq 1..job
      /\ \A i \in artifacts : i \in 1..Len(jobs) /\ jobs[i] \in Job(target) /\ i # job
      /\ Len(jobs) \in Nat
  BY CurrentFacts DEF TypeOK
<1>2. /\ artifacts' = arts /\ errors' = errs /\ target' = target /\ jobs' = jobs
      /\ arts \subseteq 1..job
  BY <1>1 DEF Settle
<1>3. \/ /\ job < Len(jobs) /\ job' = job + 1 /\ pc' \in {"local", "remote"}
         /\ credentials' = credentials /\ status' = status
      \/ /\ job' = job /\ pc' = "returned" /\ credentials' = FALSE
         /\ status' \in {"success", "partial", "failed"}
  BY DEF Settle, Return, FirstAttempt, ResultStatus
<1>4. TypeOK'
  <2>1. job' \in 0..Len(jobs)
    BY <1>1, <1>3
  <2>2. arts \in SUBSET (1..Len(jobs))
    BY <1>1, <1>2
  <2>3. pc' \in {"remote", "local", "returned"} /\ status' \in {"none", "success", "partial", "failed"}
    BY <1>3 DEF TypeOK
  <2>4. credentials' \in BOOLEAN
    BY <1>3 DEF TypeOK
  <2> QED
    BY <1>2, <2>1, <2>2, <2>3, <2>4 DEF TypeOK, WritesItsOwn, Over
<1>5. ProgressInv'
  BY <1>1, <1>2, <1>3 DEF ProgressInv, Running, Over
<1>6. ArtifactsInv'
  <2>1. SUFFICES ASSUME FilesAreDistinct, ExitCodeRecorded
                 PROVE  \A i \in arts : HoldsDumpOf(files'[FinalPath(jobs[i])], jobs[i])
    BY <1>2, <1>3 DEF ArtifactsInv, FilesAreDistinct, ExitCodeRecorded
  <2>2. ASSUME NEW i \in artifacts
        PROVE  HoldsDumpOf(files'[FinalPath(jobs[i])], jobs[i])
    <3>1. files'[FinalPath(jobs[i])] = files[FinalPath(jobs[i])]
      BY <2>1, EarlierFiles DEF WritesItsOwn
    <3> QED
      BY <2>1, <3>1 DEF ArtifactsInv
  <2>3. CASE arts = artifacts
    BY <2>2, <2>3
  <2>4. CASE arts # artifacts
    BY <2>1, <2>2, <2>4 DEF Current
  <2> QED
    BY <2>3, <2>4
<1>7. FilesInv'
  <2>1. ASSUME NEW p \in Path, files'[p] # Absent
        PROVE  ~p.temporary /\ ~Plain(p)
    BY <2>1, OtherFiles DEF WritesItsOwn
  <2> QED
    BY <1>2, <2>1 DEF FilesInv, Plain
<1> QED
  BY <1>4, <1>5, <1>6, <1>7

\* backup goes on with the dump at another step.
LEMMA ContinueStep ==
  ASSUME IInv, Running, WritesItsOwn,
         NEW errs \in SUBSET Error,
         NEW step \in {"exec", "local", "dumping", "compress", "compressing"},
         Continue(step, errs),
         step \in {"compress", "compressing"} =>
           /\ Current.format = "sql_gzip"
           /\ FilesAreDistinct /\ ExitCodeRecorded =>
                HoldsDumpOf(files'[OutputPath(Current)], Current),
         \A p \in CurrentPaths : files'[p] # Absent =>
           /\ p.temporary => \/ step = "exec" /\ p = TemporaryPath(OutputPath(Current))
                             \/ step = "compressing" /\ p = TemporaryPath(FinalPath(Current))
           /\ Plain(p) => step \in {"dumping", "compress", "compressing"} /\ p = OutputPath(Current)
  PROVE  IInv'
<1> USE DEF IInv, BackupInv
<1>1. /\ pc' = step /\ errors' = errs
      /\ UNCHANGED <<target, jobs, job, credentials, artifacts, status>>
      /\ Current' = Current
  BY DEF Continue, Current
<1>2. TypeOK'
  BY <1>1 DEF TypeOK, WritesItsOwn
<1>3. ProgressInv'
  BY <1>1 DEF ProgressInv, Running, Over
<1>4. ArtifactsInv'
  <2>1. SUFFICES ASSUME FilesAreDistinct, ExitCodeRecorded
                 PROVE  /\ \A i \in artifacts : HoldsDumpOf(files'[FinalPath(jobs[i])], jobs[i])
                        /\ step \in {"compress", "compressing"} =>
                             HoldsDumpOf(files'[OutputPath(Current)], Current)
    BY <1>1 DEF ArtifactsInv, FilesAreDistinct, ExitCodeRecorded
  <2>2. ASSUME NEW i \in artifacts
        PROVE  HoldsDumpOf(files'[FinalPath(jobs[i])], jobs[i])
    <3>1. files'[FinalPath(jobs[i])] = files[FinalPath(jobs[i])]
      BY <2>1, EarlierFiles DEF WritesItsOwn
    <3> QED
      BY <2>1, <3>1 DEF ArtifactsInv
  <2> QED
    BY <2>1, <2>2
<1>5. FilesInv'
  <2>1. ASSUME NEW p \in Path, files'[p] # Absent
        PROVE  /\ p.temporary => \/ step = "exec" /\ p = TemporaryPath(OutputPath(Current))
                                 \/ step = "compressing" /\ p = TemporaryPath(FinalPath(Current))
               /\ Plain(p) => step \in {"dumping", "compress", "compressing"} /\ p = OutputPath(Current)
    BY <2>1, OtherFiles DEF WritesItsOwn
  <2> QED
    BY <1>1, <2>1 DEF FilesInv, Plain
<1> QED
  BY <1>2, <1>3, <1>4, <1>5

\* The call is over without a result; the files of artifacts are as they were.
LEMMA EndStep ==
  ASSUME IInv, pc' \in {"raised", "killed"},
         credentials' \in BOOLEAN, files' \in [Path -> Contents],
         UNCHANGED <<target, jobs, job, artifacts, errors, status>>,
         FilesAreDistinct => \A i \in artifacts :
           files'[FinalPath(jobs[i])] = files[FinalPath(jobs[i])],
         pc' = "raised" => \A p \in Path : files'[p] # Absent => ~p.temporary
  PROVE  IInv'
<1> USE DEF IInv, BackupInv
<1>1. TypeOK'
  BY DEF TypeOK, Over
<1>2. ProgressInv'
  BY DEF ProgressInv, Running, Over
<1>3. ArtifactsInv'
  BY DEF ArtifactsInv, FilesAreDistinct, ExitCodeRecorded
<1>4. FilesInv'
  BY DEF FilesInv
<1> QED
  BY <1>1, <1>2, <1>3, <1>4

-------------------------------------------------------------------------------
(***************************************************************************)
(* What the strategy returns.                                              *)
(***************************************************************************)

LEMMA FailedType ==
  ASSUME IInv, Running, NEW step \in {"exec", "local", "gzip"}
  PROVE  Failed(step) \in SUBSET Error
<1>1. job \in Nat
  BY CurrentFacts DEF IInv, BackupInv, TypeOK
<1>2. [job |-> job, step |-> step] \in Error
  BY <1>1 DEF Error
<1> QED
  BY <1>2 DEF Failed, IInv, TypeOK

\* A dump without an artifact leaves nothing in flight.
LEMMA NoArtifactStep ==
  ASSUME IInv, Running,
         NEW fs \in [Path -> Contents], NEW errs \in SUBSET Error,
         \A p \in Path \ CurrentPaths : fs[p] = files[p],
         \A p \in CurrentPaths : fs[p] # Absent =>
           ~p.temporary /\ (Plain(p) => p = OutputPath(Current)),
         NoArtifact(fs, errs)
  PROVE  IInv'
<1>1. Current \in Job(target) /\ OutputPath(Current) \in CurrentPaths /\ CurrentPaths \subseteq Path
  BY CurrentFacts DEF IInv, BackupInv, CurrentPaths
<1>2. Settle(artifacts, errs)
  BY DEF NoArtifact
<1>3. CASE Current.format = "sql_gzip"
  <2>1. files' = [fs EXCEPT ![OutputPath(Current)] = Absent]
    BY <1>3 DEF NoArtifact
  <2>2. WritesItsOwn
    BY <1>1, <2>1, ContentsFacts DEF WritesItsOwn
  <2>3. \A p \in CurrentPaths : files'[p] # Absent => ~p.temporary /\ ~Plain(p)
    BY <1>1, <2>1
  <2> QED
    BY <1>2, <2>2, <2>3, SettleStep
<1>4. CASE Current.format # "sql_gzip"
  <2>1. files' = fs
    BY <1>4 DEF NoArtifact
  <2>2. WritesItsOwn
    BY <2>1 DEF WritesItsOwn
  <2>3. ~Plain(OutputPath(Current))
    BY <1>1, <1>4, PlainFacts DEF Plain
  <2>4. \A p \in CurrentPaths : files'[p] # Absent => ~p.temporary /\ ~Plain(p)
    BY <2>1, <2>3
  <2> QED
    BY <1>2, <2>2, <2>4, SettleStep
<1> QED
  BY <1>3, <1>4

\* A dump with an artifact is complete, and settled unless it has still to be
\* compressed.
LEMMA HasArtifactStep ==
  ASSUME IInv, Running, WritesItsOwn, HasArtifact,
         ExitCodeRecorded => HoldsDumpOf(files'[OutputPath(Current)], Current),
         \A p \in CurrentPaths : files'[p] # Absent =>
           ~p.temporary /\ (Plain(p) => p = OutputPath(Current))
  PROVE  IInv'
<1>1. Current \in Job(target) /\ errors \in SUBSET Error
  BY CurrentFacts DEF IInv, BackupInv, TypeOK
<1>2. CASE Current.format = "sql_gzip"
  <2>1. Continue("compress", errors)
    BY <1>2 DEF HasArtifact
  <2> DEFINE step == "compress"
  <2>2. /\ step \in {"exec", "local", "dumping", "compress", "compressing"}
        /\ Continue(step, errors)
        /\ step \in {"compress", "compressing"} =>
             /\ Current.format = "sql_gzip"
             /\ FilesAreDistinct /\ ExitCodeRecorded =>
                  HoldsDumpOf(files'[OutputPath(Current)], Current)
        /\ \A p \in CurrentPaths : files'[p] # Absent =>
             /\ p.temporary => \/ step = "exec" /\ p = TemporaryPath(OutputPath(Current))
                               \/ step = "compressing" /\ p = TemporaryPath(FinalPath(Current))
             /\ Plain(p) => step \in {"dumping", "compress", "compressing"} /\ p = OutputPath(Current)
    BY <1>2, <2>1
  <2> HIDE DEF step
  <2> QED
    BY <1>1, <2>2, ContinueStep
<1>3. CASE Current.format # "sql_gzip"
  <2>1. Settle(artifacts \cup {job}, errors)
    BY <1>3 DEF HasArtifact
  <2>2. OutputPath(Current) = FinalPath(Current) /\ ~Plain(OutputPath(Current))
    BY <1>1, <1>3, PlainFacts DEF Plain
  <2>3. \A p \in CurrentPaths : files'[p] # Absent => ~p.temporary /\ ~Plain(p)
    BY <2>2
  <2>4. ExitCodeRecorded => HoldsDumpOf(files'[FinalPath(Current)], Current)
    BY <2>2
  <2> DEFINE arts == artifacts \cup {job}
  <2>5. Settle(arts, errors) /\ arts = artifacts \cup {job}
    BY <2>1
  <2> HIDE DEF arts
  <2> QED
    BY <1>1, <2>3, <2>4, <2>5, SettleStep
<1> QED
  BY <1>2, <1>3

\* A failed exec leaves nothing of the dump.
LEMMA RemoteFailedStep ==
  ASSUME IInv, Running, NEW fs \in [Path -> Contents],
         \A p \in Path \ CurrentPaths : fs[p] = files[p],
         \A p \in CurrentPaths : fs[p] # Absent => ~p.temporary /\ ~Plain(p),
         RemoteFailed(fs)
  PROVE  IInv'
<1>1. Failed("exec") \in SUBSET Error
  BY FailedType
<1>2. CASE target.dump_method = "exec"
  <2>1. NoArtifact(fs, Failed("exec"))
    BY <1>2 DEF RemoteFailed
  <2> QED
    BY <1>1, <2>1, NoArtifactStep
<1>3. CASE target.dump_method # "exec"
  <2> DEFINE step == "local"
  <2>1. /\ step \in {"exec", "local", "dumping", "compress", "compressing"}
        /\ step \notin {"compress", "compressing"}
        /\ files' = fs
        /\ Continue(step, Failed("exec"))
    BY <1>3 DEF RemoteFailed
  <2>2. WritesItsOwn
    BY <2>1 DEF WritesItsOwn
  <2>3. \A p \in CurrentPaths : files'[p] # Absent => ~p.temporary /\ ~Plain(p)
    BY <2>1
  <2> HIDE DEF step
  <2> QED
    BY <1>1, <2>1, <2>2, <2>3, ContinueStep
<1> QED
  BY <1>2, <1>3

-------------------------------------------------------------------------------
(***************************************************************************)
(* The steps of backup.                                                    *)
(***************************************************************************)

\* What stands on the disk of the current dump, by the step backup is at.
LEMMA CurrentFiles ==
  ASSUME IInv, Running, NEW p \in CurrentPaths, files[p] # Absent
  PROVE  /\ p.temporary => \/ pc = "exec" /\ p = TemporaryPath(OutputPath(Current))
                           \/ pc = "compressing" /\ p = TemporaryPath(FinalPath(Current))
         /\ Plain(p) => pc \in {"dumping", "compress", "compressing"} /\ p = OutputPath(Current)
<1>1. p \in Path
  BY CurrentFacts DEF IInv, BackupInv
<1> QED
  BY <1>1 DEF IInv, BackupInv, FilesInv, Running, Over, Plain

\* The four paths of the current dump: which are temporary, and which differ.
LEMMA CurrentPathFacts ==
  ASSUME IInv, Running
  PROVE  /\ Current \in Job(target)
         /\ CurrentPaths \subseteq Path
         /\ OutputPath(Current) \in CurrentPaths /\ ~OutputPath(Current).temporary
         /\ FinalPath(Current) \in CurrentPaths /\ ~FinalPath(Current).temporary
         /\ TemporaryPath(OutputPath(Current)) \in CurrentPaths
         /\ TemporaryPath(OutputPath(Current)).temporary
         /\ TemporaryPath(FinalPath(Current)) \in CurrentPaths
         /\ TemporaryPath(FinalPath(Current)).temporary
         /\ files \in [Path -> Contents]
BY CurrentFacts, PathFacts DEF IInv, BackupInv, TypeOK, CurrentPaths

LEMMA StartExecStep ==
  ASSUME IInv, StartExec
  PROVE  IInv'
<1> DEFINE step == "exec"
           tmp == TemporaryPath(OutputPath(Current))
<1>1. Running /\ pc = "remote"
  BY DEF StartExec, Running, Over
<1>2. files' = [files EXCEPT ![tmp] = Dump(Current, FALSE, "exec")] /\ Continue(step, errors)
  BY DEF StartExec, Written
<1>3. WritesItsOwn
  BY <1>1, <1>2, CurrentPathFacts, ContentsFacts DEF WritesItsOwn
<1>4. ASSUME NEW p \in CurrentPaths, files'[p] # Absent
      PROVE  (p.temporary => p = tmp) /\ ~Plain(p)
  <2>1. CASE p = tmp
    BY <1>1, <2>1, CurrentPathFacts DEF Plain
  <2>2. CASE p # tmp
    <3>1. files'[p] = files[p]
      BY <1>1, <1>2, <2>2, CurrentPathFacts
    <3> QED
      BY <1>1, <1>4, <3>1, CurrentFiles
  <2> QED
    BY <2>1, <2>2
<1>5. step \in {"exec", "local", "dumping", "compress", "compressing"}
      /\ step = "exec" /\ step \notin {"compress", "compressing"}
  OBVIOUS
<1>6. errors \in SUBSET Error
  BY DEF IInv, TypeOK
<1> HIDE DEF step
<1> QED
  BY <1>1, <1>2, <1>3, <1>4, <1>5, <1>6, ContinueStep

LEMMA ExecSucceedsStep ==
  ASSUME IInv, ExecSucceeds
  PROVE  IInv'
<1> DEFINE out == OutputPath(Current)
           tmp == TemporaryPath(out)
<1>1. Running /\ pc = "exec" /\ HasArtifact
  BY DEF ExecSucceeds, Running, Over
<1>2. PICK complete \in {TRUE, ExitCodeRecorded} :
        files' = [Unlinked(tmp) EXCEPT ![out] = Dump(Current, complete, "exec")]
  BY DEF ExecSucceeds
<1> DEFINE new == Dump(Current, complete, "exec")
<1>3. complete \in BOOLEAN /\ (ExitCodeRecorded => complete = TRUE)
  BY DEF ExitCodeRecorded, IInv, TypeOK, Target
<1>4. new \in Contents /\ (ExitCodeRecorded => HoldsDumpOf(new, Current))
  BY <1>1, <1>3, CurrentPathFacts, ContentsFacts
<1>5. /\ files' \in [Path -> Contents]
      /\ files'[out] = new
      /\ files'[tmp] = Absent
      /\ \A p \in Path \ {out, tmp} : files'[p] = files[p]
  <2> HIDE DEF new
  <2>1. files' = [[files EXCEPT ![tmp] = Absent] EXCEPT ![out] = new]
    BY <1>2 DEF new, Unlinked, Written
  <2>2. out \in Path /\ tmp \in Path /\ out # tmp /\ files \in [Path -> Contents]
    BY <1>1, CurrentPathFacts
  <2> HIDE DEF out, tmp
  <2> QED
    BY <1>1, <1>4, <2>1, <2>2, CurrentPathFacts, ContentsFacts
<1>6. WritesItsOwn
  BY <1>1, <1>5, CurrentPathFacts DEF WritesItsOwn
<1>7. ASSUME NEW p \in CurrentPaths, files'[p] # Absent
      PROVE  ~p.temporary /\ (Plain(p) => p = out)
  <2>1. CASE p = out
    BY <1>1, <2>1, CurrentPathFacts
  <2>2. CASE p # out
    <3>1. p # tmp /\ files'[p] = files[p]
      BY <1>1, <1>5, <1>7, <2>2, CurrentPathFacts
    <3> QED
      BY <1>1, <1>7, <3>1, CurrentFiles
  <2> QED
    BY <2>1, <2>2
<1> HIDE DEF new
<1> QED
  BY <1>1, <1>4, <1>5, <1>6, <1>7, HasArtifactStep

LEMMA ExecFailsStep ==
  ASSUME IInv, ExecFails
  PROVE  IInv'
<1> DEFINE tmp == TemporaryPath(OutputPath(Current))
           fs == [files EXCEPT ![tmp] = Absent]
<1>1. Running /\ pc = "exec" /\ RemoteFailed(fs)
  BY DEF ExecFails, Running, Over, Unlinked, Written
<1>2. /\ fs \in [Path -> Contents]
      /\ fs[tmp] = Absent
      /\ \A p \in Path \ {tmp} : fs[p] = files[p]
  BY <1>1, CurrentPathFacts, ContentsFacts
<1>3. ASSUME NEW p \in CurrentPaths, fs[p] # Absent
      PROVE  ~p.temporary /\ ~Plain(p)
  <2>1. p # tmp /\ fs[p] = files[p]
    BY <1>1, <1>2, <1>3, CurrentPathFacts
  <2> QED
    BY <1>1, <1>3, <2>1, CurrentFiles
<1>4. \A p \in Path \ CurrentPaths : fs[p] = files[p]
  BY <1>1, <1>2, CurrentPathFacts
<1> HIDE DEF fs
<1> QED
  BY <1>1, <1>2, <1>3, <1>4, RemoteFailedStep

LEMMA RemoteUnavailableStep ==
  ASSUME IInv, RemoteUnavailable
  PROVE  IInv'
<1>1. Running /\ pc = "remote" /\ RemoteFailed(files)
  BY DEF RemoteUnavailable, Running, Over
<1>2. \A p \in CurrentPaths : files[p] # Absent => ~p.temporary /\ ~Plain(p)
  BY <1>1, CurrentFiles
<1> QED
  BY <1>1, <1>2, CurrentPathFacts, RemoteFailedStep

LEMMA ExecRaisesStep ==
  ASSUME IInv, ExecRaises
  PROVE  IInv'
<1> DEFINE tmp == TemporaryPath(OutputPath(Current))
<1>1. Running /\ pc \in {"remote", "exec"} /\ files' = [files EXCEPT ![tmp] = Absent] /\ Raise
  BY DEF ExecRaises, Running, Over, Unlinked, Written
<1>2. /\ files' \in [Path -> Contents]
      /\ files'[tmp] = Absent
      /\ \A p \in Path \ {tmp} : files'[p] = files[p]
  BY <1>1, CurrentPathFacts, ContentsFacts
<1>3. FilesAreDistinct => \A i \in artifacts :
        files'[FinalPath(jobs[i])] = files[FinalPath(jobs[i])]
  BY <1>1, <1>2, CurrentPathFacts, EarlierFiles DEF IInv, BackupInv
<1>4. \A p \in Path : files'[p] # Absent => ~p.temporary
  BY <1>1, <1>2, CurrentFiles, OtherFiles DEF IInv, BackupInv
<1> QED
  BY <1>1, <1>2, <1>3, <1>4, EndStep DEF Raise

LEMMA StartLocalStep ==
  ASSUME IInv, StartLocal
  PROVE  IInv'
<1> DEFINE step == "dumping"
           out == OutputPath(Current)
<1>1. Running /\ pc = "local"
  BY DEF StartLocal, Running, Over
<1>2. files' = [files EXCEPT ![out] = Dump(Current, FALSE, "local")] /\ Continue(step, errors)
  BY DEF StartLocal, Written
<1>3. WritesItsOwn
  BY <1>1, <1>2, CurrentPathFacts, ContentsFacts DEF WritesItsOwn
<1>4. ASSUME NEW p \in CurrentPaths, files'[p] # Absent
      PROVE  ~p.temporary /\ (Plain(p) => p = out)
  <2>1. CASE p = out
    BY <1>1, <2>1, CurrentPathFacts
  <2>2. CASE p # out
    <3>1. files'[p] = files[p]
      BY <1>1, <1>2, <2>2, CurrentPathFacts
    <3> QED
      BY <1>1, <1>4, <3>1, CurrentFiles
  <2> QED
    BY <2>1, <2>2
<1>5. step \in {"exec", "local", "dumping", "compress", "compressing"}
      /\ step = "dumping" /\ step \notin {"compress", "compressing"}
  OBVIOUS
<1>6. errors \in SUBSET Error
  BY DEF IInv, TypeOK
<1> HIDE DEF step
<1> QED
  BY <1>1, <1>2, <1>3, <1>4, <1>5, <1>6, ContinueStep

LEMMA LocalSucceedsStep ==
  ASSUME IInv, LocalSucceeds
  PROVE  IInv'
<1> DEFINE out == OutputPath(Current)
<1>1. Running /\ pc = "dumping" /\ HasArtifact
  BY DEF LocalSucceeds, Running, Over
<1>2. files' = [files EXCEPT ![out] = Dump(Current, TRUE, "local")]
  BY DEF LocalSucceeds, Written
<1>3. WritesItsOwn
  BY <1>1, <1>2, CurrentPathFacts, ContentsFacts DEF WritesItsOwn
<1>4. HoldsDumpOf(files'[out], Current)
  BY <1>1, <1>2, CurrentPathFacts, ContentsFacts
<1>5. ASSUME NEW p \in CurrentPaths, files'[p] # Absent
      PROVE  ~p.temporary /\ (Plain(p) => p = out)
  <2>1. CASE p = out
    BY <1>1, <2>1, CurrentPathFacts
  <2>2. CASE p # out
    <3>1. files'[p] = files[p]
      BY <1>1, <1>2, <2>2, CurrentPathFacts
    <3> QED
      BY <1>1, <1>5, <3>1, CurrentFiles
  <2> QED
    BY <2>1, <2>2
<1> QED
  BY <1>1, <1>3, <1>4, <1>5, HasArtifactStep

LEMMA LocalFailsStep ==
  ASSUME IInv, LocalFails
  PROVE  IInv'
<1>1. Running /\ pc \in {"local", "dumping"} /\ NoArtifact(files, Failed("local"))
  BY DEF LocalFails, Running, Over
<1>2. \A p \in CurrentPaths : files[p] # Absent =>
        ~p.temporary /\ (Plain(p) => p = OutputPath(Current))
  BY <1>1, CurrentFiles
<1>3. Failed("local") \in SUBSET Error
  BY <1>1, FailedType
<1> QED
  BY <1>1, <1>2, <1>3, CurrentPathFacts, NoArtifactStep

LEMMA LocalRaisesStep ==
  ASSUME IInv, LocalRaises
  PROVE  IInv'
<1>1. Running /\ pc \in {"local", "dumping"} /\ files' = files /\ Raise
  BY DEF LocalRaises, Running, Over
<1>2. \A p \in Path : files'[p] # Absent => ~p.temporary
  BY <1>1, CurrentFiles, OtherFiles DEF IInv, BackupInv
<1> QED
  BY <1>1, <1>2, CurrentPathFacts, EndStep DEF Raise

LEMMA StartCompressionStep ==
  ASSUME IInv, StartCompression
  PROVE  IInv'
<1> DEFINE step == "compressing"
           tmp == TemporaryPath(FinalPath(Current))
           out == OutputPath(Current)
           new == [files[out] EXCEPT !.complete = FALSE]
<1>1. Running /\ pc = "compress" /\ Current.format = "sql_gzip"
  BY DEF StartCompression, Running, Over, IInv, BackupInv, ProgressInv
<1>2. files' = [files EXCEPT ![tmp] = new] /\ Continue(step, errors)
  BY DEF StartCompression, Written
<1>3. new \in Contents
  <2>1. files[out] \in Contents
    BY <1>1, CurrentPathFacts
  <2> QED
    BY <2>1 DEF Contents, new
<1> HIDE DEF new
<1>4. /\ WritesItsOwn
      /\ \A p \in Path \ {tmp} : files'[p] = files[p]
  BY <1>1, <1>2, <1>3, CurrentPathFacts DEF WritesItsOwn
<1>5. FilesAreDistinct /\ ExitCodeRecorded => HoldsDumpOf(files'[out], Current)
  BY <1>1, <1>4, CurrentPathFacts DEF IInv, BackupInv, ArtifactsInv
<1>6. ASSUME NEW p \in CurrentPaths, files'[p] # Absent
      PROVE  (p.temporary => p = tmp) /\ (Plain(p) => p = out)
  <2>1. CASE p = tmp
    BY <1>1, <2>1, CurrentPathFacts DEF Plain
  <2>2. CASE p # tmp
    <3>1. files'[p] = files[p]
      BY <1>1, <1>4, <2>2, CurrentPathFacts
    <3> QED
      BY <1>1, <1>6, <3>1, CurrentFiles
  <2> QED
    BY <2>1, <2>2
<1>7. step \in {"exec", "local", "dumping", "compress", "compressing"} /\ step = "compressing"
  OBVIOUS
<1>8. errors \in SUBSET Error
  BY DEF IInv, TypeOK
<1> HIDE DEF step
<1> QED
  BY <1>1, <1>2, <1>4, <1>5, <1>6, <1>7, <1>8, ContinueStep

LEMMA CompressionSucceedsStep ==
  ASSUME IInv, CompressionSucceeds
  PROVE  IInv'
<1> DEFINE out == OutputPath(Current)
           final == FinalPath(Current)
           tmp == TemporaryPath(final)
           arts == artifacts \cup {job}
<1>1. Running /\ pc = "compressing" /\ Current.format = "sql_gzip"
  BY DEF CompressionSucceeds, Running, Over, IInv, BackupInv, ProgressInv
<1>2. /\ Settle(arts, errors)
      /\ files' = [p \in Path |-> CASE p = final -> files[out]
                                    [] p \in {tmp, out} -> Absent
                                    [] OTHER -> files[p]]
  BY DEF CompressionSucceeds
<1>3. out # final /\ tmp # final /\ final.ext = ".sql.gz"
  BY <1>1, CurrentPathFacts, PlainFacts
<1>4. /\ files' \in [Path -> Contents]
      /\ files'[final] = files[out]
      /\ files'[tmp] = Absent
      /\ files'[out] = Absent
      /\ \A p \in Path \ {final, tmp, out} : files'[p] = files[p]
  <2>1. final \in Path /\ out \in Path /\ tmp \in Path /\ files \in [Path -> Contents] /\ Absent \in Contents
    BY <1>1, CurrentPathFacts, ContentsFacts
  <2> HIDE DEF final, out, tmp
  <2> QED
    BY <1>2, <1>3, <2>1
<1>5. WritesItsOwn
  BY <1>1, <1>4, CurrentPathFacts DEF WritesItsOwn
<1>6. FilesAreDistinct /\ ExitCodeRecorded => HoldsDumpOf(files'[final], Current)
  BY <1>1, <1>4 DEF IInv, BackupInv, ArtifactsInv
<1>7. ASSUME NEW p \in CurrentPaths, files'[p] # Absent
      PROVE  ~p.temporary /\ ~Plain(p)
  <2>1. CASE p = final
    BY <1>1, <1>3, <2>1, CurrentPathFacts DEF Plain
  <2>2. CASE p # final
    <3>1. p \notin {tmp, out} /\ files'[p] = files[p]
      BY <1>1, <1>4, <1>7, <2>2, CurrentPathFacts
    <3> QED
      BY <1>1, <1>7, <3>1, CurrentFiles
  <2> QED
    BY <2>1, <2>2
<1>8. errors \in SUBSET Error /\ arts = artifacts \cup {job}
  BY DEF IInv, TypeOK
<1> HIDE DEF arts
<1> QED
  BY <1>1, <1>2, <1>5, <1>6, <1>7, <1>8, SettleStep

LEMMA CompressionFailsStep ==
  ASSUME IInv, CompressionFails
  PROVE  IInv'
<1> DEFINE tmp == TemporaryPath(FinalPath(Current))
           fs == [files EXCEPT ![tmp] = Absent]
<1>1. Running /\ pc \in {"compress", "compressing"} /\ NoArtifact(fs, Failed("gzip"))
  BY DEF CompressionFails, Running, Over, Unlinked, Written
<1>2. /\ fs \in [Path -> Contents]
      /\ fs[tmp] = Absent
      /\ \A p \in Path \ {tmp} : fs[p] = files[p]
  BY <1>1, CurrentPathFacts, ContentsFacts
<1>3. ASSUME NEW p \in CurrentPaths, fs[p] # Absent
      PROVE  ~p.temporary /\ (Plain(p) => p = OutputPath(Current))
  <2>1. p # tmp /\ fs[p] = files[p]
    BY <1>1, <1>2, <1>3, CurrentPathFacts
  <2> QED
    BY <1>1, <1>3, <2>1, CurrentFiles
<1>4. \A p \in Path \ CurrentPaths : fs[p] = files[p]
  BY <1>1, <1>2, CurrentPathFacts
<1>5. Failed("gzip") \in SUBSET Error
  BY <1>1, FailedType
<1> HIDE DEF fs
<1> QED
  BY <1>1, <1>2, <1>3, <1>4, <1>5, NoArtifactStep

-------------------------------------------------------------------------------
(***************************************************************************)
(* The theorems.                                                           *)
(***************************************************************************)

LEMMA InitInv ==
  Init => IInv
<1> SUFFICES ASSUME Init
             PROVE  IInv
  OBVIOUS
<1>1. jobs \in Seq(Job(target))
  BY JobsType DEF Init
<1>2. Absent \in Contents
  BY DEF Contents, Absent
<1>3. TypeOK
  <2>1. job \in 0..Len(jobs)
    BY <1>1 DEF Init
  <2>2. files \in [Path -> Contents]
    BY <1>2 DEF Init
  <2> QED
    BY <1>1, <2>1, <2>2 DEF Init, TypeOK
<1>4. ProgressInv /\ ArtifactsInv
  BY DEF Init, ProgressInv, ArtifactsInv, Running, Over
<1>5. FilesInv
  BY DEF Init, FilesInv
<1> QED
  BY <1>3, <1>4, <1>5 DEF IInv, BackupInv

\* Before the first dump there are no files.
LEMMA StartFacts ==
  ASSUME IInv, pc = "start"
  PROVE  /\ job = 0 /\ artifacts = {}
         /\ \A p \in Path : files[p] # Absent => ~p.temporary /\ ~Plain(p)
BY DEF IInv, BackupInv, ProgressInv, FilesInv, Plain

LEMMA RejectFormatStep ==
  ASSUME IInv, RejectFormat
  PROVE  IInv'
<1> USE DEF IInv, BackupInv
<1>1. /\ pc = "start" /\ pc' = "returned" /\ job' = job /\ credentials' = FALSE
      /\ errors' = {[job |-> 0, step |-> "format"]}
      /\ status' \in {"success", "partial", "failed"}
      /\ UNCHANGED <<target, jobs, files, artifacts>>
  BY DEF RejectFormat, Return, ResultStatus
<1>2. errors' \in SUBSET Error
  BY <1>1 DEF Error
<1>3. TypeOK'
  BY <1>1, <1>2 DEF TypeOK, Over
<1>4. ProgressInv' /\ ArtifactsInv'
  BY <1>1, StartFacts DEF ProgressInv, ArtifactsInv, Running, Over
<1>5. FilesInv'
  BY <1>1, StartFacts DEF FilesInv, Plain
<1> QED
  BY <1>3, <1>4, <1>5

LEMMA StartStep ==
  ASSUME IInv, Start
  PROVE  IInv'
<1> USE DEF IInv, BackupInv
<1>1. /\ pc = "start" /\ pc' \in {"local", "remote"} /\ job' = 1 /\ credentials' \in BOOLEAN
      /\ UNCHANGED <<target, jobs, files, artifacts, errors, status>>
      /\ jobs # <<>>
  BY DEF Start, FirstAttempt
<1>2. 1 \in 1..Len(jobs)
  BY <1>1 DEF TypeOK
<1>3. TypeOK'
  BY <1>1, <1>2 DEF TypeOK
<1>4. ProgressInv' /\ ArtifactsInv'
  BY <1>1, <1>2, StartFacts DEF ProgressInv, ArtifactsInv, Running, Over
<1>5. FilesInv'
  BY <1>1, StartFacts DEF FilesInv, Plain
<1> QED
  BY <1>3, <1>4, <1>5

LEMMA NextInv ==
  IInv /\ [Next]_vars => IInv'
<1> SUFFICES ASSUME IInv, [Next]_vars
             PROVE  IInv'
  OBVIOUS
<1> files \in [Path -> Contents] /\ credentials \in BOOLEAN
  BY DEF IInv, TypeOK
<1>1. CASE Reject
  <2>1. pc = "start" /\ files' = files /\ Raise
    BY <1>1 DEF Reject
  <2> QED
    BY <2>1, StartFacts, EndStep DEF Raise
<1>2. CASE RejectFormat
  BY <1>2, RejectFormatStep
<1>3. CASE Start
  BY <1>3, StartStep
<1>4. CASE DefaultsFileUnwritten
  <2>1. /\ pc = "start" /\ pc' = "raised" /\ credentials' = TRUE
        /\ UNCHANGED <<target, jobs, job, files, artifacts, errors, status>>
    BY <1>4 DEF DefaultsFileUnwritten
  <2> QED
    BY <2>1, StartFacts, EndStep
<1>5. CASE RemoteUnavailable
  BY <1>5, RemoteUnavailableStep
<1>6. CASE StartExec
  BY <1>6, StartExecStep
<1>7. CASE ExecSucceeds
  BY <1>7, ExecSucceedsStep
<1>8. CASE ExecFails
  BY <1>8, ExecFailsStep
<1>9. CASE ExecRaises
  BY <1>9, ExecRaisesStep
<1>10. CASE StartLocal
  BY <1>10, StartLocalStep
<1>11. CASE LocalSucceeds
  BY <1>11, LocalSucceedsStep
<1>12. CASE LocalFails
  BY <1>12, LocalFailsStep
<1>13. CASE LocalRaises
  BY <1>13, LocalRaisesStep
<1>14. CASE StartCompression
  BY <1>14, StartCompressionStep
<1>15. CASE CompressionSucceeds
  BY <1>15, CompressionSucceedsStep
<1>16. CASE CompressionFails
  BY <1>16, CompressionFailsStep
<1>17. CASE Killed
  BY <1>17, EndStep DEF Killed
<1>18. CASE UNCHANGED vars
  <2>1. UNCHANGED <<target, jobs, pc, job, files, credentials, artifacts, errors, status>>
    BY <1>18 DEF vars
  <2> QED
    BY <2>1 DEF IInv, BackupInv, TypeOK, ProgressInv, ArtifactsInv, FilesInv, Running,
                FilesAreDistinct, ExitCodeRecorded, Current
<1> QED
  BY <1>1, <1>2, <1>3, <1>4, <1>5, <1>6, <1>7, <1>8, <1>9, <1>10, <1>11, <1>12, <1>13, <1>14,
     <1>15, <1>16, <1>17, <1>18 DEF Next

\* In every reachable state the variables have their types and the inductive
\* invariant of _run_with_strategy and of its callers holds.
THEOREM BackupInvariant == Spec => [](TypeOK /\ BackupInv)
<1>1. IInv => TypeOK /\ BackupInv
  BY DEF IInv
<1> QED
  BY InitInv, NextInv, <1>1, PTL DEF Spec

\* An artifact that backup lists names a complete dump of its database, whatever
\* the dumps after it do: whenever no two of them share a file and Docker's exit
\* codes are there when they are read.
THEOREM ArtifactsAreDumps == Spec => []ArtifactsHoldTheirDump
<1>1. BackupInv => ArtifactsHoldTheirDump
  BY DEF BackupInv, ArtifactsInv, ArtifactsHoldTheirDump
<1> QED
  BY BackupInvariant, <1>1, PTL

\* backup leaves no temporary file and, when it returns, no uncompressed dump.
THEOREM NothingIsLeft == Spec => []NothingInFlightIsLeft
<1>1. BackupInv => NothingInFlightIsLeft
  BY DEF BackupInv, FilesInv, NothingInFlightIsLeft
<1> QED
  BY BackupInvariant, <1>1, PTL

-------------------------------------------------------------------------------
(***************************************************************************)
(* What every step does to the account of the call: a dump is settled with *)
(* an artifact or an error, backup goes on with it, or an exception or a   *)
(* kill ends the call.                                                     *)
(***************************************************************************)

Accounted(i) == i \in artifacts \/ \E e \in errors : e.job = i

Settles ==
  /\ Running
  /\ Settle(artifacts', errors')
  /\ artifacts \subseteq artifacts' /\ errors \subseteq errors'
  /\ job \in artifacts' \/ \E e \in errors' : e.job = job
Continues ==
  /\ Running
  /\ Continue(pc', errors')
  /\ errors \subseteq errors'
  /\ pc' \in {"exec", "local", "dumping", "compress", "compressing"}
Ends ==
  /\ pc' \in {"raised", "killed"}
  /\ pc' = "raised" /\ job > 0 => ~credentials'
  /\ UNCHANGED <<target, jobs, job, artifacts, errors, status>>

LEMMA NoArtifactSettles ==
  ASSUME Running, NEW fs, NEW step, NoArtifact(fs, Failed(step))
  PROVE  Settles
<1>1. Settle(artifacts, Failed(step)) /\ artifacts' = artifacts /\ errors' = Failed(step)
  BY DEF NoArtifact, Settle
<1>2. errors \subseteq Failed(step) /\ \E e \in Failed(step) : e.job = job
  <2> DEFINE e == [job |-> job, step |-> step]
  <2>1. e \in Failed(step) /\ e.job = job
    BY DEF Failed
  <2>2. errors \subseteq Failed(step)
    BY DEF Failed
  <2> HIDE DEF e
  <2> QED
    BY <2>1, <2>2
<1> QED
  BY <1>1, <1>2 DEF Settles

LEMMA HasArtifactAccount ==
  ASSUME Running, HasArtifact
  PROVE  Settles \/ Continues
<1>1. CASE Current.format = "sql_gzip"
  <2>1. Continue("compress", errors) /\ pc' = "compress" /\ errors' = errors
    BY <1>1 DEF HasArtifact, Continue
  <2> QED
    BY <2>1 DEF Continues
<1>2. CASE Current.format # "sql_gzip"
  <2>1. /\ Settle(artifacts \cup {job}, errors)
        /\ artifacts' = artifacts \cup {job} /\ errors' = errors
    BY <1>2 DEF HasArtifact, Settle
  <2> QED
    BY <2>1 DEF Settles
<1> QED
  BY <1>1, <1>2

LEMMA RemoteFailedAccount ==
  ASSUME Running, NEW fs, RemoteFailed(fs)
  PROVE  Settles \/ Continues
<1>1. CASE target.dump_method = "exec"
  BY <1>1, NoArtifactSettles DEF RemoteFailed
<1>2. CASE target.dump_method # "exec"
  <2>1. Continue("local", Failed("exec")) /\ pc' = "local" /\ errors' = Failed("exec")
    BY <1>2 DEF RemoteFailed, Continue
  <2>2. errors \subseteq Failed("exec")
    BY DEF Failed
  <2> QED
    BY <2>1, <2>2 DEF Continues
<1> QED
  BY <1>1, <1>2

LEMMA AccountOfAStep ==
  ASSUME IInv, Next
  PROVE  RejectFormat \/ Start \/ Settles \/ Continues \/ Ends
<1>1. CASE Reject \/ ExecRaises \/ LocalRaises
  BY <1>1 DEF Reject, ExecRaises, LocalRaises, Raise, Ends
<1>2. CASE DefaultsFileUnwritten
  <2>1. pc = "start" /\ job = 0
    BY <1>2 DEF DefaultsFileUnwritten, IInv, BackupInv, ProgressInv
  <2> QED
    BY <1>2, <2>1 DEF DefaultsFileUnwritten, Ends
<1>3. CASE Killed
  BY <1>3 DEF Killed, Ends
<1>4. CASE RemoteUnavailable \/ ExecFails
  <2>1. Running
    BY <1>4 DEF RemoteUnavailable, ExecFails, Running, Over
  <2> QED
    BY <1>4, <2>1, RemoteFailedAccount DEF RemoteUnavailable, ExecFails
<1>5. CASE ExecSucceeds \/ LocalSucceeds
  <2>1. Running /\ HasArtifact
    BY <1>5 DEF ExecSucceeds, LocalSucceeds, Running, Over
  <2> QED
    BY <2>1, HasArtifactAccount
<1>6. CASE LocalFails \/ CompressionFails
  <2>1. Running
    BY <1>6 DEF LocalFails, CompressionFails, Running, Over
  <2> QED
    BY <1>6, <2>1, NoArtifactSettles DEF LocalFails, CompressionFails
<1>7. CASE CompressionSucceeds
  <2>1. /\ Running /\ Settle(artifacts \cup {job}, errors)
        /\ artifacts' = artifacts \cup {job} /\ errors' = errors
    BY <1>7 DEF CompressionSucceeds, Settle, Running, Over
  <2> QED
    BY <2>1 DEF Settles
<1>8. CASE StartExec
  <2>1. Running /\ Continue("exec", errors) /\ pc' = "exec" /\ errors' = errors
    BY <1>8 DEF StartExec, Continue, Running, Over
  <2> QED
    BY <2>1 DEF Continues
<1>9. CASE StartLocal
  <2>1. Running /\ Continue("dumping", errors) /\ pc' = "dumping" /\ errors' = errors
    BY <1>9 DEF StartLocal, Continue, Running, Over
  <2> QED
    BY <2>1 DEF Continues
<1>10. CASE StartCompression
  <2>1. Running /\ Continue("compressing", errors) /\ pc' = "compressing" /\ errors' = errors
    BY <1>10 DEF StartCompression, Continue, Running, Over
  <2> QED
    BY <2>1 DEF Continues
<1> QED
  BY <1>1, <1>2, <1>3, <1>4, <1>5, <1>6, <1>7, <1>8, <1>9, <1>10 DEF Next

-------------------------------------------------------------------------------
(***************************************************************************)
(* The defaults file.                                                      *)
(***************************************************************************)

LEMMA DefaultsFileStep ==
  IInv /\ DefaultsFileIsRemoved /\ [Next]_vars => DefaultsFileIsRemoved'
<1> SUFFICES ASSUME IInv, DefaultsFileIsRemoved, [Next]_vars
             PROVE  DefaultsFileIsRemoved'
  OBVIOUS
<1>1. CASE RejectFormat
  BY <1>1 DEF RejectFormat, Return, DefaultsFileIsRemoved
<1>2. CASE Start
  BY <1>2 DEF Start, FirstAttempt, DefaultsFileIsRemoved
<1>3. CASE Settles
  BY <1>3 DEF Settles, Settle, Return, FirstAttempt, DefaultsFileIsRemoved
<1>4. CASE Continues
  BY <1>4 DEF Continues, DefaultsFileIsRemoved
<1>5. CASE Ends
  BY <1>5 DEF Ends, DefaultsFileIsRemoved
<1>6. CASE UNCHANGED vars
  BY <1>6 DEF vars, DefaultsFileIsRemoved
<1> QED
  BY <1>1, <1>2, <1>3, <1>4, <1>5, <1>6, AccountOfAStep

\* MariaDB's defaults file is gone on every way out of backup that began a dump,
\* the exceptions no handler catches included.
THEOREM NoDefaultsFileIsLeft == Spec => []DefaultsFileIsRemoved
<1>1. Init => DefaultsFileIsRemoved
  BY DEF Init, DefaultsFileIsRemoved
<1> QED
  BY <1>1, InitInv, NextInv, DefaultsFileStep, PTL DEF Spec

-------------------------------------------------------------------------------
(***************************************************************************)
(* Every dump that was asked for is accounted for.                         *)
(***************************************************************************)

AccountInv ==
  /\ jobs = Jobs(target)
  /\ Running => \A i \in 1..(job - 1) : Accounted(i)
  /\ pc = "returned" =>
       /\ \A i \in 1..Len(jobs) : Accounted(i)
       /\ jobs = <<>> => errors # {}
       /\ status = ResultStatus(artifacts, errors)

LEMMA SettlesAccount ==
  ASSUME IInv, AccountInv, Settles
  PROVE  AccountInv'
<1>1. /\ job \in 1..Len(jobs) /\ Len(jobs) \in Nat /\ job \in Nat
      /\ jobs # <<>>
  <2>1. job \in 1..Len(jobs) /\ jobs \in Seq(Job(target))
    BY CurrentFacts DEF Settles, IInv, BackupInv, TypeOK
  <2>2. Len(jobs) \in Nat
    BY <2>1
  <2>3. jobs # <<>>
    BY <2>1
  <2> QED
    BY <2>1, <2>2, <2>3
<1>2. UNCHANGED <<target, jobs>>
  BY DEF Settles, Settle
<1>3. \A i \in 1..job : Accounted(i)'
  <2>1. \A i \in 1..(job - 1) : Accounted(i)
    BY DEF AccountInv, Settles
  <2>2. ASSUME NEW i \in 1..job
        PROVE  Accounted(i)'
    <3>1. i \in 1..(job - 1) \/ i = job
      BY <1>1
    <3> QED
      BY <2>1, <3>1 DEF Settles, Accounted
  <2> QED
    BY <2>2
<1>4. CASE job < Len(jobs)
  <2>1. job' = job + 1 /\ pc' \in {"local", "remote"}
    BY <1>4 DEF Settles, Settle, FirstAttempt
  <2>2. job' - 1 = job
    BY <1>1, <2>1
  <2> QED
    BY <1>2, <1>3, <2>1, <2>2 DEF AccountInv
<1>5. CASE ~(job < Len(jobs))
  <2>1. pc' = "returned" /\ status' = ResultStatus(artifacts', errors')
    BY <1>5 DEF Settles, Settle, Return
  <2>2. status' = ResultStatus(artifacts, errors)'
    BY <2>1 DEF ResultStatus
  <2>3. job = Len(jobs)
    BY <1>1, <1>5
  <2> QED
    BY <1>1, <1>2, <1>3, <2>1, <2>2, <2>3 DEF AccountInv, Running, Over
<1> QED
  BY <1>4, <1>5

LEMMA AccountStep ==
  IInv /\ AccountInv /\ [Next]_vars => AccountInv'
<1> SUFFICES ASSUME IInv, AccountInv, [Next]_vars
             PROVE  AccountInv'
  OBVIOUS
<1>1. CASE RejectFormat
  <2>1. /\ pc' = "returned" /\ jobs = <<>> /\ errors' # {} /\ artifacts = {}
        /\ status' = ResultStatus({}, errors')
        /\ UNCHANGED <<target, jobs, artifacts>>
    BY <1>1 DEF RejectFormat, Return, IInv, BackupInv, ProgressInv
  <2>2. status' = ResultStatus(artifacts, errors)'
    BY <2>1 DEF ResultStatus
  <2>3. 1..Len(jobs) = {}
    BY <2>1
  <2> QED
    BY <2>1, <2>2, <2>3 DEF AccountInv, Running, Over
<1>2. CASE Start
  <2>1. job' = 1 /\ pc' \in {"remote", "local"} /\ UNCHANGED <<target, jobs>>
    BY <1>2 DEF Start, FirstAttempt
  <2>2. 1..(job' - 1) = {}
    BY <2>1
  <2> QED
    BY <2>1, <2>2 DEF AccountInv
<1>3. CASE Settles
  BY <1>3, SettlesAccount
<1>4. CASE Continues
  <2>1. UNCHANGED <<target, jobs, job, artifacts>> /\ errors \subseteq errors' /\ Running
        /\ pc' # "returned"
    BY <1>4 DEF Continues, Continue
  <2>2. \A i \in 1..(job - 1) : Accounted(i) => Accounted(i)'
    BY <2>1 DEF Accounted
  <2> QED
    BY <2>1, <2>2 DEF AccountInv
<1>5. CASE Ends
  BY <1>5 DEF Ends, AccountInv, Running, Over
<1>6. CASE UNCHANGED vars
  BY <1>6 DEF vars, AccountInv, Running, Accounted, ResultStatus
<1> QED
  BY <1>1, <1>2, <1>3, <1>4, <1>5, <1>6, AccountOfAStep

\* The dumps made for a target are those of all its databases: PostgreSQL's loops
\* over databases and formats reach every database, MariaDB's dump holds them all.
LEMMA JobsCoverTheTarget ==
  ASSUME target \in Target, jobs = Jobs(target), jobs # <<>>
  PROVE  Requested = UNION {Covered(jobs[i].subject) : i \in 1..Len(jobs)}
<1> DEFINE asked == target.databases
<1>1. asked \in Seq(Database) /\ Len(asked) \in Nat
  BY TargetFacts
<1>2. CASE target.db_type = "postgresql"
  <2> DEFINE subjects == IF asked = <<>> THEN <<AllDatabases>> ELSE asked
             n == Len(RequestedFormats(target))
             N == Len(subjects) * n
  <2>1. /\ subjects \in Seq(Database \cup {AllDatabases}) /\ Len(subjects) \in Nat
        /\ Requested = {subjects[k] : k \in 1..Len(subjects)}
    <3>1. CASE asked = <<>>
      <4>1. Len(<<AllDatabases>>) = 1 /\ <<AllDatabases>>[1] = AllDatabases /\ 1..1 = {1}
            /\ <<AllDatabases>> \in Seq(Database \cup {AllDatabases})
        OBVIOUS
      <4> QED
        BY <3>1, <4>1 DEF Requested
    <3>2. CASE asked # <<>>
      BY <1>1, <3>2 DEF Requested
    <3> QED
      BY <3>1, <3>2
  <2>2. n \in 0..2
    BY <1>2, RequestedFormatsType
  <2>3. jobs = [i \in 1..N |-> [subject |-> subjects[((i - 1) \div n) + 1],
                               format |-> RequestedFormats(target)[((i - 1) % n) + 1]]]
    BY <1>2 DEF Jobs, PostgreSQLJobs
  <2> HIDE DEF subjects, n
  <2>4. N \in Nat
    BY <2>1, <2>2
  <2>5. Len(jobs) = N /\ \A i \in 1..N : jobs[i].subject = subjects[((i - 1) \div n) + 1]
    <3>1. jobs \in Seq(Job(target)) /\ DOMAIN jobs = 1..N
      BY <2>3, JobsType
    <3>2. Len(jobs) = N
      BY <2>4, <3>1
    <3> HIDE DEF N
    <3>3. ASSUME NEW i \in 1..N
          PROVE  jobs[i].subject = subjects[((i - 1) \div n) + 1]
      <4>1. jobs[i] = [subject |-> subjects[((i - 1) \div n) + 1],
                       format |-> RequestedFormats(target)[((i - 1) % n) + 1]]
        BY <2>3
      <4> QED
        BY <4>1
    <3> QED
      BY <3>2, <3>3
  <2>6. n \in {1, 2}
    <3>1. n # 0
      <4> SUFFICES ASSUME n = 0
                   PROVE  FALSE
        OBVIOUS
      <4>1. N = 0
        BY <2>1
      <4>2. jobs \in Seq(Job(target)) /\ Len(jobs) = 0
        BY <2>5, <4>1, JobsType
      <4> QED
        BY <4>2
    <3> QED
      BY <2>2, <3>1
  <2>7. ASSUME NEW k \in 1..Len(subjects)
        PROVE  Covered(subjects[k]) = {subjects[k]}
    <3>1. subjects[k] \in Database \cup {AllDatabases}
      BY <2>1
    <3> QED
      BY <3>1, DatabaseAssumption DEF Covered, AllDatabases, SeveralDatabases
  <2>8. ASSUME NEW i \in 1..N
        PROVE  \E k \in 1..Len(subjects) : jobs[i].subject = subjects[k]
    <3>1. ((i - 1) \div n) + 1 \in 1..Len(subjects)
      BY <2>1, <2>6, DivisionFacts
    <3> QED
      BY <2>5, <3>1
  <2>9. ASSUME NEW k \in 1..Len(subjects)
        PROVE  \E i \in 1..N : jobs[i].subject = subjects[k]
    <3> DEFINE i == (k - 1) * n + 1
    <3>1. i \in 1..N /\ ((i - 1) \div n) + 1 = k
      <4>1. CASE n = 1
        BY <2>1, <4>1
      <4>2. CASE n = 2
        BY <2>1, <4>2
      <4> QED
        BY <2>6, <4>1, <4>2
    <3> HIDE DEF i
    <3> QED
      BY <2>5, <3>1
  <2> HIDE DEF N
  <2>10. Requested \subseteq UNION {Covered(jobs[i].subject) : i \in 1..N}
    <3> SUFFICES ASSUME NEW k \in 1..Len(subjects)
                 PROVE  subjects[k] \in UNION {Covered(jobs[i].subject) : i \in 1..N}
      BY <2>1
    <3>1. PICK i \in 1..N : jobs[i].subject = subjects[k]
      BY <2>9
    <3>2. Covered(jobs[i].subject) = {subjects[k]}
      BY <2>7, <3>1
    <3> QED
      BY <3>2
  <2>11. UNION {Covered(jobs[i].subject) : i \in 1..N} \subseteq Requested
    <3> SUFFICES ASSUME NEW i \in 1..N, NEW x \in Covered(jobs[i].subject)
                 PROVE  x \in Requested
      OBVIOUS
    <3>1. PICK k \in 1..Len(subjects) : jobs[i].subject = subjects[k]
      BY <2>8
    <3>2. x = subjects[k]
      BY <2>7, <3>1
    <3> QED
      BY <2>1, <3>2
  <2> QED
    BY <2>5, <2>10, <2>11
<1>3. CASE target.db_type # "postgresql"
  <2> DEFINE s == CASE asked = <<>> -> AllDatabases
                    [] Len(asked) = 1 -> asked[1]
                    [] OTHER -> SeveralDatabases
             only == [subject |-> s, format |-> "sql"]
  <2>1. jobs = << only >> /\ only.subject = s
    BY <1>3 DEF Jobs, MariaDBJobs
  <2>2. Covered(s) = Requested
    <3>1. CASE asked = <<>>
      BY <3>1 DEF Covered, Requested, AllDatabases, SeveralDatabases
    <3>2. CASE asked # <<>> /\ Len(asked) = 1
      <4>1. s = asked[1] /\ asked[1] \in Database
        BY <1>1, <3>2
      <4>2. Requested = {asked[1]}
        BY <1>1, <3>2 DEF Requested
      <4>3. asked[1] # SeveralDatabases
        BY <4>1, DatabaseAssumption
      <4> QED
        BY <4>1, <4>2, <4>3 DEF Covered
    <3>3. CASE asked # <<>> /\ Len(asked) # 1
      BY <3>3 DEF Covered
    <3> QED
      BY <3>1, <3>2, <3>3
  <2> HIDE DEF only
  <2>3. Len(jobs) = 1 /\ jobs[1] = only /\ 1..1 = {1}
    BY <2>1
  <2> HIDE DEF s
  <2> QED
    BY <2>1, <2>2, <2>3
<1> QED
  BY <1>2, <1>3

\* When backup returns, every dump its target asked for has an artifact or an
\* error, a success covers every database of the target, and nothing but a
\* success without any error is called one.
THEOREM DumpsAreAccountedFor == Spec => []EveryDumpIsAccountedFor
<1>1. Init => AccountInv
  BY DEF Init, AccountInv, Running
<1>2. IInv /\ AccountInv => EveryDumpIsAccountedFor
  <2> SUFFICES ASSUME IInv, AccountInv, pc = "returned"
               PROVE  /\ \A i \in 1..Len(jobs) : Accounted(i)
                      /\ status = "success" =>
                           errors = {} /\ Requested = UNION {Covered(jobs[i].subject) : i \in artifacts}
                      /\ status = "partial" => artifacts # {} /\ errors # {}
                      /\ status = "failed" => artifacts = {} /\ errors # {}
    BY DEF EveryDumpIsAccountedFor, Accounted
  <2>1. /\ \A i \in 1..Len(jobs) : Accounted(i)
        /\ jobs = <<>> => errors # {}
        /\ status = ResultStatus(artifacts, errors)
        /\ jobs = Jobs(target)
    BY DEF AccountInv
  <2>2. /\ target \in Target /\ artifacts \subseteq 1..Len(jobs) /\ jobs \in Seq(Job(target))
    BY DEF IInv, TypeOK
  <2>3. jobs # <<>> => 1 \in 1..Len(jobs)
    BY <2>2
  <2>4. ASSUME errors = {}
        PROVE  artifacts = 1..Len(jobs) /\ artifacts # {}
    BY <2>1, <2>2, <2>3, <2>4 DEF Accounted
  <2>5. status = "success" => errors = {}
    BY <2>1 DEF ResultStatus
  <2>6. status = "success" => Requested = UNION {Covered(jobs[i].subject) : i \in artifacts}
    <3> SUFFICES ASSUME status = "success"
                 PROVE  Requested = UNION {Covered(jobs[i].subject) : i \in artifacts}
      OBVIOUS
    <3>1. errors = {} /\ artifacts = 1..Len(jobs) /\ jobs # <<>>
      BY <2>1, <2>4, <2>5
    <3>2. Requested = UNION {Covered(jobs[i].subject) : i \in 1..Len(jobs)}
      BY <2>1, <2>2, <3>1, JobsCoverTheTarget
    <3> QED
      BY <3>1, <3>2
  <2>7. status = "partial" => artifacts # {} /\ errors # {}
    BY <2>1 DEF ResultStatus
  <2>8. status = "failed" => artifacts = {} /\ errors # {}
    BY <2>1, <2>4 DEF ResultStatus
  <2> QED
    BY <2>1, <2>5, <2>6, <2>7, <2>8
<1> QED
  BY <1>1, <1>2, InitInv, NextInv, AccountStep, PTL DEF Spec

-------------------------------------------------------------------------------
(***************************************************************************)
(* exec and local are kept to.                                             *)
(***************************************************************************)

\* A file that the method asked for may have written.
Kept(contents) == contents = Absent \/ contents.by = target.dump_method

\* backup stands only where the method leads it.
MethodInv ==
  /\ pc \in {"remote", "exec"} => target.dump_method \in {"auto", "exec"}
  /\ pc \in {"local", "dumping"} => target.dump_method \in {"auto", "local"}
  /\ target.dump_method # "auto" => \A p \in Path : Kept(files[p])

LEMMA MethodMeansKept ==
  MethodInv => MethodIsKeptTo
BY DEF MethodInv, MethodIsKeptTo, Kept

LEMMA FirstAttemptKeeps ==
  ASSUME IInv
  PROVE  /\ FirstAttempt \in {"remote", "local"}
         /\ FirstAttempt = "remote" => target.dump_method \in {"auto", "exec"}
         /\ FirstAttempt = "local" => target.dump_method \in {"auto", "local"}
BY DEF FirstAttempt, IInv, TypeOK, Target, DumpMethod

\* What is written in a step was there before, or the method wrote it.
KeepsFiles(fs) ==
  target.dump_method # "auto" => \A p \in Path : Kept(fs[p])

LEMMA WriteKeeps ==
  ASSUME NEW fs \in [Path -> Contents], KeepsFiles(fs), NEW p \in Path, NEW contents,
         target.dump_method # "auto" => Kept(contents)
  PROVE  KeepsFiles([fs EXCEPT ![p] = contents])
BY DEF KeepsFiles

LEMMA SettleKeeps ==
  ASSUME IInv, NEW arts, NEW errs, Settle(arts, errs), KeepsFiles(files')
  PROVE  MethodInv'
<1>1. target' = target /\ pc' \in {FirstAttempt, "returned"}
  BY DEF Settle, Return
<1> QED
  BY <1>1, FirstAttemptKeeps DEF MethodInv, KeepsFiles, Kept

LEMMA NoArtifactKeeps ==
  ASSUME IInv, Running, NEW fs \in [Path -> Contents], NEW errs, NoArtifact(fs, errs),
         KeepsFiles(fs)
  PROVE  MethodInv'
<1>1. OutputPath(Current) \in Path
  BY CurrentPathFacts
<1>2. files' = [fs EXCEPT ![OutputPath(Current)] = Absent] \/ files' = fs
  BY DEF NoArtifact
<1>3. KeepsFiles([fs EXCEPT ![OutputPath(Current)] = Absent])
  BY <1>1, WriteKeeps DEF Kept
<1>4. KeepsFiles(files')
  BY <1>2, <1>3
<1>5. Settle(artifacts, errs)
  BY DEF NoArtifact
<1> QED
  BY <1>4, <1>5, SettleKeeps

LEMMA HasArtifactKeeps ==
  ASSUME IInv, HasArtifact, KeepsFiles(files')
  PROVE  MethodInv'
<1>1. CASE Current.format = "sql_gzip"
  <2>1. pc' = "compress" /\ target' = target
    BY <1>1 DEF HasArtifact, Continue
  <2> QED
    BY <2>1 DEF MethodInv, KeepsFiles, Kept
<1>2. CASE Current.format # "sql_gzip"
  BY <1>2, SettleKeeps DEF HasArtifact
<1> QED
  BY <1>1, <1>2

LEMMA RemoteFailedKeeps ==
  ASSUME IInv, Running, pc \in {"remote", "exec"}, MethodInv,
         NEW fs \in [Path -> Contents], RemoteFailed(fs), KeepsFiles(fs)
  PROVE  MethodInv'
<1>1. CASE target.dump_method = "exec"
  BY <1>1, NoArtifactKeeps DEF RemoteFailed
<1>2. CASE target.dump_method # "exec"
  <2>1. files' = fs /\ pc' = "local" /\ target' = target
    BY <1>2 DEF RemoteFailed, Continue
  <2>2. target.dump_method = "auto"
    BY <1>2 DEF MethodInv
  <2> QED
    BY <2>1, <2>2 DEF MethodInv
<1> QED
  BY <1>1, <1>2

LEMMA MethodStep ==
  IInv /\ MethodInv /\ [Next]_vars => MethodInv'
<1> SUFFICES ASSUME IInv, MethodInv, [Next]_vars
             PROVE  MethodInv'
  OBVIOUS
<1> DEFINE output == OutputPath(Current)
           final == FinalPath(Current)
           partial == TemporaryPath(output)
           zipping == TemporaryPath(final)
           method == target.dump_method
<1>1. files \in [Path -> Contents] /\ KeepsFiles(files) /\ Kept(Absent)
  BY DEF IInv, TypeOK, MethodInv, KeepsFiles, Kept
<1>2. /\ pc \in {"remote", "exec"} => method \in {"auto", "exec"}
      /\ pc \in {"local", "dumping"} => method \in {"auto", "local"}
  BY DEF MethodInv
<1>3. Running => /\ output \in Path /\ final \in Path /\ partial \in Path /\ zipping \in Path
                 /\ Current \in Job(target)
  BY CurrentPathFacts, CurrentFacts DEF IInv, BackupInv
<1>4. \A by \in {"exec", "local"} : \A complete \in BOOLEAN :
        /\ Dump(Current, complete, by).by = by
        /\ Running => Dump(Current, complete, by) \in Contents
  BY <1>3, ContentsFacts DEF Dump
<1>5. Absent \in Contents
  BY DEF Absent, Contents
<1>6. ASSUME NEW p \in Path
      PROVE  /\ [files EXCEPT ![p] = Absent] \in [Path -> Contents]
             /\ KeepsFiles([files EXCEPT ![p] = Absent])
  BY <1>1, <1>5, WriteKeeps
<1> HIDE DEF output, final, partial, zipping
<1>7. CASE RejectFormat
  BY <1>7, <1>1 DEF RejectFormat, Return, MethodInv, KeepsFiles, Kept
<1>8. CASE Start
  <2>1. pc' = FirstAttempt /\ UNCHANGED <<target, files>>
    BY <1>8 DEF Start
  <2> QED
    BY <2>1, <1>1, FirstAttemptKeeps DEF MethodInv, KeepsFiles, Kept
<1>9. CASE Reject \/ DefaultsFileUnwritten \/ LocalRaises \/ Killed
  <2>1. pc' \in {"raised", "killed"} /\ UNCHANGED <<target, files>>
    BY <1>9 DEF Reject, DefaultsFileUnwritten, LocalRaises, Killed, Raise
  <2> QED
    BY <2>1, <1>1 DEF MethodInv, KeepsFiles, Kept
<1>10. CASE RemoteUnavailable
  <2>1. Running /\ pc = "remote" /\ RemoteFailed(files)
    BY <1>10 DEF RemoteUnavailable, Running, Over
  <2> QED
    BY <2>1, <1>1, RemoteFailedKeeps
<1>11. CASE StartExec
  <2>1. /\ Running /\ pc = "remote" /\ pc' = "exec" /\ target' = target
        /\ files' = [files EXCEPT ![partial] = Dump(Current, FALSE, "exec")]
    BY <1>11 DEF StartExec, Continue, Written, Running, Over, output, partial
  <2>2. method # "auto" => Kept(Dump(Current, FALSE, "exec"))
    BY <2>1, <1>2, <1>4 DEF Kept
  <2>3. KeepsFiles(files')
    BY <2>1, <2>2, <1>1, <1>3, WriteKeeps
  <2> QED
    BY <2>1, <2>3, <1>2 DEF MethodInv, KeepsFiles, Kept
<1>12. CASE ExecSucceeds
  <2> DEFINE unlinked == [files EXCEPT ![partial] = Absent]
  <2>1. Running /\ pc = "exec" /\ HasArtifact
    BY <1>12 DEF ExecSucceeds, Running, Over
  <2>2. PICK complete \in {TRUE, ExitCodeRecorded} :
          files' = [unlinked EXCEPT ![output] = Dump(Current, complete, "exec")]
    BY <1>12 DEF ExecSucceeds, Unlinked, Written, output, partial
  <2>3. complete \in BOOLEAN
    BY DEF ExitCodeRecorded, IInv, TypeOK, Target
  <2>4. method # "auto" => Kept(Dump(Current, complete, "exec"))
    BY <2>1, <2>3, <1>2, <1>4 DEF Kept
  <2>5. unlinked \in [Path -> Contents] /\ KeepsFiles(unlinked)
    BY <2>1, <1>3, <1>6
  <2> HIDE DEF unlinked
  <2>6. KeepsFiles(files')
    BY <2>1, <2>2, <2>4, <2>5, <1>3, WriteKeeps
  <2> QED
    BY <2>1, <2>6, HasArtifactKeeps
<1>13. CASE ExecFails
  <2> DEFINE unlinked == [files EXCEPT ![partial] = Absent]
  <2>1. Running /\ pc = "exec" /\ RemoteFailed(unlinked)
    BY <1>13 DEF ExecFails, Running, Over, Unlinked, Written, output, partial
  <2>2. unlinked \in [Path -> Contents] /\ KeepsFiles(unlinked)
    BY <2>1, <1>3, <1>6
  <2> HIDE DEF unlinked
  <2> QED
    BY <2>1, <2>2, RemoteFailedKeeps
<1>14. CASE ExecRaises
  <2>1. Running /\ pc' = "raised" /\ target' = target
        /\ files' = [files EXCEPT ![partial] = Absent]
    BY <1>14 DEF ExecRaises, Raise, Running, Over, Unlinked, Written, output, partial
  <2>2. KeepsFiles(files')
    BY <2>1, <1>3, <1>6
  <2> QED
    BY <2>1, <2>2 DEF MethodInv, KeepsFiles, Kept
<1>15. CASE StartLocal
  <2>1. /\ Running /\ pc = "local" /\ pc' = "dumping" /\ target' = target
        /\ files' = [files EXCEPT ![output] = Dump(Current, FALSE, "local")]
    BY <1>15 DEF StartLocal, Continue, Written, Running, Over, output
  <2>2. method # "auto" => Kept(Dump(Current, FALSE, "local"))
    BY <2>1, <1>2, <1>4 DEF Kept
  <2>3. KeepsFiles(files')
    BY <2>1, <2>2, <1>1, <1>3, WriteKeeps
  <2> QED
    BY <2>1, <2>3, <1>2 DEF MethodInv, KeepsFiles, Kept
<1>16. CASE LocalSucceeds
  <2>1. /\ Running /\ pc = "dumping" /\ HasArtifact
        /\ files' = [files EXCEPT ![output] = Dump(Current, TRUE, "local")]
    BY <1>16 DEF LocalSucceeds, Written, Running, Over, output
  <2>2. method # "auto" => Kept(Dump(Current, TRUE, "local"))
    BY <2>1, <1>2, <1>4 DEF Kept
  <2>3. KeepsFiles(files')
    BY <2>1, <2>2, <1>1, <1>3, WriteKeeps
  <2> QED
    BY <2>1, <2>3, HasArtifactKeeps
<1>17. CASE LocalFails
  <2>1. Running /\ NoArtifact(files, Failed("local"))
    BY <1>17 DEF LocalFails, Running, Over
  <2> QED
    BY <2>1, <1>1, NoArtifactKeeps
<1>18. CASE StartCompression
  <2> DEFINE copy == [files[output] EXCEPT !.complete = FALSE]
  <2>1. /\ Running /\ pc' = "compressing" /\ target' = target
        /\ files' = [files EXCEPT ![zipping] = copy]
    BY <1>18 DEF StartCompression, Continue, Written, Running, Over, output, final, zipping
  <2>2. method # "auto" => Kept(copy)
    <3>1. files[output] \in Contents /\ (method # "auto" => Kept(files[output]))
      BY <2>1, <1>1, <1>3 DEF KeepsFiles
    <3>2. copy.by = files[output].by
      BY <3>1 DEF Contents
    <3>3. files[output] = Absent => copy = Absent
      <4>1. \A f \in Contents : f.complete = FALSE => [f EXCEPT !.complete = FALSE] = f
        BY DEF Contents
      <4>2. Absent \in Contents /\ Absent.complete = FALSE
        BY <1>5 DEF Absent
      <4> QED
        BY <4>1, <4>2
    <3> QED
      BY <3>1, <3>2, <3>3 DEF Kept
  <2> HIDE DEF copy
  <2>3. KeepsFiles(files')
    BY <2>1, <2>2, <1>1, <1>3, WriteKeeps
  <2> QED
    BY <2>1, <2>3 DEF MethodInv, KeepsFiles, Kept
<1>19. CASE CompressionSucceeds
  <2>1. /\ Running /\ Settle(artifacts \cup {job}, errors)
        /\ files' = [p \in Path |-> CASE p = final -> files[output]
                                      [] p \in {zipping, output} -> Absent
                                      [] OTHER -> files[p]]
    BY <1>19 DEF CompressionSucceeds, Running, Over, output, final, zipping
  <2>2. \A p \in Path : files'[p] \in {files[output], Absent, files[p]}
    BY <2>1
  <2>3. KeepsFiles(files')
    BY <2>1, <2>2, <1>1, <1>3 DEF KeepsFiles
  <2> QED
    BY <2>1, <2>3, SettleKeeps
<1>20. CASE CompressionFails
  <2> DEFINE unlinked == [files EXCEPT ![zipping] = Absent]
  <2>1. Running /\ NoArtifact(unlinked, Failed("gzip"))
    BY <1>20 DEF CompressionFails, Running, Over, Unlinked, Written, output, final, zipping
  <2>2. unlinked \in [Path -> Contents] /\ KeepsFiles(unlinked)
    BY <2>1, <1>3, <1>6
  <2> HIDE DEF unlinked
  <2> QED
    BY <2>1, <2>2, NoArtifactKeeps
<1>21. CASE UNCHANGED vars
  BY <1>21 DEF vars, MethodInv, Kept
<1> QED
  BY <1>7, <1>8, <1>9, <1>10, <1>11, <1>12, <1>13, <1>14, <1>15, <1>16, <1>17, <1>18, <1>19,
     <1>20, <1>21 DEF Next

\* Under exec no file is ever written by the local client, and under local none by
\* a command in the container, whatever fails and however often.
THEOREM MethodsAreKeptTo == Spec => []MethodIsKeptTo
<1>1. Init => MethodInv
  BY DEF Init, MethodInv, Kept
<1> QED
  BY <1>1, InitInv, NextInv, MethodStep, MethodMeansKept, PTL DEF Spec

===============================================================================

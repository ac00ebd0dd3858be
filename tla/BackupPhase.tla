------------------------------ MODULE BackupPhase ------------------------------
(***************************************************************************)
(* The first half of run_once: DockerContainerDiscovery.discover,          *)
(* _resolve_targets and _backup_targets, up to the first _finish_run,      *)
(* which module Orchestrator takes in two steps.  The containers that run  *)
(* when it starts have any labels and environment out of Metadata; Docker, *)
(* the disk and the dumps may fail at every step.                          *)
(*                                                                         *)
(* A database provider's backup is one step with the outcomes module       *)
(* DatabaseBackup has; FilesystemArchiveBackupProvider.backup is modelled  *)
(* directory by directory.  Of an error the source, the container or       *)
(* database it names and the output path are kept; errors that agree in    *)
(* all three count once.                                                   *)
(***************************************************************************)
EXTENDS MetadataResolver

CONSTANTS
  Names,       \* the names of the running containers, in the order Docker lists them
  Metadata     \* bound: the labels and environments considered

ASSUME NamesAssumption == Names \in Seq(STRING)
ASSUME MetadataAssumption ==
  \A c \in Metadata : Directories(c) \in Seq(ToSet(Directories(c)))

VARIABLES
  metadata,     \* the labels and environment of each container
  pc,           \* where run_once stands
  at,           \* index in the list being worked through
  discovered,   \* result of discover
  targets,      \* run.targets
  directory,    \* index of the directory a filesystem target has reached
  copied,       \* what extracted_root holds of each directory
  failures,     \* the errors of the filesystem provider's current call
  errors,       \* run.errors
  artifacts,    \* run.artifacts
  status        \* run.status

vars == <<metadata, pc, at, discovered, targets, directory, copied, failures,
          errors, artifacts, status>>

Error(source, names, output) == [source |-> source, names |-> names, output |-> output]
NoOutput == <<Blank, Blank>>

\* The directory a provider writes into, _target_output_dir; taken for different
\* containers to differ, which _safe_name spoils for a name that ends in a hyphen.
OutputOf(t) == <<t.db_type, t.container>>

Copied == {"absent", "partial", "whole"}

Init ==
  /\ metadata \in [1..Len(Names) -> Metadata]
  /\ pc = "start"
  /\ at = 1
  /\ discovered = <<>>
  /\ targets = <<>>
  /\ directory = 1
  /\ copied = <<>>
  /\ failures = {}
  /\ errors = {}
  /\ artifacts = {}
  /\ status = "pending"

\* generate_run_id, create_run.
StartRun ==
  /\ pc = "start"
  /\ pc' = "discover"
  /\ status' = "running"
  /\ UNCHANGED <<metadata, at, discovered, targets, directory, copied, failures,
                 errors, artifacts>>

-------------------------------------------------------------------------------
(***************************************************************************)
(* Discovery.                                                              *)
(***************************************************************************)

FinishWith(st, errs) ==
  /\ status' = st
  /\ errors' = errs
  /\ pc' = "finished"

\* list_running_containers or, once a container has been found to opt in,
\* inspect_container raises DockerSocketError: DiscoveryError, caught by run_once.
DiscoveryFails ==
  /\ pc = "discover"
  /\ at = 1 \/ (at <= Len(Names) /\ IsEnabled(metadata[at]))
  /\ FinishWith("failed", {Error("discovery", Blank, NoOutput)})
  /\ UNCHANGED <<metadata, at, discovered, targets, directory, copied, failures, artifacts>>

InspectContainer ==
  /\ pc = "discover"
  /\ at <= Len(Names)
  /\ discovered' = IF IsEnabled(metadata[at]) THEN Append(discovered, at) ELSE discovered
  /\ at' = at + 1
  /\ UNCHANGED <<metadata, pc, targets, directory, copied, failures, errors, artifacts, status>>

DiscoveryComplete ==
  /\ pc = "discover"
  /\ at > Len(Names)
  /\ pc' = "resolve"
  /\ at' = 1
  /\ UNCHANGED <<metadata, discovered, targets, directory, copied, failures, errors,
                 artifacts, status>>

-------------------------------------------------------------------------------
(***************************************************************************)
(* _resolve_targets.                                                       *)
(***************************************************************************)

\* Mutant of ResolveContainer: a rejected container is skipped like one that
\* did not opt in.
ResolveContainerQuietly ==
  /\ pc = "resolve"
  /\ at <= Len(discovered)
  /\ LET c == metadata[discovered[at]]
     IN  targets' = IF IsRejected(c) THEN targets ELSE targets \o Targets(c, Names[discovered[at]])
  /\ at' = at + 1
  /\ UNCHANGED <<metadata, pc, discovered, directory, copied, failures, errors, artifacts, status>>

ResolveContainer ==
  /\ pc = "resolve"
  /\ at <= Len(discovered)
  /\ LET c == metadata[discovered[at]]
         name == Names[discovered[at]]
     IN  IF IsRejected(c)
         THEN /\ errors' = errors \cup {Error("metadata", name, NoOutput)}
              /\ UNCHANGED targets
         ELSE /\ targets' = targets \o Targets(c, name)
              /\ UNCHANGED errors
  /\ at' = at + 1
  /\ UNCHANGED <<metadata, pc, discovered, directory, copied, failures, artifacts, status>>

TargetsResolved ==
  /\ pc = "resolve"
  /\ at > Len(discovered)
  /\ IF targets = <<>>
     THEN /\ FinishWith("failed", errors \cup {Error("discovery", Blank, NoOutput)})
          /\ UNCHANGED at
     ELSE /\ pc' = "backup"
          /\ at' = 1
          /\ UNCHANGED <<errors, status>>
  /\ UNCHANGED <<metadata, discovered, targets, directory, copied, failures, artifacts>>

-------------------------------------------------------------------------------
(***************************************************************************)
(* _backup_targets; every target has its provider.                         *)
(***************************************************************************)

Target == targets[at]
AtTarget == pc = "backup" /\ at <= Len(targets)

\* validate raises ValueError, which nothing up to the scheduler catches.
InvalidTarget ==
  /\ AtTarget
  /\ ~IsValid(Target)
  /\ pc' = "raised"
  /\ UNCHANGED <<metadata, at, discovered, targets, directory, copied, failures,
                 errors, artifacts, status>>

\* The label asks for a format that PostgreSQL cannot give: nothing is dumped, and
\* the one error tells neither the container, nor a database, nor an output path.
RefuseFormat ==
  /\ AtTarget
  /\ IsValid(Target)
  /\ IsFormatRefused(Target)
  /\ errors' = errors \cup {Error("provider", Blank, NoOutput)}
  /\ at' = at + 1
  /\ UNCHANGED <<metadata, pc, discovered, targets, directory, copied, failures,
                 artifacts, status>>

\* A dump is made, or an error names the database it was of, or the target: the
\* provider may do some of each.  _provider_errors_to_run_errors puts the name
\* of the database where those of the container belong.
BackUpDatabase ==
  /\ AtTarget
  /\ Target.db_type \in Engine
  /\ IsValid(Target)
  /\ ~IsFormatRefused(Target)
  /\ \E made \in BOOLEAN, failed \in SUBSET (ToSet(Target.databases) \cup {Blank}) :
       /\ made \/ failed # {}
       /\ artifacts' = IF made
                       THEN artifacts \cup {[output |-> OutputOf(Target), holds |-> <<>>]}
                       ELSE artifacts
       /\ errors' = errors \cup {Error("provider", name, OutputOf(Target)) : name \in failed}
  /\ at' = at + 1
  /\ UNCHANGED <<metadata, pc, discovered, targets, directory, copied, failures, status>>

\* FilesystemArchiveBackupProvider.backup: an empty extracted_root.
BeginArchive ==
  /\ AtTarget
  /\ Target.db_type = "filesystem"
  /\ IsValid(Target)
  /\ pc' = "copy"
  /\ directory' = 1
  /\ copied' = [d \in ToSet(Target.directories) |-> "absent"]
  /\ failures' = {}
  /\ UNCHANGED <<metadata, at, discovered, targets, errors, artifacts, status>>

Copying == pc = "copy" /\ directory <= Len(Target.directories)

DirectoryFailed ==
  failures' = failures \cup {Error("provider", Target.directories[directory].path, OutputOf(Target))}

\* get_archive raises DockerSocketError.
GetArchiveFails ==
  /\ Copying
  /\ DirectoryFailed
  /\ directory' = directory + 1
  /\ UNCHANGED <<metadata, pc, at, discovered, targets, copied, errors, artifacts, status>>

\* What extracting d into extracted_root, as far as it got, leaves there.  Its
\* files lie under its base name, and replace those another directory with
\* this base name has put there.
Extracted(d, got, replaced) ==
  [e \in DOMAIN copied |->
     CASE e = d -> IF copied[d] = "whole" THEN "whole" ELSE got
       [] e # d /\ e.base = d.base /\ e \in replaced -> "partial"
       [] OTHER -> copied[e]]

\* _extract_container_archive; a TarError or an OSError may leave part of the
\* directory behind.
ExtractArchive ==
  /\ Copying
  /\ \E got \in Copied,
        replaced \in SUBSET {e \in DOMAIN copied : copied[e] # "absent"} :
       /\ replaced = {} \/ got # "absent"
       /\ copied' = Extracted(Target.directories[directory], got, replaced)
       /\ IF got = "whole" THEN UNCHANGED failures ELSE DirectoryFailed
  /\ directory' = directory + 1
  /\ UNCHANGED <<metadata, pc, at, discovered, targets, errors, artifacts, status>>

AnythingCopied == \E d \in DOMAIN copied : copied[d] # "absent"

\* Mutant of WriteArchive: with an archive, the errors of the directories are
\* forgotten.
WriteArchiveClean ==
  /\ pc = "copy"
  /\ directory > Len(Target.directories)
  /\ \E written \in {AnythingCopied, FALSE} :
       IF written
       THEN /\ artifacts' = artifacts \cup {[output |-> OutputOf(Target), holds |-> copied]}
            /\ UNCHANGED errors
       ELSE /\ errors' = errors \cup failures \cup {Error("provider", Blank, OutputOf(Target))}
            /\ UNCHANGED artifacts
  /\ pc' = "backup"
  /\ at' = at + 1
  /\ UNCHANGED <<metadata, discovered, targets, directory, copied, failures, status>>

\* When something was copied, _write_archive makes the archive of it or raises
\* OSError, one more error; otherwise there is no archive, and one more error
\* only if there was none.
WriteArchive ==
  /\ pc = "copy"
  /\ directory > Len(Target.directories)
  /\ \E written \in {AnythingCopied, FALSE} :
       IF written
       THEN /\ artifacts' = artifacts \cup {[output |-> OutputOf(Target), holds |-> copied]}
            /\ errors' = errors \cup failures
       ELSE /\ errors' = errors \cup failures \cup
                          (IF AnythingCopied \/ failures = {}
                           THEN {Error("provider", Blank, OutputOf(Target))} ELSE {})
            /\ UNCHANGED artifacts
  /\ pc' = "backup"
  /\ at' = at + 1
  /\ UNCHANGED <<metadata, discovered, targets, directory, copied, failures, status>>

\* Mutant of TargetsBackedUp: errors next to artifacts are overlooked.
TargetsBackedUpRegardless ==
  /\ pc = "backup"
  /\ at > Len(targets)
  /\ FinishWith(IF artifacts = {} THEN "failed" ELSE "running", errors)
  /\ UNCHANGED <<metadata, at, discovered, targets, directory, copied, failures, artifacts>>

\* The last lines of _backup_targets, and the return of run_once without an
\* artifact.
TargetsBackedUp ==
  /\ pc = "backup"
  /\ at > Len(targets)
  /\ FinishWith(CASE artifacts = {} -> "failed"
                  [] artifacts # {} /\ errors = {} -> "running"
                  [] artifacts # {} /\ errors # {} -> "partial",
                errors)
  /\ UNCHANGED <<metadata, at, discovered, targets, directory, copied, failures, artifacts>>

\* What no handler of run_once catches: an HTTPException while an answer of
\* Docker is read, an OSError while an archive is read or a directory of the
\* run is made.
Raise ==
  /\ pc = "discover" \/ AtTarget \/ Copying
  /\ pc' = "raised"
  /\ UNCHANGED <<metadata, at, discovered, targets, directory, copied, failures,
                 errors, artifacts, status>>

Next ==
  \/ StartRun
  \/ DiscoveryFails \/ InspectContainer \/ DiscoveryComplete
  \/ ResolveContainer \/ TargetsResolved
  \/ InvalidTarget \/ RefuseFormat \/ BackUpDatabase
  \/ BeginArchive \/ GetArchiveFails \/ ExtractArchive \/ WriteArchive
  \/ TargetsBackedUp
  \/ Raise

Spec == Init /\ [][Next]_vars

-------------------------------------------------------------------------------
(***************************************************************************)
(* Properties.                                                             *)
(***************************************************************************)

\* The invalid port and the relative directory are the only mistakes in labels
\* and environment that reach a provider's validate, whose ValueError ends the
\* run: whatever else a provider insists on, the resolver has seen to it.
ResolvedTargetsAreValid ==
  \A t \in ToSet(targets) :
    IF t.db_type = "filesystem"
    THEN (\A d \in ToSet(t.directories) : d.absolute) => IsValid(t)
    ELSE t.port > 0 => IsValid(t)

\* An invalid port is an error of the metadata of one container and never
\* reaches a provider.
InvalidPortsFailResolution ==
  \A t \in ToSet(targets) : t.db_type \in Engine => t.port > 0

HasError(source, names, output) == Error(source, names, output) \in errors

Accounted(t) ==
  \/ \E a \in artifacts : a.output = OutputOf(t)
  \/ \E e \in errors : e.output = OutputOf(t)
  \/ IsFormatRefused(t) /\ HasError("provider", Blank, NoOutput)

\* When the targets have been worked through, of every container that opted in
\* either the metadata are reported, or every target has left an artifact, or
\* an error whose output path tells the target; discovery fails as a whole or
\* not at all.  Of a target whose dump format PostgreSQL refuses the code
\* reports no more than that some format was refused (_resolve_dump_formats).
EveryContainerIsAccountedFor ==
  pc = "finished" /\ errors # {Error("discovery", Blank, NoOutput)} =>
    \A i \in 1..Len(Names) :
      IsEnabled(metadata[i]) =>
        IF IsRejected(metadata[i])
        THEN HasError("metadata", Names[i], NoOutput)
        ELSE \A t \in ToSet(Targets(metadata[i], Names[i])) : Accounted(t)

\* An archive in the manifest holds the whole of every directory the labels of
\* the container list, unless an error of the run names the directory: partly
\* extracted and missing directories never pass for backed up.  Directories
\* that share a base name are the exception, in the archive they become one.
ArchiveAccountsForDirectories ==
  \A a \in artifacts :
    \A d \in DOMAIN a.holds :
      \/ a.holds[d] = "whole"
      \/ HasError("provider", d.path, a.output)
      \/ \E e \in DOMAIN a.holds \ {d} : e.base = d.base

-------------------------------------------------------------------------------
(***************************************************************************)
(* The inductive invariant behind EveryContainerIsAccountedFor: how far    *)
(* each loop has got, and what it has seen to.                             *)
(***************************************************************************)

Step == {"start", "discover", "resolve", "backup", "copy", "finished", "raised"}
Discovered(i) == i \in ToSet(discovered)

Resolved(i) ==
  IF IsRejected(metadata[i])
  THEN HasError("metadata", Names[i], NoOutput)
  ELSE ToSet(Targets(metadata[i], Names[i])) \subseteq ToSet(targets)

LoopsInv ==
  /\ pc \in Step
  /\ at \in Nat \ {0}
  /\ discovered \in Seq(1..Len(Names))
  /\ targets \in Seq(ToSet(targets))
  /\ pc \in {"start", "discover"} =>
       \A i \in 1..Len(Names) : i < at /\ IsEnabled(metadata[i]) => Discovered(i)
  /\ pc \in {"resolve", "backup", "copy"} =>
       \A i \in 1..Len(Names) : IsEnabled(metadata[i]) => Discovered(i)
  /\ pc = "resolve" => \A j \in 1..Len(discovered) : j < at => Resolved(discovered[j])
  /\ pc \in {"backup", "copy"} => \A j \in 1..Len(discovered) : Resolved(discovered[j])
  /\ pc \in {"backup", "copy"} => \A k \in 1..Len(targets) : k < at => Accounted(targets[k])
  /\ pc = "copy" => at <= Len(targets)
  /\ pc = "copy" => \A f \in failures : f.source = "provider" /\ f.output = OutputOf(Target)

\* What run_once sees of it so far.
OutcomeInv ==
  /\ pc = "start" => status = "pending"
  /\ pc \notin {"start", "finished"} => status = "running"
  /\ pc = "finished" => status \in {"running", "partial", "failed"}
  /\ pc = "finished" => (status = "failed" <=> artifacts = {})
  /\ pc = "finished" => (status = "running" <=> errors = {})
  /\ pc \in {"start", "discover"} => errors = {}
  /\ pc \in {"start", "discover", "resolve"} => artifacts = {}
  /\ pc \in {"backup", "copy"} => targets # <<>>

\* What the loop over the directories of a filesystem target has seen to.
DirectoryAccounted(d) ==
  \/ copied[d] = "whole"
  \/ Error("provider", d.path, OutputOf(Target)) \in failures
  \/ \E e \in DOMAIN copied \ {d} : e.base = d.base

CopyInv ==
  /\ metadata \in [1..Len(Names) -> Metadata]
  /\ \A t \in ToSet(targets) : t.directories \in Seq(ToSet(t.directories))
  /\ pc = "copy" =>
       /\ directory \in Nat \ {0}
       /\ DOMAIN copied = ToSet(Target.directories)
       /\ \A k \in 1..Len(Target.directories) :
            k < directory => DirectoryAccounted(Target.directories[k])
  /\ ArchiveAccountsForDirectories

PhaseInv == LoopsInv /\ OutcomeInv /\ EveryContainerIsAccountedFor /\ CopyInv

-------------------------------------------------------------------------------
(***************************************************************************)
(* One invocation of Orchestrator, up to the publication of its run.  It   *)
(* resolves in one step and backs everything up in another, which is when  *)
(* the errors and the artifacts of the steps here come to count.           *)
(***************************************************************************)

MetadataErrors == {e \in errors : e.source = "metadata"}

RunPc ==
  CASE pc = "start" -> "idle"
    [] pc \in {"discover", "resolve"} -> "discover"
    [] pc \in {"backup", "copy"} -> "backup"
    [] pc = "raised" -> "crashed"
    [] OTHER -> IF status = "failed" THEN "done" ELSE "sync"

RunErrors ==
  CASE pc \in {"backup", "copy", "raised"} -> MetadataErrors # {}
    [] pc = "finished" -> errors # {}
    [] OTHER -> FALSE

RunArtifacts == pc = "finished" /\ artifacts # {}

Staged ==
  [present |-> pc # "start",
   manifest |-> [status |-> IF pc = "finished" THEN status ELSE "none", finished |-> 0],
   data |-> RunArtifacts]

TheRun(value) == [r \in 1..1 |-> value]

RunOnce == INSTANCE Orchestrator WITH
  NumRuns <- 1, MaxDay <- 0, RetentionDays <- 1, Overlap <- FALSE, Providers <- <<"local">>,
  now <- 0, pc <- TheRun(RunPc), started <- TheRun(0), status <- TheRun(status),
  errors <- TheRun(RunErrors), artifacts <- TheRun(RunArtifacts), expired <- TheRun({}),
  next <- TheRun(1), succeeded <- TheRun({}), staged <- TheRun(Staged),
  store <- [b \in {"local", "rsync", "ftp"} |->
              TheRun([present |-> FALSE, manifest |-> [status |-> "none", finished |-> 0],
                      data |-> FALSE])]

\* Whatever discovery, resolver and providers do, run_once sees one of the
\* outcomes Orchestrator has for them: a failed run with its manifest, a run
\* with artifacts whose status is partial if and only if there was an error, or
\* an exception.
ImplementsRunOnce == RunOnce!Spec
===============================================================================

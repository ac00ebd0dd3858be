--------------------------- MODULE BackupPhaseProofs ---------------------------
(***************************************************************************)
(* Theorems about the first half of run_once, for every number of          *)
(* containers and every labels and environment they may have.              *)
(***************************************************************************)
EXTENDS BackupPhase, SequenceTheorems, TLAPS

-------------------------------------------------------------------------------
(***************************************************************************)
(* What the resolver makes of a container.                                 *)
(***************************************************************************)

\* A target of a container that is not rejected is one a provider accepts, but
\* for its port and its relative directories.
LEMMA TargetsAreValid ==
  ASSUME NEW c, NEW name, ~IsRejected(c), NEW t \in ToSet(Targets(c, name))
  PROVE  IF t.db_type = "filesystem"
         THEN (\A d \in ToSet(t.directories) : d.absolute) => IsValid(t)
         ELSE t.port > 0 => IsValid(t)
<1> DEFINE engines == RequestedTypes(c) \cap Engine
           engine == CHOOSE e \in engines : TRUE
           database == DatabaseTarget(c, name, engine)
           archive == FilesystemTarget(c, name)
<1>1. \/ t = database /\ engines # {}
      \/ t = archive /\ "filesystem" \in RequestedTypes(c)
  <2>1. engines # {} \/ "filesystem" \in RequestedTypes(c)
    BY DEF IsRejected, RequestedTypes, NormalizeBackupType, Engine
  <2>2. Directories(c) # <<>> => "filesystem" \in RequestedTypes(c)
    BY DEF IsRejected
  <2> HIDE DEF database, archive
  <2>3. \/ Targets(c, name) = <<archive>> /\ engines = {}
        \/ Targets(c, name) = <<database>> /\ engines # {}
        \/ Targets(c, name) = <<database, archive>> /\ engines # {} /\ Directories(c) # <<>>
    BY DEF Targets, database, archive
  <2> HIDE DEF engines
  <2> QED
    BY <2>1, <2>2, <2>3 DEF ToSet
<1>2. CASE t = database /\ engines # {}
  <2>1. engine \in RequestedTypes(c) \cap Engine
    BY <1>2
  <2>2. MissingFields(c, engine) = {}
    BY <2>1 DEF IsRejected
  <2>3. /\ SelectValue(c, engine, "user") # Blank
        /\ SelectValue(c, engine, "host") # Blank
        /\ SelectValue(c, engine, "password") # Blank
    BY <2>2 DEF MissingFields
  <2> HIDE DEF engine, engines
  <2>4. /\ t.db_type = engine
        /\ t.host = SelectValue(c, engine, "host")
        /\ t.user = SelectValue(c, engine, "user")
        /\ t.password = SelectValue(c, engine, "password")
        /\ t.all_databases = (t.databases = <<>>)
    BY <1>2 DEF DatabaseTarget
  <2>5. t.db_type # "filesystem"
    BY <2>1, <2>4 DEF Engine
  <2> QED
    BY <2>3, <2>4, <2>5 DEF IsValid
<1>3. CASE t = archive /\ "filesystem" \in RequestedTypes(c)
  <2>1. t.db_type = "filesystem" /\ t.directories = Directories(c)
    BY <1>3 DEF FilesystemTarget
  <2>2. Directories(c) # <<>>
    BY <1>3 DEF IsRejected
  <2> QED
    BY <2>1, <2>2 DEF IsValid
<1> QED
  BY <1>1, <1>2, <1>3

LEMMA TargetsSequence ==
  ASSUME NEW c, NEW name
  PROVE  Targets(c, name) \in Seq(ToSet(Targets(c, name)))
<1> DEFINE database == DatabaseTarget(c, name, CHOOSE e \in RequestedTypes(c) \cap Engine : TRUE)
           archive == FilesystemTarget(c, name)
<1> HIDE DEF database, archive
<1>1. \/ Targets(c, name) = <<database>>
      \/ Targets(c, name) = <<archive>>
      \/ Targets(c, name) = <<database, archive>>
  BY DEF Targets, database, archive
<1>2. CASE Targets(c, name) = <<database>>
  BY <1>2 DEF ToSet
<1>3. CASE Targets(c, name) = <<archive>>
  BY <1>3 DEF ToSet
<1>4. CASE Targets(c, name) = <<database, archive>>
  BY <1>4 DEF ToSet
<1> QED
  BY <1>1, <1>2, <1>3, <1>4

\* The elements of a concatenation.
LEMMA ToSetConcat ==
  ASSUME NEW s, NEW t, s \in Seq(ToSet(s)), t \in Seq(ToSet(t))
  PROVE  /\ s \o t \in Seq(ToSet(s \o t))
         /\ ToSet(s \o t) = ToSet(s) \cup ToSet(t)
<1> DEFINE S == ToSet(s) \cup ToSet(t)
<1>1. s \in Seq(S) /\ t \in Seq(S)
  BY DEF ToSet
<1> HIDE DEF S
<1>2. /\ s \o t \in Seq(S)
      /\ Len(s \o t) = Len(s) + Len(t)
      /\ \A i \in 1..Len(s) + Len(t) : (s \o t)[i] = IF i <= Len(s) THEN s[i] ELSE t[i - Len(s)]
  BY <1>1
<1>3. DOMAIN s = 1..Len(s) /\ DOMAIN t = 1..Len(t) /\ DOMAIN (s \o t) = 1..(Len(s) + Len(t))
      /\ Len(s) \in Nat /\ Len(t) \in Nat
  BY <1>1, <1>2
<1>4. ToSet(s \o t) \subseteq ToSet(s) \cup ToSet(t)
  BY <1>2, <1>3 DEF ToSet
<1>5. ToSet(s) \subseteq ToSet(s \o t)
  BY <1>2, <1>3 DEF ToSet
<1>6. ASSUME NEW j \in 1..Len(t)
      PROVE  t[j] \in ToSet(s \o t)
  <2>1. Len(s) + j \in 1..(Len(s) + Len(t)) /\ (s \o t)[Len(s) + j] = t[j]
    BY <1>2, <1>3
  <2> QED
    BY <1>3, <2>1 DEF ToSet
<1>7. ToSet(s \o t) = ToSet(s) \cup ToSet(t)
  BY <1>3, <1>4, <1>5, <1>6 DEF ToSet
<1> QED
  BY <1>2, <1>7 DEF S

-------------------------------------------------------------------------------
(***************************************************************************)
(* Nothing is taken back: what has been seen to remains seen to.           *)
(***************************************************************************)

LEMMA DiscoveredStays ==
  ASSUME NEW i, Discovered(i), discovered' = discovered
  PROVE  Discovered(i)'
BY DEF Discovered

LEMMA ResolvedStays ==
  ASSUME NEW i, Resolved(i), metadata' = metadata, errors \subseteq errors',
         ToSet(targets) \subseteq ToSet(targets')
  PROVE  Resolved(i)'
BY DEF Resolved, HasError

LEMMA AccountedStays ==
  ASSUME NEW t, Accounted(t), errors \subseteq errors', artifacts \subseteq artifacts'
  PROVE  Accounted(t)'
BY DEF Accounted, HasError

\* The loops after discovery do not touch its result, nor that of one another.
LEMMA ListsStay ==
  ASSUME LoopsInv, errors \subseteq errors', artifacts \subseteq artifacts',
         UNCHANGED <<metadata, discovered, targets>>,
         pc \in {"backup", "copy"}, pc' \in {"backup", "copy"}, at' \in Nat \ {0},
         \A k \in 1..Len(targets) : k < at' /\ ~(k < at) => Accounted(targets[k])',
         pc' = "copy" =>
           /\ at' <= Len(targets)
           /\ \A f \in failures' : f.source = "provider" /\ f.output = OutputOf(Target)'
  PROVE  LoopsInv'
<1>1. \A i \in 1..Len(Names) : IsEnabled(metadata'[i]) => Discovered(i)'
  BY DiscoveredStays DEF LoopsInv
<1>2. \A j \in 1..Len(discovered) : Resolved(discovered[j])'
  BY ResolvedStays DEF LoopsInv
<1>3. \A k \in 1..Len(targets) : k < at' => Accounted(targets[k])'
  BY AccountedStays DEF LoopsInv
<1>4. targets' \in Seq(ToSet(targets'))
  BY DEF LoopsInv
<1> QED
  BY <1>1, <1>2, <1>3, <1>4 DEF LoopsInv, Step

\* The phase has ended.
LEMMA EndsLoops ==
  ASSUME LoopsInv, UNCHANGED <<at, discovered, targets>>, pc' \in {"finished", "raised"}
  PROVE  LoopsInv'
<1>1. targets' \in Seq(ToSet(targets'))
  BY DEF LoopsInv
<1> QED
  BY <1>1 DEF LoopsInv, Step

-------------------------------------------------------------------------------
(***************************************************************************)
(* Each action preserves LoopsInv.                                         *)
(***************************************************************************)

LEMMA InitLoops ==
  Init => LoopsInv
<1> SUFFICES ASSUME Init
             PROVE  LoopsInv
  OBVIOUS
<1>1. discovered \in Seq(1..Len(Names)) /\ targets \in Seq(ToSet(targets)) /\ Len(targets) = 0
  BY DEF Init
<1>2. Len(Names) \in Nat
  BY NamesAssumption
<1> QED
  BY <1>1, <1>2 DEF Init, LoopsInv, Step

LEMMA DiscoveryLoops ==
  ASSUME LoopsInv, StartRun \/ InspectContainer \/ DiscoveryComplete
  PROVE  LoopsInv'
<1>0. Len(Names) \in Nat
  BY NamesAssumption
<1>t. targets' = targets /\ targets' \in Seq(ToSet(targets'))
  BY DEF LoopsInv, StartRun, InspectContainer, DiscoveryComplete
<1>1. CASE StartRun
  <2>1. \A i \in 1..Len(Names) : i < at' /\ IsEnabled(metadata'[i]) => Discovered(i)'
    BY <1>1, DiscoveredStays DEF LoopsInv, StartRun
  <2> QED
    BY <1>1, <1>t, <2>1 DEF LoopsInv, StartRun, Step
<1>2. CASE InspectContainer
  <2>1. at \in 1..Len(Names) /\ metadata' = metadata /\ pc' = pc /\ pc = "discover" /\ at' = at + 1
    BY <1>0, <1>2 DEF LoopsInv, InspectContainer
  <2> PICK n \in 1..Len(Names) : n = at
    BY <2>1
  <2>2. CASE IsEnabled(metadata[at])
    <3>1. discovered' = Append(discovered, at)
      BY <1>2, <2>2 DEF InspectContainer
    <3>2. /\ discovered' \in Seq(1..Len(Names))
          /\ Len(discovered') = Len(discovered) + 1
          /\ \A j \in 1..Len(discovered) : discovered'[j] = discovered[j]
          /\ discovered'[Len(discovered) + 1] = at
          /\ Len(discovered) \in Nat
      BY <2>1, <3>1 DEF LoopsInv
    <3>3. DOMAIN discovered = 1..Len(discovered) /\ DOMAIN discovered' = 1..(Len(discovered) + 1)
      BY <3>2 DEF LoopsInv
    <3>4. Discovered(n)'
      BY <3>2, <3>3 DEF Discovered, ToSet
    <3>5. ASSUME NEW i, Discovered(i)
          PROVE  Discovered(i)'
      BY <3>2, <3>3, <3>5 DEF Discovered, ToSet
    <3>6. \A i \in 1..Len(Names) : i < at' /\ IsEnabled(metadata'[i]) => Discovered(i)'
      <4>1. ASSUME NEW i \in 1..Len(Names), i < at', IsEnabled(metadata'[i])
            PROVE  Discovered(i)'
        <5>1. i < at \/ i = n
          BY <1>0, <2>1, <4>1
        <5>2. i < at => Discovered(i)
          BY <2>1, <4>1 DEF LoopsInv
        <5> QED
          BY <3>4, <3>5, <5>1, <5>2
      <4> QED
        BY <4>1
    <3> QED
      BY <1>t, <2>1, <3>2, <3>6 DEF LoopsInv, Step
  <2>3. CASE ~IsEnabled(metadata[at])
    <3>1. discovered' = discovered
      BY <1>2, <2>3 DEF InspectContainer
    <3>2. \A i \in 1..Len(Names) : i < at' /\ IsEnabled(metadata'[i]) => Discovered(i)'
      BY <2>1, <2>3, <3>1, DiscoveredStays DEF LoopsInv
    <3> QED
      BY <1>t, <2>1, <3>1, <3>2 DEF LoopsInv, Step
  <2> QED
    BY <2>2, <2>3
<1>3. CASE DiscoveryComplete
  <2>1. \A i \in 1..Len(Names) : IsEnabled(metadata'[i]) => Discovered(i)'
    BY <1>0, <1>3, DiscoveredStays DEF LoopsInv, DiscoveryComplete
  <2>2. Len(discovered) \in Nat
    BY DEF LoopsInv
  <2> QED
    BY <1>3, <1>t, <2>1, <2>2 DEF LoopsInv, DiscoveryComplete, Step
<1> QED
  BY <1>1, <1>2, <1>3

LEMMA ResolveLoops ==
  ASSUME LoopsInv, ResolveContainer
  PROVE  LoopsInv'
<1> PICK n, i : n = at /\ i = discovered[at]
  OBVIOUS
<1> DEFINE c == metadata[i]
<1>1. /\ at \in 1..Len(discovered) /\ at' = at + 1 /\ pc = "resolve" /\ pc' = "resolve"
      /\ UNCHANGED <<metadata, discovered>> /\ errors \subseteq errors'
  BY DEF LoopsInv, ResolveContainer
<1>2. /\ targets' \in Seq(ToSet(targets'))
      /\ ToSet(targets) \subseteq ToSet(targets')
      /\ Resolved(i)'
  <2>1. CASE IsRejected(c)
    <3>1. targets' = targets /\ errors' = errors \cup {Error("metadata", Names[i], NoOutput)}
      BY <2>1 DEF ResolveContainer
    <3>2. targets' \in Seq(ToSet(targets'))
      BY <3>1 DEF LoopsInv
    <3> QED
      BY <1>1, <2>1, <3>1, <3>2 DEF Resolved, HasError
  <2>2. CASE ~IsRejected(c)
    <3>1. targets' = targets \o Targets(c, Names[i])
      BY <2>2 DEF ResolveContainer
    <3>2. /\ targets \in Seq(ToSet(targets))
          /\ Targets(c, Names[i]) \in Seq(ToSet(Targets(c, Names[i])))
      BY TargetsSequence DEF LoopsInv
    <3>3. /\ targets' \in Seq(ToSet(targets'))
          /\ ToSet(targets') = ToSet(targets) \cup ToSet(Targets(c, Names[i]))
      BY <3>1, <3>2, ToSetConcat
    <3> QED
      BY <1>1, <2>2, <3>3 DEF Resolved
  <2> QED
    BY <2>1, <2>2
<1>3. \A j \in 1..Len(discovered) : j < at => Resolved(discovered[j])'
  BY <1>1, <1>2, ResolvedStays DEF LoopsInv
<1>4. \A j \in 1..Len(discovered) : j < at' => Resolved(discovered[j])'
  <2>1. ASSUME NEW j \in 1..Len(discovered), j < at'
        PROVE  Resolved(discovered[j])'
    <3>1. j < at \/ j = n
      BY <1>1, <2>1 DEF LoopsInv
    <3>2. CASE j < at
      BY <1>3, <3>2
    <3>3. CASE j = n
      <4>1. discovered'[j] = i
        BY <1>1, <3>3
      <4> QED
        BY <1>2, <4>1 DEF Resolved, HasError
    <3> QED
      BY <3>1, <3>2, <3>3
  <2> QED
    BY <2>1
<1>5. \A k \in 1..Len(Names) : IsEnabled(metadata'[k]) => Discovered(k)'
  BY <1>1, DiscoveredStays DEF LoopsInv
<1> QED
  BY <1>1, <1>2, <1>4, <1>5 DEF LoopsInv, Step

LEMMA TargetsResolvedLoops ==
  ASSUME LoopsInv, TargetsResolved
  PROVE  LoopsInv'
<1>1. CASE targets = <<>>
  BY <1>1, EndsLoops DEF TargetsResolved, FinishWith
<1>2. CASE targets # <<>>
  <2>1. /\ at > Len(discovered) /\ at' = 1 /\ pc = "resolve" /\ pc' = "backup"
        /\ UNCHANGED <<metadata, discovered, targets, errors>>
    BY <1>2 DEF TargetsResolved
  <2>2. \A n \in 1..Len(Names) : IsEnabled(metadata'[n]) => Discovered(n)'
    BY <2>1, DiscoveredStays DEF LoopsInv
  <2>3. \A j \in 1..Len(discovered) : Resolved(discovered[j])'
    <3>1. \A j \in 1..Len(discovered) : j < at
      BY <2>1 DEF LoopsInv
    <3>2. \A j \in 1..Len(discovered) : Resolved(discovered[j])
      BY <2>1, <3>1 DEF LoopsInv
    <3> QED
      BY <2>1, <3>2, ResolvedStays
  <2>4. targets' \in Seq(ToSet(targets')) /\ Len(targets) \in Nat
    BY <2>1 DEF LoopsInv
  <2> QED
    BY <2>1, <2>2, <2>3, <2>4 DEF LoopsInv, Step
<1> QED
  BY <1>1, <1>2

LEMMA BackUpDatabaseLoops ==
  ASSUME LoopsInv, BackUpDatabase
  PROVE  LoopsInv'
<1>1. /\ pc = "backup" /\ pc' = "backup" /\ at' = at + 1 /\ at \in 1..Len(targets)
      /\ UNCHANGED <<metadata, discovered, targets>>
  BY DEF BackUpDatabase, AtTarget, LoopsInv
<1> PICK n, t : n = at /\ t = targets[at]
  OBVIOUS
<1>2. PICK made \in BOOLEAN, failed \in SUBSET (ToSet(Target.databases) \cup {Blank}) :
        /\ made \/ failed # {}
        /\ artifacts' = IF made
                        THEN artifacts \cup {[output |-> OutputOf(Target), holds |-> <<>>]}
                        ELSE artifacts
        /\ errors' = errors \cup {Error("provider", name, OutputOf(Target)) : name \in failed}
  BY DEF BackUpDatabase
<1>3. errors \subseteq errors' /\ artifacts \subseteq artifacts'
  BY <1>2
<1>4. Accounted(t)'
  <2>1. CASE made
    <3>1. [output |-> OutputOf(t), holds |-> <<>>] \in artifacts'
      BY <1>2, <2>1 DEF Target
    <3> QED
      BY <3>1 DEF Accounted
  <2>2. CASE failed # {}
    <3>1. PICK name \in failed : TRUE
      BY <2>2
    <3>2. Error("provider", name, OutputOf(t)) \in errors'
      BY <1>2, <3>1 DEF Target
    <3> QED
      BY <3>2 DEF Accounted, Error
  <2> QED
    BY <1>2, <2>1, <2>2
<1>5. \A k \in 1..Len(targets) : k < at' /\ ~(k < at) => Accounted(targets[k])'
  <2>1. ASSUME NEW k \in 1..Len(targets), k < at', ~(k < at)
        PROVE  Accounted(targets[k])'
    <3>1. k = n /\ targets'[k] = t
      BY <1>1, <2>1
    <3> QED
      BY <1>4, <3>1 DEF Accounted, OutputOf
  <2> QED
    BY <2>1
<1> QED
  BY <1>1, <1>3, <1>5, ListsStay

LEMMA RefuseFormatLoops ==
  ASSUME LoopsInv, RefuseFormat
  PROVE  LoopsInv'
<1>1. /\ pc = "backup" /\ pc' = "backup" /\ at' = at + 1 /\ at \in 1..Len(targets)
      /\ UNCHANGED <<metadata, discovered, targets>>
  BY DEF RefuseFormat, AtTarget, LoopsInv
<1>2. /\ errors \subseteq errors' /\ artifacts \subseteq artifacts'
      /\ Error("provider", Blank, NoOutput) \in errors'
  BY DEF RefuseFormat
<1>3. \A k \in 1..Len(targets) : k < at' /\ ~(k < at) => Accounted(targets[k])'
  <2>1. ASSUME NEW k \in 1..Len(targets), k < at', ~(k < at)
        PROVE  Accounted(targets[k])'
    <3>1. k = at /\ targets'[k] = targets[k]
      BY <1>1, <2>1
    <3>2. IsFormatRefused(targets'[k])
      BY <3>1 DEF RefuseFormat, Target
    <3> QED
      BY <1>2, <3>2 DEF Accounted, HasError
  <2> QED
    BY <2>1
<1> QED
  BY <1>1, <1>2, <1>3, ListsStay

LEMMA CopyLoops ==
  ASSUME LoopsInv, BeginArchive \/ GetArchiveFails \/ ExtractArchive
  PROVE  LoopsInv'
<1>1. /\ pc \in {"backup", "copy"} /\ pc' = "copy" /\ at' = at /\ at <= Len(targets)
      /\ UNCHANGED <<metadata, discovered, targets, errors, artifacts>>
  BY DEF BeginArchive, GetArchiveFails, ExtractArchive, AtTarget, Copying, LoopsInv
<1>2. OutputOf(Target)' = OutputOf(Target)
  BY <1>1 DEF OutputOf, Target
<1>3. \A f \in failures' : f.source = "provider" /\ f.output = OutputOf(Target)
  <2>1. CASE BeginArchive
    BY <2>1 DEF BeginArchive
  <2>2. CASE GetArchiveFails \/ ExtractArchive
    <3>1. pc = "copy"
      BY <2>2 DEF GetArchiveFails, ExtractArchive, Copying
    <3>2. failures' = failures \/ DirectoryFailed
      BY <2>2 DEF GetArchiveFails, ExtractArchive
    <3>3. \A f \in failures : f.source = "provider" /\ f.output = OutputOf(Target)
      BY <3>1 DEF LoopsInv
    <3> QED
      BY <3>2, <3>3 DEF DirectoryFailed, Error
  <2> QED
    BY <2>1, <2>2
<1> QED
  BY <1>1, <1>2, <1>3, ListsStay DEF LoopsInv

LEMMA WriteArchiveLoops ==
  ASSUME LoopsInv, WriteArchive
  PROVE  LoopsInv'
<1>1. /\ pc = "copy" /\ pc' = "backup" /\ at' = at + 1 /\ at \in 1..Len(targets)
      /\ UNCHANGED <<metadata, discovered, targets>>
      /\ \A f \in failures : f.source = "provider" /\ f.output = OutputOf(Target)
  BY DEF WriteArchive, LoopsInv
<1> PICK n, t : n = at /\ t = targets[at]
  OBVIOUS
<1>2. PICK written \in {AnythingCopied, FALSE} :
        IF written
        THEN /\ artifacts' = artifacts \cup {[output |-> OutputOf(Target), holds |-> copied]}
             /\ errors' = errors \cup failures
        ELSE /\ errors' = errors \cup failures \cup
                           (IF AnythingCopied \/ failures = {}
                            THEN {Error("provider", Blank, OutputOf(Target))} ELSE {})
             /\ UNCHANGED artifacts
  BY DEF WriteArchive
<1>3. errors \subseteq errors' /\ artifacts \subseteq artifacts'
  BY <1>2
<1>4. Accounted(t)'
  <2>1. CASE written
    <3>1. [output |-> OutputOf(t), holds |-> copied] \in artifacts'
      BY <1>2, <2>1 DEF Target
    <3> QED
      BY <3>1 DEF Accounted
  <2>2. CASE ~written
    <3>1. CASE AnythingCopied \/ failures = {}
      <4>1. Error("provider", Blank, OutputOf(t)) \in errors'
        BY <1>2, <2>2, <3>1 DEF Target
      <4> QED
        BY <4>1 DEF Accounted, Error
    <3>2. CASE failures # {}
      <4>1. PICK f \in failures : f.output = OutputOf(t)
        BY <1>1, <3>2 DEF Target
      <4>2. f \in errors'
        BY <1>2, <2>2, <4>1
      <4> QED
        BY <4>1, <4>2 DEF Accounted
    <3> QED
      BY <3>1, <3>2
  <2> QED
    BY <2>1, <2>2
<1>5. \A k \in 1..Len(targets) : k < at' /\ ~(k < at) => Accounted(targets[k])'
  <2>1. ASSUME NEW k \in 1..Len(targets), k < at', ~(k < at)
        PROVE  Accounted(targets[k])'
    <3>1. k = n /\ targets'[k] = t
      BY <1>1, <2>1
    <3> QED
      BY <1>4, <3>1 DEF Accounted, OutputOf
  <2> QED
    BY <2>1
<1> QED
  BY <1>1, <1>3, <1>5, ListsStay

LEMMA NextLoops ==
  ASSUME LoopsInv, [Next]_vars
  PROVE  LoopsInv'
<1>1. CASE StartRun \/ InspectContainer \/ DiscoveryComplete
  BY <1>1, DiscoveryLoops
<1>2. CASE DiscoveryFails
  BY <1>2, EndsLoops DEF DiscoveryFails, FinishWith
<1>3. CASE ResolveContainer
  BY <1>3, ResolveLoops
<1>4. CASE TargetsResolved
  BY <1>4, TargetsResolvedLoops
<1>5. CASE InvalidTarget
  BY <1>5, EndsLoops DEF InvalidTarget
<1>6. CASE BackUpDatabase
  BY <1>6, BackUpDatabaseLoops
<1>7. CASE BeginArchive \/ GetArchiveFails \/ ExtractArchive
  BY <1>7, CopyLoops
<1>8. CASE WriteArchive
  BY <1>8, WriteArchiveLoops
<1>9. CASE TargetsBackedUp
  BY <1>9, EndsLoops DEF TargetsBackedUp, FinishWith
<1>10. CASE Raise
  BY <1>10, EndsLoops DEF Raise
<1>11. CASE RefuseFormat
  BY <1>11, RefuseFormatLoops
<1>12. CASE UNCHANGED vars
  <2>1. targets' \in Seq(ToSet(targets'))
    BY <1>12 DEF vars, LoopsInv
  <2> QED
    BY <1>12 DEF vars, LoopsInv, Discovered, Resolved, HasError, Accounted, OutputOf, Target
<1> QED
  BY <1>1, <1>2, <1>3, <1>4, <1>5, <1>6, <1>7, <1>8, <1>9, <1>10, <1>11, <1>12 DEF Next

-------------------------------------------------------------------------------
(***************************************************************************)
(* What run_once sees of the phase.                                        *)
(***************************************************************************)

LEMMA InitOutcome ==
  Init => OutcomeInv
BY DEF Init, OutcomeInv

LEMMA NextOutcome ==
  ASSUME LoopsInv, OutcomeInv, [Next]_vars
  PROVE  OutcomeInv'
<1>1. CASE StartRun
  BY <1>1 DEF StartRun, OutcomeInv
<1>2. CASE DiscoveryFails
  BY <1>2 DEF DiscoveryFails, FinishWith, OutcomeInv
<1>3. CASE InspectContainer
  BY <1>3 DEF InspectContainer, OutcomeInv
<1>4. CASE DiscoveryComplete
  BY <1>4 DEF DiscoveryComplete, OutcomeInv
<1>5. CASE ResolveContainer
  BY <1>5 DEF ResolveContainer, OutcomeInv
<1>6. CASE TargetsResolved
  BY <1>6 DEF TargetsResolved, FinishWith, OutcomeInv
<1>7. CASE InvalidTarget
  BY <1>7 DEF InvalidTarget, AtTarget, OutcomeInv
<1>8. CASE BackUpDatabase
  BY <1>8 DEF BackUpDatabase, AtTarget, OutcomeInv
<1>9. CASE BeginArchive
  BY <1>9 DEF BeginArchive, AtTarget, OutcomeInv
<1>10. CASE GetArchiveFails
  BY <1>10 DEF GetArchiveFails, Copying, OutcomeInv
<1>11. CASE ExtractArchive
  BY <1>11 DEF ExtractArchive, Copying, OutcomeInv
<1>12. CASE WriteArchive
  BY <1>12 DEF WriteArchive, OutcomeInv
<1>13. CASE TargetsBackedUp
  <2>1. /\ pc = "backup" /\ pc' = "finished" /\ UNCHANGED <<errors, artifacts>>
        /\ status' = CASE artifacts = {} -> "failed"
                       [] artifacts # {} /\ errors = {} -> "running"
                       [] artifacts # {} /\ errors # {} -> "partial"
    BY <1>13 DEF TargetsBackedUp, FinishWith
  <2>2. artifacts # {} \/ errors # {}
    <3>1. Len(targets) \in Nat /\ targets # <<>> /\ at > Len(targets)
      BY <1>13 DEF TargetsBackedUp, LoopsInv, OutcomeInv
    <3>2. 1 \in 1..Len(targets) /\ 1 < at
      BY <3>1 DEF LoopsInv
    <3>3. Accounted(targets[1])
      BY <2>1, <3>2 DEF LoopsInv
    <3> QED
      BY <3>3 DEF Accounted, HasError
  <2> QED
    BY <2>1, <2>2 DEF OutcomeInv
<1>14. CASE Raise
  BY <1>14 DEF Raise, AtTarget, Copying, OutcomeInv
<1>15. CASE RefuseFormat
  BY <1>15 DEF RefuseFormat, AtTarget, OutcomeInv
<1>16. CASE UNCHANGED vars
  BY <1>16 DEF vars, OutcomeInv
<1> QED
  BY <1>1, <1>2, <1>3, <1>4, <1>5, <1>6, <1>7, <1>8, <1>9, <1>10, <1>11, <1>12, <1>13,
     <1>14, <1>15, <1>16 DEF Next

-------------------------------------------------------------------------------
(***************************************************************************)
(* Every container is accounted for.                                       *)
(***************************************************************************)

LEMMA NextAccounted ==
  ASSUME LoopsInv, OutcomeInv, EveryContainerIsAccountedFor, [Next]_vars
  PROVE  EveryContainerIsAccountedFor'
<1>0. LoopsInv'
  BY NextLoops
<1>1. CASE UNCHANGED vars
  BY <1>1 DEF vars, EveryContainerIsAccountedFor, HasError, Accounted
<1>2. CASE pc' # "finished" \/ errors' = {Error("discovery", Blank, NoOutput)}
  BY <1>2 DEF EveryContainerIsAccountedFor
<1>3. CASE TargetsResolved /\ pc' = "finished"
  <2>1. /\ pc = "resolve" /\ at > Len(discovered) /\ targets = <<>>
        /\ UNCHANGED <<metadata, discovered, targets>> /\ errors \subseteq errors'
    BY <1>3 DEF TargetsResolved, FinishWith
  <2>2. ASSUME NEW i \in 1..Len(Names), IsEnabled(metadata'[i])
        PROVE  Resolved(i)'
    <3>1. Discovered(i)
      BY <2>1, <2>2 DEF LoopsInv
    <3>2. PICK j \in 1..Len(discovered) : discovered[j] = i
      BY <3>1 DEF Discovered, ToSet, LoopsInv
    <3>3. Resolved(discovered[j])
      BY <2>1, <3>2 DEF LoopsInv
    <3> QED
      BY <2>1, <3>2, <3>3, ResolvedStays
  <2>3. ToSet(targets') = {}
    BY <2>1 DEF ToSet
  <2> QED
    BY <2>2, <2>3 DEF Resolved, EveryContainerIsAccountedFor
<1>4. CASE TargetsBackedUp
  <2>1. /\ pc = "backup" /\ at > Len(targets)
        /\ UNCHANGED <<metadata, discovered, targets, errors, artifacts>>
    BY <1>4 DEF TargetsBackedUp, FinishWith
  <2>2. \A t \in ToSet(targets) : Accounted(t)
    <3>1. DOMAIN targets = 1..Len(targets) /\ Len(targets) \in Nat
      BY DEF LoopsInv
    <3> QED
      BY <2>1, <3>1 DEF LoopsInv, ToSet
  <2>3. ASSUME NEW i \in 1..Len(Names), IsEnabled(metadata[i])
        PROVE  Resolved(i)
    <3>1. Discovered(i)
      BY <2>1, <2>3 DEF LoopsInv
    <3>2. PICK j \in 1..Len(discovered) : discovered[j] = i
      BY <3>1 DEF Discovered, ToSet, LoopsInv
    <3> QED
      BY <2>1, <3>2 DEF LoopsInv
  <2>4. ASSUME NEW i \in 1..Len(Names), IsEnabled(metadata[i])
        PROVE  IF IsRejected(metadata[i])
               THEN HasError("metadata", Names[i], NoOutput)
               ELSE \A t \in ToSet(Targets(metadata[i], Names[i])) : Accounted(t)
    BY <2>2, <2>3, <2>4 DEF Resolved
  <2>5. \A i \in 1..Len(Names) : IsEnabled(metadata[i]) =>
          IF IsRejected(metadata[i])
          THEN HasError("metadata", Names[i], NoOutput)'
          ELSE \A t \in ToSet(Targets(metadata[i], Names[i])) : Accounted(t)'
    BY <2>1, <2>4 DEF HasError, Accounted
  <2> QED
    BY <2>1, <2>5 DEF EveryContainerIsAccountedFor
<1>5. [Next]_vars
  OBVIOUS
<1>6. \/ UNCHANGED vars
      \/ pc' # "finished" \/ errors' = {Error("discovery", Blank, NoOutput)}
      \/ TargetsResolved /\ pc' = "finished"
      \/ TargetsBackedUp
  BY <1>5 DEF Next, StartRun, DiscoveryFails, FinishWith, InspectContainer, DiscoveryComplete,
     ResolveContainer, InvalidTarget, RefuseFormat, BackUpDatabase, BeginArchive,
     GetArchiveFails, ExtractArchive, WriteArchive, Raise, AtTarget, Copying
<1> QED
  BY <1>1, <1>2, <1>3, <1>4, <1>6

-------------------------------------------------------------------------------
(***************************************************************************)
(* Every directory in an archive is accounted for.                         *)
(***************************************************************************)

LEMMA TargetsDirectories ==
  ASSUME NEW c \in Metadata, NEW name, NEW t \in ToSet(Targets(c, name))
  PROVE  t.directories \in Seq(ToSet(t.directories))
<1> DEFINE database == DatabaseTarget(c, name, CHOOSE e \in RequestedTypes(c) \cap Engine : TRUE)
           archive == FilesystemTarget(c, name)
<1>1. database.directories = <<>> /\ archive.directories = Directories(c)
  BY DEF DatabaseTarget, FilesystemTarget
<1> HIDE DEF database, archive
<1>2. \/ Targets(c, name) = <<database>>
      \/ Targets(c, name) = <<archive>>
      \/ Targets(c, name) = <<database, archive>>
  BY DEF Targets, database, archive
<1>3. t = database \/ t = archive
  <2>1. CASE Targets(c, name) = <<database>>
    BY <2>1 DEF ToSet
  <2>2. CASE Targets(c, name) = <<archive>>
    BY <2>2 DEF ToSet
  <2>3. CASE Targets(c, name) = <<database, archive>>
    BY <2>3 DEF ToSet
  <2> QED
    BY <1>2, <2>1, <2>2, <2>3
<1>4. <<>> \in Seq(ToSet(<<>>))
  OBVIOUS
<1>5. Directories(c) \in Seq(ToSet(Directories(c)))
  BY MetadataAssumption
<1> QED
  BY <1>1, <1>3, <1>4, <1>5

\* Archives in the manifest stay what they are, errors are only added.
LEMMA ArchivesStay ==
  ASSUME ArchiveAccountsForDirectories, errors \subseteq errors',
         \A a \in artifacts' : a \in artifacts \/ a.holds = <<>>
  PROVE  ArchiveAccountsForDirectories'
<1>1. DOMAIN <<>> = {}
  OBVIOUS
<1> QED
  BY <1>1 DEF ArchiveAccountsForDirectories, HasError

\* Steps outside the copying loop.
LEMMA CopyInvStays ==
  ASSUME CopyInv, metadata' = metadata, targets' = targets, pc' # "copy",
         errors \subseteq errors', \A a \in artifacts' : a \in artifacts \/ a.holds = <<>>
  PROVE  CopyInv'
BY ArchivesStay DEF CopyInv

LEMMA CopiesDirectory ==
  ASSUME LoopsInv, CopyInv, GetArchiveFails \/ ExtractArchive
  PROVE  CopyInv'
<1>1. /\ pc = "copy" /\ pc' = "copy" /\ at' = at /\ directory' = directory + 1
      /\ UNCHANGED <<metadata, targets, errors, artifacts>>
      /\ directory \in 1..Len(Target.directories)
      /\ failures \subseteq failures'
  <2>1. Target \in ToSet(targets)
    BY DEF GetArchiveFails, ExtractArchive, Copying, LoopsInv, Target, ToSet
  <2>2. Len(Target.directories) \in Nat
    BY <2>1 DEF CopyInv
  <2> QED
    BY <2>2 DEF GetArchiveFails, ExtractArchive, Copying, DirectoryFailed, CopyInv
<1> PICK n, t, d : n = directory /\ t = Target /\ d = t.directories[n]
  OBVIOUS
<1>2. Target' = t /\ OutputOf(Target)' = OutputOf(t) /\ OutputOf(Target) = OutputOf(t)
  BY <1>1 DEF Target, OutputOf
<1>3. DOMAIN copied = ToSet(t.directories) /\ t.directories \in Seq(ToSet(t.directories))
  <2>1. Target \in ToSet(targets)
    BY <1>1 DEF LoopsInv, Target, ToSet
  <2> QED
    BY <1>1, <2>1 DEF CopyInv
<1>4. d \in DOMAIN copied
  BY <1>1, <1>3 DEF ToSet
<1>5. DOMAIN copied' = DOMAIN copied
  BY DEF GetArchiveFails, ExtractArchive, Extracted
<1>6. copied'[d] = "whole" \/ Error("provider", d.path, OutputOf(t)) \in failures'
  <2>1. CASE GetArchiveFails
    BY <2>1 DEF GetArchiveFails, DirectoryFailed
  <2>2. CASE ExtractArchive
    <3>1. PICK got \in Copied,
               replaced \in SUBSET {e \in DOMAIN copied : copied[e] # "absent"} :
            /\ copied' = Extracted(d, got, replaced)
            /\ IF got = "whole" THEN UNCHANGED failures ELSE DirectoryFailed
      BY <2>2 DEF ExtractArchive
    <3>2. CASE got = "whole"
      <4>1. copied'[d] = "whole"
        BY <1>4, <3>1, <3>2 DEF Extracted
      <4> QED
        BY <4>1
    <3>3. CASE got # "whole"
      BY <3>1, <3>3 DEF DirectoryFailed
    <3> QED
      BY <3>2, <3>3
  <2> QED
    BY <2>1, <2>2
<1>7. \A e \in DOMAIN copied : copied'[e] = copied[e] \/ e = d \/ e.base = d.base
  <2>1. CASE GetArchiveFails
    BY <2>1 DEF GetArchiveFails
  <2>2. CASE ExtractArchive
    <3>1. PICK got \in Copied,
               replaced \in SUBSET {e \in DOMAIN copied : copied[e] # "absent"} :
            copied' = Extracted(d, got, replaced)
      BY <2>2 DEF ExtractArchive
    <3> QED
      BY <3>1 DEF Extracted
  <2> QED
    BY <2>1, <2>2
<1>8. ASSUME NEW k \in 1..Len(t.directories), k < directory'
      PROVE  DirectoryAccounted(t.directories[k])'
  <2> DEFINE e == t.directories[k]
  <2>1. e \in DOMAIN copied
    BY <1>3 DEF ToSet
  <2> HIDE DEF e
  <2>2. CASE e = d
    BY <1>2, <1>6, <2>2 DEF DirectoryAccounted, e
  <2>3. CASE e # d
    <3>1. k < directory
      <4>1. k # n
        BY <2>3 DEF e
      <4>2. k \in Nat /\ n \in Nat
        BY <1>1
      <4> QED
        BY <1>1, <1>8, <4>1, <4>2
    <3>2. DirectoryAccounted(e)
      BY <1>1, <3>1 DEF CopyInv, e
    <3>3. CASE copied'[e] = copied[e]
      BY <1>1, <1>2, <1>5, <3>2, <3>3 DEF DirectoryAccounted, e
    <3>4. CASE e.base = d.base
      <4>1. d \in DOMAIN copied' \ {e}
        BY <1>4, <1>5, <2>3
      <4> QED
        BY <3>4, <4>1 DEF DirectoryAccounted, e
    <3> QED
      BY <1>7, <2>1, <2>3, <3>3, <3>4
  <2> QED
    BY <2>2, <2>3 DEF e
<1>9. ArchiveAccountsForDirectories'
  BY <1>1 DEF CopyInv, ArchiveAccountsForDirectories, HasError
<1> QED
  BY <1>1, <1>2, <1>3, <1>5, <1>8, <1>9 DEF CopyInv

LEMMA BeginsCopying ==
  ASSUME LoopsInv, CopyInv, BeginArchive
  PROVE  CopyInv'
<1>1. /\ UNCHANGED <<metadata, targets, errors, artifacts>> /\ directory' = 1
      /\ Target' = Target /\ DOMAIN copied' = ToSet(Target.directories)
  BY DEF BeginArchive, Target
<1>2. Target \in ToSet(targets)
  BY DEF BeginArchive, AtTarget, LoopsInv, Target, ToSet
<1>3. Len(Target.directories) \in Nat
  BY <1>2 DEF CopyInv
<1>4. ArchiveAccountsForDirectories'
  BY <1>1 DEF CopyInv, ArchiveAccountsForDirectories, HasError
<1> QED
  BY <1>1, <1>3, <1>4 DEF CopyInv

LEMMA WritesArchive ==
  ASSUME LoopsInv, CopyInv, WriteArchive
  PROVE  CopyInv'
<1>1. /\ UNCHANGED <<metadata, targets>> /\ pc = "copy" /\ pc' = "backup"
      /\ directory > Len(Target.directories)
  BY DEF WriteArchive
<1>2. errors \subseteq errors' /\ failures \subseteq errors'
  BY DEF WriteArchive
<1>3. artifacts' \subseteq artifacts \cup {[output |-> OutputOf(Target), holds |-> copied]}
  BY DEF WriteArchive
<1> PICK t, holds : t = Target /\ holds = copied
  OBVIOUS
<1>4. t.directories \in Seq(ToSet(t.directories)) /\ DOMAIN holds = ToSet(t.directories)
  <2>1. Target \in ToSet(targets)
    BY <1>1 DEF LoopsInv, Target, ToSet
  <2> QED
    BY <1>1, <2>1 DEF CopyInv
<1>5. ASSUME NEW d \in DOMAIN holds
      PROVE  \/ holds[d] = "whole"
             \/ Error("provider", d.path, OutputOf(t)) \in errors'
             \/ \E e \in DOMAIN holds \ {d} : e.base = d.base
  <2>1. PICK k \in 1..Len(t.directories) : d = t.directories[k]
    BY <1>4 DEF ToSet
  <2>2. k < directory
    BY <1>1, <1>4, <2>1 DEF CopyInv
  <2>3. DirectoryAccounted(d)
    BY <1>1, <2>1, <2>2 DEF CopyInv
  <2> QED
    BY <1>2, <2>3 DEF DirectoryAccounted
<1>6. ArchiveAccountsForDirectories'
  <2>1. ASSUME NEW a \in artifacts', NEW d \in DOMAIN a.holds
        PROVE  \/ a.holds[d] = "whole"
               \/ Error("provider", d.path, a.output) \in errors'
               \/ \E e \in DOMAIN a.holds \ {d} : e.base = d.base
    <3>1. CASE a \in artifacts
      <4>1. \/ a.holds[d] = "whole"
            \/ Error("provider", d.path, a.output) \in errors
            \/ \E e \in DOMAIN a.holds \ {d} : e.base = d.base
        BY <2>1, <3>1 DEF CopyInv, ArchiveAccountsForDirectories, HasError
      <4> QED
        BY <1>2, <4>1
    <3>2. CASE a = [output |-> OutputOf(t), holds |-> holds]
      <4>1. a.holds = holds /\ a.output = OutputOf(t)
        BY <3>2
      <4> QED
        BY <1>5, <2>1, <4>1
    <3> QED
      BY <1>3, <3>1, <3>2
  <2> QED
    BY <2>1 DEF ArchiveAccountsForDirectories, HasError
<1> QED
  BY <1>1, <1>6 DEF CopyInv

LEMMA ResolvesDirectories ==
  ASSUME LoopsInv, CopyInv, ResolveContainer
  PROVE  CopyInv'
<1>1. /\ metadata' = metadata /\ artifacts' = artifacts /\ errors \subseteq errors'
      /\ pc' = "resolve" /\ at \in 1..Len(discovered)
  BY DEF ResolveContainer, LoopsInv
<1> PICK i, c, name : i = discovered[at] /\ c = metadata[i] /\ name = Names[i]
  OBVIOUS
<1>2. c \in Metadata
  BY <1>1 DEF LoopsInv, CopyInv
<1>3. \A t \in ToSet(targets') : t.directories \in Seq(ToSet(t.directories))
  <2>1. CASE targets' = targets
    BY <2>1 DEF CopyInv
  <2>2. CASE targets' = targets \o Targets(c, name)
    <3>1. ToSet(targets') = ToSet(targets) \cup ToSet(Targets(c, name))
      BY <2>2, TargetsSequence, ToSetConcat DEF LoopsInv
    <3> QED
      BY <1>2, <3>1, TargetsDirectories DEF CopyInv
  <2> QED
    BY <2>1, <2>2 DEF ResolveContainer
<1>4. ArchiveAccountsForDirectories'
  BY <1>1, ArchivesStay DEF CopyInv
<1> QED
  BY <1>1, <1>3, <1>4 DEF CopyInv

LEMMA InitCopyInv ==
  Init => CopyInv
BY DEF Init, CopyInv, ArchiveAccountsForDirectories, ToSet

LEMMA NextCopyInv ==
  ASSUME LoopsInv, OutcomeInv, CopyInv, [Next]_vars
  PROVE  CopyInv'
<1>1. CASE GetArchiveFails \/ ExtractArchive
  BY <1>1, CopiesDirectory
<1>2. CASE BeginArchive
  BY <1>2, BeginsCopying
<1>3. CASE WriteArchive
  BY <1>3, WritesArchive
<1>4. CASE ResolveContainer
  BY <1>4, ResolvesDirectories
<1>5. CASE RefuseFormat \/ BackUpDatabase
  <2>1. /\ metadata' = metadata /\ targets' = targets /\ pc' # "copy" /\ errors \subseteq errors'
        /\ \A a \in artifacts' : a \in artifacts \/ a.holds = <<>>
    BY <1>5 DEF RefuseFormat, BackUpDatabase, AtTarget
  <2> QED
    BY <2>1, CopyInvStays
<1>6. CASE \/ StartRun \/ DiscoveryFails \/ InspectContainer \/ DiscoveryComplete
           \/ TargetsResolved \/ InvalidTarget \/ TargetsBackedUp \/ Raise
  <2>1. /\ UNCHANGED <<metadata, targets, artifacts>> /\ pc' # "copy"
    BY <1>6 DEF StartRun, DiscoveryFails, FinishWith, InspectContainer, DiscoveryComplete,
       TargetsResolved, InvalidTarget, TargetsBackedUp, Raise
  <2>2. errors \subseteq errors'
    BY <1>6 DEF StartRun, DiscoveryFails, FinishWith, InspectContainer, DiscoveryComplete,
       TargetsResolved, InvalidTarget, TargetsBackedUp, Raise, OutcomeInv
  <2> QED
    BY <2>1, <2>2, CopyInvStays
<1>7. CASE UNCHANGED vars
  BY <1>7 DEF vars, CopyInv, DirectoryAccounted, OutputOf, Target, ArchiveAccountsForDirectories,
     HasError
<1> QED
  BY <1>1, <1>2, <1>3, <1>4, <1>5, <1>6, <1>7 DEF Next

\* Whatever fails, a phase that ends has accounted for every container that
\* opted in; and it ends as failed without artifacts, as running, from which a
\* run becomes a success, without errors, and as partial with both.
THEOREM PhaseInvariant ==
  Spec => []PhaseInv
<1>1. Init => PhaseInv
  BY InitLoops, InitOutcome, InitCopyInv DEF PhaseInv, EveryContainerIsAccountedFor, Init
<1>2. PhaseInv /\ [Next]_vars => PhaseInv'
  BY NextLoops, NextOutcome, NextAccounted, NextCopyInv DEF PhaseInv
<1> QED
  BY <1>1, <1>2, PTL DEF Spec

\* No container that opted in is passed over silently by a phase that ends.
THEOREM NoContainerIsPassedOver ==
  Spec => []EveryContainerIsAccountedFor
<1>1. PhaseInv => EveryContainerIsAccountedFor
  BY DEF PhaseInv
<1> QED
  BY <1>1, PhaseInvariant, PTL

\* No archive in the manifest passes off a directory as backed up of which it
\* holds a part or nothing, unless two directories share their base name.
THEOREM ArchivesAccountForDirectories ==
  Spec => []ArchiveAccountsForDirectories
<1>1. PhaseInv => ArchiveAccountsForDirectories
  BY DEF PhaseInv, CopyInv
<1> QED
  BY <1>1, PhaseInvariant, PTL

-------------------------------------------------------------------------------
(***************************************************************************)
(* What reaches the providers.                                             *)
(***************************************************************************)

LEMMA NextValid ==
  ASSUME LoopsInv, ResolvedTargetsAreValid, [Next]_vars
  PROVE  ResolvedTargetsAreValid'
<1>1. CASE targets' = targets
  BY <1>1 DEF ResolvedTargetsAreValid
<1>2. CASE ResolveContainer /\ targets' # targets
  <2> DEFINE c == metadata[discovered[at]]
             name == Names[discovered[at]]
  <2>1. ~IsRejected(c) /\ targets' = targets \o Targets(c, name)
    BY <1>2 DEF ResolveContainer
  <2>2. ToSet(targets') = ToSet(targets) \cup ToSet(Targets(c, name))
    BY <2>1, TargetsSequence, ToSetConcat DEF LoopsInv
  <2> HIDE DEF c, name
  <2>3. ASSUME NEW t \in ToSet(targets')
        PROVE  IF t.db_type = "filesystem"
               THEN (\A d \in ToSet(t.directories) : d.absolute) => IsValid(t)
               ELSE t.port > 0 => IsValid(t)
    <3>1. CASE t \in ToSet(targets)
      BY <3>1 DEF ResolvedTargetsAreValid
    <3>2. CASE t \in ToSet(Targets(c, name))
      BY <2>1, <3>2, TargetsAreValid
    <3> QED
      BY <2>2, <2>3, <3>1, <3>2
  <2> QED
    BY <2>3 DEF ResolvedTargetsAreValid
<1>3. targets' = targets \/ ResolveContainer
  BY DEF Next, vars, StartRun, DiscoveryFails, FinishWith, InspectContainer, DiscoveryComplete,
     TargetsResolved, InvalidTarget, RefuseFormat, BackUpDatabase, BeginArchive,
     GetArchiveFails, ExtractArchive, WriteArchive, TargetsBackedUp, Raise
<1> QED
  BY <1>1, <1>2, <1>3

\* For any labels and any environment: a port that is not positive and a
\* relative directory are all that can make a provider refuse a target.
THEOREM OnlyPortsAndDirectoriesAreRefused ==
  Spec => []ResolvedTargetsAreValid
<1>1. Init => ResolvedTargetsAreValid
  BY DEF Init, ResolvedTargetsAreValid, ToSet
<1>2. PhaseInv /\ ResolvedTargetsAreValid /\ [Next]_vars => ResolvedTargetsAreValid'
  BY NextValid DEF PhaseInv
<1> QED
  BY <1>1, <1>2, PhaseInvariant, PTL DEF Spec

-------------------------------------------------------------------------------
(***************************************************************************)
(* The phase implements the steps Orchestrator has for it.                 *)
(***************************************************************************)

LEMMA OneRun ==
  /\ RunOnce!Run = {1} /\ RunOnce!Day = {0}
  /\ \A x : TheRun(x)[1] = x
  /\ \A x, y : [TheRun(x) EXCEPT ![1] = y] = TheRun(y)
<1>1. RunOnce!Run = {1} /\ RunOnce!Day = {0}
  BY DEF RunOnce!Run, RunOnce!Day
<1>2. 1..1 = {1}
  OBVIOUS
<1>3. ASSUME NEW x
      PROVE  TheRun(x)[1] = x
  BY <1>2 DEF TheRun
<1>4. ASSUME NEW x, NEW y
      PROVE  [TheRun(x) EXCEPT ![1] = y] = TheRun(y)
  BY <1>2 DEF TheRun
<1> QED
  BY <1>1, <1>3, <1>4

LEMMA InitRunOnce ==
  Init => RunOnce!Init
<1> SUFFICES ASSUME Init
             PROVE  RunOnce!Init
  OBVIOUS
<1>1. pc = "start" /\ status = "pending"
  BY DEF Init
<1>2. RunPc = "idle" /\ RunErrors = FALSE /\ RunArtifacts = FALSE
  BY <1>1 DEF RunPc, RunErrors, RunArtifacts
<1>3. Staged = [present |-> FALSE, manifest |-> [status |-> "none", finished |-> 0], data |-> FALSE]
  BY <1>1, <1>2 DEF Staged
<1>4. /\ TheRun(RunPc) = [r \in RunOnce!Run |-> "idle"]
      /\ TheRun(0) = [r \in RunOnce!Run |-> 0]
      /\ TheRun(status) = [r \in RunOnce!Run |-> "pending"]
      /\ TheRun(RunErrors) = [r \in RunOnce!Run |-> FALSE]
      /\ TheRun(RunArtifacts) = [r \in RunOnce!Run |-> FALSE]
      /\ TheRun({}) = [r \in RunOnce!Run |-> {}]
      /\ TheRun(1) = [r \in RunOnce!Run |-> 1]
      /\ TheRun(Staged) = [r \in RunOnce!Run |-> RunOnce!Gone]
  BY <1>1, <1>2, <1>3 DEF TheRun, RunOnce!Run, RunOnce!Gone, RunOnce!NoManifest
<1> QED
  BY <1>4 DEF RunOnce!Init, RunOnce!Gone, RunOnce!NoManifest, RunOnce!Backend, RunOnce!Run, TheRun

LEMMA StartsRun ==
  ASSUME StartRun, OutcomeInv
  PROVE  RunOnce!StartRun(1)
<1>1. pc = "start" /\ pc' = "discover" /\ status = "pending" /\ status' = "running"
  BY DEF StartRun, OutcomeInv
<1>2. RunPc = "idle" /\ RunPc' = "discover"
  BY <1>1 DEF RunPc
<1>3. RunErrors = FALSE /\ RunErrors' = FALSE /\ RunArtifacts = FALSE /\ RunArtifacts' = FALSE
  BY <1>1 DEF RunErrors, RunArtifacts
<1>4. Staged' = [Staged EXCEPT !.present = TRUE]
  <2>1. Staged = [present |-> FALSE, manifest |-> [status |-> "none", finished |-> 0],
                  data |-> FALSE]
    BY <1>1, <1>3 DEF Staged
  <2>2. Staged' = [present |-> TRUE, manifest |-> [status |-> "none", finished |-> 0],
                   data |-> FALSE]
    BY <1>1, <1>3 DEF Staged
  <2> DEFINE manifest == [status |-> "none", finished |-> 0]
  <2>3. /\ Staged = [present |-> FALSE, manifest |-> manifest, data |-> FALSE]
        /\ Staged' = [present |-> TRUE, manifest |-> manifest, data |-> FALSE]
    BY <2>1, <2>2
  <2> HIDE DEF manifest
  <2> DEFINE none == [present |-> FALSE, manifest |-> manifest, data |-> FALSE]
  <2>4. [none EXCEPT !.present = TRUE] = [present |-> TRUE, manifest |-> manifest, data |-> FALSE]
    <3> DEFINE dirs == [present : BOOLEAN, manifest : {manifest}, data : BOOLEAN]
               some == [none EXCEPT !.present = TRUE]
    <3>1. none \in dirs
      OBVIOUS
    <3>2. some \in dirs /\ some.present = TRUE /\ some.data = none.data
      BY <3>1
    <3>3. some.manifest = manifest /\ none.data = FALSE
      BY <3>2
    <3> HIDE DEF some
    <3>4. some = [present |-> some.present, manifest |-> some.manifest, data |-> some.data]
      BY <3>2
    <3>5. some.present = TRUE /\ some.data = FALSE /\ some.manifest = manifest
      BY <3>2, <3>3
    <3>6. some = [present |-> TRUE, manifest |-> manifest, data |-> FALSE]
      BY <3>4, <3>5, Zenon
    <3> QED
      BY <3>6 DEF some
  <2>5. Staged = none
    BY <2>3
  <2> HIDE DEF none
  <2> QED
    BY <2>3, <2>4, <2>5
<1>5. RunOnce!Active = {}
  BY <1>2, OneRun DEF RunOnce!Active, RunOnce!Ended
<1>6. \A q \in RunOnce!Run : ~(q < 1)
  BY OneRun
<1>7. TheRun(Staged)' = [TheRun(Staged) EXCEPT ![1] = [TheRun(Staged)[1] EXCEPT !.present = TRUE]]
  BY <1>4, OneRun
<1> QED
  BY <1>1, <1>2, <1>3, <1>5, <1>6, <1>7, OneRun DEF RunOnce!StartRun, RunOnce!Goto

\* The staged run before and after its first manifest.
LEMMA StagedRun ==
  /\ pc \notin {"start", "finished"} =>
       Staged = [present |-> TRUE, manifest |-> [status |-> "none", finished |-> 0], data |-> FALSE]
  /\ pc = "finished" =>
       Staged = [present |-> TRUE, manifest |-> [status |-> status, finished |-> 0],
                 data |-> RunArtifacts]
<1>1. CASE pc \notin {"start", "finished"}
  <2>1. RunArtifacts = FALSE
    BY <1>1 DEF RunArtifacts
  <2> QED
    BY <1>1, <2>1 DEF Staged
<1>2. CASE pc = "finished"
  <2> HIDE DEF RunArtifacts
  <2> QED
    BY <1>2 DEF Staged
<1> QED
  BY <1>1, <1>2

LEMMA Stutters ==
  ASSUME RunPc' = RunPc, RunErrors' = RunErrors, RunArtifacts' = RunArtifacts,
         Staged' = Staged, status' = status
  PROVE  RunOnce!Next \/ UNCHANGED RunOnce!vars
BY DEF RunOnce!vars, TheRun

\* Between discovery and the first manifest: nothing run_once would see.
LEMMA WorksOn ==
  ASSUME pc \in {"discover", "resolve", "backup", "copy"},
         pc' \in {"discover", "resolve", "backup", "copy"},
         RunPc' = RunPc, RunErrors' = RunErrors, status' = status
  PROVE  RunOnce!Next \/ UNCHANGED RunOnce!vars
<1>1. RunArtifacts = FALSE /\ RunArtifacts' = FALSE
  BY DEF RunArtifacts
<1>2. Staged' = Staged
  <2>1. Staged = [present |-> TRUE, manifest |-> [status |-> "none", finished |-> 0], data |-> FALSE]
    BY StagedRun
  <2>2. Staged' = [present |-> TRUE, manifest |-> [status |-> "none", finished |-> 0], data |-> FALSE]
    BY <1>1 DEF Staged
  <2> QED
    BY <2>1, <2>2
<1> QED
  BY <1>1, <1>2, Stutters

LEMMA ManifestWritten ==
  ASSUME NEW dir, NEW st
  PROVE  RunOnce!WithManifest(TheRun(dir), 1, st) =
           TheRun([present |-> TRUE, manifest |-> [status |-> st, finished |-> 0],
                   data |-> dir.data])
<1> DEFINE written == [present |-> TRUE, manifest |-> [status |-> st, finished |-> 0],
                       data |-> TheRun(dir)[1].data]
<1>1. RunOnce!WithManifest(TheRun(dir), 1, st) = [TheRun(dir) EXCEPT ![1] = written]
  BY DEF RunOnce!WithManifest
<1>2. written = [present |-> TRUE, manifest |-> [status |-> st, finished |-> 0], data |-> dir.data]
  BY OneRun
<1> HIDE DEF written
<1>3. [TheRun(dir) EXCEPT ![1] = written] = TheRun(written)
  BY OneRun
<1> QED
  BY <1>1, <1>2, <1>3

LEMMA FindsNoTargets ==
  ASSUME pc \in {"discover", "resolve"}, pc' = "finished", status' = "failed",
         errors' # {}, artifacts' = {}
  PROVE  RunOnce!NoTargets(1)
<1>1. RunPc = "discover" /\ RunPc' = "done" /\ RunErrors' = TRUE
  BY DEF RunPc, RunErrors
<1>2. RunArtifacts = FALSE /\ RunArtifacts' = FALSE
  BY DEF RunArtifacts
<1>3. Staged = [present |-> TRUE, manifest |-> [status |-> "none", finished |-> 0], data |-> FALSE]
  BY StagedRun
<1>4. Staged' = [present |-> TRUE, manifest |-> [status |-> "failed", finished |-> 0], data |-> FALSE]
  BY <1>2 DEF Staged
<1>5. TheRun(Staged)' = RunOnce!WithManifest(TheRun(Staged), 1, "failed")
  BY <1>3, <1>4, ManifestWritten
<1>6. /\ TheRun(RunErrors)' = [TheRun(RunErrors) EXCEPT ![1] = TRUE]
      /\ TheRun(status)' = [TheRun(status) EXCEPT ![1] = "failed"]
      /\ TheRun(RunPc)' = [TheRun(RunPc) EXCEPT ![1] = "done"]
      /\ TheRun(RunPc)[1] = "discover"
  BY <1>1, OneRun
<1> QED
  BY <1>2, <1>5, <1>6 DEF RunOnce!NoTargets, RunOnce!FailRun, RunOnce!FinishRun, RunOnce!Goto, TheRun

LEMMA Resolves ==
  ASSUME pc = "resolve", pc' = "backup", status' = status
  PROVE  RunOnce!DiscoverAndResolve(1)
<1>1. RunPc = "discover" /\ RunPc' = "backup" /\ RunErrors' \in BOOLEAN
  BY DEF RunPc, RunErrors
<1>2. RunArtifacts = FALSE /\ RunArtifacts' = FALSE
  BY DEF RunArtifacts
<1>3. Staged' = Staged
  <2>1. Staged = [present |-> TRUE, manifest |-> [status |-> "none", finished |-> 0], data |-> FALSE]
    BY StagedRun
  <2>2. Staged' = [present |-> TRUE, manifest |-> [status |-> "none", finished |-> 0], data |-> FALSE]
    BY <1>2 DEF Staged
  <2> QED
    BY <2>1, <2>2
<1>4. /\ TheRun(RunErrors)' = [TheRun(RunErrors) EXCEPT ![1] = RunErrors']
      /\ TheRun(RunPc)' = [TheRun(RunPc) EXCEPT ![1] = "backup"]
      /\ TheRun(RunPc)[1] = "discover"
  BY <1>1, OneRun
<1> QED
  BY <1>1, <1>2, <1>3, <1>4 DEF RunOnce!DiscoverAndResolve, RunOnce!Goto, TheRun

\* The end of _backup_targets, with artifacts or without.
LEMMA FinishesPhase ==
  ASSUME TargetsBackedUp, LoopsInv, OutcomeInv, OutcomeInv'
  PROVE  RunOnce!NothingBackedUp(1) \/ RunOnce!BackupTargets(1)
<1>1. /\ pc = "backup" /\ pc' = "finished" /\ UNCHANGED <<errors, artifacts>>
      /\ status' = CASE artifacts = {} -> "failed"
                     [] artifacts # {} /\ errors = {} -> "running"
                     [] artifacts # {} /\ errors # {} -> "partial"
  BY DEF TargetsBackedUp, FinishWith
<1>2. /\ RunPc = "backup" /\ RunArtifacts = FALSE
      /\ RunErrors = (MetadataErrors # {}) /\ RunErrors' = (errors # {})
      /\ RunPc' = IF artifacts = {} THEN "done" ELSE "sync"
  BY <1>1 DEF RunPc, RunErrors, RunArtifacts
<1>3. RunErrors' = (RunErrors \/ errors # {})
  BY <1>2 DEF MetadataErrors
<1>4. Staged = [present |-> TRUE, manifest |-> [status |-> "none", finished |-> 0], data |-> FALSE]
  BY <1>1, StagedRun
<1>5. TheRun(RunPc)[1] = "backup" /\ TheRun(RunErrors)[1] = RunErrors
  BY <1>2, OneRun
<1>6. TheRun(RunErrors)' = [TheRun(RunErrors) EXCEPT ![1] = @ \/ errors # {}]
  BY <1>3, <1>5, OneRun
<1>7. CASE artifacts = {}
  <2>1. status' = "failed" /\ RunPc' = "done" /\ RunArtifacts' = FALSE
    BY <1>1, <1>2, <1>7 DEF RunArtifacts
  <2>2. Staged' = [present |-> TRUE, manifest |-> [status |-> "failed", finished |-> 0],
                   data |-> FALSE]
    BY <1>1, <2>1 DEF Staged
  <2>3. TheRun(Staged)' = RunOnce!WithManifest(TheRun(Staged), 1, "failed")
    BY <1>4, <2>2, ManifestWritten
  <2>4. /\ TheRun(status)' = [TheRun(status) EXCEPT ![1] = "failed"]
        /\ TheRun(RunPc)' = [TheRun(RunPc) EXCEPT ![1] = "done"]
        /\ TheRun(RunArtifacts)' = TheRun(RunArtifacts)
    BY <1>2, <2>1, OneRun DEF TheRun
  <2>5. RunOnce!FinishRun(1, TheRun(Staged), "failed", "done")
    BY <2>3, <2>4 DEF RunOnce!FinishRun, RunOnce!Goto
  <2> QED
    BY <1>5, <1>6, <2>4, <2>5 DEF RunOnce!NothingBackedUp, TheRun
<1>8. CASE artifacts # {}
  <2> DEFINE st == IF RunErrors \/ errors # {} THEN "partial" ELSE "running"
  <2>1. status' = st /\ RunPc' = "sync" /\ RunArtifacts' = TRUE
    BY <1>1, <1>2, <1>3, <1>8 DEF RunArtifacts
  <2> HIDE DEF st
  <2>2. Staged' = [present |-> TRUE, manifest |-> [status |-> st, finished |-> 0], data |-> TRUE]
    BY <1>1, <2>1 DEF Staged
  <2> DEFINE dumped == [Staged EXCEPT !.data = TRUE]
  <2>3. dumped.data = TRUE
    BY <1>4
  <2> HIDE DEF dumped
  <2>4. TheRun(Staged)' = RunOnce!WithManifest(TheRun(dumped), 1, st)
    BY <2>2, <2>3, ManifestWritten
  <2>5. [TheRun(Staged) EXCEPT ![1] = [@ EXCEPT !.data = TRUE]] = TheRun(dumped)
    BY OneRun DEF dumped
  <2>6. /\ TheRun(status)' = [TheRun(status) EXCEPT ![1] = st]
        /\ TheRun(RunPc)' = [TheRun(RunPc) EXCEPT ![1] = "sync"]
        /\ TheRun(RunArtifacts)' = [TheRun(RunArtifacts) EXCEPT ![1] = TRUE]
    BY <2>1, OneRun
  <2>7. RunOnce!FinishRun(1, [TheRun(Staged) EXCEPT ![1] = [@ EXCEPT !.data = TRUE]], st, "sync")
    BY <2>4, <2>5, <2>6 DEF RunOnce!FinishRun, RunOnce!Goto
  <2>8. ~RunOnce!UsesRsync
    <3>1. Len(<<"local">>) = 1 /\ <<"local">>[1] = "local"
      OBVIOUS
    <3> QED
      BY <3>1 DEF RunOnce!UsesRsync, RunOnce!Enabled
  <2>9. st = IF TheRun(RunErrors)[1] \/ errors # {} THEN "partial" ELSE "running"
    BY <1>5 DEF st
  <2> QED
    BY <1>5, <1>6, <2>6, <2>7, <2>8, <2>9 DEF RunOnce!BackupTargets, TheRun
<1> QED
  BY <1>7, <1>8

LEMMA IsAbandoned ==
  ASSUME OutcomeInv, pc \in {"discover", "backup", "copy"}, pc' = "raised",
         UNCHANGED <<errors, status>>
  PROVE  RunOnce!Crash(1)
<1>1. RunPc \in {"discover", "backup"} /\ RunPc' = "crashed"
  BY DEF RunPc
<1>2. RunArtifacts = FALSE /\ RunArtifacts' = FALSE
  BY DEF RunArtifacts
<1>3. RunErrors' = RunErrors
  BY DEF RunErrors, MetadataErrors, OutcomeInv
<1>4. Staged' = Staged
  <2>1. Staged = [present |-> TRUE, manifest |-> [status |-> "none", finished |-> 0], data |-> FALSE]
    BY StagedRun
  <2>2. Staged' = [present |-> TRUE, manifest |-> [status |-> "none", finished |-> 0], data |-> FALSE]
    BY <1>2 DEF Staged
  <2> QED
    BY <2>1, <2>2
<1>5. 1 \in RunOnce!Active
  BY <1>1, OneRun DEF RunOnce!Active, RunOnce!Ended
<1>6. /\ TheRun(RunPc)' = [TheRun(RunPc) EXCEPT ![1] = "crashed"]
      /\ TheRun({}) = [TheRun({}) EXCEPT ![1] = {}]
      /\ TheRun(1) = [TheRun(1) EXCEPT ![1] = 1]
  BY <1>1, OneRun
<1> QED
  BY <1>2, <1>3, <1>4, <1>5, <1>6
  DEF RunOnce!Crash, RunOnce!Stopped, RunOnce!Goto, RunOnce!ResetProviders, TheRun

LEMMA NextRunOnce ==
  ASSUME PhaseInv, PhaseInv', [Next]_vars
  PROVE  RunOnce!Next \/ UNCHANGED RunOnce!vars
<1>0. LoopsInv /\ OutcomeInv /\ OutcomeInv'
  BY DEF PhaseInv
<1>1. CASE StartRun
  BY <1>0, <1>1, StartsRun, OneRun DEF RunOnce!Next
<1>2. CASE DiscoveryFails
  <2>1. /\ pc = "discover" /\ pc' = "finished" /\ status' = "failed" /\ errors' # {}
        /\ artifacts' = {}
    BY <1>0, <1>2 DEF DiscoveryFails, FinishWith, OutcomeInv
  <2> QED
    BY <2>1, FindsNoTargets, OneRun DEF RunOnce!Next, RunOnce!RunStep
<1>3. CASE InspectContainer \/ DiscoveryComplete \/ ResolveContainer
  <2>1. /\ pc \in {"discover", "resolve"} /\ pc' \in {"discover", "resolve"} /\ status' = status
    BY <1>3 DEF InspectContainer, DiscoveryComplete, ResolveContainer
  <2>2. RunPc' = RunPc /\ RunErrors' = RunErrors
    BY <2>1 DEF RunPc, RunErrors
  <2> QED
    BY <2>1, <2>2, WorksOn
<1>4. CASE TargetsResolved
  <2>1. CASE targets = <<>>
    <3>1. /\ pc = "resolve" /\ pc' = "finished" /\ status' = "failed" /\ errors' # {}
          /\ artifacts' = {}
      BY <1>0, <1>4, <2>1 DEF TargetsResolved, FinishWith, OutcomeInv
    <3> QED
      BY <3>1, FindsNoTargets, OneRun DEF RunOnce!Next, RunOnce!RunStep
  <2>2. CASE targets # <<>>
    <3>1. pc = "resolve" /\ pc' = "backup" /\ status' = status
      BY <1>4, <2>2 DEF TargetsResolved
    <3> QED
      BY <3>1, Resolves, OneRun DEF RunOnce!Next, RunOnce!RunStep
  <2> QED
    BY <2>1, <2>2
<1>5. CASE InvalidTarget \/ Raise
  <2>1. pc \in {"discover", "backup", "copy"} /\ pc' = "raised" /\ UNCHANGED <<errors, status>>
    BY <1>5 DEF InvalidTarget, Raise, AtTarget, Copying
  <2> QED
    BY <1>0, <2>1, IsAbandoned, OneRun DEF RunOnce!Next, RunOnce!CrashStep
<1>6. CASE \/ RefuseFormat \/ BackUpDatabase
           \/ BeginArchive \/ GetArchiveFails \/ ExtractArchive \/ WriteArchive
  <2>1. pc \in {"backup", "copy"} /\ pc' \in {"backup", "copy"} /\ status' = status
    BY <1>6 DEF RefuseFormat, BackUpDatabase, BeginArchive, GetArchiveFails, ExtractArchive,
       WriteArchive, AtTarget, Copying
  <2>2. MetadataErrors' = MetadataErrors
    <3>1. CASE RefuseFormat \/ BackUpDatabase
      BY <3>1 DEF RefuseFormat, BackUpDatabase, MetadataErrors, Error
    <3>2. CASE BeginArchive \/ GetArchiveFails \/ ExtractArchive
      BY <3>2 DEF BeginArchive, GetArchiveFails, ExtractArchive, MetadataErrors
    <3>3. CASE WriteArchive
      <4>1. \A f \in failures : f.source = "provider"
        BY <1>0, <3>3 DEF WriteArchive, LoopsInv
      <4>2. \A e \in errors' : e \in errors \/ e.source = "provider"
        BY <3>3, <4>1 DEF WriteArchive, Error
      <4>3. errors \subseteq errors'
        BY <3>3 DEF WriteArchive
      <4> QED
        BY <4>2, <4>3 DEF MetadataErrors
    <3> QED
      BY <1>6, <3>1, <3>2, <3>3
  <2>3. RunPc' = RunPc /\ RunErrors' = RunErrors
    BY <2>1, <2>2 DEF RunPc, RunErrors
  <2> QED
    BY <2>1, <2>3, WorksOn
<1>7. CASE TargetsBackedUp
  BY <1>0, <1>7, FinishesPhase, OneRun DEF RunOnce!Next, RunOnce!RunStep
<1>8. CASE UNCHANGED vars
  <2>1. RunPc' = RunPc /\ RunErrors' = RunErrors /\ RunArtifacts' = RunArtifacts /\ status' = status
    BY <1>8 DEF vars, RunPc, RunErrors, RunArtifacts, MetadataErrors
  <2>2. Staged' = Staged
    BY <1>8, <2>1 DEF vars, Staged
  <2> QED
    BY <2>1, <2>2, Stutters
<1> QED
  BY <1>1, <1>2, <1>3, <1>4, <1>5, <1>6, <1>7, <1>8 DEF Next

\* run_once may take discovery, resolution and the backups for the two steps of
\* Orchestrator, whatever containers there are and whatever they fail with.
THEOREM PhaseImplementsRunOnce ==
  Spec => ImplementsRunOnce
<1>1. Init => RunOnce!Init
  BY InitRunOnce
<1>2. PhaseInv /\ PhaseInv' /\ [Next]_vars => [RunOnce!Next]_(RunOnce!vars)
  BY NextRunOnce
<1> QED
  BY <1>1, <1>2, PhaseInvariant, PTL DEF Spec, ImplementsRunOnce, RunOnce!Spec
===============================================================================

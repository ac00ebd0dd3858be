-------------------------- MODULE OrchestratorProofs --------------------------
(***************************************************************************)
(* Theorems about the orchestrator, for every number of runs, every        *)
(* retention window and every sequence of storage backends.                *)
(***************************************************************************)
EXTENDS Orchestrator, TLAPS

-------------------------------------------------------------------------------
(***************************************************************************)
(* Facts about the operators on run directories.                           *)
(***************************************************************************)

\* The constants of directories have their types.
LEMMA DirTypes ==
  /\ NoManifest \in Manifest
  /\ Gone \in RunDir
BY MaxDayAssumption DEF NoManifest, Manifest, Gone, RunDir, Day, RunStatus

\* A half-removed tree is a tree (Wreck), and directories the removal was not
\* about are as they were.
LEMMA WreckFacts ==
  ASSUME NEW dirs \in [Run -> RunDir], NEW removed, NEW emptied, NEW headless
  PROVE  /\ Wreck(dirs, removed, emptied, headless) \in [Run -> RunDir]
         /\ \A r \in Run \ (removed \cup emptied \cup headless) :
              Wreck(dirs, removed, emptied, headless)[r] = dirs[r]
         /\ \A r \in Run :
              LET w == Wreck(dirs, removed, emptied, headless)[r]
              IN  w.manifest \in {NoManifest, dirs[r].manifest}
<1> DEFINE W(r) == IF r \in removed THEN Gone
                   ELSE [present |-> dirs[r].present,
                         manifest |-> IF r \in headless THEN NoManifest ELSE dirs[r].manifest,
                         data |-> IF r \in emptied THEN FALSE ELSE dirs[r].data]
<1>1. Wreck(dirs, removed, emptied, headless) = [r \in Run |-> W(r)]
  BY DEF Wreck
<1>2. ASSUME NEW r \in Run
      PROVE  W(r) \in RunDir
  BY DirTypes DEF RunDir
<1>3. ASSUME NEW r \in Run \ (removed \cup emptied \cup headless)
      PROVE  W(r) = dirs[r]
  BY DEF RunDir
<1>4. ASSUME NEW r \in Run
      PROVE  W(r).manifest \in {NoManifest, dirs[r].manifest}
  BY DEF RunDir, Gone
<1> HIDE DEF W
<1> QED
  BY <1>1, <1>2, <1>3, <1>4

\* What a removal that may fail leaves (Removals): a tree, in which the
\* directories that were not to be removed are as they were.
LEMMA RemovalsFacts ==
  ASSUME NEW dirs \in [Run -> RunDir], NEW victims, NEW failed \in SUBSET victims,
         NEW left \in Removals(dirs, victims, failed)
  PROVE  /\ left \in [Run -> RunDir]
         /\ \A r \in Run \ victims : left[r] = dirs[r]
         /\ \A r \in Run : left[r].manifest \in {NoManifest, dirs[r].manifest}
<1>1. PICK emptied \in SUBSET failed, headless \in SUBSET failed :
        left = Wreck(dirs, victims \ failed, emptied, headless)
  BY DEF Removals
<1> QED
  BY <1>1, WreckFacts

\* A failed transfer leaves a directory whose manifest, if any, is the one sent.
LEMMA HalfCopiesFacts ==
  ASSUME NEW src \in RunDir, NEW copy \in HalfCopies(src)
  PROVE  copy \in RunDir /\ copy.manifest \in {NoManifest, src.manifest}
BY DirTypes DEF HalfCopies, RunDir

\* A directory that a retention plan may delete.
Deletable(dir, bornOn) == dir.present /\ BeforeCutoff(RunTimestamp(dir, bornOn), now)

\* The runs retention deletes are dated before the cutoff.
LEMMA ExpiredFacts ==
  ASSUME NEW dirs, NEW born
  PROVE  /\ ExpiredRunDirs(dirs, born, now) \in SUBSET Run
         /\ ExpiredManifests(dirs, now) \in SUBSET Run
         /\ \A r \in ExpiredRunDirs(dirs, born, now) : Deletable(dirs[r], born[r])
         /\ \A r \in ExpiredManifests(dirs, now) : Deletable(dirs[r], born[r])
BY DEF ExpiredRunDirs, ExpiredManifests, Inventoried, RunTimestamp, Deletable

-------------------------------------------------------------------------------
(***************************************************************************)
(* Type correctness.                                                       *)
(***************************************************************************)

\* Writing a manifest makes a tree of a tree.
LEMMA WithManifestFacts ==
  ASSUME NEW dirs \in [Run -> RunDir], NEW r \in Run, NEW st \in RunStatus, now \in Day
  PROVE  /\ WithManifest(dirs, r, st) \in [Run -> RunDir]
         /\ WithManifest(dirs, r, st)[r] =
              [present |-> TRUE, manifest |-> [status |-> st, finished |-> now],
               data |-> dirs[r].data]
         /\ \A q \in Run \ {r} : WithManifest(dirs, r, st)[q] = dirs[q]
<1>1. [present |-> TRUE, manifest |-> [status |-> st, finished |-> now],
       data |-> dirs[r].data] \in RunDir
  BY DEF RunDir, Manifest
<1> QED
  BY <1>1 DEF WithManifest

\* Finishing a run keeps the types of what it assigns.
LEMMA FinishRunType ==
  ASSUME TypeOK, NEW r \in Run, NEW dirs \in [Run -> RunDir], NEW st \in RunStatus,
         NEW step \in Step, FinishRun(r, dirs, st, step)
  PROVE  /\ status' \in [Run -> RunStatus]
         /\ staged' \in [Run -> RunDir]
         /\ pc' \in [Run -> Step]
BY WithManifestFacts DEF FinishRun, Goto, TypeOK

\* Concluding a run keeps the types of what it assigns.
LEMMA ConcludeType ==
  ASSUME TypeOK, NEW r \in Run, NEW dirs \in [Run -> RunDir], NEW erroneous,
         Conclude(r, dirs, erroneous)
  PROVE  /\ status' \in [Run -> RunStatus]
         /\ staged' \in [Run -> RunDir]
         /\ pc' \in [Run -> Step]
BY FinishRunType DEF Conclude, RunStatus, RUN_TERMINAL_STATUSES, Step

\* Failing a run keeps the types of what it assigns.
LEMMA FailRunType ==
  ASSUME TypeOK, NEW r \in Run, NEW st \in RunStatus, FailRun(r, st)
  PROVE  /\ status' \in [Run -> RunStatus]
         /\ staged' \in [Run -> RunDir]
         /\ pc' \in [Run -> Step]
         /\ errors' \in [Run -> BOOLEAN]
<1>1. staged \in [Run -> RunDir] /\ "done" \in Step
  BY DEF TypeOK, Step
<1>2. errors' \in [Run -> BOOLEAN]
  BY DEF FailRun, TypeOK
<1> QED
  BY <1>1, <1>2, FinishRunType DEF FailRun

\* The bookkeeping of composite calls keeps its types.
LEMMA ProvidersType ==
  ASSUME TypeOK, NEW r \in Run
  PROVE  /\ ResetProviders(r) => /\ next' \in [Run -> 1..(Len(Providers) + 1)]
                                 /\ succeeded' \in [Run -> SUBSET Backend]
         /\ ProvidersLeft(r) =>
              /\ Providers[next[r]] \in Backend
              /\ Providers[next[r]] \in Enabled
              /\ \A ok : ProviderReturned(r, ok) =>
                   /\ next' \in [Run -> 1..(Len(Providers) + 1)]
                   /\ succeeded' \in [Run -> SUBSET Backend]
<1>1. Len(Providers) \in Nat
  BY ProvidersAssumption
<1>2. ResetProviders(r) => /\ next' \in [Run -> 1..(Len(Providers) + 1)]
                           /\ succeeded' \in [Run -> SUBSET Backend]
  BY <1>1 DEF ResetProviders, TypeOK
<1>3. ASSUME ProvidersLeft(r)
      PROVE  next[r] \in 1..Len(Providers) /\ Providers[next[r]] \in Backend
  BY <1>1, <1>3, ProvidersAssumption DEF ProvidersLeft, TypeOK
<1>4. ASSUME ProvidersLeft(r), NEW ok, ProviderReturned(r, ok)
      PROVE  /\ next' \in [Run -> 1..(Len(Providers) + 1)]
             /\ succeeded' \in [Run -> SUBSET Backend]
  <2>1. next' \in [Run -> 1..(Len(Providers) + 1)]
    BY <1>1, <1>3, <1>4 DEF ProviderReturned, TypeOK
  <2>2. succeeded[r] \cup {Providers[next[r]]} \in SUBSET Backend
    BY <1>3, <1>4 DEF TypeOK
  <2>3. succeeded' \in [Run -> SUBSET Backend]
    BY <1>4, <2>2 DEF ProviderReturned, TypeOK
  <2> QED
    BY <2>1, <2>3
<1> QED
  BY <1>2, <1>3, <1>4 DEF Enabled

\* What a backend may hold after a removal or a transfer is a tree.
LEMMA StoreType ==
  ASSUME TypeOK, NEW b \in Backend
  PROVE  /\ store[b] \in [Run -> RunDir]
         /\ \A dirs \in [Run -> RunDir] :
              [store EXCEPT ![b] = dirs] \in [Backend -> [Run -> RunDir]]
         /\ \A r \in Run, dir \in RunDir :
              [store EXCEPT ![b][r] = dir] \in [Backend -> [Run -> RunDir]]
BY DEF TypeOK

\* What a transfer leaves at its destination is a run directory.
LEMMA CopiesType ==
  ASSUME TypeOK, NEW b \in Backend, NEW r \in Run
  PROVE  Copies(b, r) \subseteq RunDir /\ FailedCopies(b, r) \subseteq RunDir
<1>1. staged[r] \in RunDir /\ store[b][r] \in RunDir
  BY DEF TypeOK
<1>2. HalfCopies(staged[r]) \subseteq RunDir
  BY <1>1, HalfCopiesFacts
<1> QED
  BY <1>1, <1>2 DEF Copies, FailedCopies

\* The variables have their types initially.
LEMMA TypeInit == Init => TypeOK
<1> SUFFICES ASSUME Init PROVE TypeOK
  OBVIOUS
<1>1. Len(Providers) \in Nat
  BY ProvidersAssumption
<1>2. now \in Day /\ started \in [Run -> Day]
  BY MaxDayAssumption DEF Init, Day
<1>3. next \in [Run -> 1..(Len(Providers) + 1)]
  BY <1>1 DEF Init
<1>4. /\ pc \in [Run -> Step]
      /\ status \in [Run -> RunStatus]
  BY DEF Init, Step, RunStatus
<1>5. /\ staged \in [Run -> RunDir]
      /\ store \in [Backend -> [Run -> RunDir]]
  BY DirTypes DEF Init
<1>6. /\ errors \in [Run -> BOOLEAN]
      /\ artifacts \in [Run -> BOOLEAN]
      /\ expired \in [Run -> SUBSET Run]
      /\ succeeded \in [Run -> SUBSET Backend]
  BY DEF Init
<1> QED
  BY <1>2, <1>3, <1>4, <1>5, <1>6 DEF TypeOK

\* Starting a run, and the steps before its publication, keep the types.
LEMMA TypeBeforePublication ==
  ASSUME TypeOK, NEW r \in Run,
         \/ StartRun(r) \/ NoTargets(r) \/ DiscoverAndResolve(r)
         \/ NothingBackedUp(r) \/ BackupTargets(r)
  PROVE  TypeOK'
<1>0. /\ {"discover", "backup", "plan", "sync", "done"} \subseteq Step
      /\ {"running", "partial", "failed"} \subseteq RunStatus
      /\ staged \in [Run -> RunDir] /\ now \in Day
      /\ pc \in [Run -> Step] /\ status \in [Run -> RunStatus]
      /\ errors \in [Run -> BOOLEAN] /\ artifacts \in [Run -> BOOLEAN]
  BY DEF Step, RunStatus, RUN_TERMINAL_STATUSES, TypeOK
<1>1. CASE StartRun(r)
  <2>1. [staged[r] EXCEPT !.present = TRUE] \in RunDir
    BY <1>0 DEF RunDir
  <2>2. started' \in [Run -> Day] /\ status' \in [Run -> RunStatus]
    BY <1>0, <1>1 DEF StartRun, TypeOK
  <2>3. staged' \in [Run -> RunDir] /\ pc' \in [Run -> Step]
    BY <1>0, <1>1, <2>1 DEF StartRun, Goto
  <2> QED
    BY <1>1, <2>2, <2>3 DEF StartRun, TypeOK
<1>2. CASE NoTargets(r)
  <2>1. FailRun(r, "failed")
    BY <1>2 DEF NoTargets
  <2> QED
    BY <1>0, <1>2, <2>1, FailRunType DEF NoTargets, TypeOK
<1>3. CASE DiscoverAndResolve(r)
  <2>1. errors' \in [Run -> BOOLEAN] /\ pc' \in [Run -> Step]
    BY <1>0, <1>3 DEF DiscoverAndResolve, Goto
  <2> QED
    BY <1>3, <2>1 DEF DiscoverAndResolve, TypeOK
<1>4. CASE NothingBackedUp(r)
  <2>1. FinishRun(r, staged, "failed", "done")
    BY <1>4 DEF NothingBackedUp
  <2>2. PICK failing \in BOOLEAN : errors' = [errors EXCEPT ![r] = @ \/ failing]
    BY <1>4 DEF NothingBackedUp
  <2>3. errors' \in [Run -> BOOLEAN]
    BY <1>0, <2>2, Zenon
  <2> QED
    BY <1>0, <1>4, <2>1, <2>3, FinishRunType DEF NothingBackedUp, TypeOK
<1>5. CASE BackupTargets(r)
  <2> DEFINE dumped == [staged EXCEPT ![r] = [@ EXCEPT !.data = TRUE]]
  <2>1. [staged[r] EXCEPT !.data = TRUE] \in RunDir
    BY <1>0 DEF RunDir
  <2>2. dumped \in [Run -> RunDir]
    BY <1>0, <2>1
  <2> HIDE DEF dumped
  <2>3. PICK failing \in BOOLEAN :
          /\ errors' = [errors EXCEPT ![r] = @ \/ failing]
          /\ FinishRun(r, dumped, IF errors[r] \/ failing THEN "partial" ELSE "running",
                       IF UsesRsync THEN "plan" ELSE "sync")
    BY <1>5 DEF BackupTargets, dumped
  <2>4. errors' \in [Run -> BOOLEAN]
    BY <1>0, <2>3, Zenon
  <2>5. artifacts' \in [Run -> BOOLEAN]
    BY <1>0, <1>5 DEF BackupTargets
  <2> QED
    BY <1>0, <1>5, <2>2, <2>3, <2>4, <2>5, FinishRunType DEF BackupTargets, TypeOK
<1> QED
  BY <1>1, <1>2, <1>3, <1>4, <1>5

\* The rsync steps before the publication keep the types.
LEMMA TypeRsyncRetention ==
  ASSUME TypeOK, NEW r \in Run,
         PlanFails(r) \/ PlanRemoteRetention(r) \/ DeleteRemoteRuns(r) \/ DeleteFails(r)
  PROVE  TypeOK'
<1>0. /\ {"delete", "sync", "done"} \subseteq Step
      /\ {"partial", "failed"} \subseteq RunStatus
      /\ "rsync" \in Backend
      /\ pc \in [Run -> Step] /\ expired \in [Run -> SUBSET Run]
  BY DEF Step, RunStatus, RUN_TERMINAL_STATUSES, Backend, TypeOK
<1>1. CASE PlanFails(r)
  <2>1. FailRun(r, IF artifacts[r] THEN "partial" ELSE "failed")
    BY <1>1 DEF PlanFails
  <2> QED
    BY <1>0, <1>1, <2>1, FailRunType DEF PlanFails, TypeOK
<1>2. CASE PlanRemoteRetention(r)
  <2>1. ExpiredManifests(store["rsync"], now) \in SUBSET Run
    BY ExpiredFacts
  <2>2. expired' \in [Run -> SUBSET Run] /\ pc' \in [Run -> Step]
    BY <1>0, <1>2, <2>1 DEF PlanRemoteRetention, Goto
  <2> QED
    BY <1>2, <2>2 DEF PlanRemoteRetention, TypeOK
<1>3. CASE DeleteRemoteRuns(r)
  <2>1. Wreck(store["rsync"], DeletedByRsync({}), {}, {}) \in [Run -> RunDir]
    BY <1>0, StoreType, WreckFacts
  <2>2. store' \in [Backend -> [Run -> RunDir]]
    BY <1>0, <1>3, <2>1, StoreType DEF DeleteRemoteRuns, TypeOK
  <2>3. expired' \in [Run -> SUBSET Run] /\ pc' \in [Run -> Step]
    BY <1>0, <1>3 DEF DeleteRemoteRuns, Goto
  <2> QED
    BY <1>3, <2>2, <2>3 DEF DeleteRemoteRuns, TypeOK
<1>4. CASE DeleteFails(r)
  <2>0. PICK left \in SUBSET DeletedByRsync({}) :
          \E dirs \in Removals(store["rsync"], DeletedByRsync({}), left) :
            store' = [store EXCEPT !["rsync"] = dirs]
    BY <1>4 DEF DeleteFails
  <2>1. PICK dirs \in Removals(store["rsync"], DeletedByRsync({}), left) :
          store' = [store EXCEPT !["rsync"] = dirs]
    BY <2>0
  <2>2. dirs \in [Run -> RunDir]
    BY <1>0, StoreType, RemovalsFacts
  <2>3. store' \in [Backend -> [Run -> RunDir]]
    BY <1>0, <2>1, <2>2, StoreType
  <2>4. expired' \in [Run -> SUBSET Run]
    BY <1>0, <1>4 DEF DeleteFails
  <2>5. FailRun(r, IF artifacts[r] THEN "partial" ELSE "failed")
    BY <1>4 DEF DeleteFails
  <2> QED
    BY <1>0, <1>4, <2>3, <2>4, <2>5, FailRunType DEF DeleteFails, TypeOK
<1> QED
  BY <1>1, <1>2, <1>3, <1>4

\* The publication keeps the types.
LEMMA TypePublication ==
  ASSUME TypeOK, NEW r \in Run, Sync(r) \/ SyncFailed(r) \/ SyncSucceeded(r)
  PROVE  TypeOK'
<1>0. /\ {"cleanup", "local_retention", "done"} \subseteq Step
      /\ {"partial", "sync_failed"} \subseteq RunStatus
      /\ pc \in [Run -> Step] /\ staged \in [Run -> RunDir]
      /\ status \in [Run -> RunStatus]
  BY DEF Step, RunStatus, RUN_TERMINAL_STATUSES, TypeOK
<1>1. CASE Sync(r)
  <2> DEFINE b == Providers[next[r]]
  <2>1. b \in Backend
    BY <1>1, ProvidersType DEF Sync
  <2>2. PICK copy \in Copies(b, r) \cup FailedCopies(b, r), ok \in BOOLEAN :
          store' = [store EXCEPT ![b][r] = copy] /\ ProviderReturned(r, ok)
    BY <1>1 DEF Sync
  <2>3. store' \in [Backend -> [Run -> RunDir]]
    BY <2>1, <2>2, CopiesType, StoreType
  <2>4. next' \in [Run -> 1..(Len(Providers) + 1)] /\ succeeded' \in [Run -> SUBSET Backend]
    BY <1>1, <2>2, ProvidersType DEF Sync
  <2> QED
    BY <1>1, <2>3, <2>4 DEF Sync, TypeOK
<1>2. CASE SyncFailed(r)
  <2>1. FailRun(r, IF succeeded[r] # {} THEN "partial" ELSE "sync_failed")
    BY <1>2 DEF SyncFailed
  <2> QED
    BY <1>0, <1>2, <2>1, FailRunType, ProvidersType DEF SyncFailed, TypeOK
<1>3. CASE SyncSucceeded(r)
  <2>1. /\ status' \in [Run -> RunStatus]
        /\ staged' \in [Run -> RunDir]
        /\ pc' \in [Run -> Step]
    <3>1. CASE UsesRsync /\ ~UsesLocalStorage
      <4>1. Conclude(r, staged, errors[r])
        BY <1>3, <3>1 DEF SyncSucceeded
      <4> QED
        BY <1>0, <4>1, ConcludeType
    <3>2. CASE ~(UsesRsync /\ ~UsesLocalStorage)
      BY <1>0, <1>3, <3>2 DEF SyncSucceeded, Goto
    <3> QED
      BY <3>1, <3>2
  <2> QED
    BY <1>3, <2>1, ProvidersType DEF SyncSucceeded, TypeOK
<1> QED
  BY <1>1, <1>2, <1>3

\* What a cleanup of a provider leaves in its backend, and what it returns: the
\* runs it touches are victims of the retention plan of that backend.
LEMMA CleanupFacts ==
  ASSUME TypeOK, NEW r \in Run, Cleanup(r)
  PROVE  \E dirs \in [Run -> RunDir], ok \in BOOLEAN, victims \in SUBSET Run :
           LET b == Providers[next[r]] IN
           /\ b \in Backend
           /\ store' = [store EXCEPT ![b] = dirs]
           /\ ProviderReturned(r, ok)
           /\ \A q \in victims : Deletable(store[b][q], started[q])
           /\ \A q \in Run \ victims : dirs[q] = store[b][q]
           /\ \A q \in Run : dirs[q].manifest \in {NoManifest, store[b][q].manifest}
<1> DEFINE b == Providers[next[r]]
<1>1. b \in Backend
  BY ProvidersType DEF Cleanup
<1>2. store[b] \in [Run -> RunDir]
  BY <1>1, StoreType
<1>3. CASE CleanupLocal(r)
  <2> DEFINE victims == ExpiredRunDirs(store["local"], started, now)
  <2>1. PICK failed \in SUBSET victims :
          \E dirs \in Removals(store["local"], victims, failed) :
            store' = [store EXCEPT !["local"] = dirs] /\ ProviderReturned(r, failed = {})
    BY <1>3 DEF CleanupLocal
  <2>2. PICK dirs \in Removals(store["local"], victims, failed) :
          store' = [store EXCEPT !["local"] = dirs] /\ ProviderReturned(r, failed = {})
    BY <2>1
  <2>3. b = "local"
    BY <1>3 DEF CleanupLocal
  <2>4. /\ dirs \in [Run -> RunDir]
        /\ \A q \in Run \ victims : dirs[q] = store[b][q]
        /\ \A q \in Run : dirs[q].manifest \in {NoManifest, store[b][q].manifest}
    BY <1>2, <2>3, RemovalsFacts
  <2>5. /\ victims \in SUBSET Run
        /\ \A q \in victims : Deletable(store[b][q], started[q])
    BY <2>3, ExpiredFacts
  <2> HIDE DEF victims
  <2> QED
    BY <1>1, <2>2, <2>3, <2>4, <2>5
<1>4. CASE CleanupFtp(r) /\ UNCHANGED store
  <2>1. PICK ok \in BOOLEAN : ProviderReturned(r, ok)
    BY <1>4 DEF CleanupFtp
  <2>2. store' = [store EXCEPT ![b] = store[b]]
    BY <1>1, <1>4 DEF TypeOK
  <2> WITNESS store[b] \in [Run -> RunDir], ok \in BOOLEAN, {} \in SUBSET Run
  <2> QED
    BY <1>1, <2>1, <2>2
<1>5. CASE CleanupFtp(r) /\ ~UNCHANGED store
  <2> DEFINE victims == ExpiredManifests(store["ftp"], now)
  <2>1. PICK failed \in SUBSET victims :
          \E husks \in SUBSET (victims \ failed) :
            \E dirs \in Removals(store["ftp"], victims \ husks, failed) :
              /\ store' = [store EXCEPT !["ftp"] = Wreck(dirs, {}, husks, husks)]
              /\ \E ok \in BOOLEAN : ProviderReturned(r, ok)
    BY <1>5 DEF CleanupFtp
  <2>2. PICK husks \in SUBSET (victims \ failed) :
          \E dirs \in Removals(store["ftp"], victims \ husks, failed) :
            /\ store' = [store EXCEPT !["ftp"] = Wreck(dirs, {}, husks, husks)]
            /\ \E ok \in BOOLEAN : ProviderReturned(r, ok)
    BY <2>1
  <2>3. PICK dirs \in Removals(store["ftp"], victims \ husks, failed) :
          /\ store' = [store EXCEPT !["ftp"] = Wreck(dirs, {}, husks, husks)]
          /\ \E ok \in BOOLEAN : ProviderReturned(r, ok)
    BY <2>2
  <2>4. b = "ftp"
    BY <1>5 DEF CleanupFtp
  <2>5. /\ victims \in SUBSET Run
        /\ \A q \in victims : Deletable(store[b][q], started[q])
    BY <2>4, ExpiredFacts
  <2>6. failed \in SUBSET (victims \ husks)
    BY <2>2
  <2> HIDE DEF victims
  <2>7. /\ dirs \in [Run -> RunDir]
        /\ \A q \in Run \ victims : dirs[q] = store[b][q]
        /\ \A q \in Run : dirs[q].manifest \in {NoManifest, store[b][q].manifest}
    BY <1>2, <2>3, <2>4, <2>6, RemovalsFacts
  <2> DEFINE wrecked == Wreck(dirs, {}, husks, husks)
  <2>8. /\ wrecked \in [Run -> RunDir]
        /\ \A q \in Run \ husks : wrecked[q] = dirs[q]
        /\ \A q \in Run : wrecked[q].manifest \in {NoManifest, dirs[q].manifest}
    BY <2>7, WreckFacts
  <2>9. store' = [store EXCEPT ![b] = wrecked] /\ \E ok \in BOOLEAN : ProviderReturned(r, ok)
    BY <2>3, <2>4
  <2> HIDE DEF wrecked
  <2>10. /\ \A q \in Run \ victims : wrecked[q] = store[b][q]
         /\ \A q \in Run : wrecked[q].manifest \in {NoManifest, store[b][q].manifest}
    BY <2>2, <2>7, <2>8
  <2> QED
    BY <1>1, <2>5, <2>8, <2>9, <2>10
<1> QED
  BY <1>3, <1>4, <1>5 DEF Cleanup

\* What local retention leaves of the staging area.
LEMMA LocalRetentionFacts ==
  ASSUME TypeOK, NEW failed \in SUBSET ExpiredRunDirs(staged, started, now),
         NEW dirs \in Removals(staged, ExpiredRunDirs(staged, started, now), failed)
  PROVE  /\ dirs \in [Run -> RunDir]
         /\ \A q \in Run : Deletable(staged[q], started[q]) \/ dirs[q] = staged[q]
         /\ \A q \in Run : dirs[q].manifest \in {NoManifest, staged[q].manifest}
<1> DEFINE victims == ExpiredRunDirs(staged, started, now)
<1>1. staged \in [Run -> RunDir]
  BY DEF TypeOK
<1>2. \A q \in victims : Deletable(staged[q], started[q])
  BY ExpiredFacts
<1>3. /\ dirs \in [Run -> RunDir]
      /\ \A q \in Run \ victims : dirs[q] = staged[q]
      /\ \A q \in Run : dirs[q].manifest \in {NoManifest, staged[q].manifest}
  BY <1>1, RemovalsFacts
<1> HIDE DEF victims
<1> QED
  BY <1>2, <1>3

\* What the removal of the staged tree of a run leaves of the staging area.
LEMMA CleanupRunTreeFacts ==
  ASSUME TypeOK, NEW r \in Run, NEW left \in SUBSET {r},
         NEW dirs \in Removals(staged, {r}, left)
  PROVE  /\ dirs \in [Run -> RunDir]
         /\ \A q \in Run \ {r} : dirs[q] = staged[q]
         /\ \A q \in Run : dirs[q].manifest \in {NoManifest, staged[q].manifest}
<1>1. staged \in [Run -> RunDir]
  BY DEF TypeOK
<1> QED
  BY <1>1, RemovalsFacts

\* The steps after the publication keep the types.
LEMMA TypeAfterPublication ==
  ASSUME TypeOK, NEW r \in Run,
         Cleanup(r) \/ CleanupFinished(r) \/ LocalRetention(r) \/ CleanupRunTree(r)
  PROVE  TypeOK'
<1>0. /\ {"local_retention", "done"} \subseteq Step
      /\ pc \in [Run -> Step] /\ staged \in [Run -> RunDir]
      /\ status \in [Run -> RunStatus] /\ errors \in [Run -> BOOLEAN]
  BY DEF Step, TypeOK
<1>1. CASE Cleanup(r)
  <2>1. PICK dirs \in [Run -> RunDir], ok \in BOOLEAN :
          /\ Providers[next[r]] \in Backend
          /\ store' = [store EXCEPT ![Providers[next[r]]] = dirs]
          /\ ProviderReturned(r, ok)
    BY <1>1, CleanupFacts
  <2>2. store' \in [Backend -> [Run -> RunDir]]
    BY <2>1, StoreType
  <2>3. next' \in [Run -> 1..(Len(Providers) + 1)] /\ succeeded' \in [Run -> SUBSET Backend]
    BY <1>1, <2>1, ProvidersType DEF Cleanup
  <2> QED
    BY <1>1, <2>2, <2>3 DEF Cleanup, TypeOK
<1>2. CASE CleanupFinished(r)
  <2>1. /\ status' \in [Run -> RunStatus]
        /\ staged' \in [Run -> RunDir]
        /\ pc' \in [Run -> Step]
    <3>1. CASE AllSucceeded(r) /\ ~errors[r] /\ UsesLocalStorage
      BY <1>0, <1>2, <3>1 DEF CleanupFinished, Goto
    <3>2. CASE ~(AllSucceeded(r) /\ ~errors[r] /\ UsesLocalStorage)
      <4>1. Conclude(r, staged, errors[r] \/ ~AllSucceeded(r))
        BY <1>2, <3>2 DEF CleanupFinished
      <4> QED
        BY <1>0, <4>1, ConcludeType
    <3> QED
      BY <3>1, <3>2
  <2>2. errors' \in [Run -> BOOLEAN]
    BY <1>0, <1>2, Zenon DEF CleanupFinished
  <2> QED
    BY <1>2, <2>1, <2>2, ProvidersType DEF CleanupFinished, TypeOK
<1>3. CASE LocalRetention(r)
  <2>1. PICK failed \in SUBSET ExpiredRunDirs(staged, started, now) :
          \E dirs \in Removals(staged, ExpiredRunDirs(staged, started, now), failed) :
            /\ errors' = [errors EXCEPT ![r] = @ \/ failed # {}]
            /\ Conclude(r, dirs, errors[r] \/ failed # {})
    BY <1>3 DEF LocalRetention
  <2>2. PICK dirs \in Removals(staged, ExpiredRunDirs(staged, started, now), failed) :
          /\ errors' = [errors EXCEPT ![r] = @ \/ failed # {}]
          /\ Conclude(r, dirs, errors[r] \/ failed # {})
    BY <2>1
  <2>3. dirs \in [Run -> RunDir]
    BY LocalRetentionFacts
  <2>4. errors' \in [Run -> BOOLEAN]
    BY <1>0, <2>2, Zenon
  <2> QED
    BY <1>3, <2>2, <2>3, <2>4, ConcludeType DEF LocalRetention, TypeOK
<1>4. CASE CleanupRunTree(r)
  <2>1. PICK left \in SUBSET {r} : staged' \in Removals(staged, {r}, left)
    BY <1>4 DEF CleanupRunTree
  <2>2. staged' \in [Run -> RunDir]
    BY <2>1, CleanupRunTreeFacts
  <2>3. pc' \in [Run -> Step]
    BY <1>0, <1>4 DEF CleanupRunTree, Goto
  <2> QED
    BY <1>4, <2>2, <2>3 DEF CleanupRunTree, TypeOK
<1> QED
  BY <1>1, <1>2, <1>3, <1>4

\* What a cleanup that is interrupted leaves in its backend.
LEMMA CrashInCleanupFacts ==
  ASSUME TypeOK, NEW r \in Run, CrashInCleanup(r)
  PROVE  \E dirs \in [Run -> RunDir] :
           LET b == Providers[next[r]] IN
           /\ b \in Backend
           /\ store' = [store EXCEPT ![b] = dirs]
           /\ \A q \in Run : Deletable(store[b][q], started[q]) \/ dirs[q] = store[b][q]
           /\ \A q \in Run : dirs[q].manifest \in {NoManifest, store[b][q].manifest}
<1> DEFINE b == Providers[next[r]]
           victims == IF b = "local" THEN ExpiredRunDirs(store[b], started, now)
                                     ELSE ExpiredManifests(store[b], now)
<1>1. b \in Backend
  BY ProvidersType DEF CrashInCleanup
<1>2. store[b] \in [Run -> RunDir]
  BY <1>1, StoreType
<1>3. \A q \in victims : Deletable(store[b][q], started[q])
  BY ExpiredFacts
<1>4. PICK left \in SUBSET victims : \E dirs \in Removals(store[b], victims, left) :
        store' = [store EXCEPT ![b] = dirs]
  BY DEF CrashInCleanup
<1> HIDE DEF victims
<1>5. PICK dirs \in Removals(store[b], victims, left) : store' = [store EXCEPT ![b] = dirs]
  BY <1>4
<1>6. /\ dirs \in [Run -> RunDir]
      /\ \A q \in Run \ victims : dirs[q] = store[b][q]
      /\ \A q \in Run : dirs[q].manifest \in {NoManifest, store[b][q].manifest}
  BY <1>2, RemovalsFacts
<1> HIDE DEF b
<1>7. /\ dirs \in [Run -> RunDir]
      /\ b \in Backend
      /\ store' = [store EXCEPT ![b] = dirs]
      /\ \A q \in Run : Deletable(store[b][q], started[q]) \/ dirs[q] = store[b][q]
      /\ \A q \in Run : dirs[q].manifest \in {NoManifest, store[b][q].manifest}
  BY <1>1, <1>3, <1>5, <1>6
<1> QED
  BY <1>7 DEF b

\* A crash keeps the types.
LEMMA TypeCrash ==
  ASSUME TypeOK, NEW r \in Run, CrashStep(r)
  PROVE  TypeOK'
<1>0. /\ "rsync" \in Backend
      /\ staged \in [Run -> RunDir]
      /\ store \in [Backend -> [Run -> RunDir]]
  BY DEF Backend, TypeOK
<1>1. Stopped(r)
  BY DEF CrashStep, Crash, CrashInDelete, CrashInSync, CrashInCleanup,
         CrashInLocalRetention, CrashInCleanupRunTree
<1>2. /\ pc' \in [Run -> Step]
      /\ expired' \in [Run -> SUBSET Run]
      /\ ResetProviders(r)
      /\ UNCHANGED <<now, started, status, errors, artifacts>>
  BY <1>1 DEF Stopped, Goto, Step, TypeOK
<1>3. staged' \in [Run -> RunDir] /\ store' \in [Backend -> [Run -> RunDir]]
  <2>1. CASE Crash(r)
    BY <1>0, <2>1 DEF Crash
  <2>2. CASE CrashInDelete(r)
    <3>1. PICK left \in SUBSET DeletedByRsync({}) :
            \E dirs \in Removals(store["rsync"], DeletedByRsync({}), left) :
              store' = [store EXCEPT !["rsync"] = dirs]
      BY <2>2 DEF CrashInDelete
    <3>2. PICK dirs \in Removals(store["rsync"], DeletedByRsync({}), left) :
            store' = [store EXCEPT !["rsync"] = dirs]
      BY <3>1
    <3>3. dirs \in [Run -> RunDir]
      BY <1>0, StoreType, RemovalsFacts
    <3> QED
      BY <1>0, <2>2, <3>2, <3>3, StoreType DEF CrashInDelete
  <2>3. CASE CrashInSync(r)
    <3>1. Providers[next[r]] \in Backend
      BY <2>3, ProvidersType DEF CrashInSync
    <3>2. PICK copy \in FailedCopies(Providers[next[r]], r) :
            store' = [store EXCEPT ![Providers[next[r]]][r] = copy]
      BY <2>3 DEF CrashInSync
    <3> QED
      BY <1>0, <2>3, <3>1, <3>2, CopiesType, StoreType DEF CrashInSync
  <2>4. CASE CrashInCleanup(r)
    <3>1. PICK dirs \in [Run -> RunDir] :
            /\ Providers[next[r]] \in Backend
            /\ store' = [store EXCEPT ![Providers[next[r]]] = dirs]
      BY <2>4, CrashInCleanupFacts
    <3> QED
      BY <1>0, <2>4, <3>1, StoreType DEF CrashInCleanup
  <2>5. CASE CrashInLocalRetention(r)
    <3>1. PICK left \in SUBSET ExpiredRunDirs(staged, started, now) :
            staged' \in Removals(staged, ExpiredRunDirs(staged, started, now), left)
      BY <2>5 DEF CrashInLocalRetention
    <3> QED
      BY <1>0, <2>5, <3>1, LocalRetentionFacts DEF CrashInLocalRetention
  <2>6. CASE CrashInCleanupRunTree(r)
    <3>1. PICK left \in SUBSET {r} : staged' \in Removals(staged, {r}, left)
      BY <2>6 DEF CrashInCleanupRunTree
    <3> QED
      BY <1>0, <2>6, <3>1, CleanupRunTreeFacts DEF CrashInCleanupRunTree
  <2> QED
    BY <2>1, <2>2, <2>3, <2>4, <2>5, <2>6 DEF CrashStep
<1> QED
  BY <1>2, <1>3, ProvidersType DEF TypeOK

\* A day that passes keeps the types.
LEMMA TypeTick ==
  ASSUME TypeOK, Tick
  PROVE  TypeOK'
<1>1. now' \in Day
  BY MaxDayAssumption DEF Tick, Day, TypeOK
<1> QED
  BY <1>1 DEF Tick, runVars, TypeOK

\* Every variable of run_once has its type in every reachable state.
THEOREM TypeCorrect == Spec => []TypeOK
<1>1. TypeOK /\ [Next]_vars => TypeOK'
  <2> SUFFICES ASSUME TypeOK, [Next]_vars PROVE TypeOK'
    OBVIOUS
  <2>1. CASE UNCHANGED vars
    BY <2>1 DEF vars, TypeOK
  <2>2. CASE Tick
    BY <2>2, TypeTick
  <2>3. ASSUME NEW r \in Run, StartRun(r) \/ RunStep(r)
        PROVE  TypeOK'
    BY <2>3, TypeBeforePublication, TypeRsyncRetention, TypePublication,
       TypeAfterPublication DEF RunStep
  <2>4. ASSUME NEW r \in Run, CrashStep(r)
        PROVE  TypeOK'
    BY <2>4, TypeCrash
  <2> QED
    BY <2>1, <2>2, <2>3, <2>4 DEF Next, Exhausted
<1> QED
  BY <1>1, TypeInit, PTL DEF Spec

-------------------------------------------------------------------------------
(***************************************************************************)
(* The last manifest of a run.                                             *)
(***************************************************************************)

FinalAt(r) ==
  pc[r] \in {"done", "cleanup_run_tree"} /\ staged[r].manifest # NoManifest =>
    /\ staged[r].manifest.status = status[r]
    /\ status[r] \in RUN_TERMINAL_STATUSES
FinalInv == \A r \in Run : FinalAt(r)

\* A step of run r does to other runs at most what retention does: it removes
\* their manifests.
SparesOthers(r) ==
  \A q \in Run \ {r} :
    /\ pc'[q] = pc[q] /\ status'[q] = status[q]
    /\ staged'[q].manifest \in {NoManifest, staged[q].manifest}

LEMMA OthersStayFinal ==
  ASSUME FinalInv, NEW r \in Run, SparesOthers(r), FinalAt(r)'
  PROVE  FinalInv'
<1> SUFFICES ASSUME NEW q \in Run
             PROVE  FinalAt(q)'
  BY DEF FinalInv
<1>1. CASE q = r
  BY <1>1
<1>2. CASE q # r
  <2>1. /\ pc'[q] = pc[q] /\ status'[q] = status[q]
        /\ staged'[q].manifest \in {NoManifest, staged[q].manifest}
    BY <1>2 DEF SparesOthers
  <2>2. FinalAt(q)
    BY DEF FinalInv
  <2> QED
    BY <2>1, <2>2 DEF FinalAt
<1> QED
  BY <1>1, <1>2

LEMMA FinishRunFinal ==
  ASSUME TypeOK, NEW r \in Run, NEW dirs \in [Run -> RunDir], NEW st \in RunStatus, NEW step,
         \A q \in Run \ {r} : dirs[q].manifest \in {NoManifest, staged[q].manifest},
         FinishRun(r, dirs, st, step),
         step \in {"done", "cleanup_run_tree"} => st \in RUN_TERMINAL_STATUSES
  PROVE  SparesOthers(r) /\ FinalAt(r)'
<1>1. pc' = [pc EXCEPT ![r] = step] /\ status' = [status EXCEPT ![r] = st]
  BY DEF FinishRun, Goto
<1>2. /\ pc'[r] = step /\ status'[r] = st
      /\ \A q \in Run \ {r} : pc'[q] = pc[q] /\ status'[q] = status[q]
  BY <1>1 DEF TypeOK
<1>3. now \in Day /\ staged' = WithManifest(dirs, r, st)
  BY DEF TypeOK, FinishRun
<1>4. /\ staged'[r] = [present |-> TRUE, manifest |-> [status |-> st, finished |-> now],
                       data |-> dirs[r].data]
      /\ \A q \in Run \ {r} : staged'[q] = dirs[q]
  BY <1>3, WithManifestFacts
<1>5. staged'[r].manifest.status = st
  BY <1>4
<1> QED
  BY <1>2, <1>4, <1>5 DEF SparesOthers, FinalAt

LEMMA ConcludeFinal ==
  ASSUME TypeOK, NEW r \in Run, NEW dirs \in [Run -> RunDir], NEW erroneous,
         \A q \in Run \ {r} : dirs[q].manifest \in {NoManifest, staged[q].manifest},
         Conclude(r, dirs, erroneous)
  PROVE  SparesOthers(r) /\ FinalAt(r)'
<1>1. {"partial", "success"} \subseteq RUN_TERMINAL_STATUSES /\ RUN_TERMINAL_STATUSES \subseteq RunStatus
  BY DEF RUN_TERMINAL_STATUSES, RunStatus
<1>2. \/ FinishRun(r, dirs, "partial", "done")
      \/ FinishRun(r, dirs, "success", "cleanup_run_tree")
  BY DEF Conclude
<1>3. CASE FinishRun(r, dirs, "partial", "done")
  BY <1>1, <1>3, FinishRunFinal
<1>4. CASE FinishRun(r, dirs, "success", "cleanup_run_tree")
  BY <1>1, <1>4, FinishRunFinal
<1> QED
  BY <1>2, <1>3, <1>4

LEMMA FailRunFinal ==
  ASSUME TypeOK, NEW r \in Run, NEW st \in {"partial", "failed", "sync_failed"}, FailRun(r, st)
  PROVE  SparesOthers(r) /\ FinalAt(r)'
<1>1. st \in RUN_TERMINAL_STATUSES /\ st \in RunStatus
  BY DEF RUN_TERMINAL_STATUSES, RunStatus
<1>2. FinishRun(r, staged, st, "done") /\ staged \in [Run -> RunDir]
  BY DEF FailRun, TypeOK
<1> QED
  BY <1>1, <1>2, FinishRunFinal

\* run_once goes on elsewhere, and what it does to staging is at most a removal.
LEMMA OngoingIsNotFinal ==
  ASSUME TypeOK, NEW r \in Run, NEW step, step \notin {"done", "cleanup_run_tree"}, Goto(r, step),
         \A q \in Run \ {r} : status'[q] = status[q],
         \A q \in Run \ {r} : staged'[q].manifest \in {NoManifest, staged[q].manifest}
  PROVE  SparesOthers(r) /\ FinalAt(r)'
<1>1. pc'[r] = step /\ \A q \in Run \ {r} : pc'[q] = pc[q]
  BY DEF Goto, TypeOK
<1> QED
  BY <1>1 DEF SparesOthers, FinalAt

LEMMA RunStepFinal ==
  ASSUME TypeOK, FinalInv, NEW r \in Run, StartRun(r) \/ RunStep(r)
  PROVE  SparesOthers(r) /\ FinalAt(r)'
<1>0. staged \in [Run -> RunDir] /\ status \in [Run -> RunStatus]
  BY DEF TypeOK
<1>1. CASE StartRun(r)
  <2>1. /\ Goto(r, "discover") /\ status' = [status EXCEPT ![r] = "running"]
        /\ \A q \in Run \ {r} : staged'[q] = staged[q]
    BY <1>0, <1>1 DEF StartRun
  <2> QED
    BY <1>0, <2>1, OngoingIsNotFinal
<1>2. CASE NoTargets(r) \/ PlanFails(r) \/ SyncFailed(r) \/ DeleteFails(r)
  BY <1>2, FailRunFinal DEF NoTargets, PlanFails, SyncFailed, DeleteFails
<1>3. CASE \/ DiscoverAndResolve(r) \/ PlanRemoteRetention(r) \/ DeleteRemoteRuns(r)
  <2>1. PICK step \in {"backup", "delete", "sync"} :
          Goto(r, step) /\ UNCHANGED <<status, staged>>
    BY <1>3 DEF DiscoverAndResolve, PlanRemoteRetention, DeleteRemoteRuns
  <2> QED
    BY <2>1, OngoingIsNotFinal
<1>4. CASE NothingBackedUp(r)
  <2>1. FinishRun(r, staged, "failed", "done")
    BY <1>4 DEF NothingBackedUp
  <2>2. "failed" \in RUN_TERMINAL_STATUSES /\ "failed" \in RunStatus
    BY DEF RUN_TERMINAL_STATUSES, RunStatus
  <2> QED
    BY <1>0, <2>1, <2>2, FinishRunFinal
<1>5. CASE BackupTargets(r)
  <2>1. PICK failing \in BOOLEAN :
          FinishRun(r, [staged EXCEPT ![r] = [@ EXCEPT !.data = TRUE]],
                    IF errors[r] \/ failing THEN "partial" ELSE "running",
                    IF UsesRsync THEN "plan" ELSE "sync")
    BY <1>5 DEF BackupTargets
  <2> DEFINE dirs == [staged EXCEPT ![r] = [@ EXCEPT !.data = TRUE]]
             st == IF errors[r] \/ failing THEN "partial" ELSE "running"
             step == IF UsesRsync THEN "plan" ELSE "sync"
  <2>2. FinishRun(r, dirs, st, step)
    BY <2>1
  <2>3. st \in RunStatus /\ step \notin {"done", "cleanup_run_tree"}
    BY DEF RunStatus, RUN_TERMINAL_STATUSES
  <2>4. dirs \in [Run -> RunDir] /\ \A q \in Run \ {r} : dirs[q] = staged[q]
    BY <1>0 DEF RunDir
  <2> HIDE DEF dirs, st, step
  <2> QED
    BY <2>2, <2>3, <2>4, FinishRunFinal
<1>6. CASE Sync(r) \/ Cleanup(r)
  <2>1. UNCHANGED <<pc, status, staged>>
    BY <1>6 DEF Sync, Cleanup
  <2>2. FinalAt(r)
    BY DEF FinalInv
  <2> QED
    BY <2>1, <2>2 DEF SparesOthers, FinalAt
<1>7. CASE SyncSucceeded(r)
  <2>1. \/ Conclude(r, staged, errors[r])
        \/ \E step \in {"local_retention", "cleanup"} : Goto(r, step) /\ UNCHANGED <<status, staged>>
    BY <1>7 DEF SyncSucceeded
  <2> QED
    BY <1>0, <2>1, ConcludeFinal, OngoingIsNotFinal
<1>8. CASE CleanupFinished(r)
  <2>1. \/ Conclude(r, staged, errors[r] \/ ~AllSucceeded(r))
        \/ Goto(r, "local_retention") /\ UNCHANGED <<status, staged>>
    BY <1>8 DEF CleanupFinished
  <2> QED
    BY <1>0, <2>1, ConcludeFinal, OngoingIsNotFinal
<1>9. CASE LocalRetention(r)
  <2> DEFINE victims == ExpiredRunDirs(staged, started, now)
  <2>1. PICK failed \in SUBSET victims :
          \E dirs \in Removals(staged, victims, failed) : Conclude(r, dirs, errors[r] \/ failed # {})
    BY <1>9 DEF LocalRetention
  <2>2. PICK dirs \in Removals(staged, victims, failed) : Conclude(r, dirs, errors[r] \/ failed # {})
    BY <2>1
  <2>3. dirs \in [Run -> RunDir] /\ \A q \in Run : dirs[q].manifest \in {NoManifest, staged[q].manifest}
    BY <1>0, RemovalsFacts
  <2> QED
    BY <2>2, <2>3, ConcludeFinal
<1>10. CASE CleanupRunTree(r)
  <2>1. PICK left \in SUBSET {r} : staged' \in Removals(staged, {r}, left)
    BY <1>10 DEF CleanupRunTree
  <2>2. \A q \in Run : staged'[q].manifest \in {NoManifest, staged[q].manifest}
    BY <1>0, <2>1, RemovalsFacts
  <2>3. /\ pc[r] = "cleanup_run_tree" /\ status' = status
        /\ \A q \in Run \ {r} : pc'[q] = pc[q]
    BY <1>10 DEF CleanupRunTree, Goto, TypeOK
  <2>4. FinalAt(r)
    BY DEF FinalInv
  <2>5. FinalAt(r)'
    BY <2>2, <2>3, <2>4 DEF FinalAt
  <2> QED
    BY <2>2, <2>3, <2>5 DEF SparesOthers
<1> QED
  BY <1>1, <1>2, <1>3, <1>4, <1>5, <1>6, <1>7, <1>8, <1>9, <1>10 DEF RunStep

LEMMA CrashStepFinal ==
  ASSUME TypeOK, NEW r \in Run, CrashStep(r)
  PROVE  SparesOthers(r) /\ FinalAt(r)'
<1>0. staged \in [Run -> RunDir]
  BY DEF TypeOK
<1>1. Goto(r, "crashed") /\ UNCHANGED status
  BY DEF CrashStep, Crash, CrashInDelete, CrashInSync, CrashInCleanup,
         CrashInLocalRetention, CrashInCleanupRunTree, Stopped
<1>2. \A q \in Run : staged'[q].manifest \in {NoManifest, staged[q].manifest}
  <2>1. CASE UNCHANGED staged
    BY <2>1
  <2>2. CASE CrashInLocalRetention(r)
    <3>1. PICK left \in SUBSET ExpiredRunDirs(staged, started, now) :
            staged' \in Removals(staged, ExpiredRunDirs(staged, started, now), left)
      BY <2>2 DEF CrashInLocalRetention
    <3> QED
      BY <1>0, <3>1, RemovalsFacts
  <2>3. CASE CrashInCleanupRunTree(r)
    <3>1. PICK left \in SUBSET {r} : staged' \in Removals(staged, {r}, left)
      BY <2>3 DEF CrashInCleanupRunTree
    <3> QED
      BY <1>0, <3>1, RemovalsFacts
  <2> QED
    BY <2>1, <2>2, <2>3 DEF CrashStep, Crash, CrashInDelete, CrashInSync, CrashInCleanup
<1> QED
  BY <1>1, <1>2, OngoingIsNotFinal

\* The manifest a returned run leaves in staging carries the status it returned,
\* and that status is final: whatever other invocations and retention do.
THEOREM LastManifestIsFinal == Spec => []StagedManifestIsFinal
<1>1. Init => FinalInv
  BY DEF Init, FinalInv, FinalAt
<1>2. TypeOK /\ FinalInv /\ [Next]_vars => FinalInv'
  <2> SUFFICES ASSUME TypeOK, FinalInv, [Next]_vars
               PROVE  FinalInv'
    OBVIOUS
  <2>1. CASE UNCHANGED <<pc, status, staged>>
    BY <2>1 DEF FinalInv, FinalAt
  <2>2. ASSUME NEW r \in Run, StartRun(r) \/ RunStep(r)
        PROVE  FinalInv'
    BY <2>2, RunStepFinal, OthersStayFinal
  <2>3. ASSUME NEW r \in Run, CrashStep(r)
        PROVE  FinalInv'
    BY <2>3, CrashStepFinal, OthersStayFinal
  <2> QED
    BY <2>1, <2>2, <2>3 DEF Next, Tick, Exhausted, vars, runVars
<1>3. FinalInv => StagedManifestIsFinal
  BY DEF FinalInv, FinalAt, StagedManifestIsFinal
<1> QED
  BY <1>1, <1>2, <1>3, TypeCorrect, PTL DEF Spec

===============================================================================

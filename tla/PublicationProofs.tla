--------------------------- MODULE PublicationProofs ---------------------------
(***************************************************************************)
(* Without the rsync backend, a backup within the retention window is      *)
(* never lost and a successful run is published everywhere, unless         *)
(* invocations overlap on a mounted directory; retention, also of          *)
(* overlapping invocations, only deletes what expired, and has done so     *)
(* when success is reported.  With rsync as well: directories without a    *)
(* manifest stay, and the staged tree outlives the publication.            *)
(***************************************************************************)
EXTENDS OrchestratorProofs

-------------------------------------------------------------------------------
(***************************************************************************)
(* What a step of one invocation may do to the run of another one.         *)
(***************************************************************************)

\* No variable of the run q changes, and time stands still.
SameRun(q) ==
  /\ now' = now
  /\ pc'[q] = pc[q]
  /\ started'[q] = started[q]
  /\ status'[q] = status[q]
  /\ errors'[q] = errors[q]
  /\ artifacts'[q] = artifacts[q]
  /\ succeeded'[q] = succeeded[q]

\* A directory stays as it is or is removed by retention.
Spared(before, after, bornOn) ==
  /\ Deletable(before, bornOn) \/ after = before
  /\ after.manifest \in {NoManifest, before.manifest}

\* The directories of the run q stay as they are or are removed by retention.
Spares(q) ==
  /\ Spared(staged[q], staged'[q], started[q])
  /\ \A b \in Backend : Spared(store[b][q], store'[b][q], started[q])

\* Every configured backend is a backend.
LEMMA EnabledBackend == Enabled \subseteq Backend
<1>1. Len(Providers) \in Nat /\ \A i \in 1..Len(Providers) : Providers[i] \in Backend
  BY ProvidersAssumption
<1> QED
  BY <1>1 DEF Enabled

\* Retention spares the directories of a recent run and of one not started.
LEMMA SparesRecent ==
  ASSUME TypeOK, NEW q \in Run, RunInv(q), Spares(q), Recent(q) \/ pc[q] = "idle"
  PROVE  staged'[q] = staged[q] /\ \A b \in Backend : store'[b][q] = store[b][q]
<1>1. ASSUME NEW dir \in RunDir,
             dir.manifest # NoManifest => started[q] <= dir.manifest.finished,
             pc[q] = "idle" => dir = Gone
      PROVE  ~Deletable(dir, started[q])
  <2>1. CASE pc[q] = "idle"
    BY <1>1, <2>1 DEF Deletable, Gone
  <2>2. CASE Recent(q)
    <3>1. started[q] \in Int /\ now \in Int /\ dir.manifest.finished \in Int
      BY <1>1 DEF TypeOK, Day, RunDir, Manifest
    <3> QED
      BY <1>1, <2>2, <3>1, RetentionDaysAssumption
         DEF Deletable, RunTimestamp, Recent, BeforeCutoff
  <2> QED
    BY <2>1, <2>2
<1>2. ~Deletable(staged[q], started[q])
  BY <1>1 DEF TypeOK, RunInv, DatesInv, IdleInv
<1>3. ASSUME NEW b \in Backend
      PROVE  ~Deletable(store[b][q], started[q])
  BY <1>1 DEF TypeOK, RunInv, DatesInv, IdleInv
<1> QED
  BY <1>2, <1>3 DEF Spares, Spared

\* What another invocation does to a run keeps its invariant.
LEMMA OthersInv ==
  ASSUME TypeOK, NEW q \in Run, RunInv(q), SameRun(q), Spares(q)
  PROVE  RunInv(q)'
<1>1. Recent(q)' = Recent(q) /\ (q \in Active)' = (q \in Active)
  BY DEF SameRun, Recent, Active
<1>2. Recent(q) \/ pc[q] = "idle" =>
        staged'[q] = staged[q] /\ \A b \in Backend : store'[b][q] = store[b][q]
  BY SparesRecent
<1>3. Recent(q) => Everywhere(q)' = Everywhere(q)
  BY <1>2, EnabledBackend DEF Everywhere
<1>4. pc[q] \notin Ended => Recent(q)
  BY DEF RunInv, DatesInv, Active
<1>5. IdleInv(q)'
  BY <1>2 DEF RunInv, IdleInv, SameRun
<1>6. DatesInv(q)'
  BY <1>1 DEF RunInv, DatesInv, SameRun, Spares, Spared
<1>7. ProgressInv(q)'
  <2>1. CASE pc[q] \in Ended
    BY <2>1 DEF RunInv, ProgressInv, SameRun, Ended, Working, Published
  <2>2. CASE pc[q] \notin Ended
    <3>1. succeeded[q] \subseteq Backend
      BY DEF TypeOK
    <3> QED
      BY <1>2, <1>3, <1>4, <2>2, <3>1 DEF RunInv, ProgressInv, SameRun
  <2> QED
    BY <2>1, <2>2
<1>8. Kept(q)'
  BY <1>1, <1>2, <1>3 DEF RunInv, Kept, SameRun
<1>9. Successful(q)'
  BY <1>1, <1>2, <1>3 DEF RunInv, Successful, SameRun
<1> QED
  BY <1>5, <1>6, <1>7, <1>8, <1>9 DEF RunInv

\* Finishing a run changes nothing of another one.
LEMMA FinishOthers ==
  ASSUME TypeOK, NEW r \in Run, NEW q \in Run \ {r}, NEW dirs \in [Run -> RunDir],
         NEW st, NEW step, FinishRun(r, dirs, st, step)
  PROVE  pc'[q] = pc[q] /\ status'[q] = status[q] /\ staged'[q] = dirs[q]
BY DEF FinishRun, Goto, WithManifest, TypeOK

\* Concluding a run changes nothing of another one.
LEMMA ConcludeOthers ==
  ASSUME TypeOK, NEW r \in Run, NEW q \in Run \ {r}, NEW dirs \in [Run -> RunDir],
         NEW erroneous, Conclude(r, dirs, erroneous)
  PROVE  pc'[q] = pc[q] /\ status'[q] = status[q] /\ staged'[q] = dirs[q]
BY FinishOthers DEF Conclude

\* Failing a run changes nothing of another one.
LEMMA FailOthers ==
  ASSUME TypeOK, NEW r \in Run, NEW q \in Run \ {r}, NEW st, FailRun(r, st)
  PROVE  /\ pc'[q] = pc[q] /\ status'[q] = status[q] /\ staged'[q] = staged[q]
         /\ errors'[q] = errors[q]
<1>1. staged \in [Run -> RunDir]
  BY DEF TypeOK
<1>2. errors'[q] = errors[q]
  BY DEF FailRun, TypeOK
<1> QED
  BY <1>1, <1>2, FinishOthers DEF FailRun

\* The bookkeeping of the composite calls of a run changes nothing of another.
LEMMA ProvidersOthers ==
  ASSUME TypeOK, NEW r \in Run, NEW q \in Run \ {r}, NEW ok,
         ResetProviders(r) \/ ProviderReturned(r, ok)
  PROVE  succeeded'[q] = succeeded[q]
BY DEF ResetProviders, ProviderReturned, TypeOK

\* A step of one invocation leaves the variables of the others alone, and of
\* their directories takes only what retention may delete.
LEMMA OthersSpared ==
  ASSUME TypeOK, NEW r \in Run, NEW q \in Run \ {r}, RunInv(r),
         StartRun(r) \/ RunStep(r) \/ CrashStep(r)
  PROVE  SameRun(q) /\ Spares(q)
<1>0. /\ staged \in [Run -> RunDir] /\ store \in [Backend -> [Run -> RunDir]]
      /\ pc[r] \notin {"plan", "delete"}
  BY DEF TypeOK, RunInv, ProgressInv
<1>1. UNCHANGED <<staged, store>> => Spares(q)
  BY DEF Spares, Spared
<1>2. staged'[q] = staged[q] /\ UNCHANGED store => Spares(q)
  BY DEF Spares, Spared
<1>3. CASE StartRun(r)
  <2>1. SameRun(q) /\ staged'[q] = staged[q]
    BY <1>3 DEF StartRun, Goto, SameRun, TypeOK
  <2> QED
    BY <1>2, <1>3, <2>1 DEF StartRun
<1>4. CASE NoTargets(r)
  BY <1>2, <1>4, FailOthers DEF NoTargets, SameRun
<1>5. CASE DiscoverAndResolve(r)
  BY <1>1, <1>5 DEF DiscoverAndResolve, Goto, SameRun, TypeOK
<1>6. CASE NothingBackedUp(r)
  <2>1. errors'[q] = errors[q]
    BY <1>6 DEF NothingBackedUp, TypeOK
  <2>2. pc'[q] = pc[q] /\ status'[q] = status[q] /\ staged'[q] = staged[q]
    BY <1>0, <1>6, FinishOthers DEF NothingBackedUp
  <2> QED
    BY <1>2, <1>6, <2>1, <2>2 DEF NothingBackedUp, SameRun
<1>7. CASE BackupTargets(r)
  <2> DEFINE dumped == [staged EXCEPT ![r] = [@ EXCEPT !.data = TRUE]]
  <2>1. dumped \in [Run -> RunDir] /\ dumped[q] = staged[q]
    <3>1. [staged[r] EXCEPT !.data = TRUE] \in RunDir
      BY <1>0 DEF RunDir
    <3> QED
      BY <1>0, <3>1
  <2> HIDE DEF dumped
  <2>2. PICK failing \in BOOLEAN :
          /\ errors' = [errors EXCEPT ![r] = @ \/ failing]
          /\ FinishRun(r, dumped, IF errors[r] \/ failing THEN "partial" ELSE "running",
                       IF UsesRsync THEN "plan" ELSE "sync")
    BY <1>7 DEF BackupTargets, dumped
  <2>3. pc'[q] = pc[q] /\ status'[q] = status[q] /\ staged'[q] = staged[q]
    BY <2>1, <2>2, FinishOthers
  <2>4. errors'[q] = errors[q] /\ artifacts'[q] = artifacts[q]
    BY <1>7, <2>2 DEF BackupTargets, TypeOK
  <2> QED
    BY <1>2, <1>7, <2>3, <2>4 DEF BackupTargets, SameRun
<1>8. CASE PlanFails(r) \/ PlanRemoteRetention(r) \/ DeleteRemoteRuns(r) \/ DeleteFails(r)
           \/ CrashInDelete(r)
  BY <1>0, <1>8 DEF PlanFails, PlanRemoteRetention, DeleteRemoteRuns, DeleteFails, CrashInDelete
<1>9. CASE Sync(r)
  <2>1. PICK dir \in Copies(Providers[next[r]], r) \cup FailedCopies(Providers[next[r]], r),
             ok \in BOOLEAN :
          /\ store' = [store EXCEPT ![Providers[next[r]]][r] = dir]
          /\ ProviderReturned(r, ok)
    BY <1>9 DEF Sync
  <2>2. \A b \in Backend : store'[b][q] = store[b][q]
    BY <1>0, <2>1
  <2>3. succeeded'[q] = succeeded[q]
    BY <2>1, ProvidersOthers
  <2> QED
    BY <1>9, <2>2, <2>3 DEF Sync, SameRun, Spares, Spared
<1>10. CASE SyncFailed(r)
  BY <1>2, <1>10, FailOthers, ProvidersOthers DEF SyncFailed, SameRun
<1>11. CASE SyncSucceeded(r)
  <2>1. pc'[q] = pc[q] /\ status'[q] = status[q] /\ staged'[q] = staged[q]
    BY <1>0, <1>11, ConcludeOthers DEF SyncSucceeded, Goto, TypeOK
  <2> QED
    BY <1>2, <1>11, <2>1, ProvidersOthers DEF SyncSucceeded, SameRun
<1>12. CASE Cleanup(r)
  <2>1. PICK dirs \in [Run -> RunDir], ok \in BOOLEAN, victims \in SUBSET Run :
          LET b == Providers[next[r]] IN
          /\ b \in Backend
          /\ store' = [store EXCEPT ![b] = dirs]
          /\ ProviderReturned(r, ok)
          /\ \A p \in victims : Deletable(store[b][p], started[p])
          /\ \A p \in Run \ victims : dirs[p] = store[b][p]
          /\ \A p \in Run : dirs[p].manifest \in {NoManifest, store[b][p].manifest}
    BY <1>12, CleanupFacts
  <2>2. \A b \in Backend : Spared(store[b][q], store'[b][q], started[q])
    BY <1>0, <2>1 DEF Spared
  <2>3. succeeded'[q] = succeeded[q]
    BY <2>1, ProvidersOthers
  <2> QED
    BY <1>12, <2>2, <2>3 DEF Cleanup, SameRun, Spares, Spared
<1>13. CASE CleanupFinished(r)
  <2>1. errors'[q] = errors[q]
    BY <1>13 DEF CleanupFinished, TypeOK
  <2>2. pc'[q] = pc[q] /\ status'[q] = status[q] /\ staged'[q] = staged[q]
    BY <1>0, <1>13, ConcludeOthers DEF CleanupFinished, Goto, TypeOK
  <2> QED
    BY <1>2, <1>13, <2>1, <2>2, ProvidersOthers DEF CleanupFinished, SameRun
<1>14. CASE LocalRetention(r)
  <2>1. PICK failed \in SUBSET ExpiredRunDirs(staged, started, now) :
          \E dirs \in Removals(staged, ExpiredRunDirs(staged, started, now), failed) :
            /\ errors' = [errors EXCEPT ![r] = @ \/ failed # {}]
            /\ Conclude(r, dirs, errors[r] \/ failed # {})
    BY <1>14 DEF LocalRetention
  <2>2. PICK dirs \in Removals(staged, ExpiredRunDirs(staged, started, now), failed) :
          /\ errors' = [errors EXCEPT ![r] = @ \/ failed # {}]
          /\ Conclude(r, dirs, errors[r] \/ failed # {})
    BY <2>1
  <2>3. /\ dirs \in [Run -> RunDir]
        /\ Spared(staged[q], dirs[q], started[q])
    BY LocalRetentionFacts DEF Spared
  <2>4. pc'[q] = pc[q] /\ status'[q] = status[q] /\ staged'[q] = dirs[q]
    BY <2>2, <2>3, ConcludeOthers
  <2>5. errors'[q] = errors[q]
    BY <2>2 DEF TypeOK
  <2> QED
    BY <1>14, <2>3, <2>4, <2>5 DEF LocalRetention, SameRun, Spares, Spared
<1>15. CASE CleanupRunTree(r)
  <2>1. PICK left \in SUBSET {r} : staged' \in Removals(staged, {r}, left)
    BY <1>15 DEF CleanupRunTree
  <2> DEFINE dirs == staged'
  <2>2. dirs \in Removals(staged, {r}, left)
    BY <2>1
  <2> HIDE DEF dirs
  <2>3. \A p \in Run \ {r} : dirs[p] = staged[p]
    BY <2>2, CleanupRunTreeFacts
  <2> QED
    BY <1>2, <1>15, <2>3 DEF CleanupRunTree, Goto, SameRun, TypeOK, dirs
<1>16. ASSUME Stopped(r)
       PROVE  SameRun(q)
  BY <1>16, ProvidersOthers DEF Stopped, Goto, SameRun, TypeOK
<1>17. CASE Crash(r)
  BY <1>1, <1>16, <1>17 DEF Crash
<1>18. CASE CrashInSync(r)
  <2>1. PICK dir : store' = [store EXCEPT ![Providers[next[r]]][r] = dir]
    BY <1>18 DEF CrashInSync
  <2>2. \A b \in Backend : store'[b][q] = store[b][q]
    BY <1>0, <2>1
  <2> QED
    BY <1>16, <1>18, <2>2 DEF CrashInSync, Spares, Spared
<1>19. CASE CrashInCleanup(r)
  <2>1. PICK dirs \in [Run -> RunDir] :
          LET b == Providers[next[r]] IN
          /\ b \in Backend
          /\ store' = [store EXCEPT ![b] = dirs]
          /\ \A p \in Run : Deletable(store[b][p], started[p]) \/ dirs[p] = store[b][p]
          /\ \A p \in Run : dirs[p].manifest \in {NoManifest, store[b][p].manifest}
    BY <1>19, CrashInCleanupFacts
  <2>2. \A b \in Backend : Spared(store[b][q], store'[b][q], started[q])
    BY <1>0, <2>1 DEF Spared
  <2> QED
    BY <1>16, <1>19, <2>2 DEF CrashInCleanup, Spares, Spared
<1>20. CASE CrashInLocalRetention(r)
  <2>1. PICK left \in SUBSET ExpiredRunDirs(staged, started, now) :
          staged' \in Removals(staged, ExpiredRunDirs(staged, started, now), left)
    BY <1>20 DEF CrashInLocalRetention
  <2>2. Spared(staged[q], staged'[q], started[q])
    BY <2>1, LocalRetentionFacts DEF Spared
  <2> QED
    BY <1>16, <1>20, <2>2 DEF CrashInLocalRetention, Spares, Spared
<1>21. CASE CrashInCleanupRunTree(r)
  <2>1. PICK left \in SUBSET {r} : staged' \in Removals(staged, {r}, left)
    BY <1>21 DEF CrashInCleanupRunTree
  <2> DEFINE dirs == staged'
  <2>2. dirs \in Removals(staged, {r}, left)
    BY <2>1
  <2> HIDE DEF dirs
  <2>3. \A p \in Run \ {r} : dirs[p] = staged[p]
    BY <2>2, CleanupRunTreeFacts
  <2> QED
    BY <1>2, <1>16, <1>21, <2>3 DEF CrashInCleanupRunTree, dirs
<1> QED
  BY <1>3, <1>4, <1>5, <1>6, <1>7, <1>8, <1>9, <1>10, <1>11, <1>12, <1>13, <1>14, <1>15,
     <1>17, <1>18, <1>19, <1>20, <1>21 DEF RunStep, CrashStep

-------------------------------------------------------------------------------
(***************************************************************************)
(* What the steps of an invocation do to its own run.                      *)
(***************************************************************************)

\* The configurations of the theorems.
Guarded == ~UsesRsync /\ (~Overlap \/ ~UsesLocalStorage)

\* A run that is recent in the next state is recent.
LEMMA RecentEarlier ==
  ASSUME TypeOK, NEW r \in Run, started' = started, now' \in {now, now + 1}
  PROVE  Recent(r)' => Recent(r)
BY RetentionDaysAssumption DEF TypeOK, Day, Recent, BeforeCutoff

\* What finishing a run makes of it.
LEMMA FinishOwn ==
  ASSUME TypeOK, NEW r \in Run, NEW dirs \in [Run -> RunDir],
         NEW st \in RunStatus, NEW step, FinishRun(r, dirs, st, step)
  PROVE  /\ pc'[r] = step /\ status'[r] = st
         /\ staged'[r].manifest # NoManifest /\ staged'[r].manifest.finished = now
         /\ dirs[r].data => Intact(staged'[r])
<1>1. pc'[r] = step /\ status'[r] = st
  BY DEF FinishRun, Goto, TypeOK
<1> DEFINE manifest == [status |-> st, finished |-> now]
<1>2. manifest # NoManifest /\ manifest.finished = now
  BY DEF NoManifest, RunStatus, RUN_TERMINAL_STATUSES
<1>3. staged'[r] = [present |-> TRUE, manifest |-> manifest, data |-> dirs[r].data]
  BY WithManifestFacts DEF FinishRun, TypeOK
<1> HIDE DEF manifest
<1>4. staged'[r].present /\ staged'[r].manifest = manifest /\ staged'[r].data = dirs[r].data
  BY <1>3
<1> QED
  BY <1>1, <1>2, <1>4 DEF Intact

\* What concluding a run makes of it.
LEMMA ConcludeOwn ==
  ASSUME TypeOK, NEW r \in Run, NEW dirs \in [Run -> RunDir], NEW erroneous \in BOOLEAN,
         Conclude(r, dirs, erroneous)
  PROVE  /\ erroneous => pc'[r] = "done" /\ status'[r] = "partial"
         /\ ~erroneous => pc'[r] = "cleanup_run_tree" /\ status'[r] = "success"
         /\ staged'[r].manifest # NoManifest /\ staged'[r].manifest.finished = now
         /\ dirs[r].data => Intact(staged'[r])
<1>1. "partial" \in RunStatus /\ "success" \in RunStatus
  BY DEF RunStatus, RUN_TERMINAL_STATUSES
<1>2. CASE erroneous
  <2>1. FinishRun(r, dirs, "partial", "done")
    BY <1>2 DEF Conclude
  <2> QED
    BY <1>1, <1>2, <2>1, FinishOwn
<1>3. CASE ~erroneous
  <2>1. FinishRun(r, dirs, "success", "cleanup_run_tree")
    BY <1>3 DEF Conclude
  <2> QED
    BY <1>1, <1>3, <2>1, FinishOwn
<1> QED
  BY <1>2, <1>3

\* What failing a run makes of it.
LEMMA FailOwn ==
  ASSUME TypeOK, NEW r \in Run, NEW st \in RunStatus, FailRun(r, st)
  PROVE  /\ pc'[r] = "done" /\ status'[r] = st
         /\ staged'[r].manifest # NoManifest /\ staged'[r].manifest.finished = now
         /\ staged[r].data => Intact(staged'[r])
<1>1. staged \in [Run -> RunDir] /\ FinishRun(r, staged, st, "done")
  BY DEF TypeOK, FailRun
<1> QED
  BY <1>1, FinishOwn

\* The invariant holds of a run that has ended, when its directories are dated
\* and it has kept its backup.
LEMMA EndedInv ==
  ASSUME NEW r \in Run, r \notin Active, pc[r] # "idle", DatesInv(r), Kept(r),
         Successful(r), succeeded[r] = {}
  PROVE  RunInv(r)
BY DEF RunInv, IdleInv, ProgressInv, Active, Ended, Working, Published

\* Starting a run and the steps before the publication keep its invariant.
LEMMA OwnBeforePublication ==
  ASSUME Guarded, TypeOK, TypeOK', NEW r \in Run, RunInv(r),
         \/ StartRun(r) \/ NoTargets(r) \/ DiscoverAndResolve(r)
         \/ NothingBackedUp(r) \/ BackupTargets(r)
  PROVE  RunInv(r)'
<1>0. /\ {"partial", "failed", "running"} \subseteq RunStatus
      /\ staged \in [Run -> RunDir] /\ now \in Int /\ started \in [Run -> Int]
      /\ Enabled \subseteq Backend
  BY EnabledBackend DEF RunStatus, RUN_TERMINAL_STATUSES, TypeOK, Day
<1>1. CASE StartRun(r)
  <2>1. /\ pc'[r] = "discover" /\ started'[r] = now /\ status'[r] = "running"
        /\ ~artifacts'[r] /\ succeeded'[r] = {} /\ now' = now
        /\ staged'[r].manifest = NoManifest
        /\ \A b \in Backend : store'[b][r] = Gone
    <3>1. pc[r] = "idle" /\ ~artifacts[r] /\ succeeded[r] = {} /\ staged[r] = Gone
          /\ \A b \in Backend : store[b][r] = Gone
      BY <1>1 DEF StartRun, RunInv, IdleInv, ProgressInv
    <3>2. staged'[r] = [staged[r] EXCEPT !.present = TRUE]
      BY <1>0, <1>1 DEF StartRun
    <3>3. staged'[r].manifest = NoManifest
      BY <3>1, <3>2 DEF Gone
    <3> QED
      BY <1>1, <3>1, <3>3 DEF StartRun, Goto, TypeOK
  <2>2. IdleInv(r)' /\ Kept(r)' /\ Successful(r)'
    BY <2>1 DEF IdleInv, Kept, Successful
  <2>3. DatesInv(r)'
    BY <1>0, <2>1, RetentionDaysAssumption DEF DatesInv, Recent, BeforeCutoff, Gone
  <2>4. ProgressInv(r)'
    BY <2>1 DEF ProgressInv, Working, Published
  <2> QED
    BY <2>2, <2>3, <2>4 DEF RunInv
<1>2. CASE NoTargets(r) \/ NothingBackedUp(r)
  <2>1. /\ pc'[r] = "done" /\ status'[r] = "failed"
        /\ staged'[r].manifest.finished = now
    BY <1>0, <1>2, FailOwn, FinishOwn DEF NoTargets, NothingBackedUp
  <2>2. /\ ~artifacts'[r] /\ succeeded'[r] = {}
        /\ UNCHANGED <<now, started, store>>
    BY <1>2 DEF NoTargets, NothingBackedUp, RunInv, ProgressInv
  <2>3. DatesInv(r)' /\ Kept(r)' /\ Successful(r)'
    BY <2>1, <2>2 DEF RunInv, DatesInv, Kept, Successful, Active, Ended
  <2>4. (r \notin Active)'
    BY <2>1 DEF Active, Ended
  <2> QED
    BY <2>1, <2>2, <2>3, <2>4 DEF RunInv, IdleInv, ProgressInv, Working, Published
<1>3. CASE DiscoverAndResolve(r)
  <2>1. /\ pc[r] = "discover" /\ pc'[r] = "backup"
        /\ UNCHANGED <<now, started, status, artifacts, succeeded, staged, store>>
    BY <1>3 DEF DiscoverAndResolve, Goto, TypeOK
  <2>2. DatesInv(r)' /\ Kept(r)' /\ Successful(r)'
    BY <2>1 DEF RunInv, DatesInv, ProgressInv, Kept, Successful, Active, Ended, Recent
  <2> QED
    BY <2>1, <2>2 DEF RunInv, IdleInv, ProgressInv, Working, Published
<1>4. CASE BackupTargets(r)
  <2> DEFINE dumped == [staged EXCEPT ![r] = [@ EXCEPT !.data = TRUE]]
  <2>1. dumped \in [Run -> RunDir] /\ dumped[r].data
    <3>1. [staged[r] EXCEPT !.data = TRUE] \in RunDir /\ [staged[r] EXCEPT !.data = TRUE].data
      BY <1>0 DEF RunDir
    <3> QED
      BY <1>0, <3>1
  <2> HIDE DEF dumped
  <2>2. PICK st \in {"partial", "running"} : FinishRun(r, dumped, st, "sync")
    BY <1>4 DEF BackupTargets, dumped, Guarded
  <2>3. /\ pc'[r] = "sync" /\ status'[r] = st /\ Intact(staged'[r])
        /\ staged'[r].manifest.finished = now
    BY <1>0, <2>1, <2>2, FinishOwn
  <2>4. /\ pc[r] = "backup" /\ artifacts'[r] /\ succeeded'[r] = {}
        /\ UNCHANGED <<now, started, store>>
    BY <1>4 DEF BackupTargets, TypeOK, RunInv, ProgressInv
  <2>5. DatesInv(r)' /\ Kept(r)' /\ Successful(r)'
    BY <2>3, <2>4 DEF RunInv, DatesInv, Kept, Successful, Active, Ended, Recent
  <2> QED
    BY <2>3, <2>4, <2>5 DEF RunInv, IdleInv, ProgressInv, Working, Published
<1> QED
  BY <1>1, <1>2, <1>3, <1>4

\* When invocations do not overlap on a mounted directory, what a transfer that
\* succeeded leaves is a copy.
LEMMA FaithfulCopies ==
  ASSUME Guarded, PublicationInv, TypeOK, NEW r \in Active, NEW b \in Backend
  PROVE  Copies(b, r) = {staged[r]}
<1>1. ASSUME WipedWhileCopied(b, r)
      PROVE  FALSE
  <2>1. PICK q \in Active \ {r} : ProvidersLeft(q) /\ Providers[next[q]] = "local"
    BY <1>1 DEF WipedWhileCopied
  <2>2. "local" \in Enabled
    BY <2>1, ProvidersType DEF Active
  <2> QED
    BY <2>1, <2>2 DEF Guarded, UsesLocalStorage, PublicationInv
<1> QED
  BY <1>1 DEF Copies

\* The publication keeps the invariant of its run.
LEMMA OwnPublication ==
  ASSUME Guarded, PublicationInv, TypeOK, TypeOK', NEW r \in Run,
         Sync(r) \/ SyncFailed(r) \/ SyncSucceeded(r) \/ CrashInSync(r)
  PROVE  RunInv(r)'
<1>0. /\ {"partial", "sync_failed"} \subseteq RunStatus
      /\ staged \in [Run -> RunDir] /\ store \in [Backend -> [Run -> RunDir]]
      /\ succeeded \in [Run -> SUBSET Backend]
      /\ Enabled \subseteq Backend
  BY EnabledBackend DEF RunStatus, RUN_TERMINAL_STATUSES, TypeOK
<1>1. /\ pc[r] = "sync" /\ r \in Active
      /\ RunInv(r)
  BY DEF PublicationInv, Sync, SyncFailed, SyncSucceeded, CrashInSync, Active, Ended
<1>2. /\ artifacts[r] /\ Intact(staged[r]) /\ status[r] # "success" /\ Recent(r)
      /\ \A b \in succeeded[r] : Intact(store[b][r])
      /\ DatesInv(r)
  BY <1>1 DEF RunInv, ProgressInv, DatesInv, Working
<1>3. ASSUME ProvidersLeft(r),
             NEW copy \in Copies(Providers[next[r]], r) \cup FailedCopies(Providers[next[r]], r),
             store' = [store EXCEPT ![Providers[next[r]]][r] = copy],
             UNCHANGED <<now, started, staged>>, r \in Active' => r \in Active
      PROVE  DatesInv(r)'
  <2> DEFINE b == Providers[next[r]]
  <2>1. b \in Backend
    BY <1>3, ProvidersType
  <2>2. copy.manifest \in {NoManifest, staged[r].manifest, store[b][r].manifest}
    BY <1>0, <1>1, <1>3, <2>1, FaithfulCopies, HalfCopiesFacts DEF FailedCopies
  <2>3. \A c \in Backend : c # b => store'[c][r] = store[c][r]
    BY <1>0, <1>3, <2>1
  <2>4. store'[b][r] = copy
    BY <1>0, <1>3, <2>1
  <2> HIDE DEF b
  <2>5. \A c \in Backend :
          store'[c][r].manifest # NoManifest => started[r] <= store'[c][r].manifest.finished
    BY <1>2, <2>1, <2>2, <2>3, <2>4 DEF DatesInv
  <2> QED
    BY <1>2, <1>3, <2>5 DEF DatesInv, Recent
<1>4. CASE Sync(r)
  <2> DEFINE b == Providers[next[r]]
  <2>1. b \in Backend
    BY <1>4, ProvidersType DEF Sync
  <2>2. PICK copy \in Copies(b, r) \cup FailedCopies(b, r), ok \in BOOLEAN :
          /\ store' = [store EXCEPT ![b][r] = copy]
          /\ ProviderReturned(r, ok)
          /\ ok => copy \in Copies(b, r)
          /\ ~ok => copy \in FailedCopies(b, r)
    BY <1>4 DEF Sync
  <2>3. /\ pc'[r] = "sync"
        /\ UNCHANGED <<now, started, staged, pc, status, artifacts>>
    BY <1>1, <1>4 DEF Sync
  <2>4. DatesInv(r)'
    BY <1>1, <1>3, <1>4, <2>2, <2>3 DEF Sync
  <2>5. store'[b][r] = copy /\ \A c \in Backend : c # b => store'[c][r] = store[c][r]
    BY <1>0, <2>1, <2>2
  <2>6. succeeded'[r] = IF ok THEN succeeded[r] \cup {b} ELSE succeeded[r]
    BY <1>0, <2>2 DEF ProviderReturned
  <2>7. Copies(b, r) = {staged[r]}
    BY <1>1, <2>1, FaithfulCopies
  <2>8. b # "rsync"
    BY <1>4, ProvidersType DEF Guarded, UsesRsync, Sync
  <2> HIDE DEF b
  <2>9. b \in succeeded[r] /\ ~ok => Intact(copy)
    BY <1>2, <2>2, <2>8 DEF FailedCopies, DestinationExists, Intact
  <2>10. ok => Intact(copy)
    BY <1>2, <2>2, <2>7
  <2>11. \A c \in succeeded'[r] : Intact(store'[c][r])
    BY <1>0, <1>2, <2>5, <2>6, <2>9, <2>10
  <2>12. ProgressInv(r)'
    BY <1>2, <2>3, <2>11 DEF ProgressInv, Working, Published
  <2>13. IdleInv(r)' /\ Kept(r)' /\ Successful(r)'
    BY <1>2, <2>3 DEF IdleInv, Kept, Successful
  <2> QED
    BY <2>4, <2>12, <2>13 DEF RunInv
<1>5. CASE SyncFailed(r)
  <2>1. PICK st \in {"partial", "sync_failed"} : FailRun(r, st)
    BY <1>5 DEF SyncFailed
  <2>2. /\ pc'[r] = "done" /\ status'[r] = st /\ Intact(staged'[r])
        /\ staged'[r].manifest.finished = now
    BY <1>0, <1>2, <2>1, FailOwn DEF Intact
  <2>3. UNCHANGED <<now, started, artifacts, store>> /\ succeeded'[r] = {}
    BY <1>0, <1>5 DEF SyncFailed, ResetProviders
  <2>4. DatesInv(r)' /\ Kept(r)' /\ Successful(r)'
    BY <1>2, <2>2, <2>3 DEF DatesInv, Kept, Successful, Active, Ended
  <2> QED
    BY <2>2, <2>3, <2>4 DEF RunInv, IdleInv, ProgressInv, Working, Published
<1>6. CASE SyncSucceeded(r)
  <2>1. /\ pc'[r] = "cleanup" /\ Everywhere(r)
        /\ UNCHANGED <<now, started, artifacts, status, staged, store>>
    BY <1>2, <1>6 DEF SyncSucceeded, Guarded, Goto, TypeOK, AllSucceeded, Everywhere
  <2>2. Everywhere(r)'
    BY <2>1 DEF Everywhere
  <2>3. DatesInv(r)'
    BY <1>1, <1>2, <2>1 DEF DatesInv, Active, Recent
  <2>4. IdleInv(r)' /\ Kept(r)' /\ Successful(r)'
    BY <1>2, <2>1, <2>2 DEF IdleInv, Kept, Successful
  <2>5. ProgressInv(r)'
    BY <1>2, <2>1, <2>2 DEF ProgressInv, Working, Published
  <2> QED
    BY <2>3, <2>4, <2>5 DEF RunInv
<1>7. CASE CrashInSync(r)
  <2>1. PICK copy \in FailedCopies(Providers[next[r]], r) :
          store' = [store EXCEPT ![Providers[next[r]]][r] = copy]
    BY <1>7 DEF CrashInSync
  <2>2. /\ pc'[r] = "crashed" /\ succeeded'[r] = {}
        /\ UNCHANGED <<now, started, staged, status, artifacts>>
    BY <1>0, <1>7 DEF CrashInSync, Stopped, Goto, ResetProviders, TypeOK
  <2>3. DatesInv(r)'
    BY <1>1, <1>3, <1>7, <2>1, <2>2 DEF CrashInSync
  <2>4. Kept(r)' /\ Successful(r)'
    BY <1>2, <2>2 DEF Kept, Successful
  <2> QED
    BY <2>2, <2>3, <2>4 DEF RunInv, IdleInv, ProgressInv, Working, Published
<1> QED
  BY <1>4, <1>5, <1>6, <1>7

\* The cleanup of the providers, whole or interrupted, spares its own run.
LEMMA OwnCleanup ==
  ASSUME Guarded, TypeOK, TypeOK', NEW r \in Run, RunInv(r), Cleanup(r) \/ CrashInCleanup(r)
  PROVE  RunInv(r)'
<1>0. store \in [Backend -> [Run -> RunDir]] /\ Enabled \subseteq Backend
  BY EnabledBackend DEF TypeOK
<1>1. /\ pc[r] = "cleanup" /\ Recent(r) /\ Everywhere(r) /\ Intact(staged[r])
      /\ artifacts[r] /\ status[r] # "success" /\ DatesInv(r)
  BY DEF Cleanup, CrashInCleanup, RunInv, ProgressInv, DatesInv, Working, Published,
         Active, Ended
<1>2. /\ \/ pc'[r] = "cleanup"
         \/ pc'[r] = "crashed" /\ succeeded'[r] = {}
      /\ UNCHANGED <<now, started, staged, status, artifacts>>
  BY <1>1 DEF Cleanup, CrashInCleanup, Stopped, Goto, ResetProviders, TypeOK
<1>3. Spares(r)
  <2>1. CASE Cleanup(r)
    <3>1. PICK dirs \in [Run -> RunDir], victims \in SUBSET Run :
            LET b == Providers[next[r]] IN
            /\ b \in Backend
            /\ store' = [store EXCEPT ![b] = dirs]
            /\ \A p \in victims : Deletable(store[b][p], started[p])
            /\ \A p \in Run \ victims : dirs[p] = store[b][p]
            /\ \A p \in Run : dirs[p].manifest \in {NoManifest, store[b][p].manifest}
      BY <2>1, CleanupFacts
    <3>2. \A b \in Backend : Spared(store[b][r], store'[b][r], started[r])
      BY <1>0, <3>1 DEF Spared
    <3> QED
      BY <1>2, <3>2 DEF Spares, Spared
  <2>2. CASE CrashInCleanup(r)
    <3>1. PICK dirs \in [Run -> RunDir] :
            LET b == Providers[next[r]] IN
            /\ b \in Backend
            /\ store' = [store EXCEPT ![b] = dirs]
            /\ \A p \in Run : Deletable(store[b][p], started[p]) \/ dirs[p] = store[b][p]
            /\ \A p \in Run : dirs[p].manifest \in {NoManifest, store[b][p].manifest}
      BY <2>2, CrashInCleanupFacts
    <3>2. \A b \in Backend : Spared(store[b][r], store'[b][r], started[r])
      BY <1>0, <3>1 DEF Spared
    <3> QED
      BY <1>2, <3>2 DEF Spares, Spared
  <2> QED
    BY <2>1, <2>2
<1>4. \A b \in Backend : store'[b][r] = store[b][r]
  BY <1>1, <1>3, SparesRecent
<1>5. Everywhere(r)'
  BY <1>0, <1>1, <1>4 DEF Everywhere
<1>6. DatesInv(r)'
  BY <1>1, <1>2, <1>4 DEF DatesInv, Recent
<1>7. IdleInv(r)' /\ Kept(r)' /\ Successful(r)'
  BY <1>1, <1>2, <1>5 DEF IdleInv, Kept, Successful
<1>8. ProgressInv(r)'
  BY <1>1, <1>2, <1>5 DEF ProgressInv, Working, Published
<1> QED
  BY <1>6, <1>7, <1>8 DEF RunInv

\* Concluding a published run keeps its invariant.
LEMMA ConcludeInv ==
  ASSUME TypeOK, NEW r \in Run, RunInv(r), pc[r] \in {"cleanup", "local_retention"},
         NEW dirs \in [Run -> RunDir], dirs[r] = staged[r], NEW erroneous \in BOOLEAN,
         Conclude(r, dirs, erroneous), errors'[r] <=> erroneous, succeeded'[r] = {},
         UNCHANGED <<now, started, artifacts, store>>
  PROVE  RunInv(r)'
<1>1. /\ Everywhere(r) /\ Intact(staged[r]) /\ artifacts[r] /\ DatesInv(r)
  BY DEF RunInv, ProgressInv, Working, Published
<1>2. /\ erroneous => pc'[r] = "done" /\ status'[r] = "partial"
      /\ ~erroneous => pc'[r] = "cleanup_run_tree" /\ status'[r] = "success"
      /\ staged'[r].manifest.finished = now
      /\ Intact(staged'[r])
  BY <1>1, ConcludeOwn DEF Intact
<1>3. Everywhere(r)'
  BY <1>1 DEF Everywhere
<1>4. DatesInv(r)'
  BY <1>1, <1>2 DEF DatesInv, Recent, Active, Ended
<1>5. IdleInv(r)' /\ Kept(r)' /\ Successful(r)'
  BY <1>1, <1>2, <1>3 DEF IdleInv, Kept, Successful
<1>6. ProgressInv(r)'
  BY <1>1, <1>2, <1>3 DEF ProgressInv, Working, Published
<1> QED
  BY <1>4, <1>5, <1>6 DEF RunInv

\* The end of a run keeps its invariant.
LEMMA OwnConclusion ==
  ASSUME Guarded, TypeOK, TypeOK', NEW r \in Run, RunInv(r),
         CleanupFinished(r) \/ LocalRetention(r) \/ CrashInLocalRetention(r)
  PROVE  RunInv(r)'
<1>0. staged \in [Run -> RunDir] /\ errors \in [Run -> BOOLEAN]
  BY DEF TypeOK
<1>1. /\ pc[r] \in {"cleanup", "local_retention"} /\ Recent(r) /\ Everywhere(r)
      /\ Intact(staged[r]) /\ artifacts[r] /\ status[r] # "success" /\ DatesInv(r)
  BY DEF CleanupFinished, LocalRetention, CrashInLocalRetention, RunInv, ProgressInv,
         DatesInv, Working, Published, Active, Ended
<1>2. CASE CleanupFinished(r)
  <2>1. succeeded'[r] = {} /\ UNCHANGED <<now, started, artifacts, store>>
    BY <1>2 DEF CleanupFinished, ResetProviders, TypeOK
  <2>2. CASE AllSucceeded(r) /\ ~errors[r] /\ UsesLocalStorage
    <3>1. pc'[r] = "local_retention" /\ UNCHANGED <<status, staged>>
      BY <1>2, <2>2 DEF CleanupFinished, Goto, TypeOK
    <3>2. Everywhere(r)'
      BY <1>1, <2>1 DEF Everywhere
    <3>3. DatesInv(r)'
      BY <1>1, <2>1, <3>1 DEF DatesInv, Recent
    <3>4. IdleInv(r)' /\ Kept(r)' /\ Successful(r)'
      BY <1>1, <2>1, <3>1, <3>2 DEF IdleInv, Kept, Successful
    <3>5. ProgressInv(r)'
      BY <1>1, <2>1, <3>1, <3>2 DEF ProgressInv, Working, Published
    <3> QED
      BY <3>3, <3>4, <3>5 DEF RunInv
  <2>3. CASE ~(AllSucceeded(r) /\ ~errors[r] /\ UsesLocalStorage)
    <3> DEFINE erroneous == errors[r] \/ ~AllSucceeded(r)
    <3>1. Conclude(r, staged, erroneous) /\ errors' = [errors EXCEPT ![r] = erroneous]
      BY <1>2, <2>3 DEF CleanupFinished
    <3>2. erroneous \in BOOLEAN
      BY <1>0, Zenon
    <3> HIDE DEF erroneous
    <3>3. errors'[r] <=> erroneous
      BY <1>0, <3>1
    <3> QED
      BY <1>0, <1>1, <2>1, <3>1, <3>2, <3>3, ConcludeInv
  <2> QED
    BY <2>2, <2>3
<1>3. CASE LocalRetention(r)
  <2>1. PICK failed \in SUBSET ExpiredRunDirs(staged, started, now) :
          \E dirs \in Removals(staged, ExpiredRunDirs(staged, started, now), failed) :
            /\ errors' = [errors EXCEPT ![r] = @ \/ failed # {}]
            /\ Conclude(r, dirs, errors[r] \/ failed # {})
    BY <1>3 DEF LocalRetention
  <2>2. PICK dirs \in Removals(staged, ExpiredRunDirs(staged, started, now), failed) :
          /\ errors' = [errors EXCEPT ![r] = @ \/ failed # {}]
          /\ Conclude(r, dirs, errors[r] \/ failed # {})
    BY <2>1
  <2>3. dirs \in [Run -> RunDir] /\ Spared(staged[r], dirs[r], started[r])
    BY LocalRetentionFacts DEF Spared
  <2>4. dirs[r] = staged[r]
    BY <1>0, <1>1, <2>3, RetentionDaysAssumption
       DEF Spared, Deletable, RunTimestamp, Recent, BeforeCutoff, DatesInv, Intact,
           TypeOK, Day, RunDir, Manifest
  <2> DEFINE erroneous == errors[r] \/ failed # {}
  <2>5. erroneous \in BOOLEAN
    BY <1>0, Zenon
  <2>6. Conclude(r, dirs, erroneous) /\ errors' = [errors EXCEPT ![r] = erroneous]
    BY <2>2
  <2> HIDE DEF erroneous
  <2>7. errors'[r] <=> erroneous
    BY <1>0, <2>6
  <2>8. succeeded'[r] = {} /\ UNCHANGED <<now, started, artifacts, store>>
    BY <1>3 DEF LocalRetention, RunInv, ProgressInv
  <2> QED
    BY <1>1, <2>3, <2>4, <2>5, <2>6, <2>7, <2>8, ConcludeInv
<1>4. CASE CrashInLocalRetention(r)
  <2>1. PICK left \in SUBSET ExpiredRunDirs(staged, started, now) :
          staged' \in Removals(staged, ExpiredRunDirs(staged, started, now), left)
    BY <1>4 DEF CrashInLocalRetention
  <2> DEFINE dirs == staged'
  <2>2. dirs \in Removals(staged, ExpiredRunDirs(staged, started, now), left)
    BY <2>1
  <2> HIDE DEF dirs
  <2>3. \A q \in Run : dirs[q].manifest \in {NoManifest, staged[q].manifest}
    BY <2>2, LocalRetentionFacts
  <2>4. /\ pc'[r] = "crashed" /\ succeeded'[r] = {}
        /\ UNCHANGED <<now, started, status, artifacts, store>>
    BY <1>4 DEF CrashInLocalRetention, Stopped, Goto, ResetProviders, TypeOK
  <2>5. Everywhere(r)'
    BY <1>1, <2>4 DEF Everywhere
  <2>6. DatesInv(r)'
    BY <1>1, <2>3, <2>4 DEF DatesInv, Active, Ended, dirs
  <2>7. Kept(r)' /\ Successful(r)'
    BY <1>1, <2>4, <2>5 DEF Kept, Successful
  <2> QED
    BY <2>4, <2>6, <2>7 DEF RunInv, IdleInv, ProgressInv, Working, Published
<1> QED
  BY <1>2, <1>3, <1>4

\* The removal of the staged tree, whole or interrupted, and a crash between two
\* steps keep the invariant of the run.
LEMMA OwnEnd ==
  ASSUME TypeOK, TypeOK', NEW r \in Run, RunInv(r),
         CleanupRunTree(r) \/ CrashInCleanupRunTree(r) \/ Crash(r)
  PROVE  RunInv(r)'
<1>1. /\ pc'[r] \in {"done", "crashed"} /\ succeeded'[r] = {}
      /\ UNCHANGED <<now, started, status, errors, artifacts, store>>
  BY DEF CleanupRunTree, CrashInCleanupRunTree, Crash, Stopped, Goto, ResetProviders,
         RunInv, ProgressInv, TypeOK
<1>2. Everywhere(r)' = Everywhere(r) /\ Recent(r)' = Recent(r)
  BY <1>1 DEF Everywhere, Recent
<1>3. Successful(r)'
  BY <1>1, <1>2 DEF RunInv, Successful
<1>4. CASE Crash(r)
  <2>1. staged' = staged
    BY <1>4 DEF Crash
  <2>2. DatesInv(r)' /\ Kept(r)'
    BY <1>1, <1>2, <2>1 DEF RunInv, DatesInv, Kept, Active, Ended
  <2> QED
    BY <1>1, <1>3, <2>2 DEF RunInv, IdleInv, ProgressInv, Working, Published
<1>5. CASE CleanupRunTree(r) \/ CrashInCleanupRunTree(r)
  <2>1. PICK left \in SUBSET {r} : staged' \in Removals(staged, {r}, left)
    BY <1>5 DEF CleanupRunTree, CrashInCleanupRunTree
  <2> DEFINE dirs == staged'
  <2>2. dirs \in Removals(staged, {r}, left)
    BY <2>1
  <2> HIDE DEF dirs
  <2>3. \A q \in Run : dirs[q].manifest \in {NoManifest, staged[q].manifest}
    BY <2>2, CleanupRunTreeFacts
  <2>4. DatesInv(r)'
    BY <1>1, <2>3 DEF RunInv, DatesInv, Active, Ended, dirs
  <2>5. Kept(r)'
    BY <1>2, <1>5
       DEF CleanupRunTree, CrashInCleanupRunTree, RunInv, ProgressInv, Kept, Published
  <2> QED
    BY <1>1, <1>3, <2>4, <2>5 DEF RunInv, IdleInv, ProgressInv, Working, Published
<1> QED
  BY <1>4, <1>5

\* A day that passes keeps the invariant of every run.
LEMMA TickInv ==
  ASSUME TypeOK, Tick, NEW r \in Run, RunInv(r)
  PROVE  RunInv(r)'
<1>1. /\ now' = now + 1 /\ Active' = Active
      /\ UNCHANGED <<pc, started, status, errors, artifacts, succeeded, staged, store>>
  BY DEF Tick, runVars, Active
<1>2. /\ Recent(r)' => Recent(r)
      /\ r \in Active => Recent(r)'
      /\ started[r] <= now'
  BY <1>1, RetentionDaysAssumption
     DEF Tick, TypeOK, Day, Recent, BeforeCutoff, RunInv, DatesInv
<1>3. Everywhere(r)' = Everywhere(r)
  BY <1>1 DEF Everywhere
<1>4. DatesInv(r)'
  BY <1>1, <1>2 DEF RunInv, DatesInv
<1>5. IdleInv(r)' /\ ProgressInv(r)' /\ Kept(r)' /\ Successful(r)'
  BY <1>1, <1>2, <1>3 DEF RunInv, IdleInv, ProgressInv, Kept, Successful
<1> QED
  BY <1>4, <1>5 DEF RunInv

-------------------------------------------------------------------------------
(***************************************************************************)
(* The theorems.                                                           *)
(***************************************************************************)

\* Nothing has been started initially.
LEMMA PublicationInit == Init => PublicationInv
<1> SUFFICES ASSUME Init PROVE PublicationInv
  OBVIOUS
<1>1. Active = {}
  BY DEF Init, Active, Ended
<1>2. ASSUME NEW r \in Run
      PROVE  RunInv(r)
  <2>1. /\ pc[r] = "idle" /\ started[r] = 0 /\ now = 0 /\ status[r] = "pending"
        /\ ~artifacts[r] /\ succeeded[r] = {} /\ staged[r] = Gone
        /\ \A b \in Backend : store[b][r] = Gone
    BY DEF Init
  <2>2. IdleInv(r) /\ Kept(r) /\ Successful(r)
    BY <2>1 DEF IdleInv, Kept, Successful
  <2>3. DatesInv(r)
    BY <1>1, <2>1 DEF DatesInv, Gone
  <2>4. ProgressInv(r)
    BY <2>1 DEF ProgressInv, Working, Published
  <2> QED
    BY <2>2, <2>3, <2>4 DEF RunInv
<1> QED
  BY <1>1, <1>2 DEF PublicationInv

\* A step of one invocation starts none but that one, and none at all of those
\* that are under way.
LEMMA OverlapInv ==
  ASSUME TypeOK, PublicationInv, NEW r \in Run, StartRun(r) \/ RunStep(r) \/ CrashStep(r)
  PROVE  Overlap \/ \A p \in Active', q \in Active' : p = q
<1> SUFFICES ASSUME ~Overlap
             PROVE  \A p \in Active', q \in Active' : p = q
  OBVIOUS
<1>1. \A q \in Run \ {r} : pc'[q] = pc[q]
  BY OthersSpared DEF PublicationInv, SameRun
<1>2. Active' \subseteq Active \cup {r}
  BY <1>1 DEF Active
<1>3. CASE StartRun(r)
  BY <1>2, <1>3 DEF StartRun
<1>4. CASE RunStep(r) \/ CrashStep(r)
  <2>1. pc[r] \notin Ended
    BY <1>4 DEF RunStep, CrashStep, Ended, NoTargets, DiscoverAndResolve, NothingBackedUp,
       BackupTargets, PlanFails, PlanRemoteRetention, DeleteRemoteRuns, DeleteFails, Sync,
       SyncFailed, SyncSucceeded, Cleanup, CleanupFinished, LocalRetention, CleanupRunTree,
       Crash, CrashInDelete, CrashInSync, CrashInCleanup, CrashInLocalRetention,
       CrashInCleanupRunTree, Active
  <2>2. r \in Active
    BY <2>1 DEF Active
  <2> QED
    BY <1>2, <2>2 DEF PublicationInv
<1> QED
  BY <1>3, <1>4

\* The inductive invariant of the publication: without rsync, and unless
\* invocations overlap on a mounted directory, what run_once has established
\* about a run when it enters a step still holds there, whatever the other
\* invocations, the failures, the crashes and the retention plans do.
THEOREM PublicationInvariant ==
  ASSUME Guarded
  PROVE  Spec => []PublicationInv
<1>1. TypeOK /\ TypeOK' /\ PublicationInv /\ [Next]_vars => PublicationInv'
  <2> SUFFICES ASSUME TypeOK, TypeOK', PublicationInv, [Next]_vars
               PROVE  PublicationInv'
    OBVIOUS
  <2>1. CASE UNCHANGED vars
    BY <2>1 DEF vars, PublicationInv, RunInv, IdleInv, DatesInv, ProgressInv, Kept,
       Successful, Everywhere, Recent, Active
  <2>2. CASE Tick
    <3>1. Active' = Active
      BY <2>2 DEF Tick, runVars, Active
    <3> QED
      BY <2>2, <3>1, TickInv DEF PublicationInv
  <2>3. ASSUME NEW r \in Run, StartRun(r) \/ RunStep(r) \/ CrashStep(r)
        PROVE  PublicationInv'
    <3>1. RunInv(r)
      BY DEF PublicationInv
    <3>2. ASSUME NEW q \in Run \ {r}
          PROVE  RunInv(q)'
      BY <2>3, <3>1, OthersSpared, OthersInv DEF PublicationInv
    <3>3. RunInv(r)'
      <4>1. pc[r] \notin {"plan", "delete"}
        BY <3>1 DEF RunInv, ProgressInv
      <4>2. ~PlanFails(r) /\ ~PlanRemoteRetention(r) /\ ~DeleteRemoteRuns(r)
            /\ ~DeleteFails(r) /\ ~CrashInDelete(r)
        BY <4>1 DEF PlanFails, PlanRemoteRetention, DeleteRemoteRuns, DeleteFails, CrashInDelete
      <4> QED
        BY <2>3, <3>1, <4>2, OwnBeforePublication, OwnPublication, OwnCleanup,
           OwnConclusion, OwnEnd DEF RunStep, CrashStep
    <3> QED
      BY <2>3, <3>2, <3>3, OverlapInv DEF PublicationInv
  <2> QED
    BY <2>1, <2>2, <2>3 DEF Next, Exhausted
<1> QED
  BY <1>1, PublicationInit, TypeCorrect, PTL DEF Spec

\* A backup within the retention window is in the staging area or on every
\* configured backend, complete and with its manifest (run_once).
THEOREM NoRecentBackupIsLost ==
  ASSUME Guarded
  PROVE  Spec => []NoRecentBackupLost
<1>1. PublicationInv => NoRecentBackupLost
  BY DEF PublicationInv, RunInv, NoRecentBackupLost
<1> QED
  BY <1>1, PublicationInvariant, PTL

\* A run that reported success is on every configured backend, complete and with
\* its manifest, as long as it is within the retention window (run_once).
THEOREM SuccessIsPublished ==
  ASSUME Guarded
  PROVE  Spec => []SuccessMeansPublished
<1>1. PublicationInv => SuccessMeansPublished
  BY DEF PublicationInv, RunInv, SuccessMeansPublished
<1> QED
  BY <1>1, PublicationInvariant, PTL

-------------------------------------------------------------------------------
(***************************************************************************)
(* Retention, also of overlapping invocations.                             *)
(***************************************************************************)

\* Without rsync no invocation plans or deletes the runs of an rsync backend.
NoRsyncSteps == \A r \in Run : pc[r] \notin {"plan", "delete"}

\* Without rsync, the steps of run_once never lead to those of the rsync path.
LEMMA NoRsyncStepsInv ==
  ASSUME ~UsesRsync, TypeOK, NoRsyncSteps, Next
  PROVE  NoRsyncSteps'
<1>1. CASE Tick \/ Exhausted
  BY <1>1 DEF Tick, runVars, Exhausted, vars, NoRsyncSteps
<1>2. ASSUME NEW r \in Run, StartRun(r) \/ RunStep(r) \/ CrashStep(r)
      PROVE  \E step : step \notin {"plan", "delete"} /\ pc' = [pc EXCEPT ![r] = step]
  <2>1. pc[r] \notin {"plan", "delete"} /\ pc = [pc EXCEPT ![r] = pc[r]]
    BY DEF NoRsyncSteps, TypeOK
  <2>2. CASE StartRun(r) \/ NoTargets(r) \/ DiscoverAndResolve(r) \/ NothingBackedUp(r)
             \/ BackupTargets(r)
    BY <2>2 DEF StartRun, NoTargets, DiscoverAndResolve, NothingBackedUp, BackupTargets,
       FailRun, FinishRun, Goto
  <2>3. CASE PlanFails(r) \/ PlanRemoteRetention(r) \/ DeleteRemoteRuns(r) \/ DeleteFails(r)
    BY <2>1, <2>3 DEF PlanFails, PlanRemoteRetention, DeleteRemoteRuns, DeleteFails
  <2>4. CASE Sync(r) \/ Cleanup(r)
    BY <2>1, <2>4 DEF Sync, Cleanup
  <2>5. CASE SyncFailed(r) \/ SyncSucceeded(r) \/ CleanupFinished(r)
    BY <2>5 DEF SyncFailed, SyncSucceeded, CleanupFinished, Conclude, FailRun, FinishRun, Goto
  <2>6. CASE LocalRetention(r)
    <3>1. PICK dirs, erroneous : Conclude(r, dirs, erroneous)
      BY <2>6 DEF LocalRetention
    <3> QED
      BY <3>1 DEF Conclude, FinishRun, Goto
  <2>7. CASE CleanupRunTree(r)
    BY <2>7 DEF CleanupRunTree, Goto
  <2>8. CASE CrashStep(r)
    BY <2>8 DEF CrashStep, Crash, CrashInDelete, CrashInSync, CrashInCleanup,
       CrashInLocalRetention, CrashInCleanupRunTree, Stopped, Goto
  <2> QED
    BY <1>2, <2>2, <2>3, <2>4, <2>5, <2>6, <2>7, <2>8 DEF RunStep
<1>3. ASSUME NEW r \in Run, StartRun(r) \/ RunStep(r) \/ CrashStep(r)
      PROVE  NoRsyncSteps'
  <2>1. PICK step : step \notin {"plan", "delete"} /\ pc' = [pc EXCEPT ![r] = step]
    BY <1>2, <1>3
  <2> QED
    BY <2>1 DEF NoRsyncSteps, TypeOK
<1> QED
  BY <1>1, <1>3 DEF Next

\* What a directory that retention may delete loses is expired.
LEMMA LosesExpired ==
  ASSUME NEW before \in RunDir, NEW after, NEW bornOn, Spared(before, after, bornOn),
         Loses(before, after)
  PROVE  BeforeCutoff(before.manifest.finished, now)
BY DEF Spared, Deletable, RunTimestamp, Loses, Intact

\* A transfer takes no complete run from a backend that refuses to overwrite.
LEMMA TransferLosesNothing ==
  ASSUME TypeOK, NEW b \in Backend \ {"rsync"}, NEW r \in Run, NEW copy,
         \/ ~DestinationExists(b, r) /\ copy \in Copies(b, r)
         \/ copy \in FailedCopies(b, r)
  PROVE  ~Loses(store[b][r], copy)
BY DEF DestinationExists, FailedCopies, Loses, Intact

\* A backend loses a complete run only to the cleanup of a run, and only when it
\* is expired.
Losses ==
  \A b \in Backend, q \in Run :
    Loses(store[b][q], store'[b][q]) =>
      /\ BeforeCutoff(store[b][q].manifest.finished, now)
      /\ \E r \in Run : pc[r] = "cleanup"

LEMMA LossesInCleanup ==
  ASSUME ~UsesRsync, TypeOK, NoRsyncSteps, Next
  PROVE  Losses
<1>0. store \in [Backend -> [Run -> RunDir]]
  BY DEF TypeOK
<1>1. CASE UNCHANGED store
  BY <1>1 DEF Losses, Loses
<1>2. ASSUME NEW r \in Run, Sync(r) \/ CrashInSync(r)
      PROVE  Losses
  <2> DEFINE b == Providers[next[r]]
  <2>1. b \in Backend \ {"rsync"}
    BY <1>2, ProvidersType DEF UsesRsync, Sync, CrashInSync
  <2>2. PICK copy \in Copies(b, r) \cup FailedCopies(b, r) :
          /\ \/ ~DestinationExists(b, r) /\ copy \in Copies(b, r)
             \/ copy \in FailedCopies(b, r)
          /\ store' = [store EXCEPT ![b][r] = copy]
    BY <1>2 DEF Sync, CrashInSync
  <2>3. ~Loses(store[b][r], copy)
    BY <2>1, <2>2, TransferLosesNothing
  <2> HIDE DEF b
  <2> QED
    BY <1>0, <2>1, <2>2, <2>3 DEF Losses, Loses
<1>3. ASSUME NEW r \in Run, Cleanup(r)
      PROVE  Losses
  <2>1. PICK dirs \in [Run -> RunDir], victims \in SUBSET Run :
          LET b == Providers[next[r]] IN
          /\ b \in Backend
          /\ store' = [store EXCEPT ![b] = dirs]
          /\ \A p \in victims : Deletable(store[b][p], started[p])
          /\ \A p \in Run \ victims : dirs[p] = store[b][p]
          /\ \A p \in Run : dirs[p].manifest \in {NoManifest, store[b][p].manifest}
    BY <1>3, CleanupFacts
  <2>2. \A b \in Backend, q \in Run : Spared(store[b][q], store'[b][q], started[q])
    BY <1>0, <2>1 DEF Spared
  <2> QED
    BY <1>0, <1>3, <2>2, LosesExpired DEF Losses, Cleanup
<1>4. ASSUME NEW r \in Run, CrashInCleanup(r)
      PROVE  Losses
  <2>1. PICK dirs \in [Run -> RunDir] :
          LET b == Providers[next[r]] IN
          /\ b \in Backend
          /\ store' = [store EXCEPT ![b] = dirs]
          /\ \A p \in Run : Deletable(store[b][p], started[p]) \/ dirs[p] = store[b][p]
          /\ \A p \in Run : dirs[p].manifest \in {NoManifest, store[b][p].manifest}
    BY <1>4, CrashInCleanupFacts
  <2>2. \A b \in Backend, q \in Run : Spared(store[b][q], store'[b][q], started[q])
    BY <1>0, <2>1 DEF Spared
  <2> QED
    BY <1>0, <1>4, <2>2, LosesExpired DEF Losses, CrashInCleanup
<1>5. ASSUME NEW r \in Run, DeleteRemoteRuns(r) \/ DeleteFails(r) \/ CrashInDelete(r)
      PROVE  FALSE
  BY <1>5 DEF DeleteRemoteRuns, DeleteFails, CrashInDelete, NoRsyncSteps
<1>6. CASE Tick \/ Exhausted
  BY <1>1, <1>6 DEF Tick, Exhausted, vars
<1>7. ASSUME NEW r \in Run,
             \/ StartRun(r) \/ NoTargets(r) \/ DiscoverAndResolve(r) \/ NothingBackedUp(r)
             \/ BackupTargets(r) \/ PlanFails(r) \/ PlanRemoteRetention(r)
             \/ SyncFailed(r) \/ SyncSucceeded(r) \/ CleanupFinished(r)
             \/ LocalRetention(r) \/ CleanupRunTree(r) \/ Crash(r)
             \/ CrashInLocalRetention(r) \/ CrashInCleanupRunTree(r)
      PROVE  UNCHANGED store
  BY <1>7 DEF StartRun, NoTargets, DiscoverAndResolve, NothingBackedUp, BackupTargets,
     PlanFails, PlanRemoteRetention, SyncFailed, SyncSucceeded, CleanupFinished,
     LocalRetention, CleanupRunTree, Crash, CrashInLocalRetention, CrashInCleanupRunTree
<1> QED
  BY <1>1, <1>2, <1>3, <1>4, <1>5, <1>6, <1>7 DEF Next, RunStep, CrashStep

\* No step takes from a backend a complete run that is within the retention
\* window: retention of the mounted directory and of FTP, the transfers and their
\* failures (sync and cleanup of the providers, run_once).
THEOREM RetentionDeletesExpired ==
  ASSUME ~UsesRsync
  PROVE  Spec => OnlyExpiredDeleted
<1>1. TypeOK /\ NoRsyncSteps /\ [Next]_vars => NoRsyncSteps'
  BY NoRsyncStepsInv DEF vars, NoRsyncSteps
<1>2. Init => NoRsyncSteps
  BY DEF Init, NoRsyncSteps
<1>3. TypeOK /\ NoRsyncSteps /\ [Next]_vars =>
        [\A b \in Backend, q \in Run :
           Loses(store[b][q], store'[b][q]) =>
             BeforeCutoff(store[b][q].manifest.finished, now)]_vars
  BY LossesInCleanup DEF Losses
<1> QED
  BY <1>1, <1>2, <1>3, TypeCorrect, PTL DEF Spec, OnlyExpiredDeleted

\* Retention comes after the publication: a backend loses a complete run only while
\* another run is under way that every backend holds in full (run_once), unless
\* invocations overlap on a mounted directory.
THEOREM RetentionFollowsPublication ==
  ASSUME Guarded
  PROVE  Spec => RetentionAfterPublication
<1> DEFINE Follows == \A b \in Enabled, q \in Run :
                        Loses(store[b][q], store'[b][q]) =>
                          \E r \in Active \ {q} : Everywhere(r)
<1>1. ~UsesRsync
  BY DEF Guarded
<1>2. TypeOK /\ NoRsyncSteps /\ [Next]_vars => NoRsyncSteps'
  BY <1>1, NoRsyncStepsInv DEF vars, NoRsyncSteps
<1>3. Init => NoRsyncSteps
  BY DEF Init, NoRsyncSteps
<1>4. TypeOK /\ PublicationInv /\ NoRsyncSteps /\ [Next]_vars => [Follows]_vars
  <2> SUFFICES ASSUME TypeOK, PublicationInv, NoRsyncSteps, Next,
                      NEW b \in Enabled, NEW q \in Run, Loses(store[b][q], store'[b][q])
               PROVE  \E r \in Active \ {q} : Everywhere(r)
    OBVIOUS
  <2>1. b \in Backend
    BY EnabledBackend
  <2>2. /\ BeforeCutoff(store[b][q].manifest.finished, now)
        /\ \E r \in Run : pc[r] = "cleanup"
    BY <1>1, <2>1, LossesInCleanup DEF Losses
  <2>3. PICK r \in Run : pc[r] = "cleanup"
    BY <2>2
  <2>4. r \in Active /\ Everywhere(r)
    BY <2>3 DEF Active, Ended, Published, PublicationInv, RunInv, ProgressInv
  <2>5. q # r
    <3> SUFFICES ASSUME q = r
                 PROVE  FALSE
      OBVIOUS
    <3>1. /\ store[b][q].manifest # NoManifest
          /\ store[b][q] \in RunDir
      BY <2>1 DEF Loses, Intact, TypeOK
    <3>2. started[q] <= store[b][q].manifest.finished /\ Recent(q)
      BY <2>1, <2>4, <3>1 DEF PublicationInv, RunInv, DatesInv
    <3>3. ~BeforeCutoff(store[b][q].manifest.finished, now)
      <4>1. store[b][q].manifest \in Manifest
        BY <3>1 DEF RunDir
      <4> QED
        BY <3>1, <3>2, <4>1, RetentionDaysAssumption
        DEF TypeOK, Day, Manifest, Recent, BeforeCutoff
    <3> QED
      BY <2>2, <3>3
  <2> QED
    BY <2>4, <2>5
<1> QED
  BY <1>2, <1>3, <1>4, TypeCorrect, PublicationInvariant, PTL DEF Spec, RetentionAfterPublication

-------------------------------------------------------------------------------
(***************************************************************************)
(* What a step of an invocation does to the backends, to the staging area  *)
(* and to the other invocations, in every configuration.                   *)
(***************************************************************************)

\* A directory is as it was, or something was removed from it.
Decays(before, after) ==
  /\ before.present \/ after = before
  /\ after.manifest \in {NoManifest, before.manifest}
  /\ Intact(after) => Intact(before)

AllPresent(dirs, runs) == \A q \in runs : dirs[q].present

\* A removal that may be half done only takes from the directories it is about.
LEMMA WreckDecays ==
  ASSUME NEW dirs \in [Run -> RunDir], NEW removed, NEW emptied, NEW headless,
         AllPresent(dirs, removed \cup emptied \cup headless)
  PROVE  \A q \in Run : Decays(dirs[q], Wreck(dirs, removed, emptied, headless)[q])
<1> SUFFICES ASSUME NEW q \in Run
             PROVE  Decays(dirs[q], Wreck(dirs, removed, emptied, headless)[q])
  OBVIOUS
<1> DEFINE w == Wreck(dirs, removed, emptied, headless)[q]
<1>1. /\ w.manifest \in {NoManifest, dirs[q].manifest}
      /\ q \notin removed \cup emptied \cup headless => w = dirs[q]
  BY WreckFacts
<1>2. CASE q \in removed
  <2>1. w = Gone
    BY <1>2 DEF Wreck
  <2> QED
    BY <1>1, <1>2, <2>1 DEF Decays, Gone, Intact, AllPresent
<1>3. CASE q \notin removed
  <2>1. w = [present |-> dirs[q].present,
             manifest |-> IF q \in headless THEN NoManifest ELSE dirs[q].manifest,
             data |-> IF q \in emptied THEN FALSE ELSE dirs[q].data]
    BY <1>3 DEF Wreck
  <2>2. dirs[q].data \in BOOLEAN
    BY DEF RunDir
  <2>3. w.present = dirs[q].present /\ (w.data => dirs[q].data)
    BY <2>1, <2>2
  <2>4. q \in emptied \cup headless => dirs[q].present
    BY DEF AllPresent
  <2> HIDE DEF w
  <2>5. dirs[q].present \/ w = dirs[q]
    BY <1>1, <1>3, <2>4
  <2>6. Intact(w) => Intact(dirs[q])
    BY <1>1, <2>3 DEF Intact
  <2> QED
    BY <1>1, <2>5, <2>6 DEF Decays, w
<1> QED
  BY <1>2, <1>3

\* The same of a removal of victims of which some resist.
LEMMA RemovalsDecay ==
  ASSUME NEW dirs \in [Run -> RunDir], NEW victims, NEW failed \in SUBSET victims,
         NEW left \in Removals(dirs, victims, failed),
         AllPresent(dirs, victims)
  PROVE  \A q \in Run : Decays(dirs[q], left[q])
<1>1. PICK emptied \in SUBSET failed, headless \in SUBSET failed :
        left = Wreck(dirs, victims \ failed, emptied, headless)
  BY DEF Removals
<1>2. AllPresent(dirs, (victims \ failed) \cup emptied \cup headless)
  BY DEF AllPresent
<1> QED
  BY <1>1, <1>2, WreckDecays

\* The directory of r on one of the configured backends is replaced by one with
\* the manifest of the staged run, with the manifest it had or with none.
Transfers(r) ==
  \E b \in Enabled, copy \in RunDir :
    /\ store' = [store EXCEPT ![b][r] = copy]
    /\ copy.manifest \in {NoManifest, staged[r].manifest, store[b][r].manifest}

\* The directories of a backend decay; a remote backend keeps those without a
\* manifest when the inventory decides what is deleted.
Retires(b, inventoried) ==
  \E dirs \in [Run -> RunDir] :
    /\ store' = [store EXCEPT ![b] = dirs]
    /\ \A q \in Run : Decays(store[b][q], dirs[q])
    /\ inventoried /\ b # "local" => \A q \in Ambiguous(store[b]) : dirs[q] = store[b][q]

StoreStep(r) ==
  \/ UNCHANGED store
  \/ pc[r] = "sync" /\ Transfers(r)
  \/ pc[r] = "delete" /\ Retires("rsync", FALSE)
  \/ pc[r] = "cleanup" /\ \E b \in Backend : Retires(b, TRUE)

\* The deletion of the remote runs of the rsync backend, finished or not.
LEMMA RsyncRetires ==
  ASSUME TypeOK, NEW r \in Run, DeleteRemoteRuns(r) \/ DeleteFails(r) \/ CrashInDelete(r)
  PROVE  StoreStep(r)
<1> DEFINE victims == DeletedByRsync({})
<1>0. pc[r] = "delete" /\ store["rsync"] \in [Run -> RunDir]
  BY DEF DeleteRemoteRuns, DeleteFails, CrashInDelete, TypeOK, Backend
<1>1. AllPresent(store["rsync"], victims)
  BY DEF DeletedByRsync, AllPresent
<1>2. CASE DeleteRemoteRuns(r)
  <2> DEFINE dirs == Wreck(store["rsync"], victims, {}, {})
  <2>1. store' = [store EXCEPT !["rsync"] = dirs] \/ UNCHANGED store
    BY <1>2 DEF DeleteRemoteRuns
  <2>2. dirs \in [Run -> RunDir] /\ \A q \in Run : Decays(store["rsync"][q], dirs[q])
    BY <1>0, <1>1, WreckFacts, WreckDecays
  <2> HIDE DEF dirs
  <2> QED
    BY <1>0, <2>1, <2>2 DEF StoreStep, Retires
<1>3. CASE DeleteFails(r) \/ CrashInDelete(r)
  <2>1. PICK left \in SUBSET victims : \E dirs \in Removals(store["rsync"], victims, left) :
          store' = [store EXCEPT !["rsync"] = dirs]
    BY <1>3 DEF DeleteFails, CrashInDelete
  <2>2. PICK dirs \in Removals(store["rsync"], victims, left) :
          store' = [store EXCEPT !["rsync"] = dirs]
    BY <2>1
  <2> HIDE DEF victims
  <2>3. dirs \in [Run -> RunDir] /\ \A q \in Run : Decays(store["rsync"][q], dirs[q])
    BY <1>0, <1>1, RemovalsFacts, RemovalsDecay
  <2> QED
    BY <1>0, <2>2, <2>3 DEF StoreStep, Retires
<1> QED
  BY <1>2, <1>3

\* A transfer, finished or not.
LEMMA SyncTransfers ==
  ASSUME TypeOK, NEW r \in Run, Sync(r) \/ CrashInSync(r)
  PROVE  StoreStep(r)
<1> DEFINE b == Providers[next[r]]
<1>1. pc[r] = "sync" /\ b \in Enabled /\ b \in Backend
  BY ProvidersType DEF Sync, CrashInSync
<1>2. PICK copy \in Copies(b, r) \cup FailedCopies(b, r) : store' = [store EXCEPT ![b][r] = copy]
  BY DEF Sync, CrashInSync
<1> HIDE DEF b
<1>3. staged[r] \in RunDir /\ copy \in RunDir
  BY <1>1, CopiesType DEF TypeOK
<1>4. \A half \in HalfCopies(staged[r]) : half.manifest \in {NoManifest, staged[r].manifest}
  BY <1>3, HalfCopiesFacts
<1>5. copy.manifest \in {NoManifest, staged[r].manifest, store[b][r].manifest}
  BY <1>4 DEF Copies, FailedCopies
<1> QED
  BY <1>1, <1>2, <1>3, <1>5 DEF StoreStep, Transfers

\* The victims of a retention plan are there, and a remote run without a manifest
\* is none.
LEMMA VictimsFacts ==
  ASSUME NEW dirs, NEW born
  PROVE  /\ AllPresent(dirs, ExpiredRunDirs(dirs, born, now))
         /\ AllPresent(dirs, ExpiredManifests(dirs, now))
         /\ ExpiredManifests(dirs, now) \cap Ambiguous(dirs) = {}
BY DEF AllPresent, ExpiredRunDirs, ExpiredManifests, Inventoried, Ambiguous

\* The cleanup of a provider, finished or not.
LEMMA CleanupRetires ==
  ASSUME TypeOK, NEW r \in Run, Cleanup(r) \/ CrashInCleanup(r)
  PROVE  StoreStep(r)
<1>0. pc[r] = "cleanup"
  BY DEF Cleanup, CrashInCleanup
<1>1. ASSUME NEW b \in Backend, NEW victims,
             NEW left \in SUBSET victims, NEW dirs \in Removals(store[b], victims, left),
             store' = [store EXCEPT ![b] = dirs], AllPresent(store[b], victims),
             b # "local" => victims \cap Ambiguous(store[b]) = {}
      PROVE  Retires(b, TRUE)
  <2>1. store[b] \in [Run -> RunDir]
    BY <1>1 DEF TypeOK
  <2>2. /\ dirs \in [Run -> RunDir]
        /\ \A q \in Run \ victims : dirs[q] = store[b][q]
        /\ \A q \in Run : Decays(store[b][q], dirs[q])
    BY <1>1, <2>1, RemovalsFacts, RemovalsDecay
  <2>3. b # "local" => \A q \in Ambiguous(store[b]) : dirs[q] = store[b][q]
    BY <1>1, <2>2 DEF Ambiguous
  <2> QED
    BY <1>1, <2>2, <2>3 DEF Retires
<1>2. CASE Cleanup(r) /\ CleanupLocal(r)
  <2> DEFINE victims == ExpiredRunDirs(store["local"], started, now)
  <2>1. PICK failed \in SUBSET victims :
          \E dirs \in Removals(store["local"], victims, failed) :
            store' = [store EXCEPT !["local"] = dirs]
    BY <1>2 DEF CleanupLocal
  <2>2. AllPresent(store["local"], victims) /\ "local" \in Backend
    BY VictimsFacts DEF Backend
  <2> HIDE DEF victims
  <2>3. Retires("local", TRUE)
    BY <1>1, <2>1, <2>2
  <2> QED
    BY <1>0, <2>2, <2>3 DEF StoreStep
<1>3. CASE Cleanup(r) /\ CleanupFtp(r)
  <2> DEFINE victims == ExpiredManifests(store["ftp"], now)
  <2>1. CASE UNCHANGED store
    BY <2>1 DEF StoreStep
  <2>2. CASE ~UNCHANGED store
    <3>1. PICK failed \in SUBSET victims :
            \E husks \in SUBSET (victims \ failed) :
              \E dirs \in Removals(store["ftp"], victims \ husks, failed) :
                store' = [store EXCEPT !["ftp"] = Wreck(dirs, {}, husks, husks)]
      BY <1>3, <2>2 DEF CleanupFtp
    <3>2. PICK husks \in SUBSET (victims \ failed) :
            \E dirs \in Removals(store["ftp"], victims \ husks, failed) :
              store' = [store EXCEPT !["ftp"] = Wreck(dirs, {}, husks, husks)]
      BY <3>1
    <3>3. PICK dirs \in Removals(store["ftp"], victims \ husks, failed) :
            store' = [store EXCEPT !["ftp"] = Wreck(dirs, {}, husks, husks)]
      BY <3>2
    <3>4. /\ failed \in SUBSET (victims \ husks)
          /\ "ftp" \in Backend /\ "ftp" # "local"
          /\ store["ftp"] \in [Run -> RunDir]
      BY <3>2 DEF Backend, TypeOK
    <3>5. /\ AllPresent(store["ftp"], victims)
          /\ victims \cap Ambiguous(store["ftp"]) = {}
          /\ victims \subseteq Run
      BY VictimsFacts DEF ExpiredManifests, Inventoried
    <3> HIDE DEF victims
    <3>6. AllPresent(store["ftp"], victims \ husks)
      BY <3>5 DEF AllPresent
    <3>7. /\ dirs \in [Run -> RunDir]
          /\ \A q \in Run \ (victims \ husks) : dirs[q] = store["ftp"][q]
          /\ \A q \in Run : Decays(store["ftp"][q], dirs[q])
      BY <3>3, <3>4, <3>6, RemovalsFacts, RemovalsDecay
    <3> DEFINE wrecked == Wreck(dirs, {}, husks, husks)
    <3>8. AllPresent(dirs, {} \cup husks \cup husks)
      BY <3>2, <3>5, <3>7 DEF AllPresent
    <3>9. /\ wrecked \in [Run -> RunDir]
          /\ \A q \in Run \ husks : wrecked[q] = dirs[q]
          /\ \A q \in Run : Decays(dirs[q], wrecked[q])
      BY <3>7, <3>8, WreckFacts, WreckDecays
    <3>10. store' = [store EXCEPT !["ftp"] = wrecked]
      BY <3>3
    <3> HIDE DEF wrecked
    <3>11. \A q \in Run : Decays(store["ftp"][q], wrecked[q])
      <4> SUFFICES ASSUME NEW q \in Run
                   PROVE  Decays(store["ftp"][q], wrecked[q])
        OBVIOUS
      <4>1. CASE q \in husks
        <5>1. dirs[q] = store["ftp"][q]
          BY <3>2, <3>7, <4>1
        <5> QED
          BY <3>9, <5>1
      <4>2. CASE q \notin husks
        BY <3>7, <3>9, <4>2
      <4> QED
        BY <4>1, <4>2
    <3>12. \A q \in Ambiguous(store["ftp"]) : wrecked[q] = store["ftp"][q]
      <4> SUFFICES ASSUME NEW q \in Ambiguous(store["ftp"])
                   PROVE  wrecked[q] = store["ftp"][q]
        OBVIOUS
      <4>1. q \in Run \ victims
        BY <3>5 DEF Ambiguous
      <4> QED
        BY <3>2, <3>7, <3>9, <4>1
    <3>13. Retires("ftp", TRUE)
      BY <3>9, <3>10, <3>11, <3>12 DEF Retires
    <3> QED
      BY <1>0, <3>4, <3>13 DEF StoreStep
  <2> QED
    BY <2>1, <2>2
<1>4. CASE CrashInCleanup(r)
  <2> DEFINE b == Providers[next[r]]
             victims == IF b = "local" THEN ExpiredRunDirs(store[b], started, now)
                                       ELSE ExpiredManifests(store[b], now)
  <2>1. b \in Backend
    BY <1>4, ProvidersType DEF CrashInCleanup
  <2>2. AllPresent(store[b], victims) /\ (b # "local" => victims \cap Ambiguous(store[b]) = {})
    BY VictimsFacts
  <2>3. PICK left \in SUBSET victims : \E dirs \in Removals(store[b], victims, left) :
          store' = [store EXCEPT ![b] = dirs]
    BY <1>4 DEF CrashInCleanup
  <2> HIDE DEF victims
  <2>4. Retires(b, TRUE)
    BY <1>1, <2>1, <2>2, <2>3
  <2> HIDE DEF b
  <2> QED
    BY <1>0, <2>1, <2>4 DEF StoreStep
<1> QED
  BY <1>2, <1>3, <1>4 DEF Cleanup

\* What any step of an invocation does to the backends.
LEMMA StoreSteps ==
  ASSUME TypeOK, NEW r \in Run, StartRun(r) \/ RunStep(r) \/ CrashStep(r)
  PROVE  StoreStep(r)
<1>1. CASE DeleteRemoteRuns(r) \/ DeleteFails(r) \/ CrashInDelete(r)
  BY <1>1, RsyncRetires
<1>2. CASE Sync(r) \/ CrashInSync(r)
  BY <1>2, SyncTransfers
<1>3. CASE Cleanup(r) \/ CrashInCleanup(r)
  BY <1>3, CleanupRetires
<1>4. CASE \/ StartRun(r) \/ NoTargets(r) \/ DiscoverAndResolve(r) \/ NothingBackedUp(r)
           \/ BackupTargets(r) \/ PlanFails(r) \/ PlanRemoteRetention(r)
           \/ SyncFailed(r) \/ SyncSucceeded(r) \/ CleanupFinished(r)
           \/ LocalRetention(r) \/ CleanupRunTree(r) \/ Crash(r)
           \/ CrashInLocalRetention(r) \/ CrashInCleanupRunTree(r)
  BY <1>4 DEF StoreStep, StartRun, NoTargets, DiscoverAndResolve, NothingBackedUp,
     BackupTargets, PlanFails, PlanRemoteRetention, SyncFailed, SyncSucceeded,
     CleanupFinished, LocalRetention, CleanupRunTree, Crash, CrashInLocalRetention,
     CrashInCleanupRunTree
<1> QED
  BY <1>1, <1>2, <1>3, <1>4 DEF RunStep, CrashStep

\* The variables of the other invocations stay as they are, and time stands still.
StepFrame(r) ==
  /\ now' = now
  /\ \A q \in Run \ {r} :
       /\ pc'[q] = pc[q] /\ started'[q] = started[q]
       /\ status'[q] = status[q] /\ succeeded'[q] = succeeded[q]
  /\ StartRun(r) \/ (r \in Active /\ started' = started)

\* What any step of an invocation does to the variables of the others.
LEMMA StepFrames ==
  ASSUME TypeOK, NEW r \in Run, StartRun(r) \/ RunStep(r) \/ CrashStep(r)
  PROVE  StepFrame(r)
<1>0. staged \in [Run -> RunDir]
  BY DEF TypeOK
<1>1. CASE StartRun(r)
  <2>1. /\ now' = now /\ succeeded' = succeeded
        /\ \A q \in Run \ {r} :
             pc'[q] = pc[q] /\ started'[q] = started[q] /\ status'[q] = status[q]
    BY <1>1 DEF StartRun, Goto, TypeOK
  <2>2. \A q \in Run \ {r} :
          /\ pc'[q] = pc[q] /\ started'[q] = started[q]
          /\ status'[q] = status[q] /\ succeeded'[q] = succeeded[q]
    BY <2>1
  <2> QED
    BY <1>1, <2>1, <2>2 DEF StepFrame
<1>2. ASSUME RunStep(r) \/ CrashStep(r)
      PROVE  r \in Active /\ now' = now /\ started' = started
  <2>1. pc[r] \notin Ended
    BY <1>2 DEF RunStep, CrashStep, Ended, NoTargets, DiscoverAndResolve, NothingBackedUp,
       BackupTargets, PlanFails, PlanRemoteRetention, DeleteRemoteRuns, DeleteFails, Sync,
       SyncFailed, SyncSucceeded, Cleanup, CleanupFinished, LocalRetention, CleanupRunTree,
       Crash, CrashInDelete, CrashInSync, CrashInCleanup, CrashInLocalRetention,
       CrashInCleanupRunTree, Active
  <2>2. now' = now /\ started' = started
    BY <1>2 DEF RunStep, CrashStep, NoTargets, DiscoverAndResolve, NothingBackedUp,
       BackupTargets, PlanFails, PlanRemoteRetention, DeleteRemoteRuns, DeleteFails, Sync,
       SyncFailed, SyncSucceeded, Cleanup, CleanupFinished, LocalRetention, CleanupRunTree,
       Crash, CrashInDelete, CrashInSync, CrashInCleanup, CrashInLocalRetention,
       CrashInCleanupRunTree, Stopped
  <2> QED
    BY <2>1, <2>2 DEF Active
<1>3. ASSUME RunStep(r) \/ CrashStep(r), NEW q \in Run \ {r}
      PROVE  pc'[q] = pc[q] /\ status'[q] = status[q] /\ succeeded'[q] = succeeded[q]
  <2>1. CASE NoTargets(r) \/ PlanFails(r) \/ DeleteFails(r)
    BY <2>1, FailOthers DEF NoTargets, PlanFails, DeleteFails
  <2>2. CASE DiscoverAndResolve(r) \/ PlanRemoteRetention(r) \/ DeleteRemoteRuns(r)
             \/ CleanupRunTree(r)
    BY <2>2 DEF DiscoverAndResolve, PlanRemoteRetention, DeleteRemoteRuns, CleanupRunTree,
       Goto, TypeOK
  <2>3. CASE NothingBackedUp(r) \/ BackupTargets(r)
    <3>1. PICK dirs, st, step : FinishRun(r, dirs, st, step) /\ succeeded' = succeeded
      BY <2>3 DEF NothingBackedUp, BackupTargets
    <3> QED
      BY <3>1 DEF FinishRun, Goto, TypeOK
  <2>4. CASE Sync(r) \/ Cleanup(r)
    <3>1. PICK ok : ProviderReturned(r, ok)
      BY <2>4 DEF Sync, Cleanup, CleanupLocal, CleanupFtp
    <3> QED
      BY <2>4, <3>1, ProvidersOthers DEF Sync, Cleanup
  <2>5. CASE SyncFailed(r)
    BY <2>5, FailOthers, ProvidersOthers DEF SyncFailed
  <2>6. CASE SyncSucceeded(r) \/ CleanupFinished(r)
    <3>1. ResetProviders(r)
      BY <2>6 DEF SyncSucceeded, CleanupFinished
    <3>2. (\E erroneous : Conclude(r, staged, erroneous))
          \/ (\E step : Goto(r, step) /\ UNCHANGED status)
      BY <2>6 DEF SyncSucceeded, CleanupFinished
    <3>3. pc'[q] = pc[q] /\ status'[q] = status[q]
      BY <1>0, <3>2, ConcludeOthers DEF Goto, TypeOK
    <3> QED
      BY <3>1, <3>3, ProvidersOthers
  <2>7. CASE LocalRetention(r)
    <3>1. PICK dirs, erroneous : Conclude(r, dirs, erroneous)
      BY <2>7 DEF LocalRetention
    <3>2. pc'[q] = pc[q] /\ status'[q] = status[q]
      BY <3>1 DEF Conclude, FinishRun, Goto, TypeOK
    <3> QED
      BY <2>7, <3>2 DEF LocalRetention
  <2>8. CASE CrashStep(r)
    <3>1. Stopped(r)
      BY <2>8 DEF CrashStep, Crash, CrashInDelete, CrashInSync, CrashInCleanup,
         CrashInLocalRetention, CrashInCleanupRunTree
    <3> QED
      BY <3>1, ProvidersOthers DEF Stopped, Goto, TypeOK
  <2> QED
    BY <1>3, <2>1, <2>2, <2>3, <2>4, <2>5, <2>6, <2>7, <2>8 DEF RunStep
<1>4. CASE RunStep(r) \/ CrashStep(r)
  BY <1>2, <1>3, <1>4 DEF StepFrame
<1> QED
  BY <1>1, <1>4

\* Staged manifests are removed or written today; a complete staged run is lost
\* to local retention, when it is expired, or to the end of its own invocation;
\* and what is not there is not made by another invocation.
StagingStep(r) ==
  \A q \in Run :
    /\ \/ staged'[q].manifest \in {NoManifest, staged[q].manifest}
       \/ staged'[q].manifest.finished = now
    /\ Loses(staged[q], staged'[q]) =>
         \/ pc[r] = "local_retention" /\ Deletable(staged[q], started[q])
         \/ pc[r] = "cleanup_run_tree" /\ q = r
    /\ q # r /\ staged[q] = Gone => staged'[q] = Gone

\* Writing a manifest, with which everything else stays, loses nothing.
LEMMA FinishStaging ==
  ASSUME TypeOK, NEW r \in Run, NEW dirs \in [Run -> RunDir], NEW st \in RunStatus,
         NEW step, FinishRun(r, dirs, st, step)
  PROVE  /\ \A q \in Run \ {r} : staged'[q] = dirs[q]
         /\ staged'[r].manifest.finished = now
         /\ Intact(dirs[r]) => Intact(staged'[r])
<1>1. \A q \in Run \ {r} : staged'[q] = dirs[q]
  BY FinishOthers
<1>2. staged'[r].manifest.finished = now /\ (dirs[r].data => Intact(staged'[r]))
  BY FinishOwn
<1> QED
  BY <1>1, <1>2 DEF Intact

\* The same of the end of a run.
LEMMA ConcludeStaging ==
  ASSUME TypeOK, NEW r \in Run, NEW dirs \in [Run -> RunDir], NEW erroneous,
         Conclude(r, dirs, erroneous)
  PROVE  /\ \A q \in Run \ {r} : staged'[q] = dirs[q]
         /\ staged'[r].manifest.finished = now
         /\ Intact(dirs[r]) => Intact(staged'[r])
<1>1. "partial" \in RunStatus /\ "success" \in RunStatus
  BY DEF RunStatus, RUN_TERMINAL_STATUSES
<1>2. \/ FinishRun(r, dirs, "partial", "done")
      \/ FinishRun(r, dirs, "success", "cleanup_run_tree")
  BY DEF Conclude
<1> QED
  BY <1>1, <1>2, FinishStaging

\* What any step of an invocation does to the staging area.
LEMMA StagingSteps ==
  ASSUME TypeOK, NEW r \in Run, StartRun(r) \/ RunStep(r) \/ CrashStep(r)
  PROVE  StagingStep(r)
<1>0. staged \in [Run -> RunDir] /\ status \in [Run -> RunStatus]
      /\ {"failed", "partial", "sync_failed", "running"} \subseteq RunStatus
  BY DEF TypeOK, RunStatus, RUN_TERMINAL_STATUSES
<1>1. ASSUME staged' = staged
      PROVE  StagingStep(r)
  BY <1>1 DEF StagingStep, Loses
<1>2. ASSUME \A q \in Run \ {r} : staged'[q] = staged[q],
             \/ staged'[r].manifest = staged[r].manifest
             \/ staged'[r].manifest.finished = now,
             Intact(staged[r]) => Intact(staged'[r])
      PROVE  StagingStep(r)
  BY <1>2 DEF StagingStep, Loses
<1>3. ASSUME NEW st \in RunStatus, FailRun(r, st)
      PROVE  StagingStep(r)
  BY <1>0, <1>2, <1>3, FinishStaging DEF FailRun
<1>4. CASE StartRun(r)
  <2>1. staged' = [staged EXCEPT ![r] = [staged[r] EXCEPT !.present = TRUE]]
    BY <1>4 DEF StartRun
  <2>2. staged'[r] = [staged[r] EXCEPT !.present = TRUE] /\ staged[r] \in RunDir
    BY <1>0, <2>1
  <2>3. staged'[r].manifest = staged[r].manifest /\ (Intact(staged[r]) => Intact(staged'[r]))
    BY <2>2 DEF RunDir, Intact
  <2> QED
    BY <1>0, <1>2, <2>1, <2>3
<1>5. CASE NoTargets(r) \/ PlanFails(r) \/ DeleteFails(r) \/ SyncFailed(r)
  BY <1>0, <1>3, <1>5 DEF NoTargets, PlanFails, DeleteFails, SyncFailed
<1>6. CASE NothingBackedUp(r)
  BY <1>0, <1>2, <1>6, FinishStaging DEF NothingBackedUp
<1>7. CASE BackupTargets(r)
  <2> DEFINE dumped == [staged EXCEPT ![r] = [staged[r] EXCEPT !.data = TRUE]]
  <2>1. /\ dumped \in [Run -> RunDir]
        /\ \A q \in Run \ {r} : dumped[q] = staged[q]
        /\ Intact(staged[r]) => Intact(dumped[r])
    <3>1. [staged[r] EXCEPT !.data = TRUE] \in RunDir /\ staged[r] \in RunDir
      BY <1>0 DEF RunDir
    <3>2. Intact(staged[r]) => Intact([staged[r] EXCEPT !.data = TRUE])
      BY <3>1 DEF Intact, RunDir
    <3> QED
      BY <1>0, <3>1, <3>2
  <2>2. \E st \in RunStatus : \E step : FinishRun(r, dumped, st, step)
    BY <1>0, <1>7 DEF BackupTargets
  <2> HIDE DEF dumped
  <2> QED
    BY <1>2, <2>1, <2>2, FinishStaging
<1>8. CASE SyncSucceeded(r) \/ CleanupFinished(r)
  <2>1. UNCHANGED staged \/ \E erroneous : Conclude(r, staged, erroneous)
    BY <1>8 DEF SyncSucceeded, CleanupFinished
  <2> QED
    BY <1>0, <1>1, <1>2, <2>1, ConcludeStaging
<1>9. ASSUME NEW dirs \in [Run -> RunDir],
             \A q \in Run : Deletable(staged[q], started[q]) \/ dirs[q] = staged[q],
             \A q \in Run : dirs[q].manifest \in {NoManifest, staged[q].manifest},
             pc[r] = "local_retention",
             \A q \in Run \ {r} : staged'[q] = dirs[q],
             \/ staged'[r] = dirs[r]
             \/ staged'[r].manifest.finished = now /\ (Intact(dirs[r]) => Intact(staged'[r]))
      PROVE  StagingStep(r)
  <2> SUFFICES ASSUME NEW q \in Run
               PROVE  /\ \/ staged'[q].manifest \in {NoManifest, staged[q].manifest}
                         \/ staged'[q].manifest.finished = now
                      /\ Loses(staged[q], staged'[q]) => Deletable(staged[q], started[q])
                      /\ q # r /\ staged[q] = Gone => staged'[q] = Gone
    BY <1>9 DEF StagingStep
  <2>1. ~Deletable(Gone, started[q])
    BY DEF Gone, Deletable
  <2>2. CASE q = r
    BY <1>9, <2>2 DEF Loses
  <2>3. CASE q # r
    BY <1>9, <2>1, <2>3 DEF Loses
  <2> QED
    BY <2>2, <2>3
<1>10. CASE LocalRetention(r)
  <2>1. PICK failed \in SUBSET ExpiredRunDirs(staged, started, now) :
          \E dirs \in Removals(staged, ExpiredRunDirs(staged, started, now), failed) :
            \E erroneous : Conclude(r, dirs, erroneous)
    BY <1>10 DEF LocalRetention
  <2>2. PICK dirs \in Removals(staged, ExpiredRunDirs(staged, started, now), failed) :
          \E erroneous : Conclude(r, dirs, erroneous)
    BY <2>1
  <2>3. /\ dirs \in [Run -> RunDir]
        /\ \A q \in Run : Deletable(staged[q], started[q]) \/ dirs[q] = staged[q]
        /\ \A q \in Run : dirs[q].manifest \in {NoManifest, staged[q].manifest}
    BY LocalRetentionFacts
  <2>4. /\ \A q \in Run \ {r} : staged'[q] = dirs[q]
        /\ staged'[r].manifest.finished = now
        /\ Intact(dirs[r]) => Intact(staged'[r])
    BY <2>2, <2>3, ConcludeStaging
  <2> QED
    BY <1>9, <1>10, <2>3, <2>4 DEF LocalRetention
<1>11. CASE CrashInLocalRetention(r)
  <2>1. PICK left \in SUBSET ExpiredRunDirs(staged, started, now) :
          staged' \in Removals(staged, ExpiredRunDirs(staged, started, now), left)
    BY <1>11 DEF CrashInLocalRetention
  <2>2. /\ staged' \in [Run -> RunDir]
        /\ \A q \in Run : Deletable(staged[q], started[q]) \/ staged'[q] = staged[q]
        /\ \A q \in Run : staged'[q].manifest \in {NoManifest, staged[q].manifest}
    BY <2>1, LocalRetentionFacts
  <2>3. pc[r] = "local_retention"
    BY <1>11 DEF CrashInLocalRetention
  <2> QED
    BY <1>9, <2>2, <2>3
<1>12. CASE CleanupRunTree(r) \/ CrashInCleanupRunTree(r)
  <2>1. PICK left \in SUBSET {r} : staged' \in Removals(staged, {r}, left)
    BY <1>12 DEF CleanupRunTree, CrashInCleanupRunTree
  <2>2. /\ \A q \in Run \ {r} : staged'[q] = staged[q]
        /\ \A q \in Run : staged'[q].manifest \in {NoManifest, staged[q].manifest}
    BY <2>1, CleanupRunTreeFacts
  <2>3. pc[r] = "cleanup_run_tree"
    BY <1>12 DEF CleanupRunTree, CrashInCleanupRunTree
  <2> QED
    BY <2>2, <2>3 DEF StagingStep, Loses
<1>13. CASE \/ DiscoverAndResolve(r) \/ PlanRemoteRetention(r) \/ DeleteRemoteRuns(r)
            \/ Sync(r) \/ Cleanup(r) \/ Crash(r) \/ CrashInDelete(r) \/ CrashInSync(r)
            \/ CrashInCleanup(r)
  BY <1>1, <1>13 DEF DiscoverAndResolve, PlanRemoteRetention, DeleteRemoteRuns, Sync,
     Cleanup, Crash, CrashInDelete, CrashInSync, CrashInCleanup
<1> QED
  BY <1>4, <1>5, <1>6, <1>7, <1>8, <1>10, <1>11, <1>12, <1>13 DEF RunStep, CrashStep

-------------------------------------------------------------------------------
(***************************************************************************)
(* Dates, in every configuration.                                          *)
(***************************************************************************)

\* No manifest is older than its run, a run that has not started has no
\* directory, and a run under way is recent.
Dated ==
  \A r \in Run :
    /\ pc[r] = "idle" => staged[r] = Gone /\ \A b \in Backend : store[b][r] = Gone
    /\ DatesInv(r)

\* What a step does to the directory of a run on a backend.
LEMMA StoreStepDirs ==
  ASSUME TypeOK, NEW r \in Run, StoreStep(r), NEW b \in Backend, NEW q \in Run
  PROVE  \/ Decays(store[b][q], store'[b][q])
         \/ /\ q = r /\ pc[r] = "sync" /\ b \in Enabled
            /\ store'[b][q].manifest \in
                 {NoManifest, staged[r].manifest, store[b][r].manifest}
<1>0. store \in [Backend -> [Run -> RunDir]]
  BY DEF TypeOK
<1>1. CASE UNCHANGED store
  BY <1>1 DEF Decays
<1>2. CASE pc[r] = "sync" /\ Transfers(r)
  <2>1. PICK bb \in Enabled, copy \in RunDir :
          /\ store' = [store EXCEPT ![bb][r] = copy]
          /\ copy.manifest \in {NoManifest, staged[r].manifest, store[bb][r].manifest}
    BY <1>2 DEF Transfers
  <2>2. CASE b = bb /\ q = r
    BY <1>0, <1>2, <2>1, <2>2
  <2>3. CASE ~(b = bb /\ q = r)
    <3>1. store'[b][q] = store[b][q]
      BY <1>0, <2>1, <2>3, EnabledBackend
    <3> QED
      BY <3>1 DEF Decays
  <2> QED
    BY <2>2, <2>3
<1>3. ASSUME NEW bb \in Backend, NEW inventoried, Retires(bb, inventoried)
      PROVE  Decays(store[b][q], store'[b][q])
  <2>1. PICK dirs \in [Run -> RunDir] :
          /\ store' = [store EXCEPT ![bb] = dirs]
          /\ \A p \in Run : Decays(store[bb][p], dirs[p])
    BY <1>3 DEF Retires
  <2>2. CASE b = bb
    BY <1>0, <2>1, <2>2
  <2>3. CASE b # bb
    <3>1. store'[b][q] = store[b][q]
      BY <1>0, <2>1, <2>3
    <3> QED
      BY <3>1 DEF Decays
  <2> QED
    BY <2>2, <2>3
<1>4. "rsync" \in Backend
  BY DEF Backend
<1> QED
  BY <1>1, <1>2, <1>3, <1>4 DEF StoreStep

\* No step makes an invocation one that has not started.
LEMMA StepLeavesIdle ==
  ASSUME TypeOK, NEW r \in Run, RunStep(r) \/ CrashStep(r)
  PROVE  pc'[r] # "idle"
<1>1. CASE Sync(r) \/ Cleanup(r)
  BY <1>1 DEF Sync, Cleanup
<1>2. CASE \/ NoTargets(r) \/ DiscoverAndResolve(r) \/ NothingBackedUp(r) \/ BackupTargets(r)
           \/ PlanFails(r) \/ PlanRemoteRetention(r) \/ DeleteRemoteRuns(r) \/ DeleteFails(r)
           \/ SyncFailed(r) \/ SyncSucceeded(r) \/ CleanupFinished(r)
           \/ LocalRetention(r) \/ CleanupRunTree(r)
  <2>1. PICK step : step # "idle" /\ Goto(r, step)
    BY <1>2 DEF NoTargets, DiscoverAndResolve, NothingBackedUp, BackupTargets, PlanFails,
       PlanRemoteRetention, DeleteRemoteRuns, DeleteFails, SyncFailed, SyncSucceeded,
       CleanupFinished, LocalRetention, CleanupRunTree, Conclude, FailRun, FinishRun
  <2> QED
    BY <2>1 DEF Goto, TypeOK
<1>3. CASE CrashStep(r)
  BY <1>3 DEF CrashStep, Crash, CrashInDelete, CrashInSync, CrashInCleanup,
     CrashInLocalRetention, CrashInCleanupRunTree, Stopped, Goto, TypeOK
<1> QED
  BY <1>1, <1>2, <1>3 DEF RunStep

\* A step of an invocation keeps the dates in order.
LEMMA DatedStep ==
  ASSUME TypeOK, Dated, NEW r \in Run, StartRun(r) \/ RunStep(r) \/ CrashStep(r)
  PROVE  Dated'
<1>0. StepFrame(r) /\ StoreStep(r) /\ StagingStep(r)
  BY StepFrames, StoreSteps, StagingSteps
<1> SUFFICES ASSUME NEW q \in Run
             PROVE  /\ pc'[q] = "idle" =>
                         staged'[q] = Gone /\ \A b \in Backend : store'[b][q] = Gone
                    /\ DatesInv(q)'
  BY DEF Dated
<1>1. /\ now' = now /\ now \in Int /\ started[q] \in Int
      /\ started[q] <= now
  BY <1>0 DEF StepFrame, Dated, DatesInv, TypeOK, Day
<1>2. ASSUME NEW before, NEW after, NEW bornOn \in Int, bornOn <= now,
             before.manifest # NoManifest => bornOn <= before.manifest.finished,
             \/ after.manifest \in {NoManifest, before.manifest}
             \/ after.manifest.finished = now
      PROVE  after.manifest # NoManifest => bornOn <= after.manifest.finished
  BY <1>1, <1>2
<1>3. \A b \in Backend :
        /\ pc[q] = "idle" => store'[b][q] = Gone
        /\ store'[b][q].manifest # NoManifest => started[q] <= store'[b][q].manifest.finished
  <2> SUFFICES ASSUME NEW b \in Backend
               PROVE  /\ pc[q] = "idle" => store'[b][q] = Gone
                      /\ store'[b][q].manifest # NoManifest =>
                           started[q] <= store'[b][q].manifest.finished
    OBVIOUS
  <2>1. \/ Decays(store[b][q], store'[b][q])
        \/ /\ q = r /\ pc[r] = "sync"
           /\ store'[b][q].manifest \in
                {NoManifest, staged[r].manifest, store[b][r].manifest}
    BY <1>0, StoreStepDirs
  <2>2. pc[q] = "idle" => store[b][q] = Gone /\ ~store[b][q].present
    <3>1. pc[q] = "idle" => store[b][q] = Gone
      BY Zenon DEF Dated
    <3>2. ~Gone.present
      BY DEF Gone
    <3> QED
      BY <3>1, <3>2
  <2> QED
    BY <1>1, <2>1, <2>2 DEF Decays, Dated, DatesInv
<1>4. staged'[q].manifest # NoManifest => started[q] <= staged'[q].manifest.finished
  BY <1>0, <1>1, <1>2 DEF StagingStep, Dated, DatesInv
<1>5. CASE q # r
  <2>1. pc'[q] = pc[q] /\ started'[q] = started[q]
    BY <1>0, <1>5 DEF StepFrame
  <2>2. pc[q] = "idle" => staged'[q] = Gone
    BY <1>0, <1>5 DEF StagingStep, Dated
  <2>3. (q \in Active)' => q \in Active /\ Recent(q)'
    BY <1>1, <2>1 DEF Active, Dated, DatesInv, Recent
  <2> QED
    BY <1>1, <1>3, <1>4, <2>1, <2>2, <2>3 DEF DatesInv
<1>6. CASE q = r /\ ~StartRun(r)
  <2>1. r \in Active /\ started' = started
    BY <1>0, <1>6 DEF StepFrame
  <2>2. Recent(r)'
    BY <1>1, <2>1 DEF Dated, DatesInv, Recent
  <2>3. pc'[r] # "idle"
    BY <1>6, <2>1, StepLeavesIdle
  <2> QED
    BY <1>1, <1>3, <1>4, <1>6, <2>1, <2>2, <2>3 DEF DatesInv
<1>7. CASE q = r /\ StartRun(r)
  <2>1. /\ pc[r] = "idle" /\ pc'[r] = "discover" /\ started'[r] = now
        /\ staged'[r] = [staged[r] EXCEPT !.present = TRUE] /\ store' = store
    BY <1>7 DEF StartRun, Goto, TypeOK
  <2>2. staged[r] = Gone /\ \A b \in Backend : store[b][r] = Gone
    BY <2>1 DEF Dated
  <2>3. staged'[r].manifest = NoManifest /\ \A b \in Backend : store'[b][r].manifest = NoManifest
    BY <2>1, <2>2 DEF Gone
  <2>4. Recent(r)' /\ started'[r] <= now'
    BY <1>1, <2>1, RetentionDaysAssumption DEF Recent, BeforeCutoff
  <2> QED
    BY <1>7, <2>1, <2>3, <2>4 DEF DatesInv
<1> QED
  BY <1>5, <1>6, <1>7

\* The dates are in order in every configuration.
LEMMA DatedInvariant == Spec => []Dated
<1>1. Init => Dated
  <2> SUFFICES ASSUME Init, NEW r \in Run
               PROVE  /\ staged[r] = Gone /\ \A b \in Backend : store[b][r] = Gone
                      /\ DatesInv(r)
    BY DEF Dated
  <2>1. /\ pc[r] = "idle" /\ started[r] = 0 /\ now = 0
        /\ staged[r] = Gone /\ \A b \in Backend : store[b][r] = Gone
    BY DEF Init
  <2>2. Gone.manifest = NoManifest /\ r \notin Active
    BY <2>1 DEF Gone, Active, Ended
  <2> QED
    BY <2>1, <2>2 DEF DatesInv
<1>2. TypeOK /\ Dated /\ [Next]_vars => Dated'
  <2> SUFFICES ASSUME TypeOK, Dated, [Next]_vars
               PROVE  Dated'
    OBVIOUS
  <2>1. CASE UNCHANGED vars
    BY <2>1 DEF vars, Dated, DatesInv, Recent, Active
  <2>2. CASE Tick
    <3>1. /\ now' = now + 1 /\ Active' = Active
          /\ UNCHANGED <<pc, started, staged, store>>
      BY <2>2 DEF Tick, runVars, Active
    <3>2. ASSUME NEW r \in Run
          PROVE  DatesInv(r)'
      <4>1. (r \in Active)' => Recent(r)'
        BY <2>2, <3>1, RetentionDaysAssumption DEF Tick, TypeOK, Day, Recent, BeforeCutoff
      <4>2. started[r] <= now'
        BY <3>1 DEF Dated, DatesInv, TypeOK, Day
      <4> QED
        BY <3>1, <4>1, <4>2 DEF Dated, DatesInv
    <3> QED
      BY <3>1, <3>2 DEF Dated
  <2> QED
    BY <2>1, <2>2, DatedStep DEF Next, Exhausted
<1> QED
  BY <1>1, <1>2, TypeCorrect, PTL DEF Spec

-------------------------------------------------------------------------------
(***************************************************************************)
(* Retention is applied before success is reported, without rsync.         *)
(***************************************************************************)

\* The backend b holds no complete run that was expired when the run r started.
Clean(b, r) ==
  \A q \in Run :
    Intact(store[b][q]) => ~BeforeCutoff(store[b][q].manifest.finished, started[r])

\* What the cleanup of a run has cleaned is clean.
CleanedInv ==
  \A r \in Run :
    /\ pc[r] = "cleanup" => \A b \in succeeded[r] : Clean(b, r)
    /\ pc[r] = "local_retention" => \A b \in Enabled : Clean(b, r)

\* A backend that is clean for a run stays clean for it: nothing under way is old
\* enough to be expired at the start of the run.
LEMMA CleanStays ==
  ASSUME TypeOK, Dated, NEW p \in Run, StartRun(p) \/ RunStep(p) \/ CrashStep(p),
         NEW r \in Run, started'[r] = started[r], NEW b \in Backend, Clean(b, r)
  PROVE  Clean(b, r)'
<1> SUFFICES ASSUME NEW q \in Run, Intact(store'[b][q])
             PROVE  ~BeforeCutoff(store'[b][q].manifest.finished, started[r])
  BY DEF Clean
<1>1. CASE Decays(store[b][q], store'[b][q])
  <2>1. Intact(store[b][q]) /\ store'[b][q].manifest = store[b][q].manifest
    BY <1>1 DEF Decays, Intact
  <2> QED
    BY <2>1 DEF Clean
<1>2. CASE /\ q = p /\ pc[p] = "sync"
           /\ store'[b][q].manifest \in {NoManifest, staged[p].manifest, store[b][p].manifest}
  <2> DEFINE manifest == store'[b][q].manifest
  <2>1. q \in Active /\ manifest # NoManifest
    BY <1>2 DEF Active, Ended, Intact
  <2>2. started[q] <= manifest.finished /\ Recent(q)
    BY <1>2, <2>1 DEF Dated, DatesInv
  <2>3. manifest \in Manifest
    BY <1>2, <2>1 DEF TypeOK, RunDir
  <2> HIDE DEF manifest
  <2>4. started[r] <= now
    BY DEF Dated, DatesInv
  <2>5. ~BeforeCutoff(manifest.finished, started[r])
    BY <2>2, <2>3, <2>4, RetentionDaysAssumption
       DEF TypeOK, Day, Manifest, Recent, BeforeCutoff
  <2> QED
    BY <2>5 DEF manifest
<1> QED
  BY <1>1, <1>2, StoreSteps, StoreStepDirs

\* A removal in which nothing resists removes all victims.
LEMMA AllRemoved ==
  ASSUME NEW dirs \in [Run -> RunDir], NEW victims, NEW left \in Removals(dirs, victims, {})
  PROVE  \A q \in Run : Intact(left[q]) => q \notin victims /\ left[q] = dirs[q]
<1>1. PICK emptied \in SUBSET {}, headless \in SUBSET {} :
        left = Wreck(dirs, victims \ {}, emptied, headless)
  BY DEF Removals
<1>2. \A q \in Run \cap victims : left[q] = Gone
  BY <1>1 DEF Wreck
<1>3. \A q \in Run \ victims : left[q] = dirs[q]
  BY RemovalsFacts
<1>4. ~Intact(Gone)
  BY DEF Intact, Gone
<1> QED
  BY <1>2, <1>3, <1>4

\* A cleanup that a provider reports as a success leaves its backend clean.
LEMMA CleanupCleans ==
  ASSUME TypeOK, Dated, NEW r \in Run, Cleanup(r)
  PROVE  \E b \in Backend, ok \in BOOLEAN :
           /\ b = Providers[next[r]]
           /\ ProviderReturned(r, ok)
           /\ ok => Clean(b, r)'
<1>0. /\ store \in [Backend -> [Run -> RunDir]]
      /\ {"local", "ftp"} \subseteq Backend
      /\ started' = started /\ started[r] <= now
  BY DEF TypeOK, Backend, Cleanup, Dated, DatesInv
<1>1. ASSUME NEW finished \in Int, ~BeforeCutoff(finished, now)
      PROVE  ~BeforeCutoff(finished, started[r])
  BY <1>0, <1>1, RetentionDaysAssumption DEF BeforeCutoff, TypeOK, Day
<1>2. ASSUME NEW b \in Backend, NEW dirs \in [Run -> RunDir],
             store' = [store EXCEPT ![b] = dirs],
             \A q \in Run : Intact(dirs[q]) => ~BeforeCutoff(dirs[q].manifest.finished, now)
      PROVE  Clean(b, r)'
  <2> SUFFICES ASSUME NEW q \in Run, Intact(dirs[q])
               PROVE  ~BeforeCutoff(dirs[q].manifest.finished, started[r])
    BY <1>0, <1>2 DEF Clean
  <2>1. dirs[q].manifest.finished \in Int
    BY DEF RunDir, Manifest, Day
  <2> QED
    BY <1>1, <1>2, <2>1
<1>3. CASE CleanupLocal(r)
  <2> DEFINE victims == ExpiredRunDirs(store["local"], started, now)
  <2>1. PICK failed \in SUBSET victims : \E dirs \in Removals(store["local"], victims, failed) :
          /\ store' = [store EXCEPT !["local"] = dirs]
          /\ ProviderReturned(r, failed = {})
    BY <1>3 DEF CleanupLocal
  <2>2. PICK dirs \in Removals(store["local"], victims, failed) :
          /\ store' = [store EXCEPT !["local"] = dirs]
          /\ ProviderReturned(r, failed = {})
    BY <2>1
  <2>3. \A q \in Run \ victims :
          Intact(store["local"][q]) =>
            ~BeforeCutoff(store["local"][q].manifest.finished, now)
    BY DEF ExpiredRunDirs, RunTimestamp, Intact
  <2> HIDE DEF victims
  <2>4. dirs \in [Run -> RunDir] /\ Providers[next[r]] = "local"
    BY <1>0, <1>3, <2>2, RemovalsFacts DEF CleanupLocal
  <2>5. ASSUME failed = {}
        PROVE  Clean("local", r)'
    <3>1. \A q \in Run : Intact(dirs[q]) => q \notin victims /\ dirs[q] = store["local"][q]
      BY <1>0, <2>2, <2>5, AllRemoved
    <3>2. \A q \in Run : Intact(dirs[q]) => ~BeforeCutoff(dirs[q].manifest.finished, now)
      BY <2>3, <3>1
    <3> QED
      BY <1>0, <1>2, <2>2, <2>4, <3>2
  <2>6. (failed = {}) \in BOOLEAN /\ "local" \in Backend
    BY <1>0
  <2> QED
    BY <2>2, <2>4, <2>5, <2>6
<1>4. CASE CleanupFtp(r) /\ ProviderReturned(r, FALSE)
  <2>1. Providers[next[r]] = "ftp"
    BY <1>4 DEF CleanupFtp
  <2> QED
    BY <1>0, <1>4, <2>1
<1>5. CASE CleanupFtp(r) /\ ~ProviderReturned(r, FALSE)
  <2> DEFINE victims == ExpiredManifests(store["ftp"], now)
  <2>1. PICK failed \in SUBSET victims :
          \E husks \in SUBSET (victims \ failed) :
            \E dirs \in Removals(store["ftp"], victims \ husks, failed) :
              /\ store' = [store EXCEPT !["ftp"] = Wreck(dirs, {}, husks, husks)]
              /\ \E ok \in BOOLEAN : (ok => failed = {}) /\ ProviderReturned(r, ok)
    BY <1>5 DEF CleanupFtp
  <2>2. PICK husks \in SUBSET (victims \ failed) :
          \E dirs \in Removals(store["ftp"], victims \ husks, failed) :
            /\ store' = [store EXCEPT !["ftp"] = Wreck(dirs, {}, husks, husks)]
            /\ \E ok \in BOOLEAN : (ok => failed = {}) /\ ProviderReturned(r, ok)
    BY <2>1
  <2>3. PICK dirs \in Removals(store["ftp"], victims \ husks, failed) :
          /\ store' = [store EXCEPT !["ftp"] = Wreck(dirs, {}, husks, husks)]
          /\ \E ok \in BOOLEAN : (ok => failed = {}) /\ ProviderReturned(r, ok)
    BY <2>2
  <2>4. \A q \in Run \ victims :
          Intact(store["ftp"][q]) => ~BeforeCutoff(store["ftp"][q].manifest.finished, now)
    BY DEF ExpiredManifests, Inventoried, Intact
  <2>5. failed \in SUBSET (victims \ husks)
    BY <2>2
  <2> HIDE DEF victims
  <2> DEFINE wrecked == Wreck(dirs, {}, husks, husks)
  <2>6. dirs \in [Run -> RunDir] /\ Providers[next[r]] = "ftp"
    BY <1>0, <1>5, <2>3, <2>5, RemovalsFacts DEF CleanupFtp
  <2>7. /\ wrecked \in [Run -> RunDir]
        /\ \A q \in Run \ husks : wrecked[q] = dirs[q]
    BY <2>6, WreckFacts
  <2>10. \A q \in husks \cap Run : ~Intact(wrecked[q])
    <3>1. \A q \in husks \cap Run : wrecked[q].manifest = NoManifest
      BY DEF Wreck
    <3> QED
      BY <3>1 DEF Intact
  <2>8. store' = [store EXCEPT !["ftp"] = wrecked]
    BY <2>3
  <2> HIDE DEF wrecked
  <2>9. ASSUME failed = {}
        PROVE  Clean("ftp", r)'
    <3>1. \A q \in Run :
            Intact(dirs[q]) => q \notin victims \ husks /\ dirs[q] = store["ftp"][q]
      BY <1>0, <2>3, <2>9, AllRemoved
    <3>2. \A q \in Run :
            Intact(wrecked[q]) => ~BeforeCutoff(wrecked[q].manifest.finished, now)
      BY <2>4, <2>7, <2>10, <3>1
    <3> QED
      BY <1>0, <1>2, <2>7, <2>8, <3>2
  <2> QED
    BY <1>0, <2>3, <2>6, <2>9
<1> QED
  BY <1>3, <1>4, <1>5 DEF Cleanup

\* How a run gets to a cleanup, to local retention and to success, without rsync.
LEMMA PathToSuccess ==
  ASSUME TypeOK, ~UsesRsync, NEW r \in Run, StartRun(r) \/ RunStep(r) \/ CrashStep(r)
  PROVE  /\ pc'[r] = "cleanup" => Cleanup(r) \/ succeeded'[r] = {}
         /\ pc'[r] = "local_retention" =>
              pc[r] = "cleanup" /\ AllSucceeded(r) /\ UNCHANGED <<store, started>>
         /\ status[r] # "success" /\ status'[r] = "success" =>
              pc[r] = "local_retention" \/ (pc[r] = "cleanup" /\ AllSucceeded(r))
<1>0. staged \in [Run -> RunDir] /\ pc \in [Run -> Step] /\ status \in [Run -> RunStatus]
  BY DEF TypeOK
<1>1. ASSUME NEW step, step \notin {"cleanup", "local_retention"}, Goto(r, step),
             status'[r] = "success" => status[r] = "success"
      PROVE  /\ pc'[r] \notin {"cleanup", "local_retention"}
             /\ ~(status[r] # "success" /\ status'[r] = "success")
  BY <1>0, <1>1 DEF Goto
<1>2. ASSUME NEW dirs, NEW st, NEW step, FinishRun(r, dirs, st, step)
      PROVE  Goto(r, step) /\ status'[r] = st
  BY <1>0, <1>2 DEF FinishRun
<1>3. CASE \/ StartRun(r) \/ DiscoverAndResolve(r) \/ PlanRemoteRetention(r)
           \/ DeleteRemoteRuns(r) \/ CleanupRunTree(r)
  BY <1>0, <1>3 DEF StartRun, DiscoverAndResolve, PlanRemoteRetention, DeleteRemoteRuns,
     CleanupRunTree, Goto
<1>4. CASE \/ NoTargets(r) \/ NothingBackedUp(r) \/ BackupTargets(r) \/ PlanFails(r)
           \/ DeleteFails(r) \/ SyncFailed(r)
  <2>1. PICK dirs, st, step :
          /\ FinishRun(r, dirs, st, step)
          /\ step \notin {"cleanup", "local_retention"} /\ st # "success"
    BY <1>4 DEF NoTargets, NothingBackedUp, BackupTargets, PlanFails, DeleteFails, SyncFailed,
       FailRun
  <2> QED
    BY <1>1, <1>2, <2>1
<1>5. CASE Sync(r)
  BY <1>0, <1>5 DEF Sync
<1>6. CASE Cleanup(r)
  BY <1>0, <1>6 DEF Cleanup
<1>7. CASE SyncSucceeded(r)
  <2>1. Goto(r, "cleanup") /\ UNCHANGED status /\ ResetProviders(r)
    BY <1>7 DEF SyncSucceeded
  <2> QED
    BY <1>0, <2>1 DEF Goto, ResetProviders, TypeOK
<1>8. CASE CleanupFinished(r)
  <2>1. pc[r] = "cleanup" /\ UNCHANGED <<store, started>>
    BY <1>8 DEF CleanupFinished
  <2>2. CASE AllSucceeded(r)
    <3>1. \/ Goto(r, "local_retention")
          \/ \E erroneous : Conclude(r, staged, erroneous)
      BY <1>8 DEF CleanupFinished
    <3>2. pc'[r] # "cleanup"
      BY <1>0, <3>1 DEF Conclude, FinishRun, Goto
    <3> QED
      BY <2>1, <2>2, <3>2
  <2>3. CASE ~AllSucceeded(r)
    <3>1. Conclude(r, staged, errors[r] \/ ~AllSucceeded(r))
      BY <1>8, <2>3 DEF CleanupFinished
    <3>2. FinishRun(r, staged, "partial", "done")
      BY <2>3, <3>1 DEF Conclude
    <3> QED
      BY <1>1, <1>2, <3>2
  <2> QED
    BY <2>2, <2>3
<1>9. CASE LocalRetention(r)
  <2>1. pc[r] = "local_retention"
    BY <1>9 DEF LocalRetention
  <2>2. PICK dirs, erroneous : Conclude(r, dirs, erroneous)
    BY <1>9 DEF LocalRetention
  <2>3. pc'[r] \in {"done", "cleanup_run_tree"}
    BY <1>0, <2>2 DEF Conclude, FinishRun, Goto
  <2> QED
    BY <2>1, <2>3
<1>10. CASE CrashStep(r)
  <2>1. Stopped(r)
    BY <1>10 DEF CrashStep, Crash, CrashInDelete, CrashInSync, CrashInCleanup,
       CrashInLocalRetention, CrashInCleanupRunTree
  <2> QED
    BY <1>1, <2>1 DEF Stopped
<1> QED
  BY <1>3, <1>4, <1>5, <1>6, <1>7, <1>8, <1>9, <1>10 DEF RunStep

\* A step of an invocation keeps clean what is clean.
LEMMA CleanedStep ==
  ASSUME ~UsesRsync, TypeOK, Dated, CleanedInv,
         NEW p \in Run, StartRun(p) \/ RunStep(p) \/ CrashStep(p)
  PROVE  CleanedInv'
<1>0. StepFrame(p) /\ succeeded \in [Run -> SUBSET Backend]
  BY StepFrames DEF TypeOK
<1> SUFFICES ASSUME NEW r \in Run
             PROVE  /\ pc'[r] = "cleanup" => \A b \in succeeded'[r] : Clean(b, r)'
                    /\ pc'[r] = "local_retention" => \A b \in Enabled : Clean(b, r)'
  BY DEF CleanedInv
<1>1. \A b \in Backend : started'[r] = started[r] /\ Clean(b, r) => Clean(b, r)'
  BY CleanStays
<1>2. CASE r # p
  <2>1. pc'[r] = pc[r] /\ started'[r] = started[r] /\ succeeded'[r] = succeeded[r]
    BY <1>0, <1>2 DEF StepFrame
  <2>2. \A b \in succeeded[r] : b \in Backend
    BY <1>0
  <2> QED
    BY <1>1, <2>1, <2>2, EnabledBackend DEF CleanedInv
<1>3. CASE r = p
  <2>1. /\ pc'[r] = "cleanup" => Cleanup(r) \/ succeeded'[r] = {}
        /\ pc'[r] = "local_retention" =>
              pc[r] = "cleanup" /\ AllSucceeded(r) /\ UNCHANGED <<store, started>>
    BY <1>3, PathToSuccess
  <2>2. ASSUME pc'[r] = "local_retention", NEW b \in Enabled
        PROVE  Clean(b, r)'
    <3>1. pc[r] = "cleanup" /\ b \in succeeded[r] /\ started' = started
      BY <2>1, <2>2 DEF AllSucceeded
    <3> QED
      BY <1>1, <2>2, <3>1, EnabledBackend DEF CleanedInv
  <2>3. ASSUME Cleanup(r), NEW b \in succeeded'[r]
        PROVE  Clean(b, r)'
    <3>1. pc[r] = "cleanup" /\ started' = started
      BY <2>3 DEF Cleanup
    <3>2. PICK bb \in Backend, ok \in BOOLEAN :
            ProviderReturned(r, ok) /\ (ok => Clean(bb, r)') /\ bb = Providers[next[r]]
      BY <2>3, CleanupCleans
    <3>3. b \in succeeded[r] \/ (ok /\ b = bb)
      BY <1>0, <2>3, <3>2 DEF ProviderReturned
    <3>4. b \in succeeded[r] => b \in Backend
      BY <1>0
    <3> QED
      BY <1>1, <3>1, <3>2, <3>3, <3>4 DEF CleanedInv
  <2> QED
    BY <2>1, <2>2, <2>3
<1> QED
  BY <1>2, <1>3

\* When a run becomes successful, no configured backend still holds a complete run
\* that was expired when it started: success is only reported after every provider
\* has cleaned up what it holds (run_once), also when invocations overlap.
THEOREM SuccessMeansRetentionApplied ==
  ASSUME ~UsesRsync
  PROVE  Spec => RetentionApplied
<1> DEFINE Applied ==
      \A r \in Run : status[r] # "success" /\ status'[r] = "success" =>
        \A b \in Enabled, q \in Run :
          Intact(store[b][q]) => ~BeforeCutoff(store[b][q].manifest.finished, started[r])
<1>1. Init => CleanedInv
  BY DEF Init, CleanedInv
<1>2. TypeOK /\ Dated /\ CleanedInv /\ [Next]_vars => CleanedInv'
  <2> SUFFICES ASSUME TypeOK, Dated, CleanedInv, [Next]_vars
               PROVE  CleanedInv'
    OBVIOUS
  <2>1. CASE UNCHANGED vars \/ Tick
    BY <2>1 DEF vars, Tick, runVars, CleanedInv, Clean
  <2> QED
    BY <2>1, CleanedStep DEF Next, Exhausted
<1>3. TypeOK /\ CleanedInv /\ [Next]_vars => [Applied]_vars
  <2> SUFFICES ASSUME TypeOK, CleanedInv, Next, NEW r \in Run, NEW b \in Enabled,
                      status[r] # "success", status'[r] = "success"
               PROVE  Clean(b, r)
    BY DEF Clean
  <2>1. PICK p \in Run : StartRun(p) \/ RunStep(p) \/ CrashStep(p)
    BY DEF Next, Tick, runVars, Exhausted, vars
  <2>2. p = r
    BY <2>1, StepFrames DEF StepFrame
  <2>3. pc[r] = "local_retention" \/ (pc[r] = "cleanup" /\ AllSucceeded(r))
    BY <2>1, <2>2, PathToSuccess
  <2> QED
    BY <2>3 DEF CleanedInv, AllSucceeded
<1> QED
  BY <1>1, <1>2, <1>3, TypeCorrect, DatedInvariant, PTL DEF Spec, RetentionApplied

-------------------------------------------------------------------------------
(***************************************************************************)
(* Directories without a manifest on the remote backends.                  *)
(***************************************************************************)

\* Which steps lead where, in every configuration.
Paths(r) ==
  /\ pc'[r] = "plan" => BackupTargets(r)
  /\ pc'[r] = "delete" => PlanRemoteRetention(r)
  /\ pc'[r] = "sync" => DeleteRemoteRuns(r) \/ Sync(r) \/ (BackupTargets(r) /\ ~UsesRsync)
  /\ pc'[r] = "cleanup" => Cleanup(r) \/ (SyncSucceeded(r) /\ ~UsesRsync)
  /\ pc'[r] = "local_retention" =>
       UsesLocalStorage /\ (SyncSucceeded(r) \/ (CleanupFinished(r) /\ AllSucceeded(r)))
  /\ pc'[r] = "cleanup_run_tree" =>
       /\ status'[r] = "success"
       /\ \/ SyncSucceeded(r) \/ (CleanupFinished(r) /\ AllSucceeded(r))
          \/ LocalRetention(r)

\* Where a run goes when it is finished.
LEMMA FinishPath ==
  ASSUME TypeOK, NEW r \in Run, NEW dirs, NEW st, NEW step, FinishRun(r, dirs, st, step)
  PROVE  pc'[r] = step /\ status'[r] = st
BY DEF FinishRun, Goto, TypeOK

\* The steps of an invocation lead where the code goes.
LEMMA StepPaths ==
  ASSUME TypeOK, NEW r \in Run, StartRun(r) \/ RunStep(r) \/ CrashStep(r)
  PROVE  Paths(r)
<1>0. pc \in [Run -> Step]
  BY DEF TypeOK
<1>1. ASSUME pc'[r] \in {"discover", "backup", "done", "crashed"}
      PROVE  Paths(r)
  BY <1>1 DEF Paths
<1>2. CASE StartRun(r) \/ DiscoverAndResolve(r) \/ CleanupRunTree(r)
  BY <1>0, <1>1, <1>2 DEF StartRun, DiscoverAndResolve, CleanupRunTree, Goto
<1>3. CASE NoTargets(r) \/ NothingBackedUp(r) \/ PlanFails(r) \/ DeleteFails(r) \/ SyncFailed(r)
  <2>1. PICK dirs, st : FinishRun(r, dirs, st, "done")
    BY <1>3 DEF NoTargets, NothingBackedUp, PlanFails, DeleteFails, SyncFailed, FailRun
  <2> QED
    BY <1>1, <2>1, FinishPath
<1>4. CASE BackupTargets(r)
  <2>1. PICK dirs, st : FinishRun(r, dirs, st, IF UsesRsync THEN "plan" ELSE "sync")
    BY <1>4 DEF BackupTargets
  <2>2. pc'[r] = IF UsesRsync THEN "plan" ELSE "sync"
    BY <2>1, FinishPath
  <2> QED
    BY <1>4, <2>2 DEF Paths
<1>5. CASE PlanRemoteRetention(r) \/ DeleteRemoteRuns(r)
  <2>1. /\ PlanRemoteRetention(r) => pc'[r] = "delete"
        /\ DeleteRemoteRuns(r) => pc'[r] = "sync"
    BY <1>0, <1>5 DEF PlanRemoteRetention, DeleteRemoteRuns, Goto
  <2> QED
    BY <1>5, <2>1 DEF Paths
<1>6. CASE Sync(r) \/ Cleanup(r)
  <2>1. (Sync(r) => pc'[r] = "sync") /\ (Cleanup(r) => pc'[r] = "cleanup")
    BY <1>6 DEF Sync, Cleanup
  <2> QED
    BY <1>6, <2>1 DEF Paths
<1>7. ASSUME NEW dirs, NEW erroneous, Conclude(r, dirs, erroneous)
      PROVE  pc'[r] = "done" \/ (pc'[r] = "cleanup_run_tree" /\ status'[r] = "success")
  BY <1>7, FinishPath DEF Conclude
<1>8. CASE SyncSucceeded(r)
  <2>1. CASE UsesRsync /\ ~UsesLocalStorage
    <3>1. Conclude(r, staged, errors[r])
      BY <1>8, <2>1 DEF SyncSucceeded
    <3>2. pc'[r] = "done" \/ (pc'[r] = "cleanup_run_tree" /\ status'[r] = "success")
      BY <1>7, <3>1
    <3> QED
      BY <1>8, <3>2 DEF Paths
  <2>2. CASE ~(UsesRsync /\ ~UsesLocalStorage)
    <3>1. pc'[r] = IF UsesRsync THEN "local_retention" ELSE "cleanup"
      BY <1>0, <1>8, <2>2 DEF SyncSucceeded, Goto
    <3> QED
      BY <1>8, <2>2, <3>1 DEF Paths
  <2> QED
    BY <2>1, <2>2
<1>9. CASE CleanupFinished(r)
  <2>1. CASE AllSucceeded(r) /\ ~errors[r] /\ UsesLocalStorage
    <3>1. pc'[r] = "local_retention"
      BY <1>0, <1>9, <2>1 DEF CleanupFinished, Goto
    <3> QED
      BY <1>9, <2>1, <3>1 DEF Paths
  <2>2. CASE ~(AllSucceeded(r) /\ ~errors[r] /\ UsesLocalStorage)
    <3>1. Conclude(r, staged, errors[r] \/ ~AllSucceeded(r))
      BY <1>9, <2>2 DEF CleanupFinished
    <3>2. \/ pc'[r] = "done"
          \/ AllSucceeded(r) /\ pc'[r] = "cleanup_run_tree" /\ status'[r] = "success"
      BY <3>1, FinishPath DEF Conclude
    <3> QED
      BY <1>1, <1>9, <3>2 DEF Paths
  <2> QED
    BY <2>1, <2>2
<1>10. CASE LocalRetention(r)
  <2>1. PICK dirs, erroneous : Conclude(r, dirs, erroneous)
    BY <1>10 DEF LocalRetention
  <2>2. pc'[r] = "done" \/ (pc'[r] = "cleanup_run_tree" /\ status'[r] = "success")
    BY <1>7, <2>1
  <2> QED
    BY <1>10, <2>2 DEF Paths
<1>11. CASE CrashStep(r)
  <2>1. Stopped(r)
    BY <1>11 DEF CrashStep, Crash, CrashInDelete, CrashInSync, CrashInCleanup,
       CrashInLocalRetention, CrashInCleanupRunTree
  <2> QED
    BY <1>0, <1>1, <2>1 DEF Stopped, Goto
<1> QED
  BY <1>2, <1>3, <1>4, <1>5, <1>6, <1>8, <1>9, <1>10, <1>11 DEF RunStep

\* Invocations that do not overlap are alone.
Alone == \A p \in Active, q \in Active : p = q

\* A step keeps an invocation alone, and is one of the invocation under way.
LEMMA AloneStep ==
  ASSUME ~Overlap, TypeOK, Alone, NEW r \in Run, StartRun(r) \/ RunStep(r) \/ CrashStep(r)
  PROVE  Alone' /\ Active \subseteq {r}
<1>1. StepFrame(r)
  BY StepFrames
<1>2. Active' \subseteq Active \cup {r}
  BY <1>1 DEF StepFrame, Active
<1>3. Active = {} \/ r \in Active
  BY <1>1 DEF StepFrame, StartRun
<1> QED
  BY <1>2, <1>3 DEF Alone

\* When invocations do not overlap, at most one is under way.
LEMMA AloneInvariant ==
  ASSUME ~Overlap
  PROVE  Spec => []Alone
<1>1. Init => Alone
  BY DEF Init, Alone, Active, Ended
<1>2. TypeOK /\ Alone /\ [Next]_vars => Alone'
  <2> SUFFICES ASSUME TypeOK, Alone, [Next]_vars
               PROVE  Alone'
    OBVIOUS
  <2>1. CASE UNCHANGED vars \/ Tick
    BY <2>1 DEF vars, Tick, runVars, Alone, Active
  <2> QED
    BY <2>1, AloneStep DEF Next, Exhausted
<1> QED
  BY <1>1, <1>2, TypeCorrect, PTL DEF Spec

NothingOnRsync == ~UsesRsync => \A q \in Run : store["rsync"][q] = Gone

\* Without rsync there is nothing on the rsync backend.
LEMMA NothingOnRsyncInvariant == Spec => []NothingOnRsync
<1>1. Init => NothingOnRsync
  BY DEF Init, NothingOnRsync, Backend
<1>2. TypeOK /\ NothingOnRsync /\ [Next]_vars => NothingOnRsync'
  <2> SUFFICES ASSUME TypeOK, NothingOnRsync, [Next]_vars, ~UsesRsync, NEW q \in Run
               PROVE  store'["rsync"][q] = Gone
    BY DEF NothingOnRsync
  <2>1. store["rsync"][q] = Gone
    BY DEF NothingOnRsync
  <2>2. CASE UNCHANGED vars \/ Tick
    BY <2>1, <2>2 DEF vars, Tick
  <2>3. ASSUME NEW r \in Run, StartRun(r) \/ RunStep(r) \/ CrashStep(r)
        PROVE  store'["rsync"][q] = Gone
    <3>1. "rsync" \in Backend /\ "rsync" \notin Enabled
      BY DEF Backend, UsesRsync
    <3>2. Decays(store["rsync"][q], store'["rsync"][q])
      BY <2>3, <3>1, StoreSteps, StoreStepDirs
    <3>3. ~Gone.present
      BY DEF Gone
    <3> QED
      BY <2>1, <3>2, <3>3 DEF Decays
  <2> QED
    BY <2>2, <2>3 DEF Next, Exhausted
<1> QED
  BY <1>1, <1>2, TypeCorrect, PTL DEF Spec

\* A run that has got past its retention plan is the only one that may have left a
\* directory without a manifest on the rsync backend.
FreezeInv ==
  \A r \in Run :
    /\ pc[r] = "cleanup" => ~UsesRsync
    /\ pc[r] \in {"delete", "sync"} => Ambiguous(store["rsync"]) \subseteq {r}

\* The deletion of the remote runs leaves no directory without a manifest.
LEMMA DeletionIsClean ==
  ASSUME TypeOK, NEW r \in Run, DeleteRemoteRuns(r)
  PROVE  Ambiguous(store'["rsync"]) \subseteq Ambiguous(store["rsync"])
<1>0. "rsync" \in Backend /\ store["rsync"] \in [Run -> RunDir]
  BY DEF Backend, TypeOK
<1>1. CASE UNCHANGED store
  BY <1>1
<1>2. CASE ~UNCHANGED store
  <2> DEFINE dirs == Wreck(store["rsync"], DeletedByRsync({}), {}, {})
  <2>1. store' = [store EXCEPT !["rsync"] = dirs]
    BY <1>2 DEF DeleteRemoteRuns
  <2>2. store'["rsync"] = dirs
    BY <1>0, <2>1 DEF TypeOK
  <2>3. \A q \in DeletedByRsync({}) : dirs[q] = Gone
    BY DEF Wreck, DeletedByRsync
  <2>4. \A q \in Run \ DeletedByRsync({}) : dirs[q] = store["rsync"][q]
    BY <1>0, WreckFacts
  <2>5. ~Gone.present
    BY DEF Gone
  <2> HIDE DEF dirs
  <2> QED
    BY <2>2, <2>3, <2>4, <2>5 DEF Ambiguous, DeletedByRsync
<1> QED
  BY <1>1, <1>2

\* A step of an invocation that is alone keeps the invariant.
LEMMA FreezeStep ==
  ASSUME ~Overlap, TypeOK, Alone, NothingOnRsync, FreezeInv,
         NEW r \in Run, StartRun(r) \/ RunStep(r) \/ CrashStep(r)
  PROVE  FreezeInv'
<1>0. /\ StepFrame(r) /\ Paths(r) /\ Active \subseteq {r}
      /\ store \in [Backend -> [Run -> RunDir]] /\ "rsync" \in Backend
  BY StepFrames, StepPaths, AloneStep DEF TypeOK, Backend
<1> SUFFICES ASSUME NEW q \in Run
             PROVE  /\ pc'[q] = "cleanup" => ~UsesRsync
                    /\ pc'[q] \in {"delete", "sync"} =>
                         Ambiguous(store'["rsync"]) \subseteq {q}
  BY DEF FreezeInv
<1>1. CASE q # r
  <2>1. pc'[q] = pc[q] /\ q \notin Active
    BY <1>0, <1>1 DEF StepFrame
  <2> QED
    BY <2>1 DEF Active, Ended
<1>2. CASE q = r
  <2>1. pc'[r] = "cleanup" => ~UsesRsync
    BY <1>0 DEF Paths, Cleanup, FreezeInv
  <2>2. CASE PlanRemoteRetention(r)
    <3>1. Ambiguous(store'["rsync"]) = {}
      BY <2>2 DEF PlanRemoteRetention
    <3> QED
      BY <1>2, <2>1, <3>1
  <2>3. CASE DeleteRemoteRuns(r)
    <3>1. Ambiguous(store["rsync"]) \subseteq {r}
      BY <2>3 DEF DeleteRemoteRuns, FreezeInv
    <3> QED
      BY <1>2, <2>1, <2>3, <3>1, DeletionIsClean
  <2>4. CASE BackupTargets(r) /\ ~UsesRsync
    <3>1. store' = store /\ \A p \in Run : store["rsync"][p] = Gone
      BY <2>4 DEF BackupTargets, NothingOnRsync
    <3>2. Ambiguous(store["rsync"]) = {}
      BY <3>1 DEF Ambiguous, Gone
    <3> QED
      BY <1>2, <2>1, <3>1, <3>2
  <2>5. CASE Sync(r)
    <3>1. pc[r] = "sync" /\ Ambiguous(store["rsync"]) \subseteq {r}
      BY <2>5 DEF Sync, FreezeInv
    <3>2. PICK b, dir : store' = [store EXCEPT ![b][r] = dir]
      BY <2>5 DEF Sync
    <3>3. \A p \in Run \ {r} : store'["rsync"][p] = store["rsync"][p]
      BY <1>0, <3>2
    <3>4. Ambiguous(store'["rsync"]) \subseteq {r}
      BY <3>1, <3>3 DEF Ambiguous
    <3> QED
      BY <1>2, <2>1, <3>4
  <2> QED
    BY <1>0, <1>2, <2>1, <2>2, <2>3, <2>4, <2>5 DEF Paths
<1> QED
  BY <1>1, <1>2

\* Once an invocation has left a directory without a manifest on the rsync backend,
\* no other one publishes to, or deletes from, any backend again, as long as
\* invocations do not overlap (plan_remote_retention).
THEOREM AmbiguousRsyncIsFrozen ==
  ASSUME ~Overlap
  PROVE  Spec => AmbiguousRsyncFreezesPublication
<1>1. Init => FreezeInv
  BY DEF Init, FreezeInv
<1>2. TypeOK /\ Alone /\ NothingOnRsync /\ FreezeInv /\ [Next]_vars => FreezeInv'
  <2> SUFFICES ASSUME TypeOK, Alone, NothingOnRsync, FreezeInv, [Next]_vars
               PROVE  FreezeInv'
    OBVIOUS
  <2>1. CASE UNCHANGED vars \/ Tick
    BY <2>1 DEF vars, Tick, runVars, FreezeInv
  <2> QED
    BY <2>1, FreezeStep DEF Next, Exhausted
<1>3. TypeOK /\ NothingOnRsync /\ FreezeInv /\ [Next]_vars =>
        [(\E q \in Ambiguous(store["rsync"]) : pc[q] \in Ended) => UNCHANGED store]_vars
  <2> SUFFICES ASSUME TypeOK, NothingOnRsync, FreezeInv, Next,
                      NEW q \in Ambiguous(store["rsync"]), pc[q] \in Ended
               PROVE  UNCHANGED store
    BY Zenon
  <2>1. CASE Tick \/ Exhausted
    BY <2>1 DEF Tick, Exhausted, vars
  <2>2. ASSUME NEW r \in Run, StartRun(r) \/ RunStep(r) \/ CrashStep(r)
        PROVE  UNCHANGED store
    <3>1. StoreStep(r)
      BY <2>2, StoreSteps
    <3>2. UsesRsync
      BY DEF NothingOnRsync, Ambiguous, Gone
    <3>3. pc[r] \notin {"delete", "sync", "cleanup"}
      BY <3>2 DEF FreezeInv, Ended
    <3> QED
      BY <3>1, <3>3 DEF StoreStep
  <2> QED
    BY <2>1, <2>2 DEF Next
<1> QED
  BY <1>1, <1>2, <1>3, TypeCorrect, AloneInvariant, NothingOnRsyncInvariant, PTL
     DEF Spec, AmbiguousRsyncFreezesPublication

\* What cleanup leaves on the remote backends: no directory without a manifest of a
\* run that has ended is touched, except by the deletion on the rsync backend.
LEMMA AmbiguousStay ==
  ASSUME TypeOK, NEW r \in Run, StartRun(r) \/ RunStep(r) \/ CrashStep(r),
         NEW b \in Backend \ {"local"}, NEW q \in Ambiguous(store[b]), pc[q] \in Ended,
         b = "rsync" => pc[r] # "delete"
  PROVE  store'[b][q] = store[b][q]
<1>0. store \in [Backend -> [Run -> RunDir]] /\ q \in Run /\ StoreStep(r)
  BY StoreSteps DEF TypeOK, Ambiguous
<1>1. CASE UNCHANGED store
  BY <1>1
<1>2. CASE pc[r] = "sync" /\ Transfers(r)
  <2>1. PICK bb, copy : store' = [store EXCEPT ![bb][r] = copy]
    BY <1>2 DEF Transfers
  <2>2. q # r
    BY <1>2 DEF Ended
  <2> QED
    BY <1>0, <2>1, <2>2
<1>3. CASE pc[r] = "delete" /\ Retires("rsync", FALSE)
  <2>1. PICK dirs : store' = [store EXCEPT !["rsync"] = dirs]
    BY <1>3 DEF Retires
  <2>2. b # "rsync"
    BY <1>3
  <2> QED
    BY <1>0, <2>1, <2>2
<1>4. CASE pc[r] = "cleanup" /\ \E bb \in Backend : Retires(bb, TRUE)
  <2>1. PICK bb \in Backend, dirs \in [Run -> RunDir] :
          /\ store' = [store EXCEPT ![bb] = dirs]
          /\ bb # "local" => \A p \in Ambiguous(store[bb]) : dirs[p] = store[bb][p]
    BY <1>4 DEF Retires
  <2>2. CASE b = bb
    BY <1>0, <2>1, <2>2
  <2>3. CASE b # bb
    BY <1>0, <2>1, <2>3
  <2> QED
    BY <2>2, <2>3
<1> QED
  BY <1>0, <1>1, <1>2, <1>3, <1>4 DEF StoreStep

\* A directory without a readable manifest that an earlier run left on a remote
\* backend is never deleted nor changed: the inventories report it, and the plans of
\* retention leave it out, as long as invocations do not overlap on an rsync backend
\* (fetch_remote_manifests, cleanup).
THEOREM AmbiguousRunsStay ==
  ASSUME ~Overlap \/ ~UsesRsync
  PROVE  Spec => AmbiguousRunsKept
<1> DEFINE Stays(b) == \A q \in Ambiguous(store[b]) :
                         pc[q] \in Ended => store'[b][q] = store[b][q]
<1>1. TypeOK /\ [Next]_vars => [Stays("ftp")]_vars
  <2> SUFFICES ASSUME TypeOK, Next,
                      NEW q \in Ambiguous(store["ftp"]), pc[q] \in Ended
               PROVE  store'["ftp"][q] = store["ftp"][q]
    BY Zenon
  <2>1. CASE Tick \/ Exhausted
    BY <2>1 DEF Tick, Exhausted, vars
  <2>2. "ftp" \in Backend \ {"local"}
    BY DEF Backend
  <2> QED
    BY <2>1, <2>2, AmbiguousStay DEF Next
<1>2. CASE ~Overlap
  <2>1. Spec => [][(\E q \in Ambiguous(store["rsync"]) : pc[q] \in Ended) => UNCHANGED store]_vars
    BY <1>2, AmbiguousRsyncIsFrozen DEF AmbiguousRsyncFreezesPublication
  <2>2. [(\E q \in Ambiguous(store["rsync"]) : pc[q] \in Ended) => UNCHANGED store]_vars
          => [Stays("rsync")]_vars
    OBVIOUS
  <2>3. [Stays("ftp")]_vars /\ [Stays("rsync")]_vars =>
          [\A b \in {"rsync", "ftp"} : Stays(b)]_vars
    OBVIOUS
  <2> QED
    BY <1>1, <2>1, <2>2, <2>3, TypeCorrect, PTL DEF Spec, AmbiguousRunsKept
<1>3. CASE ~UsesRsync
  <2>1. NothingOnRsync => [Stays("rsync")]_vars
    BY <1>3 DEF NothingOnRsync, Ambiguous, Gone
  <2>2. [Stays("ftp")]_vars /\ [Stays("rsync")]_vars =>
          [\A b \in {"rsync", "ftp"} : Stays(b)]_vars
    OBVIOUS
  <2> QED
    BY <1>1, <2>1, <2>2, TypeCorrect, NothingOnRsyncInvariant, PTL DEF Spec, AmbiguousRunsKept
<1> QED
  BY <1>2, <1>3

-------------------------------------------------------------------------------
(***************************************************************************)
(* The staging area.                                                       *)
(***************************************************************************)

\* What the last steps of run_once rely on, in every configuration.
Concluded ==
  \A r \in Run :
    /\ pc[r] = "cleanup_run_tree" => status[r] = "success"
    /\ pc[r] = "local_retention" => UsesLocalStorage

\* What the last steps rely on holds in every configuration.
LEMMA ConcludedInvariant == Spec => []Concluded
<1>1. Init => Concluded
  BY DEF Init, Concluded
<1>2. TypeOK /\ Concluded /\ [Next]_vars => Concluded'
  <2> SUFFICES ASSUME TypeOK, Concluded, [Next]_vars
               PROVE  Concluded'
    OBVIOUS
  <2>1. CASE UNCHANGED vars \/ Tick
    BY <2>1 DEF vars, Tick, runVars, Concluded
  <2>2. ASSUME NEW r \in Run, StartRun(r) \/ RunStep(r) \/ CrashStep(r)
        PROVE  Concluded'
    <3>1. StepFrame(r) /\ Paths(r)
      BY <2>2, StepFrames, StepPaths
    <3>2. /\ pc'[r] = "cleanup_run_tree" => status'[r] = "success"
          /\ pc'[r] = "local_retention" => UsesLocalStorage
      BY <3>1 DEF Paths
    <3>3. \A q \in Run \ {r} : pc'[q] = pc[q] /\ status'[q] = status[q]
      BY <3>1 DEF StepFrame
    <3> QED
      BY <3>2, <3>3 DEF Concluded
  <2> QED
    BY <2>1, <2>2 DEF Next, Exhausted
<1> QED
  BY <1>1, <1>2, TypeCorrect, PTL DEF Spec

\* What an invocation that is alone has established about its run: the staged tree
\* is complete from the dump to the end, and what sync reported to be published is.
HeldAt(r) ==
  /\ pc[r] \in Working => Intact(staged[r])
  /\ pc[r] = "sync" =>
       \A b \in succeeded[r] :
         /\ Intact(store[b][r])
         /\ \E i \in 1..Len(Providers) : i < next[r] /\ b = Providers[i]
  /\ pc[r] \in Published => Everywhere(r)
  /\ pc[r] \notin {"sync", "cleanup"} => succeeded[r] = {}
Held == \A r \in Run : HeldAt(r)

\* Retention deletes nothing of a run that is under way.
LEMMA NotDeletable ==
  ASSUME TypeOK, Dated, NEW r \in Active
  PROVE  /\ ~Deletable(staged[r], started[r])
         /\ \A b \in Backend : ~Deletable(store[b][r], started[r])
<1>0. r \in Run /\ Recent(r) /\ started[r] \in Int /\ now \in Int
  BY DEF Active, Dated, DatesInv, TypeOK, Day
<1>1. ASSUME NEW dir \in RunDir, dir.manifest # NoManifest => started[r] <= dir.manifest.finished
      PROVE  ~Deletable(dir, started[r])
  <2>1. dir.manifest.finished \in Int
    BY DEF RunDir, Manifest, Day
  <2> QED
    BY <1>0, <1>1, <2>1, RetentionDaysAssumption
       DEF Deletable, RunTimestamp, Recent, BeforeCutoff
<1>2. staged[r] \in RunDir /\ \A b \in Backend : store[b][r] \in RunDir
  BY <1>0 DEF TypeOK
<1> QED
  BY <1>0, <1>1, <1>2 DEF Dated, DatesInv

\* A cleanup leaves the run it belongs to alone.
LEMMA CleanupSparesItsRun ==
  ASSUME TypeOK, Dated, NEW r \in Run, Cleanup(r)
  PROVE  Everywhere(r)' = Everywhere(r)
<1>1. r \in Active
  BY DEF Cleanup, Active, Ended
<1>2. PICK dirs \in [Run -> RunDir], victims \in SUBSET Run :
        LET b == Providers[next[r]] IN
        /\ b \in Backend
        /\ store' = [store EXCEPT ![b] = dirs]
        /\ \A q \in victims : Deletable(store[b][q], started[q])
        /\ \A q \in Run \ victims : dirs[q] = store[b][q]
  BY CleanupFacts
<1>3. r \notin victims
  BY <1>1, <1>2, NotDeletable
<1>4. \A b \in Backend : store'[b][r] = store[b][r]
  BY <1>2, <1>3 DEF TypeOK
<1> QED
  BY <1>4, EnabledBackend DEF Everywhere

\* A transfer of an invocation that is alone adds to what is published.
LEMMA SyncHolds ==
  ASSUME TypeOK, Held, NEW r \in Run, Active \subseteq {r}, Sync(r)
  PROVE  \A b \in succeeded'[r] :
           /\ Intact(store'[b][r])
           /\ \E i \in 1..Len(Providers) : i < next'[r] /\ b = Providers[i]
<1> DEFINE c == Providers[next[r]]
<1>0. /\ store \in [Backend -> [Run -> RunDir]] /\ succeeded[r] \subseteq Backend
      /\ Len(Providers) \in Nat /\ next[r] \in 1..Len(Providers) /\ c \in Backend
      /\ next \in [Run -> 1..(Len(Providers) + 1)]
      /\ succeeded \in [Run -> SUBSET Backend]
  BY ProvidersType, ProvidersAssumption DEF TypeOK, Sync, ProvidersLeft
<1>1. next'[r] = next[r] + 1
  BY <1>0 DEF Sync, ProviderReturned
<1>2. /\ Intact(staged[r])
      /\ \A b \in succeeded[r] :
           /\ Intact(store[b][r])
           /\ \E i \in 1..Len(Providers) : i < next[r] /\ b = Providers[i]
  BY DEF Sync, Held, HeldAt, Working
<1>3. c \notin succeeded[r]
  BY <1>0, <1>2, ProvidersAssumption
<1>4. Copies(c, r) = {staged[r]}
  BY DEF Copies, WipedWhileCopied
<1>5. PICK dir \in Copies(c, r) \cup FailedCopies(c, r), ok \in BOOLEAN :
        /\ store' = [store EXCEPT ![c][r] = dir]
        /\ ProviderReturned(r, ok)
        /\ ok => dir = staged[r]
  BY <1>4 DEF Sync
<1> SUFFICES ASSUME NEW b \in succeeded'[r]
             PROVE  /\ Intact(store'[b][r])
                    /\ \E i \in 1..Len(Providers) : i < next'[r] /\ b = Providers[i]
  OBVIOUS
<1>6. b \in succeeded[r] \/ (ok /\ b = c)
  BY <1>0, <1>5 DEF ProviderReturned
<1>7. CASE b \in succeeded[r]
  <2>1. b # c /\ b \in Backend
    BY <1>0, <1>3, <1>7
  <2>2. store'[b][r] = store[b][r]
    BY <1>0, <1>5, <2>1
  <2> QED
    BY <1>0, <1>1, <1>2, <1>7, <2>2
<1>8. CASE ok /\ b = c
  <2>1. store'[b][r] = staged[r]
    BY <1>0, <1>5, <1>8
  <2>2. next[r] < next'[r] /\ b = Providers[next[r]]
    BY <1>0, <1>1, <1>8
  <2> QED
    BY <1>0, <1>2, <2>1, <2>2
<1> QED
  BY <1>6, <1>7, <1>8

\* The calls of composite methods start from the beginning.
LEMMA SucceededStep ==
  ASSUME TypeOK, NEW r \in Run, StartRun(r) \/ RunStep(r) \/ CrashStep(r)
  PROVE  \/ Sync(r) \/ Cleanup(r)
         \/ succeeded'[r] = {}
         \/ pc[r] \notin {"sync", "cleanup"} /\ succeeded' = succeeded
<1>1. CASE SyncFailed(r) \/ SyncSucceeded(r) \/ CleanupFinished(r) \/ CrashStep(r)
  <2>1. ResetProviders(r)
    BY <1>1 DEF SyncFailed, SyncSucceeded, CleanupFinished, CrashStep, Crash, CrashInDelete,
       CrashInSync, CrashInCleanup, CrashInLocalRetention, CrashInCleanupRunTree, Stopped
  <2> QED
    BY <2>1 DEF ResetProviders, TypeOK
<1>2. CASE \/ StartRun(r) \/ NoTargets(r) \/ DiscoverAndResolve(r) \/ NothingBackedUp(r)
           \/ BackupTargets(r) \/ PlanFails(r) \/ PlanRemoteRetention(r)
           \/ DeleteRemoteRuns(r) \/ DeleteFails(r) \/ LocalRetention(r) \/ CleanupRunTree(r)
  BY <1>2 DEF StartRun, NoTargets, DiscoverAndResolve, NothingBackedUp, BackupTargets,
     PlanFails, PlanRemoteRetention, DeleteRemoteRuns, DeleteFails, LocalRetention,
     CleanupRunTree
<1> QED
  BY <1>1, <1>2 DEF RunStep

\* A step of an invocation that is alone keeps what it has established.
LEMMA HeldStep ==
  ASSUME ~Overlap, TypeOK, Alone, Dated, Held,
         NEW r \in Run, StartRun(r) \/ RunStep(r) \/ CrashStep(r)
  PROVE  Held'
<1>0. /\ StepFrame(r) /\ Paths(r) /\ StagingStep(r) /\ Active \subseteq {r}
      /\ HeldAt(r) /\ staged \in [Run -> RunDir]
  BY StepFrames, StepPaths, StagingSteps, AloneStep DEF Held, TypeOK
<1> SUFFICES ASSUME NEW q \in Run
             PROVE  HeldAt(q)'
  BY DEF Held
<1>1. CASE q # r
  <2>1. pc'[q] = pc[q] /\ succeeded'[q] = succeeded[q] /\ q \notin Active
    BY <1>0, <1>1 DEF StepFrame
  <2>2. pc[q] \in Ended /\ succeeded[q] = {}
    BY <2>1 DEF Active, Ended, Held, HeldAt
  <2> QED
    BY <2>1, <2>2 DEF HeldAt, Ended, Working, Published
<1>2. pc'[r] \in Working => Intact(staged'[r])
  <2> SUFFICES ASSUME pc'[r] \in Working
               PROVE  Intact(staged'[r])
    OBVIOUS
  <2>1. CASE BackupTargets(r)
    <3> DEFINE dumped == [staged EXCEPT ![r] = [staged[r] EXCEPT !.data = TRUE]]
    <3>1. dumped \in [Run -> RunDir] /\ dumped[r].data
      <4>1. [staged[r] EXCEPT !.data = TRUE] \in RunDir /\ [staged[r] EXCEPT !.data = TRUE].data
        BY <1>0 DEF RunDir
      <4> QED
        BY <1>0, <4>1
    <3>2. \E st \in RunStatus : \E step : FinishRun(r, dumped, st, step)
      BY <2>1 DEF BackupTargets, RunStatus, RUN_TERMINAL_STATUSES
    <3> HIDE DEF dumped
    <3> QED
      BY <3>1, <3>2, FinishOwn
  <2>2. CASE ~BackupTargets(r)
    <3>1. pc[r] \in Working \ {"cleanup_run_tree"}
      BY <1>0, <2>2 DEF Paths, Working, PlanRemoteRetention, DeleteRemoteRuns, Sync, Cleanup,
         SyncSucceeded, CleanupFinished, LocalRetention
    <3>2. r \in Active /\ Intact(staged[r])
      BY <1>0, <3>1 DEF Working, Active, Ended, HeldAt
    <3>3. ~Loses(staged[r], staged'[r])
      BY <1>0, <3>1, <3>2, NotDeletable DEF StagingStep
    <3> QED
      BY <3>2, <3>3 DEF Loses
  <2> QED
    BY <2>1, <2>2
<1>3. pc'[r] \in Published => Everywhere(r)'
  <2>1. CASE Cleanup(r)
    BY <1>0, <2>1, CleanupSparesItsRun DEF HeldAt, Cleanup, Published
  <2>2. CASE SyncSucceeded(r)
    <3>1. succeeded[r] = Enabled /\ store' = store /\ pc[r] = "sync"
      BY <2>2 DEF SyncSucceeded, AllSucceeded
    <3> QED
      BY <1>0, <3>1 DEF HeldAt, Everywhere
  <2>3. CASE CleanupFinished(r) \/ LocalRetention(r)
    <3>1. store' = store /\ pc[r] \in Published
      BY <2>3 DEF CleanupFinished, LocalRetention, Published
    <3> QED
      BY <1>0, <3>1 DEF HeldAt, Everywhere
  <2> QED
    BY <1>0, <2>1, <2>2, <2>3 DEF Paths, Published
<1>4. pc'[r] = "sync" =>
        \A b \in succeeded'[r] :
          /\ Intact(store'[b][r])
          /\ \E i \in 1..Len(Providers) : i < next'[r] /\ b = Providers[i]
  <2>1. CASE Sync(r)
    BY <1>0, <2>1, SyncHolds
  <2>2. CASE DeleteRemoteRuns(r) \/ BackupTargets(r)
    <3>1. pc[r] \notin {"sync", "cleanup"} /\ succeeded' = succeeded
      BY <2>2 DEF DeleteRemoteRuns, BackupTargets
    <3> QED
      BY <1>0, <3>1 DEF HeldAt
  <2> QED
    BY <1>0, <2>1, <2>2 DEF Paths
<1>5. pc'[r] \notin {"sync", "cleanup"} => succeeded'[r] = {}
  <2>1. CASE Sync(r) \/ Cleanup(r)
    BY <2>1 DEF Sync, Cleanup
  <2> QED
    BY <1>0, <2>1, SucceededStep DEF HeldAt
<1> QED
  BY <1>1, <1>2, <1>3, <1>4, <1>5 DEF HeldAt

\* What an invocation that is alone has established holds throughout.
LEMMA HeldInvariant ==
  ASSUME ~Overlap
  PROVE  Spec => []Held
<1>1. Init => Held
  BY DEF Init, Held, HeldAt, Working, Published
<1>2. TypeOK /\ Alone /\ Dated /\ Held /\ [Next]_vars => Held'
  <2> SUFFICES ASSUME TypeOK, Alone, Dated, Held, [Next]_vars
               PROVE  Held'
    OBVIOUS
  <2>1. CASE UNCHANGED vars \/ Tick
    BY <2>1 DEF vars, Tick, runVars, Held, HeldAt, Everywhere
  <2> QED
    BY <2>1, HeldStep DEF Next, Exhausted
<1> QED
  BY <1>1, <1>2, TypeCorrect, AloneInvariant, DatedInvariant, PTL DEF Spec

\* A complete staged run is only removed or damaged when every configured backend
\* holds it, or as an expired run of a mounted-storage configuration, unless
\* invocations overlap with the rsync backend or on a mounted directory
\* (cleanup_run_tree, FileSystemRetentionManager.cleanup).
THEOREM StagingOutlives ==
  ASSUME ~Overlap \/ (~UsesRsync /\ ~UsesLocalStorage)
  PROVE  Spec => StagingOutlivesPublication
<1> DEFINE AtTheEnd == \A r \in Run : pc[r] = "cleanup_run_tree" => Everywhere(r)
           Outlives == \A r \in Run : Loses(staged[r], staged'[r]) =>
                         \/ status[r] = "success" /\ Everywhere(r)
                         \/ UsesLocalStorage /\ BeforeCutoff(staged[r].manifest.finished, now)
<1>1. TypeOK /\ Concluded /\ AtTheEnd /\ [Next]_vars => [Outlives]_vars
  <2> SUFFICES ASSUME TypeOK, Concluded, AtTheEnd, Next,
                      NEW q \in Run, Loses(staged[q], staged'[q])
               PROVE  \/ status[q] = "success" /\ Everywhere(q)
                      \/ UsesLocalStorage /\ BeforeCutoff(staged[q].manifest.finished, now)
    OBVIOUS
  <2>1. ASSUME UNCHANGED staged
        PROVE  FALSE
    BY <2>1 DEF Loses
  <2>2. PICK r \in Run : StartRun(r) \/ RunStep(r) \/ CrashStep(r)
    BY <2>1 DEF Next, Tick, Exhausted, vars
  <2>3. \/ pc[r] = "local_retention" /\ Deletable(staged[q], started[q])
        \/ pc[r] = "cleanup_run_tree" /\ q = r
    BY <2>2, StagingSteps DEF StagingStep
  <2>4. CASE pc[r] = "local_retention" /\ Deletable(staged[q], started[q])
    BY <2>4 DEF Concluded, Loses, Intact, Deletable, RunTimestamp
  <2>5. CASE pc[r] = "cleanup_run_tree" /\ q = r
    BY <2>5 DEF Concluded
  <2> QED
    BY <2>3, <2>4, <2>5
<1>2. CASE ~Overlap
  <2>1. Held => AtTheEnd
    BY DEF Held, HeldAt, Published
  <2>2. Spec => []Held
    BY <1>2, HeldInvariant
  <2> QED
    BY <1>1, <2>1, <2>2, TypeCorrect, ConcludedInvariant, PTL
       DEF Spec, StagingOutlivesPublication
<1>3. CASE ~UsesRsync /\ ~UsesLocalStorage
  <2>1. PublicationInv => AtTheEnd
    BY DEF PublicationInv, RunInv, ProgressInv, Published
  <2>2. Guarded
    BY <1>3 DEF Guarded
  <2>3. Spec => []PublicationInv
    BY <2>2, PublicationInvariant
  <2> QED
    BY <1>1, <2>1, <2>3, TypeCorrect, ConcludedInvariant, PTL
       DEF Spec, StagingOutlivesPublication
<1> QED
  BY <1>2, <1>3

===============================================================================

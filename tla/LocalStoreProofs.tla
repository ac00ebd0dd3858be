--------------------------- MODULE LocalStoreProofs ---------------------------
(***************************************************************************)
(* Successive invocations on a mounted directory keep the invariant of     *)
(* LocalStore, and with it implement RunStore: for any number of runs, of  *)
(* files and of days.                                                      *)
(***************************************************************************)
EXTENDS LocalStore, TLAPS

-------------------------------------------------------------------------------
(***************************************************************************)
(* Types.                                                                  *)
(***************************************************************************)

LEMMA OldestType ==
  ASSUME NEW runs \in SUBSET Run, NEW v \in runs, v = Oldest(runs)
  PROVE  v \in Run
  OBVIOUS

\* The newest of a set of runs that has a newest element r.
LEMMA NewestIs ==
  ASSUME NEW runs \in SUBSET Run, NEW r \in runs, \A q \in runs : q <= r
  PROVE  Newest(runs) = r
<1>1. \A p \in runs : (\A q \in runs : q <= p) => p = r
  <2> SUFFICES ASSUME NEW p \in runs, \A q \in runs : q <= p
               PROVE  p = r
    OBVIOUS
  <2>1. p \in Int /\ r \in Int /\ p <= r /\ r <= p
    BY NumRunsAssumption DEF Run
  <2> QED
    BY <2>1
<1> QED
  BY <1>1 DEF Newest

\* The directories are values of the type.
LEMMA TreesType ==
  /\ NoTree \in Tree
  /\ Removed \in Tree
  /\ NotWiping \in Wiping
  /\ \A tree \in Tree, lost \in SUBSET Files : Without(tree, lost) \in Tree
  /\ \A tree \in Tree, lost \in SUBSET Files : There(Without(tree, lost)) <=> There(tree)
BY DEF NoTree, Removed, Tree, NotWiping, Wiping, Without, There

LEMMA FieldsType ==
  /\ \A tree \in Tree : tree.files \subseteq Files
  /\ \A w \in Wiping : /\ w.listed \subseteq Run /\ w.names \subseteq Files
                       /\ w.inside \in Run \cup {None}
BY DEF Tree, Wiping

LEMMA WipingType ==
  ASSUME NEW w \in Wiping, NEW f
  PROVE  /\ [w EXCEPT !.names = @ \ {f}] \in Wiping
         /\ [w EXCEPT !.inside = None] \in Wiping
BY DEF Wiping

\* With the invariant, the newest retained run is the one just published.
LEMMA RetainTarget ==
  ASSUME TypeOK, SafeInv, NEW r \in Run, pc[r] = "remove"
  PROVE  Newest({q \in retained[r] : There(final[q])}) = r
<1> DEFINE runs == {q \in retained[r] : There(final[q])}
<1>1. runs \in SUBSET Run
  BY DEF TypeOK
<1>2. r \in runs
  BY DEF SafeInv, CleanupInv, PublishedInv, Cleaning, Whole
<1>3. ASSUME NEW q \in runs
      PROVE  q <= r
  <2>0. q \in Run /\ There(final[q])
    BY <1>3, <1>1
  <2>1. q \in Run /\ pc[q] # "idle"
    <3>1. pc[q] = "idle" => final[q] = NoTree
      BY <2>0 DEF SafeInv, CopyInv
    <3> QED
      BY <2>0, <3>1 DEF NoTree, There
  <2>2. ~(q > r)
    BY <2>1 DEF SafeInv, ActiveInv, Active
  <2> QED
    BY <2>1, <2>2, NumRunsAssumption DEF Run
<1> QED
  BY <1>1, <1>2, <1>3, NewestIs

\* A step keeps the types (all handlers of sync and cleanup).
LEMMA StepType ==
  ASSUME TypeOK, SafeInv, [Next]_vars
  PROVE  TypeOK'
<1>1. CASE UNCHANGED vars
  BY <1>1 DEF vars, tasks, TypeOK
<1>2. CASE Tick
  <2>1. now + 1 \in Day
    BY <1>2, MaxDayAssumption DEF Tick, TypeOK, Day
  <2> QED
    BY <1>2, <2>1 DEF Tick, tasks, TypeOK
<1>3. ASSUME NEW r \in Run, Start(r)
      PROVE  TypeOK'
  BY <1>3 DEF Start, Goto, Step, TypeOK
<1>4. ASSUME NEW r \in Run, BeginSync(r)
      PROVE  TypeOK'
  <2>1. [state |-> "there", files |-> {}] \in Tree
    BY DEF Tree
  <2> QED
    BY <1>4, <2>1 DEF BeginSync, Goto, Step, TypeOK
<1>5. ASSUME NEW r \in Run, NEW f \in Files, CopyFile(r, f)
      PROVE  TypeOK'
  <2>1. [state |-> "there", files |-> tmp[r].files \cup {f}] \in Tree
    BY DEF TypeOK, Tree
  <2> QED
    BY <1>5, <2>1 DEF CopyFile, TypeOK
<1>6. ASSUME NEW r \in Run, SyncFails(r)
      PROVE  TypeOK'
  BY <1>6, TreesType DEF SyncFails, Goto, Step, tasks, TypeOK
<1>7. ASSUME NEW r \in Run, Move(r)
      PROVE  TypeOK'
  BY <1>7, TreesType DEF Move, Goto, Step, TypeOK
<1>8. ASSUME NEW r \in Run, UnlinkLatest(r)
      PROVE  TypeOK'
  BY <1>8 DEF UnlinkLatest, Goto, Step, tasks, TypeOK
<1>9. ASSUME NEW r \in Run, SetLatest(r)
      PROVE  TypeOK'
  BY <1>9 DEF SetLatest, Goto, Step, TypeOK
<1>10. ASSUME NEW r \in Run, NoCleanup(r) \/ WipeEnds(r) \/ Crash(r)
       PROVE  TypeOK'
  BY <1>10 DEF NoCleanup, WipeEnds, Crash, Goto, Step, tasks, TypeOK
<1>11. ASSUME NEW r \in Run, PlanCleanup(r)
       PROVE  TypeOK'
  BY <1>11 DEF PlanCleanup, ExpiredRunDirs, Goto, Step, TypeOK
<1>12. ASSUME NEW r \in Run, ListTemporary(r)
       PROVE  TypeOK'
  <2>1. [NotWiping EXCEPT !.listed = {q \in Run : There(tmp[q])}] \in Wiping
    BY DEF NotWiping, Wiping
  <2> QED
    BY <1>12, <2>1 DEF ListTemporary, Goto, Step, TypeOK
<1>13. ASSUME NEW r \in Run, WipeEnter(r)
       PROVE  TypeOK'
  <2>1. PICK q \in wiping[r].listed :
          wiping' = [wiping EXCEPT ![r] =
            [listed |-> @.listed \ {q},
             inside |-> IF There(tmp[q]) THEN q ELSE None,
             names |-> IF There(tmp[q]) THEN tmp[q].files ELSE {}]]
    BY <1>13 DEF WipeEnter
  <2>2. [listed |-> wiping[r].listed \ {q},
         inside |-> IF There(tmp[q]) THEN q ELSE None,
         names |-> IF There(tmp[q]) THEN tmp[q].files ELSE {}] \in Wiping
    <3>1. q \in Run /\ wiping[r].listed \subseteq Run
      BY DEF TypeOK, Wiping
    <3>2. tmp[q].files \subseteq Files
      BY <3>1 DEF TypeOK, Tree
    <3> QED
      BY <3>1, <3>2 DEF Wiping
  <2>3. wiping' \in [Run -> Wiping]
    BY <2>1, <2>2 DEF TypeOK
  <2> QED
    BY <1>13, <2>3 DEF WipeEnter, TypeOK
<1>14. ASSUME NEW r \in Run, WipeUnlink(r)
       PROVE  TypeOK'
  <2> DEFINE q == wiping[r].inside
  <2>0. PICK f \in wiping[r].names : \E lost \in SUBSET {f} :
          /\ wiping' = [wiping EXCEPT ![r].names = @ \ {f}]
          /\ tmp' = [tmp EXCEPT ![q] = IF There(@) THEN Without(@, lost) ELSE @]
          /\ final' = [final EXCEPT ![q] = IF There(tmp[q]) THEN @ ELSE Without(@, lost)]
    BY <1>14 DEF WipeUnlink
  <2>1. PICK lost \in SUBSET {f} :
          /\ wiping' = [wiping EXCEPT ![r].names = @ \ {f}]
          /\ tmp' = [tmp EXCEPT ![q] = IF There(@) THEN Without(@, lost) ELSE @]
          /\ final' = [final EXCEPT ![q] = IF There(tmp[q]) THEN @ ELSE Without(@, lost)]
    BY <2>0
  <2>a. wiping[r] \in Wiping
    BY DEF TypeOK
  <2>2. [wiping[r] EXCEPT !.names = @ \ {f}] \in Wiping
    BY <2>a, WipingType
  <2>3. q \in Run /\ lost \in SUBSET Files
    BY <1>14, <2>a, FieldsType DEF WipeUnlink
  <2> HIDE DEF q
  <2>4. wiping' \in [Run -> Wiping]
    BY <2>1, <2>2 DEF TypeOK
  <2>5. tmp[q] \in Tree /\ final[q] \in Tree
    BY <2>3 DEF TypeOK
  <2>6. Without(tmp[q], lost) \in Tree /\ Without(final[q], lost) \in Tree
    BY <2>3, <2>5, TreesType
  <2>7. tmp' \in [Run -> Tree]
    BY <2>1, <2>5, <2>6 DEF TypeOK
  <2>8. final' \in [Run -> Tree]
    BY <2>1, <2>5, <2>6 DEF TypeOK
  <2> QED
    BY <1>14, <2>4, <2>7, <2>8 DEF WipeUnlink, TypeOK
<1>15. ASSUME NEW r \in Run, WipeLeave(r)
       PROVE  TypeOK'
  <2>1. [wiping[r] EXCEPT !.inside = None] \in Wiping
    BY WipingType DEF TypeOK
  <2> QED
    BY <1>15, <2>1, TreesType DEF WipeLeave, TypeOK
<1>16. ASSUME NEW r \in Run, RemoveFile(r)
       PROVE  TypeOK'
  <2>1. PICK v \in Run : \E f \in final[v].files : final' = [final EXCEPT ![v] = Without(@, {f})]
    BY <1>16 DEF RemoveFile
  <2>2. \A f \in final[v].files : Without(final[v], {f}) \in Tree
    <3>1. final[v] \in Tree
      BY DEF TypeOK
    <3> QED
      BY <3>1, FieldsType, TreesType
  <2>3. final' \in [Run -> Tree]
    BY <2>1, <2>2 DEF TypeOK
  <2> QED
    BY <1>16, <2>3 DEF RemoveFile, tasks, TypeOK
<1>17. ASSUME NEW r \in Run, RemoveDir(r)
       PROVE  TypeOK'
  BY <1>17, TreesType DEF RemoveDir, TypeOK
<1>18. ASSUME NEW r \in Run, RemoveFails(r)
       PROVE  TypeOK'
  BY <1>18 DEF RemoveFails, TypeOK
<1>19. ASSUME NEW r \in Run, Retain(r)
       PROVE  TypeOK'
  BY <1>19, RetainTarget DEF Retain, Goto, Step, TypeOK
<1> QED
  BY <1>1, <1>2, <1>3, <1>4, <1>5, <1>6, <1>7, <1>8, <1>9, <1>10, <1>11, <1>12, <1>13,
     <1>14, <1>15, <1>16, <1>17, <1>18, <1>19
     DEF Next, Sync, Cleanup

-------------------------------------------------------------------------------
(***************************************************************************)
(* The invariant.                                                          *)
(***************************************************************************)

RunInv(q) == ActiveInv(q) /\ CopyInv(q) /\ PublishedInv(q) /\ CleanupInv(q)

\* At most one invocation is under way.
LEMMA OneActive ==
  ASSUME TypeOK, SafeInv, NEW r \in Run, r \in Active, NEW q \in Run, q # r
  PROVE  pc[q] \in {"idle", "done", "crashed"}
<1>1. r \in Int /\ q \in Int
  BY NumRunsAssumption DEF Run
<1>2. q > r => pc[q] = "idle"
  BY DEF SafeInv, ActiveInv
<1>3. r > q /\ q \in Active => pc[r] = "idle"
  BY DEF SafeInv, ActiveInv
<1>4. pc[r] # "idle"
  BY DEF Active
<1> QED
  BY <1>1, <1>2, <1>3, <1>4 DEF Active

\* What an invocation does keeps the invariant of the other runs, if it takes
\* nothing from them but files of expired runs.
LEMMA OtherRun ==
  ASSUME TypeOK, SafeInv, NEW q \in Run,
         pc[q] \in {"idle", "done", "crashed"}, pc'[q] = pc[q],
         now' = now, copied'[q] = copied[q], finished'[q] = finished[q],
         final'[q] = final[q] \/ (Expired(q) /\ pc[q] # "idle")
  PROVE  RunInv(q)'
<1>1. RunInv(q)
  BY DEF SafeInv, RunInv
<1>2. q \notin Active'
  BY DEF Active
<1>3. Expired(q)' = Expired(q)
  BY DEF Expired
<1>4. ActiveInv(q)' /\ PublishedInv(q)'
  BY <1>2 DEF ActiveInv, PublishedInv, Cleaning
<1>5. CopyInv(q)'
  BY <1>1 DEF RunInv, CopyInv
<1>6. CleanupInv(q)'
  BY <1>1, <1>3 DEF RunInv, CleanupInv, Cleaning
<1> QED
  BY <1>4, <1>5, <1>6 DEF RunInv

\* An active run is not expired.
LEMMA ActiveIsRecent ==
  ASSUME TypeOK, NEW r \in Run, RunInv(r), r \in Active, pc[r] # "staged"
  PROVE  ~Expired(r)
<1>1. born[r] \in Int /\ finished[r] \in Int /\ now \in Int
  BY DEF TypeOK, Day
<1>2. born[r] <= finished[r] /\ ~BeforeCutoff(born[r], now)
  BY DEF RunInv, ActiveInv, PublishedInv, Active, TypeOK, Step, Cleaning
<1> QED
  BY <1>1, <1>2, RetentionDaysAssumption DEF Expired, BeforeCutoff

\* Start begins no invocation while another is under way.
LEMMA StartInv ==
  ASSUME TypeOK, SafeInv, ~Overlap, NEW r \in Run, Start(r)
  PROVE  SafeInv'
<1>1. \A q \in Run : q \notin Active /\ RunInv(q)
  BY DEF Start, SafeInv, RunInv
<1>2. ASSUME NEW q \in Run, q # r
      PROVE  RunInv(q)'
  BY <1>1, <1>2, OtherRun DEF Start, Goto, TypeOK, Active
<1>3. \A q \in Run : q > r => pc[q] = "idle"
  BY DEF Start, SafeInv, BegunInOrder
<1>4. ActiveInv(r)'
  <2>1. now <= now /\ ~BeforeCutoff(now, now)
    BY RetentionDaysAssumption DEF BeforeCutoff, TypeOK, Day
  <2> QED
    BY <1>3, <2>1 DEF ActiveInv, Start, Goto, TypeOK
<1>5. CopyInv(r)' /\ PublishedInv(r)' /\ CleanupInv(r)'
  BY <1>1 DEF RunInv, CopyInv, PublishedInv, CleanupInv, Cleaning, Expired, Start, Goto, TypeOK
<1>6. LatestIsWhole'
  BY DEF SafeInv, LatestIsWhole, Start
<1>7. BegunInOrder'
  <2> SUFFICES ASSUME NEW q \in Run, NEW p \in Run, pc'[q] = "idle", p > q
               PROVE  pc'[p] = "idle"
    BY DEF BegunInOrder
  <2>1. q # r /\ pc[q] = "idle"
    BY DEF Start, Goto, TypeOK
  <2>2. r <= q
    BY <2>1, NumRunsAssumption DEF Start, Run
  <2>3. p # r
    BY <2>2, NumRunsAssumption DEF Run
  <2> QED
    BY <2>1, <2>3 DEF SafeInv, BegunInOrder, Start, Goto, TypeOK
<1> QED
  BY <1>2, <1>4, <1>5, <1>6, <1>7 DEF SafeInv, RunInv

\* A step of an active invocation keeps the invariant if it keeps that of its own
\* run and of latest, and takes nothing from other runs but what expired.
LEMMA RunStepInv ==
  ASSUME TypeOK, SafeInv, NEW r \in Run, r \in Active,
         NEW s \in Step \ {"idle"}, pc' = [pc EXCEPT ![r] = s],
         now' = now, born' = born, CopyInv(r)', PublishedInv(r)', CleanupInv(r)',
         LatestIsWhole',
         \A q \in Run \ {r} :
           /\ copied'[q] = copied[q]
           /\ finished'[q] = finished[q]
           /\ final'[q] = final[q] \/ (Expired(q) /\ pc[q] # "idle")
  PROVE  SafeInv'
<1>1. ASSUME NEW q \in Run, q # r
      PROVE  RunInv(q)'
  <2>1. pc[q] \in {"idle", "done", "crashed"}
    BY <1>1, OneActive
  <2>2. pc'[q] = pc[q]
    BY <1>1 DEF TypeOK
  <2> QED
    BY <1>1, <2>1, <2>2, OtherRun
<1>2. BegunInOrder'
  <2>1. \A q \in Run : pc'[q] = "idle" <=> pc[q] = "idle"
    BY DEF Active, TypeOK
  <2> QED
    BY <2>1 DEF SafeInv, BegunInOrder
<1>3. ActiveInv(r)'
  <2>1. born[r] <= now /\ ~BeforeCutoff(born[r], now) /\ \A q \in Run : q > r => pc[q] = "idle"
    BY DEF SafeInv, ActiveInv
  <2>2. \A q \in Run : q > r => pc'[q] = "idle"
    BY <2>1, NumRunsAssumption DEF TypeOK, Run
  <2> QED
    BY <2>1, <2>2 DEF ActiveInv
<1> QED
  BY <1>1, <1>2, <1>3 DEF SafeInv, RunInv

\* pc does not change in the steps that goto nowhere.
LEMMA StayPut ==
  ASSUME TypeOK, NEW r \in Run, r \in Active, pc' = pc
  PROVE  /\ pc[r] \in Step \ {"idle"}
         /\ pc' = [pc EXCEPT ![r] = pc[r]]
BY DEF TypeOK, Active

LEMMA BeginSyncInv ==
  ASSUME TypeOK, SafeInv, NEW r \in Run, BeginSync(r)
  PROVE  SafeInv'
<1>1. r \in Active /\ RunInv(r) /\ LatestIsWhole
  BY DEF BeginSync, Active, SafeInv, RunInv
<1>2. born[r] <= now
  BY <1>1 DEF RunInv, ActiveInv
<1>3. CopyInv(r)' /\ PublishedInv(r)' /\ CleanupInv(r)'
  BY <1>1, <1>2 DEF RunInv, CopyInv, PublishedInv, CleanupInv, Cleaning, BeginSync, Goto,
     TypeOK, NoTree, There
<1>4. LatestIsWhole'
  BY <1>1 DEF BeginSync, LatestIsWhole
<1> QED
  BY <1>1, <1>3, <1>4, RunStepInv DEF BeginSync, Goto, Step, TypeOK

LEMMA CopyFileInv ==
  ASSUME TypeOK, SafeInv, NEW r \in Run, NEW f \in Files, CopyFile(r, f)
  PROVE  SafeInv'
<1>1. r \in Active /\ RunInv(r) /\ LatestIsWhole
  BY DEF CopyFile, Active, SafeInv, RunInv
<1>2. CopyInv(r)' /\ PublishedInv(r)' /\ CleanupInv(r)'
  <2>1. tmp[r].files = copied[r] /\ pc[r] = "copy" /\ final[r] = NoTree
    BY <1>1 DEF CopyFile, RunInv, CopyInv
  <2>2. tmp'[r] = [state |-> "there", files |-> copied[r] \cup {f}]
    BY <2>1 DEF CopyFile, TypeOK
  <2>3. copied'[r] = copied[r] \cup {f} /\ pc' = pc /\ final' = final
    BY DEF CopyFile, TypeOK
  <2>4. CopyInv(r)'
    BY <2>1, <2>2, <2>3 DEF CopyInv
  <2>5. PublishedInv(r)' /\ CleanupInv(r)'
    BY <1>1, <2>1, <2>3 DEF RunInv, PublishedInv, CleanupInv, Cleaning, CopyFile, NoTree, There
  <2> QED
    BY <2>4, <2>5
<1>3. LatestIsWhole'
  BY <1>1 DEF CopyFile, LatestIsWhole
<1> QED
  BY <1>1, <1>2, <1>3, StayPut, RunStepInv DEF CopyFile, TypeOK

LEMMA SyncFailsInv ==
  ASSUME TypeOK, SafeInv, NEW r \in Run, SyncFails(r)
  PROVE  SafeInv'
<1>1. r \in Active /\ RunInv(r) /\ LatestIsWhole
  BY DEF SyncFails, Active, SafeInv, RunInv
<1>2. CopyInv(r)' /\ PublishedInv(r)' /\ CleanupInv(r)'
  BY <1>1 DEF RunInv, CopyInv, PublishedInv, CleanupInv, Cleaning, SyncFails, Goto, tasks,
     TypeOK, NoTree, There, Expired
<1>3. LatestIsWhole'
  BY <1>1 DEF SyncFails, LatestIsWhole
<1> QED
  BY <1>1, <1>2, <1>3, RunStepInv DEF SyncFails, Goto, tasks, Step, TypeOK

\* What is renamed is the whole run.
LEMMA MoveInv ==
  ASSUME TypeOK, SafeInv, NEW r \in Run, Move(r)
  PROVE  SafeInv'
<1>1. r \in Active /\ RunInv(r) /\ LatestIsWhole
  BY DEF Move, Active, SafeInv, RunInv
<1>2. Whole(tmp[r]) /\ ~There(final[r]) /\ born[r] <= finished[r]
  BY <1>1 DEF Move, RunInv, CopyInv, PublishedInv, Whole, There, NoTree
<1>3. PICK s \in {"unlink", "done"} : pc' = [pc EXCEPT ![r] = s]
  BY DEF Move, Goto
<1>4. Whole(final[r])'
  BY <1>2 DEF Move, TypeOK, Whole
<1>5. CopyInv(r)' /\ PublishedInv(r)' /\ CleanupInv(r)'
  BY <1>2, <1>3, <1>4 DEF CopyInv, PublishedInv, CleanupInv, Cleaning, Move, TypeOK, Whole
<1>6. LatestIsWhole'
  BY <1>1, <1>2 DEF Move, LatestIsWhole, TypeOK, Whole
<1> QED
  BY <1>1, <1>3, <1>5, <1>6, RunStepInv DEF Move, Step, TypeOK

LEMMA LatestInv ==
  ASSUME TypeOK, SafeInv, NEW r \in Run, UnlinkLatest(r) \/ SetLatest(r)
  PROVE  SafeInv'
<1>1. r \in Active /\ RunInv(r)
  BY DEF UnlinkLatest, SetLatest, Active, SafeInv, RunInv
<1>2. Whole(final[r]) /\ target[r] = r
  BY <1>1 DEF RunInv, PublishedInv, UnlinkLatest, SetLatest
<1>3. PICK s \in {"symlink", "done", "synced"} : pc' = [pc EXCEPT ![r] = s]
  BY DEF UnlinkLatest, SetLatest, Goto
<1>4. LatestIsWhole' /\ (s = "synced" => latest' = r)
  BY <1>2, <1>3 DEF UnlinkLatest, SetLatest, LatestIsWhole, Goto, TypeOK
<1>5. CopyInv(r)' /\ PublishedInv(r)' /\ CleanupInv(r)'
  BY <1>1, <1>2, <1>3, <1>4 DEF RunInv, CopyInv, PublishedInv, CleanupInv, Cleaning,
     UnlinkLatest, SetLatest, TypeOK, Whole, tasks, Expired
<1> QED
  BY <1>1, <1>3, <1>4, <1>5, RunStepInv DEF UnlinkLatest, SetLatest, Step, TypeOK, tasks

\* Every run the plan expires is expired by the day in its manifest: one that has
\* lost its manifest is being removed, and was expired before that.
LEMMA PlanIsSound ==
  ASSUME TypeOK, SafeInv, NEW q \in ExpiredRunDirs(RunDirs, born, now)
  PROVE  q \in Run /\ Expired(q)
<1>1. q \in Run /\ RunDirs[q].present /\ BeforeCutoff(RunTimestamp(RunDirs[q], born[q]), now)
  BY DEF ExpiredRunDirs
<1>2. There(final[q])
  BY <1>1 DEF RunDirs
<1>3. CASE ManifestFile \in final[q].files
  <2>1. RunDirs[q].manifest = [status |-> "running", finished |-> finished[q]]
    BY <1>1, <1>3 DEF RunDirs
  <2>2. RunDirs[q].manifest # NoManifest
    BY <2>1 DEF NoManifest
  <2>3. RunTimestamp(RunDirs[q], born[q]) = finished[q]
    BY <2>1, <2>2 DEF RunTimestamp
  <2> QED
    BY <1>1, <2>3 DEF Expired
<1>4. CASE ManifestFile \notin final[q].files
  BY <1>1, <1>2, <1>4, FilesAssumption DEF SafeInv, CleanupInv
<1> QED
  BY <1>1, <1>3, <1>4

LEMMA PlanCleanupInv ==
  ASSUME TypeOK, SafeInv, NEW r \in Run, PlanCleanup(r)
  PROVE  SafeInv'
<1>1. r \in Active /\ RunInv(r) /\ LatestIsWhole
  BY DEF PlanCleanup, Active, SafeInv, RunInv
<1>2. Whole(final[r]) /\ latest = r /\ born[r] <= finished[r]
  BY <1>1 DEF RunInv, PublishedInv, PlanCleanup
<1>3. ~Expired(r)
  BY <1>1, ActiveIsRecent DEF PlanCleanup
<1> DEFINE expired == ExpiredRunDirs(RunDirs, born, now)
<1>4. \A v \in expired : v \in Run /\ Expired(v)
  BY PlanIsSound
<1>5. victims'[r] = expired /\ retained'[r] = {q \in Run : There(final[q])} \ expired
  BY DEF PlanCleanup, TypeOK
<1>6. r \in retained'[r]
  BY <1>2, <1>3, <1>4, <1>5 DEF Whole
<1> HIDE DEF expired
<1>7. pc' = [pc EXCEPT ![r] = "list"]
  BY DEF PlanCleanup, Goto
<1>8. CopyInv(r)' /\ PublishedInv(r)'
  BY <1>2, <1>7 DEF CopyInv, PublishedInv, Cleaning, PlanCleanup, TypeOK, Whole
<1>9. CleanupInv(r)'
  BY <1>1, <1>4, <1>5, <1>6, <1>7 DEF RunInv, CleanupInv, Cleaning, PlanCleanup, TypeOK, Expired
<1>10. LatestIsWhole'
  BY <1>1 DEF PlanCleanup, LatestIsWhole
<1> QED
  BY <1>1, <1>7, <1>8, <1>9, <1>10, RunStepInv DEF PlanCleanup, Step, TypeOK

\* Steps that touch no directory.
LEMMA QuietInv ==
  ASSUME TypeOK, SafeInv, NEW r \in Run,
         NoCleanup(r) \/ WipeEnds(r) \/ ListTemporary(r) \/ Crash(r)
  PROVE  SafeInv'
<1>1. r \in Active /\ RunInv(r) /\ LatestIsWhole
  BY DEF NoCleanup, WipeEnds, ListTemporary, Crash, Active, SafeInv, RunInv
<1>2. PICK s \in {"done", "remove", "wipe", "crashed"} :
        /\ pc' = [pc EXCEPT ![r] = s]
        /\ s = "remove" => pc[r] = "wipe"
        /\ s = "wipe" => pc[r] = "list"
  BY DEF NoCleanup, WipeEnds, ListTemporary, Crash, Goto
<1>3. /\ UNCHANGED <<now, born, finished, copied, victims, retained, tmp, final, latest>>
      /\ s = "wipe" => wiping'[r].inside = None
  BY <1>2 DEF NoCleanup, WipeEnds, ListTemporary, Crash, tasks, NotWiping, TypeOK, Goto
<1>4. CopyInv(r)' /\ PublishedInv(r)' /\ CleanupInv(r)'
  BY <1>1, <1>2, <1>3 DEF RunInv, CopyInv, PublishedInv, CleanupInv, Cleaning, TypeOK,
     Expired, Whole
<1>5. LatestIsWhole'
  BY <1>1, <1>3 DEF LatestIsWhole
<1> QED
  BY <1>1, <1>2, <1>3, <1>4, <1>5, RunStepInv DEF Step

LEMMA WipeEnterInv ==
  ASSUME TypeOK, SafeInv, NEW r \in Run, WipeEnter(r)
  PROVE  SafeInv'
<1>1. r \in Active /\ RunInv(r) /\ LatestIsWhole
  BY DEF WipeEnter, Active, SafeInv, RunInv
<1>2. wiping'[r].inside # None => There(tmp[wiping'[r].inside])
  <2>1. PICK q \in wiping[r].listed :
          wiping' = [wiping EXCEPT ![r] =
            [listed |-> @.listed \ {q},
             inside |-> IF There(tmp[q]) THEN q ELSE None,
             names |-> IF There(tmp[q]) THEN tmp[q].files ELSE {}]]
    BY DEF WipeEnter
  <2>2. wiping'[r].inside = IF There(tmp[q]) THEN q ELSE None
    BY <2>1 DEF TypeOK
  <2> QED
    BY <2>2
<1>3. CopyInv(r)' /\ PublishedInv(r)' /\ CleanupInv(r)'
  BY <1>1, <1>2 DEF RunInv, CopyInv, PublishedInv, CleanupInv, Cleaning, WipeEnter, Expired
<1>4. LatestIsWhole'
  BY <1>1 DEF WipeEnter, LatestIsWhole
<1> QED
  BY <1>1, <1>3, <1>4, StayPut, RunStepInv DEF WipeEnter

\* The removal of temporary directories stays out of the runs.
LEMMA WipeKeepsRuns ==
  ASSUME TypeOK, SafeInv, NEW r \in Run, WipeUnlink(r)
  PROVE  final' = final
<1> DEFINE q == wiping[r].inside
<1>1. wiping[r] \in Wiping
  BY DEF TypeOK
<1>2. q \in Run /\ There(tmp[q])
  BY <1>1, FieldsType DEF SafeInv, CleanupInv, WipeUnlink
<1>3. \E lost : final' = [final EXCEPT ![q] = IF There(tmp[q]) THEN @ ELSE Without(@, lost)]
  BY DEF WipeUnlink
<1> HIDE DEF q
<1> QED
  BY <1>2, <1>3 DEF TypeOK

\* So the invariant survives it.
LEMMA WipeInv ==
  ASSUME TypeOK, SafeInv, NEW r \in Run, WipeUnlink(r) \/ WipeLeave(r)
  PROVE  SafeInv'
<1>1. r \in Active /\ RunInv(r) /\ LatestIsWhole /\ pc[r] = "wipe" /\ wiping[r].inside # None
  BY DEF WipeUnlink, WipeLeave, Active, SafeInv, RunInv
<1> DEFINE q == wiping[r].inside
<1>2. wiping[r] \in Wiping
  BY DEF TypeOK
<1>3. q \in Run /\ There(tmp[q])
  BY <1>1, <1>2, FieldsType DEF RunInv, CleanupInv
<1>4. final' = final /\ (wiping'[r].inside # None => wiping'[r].inside = q /\ There(tmp'[q]))
  <2>1. CASE WipeUnlink(r)
    <3>1. PICK f \in wiping[r].names : \E lost \in SUBSET {f} :
            /\ wiping' = [wiping EXCEPT ![r].names = @ \ {f}]
            /\ tmp' = [tmp EXCEPT ![q] = IF There(@) THEN Without(@, lost) ELSE @]
            /\ final' = [final EXCEPT ![q] = IF There(tmp[q]) THEN @ ELSE Without(@, lost)]
      BY <2>1 DEF WipeUnlink
    <3>2. PICK lost \in SUBSET {f} :
            /\ wiping' = [wiping EXCEPT ![r].names = @ \ {f}]
            /\ tmp' = [tmp EXCEPT ![q] = IF There(@) THEN Without(@, lost) ELSE @]
            /\ final' = [final EXCEPT ![q] = IF There(tmp[q]) THEN @ ELSE Without(@, lost)]
      BY <3>1
    <3> HIDE DEF q
    <3>3. final' = final /\ tmp'[q] = Without(tmp[q], lost)
      BY <1>3, <3>2 DEF TypeOK
    <3>4. There(tmp'[q])
      BY <1>3, <3>3 DEF Without, There
    <3>5. wiping'[r].inside = q
      BY <1>2, <3>2 DEF q, TypeOK, Wiping
    <3> QED
      BY <3>3, <3>4, <3>5
  <2>2. CASE WipeLeave(r)
    BY <1>2, <2>2 DEF WipeLeave, TypeOK, Wiping
  <2> QED
    BY <2>1, <2>2 DEF WipeUnlink, WipeLeave
<1> HIDE DEF q
<1>5. UNCHANGED <<now, pc, born, finished, copied, victims, retained, target, latest>>
  BY DEF WipeUnlink, WipeLeave
<1>6. CopyInv(r)' /\ PublishedInv(r)' /\ CleanupInv(r)'
  BY <1>1, <1>4, <1>5 DEF RunInv, CopyInv, PublishedInv, CleanupInv, Cleaning, Expired
<1>7. LatestIsWhole'
  BY <1>1, <1>4, <1>5 DEF LatestIsWhole
<1> QED
  BY <1>1, <1>4, <1>5, <1>6, <1>7, StayPut, RunStepInv

\* A run that is being removed is expired, so it is neither the run of the
\* invocation nor the one latest points to.
LEMMA VictimFacts ==
  ASSUME TypeOK, SafeInv, NEW r \in Run, NEW v \in Run, Removing(r, v)
  PROVE  /\ r \in Active /\ Expired(v) /\ v # r /\ latest = r
         /\ There(final[v]) => pc[v] # "idle"
<1>1. pc[r] = "remove" /\ v \in victims[r]
  BY DEF Removing
<1>2. r \in Active /\ RunInv(r) /\ RunInv(v)
  BY <1>1 DEF Active, SafeInv, RunInv
<1>3. latest = r /\ Expired(v)
  BY <1>1, <1>2 DEF RunInv, PublishedInv, CleanupInv, Cleaning
<1>4. ~Expired(r)
  BY <1>1, <1>2, ActiveIsRecent
<1>5. There(final[v]) => pc[v] # "idle"
  BY <1>2 DEF RunInv, CopyInv, NoTree, There
<1> QED
  BY <1>2, <1>3, <1>4, <1>5

LEMMA RemoveInv ==
  ASSUME TypeOK, SafeInv, NEW r \in Run,
         RemoveFile(r) \/ RemoveDir(r) \/ RemoveFails(r)
  PROVE  SafeInv'
<1>1. PICK v \in Run :
        /\ Removing(r, v)
        /\ final' = final \/ (There(final[v]) /\ \E tree : final' = [final EXCEPT ![v] = tree])
        /\ victims'[r] \subseteq victims[r]
  <2>1. CASE RemoveFile(r)
    <3>1. victims' = victims
      BY <2>1 DEF RemoveFile, tasks
    <3>2. PICK v \in Run :
            /\ Removing(r, v)
            /\ There(final[v])
            /\ \E f \in final[v].files : final' = [final EXCEPT ![v] = Without(@, {f})]
      BY <2>1 DEF RemoveFile
    <3> QED
      BY <3>1, <3>2
  <2>2. CASE RemoveDir(r)
    <3>1. PICK v \in Run :
            /\ Removing(r, v)
            /\ There(final[v])
            /\ final' = [final EXCEPT ![v] = Removed]
            /\ victims' = [victims EXCEPT ![r] = @ \ {v}]
      BY <2>2 DEF RemoveDir
    <3>2. victims'[r] \subseteq victims[r]
      BY <3>1 DEF TypeOK
    <3> QED
      BY <3>1, <3>2
  <2>3. CASE RemoveFails(r)
    <3>1. PICK v \in Run : Removing(r, v) /\ victims' = [victims EXCEPT ![r] = @ \ {v}]
      BY <2>3 DEF RemoveFails
    <3>2. victims'[r] \subseteq victims[r] /\ final' = final
      BY <2>3, <3>1 DEF RemoveFails, TypeOK
    <3> QED
      BY <3>1, <3>2
  <2> QED
    BY <2>1, <2>2, <2>3
<1>2. /\ r \in Active /\ Expired(v) /\ v # r /\ latest = r /\ pc[r] = "remove"
      /\ There(final[v]) => pc[v] # "idle"
  BY <1>1, VictimFacts DEF Removing
<1>3. RunInv(r) /\ LatestIsWhole
  BY DEF SafeInv, RunInv
<1>4. UNCHANGED <<now, pc, born, finished, copied, retained, target, tmp, latest>>
  BY DEF RemoveFile, RemoveDir, RemoveFails, tasks
<1>5. \A q \in Run \ {v} : final'[q] = final[q]
  BY <1>1 DEF TypeOK
<1>6. final'[v] = final[v] \/ (Expired(v) /\ pc[v] # "idle")
  BY <1>1, <1>2
<1>7. CopyInv(r)' /\ PublishedInv(r)' /\ CleanupInv(r)'
  BY <1>1, <1>2, <1>3, <1>4, <1>5 DEF RunInv, CopyInv, PublishedInv, CleanupInv, Cleaning,
     Expired
<1>8. LatestIsWhole'
  BY <1>2, <1>3, <1>4, <1>5 DEF LatestIsWhole
<1> QED
  BY <1>2, <1>4, <1>5, <1>6, <1>7, <1>8, StayPut, RunStepInv

LEMMA RetainInv ==
  ASSUME TypeOK, SafeInv, NEW r \in Run, Retain(r)
  PROVE  SafeInv'
<1>1. r \in Active /\ RunInv(r) /\ LatestIsWhole /\ pc[r] = "remove"
  BY DEF Retain, Active, SafeInv, RunInv
<1>2. pc' = [pc EXCEPT ![r] = "unlink"] /\ target'[r] = r
  BY <1>1, RetainTarget DEF Retain, Goto, TypeOK
<1>3. UNCHANGED <<now, born, finished, copied, victims, retained, tmp, final, latest>>
  BY DEF Retain
<1>4. CopyInv(r)' /\ PublishedInv(r)' /\ CleanupInv(r)'
  BY <1>1, <1>2, <1>3 DEF RunInv, CopyInv, PublishedInv, CleanupInv, Cleaning, TypeOK,
     Expired, Whole
<1>5. LatestIsWhole'
  BY <1>1, <1>3 DEF LatestIsWhole
<1> QED
  BY <1>1, <1>2, <1>3, <1>4, <1>5, RunStepInv DEF Step

\* The day only passes while every active run stays within the window.
LEMMA TickInv ==
  ASSUME TypeOK, SafeInv, Tick
  PROVE  SafeInv'
<1>1. UNCHANGED <<pc, born, finished, copied, victims, retained, target, wiping, tmp, final,
                  latest>> /\ now' = now + 1 /\ now \in Int
  BY DEF Tick, tasks, TypeOK, Day
<1>2. LatestIsWhole' /\ BegunInOrder'
  BY <1>1 DEF SafeInv, LatestIsWhole, BegunInOrder
<1>3. ASSUME NEW q \in Run
      PROVE  RunInv(q)'
  <2>1. RunInv(q) /\ born[q] \in Int
    BY DEF SafeInv, RunInv, TypeOK, Day
  <2>2. ActiveInv(q)'
    <3>1. SUFFICES ASSUME q \in Active'
                   PROVE  ActiveInv(q)'
      BY DEF ActiveInv
    <3>2. q \in Active /\ now + 1 - born[q] <= RetentionDays
      BY <1>1, <3>1 DEF Active, Tick
    <3>3. born[q] <= now /\ \A p \in Run : p > q => pc[p] = "idle"
      BY <2>1, <3>2 DEF RunInv, ActiveInv
    <3>4. born[q] <= now + 1 /\ ~BeforeCutoff(born[q], now + 1)
      BY <1>1, <2>1, <3>2, <3>3, RetentionDaysAssumption DEF BeforeCutoff
    <3> QED
      BY <1>1, <3>3, <3>4 DEF ActiveInv
  <2>3. \A v \in Run : Expired(v) => Expired(v)'
    BY <1>1, RetentionDaysAssumption DEF Expired, BeforeCutoff, TypeOK, Day
  <2>4. victims[q] \subseteq Run
    BY DEF TypeOK
  <2>5. CopyInv(q)' /\ PublishedInv(q)'
    BY <1>1, <2>1 DEF RunInv, CopyInv, PublishedInv, Cleaning
  <2>6. CleanupInv(q)'
    BY <1>1, <2>1, <2>3, <2>4 DEF RunInv, CleanupInv, Cleaning
  <2> QED
    BY <2>2, <2>5, <2>6 DEF RunInv
<1> QED
  BY <1>2, <1>3 DEF SafeInv, RunInv

-------------------------------------------------------------------------------
(***************************************************************************)
(* What cleanup leaves, and what latest points to.                         *)
(***************************************************************************)

\* The steps of an invocation but its first.
Later(r) ==
  \/ BeginSync(r) \/ SyncFails(r) \/ Move(r) \/ UnlinkLatest(r) \/ SetLatest(r)
  \/ (\E f \in Files : CopyFile(r, f)) \/ Cleanup(r) \/ Crash(r)

\* They are steps of an active run and leave the state of the other invocations alone.
LEMMA LaterFacts ==
  ASSUME TypeOK, NEW r \in Run, Later(r)
  PROVE  /\ r \in Active
         /\ UNCHANGED <<now, born>>
         /\ pc'[r] # "idle"
         /\ \A q \in Run \ {r} : /\ pc'[q] = pc[q]
                                 /\ synced'[q] = synced[q]
                                 /\ finished'[q] = finished[q]
<1>1. CASE BeginSync(r) \/ SyncFails(r) \/ Move(r) \/ (\E f \in Files : CopyFile(r, f))
  BY <1>1 DEF BeginSync, SyncFails, Move, CopyFile, Goto, Active, tasks, TypeOK
<1>2. CASE UnlinkLatest(r) \/ SetLatest(r) \/ NoCleanup(r) \/ PlanCleanup(r) \/ Crash(r)
  BY <1>2 DEF UnlinkLatest, SetLatest, NoCleanup, PlanCleanup, Crash, Goto, Active, tasks,
     TypeOK
<1>3. CASE ListTemporary(r) \/ WipeEnter(r) \/ WipeUnlink(r) \/ WipeLeave(r) \/ WipeEnds(r)
  BY <1>3 DEF ListTemporary, WipeEnter, WipeUnlink, WipeLeave, WipeEnds, Goto, Active, tasks,
     TypeOK
<1>4. CASE RemoveFile(r) \/ RemoveDir(r) \/ RemoveFails(r) \/ Retain(r)
  BY <1>4 DEF RemoveFile, RemoveDir, RemoveFails, Retain, Removing, Goto, Active, tasks, TypeOK
<1> QED
  BY <1>1, <1>2, <1>3, <1>4 DEF Later, Cleanup

\* latest: the two calls of _update_latest write it, and no invocation begins
\* without being the last that has.
LEMMA StepLatest ==
  ASSUME TypeOK, SafeInv, \A q \in Run : PointerInv(q), [Next]_vars
  PROVE  \A q \in Run : PointerInv(q)'
<1> SUFFICES ASSUME NEW q \in Run
             PROVE  PointerInv(q)'
  OBVIOUS
<1>0. PointerInv(q) /\ q \in Int
  BY NumRunsAssumption DEF Run
<1>1. CASE UNCHANGED vars \/ Tick
  BY <1>0, <1>1 DEF vars, tasks, Tick, PointerInv, LastBegun
<1>2. ASSUME NEW r \in Run, Start(r)
      PROVE  PointerInv(q)'
  <2>1. pc'[r] = "staged" /\ synced' = synced
    BY <1>2 DEF Start, Goto, TypeOK
  <2>2. CASE q = r
    BY <1>0, <1>2, <2>1, <2>2 DEF PointerInv, Start, Cleaning
  <2>3. CASE q # r
    <3>1. pc'[q] = pc[q]
      BY <1>2, <2>3 DEF Start, Goto, TypeOK
    <3>2. pc[q] = "done" => ~LastBegun(q)'
      <4>1. r < q => pc[q] = "idle"
        BY <1>2 DEF Start, SafeInv, BegunInOrder
      <4>2. r > q => ~LastBegun(q)'
        BY <2>1 DEF LastBegun
      <4> QED
        BY <1>0, <2>3, <4>1, <4>2, NumRunsAssumption DEF Run
    <3> QED
      BY <1>0, <2>1, <3>1, <3>2 DEF PointerInv
  <2> QED
    BY <2>2, <2>3
<1>3. ASSUME NEW r \in Run, Later(r), q # r
      PROVE  PointerInv(q)'
  <2>1. /\ r \in Active /\ pc'[r] # "idle"
        /\ pc'[q] = pc[q] /\ synced'[q] = synced[q]
    BY <1>3, LaterFacts
  <2>2. pc[q] = "done" => ~LastBegun(q)'
    <3>1. r < q => pc[q] = "idle"
      BY <2>1 DEF SafeInv, ActiveInv
    <3>2. r > q => ~LastBegun(q)'
      BY <2>1 DEF LastBegun
    <3> QED
      BY <1>0, <1>3, <3>1, <3>2, NumRunsAssumption DEF Run
  <2> QED
    BY <1>0, <2>1, <2>2 DEF PointerInv
<1>4. CASE BeginSync(q) \/ SyncFails(q) \/ Move(q) \/ \E f \in Files : CopyFile(q, f)
  BY <1>0, <1>4 DEF BeginSync, SyncFails, Move, CopyFile, Goto, tasks, TypeOK, PointerInv,
     Cleaning
<1>5. CASE UnlinkLatest(q) \/ NoCleanup(q) \/ Crash(q)
  <2>1. pc[q] = "synced" => latest = q
    BY DEF SafeInv, PublishedInv
  <2> QED
    BY <1>0, <1>5, <2>1 DEF UnlinkLatest, NoCleanup, Crash, Goto, tasks, TypeOK, PointerInv,
       Cleaning
<1>6. CASE SetLatest(q)
  <2>1. target[q] = q
    BY <1>6 DEF SetLatest, SafeInv, PublishedInv
  <2>2. latest' = q /\ synced'[q] = TRUE /\ pc'[q] \in {"done", "synced"}
    BY <1>6, <2>1 DEF SetLatest, Goto, TypeOK
  <2> QED
    BY <2>2 DEF PointerInv
<1>7. CASE PlanCleanup(q) \/ ListTemporary(q) \/ WipeEnds(q) \/ Retain(q)
  BY <1>0, <1>7 DEF PlanCleanup, ListTemporary, WipeEnds, Retain, Goto, tasks, TypeOK,
     PointerInv, Cleaning
<1>8. CASE WipeEnter(q) \/ WipeUnlink(q) \/ WipeLeave(q) \/ RemoveFile(q) \/ RemoveDir(q)
           \/ RemoveFails(q)
  BY <1>0, <1>8 DEF WipeEnter, WipeUnlink, WipeLeave, RemoveFile, RemoveDir, RemoveFails,
     Removing, tasks, PointerInv, Cleaning
<1> QED
  BY <1>1, <1>2, <1>3, <1>4, <1>5, <1>6, <1>7, <1>8 DEF Next, Sync, Cleanup, Later

\* Whatever an invocation removes, no directory appears but the one it renames.
LEMMA NothingAppears ==
  ASSUME TypeOK, SafeInv, NEW r \in Run, Later(r), ~Move(r), NEW q \in Run, There(final'[q])
  PROVE  There(final[q])
<1>1. CASE RemoveFile(r)
  <2>1. PICK v \in Run : There(final[v]) /\ \E tree : final' = [final EXCEPT ![v] = tree]
    BY <1>1 DEF RemoveFile
  <2> QED
    BY <2>1 DEF TypeOK
<1>2. CASE RemoveDir(r)
  <2>1. PICK v \in Run : final' = [final EXCEPT ![v] = Removed]
    BY <1>2 DEF RemoveDir
  <2>2. ~There(Removed)
    BY DEF There, Removed
  <2> QED
    BY <2>1, <2>2 DEF TypeOK
<1>3. CASE WipeUnlink(r)
  BY <1>3, WipeKeepsRuns
<1>4. CASE ~(RemoveFile(r) \/ RemoveDir(r) \/ WipeUnlink(r))
  <2>1. final' = final
    BY <1>4 DEF Later, Cleanup, BeginSync, SyncFails, UnlinkLatest, SetLatest, CopyFile,
       NoCleanup, PlanCleanup, ListTemporary, WipeEnter, WipeLeave, WipeEnds, RemoveFails,
       Retain, Crash
  <2> QED
    BY <2>1
<1> QED
  BY <1>1, <1>2, <1>3, <1>4

\* A plan misses nothing that was there and expired when sync began.
LEMMA PlanIsComplete ==
  ASSUME TypeOK, \A q \in Run : LeftoverInv(q), NEW r \in Run, NEW q \in Run,
         There(final[q]), BeforeCutoff(finished[q], finished[r])
  PROVE  q \in ExpiredRunDirs(RunDirs, born, now)
<1>1. finished[r] <= now /\ born[q] <= finished[q]
  BY DEF LeftoverInv
<1>2. now \in Int /\ finished[r] \in Int /\ finished[q] \in Int /\ born[q] \in Int
  BY DEF TypeOK, Day
<1>3. BeforeCutoff(finished[q], now) /\ BeforeCutoff(born[q], now)
  BY <1>1, <1>2, RetentionDaysAssumption DEF BeforeCutoff
<1>4. RunDirs[q].present
  BY DEF RunDirs
<1>5. RunTimestamp(RunDirs[q], born[q]) \in {finished[q], born[q]}
  BY DEF RunDirs, RunTimestamp, NoManifest
<1> QED
  BY <1>3, <1>4, <1>5 DEF ExpiredRunDirs

\* What may be left behind: PlanCleanup lists it all, and a directory leaves the
\* list by being removed, or with an error.
LEMMA StepLeftover ==
  ASSUME TypeOK, SafeInv, \A q \in Run : PointerInv(q) /\ LeftoverInv(q), ~Overlap,
         [Next]_vars
  PROVE  \A q \in Run : LeftoverInv(q)'
<1> SUFFICES ASSUME NEW q \in Run
             PROVE  LeftoverInv(q)'
  OBVIOUS
<1>0. /\ LeftoverInv(q) /\ finished[q] \in Int /\ born[q] \in Int /\ now \in Int
      /\ \A p \in Run : There(final[p]) => pc[p] # "idle"
  <2>1. \A p \in Run : pc[p] = "idle" => final[p] = NoTree
    BY DEF SafeInv, CopyInv
  <2> QED
    BY <2>1 DEF TypeOK, Day, NoTree, There
<1>1. CASE UNCHANGED vars
  BY <1>0, <1>1 DEF vars, tasks, LeftoverInv, Settling
<1>2. CASE Tick
  BY <1>0, <1>2 DEF Tick, tasks, LeftoverInv, Settling
<1>3. ASSUME NEW r \in Run, Start(r)
      PROVE  LeftoverInv(q)'
  <2>1. pc'[q] \notin Cleaning /\ ~Settling(q)'
    <3>1. q \notin Active
      BY <1>3 DEF Start
    <3> QED
      BY <1>3, <3>1 DEF Start, Goto, Settling, Active, Cleaning, TypeOK
  <2>2. There(final[q]) => q # r
    BY <1>0, <1>3 DEF Start
  <2> QED
    BY <1>0, <1>3, <2>1, <2>2 DEF Start, LeftoverInv, TypeOK
<1>4. ASSUME NEW r \in Run, Later(r)
      PROVE  finished'[q] <= now' /\ (There(final'[q]) => born'[q] <= finished'[q])
  <2>1. now' = now /\ born' = born
    BY <1>4, LaterFacts
  <2>2. CASE BeginSync(r)
    <3>1. There(final[q]) => q # r
      <4>1. final[r] = NoTree
        BY <2>2 DEF BeginSync, SafeInv, CopyInv
      <4> QED
        BY <4>1 DEF NoTree, There
    <3> QED
      BY <1>0, <2>1, <2>2, <3>1 DEF BeginSync, LeftoverInv, TypeOK
  <2>3. CASE ~BeginSync(r)
    <3>1. finished' = finished
      BY <1>4, <2>3 DEF Later, Cleanup, SyncFails, Move, UnlinkLatest, SetLatest, CopyFile,
         NoCleanup, PlanCleanup, ListTemporary, WipeEnter, WipeUnlink, WipeLeave, WipeEnds,
         RemoveFile, RemoveDir, RemoveFails, Retain, Crash, tasks
    <3>2. There(final'[q]) => There(final[q]) \/ (q = r /\ pc[r] = "copy")
      <4>1. CASE Move(r)
        BY <4>1 DEF Move, TypeOK
      <4>2. CASE ~Move(r)
        BY <1>4, <4>2, NothingAppears
      <4> QED
        BY <4>1, <4>2
    <3>3. pc[q] = "copy" => born[q] <= finished[q]
      BY DEF SafeInv, PublishedInv
    <3> QED
      BY <1>0, <2>1, <3>1, <3>2, <3>3 DEF LeftoverInv
  <2> QED
    BY <2>2, <2>3
<1>5. ASSUME NEW r \in Run, Later(r), q # r
      PROVE  LeftoverInv(q)'
  <2>1. pc'[q] = pc[q] /\ r \in Active
    BY <1>5, LaterFacts
  <2>2. pc[q] \in {"idle", "done", "crashed"}
    BY <1>5, <2>1, OneActive
  <2>3. pc'[q] \notin Cleaning /\ ~Settling(q)'
    BY <2>1, <2>2 DEF Cleaning, Settling
  <2> QED
    BY <1>4, <1>5, <2>3 DEF LeftoverInv
<1>6. CASE pc'[q] \notin Cleaning /\ ~Settling(q)' /\ Later(q)
  BY <1>4, <1>6 DEF LeftoverInv
<1>7. CASE BeginSync(q) \/ SyncFails(q) \/ Move(q) \/ SetLatest(q) \/ NoCleanup(q) \/ Crash(q)
           \/ \E f \in Files : CopyFile(q, f)
  <2>1. pc[q] = "copy" => ~synced[q]
    BY DEF PointerInv
  <2>2. pc'[q] \notin Cleaning /\ ~Settling(q)'
    BY <1>7, <2>1 DEF BeginSync, SyncFails, Move, SetLatest, NoCleanup, Crash, CopyFile, Goto,
       Settling, Cleaning, tasks, TypeOK
  <2> QED
    BY <1>6, <1>7, <2>2 DEF Later, Cleanup
<1>8. CASE PlanCleanup(q)
  <2> DEFINE planned == ExpiredRunDirs(RunDirs, born, now)
  <2>1. victims' = [victims EXCEPT ![q] = planned]
    BY <1>8 DEF PlanCleanup
  <2>2. \A p \in Run : There(final[p]) /\ BeforeCutoff(finished[p], finished[q]) =>
          p \in planned
    BY PlanIsComplete
  <2> HIDE DEF planned
  <2>3. victims'[q] = planned /\ UNCHANGED <<finished, final>> /\ pc'[q] = "list"
    BY <1>8, <2>1 DEF PlanCleanup, Goto, TypeOK
  <2>4. finished'[q] <= now' /\ (There(final'[q]) => born'[q] <= finished'[q])
    BY <1>4, <1>8 DEF Later, Cleanup
  <2>5. ~Settling(q)'
    BY <2>3 DEF Settling
  <2> QED
    BY <2>2, <2>3, <2>4, <2>5 DEF LeftoverInv
<1>9. ASSUME Later(q), ~Move(q), finished' = finished, victims'[q] = victims[q],
             errors'[q] = errors[q], pc'[q] \in Cleaning \/ Settling(q)',
             pc[q] \in Cleaning \/ Settling(q),
             Settling(q)' => Settling(q) \/ victims[q] = {}
      PROVE  LeftoverInv(q)'
  <2>1. finished'[q] <= now' /\ (There(final'[q]) => born'[q] <= finished'[q])
    BY <1>4, <1>9
  <2>2. \A p \in Run : There(final'[p]) => There(final[p])
    BY <1>9, NothingAppears
  <2> QED
    BY <1>0, <1>9, <2>1, <2>2 DEF LeftoverInv
<1>10. CASE UnlinkLatest(q)
  <2>1. CASE synced[q]
    <3>1. Settling(q) /\ Settling(q)'
      BY <1>10, <2>1 DEF UnlinkLatest, Goto, Settling, tasks, TypeOK
    <3> QED
      BY <1>9, <1>10, <3>1 DEF UnlinkLatest, Move, Later, tasks
  <2>2. CASE ~synced[q]
    <3>1. pc'[q] \notin Cleaning /\ ~Settling(q)'
      BY <1>10, <2>2 DEF UnlinkLatest, Goto, Settling, Cleaning, tasks, TypeOK
    <3> QED
      BY <1>6, <1>10, <3>1 DEF Later
  <2> QED
    BY <2>1, <2>2
<1>11. CASE ListTemporary(q) \/ WipeEnter(q) \/ WipeUnlink(q) \/ WipeLeave(q) \/ WipeEnds(q)
  <2>1. pc[q] \in Cleaning /\ pc'[q] \in Cleaning /\ UNCHANGED <<finished, victims, errors>>
    BY <1>11 DEF ListTemporary, WipeEnter, WipeUnlink, WipeLeave, WipeEnds, Goto, Cleaning,
       tasks, TypeOK
  <2>2. ~Settling(q)'
    BY <2>1 DEF Settling, Cleaning
  <2>3. Later(q) /\ ~Move(q)
    BY <1>11, <2>1 DEF Later, Cleanup, Move, Cleaning
  <2> QED
    BY <1>9, <2>1, <2>2, <2>3
<1>12. CASE Retain(q)
  <2>1. /\ pc[q] = "remove" /\ pc'[q] = "unlink" /\ victims[q] = {} /\ synced'[q] = synced[q]
        /\ UNCHANGED <<finished, victims, errors>>
    BY <1>12 DEF Retain, Goto, TypeOK
  <2>2. pc[q] \in Cleaning /\ synced[q]
    BY <2>1 DEF PointerInv, Cleaning
  <2>3. Settling(q)'
    BY <2>1, <2>2 DEF Settling
  <2>4. Later(q) /\ ~Move(q)
    BY <1>12, <2>1 DEF Later, Cleanup, Move
  <2> QED
    BY <1>9, <2>1, <2>2, <2>3, <2>4
<1>13. CASE RemoveFile(q) \/ RemoveDir(q) \/ RemoveFails(q)
  <2>1. /\ pc[q] = "remove" /\ pc' = pc /\ UNCHANGED <<finished>> /\ Later(q) /\ ~Move(q)
    BY <1>13 DEF RemoveFile, RemoveDir, RemoveFails, Removing, Later, Cleanup, Move, tasks
  <2>2. pc'[q] \in Cleaning /\ pc[q] \in Cleaning /\ ~Settling(q)'
    BY <2>1 DEF Cleaning, Settling
  <2>3. finished'[q] <= now' /\ (There(final'[q]) => born'[q] <= finished'[q])
    BY <1>4, <2>1
  <2>4. \A p \in Run : There(final'[p]) => There(final[p])
    BY <2>1, NothingAppears
  <2>5. CASE RemoveFile(q)
    BY <1>9, <2>1, <2>2, <2>5 DEF RemoveFile, tasks
  <2>6. CASE RemoveDir(q)
    <3>1. PICK v \in Run : /\ final' = [final EXCEPT ![v] = Removed]
                           /\ victims' = [victims EXCEPT ![q] = @ \ {v}]
      BY <2>6 DEF RemoveDir
    <3>2. ~There(final'[v]) /\ victims'[q] = victims[q] \ {v}
      BY <3>1 DEF There, Removed, TypeOK
    <3>3. errors' = errors
      BY <2>6 DEF RemoveDir
    <3> QED
      BY <1>0, <2>1, <2>2, <2>3, <2>4, <3>2, <3>3 DEF LeftoverInv
  <2>7. CASE RemoveFails(q)
    <3>1. errors'[q] = TRUE
      BY <2>7 DEF RemoveFails, TypeOK
    <3> QED
      BY <2>2, <2>3, <3>1 DEF LeftoverInv
  <2> QED
    BY <1>13, <2>5, <2>6, <2>7
<1> QED
  BY <1>1, <1>2, <1>3, <1>5, <1>7, <1>8, <1>10, <1>11, <1>12, <1>13
     DEF Next, Sync, Cleanup, Later

\* The state is of its type and the invariant holds, for successive invocations
\* that may stop at any file operation (sync, cleanup, _update_latest).
THEOREM LocalInvariant ==
  ASSUME ~Overlap
  PROVE  Spec => [](TypeOK /\ LocalInv)
<1>1. Init => TypeOK /\ LocalInv
  <2> SUFFICES ASSUME Init
               PROVE  TypeOK /\ LocalInv
    OBVIOUS
  <2>1. TypeOK
    BY TreesType, MaxDayAssumption, NumRunsAssumption DEF Init, TypeOK, Day, Step, None
  <2>2. \A q \in Run : RunInv(q)
    BY DEF Init, RunInv, ActiveInv, Active, CopyInv, PublishedInv, CleanupInv, Cleaning,
       NoTree, There
  <2>3. LatestIsWhole /\ BegunInOrder
    BY DEF Init, LatestIsWhole, BegunInOrder
  <2>4. \A q \in Run : PointerInv(q) /\ LeftoverInv(q)
    BY DEF Init, PointerInv, LeftoverInv, Settling, Cleaning, NoTree, There
  <2> QED
    BY <2>1, <2>2, <2>3, <2>4 DEF LocalInv, SafeInv, RunInv
<1>2. TypeOK /\ LocalInv /\ [Next]_vars => (TypeOK /\ LocalInv)'
  <2> SUFFICES ASSUME TypeOK, LocalInv, [Next]_vars
               PROVE  SafeInv'
    BY StepType, StepLatest, StepLeftover DEF LocalInv
  <2>1. CASE UNCHANGED vars
    BY <2>1 DEF vars, tasks, LocalInv, SafeInv, LatestIsWhole, BegunInOrder, ActiveInv, Active,
       CopyInv, PublishedInv, CleanupInv, Cleaning, Expired
  <2> QED
    BY <2>1, TickInv, StartInv, BeginSyncInv, CopyFileInv, SyncFailsInv, MoveInv, LatestInv,
       PlanCleanupInv, QuietInv, WipeEnterInv, WipeInv, RemoveInv, RetainInv
       DEF Next, Sync, Cleanup, LocalInv
<1> QED
  BY <1>1, <1>2, PTL DEF Spec

\* latest never dangles (_update_latest, _newest_run_name, cleanup).
THEOREM LatestNeverDangles ==
  ASSUME ~Overlap
  PROVE  Spec => []LatestIsWhole
<1>1. TypeOK /\ LocalInv => LatestIsWhole
  BY DEF LocalInv, SafeInv
<1> QED
  BY <1>1, LocalInvariant, PTL

\* When the last invocation that began has returned from sync or from its cleanup,
\* latest points to the newest run there is (_update_latest, _newest_run_name).
THEOREM LatestPointsToTheNewest ==
  ASSUME ~Overlap
  PROVE  Spec => []LatestIsNewest
<1>1. TypeOK /\ LocalInv => LatestIsNewest
  <2> SUFFICES ASSUME TypeOK, LocalInv, NEW r \in Run, pc[r] = "done", synced[r],
                      \A q \in Run : q > r => pc[q] = "idle"
               PROVE  latest = Newest({q \in Run : There(final[q])})
    BY DEF LatestIsNewest
  <2>1. latest = r
    BY DEF LocalInv, PointerInv, LastBegun
  <2>2. There(final[r])
    BY <2>1, NumRunsAssumption DEF LocalInv, SafeInv, LatestIsWhole, Whole, Run, None
  <2>3. ASSUME NEW q \in Run, There(final[q])
        PROVE  q <= r
    <3>1. pc[q] # "idle"
      <4>1. pc[q] = "idle" => final[q] = NoTree
        BY DEF LocalInv, SafeInv, CopyInv
      <4> QED
        BY <2>3, <4>1 DEF NoTree, There
    <3>2. ~(q > r)
      BY <3>1
    <3> QED
      BY <3>2, NumRunsAssumption DEF Run
  <2> QED
    BY <2>1, <2>2, <2>3, NewestIs
<1> QED
  BY <1>1, LocalInvariant, PTL

\* A cleanup that reports no error leaves no run behind that was already expired
\* when its invocation called sync (cleanup of LocalDirectoryStorageProvider).
THEOREM CleanupLeavesNothingUnreported ==
  ASSUME ~Overlap
  PROVE  Spec => CleanupReportsLeftovers
<1>1. TypeOK /\ LocalInv =>
        \A r \in Run :
          pc[r] \in {"unlink", "symlink"} /\ synced[r] /\ ~errors[r] =>
            \A q \in Run : There(final[q]) => ~BeforeCutoff(finished[q], finished[r])
  BY DEF LocalInv, LeftoverInv, Settling
<1>2. TypeOK /\ LocalInv =>
        [\A r \in Run :
           pc[r] \in {"unlink", "symlink"} /\ synced[r] /\ pc'[r] = "done" /\ ~errors[r] =>
             \A q \in Run : There(final[q]) => ~BeforeCutoff(finished[q], finished[r])]_vars
  BY <1>1
<1> QED
  BY <1>2, LocalInvariant, PTL DEF CleanupReportsLeftovers

-------------------------------------------------------------------------------
(***************************************************************************)
(* The refinement.                                                         *)
(***************************************************************************)

held == [r \in Run |-> HeldOf(r)]
vouched == {r \in Run : synced[r]}

LEMMA HeldFacts ==
  ASSUME TypeOK, NEW r \in Run
  PROVE  /\ held[r] = HeldOf(r)
         /\ held[r] = "new" <=> final[r].state = "new"
         /\ held[r] = "whole" <=> Whole(final[r])
         /\ There(final[r]) => held[r] \in {"whole", "rest"}
<1>1. held[r] = HeldOf(r)
  BY DEF held
<1>2. CASE final[r].state = "new"
  BY <1>1, <1>2 DEF HeldOf, Whole, There
<1>3. CASE final[r].state = "gone"
  BY <1>1, <1>3 DEF HeldOf, Whole, There
<1>4. CASE final[r].state \notin {"new", "gone"}
  <2>1. CASE Whole(final[r])
    BY <1>1, <1>4, <2>1 DEF HeldOf
  <2>2. CASE ~Whole(final[r])
    BY <1>1, <1>4, <2>2 DEF HeldOf
  <2> QED
    BY <1>4, <2>1, <2>2
<1> QED
  BY <1>1, <1>2, <1>3, <1>4

\* A step that neither publishes nor removes is a step of the abstract store only
\* when it stamps a run, vouches for one, or lets a day pass.
LEMMA HeldUnchanged ==
  ASSUME final' = final
  PROVE  held' = held
BY DEF held, HeldOf, Whole, There

\* A step that changes the directory of one run.
LEMMA HeldBecomes ==
  ASSUME TypeOK, NEW r \in Run, NEW tree, final' = [final EXCEPT ![r] = tree]
  PROVE  /\ held' = [held EXCEPT ![r] = HeldOf(r)']
         /\ final'[r] = tree
<1>1. final'[r] = tree /\ \A q \in Run \ {r} : final'[q] = final[q]
  BY DEF TypeOK
<1>2. \A q \in Run \ {r} : HeldOf(q)' = HeldOf(q)
  BY <1>1 DEF HeldOf, Whole, There
<1> QED
  BY <1>1, <1>2 DEF held

\* Every step of a successive invocation is a step of RunStore, or none.
LEMMA StepRefines ==
  ASSUME TypeOK, TypeOK', SafeInv, ~Overlap, [Next]_vars
  PROVE  [Abstract!Next]_(Abstract!vars)
<1> USE DEF Abstract!Next, Abstract!vars
<1>a. /\ held = [r \in Run |-> HeldOf(r)]
      /\ vouched = {r \in Run : synced[r]}
  BY DEF held, vouched
<1>1. CASE Tick
  <2>1. held' = held /\ vouched' = vouched
    BY <1>1, HeldUnchanged DEF Tick, tasks, vouched
  <2>2. Abstract!Tick
    BY <1>1, <2>1 DEF Abstract!Tick, Tick, tasks, held, vouched
  <2> QED
    BY <2>2
<1>2. ASSUME NEW r \in Run, BeginSync(r)
      PROVE  Abstract!Stamp(r)
  <2>1. held' = held /\ vouched' = vouched
    BY <1>2, HeldUnchanged DEF BeginSync, vouched
  <2>2. held[r] = "new"
    <3>1. final[r] = NoTree
      BY <1>2 DEF BeginSync, SafeInv, CopyInv
    <3> QED
      BY <3>1, HeldFacts DEF NoTree
  <2> QED
    BY <1>2, <2>1, <2>2 DEF Abstract!Stamp, BeginSync, held, vouched
<1>3. ASSUME NEW r \in Run, Move(r)
      PROVE  Abstract!Complete(r)
  <2>1. Whole(tmp[r])
    <3>1. tmp[r] = [state |-> "there", files |-> copied[r]] /\ copied[r] = Files
      BY <1>3 DEF Move, SafeInv, CopyInv
    <3> QED
      BY <3>1 DEF Whole, There
  <2>2. held[r] = "new"
    <3>1. final[r] = NoTree
      BY <1>3 DEF Move, SafeInv, CopyInv
    <3> QED
      BY <3>1, HeldFacts DEF NoTree
  <2>3. held' = [held EXCEPT ![r] = HeldOf(r)'] /\ final'[r] = tmp[r]
    BY <1>3, HeldBecomes DEF Move
  <2>4. HeldOf(r)' = "whole"
    BY <2>1, <2>3 DEF HeldOf, Whole, There
  <2>5. vouched' = vouched
    BY <1>3 DEF Move, vouched
  <2> QED
    BY <1>3, <2>2, <2>3, <2>4, <2>5
       DEF Abstract!Complete, Abstract!Becomes, Move, held, vouched
<1>4. ASSUME NEW r \in Run, SetLatest(r)
      PROVE  Abstract!Vouch(r)
  <2>1. held' = held
    BY <1>4, HeldUnchanged DEF SetLatest
  <2>2. held[r] = "whole"
    BY <1>4, HeldFacts DEF SetLatest, SafeInv, PublishedInv
  <2>3. vouched' = vouched \cup {r}
    <3>1. \A q \in Run : synced'[q] <=> (q = r \/ synced[q])
      BY <1>4 DEF SetLatest, TypeOK
    <3> QED
      BY <3>1 DEF vouched
  <2> QED
    BY <1>4, <2>1, <2>2, <2>3 DEF Abstract!Vouch, SetLatest, held, vouched
<1>5. ASSUME NEW r \in Run, RemoveFile(r) \/ RemoveDir(r)
      PROVE  \E v \in Run : Abstract!Retire(v)
  <2>1. PICK v \in Run :
          /\ Removing(r, v)
          /\ There(final[v])
          /\ \/ final' = [final EXCEPT ![v] = Removed]
             \/ \E f \in final[v].files : final' = [final EXCEPT ![v] = Without(@, {f})]
    BY <1>5 DEF RemoveFile, RemoveDir
  <2>2. Expired(v)
    BY <2>1, VictimFacts
  <2>3. held[v] \in {"whole", "rest"}
    BY <2>1, HeldFacts
  <2>4. PICK tree \in {Removed} \cup {Without(final[v], {f}) : f \in final[v].files} :
          final' = [final EXCEPT ![v] = tree]
    BY <2>1
  <2>5. held' = [held EXCEPT ![v] = HeldOf(v)'] /\ final'[v] = tree
    BY <2>4, HeldBecomes
  <2>6. HeldOf(v)' \in {"rest", "gone"}
    <3>1. CASE tree = Removed
      <4>1. final'[v].state = "gone"
        BY <2>5, <3>1 DEF Removed
      <4> QED
        BY <4>1 DEF HeldOf, Whole, There
    <3>2. CASE \E f \in final[v].files : tree = Without(final[v], {f})
      <4>1. final[v].files \subseteq Files
        BY FieldsType DEF TypeOK
      <4>2. tree.state = "there" /\ tree.files # Files
        BY <2>1, <3>2, <4>1 DEF Without, There
      <4> QED
        BY <2>5, <4>2 DEF HeldOf, Whole
    <3> QED
      BY <2>4, <3>1, <3>2
  <2>7. vouched' = vouched /\ now' = now /\ finished' = finished
    BY <1>5 DEF RemoveFile, RemoveDir, tasks, vouched
  <2>8. held' = [held EXCEPT ![v] = "rest"] \/ held' = [held EXCEPT ![v] = "gone"]
    BY <2>5, <2>6
  <2>9. \E c \in {"rest", "gone"} : Abstract!Becomes(v, c)
    BY <2>8 DEF Abstract!Becomes, held
  <2>10. Abstract!Expired(v)
    BY <2>2 DEF Abstract!Expired, Expired, Abstract!BeforeCutoff, BeforeCutoff
  <2> QED
    BY <2>3, <2>7, <2>9, <2>10 DEF Abstract!Retire, held, vouched
<1>6. ASSUME NEW r \in Run,
             \/ Start(r) \/ SyncFails(r) \/ UnlinkLatest(r) \/ (\E f \in Files : CopyFile(r, f))
             \/ NoCleanup(r) \/ PlanCleanup(r) \/ ListTemporary(r) \/ WipeEnter(r)
             \/ WipeUnlink(r) \/ WipeLeave(r) \/ WipeEnds(r) \/ RemoveFails(r) \/ Retain(r)
             \/ Crash(r)
      PROVE  UNCHANGED Abstract!vars
  <2>1. final' = final
    <3>1. CASE WipeUnlink(r)
      BY <3>1, WipeKeepsRuns
    <3> QED
      BY <1>6, <3>1 DEF Start, SyncFails, UnlinkLatest, CopyFile, NoCleanup, PlanCleanup,
         ListTemporary, WipeEnter, WipeLeave, WipeEnds, RemoveFails, Retain, Crash
  <2>2. held' = held
    BY <2>1, HeldUnchanged
  <2>3. UNCHANGED <<now, finished, synced>>
    BY <1>6 DEF Start, SyncFails, UnlinkLatest, CopyFile, NoCleanup, PlanCleanup, WipeUnlink,
         ListTemporary, WipeEnter, WipeLeave, WipeEnds, RemoveFails, Retain, Crash, tasks
  <2> QED
    BY <2>2, <2>3 DEF held
<1>7. CASE UNCHANGED vars
  <2>1. held' = held
    BY <1>7, HeldUnchanged DEF vars
  <2> QED
    BY <1>7, <2>1 DEF vars, tasks, held
<1>8. CASE \E r \in Run : Sync(r) \/ Cleanup(r) \/ Crash(r)
  <2>1. PICK r \in Run : Sync(r) \/ Cleanup(r) \/ Crash(r)
    BY <1>8
  <2>2. BeginSync(r) => \E v \in Run : Abstract!Stamp(v)
    BY <1>2
  <2>3. Move(r) => \E v \in Run : Abstract!Complete(v)
    BY <1>3
  <2>4. SetLatest(r) => \E v \in Run : Abstract!Vouch(v)
    BY <1>4
  <2>5. RemoveFile(r) \/ RemoveDir(r) => \E v \in Run : Abstract!Retire(v)
    BY <1>5
  <2>6. (\E v \in Run : \/ Abstract!Stamp(v) \/ Abstract!Complete(v) \/ Abstract!Vouch(v)
                        \/ Abstract!Retire(v)) => Abstract!Next
    BY DEF Abstract!Next, Abstract!Run, Run
  <2> HIDE DEF Abstract!Next, Abstract!vars
  <2> QED
    BY <1>6, <2>1, <2>2, <2>3, <2>4, <2>5, <2>6 DEF Sync, Cleanup
<1> QED
  BY <1>1, <1>7, <1>8 DEF Next

\* Successive invocations on a mounted directory implement RunStore (sync and
\* cleanup of LocalDirectoryStorageProvider).
THEOREM LocalStoreImplementsRunStore ==
  ASSUME ~Overlap
  PROVE  Spec => ImplementsRunStore
<1>1. Init => Abstract!Init
  <2> SUFFICES ASSUME Init
               PROVE  Abstract!Init
    OBVIOUS
  <2>1. \A r \in Run : HeldOf(r) = "new"
    <3> SUFFICES ASSUME NEW r \in Run
                 PROVE  HeldOf(r) = "new"
      OBVIOUS
    <3>1. final[r].state = "new"
      BY DEF Init, NoTree
    <3> QED
      BY <3>1 DEF HeldOf, Whole, There
  <2>2. {r \in Run : synced[r]} = {}
    BY DEF Init
  <2>3. [r \in Run |-> HeldOf(r)] = [r \in Run |-> "new"]
    BY <2>1
  <2> HIDE DEF HeldOf
  <2> QED
    BY <2>2, <2>3 DEF Abstract!Init, Init, Abstract!Run, Run
<1>2. TypeOK /\ LocalInv /\ TypeOK' /\ [Next]_vars => [Abstract!Next]_(Abstract!vars)
  BY StepRefines DEF LocalInv
<1> QED
  BY <1>1, <1>2, LocalInvariant, PTL DEF Spec, ImplementsRunStore, Abstract!Spec

\* The theorems about RunStore, of a mounted directory.
Store == INSTANCE RunStoreProofs WITH
  Atomic <- TRUE,
  content <- [r \in Run |-> HeldOf(r)],
  vouched <- {r \in Run : synced[r]}

\* A run for which sync returned success is complete in the mounted directory as long
\* as it is within the window, whatever fails or crashes, unless invocations overlap
\* (sync, cleanup).
THEOREM SyncedRunsStayWhole ==
  ASSUME ~Overlap
  PROVE  Spec => [](\A r \in Run : synced[r] => HeldOf(r) = "whole" \/ Expired(r))
<1>1. Store!Spec => []Store!VouchedRunsAreWhole
  BY Store!VouchedRunsStayWhole, NumRunsAssumption, MaxDayAssumption,
     RetentionDaysAssumption, PTL
<1>2. Abstract!Init => Store!Init
  BY DEF Abstract!Init, Store!Init, Abstract!Run, Store!Run
<1>3. [Abstract!Next]_(Abstract!vars) => [Store!Next]_(Store!vars)
  BY DEF Abstract!Next, Abstract!vars, Store!Next, Store!vars, Abstract!Tick, Store!Tick,
     Abstract!Run, Store!Run, Abstract!Stamp, Store!Stamp, Abstract!Appear, Store!Appear,
     Abstract!Complete, Store!Complete, Abstract!Vouch, Store!Vouch, Abstract!Retire,
     Store!Retire, Abstract!Becomes, Store!Becomes, Abstract!Expired, Store!Expired,
     Abstract!BeforeCutoff, Store!BeforeCutoff
<1>4. Store!VouchedRunsAreWhole =>
        \A r \in Run : synced[r] => HeldOf(r) = "whole" \/ Expired(r)
  BY DEF Store!VouchedRunsAreWhole, Store!Expired, Expired, Store!BeforeCutoff,
     BeforeCutoff
<1> QED
  BY <1>1, <1>2, <1>3, <1>4, LocalStoreImplementsRunStore, PTL
     DEF ImplementsRunStore, Abstract!Spec, Store!Spec
===============================================================================

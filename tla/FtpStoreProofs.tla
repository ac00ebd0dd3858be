---------------------------- MODULE FtpStoreProofs ----------------------------
(***************************************************************************)
(* Invocations that publish to an FTP server and clean it up keep the      *)
(* invariant of FtpStore, and with it implement RunStore: for any number   *)
(* of runs, of files and of days, and however the invocations overlap.     *)
(***************************************************************************)
EXTENDS FtpStore, TLAPS

-------------------------------------------------------------------------------
(***************************************************************************)
(* Types.                                                                  *)
(***************************************************************************)

\* A step keeps the types (all handlers of sync and cleanup).
LEMMA StepType ==
  ASSUME TypeOK, [Next]_vars
  PROVE  TypeOK'
<1>1. CASE UNCHANGED vars
  BY <1>1 DEF vars, tasks, server, TypeOK
<1>2. CASE Tick
  <2>1. now + 1 \in Day
    BY <1>2, MaxDayAssumption DEF Tick, TypeOK, Day
  <2> QED
    BY <1>2, <2>1 DEF Tick, tasks, server, TypeOK
<1>3. ASSUME NEW r \in Run, Start(r) \/ BeginSync(r) \/ MakeRunDir(r)
      PROVE  TypeOK'
  BY <1>3 DEF Start, BeginSync, MakeRunDir, Goto, Step, Syncing, tasks, server, TypeOK
<1>4. ASSUME NEW r \in Run, StoreBegin(r)
      PROVE  TypeOK'
  <2>1. sent[r] + 1 \in 0..NumFiles /\ {sent[r] + 1} \subseteq Files
    BY <1>4, NumFilesAssumption DEF StoreBegin, TypeOK, Files
  <2> QED
    BY <1>4, <2>1 DEF StoreBegin, TypeOK
<1>5. ASSUME NEW r \in Run, StoreEnd(r) \/ UploadEnds(r) \/ SyncFails(r)
      PROVE  TypeOK'
  BY <1>5 DEF StoreEnd, UploadEnds, SyncFails, Goto, Step, Syncing, tasks, server, TypeOK
<1>6. ASSUME NEW r \in Run, TruncateLatest(r) \/ WriteLatest(r)
      PROVE  TypeOK'
  <2>1. CASE TruncateLatest(r)
    BY <2>1 DEF TruncateLatest, Goto, Step, Syncing, Cleaning, tasks, TypeOK
  <2>2. CASE WriteLatest(r)
    BY <2>2 DEF WriteLatest, Goto, Step, TypeOK
  <2> QED
    BY <1>6, <2>1, <2>2
<1>7. ASSUME NEW r \in Run, NoCleanup(r) \/ ListRemoteRuns(r) \/ CleanupFails(r) \/ Crash(r)
      PROVE  TypeOK'
  <2>1. CASE NoCleanup(r) \/ Crash(r)
    BY <2>1 DEF NoCleanup, Crash, Goto, Step, tasks, server, TypeOK
  <2>2. CASE ListRemoteRuns(r)
    BY <2>2 DEF ListRemoteRuns, Goto, Step, Cleaning, server, TypeOK
  <2>3. CASE CleanupFails(r)
    BY <2>3 DEF CleanupFails, Goto, Step, server, TypeOK
  <2> QED
    BY <1>7, <2>1, <2>2, <2>3
<1>8. ASSUME NEW r \in Run, FetchManifest(r) \/ ManifestIsUnreadable(r)
      PROVE  TypeOK'
  <2>1. CASE FetchManifest(r)
    <3>1. PICK q \in unread[r] : /\ unread' = [unread EXCEPT ![r] = @ \ {q}]
                                /\ records' = [records EXCEPT ![r] = @ \cup {q}]
      BY <2>1 DEF FetchManifest
    <3>2. unread' \in [Run -> SUBSET Run] /\ records' \in [Run -> SUBSET Run]
      BY <3>1 DEF TypeOK
    <3> QED
      BY <2>1, <3>2 DEF FetchManifest, server, TypeOK
  <2>2. CASE ManifestIsUnreadable(r)
    BY <2>2 DEF ManifestIsUnreadable, server, TypeOK
  <2> QED
    BY <1>8, <2>1, <2>2
<1>9. ASSUME NEW r \in Run, BuildRetentionPlan(r)
      PROVE  TypeOK'
  <2>1. ExpiredRecords(r) \subseteq Run
    BY DEF ExpiredRecords, TypeOK
  <2> QED
    BY <1>9, <2>1 DEF BuildRetentionPlan, Goto, Step, Cleaning, server, TypeOK
<1>10. ASSUME NEW r \in Run, DeleteFile(r) \/ RemoveDir(r) \/ RemoveFails(r)
       PROVE  TypeOK'
  <2>1. CASE DeleteFile(r)
    <3>1. stored' \in [Run -> SUBSET Files] /\ cut' \in [Run -> SUBSET Files]
      BY <2>1 DEF DeleteFile, TypeOK
    <3> QED
      BY <2>1, <3>1 DEF DeleteFile, tasks, TypeOK
  <2>2. CASE RemoveDir(r)
    <3>1. dir' \in [Run -> {"new", "there", "gone"}] /\ victims' \in [Run -> SUBSET Run]
      BY <2>2 DEF RemoveDir, DropVictim, TypeOK
    <3> QED
      BY <2>2, <3>1 DEF RemoveDir, TypeOK
  <2>3. CASE RemoveFails(r)
    BY <2>3 DEF RemoveFails, DropVictim, server, TypeOK
  <2> QED
    BY <1>10, <2>1, <2>2, <2>3
<1>11. ASSUME NEW r \in Run, RetainNewest(r) \/ RetainNone(r)
       PROVE  TypeOK'
  BY <1>11 DEF RetainNewest, RetainNone, Goto, Step, Cleaning, tasks, server, TypeOK
<1> QED
  BY <1>1, <1>2, <1>3, <1>4, <1>5, <1>6, <1>7, <1>8, <1>9, <1>10, <1>11
     DEF Next, Sync, Cleanup

-------------------------------------------------------------------------------
(***************************************************************************)
(* The invariant.                                                          *)
(***************************************************************************)

\* The steps of an invocation after those that date its run.
Later(r) ==
  \/ MakeRunDir(r) \/ StoreBegin(r) \/ StoreEnd(r) \/ UploadEnds(r) \/ SyncFails(r)
  \/ TruncateLatest(r) \/ WriteLatest(r) \/ Cleanup(r) \/ Crash(r)

\* They are steps of an active run and date no run anew.
LEMMA LaterFacts ==
  ASSUME TypeOK, NEW r \in Run, Later(r)
  PROVE  /\ r \in Active
         /\ UNCHANGED <<now, born, finished>>
         /\ \A q \in Run \ {r} : pc'[q] = pc[q]
         /\ pc'[r] \notin {"idle", "staged", "connected"}
         /\ pc[r] = "staged" => pc'[r] \in {"done", "crashed"}
<1>1. CASE MakeRunDir(r) \/ StoreBegin(r) \/ StoreEnd(r) \/ UploadEnds(r)
  BY <1>1 DEF MakeRunDir, StoreBegin, StoreEnd, UploadEnds, Goto, Active, tasks, TypeOK
<1>2. CASE SyncFails(r) \/ TruncateLatest(r) \/ WriteLatest(r) \/ Crash(r)
  BY <1>2 DEF SyncFails, TruncateLatest, WriteLatest, Crash, Goto, Active, Syncing, tasks,
     TypeOK
<1>3. CASE NoCleanup(r) \/ ListRemoteRuns(r) \/ FetchManifest(r) \/ ManifestIsUnreadable(r)
  BY <1>3 DEF NoCleanup, ListRemoteRuns, FetchManifest, ManifestIsUnreadable, Goto, Active,
     tasks, TypeOK
<1>4. CASE BuildRetentionPlan(r) \/ RetainNewest(r) \/ RetainNone(r) \/ CleanupFails(r)
  BY <1>4 DEF BuildRetentionPlan, RetainNewest, RetainNone, CleanupFails, Cleaning, Goto,
     Active, tasks, TypeOK
<1>5. CASE DeleteFile(r) \/ RemoveDir(r) \/ RemoveFails(r)
  BY <1>5 DEF DeleteFile, RemoveDir, RemoveFails, Removing, Active, tasks, TypeOK
<1> QED
  BY <1>1, <1>2, <1>3, <1>4, <1>5 DEF Later, Cleanup

\* The dates: only Start, BeginSync and Tick bear on them.
LEMMA StepRecent ==
  ASSUME TypeOK, SafeInv, [Next]_vars
  PROVE  \A q \in Run : RecentInv(q)'
<1> SUFFICES ASSUME NEW q \in Run
             PROVE  RecentInv(q)'
  OBVIOUS
<1>0. RecentInv(q) /\ born[q] \in Int /\ now \in Int
  BY DEF SafeInv, TypeOK, Day
<1>1. CASE UNCHANGED vars
  BY <1>0, <1>1 DEF vars, tasks, RecentInv, Active
<1>2. CASE Tick
  <2>1. q \in Active => now + 1 - born[q] <= RetentionDays
    BY <1>2 DEF Tick
  <2>2. UNCHANGED <<pc, born, finished>> /\ now' = now + 1
    BY <1>2 DEF Tick, tasks
  <2> QED
    BY <1>0, <2>1, <2>2, RetentionDaysAssumption DEF RecentInv, Active, BeforeCutoff
<1>3. ASSUME NEW r \in Run, Start(r)
      PROVE  RecentInv(q)'
  <2>1. now <= now /\ ~BeforeCutoff(now, now)
    BY <1>0, RetentionDaysAssumption DEF BeforeCutoff
  <2> QED
    BY <1>0, <1>3, <2>1 DEF Start, Goto, RecentInv, Active, TypeOK
<1>4. ASSUME NEW r \in Run, BeginSync(r)
      PROVE  RecentInv(q)'
  BY <1>0, <1>4 DEF BeginSync, Goto, RecentInv, Active, TypeOK
<1>5. ASSUME NEW r \in Run, Later(r)
      PROVE  RecentInv(q)'
  BY <1>0, <1>5, LaterFacts DEF RecentInv, Active
<1> QED
  BY <1>1, <1>2, <1>3, <1>4, <1>5 DEF Next, Sync, Later

\* A run of which the server holds something keeps its date, and expires for good.
LEMMA ExpiresForGood ==
  ASSUME TypeOK, SafeInv, [Next]_vars, NEW q \in Run, dir[q] # "new"
  PROVE  /\ dir'[q] # "new"
         /\ Expired(q) => Expired(q)'
<1>1. finished[q] \in Int /\ now \in Int
  BY DEF TypeOK, Day
<1>2. CASE UNCHANGED vars
  BY <1>2 DEF vars, tasks, server, Expired
<1>3. CASE Tick
  <2>1. UNCHANGED <<finished, dir>> /\ now' = now + 1
    BY <1>3 DEF Tick, tasks, server
  <2> QED
    BY <1>1, <2>1, RetentionDaysAssumption DEF Expired, BeforeCutoff
<1>4. ASSUME NEW r \in Run, Start(r) \/ BeginSync(r)
      PROVE  UNCHANGED dir /\ finished'[q] = finished[q] /\ now' = now
  BY <1>4 DEF Start, BeginSync, server, TypeOK
<1>5. ASSUME NEW r \in Run, Later(r)
      PROVE  dir'[q] # "new"
  <2>1. CASE MakeRunDir(r) \/ RemoveDir(r)
    BY <2>1 DEF MakeRunDir, RemoveDir, TypeOK
  <2>2. CASE ~(MakeRunDir(r) \/ RemoveDir(r))
    <3>1. dir' = dir
      BY <1>5, <2>2 DEF Later, Cleanup, StoreBegin, StoreEnd, UploadEnds, SyncFails,
         TruncateLatest, WriteLatest, NoCleanup, ListRemoteRuns, FetchManifest,
         ManifestIsUnreadable, BuildRetentionPlan, DeleteFile, RemoveFails, RetainNewest,
         RetainNone, CleanupFails, Crash, server
    <3> QED
      BY <3>1
  <2> QED
    BY <2>1, <2>2
<1>6. ASSUME NEW r \in Run, Later(r)
      PROVE  Expired(q) => Expired(q)'
  BY <1>6, LaterFacts DEF Expired
<1> QED
  BY <1>2, <1>3, <1>4, <1>5, <1>6 DEF Next, Sync, Later, Expired

\* What the plans hold: only FetchManifest and BuildRetentionPlan add to it.
LEMMA StepPlan ==
  ASSUME TypeOK, SafeInv, [Next]_vars
  PROVE  \A q \in Run : PlanInv(q)'
<1> SUFFICES ASSUME NEW q \in Run
             PROVE  PlanInv(q)'
  OBVIOUS
<1>1. \A p \in records[q] \cup victims[q] : p \in Run /\ dir[p] # "new"
  BY DEF SafeInv, PlanInv, TypeOK
<1>2. \A v \in victims[q] : Expired(v)
  BY DEF SafeInv, PlanInv
<1>3. CASE records'[q] \subseteq records[q] /\ victims'[q] \subseteq victims[q]
  BY <1>1, <1>2, <1>3, ExpiresForGood DEF PlanInv
<1>4. CASE UNCHANGED vars \/ Tick
  <2>1. UNCHANGED <<records, victims>>
    BY <1>4 DEF vars, tasks, Tick
  <2> QED
    BY <1>3, <2>1
<1>5. ASSUME NEW r \in Run, FetchManifest(r)
      PROVE  PlanInv(q)'
  <2>1. PICK p \in unread[r] :
          ManifestFile \in stored[p] /\ records' = [records EXCEPT ![r] = @ \cup {p}]
    BY <1>5 DEF FetchManifest
  <2>2. p \in Run /\ dir[p] # "new"
    BY <2>1 DEF SafeInv, UploadInv, TypeOK
  <2>3. UNCHANGED <<now, finished, victims, dir>>
    BY <1>5 DEF FetchManifest, server
  <2>4. records'[q] \subseteq records[q] \cup {p}
    BY <2>1 DEF TypeOK
  <2> QED
    BY <1>1, <1>2, <2>2, <2>3, <2>4 DEF PlanInv, Expired
<1>6. ASSUME NEW r \in Run, BuildRetentionPlan(r)
      PROVE  PlanInv(q)'
  <2>1. UNCHANGED <<now, finished, dir>>
    BY <1>6 DEF BuildRetentionPlan, server
  <2>2. records'[q] \subseteq records[q]
    BY <1>6 DEF BuildRetentionPlan, TypeOK
  <2>3. \A v \in victims'[q] : v \in victims[q] \/ (v \in records[q] /\ Expired(v))
    <3>1. CASE q = r
      <4>1. victims'[r] = ExpiredRecords(r)
        BY <1>6 DEF BuildRetentionPlan, TypeOK
      <4> QED
        BY <3>1, <4>1 DEF ExpiredRecords, Expired
    <3>2. CASE q # r
      BY <1>6, <3>2 DEF BuildRetentionPlan, TypeOK
    <3> QED
      BY <3>1, <3>2
  <2> QED
    BY <1>1, <1>2, <2>1, <2>2, <2>3 DEF PlanInv, Expired
<1>7. ASSUME NEW r \in Run, RemoveDir(r) \/ RemoveFails(r)
      PROVE  PlanInv(q)'
  <2>1. PICK v \in Run : victims' = [victims EXCEPT ![r] = @ \ {v}]
    BY <1>7 DEF RemoveDir, RemoveFails, DropVictim
  <2>2. records' = records /\ victims'[q] \subseteq victims[q]
    BY <1>7, <2>1 DEF RemoveDir, RemoveFails, TypeOK
  <2> QED
    BY <1>3, <2>2
<1>8. ASSUME NEW r \in Run,
             Sync(r) \/ NoCleanup(r) \/ ListRemoteRuns(r) \/ ManifestIsUnreadable(r)
      PROVE  UNCHANGED <<records, victims>>
  BY <1>8 DEF Sync, Start, BeginSync, MakeRunDir, StoreBegin, StoreEnd, UploadEnds,
     SyncFails, TruncateLatest, WriteLatest, NoCleanup, ListRemoteRuns,
     ManifestIsUnreadable, tasks
<1>9. ASSUME NEW r \in Run,
             DeleteFile(r) \/ RetainNewest(r) \/ RetainNone(r) \/ CleanupFails(r) \/ Crash(r)
      PROVE  UNCHANGED <<records, victims>>
  BY <1>9 DEF DeleteFile, RetainNewest, RetainNone, CleanupFails, Crash, tasks
<1> QED
  BY <1>3, <1>4, <1>5, <1>6, <1>7, <1>8, <1>9 DEF Next, Cleanup

\* A run whose files are removed is over, expired, and was on the server.
LEMMA VictimFacts ==
  ASSUME TypeOK, SafeInv, NEW r \in Run, NEW v \in Run, v \in victims[r]
  PROVE  Expired(v) /\ v \notin Active /\ dir[v] # "new" /\ pc[v] # "idle"
<1>1. Expired(v) /\ dir[v] # "new"
  BY DEF SafeInv, PlanInv
<1>2. pc[v] \notin {"idle", "staged", "connected"}
  BY <1>1 DEF SafeInv, UploadInv
<1>3. v \in Active => born[v] <= finished[v] /\ ~BeforeCutoff(born[v], now)
  BY <1>2 DEF SafeInv, RecentInv
<1>4. born[v] \in Int /\ finished[v] \in Int /\ now \in Int
  BY DEF TypeOK, Day
<1>5. v \notin Active
  BY <1>1, <1>3, <1>4, RetentionDaysAssumption DEF Expired, BeforeCutoff
<1> QED
  BY <1>1, <1>2, <1>5

\* A step that changes nothing on the server, and leads no run to a stage for which
\* the server does not hold enough.
LEMMA SameServer ==
  ASSUME TypeOK, SafeInv, NEW q \in Run,
         dir'[q] = dir[q], stored'[q] = stored[q], cut'[q] = cut[q], sent'[q] = sent[q],
         \/ pc'[q] = pc[q]
         \/ pc'[q] \in {"done", "crashed"}
         \/ q \in Active /\ pc[q] \notin {"staged", "connected", "upload"}
            /\ pc'[q] \notin {"idle", "staged", "connected", "upload"}
  PROVE  UploadInv(q)'
<1>1. UploadInv(q)
  BY DEF SafeInv
<1> QED
  BY <1>1 DEF UploadInv, Active

\* The files: the steps of the upload, and those that remove files.
LEMMA StepUpload ==
  ASSUME TypeOK, SafeInv, [Next]_vars
  PROVE  \A q \in Run : UploadInv(q)'
<1> SUFFICES ASSUME NEW q \in Run
             PROVE  UploadInv(q)'
  OBVIOUS
<1>0. UploadInv(q) /\ sent[q] \in 0..NumFiles
  BY DEF SafeInv, TypeOK
<1>1. CASE UNCHANGED vars \/ Tick
  BY <1>1, SameServer DEF vars, tasks, server, Tick
<1>2. ASSUME NEW r \in Run, Start(r) \/ BeginSync(r)
      PROVE  UploadInv(q)'
  BY <1>0, <1>2 DEF Start, BeginSync, Goto, UploadInv, Active, server, TypeOK
<1>3. ASSUME NEW r \in Run, MakeRunDir(r)
      PROVE  UploadInv(q)'
  <2>1. CASE q = r
    <3>1. sent'[q] = 0 /\ dir'[q] = "there" /\ stored'[q] = {} /\ cut'[q] = {}
      BY <1>0, <1>3, <2>1 DEF MakeRunDir, UploadInv, tasks, TypeOK
    <3>2. pc'[q] = "upload"
      BY <1>3, <2>1 DEF MakeRunDir, Goto, TypeOK
    <3>3. 1..0 = {}
      OBVIOUS
    <3> QED
      BY <3>1, <3>2, <3>3 DEF UploadInv
  <2>2. CASE q # r
    BY <1>3, <2>2, SameServer DEF MakeRunDir, Goto, tasks, TypeOK
  <2> QED
    BY <2>1, <2>2
<1>4. ASSUME NEW r \in Run, StoreBegin(r)
      PROVE  UploadInv(q)'
  <2>1. CASE q = r
    <3>1. pc'[q] = "upload" /\ dir'[q] = "there" /\ stored'[q] = 1..sent[q]
      BY <1>0, <1>4, <2>1 DEF StoreBegin, UploadInv
    <3>2. sent'[q] = sent[q] + 1 /\ cut'[q] = {sent[q] + 1}
      BY <1>4, <2>1 DEF StoreBegin, TypeOK
    <3>3. 1..sent[q] = (1..(sent[q] + 1)) \ {sent[q] + 1}
      BY <1>0
    <3>4. (1..sent[q]) \cup {sent[q] + 1} \subseteq 1..(sent[q] + 1)
      BY <1>0
    <3> QED
      BY <3>1, <3>2, <3>3, <3>4 DEF UploadInv
  <2>2. CASE q # r
    BY <1>4, <2>2, SameServer DEF StoreBegin, TypeOK
  <2> QED
    BY <2>1, <2>2
<1>5. ASSUME NEW r \in Run, StoreEnd(r)
      PROVE  UploadInv(q)'
  <2>1. CASE q = r
    <3>1. pc'[q] = "upload" /\ dir'[q] = "there" /\ sent'[q] = sent[q] /\ cut'[q] = {}
      BY <1>0, <1>5, <2>1 DEF StoreEnd, UploadInv, tasks, TypeOK
    <3>2. stored'[q] = stored[q] \cup cut[q]
      BY <1>5, <2>1 DEF StoreEnd, TypeOK
    <3>3. stored[q] = (1..sent[q]) \ cut[q] /\ stored[q] \cup cut[q] \subseteq 1..sent[q]
      BY <1>0, <1>5, <2>1 DEF StoreEnd, UploadInv
    <3>4. stored'[q] = 1..sent[q]
      BY <3>2, <3>3
    <3> QED
      BY <3>1, <3>4 DEF UploadInv
  <2>2. CASE q # r
    BY <1>5, <2>2, SameServer DEF StoreEnd, tasks, TypeOK
  <2> QED
    BY <2>1, <2>2
<1>6. ASSUME NEW r \in Run, UploadEnds(r)
      PROVE  UploadInv(q)'
  <2>1. CASE q = r
    <3>1. dir[q] = "there" /\ stored[q] = Files
      BY <1>0, <1>6, <2>1 DEF UploadEnds, UploadInv, Files
    <3>2. pc'[q] = "latest" /\ UNCHANGED <<dir, stored, cut, sent>>
      BY <1>6, <2>1 DEF UploadEnds, Goto, server, TypeOK
    <3> QED
      BY <1>0, <3>1, <3>2 DEF UploadInv
  <2>2. CASE q # r
    BY <1>6, <2>2, SameServer DEF UploadEnds, Goto, server, TypeOK
  <2> QED
    BY <2>1, <2>2
<1>7. ASSUME NEW r \in Run, SyncFails(r) \/ TruncateLatest(r) \/ WriteLatest(r) \/ Crash(r)
      PROVE  UploadInv(q)'
  BY <1>7, SameServer DEF SyncFails, TruncateLatest, WriteLatest, Crash, Goto, Active, tasks,
     server, TypeOK
<1>8. ASSUME NEW r \in Run, NoCleanup(r) \/ ListRemoteRuns(r) \/ FetchManifest(r)
             \/ ManifestIsUnreadable(r) \/ BuildRetentionPlan(r)
      PROVE  UploadInv(q)'
  BY <1>8, SameServer DEF NoCleanup, ListRemoteRuns, FetchManifest, ManifestIsUnreadable,
     BuildRetentionPlan, Goto, Active, tasks, server, TypeOK
<1>9. ASSUME NEW r \in Run, RemoveFails(r) \/ RetainNewest(r) \/ RetainNone(r) \/ CleanupFails(r)
      PROVE  UploadInv(q)'
  BY <1>9, SameServer DEF RemoveFails, RetainNewest, RetainNone, CleanupFails, Cleaning,
     Goto, Active, tasks, server, TypeOK
<1>10. ASSUME NEW r \in Run, DeleteFile(r) \/ RemoveDir(r)
       PROVE  UploadInv(q)'
  <2>1. PICK v \in Run :
          /\ Removing(r, v)
          /\ \A p \in Run \ {v} : dir'[p] = dir[p] /\ stored'[p] = stored[p] /\ cut'[p] = cut[p]
          /\ stored'[v] \subseteq stored[v] /\ cut'[v] \subseteq cut[v]
          /\ \/ dir'[v] = dir[v]
             \/ dir'[v] = "gone" /\ stored[v] \cup cut[v] = {}
    BY <1>10 DEF DeleteFile, RemoveDir, TypeOK
  <2>2. UNCHANGED <<pc, sent>>
    BY <1>10 DEF DeleteFile, RemoveDir, tasks
  <2>3. CASE q = v
    <3>1. q \notin Active /\ pc[q] # "idle"
      BY <2>1, <2>3, VictimFacts DEF Removing
    <3>2. pc'[q] \in {"done", "crashed"} /\ q \notin Active'
      BY <2>2, <3>1 DEF Active, TypeOK
    <3> QED
      BY <1>0, <2>1, <2>2, <2>3, <3>2 DEF UploadInv
  <2>4. CASE q # v
    BY <2>1, <2>2, <2>4, SameServer
  <2> QED
    BY <2>3, <2>4
<1> QED
  BY <1>1, <1>2, <1>3, <1>4, <1>5, <1>6, <1>7, <1>8, <1>9, <1>10 DEF Next, Sync, Cleanup

-------------------------------------------------------------------------------
(***************************************************************************)
(* What cleanup leaves.                                                    *)
(***************************************************************************)

\* An invocation leaves the state of the others alone.
LEMMA OthersAlone ==
  ASSUME TypeOK, NEW r \in Run, Start(r) \/ BeginSync(r) \/ Later(r), NEW q \in Run, q # r
  PROVE  /\ pc'[q] = pc[q]
         /\ synced'[q] = synced[q]
         /\ unread'[q] = unread[q]
         /\ records'[q] = records[q]
         /\ victims'[q] = victims[q]
         /\ errors'[q] = errors[q]
         /\ target'[q] = target[q]
         /\ finished'[q] = finished[q]
<1>1. CASE Start(r) \/ BeginSync(r) \/ MakeRunDir(r) \/ StoreBegin(r) \/ StoreEnd(r)
  BY <1>1 DEF Start, BeginSync, MakeRunDir, StoreBegin, StoreEnd, Goto, tasks, TypeOK
<1>2. CASE UploadEnds(r) \/ SyncFails(r) \/ TruncateLatest(r) \/ WriteLatest(r) \/ Crash(r)
  BY <1>2 DEF UploadEnds, SyncFails, TruncateLatest, WriteLatest, Crash, Goto, tasks, TypeOK
<1>3. CASE NoCleanup(r) \/ ListRemoteRuns(r) \/ FetchManifest(r) \/ ManifestIsUnreadable(r)
  BY <1>3 DEF NoCleanup, ListRemoteRuns, FetchManifest, ManifestIsUnreadable, Goto, tasks,
     TypeOK
<1>4. CASE BuildRetentionPlan(r) \/ RetainNewest(r) \/ RetainNone(r) \/ CleanupFails(r)
  BY <1>4 DEF BuildRetentionPlan, RetainNewest, RetainNone, CleanupFails, Goto, tasks, TypeOK
<1>5. CASE DeleteFile(r) \/ RemoveDir(r) \/ RemoveFails(r)
  BY <1>5 DEF DeleteFile, RemoveDir, RemoveFails, DropVictim, tasks, TypeOK
<1> QED
  BY <1>1, <1>2, <1>3, <1>4, <1>5 DEF Later, Cleanup

\* Only the upload adds files, and the run it uploads is recent.
LEMMA OldShrinks ==
  ASSUME TypeOK, SafeInv, NEW r \in Run, Later(r), NEW p \in Run, NEW q \in Run,
         finished[q] <= now, OldRemains(p, q)'
  PROVE  OldRemains(p, q)
<1>1. r \in Active /\ UNCHANGED <<now, born, finished>>
  BY LaterFacts
<1>2. BeforeCutoff(born[p], finished[q])
  BY <1>1 DEF OldRemains
<1>3. p # r
  <2>1. ~BeforeCutoff(born[r], now)
    BY <1>1 DEF SafeInv, RecentInv
  <2>2. born[p] \in Int /\ finished[q] \in Int /\ now \in Int
    BY DEF TypeOK, Day
  <2> QED
    BY <1>2, <2>1, <2>2, RetentionDaysAssumption DEF BeforeCutoff
<1>4. stored'[p] \cup cut'[p] \subseteq stored[p] \cup cut[p]
  <2>1. CASE StoreBegin(r) \/ StoreEnd(r)
    BY <1>3, <2>1 DEF StoreBegin, StoreEnd, TypeOK
  <2>2. CASE DeleteFile(r)
    BY <2>2 DEF DeleteFile, TypeOK
  <2>3. CASE ~(StoreBegin(r) \/ StoreEnd(r) \/ DeleteFile(r))
    <3>1. UNCHANGED <<stored, cut>>
      BY <2>3 DEF Later, Cleanup, MakeRunDir, UploadEnds, SyncFails, TruncateLatest,
         WriteLatest, NoCleanup, ListRemoteRuns, FetchManifest, ManifestIsUnreadable,
         BuildRetentionPlan, RemoveDir, RemoveFails, RetainNewest, RetainNone, CleanupFails,
         Crash, server
    <3> QED
      BY <3>1
  <2> QED
    BY <2>1, <2>2, <2>3
<1> QED
  BY <1>2, <1>4 DEF OldRemains

\* The two calls of _update_latest are told apart by what sync returned.
LEMMA StepSynced ==
  ASSUME TypeOK, \A q \in Run : SyncedInv(q), [Next]_vars
  PROVE  \A q \in Run : SyncedInv(q)'
<1> SUFFICES ASSUME NEW q \in Run
             PROVE  SyncedInv(q)'
  OBVIOUS
<1>0. SyncedInv(q)
  OBVIOUS
<1>1. CASE UNCHANGED vars \/ Tick
  BY <1>0, <1>1 DEF vars, tasks, Tick, SyncedInv
<1>2. ASSUME NEW r \in Run, Start(r) \/ BeginSync(r) \/ Later(r), q # r
      PROVE  SyncedInv(q)'
  BY <1>0, <1>2, OthersAlone DEF SyncedInv
<1>3. CASE Start(q) \/ BeginSync(q) \/ MakeRunDir(q) \/ StoreBegin(q) \/ StoreEnd(q)
  BY <1>0, <1>3 DEF Start, BeginSync, MakeRunDir, StoreBegin, StoreEnd, Goto, tasks, TypeOK,
     SyncedInv, Syncing, Cleaning
<1>4. CASE UploadEnds(q) \/ SyncFails(q) \/ TruncateLatest(q) \/ WriteLatest(q) \/ Crash(q)
  BY <1>0, <1>4 DEF UploadEnds, SyncFails, TruncateLatest, WriteLatest, Crash, Goto, tasks,
     TypeOK, SyncedInv, Syncing, Cleaning
<1>5. CASE NoCleanup(q) \/ ListRemoteRuns(q) \/ FetchManifest(q) \/ ManifestIsUnreadable(q)
  BY <1>0, <1>5 DEF NoCleanup, ListRemoteRuns, FetchManifest, ManifestIsUnreadable, Goto,
     tasks, TypeOK, SyncedInv, Syncing, Cleaning
<1>6. CASE BuildRetentionPlan(q) \/ RetainNewest(q) \/ RetainNone(q) \/ CleanupFails(q)
  BY <1>0, <1>6 DEF BuildRetentionPlan, RetainNewest, RetainNone, CleanupFails, Goto, tasks,
     TypeOK, SyncedInv, Syncing, Cleaning
<1>7. CASE DeleteFile(q) \/ RemoveDir(q) \/ RemoveFails(q)
  BY <1>0, <1>7 DEF DeleteFile, RemoveDir, RemoveFails, tasks, SyncedInv
<1> QED
  BY <1>1, <1>2, <1>3, <1>4, <1>5, <1>6, <1>7 DEF Next, Sync, Cleanup, Later

\* What was there and old when sync began is listed, read or an error; read, it is
\* planned to be removed or retained; planned to be removed, it is, or an error.
LEMMA StepLeftover ==
  ASSUME TypeOK, SafeInv, \A q \in Run : LeftoverInv(q) /\ SyncedInv(q), [Next]_vars
  PROVE  \A q \in Run : LeftoverInv(q)'
<1> SUFFICES ASSUME NEW q \in Run
             PROVE  LeftoverInv(q)'
  OBVIOUS
<1>0. /\ LeftoverInv(q) /\ SyncedInv(q) /\ now \in Int
      /\ \A p \in Run : born[p] \in Int /\ finished[p] \in Int
  BY DEF TypeOK, Day
<1>1. CASE UNCHANGED vars
  BY <1>0, <1>1 DEF vars, tasks, server, LeftoverInv, OldRemains, Retained
<1>2. CASE Tick
  BY <1>0, <1>2 DEF Tick, tasks, server, LeftoverInv, OldRemains, Retained
<1>3. ASSUME NEW r \in Run, Start(r) \/ BeginSync(r)
      PROVE  LeftoverInv(q)'
  <2>1. stored[r] \cup cut[r] = {}
    <3>1. stored[r] \cup cut[r] \subseteq 1..sent[r] /\ sent[r] = 0
      BY <1>3 DEF Start, BeginSync, SafeInv, UploadInv
    <3>2. 1..0 = {}
      OBVIOUS
    <3> QED
      BY <3>1, <3>2
  <2>2. UNCHANGED <<now, stored, cut>> /\ pc'[r] \in {"staged", "connected"}
        /\ finished'[r] \in {finished[r], now}
    BY <1>3 DEF Start, BeginSync, Goto, server, TypeOK
  <2>3. \A p \in Run \ {r} : born'[p] = born[p] /\ finished'[p] = finished[p]
    BY <1>3 DEF Start, BeginSync, TypeOK
  <2>4. CASE q = r
    BY <1>0, <2>2, <2>4 DEF LeftoverInv, Settling
  <2>5. CASE q # r
    <3>1. \A p \in Run : OldRemains(p, q)' => OldRemains(p, q) /\ p # r
      BY <2>1, <2>2, <2>3, <2>5 DEF OldRemains
    <3>2. /\ pc'[q] = pc[q] /\ unread'[q] = unread[q] /\ records'[q] = records[q]
          /\ victims'[q] = victims[q] /\ errors'[q] = errors[q] /\ finished'[q] = finished[q]
      BY <1>3, <2>5, OthersAlone
    <3>3. \A p \in Run \ {r} : Retained(p, q) => Retained(p, q)'
      BY <2>3, <3>2 DEF Retained
    <3> QED
      BY <1>0, <2>2, <3>1, <3>2, <3>3 DEF LeftoverInv
  <2> QED
    BY <2>4, <2>5
<1>4. ASSUME NEW r \in Run, Later(r)
      PROVE  /\ UNCHANGED <<now, born, finished>>
             /\ \A p \in Run : OldRemains(p, q)' => OldRemains(p, q)
  <2>1. finished[q] <= now
    BY <1>0 DEF LeftoverInv
  <2> QED
    BY <1>4, <2>1, LaterFacts, OldShrinks
<1>5. ASSUME NEW r \in Run, Later(r),
             pc'[q] = pc[q], unread'[q] = unread[q], records'[q] = records[q],
             victims'[q] = victims[q], errors'[q] = errors[q]
      PROVE  LeftoverInv(q)'
  BY <1>0, <1>4, <1>5 DEF LeftoverInv, Retained
<1>6. ASSUME NEW r \in Run, Later(r), q # r
      PROVE  LeftoverInv(q)'
  BY <1>5, <1>6, OthersAlone
<1>7. ASSUME Later(q), pc'[q] \notin {"inventory", "remove"} \cup Settling
      PROVE  LeftoverInv(q)'
  BY <1>0, <1>4, <1>7 DEF LeftoverInv
<1>8. CASE MakeRunDir(q) \/ UploadEnds(q) \/ SyncFails(q) \/ WriteLatest(q) \/ NoCleanup(q)
           \/ RetainNone(q) \/ CleanupFails(q) \/ Crash(q)
  <2>1. pc'[q] \notin {"inventory", "remove"} \cup Settling
    BY <1>8 DEF MakeRunDir, UploadEnds, SyncFails, WriteLatest, NoCleanup, RetainNone,
       CleanupFails, Crash, Goto, Settling, TypeOK
  <2> QED
    BY <1>7, <1>8, <2>1 DEF Later, Cleanup
<1>9. CASE StoreBegin(q) \/ StoreEnd(q) \/ DeleteFile(q)
  BY <1>5, <1>9 DEF StoreBegin, StoreEnd, DeleteFile, Later, Cleanup, tasks
<1>10. CASE TruncateLatest(q)
  <2>1. UNCHANGED <<unread, records, victims, errors>>
    BY <1>10 DEF TruncateLatest, tasks
  <2>2. CASE synced[q]
    <3>1. pc[q] \in Settling /\ pc'[q] = "cleanup_torn"
      BY <1>0, <1>10, <2>2 DEF TruncateLatest, Goto, SyncedInv, Syncing, Settling, TypeOK
    <3>2. UNCHANGED finished /\ now' = now /\ \A p \in Run : OldRemains(p, q)' => OldRemains(p, q)
      BY <1>4, <1>10 DEF Later
    <3> QED
      BY <1>0, <2>1, <3>1, <3>2 DEF LeftoverInv, Retained, Settling
  <2>3. CASE ~synced[q]
    <3>1. pc'[q] = "torn"
      BY <1>10, <2>3 DEF TruncateLatest, Goto, TypeOK
    <3> QED
      BY <1>7, <1>10, <3>1 DEF Later, Settling
  <2> QED
    BY <2>2, <2>3
<1>11. CASE ListRemoteRuns(q)
  <2>1. \A p \in Run : OldRemains(p, q) => dir[p] = "there"
    BY DEF OldRemains, SafeInv, UploadInv
  <2>2. pc'[q] = "inventory" /\ unread'[q] = {p \in Run : dir[p] = "there"}
    BY <1>11 DEF ListRemoteRuns, Goto, TypeOK
  <2>3. UNCHANGED finished /\ now' = now /\ \A p \in Run : OldRemains(p, q)' => OldRemains(p, q)
    BY <1>4, <1>11 DEF Later, Cleanup
  <2> QED
    BY <1>0, <2>1, <2>2, <2>3 DEF LeftoverInv, Settling
<1>12. CASE FetchManifest(q) \/ ManifestIsUnreadable(q)
  <2>1. pc[q] = "inventory" /\ pc' = pc
    BY <1>12 DEF FetchManifest, ManifestIsUnreadable
  <2>2. errors'[q] \/ (errors'[q] = errors[q] /\
                       unread'[q] \cup records'[q] = unread[q] \cup records[q])
    <3>1. CASE FetchManifest(q)
      <4>1. PICK p \in unread[q] : /\ unread' = [unread EXCEPT ![q] = @ \ {p}]
                                   /\ records' = [records EXCEPT ![q] = @ \cup {p}]
        BY <3>1 DEF FetchManifest
      <4> QED
        BY <3>1, <4>1 DEF FetchManifest, TypeOK
    <3>2. CASE ManifestIsUnreadable(q)
      BY <3>2 DEF ManifestIsUnreadable, TypeOK
    <3> QED
      BY <1>12, <3>1, <3>2
  <2>3. UNCHANGED finished /\ now' = now /\ \A p \in Run : OldRemains(p, q)' => OldRemains(p, q)
    BY <1>4, <1>12 DEF Later, Cleanup
  <2> QED
    BY <1>0, <2>1, <2>2, <2>3 DEF LeftoverInv, Settling
<1>13. CASE BuildRetentionPlan(q)
  <2>1. /\ pc[q] = "inventory" /\ unread[q] = {} /\ pc'[q] \in {"done", "remove"}
        /\ victims'[q] = ExpiredRecords(q) /\ records'[q] = records[q] \ ExpiredRecords(q)
        /\ errors' = errors
    BY <1>13 DEF BuildRetentionPlan, Goto, TypeOK
  <2>2. UNCHANGED finished /\ now' = now /\ \A p \in Run : OldRemains(p, q)' => OldRemains(p, q)
    BY <1>4, <1>13 DEF Later, Cleanup
  <2>3. \A p \in records[q] : p \in ExpiredRecords(q) \/ Retained(p, q)'
    <3> SUFFICES ASSUME NEW p \in records[q], p \notin ExpiredRecords(q)
                 PROVE  Retained(p, q)'
      OBVIOUS
    <3>1. p \in Run /\ ~BeforeCutoff(finished[p], now) /\ finished[q] <= now
      BY <1>0 DEF ExpiredRecords, TypeOK, LeftoverInv
    <3>2. ~BeforeCutoff(finished[p], finished[q])
      BY <1>0, <3>1, RetentionDaysAssumption DEF BeforeCutoff
    <3> QED
      BY <2>1, <2>2, <3>2 DEF Retained
  <2> QED
    BY <1>0, <2>1, <2>2, <2>3 DEF LeftoverInv, Settling
<1>14. CASE RemoveDir(q) \/ RemoveFails(q)
  <2>1. pc[q] = "remove" /\ pc' = pc /\ records' = records
    BY <1>14 DEF RemoveDir, RemoveFails, Removing
  <2>2. UNCHANGED finished /\ now' = now /\ \A p \in Run : OldRemains(p, q)' => OldRemains(p, q)
    BY <1>4, <1>14 DEF Later, Cleanup
  <2>3. CASE RemoveDir(q)
    <3>1. PICK v \in Run : stored[v] \cup cut[v] = {} /\ DropVictim(q, v)
      BY <2>3 DEF RemoveDir
    <3>2. victims'[q] = victims[q] \ {v} /\ errors' = errors /\ ~OldRemains(v, q)
      BY <2>3, <3>1 DEF RemoveDir, DropVictim, OldRemains, TypeOK
    <3> QED
      BY <1>0, <2>1, <2>2, <3>2 DEF LeftoverInv, Settling, Retained
  <2>4. CASE RemoveFails(q)
    <3>1. errors'[q] = TRUE
      BY <2>4 DEF RemoveFails, TypeOK
    <3> QED
      BY <1>0, <2>1, <2>2, <3>1 DEF LeftoverInv, Settling
  <2> QED
    BY <1>14, <2>3, <2>4
<1>15. CASE RetainNewest(q)
  <2>1. /\ pc[q] = "remove" /\ pc'[q] = "cleanup_latest" /\ victims[q] = {}
        /\ UNCHANGED <<records, victims, errors>>
    BY <1>15 DEF RetainNewest, Goto, TypeOK
  <2>2. UNCHANGED finished /\ now' = now /\ \A p \in Run : OldRemains(p, q)' => OldRemains(p, q)
    BY <1>4, <1>15 DEF Later, Cleanup
  <2> QED
    BY <1>0, <2>1, <2>2 DEF LeftoverInv, Settling, Retained
<1> QED
  BY <1>1, <1>2, <1>3, <1>6, <1>8, <1>9, <1>10, <1>11, <1>12, <1>13, <1>14, <1>15
     DEF Next, Sync, Cleanup, Later

-------------------------------------------------------------------------------
(***************************************************************************)
(* What latest says when nothing has failed.                               *)
(***************************************************************************)

\* What has failed has failed for good.
LEMMA StillUndisturbed ==
  ASSUME TypeOK, [Next]_vars, Undisturbed'
  PROVE  Undisturbed
<1> SUFFICES ASSUME NEW q \in Run, pc[q] # "idle"
             PROVE  pc[q] # "crashed" /\ ~errors[q] /\ (pc[q] = "done" => synced[q])
  BY DEF Undisturbed
<1>0. pc'[q] # "idle" => pc'[q] # "crashed" /\ ~errors'[q] /\ (pc'[q] = "done" => synced'[q])
  BY DEF Undisturbed
<1>1. CASE UNCHANGED vars \/ Tick
  BY <1>0, <1>1 DEF vars, tasks, Tick
<1>2. ASSUME NEW r \in Run, Start(r) \/ BeginSync(r) \/ Later(r), q # r
      PROVE  pc[q] # "crashed" /\ ~errors[q] /\ (pc[q] = "done" => synced[q])
  BY <1>0, <1>2, OthersAlone
<1>3. CASE Start(q)
  BY <1>3 DEF Start
<1>4. CASE BeginSync(q)
  BY <1>0, <1>4 DEF BeginSync, Goto, TypeOK
<1>5. CASE Later(q)
  <2>1. q \in Active /\ pc'[q] # "idle"
    BY <1>5, LaterFacts
  <2>2. errors'[q] \/ errors'[q] = errors[q]
    BY <1>5 DEF Later, Cleanup, MakeRunDir, StoreBegin, StoreEnd, UploadEnds, SyncFails,
       TruncateLatest, WriteLatest, NoCleanup, ListRemoteRuns, FetchManifest,
       ManifestIsUnreadable, BuildRetentionPlan, DeleteFile, RemoveDir, RemoveFails,
       RetainNewest, RetainNone, CleanupFails, Crash, tasks, TypeOK
  <2> QED
    BY <1>0, <2>1, <2>2 DEF Active
<1> QED
  BY <1>1, <1>2, <1>3, <1>4, <1>5 DEF Next, Sync, Later

\* A run of which the server holds something is dated for good.
LEMMA DatedForGood ==
  ASSUME TypeOK, SafeInv, [Next]_vars, NEW q \in Run, dir[q] # "new"
  PROVE  finished'[q] = finished[q]
<1>1. CASE UNCHANGED vars \/ Tick
  BY <1>1 DEF vars, tasks, Tick
<1>2. ASSUME NEW r \in Run, Start(r) \/ BeginSync(r)
      PROVE  finished'[q] = finished[q]
  BY <1>2 DEF Start, BeginSync, TypeOK
<1>3. ASSUME NEW r \in Run, Later(r)
      PROVE  finished'[q] = finished[q]
  BY <1>3, LaterFacts
<1> QED
  BY <1>1, <1>2, <1>3 DEF Next, Sync, Later

\* Nothing but the removal of an expired run ends its being sound.
LEMMA SoundStays ==
  ASSUME TypeOK, SafeInv, SafeInv', \A p \in Run : SyncedInv(p), [Next]_vars, Undisturbed',
         NEW q \in Run, Sound(q)
  PROVE  Sound(q)' \/ (Expired(q) /\ \E p \in Run : pc'[p] = "remove")
<1>1. CASE UNCHANGED vars \/ Tick
  BY <1>1 DEF vars, tasks, server, Tick, Sound
<1>2. ASSUME NEW r \in Run, Start(r) \/ BeginSync(r)
      PROVE  Sound(q)'
  <2>1. q # r
    BY <1>2 DEF Start, BeginSync, Sound, SafeInv, UploadInv
  <2> QED
    BY <1>2, <2>1, OthersAlone DEF Start, BeginSync, server, Sound
<1>3. ASSUME NEW r \in Run, Later(r), UNCHANGED <<dir, stored>>
      PROVE  Sound(q)'
  <2>1. CASE q # r \/ pc[q] # "upload"
    BY <1>3, <2>1, OthersAlone DEF Sound
  <2>2. CASE q = r /\ pc[q] = "upload"
    <3>1. pc'[q] # "crashed" /\ (pc'[q] = "done" => synced'[q])
      BY <1>3, <2>2, LaterFacts DEF Undisturbed
    <3>2. CASE StoreBegin(q) \/ StoreEnd(q)
      BY <1>3, <2>2, <3>2 DEF StoreBegin, StoreEnd, Sound
    <3>3. CASE UploadEnds(q)
      <4>1. pc'[q] = "latest"
        BY <3>3 DEF UploadEnds, Goto, TypeOK
      <4> QED
        BY <4>1 DEF SafeInv, UploadInv, Active, Sound
    <3>4. CASE SyncFails(q) \/ Crash(q)
      <4>1. ~synced[q]
        BY <2>2 DEF SyncedInv, Syncing
      <4> QED
        BY <3>1, <3>4, <4>1 DEF SyncFails, Crash, Goto, tasks, TypeOK
    <3> QED
      BY <1>3, <2>2, <3>2, <3>3, <3>4 DEF Later, Cleanup, MakeRunDir, TruncateLatest,
         WriteLatest, NoCleanup, ListRemoteRuns, FetchManifest, ManifestIsUnreadable,
         BuildRetentionPlan, DeleteFile, RemoveDir, RemoveFails, Removing, RetainNewest,
         RetainNone, CleanupFails, Cleaning
  <2> QED
    BY <2>1, <2>2
<1>4. ASSUME NEW r \in Run, MakeRunDir(r)
      PROVE  Sound(q)'
  <2>1. q # r
    BY <1>4 DEF MakeRunDir, Sound, SafeInv, UploadInv
  <2> QED
    BY <1>4, <2>1 DEF MakeRunDir, Goto, tasks, Sound, TypeOK
<1>5. ASSUME NEW r \in Run, StoreEnd(r)
      PROVE  Sound(q)'
  <2>1. stored[q] = Files => stored'[q] = Files
    BY <1>5 DEF StoreEnd, TypeOK
  <2> QED
    BY <1>5, <2>1 DEF StoreEnd, Sound
<1>6. ASSUME NEW r \in Run, DeleteFile(r) \/ RemoveDir(r)
      PROVE  Sound(q)' \/ (Expired(q) /\ pc'[r] = "remove")
  <2>1. PICK v \in Run :
          Removing(r, v) /\ \A p \in Run \ {v} : dir'[p] = dir[p] /\ stored'[p] = stored[p]
    BY <1>6 DEF DeleteFile, RemoveDir, TypeOK
  <2>2. pc' = pc /\ pc[r] = "remove" /\ Expired(v)
    BY <1>6, <2>1, VictimFacts DEF DeleteFile, RemoveDir, Removing
  <2> QED
    BY <2>1, <2>2 DEF Sound
<1>7. ASSUME NEW r \in Run, Later(r),
             ~(MakeRunDir(r) \/ StoreEnd(r) \/ DeleteFile(r) \/ RemoveDir(r))
      PROVE  UNCHANGED <<dir, stored>>
  BY <1>7 DEF Later, Cleanup, StoreBegin, UploadEnds, SyncFails, TruncateLatest, WriteLatest,
     NoCleanup, ListRemoteRuns, FetchManifest, ManifestIsUnreadable, BuildRetentionPlan,
     RemoveFails, RetainNewest, RetainNone, CleanupFails, Crash, server
<1> QED
  BY <1>1, <1>2, <1>3, <1>4, <1>5, <1>6, <1>7 DEF Next, Sync, Later

\* What latest is about to say.
LEMMA StepTarget ==
  ASSUME TypeOK, SafeInv, SafeInv', \A q \in Run : SyncedInv(q) /\ TargetInv(q), [Next]_vars,
         Undisturbed'
  PROVE  \A q \in Run : TargetInv(q)'
<1> SUFFICES ASSUME NEW q \in Run
             PROVE  TargetInv(q)'
  OBVIOUS
<1>0. TargetInv(q) /\ SyncedInv(q)
  OBVIOUS
<1>1. (dir[q] # "new" => Sound(q) \/ Expired(q))'
  <2>1. CASE dir[q] = "new"
    <3>1. dir'[q] # "new" => dir'[q] = "there" /\ pc'[q] = "upload"
      <4>1. CASE UNCHANGED vars \/ Tick
        BY <2>1, <4>1 DEF vars, server, Tick
      <4>2. ASSUME NEW r \in Run, Start(r) \/ BeginSync(r)
            PROVE  dir' = dir
        BY <4>2 DEF Start, BeginSync, server
      <4>3. ASSUME NEW r \in Run, Later(r)
            PROVE  dir'[q] # "new" => dir'[q] = "there" /\ pc'[q] = "upload"
        <5>1. CASE MakeRunDir(r)
          BY <2>1, <5>1 DEF MakeRunDir, Goto, TypeOK
        <5>2. CASE RemoveDir(r)
          <6>1. PICK v \in Run : v \in victims[r] /\ \A p \in Run \ {v} : dir'[p] = dir[p]
            BY <5>2 DEF RemoveDir, Removing, TypeOK
          <6>2. v # q
            BY <2>1, <6>1, VictimFacts
          <6> QED
            BY <2>1, <6>1, <6>2
        <5>3. CASE ~(MakeRunDir(r) \/ RemoveDir(r))
          <6>1. dir' = dir
            BY <4>3, <5>3 DEF Later, Cleanup, StoreBegin, StoreEnd, UploadEnds, SyncFails,
               TruncateLatest, WriteLatest, NoCleanup, ListRemoteRuns, FetchManifest,
               ManifestIsUnreadable, BuildRetentionPlan, DeleteFile, RemoveFails,
               RetainNewest, RetainNone, CleanupFails, Crash, server
          <6> QED
            BY <2>1, <6>1
        <5> QED
          BY <5>1, <5>2, <5>3
      <4> QED
        BY <2>1, <4>1, <4>2, <4>3 DEF Next, Sync, Later
    <3> QED
      BY <3>1 DEF Sound
  <2>2. CASE dir[q] # "new"
    <3>1. Expired(q) => Expired(q)'
      BY <2>2, ExpiresForGood
    <3>2. Sound(q) => Sound(q)' \/ Expired(q)
      BY SoundStays
    <3> QED
      BY <1>0, <2>2, <3>1, <3>2 DEF TargetInv
  <2> QED
    BY <2>1, <2>2
<1>2. ASSUME pc'[q] = pc[q], unread'[q] \cup records'[q] = unread[q] \cup records[q],
             pc[q] = "remove" => records'[q] = records[q],
             target'[q] = target[q], finished'[q] = finished[q]
      PROVE  TargetInv(q)'
  <2>1. target[q] \in Run \cup {None}
    BY DEF TypeOK
  <2>2. target[q] \in Run /\ dir[target[q]] # "new" =>
          dir'[target[q]] # "new" /\ finished'[target[q]] = finished[target[q]]
    BY ExpiresForGood, DatedForGood
  <2> QED
    BY <1>0, <1>1, <1>2, <2>1, <2>2 DEF TargetInv
<1>3. ASSUME pc'[q] \notin {"inventory", "remove", "latest", "torn"} \cup Settling
      PROVE  TargetInv(q)'
  BY <1>1, <1>3 DEF TargetInv
<1>4. CASE UNCHANGED vars \/ Tick
  BY <1>2, <1>4 DEF vars, tasks, Tick
<1>5. ASSUME NEW r \in Run, Start(r) \/ BeginSync(r) \/ Later(r), q # r
      PROVE  TargetInv(q)'
  BY <1>2, <1>5, OthersAlone
<1>6. CASE Start(q) \/ BeginSync(q) \/ MakeRunDir(q) \/ SyncFails(q) \/ WriteLatest(q)
           \/ NoCleanup(q) \/ RetainNone(q) \/ CleanupFails(q) \/ Crash(q)
  <2>1. pc'[q] \notin {"inventory", "remove", "latest", "torn"} \cup Settling
    BY <1>6 DEF Start, BeginSync, MakeRunDir, SyncFails, WriteLatest, NoCleanup, RetainNone,
       CleanupFails, Crash, Goto, Settling, TypeOK
  <2> QED
    BY <1>3, <2>1
<1>7. CASE StoreBegin(q) \/ StoreEnd(q) \/ DeleteFile(q) \/ RemoveDir(q) \/ RemoveFails(q)
  BY <1>2, <1>7 DEF StoreBegin, StoreEnd, DeleteFile, RemoveDir, RemoveFails, tasks
<1>8. CASE UploadEnds(q)
  BY <1>1, <1>8 DEF UploadEnds, Goto, TargetInv, Settling, TypeOK
<1>9. CASE TruncateLatest(q)
  <2>1. UNCHANGED <<target, finished, dir, records, unread>>
    BY <1>9 DEF TruncateLatest, tasks
  <2>2. \/ pc[q] = "latest" /\ pc'[q] = "torn"
        \/ pc[q] = "cleanup_latest" /\ pc'[q] = "cleanup_torn"
    BY <1>0, <1>9 DEF TruncateLatest, Goto, SyncedInv, Syncing, Cleaning, TypeOK
  <2> QED
    BY <1>0, <1>1, <2>1, <2>2 DEF TargetInv, Settling
<1>10. CASE ListRemoteRuns(q)
  <2>1. dir[q] = "there"
    BY <1>10 DEF ListRemoteRuns, SafeInv, UploadInv, Active
  <2>2. pc'[q] = "inventory" /\ q \in unread'[q]
    BY <1>10, <2>1 DEF ListRemoteRuns, Goto, TypeOK
  <2> QED
    BY <1>1, <2>2 DEF TargetInv, Settling
<1>11. CASE FetchManifest(q)
  <2>1. PICK p \in unread[q] : /\ unread' = [unread EXCEPT ![q] = @ \ {p}]
                               /\ records' = [records EXCEPT ![q] = @ \cup {p}]
    BY <1>11 DEF FetchManifest
  <2>2. unread'[q] \cup records'[q] = unread[q] \cup records[q]
    BY <2>1 DEF TypeOK
  <2> QED
    BY <1>2, <1>11, <2>2 DEF FetchManifest
<1>12. CASE ManifestIsUnreadable(q)
  <2>1. errors'[q] /\ pc'[q] = "inventory"
    BY <1>12 DEF ManifestIsUnreadable, TypeOK
  <2> QED
    BY <2>1 DEF Undisturbed
<1>13. CASE BuildRetentionPlan(q)
  <2>1. /\ pc[q] = "inventory" /\ unread[q] = {} /\ pc'[q] \in {"done", "remove"}
        /\ records'[q] = records[q] \ ExpiredRecords(q)
    BY <1>13 DEF BuildRetentionPlan, Goto, TypeOK
  <2>2. q \in records[q]
    BY <1>0, <2>1 DEF TargetInv
  <2>3. ~BeforeCutoff(finished[q], now)
    <3>1. born[q] <= finished[q] /\ ~BeforeCutoff(born[q], now)
      BY <2>1 DEF SafeInv, RecentInv, Active
    <3> QED
      BY <3>1, RetentionDaysAssumption DEF BeforeCutoff, TypeOK, Day
  <2>4. q \in records'[q]
    BY <2>1, <2>2, <2>3 DEF ExpiredRecords
  <2> QED
    BY <1>1, <2>1, <2>4 DEF TargetInv, Settling
<1>14. CASE RetainNewest(q)
  <2>1. PICK t \in records[q] : /\ \A p \in records[q] : finished[p] <= finished[t]
                                /\ target' = [target EXCEPT ![q] = t]
    BY <1>14 DEF RetainNewest
  <2>2. t \in Run /\ dir[t] # "new"
    BY DEF SafeInv, PlanInv, TypeOK
  <2>3. q \in records[q] /\ t # None
    BY <1>0, <1>14, <2>2, NumRunsAssumption DEF RetainNewest, TargetInv, Run, None
  <2>4. pc'[q] = "cleanup_latest" /\ target'[q] = t /\ UNCHANGED <<finished, dir>>
    BY <1>14, <2>1 DEF RetainNewest, Goto, server, TypeOK
  <2> QED
    BY <1>1, <2>1, <2>2, <2>3, <2>4 DEF TargetInv
<1> QED
  BY <1>4, <1>5, <1>6, <1>7, <1>8, <1>9, <1>10, <1>11, <1>12, <1>13, <1>14
     DEF Next, Sync, Cleanup, Later

Writing == {"torn", "remove"} \cup Settling

\* An invocation that is about to write latest goes on to write it, if nothing fails.
LEMMA WriterGoesOn ==
  ASSUME TypeOK, \A p \in Run : SyncedInv(p) /\ TargetInv(p), [Next]_vars, Undisturbed',
         NEW q \in Run, pc[q] \in Writing
  PROVE  pc'[q] \in Writing \/ WriteLatest(q)
<1>1. CASE UNCHANGED vars \/ Tick
  BY <1>1 DEF vars, Tick
<1>2. ASSUME NEW r \in Run, Start(r) \/ BeginSync(r) \/ Later(r), q # r
      PROVE  pc'[q] \in Writing
  BY <1>2, OthersAlone
<1>3. ~(Start(q) \/ BeginSync(q))
  BY DEF Writing, Settling, Start, BeginSync
<1>4. CASE Later(q)
  <2>1. errors'[q] = FALSE /\ pc'[q] # "crashed" /\ (pc'[q] = "done" => synced'[q])
    BY <1>4, LaterFacts DEF Undisturbed, TypeOK
  <2>2. pc[q] = "remove" => records[q] # {}
    BY DEF TargetInv
  <2>3. pc[q] = "torn" => ~synced[q]
    BY DEF SyncedInv, Syncing
  <2>4. CASE SyncFails(q) \/ CleanupFails(q) \/ Crash(q)
    BY <2>1, <2>3, <2>4 DEF SyncFails, CleanupFails, Crash, Goto, Syncing, Writing, Settling,
       tasks, TypeOK
  <2>5. CASE TruncateLatest(q) \/ RetainNewest(q) \/ RetainNone(q)
    BY <2>2, <2>5 DEF TruncateLatest, RetainNewest, RetainNone, Goto, Writing, Settling, TypeOK
  <2>6. CASE DeleteFile(q) \/ RemoveDir(q) \/ RemoveFails(q)
    BY <2>6 DEF DeleteFile, RemoveDir, RemoveFails
  <2> QED
    BY <1>4, <2>4, <2>5, <2>6 DEF Later, Cleanup, MakeRunDir, StoreBegin, StoreEnd, UploadEnds,
       NoCleanup, ListRemoteRuns, FetchManifest, ManifestIsUnreadable, BuildRetentionPlan,
       Writing, Settling
<1> QED
  BY <1>1, <1>2, <1>3, <1>4 DEF Next, Sync, Later

\* What is written to latest is sound: the run of sync, or one that is as young as
\* the invocation that writes it, and so within the window.
LEMMA WrittenIsSound ==
  ASSUME TypeOK, SafeInv, \A p \in Run : SyncedInv(p) /\ TargetInv(p), NEW r \in Run,
         WriteLatest(r)
  PROVE  latest' # None /\ Sound(latest)'
<1>1. latest' = target[r] /\ UNCHANGED <<dir, stored>> /\ pc[r] \in {"torn", "cleanup_torn"}
  BY DEF WriteLatest
<1>2. \A p \in Run : pc[p] = "upload" => pc'[p] = "upload"
  BY DEF WriteLatest, Goto, TypeOK
<1>3. target[r] \in Run /\ Sound(target[r])
  <2>1. CASE pc[r] = "torn"
    BY <2>1 DEF TargetInv, SafeInv, UploadInv, Active, Sound
  <2>2. CASE pc[r] = "cleanup_torn"
    <3>1. /\ target[r] \in Run /\ dir[target[r]] # "new"
          /\ finished[r] <= finished[target[r]]
      BY <2>2 DEF TargetInv, Settling, TypeOK
    <3>2. born[r] <= finished[r] /\ ~BeforeCutoff(born[r], now)
      BY <2>2 DEF SafeInv, RecentInv, Active
    <3>3. ~Expired(target[r])
      BY <3>1, <3>2, RetentionDaysAssumption DEF Expired, BeforeCutoff, TypeOK, Day
    <3> QED
      BY <3>1, <3>3 DEF TargetInv
  <2> QED
    BY <1>1, <2>1, <2>2
<1> QED
  BY <1>1, <1>2, <1>3, NumRunsAssumption DEF Sound, Run, None

\* What latest says.
LEMMA StepLatest ==
  ASSUME TypeOK, SafeInv, SafeInv', LatestInv, \A q \in Run : SyncedInv(q) /\ TargetInv(q),
         [Next]_vars, Undisturbed'
  PROVE  LatestInv'
<1>1. CASE \E r \in Run : WriteLatest(r)
  BY <1>1, WrittenIsSound DEF LatestInv
<1>2. CASE ~\E r \in Run : WriteLatest(r)
  <2> SUFFICES ASSUME \E r \in Run : synced'[r], ~\E p \in Run : pc'[p] \in Writing
               PROVE  latest' # None /\ Sound(latest)'
    BY DEF LatestInv, Writing
  <2>1. synced' = synced
    BY <1>2 DEF Next, Sync, Cleanup, Start, BeginSync, MakeRunDir, StoreBegin, StoreEnd,
       UploadEnds, SyncFails, TruncateLatest, NoCleanup, ListRemoteRuns, FetchManifest,
       ManifestIsUnreadable, BuildRetentionPlan, DeleteFile, RemoveDir, RemoveFails,
       RetainNewest, RetainNone, CleanupFails, Crash, Tick, tasks, vars
  <2>2. ~\E p \in Run : pc[p] \in Writing
    BY <1>2, WriterGoesOn
  <2>3. latest # None /\ Sound(latest) /\ latest \in Run
    BY <2>1, <2>2 DEF LatestInv, Writing, TypeOK
  <2>4. ASSUME NEW r \in Run
        PROVE  ~TruncateLatest(r) /\ ~RetainNone(r)
    <3>1. TruncateLatest(r) => pc'[r] \in Writing
      BY DEF TruncateLatest, Goto, Writing, Settling, TypeOK
    <3>2. RetainNone(r) => pc[r] \in Writing
      BY DEF RetainNone, Writing
    <3> QED
      BY <2>2, <3>1, <3>2
  <2>5. latest' = latest
    BY <1>2, <2>4 DEF Next, Sync, Cleanup, Start, BeginSync, MakeRunDir, StoreBegin, StoreEnd,
       UploadEnds, SyncFails, NoCleanup, ListRemoteRuns, FetchManifest,
       ManifestIsUnreadable, BuildRetentionPlan, DeleteFile, RemoveDir, RemoveFails,
       RetainNewest, CleanupFails, Crash, Tick, tasks, vars, server
  <2>6. Sound(latest)' \/ \E p \in Run : pc'[p] = "remove"
    <3> DEFINE said == latest
    <3>1. PICK q \in Run : q = latest
      BY <2>3
    <3>2. Sound(q)' \/ \E p \in Run : pc'[p] = "remove"
      BY <2>3, <3>1, SoundStays
    <3>3. Sound(q)' => Sound(latest)'
      BY <2>5, <3>1 DEF Sound
    <3> QED
      BY <3>2, <3>3
  <2> QED
    BY <2>3, <2>5, <2>6 DEF Writing
<1> QED
  BY <1>1, <1>2

\* The state is of its type and the invariant holds, also when invocations overlap
\* and whatever command is the last one (sync and cleanup of FtpStorageProvider).
THEOREM FtpInvariant == Spec => [](TypeOK /\ FtpInv)
<1>1. Init => TypeOK /\ FtpInv
  <2> SUFFICES ASSUME Init
               PROVE  TypeOK /\ FtpInv
    OBVIOUS
  <2>1. TypeOK
    BY MaxDayAssumption, NumFilesAssumption DEF Init, TypeOK, Day, Step, None
  <2>2. \A r \in Run : RecentInv(r) /\ UploadInv(r) /\ PlanInv(r)
    BY DEF Init, RecentInv, UploadInv, PlanInv, Active
  <2>3. \A r \in Run : LeftoverInv(r) /\ SyncedInv(r)
    BY DEF Init, LeftoverInv, SyncedInv, Settling, Cleaning
  <2>4. LatestInv /\ \A r \in Run : TargetInv(r)
    BY DEF Init, LatestInv, TargetInv, Settling
  <2> QED
    BY <2>1, <2>2, <2>3, <2>4 DEF FtpInv, SafeInv
<1>2. TypeOK /\ FtpInv /\ [Next]_vars => (TypeOK /\ FtpInv)'
  <2> SUFFICES ASSUME TypeOK, FtpInv, [Next]_vars
               PROVE  (TypeOK /\ FtpInv)'
    OBVIOUS
  <2>1. TypeOK' /\ SafeInv'
    BY StepType, StepRecent, StepPlan, StepUpload DEF FtpInv, SafeInv
  <2>2. \A r \in Run : LeftoverInv(r)' /\ SyncedInv(r)'
    BY StepLeftover, StepSynced DEF FtpInv
  <2>3. Undisturbed' => LatestInv' /\ \A r \in Run : TargetInv(r)'
    BY <2>1, StillUndisturbed, StepTarget, StepLatest DEF FtpInv
  <2> QED
    BY <2>1, <2>2, <2>3 DEF FtpInv
<1> QED
  BY <1>1, <1>2, PTL DEF Spec

\* The state is of its type (sync and cleanup of FtpStorageProvider).
THEOREM TypeCorrect == Spec => []TypeOK
BY FtpInvariant, PTL

\* A cleanup that reports no error has dealt with every run that was old when its
\* invocation called sync (cleanup, fetch_remote_manifests).
THEOREM CleanupDealsWithOldRuns == Spec => CleanupReportsLeftovers
<1>1. ASSUME TypeOK, FtpInv, [Next]_vars, NEW r \in Run, pc[r] \in Cleaning,
             pc'[r] = "done", ~errors'[r], NEW q \in Run, OldRemains(q, r)
      PROVE  Retained(q, r)
  <2>1. CASE UNCHANGED vars \/ Tick
    BY <1>1, <2>1 DEF vars, Tick, Cleaning
  <2>2. ASSUME NEW p \in Run, Start(p) \/ BeginSync(p) \/ Later(p), p # r
        PROVE  FALSE
    BY <1>1, <2>2, OthersAlone DEF Cleaning
  <2>3. CASE WriteLatest(r)
    <3>1. pc[r] = "cleanup_torn" /\ ~errors[r]
      BY <1>1, <2>3 DEF WriteLatest, Cleaning
    <3>2. LeftoverInv(r)
      BY <1>1 DEF FtpInv
    <3> QED
      BY <1>1, <3>1, <3>2 DEF LeftoverInv, Settling
  <2>4. CASE RetainNone(r)
    <3>1. pc[r] = "remove" /\ ~errors[r] /\ victims[r] = {}
      BY <1>1, <2>4 DEF RetainNone, tasks
    <3> QED
      BY <1>1, <3>1 DEF FtpInv, LeftoverInv
  <2>5. ~(CleanupFails(r) \/ BuildRetentionPlan(r))
    BY <1>1 DEF CleanupFails, BuildRetentionPlan, Goto, TypeOK
  <2>6. CASE Later(r) /\ ~(WriteLatest(r) \/ RetainNone(r))
    <3>1. pc[r] # "done"
      BY <1>1 DEF Cleaning
    <3> QED
      BY <1>1, <2>5, <2>6, <3>1 DEF Later, Cleanup, MakeRunDir, StoreBegin, StoreEnd,
         UploadEnds, SyncFails, TruncateLatest, NoCleanup, ListRemoteRuns, FetchManifest,
         ManifestIsUnreadable, DeleteFile, RemoveDir, RemoveFails, RetainNewest, Crash, Goto,
         Syncing, Cleaning, TypeOK
  <2>7. ~(Start(r) \/ BeginSync(r))
    BY <1>1 DEF Start, BeginSync, Cleaning
  <2> QED
    BY <1>1, <2>1, <2>2, <2>3, <2>4, <2>6, <2>7 DEF Next, Sync, Later
<1>2. TypeOK /\ FtpInv /\ [Next]_vars =>
        [\A r \in Run :
           pc[r] \in Cleaning /\ pc'[r] = "done" /\ ~errors'[r] =>
             \A q \in Run :
               BeforeCutoff(born[q], finished[r]) /\ stored[q] \cup cut[q] # {} =>
                 q \in records[r] /\ ~BeforeCutoff(finished[q], finished[r])]_vars
  BY <1>1 DEF OldRemains, Retained
<1> QED
  BY <1>2, FtpInvariant, PTL DEF Spec, CleanupReportsLeftovers

\* When all invocations are over, and none of them reported an error, latest names a
\* whole run, however they overlapped (_update_latest, _latest_value).
THEOREM LatestNamesAWholeRun == Spec => []LatestSettles
<1>1. TypeOK /\ FtpInv => LatestSettles
  <2> SUFFICES ASSUME TypeOK, FtpInv, NEW r \in Run, pc[r] = "done",
                      \A q \in Run : \/ pc[q] = "idle"
                                     \/ pc[q] = "done" /\ synced[q] /\ ~errors[q]
               PROVE  latest # None /\ HeldOf(latest) = "whole"
    BY DEF LatestSettles
  <2>1. Undisturbed
    BY DEF Undisturbed
  <2>2. LatestInv /\ synced[r]
    BY <2>1 DEF FtpInv
  <2>3. latest # None /\ Sound(latest)
    BY <2>2 DEF LatestInv, Settling
  <2>4. latest \in Run /\ dir[latest] = "there" /\ stored[latest] = Files
    BY <2>3 DEF Sound, TypeOK
  <2> QED
    BY <2>3, <2>4 DEF HeldOf
<1> QED
  BY <1>1, FtpInvariant, PTL

-------------------------------------------------------------------------------
(***************************************************************************)
(* The refinement.                                                         *)
(***************************************************************************)

held == [r \in Run |-> HeldOf(r)]
vouched == {r \in Run : synced[r]}

Grown(r) == 1..sent[r] \subseteq stored[r] \cup cut[r]

LEMMA HeldFacts ==
  ASSUME TypeOK, NEW r \in Run
  PROVE  /\ held[r] = HeldOf(r)
         /\ dir[r] = "new" => HeldOf(r) = "new"
         /\ dir[r] = "gone" => HeldOf(r) = "gone"
         /\ dir[r] = "there" /\ stored[r] = Files => HeldOf(r) = "whole"
         /\ dir[r] = "there" /\ stored[r] # Files /\ Grown(r) => HeldOf(r) = "part"
         /\ dir[r] = "there" /\ stored[r] # Files /\ ~Grown(r) => HeldOf(r) = "rest"
<1>1. held[r] = HeldOf(r)
  BY DEF held
<1>2. dir[r] = "new" => HeldOf(r) = "new"
  BY DEF HeldOf
<1>3. dir[r] = "gone" => HeldOf(r) = "gone"
  BY DEF HeldOf
<1>4. dir[r] = "there" /\ stored[r] = Files => HeldOf(r) = "whole"
  BY DEF HeldOf
<1>5. dir[r] = "there" /\ stored[r] # Files =>
        HeldOf(r) = IF 1..sent[r] \subseteq stored[r] \cup cut[r] THEN "part" ELSE "rest"
  BY DEF HeldOf
<1> QED
  BY <1>1, <1>2, <1>3, <1>4, <1>5 DEF Grown

\* A run of which nothing changes on the server is held as before.
LEMMA HeldSame ==
  ASSUME NEW q \in Run,
         dir'[q] = dir[q], stored'[q] = stored[q], cut'[q] = cut[q], sent'[q] = sent[q]
  PROVE  HeldOf(q)' = HeldOf(q)
BY DEF HeldOf

LEMMA HeldUnchanged ==
  ASSUME UNCHANGED <<dir, stored, cut, sent>>
  PROVE  held' = held
BY HeldSame DEF held

\* A step that changes what the server holds of one run.
LEMMA HeldBecomes ==
  ASSUME NEW r \in Run,
         \A q \in Run \ {r} : /\ dir'[q] = dir[q] /\ stored'[q] = stored[q]
                              /\ cut'[q] = cut[q] /\ sent'[q] = sent[q]
  PROVE  held' = [held EXCEPT ![r] = HeldOf(r)']
<1>1. \A q \in Run \ {r} : HeldOf(q)' = HeldOf(q)
  BY HeldSame
<1> QED
  BY <1>1 DEF held

\* A STOR that begins or ends adds to the run; the last one completes it.
LEMMA UploadRefines ==
  ASSUME TypeOK, TypeOK', SafeInv, SafeInv', NEW r \in Run, StoreBegin(r) \/ StoreEnd(r)
  PROVE  Abstract!Complete(r) \/ UNCHANGED Abstract!vars
<1>1. pc[r] = "upload" /\ dir[r] = "there" /\ dir'[r] = "there"
  BY DEF StoreBegin, StoreEnd, SafeInv, UploadInv
<1>2. pc'[r] = "upload"
  BY <1>1 DEF StoreBegin, StoreEnd
<1>3. sent[r] \in 0..NumFiles /\ sent'[r] \in 0..NumFiles
  BY DEF TypeOK
<1>4. Grown(r)
  BY <1>1 DEF SafeInv, UploadInv, Grown
<1>5. Grown(r)'
  BY <1>2 DEF SafeInv, UploadInv, Grown
<1>6. stored[r] # Files
  <2>1. CASE StoreBegin(r)
    <3>1. stored[r] = 1..sent[r] /\ sent[r] < NumFiles
      BY <2>1 DEF StoreBegin, SafeInv, UploadInv
    <3>2. NumFiles \in Files \ (1..sent[r])
      BY <1>3, <3>1, ManifestFileAssumption, NumFilesAssumption DEF Files
    <3> QED
      BY <3>1, <3>2
  <2>2. CASE StoreEnd(r)
    <3>1. cut[r] = {sent[r]} /\ stored[r] = (1..sent[r]) \ cut[r]
      BY <2>2 DEF StoreEnd, SafeInv, UploadInv
    <3>2. sent[r] \in 1..sent[r]
      BY <3>1 DEF SafeInv, UploadInv
    <3>3. sent[r] \in Files /\ sent[r] \notin stored[r]
      BY <1>3, <3>1, <3>2, NumFilesAssumption DEF Files
    <3> QED
      BY <3>3
  <2> QED
    BY <2>1, <2>2
<1>7. HeldOf(r) = "part"
  BY <1>1, <1>4, <1>6, HeldFacts
<1>8. HeldOf(r)' \in {"part", "whole"}
  <2>1. (dir[r] = "there" /\ stored[r] = Files => HeldOf(r) = "whole")'
    BY DEF HeldOf
  <2>2. (dir[r] = "there" /\ stored[r] # Files /\ Grown(r) => HeldOf(r) = "part")'
    BY DEF HeldOf, Grown
  <2> QED
    BY <1>1, <1>5, <2>1, <2>2
<1>9. held' = [held EXCEPT ![r] = HeldOf(r)']
  <2>1. \A q \in Run \ {r} : /\ dir'[q] = dir[q] /\ stored'[q] = stored[q]
                             /\ cut'[q] = cut[q] /\ sent'[q] = sent[q]
    BY DEF StoreBegin, StoreEnd, tasks, TypeOK
  <2> QED
    BY <2>1, HeldBecomes
<1>10. vouched' = vouched /\ now' = now /\ finished' = finished
  BY DEF StoreBegin, StoreEnd, tasks, vouched
<1>11. CASE HeldOf(r)' = "part"
  <2>1. held' = held
    BY <1>7, <1>9, <1>11 DEF held
  <2> QED
    BY <1>10, <2>1 DEF Abstract!vars, held, vouched
<1>12. CASE HeldOf(r)' = "whole"
  <2>1. held' = [held EXCEPT ![r] = "whole"]
    BY <1>9, <1>12
  <2>2. held[r] = "part"
    BY <1>7 DEF held
  <2> QED
    BY <1>10, <2>1, <2>2 DEF Abstract!Complete, Abstract!Becomes, held, vouched
<1> QED
  BY <1>8, <1>11, <1>12

\* What cleanup removes, retention may.
LEMMA RemovalRefines ==
  ASSUME TypeOK, SafeInv, NEW r \in Run, DeleteFile(r) \/ RemoveDir(r)
  PROVE  (\E v \in Run : Abstract!Retire(v)) \/ UNCHANGED Abstract!vars
<1>0. vouched' = vouched /\ now' = now /\ finished' = finished /\ sent' = sent
  BY DEF DeleteFile, RemoveDir, tasks, vouched
<1>1. PICK v \in Run :
        /\ Removing(r, v)
        /\ \A q \in Run \ {v} : /\ dir'[q] = dir[q] /\ stored'[q] = stored[q]
                                /\ cut'[q] = cut[q] /\ sent'[q] = sent[q]
        /\ \/ /\ dir'[v] = dir[v]
              /\ \E f \in stored[v] \cup cut[v] : /\ stored'[v] = stored[v] \ {f}
                                                  /\ cut'[v] = cut[v] \ {f}
           \/ dir'[v] = "gone" /\ stored'[v] = stored[v] /\ cut'[v] = cut[v]
           \/ dir'[v] = dir[v] /\ stored'[v] = stored[v] /\ cut'[v] = cut[v]
  <2>1. CASE DeleteFile(r)
    <3>1. PICK v \in Run :
            /\ Removing(r, v)
            /\ \E f \in stored[v] \cup cut[v] :
                 /\ stored' = [stored EXCEPT ![v] = @ \ {f}]
                 /\ cut' = [cut EXCEPT ![v] = @ \ {f}]
      BY <2>1 DEF DeleteFile
    <3>2. PICK f \in stored[v] \cup cut[v] : /\ stored' = [stored EXCEPT ![v] = @ \ {f}]
                                             /\ cut' = [cut EXCEPT ![v] = @ \ {f}]
      BY <3>1
    <3>3. stored'[v] = stored[v] \ {f} /\ cut'[v] = cut[v] \ {f}
      BY <3>2 DEF TypeOK
    <3>4. \A q \in Run \ {v} : stored'[q] = stored[q] /\ cut'[q] = cut[q]
      BY <3>2 DEF TypeOK
    <3>5. dir' = dir
      BY <2>1 DEF DeleteFile
    <3> QED
      BY <1>0, <3>1, <3>3, <3>4, <3>5
  <2>2. CASE RemoveDir(r)
    <3>1. PICK v \in Run :
            Removing(r, v) /\ \E left \in {dir[v], "gone"} : dir' = [dir EXCEPT ![v] = left]
      BY <2>2 DEF RemoveDir
    <3>2. UNCHANGED <<stored, cut>>
      BY <2>2 DEF RemoveDir
    <3>3. dir'[v] \in {dir[v], "gone"} /\ \A q \in Run \ {v} : dir'[q] = dir[q]
      BY <3>1 DEF TypeOK
    <3> QED
      BY <1>0, <3>1, <3>2, <3>3
  <2> QED
    BY <2>1, <2>2
<1>2. held' = [held EXCEPT ![v] = HeldOf(v)']
  BY <1>1, HeldBecomes
<1>3. Expired(v) /\ dir[v] \in {"there", "gone"}
  BY <1>1, VictimFacts DEF Removing, TypeOK
<1>4. CASE HeldOf(v)' = HeldOf(v)
  <2>1. held' = held
    BY <1>2, <1>4 DEF held
  <2> QED
    BY <1>0, <2>1 DEF Abstract!vars, held, vouched
<1>5. CASE HeldOf(v)' # HeldOf(v)
  <2>1. HeldOf(v)' \in {"rest", "gone"} /\ dir[v] = "there"
    <3>1. CASE dir'[v] = "gone"
      <4>1. HeldOf(v)' = "gone"
        BY <3>1 DEF HeldOf
      <4>2. dir[v] # "gone"
        BY <1>5, <4>1, HeldFacts
      <4> QED
        BY <1>3, <4>1, <4>2
    <3>2. CASE dir'[v] # "gone"
      <4>1. dir'[v] = "there" /\ dir[v] = "there"
        BY <1>1, <1>3, <3>2
      <4>2. ~(stored'[v] = stored[v] /\ cut'[v] = cut[v])
        BY <1>0, <1>5, <4>1, HeldSame
      <4>3. PICK f \in stored[v] \cup cut[v] : /\ stored'[v] = stored[v] \ {f}
                                               /\ cut'[v] = cut[v] \ {f}
        BY <1>1, <3>2, <4>2
      <4>4. f \in 1..sent[v] /\ f \in Files
        BY DEF SafeInv, UploadInv, TypeOK
      <4>5. ~Grown(v)' /\ stored'[v] # Files
        BY <1>0, <4>3, <4>4 DEF Grown
      <4>6. (dir[v] = "there" /\ stored[v] # Files /\ ~Grown(v) => HeldOf(v) = "rest")'
        BY DEF HeldOf, Grown
      <4> QED
        BY <4>1, <4>5, <4>6
    <3> QED
      BY <3>1, <3>2
  <2>2. held[v] \in {"part", "whole", "rest"}
    BY <2>1, HeldFacts
  <2>3. held' = [held EXCEPT ![v] = "rest"] \/ held' = [held EXCEPT ![v] = "gone"]
    BY <1>2, <2>1
  <2>4. \E c \in {"rest", "gone"} : Abstract!Becomes(v, c)
    BY <2>3 DEF Abstract!Becomes, held
  <2>5. Abstract!Expired(v)
    BY <1>3 DEF Abstract!Expired, Expired, Abstract!BeforeCutoff, BeforeCutoff
  <2>6. Abstract!Retire(v)
    BY <1>0, <2>2, <2>4, <2>5 DEF Abstract!Retire, held, vouched
  <2> QED
    BY <2>6
<1> QED
  BY <1>4, <1>5

\* Every step is a step of RunStore, or none.
LEMMA StepRefines ==
  ASSUME TypeOK, TypeOK', SafeInv, SafeInv', [Next]_vars
  PROVE  [Abstract!Next]_(Abstract!vars)
<1>1. CASE Tick
  <2>1. held' = held /\ vouched' = vouched
    BY <1>1, HeldUnchanged DEF Tick, tasks, server, vouched
  <2>2. Abstract!Tick
    BY <1>1, <2>1 DEF Abstract!Tick, Tick, tasks, held, vouched
  <2> QED
    BY <2>2 DEF Abstract!Next
<1>2. ASSUME NEW r \in Run, BeginSync(r)
      PROVE  Abstract!Stamp(r)
  <2>1. held' = held /\ vouched' = vouched
    BY <1>2, HeldUnchanged DEF BeginSync, server, vouched
  <2>2. held[r] = "new"
    BY <1>2, HeldFacts DEF BeginSync
  <2> QED
    BY <1>2, <2>1, <2>2 DEF Abstract!Stamp, BeginSync, held, vouched
<1>3. ASSUME NEW r \in Run, MakeRunDir(r)
      PROVE  Abstract!Appear(r)
  <2>1. dir[r] = "new" /\ sent[r] = 0 /\ stored[r] \cup cut[r] = {}
    BY <1>3 DEF MakeRunDir, SafeInv, UploadInv
  <2>2. dir'[r] = "there" /\ sent'[r] = 0 /\ stored'[r] = {}
    BY <1>3, <2>1 DEF MakeRunDir, tasks, TypeOK
  <2>3. HeldOf(r)' = "part"
    <3>1. stored'[r] # Files
      BY <2>2, ManifestFileAssumption DEF Files
    <3>2. 1..sent'[r] = {}
      BY <2>2
    <3> QED
      BY <2>2, <3>1, <3>2 DEF HeldOf
  <2>4. \A q \in Run \ {r} : /\ dir'[q] = dir[q] /\ stored'[q] = stored[q]
                             /\ cut'[q] = cut[q] /\ sent'[q] = sent[q]
    BY <1>3 DEF MakeRunDir, tasks, TypeOK
  <2>5. held' = [held EXCEPT ![r] = "part"]
    BY <2>3, <2>4, HeldBecomes
  <2>6. held[r] = "new"
    BY <2>1, HeldFacts
  <2>7. vouched' = vouched /\ now' = now /\ finished' = finished
    BY <1>3 DEF MakeRunDir, tasks, vouched
  <2> QED
    BY <2>5, <2>6, <2>7 DEF Abstract!Appear, Abstract!Becomes, held, vouched
<1>4. ASSUME NEW r \in Run, WriteLatest(r)
      PROVE  Abstract!Vouch(r)
  <2>1. held' = held
    BY <1>4, HeldUnchanged DEF WriteLatest
  <2>2. held[r] = "whole"
    <3>1. dir[r] = "there" /\ stored[r] = Files
      BY <1>4 DEF WriteLatest, SafeInv, UploadInv, Active
    <3> QED
      BY <3>1, HeldFacts
  <2>3. vouched' = vouched \cup {r}
    <3>1. \A q \in Run : synced'[q] <=> (q = r \/ synced[q])
      BY <1>4 DEF WriteLatest, TypeOK
    <3> QED
      BY <3>1 DEF vouched
  <2> QED
    BY <1>4, <2>1, <2>2, <2>3 DEF Abstract!Vouch, WriteLatest, held, vouched
<1>5. ASSUME NEW r \in Run,
             \/ Start(r) \/ UploadEnds(r) \/ SyncFails(r) \/ TruncateLatest(r) \/ NoCleanup(r)
             \/ ListRemoteRuns(r) \/ FetchManifest(r) \/ ManifestIsUnreadable(r)
             \/ BuildRetentionPlan(r) \/ RemoveFails(r) \/ RetainNewest(r) \/ RetainNone(r)
             \/ CleanupFails(r) \/ Crash(r)
      PROVE  UNCHANGED Abstract!vars
  <2>1. UNCHANGED <<now, finished, synced, dir, stored, cut, sent>>
    BY <1>5 DEF Start, UploadEnds, SyncFails, TruncateLatest, NoCleanup, ListRemoteRuns,
       FetchManifest, ManifestIsUnreadable, BuildRetentionPlan, RemoveFails, RetainNewest,
       RetainNone, CleanupFails, Crash, tasks, server
  <2>2. held' = held
    BY <2>1, HeldUnchanged
  <2> QED
    BY <2>1, <2>2 DEF Abstract!vars, held
<1>6. CASE UNCHANGED vars
  <2>1. held' = held
    BY <1>6, HeldUnchanged DEF vars, tasks, server
  <2> QED
    BY <1>6, <2>1 DEF Abstract!vars, vars, tasks, held
<1>7. CASE \E r \in Run : Sync(r) \/ Cleanup(r) \/ Crash(r)
  <2>1. PICK r \in Run : Sync(r) \/ Cleanup(r) \/ Crash(r)
    BY <1>7
  <2>2. BeginSync(r) => \E v \in Run : Abstract!Stamp(v)
    BY <1>2
  <2>3. MakeRunDir(r) => \E v \in Run : Abstract!Appear(v)
    BY <1>3
  <2>4. WriteLatest(r) => \E v \in Run : Abstract!Vouch(v)
    BY <1>4
  <2>5. StoreBegin(r) \/ StoreEnd(r) =>
          (\E v \in Run : Abstract!Complete(v)) \/ UNCHANGED Abstract!vars
    BY UploadRefines
  <2>6. DeleteFile(r) \/ RemoveDir(r) =>
          (\E v \in Run : Abstract!Retire(v)) \/ UNCHANGED Abstract!vars
    BY RemovalRefines
  <2>7. (\E v \in Run : \/ Abstract!Stamp(v) \/ Abstract!Appear(v) \/ Abstract!Complete(v)
                        \/ Abstract!Vouch(v) \/ Abstract!Retire(v)) => Abstract!Next
    BY DEF Abstract!Next, Abstract!Run, Run
  <2> QED
    BY <1>5, <2>1, <2>2, <2>3, <2>4, <2>5, <2>6, <2>7 DEF Sync, Cleanup
<1> QED
  BY <1>1, <1>6, <1>7 DEF Next

\* Invocations that publish to an FTP server implement RunStore, also when they
\* overlap (sync and cleanup of FtpStorageProvider).
THEOREM FtpStoreImplementsRunStore == Spec => ImplementsRunStore
<1>1. Init => Abstract!Init
  <2> SUFFICES ASSUME Init
               PROVE  Abstract!Init
    OBVIOUS
  <2>1. \A r \in Run : HeldOf(r) = "new"
    BY DEF Init, HeldOf
  <2>2. {r \in Run : synced[r]} = {}
    BY DEF Init
  <2>3. [r \in Run |-> HeldOf(r)] = [r \in Run |-> "new"]
    BY <2>1
  <2> HIDE DEF HeldOf
  <2> QED
    BY <2>2, <2>3 DEF Abstract!Init, Init, Abstract!Run, Run
<1>2. TypeOK /\ FtpInv /\ (TypeOK /\ FtpInv)' /\ [Next]_vars => [Abstract!Next]_(Abstract!vars)
  BY StepRefines DEF FtpInv
<1> QED
  BY <1>1, <1>2, FtpInvariant, PTL DEF Spec, ImplementsRunStore, Abstract!Spec

\* The theorems about RunStore, of a server.
Store == INSTANCE RunStoreProofs WITH
  Atomic <- FALSE,
  content <- [r \in Run |-> HeldOf(r)],
  vouched <- {r \in Run : synced[r]}

\* A run for which sync returned success is complete on the server as long as it is
\* within the window, whatever fails and however invocations overlap (sync, cleanup).
THEOREM SyncedRunsStayWhole ==
  Spec => [](\A r \in Run : synced[r] => HeldOf(r) = "whole" \/ Expired(r))
<1>1. Store!Spec => []Store!VouchedRunsAreWhole
  BY Store!VouchedRunsStayWhole, NumRunsAssumption, MaxDayAssumption,
     RetentionDaysAssumption, PTL
<1>2. Abstract!Init => Store!Init
  BY DEF Abstract!Init, Store!Init, Abstract!Run, Store!Run
<1>3. [Abstract!Next]_(Abstract!vars) => [Store!Next]_(Store!vars)
  BY DEF Abstract!Next, Abstract!vars, Store!Next, Store!vars, Abstract!Tick, Store!Tick,
     Abstract!Run, Store!Run, Abstract!Stamp, Store!Stamp, Abstract!Appear, Store!Appear,
     Abstract!Complete, Store!Complete, Abstract!Vouch, Store!Vouch, Abstract!Retire,
     Store!Retire, Abstract!Becomes, Store!Becomes, Abstract!Expired, Store!Expired,
     Abstract!BeforeCutoff, Store!BeforeCutoff
<1>4. Store!VouchedRunsAreWhole =>
        \A r \in Run : synced[r] => HeldOf(r) = "whole" \/ Expired(r)
  BY DEF Store!VouchedRunsAreWhole, Store!Expired, Expired, Store!BeforeCutoff,
     BeforeCutoff
<1> QED
  BY <1>1, <1>2, <1>3, <1>4, FtpStoreImplementsRunStore, PTL
     DEF ImplementsRunStore, Abstract!Spec, Store!Spec
===============================================================================

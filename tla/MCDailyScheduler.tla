--------------------------- MODULE MCDailyScheduler ---------------------------
(***************************************************************************)
(* Instances of DailyScheduler for TLC: three days, on the second of which *)
(* daylight saving time may begin or end, before, in or after the hour of  *)
(* the backup.                                                             *)
(***************************************************************************)
EXTENDS DailyScheduler

MCBackupTimes == {0, 2, 23}
MCDurations == {0, 3, 26}
MCChanges == {Day, Day + 2, Day + 23}
MCOffsets ==
  {[t \in Instant |-> IF t < change THEN before ELSE after] :
     change \in MCChanges, before \in {0, 1}, after \in {0, 1}}
  \cup {[t \in Instant |-> -5]}

===============================================================================

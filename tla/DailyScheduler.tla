---------------------------- MODULE DailyScheduler ----------------------------
(***************************************************************************)
(* DailyScheduler.schedule: the loop that sleeps until BACKUP_TIME and     *)
(* calls run_once.  Time is counted in hours; the clock on the wall is the *)
(* time elapsed plus the UTC offset of TZ, which may change while the loop *)
(* sleeps.  The arithmetic is that of Python's datetime: two datetimes of  *)
(* one tzinfo are compared and subtracted by the clock on the wall.        *)
(***************************************************************************)
EXTENDS Integers, Sequences

CONSTANTS
  BackupTimes,   \* the hours BACKUP_TIME may be set to
  Offsets,       \* the histories of the UTC offset
  Durations,     \* how long the callback may take
  MaxDuration,   \* bound of Durations
  Horizon        \* bound: the last time at which the loop goes to sleep

Day == 24
Instant == 0..(Horizon + Day + MaxDuration)

ASSUME BackupTimesAssumption == BackupTimes \subseteq 0..(Day - 1)
ASSUME HorizonAssumption == Horizon \in Nat /\ MaxDuration \in Nat
ASSUME OffsetsAssumption == Offsets \subseteq [Instant -> Int]
ASSUME DurationsAssumption == Durations \subseteq 0..MaxDuration

VARIABLES
  backup_time,   \* BACKUP_TIME
  offset,        \* the UTC offset of TZ, at every instant
  now,           \* the time
  pc,            \* where schedule stands
  wake,          \* the end of the sleep
  stop,          \* _stop_event
  runs           \* the sleeps that ended in a call of the callback

vars == <<backup_time, offset, now, pc, wake, stop, runs>>

Sleep == [from : Instant, to : Instant]

TypeOK ==
  /\ backup_time \in BackupTimes
  /\ offset \in Offsets
  /\ now \in Instant
  /\ pc \in {"new", "loop", "sleeping", "callback", "stopped", "raised"}
  /\ wake \in Instant
  /\ stop \in BOOLEAN
  /\ runs \in Seq(Sleep)

Init ==
  /\ backup_time \in BackupTimes
  /\ offset \in Offsets
  /\ now \in 0..(Day - 1)
  /\ now <= Horizon
  /\ pc = "new"
  /\ wake = 0
  /\ stop = FALSE
  /\ runs = <<>>

-------------------------------------------------------------------------------
Wall(t) == t + offset[t]

\* Mutant of NextRunAfter: a run on the stroke is followed by itself.
NextRunAtOrAfter(wall) ==
  LET today == wall - (wall % Day) + backup_time
  IN  IF today < wall THEN today + Day ELSE today

\* Mutant of NextRunAfter: always tomorrow.
NextRunTomorrow(wall) == wall - (wall % Day) + backup_time + Day

\* next_run_after
NextRunAfter(wall) ==
  LET today == wall - (wall % Day) + backup_time
  IN  IF today <= wall THEN today + Day ELSE today

\* Mutant of Delay: the next run is computed in UTC.
DelayInUTC == NextRunAfter(now) - now

\* seconds_until_next_run
Delay == LET difference == NextRunAfter(Wall(now)) - Wall(now)
         IN  IF difference > 0 THEN difference ELSE 0

\* schedule clears the event: a stop that came before it is forgotten.
Schedule ==
  /\ pc = "new"
  /\ stop' = FALSE
  /\ pc' = "loop"
  /\ UNCHANGED <<backup_time, offset, now, wake, runs>>

\* Mutant of GoToSleep: the event is cleared before every sleep.
GoToSleepAfterClear ==
  /\ pc = "loop"
  /\ stop' = FALSE
  /\ now <= Horizon
  /\ wake' = now + Delay
  /\ pc' = "sleeping"
  /\ UNCHANGED <<backup_time, offset, now, runs>>

GoToSleep ==
  /\ pc = "loop"
  /\ ~stop
  /\ now <= Horizon
  /\ wake' = now + Delay
  /\ pc' = "sleeping"
  /\ UNCHANGED <<backup_time, offset, now, stop, runs>>

LeaveLoop ==
  /\ pc = "loop"
  /\ stop
  /\ pc' = "stopped"
  /\ UNCHANGED <<backup_time, offset, now, wake, stop, runs>>

\* Mutant of WakeUp: the event is not looked at after the sleep.
WakeUpRegardless ==
  /\ pc = "sleeping"
  /\ now' = wake
  /\ pc' = "callback"
  /\ runs' = Append(runs, [from |-> now, to |-> wake])
  /\ UNCHANGED <<backup_time, offset, wake, stop>>

\* Mutant of WakeUp: the delay is taken for a time.
WakeUpLate ==
  /\ pc = "sleeping"
  /\ now' = now + wake
  /\ pc' = "callback"
  /\ runs' = Append(runs, [from |-> now, to |-> now + wake])
  /\ UNCHANGED <<backup_time, offset, wake, stop>>

\* The sleep, which stop does not interrupt, is over.
WakeUp ==
  /\ pc = "sleeping"
  /\ now' = wake
  /\ IF stop
       THEN pc' = "stopped" /\ UNCHANGED runs
       ELSE pc' = "callback" /\ runs' = Append(runs, [from |-> now, to |-> wake])
  /\ UNCHANGED <<backup_time, offset, wake, stop>>

CallbackReturns ==
  /\ pc = "callback"
  /\ \E d \in Durations : now' = now + d
  /\ pc' = "loop"
  /\ UNCHANGED <<backup_time, offset, wake, stop, runs>>

\* schedule does not catch what the callback raises.
CallbackRaises ==
  /\ pc = "callback"
  /\ pc' = "raised"
  /\ UNCHANGED <<backup_time, offset, now, wake, stop, runs>>

\* Another part of the program, or the callback itself, calls stop.
Stop ==
  /\ pc \notin {"stopped", "raised"}
  /\ ~stop
  /\ stop' = TRUE
  /\ UNCHANGED <<backup_time, offset, now, pc, wake, runs>>

Loop == GoToSleep \/ LeaveLoop \/ WakeUp \/ CallbackReturns \/ CallbackRaises

Next == Schedule \/ Loop \/ Stop

Spec == Init /\ [][Next]_vars

\* A sleep ends, and so does a call of run_once.
FairSpec == Spec /\ WF_vars(Loop)

-------------------------------------------------------------------------------
(***************************************************************************)
(* Properties.                                                             *)
(***************************************************************************)

\* The UTC offset never changes.
SteadyOffset == \A t \in Instant : offset[t] = offset[0]

\* docs/configuration.md:9: every run starts at BACKUP_TIME.
EveryRunAtBackupTime ==
  \A i \in 1..Len(runs) : Wall(runs[i].to) % Day = backup_time

\* Under a steady offset it does; no day has two runs, and the loop does not sleep
\* through the backup time of a day: however long run_once takes, and although
\* next_run_after is asked again in the very hour of the last run.
AtBackupTime == SteadyOffset => EveryRunAtBackupTime
OncePerDay ==
  SteadyOffset =>
    \A i, k \in 1..Len(runs) :
      i # k => Wall(runs[i].to) \div Day # Wall(runs[k].to) \div Day
NotSleptThrough ==
  SteadyOffset =>
    \A i \in 1..Len(runs) :
      \A t \in (runs[i].from + 1)..(runs[i].to - 1) : Wall(t) % Day # backup_time

\* What an offset that changes can do is bounded: a run misses the backup time by
\* what the clock jumped during the sleep before it, the error is not carried
\* into the next run, and no sleep is longer than a day.
MissesByTheJump ==
  \A i \in 1..Len(runs) :
    LET jump == offset[runs[i].to] - offset[runs[i].from]
    IN  /\ (Wall(runs[i].to) - jump) % Day = backup_time
        /\ runs[i].to - runs[i].from \in 1..Day

\* The inductive invariant of MissesByTheJump.
SleepInv ==
  /\ pc = "sleeping" =>
       /\ wake - now \in 1..Day
       /\ (Wall(now) + (wake - now)) % Day = backup_time
       /\ now <= Horizon
  /\ pc \in {"new", "callback"} => now <= Horizon + Day
SchedulerInv == SleepInv /\ MissesByTheJump

\* Once stop was called on a loop under way, run_once is not called again, and the
\* loop ends: at the latest when the sleep does.
StoppedLoopDoesNotRun ==
  [][stop /\ pc # "new" => UNCHANGED runs]_vars
StopEndsTheLoop ==
  stop /\ pc # "new" ~> pc \in {"stopped", "raised"}

===============================================================================

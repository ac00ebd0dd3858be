------------------------- MODULE DailySchedulerProofs -------------------------
(***************************************************************************)
(* Theorems about the scheduler, for every history of the UTC offset, of   *)
(* any number of changes of any size.                                      *)
(***************************************************************************)
EXTENDS DailyScheduler, SequenceTheorems, TLAPS

\* next_run_after: the backup time of today or of tomorrow, and the first to come.
LEMMA NextRunFacts ==
  ASSUME NEW wall \in Int, NEW b \in 0..(Day - 1), b = backup_time
  PROVE  /\ NextRunAfter(wall) \in Int
         /\ NextRunAfter(wall) - wall \in 1..Day
         /\ NextRunAfter(wall) % Day = b
BY DEF NextRunAfter, Day

LEMMA DelayFacts ==
  ASSUME TypeOK
  PROVE  /\ Wall(now) \in Int
         /\ Delay \in 1..Day
         /\ (Wall(now) + Delay) % Day = backup_time
<1>1. Wall(now) \in Int
  BY OffsetsAssumption, HorizonAssumption DEF TypeOK, Wall, Instant, Day
<1>2. backup_time \in 0..(Day - 1)
  BY BackupTimesAssumption DEF TypeOK
<1> DEFINE next == NextRunAfter(Wall(now))
<1>3. next \in Int /\ next - Wall(now) \in 1..Day /\ next % Day = backup_time
  BY <1>1, <1>2, NextRunFacts
<1>4. Delay = IF next - Wall(now) > 0 THEN next - Wall(now) ELSE 0
  BY DEF Delay
<1> HIDE DEF next
<1>5. Delay = next - Wall(now)
  BY <1>1, <1>3, <1>4 DEF Day
<1> QED
  BY <1>1, <1>3, <1>5 DEF Day

IInv == TypeOK /\ SchedulerInv

LEMMA InitInv ==
  Init => IInv
<1> SUFFICES ASSUME Init
             PROVE  IInv
  OBVIOUS
<1>1. /\ backup_time \in BackupTimes /\ offset \in Offsets /\ now \in 0..(Day - 1)
      /\ now <= Horizon /\ pc = "new" /\ wake = 0 /\ stop = FALSE /\ runs = << >>
  BY DEF Init
<1>2. now \in Instant /\ wake \in Instant
  BY <1>1, HorizonAssumption DEF Instant, Day
<1>3. runs \in Seq(Sleep) /\ Len(runs) = 0
  BY <1>1
<1>4. now <= Horizon + Day
  BY <1>1, HorizonAssumption DEF Day
<1>5. TypeOK
  BY <1>1, <1>2, <1>3 DEF TypeOK
<1>6. SleepInv
  BY <1>1, <1>4 DEF SleepInv
<1>7. MissesByTheJump
  BY <1>3 DEF MissesByTheJump
<1> QED
  BY <1>5, <1>6, <1>7 DEF IInv, SchedulerInv

LEMMA GoToSleepStep ==
  ASSUME IInv, GoToSleep
  PROVE  IInv'
<1> USE DEF IInv, SchedulerInv
<1>1. /\ Wall(now) \in Int /\ Delay \in 1..Day
      /\ (Wall(now) + Delay) % Day = backup_time
  BY DelayFacts
<1>2. /\ pc' = "sleeping" /\ wake' = now + Delay /\ now <= Horizon
      /\ UNCHANGED <<backup_time, offset, now, stop, runs>>
  BY DEF GoToSleep
<1>3. now \in 0..Horizon /\ Horizon \in Nat /\ MaxDuration \in Nat
  BY <1>2, HorizonAssumption DEF TypeOK, Instant, Day
<1>4. wake' \in Instant /\ wake' - now = Delay
  BY <1>1, <1>2, <1>3 DEF Instant, Day
<1>5. TypeOK'
  BY <1>2, <1>4 DEF TypeOK
<1>6. SleepInv'
  BY <1>1, <1>2, <1>4 DEF SleepInv, Wall
<1>7. MissesByTheJump'
  BY <1>2 DEF MissesByTheJump, Wall
<1> QED
  BY <1>5, <1>6, <1>7

LEMMA WakeUpStep ==
  ASSUME IInv, WakeUp
  PROVE  IInv'
<1> USE DEF IInv, SchedulerInv
<1>1. /\ pc = "sleeping" /\ now' = wake /\ pc' \in {"stopped", "callback"}
      /\ UNCHANGED <<backup_time, offset, wake, stop>>
  BY DEF WakeUp
<1> DEFINE sleep == [from |-> now, to |-> wake]
<1>2. \/ runs' = runs
      \/ runs' = Append(runs, sleep)
  BY DEF WakeUp
<1>3. /\ now \in Instant /\ wake \in Instant /\ sleep \in Sleep /\ runs \in Seq(Sleep)
  BY DEF TypeOK, Sleep
<1>4. /\ wake - now \in 1..Day /\ now <= Horizon
      /\ (Wall(now) + (wake - now)) % Day = backup_time
  BY <1>1 DEF SleepInv
<1>5. wake <= Horizon + Day
  BY <1>3, <1>4, HorizonAssumption DEF Instant, Day
<1>6. runs' \in Seq(Sleep)
  BY <1>2, <1>3
<1>7. TypeOK'
  BY <1>1, <1>6 DEF TypeOK
<1>8. SleepInv'
  BY <1>1, <1>5 DEF SleepInv
<1>9. MissesByTheJump'
  <2> DEFINE OnTime(s) ==
        /\ (Wall(s.to) - (offset[s.to] - offset[s.from])) % Day = backup_time
        /\ s.to - s.from \in 1..Day
  <2>1. MissesByTheJump = \A i \in 1..Len(runs) : OnTime(runs[i])
    BY DEF MissesByTheJump
  <2>2. MissesByTheJump' = \A i \in 1..Len(runs') : OnTime(runs'[i])
    BY <1>1 DEF MissesByTheJump, Wall
  <2>3. OnTime(sleep)
    <3>1. offset[now] \in Int /\ offset[wake] \in Int
      <4>1. offset \in [Instant -> Int]
        BY OffsetsAssumption DEF TypeOK
      <4> QED
        BY <1>3, <4>1
    <3>2. now \in Int /\ wake \in Int
      BY <1>3 DEF Instant
    <3>3. Wall(wake) - (offset[wake] - offset[now]) = Wall(now) + (wake - now)
      BY <3>1, <3>2 DEF Wall
    <3> QED
      BY <1>4, <3>3
  <2> HIDE DEF OnTime, sleep
  <2>4. CASE runs' = runs
    BY <2>1, <2>2, <2>4
  <2>5. CASE runs' = Append(runs, sleep)
    <3>1. Len(runs') = Len(runs) + 1 /\ runs'[Len(runs) + 1] = sleep
          /\ \A i \in 1..Len(runs) : runs'[i] = runs[i]
      BY <1>3, <2>5
    <3>2. Len(runs) \in Nat
      BY <1>3
    <3>3. ASSUME NEW i \in 1..Len(runs')
          PROVE  OnTime(runs'[i])
      <4>1. i \in 1..Len(runs) \/ i = Len(runs) + 1
        BY <3>1, <3>2
      <4> QED
        BY <2>1, <2>3, <3>1, <3>2, <4>1
    <3> QED
      BY <2>2, <3>3
  <2> QED
    BY <1>2, <2>4, <2>5
<1> QED
  BY <1>7, <1>8, <1>9

LEMMA CallbackReturnsStep ==
  ASSUME IInv, CallbackReturns
  PROVE  IInv'
<1> USE DEF IInv, SchedulerInv
<1>1. PICK d \in Durations : now' = now + d
  BY DEF CallbackReturns
<1>2. /\ pc = "callback" /\ pc' = "loop"
      /\ UNCHANGED <<backup_time, offset, wake, stop, runs>>
  BY DEF CallbackReturns
<1>3. d \in 0..MaxDuration /\ now <= Horizon + Day /\ now \in Instant
  BY <1>2, DurationsAssumption DEF SleepInv, TypeOK
<1>4. now' \in Instant
  BY <1>1, <1>3, HorizonAssumption DEF Instant, Day
<1>5. TypeOK' /\ SleepInv'
  BY <1>2, <1>4 DEF TypeOK, SleepInv
<1>6. MissesByTheJump'
  BY <1>2 DEF MissesByTheJump, Wall
<1> QED
  BY <1>5, <1>6

LEMMA NextInv ==
  IInv /\ [Next]_vars => IInv'
<1> SUFFICES ASSUME IInv, [Next]_vars
             PROVE  IInv'
  OBVIOUS
<1> USE DEF IInv, SchedulerInv
<1>1. CASE Schedule
  BY <1>1 DEF Schedule, TypeOK, SleepInv, MissesByTheJump, Wall
<1>2. CASE GoToSleep
  BY <1>2, GoToSleepStep
<1>3. CASE LeaveLoop
  BY <1>3 DEF LeaveLoop, TypeOK, SleepInv, MissesByTheJump, Wall
<1>4. CASE WakeUp
  BY <1>4, WakeUpStep
<1>5. CASE CallbackReturns
  BY <1>5, CallbackReturnsStep
<1>6. CASE CallbackRaises
  BY <1>6 DEF CallbackRaises, TypeOK, SleepInv, MissesByTheJump, Wall
<1>7. CASE Stop
  BY <1>7 DEF Stop, TypeOK, SleepInv, MissesByTheJump, Wall
<1>8. CASE UNCHANGED vars
  BY <1>8 DEF vars, TypeOK, SleepInv, MissesByTheJump, Wall
<1> QED
  BY <1>1, <1>2, <1>3, <1>4, <1>5, <1>6, <1>7, <1>8 DEF Next, Loop

\* Whatever TZ does, a run misses the backup time by what the clock jumped in the
\* sleep before it, no more, and the next run is computed afresh; and the agent
\* is never asleep for more than a day.
THEOREM RunsMissByTheJump == Spec => []MissesByTheJump
<1>1. IInv => MissesByTheJump
  BY DEF IInv, SchedulerInv
<1> QED
  BY InitInv, NextInv, <1>1, PTL DEF Spec

\* When the offset never changes, every run starts at the backup time.
THEOREM RunsAtBackupTime == Spec => []AtBackupTime
<1>1. IInv => AtBackupTime
  <2> SUFFICES ASSUME IInv, SteadyOffset, NEW i \in 1..Len(runs)
               PROVE  Wall(runs[i].to) % Day = backup_time
    BY DEF AtBackupTime, EveryRunAtBackupTime
  <2>1. runs[i].from \in Instant /\ runs[i].to \in Instant
    <3>1. runs[i] \in Sleep
      <4>1. runs \in Seq(Sleep)
        BY DEF IInv, TypeOK
      <4> QED
        BY <4>1
    <3> QED
      BY <3>1 DEF Sleep
  <2>2. offset[runs[i].to] = offset[runs[i].from] /\ offset[runs[i].to] \in Int
    BY <2>1, OffsetsAssumption DEF IInv, TypeOK, SteadyOffset
  <2>3. Wall(runs[i].to) \in Int
    BY <2>1, <2>2, HorizonAssumption DEF Wall, Instant, Day
  <2> QED
    BY <2>2, <2>3 DEF IInv, SchedulerInv, MissesByTheJump
<1> QED
  BY InitInv, NextInv, <1>1, PTL DEF Spec

-------------------------------------------------------------------------------
\* The sleeps follow one another: none begins before the last one ended.
OrderInv ==
  /\ \A i \in 1..Len(runs) : runs[i].to <= now
  /\ \A i, k \in 1..Len(runs) : i < k => runs[i].to <= runs[k].from

LEMMA RunFacts ==
  ASSUME IInv, NEW i \in 1..Len(runs)
  PROVE  runs[i] \in Sleep /\ runs[i].from \in Nat /\ runs[i].to \in Nat
         /\ runs[i].from \in Instant /\ runs[i].to \in Instant
<1>1. runs \in Seq(Sleep)
  BY DEF IInv, TypeOK
<1>2. runs[i] \in Sleep
  BY <1>1
<1> QED
  BY <1>2, HorizonAssumption DEF Sleep, Instant, Day

LEMMA OrderStep ==
  IInv /\ OrderInv /\ [Next]_vars => OrderInv'
<1> SUFFICES ASSUME IInv, OrderInv, [Next]_vars
             PROVE  OrderInv'
  OBVIOUS
<1>1. now \in Nat /\ wake \in Nat
  BY HorizonAssumption DEF IInv, TypeOK, Instant, Day
<1>2. CASE WakeUp
  <2> DEFINE sleep == [from |-> now, to |-> wake]
  <2>1. wake > now /\ now' = wake
    BY <1>1, <1>2 DEF WakeUp, IInv, SchedulerInv, SleepInv, Day
  <2>2. runs \in Seq(Sleep) /\ Len(runs) \in Nat /\ sleep \in Sleep
    BY DEF IInv, TypeOK, Sleep
  <2>3. \A i \in 1..Len(runs) : runs[i].to <= wake
    BY <1>1, <2>1, RunFacts DEF OrderInv
  <2>4. CASE runs' = runs
    BY <2>1, <2>3, <2>4 DEF OrderInv
  <2>5. CASE runs' = Append(runs, sleep)
    <3>1. Len(runs') = Len(runs) + 1 /\ runs'[Len(runs) + 1] = sleep
          /\ \A i \in 1..Len(runs) : runs'[i] = runs[i]
      BY <2>2, <2>5
    <3>2. sleep.from = now /\ sleep.to = wake
      OBVIOUS
    <3> HIDE DEF sleep
    <3>3. \A i \in 1..Len(runs') : i \in 1..Len(runs) \/ i = Len(runs) + 1
      BY <2>2, <3>1
    <3>4. \A i \in 1..Len(runs') : runs'[i].to <= now'
      BY <1>1, <2>1, <2>3, <3>1, <3>2, <3>3
    <3>5. ASSUME NEW i \in 1..Len(runs'), NEW k \in 1..Len(runs'), i < k
          PROVE  runs'[i].to <= runs'[k].from
      <4>1. i \in 1..Len(runs)
        BY <2>2, <3>1, <3>5
      <4> QED
        BY <3>1, <3>2, <3>3, <3>5, <4>1 DEF OrderInv
    <3> QED
      BY <3>4, <3>5 DEF OrderInv
  <2> QED
    BY <1>2, <2>4, <2>5 DEF WakeUp
<1>3. CASE CallbackReturns
  <2>1. PICK d \in Durations : now' = now + d
    BY <1>3 DEF CallbackReturns
  <2>2. d \in Nat /\ runs' = runs
    BY <1>3, DurationsAssumption, HorizonAssumption DEF CallbackReturns
  <2>3. \A i \in 1..Len(runs) : runs[i].to <= now'
    BY <1>1, <2>1, <2>2, RunFacts DEF OrderInv
  <2> QED
    BY <2>2, <2>3 DEF OrderInv
<1>4. CASE UNCHANGED <<now, runs>>
  BY <1>4 DEF OrderInv
<1> QED
  BY <1>2, <1>3, <1>4
  DEF Next, Loop, vars, Schedule, GoToSleep, LeaveLoop, CallbackRaises, Stop

LEMMA OrderInvariant == Spec => [](IInv /\ OrderInv)
<1>1. Init => OrderInv
  BY DEF Init, OrderInv
<1> QED
  BY <1>1, InitInv, NextInv, OrderStep, PTL DEF Spec

\* The times and the sleeps of the loop stay within their types, and the invariant
\* that carries the arithmetic of next_run_after from the sleep to the run holds.
THEOREM SchedulerInvariant == Spec => [](TypeOK /\ SchedulerInv)
BY InitInv, NextInv, PTL DEF Spec, IInv

LEMMA SteadyFacts ==
  ASSUME IInv, SteadyOffset, NEW t \in Instant
  PROVE  /\ t \in Int /\ offset[0] \in Int
         /\ Wall(t) = t + offset[0]
<1>1. 0 \in Instant /\ t \in Int
  BY HorizonAssumption DEF Instant, Day
<1>2. offset[0] \in Int
  BY <1>1, OffsetsAssumption DEF IInv, TypeOK
<1> QED
  BY <1>1, <1>2 DEF SteadyOffset, Wall

LEMMA SteadyRuns ==
  ASSUME IInv, SteadyOffset, NEW i \in 1..Len(runs)
  PROVE  /\ (runs[i].to + offset[0]) % Day = backup_time
         /\ runs[i].to - runs[i].from \in 1..Day
<1>1. runs[i].from \in Instant /\ runs[i].to \in Instant
  BY RunFacts
<1>2. offset[runs[i].to] = offset[0] /\ offset[runs[i].from] = offset[0]
  BY <1>1 DEF SteadyOffset
<1>3. Wall(runs[i].to) = runs[i].to + offset[0] /\ runs[i].to \in Int /\ offset[0] \in Int
  BY <1>1, SteadyFacts
<1>4. (Wall(runs[i].to) - (offset[runs[i].to] - offset[runs[i].from])) % Day = backup_time
      /\ runs[i].to - runs[i].from \in 1..Day
  BY DEF IInv, SchedulerInv, MissesByTheJump
<1> QED
  BY <1>2, <1>3, <1>4

\* Two hours that are less than a day apart are not the same hour of the day.
LEMMA HoursOfADayDiffer ==
  ASSUME NEW a \in Int, NEW b \in Int, a < b, b < a + Day
  PROVE  a % Day # b % Day
BY DEF Day

LEMMA SameHourOfSameDay ==
  ASSUME NEW a \in Int, NEW b \in Int, a % Day = b % Day, a \div Day = b \div Day
  PROVE  a = b
BY DEF Day

\* When the offset never changes, the loop is not asleep at the backup time of any
\* day: for every length of the runs, no daily backup is missed while it waits.
THEOREM NoBackupTimeIsSleptThrough == Spec => []NotSleptThrough
<1>1. IInv => NotSleptThrough
  <2> SUFFICES ASSUME IInv, SteadyOffset, NEW i \in 1..Len(runs),
                      NEW t \in (runs[i].from + 1)..(runs[i].to - 1)
               PROVE  Wall(t) % Day # backup_time
    BY DEF NotSleptThrough
  <2>1. /\ (runs[i].to + offset[0]) % Day = backup_time
        /\ runs[i].to - runs[i].from \in 1..Day
    BY SteadyRuns
  <2>2. runs[i].from \in Nat /\ runs[i].to \in Nat /\ runs[i].to \in Instant
    BY RunFacts
  <2>3. t \in Instant
    BY <2>2, HorizonAssumption DEF Instant, Day
  <2>4. t \in Int /\ offset[0] \in Int /\ Wall(t) = t + offset[0]
    BY <2>3, SteadyFacts
  <2>5. t < runs[i].to /\ runs[i].to < t + Day
    <3> DEFINE from == runs[i].from
               to == runs[i].to
    <3>1. from \in Nat /\ to \in Nat /\ to - from \in 1..Day
      BY <2>1, <2>2
    <3>2. t \in (from + 1)..(to - 1)
      OBVIOUS
    <3> HIDE DEF from, to
    <3>3. t < to /\ to < t + Day
      BY <3>1, <3>2 DEF Day
    <3> QED
      BY <3>3 DEF from, to
  <2>6. /\ t + offset[0] \in Int /\ runs[i].to + offset[0] \in Int
        /\ t + offset[0] < runs[i].to + offset[0]
        /\ runs[i].to + offset[0] < (t + offset[0]) + Day
    BY <2>2, <2>4, <2>5 DEF Day
  <2>7. (t + offset[0]) % Day # (runs[i].to + offset[0]) % Day
    BY <2>6, HoursOfADayDiffer
  <2> QED
    BY <2>1, <2>4, <2>7
<1> QED
  BY InitInv, NextInv, <1>1, PTL DEF Spec

\* When the offset never changes, no day of the clock on the wall has two runs:
\* also when next_run_after is asked in the very hour of the last run.
THEOREM OneRunPerDay == Spec => []OncePerDay
<1>1. IInv /\ OrderInv => OncePerDay
  <2> SUFFICES ASSUME IInv, OrderInv, SteadyOffset,
                      NEW i \in 1..Len(runs), NEW k \in 1..Len(runs), i < k
               PROVE  Wall(runs[i].to) \div Day # Wall(runs[k].to) \div Day
    <3>1. \A i, k \in 1..Len(runs) : i # k => i < k \/ k < i
      OBVIOUS
    <3> QED
      BY <3>1 DEF OncePerDay
  <2>1. /\ (runs[i].to + offset[0]) % Day = backup_time
        /\ (runs[k].to + offset[0]) % Day = backup_time
        /\ runs[k].to - runs[k].from \in 1..Day
    BY SteadyRuns
  <2>2. runs[i].to <= runs[k].from
    BY DEF OrderInv
  <2>3. /\ runs[i].to \in Nat /\ runs[k].to \in Nat /\ runs[k].from \in Nat
        /\ runs[i].to \in Instant /\ runs[k].to \in Instant
    BY RunFacts
  <2>4. /\ Wall(runs[i].to) = runs[i].to + offset[0]
        /\ Wall(runs[k].to) = runs[k].to + offset[0]
        /\ offset[0] \in Int
    BY <2>3, SteadyFacts
  <2>5. /\ runs[i].to + offset[0] # runs[k].to + offset[0]
        /\ runs[i].to + offset[0] \in Int /\ runs[k].to + offset[0] \in Int
    <3> DEFINE first == runs[i].to
               from == runs[k].from
               second == runs[k].to
               o == offset[0]
    <3>1. /\ first \in Nat /\ from \in Nat /\ second \in Nat /\ o \in Int
          /\ first <= from /\ second - from \in 1..Day
      BY <2>1, <2>2, <2>3, <2>4
    <3> HIDE DEF first, from, second, o
    <3>2. first + o # second + o /\ first + o \in Int /\ second + o \in Int
      BY <3>1 DEF Day
    <3> QED
      BY <3>2 DEF first, second, o
  <2> QED
    BY <2>1, <2>4, <2>5, SameHourOfSameDay
<1> QED
  BY OrderInvariant, <1>1, PTL

\* A loop that was told to stop does not call run_once again: the event is looked
\* at after the sleep, before the callback.
THEOREM StopPreventsRuns == Spec => StoppedLoopDoesNotRun
<1>1. [Next]_vars => [stop /\ pc # "new" => UNCHANGED runs]_vars
  BY DEF Next, Loop, vars, Schedule, GoToSleep, LeaveLoop, WakeUp, CallbackReturns,
         CallbackRaises, Stop
<1> QED
  BY <1>1, PTL DEF Spec, StoppedLoopDoesNotRun

===============================================================================

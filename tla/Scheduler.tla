------------------------------- MODULE Scheduler -------------------------------
(***************************************************************************)
(* scanner/scheduler.py: the cron jobs of one machine, one for each        *)
(* enabled environment at its own second of the minute and one at midnight *)
(* that zeroes the day's counters, run by APScheduler's BackgroundScheduler *)
(* on a pool of threads.                                                   *)
(*                                                                         *)
(* APScheduler is modelled from the options scheduler.py gives it: its     *)
(* thread waits until the next fire time, hands every job that is due to   *)
(* the pool, at most one instance of each (max_instances) and one run for  *)
(* all the fire times it missed (coalesce), and a worker drops a run that  *)
(* is later than misfire_grace_time.  Fire times are wall-clock times; the *)
(* wait is measured on the monotonic clock, which stands still while the   *)
(* host sleeps.  A tick is a fraction of a minute, and days are short.     *)
(***************************************************************************)
EXTENDS Integers, FiniteSets

CONSTANTS
  Envs,         \* enabled environments
  Reset,        \* the <machine>:daily-reset job
  OffsetOf,     \* schedule_offset_seconds
  Minute, Day,  \* length of a minute and of a day, in ticks
  Grace,        \* misfire_grace_time of a poll (30 s)
  ResetGrace    \* misfire_grace_time of the daily reset (3600 s)

(* What the theorems, and the modules that use the scheduler, assume.      *)
SchedulerAssumption ==
  /\ IsFiniteSet(Envs) /\ Reset \notin Envs
  /\ Minute \in Nat \ {0} /\ Day \in Nat \ {0} /\ Day % Minute = 0
  /\ OffsetOf \in [Envs -> 0 .. Minute - 1]
  /\ Grace \in Nat /\ ResetGrace \in Nat

VARIABLES
  mode,      \* the BackgroundScheduler: running, or not accepting work
  now,       \* the wall clock: time of day
  wake,      \* what is left of the scheduler thread's wait
  overdue,   \* ticks since a job's last fire time, if it was not seen yet
  job,       \* each job's instance in the executor
  late,      \* age of the fire time a submitted run is for
  tally,     \* the day the counters of BatchRunState are about
  gap        \* ticks an environment has gone without a poll while awake

vars == <<mode, now, wake, overdue, job, late, tally, gap>>

Jobs   == Envs \cup {Reset}
NotDue == -1
Due(j) == overdue[j] # NotDue

(* Variant with a mistake: a worker for each environment, and no more.     *)
PoolSize_OnePerEnv == Cardinality(Envs)

PoolSize == IF 4 < 2 * Cardinality(Envs) THEN 2 * Cardinality(Envs) ELSE 4

Running    == {j \in Jobs : job[j] = "running"}
FreeWorker == Cardinality(Running) < PoolSize

(* Variant with a mistake: the reset is given the grace of a poll.         *)
GraceOf_Same(j) == Grace

GraceOf(j) == IF j = Reset THEN ResetGrace ELSE Grace

TypeOK ==
  /\ mode \in {"stopped", "running"}
  /\ now \in 0 .. Day - 1 /\ wake \in 0 .. Day
  /\ overdue \in [Jobs -> -1 .. Day]
  /\ job \in [Jobs -> {"idle", "submitted", "running"}]
  /\ late \in [Jobs -> Nat]
  /\ tally \in {"today", "yesterday"}
  /\ gap \in [Envs -> Nat]

Init ==
  /\ mode = "stopped" /\ now = 0 /\ wake = 0
  /\ overdue = [j \in Jobs |-> NotDue]
  /\ job = [j \in Jobs |-> "idle"] /\ late = [j \in Jobs |-> 0]
  /\ tally = "today" /\ gap = [e \in Envs |-> 0]

(* Variant with a mistake: minute is left out, and stands for minute 0.    *)
Fires_MinuteZero(j, t) == IF j = Reset THEN t % Day = 0 ELSE t % Day = OffsetOf[j]

(* CronTrigger(second=offset, minute="*"), CronTrigger(hour=0, ...)        *)
Fires(j, t) == IF j = Reset THEN t % Day = 0 ELSE t % Minute = OffsetOf[j]

(* Ticks from time t to the next fire time of any job.                     *)
NextFire(t) == CHOOSE k \in 1 .. Day :
  /\ \E j \in Jobs : Fires(j, t + k)
  /\ \A i \in 1 .. k - 1 : \A j \in Jobs : ~Fires(j, t + i)

(* register() and start(): in a new process every counter is zero.         *)
Start ==
  /\ mode = "stopped" /\ mode' = "running"
  /\ wake' = NextFire(now)
  /\ overdue' = [j \in Jobs |-> NotDue]
  /\ tally' = "today" /\ gap' = [e \in Envs |-> 0]
  /\ UNCHANGED <<now, job, late>>

(* The scheduler thread wakes: every job that is due is submitted, or      *)
(* skipped when its previous run is still in the executor                  *)
(* (_on_max_instances), and waits for its next fire time.                  *)
ProcessJobs ==
  /\ mode = "running" /\ wake = 0
  /\ LET submitted == {j \in Jobs : Due(j) /\ job[j] = "idle"} IN
     /\ job' = [j \in Jobs |-> IF j \in submitted THEN "submitted" ELSE job[j]]
     /\ late' = [j \in Jobs |-> IF j \in submitted THEN overdue[j] ELSE late[j]]
  /\ overdue' = [j \in Jobs |-> NotDue]
  /\ wake' = NextFire(now)
  /\ UNCHANGED <<mode, now, tally, gap>>

(* A worker takes a submitted run, _dispatch or _daily_reset, and drops it *)
(* when it is too late.                                                    *)
Begin(j) ==
  /\ job[j] = "submitted" /\ FreeWorker
  /\ LET inTime == late[j] <= GraceOf(j) IN
     /\ job' = [job EXCEPT ![j] = IF inTime THEN "running" ELSE "idle"]
     /\ tally' = IF inTime /\ j = Reset THEN "today" ELSE tally
     /\ gap' = [e \in Envs |-> IF inTime /\ e = j THEN 0 ELSE gap[e]]
  /\ late' = [late EXCEPT ![j] = 0]
  /\ UNCHANGED <<mode, now, wake, overdue>>

(* A run returns or raises.                                                *)
End(j) ==
  /\ job[j] = "running"
  /\ job' = [job EXCEPT ![j] = "idle"]
  /\ UNCHANGED <<mode, now, wake, overdue, late, tally, gap>>

(* shutdown(wait=True): nothing more is submitted, what is in the executor *)
(* still runs.                                                             *)
Shutdown ==
  /\ mode = "running" /\ mode' = "stopped"
  /\ UNCHANGED <<now, wake, overdue, job, late, tally, gap>>

Drained == mode = "stopped" /\ \A j \in Jobs : job[j] = "idle"

(* The process dies with everything it has in memory.                      *)
Die ==
  /\ mode' = "stopped" /\ wake' = 0
  /\ overdue' = [j \in Jobs |-> NotDue]
  /\ job' = [j \in Jobs |-> "idle"] /\ late' = [j \in Jobs |-> 0]
  /\ tally' = "today" /\ gap' = [e \in Envs |-> 0]
  /\ UNCHANGED now

(* The wall clock moves on by k ticks.                                     *)
Pass(k) ==
  /\ now' = (now + k) % Day
  /\ overdue' = [j \in Jobs |->
       LET ages == {i \in 0 .. k - 1 : Fires(j, now + k - i)} IN
       IF ages # {} THEN CHOOSE i \in ages : \A h \in ages : i <= h
       ELSE IF Due(j) THEN overdue[j] + k ELSE NotDue]
  /\ late' = [j \in Jobs |-> IF job[j] = "submitted" THEN late[j] + k ELSE late[j]]
  /\ tally' = IF \E i \in 1 .. k : Fires(Reset, now + i) THEN "yesterday" ELSE tally
  /\ UNCHANGED <<mode, job>>

(* A tick while the host is awake: threads that can go on do so first, and *)
(* the reset takes no time worth counting.                                 *)
Tick ==
  /\ mode = "running" => wake > 0
  /\ FreeWorker => \A j \in Jobs : job[j] # "submitted"
  /\ job[Reset] # "running"
  /\ Pass(1)
  /\ wake' = IF wake > 0 THEN wake - 1 ELSE 0
  /\ gap' = [e \in Envs |-> IF mode = "running" /\ job[e] = "idle" THEN gap[e] + 1 ELSE 0]

(* The host sleeps, or its clock jumps ahead: no thread notices.           *)
Sleep(k) == Pass(k) /\ gap' = [e \in Envs |-> 0] /\ UNCHANGED wake

-----------------------------------------------------------------------------
(* A poll never waits for a worker, however long the other environment's   *)
(* poll takes (FR-006a).                                                   *)
NobodyWaits == \A j \in Jobs : job[j] = "submitted" => FreeWorker

(* The counters are about today, unless the reset is on its way: no skip,  *)
(* misfire or sleep makes the scheduler leave a midnight out.              *)
CountersOfToday ==
  (mode = "running" /\ tally = "yesterday") => Due(Reset) \/ job[Reset] = "submitted"

(* While the host is awake no environment goes without a poll for more     *)
(* than two minutes after the previous one, or the last sleep, ended.      *)
PollsKeepComing == \A e \in Envs : gap[e] <= 2 * Minute

=============================================================================

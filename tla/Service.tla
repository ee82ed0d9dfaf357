------------------------------- MODULE Service -------------------------------
(***************************************************************************)
(* scanner/__main__.py: the process of one machine, from its start to its  *)
(* end.  The NTP gate comes first; then the folders are recovered and the  *)
(* scheduler and the drift monitor are started; a signal drains the        *)
(* scheduler and stops the monitor before the process exits.  The process  *)
(* may die at any time, and its supervisor starts it again.                *)
(***************************************************************************)
EXTENDS Integers, FiniteSets

CONSTANTS
  Envs, Reset, OffsetOf, Minute, Day, Grace, ResetGrace,
  Timeout, Poll, Interval, JoinTimeout, MaxFaults,
  LongestSleep,  \* bound: ticks the host sleeps at a time
  MaxSleeps,     \* bound: sleeps of the host
  MaxCrashes     \* bound: crashes and signals

VARIABLES
  mode, now, wake, overdue, job, late, tally, gap,
  gate, waited, monitor, spent, stop, offset, recent, faults,
  proc,      \* how far main() is
  joined,    \* ticks main has waited for the monitor's thread
  sleeps, crashes

Sched == INSTANCE Scheduler
Clock == INSTANCE ClockSync

ASSUME ServiceAssumption ==
  /\ Sched!SchedulerAssumption /\ Clock!ClockAssumption
  /\ LongestSleep \in Nat /\ MaxSleeps \in Nat /\ MaxCrashes \in Nat

scheduler == <<mode, now, wake, overdue, job, late, tally, gap>>
clock     == <<gate, waited, monitor, spent, stop, offset, recent, faults>>
process   == <<proc, joined, sleeps, crashes>>
vars      == <<scheduler, clock, process>>

TypeOK ==
  /\ Sched!TypeOK /\ Clock!TypeOK
  /\ proc \in {"down", "gate", "starting", "serving", "draining", "joining"}
  /\ joined \in 0 .. JoinTimeout
  /\ sleeps \in 0 .. MaxSleeps /\ crashes \in 0 .. MaxCrashes

Init ==
  /\ Sched!Init /\ Clock!Init
  /\ proc = "down" /\ joined = 0 /\ sleeps = 0 /\ crashes = 0

Reach(label) == proc' = label /\ UNCHANGED <<joined, sleeps, crashes>>

-----------------------------------------------------------------------------
(* The supervisor starts the process: settings, then the gate.             *)
Boot ==
  /\ proc = "down" /\ Clock!Verify
  /\ Reach("gate") /\ UNCHANGED scheduler

(* Variant with a mistake: the error is logged, and main waits.            *)
RefuseToStart_Waits ==
  /\ proc = "gate" /\ gate = "refused"
  /\ Reach("gate") /\ UNCHANGED <<scheduler, clock>>

(* sys.exit(1)                                                             *)
RefuseToStart ==
  /\ proc = "gate" /\ gate = "refused"
  /\ Clock!Die /\ Reach("down") /\ UNCHANGED scheduler

(* Variant with a mistake: the gate is left to run on its own.             *)
StartScheduler_GateAside ==
  /\ proc = "gate" /\ gate # "refused"
  /\ Sched!Start /\ Reach("starting") /\ UNCHANGED clock

(* build_runtime returns; configure_services, scheduler.start().           *)
StartScheduler ==
  /\ proc = "gate" /\ gate = "passed"
  /\ Sched!Start /\ Reach("starting") /\ UNCHANGED clock

(* drift_monitor.start(), the signal handlers, uvicorn.                    *)
Serve ==
  /\ proc = "starting" /\ Clock!StartMonitor
  /\ Reach("serving") /\ UNCHANGED scheduler

(* _shutdown, once uvicorn has let go of the signal: the scheduler takes   *)
(* no more work ...                                                        *)
Shutdown ==
  /\ proc = "serving" /\ crashes < MaxCrashes /\ crashes' = crashes + 1
  /\ Sched!Shutdown /\ proc' = "draining"
  /\ UNCHANGED <<joined, sleeps, clock>>

(* Variant with a mistake: shutdown(wait=False).                           *)
StopMonitor_NoWait ==
  /\ proc = "draining"
  /\ Clock!StopMonitor /\ Reach("joining") /\ UNCHANGED scheduler

(* Variant with a mistake: stop() waits for the end of a check.            *)
StopMonitor_BetweenChecks ==
  /\ proc = "draining" /\ Sched!Drained /\ monitor \in {"wait", "off"}
  /\ Clock!StopMonitor /\ Reach("joining") /\ UNCHANGED scheduler

(* ... its runs come to an end; then the monitor is stopped ...            *)
StopMonitor ==
  /\ proc = "draining" /\ Sched!Drained
  /\ Clock!StopMonitor /\ Reach("joining") /\ UNCHANGED scheduler

(* Variant with a mistake: join() without a timeout.                       *)
MayExit_Joined == monitor = "off"

MayExit == monitor = "off" \/ joined = JoinTimeout

(* ... and joined, and the process exits.                                  *)
Exit ==
  /\ proc = "joining" /\ MayExit
  /\ proc' = "down" /\ joined' = 0 /\ Sched!Die /\ Clock!Die
  /\ UNCHANGED <<sleeps, crashes>>

(* Power loss, kill -9, a signal before the handlers are installed.        *)
Crash ==
  /\ proc # "down" /\ crashes < MaxCrashes /\ crashes' = crashes + 1
  /\ proc' = "down" /\ joined' = 0 /\ Sched!Die /\ Clock!Die
  /\ UNCHANGED sleeps

-----------------------------------------------------------------------------
(* The threads of the scheduler and the monitor, and the clock.            *)
Job(j)   == (Sched!Begin(j) \/ Sched!End(j)) /\ UNCHANGED <<clock, process>>
Jobs     == Sched!ProcessJobs /\ UNCHANGED <<clock, process>>
AtGate   == (Clock!InDrift \/ Clock!OutOfDrift \/ Clock!Unusable \/ Clock!TryAgain)
            /\ UNCHANGED <<scheduler, process>>
Monitor  == (\/ Clock!Cycle \/ Clock!LoopEnds \/ Clock!Check
             \/ Clock!Correct \/ Clock!Hang \/ Clock!Raise)
            /\ UNCHANGED <<scheduler, process>>
HostClock == Clock!HostClock /\ UNCHANGED <<scheduler, process>>

Tick ==
  /\ proc = "joining" => ~MayExit
  /\ Sched!Tick /\ Clock!Tick
  /\ joined' = IF proc = "joining" THEN joined + 1 ELSE joined
  /\ UNCHANGED <<proc, sleeps, crashes>>

Sleep ==
  /\ sleeps < MaxSleeps /\ sleeps' = sleeps + 1
  /\ \E k \in 1 .. LongestSleep : Sched!Sleep(k)
  /\ UNCHANGED <<proc, joined, crashes, clock>>

Main == RefuseToStart \/ StartScheduler \/ Serve \/ StopMonitor \/ Exit

Next ==
  \/ Boot \/ Main \/ Shutdown \/ Crash
  \/ Jobs \/ \E j \in Sched!Jobs : Job(j)
  \/ AtGate \/ Monitor \/ HostClock
  \/ Tick \/ Sleep

Spec == Init /\ [][Next]_vars

(* Time passes, threads go on, and the supervisor restarts the process     *)
(* (Restart=always, KeepAlive).  Polls end: an upload takes a bounded      *)
(* number of attempts, each with a timeout, unless other threads take its  *)
(* slots for ever (Uploader's StarvedBySendersOnly).                       *)
Fairness ==
  /\ WF_vars(Tick) /\ WF_vars(Boot) /\ WF_vars(Main)
  /\ WF_vars(Jobs) /\ \A j \in Sched!Jobs : WF_vars(Job(j))
  /\ WF_vars(AtGate) /\ WF_vars(Monitor)

FairSpec == Spec /\ Fairness

-----------------------------------------------------------------------------
(* A poll never waits for a worker (Scheduler).                            *)
NobodyWaits == Sched!NobodyWaits

(* No midnight is left out (Scheduler).                                    *)
CountersOfToday == Sched!CountersOfToday

(* No environment goes without a poll for long (Scheduler).                *)
PollsKeepComing == Sched!PollsKeepComing

(* The gate comes to a verdict in time (ClockSync).                        *)
GateBounded == Clock!GateBounded

(* A signal lets no poll be cut short: when the process has drained its    *)
(* scheduler, no run begins again before it exits.                         *)
ExitsDrained == proc = "joining" => \A j \in Sched!Jobs : job[j] = "idle"

(* No poll fires in a process before its clock was measured and found      *)
(* right (FR-020, FR-022), nor does one outlive the process.               *)
SyncBeforePolls == (\E j \in Sched!Jobs : job[j] # "idle") => recent # "none"

(* A signal ends the process, also when the helper hangs.                  *)
StopEnds == proc \in {"draining", "joining"} ~> proc = "down"

(* A process that is down serves again, unless the host's clock is off.    *)
ComesUpAgain == proc = "down" ~> (proc = "serving" \/ offset # "within")

(* A clock that is off is put right, or shows as such on the dashboard, as *)
(* long as the process runs (FR-023), but for two helpers: one that never  *)
(* returns, and one that may not be executed, of which each cycle ends in  *)
(* an exception that is logged and shown nowhere.                          *)
DriftSurfaces ==
  (offset # "within" /\ proc = "serving") ~>
     \/ offset = "within" \/ recent \in {"drift_uncorrected", "rejected_kod"}
     \/ proc # "serving" \/ monitor \in {"hung", "denied"}

=============================================================================

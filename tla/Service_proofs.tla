--------------------------- MODULE Service_proofs ---------------------------
(***************************************************************************)
(* Proofs about Service.                                                   *)
(*                                                                         *)
(* NobodyWaits needs no induction: the pool has a worker for every job but *)
(* one, and one to spare.  The others follow from these invariants: Order  *)
(* says which threads can be there at each step of main(), Attempts how    *)
(* long the gate can have waited by then.  Midnights says when the         *)
(* scheduler's thread wakes: at the latest s ticks after the next          *)
(* midnight, where s is what the host has slept.  Fired says that what is  *)
(* overdue did fire, less than a day ago; it is what the types need.       *)
(* Rhythm says how an environment that waits for its poll comes to it.     *)
(***************************************************************************)
EXTENDS Service, FiniteSetTheorems, WellFoundedInduction, TLAPS

(* What is running at each step of main().                                 *)
Order ==
  /\ proc \in {"down", "gate", "starting", "serving", "draining", "joining"}
  /\ gate \in {"off", "measure", "sleep", "passed", "refused"}
  /\ gate # "off" => proc \in {"gate", "starting"}
  /\ proc \in {"down", "gate", "starting"} => monitor = "off"
  /\ proc \in {"down", "gate", "joining"} =>
       mode = "stopped" /\ \A j \in Sched!Jobs : job[j] = "idle"
  /\ gate = "passed" \/ proc \in {"starting", "serving", "draining", "joining"} =>
       recent # "none"

(* An attempt begins before the deadline, or right after a pause that did. *)
Attempts ==
  /\ waited \in Nat /\ spent \in Nat
  /\ gate = "measure" => spent <= Timeout /\ waited < Timeout + Poll + spent
  /\ gate = "sleep" => spent <= Poll /\ waited < Timeout + spent
  /\ waited < 2 * Timeout + Poll

IInv == Order /\ Attempts

LEMMA InitOrder == Init => Order
BY DEF Init, Sched!Init, Clock!Init, Order

(* Each step of main() keeps the order; so do the threads, which cannot be *)
(* there, or have nothing to do, where Order says so.                      *)
LEMMA NextOrder == Order /\ [Next]_vars => Order'
<1> SUFFICES ASSUME Order, [Next]_vars PROVE Order'
  OBVIOUS
<1> USE DEF Order, Reach, scheduler, clock, process
<1>1. CASE Boot
  BY <1>1 DEF Boot, Clock!Verify
<1>2. CASE Main
  <2>1. CASE RefuseToStart
    BY <2>1 DEF RefuseToStart, Clock!Die
  <2>2. CASE StartScheduler
    BY <2>2 DEF StartScheduler, Sched!Start
  <2>3. CASE Serve
    BY <2>3 DEF Serve, Clock!StartMonitor
  <2>4. CASE StopMonitor
    BY <2>4 DEF StopMonitor, Sched!Drained, Clock!StopMonitor
  <2>5. CASE Exit
    BY <2>5 DEF Exit, Sched!Die, Clock!Die
  <2> QED BY <1>2, <2>1, <2>2, <2>3, <2>4, <2>5 DEF Main
<1>3. CASE Shutdown
  BY <1>3 DEF Shutdown, Sched!Shutdown
<1>4. CASE Crash
  BY <1>4 DEF Crash, Sched!Die, Clock!Die
<1>5. CASE Jobs
  BY <1>5 DEF Jobs, Sched!ProcessJobs
<1>6. ASSUME NEW j \in Sched!Jobs, Job(j) PROVE Order'
  BY <1>6 DEF Job, Sched!Begin, Sched!End
<1>7. CASE AtGate
  BY <1>7 DEF AtGate, Clock!InDrift, Clock!OutOfDrift, Clock!Unusable, Clock!TryAgain,
              Clock!Record
<1>8. CASE Monitor
  <2>1. CASE Clock!Check
    BY <1>8, <2>1 DEF Monitor, Clock!Check, Clock!Record, Clock!Pause
  <2>2. CASE Clock!Correct
    BY <1>8, <2>2 DEF Monitor, Clock!Correct, Clock!Record, Clock!Pause
  <2>3. CASE Clock!Cycle \/ Clock!LoopEnds \/ Clock!Hang \/ Clock!Raise
    BY <1>8, <2>3 DEF Monitor, Clock!Cycle, Clock!LoopEnds, Clock!Hang, Clock!Raise,
                      Clock!Raises, Clock!Pause
  <2> QED BY <1>8, <2>1, <2>2, <2>3 DEF Monitor
<1>9. CASE HostClock
  BY <1>9 DEF HostClock, Clock!HostClock
<1>10. CASE Tick
  BY <1>10 DEF Tick, Sched!Tick, Sched!Pass, Clock!Tick
<1>11. CASE Sleep
  BY <1>11 DEF Sleep, Sched!Sleep, Sched!Pass
<1>12. CASE UNCHANGED vars
  BY <1>12 DEF vars
<1> QED
  BY <1>1, <1>2, <1>3, <1>4, <1>5, <1>6, <1>7, <1>8, <1>9, <1>10, <1>11, <1>12 DEF Next

LEMMA InitAttempts == Init => Attempts
BY ServiceAssumption DEF Init, Clock!Init, Attempts, Clock!ClockAssumption

(* Time passes at the gate only during an attempt or a pause, and Order    *)
(* keeps the monitor from touching `spent` meanwhile.                      *)
LEMMA NextAttempts == Order /\ Attempts /\ [Next]_vars => Attempts'
<1> SUFFICES ASSUME Order, Attempts, [Next]_vars PROVE Attempts'
  OBVIOUS
<1>a. Timeout \in Nat \ {0} /\ Poll \in Nat \ {0} /\ Interval \in Nat \ {0}
  BY ServiceAssumption DEF Clock!ClockAssumption
<1> USE <1>a DEF Attempts
<1>1. CASE Boot
  BY <1>1 DEF Boot, Clock!Verify
<1>2. CASE Main
  <2>1. CASE RefuseToStart
    BY <2>1 DEF RefuseToStart, Clock!Die
  <2>2. CASE StartScheduler
    BY <2>2 DEF StartScheduler, clock
  <2>3. CASE Serve
    BY <2>3 DEF Serve, Clock!StartMonitor
  <2>4. CASE StopMonitor
    BY <2>4 DEF StopMonitor, Clock!StopMonitor
  <2>5. CASE Exit
    BY <2>5 DEF Exit, Clock!Die
  <2> QED BY <1>2, <2>1, <2>2, <2>3, <2>4, <2>5 DEF Main
<1>3. CASE Shutdown
  BY <1>3 DEF Shutdown, clock
<1>4. CASE Crash
  BY <1>4 DEF Crash, Clock!Die
<1>5. CASE Jobs
  BY <1>5 DEF Jobs, clock
<1>6. ASSUME NEW j \in Sched!Jobs, Job(j) PROVE Attempts'
  BY <1>6 DEF Job, clock
<1>7. CASE AtGate
  <2>1. CASE Clock!InDrift \/ Clock!OutOfDrift
    BY <2>1 DEF Clock!InDrift, Clock!OutOfDrift
  <2>2. CASE Clock!Unusable
    BY <2>2 DEF Clock!Unusable
  <2>3. CASE Clock!TryAgain
    BY <2>3 DEF Clock!TryAgain
  <2> QED BY <1>7, <2>1, <2>2, <2>3 DEF AtGate
<1>8. CASE Monitor
  <2>1. monitor # "off" /\ gate = "off"
    BY <1>8 DEF Monitor, Clock!Cycle, Clock!LoopEnds, Clock!Check, Clock!Correct,
                Clock!Hang, Clock!Raise, Clock!Raises, Order
  <2>2. UNCHANGED <<gate, waited>> /\ (UNCHANGED spent \/ spent' = 0)
    BY <1>8 DEF Monitor, Clock!Cycle, Clock!LoopEnds, Clock!Check, Clock!Correct,
                Clock!Hang, Clock!Raise, Clock!Raises, Clock!Pause
  <2> QED BY <2>1, <2>2
<1>9. CASE HostClock
  BY <1>9 DEF HostClock, Clock!HostClock
<1>10. CASE Tick
  <2>1. Clock!Tick
    BY <1>10 DEF Tick
  <2>2. CASE gate = "measure"
    BY <2>1, <2>2 DEF Clock!Tick
  <2>3. CASE gate = "sleep"
    BY <2>1, <2>3 DEF Clock!Tick
  <2>4. CASE gate \notin {"measure", "sleep"}
    BY <2>1, <2>4 DEF Clock!Tick
  <2> QED BY <2>2, <2>3, <2>4
<1>11. CASE Sleep
  BY <1>11 DEF Sleep, clock
<1>12. CASE UNCHANGED vars
  BY <1>12 DEF vars, clock
<1> QED
  BY <1>1, <1>2, <1>3, <1>4, <1>5, <1>6, <1>7, <1>8, <1>9, <1>10, <1>11, <1>12 DEF Next

(* The order of main() and the length of an attempt hold in every state.   *)
THEOREM ServiceInvariant == Spec => []IInv
<1>1. Init => IInv
  BY InitOrder, InitAttempts DEF IInv
<1>2. IInv /\ [Next]_vars => IInv'
  BY NextOrder, NextAttempts DEF IInv
<1> QED BY <1>1, <1>2, PTL DEF Spec

(* Whatever the source answers, verify() returns or raises within twice    *)
(* its timeout and one pause.                                              *)
THEOREM VerdictInTime == Spec => []GateBounded
<1>1. IInv => GateBounded
  BY DEF IInv, Attempts, GateBounded, Clock!GateBounded
<1> QED BY <1>1, ServiceInvariant, PTL

(* Once the monitor is being stopped, no poll is running nor will be.      *)
THEOREM DrainedBeforeExit == Spec => []ExitsDrained
<1>1. IInv => ExitsDrained
  BY DEF IInv, Order, ExitsDrained
<1> QED BY <1>1, ServiceInvariant, PTL

(* No poll fires in a process whose clock was not measured.                *)
THEOREM MeasuredFirst == Spec => []SyncBeforePolls
<1>1. IInv => SyncBeforePolls
  BY DEF IInv, Order, SyncBeforePolls
<1> QED BY <1>1, ServiceInvariant, PTL

(* What the scheduler's module counts with is what this one counts with.   *)
LEMMA SameCount ==
  ASSUME NEW S
  PROVE  /\ Sched!Cardinality(S) = Cardinality(S)
         /\ Sched!IsFiniteSet(S) <=> IsFiniteSet(S)
BY DEF Sched!Cardinality, Cardinality, Sched!IsFiniteSet, IsFiniteSet

(* With a submitted job, at most one job for each environment is running,  *)
(* and the pool is larger than that.                                       *)
LEMMA WorkerToSpare ==
  ASSUME NEW j \in Sched!Jobs, job[j] = "submitted"
  PROVE  Sched!FreeWorker
<1>1. IsFiniteSet(Envs) /\ Reset \notin Envs
  BY ServiceAssumption, SameCount DEF Sched!SchedulerAssumption
<1> DEFINE n == Cardinality(Envs)
<1>2. IsFiniteSet(Sched!Jobs) /\ Cardinality(Sched!Jobs) = n + 1 /\ n \in Nat
  BY <1>1, FS_AddElement, FS_CardinalityType DEF Sched!Jobs
<1>3. /\ IsFiniteSet(Sched!Jobs \ {j})
      /\ Cardinality(Sched!Jobs \ {j}) = n
  <2>1. /\ IsFiniteSet(Sched!Jobs \ {j})
        /\ Cardinality(Sched!Jobs \ {j}) = Cardinality(Sched!Jobs) - 1
    BY <1>2, FS_RemoveElement, Zenon
  <2> QED BY <1>2, <2>1
<1>4. Sched!Running \subseteq Sched!Jobs \ {j}
  BY DEF Sched!Running
<1>5. Cardinality(Sched!Running) <= n /\ Cardinality(Sched!Running) \in Nat
  BY <1>3, <1>4, FS_Subset, FS_CardinalityType
<1>6. Sched!PoolSize > n
  BY <1>2, SameCount DEF Sched!PoolSize
<1>7. Sched!PoolSize \in Nat
  BY <1>2, SameCount DEF Sched!PoolSize
<1> QED BY <1>2, <1>5, <1>6, <1>7, SameCount DEF Sched!FreeWorker

(* For any number of environments no poll waits for a worker.              *)
THEOREM PollsConcurrent == Spec => []NobodyWaits
<1>1. NobodyWaits
  BY WorkerToSpare DEF NobodyWaits, Sched!NobodyWaits
<1> QED BY <1>1, PTL

-----------------------------------------------------------------------------
(* Why no midnight is left out.  The scheduler's thread oversleeps only by *)
(* what the host has slept, so a reset is submitted and begun no later     *)
(* than that after midnight; and while the reset is in the executor the    *)
(* thread waits, so that it skips no midnight either.                      *)

Slept == LongestSleep * sleeps

(* The thread's wait ends s ticks after the next midnight at the latest.   *)
Wakes(s) ==
  /\ Sched!Due(Reset) => overdue[Reset] + wake <= s
  /\ wake <= (Day - now) + s

ResetType ==
  /\ now \in 0 .. Day - 1 /\ wake \in Nat /\ sleeps \in 0 .. MaxSleeps
  /\ overdue[Reset] \in Nat \cup {Sched!NotDue}
  /\ job \in [Sched!Jobs -> {"idle", "submitted", "running"}]
  /\ DOMAIN late = Sched!Jobs /\ late[Reset] \in Nat

ResetOnTime ==
  /\ job[Reset] = "submitted" => late[Reset] <= Slept
  /\ mode = "running" =>
       /\ job[Reset] # "idle" => wake > 0
       /\ \E s \in 0 .. Slept : Wakes(s)

Midnights == ResetType /\ ResetOnTime /\ CountersOfToday

LEMMA Smallest ==
  ASSUME NEW S \in SUBSET Nat, S # {}
  PROVE  \E m \in S : \A x \in S : m <= x
<1> DEFINE R == {p \in Nat \X Nat : p[1] < p[2]}
<1>1. IsWellFoundedOn(R, Nat)
  BY NatLessThanWellFounded DEF OpToRel
<1>2. \E m \in S : \A x \in S : ~(<<x, m>> \in R)
  <2> HIDE DEF R
  <2> QED BY <1>1, WFMin
<1>3. \A x, m \in S : ~(<<x, m>> \in R) => m <= x
  OBVIOUS
<1> QED BY <1>2, <1>3

LEMMA Times ==
  /\ Day \in Nat \ {0} /\ LongestSleep \in Nat /\ MaxSleeps \in Nat
  /\ ResetGrace \in Nat /\ Reset \in Sched!Jobs
  BY ServiceAssumption DEF Sched!SchedulerAssumption, Sched!Jobs

(* The reset fires at midnight only.                                       *)
LEMMA MidnightOnly ==
  ASSUME NEW t \in Nat \ {0}, Sched!Fires(Reset, t)
  PROVE  t >= Day
<1>1. t % Day = 0
  BY DEF Sched!Fires
<1>2. CASE t < Day
  <2>1. t % Day = t
    BY <1>2, Times
  <2> QED BY <1>1, <2>1
<1> QED BY <1>2, Times

(* The scheduler's thread wakes at the first fire time of any job, at      *)
(* midnight at the latest.                                                 *)
LEMMA NextFirst ==
  ASSUME now \in 0 .. Day - 1
  PROVE  /\ Sched!NextFire(now) \in 1 .. Day - now
         /\ \A i \in 1 .. Sched!NextFire(now) - 1 : \A j \in Sched!Jobs : ~Sched!Fires(j, now + i)
<1> DEFINE Fire(k) == \E j \in Sched!Jobs : Sched!Fires(j, now + k)
           S == {k \in 1 .. Day : Fire(k)}
           First(k) == Fire(k) /\ \A i \in 1 .. k - 1 : \A j \in Sched!Jobs : ~Sched!Fires(j, now + i)
<1>1. Day - now \in S
  <2>1. Day - now \in 1 .. Day /\ now + (Day - now) = Day
    BY Times
  <2>2. Day % Day = 0
    BY Times
  <2>3. Sched!Fires(Reset, now + (Day - now))
    BY <2>1, <2>2 DEF Sched!Fires
  <2> QED BY <2>1, <2>3, Times
<1>2. PICK m \in S : \A x \in S : m <= x
  <2> HIDE DEF Fire
  <2>1. S \in SUBSET Nat /\ S # {}
    BY <1>1
  <2> HIDE DEF S
  <2> QED BY <2>1, Smallest
<1>3. m \in 1 .. Day /\ First(m)
  <2>1. \A i \in 1 .. m - 1 : i \in 1 .. Day /\ ~(m <= i)
    BY Times
  <2> QED BY <1>2, <2>1
<1>4. Sched!NextFire(now) = CHOOSE k \in 1 .. Day : First(k)
  BY DEF Sched!NextFire
<1>5. Sched!NextFire(now) \in 1 .. Day /\ First(Sched!NextFire(now))
  <2> HIDE DEF First
  <2> QED BY <1>3, <1>4
<1>6. ~(Day - now \in 1 .. Sched!NextFire(now) - 1)
  BY <1>1, <1>5
<1> QED BY <1>1, <1>5, <1>6, Times

(* When k ticks pass, a job is overdue since the last fire time among      *)
(* them, or, if there is none, k ticks more than before.                   *)
LEMMA PassJob ==
  ASSUME NEW j \in Sched!Jobs, NEW k \in Nat \ {0}, Sched!Pass(k)
  PROVE  \/ /\ overdue'[j] \in 0 .. k - 1 /\ Sched!Fires(j, now + k - overdue'[j])
            /\ \A i \in 0 .. overdue'[j] - 1 : ~Sched!Fires(j, now + k - i)
         \/ /\ \A i \in 0 .. k - 1 : ~Sched!Fires(j, now + k - i)
            /\ overdue'[j] = IF Sched!Due(j) THEN overdue[j] + k ELSE Sched!NotDue
<1> DEFINE ages == {i \in 0 .. k - 1 : Sched!Fires(j, now + k - i)}
<1>1. overdue'[j] =
        IF ages # {} THEN CHOOSE i \in ages : \A h \in ages : i <= h
        ELSE IF Sched!Due(j) THEN overdue[j] + k ELSE Sched!NotDue
  BY DEF Sched!Pass
<1>2. CASE ages # {}
  <2>1. \E m \in ages : \A x \in ages : m <= x
    <3>1. ages \in SUBSET Nat
      OBVIOUS
    <3> HIDE DEF ages
    <3> QED BY <1>2, <3>1, Smallest
  <2>2. overdue'[j] \in ages /\ \A h \in ages : overdue'[j] <= h
    <3> HIDE DEF ages
    <3> QED BY <1>1, <1>2, <2>1
  <2>3. \A i \in 0 .. overdue'[j] - 1 : i \in 0 .. k - 1 /\ ~(overdue'[j] <= i)
    BY <2>2
  <2> QED BY <2>2, <2>3
<1>3. CASE ages = {}
  <2>1. \A i \in 0 .. k - 1 : ~Sched!Fires(j, now + k - i)
    BY <1>3
  <2> HIDE DEF ages
  <2> QED BY <1>1, <1>3, <2>1
<1> QED BY <1>2, <1>3

(* What the passing of k ticks does to the reset.                          *)
LEMMA PassReset ==
  ASSUME now \in 0 .. Day - 1, NEW k \in Nat \ {0}, Sched!Pass(k)
  PROVE  /\ now' \in 0 .. Day - 1 /\ now' <= now + k
         /\ \/ overdue'[Reset] \in Nat /\ overdue'[Reset] <= k - (Day - now)
            \/ /\ \A i \in 1 .. k : ~Sched!Fires(Reset, now + i)
               /\ overdue'[Reset] = IF Sched!Due(Reset) THEN overdue[Reset] + k
                                                        ELSE Sched!NotDue
               /\ tally' = tally
<1>1. now' \in 0 .. Day - 1 /\ now' <= now + k
  <2>1. now' = (now + k) % Day /\ now + k \in Nat
    BY Times DEF Sched!Pass
  <2>2. \A t \in Nat : t % Day \in 0 .. Day - 1 /\ t % Day <= t
    BY Times
  <2> QED BY <2>1, <2>2
<1>2. CASE overdue'[Reset] \in 0 .. k - 1 /\ Sched!Fires(Reset, now + k - overdue'[Reset])
  <2>1. now + k - overdue'[Reset] \in Nat \ {0}
    BY <1>2, Times
  <2>2. now + k - overdue'[Reset] >= Day
    BY <1>2, <2>1, MidnightOnly
  <2> QED BY <1>1, <1>2, <2>2, Times
<1>3. CASE /\ \A i \in 0 .. k - 1 : ~Sched!Fires(Reset, now + k - i)
           /\ overdue'[Reset] = IF Sched!Due(Reset) THEN overdue[Reset] + k ELSE Sched!NotDue
  <2>1. \A i \in 1 .. k : ~Sched!Fires(Reset, now + i)
    <3>1. SUFFICES ASSUME NEW i \in 1 .. k PROVE ~Sched!Fires(Reset, now + i)
      OBVIOUS
    <3>2. k - i \in 0 .. k - 1 /\ now + k - (k - i) = now + i
      BY Times
    <3> QED BY <1>3, <3>2
  <2>2. tally' = tally
    BY <2>1 DEF Sched!Pass
  <2> QED BY <1>1, <1>3, <2>1, <2>2
<1> QED BY <1>2, <1>3, PassJob, Times

(* A grace that the host's sleeps do not use up.                           *)
EnoughGrace == ResetGrace >= LongestSleep * MaxSleeps

LEMMA SleptBounds ==
  ASSUME ResetType
  PROVE  Slept \in Nat /\ Slept <= LongestSleep * MaxSleeps
<1>1. \A a, b, c \in Nat : b <= c => a * b \in Nat /\ a * b <= a * c
  OBVIOUS
<1> QED BY <1>1, Times DEF ResetType, Slept

LEMMA SchedulerRests ==
  ASSUME Midnights, UNCHANGED <<mode, now, wake, overdue, job, late, tally, sleeps>>
  PROVE  Midnights'
  BY DEF Midnights, ResetType, ResetOnTime, CountersOfToday, Sched!CountersOfToday, Sched!Due,
     Slept, Wakes

LEMMA NextWait ==
  ASSUME ResetType, overdue'[Reset] = Sched!NotDue, now' = now,
         wake' = Sched!NextFire(now)
  PROVE  wake' \in Nat \ {0} /\ Wakes(0)'
<1>1. Sched!NextFire(now) \in Nat \ {0} /\ Sched!NextFire(now) <= Day - now
  BY NextFirst, Times DEF ResetType
<1>2. ~Sched!Due(Reset)'
  BY DEF Sched!Due
<1> QED BY <1>1, <1>2, Times DEF Wakes, ResetType

LEMMA StartOnTime ==
  ASSUME Midnights, Sched!Start, job[Reset] = "idle", UNCHANGED sleeps
  PROVE  Midnights'
<1>1. overdue'[Reset] = Sched!NotDue /\ now' = now /\ wake' = Sched!NextFire(now)
  BY Times DEF Sched!Start
<1>2. wake' \in Nat \ {0} /\ Wakes(0)'
  BY <1>1, NextWait DEF Midnights
<1>3. tally' = "today" /\ job' = job /\ late' = late
  BY DEF Sched!Start
<1>4. ResetType'
  BY <1>1, <1>2, <1>3 DEF Midnights, ResetType
<1>5. ResetOnTime'
  <2>1. Slept' = Slept /\ Slept \in Nat
    BY SleptBounds DEF Midnights, Slept
  <2> QED BY <1>2, <1>3, <2>1 DEF ResetOnTime
<1>6. CountersOfToday'
  BY <1>3 DEF CountersOfToday, Sched!CountersOfToday
<1> QED BY <1>4, <1>5, <1>6 DEF Midnights

LEMMA SubmitOnTime ==
  ASSUME Midnights, Sched!ProcessJobs, UNCHANGED sleeps
  PROVE  Midnights'
<1> USE DEF Midnights
<1>1. overdue'[Reset] = Sched!NotDue /\ now' = now /\ wake' = Sched!NextFire(now)
  BY Times DEF Sched!ProcessJobs
<1>2. wake' \in Nat \ {0} /\ Wakes(0)'
  BY <1>1, NextWait
<1>3. job[Reset] = "idle" /\ mode' = mode /\ tally' = tally /\ Slept' = Slept /\ Slept \in Nat
  BY SleptBounds, Times DEF Sched!ProcessJobs, ResetOnTime, ResetType, Slept
<1>4. /\ job'[Reset] = IF Sched!Due(Reset) THEN "submitted" ELSE "idle"
      /\ late'[Reset] = IF Sched!Due(Reset) THEN overdue[Reset] ELSE late[Reset]
  BY <1>3, Times DEF Sched!ProcessJobs
<1>5. Sched!Due(Reset) => overdue[Reset] \in Nat /\ overdue[Reset] <= Slept
  BY <1>3 DEF Sched!ProcessJobs, ResetOnTime, ResetType, Wakes, Sched!Due
<1>6. ResetType'
  <2>1. job' \in [Sched!Jobs -> {"idle", "submitted", "running"}] /\ DOMAIN late' = Sched!Jobs
    BY DEF Sched!ProcessJobs, ResetType
  <2> QED BY <1>1, <1>2, <1>4, <1>5, <2>1 DEF ResetType
<1>7. ResetOnTime'
  BY <1>2, <1>3, <1>4, <1>5 DEF ResetOnTime
<1>8. CountersOfToday'
  BY <1>3, <1>4 DEF CountersOfToday, Sched!CountersOfToday, Sched!ProcessJobs
<1> QED BY <1>6, <1>7, <1>8

LEMMA RunOnTime ==
  ASSUME EnoughGrace, Midnights, NEW j \in Sched!Jobs, Sched!Begin(j) \/ Sched!End(j),
         UNCHANGED sleeps
  PROVE  Midnights'
<1> USE DEF Midnights
<1>1. UNCHANGED <<mode, now, wake, overdue>> /\ Slept' = Slept
  BY DEF Sched!Begin, Sched!End, Slept
<1>2. ResetType'
  BY <1>1, Times DEF Sched!Begin, Sched!End, ResetType
<1>3. CASE j # Reset
  <2>1. job'[Reset] = job[Reset] /\ late'[Reset] = late[Reset] /\ tally' = tally
    BY <1>3, Times DEF Sched!Begin, Sched!End, ResetType
  <2> QED BY <1>1, <1>2, <2>1 DEF ResetOnTime, Wakes, Sched!Due, CountersOfToday,
             Sched!CountersOfToday
<1>4. CASE j = Reset /\ Sched!Begin(Reset)
  <2>1. late[Reset] <= Sched!GraceOf(Reset)
    BY <1>4, SleptBounds, Times DEF ResetOnTime, ResetType, EnoughGrace, Sched!GraceOf, Sched!Begin
  <2>2. job'[Reset] = "running" /\ job[Reset] = "submitted" /\ tally' = "today"
    BY <1>4, <2>1, Times DEF Sched!Begin, ResetType
  <2> QED BY <1>1, <1>2, <2>2 DEF ResetOnTime, Wakes, Sched!Due, CountersOfToday,
             Sched!CountersOfToday
<1>5. CASE j = Reset /\ Sched!End(Reset)
  <2>1. job'[Reset] = "idle" /\ job[Reset] = "running" /\ tally' = tally
    BY <1>5, Times DEF Sched!End, ResetType
  <2> QED BY <1>1, <1>2, <2>1 DEF ResetOnTime, Wakes, Sched!Due, CountersOfToday,
             Sched!CountersOfToday
<1> QED BY <1>3, <1>4, <1>5

(* While ticks pass the thread's wait runs down, and the wait ends no more *)
(* after midnight than before.                                             *)
LEMMA TickOnTime ==
  ASSUME Midnights, Sched!Tick, UNCHANGED sleeps
  PROVE  Midnights'
<1> USE DEF Midnights
<1>1. /\ now' \in 0 .. Day - 1 /\ now' <= now + 1
      /\ \/ overdue'[Reset] \in Nat /\ overdue'[Reset] <= 1 - (Day - now)
         \/ /\ overdue'[Reset] = IF Sched!Due(Reset) THEN overdue[Reset] + 1 ELSE Sched!NotDue
            /\ tally' = tally
  BY PassReset DEF Sched!Tick, ResetType
<1>2. /\ job' = job /\ mode' = mode /\ job[Reset] = "idle"
      /\ wake' = IF wake > 0 THEN wake - 1 ELSE 0
      /\ mode = "running" => wake > 0
  <2>1. job[Reset] # "submitted"
    BY WorkerToSpare, Times DEF Sched!Tick
  <2> QED BY <2>1, Times DEF Sched!Tick, Sched!Pass, ResetType
<1>3. DOMAIN late' = Sched!Jobs /\ late'[Reset] = late[Reset]
  BY <1>2, Times DEF Sched!Tick, Sched!Pass, ResetType
<1>4. ResetType'
  BY <1>1, <1>2, <1>3 DEF ResetType, Sched!Due, Sched!NotDue
<1>5. ResetOnTime'
  <2>1. CASE mode = "running"
    <3>1. PICK s \in 0 .. Slept : Wakes(s)
      BY <2>1 DEF ResetOnTime
    <3>2. wake' = wake - 1 /\ wake > 0 /\ s \in Nat
      BY <1>2, <2>1, SleptBounds
    <3>3. /\ Sched!Due(Reset) => overdue[Reset] + wake <= s /\ overdue[Reset] \in Nat
          /\ wake <= (Day - now) + s
      BY <3>1 DEF Wakes, ResetType, Sched!Due
    <3>4. wake' <= (Day - now') + s
      <4>1. PICK n \in Nat : n = now' /\ n <= now + 1
        BY <1>1 DEF ResetType
      <4>2. PICK w \in Nat : w = wake' /\ w = wake - 1
        BY <3>2 DEF ResetType
      <4>3. now \in Nat /\ Day \in Nat /\ wake \in Nat
        BY <1>1, Times DEF ResetType
      <4>4. n <= now + 1 /\ w = wake - 1 /\ wake <= (Day - now) + s /\ s \in Nat
        BY <3>2, <3>3, <4>1, <4>2
      <4> HIDE DEF Midnights
      <4>5. w <= (Day - n) + s
        BY <4>3, <4>4
      <4> QED BY <4>1, <4>2, <4>5
    <3>5. overdue'[Reset] # Sched!NotDue => overdue'[Reset] + wake' <= s
      BY <1>1, <3>2, <3>3, Times DEF ResetType
    <3>6. Wakes(s)'
      BY <3>4, <3>5 DEF Wakes, Sched!Due
    <3> QED BY <1>2, <3>6 DEF ResetOnTime, Slept
  <2> QED BY <1>2, <2>1 DEF ResetOnTime
<1>6. CountersOfToday'
  BY <1>1, <1>2 DEF CountersOfToday, Sched!CountersOfToday, Sched!Due, Sched!NotDue, ResetType
<1> QED BY <1>4, <1>5, <1>6

(* A sleep of k ticks makes the thread at most k ticks later.              *)
LEMMA SleepOnTime ==
  ASSUME Midnights, NEW k \in 1 .. LongestSleep, Sched!Sleep(k), sleeps < MaxSleeps,
         sleeps' = sleeps + 1
  PROVE  Midnights'
<1> USE DEF Midnights
<1>1. /\ now' \in 0 .. Day - 1 /\ now' <= now + k
      /\ \/ overdue'[Reset] \in Nat /\ overdue'[Reset] <= k - (Day - now)
         \/ /\ overdue'[Reset] = IF Sched!Due(Reset) THEN overdue[Reset] + k ELSE Sched!NotDue
            /\ tally' = tally
  BY PassReset, Times DEF Sched!Sleep, ResetType
<1>2. job' = job /\ mode' = mode /\ wake' = wake
  BY DEF Sched!Sleep, Sched!Pass
<1>3. /\ DOMAIN late' = Sched!Jobs
      /\ late'[Reset] = IF job[Reset] = "submitted" THEN late[Reset] + k ELSE late[Reset]
  BY Times DEF Sched!Sleep, Sched!Pass
<1>4. ResetType'
  BY <1>1, <1>2, <1>3, Times DEF ResetType, Sched!Due, Sched!NotDue
<1>5. Slept' = Slept + LongestSleep /\ Slept \in Nat /\ Slept + k <= Slept'
  <2>1. \A a, b \in Nat : a * (b + 1) = a * b + a
    OBVIOUS
  <2> QED BY <2>1, SleptBounds, Times DEF Slept, ResetType
<1>6. ResetOnTime'
  <2>1. job'[Reset] = "submitted" => late'[Reset] <= Slept'
    <3>1. CASE job[Reset] = "submitted"
      <4>1. late[Reset] \in Nat /\ late[Reset] <= Slept /\ late'[Reset] = late[Reset] + k
        BY <1>3, <3>1 DEF ResetOnTime, ResetType
      <4>2. \A a, b, c, d \in Int : a <= b /\ b + d <= c => a + d <= c
        OBVIOUS
      <4>3. Slept \in Int /\ Slept' \in Int /\ k \in Int
        BY <1>5, Times
      <4> HIDE DEF Midnights
      <4> QED BY <4>1, <4>2, <4>3, <1>5
    <3> QED BY <1>2, <3>1
  <2>2. CASE mode = "running"
    <3>1. PICK s \in 0 .. Slept : Wakes(s)
      BY <2>2 DEF ResetOnTime
    <3>2. s + k \in 0 .. Slept'
      BY <1>5
    <3>3. /\ Sched!Due(Reset) => overdue[Reset] + wake <= s /\ overdue[Reset] \in Nat
          /\ wake <= (Day - now) + s
      BY <3>1 DEF Wakes, ResetType, Sched!Due
    <3>4. wake' <= (Day - now') + (s + k)
      <4>1. PICK n \in Nat : n = now' /\ n <= now + k
        BY <1>1 DEF ResetType
      <4>2. now \in Nat /\ Day \in Nat /\ wake \in Nat /\ wake' = wake
        BY <1>1, <1>2, Times DEF ResetType
      <4>3. n <= now + k /\ wake <= (Day - now) + s /\ s \in Nat /\ k \in Nat
        BY <1>5, <3>3, <4>1, Times
      <4> HIDE DEF Midnights
      <4>4. wake <= (Day - n) + (s + k)
        BY <4>2, <4>3
      <4> QED BY <4>1, <4>2, <4>4
    <3>5. overdue'[Reset] # Sched!NotDue => overdue'[Reset] + wake' <= s + k
      BY <1>1, <1>2, <1>5, <3>3, Times DEF ResetType
    <3>6. \E r \in 0 .. Slept' : Wakes(r)'
      BY <3>2, <3>4, <3>5 DEF Wakes, Sched!Due
    <3> QED BY <1>2, <2>2, <2>1, <3>6 DEF ResetOnTime
  <2>3. CASE mode # "running"
    BY <1>2, <2>3, <2>1 DEF ResetOnTime
  <2> QED BY <2>2, <2>3
<1>7. CountersOfToday'
  BY <1>1, <1>2 DEF CountersOfToday, Sched!CountersOfToday, Sched!Due, Sched!NotDue, ResetType
<1> QED BY <1>4, <1>6, <1>7

LEMMA DieOnTime ==
  ASSUME Midnights, Sched!Die, UNCHANGED sleeps
  PROVE  Midnights'
<1>1. ResetType'
  BY Times DEF Midnights, ResetType, Sched!Die
<1> QED BY <1>1, Times DEF Midnights, ResetOnTime, CountersOfToday, Sched!CountersOfToday, Sched!Die

LEMMA InitMidnights == Init => Midnights
  BY Times DEF Init, Sched!Init, Midnights, ResetType, ResetOnTime, CountersOfToday,
     Sched!CountersOfToday

LEMMA NextMidnights ==
  ASSUME EnoughGrace, Order, Midnights, [Next]_vars
  PROVE  Midnights'
<1> USE DEF Reach, scheduler, clock, process
<1>1. CASE Boot \/ HostClock
  BY <1>1, SchedulerRests DEF Boot, HostClock
<1>2. CASE Main
  <2>1. CASE RefuseToStart \/ Serve \/ StopMonitor
    BY <2>1, SchedulerRests DEF RefuseToStart, Serve, StopMonitor
  <2>2. CASE StartScheduler
    BY <2>2, StartOnTime, Times DEF StartScheduler, Order
  <2>3. CASE Exit
    BY <2>3, DieOnTime DEF Exit
  <2> QED BY <1>2, <2>1, <2>2, <2>3 DEF Main
<1>3. CASE Shutdown
  <2>1. /\ UNCHANGED <<now, wake, overdue, job, late, tally, sleeps>>
        /\ mode' = "stopped"
    BY <1>3 DEF Shutdown, Sched!Shutdown
  <2> QED BY <2>1 DEF Midnights, ResetType, ResetOnTime, CountersOfToday, Sched!CountersOfToday,
             Slept
<1>4. CASE Crash
  BY <1>4, DieOnTime DEF Crash
<1>5. CASE Jobs
  BY <1>5, SubmitOnTime DEF Jobs
<1>6. ASSUME NEW j \in Sched!Jobs, Job(j) PROVE Midnights'
  BY <1>6, RunOnTime DEF Job
<1>7. CASE AtGate \/ Monitor
  BY <1>7, SchedulerRests DEF AtGate, Monitor
<1>8. CASE Tick
  BY <1>8, TickOnTime DEF Tick
<1>9. CASE Sleep
  BY <1>9, SleepOnTime DEF Sleep
<1>10. CASE UNCHANGED vars
  BY <1>10, SchedulerRests DEF vars
<1> QED BY <1>1, <1>2, <1>3, <1>4, <1>5, <1>6, <1>7, <1>8, <1>9, <1>10 DEF Next

(* As long as the host sleeps less than the reset's grace, the counters    *)
(* are about today or the reset is on its way: no skip, misfire, long run, *)
(* signal, crash or sleep makes a process leave a midnight out.            *)
THEOREM NoMidnightLeftOut ==
  ASSUME ResetGrace >= LongestSleep * MaxSleeps
  PROVE  Spec => []CountersOfToday
<1>1. EnoughGrace
  BY DEF EnoughGrace
<1>2. IInv => Order
  BY DEF IInv
<1>3. Order /\ Midnights /\ [Next]_vars => Midnights'
  BY <1>1, NextMidnights
<1>4. Midnights => CountersOfToday
  BY DEF Midnights
<1> QED BY <1>2, <1>3, <1>4, InitMidnights, ServiceInvariant, PTL DEF Spec

-----------------------------------------------------------------------------
(* Times of day.  Fire times repeat daily, and those of an environment     *)
(* every minute.                                                           *)

LEMMA Divides ==
  ASSUME NEW d \in Nat \ {0}, NEW t \in Int
  PROVE  \E q \in Int, r \in 0 .. d - 1 : t = q * d + r /\ r = t % d
<1>1. t = (t \div d) * d + (t % d) /\ t % d \in 0 .. d - 1 /\ t \div d \in Int
  OBVIOUS
<1> QED BY <1>1

LEMMA Remainder ==
  ASSUME NEW d \in Nat \ {0}, NEW q \in Int, NEW r \in 0 .. d - 1
  PROVE  (q * d + r) % d = r
<1>1. PICK p \in Int, s \in 0 .. d - 1 : q * d + r = p * d + s /\ s = (q * d + r) % d
  <2>1. q * d + r \in Int
    OBVIOUS
  <2> QED BY <2>1, Divides
<1>2. \A a, b \in 0 .. d - 1 : \A x, y \in Int : x * d + a = y * d + b => a = b
  OBVIOUS
<1> QED BY <1>1, <1>2

LEMMA Shift ==
  ASSUME NEW d \in Nat \ {0}, NEW t \in Int, NEW m \in Int
  PROVE  (t + m * d) % d = t % d
<1>1. PICK q \in Int, r \in 0 .. d - 1 : t = q * d + r /\ r = t % d
  BY Divides
<1>2. t + m * d = (q + m) * d + r
  BY <1>1
<1>3. ((q + m) * d + r) % d = r
  BY Remainder
<1> QED BY <1>1, <1>2, <1>3

LEMMA Minutes ==
  /\ Minute \in Nat \ {0} /\ Day % Minute = 0 /\ Reset \notin Envs
  /\ OffsetOf \in [Envs -> 0 .. Minute - 1]
  BY ServiceAssumption DEF Sched!SchedulerAssumption

LEMMA Daily ==
  ASSUME NEW j \in Sched!Jobs, NEW t \in Int, NEW m \in Int
  PROVE  Sched!Fires(j, t + m * Day) <=> Sched!Fires(j, t)
<1>1. CASE j = Reset
  BY <1>1, Shift, Times DEF Sched!Fires
<1>2. CASE j # Reset
  <2>1. PICK q \in Int : Day = q * Minute
    BY Divides, Minutes, Times
  <2>2. t + m * Day = t + (m * q) * Minute /\ m * q \in Int
    <3>1. \A x, y, z \in Int : x * (y * z) = (x * y) * z /\ x * y \in Int
      OBVIOUS
    <3> QED BY <2>1, <3>1, Minutes
  <2>3. (t + (m * q) * Minute) % Minute = t % Minute
    BY <2>2, Shift, Minutes
  <2> QED BY <1>2, <2>2, <2>3 DEF Sched!Fires
<1> QED BY <1>1, <1>2

(* The wall clock shows a time of day.                                     *)
LEMMA TimeOfDay ==
  ASSUME NEW j \in Sched!Jobs, NEW a \in Int, NEW x \in Int
  PROVE  /\ a % Day \in 0 .. Day - 1
         /\ Sched!Fires(j, (a % Day) + x) <=> Sched!Fires(j, a + x)
<1>1. PICK q \in Int, r \in 0 .. Day - 1 : a = q * Day + r /\ r = a % Day
  BY Divides, Times
<1>2. a + x = (r + x) + q * Day /\ r + x \in Int
  BY <1>1, Times
<1>3. Sched!Fires(j, (r + x) + q * Day) <=> Sched!Fires(j, r + x)
  BY <1>2, Daily
<1> QED BY <1>1, <1>2, <1>3

LEMMA EachMinute ==
  ASSUME NEW e \in Envs, NEW t \in Int
  PROVE  \E n \in 1 .. Minute :
           Sched!Fires(e, t + n) /\ \A i \in 1 .. n - 1 : ~Sched!Fires(e, t + i)
<1> DEFINE S == {n \in 1 .. Minute : Sched!Fires(e, t + n)}
<1>1. S # {}
  <2>1. PICK q \in Int, r \in 0 .. Minute - 1 : t = q * Minute + r /\ r = t % Minute
    BY Divides, Minutes
  <2>2. PICK o \in 0 .. Minute - 1 : o = OffsetOf[e]
    BY Minutes
  <2>3. (q * Minute + o) % Minute = o /\ ((q + 1) * Minute + o) % Minute = o
    BY Remainder, Minutes
  <2>4. CASE r < o
    <3>1. o - r \in 1 .. Minute /\ t + (o - r) = q * Minute + o
      BY <2>1, <2>2, <2>4, Minutes
    <3> QED BY <2>2, <2>3, <3>1, Minutes DEF Sched!Fires
  <2>5. CASE o <= r
    <3>1. o - r + Minute \in 1 .. Minute /\ t + (o - r + Minute) = (q + 1) * Minute + o
      BY <2>1, <2>2, <2>5, Minutes
    <3> QED BY <2>2, <2>3, <3>1, Minutes DEF Sched!Fires
  <2> QED BY <2>1, <2>2, <2>4, <2>5
<1>2. PICK m \in S : \A x \in S : m <= x
  <2>1. S \in SUBSET Nat
    BY Minutes
  <2> HIDE DEF S
  <2> QED BY <1>1, <2>1, Smallest
<1>3. \A i \in 1 .. m - 1 : i \in 1 .. Minute /\ ~(m <= i)
  BY Minutes
<1> QED BY <1>2, <1>3

-----------------------------------------------------------------------------
(* The types.  A fire time that is overdue by i ticks is i ticks ago, and  *)
(* less than a day: by then the job fires again.                           *)
Fired == \A j \in Sched!Jobs : Sched!Due(j) =>
  /\ overdue[j] \in 0 .. Day - 1
  /\ Sched!Fires(j, now + Day - overdue[j])

LEMMA PassFired ==
  ASSUME Sched!TypeOK, Fired, NEW k \in Nat \ {0}, Sched!Pass(k)
  PROVE  Fired' /\ now' \in 0 .. Day - 1
<1>1. now \in Int /\ now' = (now + k) % Day
  BY Times DEF Sched!TypeOK, Sched!Pass
<1>2. now' \in 0 .. Day - 1
  BY <1>1, TimeOfDay, Times
<1>3. SUFFICES ASSUME NEW j \in Sched!Jobs, overdue'[j] # Sched!NotDue
               PROVE  /\ overdue'[j] \in 0 .. Day - 1
                      /\ Sched!Fires(j, now' + Day - overdue'[j])
  BY <1>2 DEF Fired, Sched!Due
<1>4. SUFFICES overdue'[j] \in 0 .. Day - 1 /\ Sched!Fires(j, now + k - overdue'[j])
  <2>1. PICK i \in 0 .. Day - 1 : i = overdue'[j] /\ Sched!Fires(j, now + k - i)
    BY <1>4
  <2>2. now + k - i \in Int /\ now + k \in Int /\ Day - i \in Int
    BY <1>1, Times
  <2>3. Sched!Fires(j, (now + k - i) + 1 * Day)
    BY <2>1, <2>2, Daily
  <2>4. (now + k - i) + 1 * Day = (now + k) + (Day - i)
    BY <1>1, Times
  <2>5. Sched!Fires(j, ((now + k) % Day) + (Day - i))
    BY <2>2, <2>3, <2>4, TimeOfDay
  <2>6. ((now + k) % Day) + (Day - i) = now' + Day - overdue'[j]
    BY <1>1, <1>2, <2>1, Times
  <2> QED BY <2>1, <2>5, <2>6
<1>5. CASE /\ overdue'[j] \in 0 .. k - 1 /\ Sched!Fires(j, now + k - overdue'[j])
           /\ \A i \in 0 .. overdue'[j] - 1 : ~Sched!Fires(j, now + k - i)
  <2>1. PICK i \in 0 .. k - 1 : /\ i = overdue'[j] /\ Sched!Fires(j, now + k - i)
                               /\ \A h \in 0 .. i - 1 : ~Sched!Fires(j, now + k - h)
    BY <1>5
  <2>2. ASSUME i >= Day PROVE FALSE
    <3>1. i - Day \in 0 .. i - 1 /\ now + k - (i - Day) = (now + k - i) + 1 * Day
      BY <1>1, <2>2, Times
    <3>2. Sched!Fires(j, (now + k - i) + 1 * Day)
      BY <1>1, <2>1, Daily
    <3> QED BY <2>1, <3>1, <3>2
  <2> QED BY <2>1, <2>2, Times
<1>6. CASE /\ \A i \in 0 .. k - 1 : ~Sched!Fires(j, now + k - i)
           /\ overdue'[j] = IF Sched!Due(j) THEN overdue[j] + k ELSE Sched!NotDue
  <2>1. PICK i \in 0 .. Day - 1 : i = overdue[j] /\ Sched!Fires(j, now + Day - i)
    BY <1>3, <1>6 DEF Fired
  <2>2. overdue'[j] = i + k
    BY <1>3, <1>6, <2>1
  <2>3. ASSUME i + k >= Day PROVE FALSE
    <3>1. i + k - Day \in 0 .. k - 1 /\ now + k - (i + k - Day) = now + Day - i
      BY <1>1, <2>3, Times
    <3> QED BY <1>6, <2>1, <3>1
  <2>4. Sched!Fires(j, (now - i) + 1 * Day) <=> Sched!Fires(j, now - i)
    BY <1>1, Daily
  <2>5. (now - i) + 1 * Day = now + Day - i /\ now + k - (i + k) = now - i
    BY <1>1, Times
  <2> QED BY <2>1, <2>2, <2>3, <2>4, <2>5, Times
<1> QED BY <1>5, <1>6, PassJob

LEMMA InitSchedTyped == Init => Sched!TypeOK /\ Fired
  BY Times DEF Init, Sched!Init, Sched!TypeOK, Fired, Sched!Due, Sched!NotDue

LEMMA NextSchedTyped ==
  ASSUME Sched!TypeOK, Fired, [Next]_vars
  PROVE  Sched!TypeOK' /\ Fired'
<1> USE DEF Sched!TypeOK
<1>a. ASSUME UNCHANGED <<now, overdue>> PROVE Fired'
  BY <1>a DEF Fired, Sched!Due
<1>b. ASSUME overdue' = [j \in Sched!Jobs |-> Sched!NotDue]
      PROVE  Fired' /\ overdue' \in [Sched!Jobs -> -1 .. Day]
  BY <1>b, Times DEF Fired, Sched!Due, Sched!NotDue
<1>c. Sched!NextFire(now) \in 0 .. Day
  BY NextFirst, Times
<1>d. ASSUME Sched!Die PROVE Sched!TypeOK' /\ Fired'
  BY <1>b, <1>d, Times DEF Sched!Die
<1>e. ASSUME NEW k \in Nat \ {0}, Sched!Pass(k)
      PROVE  /\ Fired' /\ now' \in 0 .. Day - 1 /\ overdue' \in [Sched!Jobs -> -1 .. Day]
             /\ late' \in [Sched!Jobs -> Nat] /\ tally' \in {"today", "yesterday"}
             /\ mode' = mode /\ job' = job
  <2>1. Fired' /\ now' \in 0 .. Day - 1
    BY <1>e, PassFired
  <2>2. \A j \in Sched!Jobs : overdue'[j] \in -1 .. Day
    BY <2>1, Times DEF Fired, Sched!Due, Sched!NotDue
  <2>3. DOMAIN overdue' = Sched!Jobs
    BY <1>e DEF Sched!Pass
  <2>4. overdue' = [j \in Sched!Jobs |-> overdue'[j]]
    BY <1>e DEF Sched!Pass
  <2>5. overdue' \in [Sched!Jobs -> -1 .. Day]
    BY <2>2, <2>4
  <2>6. late' \in [Sched!Jobs -> Nat]
    <3>1. late' = [j \in Sched!Jobs |->
                    IF job[j] = "submitted" THEN late[j] + k ELSE late[j]]
      BY <1>e DEF Sched!Pass
    <3> QED BY <3>1
  <2>7. tally' \in {"today", "yesterday"} /\ mode' = mode /\ job' = job
    BY <1>e DEF Sched!Pass
  <2> QED BY <2>1, <2>5, <2>6, <2>7
<1>1. CASE Boot \/ HostClock \/ AtGate \/ Monitor \/ UNCHANGED vars
  BY <1>1, <1>a DEF Boot, HostClock, AtGate, Monitor, vars, scheduler
<1>2. CASE Main
  <2>1. CASE RefuseToStart \/ Serve \/ StopMonitor
    BY <2>1, <1>a DEF RefuseToStart, Serve, StopMonitor, scheduler
  <2>2. CASE StartScheduler
    BY <2>2, <1>b, <1>c DEF StartScheduler, Sched!Start
  <2>3. CASE Exit
    BY <2>3, <1>d DEF Exit
  <2> QED BY <1>2, <2>1, <2>2, <2>3 DEF Main
<1>3. CASE Shutdown
  BY <1>3, <1>a DEF Shutdown, Sched!Shutdown
<1>4. CASE Crash
  BY <1>4, <1>d DEF Crash
<1>5. CASE Jobs
  <2>1. \A j \in Sched!Jobs : Sched!Due(j) => overdue[j] \in Nat
    BY Times DEF Fired
  <2> QED BY <1>5, <2>1, <1>b, <1>c DEF Jobs, Sched!ProcessJobs
<1>6. ASSUME NEW j \in Sched!Jobs, Job(j) PROVE Sched!TypeOK' /\ Fired'
  <2>1. CASE Sched!Begin(j)
    BY <1>6, <2>1, <1>a DEF Sched!Begin
  <2>2. CASE Sched!End(j)
    BY <1>6, <2>2, <1>a DEF Sched!End
  <2> QED BY <1>6, <2>1, <2>2 DEF Job
<1>7. CASE Tick
  <2>1. Sched!Tick
    BY <1>7 DEF Tick
  <2> QED BY <2>1, <1>e, Times DEF Sched!Tick
<1>8. CASE Sleep
  <2>1. PICK k \in 1 .. LongestSleep : Sched!Sleep(k)
    BY <1>8 DEF Sleep
  <2>2. k \in Nat \ {0}
    BY Times
  <2> QED BY <2>1, <2>2, <1>e DEF Sched!Sleep
<1> QED BY <1>1, <1>2, <1>3, <1>4, <1>5, <1>6, <1>7, <1>8 DEF Next

LEMMA InitClockTyped == Init => Clock!TypeOK
<1>1. Init => stop \in BOOLEAN
  BY Zenon DEF Init, Clock!Init
<1>2. Timeout + Poll + Interval \in Nat /\ MaxFaults \in Nat
  BY ServiceAssumption DEF Clock!ClockAssumption
<1> QED BY <1>1, <1>2 DEF Init, Clock!Init, Clock!TypeOK

LEMMA NextStop ==
  ASSUME stop \in BOOLEAN, [Next]_vars
  PROVE  stop' \in BOOLEAN
<1> USE DEF scheduler, clock, process, Reach
<1>1. CASE Boot \/ Main \/ Shutdown \/ Crash
  BY <1>1, Zenon DEF Boot, Main, Shutdown, Crash, RefuseToStart, StartScheduler, Serve, StopMonitor,
     Exit, Clock!Verify, Clock!Die, Clock!StartMonitor, Clock!StopMonitor
<1>2. CASE AtGate \/ Monitor \/ HostClock
  BY <1>2, Zenon DEF AtGate, Monitor, HostClock, Clock!InDrift, Clock!OutOfDrift, Clock!Unusable,
     Clock!TryAgain, Clock!Cycle, Clock!LoopEnds, Clock!Check, Clock!Correct, Clock!Hang,
     Clock!Raise, Clock!HostClock
<1>3. CASE Jobs \/ (\E j \in Sched!Jobs : Job(j)) \/ Tick \/ Sleep \/ UNCHANGED vars
  BY <1>3, Zenon DEF Jobs, Job, Tick, Sleep, vars, Clock!Tick
<1> QED BY <1>1, <1>2, <1>3 DEF Next

LEMMA NextClockTyped ==
  ASSUME Clock!TypeOK, [Next]_vars
  PROVE  Clock!TypeOK'
<1>a. /\ Timeout \in Nat \ {0} /\ Poll \in Nat \ {0} /\ Interval \in Nat \ {0}
      /\ MaxFaults \in Nat
  BY ServiceAssumption DEF Clock!ClockAssumption
<1>s. stop' \in BOOLEAN
  BY NextStop DEF Clock!TypeOK
<1> USE <1>a, <1>s DEF Clock!TypeOK
<1>b. ASSUME Clock!Fault PROVE faults' \in 0 .. MaxFaults
  BY <1>b DEF Clock!Fault
<1>c. ASSUME UNCHANGED clock PROVE Clock!TypeOK'
  BY <1>c DEF clock
<1>1. CASE Boot
  BY <1>1 DEF Boot, Clock!Verify
<1>2. CASE Main
  <2>1. CASE RefuseToStart
    BY <2>1 DEF RefuseToStart, Clock!Die
  <2>2. CASE StartScheduler
    BY <2>2, <1>c DEF StartScheduler
  <2>3. CASE Serve
    BY <2>3 DEF Serve, Clock!StartMonitor
  <2>4. CASE StopMonitor
    BY <2>4 DEF StopMonitor, Clock!StopMonitor
  <2>5. CASE Exit
    BY <2>5 DEF Exit, Clock!Die
  <2> QED BY <1>2, <2>1, <2>2, <2>3, <2>4, <2>5 DEF Main
<1>3. CASE Shutdown \/ Jobs \/ Sleep \/ (\E j \in Sched!Jobs : Job(j)) \/ UNCHANGED vars
  BY <1>3, <1>c DEF Shutdown, Jobs, Sleep, Job, vars, clock
<1>4. CASE Crash
  BY <1>4 DEF Crash, Clock!Die
<1>5. CASE AtGate
  <2>1. CASE Clock!InDrift \/ Clock!OutOfDrift \/ Clock!TryAgain
    BY <2>1 DEF Clock!InDrift, Clock!OutOfDrift, Clock!TryAgain, Clock!Record, Clock!Outcomes
  <2>2. CASE Clock!Unusable
    BY <2>2, <1>b DEF Clock!Unusable, Clock!Useless, Clock!NoAnswer, Clock!Rejected
  <2> QED BY <1>5, <2>1, <2>2 DEF AtGate
<1>6. CASE Monitor
  <2> USE DEF Clock!Pause, Clock!Record, Clock!Outcomes, Clock!Offsets
  <2>1. CASE Clock!Cycle \/ Clock!LoopEnds
    BY <2>1 DEF Clock!Cycle, Clock!LoopEnds
  <2>2. CASE Clock!Check
    BY <2>2, <1>b DEF Clock!Check, Clock!NoAnswer, Clock!Rejected
  <2>3. CASE Clock!Correct
    BY <2>3 DEF Clock!Correct
  <2>4. CASE Clock!Hang \/ Clock!Raise
    BY <2>4, <1>b DEF Clock!Hang, Clock!Raise, Clock!Raises
  <2> QED BY <1>6, <2>1, <2>2, <2>3, <2>4 DEF Monitor
<1>7. CASE HostClock
  BY <1>7 DEF HostClock, Clock!HostClock
<1>8. CASE Tick
  <2>1. Clock!Tick
    BY <1>8 DEF Tick
  <2> QED BY <2>1 DEF Clock!Tick
<1> QED BY <1>1, <1>2, <1>3, <1>4, <1>5, <1>6, <1>7, <1>8 DEF Next

(* The monitor's thread is joined for JoinTimeout ticks at the most.       *)
Bounds ==
  /\ proc \in {"down", "gate", "starting", "serving", "draining", "joining"}
  /\ joined \in 0 .. JoinTimeout
  /\ sleeps \in 0 .. MaxSleeps /\ crashes \in 0 .. MaxCrashes

LEMMA NextBounds ==
  ASSUME Bounds, [Next]_vars
  PROVE  Bounds'
<1>a. JoinTimeout \in Nat /\ MaxSleeps \in Nat /\ MaxCrashes \in Nat
  BY ServiceAssumption DEF Clock!ClockAssumption
<1> USE <1>a DEF Bounds, Reach, process
<1>1. CASE Boot \/ HostClock \/ AtGate \/ Monitor \/ Jobs \/ UNCHANGED vars
  BY <1>1 DEF Boot, HostClock, AtGate, Monitor, Jobs, vars
<1>2. CASE Main
  BY <1>2 DEF Main, RefuseToStart, StartScheduler, Serve, StopMonitor, Exit
<1>3. CASE Shutdown \/ Crash
  BY <1>3 DEF Shutdown, Crash
<1>4. ASSUME NEW j \in Sched!Jobs, Job(j) PROVE Bounds'
  BY <1>4 DEF Job
<1>5. CASE Tick
  BY <1>5 DEF Tick, MayExit
<1>6. CASE Sleep
  BY <1>6 DEF Sleep
<1> QED BY <1>1, <1>2, <1>3, <1>4, <1>5, <1>6 DEF Next

Typed == TypeOK /\ Fired

LEMMA InitTyped == Init => Typed
<1>1. Init => Bounds
  BY ServiceAssumption DEF Init, Bounds, Clock!ClockAssumption
<1> QED BY <1>1, InitSchedTyped, InitClockTyped DEF Typed, TypeOK, Bounds

LEMMA NextTyped == Typed /\ [Next]_vars => Typed'
BY NextSchedTyped, NextClockTyped, NextBounds DEF Typed, TypeOK, Bounds

(* Every variable of the process has its type: no poll is ever overdue by  *)
(* a day, no request or pause outlasts its limit, and main() waits no      *)
(* longer for the monitor than it says.                                    *)
THEOREM TypeCorrect == Spec => []TypeOK
<1>1. Typed => TypeOK
  BY DEF Typed
<1> QED BY <1>1, InitTyped, NextTyped, PTL DEF Spec

-----------------------------------------------------------------------------
(* Why polls keep coming.  An environment that waits for its poll is near  *)
(* (the thread's wait ends within a minute of its last poll), or the fire  *)
(* time of its next poll is in sight and early enough, also after one that *)
(* was dropped, or it is at hand: the thread is about to hand it over, or  *)
(* has handed it over in time.                                             *)

Near(e) == gap[e] + wake <= Minute

InSight(e) ==
  /\ ~Sched!Due(e)
  /\ \E n \in 1 .. Minute :
       /\ wake <= n /\ gap[e] + n <= 2 * Minute
       /\ Sched!Fires(e, now + n)
       /\ \A i \in 1 .. n - 1 : ~Sched!Fires(e, now + i)

AtHand(e) ==
  /\ gap[e] <= 2 * Minute
  /\ job[e] = "submitted" => late[e] = 0
  /\ job[e] = "idle" => overdue[e] = 0 /\ wake = 0

Coming(e) ==
  /\ job[e] = "running" => gap[e] = 0
  /\ job[e] # "running" => Near(e) \/ InSight(e) \/ AtHand(e)

Rhythm ==
  /\ PollsKeepComing
  /\ mode = "running" => \A e \in Envs : wake <= Minute /\ Coming(e)

LEMMA InitRhythm == Init => Rhythm
  BY Minutes DEF Init, Sched!Init, Rhythm, PollsKeepComing, Sched!PollsKeepComing

LEMMA EnvTypes ==
  ASSUME Sched!TypeOK, NEW e \in Envs
  PROVE  /\ e \in Sched!Jobs /\ gap[e] \in Nat /\ wake \in Nat /\ now \in 0 .. Day - 1
         /\ job[e] \in {"idle", "submitted", "running"} /\ now \in Int
  BY Times DEF Sched!TypeOK, Sched!Jobs

(* When the thread goes to wait again, the next poll is in sight.          *)
LEMMA WaitsInSight ==
  ASSUME Sched!TypeOK, NEW e \in Envs, NEW g \in Nat, g <= Minute
  PROVE  /\ Sched!NextFire(now) <= Minute
         /\ \E n \in 1 .. Minute :
              /\ Sched!NextFire(now) <= n /\ g + n <= 2 * Minute
              /\ Sched!Fires(e, now + n)
              /\ \A i \in 1 .. n - 1 : ~Sched!Fires(e, now + i)
<1>1. PICK n \in 1 .. Minute :
        Sched!Fires(e, now + n) /\ \A i \in 1 .. n - 1 : ~Sched!Fires(e, now + i)
  BY EachMinute, EnvTypes
<1>2. PICK k \in 1 .. Day : /\ k = Sched!NextFire(now)
                           /\ \A i \in 1 .. k - 1 : ~Sched!Fires(e, now + i)
  BY NextFirst, EnvTypes, Times
<1>3. k <= n
  BY <1>1, <1>2, Minutes, Times
<1> QED BY <1>1, <1>2, <1>3, Minutes, Times

LEMMA StartInRhythm ==
  ASSUME Sched!TypeOK, Sched!Start, \A j \in Sched!Jobs : job[j] = "idle"
  PROVE  Rhythm'
<1>1. SUFFICES ASSUME NEW e \in Envs
               PROVE  gap'[e] <= 2 * Minute /\ wake' <= Minute /\ Coming(e)'
  BY DEF Rhythm, PollsKeepComing, Sched!PollsKeepComing
<1>2. gap'[e] = 0 /\ wake' = Sched!NextFire(now) /\ job'[e] = "idle"
  BY EnvTypes DEF Sched!Start
<1>3. Sched!NextFire(now) <= Minute /\ Sched!NextFire(now) \in Nat
  BY WaitsInSight, NextFirst, EnvTypes, Minutes, Times
<1> QED BY <1>2, <1>3, Minutes DEF Coming, Near

LEMMA SubmitInRhythm ==
  ASSUME Sched!TypeOK, Rhythm, Sched!ProcessJobs
  PROVE  Rhythm'
<1>1. SUFFICES ASSUME NEW e \in Envs
               PROVE  gap'[e] <= 2 * Minute /\ wake' <= Minute /\ Coming(e)'
  BY DEF Rhythm, PollsKeepComing, Sched!PollsKeepComing
<1>2. /\ gap' = gap /\ now' = now /\ wake = 0 /\ wake' = Sched!NextFire(now)
      /\ overdue'[e] = Sched!NotDue
      /\ job'[e] = IF Sched!Due(e) /\ job[e] = "idle" THEN "submitted" ELSE job[e]
      /\ late'[e] = IF Sched!Due(e) /\ job[e] = "idle" THEN overdue[e] ELSE late[e]
  BY EnvTypes DEF Sched!ProcessJobs
<1>3. gap[e] <= 2 * Minute /\ Coming(e) /\ mode = "running"
  BY DEF Rhythm, PollsKeepComing, Sched!PollsKeepComing, Sched!ProcessJobs
<1>4. wake' <= Minute
  BY <1>2, WaitsInSight, Minutes
<1>5. CASE gap[e] <= Minute
  BY <1>2, <1>3, <1>4, <1>5, WaitsInSight, EnvTypes DEF Coming, InSight, Sched!Due
<1>6. CASE InSight(e) /\ job[e] # "running"
  <2>1. PICK n \in 1 .. Minute :
          /\ gap[e] + n <= 2 * Minute /\ Sched!Fires(e, now + n)
          /\ \A i \in 1 .. n - 1 : ~Sched!Fires(e, now + i)
    BY <1>6 DEF InSight
  <2>2. PICK k \in 1 .. Day : /\ k = Sched!NextFire(now)
                             /\ \A i \in 1 .. k - 1 : ~Sched!Fires(e, now + i)
    BY NextFirst, EnvTypes, Times
  <2>3. k <= n
    BY <2>1, <2>2, Minutes, Times
  <2> QED BY <1>2, <1>3, <1>4, <1>6, <2>1, <2>2, <2>3 DEF Coming, InSight, Sched!Due
<1>7. CASE AtHand(e) /\ job[e] # "running"
  BY <1>2, <1>3, <1>4, <1>7, EnvTypes DEF AtHand, Coming, Sched!Due, Sched!NotDue
<1> QED BY <1>2, <1>3, <1>5, <1>6, <1>7, EnvTypes, Minutes DEF Coming, Near

LEMMA RunInRhythm ==
  ASSUME Sched!TypeOK, Rhythm, NEW j \in Sched!Jobs, Sched!Begin(j) \/ Sched!End(j)
  PROVE  Rhythm'
<1>1. UNCHANGED <<mode, now, wake, overdue>>
  BY DEF Sched!Begin, Sched!End
<1>2. ASSUME NEW e \in Envs
      PROVE  /\ gap'[e] <= 2 * Minute
             /\ mode = "running" => wake <= Minute /\ Coming(e)'
  <2>1. /\ gap[e] <= 2 * Minute /\ gap[e] \in Nat
        /\ mode = "running" => wake <= Minute /\ wake \in Nat /\ Coming(e)
    BY EnvTypes DEF Rhythm, PollsKeepComing, Sched!PollsKeepComing
  <2>2. CASE e # j
    <3>1. gap'[e] = gap[e] /\ job'[e] = job[e] /\ late'[e] = late[e]
      BY <2>2, EnvTypes DEF Sched!Begin, Sched!End, Sched!TypeOK
    <3> QED BY <1>1, <2>1, <3>1 DEF Coming, Near, InSight, AtHand, Sched!Due
  <2>3. CASE e = j /\ Sched!Begin(j) /\ late[j] <= Sched!GraceOf(j)
    <3>1. gap'[e] = 0 /\ job'[e] = "running"
      BY <2>3, EnvTypes DEF Sched!Begin, Sched!TypeOK
    <3> QED BY <2>1, <3>1, Minutes DEF Coming
  <2>4. CASE e = j /\ Sched!Begin(j) /\ ~(late[j] <= Sched!GraceOf(j))
    <3>1. gap'[e] = gap[e] /\ job'[e] = "idle" /\ job[e] = "submitted"
      BY <2>4, EnvTypes DEF Sched!Begin, Sched!TypeOK
    <3>2. late[e] # 0
      <4>1. Sched!GraceOf(j) \in Nat
        BY ServiceAssumption DEF Sched!SchedulerAssumption, Sched!GraceOf
      <4> QED BY <2>4, <4>1
    <3>3. mode = "running" => Near(e) \/ InSight(e)
      BY <2>1, <3>1, <3>2 DEF Coming, AtHand
    <3> QED BY <1>1, <2>1, <3>1, <3>3 DEF Coming, Near, InSight, Sched!Due
  <2>5. CASE e = j /\ Sched!End(j)
    <3>1. gap'[e] = gap[e] /\ job'[e] = "idle" /\ job[e] = "running"
      BY <2>5, EnvTypes DEF Sched!End, Sched!TypeOK
    <3> QED BY <1>1, <2>1, <3>1, Minutes DEF Coming, Near
  <2> QED BY <2>2, <2>3, <2>4, <2>5
<1> QED BY <1>1, <1>2 DEF Rhythm, PollsKeepComing, Sched!PollsKeepComing

LEMMA SleepInRhythm ==
  ASSUME Sched!TypeOK, Rhythm, NEW k \in Nat, Sched!Sleep(k)
  PROVE  Rhythm'
<1>1. SUFFICES ASSUME NEW e \in Envs
               PROVE  /\ gap'[e] <= 2 * Minute
                      /\ mode' = "running" => wake' <= Minute /\ Coming(e)'
  BY DEF Rhythm, PollsKeepComing, Sched!PollsKeepComing
<1>2. gap'[e] = 0 /\ wake' = wake /\ mode' = mode /\ job' = job
  BY DEF Sched!Sleep, Sched!Pass
<1> QED BY <1>2, EnvTypes, Minutes DEF Rhythm, Coming, Near

(* A tick brings what is near, or in sight, nearer.                        *)
LEMMA TickInRhythm ==
  ASSUME Sched!TypeOK, Rhythm, Sched!Tick
  PROVE  Rhythm'
<1>1. SUFFICES ASSUME NEW e \in Envs
               PROVE  /\ gap'[e] <= 2 * Minute
                      /\ mode' = "running" => wake' <= Minute /\ Coming(e)'
  BY DEF Rhythm, PollsKeepComing, Sched!PollsKeepComing
<1>2. /\ mode' = mode /\ job' = job /\ now' = (now + 1) % Day
      /\ gap'[e] = IF mode = "running" /\ job[e] = "idle" THEN gap[e] + 1 ELSE 0
  BY DEF Sched!Tick, Sched!Pass
<1>3. CASE ~(mode = "running" /\ job[e] = "idle")
  <2>1. job[e] # "submitted"
    BY WorkerToSpare, EnvTypes DEF Sched!Tick
  <2>2. ASSUME mode = "running" PROVE wake' <= Minute
    <3>1. wake \in Nat /\ wake <= Minute /\ wake > 0
      BY <2>2, EnvTypes DEF Sched!Tick, Rhythm
    <3>2. wake' = wake - 1
      BY <2>2, <3>1 DEF Sched!Tick
    <3>3. wake - 1 <= Minute
      BY <3>1, Minutes
    <3> QED BY <3>2, <3>3
  <2> QED BY <1>2, <1>3, <2>1, <2>2, EnvTypes, Minutes DEF Coming
<1>4. CASE mode = "running" /\ job[e] = "idle"
  <2>1. /\ gap'[e] = gap[e] + 1 /\ wake' = wake - 1 /\ wake \in Nat \ {0} /\ wake <= Minute
        /\ gap[e] \in Nat /\ now \in Int
        /\ Near(e) \/ InSight(e)
    BY <1>2, <1>4, EnvTypes DEF Sched!Tick, Rhythm, Coming, AtHand
  <2>2. CASE Near(e)
    BY <1>2, <1>4, <2>1, <2>2, Minutes DEF Coming, Near
  <2>3. CASE InSight(e)
    <3>1. PICK n \in 1 .. Minute :
            /\ wake <= n /\ gap[e] + n <= 2 * Minute
            /\ Sched!Fires(e, now + n)
            /\ \A i \in 1 .. n - 1 : ~Sched!Fires(e, now + i)
      BY <2>3 DEF InSight
    <3>2. IF Sched!Fires(e, now + 1) THEN overdue'[e] = 0 ELSE overdue'[e] = Sched!NotDue
      <4>1. Sched!Pass(1) /\ ~Sched!Due(e) /\ e \in Sched!Jobs
        BY <2>3, EnvTypes DEF Sched!Tick, InSight
      <4>2. \/ overdue'[e] = 0 /\ Sched!Fires(e, now + 1 - overdue'[e])
            \/ overdue'[e] = Sched!NotDue /\ ~Sched!Fires(e, now + 1 - 0)
        BY <4>1, PassJob
      <4> QED BY <2>1, <4>2, EnvTypes DEF Sched!NotDue
    <3>3. CASE n = 1
      BY <1>2, <1>4, <2>1, <3>1, <3>2, <3>3, Minutes DEF Coming, AtHand
    <3>4. CASE n # 1
      <4>1. n - 1 \in 1 .. Minute /\ wake - 1 <= n - 1 /\ (gap[e] + 1) + (n - 1) <= 2 * Minute
        BY <2>1, <3>1, <3>4, Minutes
      <4>2. overdue'[e] = Sched!NotDue
        <5>1. 1 \in 1 .. n - 1
          BY <3>1, <3>4
        <5> QED BY <3>1, <3>2, <5>1
      <4>3. \A i \in Int : Sched!Fires(e, ((now + 1) % Day) + i) <=> Sched!Fires(e, (now + 1) + i)
        BY <2>1, TimeOfDay, EnvTypes
      <4>4. \A i \in Int : (now + 1) + i = now + (i + 1)
        BY <2>1
      <4>5. \A i \in Int : Sched!Fires(e, now' + i) <=> Sched!Fires(e, now + (i + 1))
        BY <1>2, <4>3, <4>4
      <4>6. Sched!Fires(e, now' + (n - 1))
        <5>1. n - 1 \in Int /\ (n - 1) + 1 = n
          OBVIOUS
        <5> QED BY <3>1, <4>5, <5>1
      <4>7. \A i \in 1 .. (n - 1) - 1 : ~Sched!Fires(e, now' + i)
        <5>1. \A i \in 1 .. (n - 1) - 1 : i \in Int /\ i + 1 \in 1 .. n - 1
          OBVIOUS
        <5> QED BY <3>1, <4>5, <5>1
      <4>8. InSight(e)'
        BY <2>1, <4>1, <4>2, <4>6, <4>7 DEF InSight, Sched!Due
      <4> QED BY <1>2, <1>4, <2>1, <3>1, <4>8, Minutes DEF Coming
    <3> QED BY <3>3, <3>4
  <2> QED BY <2>1, <2>2, <2>3
<1> QED BY <1>3, <1>4

LEMMA NextRhythm ==
  ASSUME Order, Sched!TypeOK, Rhythm, [Next]_vars
  PROVE  Rhythm'
<1>a. ASSUME UNCHANGED scheduler PROVE Rhythm'
  BY <1>a DEF scheduler, Rhythm, PollsKeepComing, Sched!PollsKeepComing, Coming, Near, InSight,
     AtHand, Sched!Due
<1>b. ASSUME Sched!Die PROVE Rhythm'
  BY <1>b, Minutes DEF Sched!Die, Rhythm, PollsKeepComing, Sched!PollsKeepComing
<1>1. CASE Boot \/ HostClock \/ AtGate \/ Monitor \/ UNCHANGED vars
  BY <1>1, <1>a DEF Boot, HostClock, AtGate, Monitor, vars
<1>2. CASE Main
  <2>1. CASE RefuseToStart \/ Serve \/ StopMonitor
    BY <2>1, <1>a DEF RefuseToStart, Serve, StopMonitor
  <2>2. CASE StartScheduler
    BY <2>2, StartInRhythm DEF StartScheduler, Order
  <2>3. CASE Exit
    BY <2>3, <1>b DEF Exit
  <2> QED BY <1>2, <2>1, <2>2, <2>3 DEF Main
<1>3. CASE Shutdown
  BY <1>3 DEF Shutdown, Sched!Shutdown, Rhythm, PollsKeepComing, Sched!PollsKeepComing
<1>4. CASE Crash
  BY <1>4, <1>b DEF Crash
<1>5. CASE Jobs
  BY <1>5, SubmitInRhythm DEF Jobs
<1>6. ASSUME NEW j \in Sched!Jobs, Job(j) PROVE Rhythm'
  BY <1>6, RunInRhythm DEF Job
<1>7. CASE Tick
  BY <1>7, TickInRhythm DEF Tick
<1>8. CASE Sleep
  <2>1. PICK k \in 1 .. LongestSleep : Sched!Sleep(k)
    BY <1>8 DEF Sleep
  <2> QED BY <2>1, SleepInRhythm, Times
<1> QED BY <1>1, <1>2, <1>3, <1>4, <1>5, <1>6, <1>7, <1>8 DEF Next

(* However the fire times of the environments lie, whatever runs are       *)
(* skipped or dropped, and however often the process starts anew: no       *)
(* environment goes without a poll for more than two minutes while the     *)
(* host is awake.  One minute is the time between two fire times; the      *)
(* other is for a fire time that passes while a run is under way.          *)
THEOREM NoEnvironmentStarves == Spec => []PollsKeepComing
<1>1. IInv => Order
  BY DEF IInv
<1>2. TypeOK => Sched!TypeOK
  BY DEF TypeOK
<1>3. Order /\ Sched!TypeOK /\ Rhythm /\ [Next]_vars => Rhythm'
  BY NextRhythm
<1>4. Rhythm => PollsKeepComing
  BY DEF Rhythm
<1> QED BY <1>1, <1>2, <1>3, <1>4, InitRhythm, ServiceInvariant, TypeCorrect, PTL DEF Spec

=============================================================================

------------------------------- MODULE ClockSync -------------------------------
(***************************************************************************)
(* scanner/ntp.py: the startup gate of the main thread (NTPGate.verify)    *)
(* and the drift monitor's thread (DriftMonitor), which ask one NTP source *)
(* for the offset of the machine's clock.                                  *)
(*                                                                         *)
(* A request takes up to the client's timeout, which is the same setting   *)
(* as the gate's; the correction helper takes as long as it takes.         *)
(***************************************************************************)
EXTENDS Naturals

CONSTANTS
  Timeout,      \* startup_timeout_seconds: of the gate and of one request
  Poll,         \* poll_interval_seconds of the gate
  Interval,     \* check_interval_seconds of the monitor
  JoinTimeout,  \* how long stop() waits for the monitor's thread
  MaxFaults     \* bound: useless answers, hanging helpers, odd exceptions

(* What the theorems, and the modules that use the clock, assume.          *)
ClockAssumption ==
  /\ Timeout \in Nat \ {0} /\ Poll \in Nat \ {0} /\ Interval \in Nat \ {0}
  /\ JoinTimeout \in Nat /\ MaxFaults \in Nat

VARIABLES
  gate,      \* the main thread in verify()
  waited,    \* ticks since verify() was called
  monitor,   \* the monitor's thread
  spent,     \* ticks a thread has spent on its request or its pause
  stop,      \* _stop is set
  offset,    \* how far the machine's clock is off
  recent,    \* recent_clock_sync: the last outcome recorded
  faults

vars == <<gate, waited, monitor, spent, stop, offset, recent, faults>>

(* Within max_drift_seconds, beyond it, or so far off that the answer is   *)
(* not believed (_MAX_PLAUSIBLE_OFFSET_SECONDS, a day).                    *)
Offsets  == {"within", "beyond", "implausible"}
Outcomes == {"ok", "drift_corrected", "drift_uncorrected", "unreachable", "rejected_kod"}

TypeOK ==
  /\ gate \in {"off", "measure", "sleep", "passed", "refused"}
  /\ waited \in Nat
  /\ monitor \in {"off", "measure", "correct", "denied", "hung", "wait"}
  /\ spent \in 0 .. Timeout + Poll + Interval
  /\ stop \in BOOLEAN /\ offset \in Offsets
  /\ recent \in Outcomes \cup {"none"}
  /\ faults \in 0 .. MaxFaults

Init ==
  /\ gate = "off" /\ waited = 0 /\ monitor = "off" /\ spent = 0 /\ stop = FALSE
  /\ offset \in Offsets
  /\ recent = "none" /\ faults = 0

Fault == faults < MaxFaults /\ faults' = faults + 1

(* The clock of the host goes wrong when it is left alone, and may be set  *)
(* by its own time service.                                                *)
HostClock ==
  /\ offset' \in Offsets \ {offset}
  /\ UNCHANGED <<gate, waited, monitor, spent, stop, recent, faults>>

Record(outcome) == recent' = outcome

(* No answer comes, or one that is not believed (NTPClient.measure).       *)
NoAnswer == Fault
Rejected == (offset = "implausible" /\ UNCHANGED faults) \/ Fault
Useless  == NoAnswer \/ Rejected

-----------------------------------------------------------------------------
(* NTPGate.verify                                                          *)
Verify ==
  /\ gate = "off" /\ gate' = "measure" /\ waited' = 0 /\ spent' = 0
  /\ UNCHANGED <<monitor, stop, offset, recent, faults>>

(* A usable answer: the gate passes, and build_runtime records it ...      *)
InDrift ==
  /\ gate = "measure" /\ offset = "within"
  /\ gate' = "passed" /\ Record("ok")
  /\ UNCHANGED <<waited, monitor, spent, stop, offset, faults>>

(* ... unless the clock is off by too much.                                *)
OutOfDrift ==
  /\ gate = "measure" /\ offset = "beyond" /\ gate' = "refused"
  /\ UNCHANGED <<waited, monitor, spent, stop, offset, recent, faults>>

(* Variant with a mistake: every request is given the whole time.          *)
Unusable_NewDeadline ==
  /\ gate = "measure" /\ Useless
  /\ gate' = IF spent >= Timeout THEN "refused" ELSE "sleep"
  /\ spent' = 0
  /\ UNCHANGED <<waited, monitor, stop, offset, recent>>

(* No answer, or one that is rejected: the gate gives up after the         *)
(* deadline, and otherwise tries again after a pause.                      *)
Unusable ==
  /\ gate = "measure" /\ Useless
  /\ gate' = IF waited >= Timeout THEN "refused" ELSE "sleep"
  /\ spent' = 0
  /\ UNCHANGED <<waited, monitor, stop, offset, recent>>

TryAgain ==
  /\ gate = "sleep" /\ spent = Poll
  /\ gate' = "measure" /\ spent' = 0
  /\ UNCHANGED <<waited, monitor, stop, offset, recent, faults>>

-----------------------------------------------------------------------------
(* DriftMonitor: start() runs _loop in a thread, which checks at once.     *)
StartMonitor ==
  /\ gate = "passed" /\ gate' = "off" /\ waited' = 0
  /\ monitor = "off" /\ monitor' = "wait" /\ spent' = Interval /\ stop' = FALSE
  /\ UNCHANGED <<offset, recent, faults>>

(* _loop, between two cycles.                                              *)
Cycle ==
  /\ monitor = "wait" /\ spent = Interval /\ ~stop
  /\ monitor' = "measure" /\ spent' = 0
  /\ UNCHANGED <<gate, waited, stop, offset, recent, faults>>

LoopEnds ==
  /\ monitor = "wait" /\ stop /\ monitor' = "off"
  /\ UNCHANGED <<gate, waited, spent, stop, offset, recent, faults>>

Pause == monitor' = "wait" /\ spent' = 0

(* check_once: no answer or a rejected one, a clock that is right, one     *)
(* that is not.  Whether a correct_clock_command is configured and found,  *)
(* and may be executed, is left open: in the first case the drift is       *)
(* recorded as uncorrected, in the last starting the helper raises ...     *)
Check ==
  /\ monitor = "measure"
  /\ \/ NoAnswer /\ Record("unreachable") /\ Pause
     \/ Rejected /\ Record("rejected_kod") /\ Pause
     \/ offset = "within" /\ Record("ok") /\ Pause /\ UNCHANGED faults
     \/ offset = "beyond" /\ Record("drift_uncorrected") /\ Pause /\ UNCHANGED faults
     \/ /\ offset = "beyond" /\ monitor' \in {"correct", "denied"}
        /\ UNCHANGED <<spent, recent, faults>>
  /\ UNCHANGED <<gate, waited, stop, offset>>

(* ... the helper corrects the clock, or fails ...                         *)
Correct ==
  /\ monitor = "correct" /\ Pause
  /\ \/ Record("drift_corrected") /\ offset' = "within" /\ UNCHANGED faults
     \/ Record("drift_uncorrected") /\ UNCHANGED <<offset, faults>>
  /\ UNCHANGED <<gate, waited, stop>>

(* ... or never returns: it is run without a timeout.                      *)
Hang ==
  /\ monitor = "correct" /\ monitor' = "hung" /\ Fault
  /\ UNCHANGED <<gate, waited, spent, stop, offset, recent>>

(* PermissionError, as often as the helper is tried, and any other         *)
(* exception that nobody expects.                                          *)
Raises == \/ monitor = "denied" /\ UNCHANGED faults
          \/ monitor \in {"measure", "correct"} /\ Fault

(* Variant with a mistake: an exception ends the thread.                   *)
Raise_EndsThread ==
  /\ monitor # "denied" /\ Raises
  /\ monitor' = "off"
  /\ UNCHANGED <<gate, waited, spent, stop, offset, recent>>

(* _loop logs it, records nothing and goes on.                             *)
Raise ==
  /\ Raises /\ Pause
  /\ UNCHANGED <<gate, waited, stop, offset, recent>>

(* stop(): the thread finishes its cycle; the caller joins it for a while. *)
StopMonitor ==
  /\ stop' = TRUE
  /\ UNCHANGED <<gate, waited, monitor, spent, offset, recent, faults>>

(* The process is gone, and with it the daemon thread.                     *)
Die ==
  /\ gate' = "off" /\ waited' = 0 /\ monitor' = "off" /\ spent' = 0
  /\ stop' = FALSE /\ recent' = "none"
  /\ UNCHANGED <<offset, faults>>

(* A tick; requests time out and pauses end in time.                       *)
Tick ==
  /\ gate = "measure" \/ monitor = "measure" => spent < Timeout
  /\ gate = "sleep" => spent < Poll
  /\ monitor = "wait" => ~stop /\ spent < Interval
  /\ waited' = IF gate \in {"measure", "sleep"} THEN waited + 1 ELSE waited
  /\ spent' = IF gate \in {"measure", "sleep"} \/ monitor \in {"measure", "wait"}
              THEN spent + 1 ELSE spent
  /\ UNCHANGED <<gate, monitor, stop, offset, recent, faults>>

-----------------------------------------------------------------------------
(* The gate comes to a verdict within twice its timeout and a pause: an    *)
(* attempt may begin just before the deadline and take all of its own time. *)
GateBounded == waited < 2 * Timeout + Poll

=============================================================================

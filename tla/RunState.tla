------------------------------- MODULE RunState -------------------------------
(***************************************************************************)
(* scanner/state.py: the dashboard state of one process, and what the      *)
(* polls of scanner/batch.py report to it.  Each run is one call of        *)
(* run_once in a thread of its own, started by the scheduler or by         *)
(* POST /run, several of one environment at a time included; midnight      *)
(* zeroes the counters under their hands.                                  *)
(*                                                                         *)
(* A mutator of BatchRunState holds the lock and is one step; what it      *)
(* reports happens in an earlier step.  An event is queued in the step of  *)
(* the change it tells of: it may be taken at any time after.  Names, page *)
(* numbers and messages are left out: current_file is set or not.          *)
(***************************************************************************)
EXTENDS Naturals, Sequences, FiniteSets

CONSTANTS
  Envs,         \* configured environments
  Runs,         \* calls of run_once
  EnvOf,        \* the environment a run is of
  PagesOf,      \* the pages of each file a run finds and claims, in order
  MaxFaults,    \* bound: pages not accepted, exceptions, lost requests
  MaxOutside    \* bound: midnights and clock measurements

ASSUME RunsAssumption ==
  /\ IsFiniteSet(Runs) /\ EnvOf \in [Runs -> Envs]
  /\ PagesOf \in [Runs -> Seq(Nat)]
ASSUME RunStateBounds == MaxFaults \in Nat /\ MaxOutside \in Nat

VARIABLES
  perEnv,    \* BatchRunState.per_env
  queue,     \* number of events in AppState.event_queue
  pc, file, page, allOk, unrecoverable,   \* each run's thread
  today,     \* what happened since midnight, or is reported since
  carried,   \* files that were on hand at the last midnight
  blank,     \* files without a page that were completed since
  faults, outside

thread == <<pc, file, page, allOk, unrecoverable>>
run    == <<perEnv, queue, thread, today, carried, blank, faults, outside>>

Tallied == {"files_processed", "pages_uploaded", "errors"}

InFile == {"render", "upload", "uploaded", "refused", "progress",
           "dispose", "filed", "raised", "finally"}

RunTypeOK ==
  /\ perEnv \in [Envs -> [current_file : BOOLEAN, last_run : {"never", "started", "finished"},
                          files_processed : Nat, pages_uploaded : Nat, errors : Nat]]
  /\ queue \in Nat
  /\ pc \in [Runs -> {"ready", "next", "done"} \cup InFile]
  /\ file \in [Runs -> Nat] /\ page \in [Runs -> Nat]
  /\ allOk \in [Runs -> BOOLEAN] /\ unrecoverable \in [Runs -> BOOLEAN]
  /\ today \in [Envs -> [Tallied -> Nat]]
  /\ carried \in [Envs -> Nat] /\ blank \in [Envs -> Nat]
  /\ faults \in 0 .. MaxFaults /\ outside \in 0 .. MaxOutside

(* A new process; events may wait from before the browser came.            *)
RunInit ==
  /\ perEnv = [e \in Envs |-> [current_file |-> FALSE, last_run |-> "never",
                               files_processed |-> 0, pages_uploaded |-> 0, errors |-> 0]]
  /\ queue = 0
  /\ pc = [r \in Runs |-> "ready"]
  /\ file = [r \in Runs |-> 0] /\ page = [r \in Runs |-> 0]
  /\ allOk = [r \in Runs |-> TRUE] /\ unrecoverable = [r \in Runs |-> FALSE]
  /\ today = [e \in Envs |-> [x \in Tallied |-> 0]]
  /\ carried = [e \in Envs |-> 0] /\ blank = [e \in Envs |-> 0]
  /\ faults = 0 /\ outside = 0

-----------------------------------------------------------------------------
(* emit_event: the loop puts the event into the one queue, which is        *)
(* unbounded.                                                              *)
Emit == queue' = queue + 1

Fault == faults < MaxFaults /\ faults' = faults + 1 /\ UNCHANGED outside

NoFault == UNCHANGED <<faults, outside>>

(* Run r goes from one step to the next.                                   *)
Step(r, from, to) == pc[r] = from /\ pc' = [pc EXCEPT ![r] = to]

(* A mutator: one attribute of the run's environment.                      *)
Put(r, x, v) == perEnv' = [perEnv EXCEPT ![EnvOf[r]][x] = v]
Add(r, x)    == perEnv' = [perEnv EXCEPT ![EnvOf[r]][x] = @ + 1]

(* Something that is to be counted happens.                                *)
Happens(r, x) == today' = [today EXCEPT ![EnvOf[r]][x] = @ + 1]

-----------------------------------------------------------------------------
(* mark_run_started, run_started                                           *)
StartRun(r) ==
  /\ Step(r, "ready", "next") /\ Put(r, "last_run", "started") /\ Emit
  /\ UNCHANGED <<file, page, allOk, unrecoverable, today, carried, blank, faults, outside>>

(* set_current(file, page 0), file_started                                 *)
StartFile(r) ==
  /\ Step(r, "next", "render") /\ file[r] < Len(PagesOf[r])
  /\ Put(r, "current_file", TRUE) /\ Emit
  /\ file' = [file EXCEPT ![r] = @ + 1] /\ page' = [page EXCEPT ![r] = 1]
  /\ allOk' = [allOk EXCEPT ![r] = TRUE]
  /\ unrecoverable' = [unrecoverable EXCEPT ![r] = FALSE]
  /\ UNCHANGED <<today, carried, blank, faults, outside>>

(* process_pdf, which may find no page; set_current(total)                 *)
Render(r) ==
  /\ Step(r, "render", IF PagesOf[r][file[r]] = 0 THEN "dispose" ELSE "upload") /\ NoFault
  /\ UNCHANGED <<perEnv, queue, file, page, allOk, unrecoverable, today, carried, blank>>

(* _upload_page_with_downsample accepts the page ...                       *)
Accepted(r) ==
  /\ Step(r, "upload", "uploaded") /\ Happens(r, "pages_uploaded") /\ NoFault
  /\ UNCHANGED <<perEnv, queue, file, page, allOk, unrecoverable, carried, blank>>

(* ... or rejects it, or gives it up.                                      *)
NotAccepted(r) ==
  /\ Step(r, "upload", "refused") /\ Happens(r, "errors") /\ Fault
  /\ allOk' = [allOk EXCEPT ![r] = FALSE]
  /\ \E rejected \in BOOLEAN :
       unrecoverable' = [unrecoverable EXCEPT ![r] = @ \/ rejected]
  /\ UNCHANGED <<perEnv, queue, file, page, carried, blank>>

(* add_pages_uploaded                                                      *)
AddPage(r) ==
  /\ Step(r, "uploaded", "progress") /\ Add(r, "pages_uploaded")
  /\ UNCHANGED <<queue, file, page, allOk, unrecoverable, today, carried, blank, faults, outside>>

(* add_error                                                               *)
AddPageError(r) ==
  /\ Step(r, "refused", "progress") /\ Add(r, "errors")
  /\ UNCHANGED <<queue, file, page, allOk, unrecoverable, today, carried, blank, faults, outside>>

(* set_current(page), page_done                                            *)
PageDone(r) ==
  /\ Step(r, "progress",
          IF page[r] < PagesOf[r][file[r]] THEN "upload" ELSE "dispose")
  /\ page' = [page EXCEPT ![r] = @ + 1] /\ Emit
  /\ UNCHANGED <<perEnv, file, allOk, unrecoverable, today, carried, blank, faults, outside>>

(* _dispose: the file goes to processed/ and is counted ...                *)
Complete(r) ==
  /\ Step(r, "dispose", "filed") /\ allOk[r] /\ Happens(r, "files_processed") /\ NoFault
  /\ blank' = IF PagesOf[r][file[r]] = 0 THEN [blank EXCEPT ![EnvOf[r]] = @ + 1] ELSE blank
  /\ UNCHANGED <<perEnv, queue, file, page, allOk, unrecoverable, carried>>

AddFile(r) ==
  /\ Step(r, "filed", "finally") /\ Add(r, "files_processed")
  /\ UNCHANGED <<queue, file, page, allOk, unrecoverable, today, carried, blank, faults, outside>>

(* notify_quarantine: it logs when no mail is configured, and returns all  *)
(* the same when the mail server refuses the mail or is not there.         *)
NotifyQuarantine(r) ==
  /\ Step(r, "dispose", "finally") /\ NoFault
  /\ UNCHANGED <<perEnv, queue, file, page, allOk, unrecoverable, today, carried, blank>>

(* ... or to failed/, and support gets a mail ...                          *)
Quarantine(r) == ~allOk[r] /\ unrecoverable[r] /\ NotifyQuarantine(r)

(* ... or back to the watch folder.                                        *)
RetryLater(r) ==
  /\ Step(r, "dispose", "finally") /\ ~allOk[r] /\ ~unrecoverable[r] /\ NoFault
  /\ UNCHANGED <<perEnv, queue, file, page, allOk, unrecoverable, today, carried, blank>>

(* process_pdf, the upload or the rename raises ...                        *)
Raise(r) ==
  /\ \E from \in {"render", "upload", "dispose"} : Step(r, from, "raised")
  /\ Happens(r, "errors") /\ Fault
  /\ UNCHANGED <<perEnv, queue, file, page, allOk, unrecoverable, carried, blank>>

(* ... and the except clause records it.                                   *)
AddFileError(r) ==
  /\ Step(r, "raised", "finally") /\ Add(r, "errors")
  /\ UNCHANGED <<queue, file, page, allOk, unrecoverable, today, carried, blank, faults, outside>>

(* The finally clause: set_current(current_file=None), which set_current   *)
(* takes for "leave it as it is"; file_done.                               *)
FileDone(r) ==
  /\ Step(r, "finally", "next") /\ Emit
  /\ UNCHANGED <<perEnv, file, page, allOk, unrecoverable, today, carried, blank, faults, outside>>

(* mark_run_finished, run_done                                             *)
FinishRun(r) ==
  /\ Step(r, "next", "done") /\ file[r] = Len(PagesOf[r])
  /\ Put(r, "last_run", "finished") /\ Emit
  /\ UNCHANGED <<file, page, allOk, unrecoverable, today, carried, blank, faults, outside>>

(* Listing or claiming raises: run_once ends here.                         *)
Abandon(r) ==
  /\ Step(r, "next", "done") /\ Fault
  /\ UNCHANGED <<perEnv, queue, file, page, allOk, unrecoverable, today, carried, blank>>

RunOnce(r) ==
  \/ StartFile(r) \/ Render(r) \/ Accepted(r) \/ NotAccepted(r)
  \/ AddPage(r) \/ AddPageError(r) \/ PageDone(r)
  \/ Complete(r) \/ AddFile(r) \/ Quarantine(r) \/ RetryLater(r)
  \/ Raise(r) \/ AddFileError(r) \/ FileDone(r) \/ FinishRun(r) \/ Abandon(r)

-----------------------------------------------------------------------------
(* What run r has to report, though it has happened.                       *)
Owed(r, x) ==
  \/ x = "files_processed" /\ pc[r] = "filed"
  \/ x = "pages_uploaded" /\ pc[r] = "uploaded"
  \/ x = "errors" /\ pc[r] \in {"refused", "raised"}

Pending(e, x) == Cardinality({r \in Runs : EnvOf[r] = e /\ Owed(r, x)})

OnHand(e) == Cardinality({r \in Runs : EnvOf[r] = e /\ pc[r] \in InFile})

(* Variant with a mistake: the errors of the day before stay.              *)
ResetDaily_KeepsErrors ==
  perEnv' = [e \in Envs |-> [perEnv[e] EXCEPT !.files_processed = 0, !.pages_uploaded = 0]]

(* reset_daily                                                             *)
ResetDaily ==
  perEnv' = [e \in Envs |->
    [perEnv[e] EXCEPT !.files_processed = 0, !.pages_uploaded = 0, !.errors = 0]]

Outside == outside < MaxOutside /\ outside' = outside + 1 /\ UNCHANGED faults

(* _daily_reset, counters_reset: what is reported later belongs to the new *)
(* day.                                                                    *)
Midnight ==
  /\ ResetDaily /\ Emit /\ Outside
  /\ today' = [e \in Envs |-> [x \in Tallied |-> Pending(e, x)]]
  /\ carried' = [e \in Envs |-> OnHand(e)] /\ blank' = [e \in Envs |-> 0]
  /\ UNCHANGED thread

(* record_clock_sync by the drift monitor, and _on_clock's event.          *)
RecordClockSync == Emit /\ Outside /\ UNCHANGED <<perEnv, thread, today, carried, blank>>

Change ==
  \/ \E r \in Runs : StartRun(r) \/ RunOnce(r)
  \/ Midnight \/ RecordClockSync

-----------------------------------------------------------------------------
(* The counters are the tally of the day: every page accepted, every file  *)
(* completed and every failure since midnight is counted once, whichever   *)
(* way the file went, whatever runs beside it and whenever midnight came   *)
(* (FR-005), but for what a run is about to report.                        *)
CountersTally == \A e \in Envs, x \in Tallied :
  perEnv[e][x] + Pending(e, x) = today[e][x]

=============================================================================

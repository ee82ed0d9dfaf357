# pms-scanner: verification

`pms-scanner` runs on every machine of a small fleet.  It polls shared watch
folders for scanned PDF and TIFF documents, claims one at a time by renaming it,
uploads its pages to the backend of the folder's environment, and moves the
document to `processed/` or `failed/`.  Several machines work on the same folder
tree over a network share; nothing but `rename(2)` coordinates them.

This directory holds TLA+ models of that program, TLC configurations that check
them on small instances, and proofs checked by TLAPS.  The models are written from
the code under `src/scanner/`, not from the documents under `specs/`; where the two
disagree, a run shows it (see *Disagreements*).

## 1. Inventory

| Component | State | Operations | Interacts with |
|---|---|---|---|
| **BatchRunner** `batch.py` | the folder tree; locals of `run_once` and `_process_file` | list settled files, claim, render, upload pages, dispose, put back, recover stranded files | peers through the share; the uploader; the dashboard's counters |
| **Uploader and limiter** `uploader.py` | `_rate_history`, a deque of grant times under a lock; per call: attempt, resolution | `_rate_limit_acquire`, `upload_page` with retries, the runner's ladder of resolutions | all polling threads of a process share the limiter; the backend |
| **Scheduler** `scheduler.py` | APScheduler's jobs, their next fire times and instances | register, start, dispatch a poll, reset the day's counters, shut down | runs BatchRunner on a pool; AppState |
| **NTP gate, drift monitor** `ntp.py` | deadline; `_stop`, `_thread`; the last outcomes | verify, check, correct, start, stop | the NTP source, a privileged helper, BatchRunState |
| **Entry point** `__main__.py` | the handles of the above | gate, recovery, start, serve, shut down | all of them; the supervisor |
| **AppState, BatchRunState** `state.py` | per-environment counters under an RLock, the event queue | begin, progress, error, reset, emit | written by polls, read by the dashboard |
| **Dashboard** `dashboard.py` | the page; no state of its own but the shared queue | `/status`, `/events`, `POST /run` | starts a poll in a thread of its own |
| **Configuration** `config.py` | the settings, fixed at start | parse, check that environments are distinct | read by all |
| **Rendering** `pdf_processor.py` | none | pages of a document, or an exception | BatchRunner |
| **Notification, machine name** `notify.py`, `machine.py` | none | an e-mail on quarantine; a validated name | BatchRunner; configuration |

### What is hard, and what makes each component correct

* **BatchRunner.**  Machines list the same files and race for them; a listing is
  old when it is used; a machine crashes between any two renames and finds its
  files after the restart; any rename may fail, and so may the one that repairs it;
  a file name may come back; a manual `/run` may overlap the scheduled poll.
  Correct means: a document is in one place; none is lost; `processed/` only holds
  documents whose every page is stored and `failed/` only documents the backend
  refused; peers keep out of each other's subfolders; nothing waits for ever.
* **Uploader.**  Threads compete for slots, oversleep, and use a slot long after it
  was granted; an answer may be lost after the page was stored, and the backend may
  store a page after the client has given up on it.  Correct means: no window sees more
  grants than the quota; ACCEPTED means stored; REJECTED means that the backend refused
  the page at every size (that it always will is not so: run `late_request`); a page is
  degraded for a refusal only; a call waits only for threads that send.
* **Scheduler.**  Runs outlast their minute, the host sleeps, fire times are missed.
  Correct means: polls keep coming, one environment never waits for another, and
  the day's counters are reset every day.
* **NTP.**  Requests time out, answers are absurd, the helper fails or hangs.
  Correct means: no poll before a measured clock, a verdict in bounded time, drift
  is corrected or shown (unless the helper hangs or may not be executed), and the
  thread survives.
* **Entry point.**  Start and stop in the right order; a signal drains the polls.
* **State and dashboard.**  Readers without the lock, one queue for all clients.
  Correct means: every page, file and failure is counted once and on its day, an answer
  never shows what cannot have been, and what is shown becomes true once the runs are over.
* **Configuration.**  Two environments must never share a folder (routing), nor a second.
* **Rendering.**  Two tiers find a page's turn, and libraries turn by different signs.
  Correct means: upright or flagged, where the code achieves it (it does not for PDF
  pages with a /Rotate and for pages of which tesseract names no turn), and each rung
  smaller than the one before.

## 2. Modules

    ScanCustody          what a fleet promises: the custody of each document
      ^ implemented by
    BatchRunner          batch.py, a fleet over one environment's folder tree
    RateLimiter          _rate_limit_acquire: the promise and the code, per thread
    PageVerdict          what a caller may expect: one final verdict on its page
      ^ both implemented by
    Uploader             upload_page and the ladder, threads against a backend
    Rendering            which way up a page leaves process_pdf, and how large
      ^ both composed by
    PageUpload           _process_file: rendered pages are what the threads send
    Scheduler            APScheduler's jobs as scheduler.py registers them
    ClockSync            NTPGate and DriftMonitor
      ^ both composed by
    Service              main(): start, serve, shut down, crash, restart
    Settings             load_settings: which settings a process accepts, their jobs
      ^ both composed by
    Startup              main(): the jobs of accepted settings are the ones registered
    RunState             state.py under the polls that write it, and midnight
      ^ extended by
    Dashboard            /status, /events and a page in a browser

`MCBatchRunner`, `MCUploader`, `MCService` and `MCDashboard` give constants their
values for TLC; `MCUploader` does so for `PageUpload` and `MCService` for `Startup`.
`*_proofs` hold the theorems.  Operators named
`X_Something` next to `X` are variants with a plausible mistake; no specification uses
them.  They serve to show that each property can fail: with `X` replaced by the variant,
TLC finds it violated.

### BatchRunner

A folder is a function from names to documents, so that renaming onto an existing
name replaces it, as `os.rename` does.  One rename, one `is_file`, one `stat`, one
listing, one `upload_page` is one step.

| Code | Actions |
|---|---|
| `_find_settled` | `StartRun`, `IsFile`, `NoFile`, `Stat`, `StatVanished`, `Listed` |
| `claim_file` | `Claim`, `LostClaim`, `ClaimError`; `FinishRun` at the end of the list |
| `_process_file` | `Render`, `RenderError`; for a page `Accepted`, `NotAccepted`, `UploadError` |
| `_dispose` | `Complete`, `Quarantine`, `RetryLater`, `DisposeError` |
| `except Exception` | `PutBack`, `PutBackError` |
| `recover_stranded` | `Restart`, `CheckConflict`, `Restore`, `RestoreRenamed`, `RestoreError`, `Ready` |
| environment | `Drop`, `Settle`, `Crash` |

`Runners` are threads; `Scheduled` ones have a machine's scheduled poll, others stand
for manual `/run` calls.  The order of a listing is left open.  `_ensure_dirs` creates
the folders `Init` starts with; `watch.exists()` is always true after it.

`ScanCustody` knows documents and no files: a document is dropped, taken by a machine,
delivered page by page, and closed as processed or failed, or given back.
`CustodySpec` says that BatchRunner implements it.

**Reused names.**  The scanner may use a name again once the file has left the watch
folder.  Then every rename of `batch.py` may replace another document, which is lost:
`RetryLater`, `PutBack` and `Restore` one that was dropped meanwhile (`dest.exists()` in
`recover_stranded` is checked before, not during, the rename; the other two do not look),
`Complete` and `Quarantine` (batch.py:292, 300) the archived document of the same name in
`processed/` or `failed/`, and with overlapping runs `Claim` the one that is being uploaded.
`RestoreRenamed` replaces nothing, but gives a document a suffix that no poll picks up.
What is replaced in `processed/` is at the backend; the run `unsent_lost` shows that
documents of which nothing was sent are lost too (`UndeliveredKept`).  Most
properties are therefore stated for distinct names (`UniqueNames`);
`OnePlace`, and with one runner per machine `ProcessedStored` and
`QuarantineJustified`, hold for reused names too (run `name_reuse`).

### RateLimiter and Uploader

Times are ages in ticks.  `history` is the deque, `granted` the true record of the
last window; the former is popped only when a thread looks.  `Uploader` extends the
limiter's threads by the request, the backend's answer or its loss, the pauses and
the ladder of resolutions (`Fits`: the rung at which a page is small enough).  A thread
uploads page after page (`NextPage`), without end.  A request may set out long after its
slot was granted.  `BackendMax` is the quota of the backend: any number; in the runs it is
the client's own, as uploader.py:47-48 says, so that a late request is answered 429, which
the code takes for a refusal like any other (`throttled` notes it).  An exception may end
a call with the page stored or not, and before anything is sent (`Raised`, `EncodeError`).

The client's timeout, or a lost answer, leaves a request with the backend (`stray`),
which may store the page at any time afterwards, or never: before the next attempt,
after it, or after the verdict (`StoreLate`).  There a lost answer to a page that was
stored at once is a `StoreLate` that follows immediately.

`PageVerdict` knows neither sizes nor attempts: until the call returns one of four verdicts
the page is sent, and stored, left with the backend, answered 429, or nothing comes of it;
accepted means that it has just been stored, rejected that the backend takes the page at no
resolution or answered 429; failures and exceptions say nothing.  A verdict is final:
nothing is sent after it, and only what was left with the backend may still be stored.  This
is the step that `BatchRunner` takes an upload for, and `VerdictSpec` says that `Uploader`
implements it, whatever the backend's quota.

### Scheduler, ClockSync, Service

APScheduler is external and is modelled from the options the code gives it: the
scheduler's thread waits on the monotonic clock for the next wall-clock fire time;
it submits each due job once however many fire times it missed (`coalesce`), skips
it if an instance is still in the executor (`max_instances`), and a worker drops a
run whose fire time is older than `misfire_grace_time`.  A host that sleeps moves the
wall clock only.  `ClockSync` has the gate's attempts and pauses, and the monitor's
loop with a helper that corrects, fails, raises, hangs or may not be executed (`denied`: a
state of the host, so that every cycle raises); the clock's offset is within
the limit, beyond it, or implausible (more than a day, answered with `rejected_kod`).
`Service` puts the two behind `main()`.  A tick is half a minute for the jobs and one
of a few units of the NTP settings; the two scales are not meant to be comparable,
and no property compares them.

`Shutdown` is the moment `_shutdown` runs.  uvicorn has its own handlers while it
serves; how long it holds a signal back (open `/events` streams) is its business and
not modelled.  Manual runs in worker threads are not waited for by `_shutdown`; for
the folders an exit in their middle is a `Crash` of BatchRunner.

### RunState and Dashboard

Each run is a thread with a program counter through `run_once` and `_process_file`, as
far as they concern what is reported.  A mutator of `BatchRunState` holds the lock, so
it is one step; the thing it reports (a page the backend took, a file that was moved, an
exception) is a step before it.  An event is put into the queue in the step of the change
it tells of, which is the earliest it can be.

| Code | Actions |
|---|---|
| `mark_run_started`, `mark_run_finished`, `set_current` | `StartRun`, `FinishRun`; `StartFile`, `Render`, `PageDone`, `FileDone` |
| an upload and its count | `Accepted` then `AddPage`; `NotAccepted` then `AddPageError` |
| `_dispose` | `Complete` then `AddFile`; `Quarantine` (with `notify_quarantine`); `RetryLater` |
| exceptions | `Raise` then `AddFileError`; `Abandon` for those that end the poll |
| `_daily_reset`, `record_clock_sync` | `Midnight`, `RecordClockSync` |
| `/status` | `BeginStatus`, `ReadStatus` per attribute, `AnswerStatus` |
| the page | `Poll` (every ten seconds), `Event`, `Show`, `FetchLost` |
| other clients of `/events` | `EventGone` |

`/status` is an `async def` without an `await`: the loop computes one answer at a time,
but the runs' threads go on meanwhile.  `today` is the true tally since midnight,
`carried` the files that were on hand then, `blank` the files without a page that were
counted as processed; none of them is in the code.  A document may render to no page: the
loop over its pages is then empty, `all_ok` stays true, and the file is complete.  A snapshot, an answer
or a view is *fresh* as long as the run state has not changed since its computation began:
that is all that `EventuallyHonest` needs to know of its contents.

### Settings and Rendering

Both are without state.  `Settings` translates `load_settings` from what
pydantic has parsed, with names, paths and hosts as members of small sets and `Resolve`
for the folder a path leads to; `RoutesOnce` says what the jobs made of it must be.
`Rendering` keeps two facts of an image, by how much its content leans and its width, and
of tesseract how it answers: with a turn, with none that can be read (`mute`, which the code
takes for an upright page, pdf_processor.py:168 and 209-224), or with an error.  PyMuPDF's, PIL's and tesseract's turns are external and modelled from the signs and
directions with which the code uses them.

## 3. Runs

| Run | Instance | Shows |
|---|---|---|
| `fleet` | 2 machines, 2 documents of one and two pages, own names, 2 faults, 1 crash | types, custody, no loss, delivery, quarantine, no page twice while nothing fails, settling, isolation, recovery; implements ScanCustody |
| `fleet_live` | the same with an unreadable document, fairness | every readable document is accounted for |
| `name_reuse` | 2 machines, one name for two documents | `processed/` and `failed/` mean what they say |
| `uploader` | 2 threads that upload pages without end, 1 slot per window of 2 and no more of the backend, 2 attempts, 2 rungs, fairness | quota, verdicts, copies, who may starve whom; implements PageVerdict; pages leave upright or flagged with two exceptions, rungs shrink |
| `service` | 2 environments, a day of 3 minutes, a sleep, a crash or signal, 2 faults; lists of up to 3 names over 3 paths to 2 folders | pool, midnights, polls, gate, order of start and stop, distinct jobs |
| `service_live` | 1 environment, fairness | shutdown ends, restart succeeds, drift surfaces unless the helper hangs or is denied |
| `dashboard` | a poll of three files of one, no and one page, a midnight or a measurement, a fault, two requests at a time, fairness | the counters are the day's tally; no answer shows more files than pages, files without a page apart; the page becomes honest |
| `stat_race`, `overlap`, `recovered`, `unsent_lost`, `late_request` | violations | see *Disagreements* |

**Bounds.**  Two machines give every race for a file, as a race has two parties and a
third machine meets the same file in the same states; two documents let one be in the
way of the other; pages one and two give first, middle and last positions of a failed
page.  `MaxFaults = 2` is needed for an error and the failure of its repair;
`MaxCrashes = 1` for a crash at every step, recovery included.  One slot and two
threads make the threads compete, sleep and overtake each other, and with a window of two
ticks a granted slot can be used in the next window.  `MaxRetries = 2` has a first attempt
that is repeated and a last that is not, and lets a failure come before and after a refusal;
the backend's quota is the client's, so that a late request meets a 429.  Of the two pages
one fits the first lower resolution and one none.  Documents of one and two pages of every
kind, that is every quarter turn, every /Rotate or EXIF turn and every answer of tesseract,
let one page fail beside another; widths up to 40 pixels reach every rounding of both rungs.
In `service` a minute of two ticks
puts the environments on different seconds, a day of three minutes has fire times
that are no midnight, and sleeps of up to three ticks miss one and two of them;
`ResetGrace` is longer than the longest sleep, as one hour is for a short nap.  A gate
with `Timeout = 2` and `Poll = 1` is refused in its first, second or third attempt.
Lists of three names repeat one and name an unknown one; two of three paths meet in one
folder.  In `dashboard` a file without a page
lies between two others, and a file's counters meet those of the one before;
two requests are enough for answers to overtake each other; a midnight may fall into
every step of a poll and of an answer.
`MaxFaults`, `MaxCrashes`, `MaxSleeps`, `LongestSleep`, `MaxOutside` and `MaxFetches` bound
the environment only; the theorems hold for every value of them.

**Deadlock** is checked in every run: the scheduler polls for ever, and so does the page.

**Fairness.**  A started run goes on (`RunOnce`, `Run`): `requests` has a timeout, the
limiter's sleeps end, and the share answers or fails.  The cron trigger fires every minute
(`StartRun`; `service` checks the scheduler's side of it as `PollsKeepComing`).
`Settle` is the passing of time.  systemd's `Restart=always` and launchd's `KeepAlive`
restart the process (`Restart`, `Boot`).  Threads and the clock go on (`Tick`, `Jobs`,
`Job`, `AtGate`, `Monitor`, `Main`).  The event loop serves what it is asked for
(`BeginStatus`, `ReadStatus`, `AnswerStatus`), the browser's timer fires and its answers
arrive (`Poll`, `Show`).  Nobody need take events from the queue (`Event`, `EventGone`),
as nothing says that a client is connected.  No fairness makes
anyone drop a document, press `/run`, crash, correct a clock from outside, end the helper
or make it executable, start a run of `dashboard`, have another page to upload (`NextPage`),
serve a request that was given up (`StoreLate`), or give the limiter's sleepers their turn:
`StarvedBySendersOnly` says that a thread waits for ever only if another one sends for ever.

## 4. Proofs

Everything below holds for all values of the constants that satisfy the ASSUMEs.

* **BatchRunner_proofs.**  `Control` (the type invariant with what each program
  counter implies of the locals, threads only in live processes, recovery's list is
  what the subfolder holds) gives `TypeCorrect`, `PeersKeepOut`, `RecoveryComplete`.
  OnePlace is not inductive: a rename could duplicate a document that is under a
  name not its own.  `Place` adds that documents are only ever under their own names
  and only once; it needs no distinct names, and gives `SingleCustody`.  For
  distinct names `Careful` adds that a working runner still owns its file, that claimed
  files have settled, and that recovery meets no conflict; with it come `ZeroLosses`,
  `SettledWhenClaimed` and `FleetImplementsCustody` (the initial
  states map to initial states, every step to a step or a stutter).

  What a runner believes of its file needs less.  `Honest` says that `allOk` and
  `unrecoverable` summarise what the backend answered for the pages before `page`, and
  `Holding` that the document it rendered is still the one under the claimed name.
  Both hold for distinct names, with any number of runners per machine, and for reused
  names with one runner per machine (`OneRunnerEach`): then nobody else renames into
  `in-progress/<machine>/`, or out of it before the runner is gone.  They give
  `DeliveredWhenProcessed` and `RefusedWhenFailed` under either assumption; the run
  `overlap` shows that one of the two is needed.  So with distinct names a manual `/run`
  overlapping a poll is harmless.

  `ZeroDuplicates` needs, for a time in which nothing has failed (`Quiet`), what the
  backend has of each document that is not at rest (`Fresh`): nothing while it waits;
  nothing in `in-progress/`, unless the runner that renders it is uploading it; and
  then only pages before its `page`.  That it is one runner is `Sole`.
* **RateLimiter_proofs, Uploader_proofs.**  `Remembers`: the deque ends with all the
  grants of the last window; with its order this makes its length a bound on them
  (`QuotaHolds`).  `UsesTheLimiter`: the uploader's threads implement the limiter's
  specification, hence `QuotaKept`.  `CopiesAccounted`: ACCEPTED means stored, and
  each further copy has its lost answer.  `RequestsNearQuota` needs `Balance`: for every
  age, what the backend got since then and the slots that threads still hold are at most
  the grants since then and the number of threads.  At a request a held slot becomes a
  request, at a grant a grant a held slot; only for all ages at once is this preserved
  when time passes.  `Verdict` (what a rung, an answer and an outcome say about the page)
  gives, for every quota of the backend, `RejectedForCause`, `DegradedOnlyForCause` and
  `UploaderImplementsVerdict`: each step is one that PageVerdict allows, and nothing is sent
  after a verdict.  That the cause is never a 429 is not proved and not true
  (`late_request`).  `TypeCorrect` is about the pause, the smaller of
  2^attempt and a setting.  That the recursive function `PowerOfTwo` exists and is a
  natural number everywhere is an induction, which goes by the least counterexample: the
  partial functions that satisfy its equation up to n exist for every n, agree, and
  together make the function.
* **Service_proofs.**  `Order` says what may be running at each step of `main()`,
  `Attempts` how long the gate can have waited when an attempt or a pause has lasted
  so long; the bound alone is not inductive, as an attempt's start matters.  They
  give `VerdictInTime`, `DrainedBeforeExit` and `MeasuredFirst`.  `PollsConcurrent`
  counts: at most one instance of each job, and a pool larger than the other jobs.
  `NoMidnightLeftOut` needs to know when the scheduler's thread wakes (`Midnights`): at
  the latest s ticks after the next midnight, s being at most what the host has slept; so
  an overdue reset is submitted, and a submitted one is begun, within the grace.  Its
  assumption is that the host sleeps less than the grace.  `TypeCorrect` needs `Fired`:
  an overdue fire time lies as far back as `overdue` says, hence less than a day, for by
  then the job fires again.  `NoEnvironmentStarves` needs `Rhythm`: an environment
  that waits has had its last poll so recently that the thread wakes within a minute of
  it (`Near`), or its next fire time is ahead, within reach of the two minutes, and the
  thread is up by then (`InSight`), or the thread is about to hand it over or has done so
  in time (`AtHand`).  It needs no assumption about sleeps or grace: a poll that is
  dropped leaves the next fire time in sight.
* **Settings_proofs.**  `AcceptedRoutesOnce`: a list of environments that `load_settings`
  accepts gives jobs of which no two share a name, a folder or a second, and each finds
  its own environment when it fires.  No induction: two entries of one name have one
  folder, which `CheckDistinct` refuses.  `JobsAreDistinct` states it of a process
  (`Startup`), for every set of settings it may be given.  `AcceptedSchedulable`: there are
  finitely many jobs, and their seconds are seconds, which is what `Service` assumes of
  its environments and offsets.
* **Dashboard_proofs.**  `TallyHolds` counts, for any number of overlapping runs, those
  that have something to report; each step of a run, and midnight, keeps the count.
  `AnswersCover` is not inductive over the counters: it needs where a run is in its file
  and that its flags agree (`Position`), that the files counted and the complete files
  about to be are together covered by the pages counted, what midnight carried over and
  the files without a page (`Covered`), and that what an answer has read so far is covered by
  what it will read (`Compared`), which hangs on its reading the files first.
* **Rendering_proofs.**  `TurnedUpOrExcepted` for documents of any length and any angles
  says when a page leaves `process_pdf` upright or flagged: always, but for PDF pages with a
  /Rotate and pages of which tesseract names no turn.  `RungsGetSmaller` holds for every
  width.  With the uploader's invariants they become `TurnedWhenSent` and
  `SmallerEachTime`, of every page a thread sends (`PageUpload`).

Every invariant, action property and refinement of a passing run is stated by a theorem.
**Only model-checked** are the liveness properties `EveryDropAccountedFor`,
`StarvedBySendersOnly`, `StopEnds`, `ComesUpAgain`, `DriftSurfaces` and `EventuallyHonest`: they
hold under fairness, which needs ENABLED, out of this prover's reach.  The theorems for
reused names say nothing of losses, which there are (section 2).

## 5. Disagreements between the code and its documents

Shown by a run:

* `stat_race`: a peer claims a file between `is_file()` and `stat()`; the exception ends
  the loser's whole poll (FR-017: "move on without error").
* `overlap`: `POST /run` beside the scheduled poll of the same environment (FR-006b forbids
  it); with a reused name a document reaches `processed/` undelivered.
* `recovered`: a file restored under `.recovered-<stamp>` is never picked up again (SC-011).
* `unsent_lost`: a document that is put back after a failure replaces one that was dropped
  under its name meanwhile, of which nothing was sent (SC-009: "zero losses").
* `late_request`: status 429 counts as a rejection (uploader.py:138), though it is about the
  moment and not the page (uploader.py:36-38); as a slot may be used late, a backend with the
  quota of uploader.py:47-48 can answer it to a client that keeps to its own, and a good
  document is quarantined.

Read while modelling, without a run of their own:

* `set_current(current_file=None)` changes nothing (state.py:156, batch.py:235), so after its
  first file an environment never looks idle to `/status` again (dashboard-api.md:54,
  datapath.md:88: null when idle);
* PyMuPDF has applied a page's /Rotate when `_process_pdf` applies it once more
  (pdf_processor.py:74-75): a page its scanner marked correctly leaves sideways or upside down,
  and unflagged (003 research.md:36);
* an answer of tesseract without a turn, or with one that is no number, counts as an upright
  page and a certain one (pdf_processor.py:168, 209-224); and the flag `process_pdf` returns
  for uncertain pages goes nowhere (batch.py:193; 003 spec.md:127);
* a document that renders to no page is counted and archived as processed (batch.py:188-193,
  291-293); a poll that a listing error ends is not counted as a failure;
* the limiter is not fair (uploader.py:67): one environment's thread may wait as long as
  others send; the event queue is unbounded, and without a client nothing empties it;
* the gate may take twice its 30 s and a pause (SC-013); `GateBounded` is that bound;
* a host asleep over midnight for more than an hour keeps the counters of the day before
  (the comment at `_register_daily_reset` expects a restart);
* `_check_distinct` compares enabled environments only, while `POST /run?environment=` accepts
  disabled ones (FR-009 says "any two configured environments"); a folder inside another
  one's passes; `ENVIRONMENTS=","` gives a process with no environment;
* `/status` reads without the lock although data-model.md says reads are made under it: an
  answer may show a current page above the total of another file;
* a correction that fails only warns (the edge case in spec.md halts the schedule); the
  helper runs without a timeout; one that may not be executed (`PermissionError`, ntp.py:304-306
  and 373-376) is logged at every cycle and shown nowhere (FR-023:
  "MUST NOT silently continue scheduling on a drifting clock");
* the log of `_on_max_instances` promises a queued follow-up where APScheduler skips.

## 6. Plan

Done, in this order: `ScanCustody` and `BatchRunner`; `RateLimiter` and `Uploader`;
`Scheduler`, `ClockSync` and `Service`; `RunState` and `Dashboard`; `Settings`; `Rendering`;
the theorems on requests, verdicts, midnights, counters and answers; `PageVerdict` and its
refinement; `PageUpload` and `Startup`; the theorems on duplicates, reused names, polls and
types; a backend with the client's own quota, late stores and pages without end.  Next:

1. Name reuse in more depth: which of the replacements remain with one machine.
2. An abstract specification of what a page shows, implemented by `Dashboard`, and one of
   `main()`'s phases, implemented by `Service`.
3. `PageVerdict` in place of `BatchRunner`'s own upload outcomes.

## 7. Not modelled

Pixels, compression and TIFF encoding; tesseract's confidence, which the code reads and does
not use, and the characters of its text; a helper that exits with 0 and has not set the clock; the contents of the e-mail of `notify.py`; the HTML,
the NTP line and the heartbeats of `/events`, which refresh nothing; parsing by pydantic, the
requisition and the settings all environments share, which nothing compares; that machine
names are unique in the fleet (the set `Machines`); logging and its redaction; uvicorn's own
handling of signals and open streams; exceptions after the disposing rename (they lead to a
put-back that fails, as the file is gone: `DisposeError` without a fault); a stamp used twice
within a second by recovery; the NTP gate switched off (`startup_required=false`, for
development); the interval and immediate triggers of `register`, used by tests.  Renderings of
one file by two runs at once, uploads and the folder tree are each modelled where they matter
and meet nowhere in one state space: `BatchRunner` takes an upload for one step with an
outcome, `RunState` a file for the pages it has, and `Uploader` shows what an outcome means.

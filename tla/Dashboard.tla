------------------------------- MODULE Dashboard -------------------------------
(***************************************************************************)
(* scanner/dashboard.py: GET /status, GET /events and the page in a        *)
(* browser that shows the run state.  /status is computed on the event     *)
(* loop, one request at a time, and reads the run state attribute by       *)
(* attribute while the runs' threads go on.  All clients of /events take   *)
(* from one queue.  The page asks for /status when it is loaded, for every *)
(* event it gets and every ten seconds, and shows the answers as they come *)
(* in, an older one after a newer one included.                            *)
(*                                                                         *)
(* One page is modelled; the other clients are those who take its events.  *)
(* A snapshot the page has, or is about to have, is fresh as long as the   *)
(* run state has not changed since its computation began.                  *)
(***************************************************************************)
EXTENDS RunState

CONSTANT MaxFetches   \* bound: requests of the page under way

ASSUME FetchesAssumption == MaxFetches \in Nat \ {0}

VARIABLES
  asked,      \* requests for /status the server has not begun
  serving,    \* the one it computes: none, fresh or stale
  seen,       \* how many attributes of an environment it has read
  snapshot,   \* what it read
  torn,       \* midnight fell into it
  answers,    \* answers on their way to the page
  view        \* what the page shows

server == <<serving, seen, snapshot, torn>>
client == <<asked, answers, view>>
vars   == <<run, server, client>>

(* The order in which _multi_env_status and _per_env_run read.             *)
(* (Variant with a mistake: the pages are read before the files.)          *)
ReadOrder_PagesFirst == <<"current_file", "pages_uploaded", "files_processed">>

ReadOrder == <<"current_file", "files_processed", "pages_uploaded">>

Unread == [current_file |-> FALSE, files_processed |-> 0, pages_uploaded |-> 0]

Fetches == asked + answers.fresh + answers.stale + (IF serving = "none" THEN 0 ELSE 1)

TypeOK ==
  /\ RunTypeOK
  /\ asked \in 0 .. MaxFetches
  /\ serving \in {"none", "fresh", "stale"}
  /\ seen \in [Envs -> 0 .. Len(ReadOrder)]
  /\ snapshot \in [Envs -> [current_file : BOOLEAN, files_processed : Nat,
                            pages_uploaded : Nat]]
  /\ torn \in BOOLEAN
  /\ answers \in [fresh : 0 .. MaxFetches, stale : 0 .. MaxFetches]
  /\ Fetches <= MaxFetches
  /\ view \in {"fresh", "stale"}

(* The page has been loaded: its first refresh() is on its way.            *)
Init ==
  /\ RunInit
  /\ asked = 1 /\ serving = "none"
  /\ seen = [e \in Envs |-> 0] /\ snapshot = [e \in Envs |-> Unread] /\ torn = FALSE
  /\ answers = [fresh |-> 0, stale |-> 0] /\ view = "stale"

-----------------------------------------------------------------------------
(* The run state changes: whatever was read before is out of date.         *)
Ages ==
  /\ serving' = IF serving = "fresh" THEN "stale" ELSE serving
  /\ answers' = [fresh |-> 0, stale |-> answers.fresh + answers.stale]
  /\ view' = "stale"
  /\ UNCHANGED <<asked, seen, snapshot>>

Run(r)    == RunOnce(r) /\ Ages /\ UNCHANGED torn
Start(r)  == StartRun(r) /\ Ages /\ UNCHANGED torn
Midnights == Midnight /\ Ages /\ torn' = (serving # "none")
Clock     == RecordClockSync /\ Ages /\ UNCHANGED torn

-----------------------------------------------------------------------------
(* status(): the loop turns to a request ...                               *)
BeginStatus ==
  /\ serving = "none" /\ asked > 0
  /\ serving' = "fresh" /\ asked' = asked - 1
  /\ UNCHANGED <<run, seen, snapshot, torn, answers, view>>

(* ... reads one attribute after the other, one environment after the      *)
(* other, without the lock ...                                             *)
ReadStatus(e) ==
  /\ serving # "none" /\ seen[e] < Len(ReadOrder)
  /\ \A d \in Envs \ {e} : seen[d] \in {0, Len(ReadOrder)}
  /\ seen' = [seen EXCEPT ![e] = @ + 1]
  /\ LET x == ReadOrder[seen[e] + 1] IN
     snapshot' = [snapshot EXCEPT ![e][x] = perEnv[e][x]]
  /\ UNCHANGED <<run, serving, torn, client>>

Computed == serving # "none" /\ \A e \in Envs : seen[e] = Len(ReadOrder)

(* ... and answers.                                                        *)
AnswerStatus ==
  /\ Computed /\ serving' = "none"
  /\ answers' = [answers EXCEPT ![serving] = @ + 1]
  /\ seen' = [e \in Envs |-> 0] /\ snapshot' = [e \in Envs |-> Unread] /\ torn' = FALSE
  /\ UNCHANGED <<run, asked, view>>

-----------------------------------------------------------------------------
Ask == Fetches < MaxFetches /\ asked' = asked + 1 /\ UNCHANGED <<answers, view>>

(* Variant with a mistake: the page trusts in the events.                  *)
Poll_Never == UNCHANGED vars

(* setInterval(refresh, 10000)                                             *)
Poll == Ask /\ UNCHANGED <<run, server>>

(* refresh() gets an answer and shows it, whatever it shows already.       *)
Show(age) ==
  /\ answers[age] > 0 /\ answers' = [answers EXCEPT ![age] = @ - 1]
  /\ view' = age
  /\ UNCHANGED <<run, server, asked>>

(* A request or an answer is lost: nothing catches the rejected promise.   *)
FetchLost ==
  /\ Fault
  /\ \/ asked > 0 /\ asked' = asked - 1 /\ UNCHANGED answers
     \/ \E age \in {"fresh", "stale"} : /\ answers[age] > 0 /\ UNCHANGED asked
                                        /\ answers' = [answers EXCEPT ![age] = @ - 1]
  /\ UNCHANGED <<perEnv, queue, thread, today, carried, blank, server, view>>

(* Variant with a mistake: an empty queue is taken from.                   *)
Taken_EmptyToo ==
  /\ queue' = queue - 1
  /\ UNCHANGED <<perEnv, thread, today, carried, blank, faults, outside, server>>

(* The queue loses its first event.                                        *)
Taken ==
  /\ queue > 0 /\ queue' = queue - 1
  /\ UNCHANGED <<perEnv, thread, today, carried, blank, faults, outside, server>>

(* generate() hands the event to the page, and the page refreshes.         *)
Event == Taken /\ Ask

(* Another client gets it, or a client that is just leaving.               *)
EventGone == Taken /\ UNCHANGED client

Next ==
  \/ \E r \in Runs : Start(r) \/ Run(r)
  \/ Midnights \/ Clock
  \/ BeginStatus \/ (\E e \in Envs : ReadStatus(e)) \/ AnswerStatus
  \/ Poll \/ (\E age \in {"fresh", "stale"} : Show(age)) \/ FetchLost
  \/ Event \/ EventGone

Spec == Init /\ [][Next]_vars

(* Runs that have started go on, the loop serves what it is asked for, the *)
(* browser's timer fires and its answers arrive.  There need not be anyone *)
(* who takes events.                                                       *)
Fairness ==
  /\ \A r \in Runs : WF_vars(Run(r))
  /\ WF_vars(BeginStatus) /\ WF_vars(AnswerStatus)
  /\ \A e \in Envs : WF_vars(ReadStatus(e))
  /\ WF_vars(Poll) /\ \A age \in {"fresh", "stale"} : WF_vars(Show(age))

FairSpec == Spec /\ Fairness

-----------------------------------------------------------------------------
(* No answer shows more files than pages: a file's pages are counted       *)
(* before it.  The lock is not held, so this hangs on the order in which   *)
(* runs write and /status reads.  Three things are excepted: files that    *)
(* were on hand at midnight have left pages to the day before, files       *)
(* without a page are completed all the same, and a midnight may fall into *)
(* a computation.                                                          *)
PagesCoverFiles ==
  (Computed /\ ~torn) => \A e \in Envs :
    snapshot[e].files_processed <= snapshot[e].pages_uploaded + carried[e] + blank[e]

(* The page is honest in the end: when polls and midnights have done their *)
(* work, it shows the run state as it is, though its events stay in the    *)
(* queue or go to other clients, requests get lost and answers come out of *)
(* order.                                                                  *)
EventuallyHonest == <>[](view = "fresh")

=============================================================================

------------------------------- MODULE Uploader -------------------------------
(***************************************************************************)
(* scanner/uploader.py upload_page, called once for each size of the page  *)
(* by scanner/batch.py _upload_page_with_downsample: every attempt takes a *)
(* slot of the rate limiter and sends a request; a server error or a lost  *)
(* request or answer is retried after a pause, a refusal is not, but makes *)
(* the runner try the page again at the next lower resolution.             *)
(*                                                                         *)
(* Each caller is a thread that uploads one page after the other.  The     *)
(* backend is modelled from what uploader.py expects of it: it stores a    *)
(* page it finds small enough, it answers 429 beyond a quota of its own,   *)
(* and it may still be at work on a request that the thread has given up.  *)
(***************************************************************************)
EXTENDS Naturals, Sequences, FiniteSets

CONSTANTS
  Callers, Max, Window,
  MaxRetries,     \* upload_max_retries: attempts at one size
  RetryMaxWait,   \* upload_retry_max_wait_seconds, in ticks
  Rungs,          \* Len(DOWNSAMPLE_DPI_LADDER): sizes below the full one
  Fits,           \* the first size the backend takes of a caller's page
  BackendMax      \* requests the backend takes within Window

ASSUME UploaderAssumption ==
  /\ IsFiniteSet(Callers)
  /\ Max \in Nat \ {0} /\ Window \in Nat \ {0}
  /\ MaxRetries \in Nat \ {0} /\ RetryMaxWait \in Nat /\ Rungs \in Nat
  /\ Fits \in [Callers -> 0 .. Rungs + 1]
  /\ BackendMax \in Nat

VARIABLES
  at, asleep, history, granted,   \* the rate limiter
  pc,         \* where the thread is in upload_page
  rung,       \* the size on hand: 0 is full resolution
  attempt,    \* attempts of upload_page at this size that came to nothing
  pause,      \* what is left of the pause before the next attempt
  outcome,    \* what _upload_page_with_downsample returned
  throttled,  \* the sizes at which the thread was answered 429
  copies,     \* how many times the backend stored the page
  missed,     \* how many of those the thread never learned of
  stray,      \* requests the thread gave up and the backend may yet serve
  sent        \* ages of the requests the backend got less than Window ago

limiter == <<at, asleep, history, granted>>
call    == <<rung, attempt, pause, outcome, throttled>>
page    == <<copies, missed, stray>>
vars    == <<limiter, pc, call, page, sent>>

Limiter == INSTANCE RateLimiter

TypeOK ==
  /\ Limiter!TypeOK
  /\ pc \in [Callers -> {"encode", "acquire", "send", "done"}]
  /\ rung \in [Callers -> 0 .. Rungs]
  /\ attempt \in [Callers -> 0 .. MaxRetries - 1]
  /\ pause \in [Callers -> 0 .. RetryMaxWait]
  /\ outcome \in [Callers -> {"none", "accepted", "rejected", "failed", "raised"}]
  /\ throttled \in [Callers -> SUBSET (0 .. Rungs)]
  /\ copies \in [Callers -> Nat] /\ missed \in [Callers -> Nat]
  /\ stray \in [Callers -> Nat]
  /\ sent \in Seq(0 .. Window - 1)

Init ==
  /\ Limiter!Init
  /\ pc = [c \in Callers |-> "encode"]
  /\ rung = [c \in Callers |-> 0] /\ attempt = [c \in Callers |-> 0]
  /\ pause = [c \in Callers |-> 0]
  /\ outcome = [c \in Callers |-> "none"]
  /\ throttled = [c \in Callers |-> {}]
  /\ copies = [c \in Callers |-> 0] /\ missed = [c \in Callers |-> 0]
  /\ stray = [c \in Callers |-> 0]
  /\ sent = <<>>

Go(c, label) == pc' = [pc EXCEPT ![c] = label]
Return(c, result) ==
  /\ outcome' = [outcome EXCEPT ![c] = result] /\ Go(c, "done")
  /\ rung' = [rung EXCEPT ![c] = 0] /\ attempt' = [attempt EXCEPT ![c] = 0]

-----------------------------------------------------------------------------
(* The loop over the pages of a document: _upload_page_with_downsample     *)
(* begins at full resolution.  What the last page left at the backend is   *)
(* not followed any further.                                               *)
NextPage(c) ==
  /\ pc[c] = "done" /\ Go(c, "encode")
  /\ outcome' = [outcome EXCEPT ![c] = "none"]
  /\ throttled' = [throttled EXCEPT ![c] = {}]
  /\ copies' = [copies EXCEPT ![c] = 0] /\ missed' = [missed EXCEPT ![c] = 0]
  /\ stray' = [stray EXCEPT ![c] = 0]
  /\ UNCHANGED <<limiter, rung, attempt, pause, sent>>

(* Variant with a mistake: a retry does not take a slot of its own.        *)
Encode_RetrySlotless(c) ==
  /\ pc[c] = "encode" /\ pause[c] = 0
  /\ IF attempt[c] > 0 THEN Go(c, "send") /\ UNCHANGED limiter
                       ELSE Limiter!Enter(c) /\ Go(c, "acquire")
  /\ UNCHANGED <<call, page, sent>>

(* When the pause is over the image is encoded (and has been scaled, below *)
(* full resolution), and a slot is asked for ...                           *)
Encode(c) ==
  /\ pc[c] = "encode" /\ pause[c] = 0
  /\ Limiter!Enter(c) /\ Go(c, "acquire")
  /\ UNCHANGED <<call, page, sent>>

(* ... or Pillow fails, outside the try: the exception ends the call.      *)
EncodeError(c) ==
  /\ pc[c] = "encode" /\ pause[c] = 0 /\ Return(c, "raised")
  /\ UNCHANGED <<limiter, pause, throttled, page, sent>>

(* _rate_limit_acquire                                                     *)
Slot(c) ==
  /\ pc[c] = "acquire"
  /\ \/ Limiter!Acquire(c) /\ Go(c, IF at'[c] = "out" THEN "send" ELSE "acquire")
     \/ Limiter!Wake(c) /\ UNCHANGED pc
  /\ UNCHANGED <<call, page, sent>>

-----------------------------------------------------------------------------
(* requests.post and what upload_page makes of the answer.  Only the       *)
(* thread sees the answer, so that the request and its answer are one      *)
(* step; the time they take is spent before it or after it.                *)
Post(c) == pc[c] = "send" /\ sent' = Append(sent, 0)

(* The backend has room for the request, and takes the page at its size.   *)
Room     == Len(sent) < BackendMax
Takes(c) == Room /\ rung[c] >= Fits[c]

Stores(c) == copies' = [copies EXCEPT ![c] = @ + 1]
Misses(c) == missed' = [missed EXCEPT ![c] = @ + 1]

(* Variant with a mistake: the body of a 2xx answer is not looked at.       *)
Accepted_AnyBody(c) ==
  /\ Post(c) /\ Room
  /\ \/ Takes(c) /\ Stores(c)
     \/ ~Takes(c) /\ UNCHANGED copies
  /\ Return(c, "accepted")
  /\ UNCHANGED <<limiter, pause, throttled, missed, stray>>

(* 2xx with the page among the images.                                     *)
Accepted(c) ==
  /\ Post(c) /\ Takes(c) /\ Stores(c) /\ Return(c, "accepted")
  /\ UNCHANGED <<limiter, pause, throttled, missed, stray>>

(* 2xx, but not the body upload_page expects, whether the page was stored  *)
(* or not: it raises.                                                      *)
Raised(c) ==
  /\ Post(c) /\ Room /\ Return(c, "raised")
  /\ \/ Takes(c) /\ Stores(c) /\ Misses(c)
     \/ ~Takes(c) /\ UNCHANGED <<copies, missed>>
  /\ UNCHANGED <<limiter, pause, throttled, stray>>

(* Variant with a mistake: the ladder stops a rung early.                  *)
Refused_SkipsLastRung(c) ==
  /\ Post(c) /\ ~Takes(c)
  /\ throttled' = [throttled EXCEPT ![c] = IF Room THEN @ ELSE @ \cup {rung[c]}]
  /\ IF rung[c] + 1 < Rungs
     THEN /\ rung' = [rung EXCEPT ![c] = @ + 1] /\ attempt' = [attempt EXCEPT ![c] = 0]
          /\ Go(c, "encode") /\ UNCHANGED outcome
     ELSE Return(c, "rejected")
  /\ UNCHANGED <<limiter, pause, page>>

(* Variant with a mistake: the ladder is left at its end.                  *)
Refused_PastTheLadder(c) ==
  /\ Post(c) /\ ~Takes(c)
  /\ throttled' = [throttled EXCEPT ![c] = IF Room THEN @ ELSE @ \cup {rung[c]}]
  /\ rung' = [rung EXCEPT ![c] = @ + 1] /\ attempt' = [attempt EXCEPT ![c] = 0]
  /\ Go(c, "encode")
  /\ UNCHANGED <<limiter, outcome, pause, page>>

(* 4xx, of which 429 is treated like any other, or 2xx without the page    *)
(* among the images: REJECTED; the next lower resolution, or the verdict   *)
(* when there is none.                                                     *)
Refused(c) ==
  /\ Post(c) /\ ~Takes(c)
  /\ throttled' = [throttled EXCEPT ![c] = IF Room THEN @ ELSE @ \cup {rung[c]}]
  /\ IF rung[c] < Rungs
     THEN /\ rung' = [rung EXCEPT ![c] = @ + 1] /\ attempt' = [attempt EXCEPT ![c] = 0]
          /\ Go(c, "encode") /\ UNCHANGED outcome
     ELSE Return(c, "rejected")
  /\ UNCHANGED <<limiter, pause, page>>

(* 2**n                                                                    *)
PowerOfTwo[n \in Nat] == IF n = 0 THEN 1 ELSE 2 * PowerOfTwo[n - 1]

(* min(2**attempt, retry_max_wait_seconds)                                 *)
Backoff(n) == IF PowerOfTwo[n] < RetryMaxWait THEN PowerOfTwo[n] ELSE RetryMaxWait

(* A 5xx, or a RequestException: the request or its answer is lost, or the *)
(* client's timeout comes first.  None tells whether the backend has       *)
(* stored the page or will yet store it.                                   *)
NoAnswer(c) ==
  \/ pc[c] = "send" /\ UNCHANGED <<page, sent>>
  \/ Post(c) /\ UNCHANGED page
  \/ /\ Post(c) /\ Takes(c) /\ stray' = [stray EXCEPT ![c] = @ + 1]
     /\ UNCHANGED <<copies, missed>>

PauseAndRetry(c) ==
  /\ pause' = [pause EXCEPT ![c] = Backoff(attempt[c])]
  /\ attempt' = [attempt EXCEPT ![c] = @ + 1]
  /\ Go(c, "encode") /\ UNCHANGED <<outcome, rung>>

(* Variant with a mistake: a page that keeps failing is tried smaller.     *)
Failed_Degrades(c) ==
  /\ NoAnswer(c)
  /\ IF attempt[c] + 1 < MaxRetries
     THEN PauseAndRetry(c)
     ELSE IF rung[c] < Rungs
     THEN /\ rung' = [rung EXCEPT ![c] = @ + 1] /\ attempt' = [attempt EXCEPT ![c] = 0]
          /\ Go(c, "encode") /\ UNCHANGED <<outcome, pause>>
     ELSE Return(c, "failed") /\ UNCHANGED pause
  /\ UNCHANGED <<limiter, throttled>>

(* Variant with a mistake: FAILED is returned, and a last attempt goes out. *)
Failed_SendsAgain(c) ==
  /\ NoAnswer(c)
  /\ IF attempt[c] + 1 < MaxRetries
     THEN PauseAndRetry(c)
     ELSE /\ outcome' = [outcome EXCEPT ![c] = "failed"] /\ Go(c, "send")
          /\ UNCHANGED <<pause, attempt, rung>>
  /\ UNCHANGED <<limiter, throttled>>

(* A pause and another attempt, or FAILED when the attempts are used up,   *)
(* at whatever resolution.                                                 *)
Failed(c) ==
  /\ NoAnswer(c)
  /\ IF attempt[c] + 1 < MaxRetries
     THEN PauseAndRetry(c)
     ELSE Return(c, "failed") /\ UNCHANGED pause
  /\ UNCHANGED <<limiter, throttled>>

(* The backend serves a request that nobody waits for, whenever it likes:  *)
(* before the thread sends again, or after, or after its verdict.          *)
StoreLate(c) ==
  /\ stray[c] > 0 /\ stray' = [stray EXCEPT ![c] = @ - 1]
  /\ Stores(c) /\ Misses(c)
  /\ UNCHANGED <<limiter, pc, call, sent>>

-----------------------------------------------------------------------------
Tick ==
  /\ Limiter!Tick
  /\ pause' = [c \in Callers |-> IF pause[c] > 0 THEN pause[c] - 1 ELSE 0]
  /\ \E k \in 0 .. Len(sent) :
       /\ Limiter!Expired(Limiter!Older(sent), k)
       /\ sent' = Limiter!Without(Limiter!Older(sent), k)
  /\ UNCHANGED <<pc, rung, attempt, outcome, throttled, page>>

-----------------------------------------------------------------------------
UploadPage(c) == \/ Encode(c) \/ EncodeError(c) \/ Slot(c)
                 \/ Accepted(c) \/ Raised(c) \/ Refused(c) \/ Failed(c)

Next == Tick \/ \E c \in Callers : NextPage(c) \/ UploadPage(c) \/ StoreLate(c)

Spec == Init /\ [][Next]_vars

(* Time passes and no thread stops in the middle of a call: requests.post  *)
(* has a timeout, a sleep ends, the lock is held for a few instructions.   *)
(* There need not be a next page, and the backend need not serve anything  *)
(* late.                                                                   *)
FairSpec == Spec /\ WF_vars(Tick) /\ \A c \in Callers : WF_vars(UploadPage(c))

-----------------------------------------------------------------------------
(* In no window of the clock do the process's threads get more than Max    *)
(* slots between them, retries and ladder included.                        *)
GrantsWithinQuota == Limiter!GrantsWithinQuota

(* A request may set out long after its slot was granted, but each thread  *)
(* can be late with one request only: what the backend gets within a       *)
(* window is at most one request per thread above the quota.               *)
SentNearQuota == Len(sent) <= Max + Cardinality(Callers)

(* The backend takes the page at no size r, or answered 429 when it got it *)
(* at that size.                                                           *)
GivenUp(c, r) == r < Fits[c] \/ r \in throttled[c]

(* REJECTED, on which _dispose quarantines the file, takes a refusal of    *)
(* the page itself or a 429 at every resolution of the ladder: no server   *)
(* error and nothing lost on the way counts as one.                        *)
RejectedAtEverySize == \A c \in Callers :
  outcome[c] = "rejected" => \A r \in 0 .. Rungs : GivenUp(c, r)

(* A resolution is given up only if the backend refuses the page at it or  *)
(* answered 429, whatever failed or was lost on the way.                   *)
DegradedForCause == \A c \in Callers :
  \A r \in 0 .. Rungs : r < rung[c] => GivenUp(c, r)

(* The backend has a page twice only when an answer that said so was lost  *)
(* or not waited for, and has it whenever the call says ACCEPTED; a copy   *)
(* stored after the verdict is one of those too.                           *)
CopiesExplained == \A c \in Callers :
  /\ outcome[c] = "accepted" => copies[c] = missed[c] + 1
  /\ pc[c] = "done" /\ outcome[c] # "accepted" => copies[c] = missed[c]

(* Nobody sleeps in the limiter for ever, but for one case: the limiter is *)
(* not fair, and a thread may wait as long as another goes on sending.     *)
StarvedBySendersOnly == \A c \in Callers :
  \/ pc[c] = "acquire" ~> pc[c] = "done"
  \/ \E d \in Callers \ {c} : []<>(pc[d] = "send")

(* What the docstring of UploadOutcome says of REJECTED: the page will     *)
(* never be taken, so the file may be quarantined.                         *)
RejectedIsPermanent ==
  \A c \in Callers : outcome[c] = "rejected" => Fits[c] > Rungs

-----------------------------------------------------------------------------
Promise == INSTANCE PageVerdict WITH
  Taken   <- {c \in Callers : Fits[c] <= Rungs},
  busy    <- {c \in Callers : throttled[c] # {}},
  verdict <- outcome

(* The attempts, pauses and sizes of a call implement one verdict for its  *)
(* page, as _process_file takes it: ACCEPTED is stored, REJECTED cannot be *)
(* or was met by a 429, and once upload_page has returned, nothing of the  *)
(* page is sent: what the backend still stores of it was under way before. *)
VerdictSpec == Promise!Spec

=============================================================================

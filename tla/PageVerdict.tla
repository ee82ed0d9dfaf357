----------------------------- MODULE PageVerdict -----------------------------
(***************************************************************************)
(* What scanner/batch.py may expect of _upload_page_with_downsample, with  *)
(* sizes, attempts, pauses and the rate limiter abstracted away: until the *)
(* call returns its verdict the page is sent, and the backend stores it or *)
(* is left with a request that nobody waits for; after it, such requests   *)
(* are all that is left of the page.  BatchRunner's Accepted, NotAccepted  *)
(* and UploadError are these verdicts.                                     *)
(***************************************************************************)
EXTENDS Naturals

CONSTANTS Callers,   \* threads that upload one page after the other
          Taken      \* those whose pages the backend takes at some resolution

VARIABLES copies,    \* how many times the backend stored the page
          stray,     \* requests for the page that nobody waits for
          busy,      \* calls that were answered 429
          verdict    \* what the call returned

vars == <<copies, stray, busy, verdict>>

Init ==
  /\ copies = [c \in Callers |-> 0] /\ stray = [c \in Callers |-> 0]
  /\ busy = {} /\ verdict = [c \in Callers |-> "none"]

(* The page is sent: it is stored, or left with the backend, or answered   *)
(* 429, or nothing comes of it; or it is not even sent.                    *)
Attempt(c) ==
  \/ /\ c \in Taken /\ copies' = [copies EXCEPT ![c] = @ + 1]
     /\ UNCHANGED <<stray, busy>>
  \/ /\ c \in Taken /\ stray' = [stray EXCEPT ![c] = @ + 1]
     /\ UNCHANGED <<copies, busy>>
  \/ busy' = busy \cup {c} /\ UNCHANGED <<copies, stray>>
  \/ UNCHANGED <<copies, stray, busy>>

(* What the call returns then, if it does: ACCEPTED for what has just been *)
(* stored, REJECTED for a page that is not taken or met a 429; FAILED and  *)
(* an exception say nothing of the page.                                   *)
Decide(c, v) ==
  /\ verdict[c] = "none" /\ Attempt(c)
  /\ v = "accepted" => copies'[c] > copies[c]
  /\ v = "rejected" => c \notin Taken \/ c \in busy'
  /\ verdict' = [verdict EXCEPT ![c] = v]

StoreLate(c) ==
  /\ stray[c] > 0 /\ stray' = [stray EXCEPT ![c] = @ - 1]
  /\ copies' = [copies EXCEPT ![c] = @ + 1]
  /\ UNCHANGED <<busy, verdict>>

NextPage(c) ==
  /\ verdict[c] # "none" /\ verdict' = [verdict EXCEPT ![c] = "none"]
  /\ copies' = [copies EXCEPT ![c] = 0] /\ stray' = [stray EXCEPT ![c] = 0]
  /\ busy' = busy \ {c}

Next == \E c \in Callers :
  \/ StoreLate(c) \/ NextPage(c)
  \/ \E v \in {"none", "accepted", "rejected", "failed", "raised"} : Decide(c, v)

Spec == Init /\ [][Next]_vars
=============================================================================

----------------------------- MODULE ScanCustody -----------------------------
(***************************************************************************)
(* What the fleet of scanner/batch.py promises about each document, with   *)
(* folders, renames, polls and races abstracted away: it waits, one        *)
(* machine at a time holds it, and it is put to rest as processed only     *)
(* when the backend has all of it, as failed only when the backend has     *)
(* refused some of it.  Nothing else ever happens to a document.           *)
(***************************************************************************)
CONSTANTS Machines, Docs,
          Blank     \* documents without pages: nothing to deliver

VARIABLES waiting,    \* documents in the watch folder
          held,       \* the documents in each machine's subfolder
          processed,  \* documents in processed/
          failed,     \* documents in failed/
          delivered,  \* documents the backend has every page of
          refused     \* documents the backend refused a page of

vars == <<waiting, held, processed, failed, delivered, refused>>

Init ==
  /\ waiting = {} /\ processed = {} /\ failed = {} /\ refused = {}
  /\ held = [m \in Machines |-> {}]
  /\ delivered = Blank

Held      == UNION {held[m] : m \in Machines}
Somewhere == waiting \cup Held \cup processed \cup failed

Arrive(d) ==
  /\ d \notin Somewhere
  /\ waiting' = waiting \cup {d}
  /\ UNCHANGED <<held, processed, failed, delivered, refused>>

Take(m, d) ==
  /\ d \in waiting
  /\ waiting' = waiting \ {d}
  /\ held' = [held EXCEPT ![m] = @ \cup {d}]
  /\ UNCHANGED <<processed, failed, delivered, refused>>

(* The backend may store or refuse pages of a document while it is held.   *)
BackendAnswers(m, d) ==
  /\ d \in held[m]
  /\ delivered' \in {delivered, delivered \cup {d}}
  /\ refused' \in {refused, refused \cup {d}}
  /\ UNCHANGED <<waiting, held, processed, failed>>

GiveBack(m, d) ==
  /\ d \in held[m]
  /\ held' = [held EXCEPT ![m] = @ \ {d}]
  /\ waiting' = waiting \cup {d}
  /\ UNCHANGED <<processed, failed, delivered, refused>>

Complete(m, d) ==
  /\ d \in held[m] \cap delivered
  /\ held' = [held EXCEPT ![m] = @ \ {d}]
  /\ processed' = processed \cup {d}
  /\ UNCHANGED <<waiting, failed, delivered, refused>>

Quarantine(m, d) ==
  /\ d \in held[m] \cap refused
  /\ held' = [held EXCEPT ![m] = @ \ {d}]
  /\ failed' = failed \cup {d}
  /\ UNCHANGED <<waiting, processed, delivered, refused>>

Next == \E d \in Docs :
  \/ Arrive(d)
  \/ \E m \in Machines : \/ Take(m, d) \/ BackendAnswers(m, d)
                         \/ GiveBack(m, d) \/ Complete(m, d) \/ Quarantine(m, d)

Spec == Init /\ [][Next]_vars
=============================================================================

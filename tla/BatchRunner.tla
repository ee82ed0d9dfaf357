----------------------------- MODULE BatchRunner -----------------------------
(***************************************************************************)
(* scanner/batch.py: a fleet of machines that drain one environment's      *)
(* shared watch folder.  Each polling thread (Runner) executes             *)
(* BatchRunner.run_once: list the settled files, claim one at a time by    *)
(* renaming it into in-progress/<machine>/, render it, upload its pages,   *)
(* and rename it to processed/, to failed/ or back to the watch folder.    *)
(* A machine may crash at any step; when it is restarted it returns its    *)
(* own stranded files to the watch folder before it polls again.           *)
(*                                                                         *)
(* A folder is a function from file names to the document stored under     *)
(* the name (None: no such file), so a rename onto an existing name        *)
(* replaces it, as os.rename does on POSIX.  Documents are distinct        *)
(* scans; NameOf gives the file name the scanner drops each one under.     *)
(* One rename, one listing, one stat and one upload_page call is one step. *)
(***************************************************************************)
EXTENDS Naturals, FiniteSets

CONSTANTS
  Machines,     \* the fleet: one in-progress/<machine>/ subfolder each
  Runners,      \* polling threads: one scheduled per machine, manual /run ones
  Scheduled,    \* the runners started by the scheduler every minute
  MachineOf,    \* the machine a runner's thread belongs to
  Docs,         \* scanned documents
  Names,        \* file names
  NameOf,       \* the name a document is dropped under
  PagesOf,      \* number of pages process_pdf renders from a document
  Unreadable,   \* documents process_pdf cannot open (corrupt, encrypted)
  None,         \* no document, no name
  MaxFaults,    \* bound: adverse answers of the share or the backend
  MaxCrashes    \* bound: crashes of a machine's process

ASSUME FleetAssumption ==
  /\ MachineOf \in [Runners -> Machines]
  /\ Scheduled \subseteq Runners
ASSUME DocsAssumption ==
  /\ NameOf \in [Docs -> Names]
  /\ PagesOf \in [Docs -> Nat]
  /\ Unreadable \subseteq Docs
  /\ None \notin Docs /\ None \notin Names
ASSUME BoundsAssumption == MaxFaults \in Nat /\ MaxCrashes \in Nat

(* The scanner never gives two documents the same name.                    *)
UniqueNames == \A d, e \in Docs : NameOf[d] = NameOf[e] => d = e

VARIABLES
  \* the shared folder tree
  watch, inProgress, processed, failed,
  orphans,      \* documents restored as <name>.recovered-<stamp>
  \* the scanner device and the clock
  dropped,      \* documents the scanner has put into the watch folder
  settled,      \* documents whose mtime is older than settle_seconds
  \* the backend
  stored,       \* pages of each document the backend has stored
  duplicated,   \* documents of which it has stored some page twice
  refused,      \* documents of which it has refused a page for good
  \* each machine's process
  proc, recTodo, recName, recConflict,
  \* each runner's thread: program counter and local variables of run_once
  pc, listing, todo, cur, held, page, allOk, unrecoverable,
  \* budgets
  faults, crashes

tree    == <<watch, inProgress, processed, failed, orphans>>
scanner == <<dropped, settled>>
backend == <<stored, duplicated, refused>>
process == <<proc, recTodo, recName, recConflict>>
file    == <<cur, held, page, allOk, unrecoverable>>
thread  == <<pc, listing, todo, cur, held, page, allOk, unrecoverable>>
budgets == <<faults, crashes>>
vars    == <<tree, scanner, backend, process, thread, budgets>>

-----------------------------------------------------------------------------
Folder  == [Names -> Docs \cup {None}]
Empty   == [n \in Names |-> None]
Pages(d) == 1 .. PagesOf[d]
Working == {"process", "upload", "dispose", "return"}

TypeOK ==
  /\ watch \in Folder /\ processed \in Folder /\ failed \in Folder
  /\ inProgress \in [Machines -> Folder]
  /\ orphans \subseteq Docs
  /\ dropped \subseteq Docs /\ settled \subseteq dropped
  /\ stored \in [Docs -> SUBSET Nat]
  /\ duplicated \subseteq Docs /\ refused \subseteq Docs
  /\ proc \in [Machines -> {"down", "recover", "restore", "up"}]
  /\ recTodo \in [Machines -> SUBSET Names]
  /\ recName \in [Machines -> Names \cup {None}]
  /\ recConflict \in [Machines -> BOOLEAN]
  /\ pc \in [Runners -> {"idle", "is_file", "stat", "claim"} \cup Working]
  /\ listing \in [Runners -> SUBSET Names]
  /\ todo \in [Runners -> SUBSET Names]
  /\ cur \in [Runners -> Names \cup {None}]
  /\ held \in [Runners -> Docs \cup {None}]
  /\ page \in [Runners -> Nat]
  /\ allOk \in [Runners -> BOOLEAN]
  /\ unrecoverable \in [Runners -> BOOLEAN]
  /\ faults \in 0 .. MaxFaults /\ crashes \in 0 .. MaxCrashes

(* A fresh installation: empty folders, every process about to start.      *)
Init ==
  /\ watch = Empty /\ processed = Empty /\ failed = Empty
  /\ inProgress = [m \in Machines |-> Empty]
  /\ orphans = {} /\ dropped = {} /\ settled = {}
  /\ stored = [d \in Docs |-> {}] /\ duplicated = {} /\ refused = {}
  /\ proc = [m \in Machines |-> "down"]
  /\ recTodo = [m \in Machines |-> {}]
  /\ recName = [m \in Machines |-> None]
  /\ recConflict = [m \in Machines |-> FALSE]
  /\ pc = [r \in Runners |-> "idle"]
  /\ listing = [r \in Runners |-> {}] /\ todo = [r \in Runners |-> {}]
  /\ cur = [r \in Runners |-> None] /\ held = [r \in Runners |-> None]
  /\ page = [r \in Runners |-> 0]
  /\ allOk = [r \in Runners |-> TRUE]
  /\ unrecoverable = [r \in Runners |-> FALSE]
  /\ faults = 0 /\ crashes = 0

(* The share fails an operation (OSError), a worker is out of luck, or the *)
(* backend does not accept a page.                                         *)
Fault   == faults < MaxFaults /\ faults' = faults + 1 /\ UNCHANGED crashes
NoFault == UNCHANGED budgets

Go(r, label) == pc' = [pc EXCEPT ![r] = label]
Mine(r)      == inProgress[MachineOf[r]]
Claimed(r)   == Mine(r)[cur[r]]

-----------------------------------------------------------------------------
(* The scanner drops a document: it never overwrites a file that is still  *)
(* in the watch folder, but it may reuse a name once the file has moved.   *)
Drop(d) ==
  /\ d \notin dropped /\ watch[NameOf[d]] = None
  /\ watch' = [watch EXCEPT ![NameOf[d]] = d]
  /\ dropped' = dropped \cup {d}
  /\ UNCHANGED <<inProgress, processed, failed, orphans, settled,
                 backend, process, thread, budgets>>

(* settle_seconds pass since the document's last write; a rename keeps the *)
(* mtime, so it stays settled.                                             *)
Settle(d) ==
  /\ d \in dropped \ settled
  /\ settled' = settled \cup {d}
  /\ UNCHANGED <<tree, dropped, backend, process, thread, budgets>>

-----------------------------------------------------------------------------
(* run_once: the poll starts and _find_settled lists the watch folder.     *)
StartRun(r) ==
  /\ pc[r] = "idle" /\ proc[MachineOf[r]] = "up"
  /\ Go(r, "is_file")
  /\ listing' = [listing EXCEPT ![r] = {n \in Names : watch[n] # None}]
  /\ UNCHANGED <<tree, scanner, backend, process, todo, file, budgets>>

(* entry.is_file(): an entry that has gone is skipped.                     *)
IsFile(r) == \E n \in listing[r] :
  /\ pc[r] = "is_file" /\ watch[n] # None
  /\ cur' = [cur EXCEPT ![r] = n]
  /\ Go(r, "stat")
  /\ UNCHANGED <<tree, scanner, backend, process, listing, todo,
                 held, page, allOk, unrecoverable, budgets>>

NoFile(r) == \E n \in listing[r] :
  /\ pc[r] = "is_file" /\ watch[n] = None
  /\ listing' = [listing EXCEPT ![r] = @ \ {n}]
  /\ UNCHANGED <<tree, scanner, backend, process, pc, todo, file, budgets>>

(* Variant with a mistake: every supported file is taken, however young.   *)
Stat_IgnoresAge(r) ==
  /\ pc[r] = "stat" /\ watch[cur[r]] # None
  /\ todo' = [todo EXCEPT ![r] = @ \cup {cur[r]}]
  /\ listing' = [listing EXCEPT ![r] = @ \ {cur[r]}]
  /\ cur' = [cur EXCEPT ![r] = None]
  /\ Go(r, "is_file")
  /\ UNCHANGED <<tree, scanner, backend, process,
                 held, page, allOk, unrecoverable, budgets>>

(* entry.stat(): kept when its mtime is old enough ...                     *)
Stat(r) ==
  /\ pc[r] = "stat" /\ watch[cur[r]] # None
  /\ todo' = [todo EXCEPT ![r] =
                IF watch[cur[r]] \in settled THEN @ \cup {cur[r]} ELSE @]
  /\ listing' = [listing EXCEPT ![r] = @ \ {cur[r]}]
  /\ cur' = [cur EXCEPT ![r] = None]
  /\ Go(r, "is_file")
  /\ UNCHANGED <<tree, scanner, backend, process,
                 held, page, allOk, unrecoverable, budgets>>

(* Everything run_once holds is gone when it returns or raises.            *)
LeaveRun(rs) ==
  /\ pc' = [r \in Runners |-> IF r \in rs THEN "idle" ELSE pc[r]]
  /\ listing' = [r \in Runners |-> IF r \in rs THEN {} ELSE listing[r]]
  /\ todo' = [r \in Runners |-> IF r \in rs THEN {} ELSE todo[r]]
  /\ cur' = [r \in Runners |-> IF r \in rs THEN None ELSE cur[r]]
  /\ held' = [r \in Runners |-> IF r \in rs THEN None ELSE held[r]]
  /\ page' = [r \in Runners |-> IF r \in rs THEN 0 ELSE page[r]]
  /\ allOk' = [r \in Runners |-> IF r \in rs THEN TRUE ELSE allOk[r]]
  /\ unrecoverable' =
       [r \in Runners |-> IF r \in rs THEN FALSE ELSE unrecoverable[r]]

(* ... and a file that a peer took since is_file raises FileNotFoundError, *)
(* which nothing in run_once catches: the whole poll is abandoned.         *)
StatVanished(r) ==
  /\ pc[r] = "stat" /\ watch[cur[r]] = None
  /\ LeaveRun({r})
  /\ UNCHANGED <<tree, scanner, backend, process, budgets>>

Listed(r) ==
  /\ pc[r] = "is_file" /\ listing[r] = {}
  /\ Go(r, "claim")
  /\ UNCHANGED <<tree, scanner, backend, process, listing, todo, file, budgets>>

(* Variant with a mistake: the destination is some machine's subfolder.     *)
Claim_AnySubfolder(r) == \E n \in todo[r], m \in Machines :
  /\ pc[r] = "claim" /\ watch[n] # None
  /\ inProgress' = [inProgress EXCEPT ![m][n] = watch[n]]
  /\ watch' = [watch EXCEPT ![n] = None]
  /\ todo' = [todo EXCEPT ![r] = @ \ {n}]
  /\ cur' = [cur EXCEPT ![r] = n]
  /\ Go(r, "process")
  /\ UNCHANGED <<processed, failed, orphans, scanner, backend, process,
                 listing, held, page, allOk, unrecoverable, budgets>>

(* Variant with a mistake: the file is copied, and stays where it was.      *)
Claim_Copies(r) == \E n \in todo[r] :
  /\ pc[r] = "claim" /\ watch[n] # None
  /\ inProgress' = [inProgress EXCEPT ![MachineOf[r]][n] = watch[n]]
  /\ todo' = [todo EXCEPT ![r] = @ \ {n}]
  /\ cur' = [cur EXCEPT ![r] = n]
  /\ Go(r, "process")
  /\ UNCHANGED <<watch, processed, failed, orphans, scanner, backend, process,
                 listing, held, page, allOk, unrecoverable, budgets>>

(* claim_file: rename into the machine's own subfolder ...                 *)
Claim(r) == \E n \in todo[r] :
  /\ pc[r] = "claim" /\ watch[n] # None
  /\ inProgress' = [inProgress EXCEPT ![MachineOf[r]][n] = watch[n]]
  /\ watch' = [watch EXCEPT ![n] = None]
  /\ todo' = [todo EXCEPT ![r] = @ \ {n}]
  /\ cur' = [cur EXCEPT ![r] = n]
  /\ Go(r, "process")
  /\ UNCHANGED <<processed, failed, orphans, scanner, backend, process,
                 listing, held, page, allOk, unrecoverable, budgets>>

(* ... a source that has gone means a peer won: None, next file ...        *)
LostClaim(r) == \E n \in todo[r] :
  /\ pc[r] = "claim" /\ watch[n] = None
  /\ todo' = [todo EXCEPT ![r] = @ \ {n}]
  /\ UNCHANGED <<tree, scanner, backend, process, pc, listing, file, budgets>>

(* ... and any other OSError leaves run_once.                              *)
ClaimError(r) ==
  /\ pc[r] = "claim" /\ todo[r] # {} /\ Fault
  /\ LeaveRun({r})
  /\ UNCHANGED <<tree, scanner, backend, process>>

FinishRun(r) ==
  /\ pc[r] = "claim" /\ todo[r] = {}
  /\ LeaveRun({r})
  /\ UNCHANGED <<tree, scanner, backend, process, budgets>>

-----------------------------------------------------------------------------
(* Variant with a mistake: the path is kept in place of what it held.       *)
Render_KeepsPath(r) ==
  /\ pc[r] = "process" /\ Claimed(r) \in Docs \ Unreadable
  /\ held' = [held EXCEPT ![r] = cur[r]]
  /\ page' = [page EXCEPT ![r] = 1]
  /\ Go(r, "upload")
  /\ UNCHANGED <<tree, scanner, backend, process, listing, todo, cur,
                 allOk, unrecoverable, budgets>>

(* _process_file, process_pdf: every page is rendered into memory before   *)
(* the first is uploaded.                                                  *)
Render(r) ==
  /\ pc[r] = "process" /\ Claimed(r) \in Docs \ Unreadable
  /\ held' = [held EXCEPT ![r] = Claimed(r)]
  /\ page' = [page EXCEPT ![r] = 1]
  /\ allOk' = [allOk EXCEPT ![r] = TRUE]
  /\ unrecoverable' = [unrecoverable EXCEPT ![r] = FALSE]
  /\ Go(r, IF PagesOf[Claimed(r)] = 0 THEN "dispose" ELSE "upload")
  /\ UNCHANGED <<tree, scanner, backend, process, listing, todo, cur, budgets>>

(* The file is gone or cannot be rendered, or the share fails the read.    *)
RenderError(r) ==
  /\ pc[r] = "process"
  /\ IF Claimed(r) \in Docs \ Unreadable THEN Fault ELSE NoFault
  /\ Go(r, "return")
  /\ UNCHANGED <<tree, scanner, backend, process, listing, todo, file>>

(* The backend stores the page on hand this many times.                    *)
Store(r, copies) ==
  LET d == held[r] p == page[r] IN
  /\ stored' = IF copies = 0 THEN stored
               ELSE [stored EXCEPT ![d] = @ \cup {p}]
  /\ duplicated' = IF copies > 1 \/ (copies = 1 /\ p \in stored[d])
                   THEN duplicated \cup {d} ELSE duplicated

NextPage(r) ==
  /\ page' = [page EXCEPT ![r] = @ + 1]
  /\ Go(r, IF page[r] < PagesOf[held[r]] THEN "upload" ELSE "dispose")
  /\ UNCHANGED <<tree, scanner, process, listing, todo, cur, held>>

(* Variant with a mistake: all_ok remembers the last page only.             *)
Accepted_LastPageWins(r) ==
  /\ pc[r] = "upload"
  /\ Store(r, 1) /\ NoFault
  /\ allOk' = [allOk EXCEPT ![r] = TRUE]
  /\ NextPage(r)
  /\ UNCHANGED <<refused, unrecoverable>>

(* _upload_page_with_downsample returns ACCEPTED: the page is stored, more *)
(* than once when an earlier attempt of upload_page stored it and only its *)
(* answer was lost.                                                        *)
Accepted(r) ==
  /\ pc[r] = "upload"
  /\ \/ Store(r, 1) /\ NoFault
     \/ Store(r, 2) /\ Fault
  /\ NextPage(r)
  /\ UNCHANGED <<refused, allOk, unrecoverable>>

(* Variant with a mistake: a transient failure counts as a rejection.       *)
NotAccepted_AllFatal(r) ==
  /\ pc[r] = "upload" /\ Fault
  /\ Store(r, 0)
  /\ allOk' = [allOk EXCEPT ![r] = FALSE]
  /\ unrecoverable' = [unrecoverable EXCEPT ![r] = TRUE]
  /\ refused' \in {refused, refused \cup {held[r]}}
  /\ NextPage(r)

(* ... REJECTED, the page refused at every size of the ladder, or FAILED,  *)
(* every attempt failed; either way an attempt whose answer was lost may   *)
(* have stored it.  The remaining pages are still uploaded.                *)
NotAccepted(r) ==
  /\ pc[r] = "upload" /\ Fault
  /\ \E copies \in {0, 1} : Store(r, copies)
  /\ allOk' = [allOk EXCEPT ![r] = FALSE]
  /\ \/ /\ unrecoverable' = [unrecoverable EXCEPT ![r] = TRUE]
        /\ refused' = refused \cup {held[r]}
     \/ UNCHANGED <<unrecoverable, refused>>
  /\ NextPage(r)

(* ... or raises: an answer that is not the expected JSON, an image that   *)
(* cannot be encoded.                                                      *)
UploadError(r) ==
  /\ pc[r] = "upload" /\ Fault
  /\ \E copies \in {0, 1} : Store(r, copies)
  /\ Go(r, "return")
  /\ UNCHANGED <<tree, scanner, process, refused, listing, todo, file>>

(* The finally block: the runner turns to the next file of its list.       *)
EndFile(r) ==
  /\ cur' = [cur EXCEPT ![r] = None]
  /\ held' = [held EXCEPT ![r] = None]
  /\ page' = [page EXCEPT ![r] = 0]
  /\ allOk' = [allOk EXCEPT ![r] = TRUE]
  /\ unrecoverable' = [unrecoverable EXCEPT ![r] = FALSE]
  /\ Go(r, "claim")
  /\ UNCHANGED <<scanner, backend, process, listing, todo>>

(* Variant with a mistake: the file is copied, not moved.                   *)
Release_Copies(r) ==
  /\ Claimed(r) # None
  /\ UNCHANGED <<inProgress, orphans, budgets>>

(* os.rename(claimed, folder / name)                                       *)
Release(r) ==
  /\ Claimed(r) # None
  /\ inProgress' = [inProgress EXCEPT ![MachineOf[r]][cur[r]] = None]
  /\ UNCHANGED <<orphans, budgets>>

Complete(r) ==
  /\ pc[r] = "dispose" /\ allOk[r]
  /\ Release(r)
  /\ processed' = [processed EXCEPT ![cur[r]] = Claimed(r)]
  /\ EndFile(r)
  /\ UNCHANGED <<watch, failed>>

Quarantine(r) ==
  /\ pc[r] = "dispose" /\ ~allOk[r] /\ unrecoverable[r]
  /\ Release(r)
  /\ failed' = [failed EXCEPT ![cur[r]] = Claimed(r)]
  /\ EndFile(r)
  /\ UNCHANGED <<watch, processed>>

RetryLater(r) ==
  /\ pc[r] = "dispose" /\ ~allOk[r] /\ ~unrecoverable[r]
  /\ Release(r)
  /\ watch' = [watch EXCEPT ![cur[r]] = Claimed(r)]
  /\ EndFile(r)
  /\ UNCHANGED <<processed, failed>>

(* The rename of _dispose fails.                                           *)
DisposeError(r) ==
  /\ pc[r] = "dispose"
  /\ IF Claimed(r) = None THEN NoFault ELSE Fault
  /\ Go(r, "return")
  /\ UNCHANGED <<tree, scanner, backend, process, listing, todo, file>>

(* except Exception: put the file back; when that fails too, the error is  *)
(* swallowed and the file stays in in-progress/<machine>/.                 *)
PutBack(r) ==
  /\ pc[r] = "return"
  /\ Release(r)
  /\ watch' = [watch EXCEPT ![cur[r]] = Claimed(r)]
  /\ EndFile(r)
  /\ UNCHANGED <<processed, failed>>

(* Variant with a mistake: a file that cannot be put back is removed.       *)
PutBackError_Removes(r) ==
  /\ pc[r] = "return" /\ Fault
  /\ inProgress' = [inProgress EXCEPT ![MachineOf[r]][cur[r]] = None]
  /\ EndFile(r)
  /\ UNCHANGED <<watch, processed, failed, orphans>>

PutBackError(r) ==
  /\ pc[r] = "return"
  /\ IF Claimed(r) = None THEN NoFault ELSE Fault
  /\ EndFile(r)
  /\ UNCHANGED tree

-----------------------------------------------------------------------------
(* The process dies (power, kill -9, a container restart): every thread of *)
(* the machine is gone, the share keeps what was renamed.                  *)
Crash(m) ==
  /\ crashes < MaxCrashes /\ proc[m] # "down"
  /\ crashes' = crashes + 1
  /\ proc' = [proc EXCEPT ![m] = "down"]
  /\ recTodo' = [recTodo EXCEPT ![m] = {}]
  /\ recName' = [recName EXCEPT ![m] = None]
  /\ recConflict' = [recConflict EXCEPT ![m] = FALSE]
  /\ LeaveRun({r \in Runners : MachineOf[r] = m})
  /\ UNCHANGED <<tree, scanner, backend, faults>>

(* The supervisor restarts the process; recover_stranded lists the         *)
(* machine's own subfolder, before any job is registered.                  *)
Restart(m) ==
  /\ proc[m] = "down"
  /\ proc' = [proc EXCEPT ![m] = "recover"]
  /\ recTodo' = [recTodo EXCEPT ![m] = {n \in Names : inProgress[m][n] # None}]
  /\ UNCHANGED <<tree, scanner, backend, recName, recConflict, thread, budgets>>

(* Variant with a mistake: the suffix is appended without a conflict.       *)
CheckConflict_Always(m) == \E n \in recTodo[m] :
  /\ proc[m] = "recover"
  /\ recName' = [recName EXCEPT ![m] = n]
  /\ recConflict' = [recConflict EXCEPT ![m] = TRUE]
  /\ proc' = [proc EXCEPT ![m] = "restore"]
  /\ UNCHANGED <<tree, scanner, backend, recTodo, thread, budgets>>

(* dest.exists()                                                           *)
CheckConflict(m) == \E n \in recTodo[m] :
  /\ proc[m] = "recover"
  /\ recName' = [recName EXCEPT ![m] = n]
  /\ recConflict' = [recConflict EXCEPT ![m] = watch[n] # None]
  /\ proc' = [proc EXCEPT ![m] = "restore"]
  /\ UNCHANGED <<tree, scanner, backend, recTodo, thread, budgets>>

Restored(m) ==
  /\ inProgress' = [inProgress EXCEPT ![m][recName[m]] = None]
  /\ recTodo' = [recTodo EXCEPT ![m] = @ \ {recName[m]}]
  /\ recName' = [recName EXCEPT ![m] = None]
  /\ recConflict' = [recConflict EXCEPT ![m] = FALSE]
  /\ proc' = [proc EXCEPT ![m] = "recover"]
  /\ UNCHANGED <<processed, failed, scanner, backend, thread, budgets>>

(* Variant with a mistake: a stranded file is quarantined, not retried.     *)
Restore_Quarantines(m) ==
  /\ proc[m] = "restore" /\ ~recConflict[m]
  /\ failed' = [failed EXCEPT ![recName[m]] = inProgress[m][recName[m]]]
  /\ inProgress' = [inProgress EXCEPT ![m][recName[m]] = None]
  /\ recTodo' = [recTodo EXCEPT ![m] = @ \ {recName[m]}]
  /\ proc' = [proc EXCEPT ![m] = "recover"]
  /\ UNCHANGED <<watch, processed, orphans, recName, recConflict,
                 scanner, backend, thread, budgets>>

(* os.rename(stranded, dest) under the file's own name, as checked before. *)
Restore(m) ==
  /\ proc[m] = "restore" /\ ~recConflict[m]
  /\ watch' = [watch EXCEPT ![recName[m]] = inProgress[m][recName[m]]]
  /\ Restored(m)
  /\ UNCHANGED orphans

(* The name was taken: restored as <name>.recovered-<stamp>, whose suffix  *)
(* is none of SUPPORTED_EXTS.                                              *)
RestoreRenamed(m) ==
  /\ proc[m] = "restore" /\ recConflict[m]
  /\ orphans' = orphans \cup {inProgress[m][recName[m]]}
  /\ Restored(m)
  /\ UNCHANGED watch

(* The rename fails: the exception ends the process.                       *)
RestoreError(m) ==
  /\ proc[m] = "restore" /\ Fault
  /\ proc' = [proc EXCEPT ![m] = "down"]
  /\ recTodo' = [recTodo EXCEPT ![m] = {}]
  /\ recName' = [recName EXCEPT ![m] = None]
  /\ recConflict' = [recConflict EXCEPT ![m] = FALSE]
  /\ UNCHANGED <<tree, scanner, backend, thread>>

(* Variant with a mistake: polls start while recovery is still under way.   *)
Ready_TooSoon(m) ==
  /\ proc[m] = "recover"
  /\ proc' = [proc EXCEPT ![m] = "up"]
  /\ UNCHANGED <<tree, scanner, backend, recTodo, recName, recConflict,
                 thread, budgets>>

(* The scheduler's jobs are registered and the dashboard accepts /run.     *)
Ready(m) ==
  /\ proc[m] = "recover" /\ recTodo[m] = {}
  /\ proc' = [proc EXCEPT ![m] = "up"]
  /\ UNCHANGED <<tree, scanner, backend, recTodo, recName, recConflict,
                 thread, budgets>>

-----------------------------------------------------------------------------
FindSettled(r) == IsFile(r) \/ NoFile(r) \/ Stat(r) \/ StatVanished(r) \/ Listed(r)
ClaimFile(r)   == Claim(r) \/ LostClaim(r) \/ ClaimError(r) \/ FinishRun(r)
ProcessFile(r) == \/ Render(r) \/ RenderError(r)
                  \/ Accepted(r) \/ NotAccepted(r) \/ UploadError(r)
                  \/ Complete(r) \/ Quarantine(r) \/ RetryLater(r)
                  \/ DisposeError(r) \/ PutBack(r) \/ PutBackError(r)
RunOnce(r)     == FindSettled(r) \/ ClaimFile(r) \/ ProcessFile(r)

RecoverStranded(m) == \/ CheckConflict(m) \/ Restore(m) \/ RestoreRenamed(m)
                      \/ RestoreError(m) \/ Ready(m)

Next ==
  \/ \E d \in Docs : Drop(d) \/ Settle(d)
  \/ \E r \in Runners : StartRun(r) \/ RunOnce(r)
  \/ \E m \in Machines : Crash(m) \/ Restart(m) \/ RecoverStranded(m)

Spec == Init /\ [][Next]_vars

(* Time passes, a started run proceeds, the scheduler polls every minute,  *)
(* the supervisor restarts a dead process.  Nobody need press /run, drop a *)
(* document or crash.                                                      *)
Fairness ==
  /\ \A d \in Docs : WF_vars(Settle(d))
  /\ \A r \in Runners : WF_vars(RunOnce(r))
  /\ \A r \in Scheduled : WF_vars(StartRun(r))
  /\ \A m \in Machines : WF_vars(Restart(m)) /\ WF_vars(RecoverStranded(m))

FairSpec == Spec /\ Fairness

-----------------------------------------------------------------------------
(* Where the documents are.                                                *)
In(folder)      == {d \in Docs : \E n \in Names : folder[n] = d}
WatchDocs       == In(watch)
HeldDocs(m)     == In(inProgress[m])
AllHeld         == UNION {HeldDocs(m) : m \in Machines}
ProcessedDocs   == In(processed)
FailedDocs      == In(failed)
Delivered       == {d \in Docs : Pages(d) \subseteq stored[d]}
Finished(d)     == d \in ProcessedDocs \cup FailedDocs

(* No document is in two places at once: at any moment a file is in the    *)
(* watch folder, in one machine's in-progress subfolder, or at rest        *)
(* (claim_file, _dispose, recover_stranded move and never copy), whatever  *)
(* races the machines run and whenever they crash.                         *)
OnePlace ==
  /\ \A m1, m2 \in Machines : m1 # m2 => HeldDocs(m1) \cap HeldDocs(m2) = {}
  /\ WatchDocs \cap AllHeld = {}
  /\ (WatchDocs \cup AllHeld) \cap (ProcessedDocs \cup FailedDocs \cup orphans) = {}
  /\ ProcessedDocs \cap FailedDocs = {}
  /\ orphans \cap (ProcessedDocs \cup FailedDocs) = {}

(* Zero losses: a document the scanner dropped is always somewhere in the  *)
(* folder tree, so no rename of batch.py ever replaced it.                 *)
NoLoss ==
  dropped \subseteq WatchDocs \cup AllHeld \cup ProcessedDocs \cup FailedDocs \cup orphans

(* Zero losses (SC-009), of what the backend does not have: no rename of   *)
(* batch.py, one that puts a document back after a failure included,       *)
(* replaces a document that was not uploaded.                              *)
UndeliveredKept ==
  dropped \ Delivered \subseteq WatchDocs \cup AllHeld \cup ProcessedDocs \cup FailedDocs \cup orphans

(* processed/ means delivered: whatever failed, crashed or raced on the    *)
(* way, the backend has every page of every document in processed/.        *)
ProcessedStored == ProcessedDocs \subseteq Delivered

(* failed/ means refused: _dispose quarantines a document only when the    *)
(* backend permanently rejected one of its own pages.                      *)
QuarantineJustified == FailedDocs \subseteq refused

(* Zero duplicates (SC-009): as long as nothing fails and nobody crashes,  *)
(* no page reaches the backend twice, whatever races the runners of        *)
(* run_once run for the files.                                             *)
UploadedOnce == faults = 0 /\ crashes = 0 => duplicated = {}

(* Every document past the watch folder had settled: the check made while  *)
(* listing still holds when the file is claimed later in the same run.     *)
ClaimedSettled == AllHeld \cup ProcessedDocs \cup FailedDocs \subseteq settled

(* A machine that is down keeps its in-progress subfolder untouched: no    *)
(* peer claims into it, recovers from it or disposes of its files.         *)
DownUntouched ==
  [][\A m \in Machines : proc[m] = "down" => inProgress'[m] = inProgress[m]]_vars

(* When recovery is over and the machine may poll, nothing is left in its  *)
(* own in-progress subfolder.                                              *)
RecoveredBeforePolling ==
  [][\A m \in Machines :
       (proc[m] # "up" /\ proc'[m] = "up") => inProgress'[m] = Empty]_vars

(* A machine that loses a race for a file goes on with its poll.           *)
RaceLoserMovesOn ==
  [][\A r \in Runners :
       (pc[r] = "stat" /\ proc'[MachineOf[r]] = "up") => pc'[r] # "idle"]_vars

(* A stranded document that recovery had to rename, because its name was   *)
(* taken, is still processed in the end.                                   *)
RecoveredProcessed ==
  \A d \in Docs \ Unreadable : (d \in orphans) ~> Finished(d)

(* A document that a machine that is up has in its subfolder although none *)
(* of its runners works on it.                                             *)
LeftBehind(d) == \E m \in Machines :
  /\ proc[m] = "up" /\ d \in HeldDocs(m)
  /\ \A r \in Runners : ~(MachineOf[r] = m /\ pc[r] \in Working /\ cur[r] = NameOf[d])

(* Every readable document that is dropped ends in processed/ or failed/,  *)
(* or, when an error and then the rename that puts it back both failed, is *)
(* left behind in in-progress/<machine>/ until the machine restarts; no    *)
(* race, crash or retry keeps one anywhere else.                           *)
EveryDropAccountedFor ==
  \A d \in Docs \ Unreadable : (d \in dropped) ~> (Finished(d) \/ LeftBehind(d))

-----------------------------------------------------------------------------
(* Names apart, what the fleet does is what ScanCustody promises.          *)
Custody == INSTANCE ScanCustody WITH
  Blank     <- {d \in Docs : PagesOf[d] = 0},
  waiting   <- WatchDocs,
  held      <- [m \in Machines |-> HeldDocs(m)],
  processed <- ProcessedDocs,
  failed    <- FailedDocs,
  delivered <- Delivered

(* The folder protocol implements the custody of documents: every step of  *)
(* a runner, a recovery, the scanner or a crash is a step ScanCustody      *)
(* allows for one document, or changes nobody's custody.                   *)
CustodySpec == Custody!Spec

=============================================================================

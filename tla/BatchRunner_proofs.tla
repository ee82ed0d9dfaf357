-------------------------- MODULE BatchRunner_proofs --------------------------
(***************************************************************************)
(* Proofs about BatchRunner for every fleet, every set of documents and    *)
(* every number of faults and crashes.                                     *)
(***************************************************************************)
EXTENDS BatchRunner, TLAPS

(* What the program counters promise, with or without distinct names: the  *)
(* local variables a step reads are set, a machine's threads run only      *)
(* while it is up, and recovery's list is what its subfolder holds.        *)
ThreadOK == \A r \in Runners :
  /\ pc[r] \in {"stat"} \cup Working => cur[r] \in Names
  /\ pc[r] \in {"upload", "dispose"} => held[r] \in Docs
  /\ pc[r] # "idle" => proc[MachineOf[r]] = "up"

RecoveryOK == \A m \in Machines :
  /\ proc[m] = "restore" => recName[m] \in recTodo[m]
  /\ proc[m] \in {"recover", "restore"} =>
       \A n \in Names : n \in recTodo[m] <=> inProgress[m][n] # None

Control == TypeOK /\ ThreadOK /\ RecoveryOK

USE FleetAssumption, DocsAssumption, BoundsAssumption

-----------------------------------------------------------------------------
(* Places.  A rename keeps a file's name, so a document can only be under  *)
(* its own name, and it is in one place at a time.                         *)
NamesKept == \A n \in Names :
  /\ watch[n] # None => NameOf[watch[n]] = n
  /\ processed[n] # None => NameOf[processed[n]] = n
  /\ failed[n] # None => NameOf[failed[n]] = n
  /\ \A m \in Machines : inProgress[m][n] # None => NameOf[inProgress[m][n]] = n

InWatch(d)     == watch[NameOf[d]] = d
InHold(m, d)   == inProgress[m][NameOf[d]] = d
InProcessed(d) == processed[NameOf[d]] = d
InFailed(d)    == failed[NameOf[d]] = d

Apart == \A d \in Docs :
  /\ InWatch(d) \/ InProcessed(d) \/ InFailed(d) \/ d \in orphans => d \in dropped
  /\ InWatch(d) => ~InProcessed(d) /\ ~InFailed(d) /\ d \notin orphans
  /\ InProcessed(d) => ~InFailed(d) /\ d \notin orphans
  /\ InFailed(d) => d \notin orphans
  /\ \A m \in Machines : InHold(m, d) =>
       /\ d \in dropped /\ ~InWatch(d)
       /\ ~InProcessed(d) /\ ~InFailed(d) /\ d \notin orphans
       /\ \A k \in Machines : InHold(k, d) => k = m

Place == NamesKept /\ Apart

(* A runner's flags tell what the backend answered about the document it   *)
(* rendered; a document at rest is what its folder says.                   *)
FlagsOK == \A r \in Runners : pc[r] \in {"upload", "dispose"} =>
  /\ allOk[r] => \A p \in Nat : 1 <= p /\ p < page[r] /\ p <= PagesOf[held[r]] => p \in stored[held[r]]
  /\ unrecoverable[r] => held[r] \in refused
  /\ pc[r] = "dispose" => page[r] > PagesOf[held[r]]

AtRestOK == \A d \in Docs :
  /\ InProcessed(d) => \A p \in 1 .. PagesOf[d] : p \in stored[d]
  /\ InFailed(d) => d \in refused

Honest == FlagsOK /\ AtRestOK

(* The document a runner rendered is still the one under the claimed name. *)
Holding == \A r \in Runners : pc[r] \in {"upload", "dispose"} => held[r] = Claimed(r)

(* With distinct names: a working runner's file is where it put it, and    *)
(* nobody else works on it.                                                *)
ClaimOK == \A r \in Runners : pc[r] \in Working =>
  /\ Claimed(r) \in Docs
  /\ pc[r] \in {"upload", "dispose"} => held[r] = Claimed(r)
  /\ \A s \in Runners : pc[s] \in Working /\ cur[s] = cur[r] /\ MachineOf[s] = MachineOf[r] => s = r

SettledOK ==
  /\ \A r \in Runners : \A n \in todo[r] : \E d \in settled : NameOf[d] = n
  /\ \A d \in Docs : InProcessed(d) \/ InFailed(d) \/ (\E m \in Machines : InHold(m, d)) => d \in settled

Kept == \A d \in dropped :
  InWatch(d) \/ InProcessed(d) \/ InFailed(d) \/ \E m \in Machines : InHold(m, d)

NoConflict == /\ orphans = {}
              /\ \A m \in Machines : ~recConflict[m]

Careful == ClaimOK /\ SettledOK /\ Kept /\ NoConflict

-----------------------------------------------------------------------------
(* A fresh installation satisfies the control invariant.                   *)
LEMMA InitControl == Init => Control
  BY DEF Init, Control, TypeOK, ThreadOK, RecoveryOK, Folder, Empty, Working

(* A thread that leaves run_once takes nothing with it.                    *)
LEMMA LeaveRunTypes ==
  ASSUME TypeOK, NEW rs \in SUBSET Runners, LeaveRun(rs)
  PROVE  /\ pc' \in [Runners -> {"idle", "is_file", "stat", "claim"} \cup Working]
         /\ listing' \in [Runners -> SUBSET Names]
         /\ todo' \in [Runners -> SUBSET Names]
         /\ cur' \in [Runners -> Names \cup {None}]
         /\ held' \in [Runners -> Docs \cup {None}]
         /\ page' \in [Runners -> Nat]
         /\ allOk' \in [Runners -> BOOLEAN]
         /\ unrecoverable' \in [Runners -> BOOLEAN]
  BY DEF TypeOK, LeaveRun

(* What the backend stores are pages of documents.                         *)
LEMMA StoreTypes ==
  ASSUME TypeOK, NEW r \in Runners, held[r] \in Docs, NEW k \in Nat, Store(r, k)
  PROVE  stored' \in [Docs -> SUBSET Nat] /\ duplicated' \subseteq Docs
  BY DEF TypeOK, Store

(* Control, one half of run_once at a time: _find_settled lists a folder   *)
(* ...                                                                     *)
LEMMA FindSettledControl ==
  ASSUME Control, NEW r \in Runners, StartRun(r) \/ FindSettled(r)
  PROVE  Control'
<1> USE DEF Control, TypeOK, ThreadOK, RecoveryOK, Folder, Working, tree, scanner,
            backend, process, file, thread, budgets, Go
<1>1. CASE StartRun(r)
  BY <1>1 DEF StartRun
<1>2. CASE IsFile(r)
  BY <1>2 DEF IsFile
<1>6. CASE NoFile(r)
  BY <1>6 DEF NoFile
<1>3. CASE Stat(r)
  BY <1>3 DEF Stat
<1>4. CASE StatVanished(r)
  <2>1. TypeOK'
    BY <1>4 DEF StatVanished, LeaveRun
  <2>2. ThreadOK'
    BY <1>4 DEF StatVanished, LeaveRun
  <2>3. RecoveryOK'
    BY <1>4 DEF StatVanished
  <2> QED BY <2>1, <2>2, <2>3
<1>5. CASE Listed(r)
  BY <1>5 DEF Listed
<1> QED BY <1>1, <1>2, <1>3, <1>4, <1>5, <1>6 DEF FindSettled

(* ... claim_file moves a file into the runner's own machine's subfolder   *)
(* ...                                                                     *)
LEMMA ClaimFileControl ==
  ASSUME Control, NEW r \in Runners, ClaimFile(r)
  PROVE  Control'
<1> USE DEF Control, TypeOK, ThreadOK, RecoveryOK, Folder, Working, tree, scanner,
            backend, process, file, thread, budgets, Go
<1>1. CASE Claim(r)
  <2>1. PICK n \in todo[r] : Claim(r)!(n)
    BY <1>1 DEF Claim
  <2>2. TypeOK'
    BY <2>1
  <2>3. ThreadOK'
    BY <2>1
  <2>4. RecoveryOK'
    BY <2>1
  <2> QED BY <2>2, <2>3, <2>4
<1>2. CASE LostClaim(r)
  BY <1>2 DEF LostClaim
<1>3. CASE ClaimError(r)
  <2>1. TypeOK'
    BY <1>3, LeaveRunTypes, {r} \in SUBSET Runners DEF ClaimError, Fault
  <2>2. ThreadOK'
    BY <1>3 DEF ClaimError, LeaveRun
  <2>3. RecoveryOK'
    BY <1>3 DEF ClaimError
  <2> QED BY <2>1, <2>2, <2>3
<1>4. CASE FinishRun(r)
  BY <1>4 DEF FinishRun, LeaveRun
<1> QED BY <1>1, <1>2, <1>3, <1>4 DEF ClaimFile

(* ... _process_file and _dispose leave every other thread's variables     *)
(* alone ...                                                               *)
LEMMA ProcessFileControl ==
  ASSUME Control, NEW r \in Runners, ProcessFile(r)
  PROVE  Control'
<1> USE DEF Control, TypeOK, ThreadOK, RecoveryOK, Folder, Working, tree, scanner,
            backend, process, file, thread, budgets, Go, Fault, NoFault,
            Claimed, Mine
<1>1. CASE Render(r)
  <2>1. TypeOK'
    BY <1>1 DEF Render
  <2>2. ThreadOK'
    BY <1>1 DEF Render
  <2>3. RecoveryOK'
    BY <1>1 DEF Render
  <2> QED BY <2>1, <2>2, <2>3
<1>2. CASE RenderError(r)
  <2>1. TypeOK'
    BY <1>2 DEF RenderError
  <2>2. ThreadOK'
    BY <1>2 DEF RenderError
  <2>3. RecoveryOK'
    BY <1>2 DEF RenderError
  <2> QED BY <2>1, <2>2, <2>3
<1>3. CASE Accepted(r)
  <2>1. TypeOK'
    <3>1. stored' \in [Docs -> SUBSET Nat] /\ duplicated' \subseteq Docs
      BY <1>3, StoreTypes DEF Accepted
    <3>2. refused' \subseteq Docs /\ faults' \in 0 .. MaxFaults /\ crashes' \in 0 .. MaxCrashes
      BY <1>3 DEF Accepted
    <3>3. /\ page' \in [Runners -> Nat]
          /\ pc' \in [Runners -> {"idle", "is_file", "stat", "claim"} \cup Working]
      BY <1>3 DEF Accepted, NextPage
    <3>4. allOk' \in [Runners -> BOOLEAN] /\ unrecoverable' \in [Runners -> BOOLEAN]
      BY <1>3 DEF Accepted
    <3> QED BY <1>3, <3>1, <3>2, <3>3, <3>4 DEF Accepted, NextPage
  <2>2. ThreadOK'
    BY <1>3 DEF Accepted, NextPage, Store
  <2>3. RecoveryOK'
    BY <1>3 DEF Accepted, NextPage, Store
  <2> QED BY <2>1, <2>2, <2>3
<1>4. CASE NotAccepted(r)
  <2>1. TypeOK'
    <3>1. stored' \in [Docs -> SUBSET Nat] /\ duplicated' \subseteq Docs
      BY <1>4, StoreTypes DEF NotAccepted
    <3>2. refused' \subseteq Docs /\ faults' \in 0 .. MaxFaults /\ crashes' \in 0 .. MaxCrashes
      BY <1>4 DEF NotAccepted
    <3>3. /\ page' \in [Runners -> Nat]
          /\ pc' \in [Runners -> {"idle", "is_file", "stat", "claim"} \cup Working]
      BY <1>4 DEF NotAccepted, NextPage
    <3>4. allOk' \in [Runners -> BOOLEAN] /\ unrecoverable' \in [Runners -> BOOLEAN]
      BY <1>4 DEF NotAccepted
    <3> QED BY <1>4, <3>1, <3>2, <3>3, <3>4 DEF NotAccepted, NextPage
  <2>2. ThreadOK'
    BY <1>4 DEF NotAccepted, NextPage, Store
  <2>3. RecoveryOK'
    BY <1>4 DEF NotAccepted, NextPage, Store
  <2> QED BY <2>1, <2>2, <2>3
<1>5. CASE UploadError(r)
  <2>1. TypeOK'
    BY <1>5 DEF UploadError, Store
  <2>2. ThreadOK'
    BY <1>5 DEF UploadError, Store
  <2>3. RecoveryOK'
    BY <1>5 DEF UploadError, Store
  <2> QED BY <2>1, <2>2, <2>3
<1>6. CASE Complete(r)
  <2>1. TypeOK'
    BY <1>6 DEF Complete, Release, EndFile
  <2>2. ThreadOK'
    BY <1>6 DEF Complete, Release, EndFile
  <2>3. RecoveryOK'
    BY <1>6 DEF Complete, Release, EndFile
  <2> QED BY <2>1, <2>2, <2>3
<1>7. CASE Quarantine(r)
  <2>1. TypeOK'
    BY <1>7 DEF Quarantine, Release, EndFile
  <2>2. ThreadOK'
    BY <1>7 DEF Quarantine, Release, EndFile
  <2>3. RecoveryOK'
    BY <1>7 DEF Quarantine, Release, EndFile
  <2> QED BY <2>1, <2>2, <2>3
<1>8. CASE RetryLater(r)
  <2>1. TypeOK'
    BY <1>8 DEF RetryLater, Release, EndFile
  <2>2. ThreadOK'
    BY <1>8 DEF RetryLater, Release, EndFile
  <2>3. RecoveryOK'
    BY <1>8 DEF RetryLater, Release, EndFile
  <2> QED BY <2>1, <2>2, <2>3
<1>9. CASE DisposeError(r)
  <2>1. TypeOK'
    BY <1>9 DEF DisposeError
  <2>2. ThreadOK'
    BY <1>9 DEF DisposeError
  <2>3. RecoveryOK'
    BY <1>9 DEF DisposeError
  <2> QED BY <2>1, <2>2, <2>3
<1>10. CASE PutBack(r)
  <2>1. TypeOK'
    BY <1>10 DEF PutBack, Release, EndFile
  <2>2. ThreadOK'
    BY <1>10 DEF PutBack, Release, EndFile
  <2>3. RecoveryOK'
    BY <1>10 DEF PutBack, Release, EndFile
  <2> QED BY <2>1, <2>2, <2>3
<1>11. CASE PutBackError(r)
  <2>1. TypeOK'
    BY <1>11 DEF PutBackError, EndFile
  <2>2. ThreadOK'
    BY <1>11 DEF PutBackError, EndFile
  <2>3. RecoveryOK'
    BY <1>11 DEF PutBackError, EndFile
  <2> QED BY <2>1, <2>2, <2>3
<1> QED BY <1>1, <1>2, <1>3, <1>4, <1>5, <1>6, <1>7, <1>8, <1>9, <1>10, <1>11 DEF ProcessFile

(* ... a crash ends all of a machine's threads, recovery tracks its        *)
(* subfolder ...                                                           *)
LEMMA MachineControl ==
  ASSUME Control, NEW m \in Machines, Crash(m) \/ Restart(m) \/ RecoverStranded(m)
  PROVE  Control'
<1> USE DEF Control, TypeOK, ThreadOK, RecoveryOK, Folder, Working, tree, scanner,
            backend, process, file, thread, budgets, Fault
<1>1. CASE Crash(m)
  <2>1. TypeOK'
    BY <1>1, LeaveRunTypes, {r \in Runners : MachineOf[r] = m} \in SUBSET Runners
       DEF Crash
  <2>2. ThreadOK'
    BY <1>1 DEF Crash, LeaveRun
  <2>3. RecoveryOK'
    BY <1>1 DEF Crash, LeaveRun
  <2> QED BY <2>1, <2>2, <2>3
<1>2. CASE Restart(m)
  <2>1. TypeOK'
    BY <1>2 DEF Restart
  <2>2. ThreadOK'
    BY <1>2 DEF Restart
  <2>3. RecoveryOK'
    BY <1>2 DEF Restart
  <2> QED BY <2>1, <2>2, <2>3
<1>3. CASE CheckConflict(m)
  <2>1. TypeOK'
    BY <1>3 DEF CheckConflict
  <2>2. ThreadOK'
    BY <1>3 DEF CheckConflict
  <2>3. RecoveryOK'
    BY <1>3 DEF CheckConflict
  <2> QED BY <2>1, <2>2, <2>3
<1>4. CASE Restore(m)
  <2>1. TypeOK'
    BY <1>4 DEF Restore, Restored
  <2>2. ThreadOK'
    BY <1>4 DEF Restore, Restored
  <2>3. RecoveryOK'
    BY <1>4 DEF Restore, Restored
  <2> QED BY <2>1, <2>2, <2>3
<1>5. CASE RestoreRenamed(m)
  <2>1. TypeOK'
    BY <1>5 DEF RestoreRenamed, Restored
  <2>2. ThreadOK'
    BY <1>5 DEF RestoreRenamed, Restored
  <2>3. RecoveryOK'
    BY <1>5 DEF RestoreRenamed, Restored
  <2> QED BY <2>1, <2>2, <2>3
<1>6. CASE RestoreError(m)
  <2>1. TypeOK'
    BY <1>6 DEF RestoreError
  <2>2. ThreadOK'
    BY <1>6 DEF RestoreError
  <2>3. RecoveryOK'
    BY <1>6 DEF RestoreError
  <2> QED BY <2>1, <2>2, <2>3
<1>7. CASE Ready(m)
  <2>1. TypeOK'
    BY <1>7 DEF Ready
  <2>2. ThreadOK'
    BY <1>7 DEF Ready
  <2>3. RecoveryOK'
    BY <1>7 DEF Ready
  <2> QED BY <2>1, <2>2, <2>3
<1> QED BY <1>1, <1>2, <1>3, <1>4, <1>5, <1>6, <1>7 DEF RecoverStranded

(* ... and the scanner only adds a document to the watch folder.           *)
LEMMA ScannerControl ==
  ASSUME Control, NEW d \in Docs, Drop(d) \/ Settle(d)
  PROVE  Control'
<1> USE DEF Control, TypeOK, ThreadOK, RecoveryOK, Folder, Working, tree, scanner,
            backend, process, file, thread, budgets
<1>1. CASE Drop(d)
  BY <1>1 DEF Drop
<1>2. CASE Settle(d)
  BY <1>2 DEF Settle
<1> QED BY <1>1, <1>2

(* Every step keeps the control invariant.                                 *)
LEMMA NextControl == Control /\ [Next]_vars => Control'
<1> SUFFICES ASSUME Control, [Next]_vars PROVE Control'
  OBVIOUS
<1>1. CASE \E d \in Docs : Drop(d) \/ Settle(d)
  BY <1>1, ScannerControl
<1>2. CASE \E r \in Runners : StartRun(r) \/ RunOnce(r)
  BY <1>2, FindSettledControl, ClaimFileControl, ProcessFileControl DEF RunOnce
<1>3. CASE \E m \in Machines : Crash(m) \/ Restart(m) \/ RecoverStranded(m)
  BY <1>3, MachineControl
<1>4. CASE UNCHANGED vars
  BY <1>4 DEF vars, Control, TypeOK, ThreadOK, RecoveryOK, tree, scanner,
              backend, process, thread, budgets
<1> QED BY <1>1, <1>2, <1>3, <1>4 DEF Next

(* The control invariant holds in every state: no step of run_once reads a *)
(* local variable that is not set, and no thread outlives its machine's    *)
(* process.                                                                *)
THEOREM ControlInvariant == Spec => []Control
<1>1. Init => Control
  BY InitControl
<1>2. Control /\ [Next]_vars => Control'
  BY NextControl
<1> QED BY <1>1, <1>2, PTL DEF Spec

(* In every reachable state every variable of the model has its type.      *)
THEOREM TypeCorrect == Spec => []TypeOK
<1>1. Control => TypeOK
  BY DEF Control
<1> QED BY <1>1, ControlInvariant, PTL

(* A thread takes a step only while its machine is up, and moves files in  *)
(* and out of its own machine's subfolder only.                            *)
LEMMA RunnerIsUp ==
  ASSUME Control, NEW r \in Runners, StartRun(r) \/ RunOnce(r)
  PROVE  proc[MachineOf[r]] = "up"
<1>1. CASE StartRun(r)
  BY <1>1 DEF StartRun
<1>2. CASE RunOnce(r)
  <2>1. pc[r] # "idle"
    BY <1>2 DEF RunOnce, FindSettled, ClaimFile, ProcessFile,
      IsFile, NoFile, Stat, StatVanished, Listed, Claim, LostClaim, ClaimError, FinishRun,
      Render, RenderError, Accepted, NotAccepted, UploadError, Complete, Quarantine,
      RetryLater, DisposeError, PutBack, PutBackError
  <2> QED BY <2>1 DEF Control, ThreadOK
<1> QED BY <1>1, <1>2

(* A step of a runner's thread leaves other machines' subfolders alone.    *)
LEMMA RunnerStaysHome ==
  ASSUME Control, NEW r \in Runners, StartRun(r) \/ RunOnce(r),
         NEW m \in Machines, m # MachineOf[r]
  PROVE  inProgress'[m] = inProgress[m]
<1> USE DEF Control, TypeOK, tree
<1>1. CASE Claim(r)
  BY <1>1 DEF Claim
<1>2. CASE Complete(r) \/ Quarantine(r) \/ RetryLater(r) \/ PutBack(r)
  BY <1>2 DEF Complete, Quarantine, RetryLater, PutBack, Release
<1>3. CASE ~(Claim(r) \/ Complete(r) \/ Quarantine(r) \/ RetryLater(r) \/ PutBack(r))
  BY <1>3 DEF StartRun, RunOnce, FindSettled, ClaimFile, ProcessFile,
    IsFile, NoFile, Stat, StatVanished, Listed, LostClaim, ClaimError, FinishRun,
    Render, RenderError, Accepted, NotAccepted, UploadError, DisposeError, PutBackError, NextPage
<1> QED BY <1>1, <1>2, <1>3

(* A step of a runner's thread starts and stops no process.                *)
LEMMA RunnerKeepsProc ==
  ASSUME NEW r \in Runners, StartRun(r) \/ RunOnce(r)
  PROVE  UNCHANGED proc
  BY DEF process, StartRun, RunOnce, FindSettled, ClaimFile, ProcessFile,
     IsFile, NoFile, Stat, StatVanished, Listed, Claim, LostClaim, ClaimError, FinishRun,
     Render, RenderError, Accepted, NotAccepted, UploadError, Complete, Quarantine,
     RetryLater, DisposeError, PutBack, PutBackError, NextPage, EndFile

-----------------------------------------------------------------------------
(* A step that moves no file keeps every place.                            *)
LEMMA StillPlace ==
  ASSUME Place, UNCHANGED <<watch, inProgress, processed, failed, orphans, dropped>>
  PROVE  Place'
  BY DEF Place, NamesKept, Apart, InWatch, InHold, InProcessed, InFailed

(* A claim takes a file out of the watch folder into one subfolder.        *)
LEMMA ClaimPlace ==
  ASSUME TypeOK, Place, NEW m \in Machines, NEW n \in Names, watch[n] # None,
         inProgress' = [inProgress EXCEPT ![m][n] = watch[n]],
         watch' = [watch EXCEPT ![n] = None],
         UNCHANGED <<processed, failed, orphans, dropped>>
  PROVE  Place'
<1> USE DEF TypeOK, Folder
<1>1. NamesKept'
  BY DEF Place, NamesKept
<1>2. Apart'
  BY DEF Place, NamesKept, Apart, InWatch, InHold, InProcessed, InFailed
<1> QED BY <1>1, <1>2 DEF Place

(* A file leaves a subfolder for exactly one other place.                  *)
LEMMA ReleasePlace ==
  ASSUME TypeOK, Place, NEW m \in Machines, NEW n \in Names, inProgress[m][n] # None,
         inProgress' = [inProgress EXCEPT ![m][n] = None],
         UNCHANGED dropped,
         \/ /\ watch' = [watch EXCEPT ![n] = inProgress[m][n]]
            /\ UNCHANGED <<processed, failed, orphans>>
         \/ /\ processed' = [processed EXCEPT ![n] = inProgress[m][n]]
            /\ UNCHANGED <<watch, failed, orphans>>
         \/ /\ failed' = [failed EXCEPT ![n] = inProgress[m][n]]
            /\ UNCHANGED <<watch, processed, orphans>>
         \/ /\ orphans' = orphans \cup {inProgress[m][n]}
            /\ UNCHANGED <<watch, processed, failed>>
  PROVE  Place'
<1> USE DEF TypeOK, Folder
<1>1. NamesKept'
  BY DEF Place, NamesKept
<1>2. Apart'
  BY DEF Place, NamesKept, Apart, InWatch, InHold, InProcessed, InFailed
<1> QED BY <1>1, <1>2 DEF Place

(* A new document arrives under a name that is free in the watch folder.   *)
LEMMA DropPlace ==
  ASSUME TypeOK, Place, NEW d \in Docs, Drop(d)
  PROVE  Place'
<1> USE DEF TypeOK, Folder, Drop
<1>1. NamesKept'
  BY DEF Place, NamesKept
<1>2. Apart'
  BY DEF Place, NamesKept, Apart, InWatch, InHold, InProcessed, InFailed
<1> QED BY <1>1, <1>2 DEF Place

(* Every step keeps each document under its own name and in one place.     *)
LEMMA NextPlace == Control /\ Place /\ [Next]_vars => Place'
<1> SUFFICES ASSUME Control, Place, [Next]_vars PROVE Place'
  OBVIOUS
<1> USE DEF Control, tree, scanner, budgets
<1>1. ASSUME NEW d \in Docs, Drop(d) \/ Settle(d) PROVE Place'
  BY <1>1, DropPlace, StillPlace DEF Settle
<1>2. ASSUME NEW r \in Runners, StartRun(r) \/ FindSettled(r) PROVE Place'
  BY <1>2, StillPlace DEF StartRun, FindSettled, IsFile, NoFile, Stat, StatVanished, Listed
<1>3. ASSUME NEW r \in Runners, ClaimFile(r) PROVE Place'
  <2>1. CASE Claim(r)
    BY <2>1, ClaimPlace DEF Claim, TypeOK
  <2>2. CASE LostClaim(r) \/ ClaimError(r) \/ FinishRun(r)
    BY <2>2, StillPlace DEF LostClaim, ClaimError, FinishRun
  <2> QED BY <1>3, <2>1, <2>2 DEF ClaimFile
<1>4. ASSUME NEW r \in Runners, ProcessFile(r) PROVE Place'
  <2>1. CASE Render(r) \/ RenderError(r) \/ UploadError(r) \/ DisposeError(r)
    BY <2>1, StillPlace DEF Render, RenderError, UploadError, DisposeError
  <2>2. CASE Accepted(r) \/ NotAccepted(r)
    BY <2>2, StillPlace DEF Accepted, NotAccepted, NextPage
  <2>3. CASE PutBackError(r)
    BY <2>3, StillPlace DEF PutBackError, EndFile
  <2>4. CASE Complete(r) \/ Quarantine(r) \/ RetryLater(r) \/ PutBack(r)
    <3>1. cur[r] \in Names /\ MachineOf[r] \in Machines
      BY <2>4 DEF Complete, Quarantine, RetryLater, PutBack, ThreadOK, Working
    <3> QED BY <2>4, <3>1, ReleasePlace DEF Complete, Quarantine, RetryLater, PutBack,
               Release, EndFile, Claimed, Mine
  <2> QED BY <1>4, <2>1, <2>2, <2>3, <2>4 DEF ProcessFile
<1>5. ASSUME NEW m \in Machines, Crash(m) \/ Restart(m) \/ RecoverStranded(m) PROVE Place'
  <2>1. CASE Crash(m) \/ Restart(m) \/ CheckConflict(m) \/ RestoreError(m) \/ Ready(m)
    BY <2>1, StillPlace DEF Crash, Restart, CheckConflict, RestoreError, Ready
  <2>2. CASE Restore(m) \/ RestoreRenamed(m)
    <3>1. recName[m] \in Names /\ inProgress[m][recName[m]] # None
      BY <2>2 DEF Restore, RestoreRenamed, RecoveryOK, TypeOK
    <3> QED BY <2>2, <3>1, ReleasePlace DEF Restore, RestoreRenamed, Restored
  <2> QED BY <1>5, <2>1, <2>2 DEF RecoverStranded
<1>6. CASE UNCHANGED vars
  BY <1>6, StillPlace DEF vars
<1> QED BY <1>1, <1>2, <1>3, <1>4, <1>5, <1>6 DEF Next, RunOnce

(* A fresh installation holds no documents.                                *)
LEMMA InitPlace == Init => Place
  BY DEF Init, Empty, Place, NamesKept, Apart, InWatch, InHold, InProcessed, InFailed

(* A document is only ever under its own name and in one place.            *)
THEOREM PlaceInvariant == Spec => []Place
<1>1. Init => Place
  BY InitPlace
<1>2. Control /\ Place /\ [Next]_vars => Place'
  BY NextPlace
<1> QED BY <1>1, <1>2, ControlInvariant, PTL DEF Spec

(* Whatever races, crashes and reuses of a name occur, no document is in   *)
(* two places, so never in two machines' in-progress subfolders.           *)
THEOREM SingleCustody == Spec => []OnePlace
<1>1. TypeOK /\ Place => OnePlace
  <2> SUFFICES ASSUME TypeOK, Place PROVE OnePlace
    OBVIOUS
  <2>1. ASSUME NEW d \in Docs
        PROVE  /\ d \in WatchDocs => InWatch(d)
               /\ d \in ProcessedDocs => InProcessed(d)
               /\ d \in FailedDocs => InFailed(d)
               /\ \A m \in Machines : d \in HeldDocs(m) => InHold(m, d)
    BY DEF Place, NamesKept, In, WatchDocs, ProcessedDocs, FailedDocs, HeldDocs,
           InWatch, InHold, InProcessed, InFailed
  <2>2. WatchDocs \cup ProcessedDocs \cup FailedDocs \subseteq Docs
        /\ \A m \in Machines : HeldDocs(m) \subseteq Docs
    BY DEF In, WatchDocs, ProcessedDocs, FailedDocs, HeldDocs
  <2> QED BY <2>1, <2>2 DEF OnePlace, AllHeld, Place, Apart, TypeOK
<1> QED BY <1>1, ControlInvariant, PlaceInvariant, PTL DEF Control

-----------------------------------------------------------------------------
(* What a runner remembers of a file, names apart or not.  Its flags are   *)
(* about the document it rendered, and nobody else touches them.           *)

(* The only new number below n + 1 is n.                                   *)
LEMMA NatStep == \A p, q \in Nat : p < q + 1 => p < q \/ p = q
  OBVIOUS

(* The backend forgets nothing, and has the page on hand once it stored it.*)
LEMMA StoreGrows ==
  ASSUME Control, NEW r \in Runners, pc[r] = "upload", NEW k \in Nat, Store(r, k)
  PROVE  /\ \A d \in Docs : stored[d] \subseteq stored'[d]
         /\ k # 0 => page[r] \in stored'[held[r]]
  BY DEF Control, TypeOK, ThreadOK, Store

(* The flags of every runner that has a file in hand after the step are    *)
(* those it had before.                                                    *)
SameFlags == \A s \in Runners : pc'[s] \in {"upload", "dispose"} =>
  /\ pc'[s] = pc[s] /\ held'[s] = held[s] /\ page'[s] = page[s]
  /\ allOk'[s] = allOk[s] /\ unrecoverable'[s] = unrecoverable[s]

LEMMA FlagsKept ==
  ASSUME FlagsOK, SameFlags, UNCHANGED <<stored, refused>>
  PROVE  FlagsOK'
<1> SUFFICES ASSUME NEW s \in Runners, pc'[s] \in {"upload", "dispose"}
             PROVE  /\ allOk'[s] => \A p \in Nat : 1 <= p /\ p < page'[s] /\ p <= PagesOf[held'[s]]
                                                 => p \in stored'[held'[s]]
                    /\ unrecoverable'[s] => held'[s] \in refused'
                    /\ pc'[s] = "dispose" => page'[s] > PagesOf[held'[s]]
  BY DEF FlagsOK
<1>1. /\ pc'[s] = pc[s] /\ held'[s] = held[s] /\ page'[s] = page[s]
      /\ allOk'[s] = allOk[s] /\ unrecoverable'[s] = unrecoverable[s]
  BY DEF SameFlags
<1> QED BY <1>1 DEF FlagsOK

LEMMA LeaveRunFlags ==
  ASSUME NEW rs, LeaveRun(rs)
  PROVE  SameFlags
<1> SUFFICES ASSUME NEW s \in Runners, pc'[s] \in {"upload", "dispose"}
             PROVE  /\ pc'[s] = pc[s] /\ held'[s] = held[s] /\ page'[s] = page[s]
                    /\ allOk'[s] = allOk[s] /\ unrecoverable'[s] = unrecoverable[s]
  BY DEF SameFlags
<1>1. s \notin rs
  BY DEF LeaveRun
<1> QED BY <1>1 DEF LeaveRun

(* Every step keeps the flags true: only an upload changes what they say,  *)
(* and only about its own runner's document.                               *)
LEMMA NextFlags ==
  ASSUME Control, FlagsOK, [Next]_vars
  PROVE  FlagsOK'
<1> USE DEF Control, TypeOK, ThreadOK, Working, tree, scanner, backend, process, file, thread,
            budgets, Go
<1>1. ASSUME NEW d \in Docs, Drop(d) \/ Settle(d) PROVE FlagsOK'
  BY <1>1 DEF Drop, Settle, FlagsOK
<1>2. ASSUME NEW r \in Runners, StartRun(r) \/ FindSettled(r) PROVE FlagsOK'
  <2>1. CASE StartRun(r) \/ IsFile(r) \/ NoFile(r) \/ Stat(r) \/ Listed(r)
    <3>1. SameFlags
      BY <2>1 DEF StartRun, IsFile, NoFile, Stat, Listed, SameFlags
    <3> QED BY <2>1, <3>1, FlagsKept DEF StartRun, IsFile, NoFile, Stat, Listed
  <2>2. CASE StatVanished(r)
    BY <2>2, LeaveRunFlags, FlagsKept DEF StatVanished
  <2> QED BY <1>2, <2>1, <2>2 DEF FindSettled
<1>3. ASSUME NEW r \in Runners, ClaimFile(r) PROVE FlagsOK'
  <2>1. CASE Claim(r) \/ LostClaim(r)
    <3>1. SameFlags
      BY <2>1 DEF Claim, LostClaim, SameFlags
    <3> QED BY <2>1, <3>1, FlagsKept DEF Claim, LostClaim
  <2>2. CASE ClaimError(r) \/ FinishRun(r)
    BY <2>2, LeaveRunFlags, FlagsKept DEF ClaimError, FinishRun
  <2> QED BY <1>3, <2>1, <2>2 DEF ClaimFile
<1>4. ASSUME NEW r \in Runners, Render(r) \/ RenderError(r) PROVE FlagsOK'
  BY <1>4 DEF Render, RenderError, FlagsOK, Claimed, Mine
<1>5. ASSUME NEW r \in Runners, Accepted(r) PROVE FlagsOK'
  <2>1. /\ \A d \in Docs : stored[d] \subseteq stored'[d]
        /\ page[r] \in stored'[held[r]] /\ held[r] \in Docs
    BY <1>5, StoreGrows DEF Accepted
  <2>2. /\ pc[r] = "upload" /\ held' = held /\ page'[r] = page[r] + 1
        /\ pc'[r] = IF page[r] < PagesOf[held[r]] THEN "upload" ELSE "dispose"
        /\ UNCHANGED <<allOk, unrecoverable, refused>>
        /\ \A s \in Runners : s # r => pc'[s] = pc[s] /\ page'[s] = page[s]
    BY <1>5 DEF Accepted, NextPage
  <2>3. SUFFICES ASSUME NEW s \in Runners, pc'[s] \in {"upload", "dispose"}
                 PROVE  /\ allOk[s] => \A p \in Nat :
                             1 <= p /\ p < page'[s] /\ p <= PagesOf[held[s]] => p \in stored'[held[s]]
                        /\ unrecoverable[s] => held[s] \in refused
                        /\ pc'[s] = "dispose" => page'[s] > PagesOf[held[s]]
    BY <2>2 DEF FlagsOK
  <2>4. CASE s = r
    <3>1. page[r] \in Nat /\ PagesOf[held[r]] \in Nat
      BY <2>1
    <3>2. /\ allOk[r] => \A p \in Nat :
               1 <= p /\ p < page[r] /\ p <= PagesOf[held[r]] => p \in stored[held[r]]
          /\ unrecoverable[r] => held[r] \in refused
      BY <2>2 DEF FlagsOK
    <3>3. \A p \in Nat : p < page[r] + 1 => p < page[r] \/ p = page[r]
      BY <3>1, NatStep
    <3>4. pc'[r] = "dispose" => page[r] + 1 > PagesOf[held[r]]
      BY <2>2, <3>1
    <3> QED BY <2>1, <2>2, <2>4, <3>2, <3>3, <3>4
  <2>5. CASE s # r
    BY <2>1, <2>2, <2>3, <2>5 DEF FlagsOK
  <2> QED BY <2>4, <2>5
<1>6. ASSUME NEW r \in Runners, NotAccepted(r) PROVE FlagsOK'
  BY <1>6 DEF NotAccepted, NextPage, Store, FlagsOK
<1>7. ASSUME NEW r \in Runners, UploadError(r) PROVE FlagsOK'
  BY <1>7 DEF UploadError, Store, FlagsOK
<1>8. ASSUME NEW r \in Runners,
             \/ Complete(r) \/ Quarantine(r) \/ RetryLater(r) \/ DisposeError(r)
             \/ PutBack(r) \/ PutBackError(r)
      PROVE  FlagsOK'
  BY <1>8 DEF Complete, Quarantine, RetryLater, DisposeError, PutBack, PutBackError, EndFile, FlagsOK
<1>9. ASSUME NEW m \in Machines, Crash(m) \/ Restart(m) \/ RecoverStranded(m) PROVE FlagsOK'
  <2>1. CASE Crash(m)
    BY <2>1, LeaveRunFlags, FlagsKept DEF Crash
  <2>2. CASE Restart(m) \/ RecoverStranded(m)
    <3>1. SameFlags
      BY <2>2 DEF Restart, RecoverStranded, CheckConflict, Restore, RestoreRenamed,
         Restored, RestoreError, Ready, SameFlags
    <3> QED BY <2>2, <3>1, FlagsKept DEF Restart, RecoverStranded, CheckConflict, Restore,
               RestoreRenamed, Restored, RestoreError, Ready
  <2> QED BY <1>9, <2>1, <2>2
<1>10. CASE UNCHANGED vars
  BY <1>10 DEF vars, FlagsOK
<1> QED BY <1>1, <1>2, <1>3, <1>4, <1>5, <1>6, <1>7, <1>8, <1>9, <1>10 DEF Next, RunOnce, ProcessFile

(* As long as a runner holds what it rendered, what it puts at rest is     *)
(* what its flags say.                                                     *)
LEMMA NextAtRest ==
  ASSUME Control, Holding, FlagsOK, AtRestOK, [Next]_vars
  PROVE  AtRestOK'
<1> USE DEF Control, TypeOK, ThreadOK, Folder, Working, tree, scanner, backend, InProcessed, InFailed
<1>1. ASSUME UNCHANGED <<processed, failed, stored, refused>> PROVE AtRestOK'
  BY <1>1 DEF AtRestOK
<1>2. ASSUME NEW d \in Docs, Drop(d) \/ Settle(d) PROVE AtRestOK'
  BY <1>1, <1>2 DEF Drop, Settle
<1>3. ASSUME NEW r \in Runners, StartRun(r) \/ FindSettled(r) \/ ClaimFile(r) PROVE AtRestOK'
  BY <1>1, <1>3 DEF StartRun, FindSettled, IsFile, NoFile, Stat, StatVanished, Listed, ClaimFile,
     Claim, LostClaim, ClaimError, FinishRun
<1>4. ASSUME NEW r \in Runners, Accepted(r) \/ NotAccepted(r) \/ UploadError(r) PROVE AtRestOK'
  <2>1. PICK k \in Nat : Store(r, k)
    BY <1>4 DEF Accepted, NotAccepted, UploadError
  <2>2. \A d \in Docs : stored[d] \subseteq stored'[d]
    BY <1>4, <2>1, StoreGrows DEF Accepted, NotAccepted, UploadError
  <2>3. refused \subseteq refused' /\ UNCHANGED <<processed, failed>>
    BY <1>4 DEF Accepted, NotAccepted, UploadError, NextPage
  <2> QED BY <2>2, <2>3 DEF AtRestOK
<1>5. ASSUME NEW r \in Runners, Complete(r) PROVE AtRestOK'
  <2>1. held[r] = Claimed(r) /\ held[r] \in Docs /\ \A p \in 1 .. PagesOf[held[r]] : p \in stored[held[r]]
    BY <1>5 DEF Complete, Holding, FlagsOK
  <2> QED BY <1>5, <2>1 DEF Complete, EndFile, AtRestOK
<1>6. ASSUME NEW r \in Runners, Quarantine(r) PROVE AtRestOK'
  <2>1. Claimed(r) \in refused
    BY <1>6 DEF Quarantine, Holding, FlagsOK
  <2> QED BY <1>6, <2>1 DEF Quarantine, EndFile, AtRestOK
<1>7. ASSUME NEW r \in Runners,
             \/ Render(r) \/ RenderError(r) \/ RetryLater(r) \/ DisposeError(r)
             \/ PutBack(r) \/ PutBackError(r)
      PROVE  AtRestOK'
  BY <1>1, <1>7 DEF Render, RenderError, RetryLater, DisposeError, PutBack, PutBackError, EndFile
<1>8. ASSUME NEW m \in Machines, Crash(m) \/ Restart(m) \/ RecoverStranded(m) PROVE AtRestOK'
  BY <1>1, <1>8 DEF Crash, Restart, RecoverStranded, CheckConflict, Restore, RestoreRenamed,
     Restored, RestoreError, Ready
<1>9. CASE UNCHANGED vars
  BY <1>1, <1>9 DEF vars
<1> QED BY <1>2, <1>3, <1>4, <1>5, <1>6, <1>7, <1>8, <1>9 DEF Next, RunOnce, ProcessFile

(* One polling thread per machine: no manual run overlaps a scheduled one  *)
(* (FR-006b).                                                              *)
OneRunnerEach == \A r, s \in Runners : MachineOf[r] = MachineOf[s] => r = s

(* A step of a runner's thread touches no other thread.                    *)
LEMMA RunnerMindsItself ==
  ASSUME TypeOK, NEW r \in Runners, StartRun(r) \/ RunOnce(r), NEW s \in Runners, s # r
  PROVE  pc'[s] = pc[s] /\ cur'[s] = cur[s] /\ held'[s] = held[s]
<1> USE DEF Go, file, thread
<1>0. pc \in [Runners -> {"idle", "is_file", "stat", "claim"} \cup Working]
      /\ cur \in [Runners -> Names \cup {None}] /\ held \in [Runners -> Docs \cup {None}]
  BY DEF TypeOK
<1>1. CASE StatVanished(r) \/ ClaimError(r) \/ FinishRun(r)
  <2>1. LeaveRun({r})
    BY <1>1 DEF StatVanished, ClaimError, FinishRun
  <2> QED BY <2>1 DEF LeaveRun
<1>2. CASE StartRun(r) \/ IsFile(r) \/ NoFile(r) \/ Stat(r) \/ Listed(r)
  BY <1>0, <1>2 DEF StartRun, IsFile, NoFile, Stat, Listed
<1>3. CASE Claim(r) \/ LostClaim(r)
  BY <1>0, <1>3 DEF Claim, LostClaim
<1>4. CASE ProcessFile(r)
  BY <1>0, <1>4 DEF ProcessFile, Render, RenderError, Accepted, NotAccepted, UploadError,
     NextPage, Complete, Quarantine, RetryLater, DisposeError, PutBack, PutBackError, EndFile
<1> QED BY <1>1, <1>2, <1>3, <1>4 DEF RunOnce, FindSettled, ClaimFile

(* A runner that is alone on its machine holds what it rendered: recovery  *)
(* is over before it runs, and nobody else renames files into or out of    *)
(* its machine's subfolder.                                                *)
LEMMA NextHolding ==
  ASSUME OneRunnerEach, Control, Holding, [Next]_vars
  PROVE  Holding'
<1> USE DEF Control, TypeOK, ThreadOK, Working, process, file, thread, Go, Claimed, Mine, Holding
<1>1. ASSUME UNCHANGED <<pc, cur, held, inProgress>> PROVE Holding'
  BY <1>1
<1>2. ASSUME NEW d \in Docs, Drop(d) \/ Settle(d) PROVE Holding'
  BY <1>1, <1>2 DEF Drop, Settle, tree
<1>3. ASSUME NEW r \in Runners, StartRun(r) \/ RunOnce(r) PROVE Holding'
  <2>1. ASSUME NEW s \in Runners, s # r
        PROVE  /\ pc'[s] = pc[s] /\ cur'[s] = cur[s] /\ held'[s] = held[s]
               /\ inProgress'[MachineOf[s]] = inProgress[MachineOf[s]]
    <3>1. MachineOf[s] # MachineOf[r]
      BY <2>1 DEF OneRunnerEach
    <3>2. inProgress'[MachineOf[s]] = inProgress[MachineOf[s]]
      BY <1>3, <3>1, RunnerStaysHome
    <3> QED BY <1>3, <2>1, <3>2, RunnerMindsItself
  <2>2. pc'[r] \in {"upload", "dispose"} => held'[r] = inProgress'[MachineOf[r]][cur'[r]]
    <3>1. CASE Render(r)
      BY <3>1 DEF Render, tree
    <3>2. CASE Accepted(r) \/ NotAccepted(r)
      BY <3>2 DEF Accepted, NotAccepted, NextPage, tree
    <3>3. CASE ~(Render(r) \/ Accepted(r) \/ NotAccepted(r))
      <4>1. CASE StatVanished(r) \/ ClaimError(r) \/ FinishRun(r)
        <5>1. pc'[r] = "idle"
          BY <4>1 DEF StatVanished, ClaimError, FinishRun, LeaveRun
        <5> QED BY <5>1
      <4>2. CASE ~(StatVanished(r) \/ ClaimError(r) \/ FinishRun(r))
        <5>1. pc'[r] \notin {"upload", "dispose"}
          BY <1>3, <3>3, <4>2 DEF RunOnce, StartRun, FindSettled, IsFile, NoFile, Stat, Listed,
             ClaimFile, Claim, LostClaim, ProcessFile, RenderError,
             UploadError, Complete, Quarantine, RetryLater, DisposeError, PutBack, PutBackError, EndFile
        <5> QED BY <5>1
      <4> QED BY <4>1, <4>2
    <3> QED BY <3>1, <3>2, <3>3
  <2> QED BY <2>1, <2>2
<1>4. ASSUME NEW m \in Machines, Crash(m) PROVE Holding'
  BY <1>4 DEF Crash, LeaveRun, tree
<1>5. ASSUME NEW m \in Machines, Restart(m) \/ CheckConflict(m) \/ RestoreError(m) \/ Ready(m)
      PROVE  Holding'
  BY <1>1, <1>5 DEF Restart, CheckConflict, RestoreError, Ready, tree
<1>6. ASSUME NEW m \in Machines, Restore(m) \/ RestoreRenamed(m) PROVE Holding'
  <2>1. \A r \in Runners : pc[r] # "idle" => inProgress'[MachineOf[r]] = inProgress[MachineOf[r]]
    BY <1>6 DEF Restore, RestoreRenamed, Restored
  <2> QED BY <1>6, <2>1 DEF Restore, RestoreRenamed, Restored
<1>7. CASE UNCHANGED vars
  BY <1>1, <1>7 DEF vars, tree
<1> QED BY <1>2, <1>3, <1>4, <1>5, <1>6, <1>7 DEF Next, RecoverStranded

-----------------------------------------------------------------------------
(* With distinct names, from here on.  A name is then in use in one place. *)
LEMMA OneSlot ==
  ASSUME UniqueNames, TypeOK, Place, NEW n \in Names
  PROVE  /\ watch[n] # None => processed[n] = None /\ failed[n] = None
         /\ processed[n] # None => failed[n] = None
         /\ \A m \in Machines : inProgress[m][n] # None =>
              /\ watch[n] = None /\ processed[n] = None /\ failed[n] = None
              /\ \A k \in Machines : inProgress[k][n] # None => k = m
  BY DEF UniqueNames, TypeOK, Folder, Place, NamesKept, Apart,
         InWatch, InHold, InProcessed, InFailed

(* A fresh installation satisfies the invariant of distinct names.         *)
LEMMA InitCareful == Init => Careful
  BY DEF Init, Empty, Careful, ClaimOK, SettledOK, Kept, NoConflict,
         InWatch, InHold, InProcessed, InFailed, Working

(* With distinct names, one part of the system at a time: the scanner and  *)
(* the clock ...                                                           *)
LEMMA ScannerCareful ==
  ASSUME UniqueNames, Control, Place, Careful, NEW d \in Docs,
         Drop(d) \/ Settle(d)
  PROVE  Careful'
<1> USE DEF Control, TypeOK, ThreadOK, RecoveryOK, Folder, Working, Careful, Place,
            tree, scanner, backend, process, file, thread, budgets, Go, Claimed, Mine,
            InWatch, InHold, InProcessed, InFailed
<1>1. CASE Drop(d)
  <2>1. SettledOK'
    <3>1. \A m \in Machines : ~InHold(m, d)
      BY <1>1 DEF Drop, Apart
    <3> QED BY <1>1, <3>1 DEF Drop, SettledOK
  <2>2. ClaimOK' /\ Kept' /\ NoConflict'
    BY <1>1, OneSlot DEF Drop, ClaimOK, Kept, NoConflict
  <2> QED BY <2>1, <2>2
<1>2. CASE Settle(d)
  BY <1>2, OneSlot DEF Settle, ClaimOK, SettledOK, Kept, NoConflict
<1> QED BY <1>1, <1>2

(* ... _find_settled puts only settled files on a runner's list ...        *)
LEMMA FindSettledCareful ==
  ASSUME UniqueNames, Control, Place, Careful, NEW r \in Runners,
         StartRun(r) \/ IsFile(r) \/ NoFile(r) \/ Stat(r) \/ StatVanished(r) \/ Listed(r)
  PROVE  Careful'
<1> USE DEF Control, TypeOK, ThreadOK, RecoveryOK, Folder, Working, Careful, Place,
            tree, scanner, backend, process, file, thread, budgets, Go, Claimed, Mine,
            InWatch, InHold, InProcessed, InFailed
<1>1. CASE StartRun(r)
  BY <1>1, OneSlot DEF StartRun, ClaimOK, SettledOK, Kept, NoConflict
<1>2. CASE IsFile(r)
  BY <1>2, OneSlot DEF IsFile, ClaimOK, SettledOK, Kept, NoConflict
<1>3. CASE NoFile(r)
  BY <1>3, OneSlot DEF NoFile, ClaimOK, SettledOK, Kept, NoConflict
<1>4. CASE Stat(r)
  <2>1. SettledOK'
    BY <1>4 DEF Stat, SettledOK, NamesKept
  <2>2. ClaimOK' /\ Kept' /\ NoConflict'
    BY <1>4, OneSlot DEF Stat, ClaimOK, Kept, NoConflict
  <2> QED BY <2>1, <2>2
<1>5. CASE StatVanished(r)
  BY <1>5, OneSlot DEF StatVanished, LeaveRun, ClaimOK, SettledOK, Kept, NoConflict
<1>6. CASE Listed(r)
  BY <1>6, OneSlot DEF Listed, ClaimOK, SettledOK, Kept, NoConflict
<1> QED BY <1>1, <1>2, <1>3, <1>4, <1>5, <1>6

(* ... claim_file takes the document that was found settled ...            *)
LEMMA ClaimFileCareful ==
  ASSUME UniqueNames, Control, Place, Careful, NEW r \in Runners,
         Claim(r) \/ LostClaim(r) \/ ClaimError(r) \/ FinishRun(r)
  PROVE  Careful'
<1> USE DEF Control, TypeOK, ThreadOK, RecoveryOK, Folder, Working, Careful, Place,
            tree, scanner, backend, process, file, thread, budgets, Go, Claimed, Mine,
            InWatch, InHold, InProcessed, InFailed
<1>1. CASE Claim(r)
  <2>1. ClaimOK'
    <3>1. PICK n \in todo[r] : Claim(r)!(n)
      BY <1>1 DEF Claim
    <3>2. \A s \in Runners : pc[s] \in Working /\ MachineOf[s] = MachineOf[r] => cur[s] # n
      BY <3>1, OneSlot DEF ClaimOK
    <3> QED BY <3>1, <3>2, OneSlot DEF ClaimOK
  <2>2. SettledOK'
    <3>1. PICK n \in todo[r] : Claim(r)!(n)
      BY <1>1 DEF Claim
    <3>2. watch[n] \in settled
      BY <3>1 DEF SettledOK, UniqueNames, NamesKept
    <3> QED BY <3>1, <3>2 DEF SettledOK, NamesKept
  <2>3. Kept'
    <3>1. PICK n \in todo[r] : Claim(r)!(n)
      BY <1>1 DEF Claim
    <3>2. NameOf[watch[n]] = n /\ inProgress'[MachineOf[r]][n] = watch[n]
      BY <3>1 DEF NamesKept
    <3> QED BY <3>1, <3>2, OneSlot DEF Kept
  <2>4. NoConflict'
    BY <1>1 DEF Claim, NoConflict
  <2> QED BY <2>1, <2>2, <2>3, <2>4
<1>2. CASE LostClaim(r)
  BY <1>2, OneSlot DEF LostClaim, ClaimOK, SettledOK, Kept, NoConflict
<1>3. CASE ClaimError(r)
  BY <1>3, OneSlot DEF ClaimError, LeaveRun, ClaimOK, SettledOK, Kept, NoConflict
<1>4. CASE FinishRun(r)
  BY <1>4, OneSlot DEF FinishRun, LeaveRun, ClaimOK, SettledOK, Kept, NoConflict
<1> QED BY <1>1, <1>2, <1>3, <1>4

(* ... uploads record what the backend answered ...                        *)
LEMMA UploadCareful ==
  ASSUME UniqueNames, Control, Place, Careful, NEW r \in Runners,
         Render(r) \/ RenderError(r) \/ Accepted(r) \/ NotAccepted(r) \/ UploadError(r)
  PROVE  Careful'
<1> USE DEF Control, TypeOK, ThreadOK, RecoveryOK, Folder, Working, Careful, Place,
            tree, scanner, backend, process, file, thread, budgets, Go, Claimed, Mine,
            InWatch, InHold, InProcessed, InFailed
<1>1. CASE Render(r)
  BY <1>1, OneSlot DEF Render, ClaimOK, SettledOK, Kept, NoConflict
<1>2. CASE RenderError(r)
  BY <1>2, OneSlot DEF RenderError, ClaimOK, SettledOK, Kept, NoConflict
<1>3. CASE Accepted(r)
  BY <1>3, OneSlot DEF Accepted, NextPage, Store, ClaimOK, SettledOK, Kept, NoConflict
<1>4. CASE NotAccepted(r)
  BY <1>4, OneSlot DEF NotAccepted, NextPage, Store, ClaimOK, SettledOK, Kept, NoConflict
<1>5. CASE UploadError(r)
  BY <1>5, OneSlot DEF UploadError, Store, ClaimOK, SettledOK, Kept, NoConflict
<1> QED BY <1>1, <1>2, <1>3, <1>4, <1>5

(* ... _dispose acts on those records, on the document they are about ...  *)
LEMMA DisposeCareful ==
  ASSUME UniqueNames, Control, Place, Careful, NEW r \in Runners,
         Complete(r) \/ Quarantine(r) \/ RetryLater(r) \/ DisposeError(r) \/ PutBack(r) \/ PutBackError(r)
  PROVE  Careful'
<1> USE DEF Control, TypeOK, ThreadOK, RecoveryOK, Folder, Working, Careful, Place,
            tree, scanner, backend, process, file, thread, budgets, Go, Claimed, Mine,
            InWatch, InHold, InProcessed, InFailed
<1>1. CASE Complete(r)
  BY <1>1, OneSlot DEF Complete, Release, EndFile, ClaimOK, SettledOK, Kept, NoConflict
<1>2. CASE Quarantine(r)
  BY <1>2, OneSlot DEF Quarantine, Release, EndFile, ClaimOK, SettledOK, Kept, NoConflict
<1>3. CASE RetryLater(r)
  BY <1>3, OneSlot DEF RetryLater, Release, EndFile, ClaimOK, SettledOK, Kept, NoConflict
<1>4. CASE DisposeError(r)
  BY <1>4, OneSlot DEF DisposeError, ClaimOK, SettledOK, Kept, NoConflict
<1>5. CASE PutBack(r)
  BY <1>5, OneSlot DEF PutBack, Release, EndFile, ClaimOK, SettledOK, Kept, NoConflict
<1>6. CASE PutBackError(r)
  BY <1>6, OneSlot DEF PutBackError, EndFile, ClaimOK, SettledOK, Kept, NoConflict
<1> QED BY <1>1, <1>2, <1>3, <1>4, <1>5, <1>6

(* ... and recovery finds every name free.                                 *)
LEMMA MachineCareful ==
  ASSUME UniqueNames, Control, Place, Careful, NEW m \in Machines,
         Crash(m) \/ Restart(m) \/ CheckConflict(m) \/ Restore(m) \/ RestoreRenamed(m) \/ RestoreError(m) \/ Ready(m)
  PROVE  Careful'
<1> USE DEF Control, TypeOK, ThreadOK, RecoveryOK, Folder, Working, Careful, Place,
            tree, scanner, backend, process, file, thread, budgets, Go, Claimed, Mine,
            InWatch, InHold, InProcessed, InFailed
<1>1. CASE Crash(m)
  BY <1>1, OneSlot DEF Crash, LeaveRun, ClaimOK, SettledOK, Kept, NoConflict
<1>2. CASE Restart(m)
  BY <1>2, OneSlot DEF Restart, ClaimOK, SettledOK, Kept, NoConflict
<1>3. CASE CheckConflict(m)
  BY <1>3, OneSlot DEF CheckConflict, ClaimOK, SettledOK, Kept, NoConflict
<1>4. CASE Restore(m)
  <2>1. ClaimOK'
    BY <1>4, OneSlot DEF Restore, Restored, ClaimOK
  <2>2. SettledOK'
    BY <1>4, OneSlot DEF Restore, Restored, SettledOK
  <2>3. Kept'
    BY <1>4, OneSlot DEF Restore, Restored, Kept
  <2>4. NoConflict'
    BY <1>4, OneSlot DEF Restore, Restored, NoConflict
  <2> QED BY <2>1, <2>2, <2>3, <2>4
<1>5. CASE RestoreRenamed(m)
  <2>1. Kept'
    BY <1>5 DEF RestoreRenamed, NoConflict
  <2>2. ClaimOK' /\ SettledOK' /\ NoConflict'
    BY <1>5, OneSlot DEF RestoreRenamed, Restored, ClaimOK, SettledOK, NoConflict
  <2> QED BY <2>1, <2>2
<1>6. CASE RestoreError(m)
  BY <1>6, OneSlot DEF RestoreError, ClaimOK, SettledOK, Kept, NoConflict
<1>7. CASE Ready(m)
  BY <1>7, OneSlot DEF Ready, ClaimOK, SettledOK, Kept, NoConflict
<1> QED BY <1>1, <1>2, <1>3, <1>4, <1>5, <1>6, <1>7

(* Every step keeps the invariant of distinct names.                       *)
LEMMA NextCareful ==
  ASSUME UniqueNames, Control, Place, Careful, [Next]_vars
  PROVE  Careful'
<1>1. CASE \E d \in Docs : Drop(d) \/ Settle(d)
  BY <1>1, ScannerCareful
<1>2. CASE \E r \in Runners : StartRun(r) \/ RunOnce(r)
  BY <1>2, FindSettledCareful, ClaimFileCareful, UploadCareful, DisposeCareful
     DEF RunOnce, FindSettled, ClaimFile, ProcessFile
<1>3. CASE \E m \in Machines : Crash(m) \/ Restart(m) \/ RecoverStranded(m)
  BY <1>3, MachineCareful DEF RecoverStranded
<1>4. CASE UNCHANGED vars
  BY <1>4 DEF vars, tree, scanner, backend, process, thread, budgets, Careful,
              ClaimOK, SettledOK, Kept, NoConflict, Claimed, Mine,
              InWatch, InHold, InProcessed, InFailed
<1> QED BY <1>1, <1>2, <1>3, <1>4 DEF Next

(* With distinct names, even when a manual run overlaps a scheduled one on *)
(* the same machine, only one runner works on a file, recovery meets no    *)
(* name conflict, and no document is replaced.                             *)
THEOREM CarefulInvariant ==
  ASSUME UniqueNames
  PROVE  Spec => [](Control /\ Place /\ Careful)
<1>1. Init => Careful
  BY InitCareful
<1>2. Control /\ Place /\ Careful /\ [Next]_vars => Careful'
  BY NextCareful
<1> QED BY <1>1, <1>2, ControlInvariant, PlaceInvariant, PTL DEF Spec

(* A document is in a folder exactly when it is there under its own name.  *)
LEMMA InFolder ==
  ASSUME NEW f \in Folder, \A n \in Names : f[n] # None => NameOf[f[n]] = n,
         NEW d \in Docs
  PROVE  d \in In(f) <=> f[NameOf[d]] = d
<1>1. NameOf[d] \in Names /\ d # None
  OBVIOUS
<1>2. \A n \in Names : f[n] = d => NameOf[d] = n
  BY <1>1
<1> QED BY <1>1, <1>2 DEF In

(* A document is in a folder exactly when the folder has it under its      *)
(* name.                                                                   *)
LEMMA Where ==
  ASSUME NamesKept, TypeOK, NEW d \in Docs
  PROVE  /\ d \in WatchDocs <=> InWatch(d)
         /\ d \in ProcessedDocs <=> InProcessed(d)
         /\ d \in FailedDocs <=> InFailed(d)
         /\ \A m \in Machines : d \in HeldDocs(m) <=> InHold(m, d)
<1>1. /\ d \in In(watch) <=> watch[NameOf[d]] = d
      /\ d \in In(processed) <=> processed[NameOf[d]] = d
      /\ d \in In(failed) <=> failed[NameOf[d]] = d
  BY InFolder DEF NamesKept, TypeOK
<1>2. ASSUME NEW m \in Machines
      PROVE  d \in In(inProgress[m]) <=> inProgress[m][NameOf[d]] = d
  <2>1. inProgress[m] \in Folder
    BY DEF TypeOK
  <2> QED BY <2>1, InFolder DEF NamesKept
<1> QED BY <1>1, <1>2 DEF WatchDocs, ProcessedDocs, FailedDocs, HeldDocs,
           InWatch, InHold, InProcessed, InFailed

(* Zero losses, with distinct names.                                       *)
THEOREM ZeroLosses ==
  ASSUME UniqueNames
  PROVE  Spec => []NoLoss
<1>1. Control /\ Place /\ Careful => NoLoss
  BY Where DEF Control, TypeOK, Place, Careful, Kept, NoLoss, AllHeld
<1> QED BY <1>1, CarefulInvariant, PTL

(* The document a runner rendered is the one it disposes of, if names are  *)
(* distinct or the runner is alone on its machine; then flags and folders  *)
(* tell the truth.  A manual run beside a poll, with a name used twice,    *)
(* breaks this (overlap).                                                  *)
THEOREM HonestInvariant ==
  ASSUME UniqueNames \/ OneRunnerEach
  PROVE  Spec => [](Holding /\ Honest)
<1>1. Spec => []Holding
  <2>1. CASE UniqueNames
    <3>1. Careful => Holding
      BY DEF Careful, ClaimOK, Holding, Working
    <3> QED BY <2>1, <3>1, CarefulInvariant, PTL
  <2>2. CASE OneRunnerEach
    <3>1. Init => Holding
      BY DEF Init, Holding
    <3>2. Control /\ Holding /\ [Next]_vars => Holding'
      BY <2>2, NextHolding
    <3> QED BY <3>1, <3>2, ControlInvariant, PTL DEF Spec
  <2> QED BY <2>1, <2>2
<1>2. Init => Honest
  BY DEF Init, Empty, Honest, FlagsOK, AtRestOK, InProcessed, InFailed
<1>3. Control /\ Holding /\ Honest /\ [Next]_vars => Honest'
  BY NextFlags, NextAtRest DEF Honest
<1> QED BY <1>1, <1>2, <1>3, ControlInvariant, PTL DEF Spec

(* Every document in processed/ is stored completely, also when a name is  *)
(* used again, as long as one thread polls on each machine; and, with      *)
(* distinct names, however many threads do.                                *)
THEOREM DeliveredWhenProcessed ==
  ASSUME UniqueNames \/ OneRunnerEach
  PROVE  Spec => []ProcessedStored
<1>1. Control /\ Place /\ Honest => ProcessedStored
  BY Where DEF Control, Place, Honest, AtRestOK, ProcessedStored, Delivered, Pages,
               ProcessedDocs, In
<1> QED BY <1>1, ControlInvariant, PlaceInvariant, HonestInvariant, PTL

(* Every document in failed/ was refused for good, under the same          *)
(* conditions.                                                             *)
THEOREM RefusedWhenFailed ==
  ASSUME UniqueNames \/ OneRunnerEach
  PROVE  Spec => []QuarantineJustified
<1>1. Control /\ Place /\ Honest => QuarantineJustified
  BY Where DEF Control, Place, Honest, AtRestOK, QuarantineJustified, FailedDocs, In
<1> QED BY <1>1, ControlInvariant, PlaceInvariant, HonestInvariant, PTL

-----------------------------------------------------------------------------
(* Zero duplicates.  While nothing has failed, what the backend has of a   *)
(* document that is not at rest is what the one runner that renders it has *)
(* uploaded so far.                                                        *)
Quiet        == faults = 0 /\ crashes = 0
Uploading(r) == pc[r] \in {"upload", "dispose"}

WaitingFresh == \A d \in Docs : d \notin dropped \/ InWatch(d) => stored[d] = {}
HeldFresh == \A m \in Machines : \A d \in Docs : InHold(m, d) =>
  stored[d] = {} \/ \E r \in Runners : Uploading(r) /\ MachineOf[r] = m /\ held[r] = d
UploadsFresh == \A r \in Runners : Uploading(r) =>
  allOk[r] /\ \A p \in stored[held[r]] : p < page[r]

Fresh == duplicated = {} /\ WaitingFresh /\ HeldFresh /\ UploadsFresh

(* A document that is being uploaded is in no other runner's hands.        *)
Sole == \A r, s \in Runners :
  /\ pc[r] \in Working /\ Uploading(s)
  /\ MachineOf[s] = MachineOf[r] /\ held[s] = Claimed(r)
  => s = r

(* A step that moves no file and uploads nothing.                          *)
LEMMA StillFresh ==
  ASSUME Fresh, UNCHANGED <<watch, inProgress, dropped, stored, duplicated>>,
         \A r \in Runners : /\ Uploading(r)' <=> Uploading(r)
                            /\ Uploading(r) => /\ held'[r] = held[r] /\ page'[r] = page[r]
                                               /\ allOk'[r] = allOk[r]
  PROVE  Fresh'
<1>1. WaitingFresh'
  BY DEF Fresh, WaitingFresh, InWatch
<1>2. HeldFresh'
  BY DEF Fresh, HeldFresh, InHold
<1>3. UploadsFresh'
  BY DEF Fresh, UploadsFresh
<1> QED BY <1>1, <1>2, <1>3 DEF Fresh

(* The file a runner is working on is held under its name, and untouched   *)
(* as long as the runner has not begun to upload it.                       *)
LEMMA ClaimedFresh ==
  ASSUME Control, Place, Sole, Fresh, NEW r \in Runners, pc[r] \in {"process", "return"},
         Claimed(r) # None
  PROVE  Claimed(r) \in Docs /\ stored[Claimed(r)] = {}
<1>1. cur[r] \in Names /\ MachineOf[r] \in Machines
  BY DEF Control, ThreadOK, Working
<1>2. Claimed(r) \in Docs /\ InHold(MachineOf[r], Claimed(r))
  BY <1>1 DEF Control, TypeOK, Folder, Place, NamesKept, Claimed, Mine, InHold
<1>3. ~ \E s \in Runners : Uploading(s) /\ MachineOf[s] = MachineOf[r] /\ held[s] = Claimed(r)
  BY DEF Sole, Uploading, Working
<1> QED BY <1>1, <1>2, <1>3 DEF Fresh, HeldFresh

(* A file leaves its subfolder for the watch folder, untouched, or for     *)
(* another place; the runner that leaves it, if any, is done with it.      *)
LEMMA ReleaseFresh ==
  ASSUME TypeOK, Place, Fresh, NEW m \in Machines, NEW n \in Names,
         NEW d \in Docs, inProgress[m][n] = d,
         inProgress' = [inProgress EXCEPT ![m][n] = None],
         UNCHANGED <<dropped, stored, duplicated>>,
         \/ watch' = watch
         \/ watch' = [watch EXCEPT ![n] = d] /\ stored[d] = {},
         \A s \in Runners : Uploading(s)' =>
           Uploading(s) /\ held'[s] = held[s] /\ page'[s] = page[s] /\ allOk'[s] = allOk[s],
         \A s \in Runners : Uploading(s) /\ held[s] # d => Uploading(s)'
  PROVE  Fresh'
<1>1. NameOf[d] = n /\ d # None
  BY DEF Place, NamesKept
<1>2. WaitingFresh'
  <2>1. \A e \in Docs : watch'[NameOf[e]] = e => watch[NameOf[e]] = e \/ (e = d /\ stored[d] = {})
    BY <1>1 DEF TypeOK, Folder
  <2> QED BY <2>1 DEF Fresh, WaitingFresh, InWatch
<1>3. HeldFresh'
  <2> SUFFICES ASSUME NEW k \in Machines, NEW e \in Docs, InHold(k, e)'
               PROVE  \/ stored'[e] = {}
                      \/ \E s \in Runners : Uploading(s)' /\ MachineOf[s] = k /\ held'[s] = e
    BY DEF HeldFresh
  <2>1. InHold(k, e) /\ (k = m => e # d)
    BY <1>1 DEF InHold, TypeOK, Folder
  <2>2. InHold(m, d)
    BY <1>1 DEF InHold
  <2>3. e # d
    BY <2>1, <2>2 DEF Place, Apart
  <2> QED BY <2>1, <2>3 DEF Fresh, HeldFresh
<1>4. UploadsFresh'
  BY DEF Fresh, UploadsFresh
<1> QED BY <1>2, <1>3, <1>4 DEF Fresh

(* While nothing has failed, every step keeps it that way, and no page is  *)
(* stored twice.                                                           *)
LEMMA NextFresh ==
  ASSUME Control, Place, Holding, Sole, Quiet => Fresh, [Next]_vars, Quiet'
  PROVE  Fresh'
<1> USE DEF Go, file, thread, tree, scanner, backend, process
<1>0. Control /\ TypeOK /\ ThreadOK /\ RecoveryOK
  BY DEF Control
<1>1. faults \in Nat /\ crashes \in Nat /\ faults' = 0 /\ crashes' = 0
  BY <1>0 DEF TypeOK, Quiet
<1>2. ~Fault
  <2>1. SUFFICES ASSUME faults' = faults + 1 PROVE FALSE
    BY DEF Fault
  <2>2. PICK k \in Nat : faults = k
    BY <1>1
  <2>3. 0 = k + 1
    BY <1>1, <2>1, <2>2
  <2> QED BY <2>3
<1>3. \A m \in Machines : ~Crash(m)
  <2>1. SUFFICES ASSUME crashes' = crashes + 1 PROVE FALSE
    BY DEF Crash
  <2>2. PICK k \in Nat : crashes = k
    BY <1>1
  <2>3. 0 = k + 1
    BY <1>1, <2>1, <2>2
  <2> QED BY <2>3
<1>4. UNCHANGED budgets
  <2>1. ASSUME NEW d \in Docs, Drop(d) \/ Settle(d) PROVE UNCHANGED budgets
    BY <2>1 DEF Drop, Settle, budgets
  <2>2. ASSUME NEW r \in Runners, StartRun(r) \/ FindSettled(r) \/ ClaimFile(r)
        PROVE  UNCHANGED budgets
    BY <1>2, <2>2 DEF budgets, StartRun, FindSettled, IsFile, NoFile, Stat, StatVanished, Listed,
       ClaimFile, Claim, LostClaim, ClaimError, FinishRun
  <2>3. ASSUME NEW r \in Runners, ProcessFile(r) PROVE UNCHANGED budgets
    BY <1>2, <2>3 DEF budgets, NoFault, ProcessFile, Render, RenderError, Accepted, NotAccepted,
       UploadError, Complete, Quarantine, RetryLater, DisposeError, PutBack, PutBackError, Release
  <2>4. ASSUME NEW m \in Machines, Restart(m) \/ RecoverStranded(m) PROVE UNCHANGED budgets
    BY <1>2, <2>4 DEF budgets, Restart, RecoverStranded, CheckConflict, Restore, RestoreRenamed,
       Restored, RestoreError, Ready
  <2> QED BY <1>3, <2>1, <2>2, <2>3, <2>4 DEF Next, RunOnce, vars, budgets
<1>5. Fresh
  BY <1>1, <1>4 DEF budgets, Quiet
<1>6. ASSUME NEW d \in Docs, Drop(d) PROVE Fresh'
  <2>1. WaitingFresh'
    BY <1>0, <1>5, <1>6 DEF Drop, TypeOK, Folder, Fresh, WaitingFresh, InWatch
  <2>2. HeldFresh' /\ UploadsFresh' /\ duplicated' = {}
    BY <1>5, <1>6 DEF Drop, Fresh, HeldFresh, UploadsFresh, Uploading, InHold
  <2> QED BY <2>1, <2>2 DEF Fresh
<1>7. ASSUME NEW d \in Docs, Settle(d) PROVE Fresh'
  BY <1>5, <1>7, StillFresh DEF Settle, Uploading
<1>8. ASSUME NEW r \in Runners, StartRun(r) \/ FindSettled(r) PROVE Fresh'
  <2>1. CASE StatVanished(r)
    BY <1>5, <2>1, StillFresh DEF StatVanished, LeaveRun, Uploading
  <2>2. CASE StartRun(r) \/ IsFile(r) \/ NoFile(r) \/ Stat(r) \/ Listed(r)
    <3>1. \A s \in Runners : Uploading(s)' <=> Uploading(s)
      BY <1>0, <2>2 DEF StartRun, IsFile, NoFile, Stat, Listed, Uploading, TypeOK
    <3> QED BY <1>5, <2>2, <3>1, StillFresh DEF StartRun, IsFile, NoFile, Stat, Listed
  <2> QED BY <1>8, <2>1, <2>2 DEF FindSettled
<1>9. ASSUME NEW r \in Runners, ClaimFile(r) PROVE Fresh'
  <2>1. CASE Claim(r)
    <3>1. PICK n \in todo[r] : /\ pc[r] = "claim" /\ watch[n] # None
                               /\ inProgress' = [inProgress EXCEPT ![MachineOf[r]][n] = watch[n]]
                               /\ watch' = [watch EXCEPT ![n] = None]
                               /\ pc' = [pc EXCEPT ![r] = "process"]
      BY <2>1 DEF Claim
    <3>2. n \in Names /\ watch[n] \in Docs /\ NameOf[watch[n]] = n
      BY <1>0, <3>1 DEF TypeOK, Folder, Place, NamesKept
    <3>3. UNCHANGED <<dropped, stored, duplicated, held, page, allOk>>
      BY <2>1 DEF Claim
    <3>4. stored[watch[n]] = {}
      BY <1>5, <3>2 DEF Fresh, WaitingFresh, InWatch
    <3>5. \A s \in Runners : Uploading(s)' <=> Uploading(s)
      BY <1>0, <3>1 DEF Uploading, TypeOK
    <3>6. WaitingFresh'
      BY <1>0, <1>5, <3>1, <3>2, <3>3 DEF TypeOK, Folder, Fresh, WaitingFresh, InWatch
    <3>7. \A m \in Machines : \A d \in Docs : InHold(m, d)' => InHold(m, d) \/ d = watch[n]
      BY <1>0, <3>1, <3>2 DEF TypeOK, Folder, InHold
    <3>8. HeldFresh'
      BY <1>5, <3>3, <3>4, <3>5, <3>7 DEF Fresh, HeldFresh
    <3>9. UploadsFresh'
      BY <1>5, <3>3, <3>5 DEF Fresh, UploadsFresh
    <3> QED BY <1>5, <3>3, <3>6, <3>8, <3>9 DEF Fresh
  <2>2. CASE LostClaim(r)
    BY <1>5, <2>2, StillFresh DEF LostClaim, Uploading
  <2>3. CASE FinishRun(r)
    BY <1>5, <2>3, StillFresh DEF FinishRun, LeaveRun, Uploading
  <2> QED BY <1>2, <1>9, <2>1, <2>2, <2>3 DEF ClaimFile, ClaimError
<1>10. ASSUME NEW r \in Runners, Render(r) PROVE Fresh'
  <2>1. /\ pc[r] = "process" /\ Claimed(r) \in Docs
        /\ held' = [held EXCEPT ![r] = Claimed(r)] /\ page' = [page EXCEPT ![r] = 1]
        /\ allOk' = [allOk EXCEPT ![r] = TRUE]
        /\ pc' = [pc EXCEPT ![r] = IF PagesOf[Claimed(r)] = 0 THEN "dispose" ELSE "upload"]
        /\ UNCHANGED <<watch, inProgress, dropped, stored, duplicated>>
    BY <1>10 DEF Render
  <2>2. stored[Claimed(r)] = {}
    BY <1>0, <1>5, <2>1, ClaimedFresh
  <2>3. \A s \in Runners : s # r => /\ Uploading(s)' <=> Uploading(s)
                                    /\ held'[s] = held[s] /\ page'[s] = page[s] /\ allOk'[s] = allOk[s]
    BY <1>0, <2>1 DEF Uploading, TypeOK
  <2>4. Uploading(r)' /\ ~Uploading(r) /\ held'[r] = Claimed(r) /\ allOk'[r] = TRUE
    BY <1>0, <2>1 DEF Uploading, TypeOK
  <2>5. WaitingFresh'
    BY <1>5, <2>1 DEF Fresh, WaitingFresh, InWatch
  <2>6. HeldFresh'
    BY <1>5, <2>1, <2>3, <2>4 DEF Fresh, HeldFresh, InHold
  <2>7. UploadsFresh'
    BY <1>5, <2>1, <2>2, <2>3, <2>4 DEF Fresh, UploadsFresh
  <2> QED BY <1>5, <2>1, <2>5, <2>6, <2>7 DEF Fresh
<1>11. ASSUME NEW r \in Runners, Accepted(r) PROVE Fresh'
  <2>1. /\ pc[r] = "upload" /\ Store(r, 1) /\ held' = held /\ allOk' = allOk
        /\ page' = [page EXCEPT ![r] = @ + 1]
        /\ pc' = [pc EXCEPT ![r] = IF page[r] < PagesOf[held[r]] THEN "upload" ELSE "dispose"]
        /\ UNCHANGED <<watch, inProgress, dropped>>
    BY <1>2, <1>11 DEF Accepted, NextPage
  <2> DEFINE d == held[r]
  <2>2. d \in Docs /\ page[r] \in Nat /\ InHold(MachineOf[r], d)
    <3>1. cur[r] \in Names /\ d \in Docs /\ d = inProgress[MachineOf[r]][cur[r]]
      BY <1>0, <2>1 DEF ThreadOK, Working, Holding, Claimed, Mine
    <3> QED BY <1>0, <3>1 DEF TypeOK, Place, NamesKept, InHold
  <2>3. page[r] \notin stored[d] /\ allOk[r] /\ \A p \in stored[d] : p < page[r]
    BY <1>0, <1>5, <2>1, <2>2 DEF Fresh, UploadsFresh, Uploading, TypeOK
  <2>4. /\ stored' = [stored EXCEPT ![d] = @ \cup {page[r]}]
        /\ duplicated' = duplicated
    BY <2>1, <2>3 DEF Store
  <2>5. \A s \in Runners : Uploading(s)' <=> Uploading(s)
    BY <1>0, <2>1 DEF Uploading, TypeOK
  <2>6. d \in dropped /\ ~InWatch(d)
    BY <2>2 DEF Place, Apart
  <2>7. WaitingFresh'
    BY <1>0, <1>5, <2>1, <2>4, <2>6 DEF TypeOK, Fresh, WaitingFresh, InWatch
  <2>8. HeldFresh'
    <3>1. Uploading(r)'
      BY <2>1, <2>5 DEF Uploading
    <3>2. ASSUME NEW m \in Machines, NEW e \in Docs, InHold(m, e)'
          PROVE  \/ stored'[e] = {}
                 \/ \E s \in Runners : Uploading(s)' /\ MachineOf[s] = m /\ held'[s] = e
      <4>1. InHold(m, e)
        BY <2>1, <3>2 DEF InHold
      <4>2. CASE e = d
        BY <2>1, <2>2, <3>1, <4>1, <4>2 DEF Place, Apart
      <4>3. CASE e # d
        <5>1. stored'[e] = stored[e]
          BY <1>0, <2>4, <4>3 DEF TypeOK
        <5> QED BY <1>5, <2>1, <2>5, <4>1, <5>1 DEF Fresh, HeldFresh
      <4> QED BY <4>2, <4>3
    <3> QED BY <3>2 DEF HeldFresh
  <2>9. UploadsFresh'
    <3>1. ASSUME NEW s \in Runners, Uploading(s)'
          PROVE  allOk'[s] /\ \A p \in stored'[held'[s]] : p < page'[s]
      <4>1. Uploading(s)
        BY <2>5, <3>1
      <4>2. CASE s = r
        <5>1. stored'[d] = stored[d] \cup {page[r]} /\ page'[r] = page[r] + 1
          BY <1>0, <2>1, <2>2, <2>4 DEF TypeOK
        <5>2. \A p \in stored[d] : p \in Nat /\ p < page[r]
          BY <1>0, <2>2, <2>3 DEF TypeOK
        <5>3. \A p \in Nat : p < page[r] => p < page[r] + 1
          BY <2>2
        <5>4. page[r] < page[r] + 1
          BY <2>2
        <5> QED BY <2>1, <2>3, <4>2, <5>1, <5>2, <5>3, <5>4
      <4>3. CASE s # r
        <5>1. held[s] # d
          <6>1. SUFFICES ASSUME held[s] = d PROVE FALSE
            OBVIOUS
          <6>2. cur[s] \in Names /\ held[s] = inProgress[MachineOf[s]][cur[s]]
            BY <1>0, <4>1 DEF ThreadOK, Working, Uploading, Holding, Claimed, Mine
          <6>3. InHold(MachineOf[s], d)
            BY <1>0, <2>2, <6>1, <6>2 DEF Place, NamesKept, InHold
          <6>4. MachineOf[s] = MachineOf[r]
            BY <2>2, <6>3 DEF Place, Apart
          <6>5. d = Claimed(r) /\ pc[r] \in Working
            BY <2>1 DEF Holding, Working
          <6> QED BY <4>1, <4>3, <6>1, <6>4, <6>5 DEF Sole
        <5>2. stored'[held[s]] = stored[held[s]] /\ page'[s] = page[s] /\ held[s] \in Docs
          BY <1>0, <2>1, <2>4, <4>1, <4>3, <5>1 DEF TypeOK, ThreadOK, Uploading
        <5> QED BY <1>5, <2>1, <4>1, <5>2 DEF Fresh, UploadsFresh
      <4> QED BY <4>2, <4>3
    <3> QED BY <3>1 DEF UploadsFresh
  <2> QED BY <1>5, <2>4, <2>7, <2>8, <2>9 DEF Fresh
<1>12. ASSUME NEW r \in Runners, RenderError(r) \/ PutBackError(r) PROVE Fresh'
  <2>1. \A s \in Runners : Uploading(s)' <=> Uploading(s)
    BY <1>0, <1>12 DEF RenderError, PutBackError, EndFile, Uploading, TypeOK
  <2>2. /\ UNCHANGED <<watch, inProgress, dropped, stored, duplicated>>
        /\ \A s \in Runners : s # r => held'[s] = held[s] /\ page'[s] = page[s] /\ allOk'[s] = allOk[s]
        /\ ~Uploading(r)
    BY <1>0, <1>12 DEF RenderError, PutBackError, EndFile, Uploading, TypeOK
  <2> QED BY <1>5, <2>1, <2>2, StillFresh
<1>13. ASSUME NEW r \in Runners, Complete(r) \/ PutBack(r) PROVE Fresh'
  <2>1. /\ pc[r] \in {"dispose", "return"} /\ cur[r] \in Names
        /\ MachineOf[r] \in Machines /\ Claimed(r) \in Docs
    BY <1>0, <1>13 DEF Complete, PutBack, Release, ThreadOK, Working, TypeOK, Folder, Claimed, Mine
  <2>2. /\ inProgress' = [inProgress EXCEPT ![MachineOf[r]][cur[r]] = None]
        /\ UNCHANGED <<dropped, stored, duplicated>>
        /\ pc' = [pc EXCEPT ![r] = "claim"]
        /\ \A s \in Runners : s # r => held'[s] = held[s] /\ page'[s] = page[s] /\ allOk'[s] = allOk[s]
    BY <1>0, <1>13 DEF Complete, PutBack, Release, EndFile, TypeOK
  <2>3. \/ watch' = watch
        \/ watch' = [watch EXCEPT ![cur[r]] = Claimed(r)] /\ stored[Claimed(r)] = {}
    <3>1. CASE Complete(r)
      BY <3>1 DEF Complete
    <3>2. CASE PutBack(r)
      <4>1. stored[Claimed(r)] = {}
        BY <1>0, <1>5, <2>1, <3>2, ClaimedFresh DEF PutBack
      <4> QED BY <3>2, <4>1 DEF PutBack
    <3> QED BY <1>13, <3>1, <3>2
  <2>4. /\ \A s \in Runners : Uploading(s)' => s # r /\ Uploading(s)
        /\ \A s \in Runners : Uploading(s) /\ s # r => Uploading(s)'
    BY <1>0, <2>2 DEF Uploading, TypeOK
  <2>5. Uploading(r) => held[r] = Claimed(r)
    BY DEF Holding, Uploading
  <2>6. inProgress[MachineOf[r]][cur[r]] = Claimed(r)
    BY DEF Claimed, Mine
  <2>7. /\ \A s \in Runners : Uploading(s)' =>
             Uploading(s) /\ held'[s] = held[s] /\ page'[s] = page[s] /\ allOk'[s] = allOk[s]
        /\ \A s \in Runners : Uploading(s) /\ held[s] # Claimed(r) => Uploading(s)'
    BY <2>2, <2>4, <2>5
  <2> QED BY <1>0, <1>5, <2>1, <2>2, <2>3, <2>6, <2>7, ReleaseFresh
<1>14. ASSUME NEW r \in Runners, Quarantine(r) \/ RetryLater(r) PROVE FALSE
  BY <1>5, <1>14 DEF Quarantine, RetryLater, Fresh, UploadsFresh, Uploading
<1>15. ASSUME NEW r \in Runners, DisposeError(r) PROVE FALSE
  <2>1. held[r] = Claimed(r) /\ held[r] \in Docs
    BY <1>0, <1>15 DEF DisposeError, Holding, ThreadOK
  <2> QED BY <1>2, <1>15, <2>1 DEF DisposeError
<1>16. ASSUME NEW m \in Machines, Restart(m) \/ CheckConflict(m) \/ Ready(m) PROVE Fresh'
  BY <1>5, <1>16, StillFresh DEF Restart, CheckConflict, Ready, Uploading
<1>17. ASSUME NEW m \in Machines, Restore(m) \/ RestoreRenamed(m) PROVE Fresh'
  <2> DEFINE d == inProgress[m][recName[m]]
  <2>1. proc[m] = "restore" /\ recName[m] \in Names /\ d \in Docs
    BY <1>0, <1>17 DEF Restore, RestoreRenamed, RecoveryOK, TypeOK, Folder
  <2>2. InHold(m, d)
    BY <2>1 DEF Place, NamesKept, InHold
  <2>3. \A s \in Runners : MachineOf[s] = m => ~Uploading(s)
    BY <1>0, <2>1 DEF ThreadOK, Uploading
  <2>4. stored[d] = {}
    BY <1>5, <2>1, <2>2, <2>3 DEF Fresh, HeldFresh
  <2>5. /\ inProgress' = [inProgress EXCEPT ![m][recName[m]] = None]
        /\ UNCHANGED <<dropped, stored, duplicated, pc, held, page, allOk>>
        /\ watch' = watch \/ watch' = [watch EXCEPT ![recName[m]] = d]
    BY <1>17 DEF Restore, RestoreRenamed, Restored
  <2>6. \A s \in Runners : Uploading(s)' <=> Uploading(s)
    BY <2>5 DEF Uploading
  <2> HIDE DEF d
  <2>7. inProgress[m][recName[m]] = d
    BY DEF d
  <2> QED BY <1>0, <1>5, <2>1, <2>4, <2>5, <2>6, <2>7, ReleaseFresh
<1>18. CASE UNCHANGED vars
  BY <1>5, <1>18, StillFresh DEF vars, Uploading
<1> QED BY <1>2, <1>3, <1>6, <1>7, <1>8, <1>9, <1>10, <1>11, <1>12, <1>13, <1>14, <1>15, <1>16,
           <1>17, <1>18
        DEF Next, RunOnce, ProcessFile, RecoverStranded, NotAccepted, UploadError, RestoreError

(* As long as nothing fails, no page reaches the backend twice, whatever   *)
(* the races: with distinct names, or with one runner on each machine.     *)
THEOREM ZeroDuplicates ==
  ASSUME UniqueNames \/ OneRunnerEach
  PROVE  Spec => []UploadedOnce
<1>1. Spec => []Sole
  <2>1. CASE UniqueNames
    <3>1. Control /\ Place /\ Careful => Sole
      <4> SUFFICES ASSUME Control, Place, Careful, NEW r \in Runners, NEW s \in Runners,
                          pc[r] \in Working, Uploading(s),
                          MachineOf[s] = MachineOf[r], held[s] = Claimed(r)
                   PROVE  s = r
        BY DEF Sole
      <4>1. pc[s] \in Working /\ held[s] = Claimed(s) /\ Claimed(r) \in Docs
        BY DEF Careful, ClaimOK, Uploading, Working
      <4>2. cur[r] \in Names /\ cur[s] \in Names
        BY <4>1 DEF Control, ThreadOK
      <4>3. \A k \in Runners : cur[k] \in Names /\ Claimed(k) \in Docs => NameOf[Claimed(k)] = cur[k]
        BY DEF Place, NamesKept, Claimed, Mine
      <4>4. cur[r] = cur[s]
        BY <4>1, <4>2, <4>3
      <4> QED BY <4>1, <4>4 DEF Careful, ClaimOK
    <3> QED BY <2>1, <3>1, CarefulInvariant, PTL
  <2>2. CASE OneRunnerEach
    <3>1. Sole
      BY <2>2 DEF Sole, OneRunnerEach
    <3> QED BY <3>1, PTL
  <2> QED BY <2>1, <2>2
<1>2. Init => Fresh
  BY DEF Init, Empty, Fresh, WaitingFresh, HeldFresh, UploadsFresh, Uploading, InHold
<1>3. Control /\ Place /\ Holding /\ Sole /\ (Quiet => Fresh) /\ [Next]_vars => (Quiet => Fresh)'
  BY NextFresh
<1>4. (Quiet => Fresh) => UploadedOnce
  BY DEF Quiet, Fresh, UploadedOnce
<1> QED BY <1>1, <1>2, <1>3, <1>4, ControlInvariant, PlaceInvariant, HonestInvariant, PTL DEF Spec

-----------------------------------------------------------------------------
(* The settle check made while listing holds at the claim and ever after,  *)
(* with distinct names.                                                    *)
THEOREM SettledWhenClaimed ==
  ASSUME UniqueNames
  PROVE  Spec => []ClaimedSettled
<1>1. Control /\ Place /\ Careful => ClaimedSettled
  BY Where DEF Control, Place, Careful, SettledOK, ClaimedSettled, AllHeld,
               HeldDocs, ProcessedDocs, FailedDocs, In
<1> QED BY <1>1, CarefulInvariant, PTL

-----------------------------------------------------------------------------
(* The folder of a machine that is down is touched by nobody, whatever     *)
(* the names.                                                              *)
THEOREM PeersKeepOut == Spec => DownUntouched
<1>1. ASSUME Control, [Next]_vars
      PROVE  [\A m \in Machines : proc[m] = "down" => inProgress'[m] = inProgress[m]]_vars
  <2>1. ASSUME NEW r \in Runners, StartRun(r) \/ RunOnce(r), NEW m \in Machines, proc[m] = "down"
        PROVE  inProgress'[m] = inProgress[m]
    BY <1>1, <2>1, RunnerIsUp, RunnerStaysHome
  <2>2. ASSUME NEW k \in Machines, Crash(k) \/ Restart(k) \/ RecoverStranded(k),
               NEW m \in Machines, proc[m] = "down"
        PROVE  inProgress'[m] = inProgress[m]
    <3>1. CASE Restore(k) \/ RestoreRenamed(k)
      BY <1>1, <2>2, <3>1 DEF Restore, RestoreRenamed, Restored, Control, TypeOK
    <3>2. CASE ~(Restore(k) \/ RestoreRenamed(k))
      BY <2>2, <3>2 DEF Crash, Restart, RecoverStranded, CheckConflict, RestoreError, Ready, tree
    <3> QED BY <3>1, <3>2
  <2>3. ASSUME NEW d \in Docs, Drop(d) \/ Settle(d)
        PROVE  UNCHANGED inProgress
    BY <2>3 DEF Drop, Settle, tree
  <2> QED BY <1>1, <2>1, <2>2, <2>3 DEF Next, vars
<1> QED BY <1>1, ControlInvariant, PTL DEF Spec, DownUntouched

(* Recovery leaves nothing behind before the machine polls again, whatever *)
(* the names.                                                              *)
THEOREM RecoveryComplete == Spec => RecoveredBeforePolling
<1>1. ASSUME Control, [Next]_vars
      PROVE  [\A m \in Machines :
                (proc[m] # "up" /\ proc'[m] = "up") => inProgress'[m] = Empty]_vars
  <2>1. ASSUME NEW m \in Machines, Ready(m)
        PROVE  \A k \in Machines :
                 (proc[k] # "up" /\ proc'[k] = "up") => inProgress'[k] = Empty
    <3>1. inProgress[m] = Empty
      BY <1>1, <2>1 DEF Ready, Control, TypeOK, RecoveryOK, Empty, Folder
    <3> QED BY <1>1, <2>1, <3>1 DEF Ready, Control, TypeOK, tree
  <2>2. ASSUME NEW m \in Machines,
               Crash(m) \/ Restart(m) \/ CheckConflict(m) \/ Restore(m) \/ RestoreRenamed(m) \/ RestoreError(m)
        PROVE  \A k \in Machines : proc'[k] = "up" => proc[k] = "up"
    BY <1>1, <2>2 DEF Control, TypeOK, Crash, Restart, CheckConflict, Restore, RestoreRenamed,
       Restored, RestoreError
  <2>3. ASSUME NEW d \in Docs, Drop(d) \/ Settle(d)
        PROVE  UNCHANGED proc
    BY <2>3 DEF Drop, Settle, process
  <2> QED BY <1>1, <2>1, <2>2, <2>3, RunnerKeepsProc DEF Next, RecoverStranded, vars, process
<1> QED BY <1>1, ControlInvariant, PTL DEF Spec, RecoveredBeforePolling

-----------------------------------------------------------------------------
(* The fleet implements the custody of documents.                          *)
LEMMA PutIn ==
  ASSUME NEW f \in Folder, NEW n \in Names, NEW d \in Docs, f[n] = None
  PROVE  In([f EXCEPT ![n] = d]) = In(f) \cup {d}
  BY DEF Folder, In

(* A file taken out of a folder leaves it, and nothing else does.          *)
LEMMA TakeOut ==
  ASSUME NEW f \in Folder, NEW n \in Names, f[n] # None,
         \A k \in Names : f[k] = f[n] => k = n
  PROVE  In([f EXCEPT ![n] = None]) = In(f) \ {f[n]}
  BY DEF Folder, In

(* A step that moves no file and stores no page is none of ScanCustody.    *)
LEMMA StillCustody ==
  ASSUME UNCHANGED <<watch, inProgress, processed, failed, stored, refused>>
  PROVE  UNCHANGED Custody!vars
  BY DEF Custody!vars, WatchDocs, HeldDocs, ProcessedDocs, FailedDocs, Delivered, In

Held == [m \in Machines |-> HeldDocs(m)]

(* A file that leaves a subfolder leaves that machine's custody.           *)
LEMMA ReleaseCustody ==
  ASSUME UniqueNames, Control, Place, NEW m \in Machines, NEW n \in Names,
         inProgress[m][n] # None,
         inProgress' = [inProgress EXCEPT ![m][n] = None]
  PROVE  /\ inProgress[m][n] \in HeldDocs(m)
         /\ Held' = [Held EXCEPT ![m] = @ \ {inProgress[m][n]}]
         /\ In([watch EXCEPT ![n] = inProgress[m][n]]) = WatchDocs \cup {inProgress[m][n]}
         /\ In([processed EXCEPT ![n] = inProgress[m][n]]) = ProcessedDocs \cup {inProgress[m][n]}
         /\ In([failed EXCEPT ![n] = inProgress[m][n]]) = FailedDocs \cup {inProgress[m][n]}
<1> DEFINE d == inProgress[m][n]
<1>1. /\ inProgress[m] \in Folder /\ d \in Docs
      /\ watch \in Folder /\ processed \in Folder /\ failed \in Folder
  BY DEF Control, TypeOK, Folder
<1>2. watch[n] = None /\ processed[n] = None /\ failed[n] = None
  BY OneSlot DEF Control
<1>3. \A k \in Names : inProgress[m][k] = d => k = n
  BY DEF Place, NamesKept
<1>4. HeldDocs(m)' = HeldDocs(m) \ {d}
  <2>1. inProgress'[m] = [inProgress[m] EXCEPT ![n] = None]
    BY DEF Control, TypeOK
  <2> QED BY <1>1, <1>3, <2>1, TakeOut DEF HeldDocs
<1>5. \A k \in Machines : k # m => HeldDocs(k)' = HeldDocs(k)
  BY DEF Control, TypeOK, HeldDocs, In
<1>6. Held' = [Held EXCEPT ![m] = @ \ {d}]
  BY <1>4, <1>5 DEF Held
<1>7. d \in HeldDocs(m)
  BY <1>1 DEF HeldDocs, In
<1> QED BY <1>1, <1>2, <1>6, <1>7, PutIn DEF WatchDocs, ProcessedDocs, FailedDocs

(* A claim is a Take, and a page's upload a BackendAnswers, by the runner's *)
(* machine; a file's end is a Complete, a Quarantine or a GiveBack.        *)
LEMMA ClaimCustody ==
  ASSUME UniqueNames, Control, Place, NEW r \in Runners, Claim(r)
  PROVE  Custody!Next
<1>1. PICK n \in todo[r] : Claim(r)!(n)
  BY DEF Claim
<1> DEFINE d == watch[n]
           m == MachineOf[r]
<1>2. n \in Names /\ m \in Machines /\ d \in Docs /\ watch \in Folder /\ inProgress[m] \in Folder
  BY <1>1 DEF Control, TypeOK, Folder
<1>3. \A k \in Names : watch[k] = d => k = n
  BY <1>1, <1>2 DEF Place, NamesKept
<1>4. d \in WatchDocs /\ WatchDocs' = WatchDocs \ {d}
  BY <1>1, <1>2, <1>3, TakeOut DEF WatchDocs, In
<1>5. inProgress[m][n] = None
  BY <1>1, <1>2, OneSlot DEF Control
<1>6. HeldDocs(m)' = HeldDocs(m) \cup {d}
  <2>1. inProgress'[m] = [inProgress[m] EXCEPT ![n] = d]
    BY <1>1, <1>2 DEF Control, TypeOK
  <2> QED BY <1>2, <1>5, <2>1, PutIn DEF HeldDocs
<1>7. \A k \in Machines : k # m => HeldDocs(k)' = HeldDocs(k)
  BY <1>1 DEF Control, TypeOK, HeldDocs, In
<1>8. Held' = [Held EXCEPT ![m] = @ \cup {d}]
  BY <1>6, <1>7 DEF Held
<1>9. UNCHANGED <<ProcessedDocs, FailedDocs, Delivered, refused>>
  BY <1>1 DEF ProcessedDocs, FailedDocs, Delivered, In, backend
<1>10. Custody!Take(m, d)
  BY <1>4, <1>8, <1>9 DEF Custody!Take, Held
<1> QED BY <1>2, <1>10 DEF Custody!Next

(* Every upload_page call is a BackendAnswers by the runner's machine.     *)
LEMMA UploadCustody ==
  ASSUME Control, Careful, NEW r \in Runners,
         Accepted(r) \/ NotAccepted(r) \/ UploadError(r)
  PROVE  Custody!Next
<1> DEFINE d == held[r]
           m == MachineOf[r]
<1>1. pc[r] = "upload" /\ m \in Machines /\ d \in Docs /\ cur[r] \in Names
  BY DEF Accepted, NotAccepted, UploadError, Control, TypeOK, ThreadOK, Working
<1>2. PICK k \in {0, 1, 2} : Store(r, k)
  BY DEF Accepted, NotAccepted, UploadError
<1>3. \A e \in Docs : e # d => stored'[e] = stored[e]
  BY <1>1, <1>2 DEF Store, Control, TypeOK
<1>4. stored[d] \subseteq stored'[d]
  BY <1>1, <1>2, StoreGrows
<1>5. Delivered' \in {Delivered, Delivered \cup {d}}
  BY <1>1, <1>3, <1>4 DEF Delivered
<1>6. refused' \in {refused, refused \cup {d}}
  BY DEF Accepted, NotAccepted, UploadError, backend
<1>7. d \in HeldDocs(m)
  BY <1>1 DEF Careful, ClaimOK, Working, Claimed, Mine, HeldDocs, In
<1>8. UNCHANGED tree
  BY DEF Accepted, NotAccepted, UploadError, NextPage
<1>9. UNCHANGED <<WatchDocs, ProcessedDocs, FailedDocs, Held>>
  BY <1>8 DEF tree, WatchDocs, ProcessedDocs, FailedDocs, Held, HeldDocs, In
<1>10. Custody!BackendAnswers(m, d)
  BY <1>1, <1>5, <1>6, <1>7, <1>9 DEF Custody!BackendAnswers, Held
<1> QED BY <1>1, <1>10 DEF Custody!Next

(* _dispose and the return of a file end a machine's custody as promised.  *)
LEMMA DisposeCustody ==
  ASSUME UniqueNames, Control, Place, Honest, Careful, NEW r \in Runners,
         Complete(r) \/ Quarantine(r) \/ RetryLater(r) \/ PutBack(r)
  PROVE  Custody!Next
<1> DEFINE d == Claimed(r)
           m == MachineOf[r]
<1>1. cur[r] \in Names /\ m \in Machines /\ inProgress[m][cur[r]] # None
      /\ d = inProgress[m][cur[r]]
      /\ inProgress' = [inProgress EXCEPT ![m][cur[r]] = None]
  BY DEF Complete, Quarantine, RetryLater, PutBack, Release, Claimed, Mine,
         Control, ThreadOK, Working
<1>2. UNCHANGED <<stored, refused>>
  BY DEF Complete, Quarantine, RetryLater, PutBack, EndFile, backend
<1>3. UNCHANGED Delivered
  BY <1>2 DEF Delivered
<1>4. d \in Docs
  BY <1>1 DEF Control, TypeOK, Folder
<1>8. /\ d \in HeldDocs(m) /\ Held' = [Held EXCEPT ![m] = @ \ {d}]
      /\ In([watch EXCEPT ![cur[r]] = d]) = WatchDocs \cup {d}
      /\ In([processed EXCEPT ![cur[r]] = d]) = ProcessedDocs \cup {d}
      /\ In([failed EXCEPT ![cur[r]] = d]) = FailedDocs \cup {d}
  <2> DEFINE k == MachineOf[r]
             n == cur[r]
             e == inProgress[k][n]
  <2>1. /\ k \in Machines /\ n \in Names /\ inProgress[k][n] # None
        /\ inProgress' = [inProgress EXCEPT ![k][n] = None]
    BY <1>1
  <2> HIDE DEF k, n
  <2>2. /\ e \in HeldDocs(k) /\ Held' = [Held EXCEPT ![k] = @ \ {e}]
        /\ In([watch EXCEPT ![n] = e]) = WatchDocs \cup {e}
        /\ In([processed EXCEPT ![n] = e]) = ProcessedDocs \cup {e}
        /\ In([failed EXCEPT ![n] = e]) = FailedDocs \cup {e}
    BY <2>1, ReleaseCustody
  <2>3. e = d
    BY <1>1 DEF k, n
  <2>4. k = m /\ n = cur[r]
    BY DEF k, n
  <2> HIDE DEF e, d
  <2> QED BY <2>2, <2>3, <2>4
<1>9. /\ WatchDocs' = In(watch') /\ ProcessedDocs' = In(processed') /\ FailedDocs' = In(failed')
  BY DEF WatchDocs, ProcessedDocs, FailedDocs, In
<1>5. CASE Complete(r)
  <2>1. d \in Delivered
    BY <1>4, <1>5 DEF Complete, Careful, ClaimOK, Honest, FlagsOK, Working, Delivered, Pages,
                      Control, TypeOK
  <2>2. UNCHANGED <<WatchDocs, FailedDocs>> /\ ProcessedDocs' = ProcessedDocs \cup {d}
    BY <1>5, <1>8, <1>9 DEF Complete, WatchDocs, FailedDocs
  <2>3. Custody!Complete(m, d)
    BY <1>1, <1>2, <1>3, <1>8, <2>1, <2>2 DEF Custody!Complete, Held
  <2> QED BY <1>1, <1>4, <2>3 DEF Custody!Next
<1>6. CASE Quarantine(r)
  <2>1. d \in refused
    BY <1>4, <1>6 DEF Quarantine, Careful, ClaimOK, Honest, FlagsOK, Working
  <2>2. UNCHANGED <<WatchDocs, ProcessedDocs>> /\ FailedDocs' = FailedDocs \cup {d}
    BY <1>6, <1>8, <1>9 DEF Quarantine, WatchDocs, ProcessedDocs
  <2>3. Custody!Quarantine(m, d)
    BY <1>1, <1>2, <1>3, <1>8, <2>1, <2>2 DEF Custody!Quarantine, Held
  <2> QED BY <1>1, <1>4, <2>3 DEF Custody!Next
<1>7. CASE RetryLater(r) \/ PutBack(r)
  <2>1. UNCHANGED <<ProcessedDocs, FailedDocs>> /\ WatchDocs' = WatchDocs \cup {d}
    BY <1>7, <1>8, <1>9 DEF RetryLater, PutBack, ProcessedDocs, FailedDocs
  <2>2. Custody!GiveBack(m, d)
    BY <1>1, <1>2, <1>3, <1>8, <2>1 DEF Custody!GiveBack, Held
  <2> QED BY <1>1, <1>4, <2>2 DEF Custody!Next
<1> QED BY <1>5, <1>6, <1>7

(* Recovery gives back; with distinct names it never meets a conflict.     *)
LEMMA RestoreCustody ==
  ASSUME UniqueNames, Control, Place, Careful, NEW m \in Machines,
         Restore(m) \/ RestoreRenamed(m)
  PROVE  Custody!Next
<1> DEFINE d == inProgress[m][recName[m]]
<1>1. Restore(m)
  BY DEF Careful, NoConflict, RestoreRenamed
<1>2. recName[m] \in Names /\ d # None /\ inProgress' = [inProgress EXCEPT ![m][recName[m]] = None]
  BY <1>1 DEF Restore, Restored, Control, TypeOK, RecoveryOK
<1>3. d \in Docs
  BY <1>2 DEF Control, TypeOK, Folder
<1>4. UNCHANGED <<ProcessedDocs, FailedDocs, Delivered, refused>>
  BY <1>1 DEF Restore, Restored, backend, ProcessedDocs, FailedDocs, Delivered, In
<1>5. /\ d \in HeldDocs(m) /\ Held' = [Held EXCEPT ![m] = @ \ {d}]
      /\ In([watch EXCEPT ![recName[m]] = d]) = WatchDocs \cup {d}
  BY <1>2, ReleaseCustody
<1>6. WatchDocs' = In(watch')
  BY DEF WatchDocs, In
<1>7. WatchDocs' = WatchDocs \cup {d}
  BY <1>1, <1>5, <1>6 DEF Restore
<1>8. Custody!GiveBack(m, d)
  BY <1>4, <1>5, <1>7 DEF Custody!GiveBack, Held
<1> QED BY <1>3, <1>8 DEF Custody!Next

(* A dropped document arrives: it was nowhere before.                      *)
LEMMA DropCustody ==
  ASSUME Control, Place, Careful, NEW d \in Docs, Drop(d)
  PROVE  Custody!Next
<1>1. d \notin WatchDocs \cup AllHeld \cup ProcessedDocs \cup FailedDocs
  BY Where DEF Drop, Control, Place, Apart, AllHeld
<1>2. WatchDocs' = WatchDocs \cup {d}
  <2>1. watch \in Folder /\ NameOf[d] \in Names
    BY DocsAssumption DEF Control, TypeOK
  <2>2. watch[NameOf[d]] = None /\ watch' = [watch EXCEPT ![NameOf[d]] = d]
    BY DEF Drop
  <2>3. WatchDocs' = In(watch')
    BY DEF WatchDocs, In
  <2> QED BY <2>1, <2>2, <2>3, PutIn DEF WatchDocs
<1>3. UNCHANGED <<Held, ProcessedDocs, FailedDocs, Delivered, refused>>
  BY DEF Drop, backend, Held, HeldDocs, ProcessedDocs, FailedDocs, Delivered, In
<1>4. UNION {Held[m] : m \in Machines} = AllHeld
  BY DEF Held, AllHeld
<1>5. d \notin Custody!Somewhere
  BY <1>1, <1>4 DEF Custody!Somewhere, Custody!Held, Held
<1>6. Custody!Arrive(d)
  BY <1>2, <1>3, <1>5 DEF Custody!Arrive, Held
<1> QED BY <1>6 DEF Custody!Next

(* Every behaviour of the fleet is one ScanCustody allows, provided the    *)
(* scanner gives every document a name of its own.                         *)
THEOREM FleetImplementsCustody ==
  ASSUME UniqueNames
  PROVE  Spec => CustodySpec
<1>1. Init => Custody!Init
  <2> SUFFICES ASSUME Init PROVE Custody!Init
    OBVIOUS
  <2>1. In(Empty) = {}
    BY DEF In, Empty
  <2>2. WatchDocs = {} /\ ProcessedDocs = {} /\ FailedDocs = {}
    BY <2>1 DEF Init, WatchDocs, ProcessedDocs, FailedDocs
  <2>3. \A m \in Machines : HeldDocs(m) = {}
    BY <2>1 DEF Init, HeldDocs
  <2>4. ASSUME NEW d \in Docs PROVE Pages(d) \subseteq stored[d] <=> PagesOf[d] = 0
    <3>1. stored[d] = {} /\ PagesOf[d] \in Nat
      BY DEF Init
    <3>2. PagesOf[d] # 0 => 1 \in Pages(d)
      BY <3>1 DEF Pages
    <3>3. PagesOf[d] = 0 => Pages(d) = {}
      BY <3>1 DEF Pages
    <3> QED BY <3>1, <3>2, <3>3
  <2> QED BY <2>2, <2>3, <2>4 DEF Init, Custody!Init, Delivered
<1>2. ASSUME Control, Place, Honest, Careful, [Next]_vars
      PROVE  [Custody!Next]_(Custody!vars)
  <2>1. ASSUME NEW d \in Docs, Drop(d) \/ Settle(d)
        PROVE  Custody!Next \/ UNCHANGED Custody!vars
    BY <1>2, <2>1, DropCustody, StillCustody DEF Settle, tree, backend
  <2>2. ASSUME NEW r \in Runners, StartRun(r) \/ RunOnce(r)
        PROVE  Custody!Next \/ UNCHANGED Custody!vars
    <3>1. CASE \/ Claim(r)
               \/ Accepted(r) \/ NotAccepted(r) \/ UploadError(r)
               \/ Complete(r) \/ Quarantine(r) \/ RetryLater(r) \/ PutBack(r)
      BY <1>2, <3>1, ClaimCustody, UploadCustody, DisposeCustody
    <3>2. CASE \/ StartRun(r) \/ FindSettled(r) \/ LostClaim(r) \/ ClaimError(r) \/ FinishRun(r)
               \/ Render(r) \/ RenderError(r) \/ DisposeError(r) \/ PutBackError(r)
      BY <3>2, StillCustody DEF tree, backend, StartRun, FindSettled, IsFile, NoFile, Stat,
         StatVanished, Listed, LostClaim, ClaimError, FinishRun, Render, RenderError,
         DisposeError, PutBackError, EndFile
    <3> QED BY <2>2, <3>1, <3>2 DEF RunOnce, ClaimFile, ProcessFile
  <2>3. ASSUME NEW m \in Machines, Crash(m) \/ Restart(m) \/ RecoverStranded(m)
        PROVE  Custody!Next \/ UNCHANGED Custody!vars
    <3>1. CASE Restore(m) \/ RestoreRenamed(m)
      BY <1>2, <3>1, RestoreCustody
    <3>2. CASE Crash(m) \/ Restart(m) \/ CheckConflict(m) \/ RestoreError(m) \/ Ready(m)
      BY <3>2, StillCustody DEF tree, backend, Crash, Restart, CheckConflict, RestoreError, Ready
    <3> QED BY <2>3, <3>1, <3>2 DEF RecoverStranded
  <2>4. CASE UNCHANGED vars
    BY <2>4, StillCustody DEF vars, tree, backend
  <2> QED BY <1>2, <2>1, <2>2, <2>3, <2>4 DEF Next
<1> QED BY <1>1, <1>2, CarefulInvariant, HonestInvariant, PTL DEF Spec, CustodySpec, Custody!Spec
=============================================================================

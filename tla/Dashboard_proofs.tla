--------------------------- MODULE Dashboard_proofs ---------------------------
(***************************************************************************)
(* Proofs about RunState and Dashboard, for any number of environments,    *)
(* of runs of each at a time, of files and of pages.                       *)
(***************************************************************************)
EXTENDS Dashboard, FiniteSetTheorems, TLAPS

Steps(r) == StartRun(r) \/ RunOnce(r)

Counters == [current_file : BOOLEAN, last_run : {"never", "started", "finished"},
             files_processed : Nat, pages_uploaded : Nat, errors : Nat]

Labels == {"ready", "next", "done"} \cup InFile

-----------------------------------------------------------------------------
(* Types.                                                                  *)

LEMMA PutType ==
  ASSUME RunTypeOK, NEW r \in Runs, NEW x, NEW v, Put(r, x, v),
         \/ x = "current_file" /\ v \in BOOLEAN
         \/ x = "last_run" /\ v \in {"never", "started", "finished"}
  PROVE  perEnv' \in [Envs -> Counters]
<1>1. perEnv \in [Envs -> Counters] /\ EnvOf[r] \in Envs
  BY RunsAssumption DEF RunTypeOK, Counters
<1>2. [perEnv[EnvOf[r]] EXCEPT ![x] = v] \in Counters
  BY <1>1 DEF Counters
<1> QED BY <1>1, <1>2 DEF Put

LEMMA AddType ==
  ASSUME RunTypeOK, NEW r \in Runs, NEW x \in Tallied, Add(r, x)
  PROVE  perEnv' \in [Envs -> Counters]
<1>1. perEnv \in [Envs -> Counters] /\ EnvOf[r] \in Envs
  BY RunsAssumption DEF RunTypeOK, Counters
<1>2. [perEnv[EnvOf[r]] EXCEPT ![x] = @ + 1] \in Counters
  BY <1>1 DEF Counters, Tallied
<1> QED BY <1>1, <1>2 DEF Add

LEMMA HappensType ==
  ASSUME RunTypeOK, NEW r \in Runs, NEW x \in Tallied, Happens(r, x)
  PROVE  today' \in [Envs -> [Tallied -> Nat]]
<1>1. today \in [Envs -> [Tallied -> Nat]] /\ EnvOf[r] \in Envs
  BY RunsAssumption DEF RunTypeOK
<1>2. [today[EnvOf[r]] EXCEPT ![x] = @ + 1] \in [Tallied -> Nat]
  BY <1>1
<1> QED BY <1>1, <1>2 DEF Happens

LEMMA StepType ==
  ASSUME RunTypeOK, NEW r \in Runs, NEW from, NEW to \in Labels,
         Step(r, from, to)
  PROVE  pc' \in [Runs -> Labels]
BY DEF RunTypeOK, Step, Labels

LEMMA RunStepType ==
  ASSUME RunTypeOK, NEW r \in Runs, Steps(r)
  PROVE  RunTypeOK'
<1> USE DEF InFile, Labels, Emit
<1>0. perEnv \in [Envs -> Counters] /\ queue \in Nat
  BY DEF RunTypeOK, Counters
<1>1. CASE StartRun(r)
  <2>1. perEnv' \in [Envs -> Counters] /\ pc' \in [Runs -> Labels]
    BY <1>1, PutType, StepType DEF StartRun
  <2> QED BY <1>1, <2>1 DEF StartRun, RunTypeOK, Counters
<1>2. CASE StartFile(r)
  <2>1. perEnv' \in [Envs -> Counters] /\ pc' \in [Runs -> Labels]
    BY <1>2, PutType, StepType DEF StartFile
  <2>2. file' \in [Runs -> Nat] /\ page' \in [Runs -> Nat]
    BY <1>2 DEF StartFile, RunTypeOK
  <2>3. allOk' \in [Runs -> BOOLEAN] /\ unrecoverable' \in [Runs -> BOOLEAN]
    BY <1>2 DEF StartFile, RunTypeOK
  <2> QED BY <1>2, <2>1, <2>2, <2>3 DEF StartFile, RunTypeOK, Counters
<1>3. CASE Render(r)
  <2>0. PICK to \in {"upload", "dispose"} : Step(r, "render", to)
    BY <1>3 DEF Render
  <2>1. pc' \in [Runs -> Labels]
    BY <2>0, StepType
  <2> QED BY <1>3, <2>1 DEF Render, NoFault, RunTypeOK
<1>4. CASE Accepted(r)
  <2>1. today' \in [Envs -> [Tallied -> Nat]] /\ pc' \in [Runs -> Labels]
    BY <1>4, HappensType, StepType DEF Accepted, Tallied
  <2> QED BY <1>4, <2>1 DEF Accepted, NoFault, RunTypeOK
<1>5. CASE NotAccepted(r)
  <2>1. today' \in [Envs -> [Tallied -> Nat]] /\ pc' \in [Runs -> Labels]
    BY <1>5, HappensType, StepType DEF NotAccepted, Tallied
  <2>2. unrecoverable' \in [Runs -> BOOLEAN]
    BY <1>5 DEF NotAccepted, RunTypeOK
  <2> QED BY <1>5, <2>1, <2>2, RunStateBounds DEF NotAccepted, Fault, RunTypeOK
<1>6. CASE AddPage(r)
  <2>1. perEnv' \in [Envs -> Counters] /\ pc' \in [Runs -> Labels]
    BY <1>6, AddType, StepType DEF AddPage, Tallied
  <2> QED BY <1>6, <2>1 DEF AddPage, RunTypeOK, Counters
<1>7. CASE AddPageError(r)
  <2>1. perEnv' \in [Envs -> Counters] /\ pc' \in [Runs -> Labels]
    BY <1>7, AddType, StepType DEF AddPageError, Tallied
  <2> QED BY <1>7, <2>1 DEF AddPageError, RunTypeOK, Counters
<1>8. CASE PageDone(r)
  <2>1. pc' \in [Runs -> Labels]
    BY <1>8, StepType DEF PageDone
  <2>2. page' \in [Runs -> Nat]
    BY <1>8 DEF PageDone, RunTypeOK
  <2> QED BY <1>8, <2>1, <2>2 DEF PageDone, RunTypeOK
<1>9. CASE Complete(r)
  <2>1. today' \in [Envs -> [Tallied -> Nat]] /\ pc' \in [Runs -> Labels]
    BY <1>9, HappensType, StepType DEF Complete, Tallied
  <2>2. blank' \in [Envs -> Nat]
    BY <1>9, RunsAssumption DEF Complete, RunTypeOK
  <2> QED BY <1>9, <2>1, <2>2 DEF Complete, NoFault, RunTypeOK
<1>10. CASE AddFile(r)
  <2>1. perEnv' \in [Envs -> Counters] /\ pc' \in [Runs -> Labels]
    BY <1>10, AddType, StepType DEF AddFile, Tallied
  <2> QED BY <1>10, <2>1 DEF AddFile, RunTypeOK, Counters
<1>11. CASE Quarantine(r) \/ RetryLater(r)
  <2>1. pc' \in [Runs -> Labels]
    BY <1>11, StepType DEF Quarantine, NotifyQuarantine, RetryLater
  <2> QED BY <1>11, <2>1 DEF Quarantine, NotifyQuarantine, RetryLater, NoFault, RunTypeOK
<1>12. CASE Raise(r)
  <2>1. today' \in [Envs -> [Tallied -> Nat]] /\ pc' \in [Runs -> Labels]
    BY <1>12, HappensType, StepType DEF Raise, Tallied
  <2> QED BY <1>12, <2>1, RunStateBounds DEF Raise, Fault, RunTypeOK
<1>13. CASE AddFileError(r)
  <2>1. perEnv' \in [Envs -> Counters] /\ pc' \in [Runs -> Labels]
    BY <1>13, AddType, StepType DEF AddFileError, Tallied
  <2> QED BY <1>13, <2>1 DEF AddFileError, RunTypeOK, Counters
<1>14. CASE FileDone(r)
  <2>1. pc' \in [Runs -> Labels]
    BY <1>14, StepType DEF FileDone
  <2> QED BY <1>14, <2>1 DEF FileDone, RunTypeOK
<1>15. CASE FinishRun(r)
  <2>1. perEnv' \in [Envs -> Counters] /\ pc' \in [Runs -> Labels]
    BY <1>15, PutType, StepType DEF FinishRun
  <2> QED BY <1>15, <2>1 DEF FinishRun, RunTypeOK, Counters
<1>16. CASE Abandon(r)
  <2>1. pc' \in [Runs -> Labels]
    BY <1>16, StepType DEF Abandon
  <2> QED BY <1>16, <2>1, RunStateBounds DEF Abandon, Fault, RunTypeOK
<1> QED
  BY <1>1, <1>2, <1>3, <1>4, <1>5, <1>6, <1>7, <1>8, <1>9, <1>10, <1>11, <1>12,
     <1>13, <1>14, <1>15, <1>16 DEF Steps, RunOnce

LEMMA PendingType == \A e, x : Pending(e, x) \in Nat
BY RunsAssumption, FS_Subset, FS_CardinalityType DEF Pending

LEMMA OnHandType == \A e : OnHand(e) \in Nat
BY RunsAssumption, FS_Subset, FS_CardinalityType DEF OnHand

LEMMA OutsideStepType ==
  ASSUME RunTypeOK, Midnight \/ RecordClockSync
  PROVE  RunTypeOK'
<1> USE RunStateBounds DEF Emit, Outside
<1>1. CASE Midnight
  <2>1. perEnv' \in [Envs -> Counters]
    BY <1>1 DEF Midnight, ResetDaily, RunTypeOK, Counters
  <2>2. today' \in [Envs -> [Tallied -> Nat]] /\ carried' \in [Envs -> Nat] /\ blank' \in [Envs -> Nat]
    BY <1>1, PendingType, OnHandType DEF Midnight
  <2> QED BY <1>1, <2>1, <2>2 DEF Midnight, thread, RunTypeOK, Counters
<1>2. CASE RecordClockSync
  BY <1>2 DEF RecordClockSync, thread, RunTypeOK
<1> QED BY <1>1, <1>2

(* What the server and the page keep, apart from the run state.            *)
ViewTypeOK ==
  /\ asked \in 0 .. MaxFetches
  /\ serving \in {"none", "fresh", "stale"}
  /\ seen \in [Envs -> 0 .. Len(ReadOrder)]
  /\ snapshot \in [Envs -> [current_file : BOOLEAN, files_processed : Nat,
                            pages_uploaded : Nat]]
  /\ torn \in BOOLEAN
  /\ answers \in [fresh : 0 .. MaxFetches, stale : 0 .. MaxFetches]
  /\ Fetches <= MaxFetches
  /\ view \in {"fresh", "stale"}

LEMMA ReadOrderLength == Len(ReadOrder) = 3
BY DEF ReadOrder

LEMMA ReadNothing == [e \in Envs |-> 0] \in [Envs -> 0 .. Len(ReadOrder)]
<1>1. 0 \in 0 .. Len(ReadOrder)
  BY ReadOrderLength
<1> QED BY <1>1

(* The page's own steps: only the number of its requests is at stake.      *)
LEMMA ClientType ==
  ASSUME ViewTypeOK, UNCHANGED server, asked' \in Nat, Fetches' <= MaxFetches,
         NEW f \in Nat, NEW t \in Nat, answers' = [fresh |-> f, stale |-> t],
         view' \in {"fresh", "stale"}
  PROVE  ViewTypeOK'
<1>1. UNCHANGED <<serving, seen, snapshot, torn>>
  BY DEF server
<1>2. PICK a \in Nat : a = asked'
  OBVIOUS
<1>3. asked' \in 0 .. MaxFetches /\ f \in 0 .. MaxFetches /\ t \in 0 .. MaxFetches
  <2>1. a + f + t <= MaxFetches \/ a + f + t + 1 <= MaxFetches
    <3>1. answers'.fresh = f /\ answers'.stale = t
      OBVIOUS
    <3> QED BY <1>2, <3>1 DEF Fetches
  <2>2. a \in 0 .. MaxFetches /\ f \in 0 .. MaxFetches /\ t \in 0 .. MaxFetches
    BY <2>1, FetchesAssumption
  <2> QED BY <1>2, <2>2
<1>4. answers' \in [fresh : 0 .. MaxFetches, stale : 0 .. MaxFetches]
  BY <1>3
<1> QED BY <1>1, <1>3, <1>4 DEF ViewTypeOK

LEMMA ViewStepType ==
  ASSUME TypeOK, [Next]_vars
  PROVE  ViewTypeOK'
<1> USE FetchesAssumption DEF TypeOK, ViewTypeOK, Fetches
<1>1. CASE UNCHANGED vars
  BY <1>1 DEF vars, server, client
<1>2. CASE Ages /\ torn' \in BOOLEAN
  BY <1>2 DEF Ages
<1>3. CASE BeginStatus
  BY <1>3 DEF BeginStatus
<1>4. ASSUME NEW e \in Envs, ReadStatus(e) PROVE ViewTypeOK'
  <2>1. perEnv[e] \in Counters
    BY DEF RunTypeOK, Counters
  <2>2. Len(ReadOrder) = 3 /\ ReadOrder[1] = "current_file"
        /\ ReadOrder[2] = "files_processed" /\ ReadOrder[3] = "pages_uploaded"
    BY DEF ReadOrder
  <2>3. seen[e] \in 0 .. 2 /\ seen' \in [Envs -> 0 .. 3]
    BY <1>4, <2>2 DEF ReadStatus
  <2>4. snapshot' \in [Envs -> [current_file : BOOLEAN, files_processed : Nat,
                               pages_uploaded : Nat]]
    <3>1. snapshot' = [snapshot EXCEPT ![e][ReadOrder[seen[e] + 1]] = perEnv[e][ReadOrder[seen[e] + 1]]]
      BY <1>4 DEF ReadStatus
    <3>2. CASE seen[e] = 0
      BY <3>1, <3>2, <2>1, <2>2 DEF Counters
    <3>3. CASE seen[e] = 1
      BY <3>1, <3>3, <2>1, <2>2 DEF Counters
    <3>4. CASE seen[e] = 2
      BY <3>1, <3>4, <2>1, <2>2 DEF Counters
    <3> QED BY <2>3, <3>2, <3>3, <3>4
  <2> QED BY <1>4, <2>2, <2>3, <2>4 DEF ReadStatus, client
<1>5. CASE AnswerStatus
  <2>1. seen' \in [Envs -> 0 .. Len(ReadOrder)] /\ torn' \in BOOLEAN
    BY <1>5, ReadNothing DEF AnswerStatus
  <2>2. snapshot' \in [Envs -> [current_file : BOOLEAN, files_processed : Nat,
                               pages_uploaded : Nat]]
    BY <1>5 DEF AnswerStatus, Unread
  <2>3. CASE serving = "fresh"
    <3>1. answers' = [fresh |-> answers.fresh + 1, stale |-> answers.stale]
      BY <1>5, <2>3 DEF AnswerStatus
    <3> QED BY <1>5, <2>1, <2>2, <2>3, <3>1, SMTT(30) DEF AnswerStatus
  <2>4. CASE serving = "stale"
    <3>1. answers' = [fresh |-> answers.fresh, stale |-> answers.stale + 1]
      BY <1>5, <2>4 DEF AnswerStatus
    <3> QED BY <1>5, <2>1, <2>2, <2>4, <3>1 DEF AnswerStatus
  <2> QED BY <1>5, <2>3, <2>4 DEF AnswerStatus, Computed
<1>6. CASE Poll \/ Event
  BY <1>6 DEF Poll, Event, Ask, Taken, server
<1>7. ASSUME NEW age \in {"fresh", "stale"}, Show(age) PROVE ViewTypeOK'
  BY <1>7 DEF Show, server
<1>8. CASE FetchLost
  <2>1. UNCHANGED server /\ view' = view
    BY <1>8 DEF FetchLost
  <2>2. PICK f \in Nat, t \in Nat : answers = [fresh |-> f, stale |-> t]
    OBVIOUS
  <2>3. CASE asked > 0 /\ asked' = asked - 1 /\ UNCHANGED answers
    <3>1. asked' \in Nat /\ Fetches' <= MaxFetches
      BY <2>1, <2>3 DEF server
    <3> QED BY <2>1, <2>2, <2>3, <3>1, ClientType
  <2>4. ASSUME answers.fresh > 0, answers' = [answers EXCEPT !.fresh = @ - 1], UNCHANGED asked
        PROVE  ViewTypeOK'
    <3>1. answers' = [fresh |-> f - 1, stale |-> t] /\ f - 1 \in Nat
      BY <2>2, <2>4
    <3>2. asked' \in Nat /\ Fetches' <= MaxFetches
      BY <2>1, <2>2, <2>4, <3>1 DEF server
    <3> QED BY <2>1, <3>1, <3>2, ClientType
  <2>5. ASSUME answers.stale > 0, answers' = [answers EXCEPT !.stale = @ - 1], UNCHANGED asked
        PROVE  ViewTypeOK'
    <3>1. answers' = [fresh |-> f, stale |-> t - 1] /\ t - 1 \in Nat
      BY <2>2, <2>5
    <3>2. asked' \in Nat /\ Fetches' <= MaxFetches
      BY <2>1, <2>2, <2>5, <3>1 DEF server
    <3> QED BY <2>1, <3>1, <3>2, ClientType
  <2> QED BY <1>8, <2>3, <2>4, <2>5 DEF FetchLost
<1>9. CASE EventGone
  BY <1>9 DEF EventGone, Taken, server, client
<1> QED
  <2>1. CASE \E r \in Runs : Start(r) \/ Run(r)
    BY <1>2, <2>1 DEF Start, Run
  <2>2. CASE Midnights \/ Clock
    BY <1>2, <2>2 DEF Midnights, Clock
  <2> QED BY <1>1, <1>3, <1>4, <1>5, <1>6, <1>7, <1>8, <1>9, <2>1, <2>2 DEF Next

LEMMA StepTypeOK == TypeOK /\ [Next]_vars => TypeOK'
<1> SUFFICES ASSUME TypeOK, [Next]_vars PROVE TypeOK'
  OBVIOUS
<1>1. ViewTypeOK'
  BY ViewStepType
<1>2. RunTypeOK'
  <2> USE DEF TypeOK
  <2>1. CASE \E r \in Runs : Start(r) \/ Run(r)
    BY <2>1, RunStepType DEF Start, Run, Steps
  <2>2. CASE Midnights \/ Clock
    BY <2>2, OutsideStepType DEF Midnights, Clock
  <2>3. CASE UNCHANGED run
    BY <2>3 DEF run, thread, RunTypeOK
  <2>4. CASE FetchLost
    BY <2>4, RunStateBounds DEF FetchLost, Fault, thread, RunTypeOK
  <2>5. CASE Event \/ EventGone
    BY <2>5 DEF Event, EventGone, Taken, thread, RunTypeOK
  <2>6. CASE \/ BeginStatus \/ (\E e \in Envs : ReadStatus(e)) \/ AnswerStatus
             \/ Poll \/ (\E age \in {"fresh", "stale"} : Show(age))
    BY <2>6, <2>3 DEF BeginStatus, ReadStatus, AnswerStatus, Poll, Show
  <2> QED BY <2>1, <2>2, <2>3, <2>4, <2>5, <2>6 DEF Next, vars
<1> QED BY <1>1, <1>2 DEF TypeOK, ViewTypeOK

LEMMA InitTypeOK == Init => TypeOK
<1> SUFFICES ASSUME Init PROVE TypeOK
  OBVIOUS
<1>1. RunTypeOK
  BY RunStateBounds DEF Init, RunInit, RunTypeOK, Tallied
<1>2. ViewTypeOK
  <2>1. snapshot \in [Envs -> [current_file : BOOLEAN, files_processed : Nat,
                             pages_uploaded : Nat]]
    BY DEF Init, Unread
  <2>2. /\ answers \in [fresh : 0 .. MaxFetches, stale : 0 .. MaxFetches]
        /\ Fetches <= MaxFetches /\ asked \in 0 .. MaxFetches
    BY FetchesAssumption DEF Init, Fetches
  <2>3. seen \in [Envs -> 0 .. Len(ReadOrder)]
    BY ReadNothing DEF Init
  <2> QED BY <2>1, <2>2, <2>3 DEF Init, ViewTypeOK
<1> QED BY <1>1, <1>2 DEF TypeOK, ViewTypeOK

(* TypeOK holds in every state: counters and requests never go below zero  *)
(* (an empty queue gives no event, a lost request is one that was made),   *)
(* and the page keeps to its bound.                                        *)
THEOREM TypeCorrect == Spec => []TypeOK
BY InitTypeOK, StepTypeOK, PTL DEF Spec

-----------------------------------------------------------------------------
(* The tally.  An action adds one to a counter, or makes one thing happen  *)
(* that is to be counted, and moves one run by one step.                   *)

Kept == \A e \in Envs, x \in Tallied : perEnv'[e][x] = perEnv[e][x]

LEMMA PutKeeps ==
  ASSUME RunTypeOK, NEW r \in Runs, NEW x \in {"current_file", "last_run"}, NEW v, Put(r, x, v)
  PROVE  Kept
<1>1. perEnv \in [Envs -> Counters]
  BY DEF RunTypeOK, Counters
<1> QED BY <1>1 DEF Put, Kept, Counters, Tallied

LEMMA AddAdds ==
  ASSUME RunTypeOK, NEW r \in Runs, NEW x \in Tallied, Add(r, x)
  PROVE  \A e \in Envs, y \in Tallied :
           perEnv'[e][y] = perEnv[e][y] + (IF e = EnvOf[r] /\ y = x THEN 1 ELSE 0)
<1>1. perEnv \in [Envs -> Counters]
  BY DEF RunTypeOK, Counters
<1>2. \A e \in Envs, y \in Tallied : perEnv[e][y] \in Nat
  BY <1>1 DEF Counters, Tallied
<1> QED BY <1>1, <1>2 DEF Add, Counters, Tallied

LEMMA HappensAdds ==
  ASSUME RunTypeOK, NEW r \in Runs, NEW x \in Tallied, Happens(r, x)
  PROVE  \A e \in Envs, y \in Tallied :
           today'[e][y] = today[e][y] + (IF e = EnvOf[r] /\ y = x THEN 1 ELSE 0)
BY DEF RunTypeOK, Happens

(* A set of runs that differs from another in one run at most.             *)
LEMMA OneMore ==
  ASSUME NEW S \in SUBSET Runs, NEW T \in SUBSET Runs, NEW r \in Runs,
         \A q \in Runs \ {r} : q \in S <=> q \in T
  PROVE  /\ Cardinality(S) \in Nat /\ Cardinality(T) \in Nat
         /\ r \in S /\ r \notin T => Cardinality(S) = Cardinality(T) + 1
         /\ r \notin S /\ r \in T => Cardinality(T) = Cardinality(S) + 1
         /\ (r \in S <=> r \in T) => Cardinality(S) = Cardinality(T)
<1>1. IsFiniteSet(S) /\ IsFiniteSet(T)
  BY RunsAssumption, FS_Subset
<1>2. Cardinality(S) \in Nat /\ Cardinality(T) \in Nat
  BY <1>1, FS_CardinalityType
<1>3. CASE r \in S /\ r \notin T
  <2>1. S = T \cup {r}
    BY <1>3
  <2> QED BY <1>1, <1>2, <1>3, <2>1, FS_AddElement
<1>4. CASE r \notin S /\ r \in T
  <2>1. T = S \cup {r}
    BY <1>4
  <2> QED BY <1>1, <1>2, <1>4, <2>1, FS_AddElement
<1>5. CASE r \in S <=> r \in T
  <2>1. S = T
    BY <1>5
  <2> QED BY <1>2, <1>5, <2>1
<1> QED BY <1>2, <1>3, <1>4, <1>5

OwedAt(label, x) ==
  \/ x = "files_processed" /\ label = "filed"
  \/ x = "pages_uploaded" /\ label = "uploaded"
  \/ x = "errors" /\ label \in {"refused", "raised"}

LEMMA StepPending ==
  ASSUME RunTypeOK, NEW r \in Runs, NEW from, NEW to, Step(r, from, to),
         NEW e \in Envs, NEW x \in Tallied
  PROVE  /\ Pending(e, x) \in Nat
         /\ Pending(e, x)' = Pending(e, x)
              + (IF e = EnvOf[r] /\ OwedAt(to, x) THEN 1 ELSE 0)
              - (IF e = EnvOf[r] /\ OwedAt(from, x) THEN 1 ELSE 0)
<1> DEFINE S == {q \in Runs : EnvOf[q] = e /\ Owed(q, x)}
           T == {q \in Runs : EnvOf[q] = e /\ OwedAt(pc'[q], x)}
<1>1. \A q \in Runs : pc'[q] = IF q = r THEN to ELSE pc[q]
  BY DEF RunTypeOK, Step
<1>2. \A q \in Runs : (q \in S <=> EnvOf[q] = e /\ OwedAt(pc[q], x))
                     /\ (q \in T <=> EnvOf[q] = e /\ OwedAt(pc'[q], x))
  BY DEF Owed, OwedAt
<1>3. S \in SUBSET Runs /\ T \in SUBSET Runs /\ \A q \in Runs \ {r} : q \in S <=> q \in T
  BY <1>1, <1>2
<1>4. (r \in S <=> e = EnvOf[r] /\ OwedAt(from, x)) /\ (r \in T <=> e = EnvOf[r] /\ OwedAt(to, x))
  BY <1>1, <1>2 DEF Step
<1>5. Pending(e, x) = Cardinality(S) /\ Pending(e, x)' = Cardinality(T)
  BY DEF Pending, Owed, OwedAt
<1> HIDE DEF S, T
<1> QED BY <1>3, <1>4, <1>5, OneMore

LEMMA NumbersType ==
  ASSUME RunTypeOK
  PROVE  \A e \in Envs, x \in Tallied : perEnv[e][x] \in Nat /\ today[e][x] \in Nat
BY DEF RunTypeOK, Tallied

(* Nothing happens and nothing is reported.                                *)
LEMMA TallyNothing ==
  ASSUME RunTypeOK, CountersTally, Kept, UNCHANGED today,
         NEW r \in Runs, NEW from, NEW to, Step(r, from, to),
         \A y \in Tallied : ~OwedAt(from, y) /\ ~OwedAt(to, y)
  PROVE  CountersTally'
BY StepPending, NumbersType DEF CountersTally, Kept

(* Something happens that the run will report.                             *)
LEMMA TallyHappens ==
  ASSUME RunTypeOK, CountersTally, UNCHANGED perEnv,
         NEW r \in Runs, NEW from, NEW to, Step(r, from, to),
         NEW x \in Tallied, Happens(r, x),
         \A y \in Tallied : ~OwedAt(from, y) /\ (OwedAt(to, y) <=> y = x)
  PROVE  CountersTally'
<1>1. ASSUME NEW e \in Envs, NEW y \in Tallied
      PROVE  perEnv'[e][y] + Pending(e, y)' = today'[e][y]
  BY <1>1, StepPending, NumbersType, HappensAdds DEF CountersTally
<1> QED BY <1>1 DEF CountersTally

(* It is reported.                                                         *)
LEMMA TallyReports ==
  ASSUME RunTypeOK, CountersTally, UNCHANGED today,
         NEW r \in Runs, NEW from, NEW to, Step(r, from, to),
         NEW x \in Tallied, Add(r, x),
         \A y \in Tallied : ~OwedAt(to, y) /\ (OwedAt(from, y) <=> y = x)
  PROVE  CountersTally'
<1>1. ASSUME NEW e \in Envs, NEW y \in Tallied
      PROVE  perEnv'[e][y] + Pending(e, y)' = today'[e][y]
  BY <1>1, StepPending, NumbersType, AddAdds DEF CountersTally
<1> QED BY <1>1 DEF CountersTally

LEMMA RunStepTally ==
  ASSUME RunTypeOK, CountersTally, NEW r \in Runs, Steps(r)
  PROVE  CountersTally'
<1> USE DEF OwedAt, Tallied
<1>0. UNCHANGED perEnv => Kept
  BY DEF Kept
<1>1. CASE StartRun(r)
  BY <1>1, PutKeeps, TallyNothing DEF StartRun
<1>2. CASE StartFile(r)
  BY <1>2, PutKeeps, TallyNothing DEF StartFile
<1>3. CASE Render(r)
  <2>1. PICK to \in {"upload", "dispose"} : Step(r, "render", to)
    BY <1>3 DEF Render
  <2> QED BY <1>0, <1>3, <2>1, TallyNothing DEF Render
<1>4. CASE Accepted(r)
  <2>1. /\ Step(r, "upload", "uploaded") /\ Happens(r, "pages_uploaded") /\ UNCHANGED perEnv
        /\ "pages_uploaded" \in Tallied
    BY <1>4 DEF Accepted
  <2> QED BY <2>1, TallyHappens
<1>5. CASE NotAccepted(r)
  <2>1. /\ Step(r, "upload", "refused") /\ Happens(r, "errors") /\ UNCHANGED perEnv
        /\ "errors" \in Tallied
    BY <1>5 DEF NotAccepted
  <2> QED BY <2>1, TallyHappens
<1>6. CASE AddPage(r)
  <2>1. /\ Step(r, "uploaded", "progress") /\ Add(r, "pages_uploaded") /\ UNCHANGED today
        /\ "pages_uploaded" \in Tallied
    BY <1>6 DEF AddPage
  <2> QED BY <2>1, TallyReports
<1>7. CASE AddPageError(r)
  <2>1. /\ Step(r, "refused", "progress") /\ Add(r, "errors") /\ UNCHANGED today
        /\ "errors" \in Tallied
    BY <1>7 DEF AddPageError
  <2> QED BY <2>1, TallyReports
<1>8. CASE PageDone(r)
  <2>1. PICK to \in {"upload", "dispose"} : Step(r, "progress", to)
    BY <1>8 DEF PageDone
  <2> QED BY <1>0, <1>8, <2>1, TallyNothing DEF PageDone
<1>9. CASE Complete(r)
  <2>1. /\ Step(r, "dispose", "filed") /\ Happens(r, "files_processed") /\ UNCHANGED perEnv
        /\ "files_processed" \in Tallied
    BY <1>9 DEF Complete
  <2> QED BY <2>1, TallyHappens
<1>10. CASE AddFile(r)
  <2>1. /\ Step(r, "filed", "finally") /\ Add(r, "files_processed") /\ UNCHANGED today
        /\ "files_processed" \in Tallied
    BY <1>10 DEF AddFile
  <2> QED BY <2>1, TallyReports
<1>11. CASE Quarantine(r) \/ RetryLater(r)
  BY <1>0, <1>11, TallyNothing DEF Quarantine, NotifyQuarantine, RetryLater
<1>12. CASE Raise(r)
  <2>1. PICK from \in {"render", "upload", "dispose"} : Step(r, from, "raised")
    BY <1>12 DEF Raise
  <2>2. Happens(r, "errors") /\ UNCHANGED perEnv /\ "errors" \in Tallied
    BY <1>12 DEF Raise
  <2> QED BY <2>1, <2>2, TallyHappens
<1>13. CASE AddFileError(r)
  <2>1. /\ Step(r, "raised", "finally") /\ Add(r, "errors") /\ UNCHANGED today
        /\ "errors" \in Tallied
    BY <1>13 DEF AddFileError
  <2> QED BY <2>1, TallyReports
<1>14. CASE FileDone(r)
  BY <1>0, <1>14, TallyNothing DEF FileDone
<1>15. CASE FinishRun(r)
  BY <1>15, PutKeeps, TallyNothing DEF FinishRun
<1>16. CASE Abandon(r)
  BY <1>0, <1>16, TallyNothing DEF Abandon
<1> QED
  BY <1>1, <1>2, <1>3, <1>4, <1>5, <1>6, <1>7, <1>8, <1>9, <1>10, <1>11, <1>12,
     <1>13, <1>14, <1>15, <1>16 DEF Steps, RunOnce

(* At midnight what is pending is all there is of the new day.             *)
LEMMA MidnightTally ==
  ASSUME RunTypeOK, Midnight
  PROVE  CountersTally'
<1>1. \A e \in Envs, x \in Tallied : Pending(e, x)' = Pending(e, x)
  BY DEF Midnight, thread, Pending, Owed
<1>2. \A e \in Envs, x \in Tallied : perEnv'[e][x] = 0
  <2>1. perEnv \in [Envs -> Counters]
    BY DEF RunTypeOK, Counters
  <2> QED BY <2>1 DEF Midnight, ResetDaily, Counters, Tallied
<1>3. \A e \in Envs, x \in Tallied : today'[e][x] = Pending(e, x)
  BY DEF Midnight
<1> QED BY <1>1, <1>2, <1>3, PendingType DEF CountersTally

LEMMA StutterTally ==
  ASSUME CountersTally, UNCHANGED <<perEnv, today, pc>>
  PROVE  CountersTally'
BY DEF CountersTally, Pending, Owed

LEMMA NextTally == TypeOK /\ CountersTally /\ [Next]_vars => CountersTally'
<1> SUFFICES ASSUME TypeOK, CountersTally, [Next]_vars PROVE CountersTally'
  OBVIOUS
<1>1. CASE \E r \in Runs : Start(r) \/ Run(r)
  BY <1>1, RunStepTally DEF Start, Run, Steps, TypeOK
<1>2. CASE Midnights
  BY <1>2, MidnightTally DEF Midnights, TypeOK
<1>3. CASE \/ Clock \/ BeginStatus \/ (\E e \in Envs : ReadStatus(e)) \/ AnswerStatus
           \/ Poll \/ (\E age \in {"fresh", "stale"} : Show(age)) \/ FetchLost
           \/ Event \/ EventGone \/ UNCHANGED vars
  <2>1. UNCHANGED <<perEnv, today, pc>>
    BY <1>3 DEF Clock, RecordClockSync, BeginStatus, ReadStatus, AnswerStatus, Poll, Show,
                FetchLost, Event, EventGone, Taken, vars, run, thread
  <2> QED BY <2>1, StutterTally
<1> QED BY <1>1, <1>2, <1>3 DEF Next

LEMMA InitTally == Init => CountersTally
<1> SUFFICES ASSUME Init, NEW e \in Envs, NEW x \in Tallied
             PROVE  perEnv[e][x] + Pending(e, x) = today[e][x]
  BY DEF CountersTally
<1>1. {r \in Runs : EnvOf[r] = e /\ Owed(r, x)} = {}
  BY DEF Init, RunInit, Owed
<1>2. Pending(e, x) = 0
  BY <1>1, FS_EmptySet DEF Pending
<1>3. perEnv[e][x] = 0 /\ today[e][x] = 0
  BY DEF Init, RunInit, Tallied
<1> QED BY <1>2, <1>3

(* However many runs of an environment write its counters, and whenever    *)
(* midnight zeroes them, the dashboard's numbers are the tally of the day, *)
(* but for what a run has done and not yet reported (BatchRunState's       *)
(* mutators, reset_daily).                                                 *)
THEOREM TallyHolds == Spec => []CountersTally
<1>1. Init => TypeOK /\ CountersTally
  BY InitTypeOK, InitTally
<1>2. TypeOK /\ CountersTally /\ [Next]_vars => (TypeOK /\ CountersTally)'
  BY StepTypeOK, NextTally
<1> QED BY <1>1, <1>2, PTL DEF Spec

-----------------------------------------------------------------------------
(* What /status shows.  PagesCoverFiles speaks of the end of a computation *)
(* only; while it goes on, each attribute is compared with what it will be *)
(* read against.  That the state itself never has more files than pages    *)
(* needs the run's own reserve: a run that has a page of its file counted, *)
(* and all of them accepted, may yet count the file once; one that files a *)
(* file without a page has counted that in blank.                          *)

Reserved(r) ==
  /\ allOk[r]
  /\ \/ pc[r] \in {"progress", "filed"}
     \/ pc[r] \in {"upload", "uploaded", "dispose"} /\ page[r] > 1

Reserve(e) == Cardinality({r \in Runs : EnvOf[r] = e /\ Reserved(r)})

Position == \A r \in Runs :
  /\ pc[r] \in InFile => page[r] > 0
  /\ pc[r] = "render" => page[r] = 1
  /\ pc[r] = "refused" => ~allOk[r]
  /\ pc[r] = "filed" => allOk[r]
  /\ pc[r] = "dispose" => page[r] > 1 \/ PagesOf[r][file[r]] = 0

Covered == \A e \in Envs :
  perEnv[e].files_processed + Reserve(e) <= perEnv[e].pages_uploaded + carried[e] + blank[e]

Compared == \A e \in Envs :
  /\ seen[e] > 0 => serving # "none"
  /\ seen[e] = 2 /\ ~torn =>
       snapshot[e].files_processed <= perEnv[e].pages_uploaded + carried[e] + blank[e]
  /\ seen[e] = 3 /\ ~torn =>
       snapshot[e].files_processed <= snapshot[e].pages_uploaded + carried[e] + blank[e]

LEMMA ReserveType == \A e : Reserve(e) \in Nat
BY RunsAssumption, FS_Subset, FS_CardinalityType DEF Reserve

(* Position is the run's own: the others' do not change.                   *)
LEMMA RunStepPosition ==
  ASSUME RunTypeOK, Position, NEW r \in Runs, Steps(r)
  PROVE  /\ Position'
         /\ \A q \in Runs \ {r} : pc'[q] = pc[q] /\ page'[q] = page[q] /\ allOk'[q] = allOk[q]
<1>1. /\ pc \in [Runs -> Labels] /\ page \in [Runs -> Nat] /\ allOk \in [Runs -> BOOLEAN]
      /\ file \in [Runs -> Nat]
  BY DEF RunTypeOK, Labels
<1>2. \A q \in Runs \ {r} : /\ pc'[q] = pc[q] /\ page'[q] = page[q] /\ allOk'[q] = allOk[q]
                           /\ file'[q] = file[q]
  BY <1>1 DEF Steps, RunOnce, StartRun, StartFile, Render, Accepted, NotAccepted, AddPage,
     AddPageError, PageDone, Complete, AddFile, Quarantine, NotifyQuarantine, RetryLater,
     Raise, AddFileError, FileDone, FinishRun, Abandon, Step
<1>3. /\ pc'[r] \in InFile => page'[r] > 0
      /\ pc'[r] = "render" => page'[r] = 1
      /\ pc'[r] = "refused" => ~allOk'[r]
      /\ pc'[r] = "filed" => allOk'[r]
      /\ pc'[r] = "dispose" => page'[r] > 1 \/ PagesOf[r][file'[r]] = 0
  <2> USE <1>1 DEF Position, Step, InFile
  <2>1. CASE StartRun(r) \/ Render(r)
    BY <2>1 DEF StartRun, Render
  <2>6. CASE StartFile(r)
    BY <2>6 DEF StartFile
  <2>2. CASE Accepted(r) \/ NotAccepted(r) \/ AddPage(r) \/ AddPageError(r)
    BY <2>2 DEF Accepted, NotAccepted, AddPage, AddPageError
  <2>3. CASE PageDone(r)
    BY <2>3 DEF PageDone
  <2>4. CASE Complete(r) \/ AddFile(r) \/ Quarantine(r) \/ RetryLater(r)
    BY <2>4 DEF Complete, AddFile, Quarantine, NotifyQuarantine, RetryLater
  <2>5. CASE Raise(r) \/ AddFileError(r) \/ FileDone(r) \/ FinishRun(r) \/ Abandon(r)
    BY <2>5 DEF Raise, AddFileError, FileDone, FinishRun, Abandon
  <2> QED BY <2>1, <2>2, <2>3, <2>4, <2>5, <2>6 DEF Steps, RunOnce
<1> QED BY <1>2, <1>3 DEF Position

(* What a step does to the reserve, by what it does to the run's own part. *)
LEMMA StepReserve ==
  ASSUME RunTypeOK, NEW r \in Runs, NEW e \in Envs,
         \A q \in Runs \ {r} : pc'[q] = pc[q] /\ page'[q] = page[q] /\ allOk'[q] = allOk[q]
  PROVE  /\ Reserve(e) \in Nat /\ Reserve(e)' \in Nat
         /\ Reserve(e)' <= Reserve(e) + 1
         /\ e # EnvOf[r] => Reserve(e)' = Reserve(e)
         /\ Reserved(r)' => Reserve(e)' >= Reserve(e)
         /\ ~Reserved(r)' \/ Reserved(r) => Reserve(e)' <= Reserve(e)
         /\ e = EnvOf[r] /\ Reserved(r) /\ ~Reserved(r)' => Reserve(e)' = Reserve(e) - 1
<1> DEFINE S == {q \in Runs : EnvOf[q] = e /\ Reserved(q)}
           T == {q \in Runs : EnvOf[q] = e /\ Reserved(q)'}
<1>1. \A q \in Runs \ {r} : Reserved(q)' <=> Reserved(q)
  BY DEF Reserved
<1>2. /\ S \in SUBSET Runs /\ T \in SUBSET Runs
      /\ \A q \in Runs \ {r} : q \in S <=> q \in T
  BY <1>1
<1>3. (r \in S <=> e = EnvOf[r] /\ Reserved(r)) /\ (r \in T <=> e = EnvOf[r] /\ Reserved(r)')
  OBVIOUS
<1>4. Reserve(e) = Cardinality(S) /\ Reserve(e)' = Cardinality(T)
  BY DEF Reserve
<1> HIDE DEF S, T
<1> QED BY <1>2, <1>3, <1>4, OneMore

LEMMA RunStepCovered ==
  ASSUME RunTypeOK, Position, Covered, NEW r \in Runs, Steps(r)
  PROVE  /\ Covered'
         /\ \A e \in Envs : perEnv'[e].pages_uploaded >= perEnv[e].pages_uploaded
         /\ UNCHANGED carried /\ \A e \in Envs : blank'[e] >= blank[e]
<1>1. \A q \in Runs \ {r} : pc'[q] = pc[q] /\ page'[q] = page[q] /\ allOk'[q] = allOk[q]
  BY RunStepPosition
<1>2. /\ pc \in [Runs -> Labels] /\ page \in [Runs -> Nat] /\ allOk \in [Runs -> BOOLEAN]
      /\ carried \in [Envs -> Nat] /\ blank \in [Envs -> Nat]
  BY DEF RunTypeOK, Labels
<1>3. \A e \in Envs : perEnv[e].files_processed \in Nat /\ perEnv[e].pages_uploaded \in Nat
  BY DEF RunTypeOK
<1>4. CASE AddPage(r)
  <2>1. /\ UNCHANGED <<carried, blank>>
        /\ \A e \in Envs : /\ perEnv'[e].files_processed = perEnv[e].files_processed
                          /\ perEnv'[e].pages_uploaded =
                               perEnv[e].pages_uploaded + (IF e = EnvOf[r] THEN 1 ELSE 0)
    <3>1. Add(r, "pages_uploaded") /\ "pages_uploaded" \in Tallied /\ UNCHANGED <<carried, blank>>
      BY <1>4 DEF AddPage, Tallied
    <3>2. \A e \in Envs, y \in Tallied :
            perEnv'[e][y] = perEnv[e][y] + (IF e = EnvOf[r] /\ y = "pages_uploaded" THEN 1 ELSE 0)
      BY <3>1, AddAdds
    <3> QED BY <3>1, <3>2, <1>3 DEF Tallied
  <2> QED BY <1>1, <1>2, <1>3, <2>1, StepReserve DEF Covered
<1>5. CASE AddFile(r)
  <2>1. /\ UNCHANGED <<carried, blank>>
        /\ \A e \in Envs : /\ perEnv'[e].pages_uploaded = perEnv[e].pages_uploaded
                          /\ perEnv'[e].files_processed =
                               perEnv[e].files_processed + (IF e = EnvOf[r] THEN 1 ELSE 0)
    <3>1. Add(r, "files_processed") /\ "files_processed" \in Tallied /\ UNCHANGED <<carried, blank>>
      BY <1>5 DEF AddFile, Tallied
    <3>2. \A e \in Envs, y \in Tallied :
            perEnv'[e][y] = perEnv[e][y] + (IF e = EnvOf[r] /\ y = "files_processed" THEN 1 ELSE 0)
      BY <3>1, AddAdds
    <3> QED BY <3>1, <3>2, <1>3 DEF Tallied
  <2>2. Reserved(r) /\ ~Reserved(r)'
    BY <1>2, <1>5 DEF AddFile, Position, Step, Reserved
  <2> QED BY <1>1, <1>2, <1>3, <2>1, <2>2, StepReserve DEF Covered
<1>6. CASE ~AddPage(r) /\ ~AddFile(r)
  <2>1. \A e \in Envs : /\ perEnv'[e].files_processed = perEnv[e].files_processed
                       /\ perEnv'[e].pages_uploaded = perEnv[e].pages_uploaded
    <3>1. CASE StartRun(r) \/ StartFile(r) \/ FinishRun(r)
      BY <3>1, PutKeeps DEF StartRun, StartFile, FinishRun, Kept, Tallied
    <3>2. CASE AddPageError(r) \/ AddFileError(r)
      BY <3>2, <1>3, AddAdds DEF AddPageError, AddFileError, Tallied
    <3>3. CASE UNCHANGED perEnv
      BY <3>3
    <3> QED BY <1>6, <3>1, <3>2, <3>3 DEF Steps, RunOnce, Render, Accepted, NotAccepted,
              PageDone, Complete, Quarantine, NotifyQuarantine, RetryLater, Raise, FileDone, Abandon
  <2>2. UNCHANGED carried
    BY DEF Steps, RunOnce, StartRun, StartFile, Render, Accepted, NotAccepted, AddPage,
       AddPageError, PageDone, Complete, AddFile, Quarantine, NotifyQuarantine, RetryLater,
       Raise, AddFileError, FileDone, FinishRun, Abandon
  <2>3. CASE Complete(r) /\ PagesOf[r][file[r]] = 0
    <3>1. \A e \in Envs : blank'[e] = blank[e] + (IF e = EnvOf[r] THEN 1 ELSE 0)
      BY <1>2, <2>3 DEF Complete
    <3> QED BY <1>1, <1>2, <1>3, <2>1, <2>2, <3>1, StepReserve DEF Covered
  <2>4. ASSUME ~(Complete(r) /\ PagesOf[r][file[r]] = 0)
        PROVE  UNCHANGED blank
    BY <1>6, <2>4 DEF Steps, RunOnce, StartRun, StartFile, Render, Accepted, NotAccepted,
       AddPageError, PageDone, Complete, Quarantine, NotifyQuarantine, RetryLater,
       Raise, AddFileError, FileDone, FinishRun, Abandon
  <2>5. ASSUME ~(Complete(r) /\ PagesOf[r][file[r]] = 0)
        PROVE  ~Reserved(r)' \/ Reserved(r)
    <3> USE <1>2 DEF Position, Step, Reserved, InFile
    <3>1. CASE StartRun(r) \/ Render(r)
      BY <3>1 DEF StartRun, Render
    <3>6. CASE StartFile(r)
      <4>1. pc'[r] = "render"
        BY <3>6 DEF StartFile
      <4> QED BY <4>1
    <3>2. CASE Accepted(r) \/ NotAccepted(r) \/ AddPageError(r)
      BY <3>2 DEF Accepted, NotAccepted, AddPageError
    <3>3. CASE PageDone(r)
      BY <3>3 DEF PageDone
    <3>4. CASE Complete(r) \/ Quarantine(r) \/ RetryLater(r)
      BY <2>5, <3>4 DEF Complete, Quarantine, NotifyQuarantine, RetryLater
    <3>5. CASE Raise(r) \/ AddFileError(r) \/ FileDone(r) \/ FinishRun(r) \/ Abandon(r)
      BY <3>5 DEF Raise, AddFileError, FileDone, FinishRun, Abandon
    <3> QED BY <1>6, <3>1, <3>2, <3>3, <3>4, <3>5, <3>6 DEF Steps, RunOnce
  <2> QED BY <1>1, <1>2, <1>3, <2>1, <2>2, <2>3, <2>4, <2>5, StepReserve DEF Covered
<1> QED BY <1>4, <1>5, <1>6

(* The pages of what is on hand at midnight belong to the day before.      *)
LEMMA MidnightCovered ==
  ASSUME RunTypeOK, Position, Midnight
  PROVE  Covered' /\ Position'
<1>1. \A r \in Runs : Reserved(r) => pc[r] \in InFile
  BY DEF Reserved, InFile
<1>2. ASSUME NEW e \in Envs PROVE Reserve(e) <= OnHand(e)
  <2> DEFINE S == {r \in Runs : EnvOf[r] = e /\ Reserved(r)}
             T == {r \in Runs : EnvOf[r] = e /\ pc[r] \in InFile}
  <2>1. S \in SUBSET T /\ T \in SUBSET Runs
    BY <1>1
  <2>2. IsFiniteSet(T)
    BY <2>1, RunsAssumption, FS_Subset
  <2> HIDE DEF S, T
  <2>3. Cardinality(S) <= Cardinality(T)
    BY <2>1, <2>2, FS_Subset
  <2> QED BY <2>3 DEF S, T, Reserve, OnHand
<1>3. \A e \in Envs : Reserve(e)' = Reserve(e)
  BY DEF Midnight, thread, Reserve, Reserved
<1>4. \A e \in Envs : /\ perEnv'[e].files_processed = 0 /\ perEnv'[e].pages_uploaded = 0
                     /\ carried'[e] = OnHand(e) /\ blank'[e] = 0
  BY DEF Midnight, ResetDaily, RunTypeOK
<1>5. Covered'
  BY <1>2, <1>3, <1>4, ReserveType, OnHandType DEF Covered
<1>6. Position'
  BY DEF Midnight, thread, Position
<1> QED BY <1>5, <1>6

LEMMA NextCovered ==
  TypeOK /\ Position /\ Covered /\ [Next]_vars =>
    /\ Position' /\ Covered'
    /\ \/ Midnights
       \/ /\ UNCHANGED carried /\ \A e \in Envs : blank'[e] >= blank[e]
          /\ \A e \in Envs : perEnv'[e].pages_uploaded >= perEnv[e].pages_uploaded
<1> SUFFICES ASSUME TypeOK, Position, Covered, [Next]_vars
             PROVE  /\ Position' /\ Covered'
                    /\ \/ Midnights
                       \/ /\ UNCHANGED carried /\ \A e \in Envs : blank'[e] >= blank[e]
                          /\ \A e \in Envs :
                               perEnv'[e].pages_uploaded >= perEnv[e].pages_uploaded
  OBVIOUS
<1>0. RunTypeOK
  BY DEF TypeOK
<1>1. CASE \E r \in Runs : Start(r) \/ Run(r)
  BY <1>0, <1>1, RunStepPosition, RunStepCovered DEF Start, Run, Steps
<1>2. CASE Midnights
  BY <1>0, <1>2, MidnightCovered DEF Midnights
<1>3. CASE \/ Clock \/ BeginStatus \/ (\E e \in Envs : ReadStatus(e)) \/ AnswerStatus
           \/ Poll \/ (\E age \in {"fresh", "stale"} : Show(age)) \/ FetchLost
           \/ Event \/ EventGone \/ UNCHANGED vars
  <2>1. UNCHANGED <<perEnv, carried, blank, pc, file, page, allOk>>
    BY <1>3 DEF Clock, RecordClockSync, BeginStatus, ReadStatus, AnswerStatus, Poll, Show,
                FetchLost, Event, EventGone, Taken, vars, run, thread
  <2>2. \A e \in Envs : Reserve(e)' = Reserve(e)
    BY <2>1 DEF Reserve, Reserved
  <2>3. \A e \in Envs : perEnv[e].pages_uploaded \in Nat /\ blank[e] \in Nat
    BY <1>0 DEF RunTypeOK
  <2> QED BY <2>1, <2>2, <2>3 DEF Covered, Position
<1> QED BY <1>1, <1>2, <1>3 DEF Next

(* Until midnight pages are only added, so what was read earlier stays     *)
(* below what is read later.                                               *)
LEMMA NextCompared ==
  ASSUME TypeOK, Position, Covered, Compared, [Next]_vars
  PROVE  Compared'
<1>1. \A e \in Envs : /\ perEnv[e].files_processed \in Nat /\ perEnv[e].pages_uploaded \in Nat
                     /\ snapshot[e].files_processed \in Nat
                     /\ snapshot[e].pages_uploaded \in Nat
                     /\ carried[e] \in Nat /\ blank[e] \in Nat /\ seen[e] \in Nat
  <2>1. seen \in [Envs -> 0 .. 3]
    BY ReadOrderLength DEF TypeOK
  <2> QED BY <2>1 DEF TypeOK, RunTypeOK
<1>2. CASE Midnights
  <2>1. UNCHANGED <<seen, snapshot>> /\ (serving' = "none" <=> serving = "none")
    BY <1>2 DEF Midnights, Ages
  <2>2. torn' <=> serving # "none"
    BY <1>2 DEF Midnights
  <2> QED BY <1>1, <2>1, <2>2 DEF Compared
<1>3. ASSUME UNCHANGED carried, \A e \in Envs : blank'[e] >= blank[e],
             \A e \in Envs : perEnv'[e].pages_uploaded >= perEnv[e].pages_uploaded
      PROVE  Compared'
  <2>1. \A e \in Envs :
          /\ seen[e] = 2 /\ ~torn =>
               snapshot[e].files_processed <= perEnv'[e].pages_uploaded + carried'[e] + blank'[e]
          /\ seen[e] = 3 /\ ~torn =>
               snapshot[e].files_processed <= snapshot[e].pages_uploaded + carried'[e] + blank'[e]
    <3>1. \A e \in Envs : perEnv'[e].pages_uploaded \in Nat /\ blank'[e] \in Nat
      BY StepTypeOK DEF TypeOK, RunTypeOK
    <3> QED BY <1>1, <1>3, <3>1 DEF Compared
  <2>2. CASE \E e \in Envs : ReadStatus(e)
    <3>1. PICK e \in Envs : ReadStatus(e)
      BY <2>2
    <3>2. /\ UNCHANGED <<perEnv, blank, serving, torn>> /\ serving # "none"
          /\ \A d \in Envs \ {e} : seen'[d] = seen[d] /\ snapshot'[d] = snapshot[d]
          /\ seen'[e] = seen[e] + 1 /\ seen[e] \in 0 .. 2
      BY <3>1, ReadOrderLength DEF ReadStatus, run, TypeOK
    <3>3. CASE seen[e] = 0
      BY <1>3, <2>1, <3>2, <3>3 DEF Compared
    <3>4. CASE seen[e] = 1
      <4>1. snapshot'[e].files_processed = perEnv[e].files_processed
        BY <3>1, <3>4 DEF ReadStatus, ReadOrder, TypeOK
      <4>2. perEnv[e].files_processed <= perEnv[e].pages_uploaded + carried[e] + blank[e]
        BY <1>1, ReserveType DEF Covered
      <4> QED BY <1>3, <2>1, <3>2, <3>4, <4>1, <4>2 DEF Compared
    <3>5. CASE seen[e] = 2
      <4>1. /\ snapshot'[e].pages_uploaded = perEnv[e].pages_uploaded
            /\ snapshot'[e].files_processed = snapshot[e].files_processed
        BY <3>1, <3>5 DEF ReadStatus, ReadOrder, TypeOK
      <4> QED BY <1>3, <2>1, <3>2, <3>5, <4>1 DEF Compared
    <3> QED BY <3>2, <3>3, <3>4, <3>5
  <2>3. CASE AnswerStatus
    BY <2>3 DEF AnswerStatus, Compared
  <2>4. CASE /\ UNCHANGED <<seen, snapshot, torn>>
             /\ serving' = "none" <=> serving = "none"
    BY <1>3, <2>1, <2>4 DEF Compared
  <2>5. CASE BeginStatus
    BY <1>3, <2>1, <2>5 DEF BeginStatus, Compared
  <2>6. CASE Midnights
    BY <2>6, <1>2
  <2>7. CASE (\E r \in Runs : Start(r) \/ Run(r)) \/ Clock
    BY <2>4, <2>7 DEF Start, Run, Clock, Ages
  <2>8. CASE \/ Poll \/ (\E age \in {"fresh", "stale"} : Show(age)) \/ FetchLost
             \/ Event \/ EventGone \/ UNCHANGED vars
    BY <2>4, <2>8 DEF Poll, Show, FetchLost, Event, EventGone, Taken, vars, server
  <2> QED BY <2>2, <2>3, <2>5, <2>6, <2>7, <2>8 DEF Next
<1> QED BY <1>2, <1>3, NextCovered

LEMMA InitCovered == Init => Position /\ Covered /\ Compared
<1> SUFFICES ASSUME Init PROVE Position /\ Covered /\ Compared
  OBVIOUS
<1>1. Position /\ Compared
  BY DEF Init, RunInit, Position, Compared, InFile
<1>2. ASSUME NEW e \in Envs PROVE Reserve(e) = 0
  <2>1. {r \in Runs : EnvOf[r] = e /\ Reserved(r)} = {}
    BY DEF Init, RunInit, Reserved
  <2> QED BY <2>1, FS_EmptySet DEF Reserve
<1> QED BY <1>1, <1>2 DEF Init, RunInit, Covered

(* No answer of /status shows more files than pages, but for the files     *)
(* that have no page or were on hand at midnight, and unless a midnight    *)
(* fell into its computation; for any number of runs that write and        *)
(* whatever steps fall between its reads: a run counts a page of a file    *)
(* before the file, and _per_env_run reads the files before the pages.     *)
THEOREM AnswersCover == Spec => []PagesCoverFiles
<1> DEFINE IInv == TypeOK /\ Position /\ Covered /\ Compared
<1>1. Init => IInv
  BY InitTypeOK, InitCovered
<1>2. IInv /\ [Next]_vars => IInv'
  BY StepTypeOK, NextCovered, NextCompared
<1>3. IInv => PagesCoverFiles
  BY ReadOrderLength DEF Compared, PagesCoverFiles, Computed
<1> QED BY <1>1, <1>2, <1>3, PTL DEF Spec

=============================================================================

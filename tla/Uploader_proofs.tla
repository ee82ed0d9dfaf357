---------------------------- MODULE Uploader_proofs ----------------------------
(***************************************************************************)
(* Uploading pages through the rate limiter: the limiter's theorem carries *)
(* over to the threads that use it, and what a call returns is true of the *)
(* backend, for any number of threads, retries and resolutions.            *)
(***************************************************************************)
EXTENDS Uploader, FiniteSetTheorems, FunctionTheorems, SequenceTheorems, WellFoundedInduction,
        TLAPS

Lim == INSTANCE RateLimiter_proofs

(* A call has a verdict exactly at its end, and no size on hand then.      *)
CallOK == \A c \in Callers :
  /\ outcome[c] # "none" <=> pc[c] = "done"
  /\ pc[c] = "done" => rung[c] = 0

(* Every copy the backend has was missed by the thread, or it is the one   *)
(* the thread was told of.                                                 *)
CopiesOK == \A c \in Callers :
  copies[c] = missed[c] + (IF outcome[c] = "accepted" THEN 1 ELSE 0)

CallType ==
  /\ pc \in [Callers -> {"encode", "acquire", "send", "done"}]
  /\ rung \in [Callers -> Nat]
  /\ outcome \in [Callers -> {"none", "accepted", "rejected", "failed", "raised"}]
  /\ copies \in [Callers -> Nat] /\ missed \in [Callers -> Nat]
  /\ stray \in [Callers -> Nat]

IInv == CallType /\ CallOK /\ CopiesOK

USE UploaderAssumption

-----------------------------------------------------------------------------
(* The limiter's constants are as its theorems assume.                     *)
LEMMA LimiterFits == Lim!LimiterAssumption
  BY DEF Lim!LimiterAssumption

(* Every step of the threads and the clock is one the limiter allows.      *)
LEMMA StepOfLimiter ==
  ASSUME [Next]_vars
  PROVE  [Lim!Next]_(Lim!vars)
<1>1. CASE Tick
  BY <1>1 DEF Tick, Lim!Next, Limiter!Tick, Lim!Tick, Limiter!Older, Lim!Older,
     Limiter!Expired, Lim!Expired, Limiter!Without, Lim!Without
<1>2. ASSUME NEW c \in Callers, Limiter!Enter(c) \/ Limiter!Acquire(c) \/ Limiter!Wake(c)
      PROVE  Lim!Next
  BY <1>2 DEF Lim!Next, Limiter!Enter, Lim!Enter, Limiter!Acquire, Lim!Acquire,
     Limiter!Wake, Lim!Wake, Limiter!Expired, Lim!Expired, Limiter!Without, Lim!Without
<1>3. ASSUME NEW c \in Callers, NextPage(c) \/ UploadPage(c) \/ StoreLate(c)
      PROVE  Lim!Next \/ UNCHANGED Lim!vars
  BY <1>2, <1>3 DEF limiter, Lim!vars, NextPage, UploadPage, StoreLate, Encode, EncodeError, Slot,
     Accepted, Raised, Refused, Failed
<1>4. CASE UNCHANGED vars
  BY <1>4 DEF vars, limiter, Lim!vars
<1> QED BY <1>1, <1>3, <1>4 DEF Next

(* The threads implement the limiter's specification.                      *)
THEOREM UsesTheLimiter == Spec => Lim!Spec
<1>1. Init => Lim!Init
  BY DEF Init, Limiter!Init, Lim!Init
<1>2. [Next]_vars => [Lim!Next]_(Lim!vars)
  BY StepOfLimiter
<1> QED BY <1>1, <1>2, PTL DEF Spec, Lim!Spec

(* In no window do the threads get more than Max slots between them.       *)
THEOREM QuotaKept == Spec => []GrantsWithinQuota
<1>1. Lim!Spec => []Lim!GrantsWithinQuota
  BY LimiterFits, Lim!QuotaHolds
<1>2. Lim!GrantsWithinQuota => GrantsWithinQuota
  BY DEF Lim!GrantsWithinQuota, GrantsWithinQuota, Limiter!GrantsWithinQuota
<1> QED BY <1>1, <1>2, UsesTheLimiter, PTL

-----------------------------------------------------------------------------
(* A thread about to send has no verdict, and has missed every copy.       *)
LEMMA UnderWay ==
  ASSUME IInv, NEW c \in Callers, pc[c] = "send" \/ Post(c)
  PROVE  outcome[c] = "none" /\ copies[c] = missed[c]
<1>1. pc[c] = "send"
  BY DEF Post
<1>2. outcome[c] = "none"
  BY <1>1 DEF IInv, CallOK
<1> QED BY <1>2 DEF IInv, CallType, CopiesOK

(* Every step keeps count of the copies.                                   *)
LEMMA NextKeeps == IInv /\ [Next]_vars => IInv'
<1> SUFFICES ASSUME IInv, [Next]_vars PROVE IInv'
  OBVIOUS
<1> USE DEF IInv, CallType, CallOK, CopiesOK, Go, Return, Stores, Misses, call, page
<1>1. CASE Tick
  BY <1>1 DEF Tick
<1>2. ASSUME NEW c \in Callers, NextPage(c) PROVE IInv'
  BY <1>2 DEF NextPage
<1>3. ASSUME NEW c \in Callers, Encode(c) PROVE IInv'
  BY <1>3 DEF Encode
<1>4. ASSUME NEW c \in Callers, EncodeError(c) PROVE IInv'
  BY <1>4 DEF EncodeError
<1>5. ASSUME NEW c \in Callers, Slot(c) PROVE IInv'
  BY <1>5 DEF Slot
<1>6. ASSUME NEW c \in Callers, Accepted(c) PROVE IInv'
  <2>0. outcome[c] = "none" /\ copies[c] = missed[c]
    BY <1>6, UnderWay DEF Accepted
  <2>1. Return(c, "accepted") /\ stray' = stray
    BY <1>6 DEF Accepted
  <2>2. copies' = [copies EXCEPT ![c] = @ + 1] /\ missed' = missed
    BY <1>6 DEF Accepted
  <2>3. CallType' /\ CallOK'
    BY <2>0, <2>1, <2>2
  <2>4. CopiesOK'
    BY <2>0, <2>1, <2>2
  <2> QED BY <2>3, <2>4
<1>7. ASSUME NEW c \in Callers, Raised(c) PROVE IInv'
  <2>0. outcome[c] = "none" /\ copies[c] = missed[c]
    BY <1>7, UnderWay DEF Raised
  <2>1. Return(c, "raised") /\ stray' = stray
    BY <1>7 DEF Raised
  <2>2. \/ /\ copies' = [copies EXCEPT ![c] = @ + 1]
           /\ missed' = [missed EXCEPT ![c] = @ + 1]
        \/ copies' = copies /\ missed' = missed
    BY <1>7 DEF Raised
  <2>3. CallType' /\ CallOK'
    BY <2>0, <2>1, <2>2
  <2>4. CopiesOK'
    BY <2>0, <2>1, <2>2
  <2> QED BY <2>3, <2>4
<1>8. ASSUME NEW c \in Callers, Refused(c) PROVE IInv'
  <2>1. outcome[c] = "none" /\ copies[c] = missed[c]
    BY <1>8, UnderWay DEF Refused
  <2>2. UNCHANGED <<copies, missed, stray>>
    BY <1>8 DEF Refused
  <2>3. CASE /\ rung[c] < Rungs /\ rung' = [rung EXCEPT ![c] = @ + 1]
             /\ Go(c, "encode") /\ UNCHANGED outcome
    BY <2>1, <2>2, <2>3
  <2>4. CASE Return(c, "rejected")
    BY <2>1, <2>2, <2>4
  <2> QED BY <1>8, <2>3, <2>4 DEF Refused
<1>9. ASSUME NEW c \in Callers, Failed(c) PROVE IInv'
  <2>1. outcome[c] = "none" /\ copies[c] = missed[c]
    BY <1>9, UnderWay DEF Failed, NoAnswer, Post
  <2>2. /\ copies' = copies /\ missed' = missed
        /\ stray' = stray \/ stray' = [stray EXCEPT ![c] = @ + 1]
    BY <1>9 DEF Failed, NoAnswer
  <2>3. CASE PauseAndRetry(c)
    BY <2>1, <2>2, <2>3 DEF PauseAndRetry
  <2>4. CASE Return(c, "failed")
    BY <2>1, <2>2, <2>4
  <2> QED BY <1>9, <2>3, <2>4 DEF Failed
<1>10. ASSUME NEW c \in Callers, StoreLate(c) PROVE IInv'
  BY <1>10 DEF StoreLate
<1>11. CASE UNCHANGED vars
  BY <1>11 DEF vars
<1> QED BY <1>1, <1>2, <1>3, <1>4, <1>5, <1>6, <1>7, <1>8, <1>9, <1>10, <1>11
        DEF Next, UploadPage

(* The backend has a page when the call says ACCEPTED, and has it twice    *)
(* only as often as an answer that said so was lost or not waited for.     *)
THEOREM CopiesAccounted == Spec => []CopiesExplained
<1>1. Init => IInv
  BY DEF Init, IInv, CallType, CallOK, CopiesOK
<1>2. IInv => CopiesExplained
  BY DEF IInv, CallType, CallOK, CopiesOK, CopiesExplained
<1> QED BY <1>1, <1>2, NextKeeps, PTL DEF Spec

-----------------------------------------------------------------------------
(* How many requests the backend gets.  The limiter bounds the grants of a *)
(* window, and each request has had its grant, but perhaps long before.    *)
(* For every age, what the backend got since then exceeds what was granted *)
(* since then by no more than the threads that held an unused slot at the  *)
(* time; Balance says it without the past: each thread may have had one,   *)
(* unless it holds one now.                                                *)

Recent(s, a) == {i \in 1 .. Len(s) : s[i] <= a}

Holding == {c \in Callers : pc[c] = "send"}

Ages == 0 .. Window - 1

SentType == sent \in Seq(Ages) /\ Lim!Sorted(sent)

Balance == \A a \in Ages :
  Cardinality(Recent(sent, a)) + Cardinality(Holding)
    <= Cardinality(Recent(granted, a)) + Cardinality(Callers)

LEMMA RecentType ==
  ASSUME NEW s \in Seq(Nat), NEW a
  PROVE  IsFiniteSet(Recent(s, a)) /\ Cardinality(Recent(s, a)) \in Nat
<1>1. IsFiniteSet(1 .. Len(s)) /\ Recent(s, a) \in SUBSET (1 .. Len(s))
  BY FS_Interval DEF Recent
<1> QED BY <1>1, FS_Subset, FS_CardinalityType

LEMMA AppendRecent ==
  ASSUME NEW s \in Seq(Ages), NEW a \in Ages
  PROVE  Cardinality(Recent(Append(s, 0), a)) = Cardinality(Recent(s, a)) + 1
<1>1. Recent(Append(s, 0), a) = Recent(s, a) \cup {Len(s) + 1}
  BY DEF Recent, Ages
<1>2. Len(s) + 1 \notin Recent(s, a)
  BY DEF Recent
<1>3. s \in Seq(Nat)
  BY DEF Ages
<1> QED BY <1>1, <1>2, <1>3, RecentType, FS_AddElement

LEMMA AllRecent ==
  ASSUME NEW s \in Seq(Ages)
  PROVE  Cardinality(Recent(s, Window - 1)) = Len(s)
<1>1. \A i \in 1 .. Len(s) : s[i] <= Window - 1
  BY ElementOfSeq DEF Ages
<1>2. Recent(s, Window - 1) = 1 .. Len(s)
  BY <1>1 DEF Recent
<1>3. Cardinality(1 .. Len(s)) = IF 1 > Len(s) THEN 0 ELSE Len(s) - 1 + 1
  <2>1. 1 \in Int /\ Len(s) \in Int
    OBVIOUS
  <2> QED BY <2>1, FS_Interval
<1> QED BY <1>2, <1>3

(* A tick makes everything one older and drops what leaves the window.     *)
LEMMA TickRecent ==
  ASSUME NEW s \in Seq(Ages), NEW k \in 0 .. Len(s), Lim!Expired(Lim!Older(s), k), NEW a \in Ages
  PROVE  Cardinality(Recent(Lim!Without(Lim!Older(s), k), a)) =
           IF a = 0 THEN 0 ELSE Cardinality(Recent(s, a - 1))
<1> DEFINE old == Lim!Older(s)
           new == Lim!Without(old, k)
<1>1. s \in Seq(0 .. Window) /\ \A i \in 1 .. Len(s) : s[i] \in Ages
  BY ElementOfSeq DEF Ages
<1>2. /\ old \in Seq(0 .. Window) /\ Len(old) = Len(s)
      /\ \A i \in 1 .. Len(s) : old[i] = s[i] + 1
  BY <1>1, LimiterFits, Lim!OlderEntries DEF Ages
<1>3. \A i \in 1 .. k : old[i] = Window
  BY DEF Lim!Expired
<1> HIDE DEF old
<1>4. /\ Len(new) = Len(s) - k
      /\ \A i \in 1 .. Len(s) - k : new[i] = old[k + i]
  BY <1>2, Lim!WithoutEntries
<1> HIDE DEF new
<1>5. \A i \in 1 .. Len(new) : k + i \in 1 .. Len(s) /\ new[i] = s[k + i] + 1
  BY <1>2, <1>4
<1>6. CASE a = 0
  <2>1. \A i \in 1 .. Len(new) : ~(new[i] <= 0)
    <3>1. SUFFICES ASSUME NEW i \in 1 .. Len(new) PROVE ~(new[i] <= 0)
      OBVIOUS
    <3>2. s[k + i] \in 0 .. Window - 1 /\ new[i] = s[k + i] + 1
      BY <1>1, <1>5 DEF Ages
    <3> QED BY <3>2
  <2>2. Recent(new, 0) = {}
    BY <2>1 DEF Recent
  <2> QED BY <1>6, <2>2, FS_EmptySet DEF new, old
<1>7. CASE a # 0
  <2> DEFINE S == Recent(new, a)
             T == Recent(s, a - 1)
             f == [i \in S |-> k + i]
  <2>1. \A i \in S : k + i \in T
    BY <1>1, <1>5, <1>7, SMTT(30) DEF Recent, Ages
  <2>2. \A j \in T : j - k \in S /\ k + (j - k) = j
    <3>1. SUFFICES ASSUME NEW j \in T PROVE j - k \in S /\ k + (j - k) = j
      OBVIOUS
    <3>2. j \in 1 .. Len(s) /\ s[j] <= a - 1
      BY DEF Recent
    <3>3. old[j] < Window
      BY <1>1, <1>2, <3>2 DEF Ages
    <3>4. j > k
      BY <1>3, <3>2, <3>3
    <3>5. j - k \in 1 .. Len(new) /\ k + (j - k) = j
      BY <1>4, <3>2, <3>4
    <3>6. new[j - k] = s[j] + 1
      BY <1>5, <3>5
    <3> QED BY <1>1, <3>2, <3>5, <3>6, SMTT(30) DEF Recent, Ages
  <2>3. f \in [S -> T] /\ \A i, j \in S : f[i] = f[j] => i = j
    BY <2>1 DEF Recent
  <2>4. \A j \in T : \E i \in S : f[i] = j
    BY <2>2
  <2>5. ExistsBijection(S, T)
    <3> HIDE DEF f, S, T
    <3> QED BY <2>3, <2>4, Fun_IsBij DEF ExistsBijection
  <2>6. IsFiniteSet(S)
    <3>1. IsFiniteSet(1 .. Len(new))
      <4>1. 1 \in Int /\ Len(new) \in Int
        BY <1>4
      <4> QED BY <4>1, FS_Interval
    <3>2. S \in SUBSET (1 .. Len(new))
      BY DEF Recent
    <3> QED BY <3>1, <3>2, FS_Subset
  <2>7. Cardinality(S) = Cardinality(T)
    <3> HIDE DEF S, T
    <3> QED BY <2>5, <2>6, FS_Bijection
  <2> QED BY <1>7, <2>7 DEF new, old
<1> QED BY <1>6, <1>7

-----------------------------------------------------------------------------
LEMMA HoldingType ==
  /\ Holding \in SUBSET Callers /\ IsFiniteSet(Holding)
  /\ Cardinality(Holding) \in Nat /\ Cardinality(Callers) \in Nat
  /\ Cardinality(Holding) <= Cardinality(Callers)
<1>1. Holding \in SUBSET Callers
  BY DEF Holding
<1> QED BY <1>1, FS_Subset, FS_CardinalityType

(* What the limiter's theorem says of the grants of the last window.       *)
LEMMA GrantedType ==
  ASSUME Lim!IInv
  PROVE  /\ at \in [Callers -> {"out", "acquire", "sleep"}]
         /\ granted \in Seq(Ages) /\ Len(granted) <= Max
  BY LenProperties DEF Lim!IInv, Lim!TypeOK, Lim!Remembers, Ages

(* The threads holding a slot they did not use, before and after a step.   *)
LEMMA OneMoreHolds ==
  ASSUME CallType, NEW c \in Callers, pc[c] # "send", pc' = [pc EXCEPT ![c] = "send"]
  PROVE  Cardinality(Holding') = Cardinality(Holding) + 1
<1>1. Holding' = Holding \cup {c} /\ c \notin Holding
  BY DEF Holding, CallType
<1> QED BY <1>1, HoldingType, FS_AddElement

LEMMA OneLessHolds ==
  ASSUME CallType, NEW c \in Callers, NEW label, label # "send",
         pc[c] = "send", pc' = [pc EXCEPT ![c] = label]
  PROVE  Cardinality(Holding') = Cardinality(Holding) - 1
<1>1. Holding' = Holding \ {c} /\ c \in Holding
  BY DEF Holding, CallType
<1> QED BY <1>1, HoldingType, FS_RemoveElement

(* A step of neither side of the balance, but that a held slot is let go.  *)
LEMMA NothingSent ==
  ASSUME SentType, Balance, Lim!IInv, sent' = sent, granted' = granted,
         Cardinality(Holding') <= Cardinality(Holding), Cardinality(Holding') \in Nat
  PROVE  SentType' /\ Balance'
<1>1. SentType'
  BY DEF SentType, Lim!Sorted
<1>2. ASSUME NEW a \in Ages
      PROVE  Cardinality(Recent(sent, a))' + Cardinality(Holding')
               <= Cardinality(Recent(granted, a))' + Cardinality(Callers)
  <2>1. Recent(sent, a)' = Recent(sent, a) /\ Recent(granted, a)' = Recent(granted, a)
    BY DEF Recent
  <2>2. sent \in Seq(Nat) /\ granted \in Seq(Nat)
    BY GrantedType DEF SentType, Ages
  <2>3. Cardinality(Recent(sent, a)) \in Nat /\ Cardinality(Recent(granted, a)) \in Nat
    BY <2>2, RecentType
  <2> QED BY <2>1, <2>3, HoldingType DEF Balance
<1> QED BY <1>1, <1>2 DEF Balance

(* A grant is one more on the right, and one more slot held on the left.   *)
LEMMA SlotBalances ==
  ASSUME CallType, SentType, Balance, Lim!IInv, NEW c \in Callers, Slot(c)
  PROVE  SentType' /\ Balance'
<1>1. sent' = sent /\ pc[c] = "acquire"
  BY DEF Slot
<1>2. CASE granted' = Append(granted, 0) /\ pc' = [pc EXCEPT ![c] = "send"]
  <2>1. Cardinality(Holding') = Cardinality(Holding) + 1
    BY <1>1, <1>2, OneMoreHolds
  <2>2. ASSUME NEW a \in Ages
        PROVE  Cardinality(Recent(sent, a))' + Cardinality(Holding')
                 <= Cardinality(Recent(granted, a))' + Cardinality(Callers)
    <3>1. Recent(sent, a)' = Recent(sent, a)
      BY <1>1 DEF Recent
    <3>2. Recent(granted, a)' = Recent(Append(granted, 0), a)
      BY <1>2 DEF Recent
    <3>3. Cardinality(Recent(Append(granted, 0), a)) = Cardinality(Recent(granted, a)) + 1
      BY GrantedType, AppendRecent
    <3>4. sent \in Seq(Nat) /\ granted \in Seq(Nat)
      BY GrantedType DEF SentType, Ages
    <3>5. Cardinality(Recent(sent, a)) \in Nat /\ Cardinality(Recent(granted, a)) \in Nat
      BY <3>4, RecentType
    <3> QED BY <2>1, <3>1, <3>2, <3>3, <3>5, HoldingType DEF Balance
  <2> QED BY <1>1, <2>2 DEF SentType, Balance, Lim!Sorted
<1>3. CASE granted' = granted /\ \A d \in Callers : pc'[d] = "send" => pc[d] = "send"
  <2>1. Holding' \in SUBSET Holding
    BY <1>3 DEF Holding
  <2>2. Cardinality(Holding') <= Cardinality(Holding) /\ Cardinality(Holding') \in Nat
    BY <2>1, HoldingType, FS_Subset, FS_CardinalityType
  <2> QED BY <1>1, <1>3, <2>2, NothingSent
<1>4. CASE Limiter!Wake(c) /\ UNCHANGED pc
  BY <1>3, <1>4 DEF Limiter!Wake
<1>5. CASE Limiter!Acquire(c) /\ Go(c, IF at'[c] = "out" THEN "send" ELSE "acquire")
  <2>1. \/ granted' = Append(granted, 0) /\ at'[c] = "out"
        \/ granted' = granted /\ at'[c] = "sleep"
    BY <1>5, GrantedType DEF Limiter!Acquire
  <2> QED BY <1>2, <1>3, <1>5, <2>1 DEF Go, CallType
<1> QED BY <1>4, <1>5 DEF Slot

(* A request is one more on the left, and one slot less held.              *)
LEMMA PostBalances ==
  ASSUME CallType, SentType, Balance, Lim!IInv, NEW c \in Callers, Post(c), granted' = granted,
         NEW label, label # "send", pc' = [pc EXCEPT ![c] = label]
  PROVE  SentType' /\ Balance'
<1>1. sent' = Append(sent, 0) /\ granted' = granted /\ pc[c] = "send"
  BY DEF Post
<1>2. Cardinality(Holding') = Cardinality(Holding) - 1
  BY <1>1, OneLessHolds
<1>3. SentType'
  BY <1>1 DEF SentType, Lim!Sorted, Ages
<1>4. ASSUME NEW a \in Ages
      PROVE  Cardinality(Recent(sent, a))' + Cardinality(Holding')
               <= Cardinality(Recent(granted, a))' + Cardinality(Callers)
  <2>1. /\ Recent(sent, a)' = Recent(Append(sent, 0), a)
        /\ Recent(granted, a)' = Recent(granted, a)
    BY <1>1 DEF Recent
  <2>2. Cardinality(Recent(Append(sent, 0), a)) = Cardinality(Recent(sent, a)) + 1
    BY AppendRecent DEF SentType
  <2>3. sent \in Seq(Nat) /\ granted \in Seq(Nat)
    BY GrantedType DEF SentType, Ages
  <2>4. Cardinality(Recent(sent, a)) \in Nat /\ Cardinality(Recent(granted, a)) \in Nat
    BY <2>3, RecentType
  <2> QED BY <1>2, <2>1, <2>2, <2>4, HoldingType DEF Balance
<1> QED BY <1>3, <1>4 DEF Balance

(* The clock moves both sides alike, and what is one tick old was less     *)
(* than a tick old before; what is new is what the threads hold.           *)
LEMMA TickBalances ==
  ASSUME SentType, Balance, Lim!IInv, Tick
  PROVE  SentType' /\ Balance'
<1>1. Holding' = Holding
  BY DEF Tick, Holding
<1>2. PICK k \in 0 .. Len(sent) : /\ Lim!Expired(Lim!Older(sent), k)
                                  /\ sent' = Lim!Without(Lim!Older(sent), k)
  BY DEF Tick, Limiter!Expired, Lim!Expired, Limiter!Older, Lim!Older, Limiter!Without, Lim!Without
<1>3. PICK m \in 0 .. Len(granted) : /\ Lim!Expired(Lim!Older(granted), m)
                                     /\ granted' = Lim!Without(Lim!Older(granted), m)
  BY DEF Tick, Limiter!Tick, Limiter!Expired, Lim!Expired, Limiter!Older, Lim!Older,
     Limiter!Without, Lim!Without
<1>4. SentType'
  <2>1. sent \in Seq(0 .. Window) /\ Lim!Sorted(sent)
    BY DEF SentType, Ages
  <2>2. /\ Lim!Without(Lim!Older(sent), k) \in Seq(0 .. Window - 1)
        /\ Lim!Sorted(Lim!Without(Lim!Older(sent), k))
    BY <1>2, <2>1, LimiterFits, Lim!TickEntries
  <2> QED BY <1>2, <2>2 DEF SentType, Ages, Lim!Sorted
<1>5. ASSUME NEW a \in Ages
      PROVE  Cardinality(Recent(sent, a))' + Cardinality(Holding')
               <= Cardinality(Recent(granted, a))' + Cardinality(Callers)
  <2>1. Cardinality(Recent(sent', a)) = IF a = 0 THEN 0 ELSE Cardinality(Recent(sent, a - 1))
    BY <1>2, TickRecent DEF SentType
  <2>2. Cardinality(Recent(granted', a)) =
          IF a = 0 THEN 0 ELSE Cardinality(Recent(granted, a - 1))
    BY <1>3, GrantedType, TickRecent
  <2>3. Recent(sent, a)' = Recent(sent', a) /\ Recent(granted, a)' = Recent(granted', a)
    BY DEF Recent
  <2>4. CASE a = 0
    BY <1>1, <2>1, <2>2, <2>3, <2>4, HoldingType
  <2>5. CASE a # 0
    <3>1. a - 1 \in Ages
      BY <2>5 DEF Ages
    <3> QED BY <1>1, <2>1, <2>2, <2>3, <2>5, <3>1 DEF Balance
  <2> QED BY <2>4, <2>5
<1> QED BY <1>4, <1>5 DEF Balance

(* Every step keeps the balance.                                           *)
LEMMA BalanceKept ==
  ASSUME CallType, SentType, Balance, Lim!IInv, [Next]_vars
  PROVE  SentType' /\ Balance'
<1>1. ASSUME NEW c \in Callers, sent' = sent, granted' = granted,
             \A d \in Callers : pc'[d] = "send" => pc[d] = "send"
      PROVE  SentType' /\ Balance'
  <2>1. Holding' \in SUBSET Holding
    BY <1>1 DEF Holding
  <2>2. Cardinality(Holding') <= Cardinality(Holding) /\ Cardinality(Holding') \in Nat
    BY <2>1, HoldingType, FS_Subset, FS_CardinalityType
  <2> QED BY <1>1, <2>2, NothingSent
<1>2. ASSUME NEW c \in Callers, NextPage(c) \/ Encode(c) \/ EncodeError(c) \/ StoreLate(c)
      PROVE  SentType' /\ Balance'
  BY <1>1, <1>2 DEF NextPage, Encode, EncodeError, StoreLate, Limiter!Enter, Return, Go, limiter,
     CallType
<1>3. ASSUME NEW c \in Callers, Accepted(c) \/ Raised(c) \/ Refused(c)
      PROVE  SentType' /\ Balance'
  <2>1. Post(c) /\ granted' = granted
    BY <1>3 DEF Accepted, Raised, Refused, limiter
  <2>2. pc' = [pc EXCEPT ![c] = "encode"] \/ pc' = [pc EXCEPT ![c] = "done"]
    BY <1>3 DEF Accepted, Raised, Refused, Return, Go
  <2> QED BY <2>1, <2>2, PostBalances
<1>4. ASSUME NEW c \in Callers, Failed(c) PROVE SentType' /\ Balance'
  <2>1. granted' = granted /\ (Post(c) \/ sent' = sent)
    BY <1>4 DEF Failed, NoAnswer, limiter
  <2>2. pc' = [pc EXCEPT ![c] = "encode"] \/ pc' = [pc EXCEPT ![c] = "done"]
    BY <1>4 DEF Failed, PauseAndRetry, Return, Go
  <2>3. CASE Post(c)
    BY <2>1, <2>2, <2>3, PostBalances
  <2>4. CASE sent' = sent
    BY <1>1, <2>1, <2>2, <2>4 DEF CallType
  <2> QED BY <2>1, <2>3, <2>4
<1>5. CASE UNCHANGED vars
  <2>1. sent' = sent /\ granted' = granted /\ Holding' = Holding
    BY <1>5 DEF vars, limiter, Holding
  <2> QED BY <2>1, HoldingType, NothingSent
<1> QED BY <1>2, <1>3, <1>4, <1>5, SlotBalances, TickBalances DEF Next, UploadPage

LEMMA InitBalance == Init => SentType /\ Balance
<1> SUFFICES ASSUME Init PROVE SentType /\ Balance
  OBVIOUS
<1>1. sent = <<>> /\ granted = <<>> /\ Holding = {}
  BY DEF Init, Limiter!Init, Holding
<1>2. \A a \in Ages : Recent(sent, a) = {} /\ Recent(granted, a) = {}
  BY <1>1 DEF Recent
<1>3. SentType
  BY <1>1 DEF SentType, Lim!Sorted
<1>4. Cardinality({}) = 0 /\ Cardinality(Callers) \in Nat
  BY FS_EmptySet, FS_CardinalityType
<1>5. ASSUME NEW a \in Ages
      PROVE  Cardinality(Recent(sent, a)) + Cardinality(Holding)
               <= Cardinality(Recent(granted, a)) + Cardinality(Callers)
  <2>1. Cardinality(Recent(sent, a)) = 0 /\ Cardinality(Recent(granted, a)) = 0
    BY <1>2, <1>4
  <2> QED BY <1>1, <1>4, <2>1
<1> QED BY <1>3, <1>5 DEF Balance

LEMMA CallInvariant == Spec => []IInv
<1>1. Init => IInv
  BY DEF Init, IInv, CallType, CallOK, CopiesOK
<1> QED BY <1>1, NextKeeps, PTL DEF Spec

LEMMA GrantInvariant == Spec => []Lim!IInv
<1>1. Lim!Spec => []Lim!IInv
  BY LimiterFits, Lim!LimiterInvariant
<1> QED BY <1>1, UsesTheLimiter, PTL

LEMMA BalanceInvariant == Spec => [](SentType /\ Balance)
<1>1. CallType /\ Lim!IInv /\ (SentType /\ Balance) /\ [Next]_vars => (SentType /\ Balance)'
  BY BalanceKept
<1>2. IInv => CallType
  BY DEF IInv
<1> QED BY <1>1, <1>2, InitBalance, CallInvariant, GrantInvariant, PTL DEF Spec

(* What is sent within a window and what may be sent at once are within    *)
(* the quota and one request for each thread.                              *)
LEMMA WindowBalance ==
  ASSUME SentType, Balance, Lim!IInv
  PROVE  /\ Len(sent) \in Nat
         /\ Len(sent) + Cardinality(Holding) <= Max + Cardinality(Callers)
<1>1. Window - 1 \in Ages
  BY DEF Ages
<1>2. Cardinality(Recent(sent, Window - 1)) = Len(sent)
  BY AllRecent DEF SentType
<1>3. Cardinality(Recent(granted, Window - 1)) = Len(granted) /\ Len(granted) <= Max
  BY GrantedType, AllRecent
<1>4. Len(sent) \in Nat /\ Len(granted) \in Nat
  BY GrantedType, LenProperties DEF SentType
<1> QED BY <1>1, <1>2, <1>3, <1>4, HoldingType DEF Balance

(* In no window does the backend get more than one request per thread      *)
(* above the quota, for any number of threads and any window.              *)
THEOREM RequestsNearQuota == Spec => []SentNearQuota
<1>1. SentType /\ Balance /\ Lim!IInv => SentNearQuota
  BY WindowBalance, HoldingType DEF SentNearQuota
<1> QED BY <1>1, BalanceInvariant, GrantInvariant, PTL

-----------------------------------------------------------------------------
(* Why a size is given up.  The sizes below the one on hand are given up,  *)
(* and all of them when the page is REJECTED.                              *)
Causes == \A c \in Callers : \A r \in 0 .. Rungs :
  r < rung[c] \/ outcome[c] = "rejected" => GivenUp(c, r)

LadderType ==
  /\ rung \in [Callers -> 0 .. Rungs]
  /\ throttled \in [Callers -> SUBSET (0 .. Rungs)]

(* A refusal gives up the size on hand, and forgets none.                  *)
LEMMA RefusedGivesUp ==
  ASSUME LadderType, SentType, NEW c \in Callers, Refused(c)
  PROVE  /\ LadderType'
         /\ rung[c] \in 0 .. Rungs /\ (rung[c] < Fits[c] \/ rung[c] \in throttled'[c])
         /\ \A d \in Callers : \A r \in 0 .. Rungs : GivenUp(d, r) => GivenUp(d, r)'
<1> DEFINE more == IF Room THEN throttled[c] ELSE throttled[c] \cup {rung[c]}
<1>1. rung[c] \in 0 .. Rungs /\ throttled[c] \in SUBSET (0 .. Rungs)
  BY DEF LadderType
<1>2. throttled' = [throttled EXCEPT ![c] = more] /\ more \in SUBSET (0 .. Rungs)
  BY <1>1 DEF Refused
<1>3. rung' \in [Callers -> 0 .. Rungs]
  BY DEF Refused, Return, LadderType
<1>4. Room => rung[c] < Fits[c]
  BY <1>1 DEF Refused, Takes
<1>5. rung[c] < Fits[c] \/ rung[c] \in throttled'[c]
  <2>1. throttled'[c] = more
    BY <1>2 DEF LadderType
  <2> QED BY <1>4, <2>1
<1> QED BY <1>1, <1>2, <1>3, <1>5 DEF LadderType, GivenUp

LEMMA CausesKept ==
  ASSUME IInv, SentType, LadderType, Causes, [Next]_vars
  PROVE  LadderType' /\ Causes'
<1> USE DEF Return, Go, call, page
<1>1. ASSUME UNCHANGED <<rung, throttled, outcome>> PROVE LadderType' /\ Causes'
  BY <1>1 DEF LadderType, Causes, GivenUp
<1>2. ASSUME NEW c \in Callers, NEW v, v # "rejected",
             rung' = [rung EXCEPT ![c] = 0], outcome' = [outcome EXCEPT ![c] = v],
             throttled' = throttled
      PROVE  LadderType' /\ Causes'
  <2>1. LadderType'
    BY <1>2 DEF LadderType
  <2>2. Causes'
    BY <1>2 DEF LadderType, Causes, GivenUp, IInv, CallType
  <2> QED BY <2>1, <2>2
<1>3. CASE Tick \/ UNCHANGED vars
  BY <1>1, <1>3 DEF Tick, vars
<1>4. ASSUME NEW c \in Callers, Encode(c) \/ Slot(c) \/ StoreLate(c)
      PROVE  LadderType' /\ Causes'
  BY <1>1, <1>4 DEF Encode, Slot, StoreLate
<1>5. ASSUME NEW c \in Callers, NextPage(c) PROVE LadderType' /\ Causes'
  <2>1. rung[c] = 0 /\ rung' = rung
    BY <1>5 DEF NextPage, IInv, CallOK
  <2>2. LadderType'
    BY <1>5, <2>1 DEF NextPage, LadderType
  <2>3. Causes'
    BY <1>5, <2>1 DEF NextPage, LadderType, Causes, GivenUp, IInv, CallType
  <2> QED BY <2>2, <2>3
<1>6. ASSUME NEW c \in Callers, EncodeError(c) \/ Accepted(c) \/ Raised(c)
      PROVE  LadderType' /\ Causes'
  BY <1>2, <1>6 DEF EncodeError, Accepted, Raised
<1>7. ASSUME NEW c \in Callers, Refused(c) PROVE LadderType' /\ Causes'
  <2>1. /\ LadderType' /\ rung[c] \in 0 .. Rungs
        /\ rung[c] < Fits[c] \/ rung[c] \in throttled'[c]
        /\ \A d \in Callers : \A r \in 0 .. Rungs : GivenUp(d, r) => GivenUp(d, r)'
    BY <1>7, RefusedGivesUp
  <2>2. /\ rung[c] < Rungs => /\ rung' = [rung EXCEPT ![c] = @ + 1]
                              /\ outcome' = outcome
        /\ ~(rung[c] < Rungs) => /\ rung' = [rung EXCEPT ![c] = 0]
                                 /\ outcome' = [outcome EXCEPT ![c] = "rejected"]
    BY <1>7 DEF Refused
  <2>3. ASSUME NEW d \in Callers, NEW r \in 0 .. Rungs,
               r < rung'[d] \/ outcome'[d] = "rejected"
        PROVE  GivenUp(d, r)'
    <3>1. CASE d # c
      <4>1. rung'[d] = rung[d] /\ outcome'[d] = outcome[d]
        BY <2>2, <3>1 DEF LadderType, IInv, CallType
      <4> QED BY <2>1, <2>3, <4>1 DEF Causes
    <3>2. CASE d = c /\ r < rung[c]
      BY <2>1, <3>2 DEF Causes
    <3>3. CASE d = c /\ ~(r < rung[c])
      <4>1. r = rung[c]
        <5>1. CASE rung[c] < Rungs
          <6>1. outcome[c] = "none"
            BY <1>7 DEF Refused, Post, IInv, CallType, CallOK
          <6>2. rung'[c] = rung[c] + 1 /\ outcome'[c] = outcome[c]
            BY <2>2, <5>1 DEF LadderType
          <6> QED BY <2>1, <2>3, <3>3, <6>1, <6>2
        <5>2. CASE ~(rung[c] < Rungs)
          BY <2>1, <3>3, <5>2
        <5> QED BY <5>1, <5>2
      <4> QED BY <2>1, <3>3, <4>1 DEF GivenUp
    <3> QED BY <3>1, <3>2, <3>3
  <2> QED BY <2>1, <2>3 DEF Causes
<1>8. ASSUME NEW c \in Callers, Failed(c) PROVE LadderType' /\ Causes'
  BY <1>1, <1>2, <1>8 DEF Failed, PauseAndRetry
<1> QED BY <1>3, <1>4, <1>5, <1>6, <1>7, <1>8 DEF Next, UploadPage

LEMMA CausesInvariant == Spec => [](LadderType /\ Causes)
<1>1. Init => LadderType /\ Causes
  BY DEF Init, LadderType, Causes
<1>2. IInv /\ SentType /\ (LadderType /\ Causes) /\ [Next]_vars => (LadderType /\ Causes)'
  BY CausesKept
<1> QED BY <1>1, <1>2, CallInvariant, BalanceInvariant, PTL DEF Spec

(* A page is REJECTED only if at every resolution of the ladder the        *)
(* backend refused it or answered 429, whatever the backend's quota is and *)
(* whatever failed or was lost in between (_upload_page_with_downsample).  *)
THEOREM RejectedForCause == Spec => []RejectedAtEverySize
<1>1. Causes => RejectedAtEverySize
  BY DEF Causes, RejectedAtEverySize
<1> QED BY <1>1, CausesInvariant, PTL

(* A resolution is given up only for a refusal or a 429 at that            *)
(* resolution, whatever the backend's quota is.                            *)
THEOREM DegradedOnlyForCause == Spec => []DegradedForCause
<1>1. Causes => DegradedForCause
  BY DEF Causes, DegradedForCause
<1> QED BY <1>1, CausesInvariant, PTL

-----------------------------------------------------------------------------
(* The verdict on a page.  Of each call there is left what the backend has *)
(* of its page, what it may yet get, whether it was answered 429, and what *)
(* it returned.                                                            *)
TakenPages == {c \in Callers : Fits[c] <= Rungs}
BusyCalls  == {c \in Callers : throttled[c] # {}}

(* A step of a call that has no verdict: an attempt, and perhaps a verdict.*)
LEMMA Decides ==
  ASSUME CallType, NEW c \in Callers, outcome[c] = "none",
         NEW v \in {"none", "accepted", "rejected", "failed", "raised"},
         outcome' = [outcome EXCEPT ![c] = v],
         Promise!Attempt(c),
         v = "accepted" => copies'[c] > copies[c],
         v = "rejected" => c \notin TakenPages \/ c \in BusyCalls'
  PROVE  Promise!Next
<1>1. Promise!Decide(c, v)
  BY DEF Promise!Decide, TakenPages, BusyCalls
<1> QED BY <1>1 DEF Promise!Next

(* A step that stores nothing and returns nothing is none of the verdict's.*)
LEMMA Undecided ==
  ASSUME copies' = copies, stray' = stray, throttled' = throttled, outcome' = outcome
  PROVE  UNCHANGED Promise!vars
  BY DEF Promise!vars

LEMMA NothingCame ==
  ASSUME NEW c \in Callers, copies' = copies, stray' = stray, throttled' = throttled
  PROVE  Promise!Attempt(c)
  BY DEF Promise!Attempt

LEMMA StepOfVerdict ==
  ASSUME IInv, SentType, LadderType, Causes, [Next]_vars
  PROVE  [Promise!Next]_(Promise!vars)
<1> USE DEF call, page
<1>1. CASE Tick \/ UNCHANGED vars
  BY <1>1, Undecided DEF Tick, vars
<1>2. ASSUME NEW c \in Callers, Encode(c) \/ Slot(c) PROVE UNCHANGED Promise!vars
  BY <1>2, Undecided DEF Encode, Slot
<1>3. ASSUME NEW c \in Callers, pc[c] # "done" PROVE outcome[c] = "none" /\ rung[c] <= Rungs
  BY <1>3 DEF IInv, CallType, CallOK, LadderType
<1>4. ASSUME NEW c \in Callers, EncodeError(c) PROVE Promise!Next
  <2>1. Promise!Attempt(c)
    BY <1>4, NothingCame DEF EncodeError
  <2> QED BY <1>3, <1>4, <2>1, Decides DEF EncodeError, Return, IInv
<1>5. ASSUME NEW c \in Callers, Takes(c), Stores(c), stray' = stray, throttled' = throttled,
             pc[c] # "done"
      PROVE  Promise!Attempt(c) /\ copies'[c] > copies[c]
  <2>1. Fits[c] <= Rungs
    BY <1>3, <1>5 DEF Takes, LadderType
  <2>2. copies'[c] > copies[c]
    BY <1>5 DEF Stores, IInv, CallType
  <2> QED BY <1>5, <2>1, <2>2 DEF Promise!Attempt, Stores
<1>6. ASSUME NEW c \in Callers, Accepted(c) PROVE Promise!Next
  <2>1. pc[c] = "send" /\ outcome' = [outcome EXCEPT ![c] = "accepted"]
    BY <1>6 DEF Accepted, Post, Return
  <2>2. Promise!Attempt(c) /\ copies'[c] > copies[c]
    BY <1>5, <1>6, <2>1 DEF Accepted
  <2> QED BY <1>3, <2>1, <2>2, Decides DEF IInv
<1>7. ASSUME NEW c \in Callers, Raised(c) PROVE Promise!Next
  <2>1. pc[c] = "send" /\ outcome' = [outcome EXCEPT ![c] = "raised"]
    BY <1>7 DEF Raised, Post, Return
  <2>2. Promise!Attempt(c)
    BY <1>5, <1>7, <2>1, NothingCame DEF Raised
  <2> QED BY <1>3, <2>1, <2>2, Decides DEF IInv
<1>8. ASSUME NEW c \in Callers, Refused(c) PROVE [Promise!Next]_(Promise!vars)
  <2>1. /\ pc[c] = "send" /\ copies' = copies /\ stray' = stray
        /\ throttled' = throttled \/ throttled' = [throttled EXCEPT ![c] = @ \cup {rung[c]}]
    BY <1>8 DEF Refused, Post, LadderType
  <2>2. Promise!Attempt(c)
    <3>1. CASE throttled' = throttled
      BY <2>1, <3>1, NothingCame
    <3>2. CASE throttled' = [throttled EXCEPT ![c] = @ \cup {rung[c]}]
      <4>1. BusyCalls' = BusyCalls \cup {c}
        BY <3>2 DEF BusyCalls, LadderType
      <4> QED BY <2>1, <4>1 DEF Promise!Attempt, BusyCalls
    <3> QED BY <2>1, <3>1, <3>2
  <2>3. CASE rung[c] < Rungs
    <3>1. outcome' = [outcome EXCEPT ![c] = "none"]
      BY <1>3, <1>8, <2>1, <2>3 DEF Refused, IInv, CallType
    <3> QED BY <1>3, <2>1, <2>2, <3>1, Decides DEF IInv
  <2>4. CASE ~(rung[c] < Rungs)
    <3>1. outcome' = [outcome EXCEPT ![c] = "rejected"]
      BY <1>8, <2>4 DEF Refused, Return
    <3>2. c \notin TakenPages \/ c \in BusyCalls'
      <4>1. rung[c] = Rungs /\ (rung[c] < Fits[c] \/ rung[c] \in throttled'[c])
        BY <1>8, <2>4, RefusedGivesUp
      <4> QED BY <4>1 DEF TakenPages, BusyCalls
    <3> QED BY <1>3, <2>1, <2>2, <3>1, <3>2, Decides DEF IInv
  <2> QED BY <2>3, <2>4
<1>9. ASSUME NEW c \in Callers, Failed(c) PROVE [Promise!Next]_(Promise!vars)
  <2>1. pc[c] = "send" /\ throttled' = throttled
    BY <1>9 DEF Failed, NoAnswer, Post
  <2>2. Promise!Attempt(c)
    <3>1. CASE copies' = copies /\ stray' = stray
      BY <2>1, <3>1, NothingCame
    <3>2. CASE Takes(c) /\ stray' = [stray EXCEPT ![c] = @ + 1] /\ copies' = copies
      <4>1. Fits[c] <= Rungs
        BY <1>3, <2>1, <3>2 DEF Takes, LadderType
      <4> QED BY <2>1, <3>2, <4>1 DEF Promise!Attempt
    <3> QED BY <1>9, <3>1, <3>2 DEF Failed, NoAnswer
  <2>3. outcome' = [outcome EXCEPT ![c] = "none"] \/ outcome' = [outcome EXCEPT ![c] = "failed"]
    BY <1>3, <1>9, <2>1 DEF Failed, PauseAndRetry, Return, IInv, CallType
  <2> QED BY <1>3, <2>1, <2>2, <2>3, Decides DEF IInv
<1>10. ASSUME NEW c \in Callers, StoreLate(c) PROVE Promise!Next
  <2>1. Promise!StoreLate(c)
    BY <1>10 DEF StoreLate, Stores, Promise!StoreLate
  <2> QED BY <2>1 DEF Promise!Next
<1>11. ASSUME NEW c \in Callers, NextPage(c) PROVE Promise!Next
  <2>1. BusyCalls' = BusyCalls \ {c}
    BY <1>11 DEF NextPage, BusyCalls, LadderType
  <2>2. outcome[c] # "none"
    BY <1>11 DEF NextPage, IInv, CallOK
  <2>3. Promise!NextPage(c)
    BY <1>11, <2>1, <2>2 DEF NextPage, Promise!NextPage, BusyCalls
  <2> QED BY <2>3 DEF Promise!Next
<1> QED BY <1>1, <1>2, <1>4, <1>6, <1>7, <1>8, <1>9, <1>10, <1>11 DEF Next, UploadPage

(* The attempts, pauses and sizes of a call implement one verdict for its  *)
(* page, for any quota of the backend: ACCEPTED is stored, REJECTED cannot *)
(* be or met a 429, and nothing is sent after the verdict                  *)
(* (_upload_page_with_downsample as BatchRunner takes it).                 *)
THEOREM UploaderImplementsVerdict == Spec => VerdictSpec
<1>1. Init => Promise!Init
  BY DEF Init, Promise!Init
<1>2. IInv /\ SentType /\ (LadderType /\ Causes) /\ [Next]_vars
        => [Promise!Next]_(Promise!vars)
  BY StepOfVerdict
<1> QED BY <1>1, <1>2, CausesInvariant, BalanceInvariant, CallInvariant, PTL
        DEF Spec, VerdictSpec, Promise!Spec

-----------------------------------------------------------------------------
(* The pauses between attempts.  What 2**n is, its recursive definition    *)
(* does not say before there is a function that it fits: of the powers up  *)
(* to 2**n there is one list for every n, and any two agree.               *)

(* A set of numbers that is not empty has a least one.                     *)
LEMMA LeastOf ==
  ASSUME NEW S \in SUBSET Nat, S # {}
  PROVE  \E i \in S : \A j \in S : i <= j
<1>1. PICK i \in S : \A j \in S : <<j, i>> \notin OpToRel(<, Nat)
  BY NatLessThanWellFounded, WFMin
<1>2. \A j \in S : ~ (j < i)
  BY <1>1 DEF OpToRel
<1> QED BY <1>2

(* The powers up to 2**n.                                                  *)
Powers(f, n) ==
  /\ f \in [0 .. n -> Nat] /\ f[0] = 1
  /\ \A i \in 1 .. n : f[i] = 2 * f[i - 1]

LEMMA PowersExist ==
  ASSUME NEW n \in Nat
  PROVE  \E f : Powers(f, n)
<1> DEFINE Without == {m \in Nat : ~ \E f : Powers(f, m)}
<1>1. SUFFICES ASSUME Without # {} PROVE FALSE
  OBVIOUS
<1>2. PICK m \in Without : \A j \in Without : m <= j
  <2>1. Without \in SUBSET Nat
    OBVIOUS
  <2> HIDE DEF Without
  <2> QED BY <1>1, <2>1, LeastOf
<1>3. m \in Nat /\ ~ \E f : Powers(f, m)
  OBVIOUS
<1>4. CASE m = 0
  <2> DEFINE one == [i \in 0 .. m |-> 1]
  <2>1. Powers(one, m)
    BY <1>4 DEF Powers
  <2> QED BY <1>3, <2>1
<1>5. CASE m # 0
  <2>1. m - 1 \in Nat /\ m - 1 \notin Without
    BY <1>2, <1>3, <1>5
  <2>2. PICK f : Powers(f, m - 1)
    BY <2>1
  <2> DEFINE g == [i \in 0 .. m |-> IF i = m THEN 2 * f[m - 1] ELSE f[i]]
  <2>3. f \in [0 .. m - 1 -> Nat] /\ f[0] = 1 /\ \A i \in 1 .. m - 1 : f[i] = 2 * f[i - 1]
    BY <2>2 DEF Powers
  <2>4. g \in [0 .. m -> Nat]
    BY <1>3, <1>5, <2>3
  <2>5. g[0] = 1
    BY <1>3, <1>5, <2>3
  <2>6. ASSUME NEW i \in 1 .. m PROVE g[i] = 2 * g[i - 1]
    <3>1. i - 1 \in 0 .. m /\ i \in 0 .. m /\ i - 1 # m
      BY <1>3
    <3>2. g[i - 1] = f[i - 1]
      BY <3>1
    <3>3. CASE i = m
      BY <3>1, <3>2, <3>3
    <3>4. CASE i # m
      <4>1. i \in 1 .. m - 1 /\ g[i] = f[i]
        BY <1>3, <3>1, <3>4
      <4> QED BY <2>3, <3>2, <4>1
    <3> QED BY <3>3, <3>4
  <2>7. Powers(g, m)
    <3> HIDE DEF g
    <3> QED BY <2>4, <2>5, <2>6 DEF Powers
  <2> QED BY <1>3, <2>7
<1> QED BY <1>4, <1>5

LEMMA PowersAgree ==
  ASSUME NEW n \in Nat, NEW f, Powers(f, n), NEW m \in Nat, NEW g, Powers(g, m), n <= m,
         NEW k \in 0 .. n
  PROVE  f[k] = g[k]
<1> DEFINE Apart == {i \in 0 .. n : f[i] # g[i]}
<1>1. SUFFICES ASSUME Apart # {} PROVE FALSE
  OBVIOUS
<1>2. PICK i \in Apart : \A j \in Apart : i <= j
  <2>1. Apart \in SUBSET Nat
    OBVIOUS
  <2> HIDE DEF Apart
  <2> QED BY <1>1, <2>1, LeastOf
<1>3. i \in 0 .. n /\ f[i] # g[i]
  OBVIOUS
<1>4. i # 0
  BY <1>3 DEF Powers
<1>5. i - 1 \in 0 .. n /\ i - 1 \notin Apart
  BY <1>2, <1>3, <1>4
<1>6. f[i - 1] = g[i - 1]
  BY <1>5
<1>7. i \in 1 .. n /\ i \in 1 .. m
  BY <1>3, <1>4
<1>8. f[i] = 2 * f[i - 1] /\ g[i] = 2 * g[i - 1]
  BY <1>7 DEF Powers
<1> HIDE DEF Apart
<1> QED BY <1>3, <1>6, <1>8

(* 2**n is what its recursive definition says.                             *)
LEMMA PowerOfTwoDef ==
  PowerOfTwo = [n \in Nat |-> IF n = 0 THEN 1 ELSE 2 * PowerOfTwo[n - 1]]
<1> DEFINE F(n) == CHOOSE f : Powers(f, n)
           h == [n \in Nat |-> F(n)[n]]
<1>1. \A n \in Nat : Powers(F(n), n)
  BY PowersExist
<1> HIDE DEF F
<1>2. h[0] = 1
  BY <1>1 DEF Powers
<1>3. ASSUME NEW n \in Nat, n # 0 PROVE h[n] = 2 * h[n - 1]
  <2>1. n - 1 \in Nat /\ n \in 1 .. n /\ n - 1 <= n /\ n - 1 \in 0 .. n - 1
    BY <1>3
  <2>2. Powers(F(n), n) /\ Powers(F(n - 1), n - 1)
    BY <1>1, <2>1
  <2>3. F(n)[n] = 2 * F(n)[n - 1]
    BY <2>1, <2>2 DEF Powers
  <2>4. F(n - 1)[n - 1] = F(n)[n - 1]
    BY <2>1, <2>2, PowersAgree
  <2> QED BY <2>1, <2>3, <2>4
<1>4. h = [n \in Nat |-> IF n = 0 THEN 1 ELSE 2 * h[n - 1]]
  <2>1. \A n \in Nat : h[n] = IF n = 0 THEN 1 ELSE 2 * h[n - 1]
    BY <1>2, <1>3
  <2>2. DOMAIN h = Nat /\ h = [n \in Nat |-> h[n]]
    OBVIOUS
  <2> HIDE DEF h
  <2> QED BY <2>1, <2>2
<1> HIDE DEF h
<1> QED BY <1>4 DEF PowerOfTwo

LEMMA PowerOfTwoType ==
  ASSUME NEW n \in Nat
  PROVE  PowerOfTwo[n] \in Nat
<1> DEFINE Others == {m \in Nat : PowerOfTwo[m] \notin Nat}
<1>0. \A m \in Nat : PowerOfTwo[m] = IF m = 0 THEN 1 ELSE 2 * PowerOfTwo[m - 1]
  BY PowerOfTwoDef
<1>1. SUFFICES ASSUME Others # {} PROVE FALSE
  OBVIOUS
<1>2. PICK m \in Others : \A j \in Others : m <= j
  <2>1. Others \in SUBSET Nat
    OBVIOUS
  <2> HIDE DEF Others
  <2> QED BY <1>1, <2>1, LeastOf
<1>3. m \in Nat /\ PowerOfTwo[m] \notin Nat
  OBVIOUS
<1>4. m # 0
  BY <1>0, <1>3
<1>5. m - 1 \in Nat /\ m - 1 \notin Others
  BY <1>2, <1>3, <1>4
<1>6. PowerOfTwo[m - 1] \in Nat
  BY <1>5
<1> HIDE DEF Others
<1> QED BY <1>0, <1>3, <1>4, <1>6

(* min(2**attempt, retry_max_wait_seconds) is a pause within its bound.    *)
LEMMA BackoffBounded ==
  ASSUME NEW n \in Nat
  PROVE  Backoff(n) \in 0 .. RetryMaxWait
  BY PowerOfTwoType DEF Backoff

(* The attempts and the pause of a call.                                   *)
Counters ==
  /\ attempt \in [Callers -> 0 .. MaxRetries - 1]
  /\ pause \in [Callers -> 0 .. RetryMaxWait]

LEMMA CountersKept ==
  ASSUME Counters, [Next]_vars
  PROVE  Counters'
<1> USE DEF Counters, call
<1>1. CASE Tick
  BY <1>1 DEF Tick
<1>2. ASSUME NEW c \in Callers, NextPage(c) \/ Encode(c) \/ Slot(c) \/ StoreLate(c)
      PROVE  UNCHANGED <<attempt, pause>>
  BY <1>2 DEF NextPage, Encode, Slot, StoreLate
<1>3. ASSUME NEW c \in Callers, EncodeError(c) \/ Accepted(c) \/ Raised(c) \/ Refused(c)
      PROVE  Counters'
  BY <1>3 DEF EncodeError, Accepted, Raised, Refused, Return
<1>4. ASSUME NEW c \in Callers, Failed(c) PROVE Counters'
  <2>1. CASE attempt[c] + 1 < MaxRetries
    <3>1. attempt[c] \in Nat
      OBVIOUS
    <3>2. Backoff(attempt[c]) \in 0 .. RetryMaxWait
      BY <3>1, BackoffBounded
    <3>3. /\ pause' = [pause EXCEPT ![c] = Backoff(attempt[c])]
          /\ attempt' = [attempt EXCEPT ![c] = @ + 1]
      BY <1>4, <2>1 DEF Failed, PauseAndRetry
    <3>4. attempt[c] + 1 \in 0 .. MaxRetries - 1
      BY <2>1, <3>1
    <3> QED BY <3>2, <3>3, <3>4
  <2>2. CASE ~(attempt[c] + 1 < MaxRetries)
    BY <1>4, <2>2 DEF Failed, Return
  <2> QED BY <2>1, <2>2
<1>5. CASE UNCHANGED vars
  BY <1>5 DEF vars
<1> QED BY <1>1, <1>2, <1>3, <1>4, <1>5 DEF Next, UploadPage

(* A call stays on the ladder, makes no more than upload_max_retries       *)
(* attempts at a size and never pauses longer than                         *)
(* retry_max_wait_seconds; every variable has its type (upload_page).      *)
THEOREM TypeCorrect == Spec => []TypeOK
<1>1. Init => Counters
  BY DEF Init, Counters
<1>2. Counters /\ [Next]_vars => Counters'
  BY CountersKept
<1>3. IInv /\ SentType /\ Lim!IInv /\ LadderType /\ Counters => TypeOK
  <2> SUFFICES ASSUME IInv, SentType, Lim!IInv, LadderType, Counters PROVE TypeOK
    OBVIOUS
  <2>1. Limiter!TypeOK
    BY DEF Lim!IInv, Lim!TypeOK, Limiter!TypeOK
  <2> QED BY <2>1 DEF IInv, CallType, SentType, Ages, LadderType, Counters, TypeOK
<1> QED BY <1>1, <1>2, <1>3, CallInvariant, BalanceInvariant, GrantInvariant, CausesInvariant,
        PTL DEF Spec

=============================================================================

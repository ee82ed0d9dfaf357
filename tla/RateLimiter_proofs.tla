-------------------------- MODULE RateLimiter_proofs --------------------------
(***************************************************************************)
(* The quota of the rolling-window limiter, for any number of threads, any *)
(* quota and any window.                                                   *)
(***************************************************************************)
EXTENDS RateLimiter, SequenceTheorems, TLAPS

(* The limiter remembers every grant of the last window: its history ends  *)
(* with them, oldest first, and what precedes them has left the window.    *)
Remembered == Len(history) - Len(granted)

Remembers ==
  /\ Len(granted) <= Len(history)
  /\ \A i \in 1 .. Len(granted) : granted[i] = history[Remembered + i]
  /\ \A i \in 1 .. Remembered : history[i] = Window

Sorted(h)   == \A i, j \in 1 .. Len(h) : i <= j => h[i] >= h[j]
OldestFirst == Sorted(history)

IInv == TypeOK /\ Len(history) <= Max /\ OldestFirst /\ Remembers

(* What is left of a sequence when its first k entries are popped.         *)
LEMMA WithoutEntries ==
  ASSUME NEW S, NEW h \in Seq(S), NEW k \in 0 .. Len(h)
  PROVE  /\ Without(h, k) \in Seq(S)
         /\ Len(Without(h, k)) = Len(h) - k
         /\ \A i \in 1 .. Len(h) - k : Without(h, k)[i] = h[k + i]
  BY DEF Without

(* What a tick of the clock makes of a sequence of ages.                   *)
LEMMA OlderEntries ==
  ASSUME LimiterAssumption, NEW h \in Seq(0 .. Window)
  PROVE  /\ Older(h) \in Seq(0 .. Window) /\ Len(Older(h)) = Len(h)
         /\ \A i \in 1 .. Len(h) :
              Older(h)[i] = IF h[i] < Window THEN h[i] + 1 ELSE Window
<1>1. \A i \in 1 .. Len(h) : h[i] \in 0 .. Window
  BY ElementOfSeq
<1>2. \A i \in 1 .. Len(h) : (IF h[i] < Window THEN h[i] + 1 ELSE Window) \in 0 .. Window
  BY <1>1 DEF LimiterAssumption
<1> QED BY <1>2 DEF Older

(* A sequence whose entries are all in T is a sequence over T.             *)
LEMMA Narrower ==
  ASSUME NEW S, NEW T, NEW h \in Seq(S), \A i \in 1 .. Len(h) : h[i] \in T
  PROVE  h \in Seq(T)
<1>1. h \in [1 .. Len(h) -> T] /\ Len(h) \in Nat
  BY LenProperties
<1> QED BY <1>1

(* What a tick leaves of the entries less than Window old: they are sorted *)
(* still, and all less than Window old again.                              *)
LEMMA TickEntries ==
  ASSUME LimiterAssumption, NEW h \in Seq(0 .. Window), Sorted(h),
         NEW k \in 0 .. Len(h), Expired(Older(h), k)
  PROVE  /\ Without(Older(h), k) \in Seq(0 .. Window - 1)
         /\ Sorted(Without(Older(h), k))
<1> DEFINE old == Older(h)
           new == Without(old, k)
<1>1. /\ old \in Seq(0 .. Window) /\ Len(old) = Len(h)
      /\ \A i \in 1 .. Len(h) : old[i] = IF h[i] < Window THEN h[i] + 1 ELSE Window
  BY OlderEntries
<1>2. \A i \in 1 .. Len(h) : h[i] \in 0 .. Window
  BY ElementOfSeq
<1>3. \A i, j \in 1 .. Len(h) : i <= j => old[i] >= old[j]
  <2> HIDE DEF old
  <2>1. SUFFICES ASSUME NEW i \in 1 .. Len(h), NEW j \in 1 .. Len(h), i <= j
                 PROVE  old[i] >= old[j]
    OBVIOUS
  <2>2. h[i] >= h[j]
    BY <2>1 DEF Sorted
  <2>3. /\ h[i] \in Nat /\ h[j] \in Nat /\ Window \in Nat
        /\ h[i] <= Window /\ h[j] <= Window
    BY <1>2 DEF LimiterAssumption
  <2>4. /\ old[i] = (IF h[i] < Window THEN h[i] + 1 ELSE Window)
        /\ old[j] = (IF h[j] < Window THEN h[j] + 1 ELSE Window)
    BY <1>1
  <2> QED BY <2>2, <2>3, <2>4
<1>4. k < Len(h) => old[k + 1] < Window
  BY <1>1 DEF Expired
<1> HIDE DEF old
<1>5. k \in 0 .. Len(old)
  BY <1>1
<1>6. /\ new \in Seq(0 .. Window) /\ Len(new) = Len(h) - k
      /\ \A i \in 1 .. Len(h) - k : new[i] = old[k + i]
  BY <1>1, <1>5, WithoutEntries
<1> HIDE DEF new
<1>7. \A i \in 1 .. Len(new) : new[i] \in 0 .. Window
  BY <1>6, ElementOfSeq
<1>8. \A i \in 1 .. Len(new) : k + i \in 1 .. Len(h) /\ k + 1 \in 1 .. Len(h) /\ k + 1 <= k + i
  BY <1>6
<1>9. \A i \in 1 .. Len(new) : new[i] < Window
  <2>1. SUFFICES ASSUME NEW i \in 1 .. Len(new) PROVE new[i] < Window
    OBVIOUS
  <2>2. old[k + i] <= old[k + 1] /\ old[k + 1] < Window
    BY <1>3, <1>4, <1>8
  <2>3. old[k + 1] \in 0 .. Window /\ old[k + i] \in 0 .. Window
    <3>1. k + 1 \in 1 .. Len(old) /\ k + i \in 1 .. Len(old) /\ old \in Seq(0 .. Window)
      BY <1>1, <1>8
    <3> QED BY <3>1, ElementOfSeq
  <2>4. new[i] = old[k + i]
    BY <1>6, <2>1
  <2> QED BY <2>2, <2>3, <2>4 DEF LimiterAssumption
<1>10. new \in Seq(0 .. Window - 1)
  <2>1. \A i \in 1 .. Len(new) : new[i] \in 0 .. Window - 1
    BY <1>7, <1>9 DEF LimiterAssumption
  <2> QED BY <1>6, <2>1, Narrower
<1>11. Sorted(new)
  <2>1. SUFFICES ASSUME NEW i \in 1 .. Len(new), NEW j \in 1 .. Len(new), i <= j
                 PROVE  new[i] >= new[j]
    BY DEF Sorted
  <2>2. k + i \in 1 .. Len(h) /\ k + j \in 1 .. Len(h) /\ k + i <= k + j
    BY <1>6, <2>1
  <2> QED BY <1>3, <1>6, <2>2
<1> QED BY <1>10, <1>11 DEF new, old

(* Popping what has left the window leaves the grants of the last window.  *)
LEMMA PopExpired ==
  ASSUME LimiterAssumption, IInv, NEW k \in 0 .. Len(history), Expired(history, k)
  PROVE  /\ k = Remembered
         /\ Without(history, k) = granted
<1>1. Remembered \in 0 .. Len(history)
  BY DEF IInv, TypeOK, Remembers, Remembered
<1>2. ~(k < Remembered)
  BY <1>1 DEF IInv, TypeOK, Remembers, Expired, LimiterAssumption
<1>3. ~(k > Remembered)
  <2>1. SUFFICES ASSUME k > Remembered PROVE FALSE
    OBVIOUS
  <2>2. history[Remembered + 1] = Window
    BY <1>1, <2>1 DEF Expired
  <2>3. 1 \in 1 .. Len(granted)
    BY <1>1, <2>1 DEF Remembered, IInv, TypeOK
  <2>4. granted[1] = history[Remembered + 1]
    BY <2>3 DEF IInv, Remembers
  <2>5. granted[1] \in 0 .. Window - 1
    BY <2>3, ElementOfSeq DEF IInv, TypeOK
  <2> QED BY <2>2, <2>4, <2>5 DEF LimiterAssumption
<1>4. k = Remembered
  BY <1>1, <1>2, <1>3
<1>5. /\ Without(history, k) \in Seq(0 .. Window)
      /\ Len(Without(history, k)) = Len(history) - k
      /\ \A i \in 1 .. Len(history) - k : Without(history, k)[i] = history[k + i]
  BY WithoutEntries DEF IInv, TypeOK
<1>6. Len(Without(history, k)) = Len(granted)
  BY <1>4, <1>5 DEF Remembered, IInv, TypeOK
<1>7. \A i \in 1 .. Len(granted) : Without(history, k)[i] = granted[i]
  BY <1>4, <1>5, <1>6 DEF IInv, Remembers
<1>8. granted \in Seq(0 .. Window)
  BY DEF IInv, TypeOK, LimiterAssumption
<1> QED BY <1>4, <1>5, <1>6, <1>7, <1>8

(* One grant more, or none: the lock's holder keeps the invariant.         *)
LEMMA AcquireKeeps ==
  ASSUME LimiterAssumption, IInv, NEW c \in Callers, Acquire(c)
  PROVE  IInv'
<1>1. PICK k \in 0 .. Len(history) : Acquire(c)!(k)
  BY DEF Acquire
<1>2. k = Remembered /\ Without(history, k) = granted
  BY <1>1, PopExpired
<1>3. granted \in Seq(0 .. Window - 1) /\ granted \in Seq(0 .. Window)
  BY DEF IInv, TypeOK, LimiterAssumption
<1>4. \A i, j \in 1 .. Len(granted) : i <= j => granted[i] >= granted[j]
  BY <1>3, SMTT(30) DEF IInv, TypeOK, OldestFirst, Sorted, Remembers, Remembered
<1>5. CASE Len(granted) < Max
  <2>1. /\ history' = Append(granted, 0) /\ granted' = Append(granted, 0)
        /\ at' = [at EXCEPT ![c] = "out"] /\ UNCHANGED asleep
    BY <1>1, <1>2, <1>5
  <2>2. TypeOK'
    BY <1>3, <2>1 DEF IInv, TypeOK, LimiterAssumption
  <2>3. Len(history') <= Max
    BY <1>3, <1>5, <2>1 DEF LimiterAssumption
  <2>4. OldestFirst'
    <3>1. \A i \in 1 .. Len(granted) : granted[i] \in 0 .. Window
      BY <1>3, ElementOfSeq
    <3>2. /\ Len(history') = Len(granted) + 1
          /\ \A i \in 1 .. Len(granted) : history'[i] = granted[i]
          /\ history'[Len(granted) + 1] = 0
      BY <1>3, <2>1
    <3> QED BY <1>3, <1>4, <3>1, <3>2 DEF OldestFirst, Sorted
  <2>5. Remembers'
    BY <1>3, <2>1 DEF Remembers, Remembered
  <2> QED BY <2>2, <2>3, <2>4, <2>5 DEF IInv
<1>6. CASE ~(Len(granted) < Max)
  <2>1. /\ history' = granted /\ UNCHANGED granted
        /\ at' = [at EXCEPT ![c] = "sleep"]
        /\ asleep' = [asleep EXCEPT ![c] = Window - history[k + 1]]
    BY <1>1, <1>2, <1>6
  <2>2. k + 1 \in 1 .. Len(history)
    BY <1>2, <1>3, <1>6 DEF IInv, TypeOK, Remembers, Remembered, LimiterAssumption
  <2>3. Window - history[k + 1] \in 0 .. Window
    BY <2>2 DEF IInv, TypeOK, LimiterAssumption
  <2>4. TypeOK'
    BY <1>3, <2>1, <2>3 DEF IInv, TypeOK
  <2>5. Len(history') <= Max
    BY <1>3, <2>1 DEF IInv, TypeOK, Remembers, LimiterAssumption
  <2>6. OldestFirst'
    BY <1>4, <2>1 DEF OldestFirst, Sorted
  <2>7. Remembers'
    BY <1>3, <2>1 DEF Remembers, Remembered
  <2> QED BY <2>4, <2>5, <2>6, <2>7 DEF IInv
<1> QED BY <1>5, <1>6

(* The clock: grants that leave the window are still remembered.           *)
LEMMA TickKeeps ==
  ASSUME LimiterAssumption, IInv, Tick
  PROVE  IInv'
<1> DEFINE old == Older(granted)
<1>1. PICK k \in 0 .. Len(granted) : Expired(old, k) /\ granted' = Without(old, k)
  BY DEF Tick
<1>2. granted \in Seq(0 .. Window) /\ history \in Seq(0 .. Window)
  BY DEF IInv, TypeOK, LimiterAssumption
<1>3. /\ old \in Seq(0 .. Window) /\ Len(old) = Len(granted)
      /\ \A i \in 1 .. Len(granted) :
           old[i] = IF granted[i] < Window THEN granted[i] + 1 ELSE Window
  BY <1>2, OlderEntries
<1>4. /\ history' \in Seq(0 .. Window) /\ Len(history') = Len(history)
      /\ \A i \in 1 .. Len(history) :
           history'[i] = IF history[i] < Window THEN history[i] + 1 ELSE Window
  BY <1>2, OlderEntries DEF Tick
<1>5. /\ granted' \in Seq(0 .. Window) /\ Len(granted') = Len(granted) - k
      /\ \A i \in 1 .. Len(granted) - k : granted'[i] = old[k + i]
  <2>1. k \in 0 .. Len(old)
    BY <1>1, <1>3
  <2> HIDE DEF old
  <2> QED BY <1>1, <1>3, <2>1, WithoutEntries
<1>12. \A i \in 1 .. Len(history) : history[i] \in 0 .. Window
  BY <1>2, ElementOfSeq
<1>6. OldestFirst'
  BY <1>4, <1>12, SMTT(30) DEF IInv, OldestFirst, Sorted, LimiterAssumption
<1>7. \A i \in 1 .. Len(granted) : old[i] = history'[Remembered + i]
  <2> HIDE DEF old
  <2>1. \A i \in 1 .. Len(granted) :
          Remembered + i \in 1 .. Len(history) /\ granted[i] = history[Remembered + i]
    BY <1>2 DEF IInv, Remembers, Remembered
  <2> QED BY <1>3, <1>4, <2>1
<1>8. Remembered' = Remembered + k
  BY <1>1, <1>2, <1>4, <1>5 DEF Remembered
<1>9. Remembers'
  <2>1. Len(granted') <= Len(history')
    BY <1>1, <1>2, <1>4, <1>5 DEF IInv, Remembers
  <2>2. \A i \in 1 .. Len(granted') : granted'[i] = history'[Remembered' + i]
    BY <1>1, <1>2, <1>5, <1>7, <1>8 DEF IInv, Remembers, Remembered
  <2>3. \A i \in 1 .. Remembered : history'[i] = Window
    BY <1>2, <1>4 DEF IInv, Remembers, Remembered, LimiterAssumption
  <2>4. \A i \in 1 .. k : history'[Remembered + i] = Window
    BY <1>1, <1>2, <1>7 DEF Expired
  <2>5. \A i \in 1 .. Remembered' : i <= Remembered \/ i - Remembered \in 1 .. k
    BY <1>1, <1>2, <1>8 DEF Remembered
  <2>6. \A i \in 1 .. Remembered' : history'[i] = Window
    <3>1. Remembered \in Nat /\ \A i \in 1 .. Remembered' : i = Remembered + (i - Remembered)
      BY <1>2, <1>8, <1>1 DEF Remembered, IInv, Remembers
    <3> HIDE DEF old
    <3>2. ASSUME NEW i \in 1 .. Remembered' PROVE history'[i] = Window
      <4>1. CASE i <= Remembered
        BY <2>3, <3>1, <4>1
      <4>2. CASE i - Remembered \in 1 .. k
        BY <2>4, <3>1, <4>2
      <4> QED BY <2>5, <4>1, <4>2
    <3> QED BY <3>2
  <2> QED BY <2>1, <2>2, <2>6 DEF Remembers
<1>13. Sorted(granted)
  <2>1. SUFFICES ASSUME NEW i \in 1 .. Len(granted), NEW j \in 1 .. Len(granted), i <= j
                 PROVE  granted[i] >= granted[j]
    BY DEF Sorted
  <2>2. /\ Remembered + i \in 1 .. Len(history) /\ Remembered + j \in 1 .. Len(history)
        /\ Remembered + i <= Remembered + j
    BY <1>2, <2>1 DEF IInv, Remembers, Remembered
  <2>3. history[Remembered + i] >= history[Remembered + j]
    BY <2>2 DEF IInv, OldestFirst, Sorted
  <2> QED BY <2>3 DEF IInv, Remembers
<1>10. granted' \in Seq(0 .. Window - 1)
  BY <1>1, <1>2, <1>13, TickEntries
<1>11. TypeOK'
  BY <1>4, <1>10 DEF Tick, IInv, TypeOK, LimiterAssumption
<1> QED BY <1>4, <1>6, <1>9, <1>11 DEF IInv

(* The invariant is inductive.                                             *)
LEMMA NextKeeps ==
  ASSUME LimiterAssumption, IInv, [Next]_vars
  PROVE  IInv'
<1>1. CASE Tick
  BY <1>1, TickKeeps
<1>2. CASE \E c \in Callers : Acquire(c)
  BY <1>2, AcquireKeeps
<1>3. CASE \E c \in Callers : Enter(c) \/ Wake(c)
  BY <1>3 DEF Enter, Wake, IInv, TypeOK, OldestFirst, Sorted, Remembers, Remembered
<1>4. CASE UNCHANGED vars
  BY <1>4 DEF vars, IInv, TypeOK, OldestFirst, Sorted, Remembers, Remembered
<1> QED BY <1>1, <1>2, <1>3, <1>4 DEF Next

(* The limiter starts with nothing granted.                                *)
LEMMA InitHolds ==
  ASSUME LimiterAssumption, Init
  PROVE  IInv
  BY DEF LimiterAssumption, Init, IInv, TypeOK, OldestFirst, Sorted, Remembers, Remembered

(* The limiter's history holds every grant of the last window, always.     *)
THEOREM LimiterInvariant ==
  ASSUME LimiterAssumption
  PROVE  Spec => []IInv
  BY InitHolds, NextKeeps, PTL DEF Spec

(* In no window does the limiter grant more than Max slots.                *)
THEOREM QuotaHolds ==
  ASSUME LimiterAssumption
  PROVE  Spec => []GrantsWithinQuota
<1>1. IInv => GrantsWithinQuota
  BY DEF IInv, TypeOK, Remembers, GrantsWithinQuota, LimiterAssumption
<1> QED BY <1>1, LimiterInvariant, PTL

=============================================================================

----------------------------- MODULE RateLimiter -----------------------------
(***************************************************************************)
(* scanner/uploader.py, _rate_limit_acquire: the one rolling-window rate   *)
(* limiter all uploading threads of a process share.  A deque holds the    *)
(* times of the grants; a thread that finds it full sleeps until the       *)
(* oldest grant has left the window and then tries again.                  *)
(*                                                                         *)
(* The code compares times only with the window, so a time is kept as its  *)
(* age, which stops growing at Window; a sleep is the time left of it.     *)
(* The body of the loop runs under _rate_lock and is one step.             *)
(***************************************************************************)
EXTENDS Naturals, Sequences

CONSTANTS
  Callers,   \* threads that upload pages
  Max,       \* _RATE_LIMIT_MAX
  Window     \* _RATE_LIMIT_WINDOW, in ticks of the clock

(* What the theorems, and the modules that use the limiter, assume.        *)
LimiterAssumption == Max \in Nat \ {0} /\ Window \in Nat \ {0}

VARIABLES
  at,        \* where each thread is in _rate_limit_acquire
  asleep,    \* what is left of a thread's sleep
  history,   \* _rate_history: ages of the grants it remembers, oldest first
  granted    \* ages of all grants made less than Window ago, oldest first

vars == <<at, asleep, history, granted>>

TypeOK ==
  /\ at \in [Callers -> {"out", "acquire", "sleep"}]
  /\ asleep \in [Callers -> 0 .. Window]
  /\ history \in Seq(0 .. Window)
  /\ granted \in Seq(0 .. Window - 1)

Init ==
  /\ at = [c \in Callers |-> "out"] /\ asleep = [c \in Callers |-> 0]
  /\ history = <<>> /\ granted = <<>>

(* The first k entries of h, and no more, have left the window.            *)
Expired(h, k) ==
  /\ \A i \in 1 .. k : h[i] = Window
  /\ k < Len(h) => h[k + 1] < Window

Without(h, k) == SubSeq(h, k + 1, Len(h))
Older(h)      == [i \in 1 .. Len(h) |-> IF h[i] < Window THEN h[i] + 1 ELSE Window]

Enter(c) ==
  /\ at[c] = "out"
  /\ at' = [at EXCEPT ![c] = "acquire"]
  /\ UNCHANGED <<asleep, history, granted>>

(* Variant with a mistake: the room is found before the lock is taken, and *)
(* one more thread has taken it.                                           *)
Acquire_CheckedBefore(c) == \E k \in 0 .. Len(history) :
  /\ at[c] = "acquire" /\ Expired(history, k)
  /\ IF Len(Without(history, k)) <= Max
     THEN /\ history' = Append(Without(history, k), 0)
          /\ granted' = Append(granted, 0)
          /\ at' = [at EXCEPT ![c] = "out"]
          /\ UNCHANGED asleep
     ELSE /\ history' = Without(history, k)
          /\ asleep' = [asleep EXCEPT ![c] = Window - history[k + 1]]
          /\ at' = [at EXCEPT ![c] = "sleep"]
          /\ UNCHANGED granted

(* Variant with a mistake: what has left the window is not popped.         *)
Acquire_NeverPops(c) ==
  /\ at[c] = "acquire"
  /\ IF Len(history) < Max
     THEN /\ history' = Append(history, 0)
          /\ granted' = Append(granted, 0)
          /\ at' = [at EXCEPT ![c] = "out"]
          /\ UNCHANGED asleep
     ELSE /\ asleep' = [asleep EXCEPT ![c] = Window - history[1]]
          /\ at' = [at EXCEPT ![c] = "sleep"]
          /\ UNCHANGED <<history, granted>>

(* Under the lock: pop what has left the window, take a slot if there is   *)
(* one, or else find out how long to sleep.                                *)
Acquire(c) == \E k \in 0 .. Len(history) :
  /\ at[c] = "acquire" /\ Expired(history, k)
  /\ IF Len(Without(history, k)) < Max
     THEN /\ history' = Append(Without(history, k), 0)
          /\ granted' = Append(granted, 0)
          /\ at' = [at EXCEPT ![c] = "out"]
          /\ UNCHANGED asleep
     ELSE /\ history' = Without(history, k)
          /\ asleep' = [asleep EXCEPT ![c] = Window - history[k + 1]]
          /\ at' = [at EXCEPT ![c] = "sleep"]
          /\ UNCHANGED granted

(* A sleep lasts at least what was asked for (0.05 s more in the code).    *)
Wake(c) ==
  /\ at[c] = "sleep" /\ asleep[c] = 0
  /\ at' = [at EXCEPT ![c] = "acquire"]
  /\ UNCHANGED <<asleep, history, granted>>

Tick ==
  /\ history' = Older(history)
  /\ \E k \in 0 .. Len(granted) :
       /\ Expired(Older(granted), k)
       /\ granted' = Without(Older(granted), k)
  /\ asleep' = [c \in Callers |-> IF asleep[c] > 0 THEN asleep[c] - 1 ELSE 0]
  /\ UNCHANGED at

Next == Tick \/ \E c \in Callers : Enter(c) \/ Acquire(c) \/ Wake(c)

Spec == Init /\ [][Next]_vars

(* In no window of the clock does the limiter grant more than Max slots,   *)
(* however the threads interleave, sleep and oversleep.                    *)
GrantsWithinQuota == Len(granted) <= Max

=============================================================================

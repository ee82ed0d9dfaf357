---------------------------- MODULE MCBatchRunner ----------------------------
(* Instances of BatchRunner for TLC: a fleet of machines a and b with one  *)
(* scheduled runner each; machine a with a manual /run beside it.          *)
EXTENDS BatchRunner, TLC

CONSTANTS a, b, pollA, pollB, manualA, d1, d2, n1, n2

FleetRunners  == {pollA, pollB}
FleetMachine  == pollA :> a @@ pollB :> b
ManualRunners == {pollA, manualA}
ManualMachine == pollA :> a @@ manualA :> a
PollA         == {pollA}
PollAMachine  == pollA :> a
TwoDocs       == {d1, d2}
OwnNames      == d1 :> n1 @@ d2 :> n2
SameName      == d1 :> n1 @@ d2 :> n1
OneTwoPages   == d1 :> 2 @@ d2 :> 1
OnePageEach   == d1 :> 1 @@ d2 :> 1
NoDocs        == {}
=============================================================================

----------------------------- MODULE MCDashboard -----------------------------
(* Instance of Dashboard for TLC: one poll that finds three files.          *)
EXTENDS Dashboard, TLC

CONSTANTS production, poll

OneEnv   == {production}
OneRun   == {poll}
PollOf   == poll :> production
Files   == poll :> <<1, 0, 1>>
=============================================================================

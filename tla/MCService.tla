------------------------------ MODULE MCService ------------------------------
(* Instances of Startup for TLC.                                            *)
EXTENDS Startup, TLC

CONSTANTS production, staging

TwoEnvs == {production, staging}
OneEnv  == {production}
Offsets == production :> 0 @@ staging :> 1
OneOffset == production :> 1

\* Three paths to two folders.
Folders == [scans |-> "scans", link |-> "scans", spool |-> "spool"]

Blocks ==
  LET good == [enabled : BOOLEAN, watch_dir : DOMAIN Folders, api_token : {"t"},
               backend_base_url : {None}, offset : {0, 1}]
      bad  == [enabled : BOOLEAN, watch_dir : {None, "spool"}, api_token : {None, "t"},
               backend_base_url : {None, [scheme |-> "http", host |-> "h"]},
               offset : {None, 2, 59, 60}]
  IN good \cup bad \cup {None}

Names == {"production", "staging", "qa"}

Lists == UNION {[1 .. n -> Names] : n \in 0 .. 3}

SomeSettings ==
  [identity : {"blank", "legal"}, listed : BOOLEAN, environments : Lists,
   blocks : [{"production", "staging"} -> Blocks]]

=============================================================================

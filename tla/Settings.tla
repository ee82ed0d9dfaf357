------------------------------- MODULE Settings -------------------------------
(***************************************************************************)
(* scanner/config.py and machine.py: which settings a process comes up     *)
(* with, and what it polls then.  raw is what pydantic has parsed:         *)
(*   identity      "legal" if machine.py takes MACHINE_IDENTITY; else what *)
(*                 it finds: "blank", "reserved" or "malformed"            *)
(*   listed        ENVIRONMENTS is not blank                               *)
(*   environments  the names in it, trimmed and in lower case              *)
(*   blocks        ENV_<NAME>__*: None, or what is set in it, None where   *)
(*                 nothing is or, but for the path, only blanks            *)
(* The requisition and the shared settings are left out.                   *)
(***************************************************************************)
EXTENDS Integers, Sequences

CONSTANTS
  None,      \* not set
  Resolve    \* the folder that the file system makes of a path

ValidEnvNames == {"production", "staging"}

Https(host) == [scheme |-> "https", host |-> host]

DefaultBackend ==
  [production |-> Https("adg.mpsinc.io"), staging |-> Https("dev.adg.mpsinc.io")]

Backend(name, block) ==
  IF block.backend_base_url = None THEN DefaultBackend[name] ELSE block.backend_base_url

(* _build_env, _check_scheme                                               *)
Buildable(name, block) ==
  /\ block # None
  /\ block.watch_dir # None /\ block.api_token # None
  /\ block.offset # None /\ block.offset \in 0 .. 59
  /\ Backend(name, block).scheme = "https"

BuildEnv(name, block) ==
  [name |-> name, enabled |-> block.enabled, watch_dir |-> block.watch_dir,
   backend_base_url |-> Backend(name, block), api_token |-> block.api_token,
   offset |-> block.offset]

Environments(raw) ==
  [i \in DOMAIN raw.environments |->
     BuildEnv(raw.environments[i], raw.blocks[raw.environments[i]])]

EnabledEnvironments(envs) == {i \in DOMAIN envs : envs[i].enabled}

(* Variant with a mistake: two paths to one folder pass for two folders.   *)
CheckDistinct_Unresolved(envs) ==
  \A i, j \in EnabledEnvironments(envs) : i < j =>
    /\ envs[i].watch_dir # envs[j].watch_dir
    /\ envs[i].offset # envs[j].offset

(* Each one with all that follow it.                                       *)
CheckDistinct(envs) ==
  \A i, j \in EnabledEnvironments(envs) : i < j =>
    /\ Resolve[envs[i].watch_dir] # Resolve[envs[j].watch_dir]
    /\ envs[i].offset # envs[j].offset

(* MachineIdentity and _assemble raise nothing: load_settings returns.     *)
Accepted(raw) ==
  /\ raw.identity = "legal"
  /\ raw.listed
  /\ \A i \in DOMAIN raw.environments :
       LET name == raw.environments[i] IN
       name \in ValidEnvNames /\ Buildable(name, raw.blocks[name])
  /\ CheckDistinct(Environments(raw))

(* next(e for e in settings.environments if e.name == name)                *)
Named(envs, name) ==
  envs[CHOOSE i \in DOMAIN envs :
         envs[i].name = name /\ \A j \in 1 .. i - 1 : envs[j].name # name]

(* build_jobs, and the environment that _default_run_env finds when a job  *)
(* fires.                                                                  *)
BuildJobs(envs) ==
  [i \in EnabledEnvironments(envs) |->
     [job_id |-> envs[i].name, second |-> envs[i].offset,
      env |-> Named(envs, envs[i].name)]]

(* What POST /run starts: the named environment, enabled or not, or all    *)
(* that are enabled; none if the name is not configured.                   *)
ManualRun(envs, name) ==
  IF name = None THEN {envs[i].name : i \in EnabledEnvironments(envs)}
                 ELSE {name} \cap {envs[i].name : i \in DOMAIN envs}

-----------------------------------------------------------------------------
(* Each folder is polled for one backend only: two jobs share neither id,  *)
(* nor folder, nor second, and the environment that a job finds by its     *)
(* name when it fires is the one it was made for.  POST /run starts the    *)
(* same ones.                                                              *)
RoutesOnce(envs) ==
  LET jobs == BuildJobs(envs) IN
  /\ ManualRun(envs, None) = {jobs[i].job_id : i \in DOMAIN jobs}
  /\ \A i \in DOMAIN jobs :
       /\ jobs[i].env = envs[i]
       /\ \A j \in DOMAIN jobs \ {i} :
            /\ jobs[i].job_id # jobs[j].job_id
            /\ jobs[i].second # jobs[j].second
            /\ Resolve[jobs[i].env.watch_dir] # Resolve[jobs[j].env.watch_dir]

=============================================================================

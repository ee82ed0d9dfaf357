--------------------------- MODULE Settings_proofs ---------------------------
(***************************************************************************)
(* Proofs about Settings: what CheckDistinct, a check of pairs of enabled  *)
(* environments, makes of all that is polled.  That names are not listed   *)
(* twice is nowhere checked: it follows, as environments of one name share *)
(* a block and so a folder, unless they are disabled.  And about Startup:  *)
(* the scheduler's jobs are therefore distinct whenever it is started.     *)
(***************************************************************************)
EXTENDS Startup, FiniteSetTheorems, WellFoundedInduction, TLAPS

LEMMA LeastOf ==
  ASSUME NEW S \in SUBSET Nat, S # {}
  PROVE  \E i \in S : \A j \in S : i <= j
<1>1. PICK i \in S : \A j \in S : <<j, i>> \notin OpToRel(<, Nat)
  BY NatLessThanWellFounded, WFMin
<1>2. \A j \in S : ~ (j < i)
  BY <1>1 DEF OpToRel
<1> QED BY <1>2

(* The environment that is first of its name is what Named finds.          *)
LEMMA NamedIsOne ==
  ASSUME NEW envs, NEW n \in Nat, DOMAIN envs = 1 .. n, NEW i \in 1 .. n
  PROVE  \E k \in 1 .. n : envs[k].name = envs[i].name /\ Named(envs, envs[i].name) = envs[k]
<1> DEFINE Same == {k \in 1 .. n : envs[k].name = envs[i].name}
<1>1. PICK k \in Same : \A j \in Same : k <= j
  <2>1. Same \in SUBSET Nat /\ i \in Same
    OBVIOUS
  <2> HIDE DEF Same
  <2> QED BY <2>1, LeastOf
<1>2. \A j \in 1 .. k - 1 : envs[j].name # envs[i].name
  BY <1>1
<1>3. \E m \in DOMAIN envs :
        envs[m].name = envs[i].name /\ \A j \in 1 .. m - 1 : envs[j].name # envs[i].name
  BY <1>1, <1>2
<1> QED BY <1>3 DEF Named

(* Environments of one name are the same.                                  *)
LEMMA OneBlock ==
  ASSUME NEW raw, NEW i \in DOMAIN raw.environments, NEW j \in DOMAIN raw.environments,
         Environments(raw)[i].name = Environments(raw)[j].name
  PROVE  Environments(raw)[i] = Environments(raw)[j]
BY DEF Environments, BuildEnv

(* Whatever the settings, a process that comes up with them polls each     *)
(* folder for one environment, at a second of its own, and each job and    *)
(* each manual run finds the environment it is meant for (_assemble,       *)
(* build_jobs, _default_run_env).                                          *)
THEOREM AcceptedRoutesOnce ==
  ASSUME NEW raw, NEW n \in Nat, DOMAIN raw.environments = 1 .. n, Accepted(raw)
  PROVE  RoutesOnce(Environments(raw))
<1> DEFINE envs == Environments(raw)
           jobs == BuildJobs(envs)
<1>1. DOMAIN envs = 1 .. n
  BY DEF Environments
<1>2. DOMAIN jobs = EnabledEnvironments(envs) /\ DOMAIN jobs \subseteq 1 .. n
  BY <1>1 DEF BuildJobs, EnabledEnvironments
<1>3. ASSUME NEW i \in DOMAIN jobs
      PROVE  /\ jobs[i].job_id = envs[i].name /\ jobs[i].second = envs[i].offset
             /\ jobs[i].env = envs[i]
  <2>1. i \in 1 .. n
    BY <1>2, <1>3
  <2>2. PICK k \in 1 .. n : envs[k].name = envs[i].name
                            /\ Named(envs, envs[i].name) = envs[k]
    BY <1>1, <2>1, NamedIsOne
  <2>3. envs[k] = envs[i]
    BY <2>1, <2>2, OneBlock
  <2>4. jobs[i] = [job_id |-> envs[i].name, second |-> envs[i].offset,
                   env |-> Named(envs, envs[i].name)]
    BY <1>2, <1>3 DEF BuildJobs
  <2> HIDE DEF envs, jobs
  <2> QED BY <2>2, <2>3, <2>4
<1>4. ASSUME NEW i \in DOMAIN jobs, NEW j \in DOMAIN jobs, i < j
      PROVE  /\ Resolve[envs[i].watch_dir] # Resolve[envs[j].watch_dir]
             /\ envs[i].offset # envs[j].offset
             /\ envs[i].name # envs[j].name
  <2>1. /\ Resolve[envs[i].watch_dir] # Resolve[envs[j].watch_dir]
        /\ envs[i].offset # envs[j].offset
    BY <1>2, <1>4 DEF Accepted, CheckDistinct
  <2>2. i \in DOMAIN raw.environments /\ j \in DOMAIN raw.environments
    BY <1>2, <1>4
  <2>3. envs[i].name # envs[j].name
    BY <2>1, <2>2, OneBlock
  <2> QED BY <2>1, <2>3
<1>5. ASSUME NEW i \in DOMAIN jobs, NEW j \in DOMAIN jobs \ {i}
      PROVE  /\ jobs[i].job_id # jobs[j].job_id
             /\ jobs[i].second # jobs[j].second
             /\ Resolve[jobs[i].env.watch_dir] # Resolve[jobs[j].env.watch_dir]
  <2>1. i < j \/ j < i
    BY <1>2, <1>5
  <2> HIDE DEF envs, jobs
  <2> QED BY <1>3, <1>4, <1>5, <2>1
<1>6. ManualRun(envs, None) = {jobs[i].job_id : i \in DOMAIN jobs}
  <2> HIDE DEF envs, jobs
  <2> QED BY <1>2, <1>3 DEF ManualRun
<1> HIDE DEF envs
<1>7. RoutesOnce(envs)
  BY <1>3, <1>5, <1>6 DEF RoutesOnce
<1> QED BY <1>7 DEF envs

(* What Service assumes of its environments, accepted settings provide:    *)
(* they are finitely many, each with a second within the minute            *)
(* (_check_environment_names, _build_env).                                 *)
THEOREM AcceptedSchedulable ==
  ASSUME NEW raw, NEW n \in Nat, DOMAIN raw.environments = 1 .. n, Accepted(raw)
  PROVE  LET jobs == BuildJobs(Environments(raw)) IN
         /\ IsFiniteSet({jobs[i].job_id : i \in DOMAIN jobs})
         /\ \A i \in DOMAIN jobs : jobs[i].second \in 0 .. 59
<1> DEFINE envs == Environments(raw)
           jobs == BuildJobs(envs)
           ids  == {jobs[i].job_id : i \in DOMAIN jobs}
<1>1. ASSUME NEW i \in DOMAIN jobs
      PROVE  jobs[i].job_id \in ValidEnvNames /\ jobs[i].second \in 0 .. 59
  <2>1. i \in DOMAIN raw.environments
    BY <1>1 DEF BuildJobs, EnabledEnvironments, Environments
  <2>2. /\ raw.environments[i] \in ValidEnvNames
        /\ raw.blocks[raw.environments[i]].offset \in 0 .. 59
    BY <2>1 DEF Accepted, Buildable
  <2>3. /\ envs[i].name = raw.environments[i]
        /\ envs[i].offset = raw.blocks[raw.environments[i]].offset
    BY <2>1 DEF Environments, BuildEnv
  <2>4. jobs[i].job_id = envs[i].name /\ jobs[i].second = envs[i].offset
    BY <1>1 DEF BuildJobs
  <2> HIDE DEF envs, jobs
  <2> QED BY <2>2, <2>3, <2>4
<1>2. ids \in SUBSET ValidEnvNames
  <2> HIDE DEF jobs
  <2> QED BY <1>1
<1>3. IsFiniteSet(ValidEnvNames)
  <2>1. ValidEnvNames = {"production"} \cup {"staging"}
    BY DEF ValidEnvNames
  <2> QED BY <2>1, FS_Singleton, FS_Union
<1>4. IsFiniteSet(ids)
  <2> HIDE DEF ids
  <2> QED BY <1>2, <1>3, FS_Subset
<1> QED BY <1>1, <1>4

(* Whenever the scheduler is started, the jobs it registers are distinct,  *)
(* each with the environment it was made for, whatever the settings.       *)
THEOREM JobsAreDistinct == Spec => []JobsDistinct
<1>1. AcceptedRouteOnce
  <2> SUFFICES ASSUME NEW raw \in RawSettings, Accepted(raw)
               PROVE  RoutesOnce(Environments(raw))
    BY DEF AcceptedRouteOnce
  <2>1. /\ Len(raw.environments) \in Nat
        /\ DOMAIN raw.environments = 1 .. Len(raw.environments)
    BY StartupAssumption
  <2> QED BY <2>1, AcceptedRoutesOnce
<1>2. JobsDistinct
  BY <1>1 DEF JobsDistinct
<1> QED BY <1>2, PTL

=============================================================================

-------------------------------- MODULE Startup --------------------------------
(***************************************************************************)
(* scanner/__main__.py, main: load_settings (Settings) before the process  *)
(* passes its gate, and the jobs that its scheduler registers for them     *)
(* (Service).                                                              *)
(***************************************************************************)
EXTENDS Service, Settings

CONSTANT RawSettings   \* what the process may be given to start with

ASSUME StartupAssumption ==
  \A raw \in RawSettings : raw.environments \in Seq(STRING)

-----------------------------------------------------------------------------
AcceptedRouteOnce == \A raw \in RawSettings :
  Accepted(raw) => RoutesOnce(Environments(raw))

(* Whatever settings a process has come up with, its jobs are distinct     *)
(* when the scheduler registers them (FR-006c, FR-009): names listed       *)
(* twice, paths that meet in one folder and disabled environments          *)
(* included.                                                               *)
JobsDistinct == proc = "starting" => AcceptedRouteOnce

=============================================================================

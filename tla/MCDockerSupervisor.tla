-------------------------- MODULE MCDockerSupervisor --------------------------
(***************************************************************************)
(* Instances of DockerSupervisor for TLC, and the statements of the        *)
(* repository that the supervisor does not live up to.                     *)
(***************************************************************************)
EXTENDS DockerSupervisor

CONSTANTS p1, p2

-----------------------------------------------------------------------------
(* Statements of the repository that do not hold.                          *)

\* docker-supervisor.ts on the update: restarting the host process before every
\* container has stopped would leave "two live containers for the same
\* project". A build that ends meanwhile starts one nobody stops.
NoneLeftBehind ==
  [][host' \in {"restarting", "stopped"} /\ HostAlive => \A p \in Project : ~Running(p)]_vars

\* docker-supervisor.ts before process.exit(): "All containers have exited
\* cleanly". Those that are being rebuilt have not.
EndsWithLast ==
  [][host' = "ended" /\ HostAlive => building = {}]_vars

\* docker-runner.ts on the updater of the host: "reExecProcess() restarts this
\* process" after the update.
HostUpdateReturns ==
  (auto = "stop") ~> (host \in {"restarting", "stopping", "stopped", "crashed"})

\* agent-config-sync.ts: the check "ensures containers always rebuild on
\* startup when packages are configured".
CustomizationSurvives ==
  \A p \in Project :
    container[p].st = "up" /\ container[p].known = want[p] /\ want[p] # 0 =>
      container[p].image = want[p] \/ disk[p].error
=============================================================================

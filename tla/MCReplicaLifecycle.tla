------------------------ MODULE MCReplicaLifecycle ------------------------
(***************************************************************************)
(* Instances of ReplicaLifecycle for TLC, and the statements of the        *)
(* repository that the replica's life does not live up to.                 *)
(***************************************************************************)
EXTENDS ReplicaLifecycle, TLC

CONSTANTS w, r, y, b1, b2

BeatSymmetry == Permutations(Beats)

-----------------------------------------------------------------------------
(* Statements of the repository that do not hold.                          *)

\* project-agent.ts: slotHeld is set "as soon as admission is known to be
\* accepted", so that a shutdown never skips the release of a slot it has.
GrantNoted == told \in {"granted", "again"} => slotHeld

\* project-agent.ts, at slotHeld: "a replica that was rejected/evicted holds
\* nothing to release".
RejectedHoldsNothing == life.loop = "park" => ~slotHeld

\* project-agent.ts: "a replica that was evicted must NOT re-register as 'initial'".
\* handleEviction() notes nothing while the loop is being stopped.
EvictedNeverInitial ==
  [][life.loop = "begin" /\ life'.loop = "register" /\ asked' = "initial"
       => told # "late"]_vars

\* project-agent.ts: startup can fail in the AppSync connect, and is retried.
ConnectFailureRetried == sock = "retrying" ~> life.loop # "connect"

\* project-agent.ts, restartRegisterLoop: "Waiting for the previous loop's promise
\* guarantees the restart lands". The promise of a loop that hangs never settles.
RestartLands == life.cancelled ~> ~life.cancelled \/ phase # "none"

\* project-agent.ts: stop() wakes a parked standby wait "so the loop unwinds
\* now instead of up to REPLICA_STANDBY_RETRY_DELAY_MS later".
ParkedCanBeWoken == life.loop = "park" => 0 \in life.wake

\* project-agent.ts: clearing the timer closes the gap "for the entire drain
\* window": no config sync is pending while the agent drains.
NoSyncWhileDraining == phase # "none" => ~syncArmed
=============================================================================

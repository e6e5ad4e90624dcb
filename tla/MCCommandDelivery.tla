------------------------- MODULE MCCommandDelivery -------------------------
(***************************************************************************)
(* Instances of CommandDelivery for TLC, and the statements of the         *)
(* repository that the delivery protocol does not live up to.              *)
(***************************************************************************)
EXTENDS CommandDelivery, TLC

CONSTANTS p1, p2, h1, h2, c1, c2

\* Two replicas of one agent in pods of their own.
ReplicaHostOf == p1 :> h1 @@ p2 :> h2
ReplicaServes == [p \in {p1, p2} |-> {c1}]

\* One replica.
SoloHostOf == p1 :> h1
SoloServes == p1 :> {c1}
PairServes == p1 :> {c1, c2}

\* Two project workers of one machine, which share the config directory; the
\* command is one of p1's project.
WorkerHostOf == [p \in {p1, p2} |-> h1]
WorkerServes == p1 :> {c1} @@ p2 :> {}

-----------------------------------------------------------------------------
(* Statements of the repository that do not hold.                          *)

\* agent-transport.ts: "Never run the same command twice in this process."
NeverTwice ==
  [][\A p \in Proc : \A u \in tasks'[p] \ tasks[p] :
       u.pc = "run" => ~\E e \in finished : e.cmd = u.cmd /\ e.inst = Me(p)]_vars

\* agent-transport.ts, after a failed submit: the result on disk must not be
\* overwritten by a failure report, "it stays queued for resend".
RealResultKept ==
  [][\A h \in Host : \A f \in disk[h] :
       f.kind = "executed" =>
         ~\E g \in disk'[h] : g.cmd = f.cmd /\ g.kind = "fetchError"]_vars

\* pending-result-store.ts: the flush guard keeps "a second pass over the same
\* files" from starting.
NoParallelResend ==
  \A p \in Proc : \A f \in flush[p]["register"].sent, g \in flush[p]["timer"].sent :
    f.cmd # g.cmd

\* project-agent.ts: "a standby replica does no work", it "receives no
\* commands".
StandbyStartsNothing ==
  [][\A p \in Proc : status[p] = "standby" => inFlight'[p] \subseteq inFlight[p]]_vars

\* project-agent.ts, stopWork: "a replica that drops to standby stops retrying".
StandbyDoesNotResend == \A p \in timer : status[p] # "standby" \/ p \in draining
=============================================================================

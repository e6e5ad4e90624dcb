------------------------------- MODULE PidFile -------------------------------
(***************************************************************************)
(* agent.pid (pid-manager.ts): the record by which a second start is       *)
(* refused (startAgent, runInDocker) and by which `stop` finds the agent   *)
(* (commands/stop-agent.ts).  It names a host, a pid and the start time of *)
(* the process (its generation), because in a container every agent is     *)
(* pid 1 and the file may outlive the container under the same host name.  *)
(*                                                                         *)
(* An agent's number stands for its start time: two are near each other    *)
(* (GENERATION_TOLERANCE_SECONDS) only under the fault "quick".            *)
(***************************************************************************)
EXTENDS Naturals

CONSTANTS
    Starts,         \* the processes that are started, 1..n in this order
    Pids, Hosts,    \* process numbers; names a container is given
    PidFaults       \* "together", "stopping", "quick", "foreign": see Launch, isEntryRunning

\* 0 stands for no process, no pid and no host.
ASSUME PidAssumption == Starts \subseteq Nat \ {0} /\ 0 \notin Pids /\ 0 \notin Hosts

VARIABLES container, record, proc, stop
pidVars == <<container, record, proc, stop>>

\* Who wrote the record, as the file tells it; 0 for no file.
NoRecord == [host |-> 0, pid |-> 0, by |-> 0]
Off == [pc |-> "off", host |-> 0, pid |-> 0]
IsUp(q) == proc[q].pc \in {"starting", "checked", "running", "draining"}
Starting(q) == proc[q].pc \in {"starting", "checked"}
NoStop == [pc |-> "idle", rec |-> NoRecord]

PidInit ==
    /\ container \in BOOLEAN /\ record = NoRecord /\ stop = NoStop
    /\ proc = [q \in Starts |-> Off]

PidTypeOK ==
    LET Record == [host : {0} \cup Hosts, pid : {0} \cup Pids, by : {0} \cup Starts] IN
    /\ container \in BOOLEAN /\ record \in Record
    /\ proc \in [Starts -> [pc : {"off", "starting", "checked", "running", "draining", "refused", "gone"},
                            host : {0} \cup Hosts, pid : {0} \cup Pids]]
    /\ stop \in [pc : {"idle", "asked", "waiting"}, rec : Record]

\* A process is started: in a container as pid 1, the only one, under the name
\* the container has; on a host with any free pid and the host's name.
Launch(q, host, pid) ==
    /\ proc[q].pc = "off" /\ \A p \in 1..(q - 1) : proc[p].pc # "off"
    /\ \A p \in Starts : IsUp(p) => ~container /\ proc[p].pid # pid
    /\ "together" \in PidFaults \/ \A p \in Starts : ~Starting(p)
    /\ "stopping" \in PidFaults \/ stop.pc = "idle"
    /\ IF container THEN pid = 1 ELSE host = 1
    /\ proc' = [proc EXCEPT ![q] = [pc |-> "starting", host |-> host, pid |-> pid]]
    /\ UNCHANGED <<container, record, stop>>

\* The record as the process that reads it sees it: on its own host, by
\* someone who lives - with its own pid, by itself.  me = 0 is the command
\* `stop`, which runs beside the agent (on its host, in its container).
Near(p, q) == p = q \/ "quick" \in PidFaults
Lives(rec) == (\E p \in Starts : IsUp(p) /\ proc[p].pid = rec.pid) \/ "foreign" \in PidFaults
\* Mutant of isEntryRunning: the host's name and a living process decide.
ByName(rec, host, pid, me) == rec # NoRecord /\ rec.host = host /\ Lives(rec)

isEntryRunning(rec, host, pid, me) ==
    /\ rec # NoRecord /\ rec.host = host
    /\ IF rec.pid = pid THEN Near(rec.by, me) ELSE Lives(rec)

\* startAgent, runInDocker: the check comes first, ...
Check(q) ==
    LET a == proc[q] IN
    /\ a.pc = "starting"
    /\ proc' = [proc EXCEPT ![q].pc = IF isEntryRunning(record, a.host, a.pid, q) THEN "refused" ELSE "checked"]
    /\ UNCHANGED <<container, record, stop>>

\* ... the record when the agents have been made, and with it the handlers of
\* SIGTERM: until then the signal ends the process.
writePidFile(q) ==
    /\ proc[q].pc = "checked"
    /\ record' = [host |-> proc[q].host, pid |-> proc[q].pid, by |-> q]
    /\ proc' = [proc EXCEPT ![q].pc = "running"]
    /\ UNCHANGED <<container, stop>>

\* SIGTERM: the record goes first, whoever's it is, then the agents drain; a
\* second signal does nothing.
Signalled(q) ==
    CASE proc[q].pc = "running" -> record' = NoRecord /\ proc' = [proc EXCEPT ![q].pc = "draining"]
      [] proc[q].pc = "draining" -> UNCHANGED <<record, proc>>
      [] OTHER -> proc' = [proc EXCEPT ![q].pc = "gone"] /\ UNCHANGED record
shutdown(q) == proc[q].pc = "running" /\ Signalled(q) /\ UNCHANGED <<container, stop>>

\* Drained, failed to start, or killed: only the process goes.
Exit(q) ==
    /\ IsUp(q) /\ proc' = [proc EXCEPT ![q].pc = "gone"]
    /\ UNCHANGED <<container, record, stop>>

-----------------------------------------------------------------------------
\* stopAgent reads the record on the host of the agents that live there, ...
stopAgent(host) ==
    /\ stop.pc = "idle" /\ record # NoRecord /\ ("stopping" \in PidFaults \/ \A p \in Starts : ~Starting(p))
    /\ IF container THEN \E q \in Starts : IsUp(q) /\ proc[q].host = host ELSE host = 1
    /\ IF isEntryRunning(record, host, 0, 0)
       THEN stop' = [pc |-> "asked", rec |-> record] /\ UNCHANGED record
       ELSE record' = NoRecord /\ UNCHANGED stop
    /\ UNCHANGED <<container, proc>>

\* ... signals the process that has the pid by now, and waits, ...
Signal ==
    /\ stop.pc = "asked" /\ UNCHANGED container
    /\ IF \E q \in Starts : IsUp(q) /\ proc[q].pid = stop.rec.pid
       THEN /\ \E q \in Starts : IsUp(q) /\ proc[q].pid = stop.rec.pid /\ Signalled(q)
            /\ stop' = [stop EXCEPT !.pc = "waiting"]
       ELSE stop' = NoStop /\ UNCHANGED <<record, proc>>

\* ... and removes the record when it is gone, but gives up after a time.
WaitEnds ==
    /\ stop.pc = "waiting" /\ stop' = NoStop
    /\ record' = IF \E q \in Starts : IsUp(q) /\ proc[q].pid = stop.rec.pid THEN record ELSE NoRecord
    /\ UNCHANGED <<container, proc>>

PidNext ==
    \/ \E q \in Starts : \/ \E h \in Hosts, p \in Pids : Launch(q, h, p)
                         \/ Check(q) \/ writePidFile(q) \/ shutdown(q) \/ Exit(q)
    \/ \E h \in Hosts : stopAgent(h)
    \/ Signal \/ WaitEnds

-----------------------------------------------------------------------------
PidSpec == PidInit /\ [][PidNext]_pidVars

\* Starts that do not race each other or a stop (pid-manager.ts, agent-runner.ts,
\* stop-agent.ts): the agent that serves is the one the record names, so a
\* second is refused and `stop` finds it, ...
ServingIsRecorded == \A q \in Starts : proc[q].pc = "running" => record.by = q

\* ... and no record keeps an agent from starting when none lives: neither one
\* of another container, nor one of a process that had the same pid.
PidFileTrue ==
    /\ [](PidTypeOK /\ ServingIsRecorded)
    /\ [][\A q \in Starts : proc'[q].pc = "refused" /\ proc[q].pc # "refused"
             => \E p \in Starts \ {q} : IsUp(p)]_pidVars
=============================================================================

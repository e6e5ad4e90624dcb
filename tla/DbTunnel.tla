------------------------------- MODULE DbTunnel -------------------------------
(***************************************************************************)
(* db_query and get_db_schemas of the MCP server: every query opens the    *)
(* way to its database - none, an SSH forward (db-tunnel.ts) or the AWS    *)
(* CLI as a port forward (db-ssm-tunnel.ts) - and closes it when it ends.  *)
(* Queries run beside each other.                                          *)
(***************************************************************************)
EXTENDS Naturals

CONSTANTS
    Queries, Ports,
    DbFaults        \* "port": a reserved port is taken before the child binds it

\* A query, its SSH connection, local listener and the database client's
\* socket; port is what was reserved for its child; through is the query whose
\* tunnel it goes through.
VARIABLES query, aws, serving
dbVars == <<query, aws, serving>>

NoQuery == [pc |-> "idle", via |-> "direct", conn |-> FALSE, listener |-> FALSE, port |-> 0, through |-> 0, fails |-> FALSE]
Settled == {"done", "failed", "lost"}
Outcome(ok) == [NoQuery EXCEPT !.pc = IF ok THEN "done" ELSE "failed"]
On(q, r) == query' = [query EXCEPT ![q] = r]

DbInit == query = [q \in Queries |-> NoQuery] /\ aws = [q \in Queries |-> "none"] /\ serving = TRUE
DbTypeOK ==
    /\ query \in [Queries -> [pc : {"idle", "connecting", "binding", "probing", "querying", "closing", "killing"} \cup Settled,
                              via : {"direct", "ssh", "ssm"}, conn : BOOLEAN, listener : BOOLEAN,
                              port : {0} \cup Ports, through : {0} \cup Queries, fails : BOOLEAN]]
    /\ aws \in [Queries -> {"none", "starting", "listening", "deaf", "dead"}] /\ serving \in BOOLEAN

\* The child of q has its port; another holds it.
Holds(q, port) == aws[q] \in {"listening", "deaf"} /\ query[q].port = port
Bound(port) == \E q \in Queries : Holds(q, port)

\* executeQueryWithTunnel: the credential's kind decides the way; a credential
\* that is not there or not supported is an error.
Direct(q) == On(q, [NoQuery EXCEPT !.pc = "querying", !.through = q]) /\ UNCHANGED aws
Ssh(q) == On(q, [NoQuery EXCEPT !.pc = "connecting", !.via = "ssh"]) /\ UNCHANGED aws
NoCredential(q) == On(q, Outcome(FALSE)) /\ UNCHANGED aws

\* reserveLocalPort: bound for a moment and released, then the AWS CLI is told
\* to listen on it, if it can be started.
Ssm(q) ==
    \E port \in Ports :
        /\ ~Bound(port)
        /\ "port" \in DbFaults \/ \A p \in Queries : query[p].port # port
        /\ On(q, [NoQuery EXCEPT !.pc = "probing", !.via = "ssm", !.port = port])
        /\ \E c \in {"starting", "dead"} : aws' = [aws EXCEPT ![q] = c]

executeQueryWithTunnel(q) ==
    serving /\ query[q].pc = "idle" /\ (Direct(q) \/ Ssh(q) \/ NoCredential(q) \/ Ssm(q)) /\ UNCHANGED serving

-----------------------------------------------------------------------------
\* Mutant of Listens: the SSH connection is left when the listener cannot be bound.
BindLeaks(q) ==
    /\ query[q].pc = "binding" /\ UNCHANGED <<aws, serving>>
    /\ \/ On(q, [query[q] EXCEPT !.pc = "querying", !.listener = TRUE, !.through = q])
       \/ On(q, [Outcome(FALSE) EXCEPT !.conn = TRUE])

\* openSshTunnel: connected, or refused, or not ready in time; then a local
\* port, and without one the connection is ended.
Ready(q) ==
    /\ query[q].pc = "connecting" /\ UNCHANGED <<aws, serving>>
    /\ On(q, [query[q] EXCEPT !.pc = "binding", !.conn = TRUE]) \/ On(q, Outcome(FALSE))
Listens(q) ==
    /\ query[q].pc = "binding" /\ UNCHANGED <<aws, serving>>
    /\ On(q, [query[q] EXCEPT !.pc = "querying", !.listener = TRUE, !.through = q]) \/ On(q, Outcome(FALSE))

\* The AWS CLI listens on the port, unless another does: then it exits, as it
\* may at any time.  "deaf" is one that does not heed SIGTERM.
ChildListens(q) ==
    /\ aws[q] = "starting" /\ UNCHANGED <<query, serving>>
    /\ \E c \in {"listening", "deaf"} : aws' = [aws EXCEPT ![q] = IF Bound(query[q].port) THEN "dead" ELSE c]
ChildExits(q) ==
    /\ aws[q] \in {"starting", "listening", "deaf"} /\ aws' = [aws EXCEPT ![q] = "dead"]
    /\ UNCHANGED <<query, serving>>

\* openSsmTunnel polls the port, whoever listens, until its child has exited or
\* the time is over.
Probe(q) ==
    /\ query[q].pc = "probing" /\ UNCHANGED <<aws, serving>>
    /\ \E p \in Queries : Holds(p, query[q].port) /\ On(q, [query[q] EXCEPT !.pc = "querying", !.through = p])
GivesUp(q) ==
    /\ query[q].pc = "probing" /\ UNCHANGED <<aws, serving>>
    /\ On(q, [query[q] EXCEPT !.pc = "killing", !.fails = TRUE])

-----------------------------------------------------------------------------
\* The database answers or the query fails; it has no time limit of its own.
Reaches(q) ==
    LET t == query[q].through IN query[t].conn \/ query[q].via = "direct" \/ aws[t] \in {"listening", "deaf"}
executeQuery(q) ==
    /\ query[q].pc = "querying" /\ UNCHANGED <<aws, serving>>
    /\ \E ok \in IF Reaches(q) THEN BOOLEAN ELSE {FALSE} :
          On(q, CASE query[q].via = "direct" -> Outcome(ok)
                  [] query[q].via = "ssh" -> [query[q] EXCEPT !.pc = "closing", !.fails = ~ok]
                  [] OTHER -> [query[q] EXCEPT !.pc = "killing", !.fails = ~ok])

\* The bastion is lost: the error is logged, the forwarded channel closes.
BastionDrops(q) ==
    /\ query[q].pc = "querying" /\ query[q].conn
    /\ On(q, [query[q] EXCEPT !.conn = FALSE]) /\ UNCHANGED <<aws, serving>>

\* close() of the SSH tunnel: the listener when its sockets have closed, then
\* the connection.
CloseSsh(q) ==
    query[q].pc = "closing" /\ On(q, Outcome(~query[q].fails)) /\ UNCHANGED <<aws, serving>>

\* killSubprocess: SIGTERM, and SIGKILL after SSM_KILL_GRACE_MS.
Terminated(q) ==
    /\ query[q].pc = "killing" /\ aws[q] \in {"starting", "listening"} /\ aws' = [aws EXCEPT ![q] = "dead"]
    /\ UNCHANGED <<query, serving>>
killSubprocess(q) ==
    /\ query[q].pc = "killing" /\ UNCHANGED serving
    /\ aws' = [aws EXCEPT ![q] = "dead"] /\ On(q, Outcome(~query[q].fails))

\* The MCP server is ended, with the chat whose tools it serves: its
\* connections go with it, no finally runs.
ServerEnds ==
    /\ serving /\ serving' = FALSE /\ UNCHANGED aws
    /\ query' = [q \in Queries |-> IF query[q].pc \in {"idle"} \cup Settled THEN query[q] ELSE [NoQuery EXCEPT !.pc = "lost", !.port = query[q].port]]

Establish(q) == Ready(q) \/ Listens(q) \/ GivesUp(q)
CloseTunnel(q) == CloseSsh(q) \/ killSubprocess(q)
DbNext ==
    \/ ServerEnds
    \/ \E q \in Queries :
          \/ executeQueryWithTunnel(q) \/ Establish(q) \/ Probe(q) \/ ChildListens(q) \/ ChildExits(q)
          \/ executeQuery(q) \/ BastionDrops(q) \/ CloseTunnel(q) \/ Terminated(q)

DbSpec == DbInit /\ [][DbNext]_dbVars

-----------------------------------------------------------------------------
\* A query goes through its own tunnel only (db-ssm-tunnel.ts).
OwnTunnelOnly == \A q \in Queries : query[q].through \in {0, q}

\* When it has ended nothing of the tunnel is left (db-query.ts: "always closes
\* the tunnel").
NoTunnelLeft ==
    \A q \in Queries :
       query[q].pc \in {"done", "failed"} => ~query[q].conn /\ ~query[q].listener /\ aws[q] \in {"none", "dead"}

\* It is opened or fails in time, and closed when the query has ended: only a
\* query at its database stays as it is.
TunnelSettles == \A q \in Queries : []<>(query[q].pc \in {"idle", "querying"} \cup Settled)

\* Both: a tunnel is its query's, and ends with it.
TunnelsKept == DbTypeOK /\ OwnTunnelOnly /\ NoTunnelLeft
=============================================================================

---------------------------- MODULE MCServerSetup ----------------------------
(* Small instances of ServerSetup. *)
EXTENDS ServerSetup

\* A qualified role that distributes a folder, and the short form for a file
\* of it.
Shared == <<[PlainTask EXCEPT !.module = "include_role", !.role = "shared_file", !.src = "dir/"],
            [PlainTask EXCEPT !.module = "include_role_short", !.role = "shared_file", !.src = "dir/a"]>>
Self == <<[PlainTask EXCEPT !.secret = TRUE],
          [PlainTask EXCEPT !.module = "include_role", !.role = "agent_k8s"]>>
Loose == <<[PlainTask EXCEPT !.module = "resident_short"]>>
Foreign == <<[PlainTask EXCEPT !.module = "include_role", !.role = "foreign"]>>

MCBodies == [shape : {"tasks"}, tasks : {Shared, Self, Loose, Foreign}]
            \cup {[shape |-> "play", tasks |-> <<>>], NoBody}

\* -- Statements that do not hold -------------------------------------------

\* A stop leaves nothing behind in the process manager.
NothingReserved == stage = "over" => pm # "reserved"

\* "declared" in the acknowledgement means that the server has applied it.
AckMeansApplied == ack = "declared" => applied

\* An agent that is replaced has left a trace at the server: the declaration
\* or the notice that it failed.
RestartSeen == role = "deploying" => applied \/ noticed = "told"

\* The server is told of a task once.
ArrivesOnce == \A i, j \in DOMAIN delivered : i < j => delivered[i] < delivered[j]

\* The role never goes on before the declaration has settled.
NeverAhead == role # "gave_up"
=============================================================================

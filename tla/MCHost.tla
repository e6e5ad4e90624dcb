-------------------------------- MODULE MCHost --------------------------------
(***************************************************************************)
(* What an agent does with the files and processes of its host, each part  *)
(* on its own, for they share no state: the shells of the web terminals,   *)
(* an E2E test with its run directory and browser, the login file of the   *)
(* Claude CLI, the credentials files of chats, config.json, agent.pid, and *)
(* the tunnels of the database tools.  One run chooses one of them at its  *)
(* start and checks it.                                                    *)
(***************************************************************************)
EXTENDS TerminalSessions, PidFile, ClaudeJson, ConfigStore, E2eTest, CommandFiles, DbTunnel, Sequences, FiniteSets

CONSTANTS Parts, i1, i2, p1, p2, p3, m1

VARIABLE part

HostInit ==
    /\ part \in Parts
    /\ Init /\ E2eInit /\ FileInit /\ StoreInit /\ PidInit /\ DbInit
    /\ part = "e2e" \/ command = [capture |-> FALSE, known |-> FALSE]
    /\ part = "store" \/ config = NoConfig
    /\ part = "pid" \/ ~container
    /\ IF part = "json" THEN JsonInit
       ELSE /\ place = "disk" /\ file = UserFile /\ had = TRUE /\ lock = 0 /\ stale = FALSE
            /\ backup = NoFile /\ agent = [p \in Agents |-> Away]

shellVars == <<part, vars>>
ShellsNext ==
    part = "shells" /\ Next /\ UNCHANGED <<part, e2eVars, jsonVars, fileVars, storeVars, pidVars, dbVars>>
TestNext == part = "e2e" /\ E2eNext /\ UNCHANGED <<shellVars, jsonVars, fileVars, storeVars, pidVars, dbVars>>
LoginNext == part = "json" /\ JsonNext /\ UNCHANGED <<shellVars, e2eVars, fileVars, storeVars, pidVars, dbVars>>
FilesNext == part = "files" /\ FileNext /\ UNCHANGED <<shellVars, e2eVars, jsonVars, storeVars, pidVars, dbVars>>
WritersNext == part = "store" /\ StoreNext /\ UNCHANGED <<shellVars, e2eVars, jsonVars, fileVars, pidVars, dbVars>>
PidsNext == part = "pid" /\ PidNext /\ UNCHANGED <<shellVars, e2eVars, jsonVars, fileVars, storeVars, dbVars>>
TunnelsNext == part = "db" /\ DbNext /\ UNCHANGED <<shellVars, e2eVars, jsonVars, fileVars, storeVars, pidVars>>
HostNext == ShellsNext \/ TestNext \/ LoginNext \/ FilesNext \/ WritersNext \/ PidsNext \/ TunnelsNext

\* Shells: as in TerminalSessions. A test: its timers fire and the awaits return;
\* Playwright and Chromium owe nothing.
ShellsFair ==
    /\ WF_vars(part = "shells" /\ Tick) /\ WF_vars(part = "shells" /\ LinkEnded)
    /\ \A i \in Id : WF_vars(part = "shells" /\ GraceExpires(i)) /\ WF_vars(part = "shells" /\ TmuxKilled(i))
    /\ \A p \in Pty : WF_vars(part = "shells" /\ ExitSeen(p))
TestFair == WF_e2eVars(part = "e2e" /\ ByTimer) /\ WF_e2eVars(part = "e2e" /\ ByExecutor)

\* Files: time passes, an agent that has died is started again and lives for
\* long enough to send a heartbeat.
FilesFair ==
    /\ \A f \in Dir : WF_fileVars(part = "files" /\ GetsOld(f))
    /\ SF_fileVars(part = "files" /\ heartbeat) /\ WF_fileVars(part = "files" /\ Start)

\* Tunnels: connections have time limits, closing does not wait for anyone.
DbFair == \A q \in Queries : WF_dbVars(part = "db" /\ Establish(q)) /\ WF_dbVars(part = "db" /\ CloseTunnel(q))

HostSpec ==
    /\ HostInit /\ [][HostNext]_<<part, vars, e2eVars, jsonVars, fileVars, storeVars, pidVars, dbVars>>
    /\ ShellsFair /\ TestFair /\ FilesFair /\ DbFair

-----------------------------------------------------------------------------
\* What has to end does: the shells without a user, an E2E test with a time
\* limit, the credentials a killed agent has left, the tunnel of a query.
HostSettles ==
    /\ ShellsEnd
    /\ part = "e2e" => E2eEnds
    /\ OrphansGo
    /\ TunnelSettles

-----------------------------------------------------------------------------
(* Statements of the repository that do not hold (README).                 *)

\* terminal-session-manager.ts on the grace window: "If no reconnect arrives
\* within SESSION_GRACE_TIMEOUT_MS, the session is killed and removed". Each
\* failed attempt to reconnect arms the timers anew.
GraceElapses == \A i \in Id : (link = "down" /\ Has(i)) ~> (link # "down" \/ ~Has(i))

\* terminal-websocket.ts on disconnect(): "every PTY is killed immediately
\* rather than being kept alive for the grace window". An `open' that is received
\* in the closing handshake still starts one.
StopIsImmediate == link \in {"ending", "over"} => \A p \in Pty : ~Running(p)

\* terminal-session-manager.ts on the timer of an id that is opened anew: nothing
\* may end "the freshly-created live session". The late exit of the earlier shell
\* of the id removes it.
ReopenedIsKept == \A p \in Pty : Running(p) => table[pty[p].id] = p

\* playwright-subprocess-executor.ts, "Hooks-inflation guard": "drop all screenshots
\* for this test rather than misattribute". The guard sees only an index that was
\* captured: where the last step has no screenshot the others are one off.
NeverMisattributed == \A i \in DOMAIN parsed.shots : parsed.shots[i] \in {0, i}

\* e2e-test-executor.ts: "passed" stands for a test that has passed. A test under
\* Playwright that fails between its steps is "passed"; so is one whose AI reports a
\* step as failed, which is the prompt's matter and not stated here.
PassedMeansPassed == at = "end" /\ sent = "passed" /\ runner = "gone" => ~test.broken

\* A hung Playwright does not hang the command: only the subprocess mode sees to it.
AlwaysEnds == part = "e2e" => <>(at = "end")

\* One agent is in the lock.
OneInLock == Cardinality({p \in Agents : agent[p].pc \in InLock}) <= 1

\* The other files of a killed agent go too.
McpOrphansGo == \A c \in Chats : Orphan(c, "mcp") ~> <<c, "mcp">> \notin written
GitOrphansGo == \A c \in Chats : Orphan(c, "git") ~> <<c, "git">> \notin written

\* One agent is past the start's check, the one that stops included.
OneAgent == Cardinality({q \in Starts : proc[q].pc \in {"running", "draining"}}) <= 1

\* The children of a MCP server that has ended go; a query ends by itself.
ChildrenGo == \A q \in Queries : [](~serving /\ aws[q] # "none" => <>(aws[q] = "dead"))
QueryEnds == \A q \in Queries : query[q].pc = "querying" ~> query[q].pc # "querying"
=============================================================================

# Verification of the ai-support-agent CLI

TLA+ models of the agent's own protocols - how commands reach it, run and have
their results delivered, how a replica registers, yields its slot and shuts
down, how worker processes and containers are supervised, how connections are
kept and what terminals, editors and browsers do while they are lost, how a
chat, a test or a server setup comes to its end, and how configuration, alerts,
repositories and the files that several processes share stay right - with the
TLC configurations that check them on small instances and the TLAPS proofs of
invariants that matter most.

Paths are relative to the repository's `src/` unless they say otherwise.

    CommandLedger.tla      what the delivery of commands promises (abstract)
    CommandDelivery.tla    processCommand, pending results, resend passes
    ReplicaLifecycle.tla   register loop, standby, eviction, token, shutdown
    WorkerPool.tla         one worker process per project, config.json
    DockerSupervisor.tla   one container per project, images, host updates
    AgentLink.tla          what a connection promises its user (abstract)
    AgentSocket.tla        WebSocket, retries, heartbeat
    AppSyncLink.tla        subscription on top of AgentSocket
    TerminalSessions.tla   shells, grace window, tmux, on top of AgentLink
    CodeServerTunnel.tla   code-server processes and what is forwarded to them
    BrowserSessions.tla    browsers shown in the web client
    ChatModes.tla          by which mode a chat is answered
    ChatExecution.tla      one chat command, from attempt to last chunk
    E2eTest.tla            one E2E test and its Playwright process
    TaskGuard.tla          which Ansible tasks a setup may hold
    ServerSetup.tla        one server setup and its progress
    ConfigSync.tla         configuration, shared files, SSH files
    AlertProcessing.tla    alerts, their runs and recoveries
    RepoSync.tla           the clone of a repository
    ClaudeJson.tla         ~/.claude.json and its lock
    CommandFiles.tla       files with secrets, and the sweeps
    ConfigStore.tla        config.json and its writers
    PidFile.tla            agent.pid
    DbTunnel.tla           ways from a query to its database
    M_proofs.tla           theorems about module M, with their proofs
    Host_proofs.tla        theorems about TerminalSessions, PidFile, ClaudeJson,
                           ServerSetup, ConfigSync, ConfigStore, RepoSync
    BrowserSessions_proofs.tla  besides, about CommandFiles, DbTunnel, E2eTest
    MC*.tla, *.cfg         instances for TLC; statements that do not hold
    PROJECT.json           index: components, runs, mutants, map, hazards

`tlc -config X.cfg MC<module>.tla` runs a configuration (the table of runs names
the module of each), `tlapm M_proofs.tla` checks the proofs.

## 1. The system

One installation of the CLI on a host runs in one of two forms. With Docker it is
a supervisor (`docker/docker-supervisor.ts`) with one container per project;
without, a runner (`agent-runner.ts`, `child-process-manager.ts`) with one worker
process per project. In either, each project is served by one `ProjectAgent`
(`project-agent.ts`), which registers with the API server, holds one of the slots
the server gives to the replicas of an agent, receives commands over AppSync
(`agent-transport.ts`, `appsync-subscriber.ts`) and posts their results.

    config.json --poll--> ConfigWatcher --add/remove/token--> ChildProcessManager
        ^ login, configure                                     | fork, IPC
    docker supervisor --run/stop/logs--> container ------------+
           ^ exit codes, marker files, hashes                  v
           +------------------------------------------- ProjectAgent
                                                          | start/stop
       API server <--register, heartbeat, release--   register loop
       API server <--getCommand, submitResult------   AgentTransport --> alerts, syncs
       AppSync    --AGENT_COMMAND, CONFIG_UPDATE-->       | executeCommand
       disk       <--pending results, resend passes--  PendingResultStore
                                                          |
             chat: CLI or API, chunks, MCP server (tools, queries, browser)
             e2e_test: Playwright     server_setup_exec: ansible-playbook
       web client --WebSocket--> terminals, VS Code tunnel, browser sessions

### 1.1 Components

For each: the state it keeps, what operates on it, what is hard about it, and
what correct means. What is not modelled is in 7.

| component | state | operations | hard parts | correct when | module |
| --- | --- | --- | --- | --- | --- |
| Command transport (`agent-transport.ts`) | `inFlightCommands`, `draining`, list of a sweep | `processCommand`, `checkPendingCommands`, `handleNotification` | notification, sweep, reconnection and re-registration meet; failures before and after execution take different paths | one call per command and process; a drain starts nothing and ends; a result is submitted under the execution that made it | CommandDelivery |
| Pending results (`pending-result-store.ts`) | one file per command, shared by the processes of a host; `flushInFlight` | save, remove, load, `submitPendingResults` on registration and by timer | crash between any two steps, lost replies, two writers, ages | a saved result of a standing assignment stays until settled, and is settled | CommandDelivery |
| API client (`api-client.ts`, `retry-strategy.ts`) | `assignmentGenerations` | `getCommand`, `submitResult`, `submitPendingResult`, `clearAssignment` | retries after lost replies, fencing | a request carries the generation of its own execution | CommandDelivery |
| Register loop (`project-agent.ts`) | `isRegistering`, `registerLoopCancelled`, `stopGeneration`, `standbyWakeup`, `nextAdmissionMode`, `slotHeld` | `start`, `stop`, `restartRegisterLoop`, `waitForAdmission`, `registerAndStart`, `handleEviction`, `updateToken` | cancellation at any await, delayed and queued restarts, late replies | exactly the last stop decides whether the loop comes back; an evicted replica comes back as standby | ReplicaLifecycle |
| Shutdown (`project-agent.ts`) | memoized promise, `excludedCommandIds` | `shutdown`, `doShutdown`, `waitForDrain`, reboot, update, Docker rebuild | a command that awaits the shutdown that awaits commands | the slot is released when nothing runs; it ends; nothing restarts after it | ReplicaLifecycle |
| Heartbeat, connection (`agent-transport.ts`, `base-websocket.ts`) | `heartbeatTimer`, socket, `subscriber` | `startHeartbeat`, `startSubscriptionMode`, `stopTransport`, `connect` | replies and acknowledgements after `stop()` | standby has no transport; a failed connection is tried again | ReplicaLifecycle |
| Worker processes (`child-process-manager.ts`, `project-worker.ts`) | `processes`, `restartTimers`, `stopping`, each worker's agent | `forkProject`, `stopProject`, `stopAll`, `sendTokenUpdate`, `handleChildExit`, the worker's messages | exit, message and timer in any order, awaits of up to 310 s | one managed worker per project, bounded crash loops, none left behind | WorkerPool |
| config.json watcher (`config-watcher.ts`, `token-watcher.ts`) | `currentProjects` | poll | changes during restarts and stops | every worker gets the last token | WorkerPool |
| Docker supervisor (`docker/docker-supervisor.ts`, `update-handler.ts`, `docker-runner.ts`, `project-image-builder.ts`) | `handles`, `updating`, marker and hash files, images | `spawnProject`, close handler, `rebuildAndRestart`, `installUpdateAndRestart`, `stopAll`, `shutdown` | builds that take minutes, stops for updates, crashes between files | one owner per project; an update waits for containers; a customization is built | DockerSupervisor |
| Auto-updater (`auto-updater.ts`, `update-checker.ts`) | timer, `updating` | check, install, re-exec | stops containers behind the supervisor's back | an update ends in the new version | DockerSupervisor (its effect on the host) |
| Web socket connections (`base-websocket.ts`, `ws-reconnect.ts`) | `ws`, `closed`, the heartbeat's interval and counts, sleeping retries | `connect`, `disconnect`, error, close, ping and pong, `attemptReconnect` | error, close and timers of old sockets in any order; peers that are silent | one connection or one attempt; a silent peer is noticed, a healthy one kept | AgentSocket, AgentLink |
| AppSync subscription (`appsync-subscriber.ts`, `startSubscriptionMode`) | acknowledged, failures, keep-alive timer, subscriptions | connect, subscribe, acknowledge, list pending commands | what is assigned while nobody is subscribed | subscribed again after every reconnection; what an outage hid is listed | AppSyncLink (its first `connect()` also in ReplicaLifecycle) |
| Terminal sessions (`terminal/`) | session table, grace timers, exit listeners | open, resume, close, kill tmux session, grace expiry | an exit is reported after the kill; ids are used again; every close event arms timers | no PTY outside the table; timers exactly for sessions out of use | TerminalSessions |
| VS Code tunnel (`vscode/`) | server object and its process, port, idle timer; proxied sockets and requests | start, stop, reuse, forward, open and close sockets | start() awaits a port and health while messages are handled; streams of a dead server | everyone who asks for the editor is answered, and the answer for a page begins; when the tunnel is over no code-server and no socket to one is left | CodeServerTunnel |
| Browser sessions (`mcp/tools/browser/`, `vscode-tunnel-websocket.ts`) | table of sessions, each with its Chromium, file input, idle timer | open, resume, navigate, tool calls, choose a file, close, sweep at the end | every operation awaits a browser that another may be closing or launching | no Chromium out of reach; a file that is given reaches a page; nothing runs on after the connection | BrowserSessions |
| Chat execution (`commands/chat-executor.ts`, the runners, `shared-chat-utils.ts`) | modes and attempts, the CLI process, timers, cancellation, files, the chunk sender's buffer and chain | start, stream, call tools, time out, cancel, retry with another mode, end | time-out, cancellation and end of a process race; chunks go by several ways; a last chunk or the reply to it is lost | a success means that the web client was told so; one answer; no file outlives its attempt; it ends | ChatExecution, ChatModes |
| E2E tests (`commands/e2e-*`, `browser/playwright-*`) | status of the execution, the Playwright process and its timers, the report, screenshots | run in three modes, report steps, fix a script | signals that are not heeded, reports cut in two, indices that drift apart | "passed" is earned, a screenshot belongs to its step, nothing is left open, a run with a limit ends | E2eTest |
| Server setup (`server-setup/`) | staged files, keys, the playbook process, progress file and offset, requests and their repetitions, declaration of a restart | check tasks, stage, run, tail, stop, declare, clean up | the playbook replaces the agent that runs it; the last delivery beside the timer's; replies that are lost; a stop before the process | progress arrives whole and first arrives in order; a restart is announced, or a notice of it tried; a stop is heeded; keys are removed; it ends | ServerSetup, TaskGuard |
| Configuration sync (`agent-config-sync.ts`, `project-config-sync.ts`, `shared-file-mounts.ts`, `ssh-config-setup.ts`) | hash and configuration in memory, cached file, placed files and their record, SSH files | sync, apply, place and remove, debounce | syncs beside each other, answers in any order, crashes between file and record | the last configuration is used; its files are placed, kept and recorded, or a warning says not | ConfigSync |
| Alert processing (`alert-processor.ts`) | `inFlight` per object; status on the server | push, poll, recover stuck ones, process | several objects, requests that fail in the middle | every alert is settled | AlertProcessing |
| Repository sync (`repo-sync.ts`) | clone, branch, temporary keys | clone, fetch, check out, reset | two syncs of one clone, changes of a chat, a killed git | a sync that reports success leaves the tree of its branch, and not an old one | RepoSync |
| Login data of the Claude CLI (`utils/claude-json-oauth-sync.ts`, `utils/claude-config-validator.ts`) | file, its backup, lock file and its age | check and mend; take the lock, steal it, write, give it back | owners that die or are slow, a file that is mounted alone, a check under no lock | the user's data is kept, and the CLI finds its keys | ClaudeJson |
| Credential files (`aws-profile.ts`, `git-credential-setup.ts`, `mcp/config-writer.ts`) | files per chat, an MCP configuration per project | write, remove, sweep | a kill between any two steps | the orphans of a killed agent go, the files of a running chat stay | CommandFiles |
| Configuration store (`config-manager.ts`, `utils/atomic-write.ts`, `auth-server.ts`) | config.json, one temporary name, a login's callback | load, migrate, change, replace | a kill between any two steps; writers share a name | a change that was confirmed is kept; a command tells what it did | ConfigStore |
| Process identity (`pid-manager.ts`, `commands/stop-agent.ts`, `agent-runner.ts`) | agent.pid | check and write at a start, remove at the end, stop | a record that outlives its process, pids used again, containers of one name | whoever serves is recorded, and nobody is locked out by a dead record | PidFile |
| Database tunnels (`mcp/tools/db-*`) | SSH connection, listener, AWS CLI as a child | open, probe, query, close | failures at every step, a port that another takes | a query reaches its own database, and its tunnel is closed | DbTunnel |

## 2. The modules

Every action is what the code does between two awaits (or between two events of
another process). Definitions keep the names of the functions they stand for;
`map` in PROJECT.json gives file and lines of each. Operators called "Mutant of
X" are variants of X with a plausible bug: no module uses them, they serve to
show that the properties notice the difference.

Modules that do not touch one another are explored side by side by one instance
where they are small: `MCSync` has ConfigSync, AlertProcessing and RepoSync,
`MCHost` has TerminalSessions, E2eTest, ClaudeJson, CommandFiles, ConfigStore,
PidFile and DbTunnel. The variable `part` says which of them a behaviour is of;
it is chosen in the initial state and never changes, so that each part has the
states it would have alone. What composes for a reason does so by EXTENDS:
AppSyncLink is built on AgentSocket; TerminalSessions, CodeServerTunnel and
BrowserSessions on AgentLink, which AgentSocket implements; ChatExecution on
ChatModes; ServerSetup on TaskGuard. CommandDelivery implements CommandLedger.

### 2.1 CommandDelivery and CommandLedger

*State.* The server (`srvOwner`, `srvGen`, `srvResult`): to whom a command is
assigned, under which generation, and its accepted result. Per process: where
its register loop is as far as it matters here (`status`, `draining`,
`recovered`, `timer`, `inst`), the rest of the list a sweep has fetched (`todo`),
the running `processCommand` calls (`tasks`), `inFlightCommands`, the client's
`assignmentGenerations` (`genOf`), the resend passes (`flush`: one of the
registration, one of the timer). Per host: `disk`, the pending-results directory.

*Actions.* `Notify`, `CheckPending`, `Deliver` reach `Start`, the entry of
`processCommand`; `GetGranted`/`GetConflict`/`GetFails`, `ExecDone` (executed and
saved), `PostArrives`/`PostRetried`/`PostGivesUp`, `PostReturns` (remove, clear)
are its stretches. `FlushLoad`, `FlushNext`, `FlushArrives`/`FlushRetried`/
`FlushGivesUp`, `FlushReturns` are `submitPendingResults`, `Age` the clock of a
file. `Register`, `RecoveryDone`, `Stop`, `Drain`, `Exit`, `Crash`, `Restart` are
the life of the process. `Revoke` and `TimeOut` are the server's.

*External.* The server's rules - claim on GET, 409 for another owner, fencing of
a result by (instance, generation), an unfenced write only for an unassigned
command, duplicates ignored, listed until settled - are what the comments and
calls of `api-client.ts` and `agent-transport.ts` rely on.

*CommandLedger* is the same seen from the server's side: assign, withdraw,
complete, settle, with no processes, files or messages. `ImplementsLedger`
states that CommandDelivery refines it (the assignment and result variables map
to themselves, the finished executions lose the note of whether they were saved).

### 2.2 ReplicaLifecycle

*State.* `life` is the register loop with all that hangs on it: its await
(`loop`), `registerLoopCancelled`, `stopGeneration` (`gen`), the calls of
`restartRegisterLoop` that await the loop (`queue`) or their own delay
(`delays`), and whom `standbyWakeup` wakes (`wake`). Then `nextAdmissionMode`,
`slotHeld`, the outstanding request (`asked`, `answer`), the AppSync socket
(`sock`), the heartbeat interval (`hb`; `leaked` for one the state has
forgotten), heartbeat requests (`beats`), the debounced sync, the shutdown
(`phase`, `timedOut`, `running`, `excluded`, `awaiting`) and, of the server,
`seat`. `told` is history: what the server last told this replica.

*Actions.* Loop steps (`Register` .. `Backoff`, `DelayOver`), socket steps
(`Opened`, `ConnectFails`, `Reconnects`, `Acked`, `Closed`), heartbeats and
eviction, `UpdateToken`, commands (`StartCommand`, `Reboot`, `Rebuild`,
`EndCommand`), `Signal`, syncs, the drain (`Drained`, `Released`), and the server
(`Admit`, `Evict`, `BeatAnswered`). Continuations that run in the same microtask
queue drain (a woken wait, the restart that awaits the loop) are part of the step
that triggers them: `Ended`, `Started`, `Cancelled` and `Restarted` are functions
of `life` that compose.

Details a reader may trip over: `ws` reports an error when a socket is closed in
its handshake, so `stop()` then rejects `connect()` (`Disconnected`), while an
open unacknowledged socket settles nothing; the rest of `startServices` after
`connection_ack`, the reset of `nextAdmissionMode` included, runs even when the
loop was cancelled; the heartbeat interval (60 s) exceeds a request's time-out
(10 s), so late replies need slow or retried requests (fault `late_reply`).

### 2.3 WorkerPool

*State.* `config` (config.json) and `known` (what the watcher has seen), the
runner, `processes` and `restartTimers` of ChildProcessManager (`procs`,
`managed`, `listed`; `timers` are the timers themselves, which `restartTimers`
may have forgotten), the awaits of `stopProject` and `stopAll` (`stops`,
`waits`), and of every worker process its inbox, its agent's token and what it
is doing. `tries` is history: forks in a row without a start.

*Actions.* `Poll` is the part of a tick that concerns one project, with
`forkProject`, `sendTokenUpdate` or `stopProject` inside; `ExitSeen` the exit
event with everyone who listens to it (`handleChildExit` before or after the
continuation of `stopProject`); `TimerFires`, `StartedSeen`, `StopTimeout`,
`StopAll`, `RunnerEnds`, `RunnerCrashes`; `Edit` is the outside world; the rest
is the worker: reading its inbox, `initSentry`, `handleStart`,
`handleGracefulExit`, commands, crashes, the disconnect when the runner dies.

One change per project is pending at a time; the projects the runner starts with
take the path of `Poll`; a worker is killed for a time-out only when it does not
exit (`wedged`) or had exited before (its exit is over, so the drain's 300 s lie
within the 310 s of the wait). `handleStart` awaits `initSentry` whether or not there
is a DSN, and messages that are read together are handled before what follows an
await: a token update or a shutdown that comes right behind `start` finds no agent
(`missed` notes such an update; TokenReaches in 4). An agent that is started after the
shutdown message gets no work. `update_complete` is not
modelled: the worker sends it outside Docker only and the handler is set inside
Docker only.

### 2.4 DockerSupervisor

*State.* The host process (`host`, its `version`, the `installed` one,
`updating`), the update a container asked for (`update`), the updater of the host
(`auto`), whom `stopAll` awaits (`awaits`), `closing`, `handles`, projects whose
image is being built (`building`); per project the container, the files of its
directory (`disk`: marker, Dockerfile, hash, docker-built-hash, error), its images
by version, and the customization the server wants.

*Actions.* `BuildEnds`, `UpdateRequested`, `RestartRequested`, `LastCloses`,
`CloseSeen` are the close handler and what follows a build; `Install`, `ReExec`,
`AutoUpdate`, `Signal`, `ShutdownEnds`, `HostCrashes`, `HostStarts` the host;
`CommandEnds`, `ConfigSync`, `Leaves`, `Stopped`, `Exits` the agents in the
containers, with `Written` for the files in the order they are written.

`docker stop` has 320 s and the shutdown timer 330 s, so that the timer only
gives up on logs. A container that ends by itself is not brought back while
others run (that is the code's behaviour, not the model's). Not modelled: a
failed copy of the Dockerfile, and a Dockerfile that someone deletes by hand.
`CustomizationKept` excepts a directory whose last build found a Dockerfile whose hash
had not been written (`torn`, which the code does not keep): the image follows the
file and docker-built-hash follows the hash, until the next sync that changes
something. To compare the two files instead would not do: when the customization goes
back to the one in the hash and the host is killed before the next build, the files
agree and the image is still the other one.

### 2.5 AgentSocket and AgentLink

*State.* `ws`, `closed` (with `used` and `stopped` for the calls of `connect`
and `disconnect`), the sockets that exist (`sock`: handshake, open, closing, the
code its close event will carry, whether the peer still answers), the number of
calls of `attemptReconnect` that sleep, and the heartbeat (`beat`). Nothing in
the state forbids a second socket or a second sleeper: that there is none is
`OneConnection`. `pings`, the pings since the last pong, is what the property on
the heartbeat compares its counters with.

*Actions.* `Connect`, `WakeUp` (after the sleep), `Opened`, `Refused` (what
`error` does), `Closed` (`close`: the heartbeat, a rejection for good, the next
retry), `Disconnect`, `Tick`, `Pong`; `Fault` is the network's. `error` does not
reject the promise of an attempt, since `this.ws` is set before it; the `close`
that follows is the only retry.

*AgentLink* is what a subclass sees through its hooks: down, up, ending, over.
AgentSocket implements it (`ImplementsLink`), TerminalSessions is built on it.
`heartbeatAlive` starts as false, and the first tick only pings (262).

*Left out.* Cookies, the lengths of the delays, payloads; the limit on the
number of attempts, which every user of the class sets to unlimited.

### 2.6 AppSyncLink

Extends AgentSocket with the subscriber and with `startSubscriptionMode`: whether
the present connection is acknowledged, the count of failures in a row and
whether their threshold was reported, the keep-alive timer, the subscription of
each socket as the server sees it (`sub`), notifications on their way, lists of
pending commands under way (`scans`), and of each command whether it was assigned
and whether the agent knows of it. `Ack` is the handler of `connection_ack` with
what follows in the same microtasks: the rest of `startSubscriptionMode`, or the
resubscription and the callback of a reconnection. *External*: the server takes a
subscription up some time after `start`, and notifies a command once, to whoever
is subscribed at that moment. The alerts that are listed with a reconnection and
the contents of notifications are left out.

### 2.7 TerminalSessions

*State.* The manager's `table` and `grace` timers, the PTYs (`pty`: running,
ended, killed; the id, the tmux session and the user they were opened for), the
tmux sessions a `kill-session` is under way for, and the ids in use on the
present connection. A PTY stays until its exit event is handled; that is when the
manager cleans up, by id.

*Actions.* `Open`, `Resume`, `Close`, `TmuxKillSession` are the handlers of
`terminal-websocket.ts` that change the table; `ExitSeen`, `GraceExpires`, `Tick`
the events; `LinkDown`, `LinkEnded`, `LinkRejected`, `LinkStopped` are AgentLink's
steps with the hook each calls (`closeAllGracefully` or `closeAll`). `LinkDown`
includes failed attempts, which have a close event of their own.

`EarlyReopen` says whether the server may open an id again before it has seen the
exit of the shell before; the properties are for FALSE, ReopenedIsKept (4) shows
what happens otherwise. tmux is taken to be there, and spawning to succeed. Input,
sizes, panes, the listing of tmux sessions, scrollback, environment and files are
left out.

### 2.8 CodeServerTunnel

*State.* The `VsCodeServer` objects (`srv`: whether start() awaits its port or
the health check, is running or stopped, and the process behind it), the one that
`vsCodeServer` names (`cur`) and whether it was started with what the web client
has set since (`fresh`), the proxy, the port forwards, the sockets that `ws_frame`
opened (`sub`), and what each user waits for (`ask`).

*Actions.* `VsCodeOpen`, `HttpRequest`, `PortForwardOpen`/`Close`, `SubOpen`/`Close`,
`VsCodeClose`, `EnvChanges` are messages of the web; `PortFound`, `Ready`,
`StartTimesOut`, `Listens`, `Exits`, `Idle`, `HttpAnswered`, `SubEvent` what they
await; `LinkEvent` is AgentLink's step with the hook it calls. `HttpBegins` is the
headers of an answer: `proxyHttpRequest` awaits its end, with nothing that tells it when
the connection breaks off amid the answer, and gives a silent connection a timeout only
as long as there is one; so an answer that has begun may or may not be passed on. The health check
asks whoever listens on the port, as in the code. `Collected` forgets an object
that nothing refers to.

### 2.9 BrowserSessions

*State.* The manager's `table`, the session objects (`ses`: open, closing, closed;
whether it has a browser and a page; its `pendingFileChooser`, `input`, and whether
the page that waits for a file, `asks`, is still there), the handlers under way (`req`), the
files the web client is asked for
(`offer`), and what `closeAll()` has still to close (`sweep`).

*Actions.* `Open`, `Resume`, `Navigate`, `Tool`, `Close`, `SetFile`, `E2eStart` are
the handlers to their first await, `Resumed`, `Launched`, `Navigated`, `Accepted`,
`Closed` what they do after; `CloseDone`, `SweepNext`, `Idle`, `FileChooser` the
rest. `Launched` has three ends: a browser with its page, none, and a browser that gives no
context or no page (fault `half`), which the next `getPage()` replaces. `PageLeft` is a page
that goes in whatever way: no path of the code forgets its chooser or the offer then. A session
that two races of `getPage()` can harm bears `raced`;
`LostOnlyInRaces` says that nothing else loses a Chromium. `OfferTakesFile`
says that a file given in answer to an offer gets to a page: not that it is the page that
asked, which is OfferIsOfPage (4).

### 2.10 ChatModes and ChatExecution

ChatModes translates the choice of modes: which the settings name, which the
machine has, and the candidates that are tried in turn. `AllPlans` of the MC
module is the set of lists that some setting leads to.

*State* of ChatExecution: the remaining `modes`, the attempt, where the command is
(`at`), the CLI process and the pending SIGKILL, the activity timer, tools it
waits for, whether `ProcessManager` knows it, its files, and the chunk sender
(`out`): the text that is buffered, the promise chain of texts (`queue`), what is
being posted, the numbers of chunks. `shown` is what the web client was told at
last, `why` how the last attempt ended.

*Actions.* The preparation (`AwsCredentials`, `GitCredentials`, `McpConfig`,
`Attachments`, `ApiStart`, each of which may fail), the output of the three kinds
of runner (`ClaudeText`, `CodexText`, `ApiText`, tools and others), `Timeout`,
`Cancel`, `ForceKill`, the exits and how their code is judged (`Verdict`), and the
sender: `FlushTimer`, `TextSent`, `OtherSent`, `LastSent`, of which each may fail; a last chunk that
failed may have arrived all the same, at once or later (`Untold`). The modules are about the
default setting: with `CHAT_CHUNK_BATCH_ENABLED=false` text is posted like other chunks,
unordered.

### 2.11 E2eTest

*State.* The status last reported, what is on disk and in the browser manager,
the process with its timer (`run`, `grace`, `force`), the report (`json`: torn when
the process is killed while it writes), and the test itself as Playwright runs
it: the steps of its body and of its hooks, the counter of the preloaded module
(`next`) and the screenshots with the index each carries.

*Actions.* The steps of the three modes of `e2e-test-executor.ts`, those of
`spawnPlaywright` (`Settle`, `PipesClosed`, `TimedOut`, `SigKill`, `ForceResolve`), and
the script (`BodyStep`, `SkipStep`, `HookStep`, `FailsOutside`). `Result` is
`parsePlaywrightJsonOutput`: the assignment of screenshots to steps with its guard
against hooks.

### 2.12 TaskGuard and ServerSetup

TaskGuard are pure operators: which module a task may name under each route, which
roles, and which files a list of tasks distributes. Lists of names are classes.

*State* of ServerSetup: where the run is (`stage`), its caller, the files it
stages, the directory with the keys (`tmp`), the child and how it was ended, the
stop (`asked`, `pm`), the progress file (`written`, `offset`), the delivery that
is under way (`del`) and what has reached the server, and the hand-shake of a role
that replaces the agent (`marker`, `ack`, `role`, `applied`, and `noticed`, whether the
failure could be reported). A batch goes in requests of `PerRequest` events, each tried
`Tries` times: the server may take one whatever the agent hears of it, and a `slow` server
one that has been given up (`stray`).

*Actions.* The steps up to the playbook, each of which may fail (`Before`), the
child (`WriteEvent`, `Exits`, `RoleAsks`, `RoleDeploys`), the tailer (`TailerTick`,
`Deliver`, `Drain`), `TimeUp` and the stop, and the end (`Outcome`, `Cleanup`,
`Submit`). `Replaced` is the agent that is gone, with the child: after it there is only
the sweep of the next start.

### 2.13 ConfigSync, AlertProcessing, RepoSync

ConfigSync has the syncs under way (`sync`), what is in memory (`hash`, `conf`), the
cache, the chain of those that place files, each place's content and whether the
agent put it there (`own`), the record (`manifest`), the warnings and the SSH files.
`performConfigSync`, `TimerFires` and `loadCachedConfig` begin one, `Work` takes it to
its next await; `Restart` is a crash. A configuration `says` what the shared files are or
not: one from the cache does not, nor does an answer of a server that could not find out or
is too old; then nothing is placed or removed, without a warning. A stale file that cannot
be removed stays in the record; one that is placed and cannot be read back does not get
there (fault `unhashed`).

AlertProcessing has the status of each alert on the server, the issue that is open,
and the runs, each with its list and its place in `processAlert`. *External*: the
server accepts a status for an alert whatever its status was, and opens one issue
per alarm.

RepoSync has the versions of each branch at the server, in the clone and checked
out, changes of chats, and the jobs with the git command each runs. *External*:
git refuses to check out over changes that would be lost; `reset --hard` loses them. A
clone is one step: that a second sync may see the `.git` of one that still runs
(`repo-sync.ts`:151-153) and fetch into it is left out.

### 2.14 ClaudeJson, CommandFiles, ConfigStore, PidFile, DbTunnel

ClaudeJson: the agents that check the file (`ensureClaudeJsonIntegrity`: a whole one is
copied to the backup, a broken one is cut and written from it), then try to take the lock
file, read, write and give it back, or die; the lock's age; the file on a disk (replaced) or
mounted alone (written in place). The check takes no lock and always writes in place.

CommandFiles: the files of each chat, in the order they are written and removed;
a kill; the sweeps of the next start and of the heartbeat.

ConfigStore: files as the kernel sees them. A writer loads, changes, loads again,
creates the temporary file (whose name all share), writes, renames; it may be
killed anywhere. Contents are the registered projects and a flag. `ok` is what the
command has told its user.

PidFile: processes with host name, pid and start time; the record; the `stop`
command with its wait. In a container the pid is always the same.

DbTunnel: queries, each with the way it takes (none, SSH, SSM), the SSH connection,
the local listener, the child's port; through whose tunnel it reaches a database.

## 3. The runs

| run | configuration (module) | asks | shows |
| --- | --- | --- | --- |
| delivery | `Delivery.cfg` (MCCommandDelivery) | CallsKeptApart, ResultsKept, ImplementsLedger, DeliveryProgresses | Two replicas in pods of their own compete for one command through lost replies, errors, revoked leases, time-outs, unwritable files, stops, drains, a crash and a restart: no process runs a command twice at once or under a foreign generation, a result is kept until it is settled and not resent beside its own submit, the server accepts only what the assignment ledger allows, and results arrive, unless the server keeps the process in standby, and drains end. |
| browser | `Browser.cfg` (MCBrowserSessions) | BrowserKept, NoneLeft | A session id, two session objects and two handlers at a time, any order of opens, resumes, closes, tool calls, files, pages that are left and an E2E test: a Chromium is lost only in the two races of getPage(), what the web client gives in answer to an offer is handed to a page, and nothing runs on after the connection is over. |
| chat | `Chat.cfg` (MCChatExecution) | ResultTellsDelivery, AnswerWhole, ChatEnds | A chat with every list of modes that some setting leads to, three lines of output in an attempt, any end of the CLI, timeouts, a cancellation, lost chunks and lost replies: a success means that the web client was told so, an answer is given once, files do not outlive their attempt, no text comes after the last chunk, and the command ends. |
| docker | `Docker.cfg` (MCDockerSupervisor) | HandedOver, ComesBack, CustomizationKept | Two projects whose containers reboot, update, crash and are customized while the host builds, updates, is stopped, killed and started again: no project has two owners, the host waits for the containers it stops, a restarted container comes back, an agent with nothing left to rebuild runs in the image of its customization, and a customization gets there. |
| host | `Host.cfg` (MCHost) | SessionsKept, ClaudeJsonKept, TestKept, TunnelsKept, FilesKept, StoreKept, PidFileTrue, HostSettles | Seven parts of what an agent does with the files and processes of its host, each explored from its own start: web shells through lost connections and the grace window; an E2E test in every mode; three agents that check and write one ~/.claude.json; the files of two chats with a kill and the sweeps; two writers of config.json one after the other, killed anywhere; three starts of an agent and a stop; two database tunnels. What is told of each is so, nothing is left behind, and everything that was begun comes to its end. |
| lifecycle | `Lifecycle.cfg` (MCReplicaLifecycle) | OneLiveRestart, ShutdownSound, StandbyKept, LifeProgresses | Three stops in every order of token updates, evictions, late and lost replies, failing and unacknowledged connections, config changes and a drain with ordinary, rebooting and syncing commands: one restart is live, a shutdown releases an idle slot and is final, a standby replica is quiet and an evicted one comes back as standby, and under fairness restarts land and shutdowns end. |
| connect_stuck | `ConnectStuck.cfg` (MCReplicaLifecycle) | ConnectFailureRetried, violated | A first AppSync connection that fails leaves the register loop waiting for ever. |
| pool | `Pool.cfg` (MCWorkerPool) | PoolSound, PoolProgresses, TokenFollows | A project through crashes, failed starts, removal, a wedged worker, a change of its token, a stop and a crash of the runner: one worker at a time, managed as long as it serves, a bounded number of restarts, nobody left by the runner; a crashed worker is replaced, a stop ends, and a new token arrives at a worker that has its agent. |
| setup | `Setup.cfg` (MCServerSetup) | ProgressComplete, SetupSound, SetupEnds | Six recipes under the three callers, every step failing, a stop and the time limit at any moment, three progress events in requests of two that are tried twice, and a role that deploys the agent that runs it: progress arrives whole and in order up to repeated requests, a restart is announced or its notice tried, an early stop is not lost, files are staged and keys removed, and the setup ends. |
| subscription | `Subscription.cfg` (MCAppSyncLink) | SocketSound, GoneIsNoticed, ImplementsLink, LinkRecovers | The AppSync link over a socket with refused handshakes, drops and silent peers: one connection at a time, hung up on by its heartbeat only when the peer is silent and always then, seen by its users as the abstract link; it is subscribed again after each outage, and a command assigned meanwhile is found by the list after it. |
| sync | `Sync.cfg` (MCSync) | MountsKept, ConfigFollows, AlertsEnd, TreeAsReported | Three parts that keep an agent in step with the server, each explored from its own start: two syncs of the configuration beside each other with an outage or an answer that says nothing of the files, a restart and a damaged record; two alerts with two runs, a push, a lost request or a kill; two syncs of a repository with a kill. Shared files are placed, kept and recorded, the last configuration is used, every alert is settled, and a repository is what its sync reports. |
| tunnel | `Tunnel.cfg` (MCCodeServerTunnel) | AnswersKept, NoneLeft | One user, two code-server objects, a port forward and a socket through opens, replacements, deaths, a missing binary and a busy port: whoever asks for the editor is answered and every request gets an answer that at least begins, and when the tunnel is over no code-server and no socket to one is left. |

Many of the properties are conjunctions of named parts, each stated and commented
on its own; a run asks for the conjunction.

| property | parts |
| --- | --- |
| CallsKeptApart | the types; OneRunPerProcess: one call per process and command; OwnGeneration: it acts under the generation of its own assignment |
| ResultsKept | FirstRunKept: a result on the disk of a standing assignment is not removed before it is settled; FlushAvoidsMainPath: no resend pass posts what a call is posting |
| DeliveryProgresses | ResultDelivered: a saved result is settled, unless its process stays in standby for good; DrainEnds |
| ShutdownSound | the types; ReleasedIdle: the slot is released when nothing runs; ShutdownIsFinal: nothing restarts after it |
| StandbyKept | no transport and no heartbeat in standby; ReturnsAsStandby: an evicted replica does not ask as initial |
| LifeProgresses | RestartNotLost, ShutdownEnds |
| PoolSound | the types; Managed: who serves is known; EndsAlone: the runner leaves nobody; CrashLoopBounded |
| PoolProgresses | Supervised: a crashed worker is replaced; StopEnds |
| HandedOver | the types; OneOwner; StopsFirst: the host goes after the containers it stops |
| ComesBack | UpdateReturns, RestartReturns; CustomizationFollows: a customization reaches its container, also when builds fail |
| CustomizationKept | an agent with nothing left to rebuild runs in the image of its customization |
| SocketSound | the types; OneConnection; HangsUpOnSilence |
| LinkRecovers | the types; Resubscribed; OutageCovered |
| SessionsKept | the types; ShellTracked: a shell that runs is in the table; SessionsTimed: timers exactly for sessions out of use |
| AnswersKept | the types; EveryoneAnswered: for the editor, and up to the headers for a page |
| BrowserKept | the types; LostOnlyInRaces; OfferTakesFile: a file given in answer to an offer reaches a page |
| AnswerWhole | the types; AnsweredOnce; TextBeforeLast; FilesRemoved |
| TestKept | the types; ShotsBelong; VerdictIsEarned; NothingLeftOpen |
| ProgressComplete | InOrder: first arrivals are in order, and repetitions within one request; AllReported |
| SetupSound | the types; StopReaches; RestartAnnounced: declared, or a notice of the failure tried; FilesKept |
| MountsKept | the types; OwnTracked; FilesFollow: as configured, if the configuration says how, or a warning |
| FilesKept | the types; FilesStay |
| ClaudeJsonKept | the types; UserDataKept; ReadyFindsKeys |
| StoreKept | the types; NothingLost; TellsTruth |
| PidFileTrue | the types; ServingIsRecorded; no start is refused when no agent lives |
| TunnelsKept | the types; OwnTunnelOnly, NoTunnelLeft |
| HostSettles | ShellsEnd; E2eEnds; OrphansGo; TunnelSettles |

Every property of a passing run has a mutant: a change of one mapped definition
under which TLC finds that property violated by the run's own configuration.

### 3.1 Bounds

Faults are enumerated by kind in every module, and a configuration names the kinds
it lets happen, so that a property that needs the absence of one says so. What
happens with the others is in 4. `Max...` constants cap what is unbounded.

* CommandDelivery: `MaxFaults` 2 (a lost reply or an unwritable file, then a crash
  or a revocation), `MaxGen` 2 (an assignment and the one that replaces it),
  `MaxInst` 2 (before and after a restart), two replicas with a disk each, one
  command and two places for calls on it: commands interact only through the
  shared lists, never with one another. A second worker on the same disk is in 4.
* ReplicaLifecycle: `MaxStops` 3 (one stop superseded by a second while a third
  arrives), one heartbeat outstanding, one command of each kind. The proofs of 5
  hold for any number.
* WorkerPool: `MaxRestarts` 1 for the code's 5: the counter is compared and
  reset, its value has no other effect. One project - projects share nothing but
  the end of the runner - and three processes: a worker, its replacement and one
  more; liveness properties except the state in which all have been used.
* DockerSupervisor: four faults, two customizations (plus none), one newer
  version, two projects (last container against one that builds).
* AgentSocket, AppSyncLink: two sockets (a third could only come after a second,
  which `OneConnection` already excludes), three missed pings as in the code, a
  threshold of two, three lists under way, two commands.
  Retries are unbounded in the model as they are in the code.
* TerminalSessions: two ids, three PTYs (one per id and a killed one whose exit is
  still to come), one user beside the anonymous one, a grace window of two ticks
  (armed, due).
* CodeServerTunnel: two server objects (the present one and the one it replaces),
  one user, one forward, one socket. BrowserSessions: one id, the object it
  names and the one that is closing, two handlers that meet: every race of the code is
  between a handler and one other step.
* ChatExecution: every list of modes, three lines of output in an attempt (more
  than the buffer, the chain and the request under way hold at a time), two kinds
  of file. The attempts are those of the code.
* ServerSetup: six recipes (a role with files, one that deploys the agent, loose
  tasks, a foreign one, a playbook, none), three events, chunks of three
  and requests of two that are tried twice: a batch of two requests, each repeated, beside
  another. With chunks of one, that is with more events than one read takes, see 4.
* E2eTest: tests of up to two steps and two steps of hooks: enough for an index
  that is off by one in either direction.
* ConfigSync: two syncs, two versions (a file that appears and goes), an outage or a
  half answer.
  AlertProcessing: an alarm and its end, two runs. RepoSync: two branches, two
  syncs, two versions.
* ClaudeJson: three agents (owner, thief, and one that finds the lock of the
  thief). CommandFiles: two chats. ConfigStore: two writers, two projects, a kill.
  PidFile: three starts (the one that left the record, and two that read it), two pids,
  two hosts. DbTunnel: two queries, two ports.

### 3.2 Fairness

Weak fairness for what the runtime guarantees: timers fire, a request returns or
times out (`RetryStrategy`, axios time-outs), an execution ends (activity time-outs
and the server's limit), a message and an exit event reach a live process,
`docker build`, `npm install` and `docker stop` end, a supervised process is
started again, a process that was sent SIGKILL dies. None for what comes from
outside: notifications, token changes, admission of a replica in standby, evictions,
crashes, signals, customizations, users - and none for a drain that times out, nor for a CLI, a
playbook, Playwright or code-server to end by itself, nor for an answer that a proxied
request has begun to get. `Acked` is fair since a
socket that connects is acknowledged or fails (`ConnectFails`).

A child that is sent SIGTERM is taken to end unless the configuration says
otherwise (faults `deaf` of the CLI and of code-server, `stubborn` of a playbook):
what the code does about one that does not is in 4.

In AgentSocket and AppSyncLink a handshake is strongly fair: the network may
refuse any of them, but not all there will ever be; so are the acknowledgement and
the start of a subscription, which a dropped connection disables. Without it no
property on reconnection can hold. A handshake nobody answers (`swallow`) and a
refused subscription (`start_error`, `complete`) are left out of the passing run.
In AlertProcessing the two timers are strongly fair (a run finds a free place), in
CommandFiles the heartbeat is: an agent that has been started lives for long
enough to send one.

`CHECK_DEADLOCK FALSE` stands where the system stops for good: a replica that has
shut down, a runner that has ended, a command that has its result, a connection
that has been ended, an instance whose budget of events is used up.

## 4. Statements that do not hold

Where a comment, a README or a test states something the code does not do, or the
code does not do what a reader of it would expect, the statement is a property of
the MC module (or of the component's) with a counterexample. One is a run,
`ConnectStuck.cfg` (ConnectFailureRetried): agent-transport.ts:123-129 catches a failed
connect() and rethrows it, and project-agent.ts:820-824 counts on the retry of a
failed "AppSync connect". connect() rejects only while this.ws is unset, and doConnect
sets it (base-websocket.ts:247) before any event: after a failed first attempt the
socket reconnects by itself but the promise never settles. startServices waits for
ever, without subscription and without heartbeat.

The others are to be run by hand: take the configuration of the second column,
give the constants of the third the values there, and replace its INVARIANTS and
PROPERTIES by the statement. TLC ends each of them in a counterexample. Those that
name a property of a passing run show which fault that run leaves out.

| statement (module) | on | with | where | what it says, what happens |
| --- | --- | --- | --- | --- |
| PROPERTY NeverTwice (MCCommandDelivery) | `Delivery.cfg` | - | `agent-transport.ts:488` | "Never run the same command twice in this process." After a failed submit the command is released while its result is on the disk; a sweep starts it again. |
| PROPERTY RealResultKept (MCCommandDelivery) | `Delivery.cfg` | `Command = {c1, c2}`, `Proc = {p1}`, `Host = {h1}`, `HostOf <- SoloHostOf`, `Serves <- PairServes`, `MaxGen = 1`, `MaxInst = 1`, `Faults = {"error"}` | `agent-transport.ts:628` | A transport error must not "overwrite the pending file with {success:false}" (594-599). A failed fetch in such a second run does. |
| INVARIANT NoParallelResend (MCCommandDelivery) | `Delivery.cfg` | - | `pending-result-store.ts:273` | The guard is to keep a second pass over the same files from starting; a recovery pass runs beside an interval pass that outlived stop(). |
| PROPERTY StandbyStartsNothing (MCCommandDelivery) | `Delivery.cfg` | `Command = {c1, c2}`, `Proc = {p1}`, `Host = {h1}`, `HostOf <- SoloHostOf`, `Serves <- PairServes`, `MaxGen = 1`, `MaxInst = 1`, `Faults = {"stop"}` | `agent-transport.ts:445` | "a standby replica does no work" (project-agent.ts:302). A sweep goes on with the list that it has. |
| INVARIANT StandbyDoesNotResend (MCCommandDelivery) | `Delivery.cfg` | - | `project-agent.ts:786` | "a replica that drops to standby stops retrying". A stop() in the recovery pass comes before the timer is armed. |
| INVARIANT ResultsKept (CommandDelivery) | `Delivery.cfg` | `Faults = {"error", "limit"}` | `pending-result-store.ts:245` | A 4xx other than 401/403 is to mean that the command is gone; a resend throttled (429) at its last attempt deletes the result. |
| INVARIANT ResultsKept (CommandDelivery) | `Delivery.cfg` | `Host = {h1}`, `HostOf <- WorkerHostOf`, `Serves <- WorkerServes` | `project-agent.ts:773` | "Only the very first registration is guaranteed to have nothing in flight" (138): another worker of the machine has. |
| INVARIANT GrantNoted (MCReplicaLifecycle) | `Lifecycle.cfg` | - | `project-agent.ts:749` | slotHeld is to be set as soon as admission is accepted; a standby request accepted after the loop was cancelled is not noted, and the slot not released. |
| INVARIANT RejectedHoldsNothing (MCReplicaLifecycle) | `Lifecycle.cfg` | - | `project-agent.ts:743` | "a replica that was rejected/evicted holds nothing to release": a rejection does not clear slotHeld. |
| PROPERTY EvictedNeverInitial (MCReplicaLifecycle) | `Lifecycle.cfg` | - | `project-agent.ts:987` | "a replica that was evicted must NOT re-register as 'initial'" (102): one that learns of it while its loop is cancelled does. |
| PROPERTY RestartLands (MCReplicaLifecycle) | `Lifecycle.cfg` | - | `project-agent.ts:501` | "Waiting for the previous loop's promise guarantees the restart lands" (491): a stop() between open and connection_ack leaves a promise that never settles. |
| PROPERTY StandbyKept (ReplicaLifecycle) | `Lifecycle.cfg` | `Faults = {"token", "unacked", "late_ack"}` | `project-agent.ts:825` | "No transport is started while waiting" (863): a connection_ack that comes while the socket closes starts the heartbeat. |
| INVARIANT ParkedCanBeWoken (MCReplicaLifecycle) | `Lifecycle.cfg` | - | `project-agent.ts:942` | Cancelling is to wake a parked wait (271); the timer of a superseded restart has cleared the wakeup. |
| INVARIANT NoSyncWhileDraining (MCReplicaLifecycle) | `Lifecycle.cfg` | - | `agent-transport.ts:242` | Clearing the timer "closes that gap for the entire drain window" (project-agent.ts:393): a heartbeat arms it again. |
| PROPERTY RemovedStaysGone (MCWorkerPool) | `Pool.cfg` | - | `child-process-manager.ts:187` | After stopProject "fork should not be called again" (spec.ts:129): the exit listener restarts the worker. |
| INVARIANT PoolSound (WorkerPool) | `Pool.cfg` | `Faults = {"remove", "readd"}` | `child-process-manager.ts:187` | "Each project runs in its own forked child process" (README.md:132): registering a project again while its removal ends gives it two. |
| PROPERTY TokenReaches (MCWorkerPool) | `Pool.cfg` | `Faults = {}` | `project-worker.ts:108` | "the agent hot-reloads" (README.md:24): a token update that is read while `handleStart` awaits initSentry() - without a SENTRY_DSN one that came along with "start" - finds no agent and is dropped. |
| PROPERTY NoneLeftBehind (MCDockerSupervisor) | `Docker.cfg` | - | `docker/docker-supervisor.ts:266` | stopAll() is awaited lest there be "two live containers for the same project": one is started by a build that ends meanwhile. |
| PROPERTY EndsWithLast (MCDockerSupervisor) | `Docker.cfg` | - | `docker/docker-supervisor.ts:478` | "All containers have exited cleanly": a project that is being rebuilt has no handle. |
| PROPERTY HostUpdateReturns (MCDockerSupervisor) | `Docker.cfg` | `Faults = {"auto"}` | `docker/docker-runner.ts:185` | "reExecProcess() restarts this process" (284): the end of the last container ends it before. |
| INVARIANT CustomizationSurvives (MCDockerSupervisor) | `Docker.cfg` | - | `docker/docker-supervisor.ts:216` | The hash check "ensures containers always rebuild on startup" (agent-config-sync.ts:356): it does not look at the version. |
| INVARIANT ScanCoversGap (MCAppSyncLink) | `Subscription.cfg` | - | `agent-transport.ts:143` | The first list is to "Pick up commands assigned before this subscription existed"; it does not wait for start_ack. |
| PROPERTY RefusedIsMended (MCAppSyncLink) | `Subscription.cfg` | `LinkFaults = {"start_error"}` | `appsync-subscriber.ts:185` | "we just warn and keep reconnecting": the connection stays open without a subscription. |
| PROPERTY NeverGivesUp (MCAppSyncLink) | `Subscription.cfg` | `Faults = {"swallow"}` | `base-websocket.ts:190` | "the agent should never give up reconnecting" (constants.ts:585): a handshake without an answer is waited for. |
| INVARIANT RunningIsUp (CodeServerTunnel) | `Tunnel.cfg` | - | `vscode/vscode-server.ts:264` | start() waits for the health of its code-server; two starts at one time find the same port free and one answers for both. |
| INVARIANT ForwardsEnd (CodeServerTunnel) | `Tunnel.cfg` | - | `vscode/vscode-ws-proxy.ts:86` | closeAll() "closes all connections": not one that is still connecting. |
| PROPERTY StopKills (CodeServerTunnel) | `Tunnel.cfg` | `Faults = {"slow", "deaf"}` | `vscode/vscode-server.ts:181` | SIGKILL is promised after a delay; the process has been set to null by then. |
| PROPERTY NoneLeft (CodeServerTunnel) | `Tunnel.cfg` | `Faults = {"slow", "deaf"}` | `vscode/vscode-server.ts:160` | A code-server that is slow to answer is given up and left running. |
| PROPERTY PagesAnswered (MCCodeServerTunnel) | `Tunnel.cfg` | - | `vscode/vscode-http-proxy.ts:43` | proxyHttpRequest() passes a request on and "returns the response" (25-26): an answer that is cut after its headers, or never ends, is not told to the web, not even as an error. |
| INVARIANT NoDeadView (BrowserSessions) | `Browser.cfg` | - | `mcp/tools/browser/browser-session.ts:283` | close() during the launch of Chromium finds none; the closed session is shown and lives on. |
| INVARIANT ClosedIsClean (MCBrowserSessions) | `Browser.cfg` | - | `mcp/tools/browser/browser-session.ts:147` | close() is to "Close the browser and clean up resources" (281): during the launch it finds none, and the Chromium that then starts stays with a closed session. |
| INVARIANT BrowserKept (BrowserSessions) | `Browser.cfg` | `Faults = {"half"}` | `mcp/tools/browser/browser-session.ts:148` | When newContext() or newPage() fails the browser stays without a page; the next getPage() launches another, and the first is lost. |
| INVARIANT OfferIsOfPage (MCBrowserSessions) | `Browser.cfg` | - | `vscode/vscode-tunnel-websocket.ts:1311` | The chooser is to be "not left dangling on any path": goto(), goBack() and reload() leave it with the session, and the web client is asked for a file for a page that has gone. |
| INVARIANT InputNeverStuck (BrowserSessions) | `Browser.cfg` | `Faults = {"upload"}` | `vscode/vscode-tunnel-websocket.ts:1368` | "cancel the chooser so the remote input is not left pending": the second accept() does nothing. |
| PROPERTY NoneLeft (BrowserSessions) | `Browser.cfg` | `Faults = {"late"}` | `vscode/vscode-tunnel-websocket.ts:467` | Sessions are released "rather than leaving them running": one opened in the closing handshake stays. |
| PROPERTY CancelIsFinal (MCChatExecution) | `Chat.cfg` | - | `commands/chat-executor.ts:282` | "do not retry when cancelled": a CLI that was killed by the cancellation fails with its exit code, and is tried again. |
| INVARIANT ErrorIsFinal (MCChatExecution) | `Chat.cfg` | - | `commands/chat-executor.ts:268` | An error chunk completes the message; a second attempt follows it from index 0. |
| INVARIANT ToolNotCut (MCChatExecution) | `Chat.cfg` | - | `commands/claude-code-stream.ts:212` | While a tool runs the usual timeout is to be stopped; any line starts it again. |
| INVARIANT DoneDeliveredLast (MCChatExecution) | `Chat.cfg` | - | `commands/shared-chat-utils.ts:206` | Chunks other than text are to keep their order; done does not wait for their requests. |
| INVARIANT DoneIsSuccess (MCChatExecution) | `Chat.cfg` | - | `commands/shared-chat-utils.ts:263` | terminalDeliveryFailed is whether the delivery of done or error has failed (233): when only the reply is lost the web client has "done" and the command fails. |
| PROPERTY ChatEnds (ChatExecution) | `Chat.cfg` | `Faults = {"deaf"}` | `commands/cli-process-kill.ts:8` | SIGKILL "if the process is still alive": child.killed says that a signal was sent. |
| INVARIANT NothingReserved (MCServerSetup) | `Setup.cfg` | - | `commands/process-manager.ts:34` | A stop for a setup that has ended reserves its name for good. |
| INVARIANT AckMeansApplied (MCServerSetup) | `Setup.cfg` | `Faults = {"old"}` | `server-setup/self-restart-declaration.ts:166` | "declared" is to mean that the server has applied it; an old server ignores it. |
| INVARIANT NeverAhead (MCServerSetup) | `Setup.cfg` | - | `server-setup/self-restart-declaration.ts:148` | The role waits for the declaration, but not for ever. |
| INVARIANT RestartSeen (MCServerSetup) | `Setup.cfg` | - | `server-setup/self-restart-declaration.ts:117` | The notice "is what makes the failure *visible*" (86): when the API is what is broken both fail, and the agent is replaced without a trace. |
| INVARIANT ArrivesOnce (MCServerSetup) | `Setup.cfg` | - | `retry-strategy.ts:57` | A request for progress whose reply is lost is posted again: the server is told of its tasks twice. |
| INVARIANT ProgressComplete (ServerSetup) | `Setup.cfg` | `Faults = {"slow"}` | `api-client.ts:422` | "Sent sequentially so events cannot arrive out of order": one that was given up may be taken after a later one. |
| INVARIANT ProgressComplete (ServerSetup) | `Setup.cfg` | `Chunk = 1` | `server-setup/progress-tailer.ts:233` | The last delivery reads one chunk of at most 1 MiB. |
| PROPERTY SetupEnds (ServerSetup) | `Setup.cfg` | `Faults = {"stubborn"}` | `server-setup/server-setup-runner.ts:83` | "a hard wall-clock cap": one SIGTERM, which a child may ignore. |
| PROPERTY CacheIsTemporary (MCSync) | `Sync.cfg` | `Parts = {"config"}` | `agent-config-sync.ts:172` | Settings missing from the cache are to come "with the next successful network sync": equal hashes, nothing is applied. |
| INVARIANT SshFollows (MCSync) | `Sync.cfg` | `Parts = {"config"}` | `ssh-config-setup.ts:68` | The keys of a host that is configured no more stay; cleanupSshConfig (165) is called by nobody. |
| PROPERTY WarningStays (MCSync) | `Sync.cfg` | `Parts = {"config"}` | `agent-config-sync.ts:262` | A configuration from the cache places nothing, and clears the warning. |
| INVARIANT FilesOfWhole (MCSync) | `Sync.cfg` | `Parts = {"config"}` | `shared-file-mounts.ts:308` | Failures are "always reported" (278-279): an answer of the server that does not say what the files are leaves them as they were, without a warning. |
| INVARIANT OnceAtATime (MCSync) | `Sync.cfg` | `Parts = {"alert"}` | `alert-processor.ts:12` | inFlight is to keep push and poll apart; each has an object of its own. |
| PROPERTY NeverReopened (MCSync) | `Sync.cfg` | `Parts = {"alert"}` | `alert-processor.ts:57` | An alert that one run has processed is put back by another whose request failed. |
| PROPERTY NewerStaysOpen (MCSync) | `Sync.cfg` | `Parts = {"alert"}` | `alert-processor.ts:71` | The end of an alarm, taken late, resolves the issue of a later one. |
| INVARIANT KeysGo (MCSync) | `Sync.cfg` | `Parts = {"repo"}` | `repo-sync.ts:330` | The key of a sync that was killed stays in the temporary directory. |
| PROPERTY DirtyYields (MCSync) | `Sync.cfg` | `Parts = {"repo"}`, `RepoFaults = {"dirty"}` | `repo-sync.ts:242` | A checkout refused for changes in the tree is taken for a missing branch; the sync fails until somebody cleans up. |
| PROPERTY TreeAsReported (RepoSync) | `Sync.cfg` | `Parts = {"repo"}`, `RepoFaults = {"branches"}` | `repo-sync.ts:112` | Two syncs of one repository to different branches: one reports a branch that is not checked out. |
| PROPERTY GraceElapses (MCHost) | `Host.cfg` | `Parts = {"shells"}`, `Id = {i1}`, `Pty = {p1}`, `GraceTicks = 3` | `terminal/terminal-session-manager.ts:138` | "If no reconnect arrives within SESSION_GRACE_TIMEOUT_MS, the session is killed": each failed attempt arms the timers anew. |
| INVARIANT StopIsImmediate (MCHost) | `Host.cfg` | `Parts = {"shells"}` | `terminal/terminal-websocket.ts:268` | "every PTY is killed immediately": not one opened in the closing handshake. |
| INVARIANT ReopenedIsKept (MCHost) | `Host.cfg` | `Parts = {"shells"}`, `EarlyReopen = TRUE` | `terminal/terminal-session-manager.ts:84` | Nothing may end "the freshly-created live session": the exit event of the shell before does. |
| INVARIANT NeverMisattributed (MCHost) | `Host.cfg` | `Parts = {"e2e"}` | `browser/playwright-subprocess-executor.ts:578` | "drop all screenshots for this test rather than misattribute": the guard misses a last step without one. |
| INVARIANT PassedMeansPassed (MCHost) | `Host.cfg` | `Parts = {"e2e"}` | `commands/e2e-test-executor.ts:561` | A test that failed outside of its steps is reported as passed. |
| PROPERTY AlwaysEnds (MCHost) | `Host.cfg` | `Parts = {"e2e"}` | `commands/e2e-test-executor.ts:99` | A script mode has no time limit. |
| INVARIANT OneInLock (MCHost) | `Host.cfg` | `Parts = {"json"}` | `utils/claude-json-oauth-sync.ts:79` | The age of the lock is read in one call and the file removed in another. |
| INVARIANT ClaudeJsonKept (ClaudeJson) | `Host.cfg` | `Parts = {"json"}`, `JsonFaults = {"slow"}` | `utils/claude-json-oauth-sync.ts:79` | An owner that is slower than the lock's age loses it while it writes. |
| PROPERTY McpOrphansGo (MCHost) | `Host.cfg` | `Parts = {"files"}` | `mcp/config-writer.ts:349` | What a killed agent leaves is swept when its configuration changes, and never otherwise. |
| PROPERTY GitOrphansGo (MCHost) | `Host.cfg` | `Parts = {"files"}` | `git-credential-setup.ts:225` | Keys and helper scripts with tokens are in no sweep. |
| PROPERTY FilesKept (CommandFiles) | `Host.cfg` | `Parts = {"files"}`, `FileFaults = {"long"}` | `aws-profile.ts:181` | A chat that runs for longer than files live loses its credentials file to the sweep. |
| PROPERTY StoreKept (ConfigStore) | `Host.cfg` | `Parts = {"store"}`, `StoreFaults = {"overlap"}` | `config-manager.ts:129` | Two processes read, change and replace config.json at one time, through one temporary name: a change is lost. |
| PROPERTY StoreKept (ConfigStore) | `Host.cfg` | `Parts = {"store"}`, `StoreFaults = {"opening"}` | `auth-server.ts:83` | A callback before waitForCallback() is answered with success; the login then times out. |
| PROPERTY StoreKept (ConfigStore) | `Host.cfg` | `Parts = {"store"}`, `StoreFaults = {"timeout"}` | `auth-server.ts:127` | A callback under way when the login times out is answered with success. |
| INVARIANT OneAgent (MCHost) | `Host.cfg` | `Parts = {"pid"}` | `agent-runner.ts:86` | A draining agent has removed its record, so that another starts beside it. |
| PROPERTY PidFileTrue (MCHost) | `Host.cfg` | `Parts = {"pid"}`, `PidFaults = {"together"}` | `agent-runner.ts:255` | Two starts at one time both find no agent running. |
| PROPERTY PidFileTrue (MCHost) | `Host.cfg` | `Parts = {"pid"}`, `PidFaults = {"stopping"}` | `commands/stop-agent.ts:63` | stop removes the record late, by then that of a new agent. |
| PROPERTY PidFileTrue (MCHost) | `Host.cfg` | `Parts = {"pid"}`, `PidFaults = {"quick"}` | `pid-manager.ts:75` | An agent restarted in its container within two seconds of the start of one that crashed takes the record for its own run, and is refused. |
| PROPERTY PidFileTrue (MCHost) | `Host.cfg` | `Parts = {"pid"}`, `PidFaults = {"foreign"}` | `pid-manager.ts:77` | A pid taken over by another program keeps agents from starting. |
| INVARIANT TunnelsKept (DbTunnel) | `Host.cfg` | `Parts = {"db"}`, `DbFaults = {"port"}` | `mcp/tools/db-ssm-tunnel.ts:135` | A reserved port is taken by the tunnel of another query, whose database then answers. |
| PROPERTY ChildrenGo (MCHost) | `Host.cfg` | `Parts = {"db"}` | `mcp/tools/db-ssm-tunnel.ts:99` | The AWS CLI of a tunnel stays when the MCP server is killed. |
| PROPERTY QueryEnds (MCHost) | `Host.cfg` | `Parts = {"db"}` | `mcp/tools/db-query.ts:299` | A query has no time limit. |
| INVARIANT BrowserKept (BrowserSessions) | `Browser.cfg` | `Faults = {"second"}` | `mcp/tools/browser/browser-session.ts:319` | A page that asks for a file while one is being handed over is given it for its own; its offer then finds no chooser, and the file given for it is reported as accepted. |
| INVARIANT MountsKept (ConfigSync) | `Sync.cfg` | `Parts = {"config"}`, `SyncFaults = {"mid"}` | `shared-file-mounts.ts:448` | The record is written after the files: a kill between leaves files that nobody will take away. |
| INVARIANT MountsKept (ConfigSync) | `Sync.cfg` | `Parts = {"config"}`, `SyncFaults = {"unsaved"}` | `shared-file-mounts.ts:448` | So does a record that cannot be written, although a warning tells of it. |
| INVARIANT MountsKept (ConfigSync) | `Sync.cfg` | `Parts = {"config"}`, `SyncFaults = {"unhashed"}` | `shared-file-mounts.ts:387` | A placed file whose hash cannot be read is not recorded, and reported as applied. |
| INVARIANT ClaudeJsonKept (ClaudeJson) | `Host.cfg` | `Parts = {"json"}`, `JsonFaults = {"cli"}` | `utils/claude-json-oauth-sync.ts:232` | The CLI does not take the lock: what it writes while an agent has the file in hand is lost. |
| INVARIANT ClaudeJsonKept (ClaudeJson) | `Host.cfg` | `Parts = {"json"}`, `JsonFaults = {"mounted_crash"}` | `utils/claude-json-oauth-sync.ts:243` | A file that is mounted alone is written in place: an agent that is killed meanwhile leaves half of it (as the comment at 206 grants). |
| INVARIANT ClaudeJsonKept (ClaudeJson) | `Host.cfg` | `Parts = {"json"}`, `JsonFaults = {"check"}` | `utils/claude-config-validator.ts:22` | The check before a start takes no lock: it takes a mounted file that another agent has just cut for a broken one, and writes the backup, or {}, over it. |
| INVARIANT ClaudeJsonKept (ClaudeJson) | `Host.cfg` | `Parts = {"json"}`, `JsonFaults = {"apart"}` | `docker/volume-mount-builder.ts:105` | "the lock on the host side already prevents parallelism" (claude-json-oauth-sync.ts:211-212): the lock file lies beside the file in the home directory, which is not mounted. |

## 5. What is proved

The proofs use the named assumptions on the constants (`ConstantAssumption`,
`ReplicaAssumption`, `PoolAssumption`, `SocketAssumption`, `TerminalAssumption`,
`DockerAssumption`, `PidAssumption`, `JsonAssumption`, `ChatAssumption`, `SetupAssumption`,
`BrowserAssumption`, `SyncAssumption`, `StoreAssumption`): the sets need not be finite, the
numbers are natural numbers, the kinds of fault and the kinds of command do not overlap.
The theorems about CommandFiles, DbTunnel, E2eTest and RepoSync assume nothing of the constants
but their hypotheses. All hold for any number of processes, hosts, commands, projects,
sockets, generations, stops and faults.

**CommandDelivery_proofs.**
`TypeCorrect` (`[]TypeOK`) is by one lemma per group of actions, on lemmas about
`Saved`, `Removed`, `Update`, `Finish`, `Record` and the passes.
`OneRun` (`[]OneRunPerProcess`) and `GenerationOwned` (`[]OwnGeneration`) need
more than themselves: that `inFlightCommands` holds exactly the commands of the
running calls (`InFlightExact`), and that the client has no generation for a
command that does not run (`NoLeftoverGeneration`). `Calls` is the conjunction of
the four; `StartCalls`, `UpdateCalls`, `FinishCalls` and `DiesCalls` show that the
four ways in which a call changes keep it, `CallsStep` that every action is one
of them or touches none of it. Neither invariant is inductive alone: with a stale
entry of the map, the next call would start with a foreign generation; with an
entry missing in the set, a second call would start.

`LedgerImplemented` (`ImplementsLedger`) has no hypothesis on hosts or faults. Its
invariant `Sound` relates everything that speaks for an execution to it: what a call,
a file or a snapshot of a pass reports as executed has finished under the generation
that it bears (`CallSound`, `CopySound`, `Finished`); a generation that was granted
is the one in force or an earlier one, and in force it belongs to whom it was granted
(`Granted`); a verdict that was told is one that the server gave, so that "ok" means
a settled command and "fenced" a lost assignment. With it each step of the
server's record is one of `ServerMoves`, and acceptance, the only one the ledger
restricts, comes from a sound post.

`FirstRunStays` and `ResultsStay` (`[]ResultsKept`) are about what becomes of a saved
result. A pass removes a file by the command alone, whatever result is in it by
then. So `Copies` is needed: on a host there is one result per command (but for a
command run again over a leftover one), be it on the disk or in the memory of a pass,
and while a call works on the command it is the call's. `FirstRun` then says that the
result of a standing assignment is on the disk: whoever removes it has been told
that the command is settled or the assignment lost. `Unsent` says that what a call
submits is on the disk only, and fresh, so that no pass has taken it. The hypotheses
are those under which the code keeps its promise. A resend whose last attempt ends with
a 408 or 429 deletes the result, as does an unreadable file; a second process of a
host that serves the same command may save over it; and the first
registration of a process takes fresh files too, those of its neighbours among them
(4 shows a throttled resend and this last case).

**ReplicaLifecycle_proofs.**
`RestartsSuperseded` (`[]OneLiveRestart`) is about the generation counter. Its
strengthening `Sound(life)` says that no waiting restart bears a later generation
than the counter, that at most one bears the current generation, and none while the
loop is not cancelled; `LifeInv` adds that once the shutdown has begun the loop is
`Stale`: nothing that waits is current. Alone, `OneLiveRestart` is not inductive: a
restart of a later generation would become current by the next stop, and a second
one of the current generation would outlive the first. The operations on the loop (`Ended`,
`Cancelled`, `Disconnected`,
`Restarted`, `Started`) each keep `Sound`, and since the actions compose them,
`StepLife` follows action by action. `ShutdownFinal` (`ShutdownIsFinal`) is an
action property of the same invariant: a stale loop that ends starts nothing.
`ReleaseSafe` (`[]ReleasedIdle`) uses that a draining agent accepts no command and
never forgets an exclusion. `TypeCorrect` is part of the invariant.
`StandbyQuiet` (`StandbyKept`) adds whom the connection serves. `ServingInv`: a
connection that is being made belongs to a loop that makes one, one that is up has let
its loop go, and while there is any, no restart is current, so that no loop begins beside
it; a heartbeat goes with a connection that is up. `ComebackInv`: who was told of an
eviction is in standby mode from then on, or shuts down, and no loop goes on to connect
that has been told so. Its hypothesis is that no `connection_ack` comes while the socket is
being closed: it would start a heartbeat that nobody stops (4).

**WorkerPool_proofs** (from `PoolAssumption`, and for histories without `readd`: a
project that was removed is not registered again. With it OneWorker is lost to the
defect shown in 4).
`Managed`, `EndsAlone` and `CrashLoopBounded` rest on one invariant about exits:
of the processes of a project at most one is `Unreaped`, its exit still to be
noticed (`Alone`); while a restart is delayed there is none, and the restart is the
listed one (`Delayed`), so that a fork always finds the project empty; a
`stopProject` that awaits an exit that is already over has cleared the restart
(`Gone`), so that its time-out removes nobody else's entry; whoever is alive is the
managed process of its project (`Known`), which is what lets `stopAll` await
everybody (`Awaited`). `Counted` adds that the forks since the last start are at
most the managed count, plus one while the process lives: neither the bound nor the
count alone is inductive, since the count is carried from process to process.

**AgentSocket_proofs** (from `SocketAssumption`).
`OneConnectionAlways` (`[]OneConnection`) and `LinkImplemented` (`ImplementsLink`:
every step is one of AgentLink or a stutter) rest on one invariant: at any time there is no socket
and no sleeper, or one socket and no sleeper, or no socket and one sleeper
(`Single`, which avoids cardinalities); a socket that is connecting or open is
`ws` unless the object is closed, and before `connect()` there is nothing
(`Owned`); the heartbeat runs for the socket that has been open, and for that
only (`Beats`). The refinement
needs the last: a `close` must find the abstract link up or down, never over.
`HangsUpOnlyOnSilence` adds `Counts`: after a tick without a pong the peer has left
more pings unanswered than the counter says, so that at the limit all of them are.

**Host_proofs** extends the parts of `MCHost` about which there are theorems; each has
variables and a specification of its own. It also has those about ServerSetup,
ConfigSync and RepoSync; three parts of `MCHost` are in BrowserSessions_proofs.

*Terminals* (from `TerminalAssumption`).
`TimersRight` (`[]SessionsTimed`) is inductive with the types (`Timed`): every way
out of a session's use arms a timer and every way in disarms it. `ShellsTracked`
holds under `~EarlyReopen` and needs `OnePerId`: of the shells opened under an id
at most one has not had its exit handled, so that an exit event, which looks at
the id only, removes its own shell.

*agent.pid* (from `PidAssumption`, for histories without a fault: starts do not race each other, a
stop, or follow each other within the resolution of the start time).
`RecordTrue` (`PidFileTrue`) rests on `PidInv`: in a container one process lives at a
time and on a host each has a pid of its own (`PidsApart`), a record says where its
process is and is written by none that has not got so far (`Recorded`), one process
starts at a time and has found nobody serve when it goes on (`OneStarts`), and during
a stop nobody starts (`StopAlone`). That no start is refused for a dead record is an
action property of the same invariant.

*The login file* (from `JsonAssumption`). `LoginKept` (`ClaudeJsonKept`) rests on `JsonInv`:
whoever has read the file and not yet written it holds what the user has in it, and
who has written it or found it right finds it so until it starts anew (`Held`). What keeps
`Held` differs with the place and the time. On a disk with a file that is whole
(`WholeAlways`) the file is whole at any time, and nobody takes the data out of it, so
that even two owners of one lock write the same, and the check finds nothing to mend:
`LoginKeptOnDisk` needs no hypothesis about the lock or the check. A file that is
mounted alone is cut first (`Guarded`): there the owner of the lock must be the only one
who has read or cuts the file, which is so as long as nobody is killed in between, no
owner is slower than the age of its lock, the agents share one lock file, and none checks the file
while it is cut. A file that is broken to begin with (`BrokenYet`) stays so until the
backup is written, and whoever does that writes the user's data: one agent at a time, which may
be killed at it.

*Server setup* (from `SetupAssumption`).
`SetupKept` (types, `StopReaches`, `FilesKept`) holds
whatever the server and the child do. `SetupInv` says what each stage implies: before
the child is there nothing is written and no SIGTERM sent, after it the child is over,
and a directory remains at the end only beside an error (`StagesOK`); a stop that came
early waits in the process manager and then has its child, so that no event is written
and no exit is "ok" (`StopHeld`); a source that the recipe names is to be listed, is
listed or is fetched (`StagingOK`). `OrderKept` (`InOrder`) needs `DeliveryOK`: the timer's
delivery and the last one never run beside each other, and the one in flight begins
after all that has arrived, but for the events of its present request, of which the server
may have had all, any number of times. Its hypothesis is that the server takes no request
after the agent has given it up; replies may be lost at will. `SetupSafe`
(`SetupSound`) adds `ShakeOK`: one delivery at most is at
the hand-shake, and while it is, the role has no answer; its hypothesis is a server
that knows the declaration (4). It says that a notice of the failure was tried, not that it
arrived: nobody can promise that when the API is what is broken. `ProgressTrue`
(`ProgressComplete`) adds `Handed`, for reads that return all there is: the last delivery
makes only one (4).

*Configuration sync* (from `SyncAssumption`: a place is never configured to hold what
stands for "nothing" or for somebody else's file). `MountsTracked` (`MountsKept`) rests on
`SyncInv`. `ChainOK`: those whose files wait or are being placed are in the chain, once
each, and the head alone places. `InUse`: the configuration in use is that of the last in
the chain, so that when the last leaves it the places are those of the configuration in
use (`Followed`). `OwnTracked` says nothing while files are placed; in between,
`PlacingOK` says that whatever the agent has put somewhere is among what this sync has
placed or, if not, still among what it has loaded, and `SavingOK` that the record to be
written will say so and that every place which is not as configured is among the failures:
between the two, `removeStaleMounts` must take away all that neither covers. `OwnKnown`
(a file of the configuration is the agent's) serves that step. All of it is under the
condition that the configuration `says` what the files are; a sync whose configuration does not
keeps the record as it is, and what cannot be removed stays in it. The hypotheses exclude the
three histories in which the code loses track: a record that cannot be written, a kill
while files are placed, and a placed file that cannot be read back (4).

*config.json* (from `StoreAssumption`). `StoreSafe` (`StoreKept`), for writers one after
another and any number of kills, rests on `StoreInv`: one writer is at work (`OneWriter`),
what it is about to write is the file as it is now but for its own change (`Keeping`), and
the temporary name is its file's between the creation and the rename, whatever a killed
writer has left there before (`WriterOK`). `Readable` says that the file is whole, a
legacy one or none: the rename alone changes it, and puts there what was written in full.
With two writers at once `Keeping` is lost between the second read and the rename; that,
and the two races of a login, are in 4.

*The clone of a repository.* `TreeIsOfBranch` (`TreeAsReported`) is about the step in which a
sync reports success, but what makes it true was done steps before, maybe by another sync. So
`RepoInv` carries along what each stage of a sync knows of the clone (`SyncOK`): once it has
cloned or fetched, the clone has its branch no older than the sync is; before the first
checkout of a clone a local branch, if another sync has made one by then, is no older
either, so that a checkout which takes an existing branch as it is does no harm; before the
reset its branch is checked out. `CloneOK` is needed for the clone itself: a directory that is
not there has no
local branches. The hypothesis is that syncs under way are of one branch
(`OneBranch`); without it the tree of one sync is another's (4).

**BrowserSessions_proofs** (from `BrowserAssumption`).
`BrowsersKept` (`BrowserKept`: types, a Chromium is lost only in the races that the code
has, what is given in answer to an offer reaches a page) takes the table of sessions and the
session objects
together. `Placed` says that the table has exactly the objects that are open or about to
close, each under one id, so that a close never takes the entry of another. `LaunchOK`
says of an object without a race that one handler at most launches for it, while it is
open and has no browser, and that its browser belongs to a session that can still be
closed. `OfferOK` says that what an open session asks for is offered under its own id or
is about to be given to it, once, and that no object is used anew while somebody refers
to it. The hypotheses are that a page does not ask for a file while one is being
handed over, and that a Chromium that starts gives a page; without either the property fails
(4). Pages may be left at any time: the chooser stays with the session then, so that the file is
handed over, be it to a page that has gone.

The module also has the theorems about what the commands that use browsers and databases leave
on the host, each about a specification of its own.

*The files of a chat.* The hypothesis of `FilesStayWithChat` (`FilesKept`) is that no chat runs
for longer than files live (4 has the one that does). `FilesInv` carries it through everything
that happens to a file meanwhile, kills, starts and changes of the configuration: a file old
enough to be swept is of no chat that runs.

*The tunnels.* `TunnelsEndWithQuery` (`TunnelsKept`) rests on `TunnelInv`. `WayOK` says what
each stage of a query has opened, so that its end leaves nothing: a child of the AWS CLI is
there only while the way is by SSM, or the server that started it is gone. `PortsApart`: no
two queries have reserved one port, so that what answers at a query's port is its own
child. The hypothesis excludes the port that another takes (4).

*One test.* `TestsAreSound` (`TestKept`) has no hypothesis. None of its three parts is
inductive. `StepsOK` relates the counter of the preloaded module to the body: with
screenshots it is never behind, so that as long as it is not ahead no hook has taken an index,
and the
image with index n shows step n + 1; without screenshots of the module the script's own
images, if there are as many as steps, are theirs in order. `ResultForm` draws from it what
`parsePlaywrightJsonOutput` makes of a report, by cases of its guards. `PlaceOK` says what the place
in the executor implies for process, timers, files and status: no place after the
wait has a timer or lets the script run on, "passed" is reported at the end only, and
what is on the disk or in the browser manager is there in the places whose way out clears it.

**DockerSupervisor_proofs** (from `DockerAssumption`).
`HandedOverAlways` (`HandedOver`: types, one owner of a project, and the host goes
only after the containers that it stops). `OneOwner` is not inductive: a start that
rebuilds first drops the handle of a project and begins a build, whatever its
container does. `Own` adds that a container runs only from a directory that needs no
rebuild, so that a new host process, which builds the others first, finds none of
them running. `AwaitedBy` is what `StopsFirst` rests on: a container that has a handle,
runs, and was not started since the stop began is in the list of everyone who stops
(`stopAll()` for the update, for the updater of the host, `shutdown()`), and there is
none once the installation has begun. `Clean` says that a host process that has gone
leaves no handle, build or update behind. Each action is taken apart by project: the
one it is about, and the others, which `Untouched` carries over.

`CustomizedAlways` (`[]CustomizationKept`) adds `Customized`. docker-built-hash and the
image of the running version agree unless a build failed, found the files torn, or
there is an image of an earlier version only (`Explained`); no image is of a later one,
so that a new host process of another version finds the old ones to be of another. An
agent that runs and knows a customization read it from docker-built-hash when it started,
and has the image of that time: while it runs nothing is built for its project
(`Own`), and when it learns of another it leaves. `Quiet` is what all the steps do to a
project that build nothing for it.

**ChatExecution_proofs** (from `ChatAssumption`).
`ResultTrue` (`[]ResultTellsDelivery`) and `AnswerTrue` (`[]AnswerWhole`) rest on
`ChatInv`. `Delivered` relates the place of the command to its chunk sender: before
the attempt has ended the sender has not been given a last chunk (`Open`); after it,
the chunk waits behind a text that is under way and is the only one of its kind and
the last of the queue (`LastComes`), or it has been posted and nothing waits (`Sent`).
None of the properties is inductive without that form of the queue: a last chunk in
its midst would be posted before text, and a second one would overwrite what the web
client was told. A last chunk whose POST failed may have reached the web client or not
(`Untold`): then only the command knows that it counts as undelivered, which is why
`ResultTellsDelivery` is no equivalence (4). `Placed` says what else each place of the command
implies. The lemmas
on `Pumped`, `Put` and `Last` are about the queue alone: `LeastOne` (every non-empty
set of natural numbers has a least element, from the well-foundedness of their order)
gives the next text in it.

**The conjunctions.** `CallsApart`, `ShutdownSafe`, `PoolSafe`, `SocketSafe` and
`SessionsSafe` put these together into the properties that the runs ask for
(CallsKeptApart, ShutdownSound, PoolSound, SocketSound, SessionsKept);
`RestartsSuperseded` and `LinkImplemented` are such properties themselves.

**Only model-checked.** Liveness, since fairness and ENABLED are out of the prover's reach:
DeliveryProgresses, LifeProgresses, PoolProgresses, TokenFollows, ComesBack, ChatEnds,
SetupEnds, GoneIsNoticed, LinkRecovers, ConfigFollows, AlertsEnd, HostSettles, AnswersKept
and NoneLeft, with the types of AppSyncLink, AlertProcessing and CodeServerTunnel, of which the
runs ask nothing else. Of every other property of a passing run there is a theorem.

## 6. What is left

Done: the modules of 2, in the order in which they stand there: the delivery of
commands first, since that is what the program is for; then who delivers, which
processes exist, the connections that carry all of it; then what a command does;
then what keeps an agent in step with the server, and the files it shares.

Worth doing next:

1. Proofs: the types of AppSyncLink, AlertProcessing and CodeServerTunnel, and what their
   liveness rests on (that nobody who waits is forgotten), as safety invariants (5).
2. Composition: CommandDelivery takes a command for one step between its start and
   its end. ChatExecution, E2eTest and ServerSetup are that step in detail; that
   each of them implements it (it starts once, ends once, with one result) could be
   stated as a refinement of a small abstract command.
3. The worker thread that all chats of a process share (`api-tool-worker`), and the
   two places in which concurrent commands share a directory (7).

## 7. Not modelled

* *The API server, git, Playwright, Ansible, code-server, Chromium*, but for what
  the code relies on; the modules say what that is.
* *Service installers* (`cli/service/`): they write a unit or plist file and call the
  service manager once per command; sequential, nothing runs beside them.
* *Tools of the chat* (`commands/api-tool-executor.ts`, the shell, file, process and
  SSH executors, the MCP tools other than the browser, database and E2E ones): one
  request, one answer, no state. To ChatExecution a tool is a call that returns or
  hangs; to CommandDelivery a command ends with an outcome.
* *The shared tool worker* (`commands/api-tool-worker-runner.ts`): one worker thread
  serves the tool calls of all chats; that it is replaced when it dies (113) and
  what becomes of the calls it had is not in a module.
* *Shared directories*: two commands of one conversation use one directory for
  attachments and remove it (`commands/file-transfer.ts`:43), two runs of one E2E
  execution one run directory (`browser/playwright-subprocess-executor.ts`:718). The
  modules have one command; that the server does not send two such at one time is
  taken for granted.
* *Contents*: what a configuration says, how arguments, prompts, manifests, service
  files and Docker images are put together, what a page shows, how recorded actions
  become a script, translations, logs: data without protocol, covered by unit tests.
* *ECS publishing, the manifest generator, the command line*: sequential, one request
  after the other.
* *Ansible roles, image build files, the Claude plugin*: run by other programs.
* *Small deviations*, named at the definitions: a sync or setup command that asked
  for a rebuild is excluded from the drain although it may still be running its
  last lines; a sweep that outlives its transport is in CommandDelivery and not
  in ReplicaLifecycle; the host's updater keeps running during a shutdown
  (DockerSupervisor has it).

------------------------------ MODULE WorkerPool ------------------------------
(***************************************************************************)
(* The runner of several projects: ChildProcessManager forks one worker    *)
(* process per project, restarts it when it exits, passes on what the      *)
(* watcher of config.json notices, and stops all workers at the end        *)
(* (child-process-manager.ts, config-watcher.ts, project-worker.ts,        *)
(* agent-runner.ts).                                                       *)
(*                                                                         *)
(* Parent and workers are processes: a message, an exit and a timer each   *)
(* take effect in a step of their own. What a worker's agent does is       *)
(* reduced to whether a command runs (ReplicaLifecycle has the rest).      *)
(***************************************************************************)
EXTENDS Integers, FiniteSets, Sequences

CONSTANTS
  Project,      \* keys tenantCode/projectCode
  Child,        \* bound: the processes the runner can fork
  None,         \* no child, no project
  MaxRestarts,  \* CHILD_PROCESS_MAX_RESTARTS
  MaxToken,     \* bound: tokens a project may get, 1 being the first
  Faults        \* the kinds of event the environment may show

\* crash: a worker ends by itself (a crash, or a reboot command); bad_start:
\* its agent cannot be created; remove, readd: projects are removed from
\* config.json, and registered again; wedged: a worker does not exit in time;
\* drain: a command outlasts the drain timeout; parent: the runner itself crashes.
FaultKind == {"crash", "bad_start", "remove", "readd", "wedged", "drain", "parent"}

ASSUME PoolAssumption ==
  /\ None \notin Child /\ None \notin Project
  /\ MaxRestarts \in Nat /\ MaxToken \in Nat \ {0}
  /\ Faults \subseteq FaultKind

VARIABLES
  config,    \* token of every project in config.json, 0: not there
  known,     \* currentProjects of the watcher, likewise
  runner,    \* "up", "stopAll" (awaiting its workers), "ended" or "crashed"
  stopping,  \* ChildProcessManager.stopping
  worker,    \* the worker processes, see Worker
  procs,     \* processes: the child each project is managed with
  managed,   \* ManagedProcess of each child: restartCount, token to start with
  timers,    \* restart delays: the child whose exit began it, whom it restarts
  listed,    \* restartTimers: the one of each project, by the exited child
  stops,     \* children whose exit a stopProject() awaits
  waits,     \* children whose exit stopAll() awaits
  tries      \* history: forks of a managed project in a row, since one started

vars == <<config, known, runner, stopping, worker, procs, managed, timers,
          listed, stops, waits, tries>>

Token == 0 .. MaxToken
Fault(kind) == kind \in Faults

Message == [type: {"start", "token_update"}, token: Token]
           \union [type: {"shutdown"}, token: {0}]

\* life: "dead" has exited, "reaped" is noticed by the runner; first: the token
\* handleStart() was called with; starting: it awaits initSentry(); token: the
\* one the agent works with, 0 as long as there is no agent; leaving: a
\* handleGracefulExit() is under way; started: the message of that name is
\* under way; missed: history, the last token update found no agent yet.
Worker == [project: Project \union {None},
           life: {"unused", "alive", "dead", "reaped"},
           inbox: Seq(Message), first: Token, starting: BOOLEAN, token: Token,
           leaving: BOOLEAN, busy: BOOLEAN, started: BOOLEAN, missed: BOOLEAN]

Unused == [project |-> None, life |-> "unused", inbox |-> <<>>, first |-> 0,
           starting |-> FALSE, token |-> 0, leaving |-> FALSE, busy |-> FALSE,
           started |-> FALSE, missed |-> FALSE]

Alive(c) == worker[c].life = "alive"
Forked(p, token) ==
  [Unused EXCEPT !.project = p, !.life = "alive",
                 !.inbox = <<[type |-> "start", token |-> token]>>]

\* What is left of a process: only a message it has sent.
Dead(w) == [Unused EXCEPT !.project = w.project, !.life = "dead",
                          !.started = w.started]

\* child.send(), to a connected child; nobody reads what a dead one is sent.
Sent(w, message) ==
  IF w.life = "alive" THEN [w EXCEPT !.inbox = Append(@, message)] ELSE w
ShutdownMessage == [type |-> "shutdown", token |-> 0]

-----------------------------------------------------------------------------
(* ChildProcessManager.                                                    *)

\* Mutant of Spawn: the restart count is not carried over.
SpawnAfresh(p, token, count) ==
  \E c \in Child :
    /\ worker[c].life = "unused"
    /\ worker' = [worker EXCEPT ![c] = Forked(p, token)]
    /\ procs' = [procs EXCEPT ![p] = c]
    /\ managed' = [managed EXCEPT ![c] = [count |-> 0, token |-> token]]

\* spawnChild(); "count" is what the map holds for the project.
Spawn(p, token, count) ==
  \E c \in Child :
    /\ worker[c].life = "unused"
    /\ worker' = [worker EXCEPT ![c] = Forked(p, token)]
    /\ procs' = [procs EXCEPT ![p] = c]
    /\ managed' = [managed EXCEPT ![c] = [count |-> count, token |-> token]]

CountOf(p) == IF procs[p] = None THEN 0 ELSE managed[procs[p]].count

\* forkProject(), for a project that has just been added.
Fork(p) ==
  /\ Spawn(p, config[p], CountOf(p))
  /\ tries' = [tries EXCEPT ![p] = IF procs[p] = None THEN 1 ELSE @ + 1]
  /\ UNCHANGED <<timers, listed, stops>>

\* Mutant of SendTokenUpdate: restarts go on with the first token.
SendTokenUpdateOnce(p) ==
  LET c == procs[p] IN
  /\ IF c = None
     THEN UNCHANGED worker
     ELSE worker' = [worker EXCEPT ![c] =
                       Sent(@, [type |-> "token_update", token |-> config[p]])]
  /\ UNCHANGED <<procs, managed, timers, listed, stops, tries>>

\* sendTokenUpdate(): to the worker, and to the one that may replace it.
SendTokenUpdate(p) ==
  LET c == procs[p] IN
  /\ IF c = None
     THEN UNCHANGED <<worker, managed>>
     ELSE /\ worker' = [worker EXCEPT ![c] =
                          Sent(@, [type |-> "token_update", token |-> config[p]])]
          /\ managed' = [managed EXCEPT ![c].token = config[p]]
  /\ UNCHANGED <<procs, timers, listed, stops, tries>>

\* stopProject() up to its await: the restart it finds listed is cleared.
StopProject(p) ==
  /\ timers' = {t \in timers : t.by # listed[p]}
  /\ listed' = [listed EXCEPT ![p] = None]
  /\ IF procs[p] = None
     THEN UNCHANGED <<worker, stops>>
     ELSE /\ worker' = [worker EXCEPT ![procs[p]] = Sent(@, ShutdownMessage)]
          /\ stops' = stops \union {procs[p]}
  /\ UNCHANGED <<procs, managed, tries>>

\* Mutant of HandleChildExit: an off-by-one, the last restart is not made.
HandleChildExitOnceLess(c, kept) ==
  LET p == worker[c].project
      m == procs[p]
  IN  IF m = None \/ stopping
      THEN procs' = kept /\ UNCHANGED <<managed, timers, listed>>
      ELSE IF managed[m].count + 1 >= MaxRestarts
      THEN /\ procs' = [kept EXCEPT ![p] = None]
           /\ UNCHANGED <<managed, timers, listed>>
      ELSE /\ procs' = kept
           /\ managed' = [managed EXCEPT ![m].count = @ + 1]
           /\ timers' = timers \union {[by |-> c, of |-> m]}
           /\ listed' = [listed EXCEPT ![p] = c]

\* Mutant of HandleChildExit: an off-by-one in the bound.
HandleChildExitOnceMore(c, kept) ==
  LET p == worker[c].project
      m == procs[p]
  IN  IF m = None \/ stopping
      THEN procs' = kept /\ UNCHANGED <<managed, timers, listed>>
      ELSE IF managed[m].count > MaxRestarts
      THEN /\ procs' = [kept EXCEPT ![p] = None]
           /\ UNCHANGED <<managed, timers, listed>>
      ELSE /\ procs' = kept
           /\ managed' = [managed EXCEPT ![m].count = @ + 1]
           /\ timers' = timers \union {[by |-> c, of |-> m]}
           /\ listed' = [listed EXCEPT ![p] = c]

\* The exit listener and handleChildExit(): whatever child the project has now
\* is the one whose restarts are counted, and who is restarted after a delay.
\* "kept": what the continuations of the same event leave of processes.
HandleChildExit(c, kept) ==
  LET p == worker[c].project
      m == procs[p]
  IN  IF m = None \/ stopping
      THEN procs' = kept /\ UNCHANGED <<managed, timers, listed>>
      ELSE IF managed[m].count >= MaxRestarts
      THEN /\ procs' = [kept EXCEPT ![p] = None]
           /\ UNCHANGED <<managed, timers, listed>>
      ELSE /\ procs' = kept
           /\ managed' = [managed EXCEPT ![m].count = @ + 1]
           /\ timers' = timers \union {[by |-> c, of |-> m]}
           /\ listed' = [listed EXCEPT ![p] = c]

\* The exit event of a child. A stopProject() that awaits it then removes the
\* project, with whatever child it has.
ExitSeen(c) ==
  /\ worker[c].life = "dead" /\ runner \in {"up", "stopAll"}
  /\ worker' = [worker EXCEPT ![c].life = "reaped"]
  /\ HandleChildExit(c, IF c \in stops
                        THEN [procs EXCEPT ![worker[c].project] = None] ELSE procs)
  /\ stops' = stops \ {c} /\ waits' = waits \ {c}
  /\ UNCHANGED <<config, known, runner, stopping, tries>>

\* Mutant of TimerFires: the delay repeats.
TimerFiresAgain(t) ==
  LET p == worker[t.of].project IN
  /\ runner \in {"up", "stopAll"} /\ t \in timers
  /\ UNCHANGED <<timers, listed>>
  /\ IF stopping
     THEN UNCHANGED <<worker, procs, managed, tries>>
     ELSE /\ Spawn(p, managed[t.of].token, CountOf(p))
          /\ tries' = [tries EXCEPT ![p] = IF procs[p] = None THEN 1 ELSE @ + 1]
  /\ UNCHANGED <<config, known, runner, stopping, stops, waits>>

\* The delay of a restart is over.
TimerFires(t) ==
  LET p == worker[t.of].project IN
  /\ runner \in {"up", "stopAll"} /\ t \in timers
  /\ timers' = timers \ {t} /\ listed' = [listed EXCEPT ![p] = None]
  /\ IF stopping
     THEN UNCHANGED <<worker, procs, managed, tries>>
     ELSE /\ Spawn(p, managed[t.of].token, CountOf(p))
          /\ tries' = [tries EXCEPT ![p] = IF procs[p] = None THEN 1 ELSE @ + 1]
  /\ UNCHANGED <<config, known, runner, stopping, stops, waits>>

\* The "started" message of a worker.
StartedSeen(c) ==
  LET p == worker[c].project IN
  /\ worker[c].started /\ runner \in {"up", "stopAll"}
  /\ worker' = [worker EXCEPT ![c].started = FALSE]
  /\ IF procs[p] = None
     THEN UNCHANGED <<managed, tries>>
     ELSE /\ managed' = [managed EXCEPT ![procs[p]].count = 0]
          /\ tries' = [tries EXCEPT ![p] =
                         IF worker[procs[p]].life = "reaped" THEN 0 ELSE 1]
  /\ UNCHANGED <<config, known, runner, stopping, procs, timers, listed, stops,
                 waits>>

\* The timeout of stopProject() or stopAll(): of a child that does not exit,
\* or whose exit was over before anybody awaited it.
StopTimeout(c) ==
  /\ c \in stops \union waits /\ runner \in {"up", "stopAll"}
  /\ worker[c].life = "reaped" \/ Fault("wedged")
  /\ worker' = [worker EXCEPT ![c] = IF Alive(c) THEN Dead(@) ELSE @]
  /\ procs' = IF c \in stops THEN [procs EXCEPT ![worker[c].project] = None]
                             ELSE procs
  /\ stops' = stops \ {c} /\ waits' = waits \ {c}
  /\ UNCHANGED <<config, known, runner, stopping, managed, timers, listed, tries>>

\* Mutant of StopAll: "stopping" is not set before the workers have exited.
StopAllUnflagged ==
  LET all == {procs[p] : p \in Project} \ {None} IN
  /\ runner = "up"
  /\ runner' = "stopAll" /\ stopping' = stopping
  /\ timers' = {t \in timers : \A p \in Project : t.by # listed[p]}
  /\ listed' = [p \in Project |-> None]
  /\ worker' = [c \in Child |->
                  IF c \in all THEN Sent(worker[c], ShutdownMessage) ELSE worker[c]]
  /\ waits' = all
  /\ UNCHANGED <<config, known, procs, managed, stops, tries>>

\* stopAll(), and the watcher stopped with it: on a signal, or to restart
\* after an update.
StopAll ==
  LET all == {procs[p] : p \in Project} \ {None} IN
  /\ runner = "up"
  /\ runner' = "stopAll" /\ stopping' = TRUE
  /\ timers' = {t \in timers : \A p \in Project : t.by # listed[p]}
  /\ listed' = [p \in Project |-> None]
  /\ worker' = [c \in Child |->
                  IF c \in all THEN Sent(worker[c], ShutdownMessage) ELSE worker[c]]
  /\ waits' = all
  /\ UNCHANGED <<config, known, procs, managed, stops, tries>>

\* The runner exits, or is replaced by its next version.
RunnerEnds ==
  /\ runner = "stopAll" /\ waits = {}
  /\ runner' = "ended"
  /\ procs' = [p \in Project |-> None] /\ timers' = {}
  /\ UNCHANGED <<config, known, stopping, worker, managed, listed, stops, waits,
                 tries>>

RunnerCrashes ==
  /\ Fault("parent") /\ runner \in {"up", "stopAll"}
  /\ runner' = "crashed" /\ timers' = {}
  /\ UNCHANGED <<config, known, stopping, worker, procs, managed, listed, stops,
                 waits, tries>>

-----------------------------------------------------------------------------
(* config.json and its watcher.                                            *)

\* External: a project is registered, gets a new token, or is removed.
Edit(p) ==
  /\ config[p] = known[p] /\ runner = "up"
  /\ \/ config[p] # 0 /\ config[p] < MaxToken
        /\ config' = [config EXCEPT ![p] = @ + 1]
     \/ config[p] # 0 /\ Fault("remove")
        /\ config' = [config EXCEPT ![p] = 0]
     \/ /\ config[p] = 0
        /\ Fault("readd") \/ \A c \in Child : worker[c].project # p
        /\ config' = [config EXCEPT ![p] = MaxToken]
  /\ UNCHANGED <<known, runner, stopping, worker, procs, managed, timers, listed,
                 stops, waits, tries>>

\* A tick of the watcher, as far as it is about this project. (The projects
\* the runner starts with take the same path through forkProject.)
Poll(p) ==
  /\ runner = "up" /\ known[p] # config[p]
  /\ known' = [known EXCEPT ![p] = config[p]]
  /\ \/ known[p] = 0 /\ Fork(p)
     \/ known[p] # 0 /\ config[p] # 0 /\ SendTokenUpdate(p)
     \/ config[p] = 0 /\ StopProject(p)
  /\ UNCHANGED <<config, runner, stopping, waits>>

-----------------------------------------------------------------------------
(* A worker process.                                                       *)

Runs(c, w) ==
  /\ worker' = [worker EXCEPT ![c] = w]
  /\ UNCHANGED <<config, known, runner, stopping, procs, managed, timers, listed,
                 stops, waits, tries>>

\* setupMessageHandler(): what a message does. A token update without an agent,
\* or once it shuts down, is dropped.
Handled(w, message) ==
  CASE message.type = "start" -> [w EXCEPT !.starting = TRUE, !.first = message.token]
    [] message.type = "shutdown" -> [w EXCEPT !.leaving = TRUE]
    [] message.type = "token_update" ->
         IF w.token = 0 THEN [w EXCEPT !.missed = TRUE]
         ELSE IF w.leaving THEN w
         ELSE [w EXCEPT !.token = message.token, !.missed = FALSE]

\* handleStart() awaits initSentry() first, which takes its time with a SENTRY_DSN;
\* without one too, what has come with "start" is read before it goes on.
Receive(c) ==
  LET w == worker[c] IN
  /\ Alive(c) /\ w.inbox # <<>>
  /\ Runs(c, Handled([w EXCEPT !.inbox = Tail(@)], Head(w.inbox)))

\* The rest of handleStart(), whatever was read meanwhile. If the agent cannot
\* be created the worker goes on without.
StartupOver(c) ==
  LET w == [worker[c] EXCEPT !.starting = FALSE] IN
  /\ Alive(c) /\ worker[c].starting
  /\ \/ Runs(c, [w EXCEPT !.token = w.first, !.started = TRUE])
     \/ Fault("bad_start") /\ Runs(c, w)

Works(c) == /\ Alive(c) /\ worker[c].token # 0 /\ ~worker[c].leaving
            /\ ~worker[c].busy
            /\ Runs(c, [worker[c] EXCEPT !.busy = TRUE])

WorkDone(c) == /\ Alive(c) /\ worker[c].busy
               /\ Runs(c, [worker[c] EXCEPT !.busy = FALSE])

\* handleGracefulExit() and handleParentDisconnect(): the drain is over.
Leaves(c) ==
  /\ Alive(c) /\ worker[c].leaving
  /\ worker[c].busy => Fault("drain")
  /\ Runs(c, Dead(worker[c]))

\* The IPC channel closes with the runner.
Disconnected(c) ==
  /\ Alive(c) /\ ~worker[c].leaving /\ runner \in {"ended", "crashed"}
  /\ Runs(c, [worker[c] EXCEPT !.leaving = TRUE])

Crashes(c) ==
  /\ Alive(c) /\ Fault("crash")
  /\ Runs(c, Dead(worker[c]))

-----------------------------------------------------------------------------
Init ==
  /\ config = [p \in Project |-> 1] /\ known = [p \in Project |-> 0]
  /\ runner = "up" /\ stopping = FALSE
  /\ worker = [c \in Child |-> Unused]
  /\ procs = [p \in Project |-> None]
  /\ managed = [c \in Child |-> [count |-> 0, token |-> 0]]
  /\ timers = {} /\ listed = [p \in Project |-> None]
  /\ stops = {} /\ waits = {}
  /\ tries = [p \in Project |-> 0]

RunnerStep ==
  \/ StopAll \/ RunnerEnds \/ RunnerCrashes
  \/ \E t \in timers : TimerFires(t)
  \/ \E c \in Child : ExitSeen(c) \/ StartedSeen(c) \/ StopTimeout(c)

WorkerStep ==
  \E c \in Child : Receive(c) \/ StartupOver(c) \/ Works(c) \/ WorkDone(c)
                   \/ Leaves(c) \/ Disconnected(c) \/ Crashes(c)

ConfigStep == \E p \in Project : Edit(p) \/ Poll(p)

Next == RunnerStep \/ WorkerStep \/ ConfigStep

Spec == Init /\ [][Next]_vars

\* Timers fire, messages arrive, exits are noticed, commands end. Nothing makes
\* a worker crash, nor a living one miss its timeout.
Fairness ==
  /\ WF_vars(RunnerEnds)
  /\ WF_vars(\E t \in timers : TimerFires(t))
  /\ \A p \in Project : WF_vars(Poll(p))
  /\ \A c \in Child :
       /\ WF_vars(ExitSeen(c)) /\ WF_vars(StartedSeen(c))
       /\ WF_vars(worker[c].life = "reaped" /\ StopTimeout(c))
       /\ WF_vars(Receive(c)) /\ WF_vars(StartupOver(c))
       /\ WF_vars(WorkDone(c)) /\ WF_vars(Leaves(c)) /\ WF_vars(Disconnected(c))

FairSpec == Spec /\ Fairness

-----------------------------------------------------------------------------
(* Properties.                                                             *)

\* Every variable keeps its type.
TypeOK ==
  /\ config \in [Project -> Token] /\ known \in [Project -> Token]
  /\ runner \in {"up", "stopAll", "ended", "crashed"} /\ stopping \in BOOLEAN
  /\ worker \in [Child -> Worker]
  /\ procs \in [Project -> Child \union {None}]
  /\ managed \in [Child -> [count: 0 .. MaxRestarts, token: Token]]
  /\ timers \subseteq [by: Child, of: Child]
  /\ listed \in [Project -> Child \union {None}]
  /\ stops \subseteq Child /\ waits \subseteq Child
  /\ tries \in [Project -> Nat]

\* A project has one worker: two would register the project twice and execute
\* its commands side by side. One that is told to leave may still drain.
Serves(c, p) ==
  /\ Alive(c) /\ worker[c].project = p /\ ~worker[c].leaving
  /\ \A i \in DOMAIN worker[c].inbox : worker[c].inbox[i].type # "shutdown"
OneWorker ==
  \A c, d \in Child, p \in Project : Serves(c, p) /\ Serves(d, p) => c = d

\* The runner manages every worker that it has not told to leave.
Tracked ==
  runner = "up" => \A c \in Child, p \in Project : Serves(c, p) => procs[p] = c

\* Both, in one: the processes the runner knows are the ones that work.
Managed == OneWorker /\ Tracked

\* stopAll() waits for every worker: none is left behind when the runner exits,
\* or is replaced and forks workers anew.
EndsAlone == runner = "ended" => \A c \in Child : ~Alive(c)

\* A worker that never starts is forked once and restarted MaxRestarts times.
CrashLoopBounded == \A p \in Project : tries[p] <= MaxRestarts + 1

\* A registered project is served again after every crash, unless its restarts
\* are used up (or this instance's processes).
Supervised ==
  \A p \in Project :
    known[p] # 0 ~> \/ known[p] = 0 \/ runner # "up"
                    \/ \E c \in Child : Serves(c, p)
                    \/ tries[p] > MaxRestarts
                    \/ \A c \in Child : worker[c].life # "unused"

\* stopAll() comes to its end.
StopEnds == runner = "stopAll" ~> runner \in {"ended", "crashed"}

\* Both: the pool neither forgets a project nor gets stuck in its stop.
PoolProgresses == Supervised /\ StopEnds

\* Every worker ends up with the token that config.json has, also one that takes
\* the place of another, unless it goes on without an agent, which it could not
\* create. What a worker is told before it has an agent it misses.
HasToken(p) == Alive(procs[p]) /\ worker[procs[p]].token = known[p]
Agentless(p) == worker[procs[p]].token = 0 /\ ~worker[procs[p]].starting
Unserved(p) == known[p] = 0 \/ runner # "up" \/ procs[p] = None
TokenFollows ==
  \A p \in Project :
    known[p] # 0 ~> \/ Unserved(p) \/ HasToken(p) \/ Agentless(p)
                    \/ worker[procs[p]].missed
                    \/ \A c \in Child : worker[c].life # "unused"

\* What the pool owes to its processes: one worker for a project, known to the
\* runner; none left behind; and none that never starts forked for ever.
PoolSound == TypeOK /\ Managed /\ EndsAlone /\ CrashLoopBounded
=============================================================================

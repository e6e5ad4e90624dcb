------------------------------ MODULE ServerSetup ------------------------------
(***************************************************************************)
(* One server_setup_exec: a recipe of Ansible tasks, run on a host by      *)
(* ansible-playbook (server-setup-runner.ts), for the resident agent, for  *)
(* a container that runs one command and leaves (oneshot-runner.ts) or     *)
(* from the command line (server-setup-local-run.ts).                      *)
(*                                                                         *)
(* Beside the child three things run: the timer of the progress tailer,    *)
(* which reads the file the child appends to and posts what is new; the    *)
(* stop of the tailer, which joins the delivery in flight and then makes a *)
(* last one; and the hand-shake of a role that deploys the very agent that *)
(* runs it, which waits until that agent has told the server.              *)
(***************************************************************************)
EXTENDS TaskGuard, Integers

CONSTANTS
    Bodies,     \* bodies a recipe may have
    MaxEvents,  \* progress events the child writes (bound)
    Chunk,      \* events one read of the file returns at most
    PerRequest, \* events one request carries at most
    Tries,      \* attempts at a request (API_MAX_RETRIES)
    Faults      \* "stubborn": the child ignores SIGTERM; "old": a server that does not know the declaration;
                \* "slow": a server that takes a request after the agent has given it up

ASSUME SetupAssumption ==
    /\ Bodies \subseteq Body
    /\ MaxEvents \in Nat /\ Chunk \in Nat \ {0} /\ PerRequest \in Nat \ {0} /\ Tries \in Nat \ {0}
    /\ Faults \subseteq {"stubborn", "old", "slow"}

VARIABLES
    stage,      \* where the run is
    caller,     \* who started it: "resident", "oneshot", "local"
    body, answers, sources, files, staged,
    tmp,        \* whether the directory with the key and the secrets exists
    child, exit,          \* the process and how it ended
    sig, timed, stopped,  \* SIGTERM sent; by the time limit; by a stop
    asked, pm,            \* the stop; its process manager entry
    written, offset, delivered, del,  \* events in the file, read, at the server; deliveries
    stray,                            \* the events of a request given up that is still under way
    marker, handled, ack, applied, noticed, role,  \* the hand-shake
    result, code

runVars == <<caller, body>>
childVars == <<child, exit, sig, timed, stopped, asked, pm>>
progressVars == <<written, offset, delivered, del, stray>>
shakeVars == <<marker, handled, ack, applied, noticed, role>>
stageVars == <<answers, sources, files, staged>>
setupVars == <<stage, runVars, childVars, progressVars, shakeVars, stageVars, tmp, result, code>>

NoBody == [shape |-> "unparsable", tasks |-> <<>>]
Idle == [pc |-> "off", from |-> 0, to |-> 0, tried |-> 0]

SetupInit ==
    /\ stage = "idle" /\ caller = "resident" /\ body = NoBody
    /\ answers = [credential |-> "none", variables |-> "none"]
    /\ sources = {} /\ files = {} /\ staged = {}
    /\ tmp = FALSE
    /\ child = "none" /\ exit = "none"
    /\ sig = FALSE /\ timed = FALSE /\ stopped = FALSE
    /\ asked = "no" /\ pm = "none"
    /\ written = 0 /\ offset = 0 /\ delivered = <<>> /\ stray = <<>>
    /\ del = [timer |-> Idle, drain |-> Idle]
    /\ marker = FALSE /\ handled = FALSE /\ ack = "none"
    /\ applied = FALSE /\ noticed = "no" /\ role = "none"
    /\ result = "none" /\ code = "none"

\* Who may have the stricter list, and who has someone to report to.
resolveRouteMode == IF caller = "oneshot" THEN "ecs" ELSE "resident"
Watched == caller # "local"

\* A result before the directory exists, and one after.
Refuse == stage' = "ended" /\ result' = "error"
Fail == stage' = "cleanup" /\ result' = "error"

-----------------------------------------------------------------------------
\* Before the directory: the command, the body, the credential, the variables.

\* executeCommand in the resident agent.
Receive ==
    /\ stage = "idle"
    /\ \E b \in Bodies : body' = b
    /\ stage' = "received"
    /\ UNCHANGED <<caller, childVars, progressVars, shakeVars, stageVars, tmp, result, code>>

\* The container finds out from its environment what to run; without that it
\* can tell nobody.
readOneshotEnv ==
    /\ stage = "idle"
    /\ caller' = "oneshot"
    /\ \/ stage' = "oneshot" /\ UNCHANGED code
       \/ stage' = "over" /\ code' = "1"
    /\ UNCHANGED <<body, childVars, progressVars, shakeVars, stageVars, tmp, result>>

\* It asks for the command; what it cannot get or run is its result.
runOneshot ==
    /\ stage = "oneshot"
    /\ \E b \in Bodies : body' = b
    /\ \/ stage' = "received" /\ UNCHANGED result
       \/ Refuse
    /\ UNCHANGED <<caller, childVars, progressVars, shakeVars, stageVars, tmp, code>>

\* The command line reads files: the recipe, which must be a list,
parseBodyTasks ==
    /\ stage = "idle"
    /\ caller' = "local"
    /\ \E b \in Bodies :
        /\ body' = b
        /\ \/ b.shape \in {"tasks", "play"} /\ stage' = "local" /\ UNCHANGED result
           \/ Refuse
    /\ UNCHANGED <<childVars, progressVars, shakeVars, stageVars, tmp, code>>

\* the variables and the key, in place of what the server answers.
buildLocalCredential ==
    /\ stage = "local"
    /\ \/ stage' = "prepare" /\ UNCHANGED result
       \/ Refuse
    /\ UNCHANGED <<runVars, childVars, progressVars, shakeVars, stageVars, tmp, code>>

\* The payload is complete and its body accepted.
validatePayload ==
    /\ stage = "received"
    /\ \/ validateAnsibleTasks(body, resolveRouteMode) /\ stage' = "fetch" /\ UNCHANGED result
       \/ Refuse  \* as it is when an id is missing
    /\ UNCHANGED <<runVars, childVars, progressVars, shakeVars, stageVars, tmp, code>>

\* One of the two requests settles.
Answer(what) ==
    /\ stage = "fetch" /\ answers[what] = "none"
    /\ \E a \in {"ok", "unfit", "rejected"} : answers' = [answers EXCEPT ![what] = a]
    /\ UNCHANGED <<stage, runVars, childVars, progressVars, shakeVars, sources, files,
                   staged, tmp, result, code>>

\* A host, a user, a port and a key that can be used.
validateSshCredential == answers.credential # "unfit"

\* Both have settled; the variables may hold a name of the precheck's.
runServerSetup ==
    /\ stage = "fetch" /\ \A what \in DOMAIN answers : answers[what] # "none"
    /\ IF /\ answers.credential # "rejected" /\ validateSshCredential
          /\ answers.variables = "ok"
       THEN stage' = "prepare" /\ UNCHANGED result
       ELSE Refuse
    /\ UNCHANGED <<runVars, childVars, progressVars, shakeVars, stageVars, tmp, code>>

-----------------------------------------------------------------------------
\* The directory and what goes into it.

\* The roles, the plugins and the known hosts are there.
ResolvePaths ==
    /\ stage = "prepare"
    /\ \/ stage' = "dir" /\ tmp' = TRUE /\ UNCHANGED result
       \/ Refuse /\ UNCHANGED tmp
    /\ UNCHANGED <<runVars, childVars, progressVars, shakeVars, stageVars, code>>

\* The key, unless the host takes a password, and the inventory.
WriteInventory ==
    /\ stage = "dir"
    /\ \/ stage' = "inventory" /\ UNCHANGED result
       \/ Fail
    /\ UNCHANGED <<runVars, childVars, progressVars, shakeVars, stageVars, tmp, code>>

\* The body is checked again, now with the names of the secrets; a run
\* without a server cannot fetch files.
CollectSources ==
    /\ stage = "inventory"
    /\ \/ /\ validateAnsibleTasks(body, resolveRouteMode)
          /\ sources' = collectSharedFileSources(normalizedTasks(body))
          /\ sources' # {} => Watched
          /\ stage' = IF sources' = {} THEN "write" ELSE "list"
          /\ UNCHANGED result
       \/ Fail /\ UNCHANGED sources
    /\ UNCHANGED <<runVars, childVars, progressVars, shakeVars, answers, files, staged, tmp, code>>

\* The entries of one source, each file once; a list cut short, a source that
\* is not there or a request that fails ends the run.
ListSource ==
    /\ stage = "list" /\ sources # {}
    /\ \/ /\ \E src \in sources :
              /\ files' = files \cup collectFileEntries(src)
              /\ sources' = sources \ {src}
          /\ UNCHANGED <<stage, result>>
       \/ Fail /\ UNCHANGED <<files, sources>>
    /\ UNCHANGED <<runVars, childVars, progressVars, shakeVars, answers, staged, tmp, code>>

\* All are known: none leaves the directory or is too large.
assertWithinLimits ==
    /\ stage = "list" /\ sources = {}
    /\ stage' = "download" \/ Fail
    /\ stage' = "download" => UNCHANGED result
    /\ UNCHANGED <<runVars, childVars, progressVars, shakeVars, stageVars, tmp, code>>

downloadTo(f) ==
    /\ stage = "download" /\ f \in files \ staged
    /\ \/ staged' = staged \cup {f} /\ UNCHANGED <<stage, result>>
       \/ Fail /\ UNCHANGED staged
    /\ UNCHANGED <<runVars, childVars, progressVars, shakeVars, answers, sources, files, tmp, code>>

Staged ==
    /\ stage = "download" /\ files = staged
    /\ stage' = "write"
    /\ UNCHANGED <<runVars, childVars, progressVars, shakeVars, stageVars, tmp, result, code>>

\* Facts, the test of sudo in two steps, the test of the system, the package
\* a role may need to change its user.
Prechecks == [k \in 1 .. 5 |-> PlainTask]
generatePlaybook == Prechecks \o normalizedTasks(body)

\* Variables, playbook, configuration, an empty progress file.
WriteFiles ==
    /\ stage = "write"
    /\ \/ stage' = "spawn" /\ UNCHANGED result
       \/ Fail
    /\ UNCHANGED <<runVars, childVars, progressVars, shakeVars, stageVars, tmp, code>>

-----------------------------------------------------------------------------
\* The child.

\* A stop that came before it takes it at once (ProcessManager.register).
runAnsiblePlaybook ==
    /\ stage = "spawn"
    /\ stage' = "run"
    /\ \E c \in {"running", "unstarted"} : child' = c
    /\ IF Watched /\ pm = "reserved"
       THEN stopped' = TRUE /\ sig' = TRUE /\ pm' = "none"
       ELSE pm' = (IF Watched THEN "entered" ELSE pm) /\ UNCHANGED <<stopped, sig>>
    /\ UNCHANGED <<runVars, exit, timed, asked, progressVars, shakeVars, stageVars, tmp, result, code>>

\* Mutant of cancelProcessWhenRegistered: like chat_cancel, no name is left.
cancelProcess ==
    /\ caller = "resident" /\ stage \notin {"idle", "gone", "over"} /\ asked = "no"
    /\ asked' = IF child = "none" THEN "before" ELSE "later"
    /\ IF pm = "entered"
       THEN stopped' = TRUE /\ sig' = TRUE /\ pm' = "none"
       ELSE UNCHANGED <<pm, stopped, sig>>
    /\ UNCHANGED <<stage, runVars, child, exit, timed, progressVars, shakeVars, stageVars, tmp, result, code>>

\* server_setup_cancel: takes the child there is, or leaves its name.
cancelProcessWhenRegistered ==
    /\ caller = "resident" /\ stage \notin {"idle", "gone", "over"} /\ asked = "no"
    /\ asked' = IF child = "none" THEN "before" ELSE "later"
    /\ IF pm = "entered"
       THEN stopped' = TRUE /\ sig' = TRUE /\ pm' = "none"
       ELSE pm' = "reserved" /\ UNCHANGED <<stopped, sig>>
    /\ UNCHANGED <<stage, runVars, child, exit, timed, progressVars, shakeVars, stageVars, tmp, result, code>>

\* Mutant of TimeUp: the limit is not enforced.
NoTimeUp == FALSE /\ UNCHANGED setupVars

\* Half an hour is over: SIGTERM, once.
TimeUp ==
    /\ child = "running" /\ ~timed
    /\ timed' = TRUE /\ sig' = TRUE
    /\ UNCHANGED <<stage, runVars, child, exit, stopped, asked, pm, progressVars, shakeVars, stageVars, tmp, result, code>>

\* A task starts or ends; the callback plugin appends a line.
WriteEvent ==
    /\ child = "running" /\ ~sig /\ written < MaxEvents
    /\ written' = written + 1
    /\ UNCHANGED <<stage, runVars, childVars, offset, delivered, del, stray, shakeVars, stageVars, tmp, result, code>>

\* It ends by itself; without a task there is nothing it can have succeeded in.
Exits ==
    /\ \/ child = "running" /\ \E e \in {"failed", "garbled"} \cup (IF written > 0 THEN {"ok"} ELSE {}) : exit' = e
       \/ child = "unstarted" /\ exit' = "failed"
    /\ child' = "exited"
    /\ UNCHANGED <<stage, runVars, sig, timed, stopped, asked, pm, progressVars, shakeVars, stageVars, tmp, result, code>>

Killed ==
    /\ child = "running" /\ sig /\ "stubborn" \notin Faults
    /\ child' = "exited" /\ exit' = "killed"
    /\ UNCHANGED <<stage, runVars, sig, timed, stopped, asked, pm, progressVars, shakeVars, stageVars, tmp, result, code>>

-----------------------------------------------------------------------------
\* The tailer: deliveries of the timer and the one of the stop.

\* The lines since the last read are posted, if there are any.
Deliver(i) ==
    LET last == IF written > offset + Chunk THEN offset + Chunk ELSE written
    IN  /\ offset' = last
        /\ del' = [del EXCEPT ![i] = IF last > offset
                                     THEN [pc |-> "posting", from |-> offset + 1, to |-> last, tried |-> 0]
                                     ELSE [Idle EXCEPT !.pc = "polling"]]

\* One delivery at a time; none once the tailer is stopped.
TailerTick ==
    /\ stage = "run" /\ Watched /\ del.timer.pc = "off"
    /\ Deliver("timer")
    /\ UNCHANGED <<stage, runVars, childVars, written, delivered, stray, shakeVars, stageVars, tmp, result, code>>

\* The events of the next request, and what is left of the delivery after it.
RequestEnd(i) == IF del[i].to < del[i].from + PerRequest THEN del[i].to ELSE del[i].from + PerRequest - 1
Request(i) == [k \in 1 .. (RequestEnd(i) + 1 - del[i].from) |-> del[i].from + k - 1]
AfterRequest(i) ==
    IF RequestEnd(i) = del[i].to
    THEN [Idle EXCEPT !.pc = "polling"]
    ELSE [del[i] EXCEPT !.from = RequestEnd(i) + 1, !.tried = 0]

\* One attempt at one request. The server takes it or not, whatever the agent
\* hears of it: an attempt without an answer is repeated, the last one and a
\* refusal end the delivery. A slow server may take one that was given up
\* before a later one.
submitServerSetupProgress(i) ==
    /\ del[i].pc = "posting"
    /\ \E arrives \in {"now", "later", "never"}, heard \in {"yes", "no", "refused"}, first \in {<<>>, stray} :
        /\ delivered' = delivered \o first \o (IF arrives = "now" THEN Request(i) ELSE <<>>)
        /\ stray' = IF arrives = "later" THEN Request(i) ELSE IF first = <<>> THEN stray ELSE <<>>
        /\ arrives = "later" => "slow" \in Faults /\ heard = "no"
        /\ heard = "yes" => arrives = "now"
        /\ heard = "refused" => arrives = "never"
        /\ del' = [del EXCEPT ![i] =
                     CASE heard = "yes" -> AfterRequest(i)
                       [] heard = "no" /\ del[i].tried + 1 < Tries -> [del[i] EXCEPT !.tried = @ + 1]
                       [] OTHER -> [Idle EXCEPT !.pc = "polling"]]
    /\ UNCHANGED <<stage, runVars, childVars, written, offset, shakeVars, stageVars, tmp, result, code>>

\* After the batch the marker is looked for; it is taken once.
check(i) ==
    /\ del[i].pc = "polling"
    /\ IF marker /\ ~handled
       THEN handled' = TRUE /\ del' = [del EXCEPT ![i].pc = "declaring"]
       ELSE del' = [del EXCEPT ![i] = Idle] /\ UNCHANGED handled
    /\ UNCHANGED <<stage, runVars, childVars, written, offset, delivered, stray, marker, ack, applied, noticed,
                   role, stageVars, tmp, result, code>>

\* Mutant of declare: any answer is taken for an acknowledgement.
declareAnyAnswer(i) ==
    /\ del[i].pc = "declaring"
    /\ \E here \in BOOLEAN :
        /\ applied' = here
        /\ ack' \in {"declared", "none"}
        /\ del' = [del EXCEPT ![i] = Idle]
    /\ UNCHANGED <<stage, runVars, childVars, written, offset, delivered, stray, marker, handled, noticed,
                   role, stageVars, tmp, result, code>>

\* The server may apply it or not, and say so, refuse, or not be heard.
declare(i) ==
    /\ del[i].pc = "declaring"
    /\ \E here \in BOOLEAN, says \in {"applied", "not_applied", "rejected", "nothing"} :
        /\ says = "applied" => here
        /\ says \in {"not_applied", "nothing"} => ~here
        /\ says = "nothing" => "old" \in Faults
        /\ applied' = here
        /\ IF says \in {"applied", "nothing"}
           THEN /\ ack' \in {"declared", "none"}  \* the file may fail to be written
                /\ del' = [del EXCEPT ![i] = Idle]
           ELSE del' = [del EXCEPT ![i].pc = "noticing"] /\ UNCHANGED ack
    /\ UNCHANGED <<stage, runVars, childVars, written, offset, delivered, stray, marker, handled, noticed,
                   role, stageVars, tmp, result, code>>

\* The failure goes to the log of the execution, if that can be reached; the
\* role may go on either way.
reportFailure(i) ==
    /\ del[i].pc = "noticing"
    /\ noticed' \in {"told", "unheard"}
    /\ ack' \in {"undeclared", "none"}
    /\ del' = [del EXCEPT ![i] = Idle]
    /\ UNCHANGED <<stage, runVars, childVars, written, offset, delivered, stray, marker, handled, applied,
                   role, stageVars, tmp, result, code>>

\* The child is gone: the timer is cleared.
StopTailer ==
    /\ stage = "run" /\ child = "exited"
    /\ pm' = IF Watched /\ pm = "entered" THEN "none" ELSE pm
    /\ stage' = IF Watched THEN "join" ELSE "outcome"
    /\ UNCHANGED <<runVars, child, exit, sig, timed, stopped, asked, progressVars, shakeVars, stageVars, tmp, result, code>>

\* Mutant of Drain: it does not wait.
DrainBeside ==
    /\ stage = "join"
    /\ stage' = "drain"
    /\ Deliver("drain")
    /\ UNCHANGED <<runVars, childVars, written, delivered, stray, shakeVars, stageVars, tmp, result, code>>

\* stop() waits for the delivery in flight before it makes its own.
Drain ==
    /\ stage = "join" /\ del.timer.pc = "off"
    /\ stage' = "drain"
    /\ Deliver("drain")
    /\ UNCHANGED <<runVars, childVars, written, delivered, stray, shakeVars, stageVars, tmp, result, code>>

Drained ==
    /\ stage = "drain" /\ del.drain.pc = "off"
    /\ stage' = "outcome"
    /\ UNCHANGED <<runVars, childVars, progressVars, shakeVars, stageVars, tmp, result, code>>

-----------------------------------------------------------------------------
\* The role that deploys this agent (ansible/roles/ai_support_agent_k8s).

\* It asks only an agent that watches, and only of the agent's own project.
RoleAsks ==
    /\ child = "running" /\ ~sig /\ role = "none" /\ caller = "resident"
    /\ \E k \in DOMAIN generatePlaybook : roleNameOf(generatePlaybook[k]) = "agent_k8s"
    /\ marker' = TRUE /\ role' = "waiting"
    /\ UNCHANGED <<stage, runVars, childVars, progressVars, handled, ack, applied, noticed, stageVars, tmp, result, code>>

RoleDeploys ==
    /\ child = "running" /\ role = "waiting"
    /\ role' = IF ack = "none" THEN "gave_up" ELSE "deploying"
    /\ UNCHANGED <<stage, runVars, childVars, progressVars, marker, handled, ack, applied, noticed, stageVars, tmp, result, code>>

\* The Pod is replaced: the child and this process are gone.
Replaced ==
    /\ child = "running" /\ role \in {"deploying", "gave_up"}
    /\ stage' = "gone"
    /\ child' = "none"
    /\ del' = [timer |-> Idle, drain |-> Idle]
    /\ UNCHANGED <<runVars, exit, sig, timed, stopped, asked, pm, written, offset, delivered, stray, shakeVars,
                   stageVars, tmp, result, code>>

\* The next start removes directories that are a day old.
cleanupStaleServerSetupDirs ==
    /\ stage = "gone"
    /\ stage' = "over"
    /\ tmp' \in {tmp, FALSE}
    /\ UNCHANGED <<runVars, childVars, progressVars, shakeVars, stageVars, result, code>>

-----------------------------------------------------------------------------
\* The result.

ExitsWith0 == exit \in {"ok", "garbled"}
\* The output is what the json callback prints and names a task.
parseAnsibleOutput == exit # "garbled"

\* A stop goes before the time limit, and an exit of 0 before either; it is a
\* success only with tasks to show.
Outcome ==
    /\ stage = "outcome"
    /\ stage' = "cleanup"
    /\ result' = CASE stopped /\ ~ExitsWith0 -> "stopped"
                   [] ExitsWith0 /\ parseAnsibleOutput -> "success"
                   [] OTHER -> "error"
    /\ UNCHANGED <<runVars, childVars, progressVars, shakeVars, stageVars, tmp, code>>

\* The directory is removed; if that fails, so has the run.
Cleanup ==
    /\ stage = "cleanup"
    /\ stage' = "ended"
    /\ \/ tmp' = FALSE /\ UNCHANGED result
       \/ tmp' = TRUE /\ result' = "error"
    /\ UNCHANGED <<runVars, childVars, progressVars, shakeVars, stageVars, code>>

\* The container exits with 0 only for a success the server has taken.
Submit ==
    /\ stage = "ended"
    /\ stage' = "over"
    /\ IF caller = "resident" THEN UNCHANGED code
       ELSE \E taken \in BOOLEAN : code' = IF taken /\ result = "success" THEN "0" ELSE "1"
    /\ UNCHANGED <<runVars, childVars, progressVars, shakeVars, stageVars, tmp, result>>

-----------------------------------------------------------------------------
Before ==
    \/ Receive \/ readOneshotEnv \/ runOneshot \/ parseBodyTasks \/ buildLocalCredential
    \/ validatePayload
    \/ \E what \in DOMAIN answers : Answer(what)
    \/ runServerSetup \/ ResolvePaths \/ WriteInventory \/ CollectSources
    \/ ListSource \/ assertWithinLimits \/ (\E f \in files : downloadTo(f)) \/ Staged \/ WriteFiles

ByAnsible == WriteEvent \/ Exits \/ Killed \/ RoleAsks \/ RoleDeploys \/ Replaced

Delivery == \E i \in DOMAIN del :
    submitServerSetupProgress(i) \/ check(i) \/ declare(i) \/ reportFailure(i)

Stopping == StopTailer \/ Drain \/ Drained

After == Outcome \/ Cleanup \/ Submit \/ cleanupStaleServerSetupDirs

SetupNext ==
    \/ Before \/ runAnsiblePlaybook \/ ByAnsible \/ TailerTick \/ Delivery \/ Stopping \/ After
    \/ cancelProcessWhenRegistered \/ TimeUp

SetupSpec == SetupInit /\ [][SetupNext]_setupVars

\* Code that can run runs, requests settle, the time limit comes, and a child
\* that has its SIGTERM dies of it.
SetupFairSpec ==
    /\ SetupSpec
    /\ WF_setupVars(Before) /\ WF_setupVars(runAnsiblePlaybook)
    /\ WF_setupVars(Delivery) /\ WF_setupVars(Stopping) /\ WF_setupVars(After)
    /\ WF_setupVars(TimeUp) /\ WF_setupVars(Killed)
    /\ WF_setupVars(Exits /\ child = "unstarted")

-----------------------------------------------------------------------------
SetupTypeOK ==
    /\ stage \in {"idle", "oneshot", "local", "received", "fetch", "prepare", "dir", "inventory", "list", "download", "write",
                  "spawn", "run", "join", "drain", "outcome", "cleanup", "ended", "gone", "over"}
    /\ caller \in {"resident", "oneshot", "local"} /\ body \in Bodies \cup {NoBody}
    /\ answers \in [{"credential", "variables"} -> {"none", "ok", "unfit", "rejected"}]
    /\ sources \subseteq Source /\ files \subseteq {"dir/a", "dir/b"} /\ staged \subseteq files
    /\ child \in {"none", "running", "unstarted", "exited"}
    /\ exit \in {"none", "ok", "failed", "garbled", "killed"}
    /\ sig \in BOOLEAN /\ timed \in BOOLEAN /\ stopped \in BOOLEAN /\ tmp \in BOOLEAN
    /\ pm \in {"none", "reserved", "entered"} /\ asked \in {"no", "before", "later"}
    /\ written \in 0 .. MaxEvents /\ offset \in 0 .. written
    /\ delivered \in Seq(1 .. offset) /\ stray \in Seq(1 .. offset)
    /\ del \in [{"timer", "drain"} ->
                   [pc : {"off", "posting", "polling", "declaring", "noticing"}, from : 0 .. offset, to : 0 .. offset,
                    tried : 0 .. (Tries - 1)]]
    /\ marker \in BOOLEAN /\ handled \in BOOLEAN /\ applied \in BOOLEAN 
    /\ noticed \in {"no", "told", "unheard"}
    /\ ack \in {"none", "declared", "undeclared"} /\ role \in {"none", "waiting", "deploying", "gave_up"}
    /\ result \in {"none", "success", "stopped", "error"} /\ code \in {"none", "0", "1"}

\* What the server takes after a later task it has taken before that task, too:
\* the order of first arrivals is the order the tasks ran in, although answers
\* are lost, requests repeated and given up, and the last delivery follows the
\* child's end and not the timer. What is repeated is repeated within one
\* request (api-client.ts); and when the run is over every line of the file has
\* been handed on (progress-tailer.ts).
InOrder ==
    \A i, j \in DOMAIN delivered :
        i < j /\ delivered[j] <= delivered[i]
        => /\ \E h \in 1 .. i : delivered[h] = delivered[j]
           /\ delivered[i] < delivered[j] + PerRequest
AllReported == stage \in {"outcome", "cleanup", "ended"} /\ child = "exited" /\ Watched => offset = written
ProgressComplete == InOrder /\ AllReported

\* An agent that is about to be replaced by its own recipe has said so, or it
\* could not and has tried to leave a notice in the log of the execution; unless
\* the role got tired of waiting (self-restart-declaration.ts).
RestartAnnounced ==
    role = "deploying" => \/ ack = "declared" /\ applied
                          \/ ack = "undeclared" /\ noticed # "no"

\* A stop that comes before there is a process still reaches it: the run does
\* not succeed (commands/process-manager.ts).
StopReaches == asked = "before" => result # "success"

\* The files a recipe distributes are there when the playbook starts
\* (shared-file-staging.ts), and no directory with keys outlives a run that
\* says it went well.
FilesInPlace ==
    stage = "run" =>
        \A k \in DOMAIN body.tasks :
            /\ body.tasks[k].module \in {"include_role", "include_role_short"}
            /\ body.tasks[k].role = "shared_file"
            => collectFileEntries(normalizeSource(body.tasks[k].src)) \subseteq staged
KeysRemoved == stage = "ended" /\ tmp => result = "error"
FilesKept == FilesInPlace /\ KeysRemoved

\* Every setup ends, with a result or with its agent.
SetupEnds == (stage # "idle") ~> (stage = "over")

\* What a setup owes to its callers besides progress: a stop that is heeded, a
\* restart that is announced, the files it distributes and the keys it removes.
SetupSound == SetupTypeOK /\ StopReaches /\ RestartAnnounced /\ FilesKept
=============================================================================

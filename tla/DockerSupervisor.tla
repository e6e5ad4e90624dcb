--------------------------- MODULE DockerSupervisor ---------------------------
(***************************************************************************)
(* Docker mode on the host: DockerSupervisor keeps one container per       *)
(* project, rebuilds the image of a project when its agent asks for it,    *)
(* stops all containers and replaces its own process for an update, and    *)
(* ends with the last container (docker-supervisor.ts, update-handler.ts,  *)
(* docker-runner.ts, auto-updater.ts; performReboot(),                     *)
(* performDockerRebuild() and performUpdate() of project-agent.ts).        *)
(*                                                                         *)
(* Host process, containers and builds run in parallel. The host learns    *)
(* of the end of a container by a `close' event, later. What is on the     *)
(* disk and the images outlive both.                                       *)
(***************************************************************************)
EXTENDS Integers, FiniteSets

CONSTANTS
  Project,     \* registered projects
  MaxCust,     \* bound: docker customizations a project may get
  MaxVersion,  \* bound: versions of the CLI, 0 being the first
  MaxFaults,   \* bound: events of the environment
  Faults       \* the kinds of event the environment may show

\* reboot, update: commands to the agent in a container; exit: a container
\* ends by itself; customize: the server has a new docker customization;
\* write: the agent cannot write all of its files; build: docker build fails;
\* install: npm install fails; signal: SIGINT or SIGTERM; crash: the host
\* process is killed; start: someone starts it again; auto: the updater of the
\* host finds a new version.
FaultKind == {"reboot", "update", "exit", "customize", "write", "build",
              "install", "signal", "crash", "start", "auto"}

ASSUME DockerAssumption ==
  /\ MaxCust \in Nat /\ MaxVersion \in Nat /\ MaxFaults \in Nat
  /\ Faults \subseteq FaultKind

VARIABLES
  host,       \* the host process, see HostState
  version,    \* AGENT_VERSION of the host process, tag of its images
  installed,  \* version that npm has installed on the host
  updating,   \* DockerSupervisor.updating
  update,     \* the update begun by exit code 42: "none", "stop" or "install"
  auto,       \* startAutoUpdater(): "idle", "stop" (awaits stopAllAgents()),
              \* or "failed" (lastFailedVersion)
  awaits,     \* containers whose end either of them awaits in stopAll()
  closing,    \* containers whose closedPromise shutdown() awaits
  handles,    \* keys of DockerSupervisor.handles
  building,   \* projects whose rebuildAndRestart() awaits the build
  container,  \* the container of each project, see Container
  disk,       \* config directory of each project, see Disk
  image,      \* project image per version: the customization, 0: no image
  want,       \* customization of the project on the server, 0: none
  left        \* bound: events of the environment still to come

vars == <<host, version, installed, updating, update, auto, awaits, closing,
          handles, building, container, disk, image, want, left>>

Cust == 0 .. MaxCust
Version == 0 .. MaxVersion
Exit == {0, 1, 42, 43}
Restart == 43  \* DOCKER_RESTART_EXIT_CODE
Update == 42   \* DOCKER_UPDATE_EXIT_CODE

\* stopping: shutdown() awaits the containers; restarting: re-executed;
\* ended: process.exit() with the last container; stopped: after a signal.
HostState == {"up", "stopping", "restarting", "ended", "stopped", "crashed"}
HostAlive == host \in {"up", "stopping"}

\* st: "leaving" shuts down to end with `code', "over" has ended unnoticed;
\* asked: SIGTERM has been sent; rebuild: it leaves by performDockerRebuild();
\* image: customization in its image; known: dockerCustomizationHash of its
\* agent; late: it was started after stopAll().
Container == [st: {"none", "up", "leaving", "over"}, code: Exit, asked: BOOLEAN,
              rebuild: BOOLEAN, image: Cust, known: Cust, late: BOOLEAN]
NoContainer == [st |-> "none", code |-> 0, asked |-> FALSE, rebuild |-> FALSE,
                image |-> 0, known |-> 0, late |-> FALSE]
Running(p) == container[p].st \in {"up", "leaving"}

\* docker-rebuild-needed, the customization in Dockerfile, docker-customization-
\* hash, docker-built-hash (0: no file) and docker-build-error. torn is history:
\* the last build found a Dockerfile whose hash had not been written.
Disk == [marker: BOOLEAN, file: Cust, cust: Cust, built: Cust, error: BOOLEAN,
         torn: BOOLEAN]

Fault(kind) == kind \in Faults /\ left > 0 /\ left' = left - 1
Stopping == update # "none" \/ auto = "stop" \/ host = "stopping"

-----------------------------------------------------------------------------
(* DockerSupervisor: start, rebuild, end of a container.                   *)

\* The check of spawnProject() before it starts a container.
Stale(d) == d.cust # 0 /\ d.built # 0 /\ d.cust # d.built

\* What `docker run' starts, from the image that resolveImageTag() finds.
Started(d, built) ==
  [NoContainer EXCEPT !.st = "up", !.image = built, !.known = d.built,
                      !.late = Stopping]

\* spawnProject() of every project in P, with the directories as d and the
\* images as img has them: some are rebuilt first.
SpawnProjects(P, d, img) ==
  LET stale == {p \in P : Stale(d[p])} IN
  /\ handles' = (handles \ P) \union (P \ stale)
  /\ building' = (building \ P) \union stale
  /\ disk' = [p \in Project |->
                IF p \in stale THEN [d[p] EXCEPT !.marker = FALSE] ELSE d[p]]
  /\ container' = [p \in Project |-> IF p \in P \ stale THEN Started(d[p], img[p])
                                     ELSE IF p \in P \intersect handles THEN NoContainer
                                     ELSE container[p]]
ImageOf(img, v) == [p \in Project |-> img[p][v]]

\* Mutant of RebuildAndRestart: the hash is copied before the build.
RebuildAndRestartHashed(p) ==
  IF disk[p].marker \/ disk[p].file # 0
  THEN /\ building' = building \union {p}
       /\ handles' = handles \ {p}
       /\ disk' = [disk EXCEPT ![p].marker = FALSE, ![p].built = disk[p].cust]
       /\ container' = [container EXCEPT ![p] = NoContainer]
  ELSE SpawnProjects({p}, disk, ImageOf(image, version))

\* rebuildAndRestart(), always called with forceIfDockerfileExists.
RebuildAndRestart(p) ==
  IF disk[p].marker \/ disk[p].file # 0
  THEN /\ building' = building \union {p}
       /\ handles' = handles \ {p}
       /\ disk' = [disk EXCEPT ![p].marker = FALSE]
       /\ container' = [container EXCEPT ![p] = NoContainer]
  ELSE SpawnProjects({p}, disk, ImageOf(image, version))

\* Mutant of Built: the hash is only copied over one that is there.
BuiltAgain(d, done) ==
  [d EXCEPT !.built = IF d.built # 0 THEN d.cust ELSE 0, !.error = ~done,
            !.torn = d.file # d.cust]

\* What a build leaves in the directory; a failed one counts as built too.
Built(d, done) ==
  [d EXCEPT !.built = IF d.cust # 0 THEN d.cust ELSE d.built, !.error = ~done,
            !.torn = d.file # d.cust]

\* The build ends and rebuildAndRestart() goes on to spawnProject(), whatever
\* else the supervisor is doing.
BuildEnds(p) ==
  /\ HostAlive /\ p \in building
  /\ \E done \in BOOLEAN :
       /\ IF done THEN UNCHANGED left ELSE Fault("build")
       /\ image' = [image EXCEPT ![p][version] = IF done THEN disk[p].file ELSE @]
       /\ SpawnProjects({p}, [disk EXCEPT ![p] = Built(@, done)], ImageOf(image', version))
  /\ UNCHANGED <<host, version, installed, updating, update, auto, awaits,
                 closing, want>>

-----------------------------------------------------------------------------
(* stopAll() and the end of the host process.                              *)

Caller == {"update", "auto"}

\* docker stop for every handle in "keys", those that are left; "who" awaits
\* the containers that have not ended yet, shutdown() does not.
StopAll(who, keys) ==
  /\ handles' = keys
  /\ container' = [p \in Project |->
       IF p \in handles \ keys THEN NoContainer
       ELSE IF p \in keys /\ Running(p) THEN [container[p] EXCEPT !.asked = TRUE]
       ELSE container[p]]
  /\ awaits' = [w \in Caller |-> IF w = who THEN {p \in keys : Running(p)} ELSE awaits[w]]

\* The process is gone. Containers run on; docker run --rm removes the ended.
HostGone(how) ==
  /\ host' = how
  /\ handles' = {} /\ building' = {} /\ closing' = {}
  /\ awaits' = [w \in Caller |-> {}]
  /\ updating' = FALSE /\ update' = "none" /\ auto' = "idle"
  /\ container' = [p \in Project |->
                     IF container[p].st = "over" THEN NoContainer ELSE container[p]]

\* The close event of the container, with its exit code.
Closes(p) == HostAlive /\ p \in handles /\ container[p].st = "over"

\* Mutant of UpdateRequested: the flag is not set.
UpdateRequestedUnflagged(p) ==
  /\ Closes(p) /\ container[p].code = Update /\ ~updating
  /\ update' = "stop"
  /\ StopAll("update", handles \ {p})
  /\ closing' = closing \ {p}
  /\ UNCHANGED <<host, updating, version, installed, auto, building, disk, image, want, left>>

\* ... 42: all containers are stopped for the update.
UpdateRequested(p) ==
  /\ Closes(p) /\ container[p].code = Update /\ ~updating
  /\ updating' = TRUE /\ update' = "stop"
  /\ StopAll("update", handles \ {p})
  /\ closing' = closing \ {p}
  /\ UNCHANGED <<host, version, installed, auto, building, disk, image, want, left>>

\* ... 43: this container comes back, from a new image if there is a Dockerfile.
RestartRequested(p) ==
  /\ Closes(p) /\ container[p].code = Restart /\ ~updating
  /\ RebuildAndRestart(p)
  /\ closing' = closing \ {p}
  /\ UNCHANGED <<host, version, installed, updating, update, auto, awaits,
                 image, want, left>>

\* What the close handler takes for the end of all containers.
IsLast(p) == handles = {p} /\ ~updating /\ container[p].code \notin {Update, Restart}

\* ... any other: the host process ends with the last container.
LastCloses(p) ==
  /\ Closes(p) /\ IsLast(p)
  /\ HostGone("ended")
  /\ UNCHANGED <<version, installed, disk, image, want, left>>

\* Mutant of CloseSeen: the handle is kept.
CloseSeenKept(p) ==
  /\ Closes(p) /\ (updating \/ (container[p].code \notin {Update, Restart} /\ ~IsLast(p)))
  /\ closing' = closing \ {p}
  /\ container' = [container EXCEPT ![p] = NoContainer]
  /\ UNCHANGED <<host, version, installed, updating, update, auto, awaits,
                 handles, building, disk, image, want, left>>

\* ... one of several, or while all are stopped.
CloseSeen(p) ==
  /\ Closes(p) /\ (updating \/ (container[p].code \notin {Update, Restart} /\ ~IsLast(p)))
  /\ handles' = handles \ {p} /\ closing' = closing \ {p}
  /\ container' = [container EXCEPT ![p] = NoContainer]
  /\ UNCHANGED <<host, version, installed, updating, update, auto, awaits,
                 building, disk, image, want, left>>

\* installUpdateAndRestart() follows stopAll(); it installs the version the
\* container has left, or fails to and goes on with the one there is.
Install ==
  /\ HostAlive /\ update = "stop" /\ awaits["update"] = {}
  /\ update' = "install"
  /\ \/ installed' = MaxVersion /\ UNCHANGED left
     \/ Fault("install") /\ UNCHANGED installed
  /\ UNCHANGED <<host, version, updating, auto, awaits, closing, handles,
                 building, container, disk, image, want>>

\* check() of the host's updater: a new version is installed, then all
\* containers are stopped. A failure keeps it from trying this version again.
AutoUpdate ==
  /\ HostAlive /\ auto = "idle" /\ version < MaxVersion
  /\ Fault("auto")
  /\ \/ /\ auto' = "stop" /\ installed' = MaxVersion
        /\ StopAll("auto", handles)
     \/ /\ auto' = "failed" /\ "install" \in Faults
        /\ UNCHANGED <<installed, awaits, handles, container>>
  /\ UNCHANGED <<host, version, updating, update, closing, building, disk, image, want>>

\* reExecProcess().
ReExec ==
  /\ HostAlive
  /\ \/ update = "install"
     \/ auto = "stop" /\ awaits["auto"] = {}
  /\ HostGone("restarting")
  /\ UNCHANGED <<version, installed, disk, image, want, left>>

\* shutdown() on a signal; Ctrl+C reaches it too.
Signal ==
  /\ host = "up" /\ Fault("signal")
  /\ host' = "stopping" /\ updating' = TRUE /\ closing' = handles
  /\ StopAll("signal", handles)
  /\ UNCHANGED <<version, installed, update, auto, building, disk, image, want>>

\* All are closed, or the timer fires: it leaves docker stop the time to end
\* the containers, and gives up on their logs only.
ShutdownEnds ==
  /\ host = "stopping" /\ \A p \in closing : ~Running(p)
  /\ HostGone("stopped")
  /\ UNCHANGED <<version, installed, disk, image, want, left>>

HostCrashes ==
  /\ HostAlive /\ Fault("crash")
  /\ HostGone("crashed")
  /\ UNCHANGED <<version, installed, disk, image, want>>

\* runInDocker() and start(): a new process, whose removeStaleContainer() takes
\* what the last one has left running.
HostStarts ==
  /\ \/ host = "restarting" /\ UNCHANGED left
     \/ host \in {"ended", "stopped", "crashed"} /\ Fault("start")
  /\ host' = "up" /\ version' = installed
  /\ SpawnProjects(Project, disk, ImageOf(image, installed))
  /\ UNCHANGED <<installed, updating, update, auto, awaits, closing, image, want>>

-----------------------------------------------------------------------------
(* The agents in the containers.                                           *)

\* A reboot or update command: the agent shuts down and ends with its code.
CommandEnds(p) ==
  /\ container[p].st = "up" /\ ~container[p].asked
  /\ \E code \in {Restart, Update} :
       /\ Fault(IF code = Restart THEN "reboot" ELSE "update")
       /\ code = Update => version < MaxVersion
       /\ container' = [container EXCEPT ![p].st = "leaving", ![p].code = code]
  /\ UNCHANGED <<host, version, installed, updating, update, auto, awaits,
                 closing, handles, building, disk, image, want>>

\* performConfigSync() finds another customization than the agent knows.
ConfigSync(p) ==
  /\ container[p].st = "up" /\ ~container[p].asked /\ container[p].known # want[p]
  /\ container' = [container EXCEPT
       ![p].known = want[p],
       ![p].st = IF want[p] # 0 THEN "leaving" ELSE @,
       ![p].code = IF want[p] # 0 THEN Restart ELSE @,
       ![p].rebuild = want[p] # 0]
  /\ UNCHANGED <<host, version, installed, updating, update, auto, awaits,
                 closing, handles, building, disk, image, want, left>>

\* The files performDockerRebuild() writes before it exits, in their order.
Written(d, c, steps) ==
  [d EXCEPT !.file   = IF steps > 0 THEN c ELSE @,
            !.cust   = IF steps > 1 THEN c ELSE @,
            !.marker = IF steps > 2 THEN TRUE ELSE @]

\* The container ends; a plain SIGTERM ends it with 0, also before a delayed
\* exit it had coming. Without a host process it is just removed.
ContainerEnds(p, code) ==
  /\ container' = [container EXCEPT ![p] =
       IF p \in handles THEN [@ EXCEPT !.st = "over", !.code = code] ELSE NoContainer]
  /\ awaits' = [w \in Caller |-> awaits[w] \ {p}]
  /\ UNCHANGED <<host, version, installed, updating, update, auto, closing,
                 handles, building, image, want>>

Stopped(p) ==
  /\ Running(p) /\ container[p].asked
  /\ ContainerEnds(p, 0)
  /\ UNCHANGED <<disk, left>>

Leaves(p) ==
  /\ container[p].st = "leaving"
  /\ \E steps \in 0 .. 3 :
       /\ IF steps = 3 THEN UNCHANGED left ELSE container[p].rebuild /\ Fault("write")
       /\ disk' = IF container[p].rebuild
                  THEN [disk EXCEPT ![p] = Written(@, container[p].known, steps)] ELSE disk
  /\ ContainerEnds(p, container[p].code)

\* A crash, or an agent that gives up.
Exits(p) ==
  /\ Running(p) /\ Fault("exit")
  /\ ContainerEnds(p, 1)
  /\ UNCHANGED disk

\* External: someone changes the customization of a project on the server.
Customize(p) ==
  /\ \E c \in Cust \ {want[p]} : want' = [want EXCEPT ![p] = c]
  /\ Fault("customize")
  /\ UNCHANGED <<host, version, installed, updating, update, auto, awaits,
                 closing, handles, building, container, disk, image>>

-----------------------------------------------------------------------------
NewDirectory == [marker |-> FALSE, file |-> 0, cust |-> 0, built |-> 0, error |-> FALSE,
                 torn |-> FALSE]

Init ==
  /\ host = "up" /\ version = 0 /\ installed = 0
  /\ updating = FALSE /\ update = "none" /\ auto = "idle"
  /\ awaits = [w \in Caller |-> {}] /\ closing = {}
  /\ handles = Project /\ building = {}
  /\ container = [p \in Project |-> [NoContainer EXCEPT !.st = "up"]]
  /\ disk = [p \in Project |-> NewDirectory]
  /\ image = [p \in Project |-> [v \in Version |-> 0]]
  /\ want = [p \in Project |-> 0]
  /\ left = MaxFaults

SupervisorStep(p) ==
  BuildEnds(p) \/ UpdateRequested(p) \/ RestartRequested(p) \/ LastCloses(p) \/ CloseSeen(p)

AgentStep(p) == ConfigSync(p) \/ Stopped(p) \/ Leaves(p)

HostStep == Install \/ ReExec \/ ShutdownEnds \/ (host = "restarting" /\ HostStarts)

Next ==
  \/ \E p \in Project : SupervisorStep(p) \/ AgentStep(p)
  \/ \E p \in Project : CommandEnds(p) \/ Exits(p) \/ Customize(p)
  \/ HostStep \/ HostStarts \/ AutoUpdate \/ Signal \/ HostCrashes

Spec == Init /\ [][Next]_vars

\* Events are delivered, builds, installs and shutdowns end, a process that was
\* started starts. Nothing is assumed of the environment.
FairSpec ==
  /\ Spec /\ WF_vars(HostStep)
  /\ \A p \in Project : WF_vars(SupervisorStep(p)) /\ WF_vars(AgentStep(p))

-----------------------------------------------------------------------------
(* Properties.                                                             *)

\* Every variable keeps its type.
TypeOK ==
  /\ host \in HostState
  /\ version \in Version /\ installed \in Version
  /\ updating \in BOOLEAN
  /\ update \in {"none", "stop", "install"}
  /\ auto \in {"idle", "stop", "failed"}
  /\ awaits \in [Caller -> SUBSET Project]
  /\ closing \subseteq Project
  /\ handles \subseteq Project /\ building \subseteq Project
  /\ container \in [Project -> Container]
  /\ disk \in [Project -> Disk]
  /\ image \in [Project -> [Version -> Cust]]
  /\ want \in [Project -> Cust]
  /\ left \in 0 .. MaxFaults

\* A project is never started twice: while it has a handle or a build, nothing
\* else starts it, and a container without either is one that a former process
\* has left (handles, rebuildAndRestart, removeStaleContainer).
OneOwner ==
  /\ handles \intersect building = {}
  /\ \A p \in handles : container[p].st # "none"
  /\ \A p \in building : ~Running(p)
  /\ \A p \in Project : container[p].st = "over" => p \in handles

\* The supervisor replaces or ends its process only when all containers it had
\* asked to stop have ended: the new process would take them away in the middle
\* of a command (stopAll() is awaited before installUpdateAndRestart()).
StopsFirst ==
  [][host' \in {"restarting", "stopped", "ended"} /\ HostAlive =>
       \A p \in handles : Running(p) => container[p].late]_vars

\* An update a container has asked for ends in a new host process, unless the
\* old one is stopped or killed meanwhile (updating, close handler).
UpdateReturns ==
  (update # "none") ~> (host \in {"restarting", "stopping", "stopped", "crashed"})

\* A container that asked to be restarted runs again, whatever becomes of the
\* build, unless all are stopped or the host process is gone
\* (RestartRequested, BuildEnds).
RestartReturns ==
  \A p \in Project :
    (p \in handles /\ container[p].st = "over" /\ container[p].code = Restart) ~>
      (container[p].st = "up" \/ updating \/ ~HostAlive)

\* A customization reaches its container: rebuilding comes to an end, also when
\* builds fail (the built hash is written in any case). A container that ended
\* by itself is not brought back.
CustomizationFollows ==
  \A p \in Project : \A c \in 1 .. MaxCust :
    (want[p] = c) ~> (want[p] # c \/ ~HostAlive \/ p \notin handles \union building
                      \/ (container[p].st = "up" /\ container[p].known = c))

\* All three: whatever has left in order to come back does, and with what it left for.
ComesBack == UpdateReturns /\ RestartReturns /\ CustomizationFollows

\* A project is handed over from one owner to the next: it never has two, and
\* the host goes only after the containers that it stops.
HandedOver == [](TypeOK /\ OneOwner) /\ StopsFirst

\* An agent that has nothing more to rebuild runs in an image with the
\* customization it was given, through crashes at any point (the order of
\* Dockerfile, hash, marker, build, docker-built-hash), unless the build is
\* marked as failed or found a Dockerfile without its hash. An image is built
\* for one version.
CustomizationKept ==
  \A p \in Project :
    container[p].st = "up" /\ container[p].known = want[p] /\ want[p] # 0 =>
      \/ container[p].image = want[p]
      \/ disk[p].error \/ disk[p].torn
      \/ \E v \in Version \ {version} : image[p][v] # 0
=============================================================================

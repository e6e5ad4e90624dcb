------------------------ MODULE DockerSupervisor_proofs ------------------------
(***************************************************************************)
(* Docker mode for any number of projects, versions, customizations and    *)
(* events of the environment: no project has two owners, the host process  *)
(* goes only after the containers that it stops, and an agent runs in the  *)
(* image of the customization it knows.                                    *)
(***************************************************************************)
EXTENDS DockerSupervisor, TLAPS

-----------------------------------------------------------------------------
(* The invariant.                                                          *)

\* What concerns one project. A container runs only from a directory that needs
\* no rebuild (so that a start which rebuilds first finds none running), and one
\* that runs during a stop has either been started since or is waited for by
\* everyone who stops.
Own(p) ==
  /\ ~(p \in handles /\ p \in building)
  /\ p \in handles => container[p].st # "none"
  /\ p \in building => ~Running(p)
  /\ container[p].st = "over" => p \in handles
  /\ Running(p) => ~Stale(disk[p])

AwaitedBy(p) ==
  p \in handles /\ Running(p) /\ ~container[p].late =>
    /\ update = "stop" => p \in awaits["update"]
    /\ update # "install"
    /\ auto = "stop" => p \in awaits["auto"]
    /\ host = "stopping" => p \in closing

\* A host process that has gone leaves nothing behind; one that stops says so.
Clean ==
  /\ ~HostAlive => handles = {} /\ building = {} /\ update = "none" /\ auto = "idle"
  /\ update # "none" \/ host = "stopping" => updating

Owned == TypeOK /\ Clean /\ \A p \in Project : Own(p) /\ AwaitedBy(p)

-----------------------------------------------------------------------------
(* What the operators return.                                              *)

LEMMA StartedType ==
  ASSUME NEW d \in Disk, NEW c \in Cust
  PROVE  Started(d, c) \in Container /\ Started(d, c).st = "up" /\ Started(d, c).late = Stopping
  <1>1. Stopping \in BOOLEAN
    BY Zenon DEF Stopping
  <1>2. d.built \in Cust
    BY DEF Disk
  <1>3. PICK k \in Cust, late \in BOOLEAN : k = d.built /\ late = Stopping
    BY <1>1, <1>2
  <1>4. Started(d, c) = [NoContainer EXCEPT !.st = "up", !.image = c, !.known = k, !.late = late]
    BY <1>3 DEF Started
  <1> QED BY <1>3, <1>4, DockerAssumption DEF NoContainer, Container, Exit, Cust

LEMMA NoContainerType == NoContainer \in Container /\ NoContainer.st = "none"
  BY DockerAssumption DEF NoContainer, Container, Exit, Cust

LEMMA BuiltType ==
  ASSUME NEW d \in Disk, NEW done \in BOOLEAN
  PROVE  Built(d, done) \in Disk /\ ~Stale(Built(d, done))
  BY DEF Built, Disk, Stale

LEMMA WrittenType ==
  ASSUME NEW d \in Disk, NEW c \in Cust, NEW steps \in 0 .. 3
  PROVE  Written(d, c, steps) \in Disk
  BY DEF Written, Disk

LEMMA FaultType == ASSUME TypeOK, NEW k, Fault(k) PROVE left' \in 0 .. MaxFaults
  BY DockerAssumption DEF TypeOK, Fault

LEMMA SpawnTypes ==
  ASSUME TypeOK, NEW P \in SUBSET Project, NEW d \in [Project -> Disk], NEW img \in [Project -> Cust],
         SpawnProjects(P, d, img)
  PROVE  /\ handles' \subseteq Project /\ building' \subseteq Project
         /\ disk' \in [Project -> Disk] /\ container' \in [Project -> Container]
  <1>1. handles' \subseteq Project /\ building' \subseteq Project
    BY DEF SpawnProjects, TypeOK
  <1>2. ASSUME NEW p \in Project PROVE [d[p] EXCEPT !.marker = FALSE] \in Disk
    BY DEF Disk
  <1>3. disk' \in [Project -> Disk]
    BY <1>2 DEF SpawnProjects
  <1>4. ASSUME NEW p \in Project PROVE Started(d[p], img[p]) \in Container /\ container[p] \in Container
    BY StartedType DEF TypeOK
  <1>5. container' \in [Project -> Container]
    BY <1>4, NoContainerType DEF SpawnProjects
  <1> QED BY <1>1, <1>3, <1>5

\* The effect of spawnProject() on one project.
LEMMA SpawnOne ==
  ASSUME TypeOK, NEW P \in SUBSET Project, NEW d \in [Project -> Disk], NEW img \in [Project -> Cust],
         SpawnProjects(P, d, img), NEW p \in Project
  PROVE  /\ p \notin P =>
               /\ container'[p] = container[p] /\ disk'[p] = d[p]
               /\ (p \in handles' <=> p \in handles) /\ (p \in building' <=> p \in building)
         /\ p \in P /\ Stale(d[p]) =>
               /\ p \notin handles' /\ p \in building'
               /\ container'[p] = IF p \in handles THEN NoContainer ELSE container[p]
         /\ p \in P /\ ~Stale(d[p]) =>
               /\ p \in handles' /\ p \notin building'
               /\ disk'[p] = d[p]
               /\ container'[p] = Started(d[p], img[p])
  BY DEF SpawnProjects, TypeOK

LEMMA StopAllTypes ==
  ASSUME TypeOK, NEW who, NEW keys \in SUBSET Project, StopAll(who, keys)
  PROVE  /\ handles' \subseteq Project
         /\ container' \in [Project -> Container]
         /\ awaits' \in [Caller -> SUBSET Project]
  <1>1. ASSUME NEW p \in Project
        PROVE  container[p] \in Container /\ [container[p] EXCEPT !.asked = TRUE] \in Container
    BY DEF TypeOK, Container
  <1>2. container' \in [Project -> Container]
    BY <1>1, NoContainerType DEF StopAll
  <1>3. awaits' \in [Caller -> SUBSET Project]
    BY DEF StopAll, TypeOK
  <1> QED BY <1>2, <1>3 DEF StopAll

LEMMA GoneTypes ==
  ASSUME TypeOK, NEW how \in HostState, HostGone(how)
  PROVE  /\ host' \in HostState /\ handles' \subseteq Project /\ building' \subseteq Project
         /\ closing' \subseteq Project /\ awaits' \in [Caller -> SUBSET Project]
         /\ updating' \in BOOLEAN /\ update' \in {"none", "stop", "install"} /\ auto' \in {"idle", "stop", "failed"}
         /\ container' \in [Project -> Container]
  <1>1. container' \in [Project -> Container]
    BY NoContainerType DEF HostGone, TypeOK
  <1> QED BY <1>1 DEF HostGone, TypeOK

LEMMA EndsTypes ==
  ASSUME TypeOK, NEW p \in Project, NEW code \in Exit, ContainerEnds(p, code)
  PROVE  /\ container' \in [Project -> Container] /\ awaits' \in [Caller -> SUBSET Project]
         /\ UNCHANGED <<host, version, installed, updating, update, auto, closing,
                        handles, building, image, want>>
  <1>1. container[p] \in Container /\ [container[p] EXCEPT !.st = "over", !.code = code] \in Container
    BY DEF TypeOK, Container
  <1>2. container' \in [Project -> Container]
    BY <1>1, NoContainerType DEF ContainerEnds, TypeOK
  <1>3. awaits' \in [Caller -> SUBSET Project]
    BY DEF ContainerEnds, TypeOK
  <1> QED BY <1>2, <1>3 DEF ContainerEnds

LEMMA ImageOfType ==
  ASSUME NEW img \in [Project -> [Version -> Cust]], NEW v \in Version
  PROVE  ImageOf(img, v) \in [Project -> Cust]
  BY DEF ImageOf

-----------------------------------------------------------------------------
(* Types.                                                                  *)

LEMMA TypeInit == ASSUME Init PROVE TypeOK
  <1>1. [NoContainer EXCEPT !.st = "up"] \in Container
    BY NoContainerType DEF Container
  <1>2. NewDirectory \in Disk
    BY DockerAssumption DEF NewDirectory, Disk, Cust
  <1>3. container \in [Project -> Container]
    BY <1>1 DEF Init
  <1>4. disk \in [Project -> Disk] /\ want \in [Project -> Cust] /\ image \in [Project -> [Version -> Cust]]
    BY <1>2, DockerAssumption DEF Init, Cust
  <1>5. awaits \in [Caller -> SUBSET Project]
    BY DEF Init
  <1>6. version \in Version /\ installed \in Version /\ left \in 0 .. MaxFaults
    BY DockerAssumption DEF Init, Version
  <1> QED BY <1>3, <1>4, <1>5, <1>6 DEF Init, TypeOK, HostState

LEMMA TypeSupervisor ==
  ASSUME TypeOK, NEW p \in Project, SupervisorStep(p)
  PROVE  TypeOK'
  <1>1. CASE BuildEnds(p)
    <2>1. PICK done \in BOOLEAN :
             /\ IF done THEN UNCHANGED left ELSE Fault("build")
             /\ image' = [image EXCEPT ![p][version] = IF done THEN disk[p].file ELSE @]
             /\ SpawnProjects({p}, [disk EXCEPT ![p] = Built(@, done)], ImageOf(image', version))
      BY <1>1 DEF BuildEnds
    <2>2. disk[p] \in Disk /\ disk[p].file \in Cust
      BY DEF TypeOK, Disk
    <2>3. image' \in [Project -> [Version -> Cust]]
      BY <2>1, <2>2 DEF TypeOK
    <2>4. [disk EXCEPT ![p] = Built(@, done)] \in [Project -> Disk]
      BY <2>2, BuiltType DEF TypeOK
    <2>5. ImageOf(image', version) \in [Project -> Cust]
      BY <2>3, ImageOfType DEF TypeOK
    <2>6. left' \in 0 .. MaxFaults
      BY <2>1, FaultType DEF TypeOK
    <2>7. /\ handles' \subseteq Project /\ building' \subseteq Project
          /\ disk' \in [Project -> Disk] /\ container' \in [Project -> Container]
      BY <2>1, <2>4, <2>5, SpawnTypes
    <2> QED BY <1>1, <2>3, <2>6, <2>7 DEF BuildEnds, TypeOK
  <1>2. CASE UpdateRequested(p)
    <2>1. handles \ {p} \in SUBSET Project /\ StopAll("update", handles \ {p})
      BY <1>2 DEF UpdateRequested, TypeOK
    <2> QED BY <1>2, <2>1, StopAllTypes DEF UpdateRequested, TypeOK
  <1>3. CASE RestartRequested(p)
    <2>1. CASE disk[p].marker \/ disk[p].file # 0
      <3>1. /\ building' = building \union {p} /\ handles' = handles \ {p}
            /\ disk' = [disk EXCEPT ![p].marker = FALSE]
            /\ container' = [container EXCEPT ![p] = NoContainer]
        BY <1>3, <2>1 DEF RestartRequested, RebuildAndRestart
      <3>2. disk' \in [Project -> Disk]
        BY <3>1 DEF TypeOK, Disk
      <3>3. container' \in [Project -> Container]
        BY <3>1, NoContainerType DEF TypeOK
      <3> QED BY <1>3, <3>1, <3>2, <3>3 DEF RestartRequested, TypeOK
    <2>2. CASE ~(disk[p].marker \/ disk[p].file # 0)
      <3>1. SpawnProjects({p}, disk, ImageOf(image, version))
        BY <1>3, <2>2 DEF RestartRequested, RebuildAndRestart
      <3>2. ImageOf(image, version) \in [Project -> Cust]
        BY ImageOfType DEF TypeOK
      <3>3. /\ handles' \subseteq Project /\ building' \subseteq Project
            /\ disk' \in [Project -> Disk] /\ container' \in [Project -> Container]
        BY <3>1, <3>2, SpawnTypes DEF TypeOK
      <3> QED BY <1>3, <3>3 DEF RestartRequested, TypeOK
    <2> QED BY <2>1, <2>2
  <1>4. CASE LastCloses(p)
    BY <1>4, GoneTypes DEF LastCloses, TypeOK, HostState
  <1>5. CASE CloseSeen(p)
    <2>1. container' \in [Project -> Container]
      BY <1>5, NoContainerType DEF CloseSeen, TypeOK
    <2> QED BY <1>5, <2>1 DEF CloseSeen, TypeOK
  <1> QED BY <1>1, <1>2, <1>3, <1>4, <1>5 DEF SupervisorStep

LEMMA TypeHost ==
  ASSUME TypeOK, HostStep \/ HostStarts \/ AutoUpdate \/ Signal \/ HostCrashes
  PROVE  TypeOK'
  <1>1. CASE Install
    BY <1>1, FaultType, DockerAssumption DEF Install, TypeOK, Version
  <1>2. CASE ReExec
    BY <1>2, GoneTypes DEF ReExec, TypeOK, HostState
  <1>3. CASE ShutdownEnds
    BY <1>3, GoneTypes DEF ShutdownEnds, TypeOK, HostState
  <1>4. CASE HostStarts
    <2>1. SpawnProjects(Project, disk, ImageOf(image, installed)) /\ ImageOf(image, installed) \in [Project -> Cust]
      BY <1>4, ImageOfType DEF HostStarts, TypeOK
    <2>2. /\ handles' \subseteq Project /\ building' \subseteq Project
          /\ disk' \in [Project -> Disk] /\ container' \in [Project -> Container]
      BY <2>1, SpawnTypes DEF TypeOK
    <2>3. left' \in 0 .. MaxFaults
      BY <1>4, FaultType DEF HostStarts, TypeOK
    <2> QED BY <1>4, <2>2, <2>3 DEF HostStarts, TypeOK, HostState
  <1>5. CASE AutoUpdate
    <2>1. left' \in 0 .. MaxFaults
      BY <1>5, FaultType DEF AutoUpdate
    <2>2. CASE auto' = "stop" /\ installed' = MaxVersion /\ StopAll("auto", handles)
      BY <1>5, <2>1, <2>2, StopAllTypes, DockerAssumption DEF AutoUpdate, TypeOK, Version
    <2>3. CASE auto' = "failed" /\ UNCHANGED <<installed, awaits, handles, container>>
      BY <1>5, <2>1, <2>3 DEF AutoUpdate, TypeOK
    <2> QED BY <1>5, <2>2, <2>3 DEF AutoUpdate
  <1>6. CASE Signal
    <2>1. left' \in 0 .. MaxFaults /\ StopAll("signal", handles)
      BY <1>6, FaultType DEF Signal
    <2> QED BY <1>6, <2>1, StopAllTypes DEF Signal, TypeOK, HostState
  <1>7. CASE HostCrashes
    <2>1. left' \in 0 .. MaxFaults /\ HostGone("crashed")
      BY <1>7, FaultType DEF HostCrashes
    <2> QED BY <1>7, <2>1, GoneTypes DEF HostCrashes, TypeOK, HostState
  <1> QED BY <1>1, <1>2, <1>3, <1>4, <1>5, <1>6, <1>7 DEF HostStep

LEMMA TypeAgent ==
  ASSUME TypeOK, NEW p \in Project, AgentStep(p) \/ CommandEnds(p) \/ Exits(p) \/ Customize(p)
  PROVE  TypeOK'
  <1>1. CASE ConfigSync(p)
    <2>1. container[p] \in Container /\ want[p] \in Cust
      BY DEF TypeOK
    <2>2. container' \in [Project -> Container]
      BY <1>1, <2>1 DEF ConfigSync, TypeOK, Container, Exit, Restart
    <2> QED BY <1>1, <2>2 DEF ConfigSync, TypeOK
  <1>2. CASE Stopped(p)
    BY <1>2, EndsTypes DEF Stopped, TypeOK, Exit
  <1>3. CASE Leaves(p)
    <2>1. PICK steps \in 0 .. 3 :
             /\ IF steps = 3 THEN UNCHANGED left ELSE container[p].rebuild /\ Fault("write")
             /\ disk' = IF container[p].rebuild
                        THEN [disk EXCEPT ![p] = Written(@, container[p].known, steps)] ELSE disk
      BY <1>3 DEF Leaves
    <2>2. container[p].known \in Cust /\ container[p].code \in Exit /\ disk[p] \in Disk
      BY DEF TypeOK, Container
    <2>3. disk' \in [Project -> Disk]
      BY <2>1, <2>2, WrittenType DEF TypeOK
    <2>4. left' \in 0 .. MaxFaults
      BY <2>1, FaultType DEF TypeOK
    <2>5. ContainerEnds(p, container[p].code)
      BY <1>3 DEF Leaves
    <2>6. /\ container' \in [Project -> Container] /\ awaits' \in [Caller -> SUBSET Project]
          /\ UNCHANGED <<host, version, installed, updating, update, auto, closing,
                         handles, building, image, want>>
      BY <2>2, <2>5, EndsTypes
    <2> QED BY <2>3, <2>4, <2>6 DEF TypeOK
  <1>4. CASE CommandEnds(p)
    <2>1. PICK code \in {Restart, Update} :
             /\ Fault(IF code = Restart THEN "reboot" ELSE "update")
             /\ container' = [container EXCEPT ![p].st = "leaving", ![p].code = code]
      BY <1>4 DEF CommandEnds
    <2>2. container[p] \in Container /\ code \in Exit
      BY DEF TypeOK, Exit, Restart, Update
    <2>3. [container[p] EXCEPT !.st = "leaving", !.code = code] \in Container
      BY <2>2 DEF Container
    <2>4. container' = [container EXCEPT ![p] = [container[p] EXCEPT !.st = "leaving", !.code = code]]
      BY <2>1 DEF TypeOK
    <2>5. container' \in [Project -> Container]
      BY <2>3, <2>4 DEF TypeOK
    <2>6. left' \in 0 .. MaxFaults
      BY <2>1, FaultType
    <2> QED BY <1>4, <2>5, <2>6 DEF CommandEnds, TypeOK
  <1>5. CASE Exits(p)
    BY <1>5, EndsTypes, FaultType DEF Exits, TypeOK, Exit
  <1>6. CASE Customize(p)
    BY <1>6, FaultType DEF Customize, TypeOK
  <1> QED BY <1>1, <1>2, <1>3, <1>4, <1>5, <1>6 DEF AgentStep

LEMMA TypeStep == ASSUME TypeOK, [Next]_vars PROVE TypeOK'
  <1>1. CASE UNCHANGED vars
    BY <1>1 DEF vars, TypeOK
  <1> QED BY <1>1, TypeSupervisor, TypeHost, TypeAgent DEF Next

-----------------------------------------------------------------------------
(* The invariant is kept.                                                  *)

Each == \A q \in Project : Own(q) /\ AwaitedBy(q)

\* What a project keeps that an action does not touch.
LEMMA Untouched ==
  ASSUME NEW q \in Project, Own(q), AwaitedBy(q),
         q \in handles' <=> q \in handles, q \in building' <=> q \in building,
         container'[q].st = container[q].st, container'[q].late = container[q].late,
         disk'[q] = disk[q]
  PROVE  /\ Own(q)'
         /\ UNCHANGED <<host, update, auto>> /\ (q \in closing => q \in closing')
              /\ (\A w \in Caller : q \in awaits[w] => q \in awaits'[w]) => AwaitedBy(q)'
  BY DEF Own, AwaitedBy, Running, Caller

\* The effect of stopAll() on one project.
LEMMA StopAllOne ==
  ASSUME TypeOK, NEW who, NEW keys \in SUBSET handles, StopAll(who, keys), NEW q \in Project
  PROVE  /\ q \in handles' <=> q \in keys
         /\ q \in handles \ keys => container'[q].st = "none"
         /\ q \notin handles \ keys => /\ container'[q].st = container[q].st
                                       /\ container'[q].late = container[q].late
         /\ \A w \in Caller : awaits'[w] = IF w = who THEN {p \in keys : Running(p)} ELSE awaits[w]
  <1>1. container[q] \in Container
    BY DEF TypeOK
  <1>2. /\ [container[q] EXCEPT !.asked = TRUE].st = container[q].st
        /\ [container[q] EXCEPT !.asked = TRUE].late = container[q].late
    BY <1>1 DEF Container
  <1>3. container'[q] = IF q \in handles \ keys THEN NoContainer
                        ELSE IF q \in keys /\ Running(q) THEN [container[q] EXCEPT !.asked = TRUE]
                        ELSE container[q]
    BY DEF StopAll
  <1>4. q \in handles \ keys => container'[q].st = "none"
    BY <1>3, NoContainerType
  <1>5. q \notin handles \ keys => /\ container'[q].st = container[q].st
                                   /\ container'[q].late = container[q].late
    BY <1>2, <1>3
  <1> QED BY <1>4, <1>5 DEF StopAll, TypeOK

\* The end of a container disturbs neither the others nor its own handle.
LEMMA EndsOne ==
  ASSUME TypeOK, NEW p \in Project, NEW code \in Exit, ContainerEnds(p, code), NEW q \in Project
  PROVE  /\ q # p => container'[q] = container[q]
         /\ container'[p].st = IF p \in handles THEN "over" ELSE "none"
         /\ \A w \in Caller : awaits'[w] = awaits[w] \ {p}
  <1>1. container[p] \in Container
    BY DEF TypeOK
  <1>2. [container[p] EXCEPT !.st = "over", !.code = code].st = "over"
    BY <1>1 DEF Container
  <1> QED BY <1>2, NoContainerType DEF ContainerEnds, TypeOK

\* A host process that has gone leaves no owner but the containers themselves.
LEMMA GoneEach ==
  ASSUME Owned, NEW how \in {"ended", "restarting", "stopped", "crashed"}, HostGone(how), disk' = disk
  PROVE  Each' /\ Clean'
  <1>1. ASSUME NEW q \in Project PROVE Own(q)'
    <2>1. container'[q] = IF container[q].st = "over" THEN NoContainer ELSE container[q]
      BY DEF HostGone
    <2> QED BY <2>1, NoContainerType DEF HostGone, Own, Running, Owned
  <1>2. ASSUME NEW q \in Project PROVE AwaitedBy(q)'
    BY DEF HostGone, AwaitedBy
  <1>3. Clean'
    BY DEF HostGone, Clean, HostAlive
  <1> QED BY <1>1, <1>2, <1>3 DEF Each

\* spawnProject() for a project that is not to be rebuilt.
LEMMA SpawnedRuns ==
  ASSUME TypeOK, NEW P \in SUBSET Project, NEW d \in [Project -> Disk], NEW img \in [Project -> Cust],
         SpawnProjects(P, d, img), NEW q \in P, ~Stale(d[q]),
         UNCHANGED <<update, auto>>, host' = host \/ host' = "up"
  PROVE  Own(q)' /\ AwaitedBy(q)'
  <1>1. /\ q \in handles' /\ q \notin building' /\ disk'[q] = d[q]
        /\ container'[q] = Started(d[q], img[q])
    BY SpawnOne
  <1>2. container'[q].st = "up" /\ container'[q].late = Stopping
    BY <1>1, StartedType
  <1>3. Stale(disk[q])' <=> Stale(d[q])
    BY <1>1 DEF Stale
  <1>4. Own(q)'
    BY <1>1, <1>2, <1>3 DEF Own, Running
  <1>5. AwaitedBy(q)'
    BY <1>2 DEF AwaitedBy, Stopping
  <1> QED BY <1>4, <1>5

\* spawnProject() for a project that is rebuilt first.
LEMMA SpawnedBuilds ==
  ASSUME TypeOK, NEW P \in SUBSET Project, NEW d \in [Project -> Disk], NEW img \in [Project -> Cust],
         SpawnProjects(P, d, img), NEW q \in P, Stale(d[q]),
         q \notin handles => ~Running(q) /\ container[q].st # "over"
  PROVE  Own(q)' /\ AwaitedBy(q)'
  <1>1. /\ q \notin handles' /\ q \in building'
        /\ container'[q] = IF q \in handles THEN NoContainer ELSE container[q]
    BY SpawnOne
  <1>2. ~Running(q)' /\ container'[q].st # "over"
    BY <1>1, NoContainerType DEF Running
  <1> QED BY <1>1, <1>2 DEF Own, AwaitedBy

LEMMA EachSupervisor ==
  ASSUME Owned, NEW p \in Project, SupervisorStep(p)
  PROVE  Each' /\ Clean'
  <1>0. TypeOK /\ Clean /\ \A q \in Project : Own(q) /\ AwaitedBy(q)
    BY DEF Owned
  <1>1. CASE BuildEnds(p)
    <2>1. PICK done \in BOOLEAN :
             /\ image' = [image EXCEPT ![p][version] = IF done THEN disk[p].file ELSE @]
             /\ SpawnProjects({p}, [disk EXCEPT ![p] = Built(@, done)], ImageOf(image', version))
      BY <1>1 DEF BuildEnds
    <2> DEFINE d == [disk EXCEPT ![p] = Built(disk[p], done)]
    <2>2. disk[p] \in Disk
      BY <1>0 DEF TypeOK
    <2>3. d \in [Project -> Disk] /\ ~Stale(d[p]) /\ \A q \in Project : q # p => d[q] = disk[q]
      BY <1>0, <2>2, BuiltType DEF TypeOK
    <2>4. TypeOK'
      BY <1>0, <1>1, TypeSupervisor DEF SupervisorStep
    <2>5. ImageOf(image', version) \in [Project -> Cust]
      BY <1>0, <2>4, ImageOfType DEF TypeOK
    <2>6. SpawnProjects({p}, d, ImageOf(image', version))
      BY <2>1
    <2>7. UNCHANGED <<host, updating, update, auto, awaits, closing>>
      BY <1>1 DEF BuildEnds
    <2> HIDE DEF d
    <2>8. Own(p)' /\ AwaitedBy(p)'
      BY <1>0, <2>3, <2>5, <2>6, <2>7, SpawnedRuns
    <2>9. ASSUME NEW q \in Project, q # p PROVE Own(q)' /\ AwaitedBy(q)'
      <3>1. /\ container'[q] = container[q] /\ disk'[q] = disk[q]
            /\ (q \in handles' <=> q \in handles) /\ (q \in building' <=> q \in building)
        BY <1>0, <2>3, <2>5, <2>6, <2>9, SpawnOne, SMTT(20)
      <3> QED BY <1>0, <2>7, <3>1, Untouched
    <2>10. Clean'
      BY <1>0, <1>1, <2>7 DEF Clean, HostAlive, BuildEnds
    <2> QED BY <2>8, <2>9, <2>10 DEF Each
  <1>2. CASE UpdateRequested(p)
    <2>1. StopAll("update", handles \ {p}) /\ container[p].st = "over" /\ p \in handles
      BY <1>2 DEF UpdateRequested, Closes
    <2>2. update = "none" /\ host = "up" /\ update' = "stop" /\ updating' /\ closing' = closing \ {p}
          /\ UNCHANGED <<host, auto, building, disk>>
      BY <1>0, <1>2 DEF UpdateRequested, Closes, HostAlive, Clean
    <2>3. ASSUME NEW q \in Project PROVE Own(q)' /\ AwaitedBy(q)'
      <3>1. /\ q \in handles' <=> q \in handles \ {p}
            /\ q = p => container'[q].st = "none"
            /\ q # p => container'[q].st = container[q].st /\ container'[q].late = container[q].late
            /\ \A w \in Caller : awaits'[w] = IF w = "update" THEN {r \in handles \ {p} : Running(r)}
                                              ELSE awaits[w]
        BY <1>0, <2>1, StopAllOne
      <3>2. Own(q)'
        BY <1>0, <2>2, <3>1 DEF Own, Running
      <3>3. AwaitedBy(q)'
        BY <1>0, <2>2, <3>1 DEF AwaitedBy, Running, Caller
      <3> QED BY <3>2, <3>3
    <2>4. Clean'
      BY <2>2 DEF Clean, HostAlive
    <2> QED BY <2>3, <2>4 DEF Each
  <1>3. CASE RestartRequested(p)
    <2>1. /\ HostAlive /\ p \in handles /\ container[p].st = "over" /\ ~updating
          /\ closing' = closing \ {p} /\ RebuildAndRestart(p)
          /\ UNCHANGED <<host, updating, update, auto, awaits>>
      BY <1>3 DEF RestartRequested, Closes
    <2>2. host = "up" /\ update = "none"
      BY <1>0, <2>1 DEF Clean, HostAlive
    <2>3. Clean'
      BY <2>1, <2>2 DEF Clean, HostAlive
    <2>4. CASE disk[p].marker \/ disk[p].file # 0
      <3>1. /\ building' = building \union {p} /\ handles' = handles \ {p}
            /\ container' = [container EXCEPT ![p] = NoContainer]
            /\ disk' = [disk EXCEPT ![p].marker = FALSE]
        BY <2>1, <2>4 DEF RebuildAndRestart
      <3>2. Own(p)' /\ AwaitedBy(p)'
        BY <1>0, <3>1, NoContainerType DEF Own, AwaitedBy, Running, TypeOK
      <3>3. ASSUME NEW q \in Project, q # p PROVE Own(q)' /\ AwaitedBy(q)'
        <4>1. container'[q] = container[q] /\ disk'[q] = disk[q]
          BY <1>0, <3>1, <3>3 DEF TypeOK
        <4> QED BY <1>0, <2>1, <3>1, <3>3, <4>1, Untouched
      <3> QED BY <2>3, <3>2, <3>3 DEF Each
    <2>5. CASE ~(disk[p].marker \/ disk[p].file # 0)
      <3>1. SpawnProjects({p}, disk, ImageOf(image, version))
        BY <2>1, <2>5 DEF RebuildAndRestart
      <3>2. disk \in [Project -> Disk] /\ ImageOf(image, version) \in [Project -> Cust]
        BY <1>0, ImageOfType DEF TypeOK
      <3>3. Own(p)' /\ AwaitedBy(p)'
        BY <1>0, <2>1, <3>1, <3>2, SpawnedRuns, SpawnedBuilds
      <3>4. ASSUME NEW q \in Project, q # p PROVE Own(q)' /\ AwaitedBy(q)'
        <4>1. /\ container'[q] = container[q] /\ disk'[q] = disk[q]
              /\ (q \in handles' <=> q \in handles) /\ (q \in building' <=> q \in building)
          BY <1>0, <3>1, <3>2, <3>4, SpawnOne
        <4> QED BY <1>0, <2>1, <3>4, <4>1, Untouched
      <3> QED BY <2>3, <3>3, <3>4 DEF Each
    <2> QED BY <2>4, <2>5
  <1>4. CASE LastCloses(p)
    BY <1>4, GoneEach DEF LastCloses
  <1>5. CASE CloseSeen(p)
    <2>1. /\ HostAlive /\ handles' = handles \ {p} /\ closing' = closing \ {p}
          /\ container' = [container EXCEPT ![p] = NoContainer]
          /\ UNCHANGED <<host, updating, update, auto, awaits, building, disk>>
      BY <1>5 DEF CloseSeen, Closes
    <2>2. Own(p)' /\ AwaitedBy(p)'
      BY <1>0, <2>1, NoContainerType DEF Own, AwaitedBy, Running, TypeOK
    <2>3. ASSUME NEW q \in Project, q # p PROVE Own(q)' /\ AwaitedBy(q)'
      <3>1. container'[q] = container[q]
        BY <1>0, <2>1, <2>3 DEF TypeOK
      <3> QED BY <1>0, <2>1, <2>3, <3>1, Untouched
    <2>4. Clean'
      BY <1>0, <2>1 DEF Clean, HostAlive
    <2> QED BY <2>2, <2>3, <2>4 DEF Each
  <1> QED BY <1>1, <1>2, <1>3, <1>4, <1>5 DEF SupervisorStep

LEMMA EachHost ==
  ASSUME Owned, HostStep \/ HostStarts \/ AutoUpdate \/ Signal \/ HostCrashes
  PROVE  Each' /\ Clean'
  <1>0. TypeOK /\ Clean /\ \A q \in Project : Own(q) /\ AwaitedBy(q)
    BY DEF Owned
  <1>1. CASE Install
    <2>1. /\ HostAlive /\ update = "stop" /\ awaits["update"] = {}
          /\ UNCHANGED <<host, updating, auto, awaits, closing, handles, building, container, disk>>
      BY <1>1 DEF Install
    <2>2. ASSUME NEW q \in Project PROVE Own(q)' /\ AwaitedBy(q)'
      BY <1>0, <2>1 DEF Own, AwaitedBy, Running
    <2>3. Clean'
      BY <1>0, <2>1 DEF Clean, HostAlive
    <2> QED BY <2>2, <2>3 DEF Each
  <1>2. CASE ReExec \/ ShutdownEnds \/ HostCrashes
    BY <1>2, GoneEach DEF ReExec, ShutdownEnds, HostCrashes
  <1>3. CASE HostStarts
    <2>1. /\ ~HostAlive /\ host' = "up" /\ SpawnProjects(Project, disk, ImageOf(image, installed))
          /\ UNCHANGED <<update, auto, updating>>
      BY <1>3 DEF HostStarts, HostAlive
    <2>2. disk \in [Project -> Disk] /\ ImageOf(image, installed) \in [Project -> Cust]
      BY <1>0, ImageOfType DEF TypeOK
    <2>3. handles = {} /\ update = "none"
      BY <1>0, <2>1 DEF Clean
    <2>4. ASSUME NEW q \in Project PROVE Own(q)' /\ AwaitedBy(q)'
      <3>1. Stale(disk[q]) => ~Running(q) /\ container[q].st # "over"
        BY <1>0, <2>3 DEF Own
      <3> QED BY <1>0, <2>1, <2>2, <3>1, SpawnedRuns, SpawnedBuilds
    <2>5. Clean'
      BY <2>1, <2>3 DEF Clean, HostAlive
    <2> QED BY <2>4, <2>5 DEF Each
  <1>4. CASE AutoUpdate
    <2>1. HostAlive /\ UNCHANGED <<host, updating, update, closing, building, disk>>
      BY <1>4 DEF AutoUpdate
    <2>2. Clean'
      BY <1>0, <2>1 DEF Clean, HostAlive
    <2>3. CASE auto' = "stop" /\ StopAll("auto", handles)
      <3>1. ASSUME NEW q \in Project PROVE Own(q)' /\ AwaitedBy(q)'
        <4>1. /\ q \in handles' <=> q \in handles
              /\ container'[q].st = container[q].st /\ container'[q].late = container[q].late
              /\ \A w \in Caller : awaits'[w] = IF w = "auto" THEN {r \in handles : Running(r)} ELSE awaits[w]
          BY <1>0, <2>3, StopAllOne
        <4>2. Own(q)'
          BY <1>0, <2>1, <4>1 DEF Own, Running
        <4>3. AwaitedBy(q)'
          BY <1>0, <2>1, <4>1 DEF AwaitedBy, Running, Caller
        <4> QED BY <4>2, <4>3
      <3> QED BY <2>2, <3>1 DEF Each
    <2>4. CASE auto' = "failed" /\ UNCHANGED <<installed, awaits, handles, container>>
      BY <1>0, <2>1, <2>2, <2>4 DEF Each, Own, AwaitedBy, Running
    <2> QED BY <1>4, <2>3, <2>4 DEF AutoUpdate
  <1>5. CASE Signal
    <2>1. /\ host' = "stopping" /\ updating' /\ closing' = handles /\ StopAll("signal", handles)
          /\ UNCHANGED <<update, auto, building, disk>>
      BY <1>5 DEF Signal
    <2>2. ASSUME NEW q \in Project PROVE Own(q)' /\ AwaitedBy(q)'
      <3>1. /\ q \in handles' <=> q \in handles
            /\ container'[q].st = container[q].st /\ container'[q].late = container[q].late
            /\ \A w \in Caller : awaits'[w] = IF w = "signal" THEN {r \in handles : Running(r)} ELSE awaits[w]
        BY <1>0, <2>1, StopAllOne
      <3>2. \A w \in Caller : awaits'[w] = awaits[w]
        BY <3>1 DEF Caller
      <3>3. Own(q)'
        BY <1>0, <2>1, <3>1 DEF Own, Running
      <3>4. AwaitedBy(q)'
        BY <1>0, <2>1, <3>1, <3>2 DEF AwaitedBy, Running, Caller
      <3> QED BY <3>3, <3>4
    <2>3. Clean'
      BY <2>1 DEF Clean, HostAlive
    <2> QED BY <2>2, <2>3 DEF Each
  <1> QED BY <1>1, <1>2, <1>3, <1>4, <1>5 DEF HostStep

LEMMA EachAgent ==
  ASSUME Owned, NEW p \in Project, AgentStep(p) \/ CommandEnds(p) \/ Exits(p) \/ Customize(p)
  PROVE  Each' /\ Clean'
  <1>0. TypeOK /\ Clean /\ \A q \in Project : Own(q) /\ AwaitedBy(q)
    BY DEF Owned
  <1>1. UNCHANGED <<host, updating, update, auto, closing, handles, building>>
    BY DEF AgentStep, ConfigSync, Stopped, Leaves, CommandEnds, Exits, Customize, ContainerEnds
  <1>2. Clean'
    BY <1>0, <1>1 DEF Clean, HostAlive
  <1>3. container[p] \in Container
    BY <1>0 DEF TypeOK
  <1>4. ASSUME NEW code \in Exit, ContainerEnds(p, code), \A q \in Project : q # p => disk'[q] = disk[q]
        PROVE  Each'
    <2>1. Own(p)' /\ AwaitedBy(p)'
      <3>1. container'[p].st = IF p \in handles THEN "over" ELSE "none"
        BY <1>0, <1>4, EndsOne
      <3> QED BY <1>0, <1>1, <3>1 DEF Own, AwaitedBy, Running
    <2>2. ASSUME NEW q \in Project, q # p PROVE Own(q)' /\ AwaitedBy(q)'
      <3>1. container'[q] = container[q] /\ \A w \in Caller : awaits'[w] = awaits[w] \ {p}
        BY <1>0, <1>4, <2>2, EndsOne
      <3> QED BY <1>0, <1>1, <1>4, <2>2, <3>1, Untouched
    <2> QED BY <2>1, <2>2 DEF Each
  <1>5. CASE Stopped(p) \/ Exits(p)
    <2>1. disk' = disk /\ (ContainerEnds(p, 0) \/ ContainerEnds(p, 1))
      BY <1>5 DEF Stopped, Exits
    <2> QED BY <1>2, <1>4, <2>1 DEF Exit
  <1>6. CASE Leaves(p)
    <2>1. ContainerEnds(p, container[p].code) /\ container[p].code \in Exit
      BY <1>3, <1>6 DEF Leaves, Container
    <2>2. \A q \in Project : q # p => disk'[q] = disk[q]
      BY <1>0, <1>6 DEF Leaves, TypeOK
    <2> QED BY <1>2, <1>4, <2>1, <2>2
  <1>7. CASE ConfigSync(p) \/ CommandEnds(p)
    <2>1. UNCHANGED <<awaits, disk>>
      BY <1>7 DEF ConfigSync, CommandEnds
    <2>2. /\ \A q \in Project : q # p => container'[q] = container[q]
          /\ container[p].st = "up" /\ container'[p].st \in {"up", "leaving"}
          /\ container'[p].late = container[p].late
      BY <1>0, <1>3, <1>7 DEF ConfigSync, CommandEnds, TypeOK, Container
    <2>3. Own(p)' /\ AwaitedBy(p)'
      BY <1>0, <1>1, <2>1, <2>2 DEF Own, AwaitedBy, Running
    <2>4. ASSUME NEW q \in Project, q # p PROVE Own(q)' /\ AwaitedBy(q)'
      BY <1>0, <1>1, <2>1, <2>2, <2>4, Untouched
    <2> QED BY <1>2, <2>3, <2>4 DEF Each
  <1>8. CASE Customize(p)
    BY <1>0, <1>1, <1>2, <1>8 DEF Customize, Each, Own, AwaitedBy, Running
  <1> QED BY <1>5, <1>6, <1>7, <1>8 DEF AgentStep

LEMMA OwnedStep == ASSUME Owned, [Next]_vars PROVE Owned'
  <1>1. TypeOK'
    BY TypeStep DEF Owned
  <1>2. CASE UNCHANGED vars
    BY <1>1, <1>2 DEF vars, Owned, Clean, HostAlive, Own, AwaitedBy, Running
  <1>3. CASE Next
    <2>1. Each' /\ Clean'
      BY <1>3, EachSupervisor, EachHost, EachAgent DEF Next
    <2> QED BY <1>1, <2>1 DEF Owned, Each
  <1> QED BY <1>2, <1>3

LEMMA OwnedInit == ASSUME Init PROVE Owned
  <1>1. ASSUME NEW p \in Project PROVE Own(p) /\ AwaitedBy(p)
    <2>1. NoContainer \in Container
      BY NoContainerType
    <2>2. container[p].st = "up"
      BY <2>1 DEF Init, Container
    <2> QED BY <2>2 DEF Init, Own, AwaitedBy, Running, Stale, NewDirectory
  <1> QED BY <1>1, TypeInit DEF Init, Owned, Clean, HostAlive

\* The host process goes only after the containers it stops.
LEMMA StopsFirstStep ==
  ASSUME Owned, Next, HostAlive, host' \in {"restarting", "stopped", "ended"},
         NEW p \in handles, Running(p)
  PROVE  container[p].late
  <1>1. p \in Project /\ AwaitedBy(p)
    BY DEF Owned, TypeOK
  <1>2. \/ \E q \in Project : LastCloses(q)
        \/ ReExec \/ ShutdownEnds
    BY DEF Next, SupervisorStep, AgentStep, HostStep, HostAlive, BuildEnds, UpdateRequested,
           RestartRequested, CloseSeen, ConfigSync, Stopped, Leaves, ContainerEnds, Install,
           HostStarts, AutoUpdate, Signal, HostCrashes, HostGone, CommandEnds, Exits, Customize
  <1>3. CASE \E q \in Project : LastCloses(q)
    BY <1>3 DEF LastCloses, Closes, IsLast, Running
  <1>4. CASE ReExec
    BY <1>1, <1>4 DEF ReExec, AwaitedBy
  <1>5. CASE ShutdownEnds
    BY <1>1, <1>5 DEF ShutdownEnds, AwaitedBy
  <1> QED BY <1>2, <1>3, <1>4, <1>5

-----------------------------------------------------------------------------
(* Customizations and images.                                              *)

\* What docker-built-hash says of the image of the version that runs.
Explained(p) ==
  disk[p].built # 0 =>
    \/ image[p][version] = disk[p].built
    \/ disk[p].error \/ disk[p].torn
    \/ \E v \in Version \ {version} : image[p][v] # 0

\* No image is of a version to come. An agent that knows a customization while it
\* runs has read it from docker-built-hash as it started, with the image of that
\* time, and neither has changed since; else it is about to leave.
Customized(p) ==
  /\ \A v \in Version : image[p][v] # 0 => v <= version
  /\ disk[p].built # 0 => disk[p].cust # 0
  /\ Explained(p)
  /\ container[p].rebuild => container[p].known # 0
  /\ container[p].st = "up" /\ container[p].known # 0 =>
       container[p].known = disk[p].built /\ container[p].image = image[p][version]

CustomInv == version <= installed /\ \A p \in Project : Customized(p)

LEMMA StartedFields ==
  ASSUME NEW d \in Disk, NEW c \in Cust
  PROVE  /\ Started(d, c).known = d.built /\ Started(d, c).image = c
         /\ ~Started(d, c).rebuild
  BY DEF Started, NoContainer

LEMMA NoContainerFields == ~NoContainer.rebuild /\ NoContainer.known = 0 /\ NoContainer.st = "none"
  BY DEF NoContainer

\* What a step may do to a project without a word about its image.
Quiet(p) ==
  /\ disk'[p].built = disk[p].built /\ disk'[p].error = disk[p].error
  /\ disk'[p].torn = disk[p].torn
  /\ disk[p].cust # 0 => disk'[p].cust # 0
  /\ container'[p].rebuild => container'[p].known # 0
  /\ container'[p].st = "up" =>
       \/ container'[p].known = 0
       \/ /\ container[p].st = "up" /\ container'[p].known = container[p].known
          /\ container'[p].image = container[p].image
       \/ container'[p].known = disk[p].built /\ container'[p].image = image[p][version]

LEMMA QuietKeeps ==
  ASSUME NEW p \in Project, Customized(p), Quiet(p), image'[p] = image[p], version' = version
  PROVE  Customized(p)'
  BY DEF Customized, Explained, Quiet

\* A project whose directory and container are left alone, or whose container goes.
LEMMA LeftAlone ==
  ASSUME TypeOK, NEW p \in Project, Customized(p),
         container'[p] = container[p] \/ container'[p] = NoContainer,
         disk'[p] = disk[p]
  PROVE  Quiet(p)
  BY NoContainerFields DEF Quiet, Customized

LEMMA AskedQuiet ==
  ASSUME TypeOK, NEW who, NEW keys \in SUBSET Project, StopAll(who, keys),
         disk' = disk, NEW p \in Project, Customized(p)
  PROVE  Quiet(p)
  <1>1. container[p] \in Container
    BY DEF TypeOK
  <1>2. \/ container'[p] = container[p] \/ container'[p] = NoContainer
        \/ container'[p] = [container[p] EXCEPT !.asked = TRUE]
    BY DEF StopAll
  <1>3. CASE container'[p] = [container[p] EXCEPT !.asked = TRUE]
    <2>1. /\ container'[p].rebuild = container[p].rebuild /\ container'[p].known = container[p].known
          /\ container'[p].image = container[p].image /\ container'[p].st = container[p].st
      BY <1>1, <1>3 DEF Container
    <2> QED BY <2>1 DEF Quiet, Customized
  <1> QED BY <1>2, <1>3, LeftAlone

LEMMA GoneQuiet ==
  ASSUME TypeOK, NEW how, HostGone(how), disk' = disk, NEW p \in Project, Customized(p)
  PROVE  Quiet(p)
  BY LeftAlone DEF HostGone

\* spawnProject() changes the marker, and starts from the directory as it is.
LEMMA SpawnQuiet ==
  ASSUME TypeOK, NEW P \in SUBSET Project, SpawnProjects(P, disk, ImageOf(image, version)),
         NEW p \in Project, Customized(p)
  PROVE  Quiet(p)
  <1>1. disk \in [Project -> Disk] /\ disk[p] \in Disk /\ image[p][version] \in Cust
    BY DEF TypeOK
  <1>2. \/ container'[p] = container[p] \/ container'[p] = NoContainer
        \/ container'[p] = Started(disk[p], image[p][version])
    BY DEF SpawnProjects, ImageOf
  <1>3. disk'[p] = disk[p] \/ disk'[p] = [disk[p] EXCEPT !.marker = FALSE]
    BY DEF SpawnProjects
  <1>4. /\ disk'[p].built = disk[p].built /\ disk'[p].error = disk[p].error
        /\ disk'[p].torn = disk[p].torn /\ disk'[p].cust = disk[p].cust
    BY <1>1, <1>3 DEF Disk
  <1>5. CASE container'[p] = Started(disk[p], image[p][version])
    BY <1>1, <1>4, <1>5, StartedFields DEF Quiet
  <1>6. CASE container'[p] = container[p] \/ container'[p] = NoContainer
    BY <1>4, <1>6, NoContainerFields DEF Quiet, Customized
  <1> QED BY <1>2, <1>5, <1>6

LEMMA BuiltFields ==
  ASSUME NEW d \in Disk, NEW done \in BOOLEAN
  PROVE  /\ Built(d, done).built = IF d.cust # 0 THEN d.cust ELSE d.built
         /\ Built(d, done).error = ~done
         /\ Built(d, done).torn = (d.file # d.cust)
         /\ Built(d, done).cust = d.cust
  BY DEF Built, Disk

LEMMA BuildCustomized ==
  ASSUME Owned, CustomInv, NEW p \in Project, BuildEnds(p)
  PROVE  CustomInv'
  <1>1. PICK done \in BOOLEAN :
           /\ image' = [image EXCEPT ![p][version] = IF done THEN disk[p].file ELSE @]
           /\ SpawnProjects({p}, [disk EXCEPT ![p] = Built(@, done)], ImageOf(image', version))
    BY DEF BuildEnds
  <1> DEFINE d == [disk EXCEPT ![p] = Built(@, done)]
  <1>2. TypeOK /\ version' = version /\ installed' = installed /\ TypeOK'
    BY OwnedStep DEF BuildEnds, Owned, Next, SupervisorStep
  <1>3. disk[p] \in Disk /\ Built(disk[p], done) \in Disk /\ ~Stale(Built(disk[p], done))
    BY <1>2, BuiltType DEF TypeOK
  <1>4. d \in [Project -> Disk] /\ d[p] = Built(disk[p], done) /\ \A q \in Project : q # p => d[q] = disk[q]
    BY <1>2, <1>3 DEF TypeOK
  <1>5. ImageOf(image', version) \in [Project -> Cust] /\ ImageOf(image', version)[p] = image'[p][version]
    BY <1>2, ImageOfType DEF TypeOK, ImageOf
  <1>6. SpawnProjects({p}, d, ImageOf(image', version))
    BY <1>1
  <1> HIDE DEF d
  <1>7. ASSUME NEW q \in Project, q # p PROVE Customized(q)'
    <2>1. container'[q] = container[q] /\ disk'[q] = disk[q]
      BY <1>2, <1>4, <1>5, <1>6, <1>7, SpawnOne
    <2>2. image'[q] = image[q]
      BY <1>1, <1>2, <1>7 DEF TypeOK
    <2> QED BY <1>2, <2>1, <2>2, LeftAlone, QuietKeeps DEF CustomInv
  <1>8. Customized(p)'
    <2>1. disk'[p] = Built(disk[p], done) /\ container'[p] = Started(Built(disk[p], done), image'[p][version])
      BY <1>2, <1>3, <1>4, <1>5, <1>6, SpawnOne
    <2>2. image[p] \in [Version -> Cust] /\ version \in Version /\ Customized(p) /\ disk[p].file \in Cust
      BY <1>2, <1>3 DEF TypeOK, CustomInv, Disk
    <2>3. image'[p] = [image[p] EXCEPT ![version] = IF done THEN disk[p].file ELSE @]
      BY <1>1, <1>2 DEF TypeOK
    <2>4. \A v \in Version : image'[p][v] # 0 => v <= version
      BY <2>2, <2>3, DockerAssumption DEF Customized, Version
    <2>5. disk'[p].built # 0 => disk'[p].cust # 0
      BY <1>3, <2>1, <2>2, BuiltFields DEF Customized
    <2>6. Explained(p)'
      <3>1. CASE done
        <4>1. image'[p][version] = disk[p].file
          BY <2>2, <2>3, <3>1
        <4>2. disk'[p].torn = (disk[p].file # disk[p].cust)
          BY <1>3, <2>1, BuiltFields
        <4>3. disk'[p].built # 0 => disk'[p].built = disk[p].cust
          BY <1>3, <2>1, <2>2, BuiltFields DEF Customized
        <4> QED BY <1>2, <4>1, <4>2, <4>3 DEF Explained
      <3>2. CASE ~done
        BY <1>3, <2>1, <3>2, BuiltFields DEF Explained
      <3> QED BY <3>1, <3>2
    <2>7. image'[p][version] \in Cust
      BY <1>2 DEF TypeOK
    <2>8. /\ ~container'[p].rebuild
          /\ container'[p].known = disk'[p].built /\ container'[p].image = image'[p][version]
      BY <1>3, <2>1, <2>7, StartedFields
    <2> QED BY <1>2, <2>4, <2>5, <2>6, <2>8 DEF Customized
  <1> QED BY <1>2, <1>7, <1>8 DEF CustomInv

\* A new host process may be of a later version: the images that there are then
\* are of an earlier one.
LEMMA StartCustomized ==
  ASSUME Owned, CustomInv, HostStarts
  PROVE  CustomInv'
  <1>1. /\ TypeOK /\ Clean /\ ~HostAlive /\ version' = installed /\ installed' = installed /\ image' = image
        /\ SpawnProjects(Project, disk, ImageOf(image, installed))
    BY DEF HostStarts, HostAlive, Owned
  <1>2. version \in Nat /\ installed \in Nat /\ version <= installed /\ installed \in Version
    BY <1>1, DockerAssumption DEF CustomInv, TypeOK, Version
  <1>3. disk \in [Project -> Disk] /\ ImageOf(image, installed) \in [Project -> Cust] /\ handles = {}
    BY <1>1, ImageOfType DEF TypeOK, Clean
  <1>4. ASSUME NEW p \in Project PROVE Customized(p)'
    <2>1. disk[p] \in Disk /\ image[p][installed] \in Cust /\ Customized(p) /\ ImageOf(image, installed)[p] = image[p][installed]
      BY <1>1, <1>2 DEF TypeOK, CustomInv, ImageOf
    <2>2. disk'[p] = disk[p] \/ disk'[p] = [disk[p] EXCEPT !.marker = FALSE]
      BY <1>1 DEF SpawnProjects
    <2>3. /\ disk'[p].built = disk[p].built /\ disk'[p].error = disk[p].error
          /\ disk'[p].torn = disk[p].torn /\ disk'[p].cust = disk[p].cust
      BY <2>1, <2>2 DEF Disk
    <2>4. \A v \in Version : image'[p][v] # 0 => v <= version'
      BY <1>1, <1>2, <2>1, DockerAssumption DEF Customized, Version
    <2>5. Explained(p)'
      <3>1. CASE version' = version
        BY <1>1, <2>1, <2>3, <3>1 DEF Customized, Explained
      <3>2. CASE version' # version
        <4> SUFFICES ASSUME disk'[p].built # 0, ~disk'[p].error, ~disk'[p].torn
                     PROVE  \E v \in Version \ {version'} : image'[p][v] # 0
          BY DEF Explained
        <4>1. PICK v \in Version : image[p][v] # 0
          BY <1>1, <2>1, <2>3 DEF Customized, Explained, TypeOK
        <4>2. v \in Nat /\ v <= version
          BY <2>1, <4>1, DockerAssumption DEF Customized, Version
        <4>3. v # version'
          BY <1>1, <1>2, <3>2, <4>2
        <4> QED BY <1>1, <4>1, <4>3
      <3> QED BY <3>1, <3>2
    <2>6. /\ container'[p].rebuild => container'[p].known # 0
          /\ container'[p].st = "up" => /\ container'[p].known = disk'[p].built
                                        /\ container'[p].image = image'[p][version']
      <3>1. CASE Stale(disk[p])
        <4>1. container'[p] = container[p] /\ ~Running(p)
          BY <1>1, <1>3, <3>1, SpawnOne DEF Owned, Own
        <4> QED BY <2>1, <4>1 DEF Customized, Running
      <3>2. CASE ~Stale(disk[p])
        <4>1. container'[p] = Started(disk[p], image[p][installed])
          BY <1>1, <1>3, <2>1, <3>2, SpawnOne
        <4> QED BY <1>1, <2>1, <2>3, <4>1, StartedFields
      <3> QED BY <3>1, <3>2
    <2> QED BY <2>1, <2>3, <2>4, <2>5, <2>6 DEF Customized
  <1> QED BY <1>1, <1>2, <1>4 DEF CustomInv

\* The containers end, are stopped or restarted; the host process goes.
LEMMA RestCustomized ==
  ASSUME Owned, CustomInv, NEW q \in Project,
         \/ UpdateRequested(q) \/ RestartRequested(q) \/ LastCloses(q) \/ CloseSeen(q)
         \/ Install \/ ReExec \/ ShutdownEnds \/ AutoUpdate \/ Signal \/ HostCrashes
  PROVE  CustomInv'
  <1>1. TypeOK /\ \A p \in Project : Customized(p)
    BY DEF Owned, CustomInv
  <1>2. version' = version /\ image' = image
    BY DEF UpdateRequested, RestartRequested, LastCloses, CloseSeen, Install, ReExec, ShutdownEnds,
           AutoUpdate, Signal, HostCrashes
  <1>3. installed' \in {installed, MaxVersion}
    BY DEF UpdateRequested, RestartRequested, LastCloses, CloseSeen, Install, ReExec, ShutdownEnds,
           AutoUpdate, Signal, HostCrashes
  <1>4. version <= installed'
    BY <1>1, <1>3, DockerAssumption DEF CustomInv, TypeOK, Version
  <1>5. ASSUME NEW p \in Project PROVE Quiet(p)
    <2>1. CASE UpdateRequested(q)
      <3>1. StopAll("update", handles \ {q}) /\ handles \ {q} \in SUBSET Project /\ disk' = disk
        BY <1>1, <2>1 DEF UpdateRequested, TypeOK
      <3> QED BY <1>1, <3>1, AskedQuiet
    <2>2. CASE RestartRequested(q)
      <3>1. CASE disk[q].marker \/ disk[q].file # 0
        <4>1. /\ disk' = [disk EXCEPT ![q].marker = FALSE]
              /\ container' = [container EXCEPT ![q] = NoContainer]
          BY <2>2, <3>1 DEF RestartRequested, RebuildAndRestart
        <4>2. disk[p] \in Disk /\ (container'[p] = container[p] \/ container'[p] = NoContainer)
          BY <1>1, <4>1 DEF TypeOK
        <4>3. disk'[p] = disk[p] \/ disk'[p] = [disk[p] EXCEPT !.marker = FALSE]
          BY <1>1, <4>1 DEF TypeOK
        <4>4. /\ disk'[p].built = disk[p].built /\ disk'[p].error = disk[p].error
              /\ disk'[p].torn = disk[p].torn /\ disk'[p].cust = disk[p].cust
          BY <4>2, <4>3 DEF Disk
        <4> QED BY <1>1, <4>2, <4>4, NoContainerFields DEF Quiet, Customized
      <3>2. CASE ~(disk[q].marker \/ disk[q].file # 0)
        <4>1. SpawnProjects({q}, disk, ImageOf(image, version))
          BY <2>2, <3>2 DEF RestartRequested, RebuildAndRestart
        <4> QED BY <1>1, <4>1, SpawnQuiet
      <3> QED BY <3>1, <3>2
    <2>3. CASE LastCloses(q) \/ ReExec \/ ShutdownEnds \/ HostCrashes
      BY <1>1, <2>3, GoneQuiet DEF LastCloses, ReExec, ShutdownEnds, HostCrashes
    <2>4. CASE CloseSeen(q)
      <3>1. disk' = disk /\ (container'[p] = container[p] \/ container'[p] = NoContainer)
        BY <1>1, <2>4 DEF CloseSeen, TypeOK
      <3> QED BY <1>1, <3>1, LeftAlone
    <2>5. CASE Install
      BY <1>1, <2>5, LeftAlone DEF Install
    <2>6. CASE AutoUpdate
      <3>1. disk' = disk /\ (StopAll("auto", handles) \/ container' = container)
        BY <2>6 DEF AutoUpdate
      <3> QED BY <1>1, <3>1, AskedQuiet, LeftAlone DEF TypeOK
    <2>7. CASE Signal
      BY <1>1, <2>7, AskedQuiet DEF Signal, TypeOK
    <2> QED BY <2>1, <2>2, <2>3, <2>4, <2>5, <2>6, <2>7
  <1>6. ASSUME NEW p \in Project PROVE Customized(p)'
    BY <1>1, <1>2, <1>5, QuietKeeps
  <1> QED BY <1>2, <1>4, <1>6 DEF CustomInv

\* An agent that learns of another customization leaves, or knows of none; what it
\* writes as it leaves is a customization.
LEMMA AgentCustomized ==
  ASSUME Owned, CustomInv, NEW q \in Project, AgentStep(q) \/ CommandEnds(q) \/ Exits(q) \/ Customize(q)
  PROVE  CustomInv'
  <1>1. TypeOK /\ container[q] \in Container /\ disk[q] \in Disk /\ \A p \in Project : Customized(p)
    BY DEF Owned, CustomInv, TypeOK
  <1>2. UNCHANGED <<version, installed, image>>
    BY DEF AgentStep, ConfigSync, Stopped, Leaves, CommandEnds, Exits, Customize, ContainerEnds
  <1>3. \A p \in Project : p # q => container'[p] = container[p] /\ disk'[p] = disk[p]
    BY <1>1 DEF AgentStep, ConfigSync, Stopped, Leaves, CommandEnds, Exits, Customize, ContainerEnds, TypeOK
  <1>4. ASSUME NEW code, ContainerEnds(q, code)
        PROVE  container'[q].st # "up" /\ (container'[q].rebuild => container'[q].known # 0)
    <2>1. container'[q] \in {[container[q] EXCEPT !.st = "over", !.code = code], NoContainer}
      BY <1>1, <1>4 DEF ContainerEnds, TypeOK
    <2>2. CASE container'[q] = [container[q] EXCEPT !.st = "over", !.code = code]
      <3>1. /\ container'[q].st = "over" /\ container'[q].rebuild = container[q].rebuild
            /\ container'[q].known = container[q].known
        BY <1>1, <2>2 DEF Container
      <3> QED BY <1>1, <3>1 DEF Customized
    <2> QED BY <2>1, <2>2, NoContainerFields
  <1>5. Quiet(q)
    <2>1. CASE ConfigSync(q)
      <3>1. /\ disk' = disk
            /\ container'[q].known = want[q]
            /\ container'[q].st = IF want[q] # 0 THEN "leaving" ELSE container[q].st
            /\ container'[q].rebuild = (want[q] # 0)
        BY <1>1, <2>1 DEF ConfigSync, TypeOK, Container
      <3> QED BY <3>1 DEF Quiet
    <2>2. CASE CommandEnds(q)
      <3>1. /\ disk' = disk /\ container'[q].st = "leaving"
            /\ container'[q].rebuild = container[q].rebuild /\ container'[q].known = container[q].known
        BY <1>1, <2>2 DEF CommandEnds, TypeOK, Container
      <3> QED BY <1>1, <3>1 DEF Quiet, Customized
    <2>3. CASE Stopped(q) \/ Exits(q)
      BY <1>4, <2>3 DEF Stopped, Exits, Quiet
    <2>4. CASE Leaves(q)
      <3>1. PICK steps \in 0 .. 3 :
               disk' = IF container[q].rebuild
                       THEN [disk EXCEPT ![q] = Written(@, container[q].known, steps)] ELSE disk
        BY <2>4 DEF Leaves
      <3>2. /\ disk'[q].built = disk[q].built /\ disk'[q].error = disk[q].error
            /\ disk'[q].torn = disk[q].torn
            /\ disk[q].cust # 0 => disk'[q].cust # 0
        <4>1. CASE container[q].rebuild
          <5>1. disk'[q] = Written(disk[q], container[q].known, steps) /\ container[q].known # 0
            BY <1>1, <3>1, <4>1 DEF TypeOK, Customized
          <5>2. Written(disk[q], container[q].known, steps).cust \in {disk[q].cust, container[q].known}
            BY <1>1 DEF Written, Disk
          <5> QED BY <1>1, <5>1, <5>2 DEF Written, Disk
        <4>2. CASE ~container[q].rebuild
          BY <3>1, <4>2
        <4> QED BY <4>1, <4>2
      <3>3. ContainerEnds(q, container[q].code)
        BY <2>4 DEF Leaves
      <3> QED BY <1>4, <3>2, <3>3 DEF Quiet
    <2>5. CASE Customize(q)
      BY <1>1, <2>5, LeftAlone DEF Customize
    <2> QED BY <2>1, <2>2, <2>3, <2>4, <2>5 DEF AgentStep
  <1>6. ASSUME NEW p \in Project PROVE Customized(p)'
    BY <1>1, <1>2, <1>3, <1>5, LeftAlone, QuietKeeps
  <1> QED BY <1>2, <1>6 DEF CustomInv

LEMMA CustomStep == ASSUME Owned, CustomInv, [Next]_vars PROVE CustomInv'
  <1>1. CASE UNCHANGED vars
    BY <1>1 DEF vars, CustomInv, Customized, Explained
  <1>2. CASE \E p \in Project : SupervisorStep(p)
    BY <1>2, BuildCustomized, RestCustomized DEF SupervisorStep
  <1>3. CASE \E p \in Project : AgentStep(p) \/ CommandEnds(p) \/ Exits(p) \/ Customize(p)
    BY <1>3, AgentCustomized
  <1>4. CASE HostStarts
    BY <1>4, StartCustomized
  <1>5. CASE Install \/ ReExec \/ ShutdownEnds \/ AutoUpdate \/ Signal \/ HostCrashes
    <2>1. CASE Project = {}
      <3>1. installed' \in {installed, MaxVersion} /\ version' = version
        BY <1>5 DEF Install, ReExec, ShutdownEnds, AutoUpdate, Signal, HostCrashes
      <3> QED BY <2>1, <3>1, DockerAssumption DEF CustomInv, Owned, TypeOK, Version
    <2>2. CASE Project # {}
      BY <1>5, <2>2, RestCustomized
    <2> QED BY <2>1, <2>2
  <1> QED BY <1>1, <1>2, <1>3, <1>4, <1>5 DEF Next, HostStep

LEMMA CustomInit == ASSUME Init PROVE CustomInv
  <1>1. ASSUME NEW p \in Project PROVE Customized(p)
    <2>1. container[p].st = "up" /\ ~container[p].rebuild /\ container[p].known = 0
      BY DEF Init, NoContainer
    <2>2. disk[p].built = 0 /\ \A v \in Version : image[p][v] = 0
      BY DEF Init, NewDirectory
    <2> QED BY <2>1, <2>2 DEF Customized, Explained
  <1> QED BY <1>1 DEF Init, CustomInv

-----------------------------------------------------------------------------
(* Theorems.                                                               *)

\* A project never has two owners, through updates, restarts, signals and
\* crashes, and the host process ends or replaces itself only when the
\* containers it had asked to stop have ended.
THEOREM HandedOverAlways == Spec => HandedOver
  <1>1. Init => Owned
    BY OwnedInit
  <1>2. Owned /\ [Next]_vars => Owned'
    BY OwnedStep
  <1>3. Owned => TypeOK /\ OneOwner
    <2>1. ASSUME Owned PROVE TypeOK /\ OneOwner
      BY <2>1 DEF Owned, Own, OneOwner, TypeOK
    <2> QED BY <2>1
  <1>4. Owned /\ [Next]_vars =>
          [host' \in {"restarting", "stopped", "ended"} /\ HostAlive =>
             \A p \in handles : Running(p) => container[p].late]_vars
    BY StopsFirstStep
  <1>5. Spec => [](TypeOK /\ OneOwner) /\ StopsFirst
    BY <1>1, <1>2, <1>3, <1>4, PTL DEF Spec, StopsFirst
  <1> QED BY <1>5 DEF HandedOver

\* An agent that has nothing more to rebuild runs in the image of its
\* customization, whatever is customized, crashes, is updated or stopped and
\* however often, unless docker-build-error or a Dockerfile without its hash says
\* otherwise, or the image is one of another version.
THEOREM CustomizedAlways == Spec => []CustomizationKept
  <1> DEFINE Inv == Owned /\ CustomInv
  <1>1. Init => Inv
    BY OwnedInit, CustomInit
  <1>2. Inv /\ [Next]_vars => Inv'
    BY OwnedStep, CustomStep
  <1>3. Inv => CustomizationKept
    BY DEF CustomInv, Customized, Explained, CustomizationKept
  <1> QED BY <1>1, <1>2, <1>3, PTL DEF Spec
=============================================================================

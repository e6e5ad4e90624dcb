-------------------------- MODULE ReplicaLifecycle --------------------------
(***************************************************************************)
(* The life of one replica: the register loop of ProjectAgent, the standby *)
(* wait, eviction, token updates, the graceful shutdown, and the transport *)
(* they start and stop (project-agent.ts, the heartbeat and the AppSync    *)
(* connection of agent-transport.ts and base-websocket.ts).                *)
(*                                                                         *)
(* Every action is a stretch of code between two awaits. The promise       *)
(* continuations that run before anything else can (a cancelled wait, the  *)
(* restart that awaits the loop) belong to the step that triggers them.    *)
(* The API server, which admits and evicts replicas, is external.          *)
(***************************************************************************)
EXTENDS Integers, FiniteSets

CONSTANTS
  Work,     \* commands that leave the agent running
  Reboots,  \* reboot and update commands: they await shutdown()
  Syncs,    \* config_sync and setup commands: may start a Docker rebuild
  Beats,    \* bound: heartbeats outstanding at a time
  Faults,   \* the kinds of event the environment may show
  MaxStops  \* bound: stop() calls by token updates and evictions

Cmd == Work \union Reboots \union Syncs

\* token: the token file changes; late_reply: a heartbeat is answered after
\* its transport was stopped; config: the configuration changes; lost: a
\* request fails, handled or not; no_url: the register response has no AppSync
\* URL; connect: the first AppSync connection fails; unacked: stop() finds the
\* socket open but not yet acknowledged; late_ack: the acknowledgement still
\* arrives then; drain: commands outlast the drain timeout.
FaultKind == {"token", "late_reply", "config", "lost", "no_url", "connect",
              "unacked", "late_ack", "drain"}

ASSUME ReplicaAssumption ==
  /\ Work \intersect Reboots = {} /\ Syncs \intersect Reboots = {}
  /\ Faults \subseteq FaultKind
  /\ MaxStops \in Nat

VARIABLES
  life,       \* the register loop and what waits for it, see Life
  mode,       \* nextAdmissionMode
  slotHeld,   \* slotHeld
  asked,      \* admission mode of the last register request
  answer,     \* what the outstanding register request will return
  sock,       \* the AppSync connection of state.subscriber
  hb,         \* whether state.heartbeatTimer is an active interval
  leaked,     \* whether an interval is active that the state has forgotten
  beats,      \* heartbeat requests
  syncArmed,  \* whether configSyncDebounceTimer is running
  phase,      \* how far doShutdown has come
  timedOut,   \* whether its drain timed out
  running,    \* transportState.inFlightCommands
  excluded,   \* excludedCommandIds
  awaiting,   \* commands whose handler awaits the promise of shutdown()
  seat,       \* server: whether this instance holds a slot
  told        \* history: what the server last told this replica ("late": of
              \* its eviction, when the loop had been stopped already)

loopVars  == <<life, mode, slotHeld, asked, answer>>
transport == <<sock, hb, leaked, beats>>
drainVars == <<phase, timedOut, running, excluded, awaiting>>
vars == <<loopVars, transport, syncArmed, drainVars, seat, told>>

Admission == {"initial", "standby"}

\* Where runRegisterLoop is: "off" (no loop: isRegistering is false), before
\* the register request, awaiting it, parked in the standby wait, awaiting a
\* standby request, recovering (pending results, first config sync), awaiting
\* the AppSync connection, sleeping before the next attempt.
Loop == {"off", "begin", "register", "park", "retry", "recover", "connect",
         "backoff"}

\* queue: calls of restartRegisterLoop that await the loop; delays: those in
\* their own wait, by generation; wake: the wait standbyWakeup resolves, 0 for
\* the standby wait of the loop ({}: null).
Life == [loop: Loop, cancelled: BOOLEAN, gen: 0 .. MaxStops + 1,
         queue: SUBSET [gen: 1 .. MaxStops, delayed: BOOLEAN],
         delays: SUBSET (1 .. MaxStops), wake: SUBSET (0 .. MaxStops)]

Fault(kind) == kind \in Faults

-----------------------------------------------------------------------------
(* The register loop and its restarts.                                     *)

\* start(): nothing while a loop is registered.
Started(l) ==
  IF l.loop = "off" THEN [l EXCEPT !.loop = "begin", !.cancelled = FALSE]
                    ELSE l

\* The loop is over: the restarts that awaited it go on, the delayed one into
\* its wait, the others to start() unless a later stop() superseded them.
Ended(l) ==
  LET late == {q.gen : q \in {q \in l.queue : q.delayed}}
      done == [l EXCEPT !.loop = "off", !.queue = {}, !.delays = @ \union late,
                        !.wake = IF late = {} THEN @ ELSE late]
  IN  IF \E q \in l.queue : ~q.delayed /\ q.gen = l.gen
      THEN Started(done) ELSE done

\* Mutant of Cancelled: stopGeneration is not incremented.
CancelledSameGeneration(l) ==
  LET m == [l EXCEPT !.cancelled = TRUE, !.delays = @ \ l.wake, !.wake = {}]
  IN  IF l.loop = "backoff" \/ (l.loop = "park" /\ 0 \in l.wake)
      THEN Ended(m) ELSE m

\* cancelRegisterLoop(): a sleeping loop, or one whose standby wait can still
\* be woken, unwinds at once.
Cancelled(l) ==
  LET m == [l EXCEPT !.gen = @ + 1, !.cancelled = TRUE,
                     !.delays = @ \ l.wake, !.wake = {}]
  IN  IF l.loop = "backoff" \/ (l.loop = "park" /\ 0 \in l.wake)
      THEN Ended(m) ELSE m

\* stopTransport() ends the await of a connection in its handshake: the socket
\* reports an error, which rejects connect(). Later it settles nothing.
Disconnected(l) ==
  IF l.loop = "connect" /\ sock = "handshake" THEN Ended(l) ELSE l

\* Mutant of Restarted: the bare start() the comment warns of.
RestartedBare(l, delayed) == Started(l)

\* restartRegisterLoop(), called right after stop().
Restarted(l, delayed) ==
  IF l.loop # "off"
  THEN [l EXCEPT !.queue = @ \union {[gen |-> l.gen, delayed |-> delayed]}]
  ELSE IF delayed THEN [l EXCEPT !.delays = @ \union {l.gen}, !.wake = {l.gen}]
                  ELSE Started(l)

\* waitBeforeStandbyRetry(), not entered by a cancelled loop.
Parked(l) ==
  IF l.cancelled THEN Ended(l) ELSE [l EXCEPT !.loop = "park", !.wake = {0}]

\* The catch of runRegisterLoop.
Failed(l) == IF l.cancelled THEN Ended(l) ELSE [l EXCEPT !.loop = "backoff"]

-----------------------------------------------------------------------------
(* stopTransport().                                                        *)

\* A socket closed before its acknowledgement may still deliver it.
SockStopped == IF sock \in {"opened", "closing"} THEN "closing" ELSE "none"

Dropped(b) == IF Fault("late_reply") THEN b ELSE [i \in Beats |-> "none"]

\* Mutant of StopTransport: the heartbeat interval is not cleared.
StopTransportKeepsHeartbeat(b) ==
  sock' = SockStopped /\ beats' = Dropped(b) /\ UNCHANGED <<hb, leaked>>

\* "b": the heartbeats that are still outstanding.
StopTransport(b) ==
  sock' = SockStopped /\ hb' = FALSE /\ beats' = Dropped(b) /\ UNCHANGED leaked

-----------------------------------------------------------------------------
(* registerAndStart().                                                     *)

\* performRegistration(nextAdmissionMode), after refreshChatMode.
Register ==
  /\ life.loop = "begin"
  /\ life' = [life EXCEPT !.loop = "register"]
  /\ asked' = mode
  /\ answer' = "none"
  /\ UNCHANGED <<mode, slotHeld, transport, syncArmed, drainVars, seat, told>>

\* External: the server decides on the request. A standby request never gets a
\* slot that is taken, an initial one may evict another replica.
Admit ==
  /\ life.loop \in {"register", "retry"} /\ answer = "none"
  /\ \/ answer' = "accepted" /\ seat' = "held"
     \/ answer' = "rejected" /\ seat # "held" /\ UNCHANGED seat
     \/ Fault("lost") /\ answer' = "error" /\ seat' \in {seat, "held"}
  /\ UNCHANGED <<life, mode, slotHeld, asked, transport, syncArmed, drainVars,
                 told>>

\* What an accepted answer tells the replica: "again" if it had been evicted.
ToldAccepted ==
  told' = IF told \in {"evicted", "again"} THEN "again" ELSE "granted"

Admitted == /\ life' = [life EXCEPT !.loop = "recover"]
            /\ slotHeld' = TRUE

\* The first request returns. An accepted one is noted whatever has happened
\* meanwhile; a rejected one leads into waitForAdmission.
RegisterReturns ==
  /\ life.loop = "register"
  /\ \/ answer = "accepted" /\ Admitted /\ ToldAccepted
     \/ /\ answer = "rejected"
        /\ life' = Parked(life) /\ UNCHANGED <<slotHeld, told>>
     \/ /\ answer = "error"
        /\ life' = Failed(life) /\ UNCHANGED <<slotHeld, told>>
  /\ answer' = "none"
  /\ UNCHANGED <<mode, asked, transport, syncArmed, drainVars, seat>>

\* The timer of the standby wait fires and clears standbyWakeup, whichever
\* wait that belonged to.
ParkOver ==
  /\ life.loop = "park"
  /\ LET l == [life EXCEPT !.wake = {}]
     IN  IF l.cancelled
         THEN life' = Ended(l) /\ UNCHANGED <<asked, answer>>
         ELSE /\ life' = [l EXCEPT !.loop = "retry"]
              /\ asked' = "standby" /\ answer' = "none"
  /\ UNCHANGED <<mode, slotHeld, transport, syncArmed, drainVars, seat, told>>

\* A standby request returns. A cancelled loop leaves without noting the slot.
RetryReturns ==
  /\ life.loop = "retry" /\ answer # "none"
  /\ IF answer # "accepted"
     THEN life' = Parked(life) /\ UNCHANGED <<slotHeld, told>>
     ELSE /\ ToldAccepted
          /\ IF life.cancelled THEN life' = Ended(life) /\ UNCHANGED slotHeld
                               ELSE Admitted
  /\ answer' = "none"
  /\ UNCHANGED <<mode, asked, transport, syncArmed, drainVars, seat>>

\* Mutant of Recovered: nextAdmissionMode is reset as soon as admitted.
RecoveredResetsMode ==
  /\ life.loop = "recover"
  /\ mode' = "initial"
  /\ \/ life.cancelled /\ life' = Ended(life) /\ UNCHANGED sock
     \/ ~life.cancelled /\ life' = [life EXCEPT !.loop = "connect"]
        /\ sock' = "handshake"
     \/ Fault("no_url") /\ ~life.cancelled /\ life' = Failed(life)
        /\ UNCHANGED sock
  /\ UNCHANGED <<slotHeld, asked, answer, hb, leaked, beats, syncArmed,
                 drainVars, seat, told>>

\* Recovery is over: cancelled, or startServices up to its await.
Recovered ==
  /\ life.loop = "recover"
  /\ \/ life.cancelled /\ life' = Ended(life) /\ UNCHANGED sock
     \/ ~life.cancelled /\ life' = [life EXCEPT !.loop = "connect"]
        /\ sock' = "handshake"
     \/ Fault("no_url") /\ ~life.cancelled /\ life' = Failed(life)
        /\ UNCHANGED sock
  /\ UNCHANGED <<mode, slotHeld, asked, answer, hb, leaked, beats, syncArmed,
                 drainVars, seat, told>>

Backoff ==
  /\ life.loop = "backoff"
  /\ life' = [life EXCEPT !.loop = "begin"]
  /\ UNCHANGED <<mode, slotHeld, asked, answer, transport, syncArmed,
                 drainVars, seat, told>>

-----------------------------------------------------------------------------
(* The AppSync connection: connect() and what its promise does.            *)

Unsettled == UNCHANGED <<life, mode, slotHeld, asked, answer, hb, leaked,
                         beats, syncArmed, drainVars, seat, told>>

Opened == /\ sock = "handshake" /\ Fault("unacked")
          /\ sock' = "opened" /\ Unsettled

\* The first attempt fails. this.ws is already set, so that nothing rejects
\* connect(): the socket reconnects on its own, unlimited, and startServices
\* awaits a promise that nothing settles.
ConnectFails == /\ sock \in {"handshake", "opened"} /\ Fault("connect")
                /\ sock' = "retrying" /\ Unsettled

\* It comes back without a subscription: subscribe() was never called.
Reconnects == sock = "retrying" /\ sock' = "deaf" /\ Unsettled

\* connection_ack: the rest of startServices, and of registerAndStart, looks
\* at no cancellation. startHeartbeat overwrites an interval that still runs.
Acked ==
  /\ sock \in {"handshake", "opened"} \/ (sock = "closing" /\ Fault("late_ack"))
  /\ sock' = IF sock = "closing" THEN "none" ELSE "up"
  /\ leaked' = (leaked \/ hb) /\ hb' = TRUE
  /\ \/ \E b \in Beats : beats[b] = "none" /\ beats' = [beats EXCEPT ![b] = "sent"]
     \/ (\A b \in Beats : beats[b] # "none") /\ UNCHANGED beats
  /\ mode' = "initial"
  /\ told' = IF told = "again" THEN "granted" ELSE told
  /\ life' = Ended(life)
  /\ UNCHANGED <<slotHeld, asked, answer, syncArmed, drainVars, seat>>

Closed == sock = "closing" /\ sock' = "none" /\ Unsettled

-----------------------------------------------------------------------------
(* Heartbeats, eviction, token updates.                                    *)

Beat(b) ==
  /\ hb \/ leaked
  /\ beats[b] = "none"
  /\ beats' = [beats EXCEPT ![b] = "sent"]
  /\ UNCHANGED <<loopVars, sock, hb, leaked, syncArmed, drainVars, seat, told>>

\* External: the server answers a heartbeat, or the request fails.
BeatAnswered(b) ==
  /\ beats[b] = "sent"
  /\ \/ seat = "evicted" /\ beats' = [beats EXCEPT ![b] = "evicted"]
     \/ /\ seat # "evicted" /\ Fault("config")
        /\ beats' = [beats EXCEPT ![b] = "config"]
     \/ seat # "evicted" /\ beats' = [beats EXCEPT ![b] = "none"]
     \/ Fault("lost") /\ beats' = [beats EXCEPT ![b] = "none"]
  /\ UNCHANGED <<loopVars, sock, hb, leaked, syncArmed, drainVars, seat, told>>

\* External: another replica takes the slot.
Evict ==
  /\ seat = "held" /\ seat' = "evicted"
  /\ UNCHANGED <<loopVars, transport, syncArmed, drainVars, told>>

\* A changed configHash schedules a sync, draining or not.
BeatConfig(b) ==
  /\ beats[b] = "config"
  /\ beats' = [beats EXCEPT ![b] = "none"]
  /\ syncArmed' = TRUE
  /\ UNCHANGED <<loopVars, sock, hb, leaked, drainVars, seat, told>>

\* handleEviction() of a replica that is shutting down or whose loop is
\* cancelled.
EvictionNoted(b) ==
  /\ beats[b] = "evicted"
  /\ phase # "none" \/ life.cancelled
  /\ beats' = [beats EXCEPT ![b] = "none"]
  /\ slotHeld' = FALSE
  /\ told' = IF told \in {"evicted", "again"} THEN "evicted" ELSE "late"
  /\ UNCHANGED <<life, mode, asked, answer, sock, hb, leaked, syncArmed,
                 drainVars, seat>>

\* handleEviction(): stop, and restart as a standby after a delay.
Evicted(b) ==
  /\ beats[b] = "evicted"
  /\ phase = "none" /\ ~life.cancelled /\ life.gen < MaxStops
  /\ slotHeld' = FALSE /\ told' = "evicted"
  /\ mode' = "standby"
  /\ StopTransport([beats EXCEPT ![b] = "none"]) /\ syncArmed' = FALSE
  /\ life' = Restarted(Disconnected(Cancelled(life)), TRUE)
  /\ UNCHANGED <<asked, answer, drainVars, seat>>

\* updateToken(): stop, and restart at once.
UpdateToken ==
  /\ Fault("token")
  /\ phase = "none" /\ life.gen < MaxStops
  /\ StopTransport(beats) /\ syncArmed' = FALSE
  /\ life' = Restarted(Disconnected(Cancelled(life)), FALSE)
  /\ UNCHANGED <<mode, slotHeld, asked, answer, drainVars, seat, told>>

\* Mutant of DelayOver: the generation is not compared.
DelayOverStarts(g) ==
  /\ g \in life.delays
  /\ life' = Started([life EXCEPT !.delays = @ \ {g}, !.wake = {}])
  /\ UNCHANGED <<mode, slotHeld, asked, answer, transport, syncArmed,
                 drainVars, seat, told>>

\* The delay of a restart is over: start(), unless superseded. Its timer
\* clears standbyWakeup, whichever wait that belonged to.
DelayOver(g) ==
  /\ g \in life.delays
  /\ LET l == [life EXCEPT !.delays = @ \ {g}, !.wake = {}]
     IN  life' = IF g = l.gen THEN Started(l) ELSE l
  /\ UNCHANGED <<mode, slotHeld, asked, answer, transport, syncArmed,
                 drainVars, seat, told>>

-----------------------------------------------------------------------------
(* Commands, and the graceful shutdown.                                    *)

Remaining == running \ excluded

\* Mutant of Shutdown: the promise is not memoized.
ShutdownAgain ==
  phase' = "drain" /\ syncArmed' = FALSE /\ life' = Cancelled(life)

\* The synchronous part of doShutdown; a later caller only joins it.
Shutdown ==
  IF phase = "none"
  THEN phase' = "drain" /\ syncArmed' = FALSE /\ life' = Cancelled(life)
  ELSE UNCHANGED <<phase, syncArmed, life>>

\* Mutant of Excluding: only the first caller is honoured.
ExcludingFirst(c) == IF phase = "none" THEN excluded \union {c} ELSE excluded

\* shutdown() notes the command that calls it before it joins anything.
Excluding(c) == excluded \union {c}

\* Mutant of StartCommand: the draining check is missing.
StartCommandDraining(c) ==
  /\ sock = "up" /\ c \notin running
  /\ running' = running \union {c}
  /\ UNCHANGED <<loopVars, transport, syncArmed, phase, timedOut, excluded,
                 awaiting, seat, told>>

\* processCommand gets past its checks.
StartCommand(c) ==
  /\ sock = "up" /\ c \notin running
  /\ phase = "none"
  /\ running' = running \union {c}
  /\ UNCHANGED <<loopVars, transport, syncArmed, phase, timedOut, excluded,
                 awaiting, seat, told>>

\* performReboot, performUpdate: the handler awaits shutdown().
Reboot(c) ==
  /\ c \in (Reboots \intersect running) \ awaiting
  /\ excluded' = Excluding(c) /\ Shutdown
  /\ awaiting' = awaiting \union {c}
  /\ UNCHANGED <<mode, slotHeld, asked, answer, transport, timedOut, running,
                 seat, told>>

\* A sync finds a new Docker customization: performDockerRebuild, not awaited.
Rebuild(c) ==
  /\ Fault("config") /\ c \in Syncs \intersect Remaining
  /\ excluded' = Excluding(c) /\ Shutdown
  /\ UNCHANGED <<mode, slotHeld, asked, answer, transport, timedOut, running,
                 awaiting, seat, told>>

\* The finally block of processCommand, once the handler has returned. (An
\* update that fails returns without a shutdown.)
EndCommand(c) ==
  /\ c \in running
  /\ c \in awaiting => phase = "done"
  /\ running' = running \ {c} /\ awaiting' = awaiting \ {c}
  /\ UNCHANGED <<loopVars, transport, syncArmed, phase, timedOut, excluded,
                 seat, told>>

\* SIGTERM, SIGINT, or the auto-updater.
Signal ==
  /\ phase = "none" /\ Shutdown
  /\ UNCHANGED <<mode, slotHeld, asked, answer, transport, timedOut, running,
                 excluded, awaiting, seat, told>>

\* A CONFIG_UPDATE notification; it looks at draining.
ConfigUpdate ==
  /\ Fault("config") /\ sock = "up" /\ phase = "none"
  /\ syncArmed' = TRUE
  /\ UNCHANGED <<loopVars, transport, drainVars, seat, told>>

\* A sync without a command: the debounced one, or the first of a registration.
\* It may find a new Docker customization.
SyncFires ==
  /\ syncArmed /\ syncArmed' = FALSE
  /\ \/ UNCHANGED <<life, phase>>
     \/ phase = "none" /\ phase' = "drain" /\ life' = Cancelled(life)
  /\ UNCHANGED <<mode, slotHeld, asked, answer, transport, timedOut, running,
                 excluded, awaiting, seat, told>>

FirstSyncRebuilds ==
  /\ Fault("config") /\ life.loop = "recover" /\ phase = "none"
  /\ Shutdown
  /\ UNCHANGED <<mode, slotHeld, asked, answer, transport, timedOut, running,
                 excluded, awaiting, seat, told>>

\* waitForDrain is over; without a slot doShutdown stops the transport at once.
Drained ==
  /\ phase = "drain"
  /\ \/ Remaining = {} /\ UNCHANGED timedOut
     \/ Remaining # {} /\ Fault("drain") /\ timedOut' = TRUE
  /\ IF slotHeld /\ ~timedOut'
     THEN phase' = "release" /\ UNCHANGED <<life, transport, syncArmed>>
     ELSE /\ phase' = "done" /\ StopTransport(beats) /\ syncArmed' = FALSE
          /\ life' = Disconnected(life)
  /\ UNCHANGED <<mode, slotHeld, asked, answer, running, excluded,
                 awaiting, seat, told>>

\* releaseSelf() returns, with or without having released the slot.
Released ==
  /\ phase = "release"
  /\ phase' = "done"
  /\ \/ seat' = IF seat = "held" THEN "none" ELSE seat
     \/ Fault("lost") /\ UNCHANGED seat
  /\ StopTransport(beats) /\ syncArmed' = FALSE
  /\ life' = Disconnected(life)
  /\ UNCHANGED <<mode, slotHeld, asked, answer, timedOut, running, excluded,
                 awaiting, told>>

-----------------------------------------------------------------------------
Init ==
  /\ life = [loop |-> "begin", cancelled |-> FALSE, gen |-> 0, queue |-> {},
             delays |-> {}, wake |-> {}]
  /\ mode = "initial" /\ slotHeld = FALSE
  /\ asked = "initial" /\ answer = "none"
  /\ sock = "none" /\ hb = FALSE /\ leaked = FALSE
  /\ beats = [b \in Beats |-> "none"]
  /\ syncArmed = FALSE
  /\ phase = "none" /\ timedOut = FALSE /\ running = {} /\ excluded = {}
  /\ awaiting = {}
  /\ seat = "none" /\ told = "nothing"

LoopStep == \/ Register \/ RegisterReturns \/ ParkOver \/ RetryReturns
            \/ Recovered \/ Backoff \/ \E g \in life.delays : DelayOver(g)

SocketStep == Opened \/ ConnectFails \/ Reconnects \/ Acked \/ Closed

HeartbeatStep ==
  \E b \in Beats : Beat(b) \/ BeatConfig(b) \/ EvictionNoted(b) \/ Evicted(b)

CommandStep == \E c \in Cmd : StartCommand(c) \/ Reboot(c) \/ Rebuild(c)
                              \/ EndCommand(c)

AgentStep == UpdateToken \/ Signal \/ ConfigUpdate \/ SyncFires
             \/ FirstSyncRebuilds \/ Drained \/ Released

ServerStep == Admit \/ Evict \/ \E b \in Beats : BeatAnswered(b)

Next == \/ LoopStep \/ SocketStep \/ HeartbeatStep \/ CommandStep \/ AgentStep
        \/ ServerStep

Spec == Init /\ [][Next]_vars

\* Timers fire, requests return, handlers end; no fairness for events from
\* outside, nor for a timeout of the drain.
Fairness ==
  /\ WF_vars(Register) /\ WF_vars(Admit) /\ WF_vars(RegisterReturns)
  /\ WF_vars(ParkOver) /\ WF_vars(RetryReturns) /\ WF_vars(Recovered)
  /\ WF_vars(Backoff) /\ WF_vars(Reconnects) /\ WF_vars(Acked) /\ WF_vars(Closed)
  /\ \A g \in 1 .. MaxStops : WF_vars(DelayOver(g))
  /\ \A c \in Cmd : WF_vars(EndCommand(c))
  /\ WF_vars(Drained /\ Remaining = {}) /\ WF_vars(Released)

FairSpec == Spec /\ Fairness

-----------------------------------------------------------------------------
(* Properties.                                                             *)

\* Every variable keeps its type.
TypeOK ==
  /\ life \in Life
  /\ mode \in Admission /\ slotHeld \in BOOLEAN
  /\ asked \in Admission
  /\ answer \in {"none", "accepted", "rejected", "error"}
  /\ sock \in {"none", "handshake", "opened", "closing", "retrying", "deaf", "up"}
  /\ hb \in BOOLEAN /\ leaked \in BOOLEAN
  /\ beats \in [Beats -> {"none", "sent", "evicted", "config"}]
  /\ syncArmed \in BOOLEAN
  /\ phase \in {"none", "drain", "release", "done"} /\ timedOut \in BOOLEAN
  /\ running \subseteq Cmd /\ excluded \subseteq Cmd
  /\ awaiting \subseteq Reboots
  /\ seat \in {"none", "held", "evicted"}
  /\ told \in {"nothing", "granted", "evicted", "again", "late"}

\* doShutdown gives the slot back only when nothing runs any more but the
\* commands that asked for the shutdown: the server may hand a released
\* replica's commands to another one, which would run them a second time.
ReleasedIdle == phase \in {"release", "done"} /\ ~timedOut => Remaining = {}

\* Once shutdown() has begun, no restart that was under way brings the
\* register loop back: restartRegisterLoop compares generations for this.
ShutdownIsFinal ==
  [][phase # "none" /\ life.loop = "off" => life'.loop = "off"]_vars

\* At most one restart is not superseded, and there is none while the loop
\* runs: a later start() would find isRegistering set and be dropped.
LiveRestarts == {q.gen : q \in life.queue} \union life.delays
OneLiveRestart ==
  life.gen \in LiveRestarts => life.cancelled /\ phase = "none"

\* A replica that learns of its eviction at work asks for a free slot only, until it
\* has been admitted again and its services are up: as "initial" it would
\* evict the replica that took its place, and the two would swap for ever.
ReturnsAsStandby ==
  [][life.loop = "begin" /\ life'.loop = "register" /\ asked' = "initial"
       => told \notin {"evicted", "again"}]_vars

\* A loop whose connect() nobody settles any more: its first connection has
\* failed, or was closed before the acknowledgement.
Hanging == life.loop = "connect" /\ sock \notin {"handshake", "opened"}

\* A token update or an eviction never leaves the agent idle: the register
\* loop is started again unless the agent shuts down, or the loop hangs.
RestartNotLost ==
  life.cancelled /\ ~Hanging ~> ~life.cancelled \/ phase # "none" \/ Hanging

\* A shutdown ends by itself once the ordinary commands have: it does not wait
\* for the commands that wait for it.
ShutdownEnds == phase # "none" ~> phase = "done"

\* A shutdown is sound: it gives back an idle replica and is not undone.
ShutdownSound == [](TypeOK /\ ReleasedIdle) /\ ShutdownIsFinal

\* Standby is kept: a replica that waits in standby holds no connection (one may
\* be closing) and sends no heartbeat, and standby is asked for after an eviction.
StandbyKept ==
  /\ [](life.loop \in {"park", "retry"} => sock \in {"none", "closing"} /\ ~hb /\ ~leaked)
  /\ ReturnsAsStandby

\* Every restart and every shutdown comes to its end.
LifeProgresses == RestartNotLost /\ ShutdownEnds
=============================================================================

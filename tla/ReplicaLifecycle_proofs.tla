----------------------- MODULE ReplicaLifecycle_proofs -----------------------
(***************************************************************************)
(* What holds of a replica's life for any commands, number of heartbeats,  *)
(* number of stops and combination of events. The argument is about the    *)
(* generations: a restart that is queued or delayed bears the generation   *)
(* of the stop() it belongs to, cancelling makes every restart stale, and  *)
(* nothing starts the loop on behalf of a stale one. A connection then     *)
(* belongs to one loop, and standby is quiet.                              *)
(***************************************************************************)
EXTENDS ReplicaLifecycle, TLAPS

\* No restart of l bears the current generation.
Stale(l) == (\A q \in l.queue : q.gen # l.gen) /\ l.gen \notin l.delays

\* Generations never run ahead; a current restart is unique, and implies that
\* the loop has been cancelled.
Sound(l) ==
  /\ \A q \in l.queue : q.gen <= l.gen
  /\ \A g \in l.delays : g <= l.gen
  /\ ~l.cancelled => Stale(l)
  /\ \A q, r \in l.queue : q.gen = l.gen /\ r.gen = l.gen => q = r
  /\ l.gen \in l.delays => \A q \in l.queue : q.gen # l.gen

LifeInv ==
  /\ Sound(life)
  /\ phase = "none" => life.gen <= MaxStops
  /\ phase # "none" => Stale(life)

IInv == TypeOK /\ LifeInv

-----------------------------------------------------------------------------
(* The operations on the loop and its restarts.                            *)

\* A loop that ends stays ended unless a current restart awaited it.
LEMMA EndedSound ==
  ASSUME NEW l \in Life, Sound(l)
  PROVE  /\ Ended(l) \in Life /\ Sound(Ended(l)) /\ Ended(l).gen = l.gen
         /\ Stale(l) => /\ Stale(Ended(l)) /\ Ended(l).loop = "off"
                        /\ Ended(l).cancelled = l.cancelled
<1> DEFINE late == {q.gen : q \in {q \in l.queue : q.delayed}}
           done == [l EXCEPT !.loop = "off", !.queue = {},
                             !.delays = @ \union late,
                             !.wake = IF late = {} THEN @ ELSE late]
           go == \E q \in l.queue : ~q.delayed /\ q.gen = l.gen
<1>1. late \subseteq 1 .. MaxStops
  BY DEF Life
<1>2. /\ done.loop = "off" /\ done.queue = {} /\ done.gen = l.gen
      /\ done.delays = l.delays \union late /\ done.cancelled = l.cancelled
  BY DEF Life
<1>3. done \in Life
  <2>1. (IF late = {} THEN l.wake ELSE late) \in SUBSET (0 .. MaxStops)
    BY <1>1 DEF Life
  <2>2. l.delays \union late \in SUBSET (1 .. MaxStops)
    BY <1>1 DEF Life
  <2> HIDE DEF late
  <2> QED BY <2>1, <2>2 DEF Life, Loop
<1>4. Ended(l) = IF go THEN Started(done) ELSE done
  BY DEF Ended
<1>5. \A g \in late : g <= l.gen
  BY DEF Sound
<1>6. Stale(l) => l.gen \notin late /\ ~go
  BY DEF Stale
<1>7. CASE ~go
  <2>1. Ended(l) = done
    BY <1>4, <1>7
  <2>2. l.gen \in late => l.cancelled
    BY <1>6 DEF Sound
  <2> HIDE DEF done, late, go
  <2> QED BY <2>1, <2>2, <1>2, <1>3, <1>5, <1>6 DEF Sound, Stale
<1>8. CASE go
  <2>1. l.gen \notin l.delays
    BY <1>8 DEF Sound
  <2>2. l.gen \notin late
    BY <1>8 DEF Sound
  <2>3. Ended(l) = [done EXCEPT !.loop = "begin", !.cancelled = FALSE]
    BY <1>4, <1>8, <1>2 DEF Started
  <2>4. ~Stale(l)
    BY <1>6, <1>8
  <2> HIDE DEF done, late, go
  <2>5. /\ Ended(l) \in Life /\ Ended(l).gen = done.gen
        /\ Ended(l).queue = done.queue /\ Ended(l).delays = done.delays
        /\ ~Ended(l).cancelled
    BY <2>3, <1>3 DEF Life, Loop
  <2> QED BY <2>1, <2>2, <2>4, <2>5, <1>2, <1>5 DEF Sound, Stale
<1> QED BY <1>7, <1>8

\* Cancelling leaves no current restart.
LEMMA CancelledSound ==
  ASSUME NEW l \in Life, Sound(l), l.gen <= MaxStops
  PROVE  /\ Cancelled(l) \in Life /\ Sound(Cancelled(l)) /\ Stale(Cancelled(l))
         /\ Cancelled(l).gen = l.gen + 1 /\ Cancelled(l).cancelled
         /\ l.loop = "off" => Cancelled(l).loop = "off"
<1> DEFINE m == [l EXCEPT !.gen = @ + 1, !.cancelled = TRUE,
                          !.delays = @ \ l.wake, !.wake = {}]
<1>1. /\ m.gen = l.gen + 1 /\ m.cancelled = TRUE /\ m.loop = l.loop
      /\ m.delays = l.delays \ l.wake /\ m.queue = l.queue
  BY DEF Life
<1>2. m \in Life
  <2>1. l.gen + 1 \in 0 .. MaxStops + 1 /\ l.delays \ l.wake \subseteq 1 .. MaxStops
    BY ReplicaAssumption DEF Life
  <2> QED BY <2>1 DEF Life
<1>3. l.gen \in Nat /\ \A q \in l.queue : q.gen \in Nat
  BY ReplicaAssumption DEF Life
<1>4. l.delays \subseteq Nat
  BY DEF Life
<1>5. Cancelled(l) = IF l.loop = "backoff" \/ (l.loop = "park" /\ 0 \in l.wake)
                     THEN Ended(m) ELSE m
  BY DEF Cancelled
<1> HIDE DEF m
<1>6. Stale(m) /\ Sound(m)
  <2>1. \A q \in m.queue : q.gen < m.gen
    BY <1>1, <1>3 DEF Sound
  <2>2. \A g \in m.delays : g < m.gen
    BY <1>1, <1>3, <1>4 DEF Sound
  <2>3. m.gen \in Nat /\ m.delays \subseteq Nat /\ \A q \in m.queue : q.gen \in Nat
    BY <1>1, <1>3, <1>4
  <2> QED BY <2>1, <2>2, <2>3 DEF Sound, Stale
<1>7. /\ Ended(m) \in Life /\ Sound(Ended(m)) /\ Ended(m).gen = m.gen
      /\ Stale(Ended(m)) /\ Ended(m).loop = "off"
      /\ Ended(m).cancelled = m.cancelled
  BY <1>2, <1>6, EndedSound
<1> QED BY <1>1, <1>2, <1>5, <1>6, <1>7

\* The end of a connection in its handshake ends a stale loop for good.
LEMMA DisconnectedSound ==
  ASSUME NEW l \in Life, Sound(l), Stale(l)
  PROVE  /\ Disconnected(l) \in Life /\ Sound(Disconnected(l))
         /\ Stale(Disconnected(l)) /\ Disconnected(l).gen = l.gen
         /\ Disconnected(l).cancelled = l.cancelled
         /\ l.loop = "off" => Disconnected(l).loop = "off"
BY EndedSound DEF Disconnected

\* A restart right after a stop is the only current one.
LEMMA RestartedSound ==
  ASSUME NEW l \in Life, NEW d \in BOOLEAN,
         Sound(l), Stale(l), l.cancelled, l.gen \in 1 .. MaxStops
  PROVE  /\ Restarted(l, d) \in Life /\ Sound(Restarted(l, d))
         /\ Restarted(l, d).gen = l.gen
<1> DEFINE q == [gen |-> l.gen, delayed |-> d]
           a == [l EXCEPT !.queue = @ \union {q}]
           b == [l EXCEPT !.delays = @ \union {l.gen}, !.wake = {l.gen}]
<1>1. CASE l.loop # "off"
  <2>1. Restarted(l, d) = a
    BY <1>1 DEF Restarted
  <2>2. q \in [gen : 1 .. MaxStops, delayed : BOOLEAN]
    OBVIOUS
  <2>3. a \in Life
    BY <2>2 DEF Life
  <2>4. /\ a.gen = l.gen /\ a.queue = l.queue \union {q} /\ a.delays = l.delays
        /\ a.cancelled
    BY DEF Life
  <2>5. q.gen = l.gen
    OBVIOUS
  <2> HIDE DEF a, q
  <2> QED BY <2>1, <2>3, <2>4, <2>5 DEF Sound, Stale
<1>2. CASE l.loop = "off" /\ d
  <2>1. Restarted(l, d) = b
    BY <1>2 DEF Restarted
  <2>2. l.delays \union {l.gen} \subseteq 1 .. MaxStops /\ {l.gen} \subseteq 0 .. MaxStops
    BY DEF Life
  <2>3. b \in Life
    BY <2>2 DEF Life
  <2>4. /\ b.gen = l.gen /\ b.queue = l.queue
        /\ b.delays = l.delays \union {l.gen} /\ b.cancelled
    BY DEF Life
  <2> HIDE DEF b
  <2> QED BY <2>1, <2>3, <2>4 DEF Sound, Stale
<1>3. CASE l.loop = "off" /\ ~d
  <2> DEFINE c == [l EXCEPT !.loop = "begin", !.cancelled = FALSE]
  <2>1. Restarted(l, d) = c
    BY <1>3 DEF Restarted, Started
  <2>2. c \in Life /\ c.gen = l.gen /\ c.queue = l.queue /\ c.delays = l.delays
    BY DEF Life, Loop
  <2> HIDE DEF c
  <2> QED BY <2>1, <2>2 DEF Sound, Stale
<1> QED BY <1>1, <1>2, <1>3

\* start() of a loop that is over, by a restart that is none any more.
LEMMA StartedSound ==
  ASSUME NEW l \in Life, Sound(l), Stale(l)
  PROVE  Started(l) \in Life /\ Sound(Started(l)) /\ Started(l).gen = l.gen
<1> DEFINE c == [l EXCEPT !.loop = "begin", !.cancelled = FALSE]
<1>1. c \in Life /\ c.gen = l.gen /\ c.queue = l.queue /\ c.delays = l.delays
  BY DEF Life, Loop
<1>2. Started(l) = c \/ Started(l) = l
  BY DEF Started
<1> HIDE DEF c
<1>3. Sound(c)
  BY <1>1 DEF Sound, Stale
<1> QED BY <1>1, <1>2, <1>3

\* A delay that is over leaves the set of restarts.
LEMMA DelaySound ==
  ASSUME NEW l \in Life, NEW g \in l.delays, Sound(l)
  PROVE  LET m == [l EXCEPT !.delays = @ \ {g}, !.wake = {}]
         IN  /\ m \in Life /\ Sound(m) /\ m.gen = l.gen /\ m.loop = l.loop
             /\ Stale(l) => Stale(m)
             /\ g = l.gen => Stale(m)
<1> DEFINE m == [l EXCEPT !.delays = @ \ {g}, !.wake = {}]
<1>1. m \in Life
  BY DEF Life
<1>2. /\ m.gen = l.gen /\ m.loop = l.loop /\ m.cancelled = l.cancelled
      /\ m.queue = l.queue /\ m.delays = l.delays \ {g}
  BY DEF Life
<1> HIDE DEF m
<1>3. Sound(m) /\ (Stale(l) => Stale(m)) /\ (g = l.gen => Stale(m))
  BY <1>2 DEF Sound, Stale
<1> QED BY <1>1, <1>2, <1>3 DEF m

-----------------------------------------------------------------------------
(* The steps of the agent.                                                 *)

\* What a step owes the loop and its restarts: they stay sound, a shutdown
\* leaves none that is current, and brings back no loop that is over.
LifeKept == /\ life' \in Life /\ LifeInv'
            /\ phase # "none" /\ life.loop = "off" => life'.loop = "off"

\* Steps that leave the loop and the phase alone owe nothing.
LEMMA UntouchedLife == IInv /\ UNCHANGED <<life, phase>> => LifeKept
BY DEF IInv, TypeOK, LifeInv, LifeKept, Sound, Stale

\* m has the restarts and the generation of l.
Same(l, m) == /\ m \in Life /\ m.gen = l.gen /\ m.cancelled = l.cancelled
              /\ m.queue = l.queue /\ m.delays = l.delays

\* Steps that move the loop along, or let it end, while it runs.
LEMMA MovedLife ==
  ASSUME IInv, UNCHANGED phase, life.loop # "off",
         NEW m, Same(life, m), life' = m \/ life' = Ended(m)
  PROVE  LifeKept
<1>1. life \in Life /\ Sound(life)
  BY DEF IInv, TypeOK, LifeInv
<1>2. /\ m \in Life /\ Sound(m) /\ m.gen = life.gen
      /\ Stale(life) => Stale(m)
  BY <1>1 DEF Same, Sound, Stale
<1>3. /\ Ended(m) \in Life /\ Sound(Ended(m)) /\ Ended(m).gen = m.gen
      /\ Stale(m) => Stale(Ended(m))
  BY <1>2, EndedSound
<1> QED BY <1>1, <1>2, <1>3 DEF IInv, LifeInv, LifeKept

\* The steps of the register loop, but for the restarts.
LEMMA LoopLife ==
  ASSUME IInv,
         Register \/ RegisterReturns \/ ParkOver \/ RetryReturns \/ Recovered
           \/ Backoff
  PROVE  LifeKept
<1> DEFINE At(k) == [life EXCEPT !.loop = k]
           park == [life EXCEPT !.loop = "park", !.wake = {0}]
           unwoken == [life EXCEPT !.wake = {}]
           retry == [unwoken EXCEPT !.loop = "retry"]
<1>1. life \in Life /\ UNCHANGED phase /\ life.loop # "off"
  BY DEF IInv, TypeOK, Register, RegisterReturns, ParkOver, RetryReturns,
         Recovered, Backoff, drainVars
<1>2. Same(life, life)
  BY <1>1 DEF Same
<1>3. \A k \in Loop : Same(life, At(k))
  BY <1>1 DEF Same, Life
<1>4. Same(life, park)
  <2>1. {0} \subseteq 0 .. MaxStops
    BY ReplicaAssumption
  <2> QED BY <1>1, <2>1 DEF Same, Life, Loop
<1>5. Same(life, unwoken) /\ Same(life, retry)
  BY <1>1 DEF Same, Life, Loop
<1>6. \/ \E k \in Loop : life' = At(k)
      \/ life' \in {park, retry, Ended(life), Ended(unwoken)}
  <2>1. CASE Register
    BY <2>1 DEF Register, Loop
  <2>2. CASE RegisterReturns
    BY <2>2 DEF RegisterReturns, Admitted, Parked, Failed, Loop
  <2>3. CASE ParkOver
    BY <2>3 DEF ParkOver
  <2>4. CASE RetryReturns
    BY <2>4 DEF RetryReturns, Admitted, Parked, Loop
  <2>5. CASE Recovered
    BY <2>5 DEF Recovered, Failed, Loop
  <2>6. CASE Backoff
    BY <2>6 DEF Backoff, Loop
  <2> QED BY <2>1, <2>2, <2>3, <2>4, <2>5, <2>6
<1> HIDE DEF At, park, unwoken, retry
<1> QED BY <1>1, <1>2, <1>3, <1>4, <1>5, <1>6, MovedLife

\* The synchronous part of shutdown().
LEMMA ShutdownLife ==
  ASSUME IInv, \/ phase = "none" /\ phase' = "drain" /\ life' = Cancelled(life)
               \/ UNCHANGED <<life, phase>>
  PROVE  LifeKept
<1>1. CASE phase = "none" /\ phase' = "drain" /\ life' = Cancelled(life)
  <2>1. life \in Life /\ Sound(life) /\ life.gen <= MaxStops
    BY <1>1 DEF IInv, TypeOK, LifeInv
  <2>2. life' \in Life /\ Sound(life') /\ Stale(life')
    BY <1>1, <2>1, CancelledSound
  <2> QED BY <1>1, <2>2 DEF LifeInv, LifeKept, Sound, Stale
<1>2. CASE UNCHANGED <<life, phase>>
  BY <1>2, UntouchedLife
<1> QED BY <1>1, <1>2

\* stop() followed by restartRegisterLoop().
LEMMA StopLife ==
  ASSUME IInv, phase = "none", UNCHANGED phase, life.gen < MaxStops,
         NEW d \in BOOLEAN,
         life' = Restarted(Disconnected(Cancelled(life)), d)
  PROVE  LifeKept
<1> DEFINE c == Cancelled(life)
           e == Disconnected(c)
<1>1. life \in Life /\ Sound(life) /\ life.gen \in Nat /\ MaxStops \in Nat
  BY ReplicaAssumption DEF IInv, TypeOK, LifeInv, Life
<1>2. /\ c \in Life /\ Sound(c) /\ Stale(c) /\ c.gen = life.gen + 1
      /\ c.cancelled
  BY <1>1, CancelledSound
<1> HIDE DEF c
<1>3. e \in Life /\ Sound(e) /\ Stale(e) /\ e.gen = c.gen /\ e.cancelled
  BY <1>2, DisconnectedSound
<1>4. e.gen \in 1 .. MaxStops
  BY <1>1, <1>2, <1>3
<1>5. life' = Restarted(e, d)
  BY DEF c
<1> HIDE DEF e
<1>6. life' \in Life /\ Sound(life') /\ life'.gen = e.gen
  BY <1>3, <1>4, <1>5, RestartedSound
<1> QED BY <1>4, <1>6 DEF LifeInv, LifeKept, Sound, Stale

\* The last stopTransport() of a shutdown.
LEMMA DoneLife ==
  ASSUME IInv, phase # "none", phase' # "none",
         life' = Disconnected(life) \/ life' = life
  PROVE  LifeKept
<1>1. life \in Life /\ Sound(life) /\ Stale(life)
  BY DEF IInv, TypeOK, LifeInv
<1>2. /\ Disconnected(life) \in Life /\ Sound(Disconnected(life))
      /\ Stale(Disconnected(life))
      /\ life.loop = "off" => Disconnected(life).loop = "off"
  BY <1>1, DisconnectedSound
<1> QED BY <1>1, <1>2 DEF LifeInv, LifeKept, Sound, Stale

\* A restart whose delay is over.
LEMMA DelayLife ==
  ASSUME IInv, NEW g \in life.delays, DelayOver(g)
  PROVE  LifeKept
<1> DEFINE l == [life EXCEPT !.delays = @ \ {g}, !.wake = {}]
<1>1. life \in Life /\ Sound(life) /\ phase' = phase
  BY DEF IInv, TypeOK, LifeInv, DelayOver, drainVars
<1>2. /\ l \in Life /\ Sound(l) /\ l.gen = life.gen /\ l.loop = life.loop
      /\ Stale(life) => Stale(l)
      /\ g = life.gen => Stale(l)
  BY <1>1, DelaySound
<1>3. life' = IF g = l.gen THEN Started(l) ELSE l
  BY DEF DelayOver
<1> HIDE DEF l
<1>4. CASE g = life.gen
  <2>1. Started(l) \in Life /\ Sound(Started(l)) /\ Started(l).gen = l.gen
    BY <1>2, <1>4, StartedSound
  <2>2. life' = Started(l) /\ ~Stale(life)
    BY <1>2, <1>3, <1>4 DEF Stale
  <2> QED BY <1>1, <1>2, <2>1, <2>2 DEF IInv, LifeInv, LifeKept
<1>5. CASE g # life.gen
  BY <1>1, <1>2, <1>3, <1>5 DEF IInv, LifeInv, LifeKept
<1> QED BY <1>4, <1>5

\* The acknowledgement of the connection ends the loop.
LEMMA AckedLife ==
  ASSUME IInv, Acked
  PROVE  LifeKept
<1>1. life \in Life /\ Sound(life) /\ UNCHANGED phase /\ life' = Ended(life)
  BY DEF IInv, TypeOK, LifeInv, Acked, drainVars
<1>2. /\ Ended(life) \in Life /\ Sound(Ended(life))
      /\ Ended(life).gen = life.gen
      /\ Stale(life) => Stale(Ended(life)) /\ Ended(life).loop = "off"
  BY <1>1, EndedSound
<1> QED BY <1>1, <1>2 DEF IInv, LifeInv, LifeKept

LEMMA StepLife ==
  ASSUME IInv, [Next]_vars
  PROVE  LifeKept
<1>1. CASE LoopStep
  BY <1>1, LoopLife, DelayLife DEF LoopStep
<1>2. CASE Acked
  BY <1>2, AckedLife
<1>3. CASE Opened \/ ConnectFails \/ Reconnects \/ Closed
  BY <1>3, UntouchedLife DEF Opened, ConnectFails, Reconnects, Closed,
                             Unsettled, drainVars
<1>4. ASSUME NEW b \in Beats, Beat(b) \/ BeatConfig(b) \/ EvictionNoted(b)
      PROVE  LifeKept
  BY <1>4, UntouchedLife DEF Beat, BeatConfig, EvictionNoted, loopVars, drainVars
<1>5. ASSUME NEW b \in Beats, Evicted(b)
      PROVE  LifeKept
  BY <1>5, StopLife DEF Evicted, drainVars
<1>6. ASSUME NEW c \in Cmd, StartCommand(c) \/ EndCommand(c)
      PROVE  LifeKept
  BY <1>6, UntouchedLife DEF StartCommand, EndCommand, loopVars
<1>7. ASSUME NEW c \in Cmd, Reboot(c) \/ Rebuild(c)
      PROVE  LifeKept
  BY <1>7, ShutdownLife DEF Reboot, Rebuild, Shutdown
<1>8. CASE UpdateToken
  BY <1>8, StopLife DEF UpdateToken, drainVars
<1>9. CASE Signal \/ FirstSyncRebuilds
  BY <1>9, ShutdownLife DEF Signal, FirstSyncRebuilds, Shutdown
<1>10. CASE SyncFires
  BY <1>10, ShutdownLife DEF SyncFires
<1>11. CASE ConfigUpdate
  BY <1>11, UntouchedLife DEF ConfigUpdate, loopVars, drainVars
<1>12. CASE Drained
  <2>1. phase # "none" /\ phase' # "none"
    BY <1>12 DEF Drained
  <2>2. life' = Disconnected(life) \/ life' = life
    BY <1>12 DEF Drained
  <2> QED BY <2>1, <2>2, DoneLife
<1>13. CASE Released
  BY <1>13, DoneLife DEF Released
<1>14. CASE ServerStep
  BY <1>14, UntouchedLife DEF ServerStep, Admit, Evict, BeatAnswered, loopVars,
                              drainVars
<1>15. CASE UNCHANGED vars
  BY <1>15, UntouchedLife DEF vars, loopVars, drainVars
<1> QED
  BY <1>1, <1>2, <1>3, <1>4, <1>5, <1>6, <1>7, <1>8, <1>9, <1>10, <1>11, <1>12,
     <1>13, <1>14, <1>15
  DEF Next, SocketStep, HeartbeatStep, CommandStep, AgentStep
-----------------------------------------------------------------------------
(* The other variables.                                                    *)

\* TypeOK without the part on the loop.
RestTypeOK ==
  /\ mode \in Admission /\ slotHeld \in BOOLEAN
  /\ asked \in Admission
  /\ answer \in {"none", "accepted", "rejected", "error"}
  /\ sock \in {"none", "handshake", "opened", "closing", "retrying", "deaf", "up"}
  /\ hb \in BOOLEAN /\ leaked \in BOOLEAN
  /\ beats \in [Beats -> {"none", "sent", "evicted", "config"}]
  /\ syncArmed \in BOOLEAN
  /\ phase \in {"none", "drain", "release", "done"} /\ timedOut \in BOOLEAN
  /\ running \subseteq Cmd /\ excluded \subseteq Cmd
  /\ awaiting \subseteq Reboots
  /\ seat \in {"none", "held", "evicted"}
  /\ told \in {"nothing", "granted", "evicted", "again", "late"}

\* stopTransport() keeps the types of what it changes.
LEMMA StoppedType ==
  ASSUME RestTypeOK, NEW b \in [Beats -> {"none", "sent", "evicted", "config"}],
         StopTransport(b)
  PROVE  /\ sock' \in {"none", "closing"} /\ hb' = FALSE /\ leaked' \in BOOLEAN
         /\ beats' \in [Beats -> {"none", "sent", "evicted", "config"}]
BY DEF RestTypeOK, StopTransport, SockStopped, Dropped

LEMMA RestStep ==
  ASSUME RestTypeOK, [Next]_vars
  PROVE  RestTypeOK'
<1>1. CASE LoopStep
  <2>1. CASE Register \/ ParkOver \/ Backoff \/ \E g \in life.delays : DelayOver(g)
    <3>1. CASE Register
      BY <3>1 DEF RestTypeOK, Register, Admission, transport, drainVars
    <3>2. CASE ParkOver
      BY <3>2 DEF RestTypeOK, ParkOver, Admission, transport, drainVars
    <3>3. CASE Backoff
      BY <3>3 DEF RestTypeOK, Backoff, transport, drainVars
    <3>4. ASSUME NEW g \in life.delays, DelayOver(g) PROVE RestTypeOK'
      BY <3>4 DEF RestTypeOK, DelayOver, Admission, transport, drainVars
    <3> QED BY <2>1, <3>1, <3>2, <3>3, <3>4
  <2>2. CASE RegisterReturns
    <3>1. slotHeld' = slotHeld \/ slotHeld' = TRUE
      BY <2>2 DEF RegisterReturns, Admitted
    <3>2. told' \in {"nothing", "granted", "evicted", "again", "late"}
      BY <2>2 DEF RegisterReturns, ToldAccepted, RestTypeOK
    <3>3. slotHeld' \in BOOLEAN
      BY <3>1, Zenon DEF RestTypeOK
    <3>4. /\ answer' = "none"
          /\ UNCHANGED <<mode, asked, transport, syncArmed, drainVars, seat>>
      BY <2>2 DEF RegisterReturns
    <3> QED BY <3>2, <3>3, <3>4 DEF RestTypeOK, transport, drainVars
  <2>3. CASE RetryReturns
    <3>1. slotHeld' = slotHeld \/ slotHeld' = TRUE
      BY <2>3 DEF RetryReturns, Admitted
    <3>2. told' \in {"nothing", "granted", "evicted", "again", "late"}
      BY <2>3 DEF RetryReturns, ToldAccepted, RestTypeOK
    <3>3. slotHeld' \in BOOLEAN
      BY <3>1, Zenon DEF RestTypeOK
    <3>4. /\ answer' = "none"
          /\ UNCHANGED <<mode, asked, transport, syncArmed, drainVars, seat>>
      BY <2>3 DEF RetryReturns
    <3> QED BY <3>2, <3>3, <3>4 DEF RestTypeOK, transport, drainVars
  <2>4. CASE Recovered
    BY <2>4 DEF RestTypeOK, Recovered, drainVars
  <2> QED BY <1>1, <2>1, <2>2, <2>3, <2>4 DEF LoopStep
<1>2. CASE SocketStep
  <2>1. CASE Acked
    BY <2>1 DEF RestTypeOK, Acked, drainVars, Admission
  <2>2. CASE Opened \/ ConnectFails \/ Reconnects \/ Closed
    BY <2>2 DEF RestTypeOK, Opened, ConnectFails, Reconnects, Closed, Unsettled,
                drainVars
  <2> QED BY <1>2, <2>1, <2>2 DEF SocketStep
<1>3. CASE HeartbeatStep
  <2>1. ASSUME NEW b \in Beats, Beat(b) \/ BeatConfig(b) \/ EvictionNoted(b)
        PROVE  RestTypeOK'
    <3>1. \E v \in {"none", "sent"} : beats' = [beats EXCEPT ![b] = v]
      BY <2>1 DEF Beat, BeatConfig, EvictionNoted
    <3>2. beats' \in [Beats -> {"none", "sent", "evicted", "config"}]
      BY <3>1 DEF RestTypeOK
    <3>3. CASE Beat(b)
      BY <3>2, <3>3 DEF RestTypeOK, Beat, loopVars, drainVars
    <3>4. CASE BeatConfig(b)
      BY <3>2, <3>4 DEF RestTypeOK, BeatConfig, loopVars, drainVars
    <3>5. CASE EvictionNoted(b)
      <4>1. slotHeld' \in BOOLEAN /\ told' \in {"nothing", "granted", "evicted", "again", "late"}
        BY <3>5 DEF EvictionNoted
      <4>2. UNCHANGED <<mode, asked, answer, sock, hb, leaked, syncArmed, drainVars, seat>>
        BY <3>5 DEF EvictionNoted
      <4> QED BY <3>2, <4>1, <4>2 DEF RestTypeOK, drainVars
    <3> QED BY <2>1, <3>3, <3>4, <3>5
  <2>2. ASSUME NEW b \in Beats, Evicted(b)
        PROVE  RestTypeOK'
    <3>1. [beats EXCEPT ![b] = "none"]
            \in [Beats -> {"none", "sent", "evicted", "config"}]
      BY DEF RestTypeOK
    <3>2. StopTransport([beats EXCEPT ![b] = "none"])
      BY <2>2 DEF Evicted
    <3>3. /\ sock' \in {"none", "closing"} /\ hb' = FALSE /\ leaked' \in BOOLEAN
          /\ beats' \in [Beats -> {"none", "sent", "evicted", "config"}]
      BY <3>1, <3>2, StoppedType
    <3> QED BY <2>2, <3>3 DEF RestTypeOK, Evicted, Admission, drainVars
  <2> QED BY <1>3, <2>1, <2>2 DEF HeartbeatStep
<1>4. CASE CommandStep
  <2>1. ASSUME NEW c \in Cmd,
               StartCommand(c) \/ Reboot(c) \/ Rebuild(c) \/ EndCommand(c)
        PROVE  RestTypeOK'
    <3>1. /\ running' \in {running, running \union {c}, running \ {c}}
          /\ excluded' \in {excluded, excluded \union {c}}
      BY <2>1 DEF StartCommand, Reboot, Rebuild, EndCommand, Excluding, drainVars
    <3>2. \/ awaiting' = awaiting \/ awaiting' = awaiting \ {c}
          \/ c \in Reboots /\ awaiting' = awaiting \union {c}
      BY <2>1 DEF StartCommand, Reboot, Rebuild, EndCommand
    <3>3. phase' \in {phase, "drain"}
      BY <2>1 DEF StartCommand, Reboot, Rebuild, EndCommand, Shutdown
    <3>6. syncArmed' = syncArmed \/ syncArmed' = FALSE
      BY <2>1 DEF StartCommand, Reboot, Rebuild, EndCommand, Shutdown
    <3>7. syncArmed' \in BOOLEAN
      BY <3>6, Zenon DEF RestTypeOK
    <3>4. /\ UNCHANGED <<mode, slotHeld, asked, answer, timedOut, seat, told>>
          /\ UNCHANGED transport
      BY <2>1 DEF StartCommand, Reboot, Rebuild, EndCommand, loopVars
    <3>5. running' \subseteq Cmd /\ excluded' \subseteq Cmd /\ awaiting' \subseteq Reboots
      BY <3>1, <3>2 DEF RestTypeOK
    <3> QED BY <3>3, <3>4, <3>5, <3>7 DEF RestTypeOK, transport
  <2> QED BY <1>4, <2>1 DEF CommandStep
<1>5. CASE AgentStep
  <2>1. beats \in [Beats -> {"none", "sent", "evicted", "config"}]
    BY DEF RestTypeOK
  <2>2. CASE UpdateToken
    <3>1. /\ sock' \in {"none", "closing"} /\ hb' = FALSE /\ leaked' \in BOOLEAN
          /\ beats' \in [Beats -> {"none", "sent", "evicted", "config"}]
      BY <2>1, <2>2, StoppedType DEF UpdateToken
    <3> QED BY <2>2, <3>1 DEF RestTypeOK, UpdateToken, drainVars
  <2>3. CASE Signal \/ ConfigUpdate \/ SyncFires \/ FirstSyncRebuilds
    <3>1. syncArmed' \in BOOLEAN /\ phase' \in {"none", "drain", "release", "done"}
      BY <2>3 DEF RestTypeOK, Signal, ConfigUpdate, SyncFires, FirstSyncRebuilds, Shutdown, drainVars
    <3>2. UNCHANGED <<mode, slotHeld, asked, answer, transport, timedOut, running, excluded, awaiting, seat, told>>
      BY <2>3 DEF Signal, ConfigUpdate, SyncFires, FirstSyncRebuilds, loopVars, drainVars
    <3> QED BY <3>1, <3>2 DEF RestTypeOK, transport
  <2>4. CASE Drained
    <3>1. CASE phase' = "release"
      BY <2>4, <3>1 DEF RestTypeOK, Drained, transport
    <3>2. CASE phase' # "release"
      <4>1. StopTransport(beats) /\ phase' = "done" /\ syncArmed' = FALSE
        BY <2>4, <3>2 DEF Drained
      <4>2. /\ sock' \in {"none", "closing"} /\ hb' = FALSE /\ leaked' \in BOOLEAN
            /\ beats' \in [Beats -> {"none", "sent", "evicted", "config"}]
        BY <2>1, <4>1, StoppedType
      <4> QED BY <2>4, <4>1, <4>2 DEF RestTypeOK, Drained
    <3> QED BY <3>1, <3>2
  <2>5. CASE Released
    <3>1. /\ sock' \in {"none", "closing"} /\ hb' = FALSE /\ leaked' \in BOOLEAN
          /\ beats' \in [Beats -> {"none", "sent", "evicted", "config"}]
      BY <2>1, <2>5, StoppedType DEF Released
    <3> QED BY <2>5, <3>1 DEF RestTypeOK, Released
  <2> QED BY <1>5, <2>2, <2>3, <2>4, <2>5 DEF AgentStep
<1>6. CASE ServerStep
  <2>1. CASE Admit \/ Evict
    BY <2>1 DEF RestTypeOK, Admit, Evict, loopVars, transport, drainVars
  <2>2. ASSUME NEW b \in Beats, BeatAnswered(b)
        PROVE  RestTypeOK'
    BY <2>2 DEF RestTypeOK, BeatAnswered, loopVars, drainVars
  <2> QED BY <1>6, <2>1, <2>2 DEF ServerStep
<1>7. CASE UNCHANGED vars
  BY <1>7 DEF RestTypeOK, vars, loopVars, transport, drainVars
<1> QED BY <1>1, <1>2, <1>3, <1>4, <1>5, <1>6, <1>7 DEF Next

-----------------------------------------------------------------------------
(* The theorems.                                                           *)

LEMMA Initially == Init => IInv
<1> SUFFICES ASSUME Init PROVE IInv
  OBVIOUS
<1>1. /\ life.loop = "begin" /\ life.cancelled = FALSE /\ life.gen = 0
      /\ life.queue = {} /\ life.delays = {} /\ life.wake = {}
  BY DEF Init
<1>2. life \in Life
  <2>1. 0 \in 0 .. MaxStops + 1
    BY ReplicaAssumption
  <2> QED BY <2>1 DEF Init, Life, Loop
<1>3. LifeInv
  BY <1>1, ReplicaAssumption DEF Init, LifeInv, Sound, Stale
<1>4. RestTypeOK
  BY DEF Init, RestTypeOK, Admission
<1> QED BY <1>2, <1>3, <1>4 DEF IInv, TypeOK, RestTypeOK

LEMMA Inductive == IInv /\ [Next]_vars => IInv'
<1> SUFFICES ASSUME IInv, [Next]_vars PROVE IInv'
  OBVIOUS
<1>1. life' \in Life /\ LifeInv'
  BY StepLife DEF LifeKept
<1>2. RestTypeOK'
  BY RestStep DEF IInv, TypeOK, RestTypeOK
<1> QED BY <1>1, <1>2 DEF IInv, TypeOK, RestTypeOK

LEMMA Invariance == Spec => []IInv
BY Initially, Inductive, PTL DEF Spec

\* Every variable keeps its type, for any commands and events.
THEOREM TypeCorrect == Spec => []TypeOK
<1>1. IInv => TypeOK
  BY DEF IInv
<1> QED BY <1>1, Invariance, PTL

\* At most one restart is current, it waits for a loop that was cancelled, and
\* a shutdown leaves none: the generations of restartRegisterLoop suffice.
THEOREM RestartsSuperseded == Spec => []OneLiveRestart
<1>1. IInv => OneLiveRestart
  BY DEF IInv, LifeInv, Sound, Stale, OneLiveRestart, LiveRestarts
<1> QED BY <1>1, Invariance, PTL

\* No restart, however late, brings the register loop back after shutdown().
THEOREM ShutdownFinal == Spec => ShutdownIsFinal
<1>1. IInv /\ [Next]_vars
        => [phase # "none" /\ life.loop = "off" => life'.loop = "off"]_vars
  BY StepLife DEF LifeKept
<1> QED BY <1>1, Invariance, PTL DEF Spec, ShutdownIsFinal

\* The slot is given back, and the process ends without a timeout, only when
\* nothing runs but the commands that asked for the shutdown.
THEOREM ReleaseSafe == Spec => []ReleasedIdle
<1>1. Init => ReleasedIdle
  BY DEF Init, ReleasedIdle
<1>2. IInv /\ ReleasedIdle /\ [Next]_vars => ReleasedIdle'
  <2> SUFFICES ASSUME IInv, ReleasedIdle, [Next]_vars PROVE ReleasedIdle'
    OBVIOUS
  <2>1. CASE Drained
    BY <2>1 DEF IInv, TypeOK, Drained, ReleasedIdle, Remaining
  <2>2. CASE Released
    BY <2>2 DEF Released, ReleasedIdle, Remaining
  <2>3. ASSUME NEW c \in Cmd,
               StartCommand(c) \/ Reboot(c) \/ Rebuild(c) \/ EndCommand(c)
        PROVE  ReleasedIdle'
    BY <2>3 DEF StartCommand, Reboot, Rebuild, EndCommand, Shutdown, Excluding,
                ReleasedIdle, Remaining
  <2>4. CASE UpdateToken \/ Signal \/ ConfigUpdate \/ SyncFires \/ FirstSyncRebuilds
    BY <2>4 DEF UpdateToken, Signal, ConfigUpdate, SyncFires, FirstSyncRebuilds,
                Shutdown, ReleasedIdle, Remaining, drainVars
  <2>5. CASE LoopStep \/ SocketStep \/ HeartbeatStep \/ ServerStep \/ UNCHANGED vars
    <3>1. UNCHANGED <<phase, timedOut, running, excluded>>
      BY <2>5 DEF LoopStep, Register, RegisterReturns, ParkOver, RetryReturns,
           Recovered, Backoff, DelayOver, SocketStep, Opened, ConnectFails,
           Reconnects, Acked, Closed, Unsettled, HeartbeatStep, Beat, BeatConfig,
           EvictionNoted, Evicted, ServerStep, Admit, Evict, BeatAnswered, vars,
           drainVars
    <3> QED BY <3>1 DEF ReleasedIdle, Remaining
  <2> QED BY <2>1, <2>2, <2>3, <2>4, <2>5 DEF Next, CommandStep, AgentStep
<1> QED BY <1>1, <1>2, Invariance, PTL DEF Spec

\* A shutdown gives back an idle replica and is not undone.
THEOREM ShutdownSafe == Spec => ShutdownSound
BY TypeCorrect, ReleaseSafe, ShutdownFinal, PTL DEF ShutdownSound

-----------------------------------------------------------------------------
(* Standby: who serves, and as what an evicted replica comes back.         *)

\* The connection and the heartbeat belong to the loop that has made them, or
\* to none that is over, and no restart is due while they last.
ServingInv ==
  /\ ~leaked /\ (hb => sock = "up")
  /\ sock \in {"handshake", "opened", "retrying", "deaf"} => life.loop = "connect"
  /\ sock = "up" => life.loop = "off"
  /\ sock \notin {"none", "closing"} => Stale(life)

\* A replica that was evicted asks as a standby, unless it shuts down and asks
\* no more; none is admitted and then connected without having been told so.
ComebackInv ==
  /\ phase # "none" => life.cancelled
  /\ sock \in {"handshake", "opened"} /\ phase = "none" => ~life.cancelled
  /\ told \in {"evicted", "again"} => mode = "standby" \/ (phase # "none" /\ life.loop = "off")
  /\ life.loop \in {"recover", "connect"} /\ ~life.cancelled => told # "evicted"

\* The loop of m is that of l, or is over, or has begun anew.
Stays(l, m) == m.loop \in {"off", "begin"} \/ (m.loop = l.loop /\ (l.cancelled => m.cancelled))

LEMMA EndedGoes == ASSUME NEW l \in Life PROVE Ended(l).loop \in {"off", "begin"}
<1> DEFINE late == {q.gen : q \in {q \in l.queue : q.delayed}}
           done == [l EXCEPT !.loop = "off", !.queue = {},
                             !.delays = @ \union late,
                             !.wake = IF late = {} THEN @ ELSE late]
<1>1. done.loop = "off"
  BY DEF Life
<1>2. Ended(l) \in {done, Started(done)}
  BY DEF Ended
<1>3. [done EXCEPT !.loop = "begin", !.cancelled = FALSE].loop = "begin"
  BY DEF Life
<1> QED BY <1>1, <1>2, <1>3 DEF Started

LEMMA CancelledGoes ==
  ASSUME NEW l \in Life, Sound(l), l.gen <= MaxStops
  PROVE  Stays(l, Cancelled(l))
<1> DEFINE m == [l EXCEPT !.gen = @ + 1, !.cancelled = TRUE,
                          !.delays = @ \ l.wake, !.wake = {}]
<1>1. m.loop = l.loop
  BY DEF Life
<1>2. m \in Life
  <2>1. l.gen + 1 \in 0 .. MaxStops + 1 /\ l.delays \ l.wake \subseteq 1 .. MaxStops
    BY ReplicaAssumption DEF Life
  <2> QED BY <2>1 DEF Life
<1>3. Cancelled(l) = m \/ Cancelled(l) = Ended(m)
  BY DEF Cancelled
<1>4. Cancelled(l).cancelled
  BY CancelledSound
<1> HIDE DEF m
<1> QED BY <1>1, <1>2, <1>3, <1>4, EndedGoes DEF Stays

LEMMA DisconnectedGoes ==
  ASSUME NEW l \in Life
  PROVE  Stays(l, Disconnected(l))
BY EndedGoes DEF Disconnected, Stays

LEMMA RestartedGoes ==
  ASSUME NEW l \in Life, NEW d \in BOOLEAN
  PROVE  Stays(l, Restarted(l, d))
<1> DEFINE q == [gen |-> l.gen, delayed |-> d]
           a == [l EXCEPT !.queue = @ \union {q}]
           b == [l EXCEPT !.delays = @ \union {l.gen}, !.wake = {l.gen}]
           c == [l EXCEPT !.loop = "begin", !.cancelled = FALSE]
<1>1. a.loop = l.loop /\ a.cancelled = l.cancelled /\ b.loop = l.loop /\ b.cancelled = l.cancelled
  BY DEF Life
<1>2. c.loop = "begin"
  BY DEF Life
<1>3. Restarted(l, d) \in {a, b, c, l}
  BY DEF Restarted, Started
<1> HIDE DEF a, b, c
<1> QED BY <1>1, <1>2, <1>3 DEF Stays

\* stop() and restartRegisterLoop(): the loop goes on cancelled, or is over.
LEMMA StopGoes ==
  ASSUME IInv, phase = "none", NEW d \in BOOLEAN
  PROVE  LET l == Restarted(Disconnected(Cancelled(life)), d)
         IN  Stays(life, l) /\ (l.loop \in {"off", "begin"} \/ l.cancelled)
<1> DEFINE c == Cancelled(life)
           e == Disconnected(c)
<1>1. life \in Life /\ Sound(life) /\ life.gen <= MaxStops
  BY DEF IInv, TypeOK, LifeInv
<1>2. c \in Life /\ Sound(c) /\ Stale(c) /\ Stays(life, c) /\ c.cancelled
  BY <1>1, CancelledSound, CancelledGoes
<1> HIDE DEF c
<1>3. e \in Life /\ Stays(c, e)
  BY <1>2, DisconnectedSound, DisconnectedGoes
<1> HIDE DEF e
<1>4. Stays(e, Restarted(e, d))
  BY <1>3, RestartedGoes
<1> HIDE DEF Restarted
<1>5. LET l == Restarted(e, d)
      IN  Stays(life, l) /\ (l.loop \in {"off", "begin"} \/ l.cancelled)
  BY <1>2, <1>3, <1>4 DEF Stays
<1> QED BY <1>5 DEF c, e

\* A cancelled wait or a finished connection leaves a stale loop stale, and
\* lets it go on, or be over.
LEMMA ShutdownGoes ==
  ASSUME IInv, phase = "none"
  PROVE  Stale(Cancelled(life)) /\ Stays(life, Cancelled(life)) /\ Cancelled(life).cancelled
<1>1. life \in Life /\ Sound(life) /\ life.gen <= MaxStops
  BY DEF IInv, TypeOK, LifeInv
<1> QED BY <1>1, CancelledSound, CancelledGoes

\* The synchronous part of shutdown() is one of these.
Shuts == \/ UNCHANGED <<life, phase>>
         \/ phase = "none" /\ phase' = "drain" /\ life' = Cancelled(life)

\* Steps by the loop where nothing is connected or being connected.
LEMMA AloneStep ==
  ASSUME IInv, ServingInv,
         Register \/ RegisterReturns \/ ParkOver \/ RetryReturns \/ Backoff
  PROVE  ServingInv'
<1>1. life.loop \notin {"connect", "off"} /\ UNCHANGED <<sock, hb, leaked>>
  BY DEF Register, RegisterReturns, ParkOver, RetryReturns, Backoff, transport
<1>2. sock \in {"none", "closing"} /\ ~hb /\ ~leaked
  BY <1>1 DEF ServingInv, IInv, TypeOK
<1> QED BY <1>1, <1>2 DEF ServingInv

LEMMA StoppedServing ==
  ASSUME IInv, ServingInv, NEW b, StopTransport(b)
  PROVE  ServingInv'
<1>1. sock' \in {"none", "closing"} /\ ~hb' /\ ~leaked'
  BY DEF StopTransport, SockStopped, ServingInv
<1> QED BY <1>1 DEF ServingInv

LEMMA ShutsServing ==
  ASSUME IInv, ServingInv, Shuts, UNCHANGED <<sock, hb, leaked>>
  PROVE  ServingInv'
<1>1. CASE UNCHANGED <<life, phase>>
  BY <1>1 DEF ServingInv, Stale
<1>2. CASE phase = "none" /\ phase' = "drain" /\ life' = Cancelled(life)
  <2>1. Stale(life)' /\ Stays(life, life')
    BY <1>2, ShutdownGoes DEF Stale
  <2>2. life.loop \in {"connect", "off"} => life'.loop = life.loop
    <3>1. life \in Life /\ Sound(life) /\ life.gen <= MaxStops
      BY <1>2 DEF IInv, TypeOK, LifeInv
    <3>2. life.loop = "off" => Cancelled(life).loop = "off"
      BY <3>1, CancelledSound
    <3>3. life.loop = "connect" => Cancelled(life).loop = "connect"
      BY <3>1 DEF Cancelled, Life
    <3> QED BY <1>2, <3>2, <3>3
  <2> QED BY <2>1, <2>2 DEF ServingInv
<1> QED BY <1>1, <1>2 DEF Shuts

LEMMA RecoveredServing ==
  ASSUME IInv, ServingInv, Recovered
  PROVE  ServingInv'
<1>1. sock \in {"none", "closing"} /\ ~hb /\ ~leaked
  BY DEF Recovered, ServingInv, IInv, TypeOK
<1>2. CASE sock' = sock
  BY <1>1, <1>2 DEF Recovered, ServingInv
<1>3. CASE sock' # sock
  <2>1. ~life.cancelled /\ life' = [life EXCEPT !.loop = "connect"] /\ sock' = "handshake"
    BY <1>3 DEF Recovered
  <2>2. life \in Life /\ Sound(life) /\ Stale(life)
    BY <2>1 DEF IInv, TypeOK, LifeInv, Sound
  <2>3. Stale(life)' /\ life'.loop = "connect"
    BY <2>1, <2>2 DEF Stale, Life
  <2> QED BY <1>1, <2>1, <2>3 DEF Recovered, ServingInv
<1> QED BY <1>2, <1>3

LEMMA DelayServing ==
  ASSUME IInv, ServingInv, NEW g \in life.delays, DelayOver(g)
  PROVE  ServingInv'
<1> DEFINE l == [life EXCEPT !.delays = @ \ {g}, !.wake = {}]
<1>1. life \in Life /\ Sound(life) /\ UNCHANGED <<sock, hb, leaked>>
  BY DEF IInv, TypeOK, LifeInv, DelayOver, transport
<1>2. l.gen = life.gen /\ l.loop = life.loop /\ (Stale(life) => Stale(l))
  BY <1>1, DelaySound
<1>3. life' = IF g = l.gen THEN Started(l) ELSE l
  BY DEF DelayOver
<1> HIDE DEF l
<1>4. CASE sock \in {"none", "closing"}
  BY <1>1, <1>4 DEF ServingInv
<1>5. CASE sock \notin {"none", "closing"}
  <2>1. Stale(life) /\ g # l.gen
    BY <1>2, <1>5 DEF ServingInv, Stale
  <2>2. life' = l
    BY <1>3, <2>1
  <2>3. Stale(life)' /\ life'.loop = life.loop
    BY <1>2, <2>1, <2>2 DEF Stale
  <2> QED BY <1>1, <2>3 DEF ServingInv
<1> QED BY <1>4, <1>5

LEMMA AckedServing ==
  ASSUME IInv, ServingInv, "late_ack" \notin Faults, Acked
  PROVE  ServingInv' /\ life'.loop = "off" /\ life'.cancelled = life.cancelled
<1>1. sock \in {"handshake", "opened"} /\ sock' = "up" /\ ~hb /\ Stale(life)
  BY DEF Acked, Fault, ServingInv
<1>2. life \in Life /\ Sound(life) /\ life' = Ended(life)
  BY DEF IInv, TypeOK, LifeInv, Acked
<1>3. Stale(life)' /\ life'.loop = "off" /\ life'.cancelled = life.cancelled
  BY <1>1, <1>2, EndedSound DEF Stale
<1> QED BY <1>1, <1>3 DEF Acked, ServingInv

LEMMA ServingStep ==
  ASSUME IInv, ServingInv, "late_ack" \notin Faults, [Next]_vars
  PROVE  ServingInv'
<1>1. CASE LoopStep
  BY <1>1, AloneStep, RecoveredServing, DelayServing DEF LoopStep
<1>2. CASE SocketStep
  <2>1. CASE Opened \/ ConnectFails \/ Reconnects \/ Closed
    BY <2>1 DEF Opened, ConnectFails, Reconnects, Closed, Unsettled, ServingInv, Stale
  <2> QED BY <1>2, <2>1, AckedServing DEF SocketStep
<1>3. ASSUME NEW b \in Beats, Beat(b) \/ BeatConfig(b) \/ EvictionNoted(b)
      PROVE  ServingInv'
  BY <1>3, ShutsServing DEF Beat, BeatConfig, EvictionNoted, loopVars, drainVars, Shuts
<1>4. ASSUME NEW b \in Beats, Evicted(b)
      PROVE  ServingInv'
  BY <1>4, StoppedServing DEF Evicted
<1>5. ASSUME NEW c \in Cmd, StartCommand(c) \/ EndCommand(c)
      PROVE  ServingInv'
  BY <1>5, ShutsServing DEF StartCommand, EndCommand, loopVars, transport, Shuts
<1>6. ASSUME NEW c \in Cmd, Reboot(c) \/ Rebuild(c)
      PROVE  ServingInv'
  BY <1>6, ShutsServing DEF Reboot, Rebuild, Shutdown, transport, Shuts
<1>7. CASE UpdateToken
  BY <1>7, StoppedServing DEF UpdateToken
<1>8. CASE Signal \/ FirstSyncRebuilds \/ SyncFires \/ ConfigUpdate
  BY <1>8, ShutsServing
  DEF Signal, FirstSyncRebuilds, SyncFires, ConfigUpdate, Shutdown, loopVars, transport, drainVars, Shuts
<1>9. CASE Drained
  <2>1. CASE phase' = "release"
    BY <1>9, <2>1 DEF Drained, transport, ServingInv, Stale
  <2>2. CASE phase' # "release"
    BY <1>9, <2>2, StoppedServing DEF Drained
  <2> QED BY <2>1, <2>2
<1>10. CASE Released
  BY <1>10, StoppedServing DEF Released
<1>11. CASE ServerStep
  BY <1>11, ShutsServing DEF ServerStep, Admit, Evict, BeatAnswered, loopVars, transport, drainVars, Shuts
<1>12. CASE UNCHANGED vars
  BY <1>12, ShutsServing DEF vars, loopVars, transport, drainVars, Shuts
<1> QED
  BY <1>1, <1>2, <1>3, <1>4, <1>5, <1>6, <1>7, <1>8, <1>9, <1>10, <1>11, <1>12
  DEF Next, HeartbeatStep, CommandStep, AgentStep

\* A stale loop that is cancelled stays so while it moves.
LEMMA LoopCancelled ==
  ASSUME IInv, Stale(life), life.cancelled,
         Register \/ RegisterReturns \/ ParkOver \/ RetryReturns \/ Recovered \/ Backoff
  PROVE  life'.cancelled
<1> DEFINE At(k) == [life EXCEPT !.loop = k]
           unwoken == [life EXCEPT !.wake = {}]
<1>1. life \in Life /\ Sound(life)
  BY DEF IInv, TypeOK, LifeInv
<1>2. unwoken \in Life /\ Sound(unwoken) /\ Stale(unwoken) /\ unwoken.cancelled
  BY <1>1 DEF Life, Sound, Stale
<1>3. Ended(life).cancelled /\ Ended(unwoken).cancelled
  BY <1>1, <1>2, EndedSound
<1>4. \A k \in Loop : At(k).cancelled
  BY <1>1 DEF Life
<1>5. (\E k \in Loop : life' = At(k)) \/ life' = Ended(life) \/ life' = Ended(unwoken)
  <2>1. CASE Register
    BY <2>1 DEF Register, Loop
  <2>2. CASE RegisterReturns
    BY <2>2 DEF RegisterReturns, Admitted, Parked, Failed, Loop
  <2>3. CASE ParkOver
    BY <2>3, <1>2 DEF ParkOver
  <2>4. CASE RetryReturns
    BY <2>4 DEF RetryReturns, Parked
  <2>5. CASE Recovered
    BY <2>5 DEF Recovered
  <2>6. CASE Backoff
    BY <2>6 DEF Backoff, Loop
  <2> QED BY <2>1, <2>2, <2>3, <2>4, <2>5, <2>6
<1> HIDE DEF At, unwoken
<1> QED BY <1>3, <1>4, <1>5

LEMMA AloneComeback ==
  ASSUME IInv, ServingInv, ComebackInv,
         Register \/ RegisterReturns \/ ParkOver \/ RetryReturns \/ Backoff
  PROVE  ComebackInv'
<1>1. life \in Life /\ life.loop \notin {"connect", "off"} /\ UNCHANGED <<sock, phase, mode>>
  BY DEF Register, RegisterReturns, ParkOver, RetryReturns, Backoff, transport, drainVars, IInv, TypeOK
<1>2. phase # "none" => life'.cancelled
  <2>1. phase # "none" => Stale(life) /\ life.cancelled
    BY DEF IInv, LifeInv, ComebackInv
  <2> QED BY <2>1, LoopCancelled
<1>3. sock \notin {"handshake", "opened"}
  BY <1>1 DEF ServingInv
<1>4. told' \in {"evicted", "again"} => told \in {"evicted", "again"}
  BY DEF Register, RegisterReturns, ParkOver, RetryReturns, Backoff, ToldAccepted
<1>5. life'.loop \in {"recover", "connect"} => told' # "evicted"
  <2>1. Ended(life).loop \in {"off", "begin"} /\ Ended([life EXCEPT !.wake = {}]).loop \in {"off", "begin"}
    <3>1. [life EXCEPT !.wake = {}] \in Life
      BY <1>1 DEF Life
    <3> QED BY <1>1, <3>1, EndedGoes
  <2>2. \A k \in Loop : [life EXCEPT !.loop = k].loop = k
    BY <1>1 DEF Life
  <2>3. Parked(life).loop \in {"off", "begin", "park"} /\ Failed(life).loop \in {"off", "begin", "backoff"}
    BY <1>1, <2>1, <2>2 DEF Parked, Failed, Loop, Life
  <2>4. CASE Register \/ Backoff
    BY <2>2, <2>4 DEF Register, Backoff, Loop
  <2>5. CASE RegisterReturns
    BY <2>3, <2>5 DEF RegisterReturns, ToldAccepted
  <2>6. CASE RetryReturns
    BY <2>1, <2>3, <2>6 DEF RetryReturns, ToldAccepted
  <2>7. CASE ParkOver
    BY <1>1, <2>1, <2>7 DEF ParkOver, Life
  <2> QED BY <2>4, <2>5, <2>6, <2>7
<1> QED BY <1>1, <1>2, <1>3, <1>4, <1>5 DEF ComebackInv

LEMMA RecoveredComeback ==
  ASSUME IInv, ServingInv, ComebackInv, Recovered
  PROVE  ComebackInv'
<1>1. life \in Life /\ life.loop = "recover" /\ UNCHANGED <<phase, mode, told>>
  BY DEF Recovered, drainVars, IInv, TypeOK
<1>2. phase # "none" => life'.cancelled
  <2>1. phase # "none" => Stale(life) /\ life.cancelled
    BY DEF IInv, LifeInv, ComebackInv
  <2> QED BY <2>1, LoopCancelled
<1>3. sock' \in {"handshake", "opened"} => ~life'.cancelled
  <2>1. sock \notin {"handshake", "opened"}
    BY <1>1 DEF ServingInv
  <2> QED BY <1>1, <2>1 DEF Recovered, Life
<1>4. life'.loop \in {"recover", "connect"} => ~life.cancelled
  <2>1. Ended(life).loop \in {"off", "begin"}
    BY <1>1, EndedGoes
  <2> QED BY <2>1 DEF Recovered
<1> QED BY <1>1, <1>2, <1>3, <1>4 DEF ComebackInv

LEMMA DelayComeback ==
  ASSUME IInv, ServingInv, ComebackInv, NEW g \in life.delays, DelayOver(g)
  PROVE  ComebackInv'
<1> DEFINE l == [life EXCEPT !.delays = @ \ {g}, !.wake = {}]
<1>1. life \in Life /\ Sound(life) /\ UNCHANGED <<sock, phase, mode, told>>
  BY DEF IInv, TypeOK, LifeInv, DelayOver, transport, drainVars
<1>2. l \in Life /\ l.gen = life.gen /\ l.loop = life.loop /\ l.cancelled = life.cancelled
  BY <1>1, DelaySound DEF Life
<1>3. life' = IF g = l.gen THEN Started(l) ELSE l
  BY DEF DelayOver
<1> HIDE DEF l
<1>4. CASE life' = l
  BY <1>1, <1>2, <1>4 DEF ComebackInv
<1>5. CASE life' # l
  <2>1. g = life.gen /\ l.loop = "off" /\ life'.loop = "begin"
    BY <1>2, <1>3, <1>5 DEF Started, Life
  <2>2. phase = "none" /\ sock \in {"none", "closing"}
    BY <2>1 DEF IInv, LifeInv, ServingInv, Stale
  <2> QED BY <1>1, <2>1, <2>2 DEF ComebackInv
<1> QED BY <1>4, <1>5

LEMMA ShutsComeback ==
  ASSUME IInv, ComebackInv, Shuts, UNCHANGED <<sock, mode, told>>
  PROVE  ComebackInv'
<1>1. CASE UNCHANGED <<life, phase>>
  BY <1>1 DEF ComebackInv
<1>2. CASE phase = "none" /\ phase' = "drain" /\ life' = Cancelled(life)
  <2>1. life'.cancelled
    BY <1>2, ShutdownGoes
  <2> QED BY <1>2, <2>1 DEF ComebackInv
<1> QED BY <1>1, <1>2 DEF Shuts

LEMMA StopComeback ==
  ASSUME IInv, ComebackInv, phase = "none", UNCHANGED phase, NEW b, StopTransport(b),
         NEW d \in BOOLEAN, life' = Restarted(Disconnected(Cancelled(life)), d),
         mode' = "standby" \/ UNCHANGED <<mode, told>>
  PROVE  ComebackInv'
<1>1. life'.loop \in {"off", "begin"} \/ life'.cancelled
  BY StopGoes
<1>2. sock' \notin {"handshake", "opened"}
  BY DEF StopTransport, SockStopped
<1> QED BY <1>1, <1>2 DEF ComebackInv

LEMMA DoneComeback ==
  ASSUME IInv, ComebackInv, phase # "none", phase' # "none", UNCHANGED <<mode, told>>,
         life' = life \/ life' = Disconnected(life)
  PROVE  ComebackInv'
<1>1. life \in Life /\ Sound(life) /\ Stale(life) /\ life.cancelled
  BY DEF IInv, TypeOK, LifeInv, ComebackInv
<1>2. life'.cancelled /\ (life.loop = "off" => life'.loop = "off")
  BY <1>1, DisconnectedSound
<1> QED BY <1>2 DEF ComebackInv

LEMMA ComebackStep ==
  ASSUME IInv, ServingInv, ComebackInv, "late_ack" \notin Faults, [Next]_vars
  PROVE  ComebackInv'
<1>1. CASE LoopStep
  BY <1>1, AloneComeback, RecoveredComeback, DelayComeback DEF LoopStep
<1>2. CASE SocketStep
  <2>1. CASE Opened \/ ConnectFails \/ Reconnects \/ Closed
    BY <2>1 DEF Opened, ConnectFails, Reconnects, Closed, Unsettled, drainVars, ComebackInv
  <2>2. CASE Acked
    <3>1. life'.loop = "off" /\ life'.cancelled = life.cancelled
      BY <2>2, AckedServing
    <3>2. phase = "none" => told # "evicted"
      BY <2>2 DEF Acked, Fault, ServingInv, ComebackInv
    <3> QED BY <2>2, <3>1, <3>2 DEF Acked, drainVars, ComebackInv
  <2> QED BY <1>2, <2>1, <2>2 DEF SocketStep
<1>3. ASSUME NEW b \in Beats, Beat(b) \/ BeatConfig(b)
      PROVE  ComebackInv'
  BY <1>3, ShutsComeback DEF Beat, BeatConfig, loopVars, drainVars, Shuts
<1>4. ASSUME NEW b \in Beats, EvictionNoted(b)
      PROVE  ComebackInv'
  BY <1>4 DEF EvictionNoted, drainVars, ComebackInv
<1>5. ASSUME NEW b \in Beats, Evicted(b)
      PROVE  ComebackInv'
  BY <1>5, StopComeback DEF Evicted, drainVars
<1>6. ASSUME NEW c \in Cmd, StartCommand(c) \/ EndCommand(c)
      PROVE  ComebackInv'
  BY <1>6, ShutsComeback DEF StartCommand, EndCommand, loopVars, transport, Shuts
<1>7. ASSUME NEW c \in Cmd, Reboot(c) \/ Rebuild(c)
      PROVE  ComebackInv'
  BY <1>7, ShutsComeback DEF Reboot, Rebuild, Shutdown, transport, Shuts
<1>8. CASE UpdateToken
  BY <1>8, StopComeback DEF UpdateToken, drainVars
<1>9. CASE Signal \/ FirstSyncRebuilds \/ SyncFires \/ ConfigUpdate
  BY <1>9, ShutsComeback
  DEF Signal, FirstSyncRebuilds, SyncFires, ConfigUpdate, Shutdown, loopVars, transport, drainVars, Shuts
<1>10. CASE Drained
  BY <1>10, DoneComeback DEF Drained
<1>11. CASE Released
  BY <1>11, DoneComeback DEF Released
<1>12. CASE ServerStep
  BY <1>12, ShutsComeback DEF ServerStep, Admit, Evict, BeatAnswered, loopVars, transport, drainVars, Shuts
<1>13. CASE UNCHANGED vars
  BY <1>13, ShutsComeback DEF vars, loopVars, transport, drainVars, Shuts
<1> QED
  BY <1>1, <1>2, <1>3, <1>4, <1>5, <1>6, <1>7, <1>8, <1>9, <1>10, <1>11, <1>12, <1>13
  DEF Next, HeartbeatStep, CommandStep, AgentStep

\* Only Register makes a request of a loop that is about to begin.
LEMMA OnlyRegister ==
  ASSUME IInv, ServingInv, "late_ack" \notin Faults, [Next]_vars,
         life.loop = "begin", life'.loop = "register"
  PROVE  Register
<1>1. life \in Life /\ Sound(life)
  BY DEF IInv, TypeOK, LifeInv
<1>2. ASSUME NEW g \in life.delays, DelayOver(g) PROVE FALSE
  <2> DEFINE l == [life EXCEPT !.delays = @ \ {g}, !.wake = {}]
  <2>1. l.loop = "begin"
    BY <1>1 DEF Life
  <2>2. life' \in {l, Started(l)}
    BY <1>2 DEF DelayOver
  <2> HIDE DEF l
  <2> QED BY <2>1, <2>2 DEF Started
<1>3. LoopStep => Register
  BY <1>2 DEF LoopStep, RegisterReturns, ParkOver, RetryReturns, Recovered, Backoff
<1>4. ~Acked
  BY AckedServing
<1>5. CASE phase = "none" /\ life' = Cancelled(life)
  BY <1>5, ShutdownGoes DEF Stays
<1>6. ASSUME phase = "none", NEW d \in BOOLEAN, life' = Restarted(Disconnected(Cancelled(life)), d)
      PROVE  FALSE
  BY <1>6, StopGoes DEF Stays
<1>7. life' # life /\ life' # Disconnected(life)
  BY <1>1, DisconnectedGoes DEF Stays
<1>8. CASE SocketStep
  BY <1>4, <1>7, <1>8 DEF SocketStep, Opened, ConnectFails, Reconnects, Closed, Unsettled
<1>9. CASE HeartbeatStep
  BY <1>6, <1>7, <1>9 DEF HeartbeatStep, Beat, BeatConfig, EvictionNoted, Evicted, loopVars
<1>10. CASE CommandStep
  BY <1>5, <1>7, <1>10 DEF CommandStep, StartCommand, Reboot, Rebuild, EndCommand, Shutdown, loopVars
<1>11. CASE AgentStep
  BY <1>5, <1>6, <1>7, <1>11
  DEF AgentStep, UpdateToken, Signal, ConfigUpdate, SyncFires, FirstSyncRebuilds, Drained, Released,
      Shutdown, loopVars
<1>12. CASE ServerStep \/ UNCHANGED vars
  BY <1>7, <1>12 DEF ServerStep, Admit, Evict, BeatAnswered, loopVars, vars
<1> QED BY <1>3, <1>5, <1>8, <1>9, <1>10, <1>11, <1>12 DEF Next

\* While it waits in standby a replica has no connection but one that is being
\* closed, and no heartbeat; and one that learns of its eviction at work asks
\* for a free slot only. That no acknowledgement comes when the socket is being
\* closed is needed: it would start the heartbeat (agent-transport.ts).
THEOREM StandbyQuiet == ASSUME "late_ack" \notin Faults PROVE Spec => StandbyKept
<1> DEFINE Inv == IInv /\ ServingInv /\ ComebackInv
           Waits == life.loop \in {"park", "retry"} => sock \in {"none", "closing"} /\ ~hb /\ ~leaked
           Returns == life.loop = "begin" /\ life'.loop = "register" /\ asked' = "initial"
                        => told \notin {"evicted", "again"}
<1>1. Init => Inv
  <2>1. Init => ServingInv
    BY DEF Init, ServingInv
  <2>2. Init => ComebackInv
    BY DEF Init, ComebackInv
  <2> QED BY <2>1, <2>2, Initially
<1>2. Inv /\ [Next]_vars => Inv'
  BY Inductive, ServingStep, ComebackStep
<1>3. Inv => Waits
  BY DEF IInv, TypeOK, ServingInv
<1>4. Inv /\ [Next]_vars => [Returns]_vars
  <2> SUFFICES ASSUME Inv, [Next]_vars, life.loop = "begin", life'.loop = "register", asked' = "initial"
               PROVE  told \notin {"evicted", "again"}
    OBVIOUS
  <2>1. Register
    BY OnlyRegister
  <2> QED BY <2>1 DEF Register, ComebackInv
<1> HIDE DEF Inv, Waits, Returns
<1>5. Spec => []Waits /\ [][Returns]_vars
  BY <1>1, <1>2, <1>3, <1>4, PTL DEF Spec
<1> QED BY <1>5 DEF StandbyKept, ReturnsAsStandby, Waits, Returns
=============================================================================

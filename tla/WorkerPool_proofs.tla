--------------------------- MODULE WorkerPool_proofs ---------------------------
(***************************************************************************)
(* What holds of a runner and its workers for any number of projects,      *)
(* processes, restarts and tokens and any combination of events, as long   *)
(* as a project that was removed is not registered again ("readd"). The    *)
(* argument: of the processes of a project at most one has an exit still   *)
(* to be noticed, and there is none while a restart is delayed.            *)
(***************************************************************************)
EXTENDS WorkerPool, TLAPS

\* Whose exit is still to be noticed.
Unreaped(c) == worker[c].life \in {"alive", "dead"}
OfTimer(t) == worker[t.of].project

\* A process belongs to the project it was forked for.
Named ==
  \A c \in Child :
    /\ worker[c].life = "unused" => worker[c].project = None /\ ~worker[c].started
    /\ worker[c].life # "unused" => worker[c].project \in Project

\* The runner manages nobody else's process, and every one that is alive.
Known ==
  /\ \A p \in Project : procs[p] # None => worker[procs[p]].project = p
  /\ runner # "ended" => \A c \in Child : Alive(c) => procs[worker[c].project] = c
  /\ \A c \in Child : Unreaped(c) => procs[worker[c].project] \in {c, None}

\* Of the processes of a project one at most is unreaped.
Alone ==
  \A c, d \in Child :
    Unreaped(c) /\ Unreaped(d) /\ worker[c].project = worker[d].project => c = d

\* A delayed restart is the only one of its project, is the listed one, and
\* nothing of the project is left to exit.
Delayed ==
  /\ \A t \in timers :
       /\ OfTimer(t) \in Project /\ listed[OfTimer(t)] = t.by
       /\ \A c \in Child : Unreaped(c) => worker[c].project # OfTimer(t)
  /\ \A t, u \in timers : OfTimer(t) = OfTimer(u) => t = u

\* A stopProject() that awaits an exit that is over has cleared the restart.
Gone ==
  \A d \in stops :
    worker[d].life = "reaped" =>
      /\ \A c \in Child : Unreaped(c) => worker[c].project # worker[d].project
      /\ \A t \in timers : OfTimer(t) # worker[d].project

\* A project that is about to be added has never had a process.
Fresh ==
  \A p \in Project :
    known[p] = 0 /\ config[p] # 0 => \A c \in Child : worker[c].project # p

\* stopAll() awaits whoever is alive, and then there is nobody.
Awaited ==
  /\ runner = "stopAll" => stopping /\ \A c \in Child : Alive(c) => c \in waits
  /\ runner = "ended" => \A c \in Child : ~Alive(c)

\* The count of restarts keeps up with the forks.
Counted ==
  \A p \in Project :
    /\ tries[p] <= MaxRestarts + 1
    /\ ~stopping /\ procs[p] # None =>
         tries[p] <= managed[procs[p]].count + (IF Unreaped(procs[p]) THEN 1 ELSE 0)

-----------------------------------------------------------------------------
(* Types.                                                                  *)

LEMMA Numbers ==
  /\ MaxRestarts \in Nat /\ MaxToken \in Nat /\ MaxToken > 0
  /\ 0 \in Token /\ 1 \in Token /\ 0 \in 0 .. MaxRestarts
BY PoolAssumption DEF Token

LEMMA DeadWorker ==
  ASSUME NEW w \in Worker
  PROVE  /\ Dead(w) \in Worker /\ Dead(w).life = "dead"
         /\ Dead(w).project = w.project /\ Dead(w).started = w.started
<1> DEFINE u == [Unused EXCEPT !.project = w.project]
           v == [u EXCEPT !.life = "dead"]
<1>1. Unused \in Worker
  BY Numbers DEF Unused, Worker
<1>2. u \in Worker /\ u.project = w.project
  BY <1>1 DEF Worker
<1>3. v \in Worker /\ v.project = w.project /\ v.life = "dead"
  <2> HIDE DEF u
  <2> QED BY <1>2 DEF Worker
<1>4. Dead(w) = [v EXCEPT !.started = w.started]
  BY DEF Dead
<1> HIDE DEF v
<1> QED BY <1>3, <1>4 DEF Worker

LEMMA SentWorker ==
  ASSUME NEW w \in Worker, NEW m \in Message
  PROVE  /\ Sent(w, m) \in Worker
         /\ Sent(w, m).life = w.life /\ Sent(w, m).project = w.project
         /\ Sent(w, m).started = w.started
<1>1. Append(w.inbox, m) \in Seq(Message)
  BY DEF Worker
<1>2. [w EXCEPT !.inbox = Append(@, m)] = [w EXCEPT !.inbox = Append(w.inbox, m)]
  OBVIOUS
<1> HIDE DEF Message
<1> QED BY <1>1, <1>2 DEF Sent, Worker

LEMMA ForkedWorker ==
  ASSUME NEW p \in Project, NEW token \in Token
  PROVE  /\ Forked(p, token) \in Worker
         /\ Forked(p, token).life = "alive" /\ Forked(p, token).project = p
<1>1. [type |-> "start", token |-> token] \in Message
  BY DEF Message
<1>2. <<[type |-> "start", token |-> token]>> \in Seq(Message)
  BY <1>1
<1> HIDE DEF Message
<1> QED BY <1>2, Numbers DEF Forked, Unused, Worker

LEMMA Messages ==
  /\ ShutdownMessage \in Message
  /\ \A n \in Token : [type |-> "token_update", token |-> n] \in Message
BY DEF ShutdownMessage, Message

\* A worker's own step changes nothing but the worker, who stays what it is or
\* dies.
Own(c) ==
  \E w \in Worker :
    /\ Alive(c) /\ worker' = [worker EXCEPT ![c] = w]
    /\ w.project = worker[c].project /\ w.life \in {"alive", "dead"}
    /\ UNCHANGED <<config, known, runner, stopping, procs, managed, timers, listed,
                   stops, waits, tries>>

LEMMA HandledWorker ==
  ASSUME NEW w \in Worker, NEW m \in Message
  PROVE  /\ Handled(w, m) \in Worker
         /\ Handled(w, m).life = w.life /\ Handled(w, m).project = w.project
<1>1. m.token \in Token /\ m.type \in {"start", "token_update", "shutdown"}
  BY Numbers DEF Message
<1> HIDE DEF Message
<1> QED BY <1>1 DEF Handled, Worker

LEMMA WorkerSteps ==
  ASSUME TypeOK, NEW c \in Child,
         \/ Receive(c) \/ StartupOver(c) \/ Works(c) \/ WorkDone(c)
         \/ Leaves(c) \/ Disconnected(c) \/ Crashes(c)
  PROVE  Own(c)
<1>0. worker[c] \in Worker
  BY DEF TypeOK
<1>1. CASE Receive(c)
  <2> DEFINE v == [worker[c] EXCEPT !.inbox = Tail(@)]
             m == Head(worker[c].inbox)
  <2>1. worker[c].inbox \in Seq(Message) /\ worker[c].inbox # <<>>
    BY <1>0, <1>1 DEF Receive, Worker
  <2>2. Tail(worker[c].inbox) \in Seq(Message) /\ m \in Message
    BY <2>1
  <2>3. v \in Worker /\ v.life = worker[c].life /\ v.project = worker[c].project
    BY <1>0, <2>2 DEF Worker
  <2>4. Alive(c) /\ Runs(c, Handled(v, m))
    BY <1>1 DEF Receive
  <2> HIDE DEF v, m
  <2>5. /\ Handled(v, m) \in Worker
        /\ Handled(v, m).life = v.life /\ Handled(v, m).project = v.project
    BY <2>2, <2>3, HandledWorker
  <2> QED BY <2>3, <2>4, <2>5 DEF Own, Runs, Alive
<1>2. CASE StartupOver(c)
  <2> DEFINE v == [worker[c] EXCEPT !.starting = FALSE]
             w == [v EXCEPT !.token = v.first, !.started = TRUE]
  <2>1. v \in Worker /\ v.life = worker[c].life /\ v.project = worker[c].project
    BY <1>0 DEF Worker
  <2>2. w \in Worker /\ w.life = worker[c].life /\ w.project = worker[c].project
    BY <1>0 DEF Worker
  <2>3. Alive(c) /\ (Runs(c, w) \/ Runs(c, v))
    BY <1>2 DEF StartupOver
  <2> HIDE DEF v, w
  <2> QED BY <2>1, <2>2, <2>3 DEF Own, Runs, Alive
<1>3. CASE Works(c)
  <2>1. [worker[c] EXCEPT !.busy = TRUE] \in Worker
    BY <1>0 DEF Worker
  <2> QED BY <1>0, <1>3, <2>1 DEF Works, Own, Runs, Alive, Worker
<1>4. CASE WorkDone(c)
  <2>1. [worker[c] EXCEPT !.busy = FALSE] \in Worker
    BY <1>0 DEF Worker
  <2> QED BY <1>0, <1>4, <2>1 DEF WorkDone, Own, Runs, Alive, Worker
<1>5. CASE Leaves(c) \/ Crashes(c)
  BY <1>0, <1>5, DeadWorker DEF Leaves, Crashes, Own, Runs
<1>6. CASE Disconnected(c)
  <2>1. [worker[c] EXCEPT !.leaving = TRUE] \in Worker
    BY <1>0 DEF Worker
  <2> QED BY <1>0, <1>6, <2>1 DEF Disconnected, Own, Runs, Alive, Worker
<1> QED BY <1>1, <1>2, <1>3, <1>4, <1>5, <1>6

\* What a fork does: an unused process becomes the worker of p and is managed
\* with the count that was there.
Forks(p) ==
  \E c \in Child, w \in Worker :
    /\ worker[c].life = "unused" /\ worker[c].project = None
    /\ w.life = "alive" /\ w.project = p
    /\ worker' = [worker EXCEPT ![c] = w]
    /\ procs' = [procs EXCEPT ![p] = c]
    /\ managed' \in [Child -> [count: 0 .. MaxRestarts, token: Token]]
    /\ managed'[c].count = CountOf(p)
    /\ \A d \in Child \ {c} : managed'[d] = managed[d]

LEMMA Spawned ==
  ASSUME TypeOK, Named, NEW p \in Project, \E k \in Token : Spawn(p, k, CountOf(p))
  PROVE  Forks(p)
<1>1. PICK k \in Token, c \in Child :
        /\ worker[c].life = "unused"
        /\ worker' = [worker EXCEPT ![c] = Forked(p, k)]
        /\ procs' = [procs EXCEPT ![p] = c]
        /\ managed' = [managed EXCEPT ![c] = [count |-> CountOf(p), token |-> k]]
  BY DEF Spawn
<1>2. /\ Forked(p, k) \in Worker
      /\ Forked(p, k).life = "alive" /\ Forked(p, k).project = p
  BY ForkedWorker
<1>3. CountOf(p) \in 0 .. MaxRestarts
  BY Numbers DEF CountOf, TypeOK
<1>4. /\ managed' \in [Child -> [count: 0 .. MaxRestarts, token: Token]]
      /\ managed'[c].count = CountOf(p)
      /\ \A d \in Child \ {c} : managed'[d] = managed[d]
  BY <1>1, <1>3 DEF TypeOK
<1>5. worker[c].project = None
  BY <1>1 DEF Named
<1> QED BY <1>1, <1>2, <1>4, <1>5 DEF Forks

LEMMA ForkForks ==
  ASSUME TypeOK, Named, NEW p \in Project, Fork(p)
  PROVE  Forks(p)
<1>1. \E k \in Token : Spawn(p, k, CountOf(p))
  BY DEF Fork, Spawn, TypeOK
<1> QED BY <1>1, Spawned

LEMMA TimerForks ==
  ASSUME TypeOK, Named, Delayed, NEW t \in timers, TimerFires(t), ~stopping
  PROVE  OfTimer(t) \in Project /\ Forks(OfTimer(t))
<1>1. OfTimer(t) \in Project /\ t.of \in Child
  BY DEF Delayed, TypeOK
<1>2. PICK p \in Project : p = OfTimer(t)
  BY <1>1
<1>3. managed[t.of].token \in Token
  BY <1>1 DEF TypeOK
<1>4. \E k \in Token : Spawn(p, k, CountOf(p))
  BY <1>2, <1>3 DEF TimerFires, OfTimer, Spawn
<1>5. Forks(p)
  BY <1>4, Spawned
<1> QED BY <1>1, <1>2, <1>5 DEF Forks

LEMMA TypeStep == ASSUME TypeOK, Named, Delayed, [Next]_vars PROVE TypeOK'
<1> USE DEF TypeOK
<1> HIDE DEF Token, Message, Worker, Named
<1>1. ASSUME NEW c \in Child, Own(c) PROVE TypeOK'
  BY <1>1 DEF Own
<1>2. ASSUME NEW p \in Project, Edit(p) PROVE TypeOK'
  <2>1. config[p] < MaxToken /\ config[p] # 0 => config[p] + 1 \in Token
    BY Numbers DEF Token
  <2>2. 0 \in Token /\ MaxToken \in Token
    BY Numbers DEF Token
  <2>3. config' \in [Project -> Token]
    BY <1>2, <2>1, <2>2 DEF Edit
  <2> QED BY <1>2, <2>3 DEF Edit
<1>3. ASSUME NEW p \in Project, Poll(p) PROVE TypeOK'
  <2>1. /\ known' \in [Project -> Token]
        /\ UNCHANGED <<config, runner, stopping, waits>>
    BY <1>3 DEF Poll
  <2>2. CASE Fork(p)
    <3>2. /\ worker' \in [Child -> Worker]
          /\ procs' \in [Project -> Child \union {None}]
          /\ managed' \in [Child -> [count: 0 .. MaxRestarts, token: Token]]
      <4>1. Forks(p)
        BY <2>2, ForkForks
      <4>2. PICK c \in Child, w \in Worker :
              /\ worker' = [worker EXCEPT ![c] = w]
              /\ procs' = [procs EXCEPT ![p] = c]
              /\ managed' \in [Child -> [count: 0 .. MaxRestarts, token: Token]]
        BY <4>1, Zenon DEF Forks
      <4> QED BY <4>2
    <3>3. tries' \in [Project -> Nat]
      BY <2>2 DEF Fork
    <3> QED BY <2>1, <2>2, <3>2, <3>3 DEF Fork
  <2>3. CASE SendTokenUpdate(p)
    <3>1. CASE procs[p] = None
      BY <2>1, <2>3, <3>1 DEF SendTokenUpdate
    <3>2. CASE procs[p] # None
      <4> DEFINE c == procs[p]
                 m == [type |-> "token_update", token |-> config[p]]
      <4>1. c \in Child /\ m \in Message
        BY <3>2, Messages
      <4>2. worker' = [worker EXCEPT ![c] = Sent(@, m)] /\ managed' = [managed EXCEPT ![c].token = config[p]]
        BY <2>3, <3>2 DEF SendTokenUpdate
      <4> HIDE DEF m
      <4>3. worker' \in [Child -> Worker]
        BY <4>1, <4>2, SentWorker
      <4>4. managed' \in [Child -> [count: 0 .. MaxRestarts, token: Token]]
        <5>1. [managed[c] EXCEPT !.token = config[p]] \in [count: 0 .. MaxRestarts, token: Token]
          BY <4>1
        <5>2. managed' = [managed EXCEPT ![c] = [managed[c] EXCEPT !.token = config[p]]]
          BY <4>1, <4>2
        <5> HIDE DEF c
        <5> QED BY <4>1, <5>1, <5>2
      <4> QED BY <2>1, <2>3, <4>3, <4>4 DEF SendTokenUpdate
    <3> QED BY <3>1, <3>2
  <2>4. CASE StopProject(p)
    <3>1. worker' \in [Child -> Worker] /\ stops' \subseteq Child
      <4>1. procs[p] # None => procs[p] \in Child
        OBVIOUS
      <4> QED BY <2>4, <4>1, Messages, SentWorker DEF StopProject
    <3> QED BY <2>1, <2>4, <3>1 DEF StopProject
  <2> QED BY <1>3, <2>2, <2>3, <2>4 DEF Poll
<1>4. ASSUME NEW c \in Child, ExitSeen(c) PROVE TypeOK'
  <2> DEFINE p == worker[c].project
             kept == IF c \in stops THEN [procs EXCEPT ![p] = None] ELSE procs
             m == procs[p]
  <2>1. p \in Project
    BY <1>4 DEF ExitSeen, Named
  <2>2. worker' \in [Child -> Worker]
    <3>0. worker[c] \in Worker
      OBVIOUS
    <3>1. [worker[c] EXCEPT !.life = "reaped"] \in Worker
      BY <3>0 DEF Worker
    <3> QED BY <1>4, <3>1 DEF ExitSeen
  <2>3. kept \in [Project -> Child \union {None}]
    BY <2>1
  <2>4. HandleChildExit(c, kept)
    BY <1>4 DEF ExitSeen
  <2> HIDE DEF kept
  <2>5. /\ procs' \in [Project -> Child \union {None}]
        /\ managed' \in [Child -> [count: 0 .. MaxRestarts, token: Token]]
        /\ timers' \subseteq [by: Child, of: Child]
        /\ listed' \in [Project -> Child \union {None}]
    <3>1. CASE m = None \/ stopping
      BY <2>3, <2>4, <3>1 DEF HandleChildExit
    <3>2. CASE ~(m = None \/ stopping) /\ managed[m].count >= MaxRestarts
      BY <2>3, <2>4, <3>2 DEF HandleChildExit
    <3>3. CASE ~(m = None \/ stopping) /\ ~(managed[m].count >= MaxRestarts)
      <4>1. m \in Child /\ managed[m].count + 1 \in 0 .. MaxRestarts
        BY <2>1, <3>3, Numbers
      <4>2. /\ procs' = kept
            /\ managed' = [managed EXCEPT ![m].count = @ + 1]
            /\ timers' = timers \union {[by |-> c, of |-> m]}
            /\ listed' = [listed EXCEPT ![p] = c]
        BY <2>4, <3>3 DEF HandleChildExit
      <4>3. managed' = [managed EXCEPT ![m] = [managed[m] EXCEPT !.count = managed[m].count + 1]]
        BY <4>1, <4>2
      <4>4. [managed[m] EXCEPT !.count = managed[m].count + 1] \in [count: 0 .. MaxRestarts, token: Token]
        BY <4>1
      <4> HIDE DEF m, p
      <4> QED BY <2>1, <2>3, <4>1, <4>2, <4>3, <4>4
    <3> QED BY <3>1, <3>2, <3>3
  <2> QED BY <1>4, <2>2, <2>5 DEF ExitSeen
<1>5. ASSUME NEW t \in timers, TimerFires(t) PROVE TypeOK'
  <2> DEFINE p == worker[t.of].project
  <2>1. timers' \subseteq [by: Child, of: Child] /\ listed' \in [Project -> Child \union {None}]
    BY <1>5 DEF TimerFires
  <2>2. CASE stopping
    BY <1>5, <2>1, <2>2 DEF TimerFires
  <2>3. CASE ~stopping
    <3>0. PICK q \in Project : Forks(q)
      <4> HIDE DEF TypeOK
      <4> QED BY <1>5, <2>3, TimerForks, Zenon
    <3>1. /\ worker' \in [Child -> Worker]
          /\ procs' \in [Project -> Child \union {None}]
          /\ managed' \in [Child -> [count: 0 .. MaxRestarts, token: Token]]
      <4>1. PICK c \in Child, w \in Worker :
              /\ worker' = [worker EXCEPT ![c] = w] /\ procs' = [procs EXCEPT ![q] = c]
              /\ managed' \in [Child -> [count: 0 .. MaxRestarts, token: Token]]
        BY <3>0, Zenon DEF Forks
      <4> QED BY <4>1
    <3>2. tries' \in [Project -> Nat]
      BY <1>5, <2>3 DEF TimerFires
    <3> QED BY <1>5, <2>1, <3>1, <3>2 DEF TimerFires
  <2> QED BY <2>2, <2>3
<1>6. ASSUME NEW c \in Child, StartedSeen(c) PROVE TypeOK'
  <2> DEFINE p == worker[c].project
  <2>1. p \in Project
    BY <1>6 DEF StartedSeen, Named, Worker
  <2>2. worker' \in [Child -> Worker]
    <3>0. worker[c] \in Worker
      OBVIOUS
    <3>1. [worker[c] EXCEPT !.started = FALSE] \in Worker
      BY <3>0 DEF Worker
    <3> QED BY <1>6, <3>1 DEF StartedSeen
  <2>3. managed' \in [Child -> [count: 0 .. MaxRestarts, token: Token]]
    <3> DEFINE m == procs[p]
    <3>1. CASE m = None
      BY <1>6, <3>1 DEF StartedSeen
    <3>2. CASE m # None
      <4>1. m \in Child /\ managed' = [managed EXCEPT ![m] = [managed[m] EXCEPT !.count = 0]]
        BY <1>6, <2>1, <3>2 DEF StartedSeen
      <4>2. [managed[m] EXCEPT !.count = 0] \in [count: 0 .. MaxRestarts, token: Token]
        BY <4>1, Numbers
      <4> HIDE DEF m
      <4> QED BY <4>1, <4>2
    <3> QED BY <3>1, <3>2
  <2>4. tries' \in [Project -> Nat]
    BY <1>6, <2>1 DEF StartedSeen
  <2> QED BY <1>6, <2>2, <2>3, <2>4 DEF StartedSeen
<1>7. ASSUME NEW c \in Child, StopTimeout(c) PROVE TypeOK'
  <2>1. worker' \in [Child -> Worker]
    BY <1>7, DeadWorker DEF StopTimeout
  <2> QED BY <1>7, <2>1 DEF StopTimeout
<1>8. CASE StopAll
  <2>1. worker' \in [Child -> Worker]
    BY <1>8, Messages, SentWorker DEF StopAll
  <2> QED BY <1>8, <2>1 DEF StopAll
<1>9. CASE RunnerEnds \/ RunnerCrashes
  BY <1>9 DEF RunnerEnds, RunnerCrashes
<1>10. CASE UNCHANGED vars
  BY <1>10 DEF vars
<1>11. CASE WorkerStep
  BY <1>11, <1>1, WorkerSteps DEF WorkerStep
<1>12. CASE ConfigStep
  BY <1>12, <1>2, <1>3 DEF ConfigStep
<1>13. CASE RunnerStep
  BY <1>13, <1>4, <1>5, <1>6, <1>7, <1>8, <1>9 DEF RunnerStep
<1> QED BY <1>10, <1>11, <1>12, <1>13 DEF Next

-----------------------------------------------------------------------------
(* Who is there.                                                           *)

Place == Named /\ Known /\ Alone /\ Delayed /\ Gone /\ Fresh /\ Awaited

\* What most steps do to the processes: nothing but that some may die.
Calm ==
  \A c \in Child :
    /\ worker'[c].project = worker[c].project
    /\ worker'[c].life = worker[c].life
       \/ (worker[c].life = "alive" /\ worker'[c].life = "dead")
    /\ worker[c].life = "unused" /\ ~worker[c].started => ~worker'[c].started

LEMMA CalmSame ==
  ASSUME Calm
  PROVE  \A c \in Child : (Unreaped(c)' <=> Unreaped(c)) /\ (Alive(c)' => Alive(c))
BY DEF Calm, Unreaped, Alive

LEMMA CalmKnown ==
  ASSUME TypeOK, Known, Calm, UNCHANGED <<procs, runner>>
  PROVE  Known'
BY CalmSame DEF Known, Calm, TypeOK

LEMMA CalmAwaited ==
  ASSUME Awaited, Calm, UNCHANGED <<runner, stopping, waits>>
  PROVE  Awaited'
BY CalmSame DEF Awaited

LEMMA CalmPlace ==
  ASSUME TypeOK, Place, Calm, Known', Awaited',
         \A q \in Project :
           known'[q] = 0 /\ config'[q] # 0 => known[q] = 0 /\ config[q] # 0,
         timers' \subseteq timers,
         \A t \in timers' : listed'[OfTimer(t)] = listed[OfTimer(t)],
         stops' \subseteq Child,
         \A d \in stops' : worker[d].life = "reaped" =>
           \/ d \in stops
           \/ /\ \A c \in Child : Unreaped(c) => worker[c].project # worker[d].project
              /\ \A t \in timers' : OfTimer(t) # worker[d].project
  PROVE  Place'
<1>1. \A c \in Child : (Unreaped(c)' <=> Unreaped(c)) /\ (Alive(c)' => Alive(c))
  BY CalmSame
<1>2. Named'
  BY DEF Place, Named, Calm
<1>3. Alone'
  BY <1>1 DEF Place, Alone, Calm
<1>4. \A t \in timers : OfTimer(t)' = OfTimer(t)
  BY DEF OfTimer, Calm, TypeOK
<1>5. Delayed'
  BY <1>1, <1>4 DEF Place, Delayed, Calm
<1>6. Gone'
  <2> SUFFICES ASSUME NEW d \in stops', worker'[d].life = "reaped"
               PROVE  /\ \A c \in Child : Unreaped(c)' => worker'[c].project # worker'[d].project
                      /\ \A t \in timers' : OfTimer(t)' # worker'[d].project
    BY DEF Gone
  <2>1. worker[d].life = "reaped" /\ worker'[d].project = worker[d].project
    BY DEF Calm
  <2>2. /\ \A c \in Child : Unreaped(c) => worker[c].project # worker[d].project
        /\ \A t \in timers' : OfTimer(t) # worker[d].project
    BY <2>1 DEF Place, Gone
  <2> QED BY <1>1, <1>4, <2>1, <2>2 DEF Calm
<1>7. Fresh'
  BY DEF Place, Fresh, Calm
<1> QED BY <1>2, <1>3, <1>5, <1>6, <1>7 DEF Place

\* Sending and the loss of a message, and a worker's own steps, are calm.
LEMMA OwnCalm == ASSUME TypeOK, NEW c \in Child, Own(c) PROVE Calm
BY DEF Own, Calm, Alive, TypeOK

LEMMA SentCalm ==
  ASSUME TypeOK, NEW m \in Message, NEW C \in SUBSET Child,
         worker' = [c \in Child |-> IF c \in C THEN Sent(worker[c], m) ELSE worker[c]]
  PROVE  Calm
<1> SUFFICES ASSUME NEW c \in Child
             PROVE  /\ worker'[c].project = worker[c].project
                    /\ worker'[c].life = worker[c].life
                    /\ worker'[c].started = worker[c].started
  BY DEF Calm
<1>1. worker[c] \in Worker
  BY DEF TypeOK
<1> QED BY <1>1, SentWorker

LEMMA ForksPlace ==
  ASSUME TypeOK, Place, NEW p \in Project, Forks(p), runner = "up",
         \A c \in Child : Unreaped(c) => worker[c].project # p,
         \A d \in stops : worker[d].life = "reaped" => worker[d].project # p,
         timers' \subseteq timers, \A t \in timers' : OfTimer(t) # p,
         \A q \in Project : q # p => listed'[q] = listed[q],
         \/ known'[p] = config[p]
         \/ known'[p] = known[p] /\ (known[p] # 0 \/ config[p] = 0),
         \A q \in Project : q # p => known'[q] = known[q],
         UNCHANGED <<config, runner, stopping, stops, waits>>
  PROVE  Place'
<1>1. PICK c \in Child, w \in Worker :
        /\ worker[c].life = "unused" /\ worker[c].project = None
        /\ w.life = "alive" /\ w.project = p
        /\ worker' = [worker EXCEPT ![c] = w]
        /\ procs' = [procs EXCEPT ![p] = c]
  BY DEF Forks
<1>2. /\ worker'[c].life = "alive" /\ worker'[c].project = p
      /\ \A d \in Child : d # c => worker'[d] = worker[d]
      /\ procs'[p] = c /\ \A q \in Project : q # p => procs'[q] = procs[q]
      /\ p # None /\ c # None
  BY <1>1, PoolAssumption DEF TypeOK
<1>3. /\ \A d \in Child : d # c => (Unreaped(d)' <=> Unreaped(d)) /\ (Alive(d)' <=> Alive(d))
      /\ ~Unreaped(c) /\ ~Alive(c) /\ Unreaped(c)' /\ Alive(c)'
  BY <1>1, <1>2 DEF Unreaped, Alive
<1>4. Named'
  BY <1>2 DEF Place, Named
<1>5. Known'
  <2>1. ASSUME NEW q \in Project, procs'[q] # None PROVE worker'[procs'[q]].project = q
    <3>1. CASE q = p
      BY <1>2, <3>1
    <3>2. CASE q # p
      <4>1. procs[q] \in Child /\ procs[q] # None /\ worker[procs[q]].project = q
        BY <1>2, <2>1, <3>2 DEF TypeOK, Place, Known
      <4>2. procs[q] # c
        BY <1>1, <4>1, PoolAssumption
      <4> QED BY <1>2, <3>2, <4>1, <4>2
    <3> QED BY <3>1, <3>2
  <2>2. ASSUME NEW d \in Child, Unreaped(d)' PROVE procs'[worker'[d].project] \in {d, None}
    BY <1>2, <1>3, <2>2 DEF Place, Known, Named, Unreaped
  <2>3. ASSUME NEW d \in Child, Alive(d)' PROVE procs'[worker'[d].project] = d
    <3>1. CASE d = c
      BY <1>2, <3>1
    <3>2. CASE d # c
      <4>1. Alive(d) /\ Unreaped(d) /\ worker'[d].project = worker[d].project /\ worker[d].project # p
        BY <1>2, <1>3, <2>3, <3>2 DEF Alive, Unreaped
      <4>2. worker[d].project \in Project /\ procs[worker[d].project] = d
        BY <4>1 DEF Place, Known, Named, Alive
      <4> QED BY <1>2, <4>1, <4>2
    <3> QED BY <3>1, <3>2
  <2> QED BY <2>1, <2>2, <2>3 DEF Known
<1>6. Alone'
  BY <1>2, <1>3 DEF Place, Alone
<1>7. \A t \in timers : OfTimer(t)' = OfTimer(t) /\ OfTimer(t) \in Project
  <2>1. ASSUME NEW t \in timers PROVE OfTimer(t)' = OfTimer(t) /\ OfTimer(t) \in Project
    <3>1. OfTimer(t) \in Project /\ t.of \in Child
      BY DEF Place, Delayed, TypeOK
    <3>2. t.of # c
      BY <1>1, <3>1, PoolAssumption DEF OfTimer
    <3> QED BY <1>2, <3>1, <3>2 DEF OfTimer
  <2> QED BY <2>1
<1>8. Delayed'
  BY <1>2, <1>3, <1>7 DEF Place, Delayed
<1>9. Gone'
  <2> SUFFICES ASSUME NEW d \in stops, worker'[d].life = "reaped"
               PROVE  /\ \A e \in Child : Unreaped(e)' => worker'[e].project # worker'[d].project
                      /\ \A t \in timers' : OfTimer(t)' # worker'[d].project
    BY DEF Gone
  <2>1. d \in Child /\ d # c /\ worker'[d] = worker[d]
    BY <1>2 DEF TypeOK
  <2>2. worker[d].project # p
    BY <2>1
  <2>3. \A e \in Child : Unreaped(e) => worker[e].project # worker[d].project
    BY <2>1 DEF Place, Gone
  <2>4. \A t \in timers : OfTimer(t) # worker[d].project
    BY <2>1 DEF Place, Gone
  <2> QED BY <1>2, <1>3, <1>7, <2>1, <2>2, <2>3, <2>4
<1>10. Fresh'
  <2>1. ~(known'[p] = 0 /\ config'[p] # 0)
    BY DEF TypeOK
  <2>2. ASSUME NEW q \in Project, known'[q] = 0, config'[q] # 0, NEW d \in Child
        PROVE  worker'[d].project # q
    <3>1. q # p /\ known[q] = 0 /\ config[q] # 0
      BY <2>1, <2>2
    <3>2. worker[d].project # q
      BY <3>1 DEF Place, Fresh
    <3> QED BY <1>2, <3>1, <3>2
  <2> QED BY <2>2 DEF Fresh
<1>11. Awaited'
  BY <1>2, <1>3 DEF Place, Awaited
<1> QED BY <1>4, <1>5, <1>6, <1>8, <1>9, <1>10, <1>11 DEF Place

LEMMA ExitPlace ==
  ASSUME TypeOK, Place, NEW c \in Child, ExitSeen(c)
  PROVE  Place'
<1> DEFINE p == worker[c].project
           kept == IF c \in stops THEN [procs EXCEPT ![p] = None] ELSE procs
           m == procs[p]
<1>1. p \in Project /\ c # None
  BY PoolAssumption DEF Place, Named, ExitSeen
<1>2. /\ worker'[c].life = "reaped"
      /\ worker[c].life = "dead"
      /\ \A d \in Child : d # c => worker'[d].life = worker[d].life
      /\ \A d \in Child : worker'[d].project = worker[d].project
      /\ \A d \in Child : worker'[d].started = worker[d].started
  BY DEF ExitSeen, TypeOK, Worker
<1>3. /\ \A d \in Child : Unreaped(d)' <=> Unreaped(d) /\ d # c
      /\ \A d \in Child : Alive(d)' <=> Alive(d)
      /\ Unreaped(c)
  BY <1>2 DEF Unreaped, Alive
<1>4. \A d \in Child : Unreaped(d) /\ d # c => worker[d].project # p
  BY <1>3 DEF Place, Alone
<1>5. \A t \in timers : OfTimer(t) # p
  BY <1>3 DEF Place, Delayed
<1>6. /\ UNCHANGED <<config, known, runner, stopping>>
      /\ stops' = stops \ {c} /\ waits' = waits \ {c}
      /\ HandleChildExit(c, kept)
  BY DEF ExitSeen
<1>7. /\ \A q \in Project : q # p => procs'[q] = procs[q] /\ listed'[q] = listed[q]
      /\ procs'[p] \in {procs[p], None}
      /\ \/ timers' = timers /\ listed' = listed
         \/ /\ timers' = timers \union {[by |-> c, of |-> m]} /\ listed'[p] = c
            /\ m \in Child /\ worker[m].project = p
  <2>1. kept \in [Project -> Child \union {None}] /\ kept[p] \in {procs[p], None}
        /\ \A q \in Project : q # p => kept[q] = procs[q]
    BY <1>1 DEF TypeOK
  <2>2. m # None => m \in Child /\ worker[m].project = p
    BY <1>1 DEF Place, Known, TypeOK
  <2> HIDE DEF kept
  <2>3. CASE m = None \/ stopping
    BY <1>6, <2>1, <2>3 DEF HandleChildExit
  <2>4. CASE ~(m = None \/ stopping) /\ managed[m].count >= MaxRestarts
    BY <1>1, <1>6, <2>1, <2>4 DEF HandleChildExit
  <2>5. CASE ~(m = None \/ stopping) /\ ~(managed[m].count >= MaxRestarts)
    <3>1. /\ procs' = kept /\ timers' = timers \union {[by |-> c, of |-> m]}
          /\ listed' = [listed EXCEPT ![p] = c]
      BY <1>6, <2>5 DEF HandleChildExit
    <3>2. listed'[p] = c /\ \A q \in Project : q # p => listed'[q] = listed[q]
      BY <1>1, <3>1 DEF TypeOK
    <3> QED BY <2>1, <2>2, <2>5, <3>1, <3>2
  <2> QED BY <2>3, <2>4, <2>5
<1> HIDE DEF kept, m
<1>8. Named'
  BY <1>1, <1>2 DEF Place, Named
<1>9. Known'
  <2>1. ASSUME NEW q \in Project, procs'[q] # None PROVE worker'[procs'[q]].project = q
    <3>1. procs'[q] = procs[q] /\ procs[q] \in Child /\ worker[procs[q]].project = q
      BY <1>7, <2>1 DEF Place, Known, TypeOK
    <3> QED BY <1>2, <3>1
  <2>2. ASSUME NEW d \in Child, Unreaped(d)' PROVE procs'[worker'[d].project] \in {d, None}
    BY <1>2, <1>3, <1>7, <2>2 DEF Place, Known, Named, Unreaped
  <2>3. ASSUME NEW d \in Child, Alive(d)', runner' # "ended" PROVE procs'[worker'[d].project] = d
    <3>1. Alive(d) /\ d # c /\ Unreaped(d)
      BY <1>2, <1>3, <2>3 DEF Alive, Unreaped
    <3>2. worker[d].project \in Project /\ worker[d].project # p /\ procs[worker[d].project] = d
      BY <1>4, <1>6, <2>3, <3>1 DEF Place, Known, Named, Alive
    <3> QED BY <1>2, <1>7, <3>2
  <2> QED BY <2>1, <2>2, <2>3 DEF Known
<1>10. Alone'
  BY <1>2, <1>3 DEF Place, Alone
<1>11. \A t \in timers : OfTimer(t)' = OfTimer(t) /\ OfTimer(t) \in Project
  BY <1>2 DEF OfTimer, Place, Delayed, TypeOK
<1>12. Delayed'
  <2>1. ASSUME NEW t \in timers'
        PROVE  \/ t \in timers
               \/ t = [by |-> c, of |-> m] /\ listed'[p] = t.by /\ OfTimer(t)' = p
    BY <1>2, <1>7 DEF OfTimer
  <2>2. ASSUME NEW t \in timers'
        PROVE  /\ OfTimer(t)' \in Project /\ listed'[OfTimer(t)'] = t.by
               /\ \A d \in Child : Unreaped(d)' => worker'[d].project # OfTimer(t)'
    <3>1. CASE t \in timers
      BY <1>2, <1>3, <1>5, <1>7, <1>11, <3>1 DEF Place, Delayed
    <3>2. CASE listed'[p] = t.by /\ OfTimer(t)' = p
      BY <1>1, <1>2, <1>3, <1>4, <3>2
    <3> QED BY <2>1, <3>1, <3>2
  <2>3. ASSUME NEW t \in timers', NEW u \in timers', OfTimer(t)' = OfTimer(u)' PROVE t = u
    BY <1>5, <1>11, <2>1, <2>3 DEF Place, Delayed
  <2> QED BY <2>2, <2>3 DEF Delayed
<1>13. Gone'
  <2> SUFFICES ASSUME NEW d \in stops', worker'[d].life = "reaped"
               PROVE  /\ \A e \in Child : Unreaped(e)' => worker'[e].project # worker'[d].project
                      /\ \A t \in timers' : OfTimer(t)' # worker'[d].project
    BY DEF Gone
  <2>1. d \in stops /\ d \in Child /\ d # c /\ worker[d].life = "reaped"
    BY <1>2, <1>6 DEF TypeOK
  <2>2. /\ \A e \in Child : Unreaped(e) => worker[e].project # worker[d].project
        /\ \A t \in timers : OfTimer(t) # worker[d].project
    BY <2>1 DEF Place, Gone
  <2>3. worker[d].project # p
    BY <1>3, <2>2
  <2>4. \A t \in timers' : OfTimer(t)' # worker'[d].project
    BY <1>2, <1>7, <1>11, <2>1, <2>2, <2>3 DEF OfTimer
  <2> QED BY <1>2, <1>3, <2>1, <2>2, <2>4
<1>14. Fresh' /\ Awaited'
  BY <1>2, <1>3, <1>6 DEF Place, Fresh, Awaited, Alive
<1> QED BY <1>8, <1>9, <1>10, <1>12, <1>13, <1>14 DEF Place

LEMMA StopAllPlace == ASSUME TypeOK, Place, StopAll PROVE Place'
<1> DEFINE all == {procs[p] : p \in Project} \ {None}
<1>1. all \in SUBSET Child
  BY DEF TypeOK
<1>2. worker' = [c \in Child |-> IF c \in all THEN Sent(worker[c], ShutdownMessage) ELSE worker[c]]
  BY DEF StopAll
<1>3. Calm
  BY <1>1, <1>2, Messages, SentCalm
<1>4. timers' = {}
  BY DEF StopAll, Place, Delayed
<1>5. /\ runner = "up" /\ runner' = "stopAll" /\ stopping' = TRUE /\ waits' = all
      /\ UNCHANGED <<config, known, procs, stops>>
  BY DEF StopAll
<1>6. Known'
  BY <1>3, <1>5, CalmSame DEF Place, Known, Calm, TypeOK
<1>7. Awaited'
  <2>1. ASSUME NEW c \in Child, Alive(c)' PROVE c \in all
    <3>1. Alive(c)
      BY <1>3, <2>1, CalmSame
    <3>2. worker[c].project \in Project /\ procs[worker[c].project] = c
      BY <1>5, <3>1 DEF Place, Known, Named, Alive
    <3> QED BY <3>2, PoolAssumption
  <2> QED BY <1>5, <2>1 DEF Awaited
<1> HIDE DEF all
<1> QED BY <1>3, <1>4, <1>5, <1>6, <1>7, CalmPlace DEF TypeOK

LEMMA StopProjectPlace ==
  ASSUME TypeOK, Place, NEW p \in Project, StopProject(p), known' = [known EXCEPT ![p] = config[p]],
         UNCHANGED <<config, runner, stopping, waits>>
  PROVE  Place'
<1> DEFINE C == IF procs[p] = None THEN {} ELSE {procs[p]}
<1>1. C \in SUBSET Child
  BY DEF TypeOK
<1>2. worker' = [c \in Child |-> IF c \in C THEN Sent(worker[c], ShutdownMessage) ELSE worker[c]]
  BY DEF StopProject, TypeOK
<1>3. Calm
  BY <1>1, <1>2, Messages, SentCalm
<1>4. timers' \subseteq timers /\ \A t \in timers' : OfTimer(t) # p
  BY DEF StopProject, Place, Delayed
<1>5. \A t \in timers' : listed'[OfTimer(t)] = listed[OfTimer(t)]
  BY <1>4 DEF StopProject, TypeOK, Place, Delayed
<1>6. Known' /\ Awaited'
  BY <1>3, CalmKnown, CalmAwaited DEF Place, StopProject
<1>7. \A q \in Project : known'[q] = 0 /\ config'[q] # 0 => known[q] = 0 /\ config[q] # 0
  BY DEF TypeOK
<1>8. \A d \in stops' : d \in stops \/ (d \in Child /\ d = procs[p])
  BY DEF StopProject, TypeOK
<1>9. ASSUME NEW d \in Child, d = procs[p], worker[d].life = "reaped"
      PROVE  /\ \A c \in Child : Unreaped(c) => worker[c].project # worker[d].project
             /\ \A t \in timers' : OfTimer(t) # worker[d].project
  <2>1. worker[d].project = p /\ d # None
    BY <1>9, PoolAssumption DEF Place, Known
  <2>2. ASSUME NEW c \in Child, Unreaped(c) PROVE worker[c].project # p
    <3>1. c # d
      BY <1>9, <2>2 DEF Unreaped
    <3> QED BY <1>9, <2>1, <2>2, <3>1 DEF Place, Known
  <2> QED BY <1>4, <2>1, <2>2
<1> HIDE DEF C
<1> QED BY <1>3, <1>4, <1>5, <1>6, <1>7, <1>8, <1>9, CalmPlace DEF TypeOK

LEMMA TimeoutPlace ==
  ASSUME TypeOK, Place, NEW c \in Child, StopTimeout(c)
  PROVE  Place'
<1>1. worker[c] \in Worker
  BY DEF TypeOK
<1>2. Calm
  BY <1>1, DeadWorker DEF StopTimeout, Calm, Alive, TypeOK
<1>3. ~Alive(c)'
  BY <1>1, DeadWorker DEF StopTimeout, Alive, TypeOK
<1>4. runner \in {"up", "stopAll"} /\ stops' = stops \ {c} /\ waits' = waits \ {c}
      /\ UNCHANGED <<config, known, runner, stopping, timers, listed>>
  BY DEF StopTimeout
<1>5. Known'
  <2>1. CASE c \notin stops
    <3>1. UNCHANGED <<procs, runner>>
      BY <1>4, <2>1 DEF StopTimeout
    <3> QED BY <1>2, <3>1, CalmKnown DEF Place
  <2>2. CASE c \in stops
    <3> DEFINE p == worker[c].project
    <3>1. /\ \A q \in Project : q # p => procs'[q] = procs[q]
          /\ p \in Project => procs'[p] = None
      BY <2>2 DEF StopTimeout, TypeOK
    <3>2. ASSUME NEW q \in Project, procs'[q] # None PROVE worker'[procs'[q]].project = q
      <4>1. procs'[q] = procs[q] /\ procs[q] \in Child /\ worker[procs[q]].project = q
        BY <3>1, <3>2 DEF Place, Known, TypeOK
      <4> QED BY <1>2, <4>1 DEF Calm
    <3>3. ASSUME NEW d \in Child, Unreaped(d)' PROVE procs'[worker'[d].project] \in {d, None}
      BY <1>2, <3>1, <3>3, CalmSame DEF Place, Known, Named, Calm, Unreaped
    <3>4. ASSUME NEW d \in Child, Alive(d)' PROVE procs'[worker'[d].project] = d
      <4>1. d # c /\ Alive(d) /\ Unreaped(d)
        BY <1>2, <1>3, <3>4, CalmSame DEF Alive, Unreaped
      <4>2. worker[d].project \in Project /\ procs[worker[d].project] = d
        BY <1>4, <4>1 DEF Place, Known, Named, Alive
      <4>3. worker[d].project # p
        <5>1. CASE Unreaped(c)
          BY <4>1, <5>1 DEF Place, Alone
        <5>2. CASE worker[c].life = "reaped"
          BY <2>2, <4>1, <5>2 DEF Place, Gone
        <5>3. CASE worker[c].life = "unused"
          BY <4>2, <5>3, PoolAssumption DEF Place, Named
        <5> QED BY <1>1, <5>1, <5>2, <5>3 DEF Unreaped, Worker
      <4> QED BY <1>2, <3>1, <4>2, <4>3 DEF Calm
    <3> QED BY <3>2, <3>3, <3>4 DEF Known
  <2> QED BY <2>1, <2>2
<1>6. Awaited'
  <2>1. \A d \in Child : Alive(d)' => d # c /\ Alive(d)
    BY <1>2, <1>3, CalmSame
  <2> QED BY <1>4, <2>1 DEF Place, Awaited
<1> QED BY <1>2, <1>4, <1>5, <1>6, CalmPlace DEF TypeOK

LEMMA EndPlace ==
  ASSUME TypeOK, Place, RunnerEnds \/ RunnerCrashes
  PROVE  Place'
<1>1. Calm /\ timers' = {} /\ UNCHANGED <<config, known, worker, stops>>
  BY DEF RunnerEnds, RunnerCrashes, Calm
<1>2. CASE RunnerEnds
  <2>1. /\ runner' = "ended" /\ procs' = [p \in Project |-> None]
        /\ \A c \in Child : ~Alive(c)
    BY <1>2 DEF RunnerEnds, Place, Awaited
  <2>2. Awaited'
    BY <1>1, <2>1, CalmSame DEF Awaited
  <2>3. Known'
    BY <1>1, <2>1 DEF Place, Known, Named, Unreaped
  <2> QED BY <1>1, <2>2, <2>3, CalmPlace DEF TypeOK
<1>3. CASE RunnerCrashes
  <2>1. runner' = "crashed" /\ runner # "ended" /\ UNCHANGED <<procs, stopping>>
    BY <1>3 DEF RunnerCrashes
  <2>2. Awaited'
    BY <2>1 DEF Awaited
  <2>3. Known'
    BY <1>1, <2>1 DEF Place, Known, Unreaped, Alive
  <2> QED BY <1>1, <2>2, <2>3, CalmPlace DEF TypeOK
<1> QED BY <1>2, <1>3

LEMMA PlaceStep ==
  ASSUME TypeOK, Place, ~Fault("readd"), [Next]_vars
  PROVE  Place'
<1>1. ASSUME NEW c \in Child, Own(c) PROVE Place'
  <2>1. Calm
    BY <1>1, OwnCalm
  <2>2. UNCHANGED <<config, known, runner, stopping, procs, timers, listed, stops, waits>>
    BY <1>1 DEF Own
  <2>3. Known' /\ Awaited'
    BY <2>1, <2>2, CalmKnown, CalmAwaited DEF Place
  <2> QED BY <2>1, <2>2, <2>3, CalmPlace DEF TypeOK
<1>2. ASSUME NEW p \in Project, Edit(p) PROVE Place'
  <2>1. UNCHANGED <<known, runner, stopping, worker, procs, managed, timers, listed, stops, waits>>
    BY <1>2 DEF Edit
  <2>2. \A q \in Project : q # p => config'[q] = config[q]
    BY <1>2 DEF Edit, TypeOK
  <2>3. known[p] = 0 /\ config'[p] # 0 => \A c \in Child : worker[c].project # p
    BY <1>2 DEF Edit
  <2>4. Fresh'
    BY <2>1, <2>2, <2>3 DEF Place, Fresh
  <2>5. (Named /\ Known /\ Alone /\ Delayed /\ Gone /\ Awaited)'
    BY <2>1 DEF Place, Named, Known, Alone, Delayed, Gone, Awaited, Unreaped, Alive, OfTimer
  <2> QED BY <2>4, <2>5 DEF Place
<1>3. ASSUME NEW p \in Project, Poll(p) PROVE Place'
  <2>1. /\ runner = "up" /\ known[p] # config[p]
        /\ known' = [known EXCEPT ![p] = config[p]]
        /\ UNCHANGED <<config, runner, stopping, waits>>
    BY <1>3 DEF Poll
  <2>2. CASE known[p] = 0 /\ Fork(p)
    <3>1. Forks(p) /\ UNCHANGED <<timers, listed, stops>>
      BY <2>2, ForkForks DEF Place, Fork
    <3>2. \A c \in Child : worker[c].project # p
      BY <2>1, <2>2 DEF Place, Fresh
    <3>3. \A t \in timers : OfTimer(t) # p
      BY <3>2 DEF OfTimer, TypeOK
    <3>4. known'[p] = config[p] /\ \A q \in Project : q # p => known'[q] = known[q]
      BY <2>1 DEF TypeOK
    <3>5. \A d \in stops : worker[d].project # p
      BY <3>2 DEF TypeOK
    <3>6. timers' \subseteq timers /\ (\A t \in timers' : OfTimer(t) # p)
          /\ \A q \in Project : q # p => listed'[q] = listed[q]
      BY <3>1, <3>3
    <3>7. /\ \A c \in Child : Unreaped(c) => worker[c].project # p
          /\ \A d \in stops : worker[d].life = "reaped" => worker[d].project # p
      BY <3>2, <3>5
    <3>8. runner = "up" /\ UNCHANGED <<config, runner, stopping, stops, waits>>
      BY <2>1, <3>1
    <3>10. \A q \in Project : q # p => known'[q] = known[q]
      BY <3>4
    <3> QED BY <3>1, <3>6, <3>7, <3>4, <3>8, <3>10, ForksPlace, Zenon
  <2>3. CASE SendTokenUpdate(p)
    <3> DEFINE m == [type |-> "token_update", token |-> config[p]]
               C == IF procs[p] = None THEN {} ELSE {procs[p]}
    <3>1. PICK n \in Message, D \in SUBSET Child : n = m /\ D = C
      BY Messages DEF TypeOK
    <3>2. worker' = [c \in Child |-> IF c \in D THEN Sent(worker[c], n) ELSE worker[c]]
      <4>1. procs[p] # None => procs[p] \in Child
        BY DEF TypeOK
      <4>2. \A c \in Child : c \in D <=> procs[p] # None /\ c = procs[p]
        BY <3>1
      <4>3. n = m
        BY <3>1
      <4> HIDE DEF m
      <4>4. IF procs[p] = None THEN worker' = worker
            ELSE worker' = [worker EXCEPT ![procs[p]] = Sent(@, m)]
        BY <2>3 DEF SendTokenUpdate, m
      <4> QED BY <4>1, <4>2, <4>3, <4>4 DEF TypeOK
    <3>3. Calm
      BY <3>2, SentCalm
    <3>4. UNCHANGED <<procs, timers, listed, stops>>
      BY <2>3 DEF SendTokenUpdate
    <3>5. Known' /\ Awaited'
      BY <2>1, <3>3, <3>4, CalmKnown, CalmAwaited DEF Place
    <3>6. \A q \in Project : known'[q] = 0 /\ config'[q] # 0 => known[q] = 0 /\ config[q] # 0
      BY <2>1 DEF TypeOK
    <3> QED BY <3>3, <3>4, <3>5, <3>6, CalmPlace DEF TypeOK
  <2>4. CASE StopProject(p)
    BY <2>1, <2>4, StopProjectPlace
  <2> QED BY <1>3, <2>2, <2>3, <2>4 DEF Poll
<1>4. ASSUME NEW t \in timers, TimerFires(t) PROVE Place'
  <2>1. /\ timers' = timers \ {t} /\ listed' = [listed EXCEPT ![OfTimer(t)] = None]
        /\ UNCHANGED <<config, known, runner, stopping, stops, waits>>
        /\ runner \in {"up", "stopAll"}
    BY <1>4 DEF TimerFires, OfTimer
  <2>2. /\ OfTimer(t) \in Project
        /\ \A u \in timers' : OfTimer(u) # OfTimer(t) /\ OfTimer(u) \in Project
        /\ \A q \in Project : q # OfTimer(t) => listed'[q] = listed[q]
    BY <2>1 DEF Place, Delayed, TypeOK
  <2>3. CASE stopping
    <3>1. Calm /\ UNCHANGED procs
      BY <1>4, <2>3 DEF TimerFires, Calm
    <3>2. Known' /\ Awaited'
      BY <2>1, <3>1, CalmKnown, CalmAwaited DEF Place
    <3> QED BY <2>1, <2>2, <3>1, <3>2, CalmPlace DEF TypeOK
  <2>4. CASE ~stopping
    <3>1. PICK p \in Project : p = OfTimer(t)
      BY <2>2
    <3>2. Forks(p)
      BY <1>4, <2>4, <3>1, TimerForks DEF Place, Forks
    <3>3. runner = "up"
      BY <2>1, <2>4 DEF Place, Awaited
    <3>4. known[p] # 0 \/ config[p] = 0
      BY <3>1 DEF Place, Fresh, OfTimer, TypeOK
    <3>5. \A c \in Child : Unreaped(c) => worker[c].project # p
      BY <3>1 DEF Place, Delayed
    <3>6. \A d \in stops : worker[d].life = "reaped" => worker[d].project # p
      BY <3>1 DEF Place, Gone
    <3> QED BY <2>1, <2>2, <3>1, <3>2, <3>3, <3>4, <3>5, <3>6, ForksPlace
  <2> QED BY <2>3, <2>4
<1>5. ASSUME NEW c \in Child, StartedSeen(c) PROVE Place'
  <2>1. Calm
    BY <1>5 DEF StartedSeen, Calm, TypeOK, Worker
  <2>2. UNCHANGED <<config, known, runner, stopping, procs, timers, listed, stops, waits>>
    BY <1>5 DEF StartedSeen
  <2>3. Known' /\ Awaited'
    BY <2>1, <2>2, CalmKnown, CalmAwaited DEF Place
  <2> QED BY <2>1, <2>2, <2>3, CalmPlace DEF TypeOK
<1>6. CASE UNCHANGED vars
  BY <1>6 DEF vars, Place, Named, Known, Alone, Delayed, Gone, Fresh, Awaited, Unreaped, Alive, OfTimer
<1>7. CASE WorkerStep
  BY <1>1, <1>7, WorkerSteps DEF WorkerStep
<1>8. CASE ConfigStep
  BY <1>2, <1>3, <1>8 DEF ConfigStep
<1>9. CASE RunnerStep
  BY <1>4, <1>5, <1>9, ExitPlace, TimeoutPlace, StopAllPlace, EndPlace DEF RunnerStep
<1> QED BY <1>6, <1>7, <1>8, <1>9 DEF Next

LEMMA PlaceInitially == Init => TypeOK /\ Place /\ Counted
<1> SUFFICES ASSUME Init PROVE TypeOK /\ Place /\ Counted
  OBVIOUS
<1>1. \A c \in Child : worker[c] = Unused /\ worker[c].life = "unused"
                       /\ worker[c].project = None /\ ~worker[c].started
  BY DEF Init, Unused
<1>2. Unused \in Worker
  BY Numbers DEF Unused, Worker
<1>3. TypeOK
  BY <1>2, Numbers DEF Init, TypeOK
<1>4. Place
  BY <1>1, PoolAssumption
  DEF Init, Place, Named, Known, Alone, Delayed, Gone, Fresh, Awaited, Unreaped, Alive, OfTimer
<1>5. Counted
  BY Numbers DEF Init, Counted
<1> QED BY <1>3, <1>4, <1>5

-----------------------------------------------------------------------------
(* How often.                                                              *)

\* Unreaped after the step, of a process named before it.
Remains(c) == worker'[c].life \in {"alive", "dead"}

LEMMA CountedKept ==
  ASSUME TypeOK, Counted, Calm, UNCHANGED tries, ~stopping' => ~stopping,
         \A p \in Project : procs'[p] \in {procs[p], None},
         \A c \in Child : managed'[c].count = managed[c].count
  PROVE  Counted'
<1> SUFFICES ASSUME NEW p \in Project, ~stopping', procs'[p] # None
             PROVE  tries[p] <= managed'[procs'[p]].count + (IF Remains(procs'[p]) THEN 1 ELSE 0)
  BY DEF Counted, Remains, Unreaped
<1>1. ~stopping /\ procs'[p] = procs[p] /\ procs[p] # None
  OBVIOUS
<1>2. procs[p] \in Child
  BY <1>1 DEF TypeOK
<1>3. Remains(procs'[p]) <=> Unreaped(procs[p])
  BY <1>1, <1>2 DEF Calm, Unreaped, Remains
<1> QED BY <1>1, <1>2, <1>3 DEF Counted

LEMMA ForksCounted ==
  ASSUME TypeOK, Place, Counted, NEW p \in Project, Forks(p), UNCHANGED stopping, ~stopping,
         \A c \in Child : Unreaped(c) => worker[c].project # p,
         tries' = [tries EXCEPT ![p] = IF procs[p] = None THEN 1 ELSE @ + 1]
  PROVE  Counted'
<1>1. PICK c \in Child, w \in Worker :
        /\ worker[c].life = "unused" /\ worker[c].project = None
        /\ w.life = "alive" /\ w.project = p
        /\ worker' = [worker EXCEPT ![c] = w]
        /\ procs' = [procs EXCEPT ![p] = c]
        /\ managed'[c].count = CountOf(p)
        /\ \A d \in Child \ {c} : managed'[d] = managed[d]
  BY DEF Forks
<1>2. CountOf(p) \in 0 .. MaxRestarts /\ tries[p] \in Nat
  BY Numbers DEF CountOf, TypeOK
<1>3. tries'[p] <= CountOf(p) + 1
  <2>1. CASE procs[p] = None
    BY <1>2, <2>1 DEF TypeOK
  <2>2. CASE procs[p] # None
    <3>1. procs[p] \in Child /\ ~Unreaped(procs[p])
      BY <2>2 DEF TypeOK, Place, Known
    <3>2. tries[p] <= CountOf(p)
      BY <2>2, <3>1 DEF Counted, CountOf, TypeOK
    <3> QED BY <1>2, <2>2, <3>2 DEF TypeOK
  <2> QED BY <2>1, <2>2
<1>4. tries'[p] <= MaxRestarts + 1
  BY <1>2, <1>3, Numbers DEF TypeOK
<1>5. /\ Remains(c) /\ procs'[p] = c
      /\ \A q \in Project : q # p => procs'[q] = procs[q] /\ tries'[q] = tries[q]
  BY <1>1 DEF Unreaped, Remains, TypeOK
<1>6. ASSUME NEW q \in Project
      PROVE  /\ tries'[q] <= MaxRestarts + 1
             /\ procs'[q] # None =>
                  tries'[q] <= managed'[procs'[q]].count + (IF Remains(procs'[q]) THEN 1 ELSE 0)
  <2>1. CASE q = p
    BY <1>1, <1>3, <1>4, <1>5, <2>1
  <2>2. CASE q # p /\ procs[q] # None
    <3>1. procs[q] \in Child /\ worker[procs[q]].project = q
      BY <2>2 DEF Place, Known, TypeOK
    <3>2. procs[q] # c
      BY <1>1, <3>1, PoolAssumption
    <3>3. Remains(procs[q]) <=> Unreaped(procs[q])
      BY <1>1, <3>1, <3>2 DEF Unreaped, Remains, TypeOK
    <3> QED BY <1>1, <1>5, <2>2, <3>1, <3>2, <3>3 DEF Counted
  <2>3. CASE q # p /\ procs[q] = None
    BY <1>5, <2>3 DEF Counted
  <2> QED BY <2>1, <2>2, <2>3
<1> QED BY <1>6 DEF Counted, Unreaped, Remains

LEMMA ExitCounted ==
  ASSUME TypeOK, Place, Counted, NEW c \in Child, ExitSeen(c)
  PROVE  Counted'
<1> DEFINE p == worker[c].project
           kept == IF c \in stops THEN [procs EXCEPT ![p] = None] ELSE procs
           m == procs[p]
<1>1. p \in Project /\ UNCHANGED <<stopping, tries>> /\ HandleChildExit(c, kept)
  BY DEF Place, Named, ExitSeen
<1>2. /\ worker[c].life = "dead" /\ worker'[c].life = "reaped"
      /\ \A d \in Child : d # c => worker'[d].life = worker[d].life
  BY DEF ExitSeen, TypeOK, Worker
<1>3. kept[p] \in {procs[p], None} /\ \A q \in Project : q # p => kept[q] = procs[q]
  BY <1>1 DEF TypeOK
<1>4. m \in {c, None}
  BY <1>2 DEF Place, Known, Unreaped
<1>5. /\ procs'[p] \in {m, None} /\ \A q \in Project : q # p => procs'[q] = procs[q]
      /\ \A d \in Child : d # m => managed'[d].count = managed[d].count
      /\ ~stopping /\ procs'[p] # None => managed'[m].count = managed[m].count + 1
  <2> HIDE DEF kept
  <2>1. CASE m = None \/ stopping
    BY <1>1, <1>3, <2>1 DEF HandleChildExit
  <2>2. CASE ~(m = None \/ stopping) /\ managed[m].count >= MaxRestarts
    <3>1. /\ procs' = [kept EXCEPT ![p] = None] /\ UNCHANGED managed
      BY <1>1, <2>2 DEF HandleChildExit
    <3>2. kept \in [Project -> Child \union {None}]
      BY DEF kept, TypeOK
    <3>3. procs'[p] = None /\ \A q \in Project : q # p => procs'[q] = procs[q]
      BY <1>1, <1>3, <3>1, <3>2
    <3> QED BY <3>1, <3>3
  <2>3. CASE ~(m = None \/ stopping) /\ ~(managed[m].count >= MaxRestarts)
    <3>1. procs' = kept /\ managed' = [managed EXCEPT ![m].count = @ + 1]
      BY <1>1, <2>3 DEF HandleChildExit
    <3>2. m \in Child
      BY <1>1, <2>3 DEF TypeOK
    <3> QED BY <1>3, <3>1, <3>2 DEF TypeOK
  <2> QED BY <2>1, <2>2, <2>3
<1> HIDE DEF kept
<1>6. ASSUME NEW q \in Project, ~stopping, procs'[q] # None
      PROVE  tries[q] <= managed'[procs'[q]].count + (IF Remains(procs'[q]) THEN 1 ELSE 0)
  <2>1. procs'[q] = procs[q] /\ procs[q] \in Child
    BY <1>5, <1>6 DEF TypeOK
  <2>2. CASE q = p
    <3>1. m = c /\ ~Remains(c) /\ Unreaped(c) /\ managed'[c].count = managed[c].count + 1
      BY <1>2, <1>4, <1>5, <1>6, <2>1, <2>2 DEF Unreaped, Remains
    <3>2. tries[q] <= managed[c].count + 1
      BY <1>6, <2>1, <2>2, <3>1 DEF Counted
    <3>3. procs'[q] = c /\ c \in Child /\ managed[c].count \in Nat /\ tries[q] \in Nat
      BY <2>1, <2>2, <3>1, Numbers DEF TypeOK
    <3> QED BY <3>1, <3>2, <3>3
  <2>3. CASE q # p
    <3>1. worker[procs[q]].project = q
      BY <1>6, <2>1 DEF Place, Known
    <3>2. procs[q] # c /\ procs[q] # m
      BY <1>4, <1>6, <2>1, <2>3, <3>1
    <3>3. Remains(procs[q]) <=> Unreaped(procs[q])
      BY <1>2, <2>1, <3>2 DEF Unreaped, Remains
    <3> QED BY <1>5, <1>6, <2>1, <3>2, <3>3 DEF Counted
  <2> QED BY <2>2, <2>3
<1> QED BY <1>1, <1>6 DEF Counted, Unreaped, Remains

LEMMA StartedCounted ==
  ASSUME TypeOK, Place, Counted, NEW c \in Child, StartedSeen(c)
  PROVE  Counted'
<1> DEFINE p == worker[c].project
           m == procs[p]
<1>1. p \in Project /\ UNCHANGED <<stopping, procs>>
  BY DEF StartedSeen, Place, Named, TypeOK, Worker
<1>2. \A d \in Child : worker'[d].life = worker[d].life
  BY DEF StartedSeen, TypeOK, Worker
<1>3. Calm
  BY DEF StartedSeen, Calm, TypeOK, Worker
<1>4. CASE m = None
  BY <1>1, <1>3, <1>4, CountedKept DEF StartedSeen
<1>5. CASE m # None
  <2>1. m \in Child /\ worker[m].project = p
    BY <1>1, <1>5 DEF TypeOK, Place, Known
  <2>2. /\ managed'[m].count = 0 /\ \A d \in Child : d # m => managed'[d] = managed[d]
        /\ tries' = [tries EXCEPT ![p] = IF worker[m].life = "reaped" THEN 0 ELSE 1]
    BY <1>5, <2>1 DEF StartedSeen, TypeOK
  <2>3. worker[m].life \in {"alive", "dead", "reaped"}
    BY <1>1, <2>1, PoolAssumption DEF Place, Named, TypeOK, Worker
  <2>4. Remains(m) <=> worker[m].life # "reaped"
    BY <1>2, <2>1, <2>3 DEF Unreaped, Remains
  <2>5. tries'[p] = (IF Remains(m) THEN 1 ELSE 0) /\ \A q \in Project : q # p => tries'[q] = tries[q]
    BY <1>1, <2>2, <2>4 DEF TypeOK
  <2>6. ASSUME NEW q \in Project
        PROVE  /\ tries'[q] <= MaxRestarts + 1
               /\ ~stopping /\ procs[q] # None =>
                    tries'[q] <= managed'[procs[q]].count + (IF Remains(procs[q]) THEN 1 ELSE 0)
    <3>1. CASE q = p
      BY <2>2, <2>5, <3>1, Numbers
    <3>2. CASE q # p /\ procs[q] # None
      <4>1. procs[q] \in Child /\ procs[q] # m
        BY <2>1, <3>2 DEF TypeOK, Place, Known
      <4>2. Remains(procs[q]) <=> Unreaped(procs[q])
        BY <1>2, <4>1 DEF Unreaped, Remains
      <4> QED BY <2>2, <2>5, <3>2, <4>1, <4>2 DEF Counted
    <3>3. CASE q # p /\ procs[q] = None
      BY <2>5, <3>3 DEF Counted
    <3> QED BY <3>1, <3>2, <3>3
  <2> QED BY <1>1, <2>6 DEF Counted, Unreaped, Remains
<1> QED BY <1>4, <1>5

LEMMA CountedStep ==
  ASSUME TypeOK, Place, Counted, ~Fault("readd"), [Next]_vars
  PROVE  Counted'
<1>1. ASSUME NEW c \in Child, Own(c) PROVE Counted'
  <2>1. Calm
    BY <1>1, OwnCalm
  <2>2. UNCHANGED <<procs, managed, tries, stopping>>
    BY <1>1 DEF Own
  <2> QED BY <2>1, <2>2, CountedKept
<1>2. ASSUME NEW p \in Project, Edit(p) PROVE Counted'
  <2>1. UNCHANGED <<worker, procs, managed, tries, stopping>>
    BY <1>2 DEF Edit
  <2> QED BY <2>1 DEF Counted, Unreaped
<1>3. ASSUME NEW p \in Project, Poll(p) PROVE Counted'
  <2>1. runner = "up" /\ known[p] # config[p] /\ UNCHANGED stopping
    BY <1>3 DEF Poll
  <2>2. CASE known[p] = 0 /\ Fork(p)
    <3>1. Forks(p)
      BY <2>2, ForkForks DEF Place
    <3>2. \A c \in Child : worker[c].project # p
      BY <2>1, <2>2 DEF Place, Fresh
    <3>3. procs[p] = None
      BY <3>2 DEF Place, Known, TypeOK
    <3>4. CASE ~stopping
      BY <2>1, <2>2, <3>1, <3>2, <3>4, ForksCounted DEF Fork
    <3>5. CASE stopping
      <4>1. tries' = [tries EXCEPT ![p] = 1]
        BY <2>2, <3>3 DEF Fork
      <4>2. \A q \in Project : tries'[q] <= MaxRestarts + 1
        BY <4>1, Numbers DEF Counted, TypeOK
      <4> QED BY <2>1, <3>5, <4>2 DEF Counted
    <3> QED BY <3>4, <3>5
  <2>3. CASE SendTokenUpdate(p) \/ StopProject(p)
    <3>1. \A c \in Child : managed'[c].count = managed[c].count
      BY <2>3 DEF SendTokenUpdate, StopProject, TypeOK
    <3>2. UNCHANGED <<procs, tries>>
      BY <2>3 DEF SendTokenUpdate, StopProject
    <3>3. \A c \in Child : worker'[c].life = worker[c].life
      <4>1. ASSUME NEW c \in Child, NEW m \in Message
            PROVE  Sent(worker[c], m).life = worker[c].life
        BY SentWorker DEF TypeOK
      <4>2. [type |-> "token_update", token |-> config[p]] \in Message
        BY Messages DEF TypeOK
      <4> QED BY <2>3, <4>1, <4>2, Messages DEF SendTokenUpdate, StopProject, TypeOK
    <3>4. \A q \in Project : procs[q] # None => procs[q] \in Child
      BY DEF TypeOK
    <3> QED BY <2>1, <3>1, <3>2, <3>3, <3>4 DEF Counted, Unreaped
  <2> QED BY <1>3, <2>2, <2>3 DEF Poll
<1>4. ASSUME NEW t \in timers, TimerFires(t) PROVE Counted'
  <2>1. CASE stopping
    <3>1. Calm /\ UNCHANGED <<procs, managed, tries, stopping>>
      BY <1>4, <2>1 DEF TimerFires, Calm
    <3> QED BY <3>1, CountedKept
  <2>2. CASE ~stopping
    <3>1. PICK p \in Project : p = OfTimer(t)
      BY DEF Place, Delayed
    <3>2. Forks(p)
      BY <1>4, <2>2, <3>1, TimerForks DEF Place, Forks
    <3>3. UNCHANGED stopping /\ tries' = [tries EXCEPT ![p] = IF procs[p] = None THEN 1 ELSE @ + 1]
      BY <1>4, <2>2, <3>1 DEF TimerFires, OfTimer
    <3>4. \A c \in Child : Unreaped(c) => worker[c].project # p
      BY <3>1 DEF Place, Delayed
    <3> QED BY <2>2, <3>2, <3>3, <3>4, ForksCounted
  <2> QED BY <2>1, <2>2
<1>5. ASSUME NEW c \in Child, StopTimeout(c) PROVE Counted'
  <2>1. worker[c] \in Worker
    BY DEF TypeOK
  <2>2. Calm
    BY <1>5, <2>1, DeadWorker DEF StopTimeout, Calm, Alive, TypeOK
  <2> QED BY <1>5, <2>2, CountedKept DEF StopTimeout, TypeOK
<1>6. CASE StopAll
  BY <1>6 DEF StopAll, Counted
<1>7. CASE RunnerEnds \/ RunnerCrashes
  <2>1. Calm
    BY <1>7 DEF RunnerEnds, RunnerCrashes, Calm
  <2> QED BY <1>7, <2>1, CountedKept DEF RunnerEnds, RunnerCrashes
<1>8. CASE UNCHANGED vars
  <2>1. UNCHANGED <<worker, procs, managed, tries, stopping>>
    BY <1>8 DEF vars
  <2> QED BY <2>1 DEF Counted, Unreaped
<1>9. CASE WorkerStep
  BY <1>1, <1>9, WorkerSteps DEF WorkerStep
<1>10. CASE ConfigStep
  BY <1>2, <1>3, <1>10 DEF ConfigStep
<1>11. CASE RunnerStep
  BY <1>4, <1>5, <1>6, <1>7, <1>11, ExitCounted, StartedCounted DEF RunnerStep
<1> QED BY <1>8, <1>9, <1>10, <1>11 DEF Next

-----------------------------------------------------------------------------
(* The theorems.                                                           *)

IInv == TypeOK /\ Place /\ Counted

LEMMA Invariant == ASSUME ~Fault("readd") PROVE Spec => []IInv
<1>1. Init => IInv
  BY PlaceInitially DEF IInv
<1>2. IInv /\ [Next]_vars => IInv'
  BY TypeStep, PlaceStep, CountedStep DEF IInv, Place
<1> QED BY <1>1, <1>2, PTL DEF Spec

\* The variables of the pool have their types; no count of restarts passes the
\* limit.
THEOREM TypeCorrect == ASSUME ~Fault("readd") PROVE Spec => []TypeOK
<1>1. IInv => TypeOK
  BY DEF IInv
<1> QED BY Invariant, <1>1, PTL

\* A project never has two workers, and the runner manages the one it has.
THEOREM ManagedAlways == ASSUME ~Fault("readd") PROVE Spec => []Managed
<1>1. IInv => Managed
  <2> SUFFICES ASSUME IInv PROVE Managed
    OBVIOUS
  <2>1. ASSUME NEW c \in Child, NEW p \in Project, Serves(c, p)
        PROVE  Alive(c) /\ Unreaped(c) /\ worker[c].project = p
    BY <2>1 DEF Serves, Alive, Unreaped
  <2>2. OneWorker
    BY <2>1 DEF OneWorker, IInv, Place, Alone
  <2>3. Tracked
    BY <2>1 DEF Tracked, IInv, Place, Known
  <2> QED BY <2>2, <2>3 DEF Managed
<1> QED BY Invariant, <1>1, PTL

\* When the runner exits in order, no worker is left behind.
THEOREM NobodyLeft == ASSUME ~Fault("readd") PROVE Spec => []EndsAlone
<1>1. IInv => EndsAlone
  BY DEF IInv, Place, Awaited, EndsAlone
<1> QED BY Invariant, <1>1, PTL

\* A worker that never starts is forked at most MaxRestarts + 1 times.
THEOREM CrashLoopEnds == ASSUME ~Fault("readd") PROVE Spec => []CrashLoopBounded
<1>1. IInv => CrashLoopBounded
  BY DEF IInv, Counted, CrashLoopBounded
<1> QED BY Invariant, <1>1, PTL

\* What the pool owes to its processes, for any number of projects and workers.
THEOREM PoolSafe == ASSUME ~Fault("readd") PROVE Spec => []PoolSound
<1>1. TypeOK /\ Managed /\ EndsAlone /\ CrashLoopBounded => PoolSound
  BY DEF PoolSound
<1> QED BY <1>1, TypeCorrect, ManagedAlways, NobodyLeft, CrashLoopEnds, PTL
=============================================================================

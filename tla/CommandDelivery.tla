-------------------------- MODULE CommandDelivery --------------------------
(***************************************************************************)
(* How a command reaches an agent process, runs there, and how its result  *)
(* reaches the API server: processCommand and checkPendingCommands of      *)
(* agent-transport.ts, the pending results on disk and their resend passes *)
(* (pending-result-store.ts), the assignment generations kept by           *)
(* api-client.ts, and the parts of the agent's life that decide when those *)
(* run (registration, stop, drain, exit, crash).                           *)
(*                                                                         *)
(* The API server is external: its claim, fencing and duplicate rules are  *)
(* the ones the comments and calls of that code rely on.                   *)
(***************************************************************************)
EXTENDS Naturals, FiniteSets

CONSTANTS
  Proc,       \* agent processes (one ProjectAgent each)
  Host,       \* config directories; the processes of one host share one
  HostOf,     \* HostOf[p]: where p keeps its pending results
  Command,
  Serves,     \* Serves[p]: the commands of p's tenant, project and agent id
  Slot,       \* bound: concurrent processCommand calls of one process
  MaxGen,     \* bound: assignments of one command
  MaxInst,    \* bound: instance ids one process goes through
  MaxFaults,  \* bound: faults of any kind
  Faults,     \* the kinds of fault the environment may show
  NoInst      \* no replica

Inst == Proc \X (1 .. MaxInst)

\* What the environment may do to the system. lost: the server handled a
\* request but its reply is lost and the client tries again; error: every
\* attempt of a request failed; limit: the last failed with 408 or 429;
\* unsaved, unreadable: a pending-result file cannot be written or read.
FaultKind == {"revoke", "timeout", "lost", "error", "limit", "unsaved",
              "unreadable", "stop", "drain", "crash"}

ASSUME ConstantAssumption ==
  /\ HostOf \in [Proc -> Host]
  /\ Serves \in [Proc -> SUBSET Command]
  /\ Slot \subseteq Nat
  /\ MaxGen \in Nat /\ MaxInst \in Nat \ {0} /\ MaxFaults \in Nat
  /\ Faults \subseteq FaultKind
  /\ NoInst \notin Inst

VARIABLES
  srvOwner,   \* server: the instance a command is assigned to
  srvGen,     \* server: its assignment generation
  srvResult,  \* server: the accepted result, {} or a singleton
  status,     \* per process: where its register loop is, see Status
  draining,   \* processes whose transportState.draining is set
  recovered,  \* processes whose hasRecoveredPendingResults is set
  timer,      \* processes whose pendingResultFlushTimer is armed
  inst,       \* per process: which of its instance ids is current
  todo,       \* per process: rest of the list checkPendingCommands fetched
  tasks,      \* per process: the running processCommand calls
  inFlight,   \* per process: transportState.inFlightCommands
  genOf,      \* per process: ApiClient.assignmentGenerations, 0 if absent
  disk,       \* per host: the files of the pending-results directory
  flush,      \* per process and pass: a running submitPendingResults
  faults,     \* faults so far
  finished,   \* history: executions that ran to their end
  reran       \* history: commands started with a result still on that disk

server  == <<srvOwner, srvGen, srvResult>>
life    == <<status, draining, recovered, timer, inst>>
work    == <<tasks, inFlight, genOf>>
history == <<finished, reran>>
vars == <<server, life, todo, work, disk, flush, faults, history>>

-----------------------------------------------------------------------------
Me(p) == <<p, inst[p]>>

\* standby: no transport, waiting to be (re-)admitted. recovering: admitted,
\* inside registerAndStart before startServices; unwinding: the same, but the
\* loop was cancelled by stop(). serving: the transport is up.
Status == {"down", "standby", "recovering", "unwinding", "serving"}

Verdict == {"none", "ok", "fenced", "refused", "limited", "error"}

\* One processCommand call past its entry checks. "gen" is the generation its
\* own getCommand was granted, "kind" what its result reports (a failed fetch
\* until it has executed), "verdict" how its submitResult settled.
Task == [id: Slot, cmd: Command, pc: {"get", "run", "post", "posted"},
         gen: 0 .. MaxGen, kind: {"executed", "fetchError"},
         verdict: Verdict]

\* A PendingResult. "run" is the generation the result was computed under,
\* "gen" the assignmentGeneration that was saved with it (0: none).
File == [cmd: Command, kind: {"executed", "fetchError"}, inst: Inst,
         run: 0 .. MaxGen, gen: 0 .. MaxGen, age: {"fresh", "aged", "stale"}]

Result == [kind: {"executed", "fetchError", "timeout"},
           inst: Inst \union {NoInst}, gen: 0 .. MaxGen]

\* submitPendingResults runs inside registerAndStart and from the timer.
Pass == {"register", "timer"}
FlushState == [queue: SUBSET File, sent: SUBSET File, verdict: Verdict]
NoFlush == [queue |-> {}, sent |-> {}, verdict |-> "none"]
Idle(p, k) == flush[p][k] = NoFlush

Fault(kind) == kind \in Faults /\ faults < MaxFaults /\ faults' = faults + 1

\* Mutant of Snapshot: the restored generation is off by one.
SnapshotNextGeneration(f) == [f EXCEPT !.age = "aged", !.gen = @ + 1]

\* The part of a file a resend pass works from, read once.
Snapshot(f) == [f EXCEPT !.age = "aged"]

FilesOf(h, c) == {f \in disk[h] : f.cmd = c}
Without(h, c) == disk[h] \ FilesOf(h, c)

Update(p, t, u) == tasks' = [tasks EXCEPT ![p] = (@ \ {t}) \union {u}]

\* Mutant of Finish: clearAssignment is forgotten.
FinishKeepsGeneration(p, t) ==
  /\ tasks' = [tasks EXCEPT ![p] = @ \ {t}]
  /\ inFlight' = [inFlight EXCEPT ![p] = @ \ {t.cmd}]
  /\ UNCHANGED genOf

\* The finally block of processCommand.
Finish(p, t) ==
  /\ tasks' = [tasks EXCEPT ![p] = @ \ {t}]
  /\ inFlight' = [inFlight EXCEPT ![p] = @ \ {t.cmd}]
  /\ genOf' = [genOf EXCEPT ![p][t.cmd] = 0]

\* Mutant of Saved: the generation is not persisted.
SavedWithoutGeneration(p, c, kind, run, gen) ==
  [disk EXCEPT ![HostOf[p]] = Without(HostOf[p], c) \union
     {[cmd |-> c, kind |-> kind, inst |-> Me(p), run |-> run, gen |-> 0,
       age |-> "fresh"]}]

\* savePendingResult: one file per command, the previous one is replaced.
Saved(p, c, kind, run, gen) ==
  [disk EXCEPT ![HostOf[p]] = Without(HostOf[p], c) \union
     {[cmd |-> c, kind |-> kind, inst |-> Me(p), run |-> run, gen |-> gen,
       age |-> "fresh"]}]

\* removePendingResult: by command id, whatever the file holds by then.
Removed(h, c) == [disk EXCEPT ![h] = Without(h, c)]

-----------------------------------------------------------------------------
(* The API server.                                                         *)

\* A write is fenced unless it carries the assignment in force. A request
\* without a generation is let through only for an unassigned command.
Fenced(c, i, g) ==
  IF g = 0 THEN srvOwner[c] # NoInst ELSE srvOwner[c] # i \/ srvGen[c] # g

\* Answers to a result POST. The server refuses (400) an instance id that
\* comes without a generation; a 408 or 429 may outlast the client's retries.
Answers(c, i, g, named) ==
  {IF Fenced(c, i, g) THEN "fenced" ELSE "ok"}
    \union (IF named /\ g = 0 THEN {"refused"} ELSE {})

\* Duplicate results are ignored.
Record(c, r) == [srvResult EXCEPT ![c] = IF @ = {} THEN {r} ELSE @]

ResultOf(kind, i, g) == [kind |-> kind, inst |-> i, gen |-> g]

\* The lease of the owner ran out, or its slot was given away. The last
\* generation within the bound is not withdrawn, so every fetch is answered.
Revoke(c) ==
  /\ srvResult[c] = {}
  /\ srvOwner[c] # NoInst
  /\ srvGen[c] < MaxGen
  /\ Fault("revoke")
  /\ srvOwner' = [srvOwner EXCEPT ![c] = NoInst]
  /\ UNCHANGED <<srvGen, srvResult, life, todo, work, disk, flush, history>>

\* The server stops waiting for a result (MAX_COMMAND_EXECUTION_MS).
TimeOut(c) ==
  /\ srvResult[c] = {}
  /\ Fault("timeout")
  /\ srvResult' = Record(c, ResultOf("timeout", NoInst, 0))
  /\ UNCHANGED <<srvOwner, srvGen, life, todo, work, disk, flush, history>>

-----------------------------------------------------------------------------
(* processCommand.                                                         *)

\* A result of c is on p's disk, or a resend pass on that disk still holds it.
Leftover(p, c) ==
  \/ FilesOf(HostOf[p], c) # {}
  \/ \E q \in Proc, k \in Pass :
       /\ HostOf[q] = HostOf[p]
       /\ \E f \in flush[q][k].queue \union flush[q][k].sent : f.cmd = c

\* Mutants of Accepts: one of the two entry checks is missing.
AcceptsRunning(p, c) == p \notin draining
AcceptsDraining(p, c) == c \notin inFlight[p]

\* The entry checks: decline while draining, skip what already runs here.
Accepts(p, c) == p \notin draining /\ c \notin inFlight[p]

\* Past them the command is marked as in flight, before the first await.
Start(p, c) ==
  /\ Accepts(p, c)
  /\ \E i \in Slot :
       /\ \A t \in tasks[p] : t.id # i
       /\ \A j \in Slot : j < i => \E t \in tasks[p] : t.id = j
       /\ tasks' = [tasks EXCEPT ![p] = @ \union
            {[id |-> i, cmd |-> c, pc |-> "get", gen |-> 0, kind |-> "fetchError",
              verdict |-> "none"]}]
  /\ inFlight' = [inFlight EXCEPT ![p] = @ \union {c}]
  /\ reran' = IF Leftover(p, c) THEN reran \union {c} ELSE reran
  /\ UNCHANGED <<genOf, finished>>

\* handleNotification, AGENT_COMMAND: the broadcast reaches every subscriber,
\* at any time and more than once.
Notify(p, c) ==
  /\ status[p] = "serving"
  /\ c \in Serves[p]
  /\ Start(p, c)
  /\ UNCHANGED <<server, life, todo, disk, flush, faults>>

\* checkPendingCommands, after startup and after every reconnection: the
\* server lists a command until its result arrives. Sweeps of successive
\* reconnections overlap, so any listed command may come next.
CheckPending(p) ==
  LET listed == {c \in Serves[p] : srvResult[c] = {}} IN
  /\ status[p] = "serving"
  /\ p \notin draining
  /\ ~(listed \subseteq todo[p])
  /\ todo' = [todo EXCEPT ![p] = @ \union listed]
  /\ UNCHANGED <<server, life, work, disk, flush, faults, history>>

\* One iteration of its loop, which nothing but a crash stops: the command is
\* started, or declined by the entry checks.
Deliver(p, c) ==
  /\ c \in todo[p]
  /\ todo' = [todo EXCEPT ![p] = @ \ {c}]
  /\ \/ Start(p, c)
     \/ ~Accepts(p, c) /\ UNCHANGED <<work, history>>
  /\ UNCHANGED <<server, life, disk, flush, faults>>

\* getCommand answered: the server assigned the command to us now, or had
\* done so before, and told the generation.
GetGranted(p, t) ==
  /\ t.pc = "get"
  /\ srvResult[t.cmd] = {}
  /\ \/ /\ srvOwner[t.cmd] = NoInst
        /\ srvGen[t.cmd] < MaxGen
        /\ srvOwner' = [srvOwner EXCEPT ![t.cmd] = Me(p)]
        /\ srvGen' = [srvGen EXCEPT ![t.cmd] = @ + 1]
     \/ /\ srvOwner[t.cmd] = Me(p)
        /\ UNCHANGED <<srvOwner, srvGen>>
  /\ genOf' = [genOf EXCEPT ![p][t.cmd] = srvGen'[t.cmd]]
  /\ Update(p, t, [t EXCEPT !.pc = "run", !.gen = srvGen'[t.cmd]])
  /\ UNCHANGED <<srvResult, life, todo, inFlight, disk, flush, faults, history>>

\* 409: another replica holds the command, or it is settled. Skip silently.
GetConflict(p, t) ==
  /\ t.pc = "get"
  /\ srvOwner[t.cmd] \notin {NoInst, Me(p)} \/ srvResult[t.cmd] # {}
  /\ Finish(p, t)
  /\ UNCHANGED <<server, life, todo, disk, flush, faults, history>>

\* The GET failed for good (network, 5xx), perhaps after the server had
\* already assigned the command: the outer catch saves a failure result,
\* without a generation since none was learnt, and goes on to submit it.
GetFails(p, t) ==
  /\ t.pc = "get"
  /\ Fault("error")
  /\ \/ /\ srvResult[t.cmd] = {} /\ srvOwner[t.cmd] = NoInst
        /\ srvGen[t.cmd] < MaxGen
        /\ srvOwner' = [srvOwner EXCEPT ![t.cmd] = Me(p)]
        /\ srvGen' = [srvGen EXCEPT ![t.cmd] = @ + 1]
     \/ UNCHANGED <<srvOwner, srvGen>>
  /\ disk' \in {Saved(p, t.cmd, "fetchError", t.gen, genOf[p][t.cmd])}
                \union (IF "unsaved" \in Faults THEN {disk} ELSE {})
  /\ Update(p, t, [t EXCEPT !.pc = "post"])
  /\ UNCHANGED <<srvResult, life, todo, inFlight, genOf, flush, history>>

\* executeCommand returned or threw: the result is persisted with the
\* generation the client holds now, then submitted. The write may fail.
ExecDone(p, t) ==
  /\ t.pc = "run"
  /\ \E saved \in BOOLEAN :
       /\ IF saved
          THEN /\ disk' = Saved(p, t.cmd, "executed", t.gen, genOf[p][t.cmd])
               /\ UNCHANGED faults
          ELSE Fault("unsaved") /\ UNCHANGED disk
       /\ finished' = finished \union
            {[cmd |-> t.cmd, inst |-> Me(p), gen |-> t.gen, saved |-> saved]}
  /\ Update(p, t, [t EXCEPT !.pc = "post", !.kind = "executed"])
  /\ UNCHANGED <<server, life, todo, inFlight, genOf, flush, reran>>

\* The server handles a POST of p for t's command; the client sends its
\* instance id always and the generation it holds at this moment.
Handled(p, t, a) ==
  /\ a \in Answers(t.cmd, Me(p), genOf[p][t.cmd], TRUE)
  /\ srvResult' = IF a = "ok"
                  THEN Record(t.cmd, ResultOf(t.kind, Me(p), t.gen))
                  ELSE srvResult
  /\ UNCHANGED <<srvOwner, srvGen>>

PostArrives(p, t) ==
  /\ t.pc = "post"
  /\ \E a \in Verdict :
       /\ Handled(p, t, a)
       /\ Update(p, t, [t EXCEPT !.pc = "posted", !.verdict = a])
  /\ UNCHANGED <<life, todo, inFlight, genOf, disk, flush, faults, history>>

\* The reply was lost and RetryStrategy sends the request again.
PostRetried(p, t) ==
  /\ t.pc = "post"
  /\ Fault("lost")
  /\ \E a \in Verdict : Handled(p, t, a)
  /\ UNCHANGED <<life, todo, work, disk, flush, history>>

\* All attempts failed: no answer, a 5xx, 401/403, or 408/429 to the end.
PostGivesUp(p, t) ==
  /\ t.pc = "post"
  /\ Fault("error")
  /\ Update(p, t, [t EXCEPT !.pc = "posted", !.verdict = "error"])
  /\ UNCHANGED <<server, life, todo, inFlight, genOf, disk, flush, history>>

\* Mutant of MainPathDrops: the file goes whatever the answer was.
MainPathDropsAll == Verdict

\* Accepted, or re-claimed by another replica (409): the file goes. On any
\* other error it stays queued for resend.
MainPathDrops == {"ok", "fenced"}

PostReturns(p, t) ==
  /\ t.pc = "posted"
  /\ disk' = IF t.verdict \in MainPathDrops
             THEN Removed(HostOf[p], t.cmd) ELSE disk
  /\ Finish(p, t)
  /\ UNCHANGED <<server, life, todo, flush, faults, history>>

-----------------------------------------------------------------------------
(* submitPendingResults: one pass over the files found when it starts.     *)

\* Mutant of Eligible: the minimum age is not applied.
EligibleAtAnyAge(p, k) == {f \in disk[HostOf[p]] : f.age # "stale"}

\* What a pass may take: everything on the first registration, otherwise only
\* files older than PENDING_RESULT_MIN_RETRY_AGE_MS.
Eligible(p, k) ==
  {f \in disk[HostOf[p]] : \/ f.age = "aged"
                           \/ f.age = "fresh" /\ k = "register" /\ p \notin recovered}

\* loadPendingResults deletes the stale files, and every file it fails to read.
FlushLoad(p, k) ==
  /\ Idle(p, k)
  /\ \E bad \in SUBSET disk[HostOf[p]] :
       LET gone == bad \union {f \in disk[HostOf[p]] : f.age = "stale"} IN
       /\ IF bad = {} THEN UNCHANGED faults
                      ELSE Fault("unreadable")
       /\ flush' = [flush EXCEPT ![p][k].queue =
                      {Snapshot(f) : f \in Eligible(p, k) \ gone}]
       /\ disk' = [disk EXCEPT ![HostOf[p]] = @ \ gone]

\* The interval fires; flushInFlight keeps one timer pass at a time.
TimerFlush(p) ==
  /\ p \in timer
  /\ FlushLoad(p, "timer")
  /\ <<flush, disk>>' # <<flush, disk>>
  /\ UNCHANGED <<server, life, todo, work, history>>

FlushNext(p, k) ==
  /\ flush[p][k].sent = {}
  /\ \E f \in flush[p][k].queue :
       flush' = [flush EXCEPT ![p][k].queue = @ \ {f}, ![p][k].sent = {f}]
  /\ UNCHANGED <<server, life, todo, work, disk, faults, history>>

\* A resend speaks for the execution that produced the result: it carries the
\* saved instance id and generation, or neither when there is no generation.
FlushHandled(f, a) ==
  /\ a \in Answers(f.cmd, f.inst, f.gen, FALSE)
  /\ srvResult' = IF a = "ok" THEN Record(f.cmd, ResultOf(f.kind, f.inst, f.run))
                              ELSE srvResult
  /\ UNCHANGED <<srvOwner, srvGen>>

FlushArrives(p, k) ==
  /\ flush[p][k].verdict = "none"
  /\ \E f \in flush[p][k].sent, a \in Verdict :
       /\ FlushHandled(f, a)
       /\ flush' = [flush EXCEPT ![p][k].verdict = a]
  /\ UNCHANGED <<life, todo, work, disk, faults, history>>

FlushRetried(p, k) ==
  /\ flush[p][k].verdict = "none"
  /\ Fault("lost")
  /\ \E f \in flush[p][k].sent, a \in Verdict : FlushHandled(f, a)
  /\ UNCHANGED <<life, todo, work, disk, flush, history>>

\* The attempts are used up: on a 408 or 429 ("limited"), or on an error that
\* isNonAuthClientError does not count as a rejection.
FlushGivesUp(p, k) ==
  /\ flush[p][k].sent # {}
  /\ flush[p][k].verdict = "none"
  /\ \/ Fault("error") /\ flush' = [flush EXCEPT ![p][k].verdict = "error"]
     \/ Fault("limit") /\ flush' = [flush EXCEPT ![p][k].verdict = "limited"]
  /\ UNCHANGED <<server, life, todo, work, disk, history>>

\* Delivered, or any 4xx but 401 and 403: the command's file goes.
FlushDrops == {"ok", "fenced", "refused", "limited"}

FlushReturns(p, k) ==
  /\ flush[p][k].verdict # "none"
  /\ \E f \in flush[p][k].sent :
       disk' = IF flush[p][k].verdict \in FlushDrops
               THEN Removed(HostOf[p], f.cmd) ELSE disk
  /\ flush' = [flush EXCEPT ![p][k].sent = {}, ![p][k].verdict = "none"]
  /\ UNCHANGED <<server, life, todo, work, faults, history>>

\* Time passes for a file. 90 s outlast a submit and its retries (35 s), and
\* 3 h outlast the time the server waits for a result.
Age(h, f) ==
  /\ f \in disk[h]
  /\ \E older \in {"aged", "stale"} :
       /\ older = "aged" => /\ f.age = "fresh"
                            /\ \A p \in Proc : HostOf[p] = h =>
                                 ~\E t \in tasks[p] : /\ t.cmd = f.cmd
                                                      /\ t.pc \in {"post", "posted"}
       /\ older = "stale" => f.age = "aged" /\ srvResult[f.cmd] # {}
       /\ disk' = [disk EXCEPT ![h] = (@ \ {f}) \union {[f EXCEPT !.age = older]}]
  /\ UNCHANGED <<server, life, todo, work, flush, faults, history>>

-----------------------------------------------------------------------------
(* The life of an agent process, as far as it decides what runs when.      *)

\* registerAndStart: admitted, and the recovery pass starts.
Register(p) ==
  /\ status[p] = "standby"
  /\ p \notin draining
  /\ FlushLoad(p, "register")
  /\ status' = [status EXCEPT ![p] = "recovering"]
  /\ UNCHANGED <<server, draining, recovered, timer, inst, todo, work, history>>

\* The pass is over: the timer is armed, whatever happened meanwhile, and the
\* services start unless the register loop was cancelled.
RecoveryDone(p) ==
  /\ status[p] \in {"recovering", "unwinding"}
  /\ Idle(p, "register")
  /\ recovered' = recovered \union {p}
  /\ timer' = timer \union {p}
  /\ status' = [status EXCEPT ![p] =
       IF @ = "recovering" /\ p \notin draining THEN "serving" ELSE "standby"]
  /\ UNCHANGED <<server, draining, inst, todo, work, disk, flush, faults, history>>

\* stop() by an eviction or a token update. Running commands, sweeps and
\* resend passes go on; only what would start new ones is taken down.
Stop(p) ==
  /\ status[p] \in {"serving", "recovering"}
  /\ p \notin draining
  /\ Fault("stop")
  /\ status' = [status EXCEPT ![p] =
                  IF @ = "serving" THEN "standby" ELSE "unwinding"]
  /\ timer' = timer \ {p}
  /\ UNCHANGED <<server, draining, recovered, inst, todo, work, disk, flush, history>>

\* shutdown(): the transport and the flush timer stay up until the drain ends.
Drain(p) ==
  /\ status[p] # "down"
  /\ p \notin draining
  /\ Fault("drain")
  /\ draining' = draining \union {p}
  /\ UNCHANGED <<server, status, recovered, timer, inst, todo, work, disk, flush, history>>

\* What a process loses when it ends: everything but its files.
Dies(p) ==
  /\ status' = [status EXCEPT ![p] = "down"]
  /\ draining' = draining \ {p}
  /\ recovered' = recovered \ {p}
  /\ timer' = timer \ {p}
  /\ todo' = [todo EXCEPT ![p] = {}]
  /\ tasks' = [tasks EXCEPT ![p] = {}]
  /\ inFlight' = [inFlight EXCEPT ![p] = {}]
  /\ genOf' = [genOf EXCEPT ![p] = [c \in Command |-> 0]]
  /\ flush' = [flush EXCEPT ![p] = [k \in Pass |-> NoFlush]]
  /\ UNCHANGED <<server, inst, disk, history>>

\* The drain found nothing left in flight.
Exit(p) ==
  /\ p \in draining
  /\ inFlight[p] = {}
  /\ Dies(p)
  /\ UNCHANGED faults

\* A crash, or the drain timeout, or a forced exit.
Crash(p) ==
  /\ status[p] # "down"
  /\ Fault("crash")
  /\ Dies(p)

\* The supervisor starts the process again, under the same instance id or
\* (the pod was replaced) under a new one.
Restart(p) ==
  /\ status[p] = "down"
  /\ \E n \in {inst[p], inst[p] + 1} :
       n <= MaxInst /\ inst' = [inst EXCEPT ![p] = n]
  /\ status' = [status EXCEPT ![p] = "standby"]
  /\ UNCHANGED <<server, draining, recovered, timer, todo, work, disk, flush, faults,
                 history>>

-----------------------------------------------------------------------------
Init ==
  /\ srvOwner = [c \in Command |-> NoInst]
  /\ srvGen = [c \in Command |-> 0]
  /\ srvResult = [c \in Command |-> {}]
  /\ status = [p \in Proc |-> "standby"]
  /\ draining = {} /\ recovered = {} /\ timer = {}
  /\ inst = [p \in Proc |-> 1]
  /\ todo = [p \in Proc |-> {}]
  /\ tasks = [p \in Proc |-> {}]
  /\ inFlight = [p \in Proc |-> {}]
  /\ genOf = [p \in Proc |-> [c \in Command |-> 0]]
  /\ disk = [h \in Host |-> {}]
  /\ flush = [p \in Proc |-> [k \in Pass |-> NoFlush]]
  /\ faults = 0
  /\ finished = {} /\ reran = {}

RunTask(p, i) ==
  \E t \in tasks[p] :
    /\ t.id = i
    /\ \/ GetGranted(p, t) \/ GetConflict(p, t) \/ GetFails(p, t)
       \/ ExecDone(p, t)
       \/ PostArrives(p, t) \/ PostRetried(p, t) \/ PostGivesUp(p, t)
       \/ PostReturns(p, t)

RunPass(p, k) ==
  \/ FlushNext(p, k) \/ FlushArrives(p, k) \/ FlushRetried(p, k)
  \/ FlushGivesUp(p, k) \/ FlushReturns(p, k)

Next ==
  \/ \E p \in Proc :
       \/ CheckPending(p)
       \/ \E c \in Command : Notify(p, c) \/ Deliver(p, c)
       \/ \E i \in Slot : RunTask(p, i)
       \/ TimerFlush(p)
       \/ \E k \in Pass : RunPass(p, k)
       \/ Register(p) \/ RecoveryDone(p) \/ Stop(p) \/ Drain(p)
       \/ Exit(p) \/ Crash(p) \/ Restart(p)
  \/ \E c \in Command : Revoke(c) \/ TimeOut(c)
  \/ \E h \in Host : \E f \in disk[h] : Age(h, f)

Spec == Init /\ [][Next]_vars

\* A request settles within its timeouts and retries, an execution ends, the
\* interval timers fire, files age, an admitted process finishes registering
\* and a process that ended is started again. Nothing makes a fault happen or
\* a command arrive, nor the server admit a replica that waits in standby.
Fairness ==
  /\ \A p \in Proc :
       /\ \A i \in Slot : WF_vars(RunTask(p, i))
       /\ WF_vars(TimerFlush(p))
       /\ \A k \in Pass : WF_vars(RunPass(p, k))
       /\ WF_vars(RecoveryDone(p))
       /\ WF_vars(Exit(p)) /\ WF_vars(Restart(p))
  /\ \A h \in Host : WF_vars(\E f \in disk[h] : Age(h, f))

FairSpec == Spec /\ Fairness

-----------------------------------------------------------------------------
(* Properties.                                                             *)

\* The type invariant.
TypeOK ==
  /\ srvOwner \in [Command -> Inst \union {NoInst}]
  /\ srvGen \in [Command -> 0 .. MaxGen]
  /\ srvResult \in [Command -> SUBSET Result]
  /\ status \in [Proc -> Status]
  /\ draining \subseteq Proc /\ recovered \subseteq Proc /\ timer \subseteq Proc
  /\ inst \in [Proc -> 1 .. MaxInst]
  /\ todo \in [Proc -> SUBSET Command]
  /\ tasks \in [Proc -> SUBSET Task]
  /\ inFlight \in [Proc -> SUBSET Command]
  /\ genOf \in [Proc -> [Command -> 0 .. MaxGen]]
  /\ disk \in [Host -> SUBSET File]
  /\ flush \in [Proc -> [Pass -> FlushState]]
  /\ faults \in 0 .. MaxFaults
  /\ finished \subseteq [cmd: Command, inst: Inst, gen: 0 .. MaxGen, saved: BOOLEAN]
  /\ reran \subseteq Command

\* Two processCommand calls of one process never work on the same command at
\* the same time, however notifications, overlapping sweeps, evictions and
\* re-registrations interleave with them (inFlightCommands, agent-transport.ts).
OneRunPerProcess ==
  \A p \in Proc : \A t, u \in tasks[p] : t.cmd = u.cmd => t = u

\* The generation in the client's map belongs to the call that is using it: a
\* running or submitting call that was granted the command speaks with the
\* generation its own execution was granted, never with that of a later
\* assignment (the finally block and assignmentGenerations, api-client.ts).
OwnGeneration ==
  \A p \in Proc : \A t \in tasks[p] : genOf[p][t.cmd] = t.gen

\* A persisted result of the assignment in force stays on the disk of the
\* process that computed it, exactly as computed, until the server has settled
\* the command - through crashes, restarts, failed submits, drains, evictions
\* and resend passes of any process sharing the directory. Commands started
\* again over a leftover result are excepted: see RealResultKept.
Computed(e) == [cmd |-> e.cmd, kind |-> "executed", inst |-> e.inst,
                run |-> e.gen, gen |-> e.gen, age |-> "aged"]

FirstRunKept ==
  \A e \in finished :
    (/\ e.saved
     /\ srvOwner[e.cmd] = e.inst /\ srvGen[e.cmd] = e.gen
     /\ srvResult[e.cmd] = {}
     /\ e.cmd \notin reran)
    => \E f \in disk[HostOf[e.inst[1]]] : Snapshot(f) = Computed(e)

\* No pass resends the result of a call that is still submitting it: what the
\* minimum age and the first-registration rule are for, including passes that
\* survive an eviction and meet a re-registration
\* (PENDING_RESULT_MIN_RETRY_AGE_MS and hasRecoveredPendingResults).
FlushAvoidsMainPath ==
  \A p, q \in Proc, k \in Pass :
    \A f \in flush[q][k].sent, t \in tasks[p] :
      HostOf[p] = HostOf[q] /\ t.cmd = f.cmd /\ t.cmd \notin reran
      => t.pc \notin {"post", "posted"}

\* What the server ends up with: refines the assignment ledger, in which an
\* accepted execution result is one computed under the very assignment in
\* force when it is accepted.
Ledger == INSTANCE CommandLedger WITH
  owner <- srvOwner, gen <- srvGen, settled <- srvResult,
  finished <- {[cmd |-> e.cmd, inst |-> e.inst, gen |-> e.gen] : e \in finished}

ImplementsLedger == Ledger!Spec

\* A persisted result reaches the server although its process may crash,
\* restart, drain or be evicted: while its assignment stands, it is eventually
\* settled, without relying on another attempt at the command - unless the
\* process ends up in standby for good: whether a replica is admitted again is
\* the server's decision, and one that waits does not resend (waitForAdmission).
Held(e) == /\ srvOwner[e.cmd] = e.inst
           /\ srvGen[e.cmd] = e.gen
           /\ e.cmd \notin reran

ResultDelivered ==
  \A p \in Proc, n \in 1 .. MaxInst, c \in Command, g \in 1 .. MaxGen :
    LET e == [cmd |-> c, inst |-> <<p, n>>, gen |-> g, saved |-> TRUE]
    IN (e \in finished /\ Held(e))
         ~> (srvResult[c] # {} \/ ~Held(e) \/ [](status[p] = "standby"))

\* A shutdown comes to an end: a draining process exits, declining whatever
\* still arrives, even when commands keep arriving.
DrainEnds == \A p \in Proc : (p \in draining) ~> (p \notin draining)

\* Calls are kept apart: one at a time on a command, each with the generation of
\* its own assignment.
CallsKeptApart == TypeOK /\ OneRunPerProcess /\ OwnGeneration

\* A result is neither lost nor sent behind the back of the call that has it.
ResultsKept == FirstRunKept /\ FlushAvoidsMainPath

\* The delivery gets somewhere: results reach the server and drains end.
DeliveryProgresses == ResultDelivered /\ DrainEnds
=============================================================================

---------------------- MODULE CommandDelivery_proofs ----------------------
(***************************************************************************)
(* Proofs about CommandDelivery: type correctness; that one process never  *)
(* runs two calls for the same command, nor lets one speak with another's  *)
(* generation; that the delivery implements CommandLedger; and that a      *)
(* saved result stays until the server has it, and is not sent twice at    *)
(* the same time.                                                          *)
(***************************************************************************)
EXTENDS CommandDelivery, TLAPS

\* inFlightCommands names exactly the commands the running calls work on.
InFlightExact == \A p \in Proc : inFlight[p] = {t.cmd : t \in tasks[p]}

\* Only those commands have a generation in the client's map.
NoLeftoverGeneration ==
  \A p \in Proc, c \in Command : c \notin inFlight[p] => genOf[p][c] = 0

-----------------------------------------------------------------------------
(* Type correctness.                                                       *)

LEMMA MeType ==
  ASSUME TypeOK, NEW p \in Proc
  PROVE  Me(p) \in Inst
BY DEF Me, TypeOK, Inst

LEMMA UpdateType ==
  ASSUME TypeOK, NEW p \in Proc, NEW t \in tasks[p], NEW u \in Task, Update(p, t, u)
  PROVE  tasks' \in [Proc -> SUBSET Task]
BY DEF Update, TypeOK

LEMMA FinishType ==
  ASSUME TypeOK, NEW p \in Proc, NEW t \in tasks[p], Finish(p, t)
  PROVE  /\ tasks' \in [Proc -> SUBSET Task]
         /\ inFlight' \in [Proc -> SUBSET Command]
         /\ genOf' \in [Proc -> [Command -> 0 .. MaxGen]]
BY ConstantAssumption DEF Finish, TypeOK, Task

LEMMA SavedType ==
  ASSUME TypeOK, NEW p \in Proc, NEW c \in Command,
         NEW kind \in {"executed", "fetchError"},
         NEW run \in 0 .. MaxGen, NEW gen \in 0 .. MaxGen
  PROVE  Saved(p, c, kind, run, gen) \in [Host -> SUBSET File]
<1>1. Me(p) \in Inst
  BY MeType
<1>2. HostOf[p] \in Host
  BY ConstantAssumption
<1>3. [cmd |-> c, kind |-> kind, inst |-> Me(p), run |-> run, gen |-> gen,
       age |-> "fresh"] \in File
  BY <1>1 DEF File
<1>4. Without(HostOf[p], c) \subseteq File
  BY <1>2 DEF Without, TypeOK
<1> QED
  BY <1>2, <1>3, <1>4 DEF Saved, TypeOK

LEMMA RemovedType ==
  ASSUME TypeOK, NEW p \in Proc, NEW c \in Command
  PROVE  Removed(HostOf[p], c) \in [Host -> SUBSET File]
BY ConstantAssumption DEF Removed, Without, TypeOK

LEMMA SnapshotType ==
  ASSUME NEW f \in File
  PROVE  Snapshot(f) \in File
BY DEF Snapshot, File

LEMMA RecordType ==
  ASSUME TypeOK, NEW c \in Command, NEW i \in Inst \union {NoInst}, NEW g \in 0 .. MaxGen,
         NEW kind \in {"executed", "fetchError", "timeout"}
  PROVE  Record(c, ResultOf(kind, i, g)) \in [Command -> SUBSET Result]
<1>1. ResultOf(kind, i, g) \in Result
  BY DEF ResultOf, Result
<1> QED
  BY <1>1 DEF Record, TypeOK

LEMMA FaultType ==
  ASSUME TypeOK, NEW kind, Fault(kind)
  PROVE  faults' \in 0 .. MaxFaults
BY ConstantAssumption DEF Fault, TypeOK

LEMMA AssignType ==
  ASSUME TypeOK, NEW p \in Proc, NEW c \in Command, srvGen[c] < MaxGen
  PROVE  /\ [srvOwner EXCEPT ![c] = Me(p)] \in [Command -> Inst \union {NoInst}]
         /\ [srvGen EXCEPT ![c] = @ + 1] \in [Command -> 0 .. MaxGen]
<1>1. srvGen[c] + 1 \in 0 .. MaxGen
  BY ConstantAssumption DEF TypeOK
<1> QED
  BY <1>1, MeType DEF TypeOK

LEMMA InitType == Init => TypeOK
BY ConstantAssumption DEF Init, TypeOK, Inst, Status, FlushState, NoFlush, Verdict

LEMMA FlushStateType ==
  ASSUME NEW s \in FlushState, NEW Q \in SUBSET File, NEW S \in SUBSET File,
         NEW v \in Verdict
  PROVE  /\ [s EXCEPT !.queue = Q] \in FlushState
         /\ [s EXCEPT !.queue = Q, !.sent = S] \in FlushState
         /\ [s EXCEPT !.sent = S, !.verdict = v] \in FlushState
         /\ [s EXCEPT !.verdict = v] \in FlushState
BY DEF FlushState

LEMMA FlushUpdateType ==
  ASSUME TypeOK, NEW p \in Proc, NEW k \in Pass, NEW s \in FlushState
  PROVE  [flush EXCEPT ![p][k] = s] \in [Proc -> [Pass -> FlushState]]
<1>1. [flush[p] EXCEPT ![k] = s] \in [Pass -> FlushState]
  BY DEF TypeOK
<1> QED
  BY <1>1 DEF TypeOK

LEMMA FlushLoadType ==
  ASSUME TypeOK, NEW p \in Proc, NEW k \in Pass, FlushLoad(p, k)
  PROVE  /\ flush' \in [Proc -> [Pass -> FlushState]]
         /\ disk' \in [Host -> SUBSET File]
         /\ faults' \in 0 .. MaxFaults
<1>1. HostOf[p] \in Host
  BY ConstantAssumption
<1>2. \A f \in disk[HostOf[p]] : Snapshot(f) \in File
  BY <1>1, SnapshotType DEF TypeOK
<1>3. {Snapshot(f) : f \in Eligible(p, k)} \subseteq File
  BY <1>2 DEF Eligible
<1>4. faults' \in 0 .. MaxFaults
  BY FaultType DEF FlushLoad, TypeOK
<1>5. disk' \in [Host -> SUBSET File]
  BY <1>1 DEF FlushLoad, TypeOK
<1>6. PICK gone : flush' = [flush EXCEPT ![p][k].queue =
                              {Snapshot(f) : f \in Eligible(p, k) \ gone}]
  BY DEF FlushLoad
<1>7. {Snapshot(f) : f \in Eligible(p, k) \ gone} \subseteq File
  BY <1>3
<1> DEFINE F == [flush[p][k] EXCEPT !.queue =
                   {Snapshot(f) : f \in Eligible(p, k) \ gone}]
<1>8. flush[p][k] \in FlushState /\ {} \in SUBSET File /\ "none" \in Verdict
  BY DEF TypeOK, Verdict
<1>9. F \in FlushState
  BY <1>7, <1>8, FlushStateType
<1>10. flush' = [flush EXCEPT ![p][k] = F]
  BY <1>6
<1>11. flush' \in [Proc -> [Pass -> FlushState]]
  BY <1>9, <1>10, FlushUpdateType
<1> QED
  BY <1>4, <1>5, <1>11

LEMMA StartType ==
  ASSUME TypeOK, NEW p \in Proc, NEW c \in Command, Start(p, c)
  PROVE  /\ tasks' \in [Proc -> SUBSET Task]
         /\ inFlight' \in [Proc -> SUBSET Command]
         /\ genOf' = genOf
         /\ finished' = finished
         /\ reran' \subseteq Command
<1>1. PICK i \in Slot : tasks' = [tasks EXCEPT ![p] = @ \union
        {[id |-> i, cmd |-> c, pc |-> "get", gen |-> 0, kind |-> "fetchError",
          verdict |-> "none"]}]
  BY DEF Start
<1>2. [id |-> i, cmd |-> c, pc |-> "get", gen |-> 0, kind |-> "fetchError",
       verdict |-> "none"] \in Task
  BY ConstantAssumption DEF Task, Verdict
<1> QED
  BY <1>1, <1>2 DEF Start, TypeOK

\* A step of one of p's calls keeps the types.
LEMMA RunTaskType ==
  ASSUME TypeOK, NEW p \in Proc, NEW i \in Slot, RunTask(p, i)
  PROVE  TypeOK'
<1> USE DEF server, life, work, history
<1>1. PICK t \in tasks[p] :
        \/ GetGranted(p, t) \/ GetConflict(p, t) \/ GetFails(p, t)
        \/ ExecDone(p, t)
        \/ PostArrives(p, t) \/ PostRetried(p, t) \/ PostGivesUp(p, t)
        \/ PostReturns(p, t)
  BY DEF RunTask
<1>2. /\ t \in Task /\ t.cmd \in Command /\ t.gen \in 0 .. MaxGen
      /\ t.kind \in {"executed", "fetchError"}
      /\ genOf[p][t.cmd] \in 0 .. MaxGen
      /\ Me(p) \in Inst
  BY MeType DEF TypeOK, Task
<1>3. srvGen[t.cmd] < MaxGen =>
        /\ [srvOwner EXCEPT ![t.cmd] = Me(p)] \in [Command -> Inst \union {NoInst}]
        /\ [srvGen EXCEPT ![t.cmd] = @ + 1] \in [Command -> 0 .. MaxGen]
  BY <1>2, AssignType
<1>4. CASE GetGranted(p, t)
  <2>1. /\ srvOwner' \in [Command -> Inst \union {NoInst}]
        /\ srvGen' \in [Command -> 0 .. MaxGen]
    BY <1>3, <1>4 DEF GetGranted, TypeOK
  <2>2. [t EXCEPT !.pc = "run", !.gen = srvGen'[t.cmd]] \in Task
    <3>1. srvGen'[t.cmd] \in 0 .. MaxGen
      BY <1>2, <2>1
    <3> QED
      BY <1>2, <3>1 DEF Task
  <2>3. tasks' \in [Proc -> SUBSET Task]
    BY <1>4, <2>2, UpdateType DEF GetGranted
  <2>4. genOf' \in [Proc -> [Command -> 0 .. MaxGen]]
    BY <1>2, <1>4, <2>1 DEF GetGranted, TypeOK
  <2> QED
    BY <1>4, <2>1, <2>3, <2>4 DEF GetGranted, TypeOK
<1>5. CASE GetConflict(p, t)
  BY <1>5, FinishType DEF GetConflict, TypeOK
<1>6. CASE GetFails(p, t)
  <2>1. /\ srvOwner' \in [Command -> Inst \union {NoInst}]
        /\ srvGen' \in [Command -> 0 .. MaxGen]
    BY <1>3, <1>6 DEF GetFails, TypeOK
  <2>2. disk' \in [Host -> SUBSET File]
    <3>1. Saved(p, t.cmd, "fetchError", t.gen, genOf[p][t.cmd]) \in [Host -> SUBSET File]
      BY <1>2, SavedType
    <3> QED
      BY <1>6, <3>1 DEF GetFails, TypeOK
  <2>3. tasks' \in [Proc -> SUBSET Task]
    <3>1. [t EXCEPT !.pc = "post"] \in Task
      BY <1>2 DEF Task
    <3> QED
      BY <1>6, <3>1, UpdateType DEF GetFails
  <2>4. faults' \in 0 .. MaxFaults
    BY <1>6, FaultType DEF GetFails
  <2> QED
    BY <1>6, <2>1, <2>2, <2>3, <2>4 DEF GetFails, TypeOK
<1>7. CASE ExecDone(p, t)
  <2>1. PICK saved \in BOOLEAN :
          /\ IF saved
             THEN /\ disk' = Saved(p, t.cmd, "executed", t.gen, genOf[p][t.cmd])
                  /\ UNCHANGED faults
             ELSE Fault("unsaved") /\ UNCHANGED disk
          /\ finished' = finished \union
               {[cmd |-> t.cmd, inst |-> Me(p), gen |-> t.gen, saved |-> saved]}
    BY <1>7 DEF ExecDone
  <2>2. disk' \in [Host -> SUBSET File]
    <3>1. Saved(p, t.cmd, "executed", t.gen, genOf[p][t.cmd]) \in [Host -> SUBSET File]
      BY <1>2, SavedType
    <3> QED
      BY <2>1, <3>1 DEF TypeOK
  <2>3. faults' \in 0 .. MaxFaults
    BY <2>1, FaultType DEF TypeOK
  <2>4. tasks' \in [Proc -> SUBSET Task]
    <3>1. [t EXCEPT !.pc = "post", !.kind = "executed"] \in Task
      BY <1>2 DEF Task
    <3> QED
      BY <1>7, <3>1, UpdateType DEF ExecDone
  <2> QED
    BY <1>2, <1>7, <2>1, <2>2, <2>3, <2>4 DEF ExecDone, TypeOK
<1>8. ASSUME NEW a \in Verdict, Handled(p, t, a), t.pc = "post"
      PROVE  srvResult' \in [Command -> SUBSET Result]
  BY <1>2, <1>8, RecordType DEF Handled, TypeOK
<1>9. CASE PostArrives(p, t)
  <2>1. srvResult' \in [Command -> SUBSET Result]
    BY <1>8, <1>9 DEF PostArrives
  <2>2. tasks' \in [Proc -> SUBSET Task]
    <3>1. PICK a \in Verdict : Update(p, t, [t EXCEPT !.pc = "posted", !.verdict = a])
      BY <1>9 DEF PostArrives
    <3>2. [t EXCEPT !.pc = "posted", !.verdict = a] \in Task
      BY <1>2 DEF Task
    <3> QED
      BY <3>1, <3>2, UpdateType
  <2> QED
    BY <1>9, <2>1, <2>2 DEF PostArrives, Handled, TypeOK
<1>10. CASE PostRetried(p, t)
  <2>1. srvResult' \in [Command -> SUBSET Result]
    BY <1>8, <1>10 DEF PostRetried
  <2> QED
    BY <1>10, <2>1, FaultType DEF PostRetried, Handled, TypeOK
<1>11. CASE PostGivesUp(p, t)
  <2>1. tasks' \in [Proc -> SUBSET Task]
    <3>1. [t EXCEPT !.pc = "posted", !.verdict = "error"] \in Task
      BY <1>2 DEF Task, Verdict
    <3> QED
      BY <1>11, <3>1, UpdateType DEF PostGivesUp
  <2> QED
    BY <1>11, <2>1, FaultType DEF PostGivesUp, TypeOK
<1>12. CASE PostReturns(p, t)
  <2>1. disk' \in [Host -> SUBSET File]
    BY <1>2, <1>12, RemovedType DEF PostReturns, TypeOK
  <2> QED
    BY <1>12, <2>1, FinishType DEF PostReturns, TypeOK
<1> QED
  BY <1>1, <1>4, <1>5, <1>6, <1>7, <1>9, <1>10, <1>11, <1>12

\* A step of a resend pass keeps the types.
LEMMA RunPassType ==
  ASSUME TypeOK, NEW p \in Proc, NEW k \in Pass, RunPass(p, k)
  PROVE  TypeOK'
<1> USE DEF server, life, work, history
<1>1. /\ flush[p][k] \in FlushState
      /\ {} \in SUBSET File /\ {"none", "error", "limited"} \subseteq Verdict
  BY DEF TypeOK, Verdict
<1>2. \A f \in flush[p][k].queue \union flush[p][k].sent :
        /\ f \in File /\ f.cmd \in Command /\ f.inst \in Inst
        /\ f.run \in 0 .. MaxGen /\ f.kind \in {"executed", "fetchError"}
  BY <1>1 DEF FlushState, File
<1>3. ASSUME NEW f \in flush[p][k].sent, NEW a \in Verdict, FlushHandled(f, a)
      PROVE  srvResult' \in [Command -> SUBSET Result]
  BY <1>2, <1>3, RecordType DEF FlushHandled, TypeOK
<1>4. CASE FlushNext(p, k)
  <2>1. PICK f \in flush[p][k].queue :
          flush' = [flush EXCEPT ![p][k].queue = @ \ {f}, ![p][k].sent = {f}]
    BY <1>4 DEF FlushNext
  <2>2. /\ flush[p][k].queue \ {f} \in SUBSET File /\ {f} \in SUBSET File
    BY <1>2
  <2> DEFINE s == [flush[p][k] EXCEPT !.queue = flush[p][k].queue \ {f}, !.sent = {f}]
  <2>3. s \in FlushState
    BY <1>1, <2>2, FlushStateType
  <2>4. flush' = [flush EXCEPT ![p][k] = s]
    BY <2>1 DEF TypeOK
  <2>5. flush' \in [Proc -> [Pass -> FlushState]]
    BY <2>3, <2>4, FlushUpdateType
  <2> QED
    BY <1>4, <2>5 DEF FlushNext, TypeOK
<1>5. CASE FlushArrives(p, k)
  <2>1. PICK f \in flush[p][k].sent, a \in Verdict :
          /\ FlushHandled(f, a)
          /\ flush' = [flush EXCEPT ![p][k].verdict = a]
    BY <1>5 DEF FlushArrives
  <2> DEFINE s == [flush[p][k] EXCEPT !.verdict = a]
  <2>2. s \in FlushState
    BY <1>1, FlushStateType
  <2>3. flush' = [flush EXCEPT ![p][k] = s]
    BY <2>1
  <2>4. flush' \in [Proc -> [Pass -> FlushState]]
    BY <2>2, <2>3, FlushUpdateType
  <2> QED
    BY <1>3, <1>5, <2>1, <2>4 DEF FlushArrives, FlushHandled, TypeOK
<1>6. CASE FlushRetried(p, k)
  BY <1>3, <1>6, FaultType DEF FlushRetried, FlushHandled, TypeOK
<1>7. CASE FlushGivesUp(p, k)
  <2>1. PICK v \in {"error", "limited"} : flush' = [flush EXCEPT ![p][k].verdict = v]
    BY <1>7 DEF FlushGivesUp
  <2> DEFINE s == [flush[p][k] EXCEPT !.verdict = v]
  <2>2. s \in FlushState
    BY <1>1, FlushStateType
  <2>3. flush' = [flush EXCEPT ![p][k] = s]
    BY <2>1
  <2>4. flush' \in [Proc -> [Pass -> FlushState]]
    BY <2>2, <2>3, FlushUpdateType
  <2>5. faults' \in 0 .. MaxFaults
    BY <1>7, FaultType DEF FlushGivesUp
  <2> QED
    BY <1>7, <2>4, <2>5 DEF FlushGivesUp, TypeOK
<1>8. CASE FlushReturns(p, k)
  <2> DEFINE s == [flush[p][k] EXCEPT !.sent = {}, !.verdict = "none"]
  <2>1. s \in FlushState
    BY <1>1, FlushStateType
  <2>2. flush' = [flush EXCEPT ![p][k] = s]
    BY <1>8 DEF FlushReturns, TypeOK
  <2>3. flush' \in [Proc -> [Pass -> FlushState]]
    BY <2>1, <2>2, FlushUpdateType
  <2>4. disk' \in [Host -> SUBSET File]
    BY <1>2, <1>8, RemovedType DEF FlushReturns, TypeOK
  <2> QED
    BY <1>8, <2>3, <2>4 DEF FlushReturns, TypeOK
<1> QED
  BY <1>4, <1>5, <1>6, <1>7, <1>8 DEF RunPass

\* A step of the process around its calls and passes keeps the types.
LEMMA LifeType ==
  ASSUME TypeOK, NEW p \in Proc
  PROVE  /\ Register(p) => TypeOK'
         /\ RecoveryDone(p) => TypeOK'
         /\ Stop(p) => TypeOK'
         /\ Drain(p) => TypeOK'
         /\ Exit(p) => TypeOK'
         /\ Crash(p) => TypeOK'
         /\ Restart(p) => TypeOK'
<1> USE DEF server, life, work, history
<1>1. ASSUME Register(p) PROVE TypeOK'
  <2>1. FlushLoad(p, "register") /\ "register" \in Pass
    BY <1>1 DEF Register, Pass
  <2>2. /\ flush' \in [Proc -> [Pass -> FlushState]]
        /\ disk' \in [Host -> SUBSET File]
        /\ faults' \in 0 .. MaxFaults
    BY <2>1, FlushLoadType
  <2> QED
    BY <1>1, <2>2 DEF Register, TypeOK, Status
<1>2. ASSUME RecoveryDone(p) PROVE TypeOK'
  BY <1>2 DEF RecoveryDone, TypeOK, Status
<1>3. ASSUME Stop(p) PROVE TypeOK'
  BY <1>3, FaultType DEF Stop, TypeOK, Status
<1>4. ASSUME Drain(p) PROVE TypeOK'
  BY <1>4, FaultType DEF Drain, TypeOK
<1>5. ASSUME Dies(p), faults' \in 0 .. MaxFaults PROVE TypeOK'
  <2>1. NoFlush \in FlushState
    BY DEF NoFlush, FlushState, Verdict
  <2>2. flush' \in [Proc -> [Pass -> FlushState]]
    BY <1>5, <2>1 DEF Dies, TypeOK
  <2>3. genOf' \in [Proc -> [Command -> 0 .. MaxGen]]
    BY <1>5, ConstantAssumption DEF Dies, TypeOK
  <2> QED
    BY <1>5, <2>2, <2>3 DEF Dies, TypeOK, Status
<1>6. ASSUME Exit(p) PROVE TypeOK'
  BY <1>5, <1>6 DEF Exit, TypeOK
<1>7. ASSUME Crash(p) PROVE TypeOK'
  BY <1>5, <1>7, FaultType DEF Crash
<1>8. ASSUME Restart(p) PROVE TypeOK'
  BY <1>8, ConstantAssumption DEF Restart, TypeOK, Status
<1> QED
  BY <1>1, <1>2, <1>3, <1>4, <1>6, <1>7, <1>8

LEMMA TypeStep ==
  ASSUME TypeOK, [Next]_vars
  PROVE  TypeOK'
<1> USE DEF server, life, work, history
<1>1. ASSUME NEW p \in Proc, CheckPending(p) PROVE TypeOK'
  <2> DEFINE listed == {c \in Serves[p] : srvResult[c] = {}}
  <2>1. listed \subseteq Command
    BY ConstantAssumption
  <2>2. todo' = [todo EXCEPT ![p] = @ \union listed]
    BY <1>1 DEF CheckPending
  <2> HIDE DEF listed
  <2>3. todo' \in [Proc -> SUBSET Command]
    BY <2>1, <2>2 DEF TypeOK
  <2> QED
    BY <1>1, <2>3 DEF CheckPending, TypeOK
<1>2. ASSUME NEW p \in Proc, NEW c \in Command, Notify(p, c) PROVE TypeOK'
  <2>1. /\ tasks' \in [Proc -> SUBSET Task]
        /\ inFlight' \in [Proc -> SUBSET Command]
        /\ genOf' = genOf /\ finished' = finished /\ reran' \subseteq Command
    BY <1>2, StartType DEF Notify
  <2> QED
    BY <1>2, <2>1 DEF Notify, TypeOK
<1>3. ASSUME NEW p \in Proc, NEW c \in Command, Deliver(p, c) PROVE TypeOK'
  <2>1. todo' \in [Proc -> SUBSET Command]
    BY <1>3 DEF Deliver, TypeOK
  <2>2. /\ tasks' \in [Proc -> SUBSET Task]
        /\ inFlight' \in [Proc -> SUBSET Command]
        /\ genOf' = genOf /\ finished' = finished /\ reran' \subseteq Command
    BY <1>3, StartType DEF Deliver, TypeOK
  <2> QED
    BY <1>3, <2>1, <2>2 DEF Deliver, TypeOK
<1>4. ASSUME NEW p \in Proc, TimerFlush(p) PROVE TypeOK'
  <2>1. FlushLoad(p, "timer") /\ "timer" \in Pass
    BY <1>4 DEF TimerFlush, Pass
  <2>2. /\ flush' \in [Proc -> [Pass -> FlushState]]
        /\ disk' \in [Host -> SUBSET File]
        /\ faults' \in 0 .. MaxFaults
    BY <2>1, FlushLoadType
  <2> QED
    BY <1>4, <2>2 DEF TimerFlush, TypeOK
<1>5. ASSUME NEW c \in Command, Revoke(c) PROVE TypeOK'
  BY <1>5, FaultType DEF Revoke, TypeOK
<1>6. ASSUME NEW c \in Command, TimeOut(c) PROVE TypeOK'
  <2>1. 0 \in 0 .. MaxGen
    BY ConstantAssumption
  <2>2. srvResult' \in [Command -> SUBSET Result]
    BY <1>6, <2>1, RecordType DEF TimeOut
  <2> QED
    BY <1>6, <2>2, FaultType DEF TimeOut, TypeOK
<1>7. ASSUME NEW h \in Host, NEW f \in disk[h], Age(h, f) PROVE TypeOK'
  <2>1. PICK older \in {"aged", "stale"} :
          disk' = [disk EXCEPT ![h] = (@ \ {f}) \union {[f EXCEPT !.age = older]}]
    BY <1>7 DEF Age
  <2>2. f \in File
    BY DEF TypeOK
  <2>3. [f EXCEPT !.age = older] \in File
    BY <2>2 DEF File
  <2> QED
    BY <1>7, <2>1, <2>3 DEF Age, TypeOK
<1>8. CASE UNCHANGED vars
  BY <1>8 DEF vars, TypeOK
<1> QED
  BY <1>1, <1>2, <1>3, <1>4, <1>5, <1>6, <1>7, <1>8, RunTaskType, RunPassType, LifeType
  DEF Next

\* Every variable keeps the type the code gives it: generations stay within
\* what the server issued, passes and disks hold pending results only.
THEOREM TypeCorrect == Spec => []TypeOK
<1> QED
  BY InitType, TypeStep, PTL DEF Spec

-----------------------------------------------------------------------------
(* One run per process.                                                    *)

\* With TypeOK, the inductive invariant. The entry check looks at
\* inFlightCommands only, so that set must be known to be exact before two
\* calls for one command can be excluded; a new call inherits generation 0
\* only if the map keeps nothing of a call that ended.
Calls == /\ InFlightExact
         /\ NoLeftoverGeneration
         /\ OneRunPerProcess
         /\ OwnGeneration

LEMMA InitCalls == Init => Calls
BY DEF Init, Calls, InFlightExact, NoLeftoverGeneration, OneRunPerProcess, OwnGeneration

\* A new call enters only when no call for its command is there.
LEMMA StartCalls ==
  ASSUME TypeOK, Calls, NEW p \in Proc, NEW c \in Command, Start(p, c)
  PROVE  Calls'
<1>1. PICK i \in Slot : tasks' = [tasks EXCEPT ![p] = @ \union
        {[id |-> i, cmd |-> c, pc |-> "get", gen |-> 0, kind |-> "fetchError",
          verdict |-> "none"]}]
  BY DEF Start
<1> DEFINE u == [id |-> i, cmd |-> c, pc |-> "get", gen |-> 0, kind |-> "fetchError",
                 verdict |-> "none"]
<1>2. /\ u.cmd = c /\ u.gen = 0
      /\ tasks'[p] = tasks[p] \union {u}
      /\ \A q \in Proc : q # p => tasks'[q] = tasks[q]
  BY <1>1 DEF TypeOK
<1>3. /\ inFlight'[p] = inFlight[p] \union {c}
      /\ \A q \in Proc : q # p => inFlight'[q] = inFlight[q]
      /\ genOf' = genOf
  BY DEF Start, TypeOK
<1>4. /\ c \notin inFlight[p] /\ genOf[p][c] = 0
      /\ \A t \in tasks[p] : t.cmd # c
  BY DEF Start, Accepts, Calls, InFlightExact, NoLeftoverGeneration
<1> HIDE DEF u
<1>5. InFlightExact'
  BY <1>2, <1>3 DEF Calls, InFlightExact
<1>6. NoLeftoverGeneration'
  BY <1>3 DEF Calls, NoLeftoverGeneration
<1>7. OneRunPerProcess'
  BY <1>2, <1>4 DEF Calls, OneRunPerProcess
<1>8. OwnGeneration'
  BY <1>2, <1>3, <1>4 DEF Calls, OwnGeneration
<1> QED
  BY <1>5, <1>6, <1>7, <1>8 DEF Calls

\* A call that moves on keeps its command, and its generation unless it is
\* the one the client learns at this moment.
LEMMA UpdateCalls ==
  ASSUME TypeOK, Calls, NEW p \in Proc, NEW t \in tasks[p], NEW u \in Task,
         Update(p, t, u), u.cmd = t.cmd, UNCHANGED inFlight,
         genOf' = [genOf EXCEPT ![p][t.cmd] = u.gen]
  PROVE  Calls'
<1>1. /\ tasks'[p] = (tasks[p] \ {t}) \union {u}
      /\ \A q \in Proc : q # p => tasks'[q] = tasks[q]
  BY DEF Update, TypeOK
<1>2. /\ genOf'[p][t.cmd] = u.gen
      /\ \A q \in Proc, c \in Command : q # p \/ c # t.cmd => genOf'[q][c] = genOf[q][c]
  BY DEF TypeOK, Task
<1>3. t.cmd \in inFlight[p]
  BY DEF Calls, InFlightExact
<1>4. \A s \in tasks[p] : s # t => s.cmd # t.cmd
  BY DEF Calls, OneRunPerProcess
<1>5. \A q \in Proc : \A s \in tasks[q] : s.cmd \in Command
  BY DEF TypeOK, Task
<1>6. InFlightExact'
  BY <1>1 DEF Calls, InFlightExact
<1>7. NoLeftoverGeneration'
  BY <1>2, <1>3 DEF Calls, NoLeftoverGeneration
<1>8. OneRunPerProcess'
  BY <1>1, <1>4 DEF Calls, OneRunPerProcess
<1>9. OwnGeneration'
  BY <1>1, <1>2, <1>4, <1>5 DEF Calls, OwnGeneration
<1> QED
  BY <1>6, <1>7, <1>8, <1>9 DEF Calls

\* A call that ends takes its command and its generation with it; there is no
\* other call for that command that would lose them.
LEMMA FinishCalls ==
  ASSUME TypeOK, Calls, NEW p \in Proc, NEW t \in tasks[p], Finish(p, t)
  PROVE  Calls'
<1>1. /\ tasks'[p] = tasks[p] \ {t}
      /\ \A q \in Proc : q # p => tasks'[q] = tasks[q]
      /\ inFlight'[p] = inFlight[p] \ {t.cmd}
      /\ \A q \in Proc : q # p => inFlight'[q] = inFlight[q]
  BY DEF Finish, TypeOK
<1>2. /\ t.cmd \in Command
      /\ genOf'[p][t.cmd] = 0
      /\ \A q \in Proc, c \in Command : q # p \/ c # t.cmd => genOf'[q][c] = genOf[q][c]
  BY DEF Finish, TypeOK, Task
<1>3. \A s \in tasks[p] : s # t => s.cmd # t.cmd
  BY DEF Calls, OneRunPerProcess
<1>4. \A q \in Proc : \A s \in tasks[q] : s.cmd \in Command
  BY DEF TypeOK, Task
<1>5. InFlightExact'
  BY <1>1, <1>3 DEF Calls, InFlightExact
<1>6. NoLeftoverGeneration'
  BY <1>1, <1>2 DEF Calls, NoLeftoverGeneration
<1>7. OneRunPerProcess'
  BY <1>1 DEF Calls, OneRunPerProcess
<1>8. OwnGeneration'
  BY <1>1, <1>2, <1>3, <1>4 DEF Calls, OwnGeneration
<1> QED
  BY <1>5, <1>6, <1>7, <1>8 DEF Calls

\* One step of one call.
LEMMA RunTaskCalls ==
  ASSUME TypeOK, Calls, NEW p \in Proc, NEW i \in Slot, RunTask(p, i)
  PROVE  Calls'
<1> USE DEF server, life, work, history
<1>1. PICK t \in tasks[p] :
        \/ GetGranted(p, t) \/ GetConflict(p, t) \/ GetFails(p, t)
        \/ ExecDone(p, t)
        \/ PostArrives(p, t) \/ PostRetried(p, t) \/ PostGivesUp(p, t)
        \/ PostReturns(p, t)
  BY DEF RunTask
<1>2. /\ t \in Task /\ t.cmd \in Command /\ t.gen \in 0 .. MaxGen
  BY DEF TypeOK, Task
\* A call that moves on without learning a generation leaves the map alone.
<1>3. ASSUME NEW u \in Task, Update(p, t, u), u.cmd = t.cmd, u.gen = t.gen,
             UNCHANGED inFlight, UNCHANGED genOf
      PROVE  Calls'
  <2>1. genOf[p][t.cmd] = u.gen
    BY <1>3 DEF Calls, OwnGeneration
  <2>2. genOf' = [genOf EXCEPT ![p][t.cmd] = u.gen]
    BY <1>3, <2>1 DEF TypeOK
  <2> QED
    BY <1>3, <2>2, UpdateCalls
<1>4. CASE GetGranted(p, t)
  <2> DEFINE u == [t EXCEPT !.pc = "run", !.gen = srvGen'[t.cmd]]
  <2>1. TypeOK'
    BY RunTaskType
  <2>2. srvGen'[t.cmd] \in 0 .. MaxGen
    BY <1>2, <2>1 DEF TypeOK
  <2>3. u \in Task /\ u.cmd = t.cmd /\ u.gen = srvGen'[t.cmd]
    BY <1>2, <2>2 DEF Task
  <2>4. Update(p, t, u) /\ UNCHANGED inFlight
    BY <1>4 DEF GetGranted
  <2>5. genOf' = [genOf EXCEPT ![p][t.cmd] = u.gen]
    BY <1>4, <2>3 DEF GetGranted
  <2> QED
    BY <2>3, <2>4, <2>5, UpdateCalls
<1>5. CASE GetConflict(p, t)
  BY <1>5, FinishCalls DEF GetConflict
<1>6. CASE GetFails(p, t)
  <2>1. [t EXCEPT !.pc = "post"] \in Task
    BY <1>2 DEF Task
  <2> QED
    BY <1>2, <1>3, <1>6, <2>1 DEF GetFails, Task
<1>7. CASE ExecDone(p, t)
  <2>1. [t EXCEPT !.pc = "post", !.kind = "executed"] \in Task
    BY <1>2 DEF Task
  <2> QED
    BY <1>2, <1>3, <1>7, <2>1 DEF ExecDone, Task
<1>8. CASE PostArrives(p, t)
  <2>1. PICK a \in Verdict : Update(p, t, [t EXCEPT !.pc = "posted", !.verdict = a])
    BY <1>8 DEF PostArrives
  <2>2. [t EXCEPT !.pc = "posted", !.verdict = a] \in Task
    BY <1>2 DEF Task
  <2> QED
    BY <1>2, <1>3, <1>8, <2>1, <2>2 DEF PostArrives, Task
<1>9. CASE PostRetried(p, t)
  BY <1>9 DEF PostRetried, Calls, InFlightExact, NoLeftoverGeneration,
              OneRunPerProcess, OwnGeneration
<1>10. CASE PostGivesUp(p, t)
  <2>1. [t EXCEPT !.pc = "posted", !.verdict = "error"] \in Task
    BY <1>2 DEF Task, Verdict
  <2> QED
    BY <1>2, <1>3, <1>10, <2>1 DEF PostGivesUp, Task
<1>11. CASE PostReturns(p, t)
  BY <1>11, FinishCalls DEF PostReturns
<1> QED
  BY <1>1, <1>4, <1>5, <1>6, <1>7, <1>8, <1>9, <1>10, <1>11

\* A process that ends loses all its calls, in-flight marks and generations.
LEMMA DiesCalls ==
  ASSUME TypeOK, Calls, NEW p \in Proc, Dies(p)
  PROVE  Calls'
<1>1. /\ tasks'[p] = {} /\ inFlight'[p] = {}
      /\ \A c \in Command : genOf'[p][c] = 0
      /\ \A q \in Proc : q # p => /\ tasks'[q] = tasks[q]
                                  /\ inFlight'[q] = inFlight[q]
                                  /\ genOf'[q] = genOf[q]
  BY DEF Dies, TypeOK
<1>2. InFlightExact'
  BY <1>1 DEF Calls, InFlightExact
<1>3. NoLeftoverGeneration' /\ OneRunPerProcess' /\ OwnGeneration'
  BY <1>1 DEF Calls, NoLeftoverGeneration, OneRunPerProcess, OwnGeneration
<1> QED
  BY <1>2, <1>3 DEF Calls

LEMMA CallsStep ==
  ASSUME TypeOK, Calls, [Next]_vars
  PROVE  Calls'
<1> USE DEF server, life, work, history
\* Every other action leaves the calls, their marks and generations alone.
<1>1. ASSUME UNCHANGED work PROVE Calls'
  BY <1>1 DEF Calls, InFlightExact, NoLeftoverGeneration, OneRunPerProcess, OwnGeneration
<1>2. ASSUME NEW p \in Proc, NEW c \in Command, Notify(p, c) PROVE Calls'
  BY <1>2, StartCalls DEF Notify
<1>3. ASSUME NEW p \in Proc, NEW c \in Command, Deliver(p, c) PROVE Calls'
  BY <1>1, <1>3, StartCalls DEF Deliver
<1>4. ASSUME NEW p \in Proc, Exit(p) \/ Crash(p) PROVE Calls'
  BY <1>4, DiesCalls DEF Exit, Crash
<1>5. ASSUME NEW p \in Proc,
             \/ CheckPending(p) \/ TimerFlush(p)
             \/ \E k \in Pass : RunPass(p, k)
             \/ Register(p) \/ RecoveryDone(p) \/ Stop(p) \/ Drain(p) \/ Restart(p)
      PROVE  UNCHANGED work
  BY <1>5 DEF CheckPending, TimerFlush, RunPass, FlushNext, FlushArrives, FlushRetried,
              FlushGivesUp, FlushReturns, Register, RecoveryDone, Stop, Drain, Restart
<1>6. ASSUME \/ \E c \in Command : Revoke(c) \/ TimeOut(c)
             \/ \E h \in Host : \E f \in disk[h] : Age(h, f)
             \/ UNCHANGED vars
      PROVE  UNCHANGED work
  BY <1>6 DEF Revoke, TimeOut, Age, vars
<1> QED
  BY <1>1, <1>2, <1>3, <1>4, <1>5, <1>6, RunTaskCalls DEF Next

\* No two processCommand calls of a process ever work on one command.
THEOREM OneRun == Spec => []OneRunPerProcess
<1>1. TypeOK /\ Calls => OneRunPerProcess
  BY DEF Calls
<1> QED
  BY <1>1, InitType, InitCalls, TypeStep, CallsStep, PTL DEF Spec

\* A call always speaks with the generation its own fetch was granted.
THEOREM GenerationOwned == Spec => []OwnGeneration
<1>1. TypeOK /\ Calls => OwnGeneration
  BY DEF Calls
<1> QED
  BY <1>1, InitType, InitCalls, TypeStep, CallsStep, PTL DEF Spec

\* Calls of one process are kept apart: what the runs check, for every instance.
THEOREM CallsApart == Spec => []CallsKeptApart
<1>1. TypeOK /\ OneRunPerProcess /\ OwnGeneration => CallsKeptApart
  BY DEF CallsKeptApart
<1> QED
  BY <1>1, TypeCorrect, OneRun, GenerationOwned, PTL

\* The assignment g of c was given to i, and to nobody else since; or it has
\* been withdrawn, or another one follows it.
Granted(c, i, g) == g <= srvGen[c] /\ (g = srvGen[c] => srvOwner[c] \in {i, NoInst})
Lost(c, i, g) == srvOwner[c] # i \/ srvGen[c] # g
Finished(c, i, g) == \E e \in finished : e.cmd = c /\ e.inst = i /\ e.gen = g

\* What a step does to the server's record of a command.
ServerMoves ==
  \A c \in Command :
    /\ \/ srvOwner'[c] = srvOwner[c] /\ srvGen'[c] = srvGen[c]
       \/ srvOwner'[c] = NoInst /\ srvGen'[c] = srvGen[c]
       \/ srvOwner[c] = NoInst /\ srvGen'[c] = srvGen[c] + 1
    /\ srvResult[c] # {} => srvResult'[c] # {}

\* A step that only concerns the server or the life of a process.
Rest(p) == CheckPending(p) \/ RecoveryDone(p) \/ Stop(p) \/ Drain(p) \/ Restart(p)
Declines(p, c) == Deliver(p, c) /\ UNCHANGED <<work, history>>
Quiet ==
  \/ \E p \in Proc : Rest(p) \/ \E c \in Command : Declines(p, c)
  \/ \E c \in Command : Revoke(c) \/ TimeOut(c)
  \/ UNCHANGED vars

LEMMA QuietLeaves ==
  ASSUME Quiet
  PROVE  /\ UNCHANGED <<work, disk, flush, history>>
         /\ (UNCHANGED server \/ \E c \in Command : Revoke(c) \/ TimeOut(c))
<1> USE DEF server, life, work, history
<1>1. ASSUME NEW p \in Proc, Rest(p) PROVE UNCHANGED <<server, work, disk, flush, history>>
  BY <1>1 DEF Rest, CheckPending, RecoveryDone, Stop, Drain, Restart
<1>2. ASSUME NEW p \in Proc, NEW c \in Command, Declines(p, c)
      PROVE  UNCHANGED <<server, work, disk, flush, history>>
  BY <1>2 DEF Declines, Deliver
<1>3. ASSUME NEW c \in Command, Revoke(c) \/ TimeOut(c) PROVE UNCHANGED <<work, disk, flush, history>>
  BY <1>3 DEF Revoke, TimeOut
<1>4. ASSUME UNCHANGED vars PROVE UNCHANGED <<server, work, disk, flush, history>>
  BY <1>4 DEF vars
<1> HIDE DEF server, work, history
<1> QED BY <1>1, <1>2, <1>3, <1>4 DEF Quiet

\* The other kinds of steps: a call starts, moves on; a pass begins, moves on; a
\* process ends; a file grows older.
Starts(p, c) ==
  /\ Start(p, c) /\ UNCHANGED <<server, life, disk, flush>>
  /\ \/ status[p] = "serving" /\ c \in Serves[p] /\ UNCHANGED todo
     \/ c \in todo[p] /\ todo' = [todo EXCEPT ![p] = @ \ {c}]
Moves(p, t) ==
  \/ GetGranted(p, t) \/ GetConflict(p, t) \/ GetFails(p, t) \/ ExecDone(p, t)
  \/ PostArrives(p, t) \/ PostRetried(p, t) \/ PostGivesUp(p, t) \/ PostReturns(p, t)
Loads(p, k) ==
  /\ FlushLoad(p, k) /\ (k = "timer" \/ status[p] = "standby")
  /\ \A q \in Proc : status'[q] \in {status[q], "recovering"}
  /\ UNCHANGED <<server, draining, recovered, timer, inst, todo, work, history>>
StartStep == \E p \in Proc, c \in Command : Starts(p, c)
CallStep == \E p \in Proc : \E t \in tasks[p] : Moves(p, t)
LoadStep == \E p \in Proc, k \in Pass : Loads(p, k)
PassStep == \E p \in Proc, k \in Pass : RunPass(p, k)
DieStep == \E p \in Proc : Dies(p)
AgeStep == \E h \in Host : \E f \in disk[h] : Age(h, f)

LEMMA Kinds ==
  ASSUME TypeOK, [Next]_vars
  PROVE  StartStep \/ CallStep \/ LoadStep \/ PassStep \/ DieStep \/ AgeStep \/ Quiet
<1> USE DEF server, life, work, history
<1>1. ASSUME NEW p \in Proc, CheckPending(p) \/ RecoveryDone(p) \/ Stop(p) \/ Drain(p) \/ Restart(p)
      PROVE  Quiet
  BY <1>1 DEF Rest, Quiet
<1>2. ASSUME NEW c \in Command, Revoke(c) \/ TimeOut(c) PROVE Quiet
  BY <1>2 DEF Quiet
<1>3. ASSUME NEW p \in Proc, NEW c \in Command, Notify(p, c) PROVE StartStep
  <2>1. Starts(p, c)
    BY <1>3 DEF Notify, Starts
  <2> QED BY <2>1 DEF StartStep
<1>4. ASSUME NEW p \in Proc, NEW c \in Command, Deliver(p, c) PROVE StartStep \/ Quiet
  <2>1. Starts(p, c) \/ Quiet
    BY <1>4 DEF Deliver, Declines, Quiet, Starts
  <2> QED BY <2>1 DEF StartStep
<1>5. ASSUME NEW p \in Proc, TimerFlush(p) PROVE LoadStep
  <2>1. Loads(p, "timer")
    BY <1>5 DEF TimerFlush, Loads
  <2> QED BY <2>1 DEF LoadStep, Pass
<1>6. ASSUME NEW p \in Proc, Register(p) PROVE LoadStep
  <2>1. status' = [status EXCEPT ![p] = "recovering"] /\ status \in [Proc -> Status]
    BY <1>6 DEF Register, TypeOK
  <2>2. Loads(p, "register")
    BY <1>6, <2>1 DEF Register, Loads
  <2> QED BY <2>2 DEF LoadStep, Pass
<1>7. ASSUME NEW p \in Proc, Exit(p) \/ Crash(p) PROVE DieStep
  BY <1>7 DEF Exit, Crash, DieStep
<1>8. ASSUME UNCHANGED vars PROVE Quiet
  BY <1>8 DEF Quiet
<1>9. ASSUME NEW p \in Proc, NEW i \in Slot, RunTask(p, i) PROVE CallStep
  BY <1>9 DEF RunTask, CallStep, Moves
<1> QED
  BY <1>1, <1>2, <1>3, <1>4, <1>5, <1>6, <1>7, <1>8, <1>9 DEF Next, PassStep, AgeStep

\* What each kind of step leaves alone.
LEMMA LeavesAlone ==
  /\ StartStep => UNCHANGED <<server, finished, disk, flush>> /\ reran \subseteq reran'
  /\ \A p \in Proc : \A t \in tasks[p] : Moves(p, t) =>
       /\ UNCHANGED <<flush, status, recovered, inst, todo, reran>>
       /\ ExecDone(p, t) \/ UNCHANGED finished
       /\ finished \subseteq finished'
  /\ LoadStep => UNCHANGED <<server, work, history>>
  /\ PassStep => UNCHANGED <<life, work, history, todo>>
  /\ AgeStep => UNCHANGED <<server, life, work, history, todo, flush>>
  /\ DieStep => UNCHANGED <<server, history, disk, inst>>
<1> USE DEF history, life
<1>1. ASSUME NEW p \in Proc, NEW c \in Command, Starts(p, c)
      PROVE  UNCHANGED <<server, finished, disk, flush>> /\ reran \subseteq reran'
  BY <1>1 DEF Starts, Start
<1>2. ASSUME NEW p \in Proc, NEW t \in tasks[p], Moves(p, t)
      PROVE  /\ UNCHANGED <<flush, status, recovered, inst, todo, reran>>
             /\ ExecDone(p, t) \/ UNCHANGED finished
             /\ finished \subseteq finished'
  <2>1. CASE GetGranted(p, t) \/ GetConflict(p, t)
    BY <2>1 DEF GetGranted, GetConflict
  <2>2. CASE GetFails(p, t)
    BY <2>2 DEF GetFails
  <2>3. CASE ExecDone(p, t)
    BY <2>3 DEF ExecDone
  <2>4. CASE PostArrives(p, t) \/ PostRetried(p, t)
    BY <2>4 DEF PostArrives, PostRetried
  <2>5. CASE PostGivesUp(p, t) \/ PostReturns(p, t)
    BY <2>5 DEF PostGivesUp, PostReturns
  <2> QED BY <1>2, <2>1, <2>2, <2>3, <2>4, <2>5 DEF Moves
<1>3. ASSUME NEW p \in Proc, NEW k \in Pass, RunPass(p, k)
      PROVE  UNCHANGED <<life, work, history, todo>>
  <2>1. CASE FlushNext(p, k) \/ FlushArrives(p, k)
    BY <2>1 DEF FlushNext, FlushArrives
  <2>2. CASE FlushRetried(p, k) \/ FlushGivesUp(p, k)
    BY <2>2 DEF FlushRetried, FlushGivesUp
  <2>3. CASE FlushReturns(p, k)
    BY <2>3 DEF FlushReturns
  <2> QED BY <1>3, <2>1, <2>2, <2>3 DEF RunPass
<1>4. LoadStep => UNCHANGED <<server, work, history>>
  BY DEF LoadStep, Loads
<1>5. AgeStep => UNCHANGED <<server, life, work, history, todo, flush>>
  BY DEF AgeStep, Age
<1>6. DieStep => UNCHANGED <<server, history, disk, inst>>
  BY DEF DieStep, Dies
<1> HIDE DEF history, life
<1>7. StartStep => UNCHANGED <<server, finished, disk, flush>> /\ reran \subseteq reran'
  BY <1>1 DEF StartStep
<1>8. PassStep => UNCHANGED <<life, work, history, todo>>
  BY <1>3 DEF PassStep
<1> QED BY <1>2, <1>4, <1>5, <1>6, <1>7, <1>8

-----------------------------------------------------------------------------
(* What the server keeps.                                                  *)

LEMMA GrantStays ==
  ASSUME TypeOK, ServerMoves, NEW c \in Command, NEW i \in Inst, NEW g \in 0 .. MaxGen,
         Granted(c, i, g)
  PROVE  Granted(c, i, g)' /\ (Lost(c, i, g) => Lost(c, i, g)')
<1>1. srvGen[c] \in Nat /\ i # NoInst /\ g \in Nat
  BY ConstantAssumption DEF TypeOK
<1>2. CASE srvOwner'[c] = srvOwner[c] /\ srvGen'[c] = srvGen[c]
  BY <1>2 DEF Granted, Lost
<1>3. CASE srvOwner'[c] = NoInst /\ srvGen'[c] = srvGen[c]
  BY <1>1, <1>3 DEF Granted, Lost
<1>4. CASE srvOwner[c] = NoInst /\ srvGen'[c] = srvGen[c] + 1
  BY <1>1, <1>4 DEF Granted, Lost
<1> QED BY <1>2, <1>3, <1>4 DEF ServerMoves

LEMMA RecordMoves ==
  ASSUME TypeOK, NEW c \in Command, NEW r, srvResult' = Record(c, r)
  PROVE  \A d \in Command : srvResult[d] # {} => srvResult'[d] # {}
BY DEF Record, TypeOK

LEMMA AssignMoves ==
  ASSUME TypeOK, NEW c \in Command, NEW i,
         \/ /\ srvOwner[c] = NoInst
            /\ srvOwner' = [srvOwner EXCEPT ![c] = i] /\ srvGen' = [srvGen EXCEPT ![c] = @ + 1]
         \/ UNCHANGED <<srvOwner, srvGen>>,
         UNCHANGED srvResult
  PROVE  ServerMoves
BY DEF ServerMoves, TypeOK

LEMMA ServerStep == ASSUME TypeOK, [Next]_vars PROVE ServerMoves
<1> USE DEF server
<1>1. ASSUME UNCHANGED server PROVE ServerMoves
  BY <1>1 DEF ServerMoves
<1>2. ASSUME UNCHANGED <<srvOwner, srvGen>>,
             UNCHANGED srvResult \/ \E c \in Command : \E r : srvResult' = Record(c, r)
      PROVE  ServerMoves
  <2>1. \A d \in Command : srvResult[d] # {} => srvResult'[d] # {}
    BY <1>2, RecordMoves
  <2> QED BY <1>2, <2>1 DEF ServerMoves
<1>3. ASSUME NEW p \in Proc, NEW t \in tasks[p], Moves(p, t) PROVE ServerMoves
  <2>1. t.cmd \in Command
    BY DEF TypeOK, Task
  <2>2. CASE GetGranted(p, t) \/ GetFails(p, t)
    BY <2>1, <2>2, AssignMoves DEF GetGranted, GetFails
  <2>3. CASE GetConflict(p, t) \/ ExecDone(p, t) \/ PostGivesUp(p, t) \/ PostReturns(p, t)
    BY <1>1, <2>3 DEF GetConflict, ExecDone, PostGivesUp, PostReturns
  <2>4. CASE PostArrives(p, t) \/ PostRetried(p, t)
    BY <1>2, <2>1, <2>4 DEF PostArrives, PostRetried, Handled
  <2> QED BY <1>3, <2>2, <2>3, <2>4 DEF Moves
<1>4. ASSUME NEW p \in Proc, NEW k \in Pass, RunPass(p, k) PROVE ServerMoves
  <2>1. \A f \in flush[p][k].sent : f.cmd \in Command
    BY DEF TypeOK, FlushState, File
  <2>2. CASE FlushNext(p, k) \/ FlushGivesUp(p, k) \/ FlushReturns(p, k)
    BY <1>1, <2>2 DEF FlushNext, FlushGivesUp, FlushReturns
  <2>3. CASE FlushArrives(p, k) \/ FlushRetried(p, k)
    BY <1>2, <2>1, <2>3 DEF FlushArrives, FlushRetried, FlushHandled
  <2> QED BY <1>4, <2>2, <2>3 DEF RunPass
<1>5. CASE Quiet
  <2>1. ASSUME NEW c \in Command, Revoke(c) PROVE ServerMoves
    BY <2>1 DEF Revoke, ServerMoves, TypeOK
  <2>2. ASSUME NEW c \in Command, TimeOut(c) PROVE ServerMoves
    BY <1>2, <2>2 DEF TimeOut
  <2> QED BY <1>1, <1>5, <2>1, <2>2, QuietLeaves
<1>6. StartStep \/ LoadStep \/ DieStep \/ AgeStep => UNCHANGED server
  BY DEF StartStep, Starts, LoadStep, Loads, DieStep, Dies, AgeStep, Age
<1> QED BY <1>1, <1>3, <1>4, <1>5, <1>6, Kinds DEF CallStep, PassStep

-----------------------------------------------------------------------------
(* Calls, copies of results and passes are sound.                          *)

\* Calls and sweeps belong to processes that are up and have recovered.
Present ==
  \A p \in Proc :
    /\ tasks[p] # {} \/ todo[p] # {} => status[p] # "down" /\ p \in recovered
    /\ status[p] = "serving" => p \in recovered
    /\ todo[p] \subseteq Serves[p]

\* What a call knows of its own assignment is true: it was granted the generation
\* it holds, it reports an execution only after it has finished, and a verdict it
\* was told is one the server gave.
CallSound(p, t) ==
  /\ t.cmd \in Serves[p]
  /\ t.pc \in {"get", "run"} => t.kind = "fetchError"
  /\ t.pc = "get" => t.gen = 0
  /\ t.pc = "run" => t.gen > 0
  /\ t.kind = "executed" => t.gen > 0 /\ Finished(t.cmd, Me(p), t.gen)
  /\ t.pc \in {"post", "posted"} /\ t.kind = "fetchError" => t.gen = 0
  /\ t.gen > 0 => Granted(t.cmd, Me(p), t.gen)
  /\ t.pc = "posted" /\ t.verdict = "ok" => srvResult[t.cmd] # {}
  /\ t.pc = "posted" /\ t.verdict = "fenced" /\ t.gen > 0 => Lost(t.cmd, Me(p), t.gen)

\* A kept result carries the generation of the execution that computed it.
CopySound(f) ==
  /\ f.gen = f.run
  /\ f.kind = "executed" => f.gen > 0 /\ Finished(f.cmd, f.inst, f.gen)
  /\ f.kind = "fetchError" => f.gen = 0

FileSound(f) == CopySound(f) /\ (f.age = "stale" => srvResult[f.cmd] # {})

\* A pass works on sound copies, one at a time, and knows the server's verdict.
PassSound(s) ==
  /\ s.sent = {} => s.verdict = "none"
  /\ s.verdict = "refused" => FALSE
  /\ s.verdict = "limited" => "limit" \in Faults
  /\ \A f, g \in s.sent : f = g
  /\ \A f \in s.queue \union s.sent : CopySound(f)
  /\ \A f \in s.sent :
       /\ s.verdict = "ok" => srvResult[f.cmd] # {}
       /\ s.verdict = "fenced" /\ f.gen > 0 => Lost(f.cmd, f.inst, f.gen)

CallsSound == \A p \in Proc : \A t \in tasks[p] : CallSound(p, t)
FilesSound == \A h \in Host : \A f \in disk[h] : FileSound(f)
PassesSound == \A p \in Proc, k \in Pass : PassSound(flush[p][k])
GrantsSound == \A e \in finished : e.gen > 0 /\ Granted(e.cmd, e.inst, e.gen)
\* The first assignment of a command has generation 1.
Assigned == \A c \in Command : srvOwner[c] # NoInst => srvGen[c] > 0
Sound == Present /\ CallsSound /\ FilesSound /\ PassesSound /\ GrantsSound /\ Assigned

LEMMA HistoryGrows ==
  ASSUME [Next]_vars, TypeOK PROVE finished \subseteq finished' /\ reran \subseteq reran'
<1> USE DEF history
<1>1. StartStep => finished \subseteq finished' /\ reran \subseteq reran'
  BY LeavesAlone
<1>2. CallStep => finished \subseteq finished' /\ reran \subseteq reran'
  BY LeavesAlone DEF CallStep
<1>3. LoadStep \/ PassStep \/ DieStep \/ AgeStep => UNCHANGED history
  BY LeavesAlone
<1>4. Quiet => UNCHANGED history
  BY QuietLeaves
<1> QED BY <1>1, <1>2, <1>3, <1>4, Kinds

\* What is sound stays sound while it is left alone.
LEMMA FinishedStays ==
  ASSUME finished \subseteq finished', NEW c, NEW i, NEW g, Finished(c, i, g)
  PROVE  Finished(c, i, g)'
BY DEF Finished

LEMMA CallStays ==
  ASSUME TypeOK, ServerMoves, finished \subseteq finished', NEW p \in Proc, NEW t \in Task,
         CallSound(p, t), inst'[p] = inst[p]
  PROVE  CallSound(p, t)'
<1>1. PICK i \in Inst : i = Me(p) /\ Me(p)' = i
  BY MeType DEF Me
<1>2. t.cmd \in Command /\ t.gen \in 0 .. MaxGen
  BY DEF Task
<1>3. t.kind = "executed" => Finished(t.cmd, i, t.gen)'
  BY <1>1, FinishedStays DEF CallSound
<1>4. srvResult[t.cmd] # {} => srvResult'[t.cmd] # {}
  BY <1>2 DEF ServerMoves
<1>5. t.gen > 0 => Granted(t.cmd, i, t.gen)' /\ (Lost(t.cmd, i, t.gen) => Lost(t.cmd, i, t.gen)')
  BY <1>1, <1>2, GrantStays DEF CallSound
<1>6. t.pc = "posted" /\ t.verdict = "fenced" /\ t.gen > 0 => Lost(t.cmd, i, t.gen)'
  BY <1>1, <1>5 DEF CallSound
<1> QED BY <1>1, <1>3, <1>4, <1>5, <1>6 DEF CallSound

LEMMA CopyStays ==
  ASSUME finished \subseteq finished', NEW f, CopySound(f)
  PROVE  CopySound(f)'
BY FinishedStays DEF CopySound

LEMMA FileStays ==
  ASSUME ServerMoves, finished \subseteq finished', NEW f \in File, FileSound(f)
  PROVE  FileSound(f)'
<1>1. srvResult[f.cmd] # {} => srvResult'[f.cmd] # {}
  BY DEF ServerMoves, File
<1> QED BY <1>1, CopyStays DEF FileSound

LEMMA PassStays ==
  ASSUME TypeOK, ServerMoves, finished \subseteq finished', GrantsSound, NEW s \in FlushState, PassSound(s)
  PROVE  PassSound(s)'
<1>1. ASSUME NEW f \in s.queue \union s.sent PROVE CopySound(f)'
  BY CopyStays DEF PassSound
<1>2. ASSUME NEW f \in s.sent, s.verdict = "ok" PROVE srvResult'[f.cmd] # {}
  <2>1. f.cmd \in Command /\ srvResult[f.cmd] # {}
    BY <1>2 DEF PassSound, FlushState, File
  <2> QED BY <2>1 DEF ServerMoves
<1>3. ASSUME NEW f \in s.sent, s.verdict = "fenced", f.gen > 0 PROVE Lost(f.cmd, f.inst, f.gen)'
  <2>1. f.cmd \in Command /\ f.inst \in Inst /\ f.gen \in 0 .. MaxGen /\ f.kind \in {"executed", "fetchError"}
    BY DEF FlushState, File
  <2>2. Lost(f.cmd, f.inst, f.gen) /\ CopySound(f)
    BY <1>3 DEF PassSound
  <2>3. Granted(f.cmd, f.inst, f.gen)
    BY <1>3, <2>1, <2>2 DEF CopySound, Finished, GrantsSound
  <2> QED BY <2>1, <2>2, <2>3, GrantStays
<1> QED BY <1>1, <1>2, <1>3 DEF PassSound

-----------------------------------------------------------------------------
(* Processes that have work are present.                                   *)

LEMMA RestPresent ==
  ASSUME TypeOK, Present, NEW p \in Proc,
         Rest(p) \/ \E c \in Command : Declines(p, c)
  PROVE  Present' /\ \A q \in Proc : tasks[q] # {} => inst'[q] = inst[q]
<1> USE DEF life, work, server, history
<1>1. CASE CheckPending(p)
  <2>1. /\ todo'[p] = todo[p] \union {c \in Serves[p] : srvResult[c] = {}}
        /\ \A q \in Proc : q # p => todo'[q] = todo[q]
    BY <1>1 DEF CheckPending, TypeOK
  <2>2. status[p] = "serving" /\ UNCHANGED <<status, recovered, tasks, inst>>
    BY <1>1 DEF CheckPending
  <2> QED BY <2>1, <2>2 DEF Present
<1>2. ASSUME NEW c \in Command, Declines(p, c) PROVE Present' /\ \A q \in Proc : tasks[q] # {} => inst'[q] = inst[q]
  <2>1. \A q \in Proc : todo'[q] \subseteq todo[q]
    BY <1>2 DEF Declines, Deliver, TypeOK
  <2>2. UNCHANGED <<status, recovered, tasks, inst>>
    BY <1>2 DEF Declines, Deliver
  <2> QED BY <2>1, <2>2 DEF Present
<1>3. CASE RecoveryDone(p)
  <2>1. /\ \A q \in Proc : q # p => status'[q] = status[q]
        /\ status'[p] \in {"serving", "standby"} /\ recovered' = recovered \union {p}
    BY <1>3 DEF RecoveryDone, TypeOK
  <2>2. UNCHANGED <<todo, tasks, inst>>
    BY <1>3 DEF RecoveryDone
  <2> QED BY <2>1, <2>2 DEF Present
<1>4. CASE Stop(p)
  <2>1. /\ \A q \in Proc : q # p => status'[q] = status[q]
        /\ status'[p] \in {"standby", "unwinding"}
    BY <1>4 DEF Stop, TypeOK
  <2>2. UNCHANGED <<todo, tasks, inst, recovered>>
    BY <1>4 DEF Stop
  <2> QED BY <2>1, <2>2 DEF Present
<1>5. CASE Drain(p)
  <2>1. UNCHANGED <<status, todo, tasks, inst, recovered>>
    BY <1>5 DEF Drain
  <2> QED BY <2>1 DEF Present
<1>6. CASE Restart(p)
  <2>1. /\ \A q \in Proc : q # p => status'[q] = status[q] /\ inst'[q] = inst[q]
        /\ status[p] = "down" /\ status'[p] = "standby"
    BY <1>6 DEF Restart, TypeOK
  <2>2. UNCHANGED <<todo, tasks, recovered>>
    BY <1>6 DEF Restart
  <2> QED BY <2>1, <2>2 DEF Present
<1> QED BY <1>1, <1>2, <1>3, <1>4, <1>5, <1>6 DEF Rest

LEMMA StartTasks ==
  ASSUME TypeOK, NEW p \in Proc, NEW c \in Command, Start(p, c)
  PROVE  /\ \A q \in Proc : q # p => tasks'[q] = tasks[q]
         /\ c \notin inFlight[p]
         /\ \E u \in Task : /\ tasks'[p] = tasks[p] \union {u}
                            /\ u.cmd = c /\ u.pc = "get" /\ u.gen = 0 /\ u.kind = "fetchError"
<1>1. PICK i \in Slot : tasks' = [tasks EXCEPT ![p] = @ \union
        {[id |-> i, cmd |-> c, pc |-> "get", gen |-> 0, kind |-> "fetchError",
          verdict |-> "none"]}]
  BY DEF Start
<1> DEFINE u == [id |-> i, cmd |-> c, pc |-> "get", gen |-> 0, kind |-> "fetchError", verdict |-> "none"]
<1>2. u \in Task /\ u.cmd = c /\ u.pc = "get" /\ u.gen = 0 /\ u.kind = "fetchError"
  BY ConstantAssumption DEF Task, Verdict
<1>3. tasks'[p] = tasks[p] \union {u} /\ \A q \in Proc : q # p => tasks'[q] = tasks[q]
  BY <1>1 DEF TypeOK
<1> HIDE DEF u
<1> QED BY <1>2, <1>3 DEF Start, Accepts

\* A call that moves ends, stays, or becomes another record for the same command.
LEMMA MovesTasks ==
  ASSUME TypeOK, NEW p \in Proc, NEW t \in tasks[p], Moves(p, t)
  PROVE  /\ \A q \in Proc : q # p => tasks'[q] = tasks[q]
         /\ \/ UNCHANGED tasks /\ PostRetried(p, t)
            \/ tasks'[p] = tasks[p] \ {t} /\ (GetConflict(p, t) \/ PostReturns(p, t))
            \/ \E u \in Task :
                 /\ tasks'[p] = (tasks[p] \ {t}) \union {u} /\ u.cmd = t.cmd
                 /\ \/ GetGranted(p, t) /\ u.pc = "run" /\ u.gen = srvGen'[t.cmd] /\ u.kind = t.kind
                    \/ GetFails(p, t) /\ u.pc = "post" /\ u.gen = t.gen /\ u.kind = t.kind
                    \/ ExecDone(p, t) /\ u.pc = "post" /\ u.gen = t.gen /\ u.kind = "executed"
                    \/ /\ PostArrives(p, t) /\ u.pc = "posted" /\ u.gen = t.gen /\ u.kind = t.kind
                       /\ Handled(p, t, u.verdict)
                    \/ /\ PostGivesUp(p, t) /\ u.pc = "posted" /\ u.gen = t.gen /\ u.kind = t.kind
                       /\ u.verdict = "error"
<1> USE DEF work
<1>1. t \in Task /\ t.cmd \in Command /\ tasks[p] \in SUBSET Task
  BY DEF TypeOK, Task
<1>2. ASSUME NEW u, Update(p, t, u)
      PROVE  tasks'[p] = (tasks[p] \ {t}) \union {u} /\ \A q \in Proc : q # p => tasks'[q] = tasks[q]
  BY <1>2 DEF Update, TypeOK
<1>3. ASSUME Finish(p, t)
      PROVE  tasks'[p] = tasks[p] \ {t} /\ \A q \in Proc : q # p => tasks'[q] = tasks[q]
  BY <1>3 DEF Finish, TypeOK
<1>4. CASE GetGranted(p, t)
  <2>1. srvGen'[t.cmd] \in 0 .. MaxGen
    BY <1>1, <1>4, AssignType DEF GetGranted, TypeOK
  <2> DEFINE u == [t EXCEPT !.pc = "run", !.gen = srvGen'[t.cmd]]
  <2>2. u \in Task /\ u.cmd = t.cmd /\ u.pc = "run" /\ u.gen = srvGen'[t.cmd] /\ u.kind = t.kind
    BY <1>1, <2>1 DEF Task, Verdict
  <2>3. Update(p, t, u)
    BY <1>4 DEF GetGranted
  <2> HIDE DEF u
  <2>4. tasks'[p] = (tasks[p] \ {t}) \union {u} /\ \A q \in Proc : q # p => tasks'[q] = tasks[q]
    BY <1>2, <2>3
  <2> QED BY <1>4, <2>2, <2>4
<1>5. CASE GetFails(p, t)
  <2> DEFINE u == [t EXCEPT !.pc = "post"]
  <2>2. u \in Task /\ u.cmd = t.cmd /\ u.pc = "post" /\ u.gen = t.gen /\ u.kind = t.kind
    BY <1>1 DEF Task, Verdict
  <2>3. Update(p, t, u)
    BY <1>5 DEF GetFails
  <2> HIDE DEF u
  <2>4. tasks'[p] = (tasks[p] \ {t}) \union {u} /\ \A q \in Proc : q # p => tasks'[q] = tasks[q]
    BY <1>2, <2>3
  <2> QED BY <1>5, <2>2, <2>4
<1>6. CASE ExecDone(p, t)
  <2> DEFINE u == [t EXCEPT !.pc = "post", !.kind = "executed"]
  <2>2. u \in Task /\ u.cmd = t.cmd /\ u.pc = "post" /\ u.gen = t.gen /\ u.kind = "executed"
    BY <1>1 DEF Task, Verdict
  <2>3. Update(p, t, u)
    BY <1>6 DEF ExecDone
  <2> HIDE DEF u
  <2>4. tasks'[p] = (tasks[p] \ {t}) \union {u} /\ \A q \in Proc : q # p => tasks'[q] = tasks[q]
    BY <1>2, <2>3
  <2> QED BY <1>6, <2>2, <2>4
<1>7. CASE PostArrives(p, t)
  <2>1. PICK a \in Verdict : /\ Handled(p, t, a)
                            /\ Update(p, t, [t EXCEPT !.pc = "posted", !.verdict = a])
    BY <1>7 DEF PostArrives
  <2> DEFINE u == [t EXCEPT !.pc = "posted", !.verdict = a]
  <2>2. u \in Task /\ u.verdict = a /\ u.cmd = t.cmd /\ u.pc = "posted" /\ u.gen = t.gen /\ u.kind = t.kind
    BY <1>1 DEF Task, Verdict
  <2>3. Update(p, t, u)
    BY <2>1
  <2> HIDE DEF u
  <2>4. tasks'[p] = (tasks[p] \ {t}) \union {u} /\ \A q \in Proc : q # p => tasks'[q] = tasks[q]
    BY <1>2, <2>3
  <2> QED BY <1>7, <2>1, <2>2, <2>4
<1>8. CASE PostRetried(p, t)
  BY <1>8 DEF PostRetried
<1>9. CASE PostGivesUp(p, t)
  <2> DEFINE u == [t EXCEPT !.pc = "posted", !.verdict = "error"]
  <2>2. u \in Task /\ u.verdict = "error" /\ u.cmd = t.cmd /\ u.pc = "posted" /\ u.gen = t.gen /\ u.kind = t.kind
    BY <1>1 DEF Task, Verdict
  <2>3. Update(p, t, u)
    BY <1>9 DEF PostGivesUp
  <2> HIDE DEF u
  <2>4. tasks'[p] = (tasks[p] \ {t}) \union {u} /\ \A q \in Proc : q # p => tasks'[q] = tasks[q]
    BY <1>2, <2>3
  <2> QED BY <1>9, <2>2, <2>4
<1>10. CASE GetConflict(p, t) \/ PostReturns(p, t)
  BY <1>3, <1>10 DEF GetConflict, PostReturns
<1> QED BY <1>4, <1>5, <1>6, <1>7, <1>8, <1>9, <1>10 DEF Moves

LEMMA PresentStep ==
  ASSUME TypeOK, Present, [Next]_vars
  PROVE  Present' /\ \A q \in Proc : tasks[q] # {} => inst'[q] = inst[q]
<1> USE DEF life
<1>1. CASE StartStep
  <2>1. PICK p \in Proc, c \in Command : Starts(p, c)
    BY <1>1 DEF StartStep
  <2>2. UNCHANGED <<status, recovered, inst>> /\ (status[p] = "serving" \/ c \in todo[p])
        /\ \A q \in Proc : todo'[q] \subseteq todo[q]
    BY <2>1 DEF Starts, TypeOK
  <2>3. \A q \in Proc : q # p => tasks'[q] = tasks[q]
    BY <2>1, StartTasks DEF Starts
  <2> QED BY <2>2, <2>3 DEF Present
<1>2. CASE CallStep
  <2> PICK p \in Proc : \E t \in tasks[p] : Moves(p, t)
    BY <1>2 DEF CallStep
  <2>1. PICK t \in tasks[p] : Moves(p, t)
    OBVIOUS
  <2>2. UNCHANGED <<status, recovered, inst, todo>>
    BY <2>1, LeavesAlone
  <2>3. \A q \in Proc : q # p => tasks'[q] = tasks[q]
    BY <2>1, MovesTasks
  <2> QED BY <2>2, <2>3 DEF Present
<1>3. CASE LoadStep
  <2>1. UNCHANGED <<recovered, inst, todo, tasks>> /\ \A q \in Proc : status'[q] \in {status[q], "recovering"}
    BY <1>3 DEF LoadStep, Loads, work
  <2> QED BY <2>1 DEF Present
<1>4. CASE PassStep \/ AgeStep
  <2>1. UNCHANGED <<recovered, inst, todo, tasks, status>>
    BY <1>4, LeavesAlone DEF work
  <2> QED BY <2>1 DEF Present
<1>5. CASE DieStep
  <2>1. PICK p \in Proc : Dies(p)
    BY <1>5 DEF DieStep
  <2>2. /\ tasks'[p] = {} /\ todo'[p] = {} /\ status'[p] = "down" /\ UNCHANGED inst
        /\ recovered' = recovered \ {p}
        /\ \A q \in Proc : q # p => tasks'[q] = tasks[q] /\ todo'[q] = todo[q] /\ status'[q] = status[q]
    BY <2>1 DEF Dies, TypeOK
  <2> QED BY <2>2 DEF Present
<1>6. CASE Quiet
  <2>1. ASSUME NEW c \in Command, Revoke(c) \/ TimeOut(c) PROVE UNCHANGED <<recovered, inst, todo, tasks, status>>
    BY <2>1 DEF Revoke, TimeOut, work
  <2>2. UNCHANGED vars => UNCHANGED <<recovered, inst, todo, tasks, status>>
    BY DEF vars, work
  <2>3. UNCHANGED <<recovered, inst, todo, tasks, status>> => Present' /\ \A q \in Proc : tasks[q] # {} => inst'[q] = inst[q]
    BY DEF Present
  <2> QED BY <1>6, <2>1, <2>2, <2>3, RestPresent DEF Quiet
<1> QED BY <1>1, <1>2, <1>3, <1>4, <1>5, <1>6, Kinds

-----------------------------------------------------------------------------
(* What the steps do to the files and the passes.                          *)

LEMMA MovesFiles ==
  ASSUME TypeOK, OwnGeneration, NEW p \in Proc, NEW t \in tasks[p], Moves(p, t)
  PROVE  /\ UNCHANGED <<flush, draining, recovered, timer, status, inst>>
         /\ \A h \in Host : h # HostOf[p] => disk'[h] = disk[h]
         /\ \/ UNCHANGED disk
            \/ PostReturns(p, t) /\ disk'[HostOf[p]] = Without(HostOf[p], t.cmd) /\ t.verdict \in MainPathDrops
            \/ \E f \in File :
                 /\ disk'[HostOf[p]] = Without(HostOf[p], t.cmd) \union {f}
                 /\ f.cmd = t.cmd /\ f.inst = Me(p) /\ f.run = t.gen /\ f.gen = t.gen /\ f.age = "fresh"
                 /\ \/ GetFails(p, t) /\ f.kind = "fetchError"
                    \/ ExecDone(p, t) /\ f.kind = "executed"
<1> USE DEF life
<1>1. /\ t.cmd \in Command /\ HostOf[p] \in Host /\ genOf[p][t.cmd] = t.gen /\ t.gen \in 0 .. MaxGen
      /\ Me(p) \in Inst
  BY ConstantAssumption, MeType DEF TypeOK, Task, OwnGeneration
<1>2. UNCHANGED <<flush, draining, recovered, timer, status, inst>>
  BY DEF Moves, GetGranted, GetConflict, GetFails, ExecDone, PostArrives, PostRetried,
         PostGivesUp, PostReturns
<1>3. ASSUME NEW kind \in {"executed", "fetchError"}, disk' = Saved(p, t.cmd, kind, t.gen, t.gen)
      PROVE  /\ \A h \in Host : h # HostOf[p] => disk'[h] = disk[h]
             /\ \E f \in File :
                  /\ disk'[HostOf[p]] = Without(HostOf[p], t.cmd) \union {f}
                  /\ f.cmd = t.cmd /\ f.inst = Me(p) /\ f.run = t.gen /\ f.gen = t.gen /\ f.age = "fresh"
                  /\ f.kind = kind
  <2> DEFINE f == [cmd |-> t.cmd, kind |-> kind, inst |-> Me(p), run |-> t.gen, gen |-> t.gen, age |-> "fresh"]
  <2>1. f \in File /\ f.cmd = t.cmd /\ f.inst = Me(p) /\ f.run = t.gen /\ f.gen = t.gen /\ f.age = "fresh"
        /\ f.kind = kind
    BY <1>1 DEF File
  <2>2. disk' = [disk EXCEPT ![HostOf[p]] = Without(HostOf[p], t.cmd) \union {f}]
    BY <1>3 DEF Saved
  <2> HIDE DEF f
  <2>3. /\ disk'[HostOf[p]] = Without(HostOf[p], t.cmd) \union {f}
        /\ \A h \in Host : h # HostOf[p] => disk'[h] = disk[h]
    BY <1>1, <2>2 DEF TypeOK
  <2> QED BY <2>1, <2>3
<1>4. ASSUME UNCHANGED disk PROVE \A h \in Host : h # HostOf[p] => disk'[h] = disk[h]
  BY <1>4
<1>5. CASE GetGranted(p, t) \/ GetConflict(p, t) \/ PostArrives(p, t) \/ PostRetried(p, t) \/ PostGivesUp(p, t)
  <2>1. UNCHANGED disk
    BY <1>5 DEF GetGranted, GetConflict, PostArrives, PostRetried, PostGivesUp
  <2> QED BY <1>2, <1>4, <2>1
<1>6. CASE GetFails(p, t)
  <2>1. disk' = Saved(p, t.cmd, "fetchError", t.gen, t.gen) \/ UNCHANGED disk
    BY <1>1, <1>6 DEF GetFails
  <2>2. CASE disk' = Saved(p, t.cmd, "fetchError", t.gen, t.gen)
    BY <1>2, <1>3, <1>6, <2>2
  <2> QED BY <1>2, <1>4, <2>1, <2>2
<1>7. CASE ExecDone(p, t)
  <2>1. disk' = Saved(p, t.cmd, "executed", t.gen, t.gen) \/ UNCHANGED disk
    BY <1>1, <1>7 DEF ExecDone
  <2>2. CASE disk' = Saved(p, t.cmd, "executed", t.gen, t.gen)
    BY <1>2, <1>3, <1>7, <2>2
  <2> QED BY <1>2, <1>4, <2>1, <2>2
<1>8. CASE PostReturns(p, t)
  <2>1. UNCHANGED disk \/ (disk' = Removed(HostOf[p], t.cmd) /\ t.verdict \in MainPathDrops)
    BY <1>8 DEF PostReturns
  <2>2. ASSUME disk' = Removed(HostOf[p], t.cmd)
        PROVE  /\ disk'[HostOf[p]] = Without(HostOf[p], t.cmd)
               /\ \A h \in Host : h # HostOf[p] => disk'[h] = disk[h]
    BY <1>1, <2>2 DEF Removed, TypeOK
  <2> QED BY <1>2, <1>4, <1>8, <2>1, <2>2
<1> QED BY <1>5, <1>6, <1>7, <1>8 DEF Moves

\* A pass that begins works from snapshots of files it leaves on the disk.
LEMMA LoadMoves ==
  ASSUME TypeOK, NEW p \in Proc, NEW k \in Pass, Loads(p, k)
  PROVE  /\ \A q \in Proc, j \in Pass : <<q, j>> # <<p, k>> => flush'[q][j] = flush[q][j]
         /\ \A h \in Host : disk'[h] \subseteq disk[h]
         /\ flush'[p][k].sent = {} /\ flush'[p][k].verdict = "none"
         /\ \A g \in flush'[p][k].queue : \E f \in Eligible(p, k) : g = Snapshot(f)
         /\ "unreadable" \notin Faults =>
              \A h \in Host : \A f \in disk[h] : f.age # "stale" => f \in disk'[h]
<1>1. PICK bad \in SUBSET disk[HostOf[p]] :
        LET gone == bad \union {f \in disk[HostOf[p]] : f.age = "stale"} IN
          /\ bad = {} \/ "unreadable" \in Faults
          /\ flush' = [flush EXCEPT ![p][k].queue = {Snapshot(f) : f \in Eligible(p, k) \ gone}]
          /\ disk' = [disk EXCEPT ![HostOf[p]] = @ \ gone]
  BY DEF Loads, FlushLoad, Fault
<1> DEFINE gone == bad \union {f \in disk[HostOf[p]] : f.age = "stale"}
           Q == {Snapshot(f) : f \in Eligible(p, k) \ gone}
<1>2. flush[p][k] = NoFlush /\ HostOf[p] \in Host
  BY ConstantAssumption DEF Loads, FlushLoad, Idle
<1>3. flush' = [flush EXCEPT ![p][k].queue = Q] /\ disk' = [disk EXCEPT ![HostOf[p]] = @ \ gone]
  BY <1>1
<1>4. \A g \in Q : \E f \in Eligible(p, k) : g = Snapshot(f)
  OBVIOUS
<1>5. "unreadable" \notin Faults => \A f \in disk[HostOf[p]] : f.age # "stale" => f \notin gone
  BY <1>1
<1> HIDE DEF Q, gone
<1>6. /\ \A q \in Proc, j \in Pass : <<q, j>> # <<p, k>> => flush'[q][j] = flush[q][j]
      /\ flush'[p][k].sent = {} /\ flush'[p][k].verdict = "none" /\ flush'[p][k].queue = Q
  <2>1. flush \in [Proc -> [Pass -> FlushState]]
    BY DEF TypeOK
  <2>2. flush[p][k].sent = {} /\ flush[p][k].verdict = "none"
    BY <1>2 DEF NoFlush
  <2> QED BY <1>3, <2>1, <2>2 DEF FlushState
<1>7. /\ \A h \in Host : h # HostOf[p] => disk'[h] = disk[h]
      /\ disk'[HostOf[p]] = disk[HostOf[p]] \ gone
  BY <1>2, <1>3 DEF TypeOK
<1> QED BY <1>4, <1>5, <1>6, <1>7

\* A step of a pass moves one result on, or takes down the verdict on it.
LEMMA PassMoves ==
  ASSUME TypeOK, NEW p \in Proc, NEW k \in Pass, RunPass(p, k)
  PROVE  /\ \A q \in Proc, j \in Pass : <<q, j>> # <<p, k>> => flush'[q][j] = flush[q][j]
         /\ UNCHANGED <<work, history, life, todo>>
         /\ \/ UNCHANGED disk
            \/ \E f \in flush[p][k].sent :
                 /\ FlushReturns(p, k)
                 /\ flush[p][k].verdict \in FlushDrops /\ disk' = Removed(HostOf[p], f.cmd)
         /\ \/ UNCHANGED flush
            \/ \E f \in flush[p][k].queue :
                 /\ flush[p][k].sent = {} /\ flush'[p][k].queue = flush[p][k].queue \ {f}
                 /\ flush'[p][k].sent = {f} /\ flush'[p][k].verdict = flush[p][k].verdict
            \/ \E f \in flush[p][k].sent :
                 /\ flush'[p][k].queue = flush[p][k].queue /\ flush'[p][k].sent = flush[p][k].sent
                 /\ \/ FlushHandled(f, flush'[p][k].verdict)
                    \/ flush'[p][k].verdict = "error"
                    \/ flush'[p][k].verdict = "limited" /\ "limit" \in Faults
            \/ /\ flush'[p][k].queue = flush[p][k].queue /\ flush'[p][k].sent = {}
               /\ flush'[p][k].verdict = "none"
<1> USE DEF work, history, life
<1>1. flush \in [Proc -> [Pass -> FlushState]] /\ flush[p] \in [Pass -> FlushState] /\ flush[p][k] \in FlushState
  BY DEF TypeOK
<1>2. CASE FlushNext(p, k)
  <2>1. PICK f \in flush[p][k].queue :
          flush' = [flush EXCEPT ![p][k].queue = @ \ {f}, ![p][k].sent = {f}]
    BY <1>2 DEF FlushNext
  <2>2. /\ \A q \in Proc, j \in Pass : <<q, j>> # <<p, k>> => flush'[q][j] = flush[q][j]
        /\ flush'[p][k].queue = flush[p][k].queue \ {f}
        /\ flush'[p][k].sent = {f} /\ flush'[p][k].verdict = flush[p][k].verdict
    BY <1>1, <2>1 DEF FlushState
  <2> QED BY <1>2, <2>2 DEF FlushNext
<1>3. CASE FlushArrives(p, k)
  <2>1. PICK f \in flush[p][k].sent, a \in Verdict :
          FlushHandled(f, a) /\ flush' = [flush EXCEPT ![p][k].verdict = a]
    BY <1>3 DEF FlushArrives
  <2>2. /\ \A q \in Proc, j \in Pass : <<q, j>> # <<p, k>> => flush'[q][j] = flush[q][j]
        /\ flush'[p][k].queue = flush[p][k].queue
        /\ flush'[p][k].sent = flush[p][k].sent /\ flush'[p][k].verdict = a
    BY <1>1, <2>1 DEF FlushState
  <2>3. FlushHandled(f, flush'[p][k].verdict)
    BY <2>1, <2>2
  <2> QED BY <1>3, <2>2, <2>3 DEF FlushArrives
<1>4. CASE FlushRetried(p, k)
  BY <1>4 DEF FlushRetried
<1>5. CASE FlushGivesUp(p, k)
  <2>1. PICK v \in {"error", "limited"} :
          flush' = [flush EXCEPT ![p][k].verdict = v] /\ (v = "limited" => "limit" \in Faults)
    BY <1>5 DEF FlushGivesUp, Fault
  <2>2. /\ \A q \in Proc, j \in Pass : <<q, j>> # <<p, k>> => flush'[q][j] = flush[q][j]
        /\ flush'[p][k].queue = flush[p][k].queue
        /\ flush'[p][k].sent = flush[p][k].sent /\ flush'[p][k].verdict = v
    BY <1>1, <2>1 DEF FlushState
  <2>3. PICK f \in flush[p][k].sent : TRUE
    BY <1>5 DEF FlushGivesUp
  <2> QED BY <1>5, <2>1, <2>2, <2>3 DEF FlushGivesUp
<1>6. CASE FlushReturns(p, k)
  <2>1. PICK f \in flush[p][k].sent :
          disk' = IF flush[p][k].verdict \in FlushDrops THEN Removed(HostOf[p], f.cmd) ELSE disk
    BY <1>6 DEF FlushReturns
  <2>2. /\ \A q \in Proc, j \in Pass : <<q, j>> # <<p, k>> => flush'[q][j] = flush[q][j]
        /\ flush'[p][k].queue = flush[p][k].queue
        /\ flush'[p][k].sent = {} /\ flush'[p][k].verdict = "none"
    BY <1>1, <1>6 DEF FlushReturns, FlushState
  <2>3. UNCHANGED <<work, history, life, todo>>
    BY <1>6 DEF FlushReturns
  <2> QED BY <1>6, <2>1, <2>2, <2>3
<1> QED BY <1>2, <1>3, <1>4, <1>5, <1>6 DEF RunPass

-----------------------------------------------------------------------------
(* Soundness is an invariant.                                              *)

LEMMA InitSound == Init => Sound
BY DEF Init, Sound, Present, CallsSound, FilesSound, PassesSound, GrantsSound, Assigned,
       PassSound, NoFlush, Pass

\* An answer to a request that carried generation g.
LEMMA AnswerMeans ==
  ASSUME TypeOK, NEW c \in Command, NEW i, NEW g, NEW named \in BOOLEAN, NEW a, NEW r,
         a \in Answers(c, i, g, named),
         srvResult' = IF a = "ok" THEN Record(c, r) ELSE srvResult,
         UNCHANGED <<srvOwner, srvGen>>
  PROVE  /\ a = "ok" => srvResult'[c] # {} /\ ~Fenced(c, i, g)
         /\ a = "fenced" /\ g # 0 => Lost(c, i, g) /\ Lost(c, i, g)'
         /\ named = FALSE => a \in {"ok", "fenced"}
<1>4. named = FALSE => a \in {"ok", "fenced"}
  BY DEF Answers
<1>1. a = "ok" => srvResult'[c] # {} /\ ~Fenced(c, i, g)
  BY DEF Record, TypeOK, Answers
<1>2. a = "fenced" /\ g # 0 => Lost(c, i, g)
  BY DEF Answers, Fenced, Lost
<1>3. Lost(c, i, g) => Lost(c, i, g)'
  BY DEF Lost
<1> QED BY <1>1, <1>2, <1>3, <1>4

LEMMA AssignedStep == ASSUME TypeOK, Assigned, ServerMoves PROVE Assigned'
<1>1. \A c \in Command : srvGen[c] \in Nat
  BY ConstantAssumption DEF TypeOK
<1> QED BY <1>1 DEF Assigned, ServerMoves

LEMMA CallsSoundStep ==
  ASSUME TypeOK, OwnGeneration, Sound, [Next]_vars, TypeOK'
  PROVE  CallsSound'
<1>1. ServerMoves /\ finished \subseteq finished'
  BY ServerStep, HistoryGrows
<1>2. Present' /\ \A q \in Proc : tasks[q] # {} => inst'[q] = inst[q]
  BY PresentStep DEF Sound
<1>3. ASSUME NEW q \in Proc, NEW s \in tasks[q] PROVE CallSound(q, s)'
  <2>1. inst'[q] = inst[q] /\ s \in Task /\ CallSound(q, s)
    BY <1>2 DEF TypeOK, Sound, CallsSound
  <2> QED BY <1>1, <2>1, CallStays
<1>4. CASE StartStep
  <2>1. PICK p \in Proc, c \in Command : Starts(p, c)
    BY <1>4 DEF StartStep
  <2>2. PICK u \in Task : /\ tasks'[p] = tasks[p] \union {u}
                          /\ u.cmd = c /\ u.pc = "get" /\ u.gen = 0 /\ u.kind = "fetchError"
    BY <2>1, StartTasks DEF Starts
  <2>3. \A q \in Proc : q # p => tasks'[q] = tasks[q]
    BY <2>1, StartTasks DEF Starts
  <2>4. c \in Serves[p]
    BY <2>1 DEF Starts, Sound, Present
  <2>5. CallSound(p, u)'
    BY <2>2, <2>4 DEF CallSound
  <2> QED BY <1>3, <2>2, <2>3, <2>5 DEF CallsSound
<1>5. CASE CallStep
  <2> PICK p \in Proc : \E t \in tasks[p] : Moves(p, t)
    BY <1>5 DEF CallStep
  <2>1. PICK t \in tasks[p] : Moves(p, t)
    OBVIOUS
  <2>2. \A q \in Proc : q # p => tasks'[q] = tasks[q]
    BY <2>1, MovesTasks
  <2>3. ASSUME tasks'[p] \subseteq tasks[p] PROVE CallsSound'
    BY <1>3, <2>2, <2>3 DEF CallsSound
  <2>4. ASSUME NEW u \in Task, tasks'[p] = (tasks[p] \ {t}) \union {u}, CallSound(p, u)' PROVE CallsSound'
    BY <1>3, <2>2, <2>4 DEF CallsSound
  <2>5. /\ t \in Task /\ t.cmd \in Command /\ t.gen \in 0 .. MaxGen /\ genOf[p][t.cmd] = t.gen
        /\ CallSound(p, t) /\ CallSound(p, t)'
    BY <1>3 DEF TypeOK, Task, OwnGeneration, Sound, CallsSound
  <2>6. PICK i \in Inst : i = Me(p) /\ Me(p)' = i
    BY <1>2, MeType DEF Me
  <2>7. ASSUME NEW u \in Task, tasks'[p] = (tasks[p] \ {t}) \union {u}, u.cmd = t.cmd,
               GetGranted(p, t), u.pc = "run", u.gen = srvGen'[t.cmd], u.kind = t.kind
        PROVE  CallsSound'
    <3>1. t.kind = "fetchError" /\ srvGen[t.cmd] \in Nat /\ srvGen'[t.cmd] \in Nat
      BY <2>5, <2>7, ConstantAssumption DEF CallSound, TypeOK, GetGranted
    <3>2. srvOwner'[t.cmd] = i /\ srvGen'[t.cmd] > 0
      BY <2>5, <2>6, <2>7, <3>1, ConstantAssumption DEF GetGranted, Sound, Assigned, TypeOK
    <3>3. Granted(t.cmd, i, u.gen)'
      BY <2>7, <3>1, <3>2 DEF Granted
    <3>4. CallSound(p, u)'
      BY <2>5, <2>6, <2>7, <3>1, <3>2, <3>3 DEF CallSound
    <3> QED BY <2>4, <2>7, <3>4
  <2>8. ASSUME NEW u \in Task, tasks'[p] = (tasks[p] \ {t}) \union {u}, u.cmd = t.cmd,
               GetFails(p, t), u.pc = "post", u.gen = t.gen, u.kind = t.kind
        PROVE  CallsSound'
    <3>1. t.kind = "fetchError" /\ t.gen = 0
      BY <2>5, <2>8 DEF CallSound, GetFails
    <3>2. CallSound(p, u)'
      BY <2>5, <2>8, <3>1 DEF CallSound
    <3> QED BY <2>4, <2>8, <3>2
  <2>9. ASSUME NEW u \in Task, tasks'[p] = (tasks[p] \ {t}) \union {u}, u.cmd = t.cmd,
               ExecDone(p, t), u.pc = "post", u.gen = t.gen, u.kind = "executed"
        PROVE  CallsSound'
    <3>1. PICK saved \in BOOLEAN : finished' = finished \union
              {[cmd |-> t.cmd, inst |-> Me(p), gen |-> t.gen, saved |-> saved]}
      BY <2>9 DEF ExecDone
    <3> DEFINE e == [cmd |-> t.cmd, inst |-> i, gen |-> t.gen, saved |-> saved]
    <3>5. e \in finished' /\ e.cmd = t.cmd /\ e.inst = i /\ e.gen = t.gen
      BY <2>6, <3>1
    <3> HIDE DEF e
    <3>2. Finished(t.cmd, i, t.gen)'
      BY <3>5 DEF Finished
    <3>3. t.gen > 0 /\ Granted(t.cmd, i, t.gen)'
      BY <2>5, <2>6, <2>9 DEF CallSound, ExecDone
    <3>4. CallSound(p, u)'
      BY <2>5, <2>6, <2>9, <3>2, <3>3 DEF CallSound
    <3> QED BY <2>4, <2>9, <3>4
  <2>10. ASSUME NEW u \in Task, tasks'[p] = (tasks[p] \ {t}) \union {u}, u.cmd = t.cmd,
               PostArrives(p, t), u.pc = "posted", u.gen = t.gen, u.kind = t.kind,
               Handled(p, t, u.verdict)
        PROVE  CallsSound'
    <3>1. /\ u.verdict = "ok" => srvResult'[t.cmd] # {}
          /\ u.verdict = "fenced" /\ t.gen # 0 => Lost(t.cmd, i, t.gen)'
      BY <2>5, <2>6, <2>10, AnswerMeans DEF Handled
    <3>2. CallSound(p, u)'
      BY <2>5, <2>6, <2>10, <3>1 DEF CallSound, PostArrives
    <3> QED BY <2>4, <2>10, <3>2
  <2>11. ASSUME NEW u \in Task, tasks'[p] = (tasks[p] \ {t}) \union {u}, u.cmd = t.cmd,
               PostGivesUp(p, t), u.pc = "posted", u.gen = t.gen, u.kind = t.kind, u.verdict = "error"
        PROVE  CallsSound'
    <3>1. CallSound(p, u)'
      BY <2>5, <2>6, <2>11 DEF CallSound, PostGivesUp
    <3> QED BY <2>4, <2>11, <3>1
  <2>12. CASE UNCHANGED tasks \/ tasks'[p] = tasks[p] \ {t}
    BY <2>3, <2>12
  <2> QED BY <2>1, <2>7, <2>8, <2>9, <2>10, <2>11, <2>12, MovesTasks
<1>6. CASE LoadStep \/ PassStep \/ AgeStep
  <2>1. UNCHANGED tasks
    BY <1>6, LeavesAlone DEF work
  <2> QED BY <1>3, <2>1 DEF CallsSound
<1>7. CASE DieStep
  <2>1. PICK p \in Proc : Dies(p)
    BY <1>7 DEF DieStep
  <2>2. tasks'[p] = {} /\ \A q \in Proc : q # p => tasks'[q] = tasks[q]
    BY <2>1 DEF Dies, TypeOK
  <2> QED BY <1>3, <2>2 DEF CallsSound
<1>8. CASE Quiet
  BY <1>3, <1>8, QuietLeaves DEF CallsSound, work
<1> QED BY <1>4, <1>5, <1>6, <1>7, <1>8, Kinds

LEMMA FilesSoundStep ==
  ASSUME TypeOK, OwnGeneration, Sound, [Next]_vars, TypeOK'
  PROVE  FilesSound'
<1>1. ServerMoves /\ finished \subseteq finished'
  BY ServerStep, HistoryGrows
<1>2. ASSUME NEW h \in Host, NEW f \in disk[h] PROVE FileSound(f)'
  <2>1. f \in File /\ FileSound(f)
    BY DEF TypeOK, Sound, FilesSound
  <2> QED BY <1>1, <2>1, FileStays
<1>3. ASSUME \A h \in Host : disk'[h] \subseteq disk[h] PROVE FilesSound'
  BY <1>2, <1>3 DEF FilesSound
<1>4. CASE StartStep \/ DieStep \/ Quiet
  <2>1. UNCHANGED disk
    BY <1>4, QuietLeaves DEF StartStep, Starts, DieStep, Dies
  <2> QED BY <1>3, <2>1
<1>5. CASE CallStep
  <2> PICK p \in Proc : \E t \in tasks[p] : Moves(p, t)
    BY <1>5 DEF CallStep
  <2>1. PICK t \in tasks[p] : Moves(p, t)
    OBVIOUS
  <2>2. \A h \in Host : h # HostOf[p] => disk'[h] = disk[h]
    BY <2>1, MovesFiles
  <2>3. CASE \A h \in Host : disk'[h] \subseteq disk[h]
    BY <1>3, <2>3
  <2>4. ASSUME NEW f \in File, disk'[HostOf[p]] = Without(HostOf[p], t.cmd) \union {f},
               f.cmd = t.cmd, f.inst = Me(p), f.run = t.gen, f.gen = t.gen, f.age = "fresh",
               \/ GetFails(p, t) /\ f.kind = "fetchError"
               \/ ExecDone(p, t) /\ f.kind = "executed"
        PROVE  FilesSound'
    <3>1. CallSound(p, t) /\ t.gen \in 0 .. MaxGen
      BY DEF Sound, CallsSound, TypeOK, Task
    <3>2. CASE GetFails(p, t) /\ f.kind = "fetchError"
      <4>1. FileSound(f)'
        BY <2>4, <3>1, <3>2 DEF CallSound, GetFails, FileSound, CopySound
      <4> QED BY <1>2, <2>2, <2>4, <4>1 DEF FilesSound, Without
    <3>3. CASE ExecDone(p, t) /\ f.kind = "executed"
      <4>1. PICK saved \in BOOLEAN : finished' = finished \union
              {[cmd |-> t.cmd, inst |-> Me(p), gen |-> t.gen, saved |-> saved]}
        BY <3>3 DEF ExecDone
      <4> DEFINE e == [cmd |-> t.cmd, inst |-> Me(p), gen |-> t.gen, saved |-> saved]
      <4>2. e \in finished' /\ e.cmd = f.cmd /\ e.inst = f.inst /\ e.gen = f.gen
        BY <2>4, <4>1
      <4> HIDE DEF e
      <4>3. Finished(f.cmd, f.inst, f.gen)'
        BY <4>2 DEF Finished
      <4>4. FileSound(f)'
        BY <2>4, <3>1, <3>3, <4>3 DEF CallSound, ExecDone, FileSound, CopySound
      <4> QED BY <1>2, <2>2, <2>4, <4>4 DEF FilesSound, Without
    <3> QED BY <2>4, <3>2, <3>3
  <2>5. UNCHANGED disk \/ disk'[HostOf[p]] = Without(HostOf[p], t.cmd) => \A h \in Host : disk'[h] \subseteq disk[h]
    BY <2>2 DEF Without
  <2> QED BY <2>1, <2>3, <2>4, <2>5, MovesFiles
<1>6. CASE LoadStep
  <2>1. PICK p \in Proc, k \in Pass : Loads(p, k)
    BY <1>6 DEF LoadStep
  <2> QED BY <1>3, <2>1, LoadMoves
<1>7. CASE PassStep
  <2>1. PICK p \in Proc, k \in Pass : RunPass(p, k)
    BY <1>7 DEF PassStep
  <2>2. ASSUME NEW c, disk' = Removed(HostOf[p], c) PROVE \A h \in Host : disk'[h] \subseteq disk[h]
    BY <2>2 DEF Removed, Without, TypeOK
  <2> QED BY <1>3, <2>1, <2>2, PassMoves
<1>8. CASE AgeStep
  <2>1. PICK h \in Host : \E f \in disk[h] : Age(h, f)
    BY <1>8 DEF AgeStep
  <2>2. PICK f \in disk[h] : Age(h, f)
    BY <2>1
  <2>3. PICK older \in {"aged", "stale"} :
          /\ older = "stale" => srvResult[f.cmd] # {}
          /\ disk' = [disk EXCEPT ![h] = (@ \ {f}) \union {[f EXCEPT !.age = older]}]
          /\ UNCHANGED <<server, history>>
    BY <2>2 DEF Age
  <2> DEFINE g == [f EXCEPT !.age = older]
  <2>4. f \in File /\ FileSound(f)
    BY DEF TypeOK, Sound, FilesSound
  <2>5. /\ g.cmd = f.cmd /\ g.kind = f.kind /\ g.inst = f.inst /\ g.run = f.run /\ g.gen = f.gen
        /\ g.age = older
    BY <2>4 DEF File
  <2>6. /\ \A i \in Host : i # h => disk'[i] = disk[i]
        /\ disk'[h] = (disk[h] \ {f}) \union {g}
    BY <2>3 DEF TypeOK
  <2> HIDE DEF g
  <2>7. FileSound(g)'
    BY <2>3, <2>4, <2>5 DEF FileSound, CopySound, Finished, server, history
  <2> QED BY <1>2, <2>6, <2>7 DEF FilesSound
<1> QED BY <1>4, <1>5, <1>6, <1>7, <1>8, Kinds

LEMMA PassesSoundStep ==
  ASSUME TypeOK, Sound, [Next]_vars, TypeOK'
  PROVE  PassesSound'
<1>1. ServerMoves /\ finished \subseteq finished'
  BY ServerStep, HistoryGrows
<1>2. ASSUME NEW q \in Proc, NEW j \in Pass, NEW s, s = flush[q][j] PROVE PassSound(s)'
  <2>1. s \in FlushState /\ PassSound(s) /\ GrantsSound
    BY <1>2 DEF TypeOK, Sound, PassesSound
  <2> QED BY <1>1, <2>1, PassStays
<1>3. ASSUME NEW q \in Proc, NEW j \in Pass, flush'[q][j] = flush[q][j] PROVE PassSound(flush[q][j])'
  <2>1. PICK s : s = flush[q][j] /\ s = flush'[q][j]
    BY <1>3
  <2>2. PassSound(s)'
    BY <1>2, <2>1
  <2> QED BY <2>1, <2>2 DEF PassSound
<1>4. CASE UNCHANGED flush
  BY <1>3, <1>4 DEF PassesSound
<1>5. CASE StartStep \/ AgeStep \/ Quiet
  <2>1. UNCHANGED flush
    BY <1>5, QuietLeaves DEF StartStep, Starts, AgeStep, Age
  <2> QED BY <1>4, <2>1
<1>6. CASE CallStep
  <2>1. UNCHANGED flush
    BY <1>6, LeavesAlone DEF CallStep
  <2> QED BY <1>4, <2>1
<1>7. CASE DieStep
  <2>1. PICK p \in Proc : Dies(p)
    BY <1>7 DEF DieStep
  <2>2. /\ \A q \in Proc : q # p => flush'[q] = flush[q]
        /\ \A k \in Pass : flush'[p][k] = NoFlush
    BY <2>1 DEF Dies, TypeOK
  <2>3. \A k \in Pass : PassSound(flush[p][k])'
    BY <2>2 DEF PassSound, NoFlush
  <2> QED BY <1>3, <2>2, <2>3 DEF PassesSound
<1>8. CASE LoadStep
  <2>1. PICK p \in Proc, k \in Pass : Loads(p, k)
    BY <1>8 DEF LoadStep
  <2>2. /\ \A q \in Proc, j \in Pass : <<q, j>> # <<p, k>> => flush'[q][j] = flush[q][j]
        /\ flush'[p][k].sent = {} /\ flush'[p][k].verdict = "none"
        /\ \A g \in flush'[p][k].queue : \E f \in Eligible(p, k) : g = Snapshot(f)
    BY <2>1, LoadMoves
  <2>3. ASSUME NEW g \in flush'[p][k].queue PROVE CopySound(g)'
    <3>1. PICK f \in disk[HostOf[p]] : g = Snapshot(f)
      BY <2>2 DEF Eligible
    <3>2. f \in File /\ CopySound(f)
      BY ConstantAssumption DEF TypeOK, Sound, FilesSound, FileSound
    <3>3. g.cmd = f.cmd /\ g.kind = f.kind /\ g.inst = f.inst /\ g.run = f.run /\ g.gen = f.gen
      BY <3>1, <3>2 DEF Snapshot, File
    <3>4. CopySound(g)
      BY <3>2, <3>3 DEF CopySound
    <3> QED BY <1>1, <3>4, CopyStays
  <2>4. PassSound(flush[p][k])'
    BY <2>2, <2>3 DEF PassSound
  <2> QED BY <1>3, <2>2, <2>4 DEF PassesSound
<1>9. CASE PassStep
  <2>1. PICK p \in Proc, k \in Pass : RunPass(p, k)
    BY <1>9 DEF PassStep
  <2>2. \A q \in Proc, j \in Pass : <<q, j>> # <<p, k>> => flush'[q][j] = flush[q][j]
    BY <2>1, PassMoves
  <2>3. ASSUME PassSound(flush[p][k])' PROVE PassesSound'
    BY <1>3, <2>2, <2>3 DEF PassesSound
  <2> PICK s \in FlushState : s = flush[p][k]
    BY DEF TypeOK
  <2>4. PassSound(s)' /\ PassSound(s)
    BY <1>2 DEF Sound, PassesSound
  <2>5. ASSUME NEW f \in s.queue, s.sent = {}, flush'[p][k].queue = s.queue \ {f},
               flush'[p][k].sent = {f}, flush'[p][k].verdict = s.verdict
        PROVE  PassesSound'
    <3>1. PassSound(flush[p][k])'
      BY <2>4, <2>5 DEF PassSound
    <3> QED BY <2>3, <3>1
  <2>6. ASSUME NEW f \in s.sent, flush'[p][k].queue = s.queue, flush'[p][k].sent = s.sent,
               \/ FlushHandled(f, flush'[p][k].verdict)
               \/ flush'[p][k].verdict = "error"
               \/ flush'[p][k].verdict = "limited" /\ "limit" \in Faults
        PROVE  PassesSound'
    <3>1. PICK a : a = flush'[p][k].verdict
      OBVIOUS
    <3>2. f \in File /\ f.cmd \in Command /\ \A g \in s.sent : g = f
      BY <2>4 DEF FlushState, File, PassSound
    <3>3. /\ a = "ok" => srvResult'[f.cmd] # {}
          /\ a = "fenced" /\ f.gen # 0 => Lost(f.cmd, f.inst, f.gen)'
          /\ a # "refused" /\ (a = "limited" => "limit" \in Faults)
      <4>1. CASE FlushHandled(f, a)
        <5>1. /\ a \in Answers(f.cmd, f.inst, f.gen, FALSE)
              /\ srvResult' = IF a = "ok" THEN Record(f.cmd, ResultOf(f.kind, f.inst, f.run)) ELSE srvResult
              /\ UNCHANGED <<srvOwner, srvGen>>
          BY <4>1 DEF FlushHandled
        <5>2. FALSE \in BOOLEAN
          OBVIOUS
        <5> QED BY <3>2, <5>1, <5>2, AnswerMeans
      <4> QED BY <2>6, <3>1, <4>1
    <3>4. PassSound(flush[p][k])'
      BY <2>4, <2>6, <3>1, <3>2, <3>3, ConstantAssumption DEF PassSound, File
    <3> QED BY <2>3, <3>4
  <2>7. ASSUME flush'[p][k].queue = s.queue, flush'[p][k].sent = {}, flush'[p][k].verdict = "none"
        PROVE  PassesSound'
    <3>1. PassSound(flush[p][k])'
      BY <2>4, <2>7 DEF PassSound
    <3> QED BY <2>3, <3>1
  <2> QED BY <1>4, <2>1, <2>5, <2>6, <2>7, PassMoves
<1> QED BY <1>4, <1>5, <1>6, <1>7, <1>8, <1>9, Kinds

LEMMA GrantsSoundStep ==
  ASSUME TypeOK, Sound, [Next]_vars
  PROVE  GrantsSound'
<1>1. ServerMoves
  BY ServerStep
<1>2. ASSUME NEW e \in finished PROVE e.gen > 0 /\ Granted(e.cmd, e.inst, e.gen)'
  <2>1. e.gen > 0 /\ Granted(e.cmd, e.inst, e.gen) /\ e.cmd \in Command /\ e.inst \in Inst /\ e.gen \in 0 .. MaxGen
    BY DEF Sound, GrantsSound, TypeOK
  <2> QED BY <1>1, <2>1, GrantStays
<1>3. CASE UNCHANGED finished
  BY <1>2, <1>3 DEF GrantsSound
<1>4. ASSUME NEW p \in Proc, NEW t \in tasks[p], ExecDone(p, t) PROVE GrantsSound'
  <2>1. PICK saved \in BOOLEAN : finished' = finished \union
          {[cmd |-> t.cmd, inst |-> Me(p), gen |-> t.gen, saved |-> saved]}
    BY <1>4 DEF ExecDone
  <2>2. PICK e : /\ finished' = finished \union {e}
                 /\ e = [cmd |-> t.cmd, inst |-> Me(p), gen |-> t.gen, saved |-> saved]
    BY <2>1
  <2>3. t.gen > 0 /\ Granted(t.cmd, Me(p), t.gen) /\ t.cmd \in Command /\ t.gen \in 0 .. MaxGen /\ Me(p) \in Inst
    BY <1>4, MeType DEF ExecDone, Sound, CallsSound, CallSound, TypeOK, Task
  <2>4. /\ e.gen > 0 /\ Granted(e.cmd, e.inst, e.gen)
        /\ e.cmd \in Command /\ e.inst \in Inst /\ e.gen \in 0 .. MaxGen
    BY <2>2, <2>3
  <2>5. Granted(e.cmd, e.inst, e.gen)'
    BY <1>1, <2>4, GrantStays
  <2> QED BY <1>2, <2>2, <2>4, <2>5 DEF GrantsSound
<1>5. StartStep \/ LoadStep \/ PassStep \/ DieStep \/ AgeStep => UNCHANGED finished
  BY LeavesAlone DEF history
<1>6. Quiet => UNCHANGED finished
  BY QuietLeaves DEF history
<1>7. ASSUME NEW p \in Proc, NEW t \in tasks[p], Moves(p, t) PROVE GrantsSound'
  BY <1>3, <1>4, <1>7, LeavesAlone
<1> QED BY <1>3, <1>5, <1>6, <1>7, Kinds DEF CallStep

LEMMA SoundStep ==
  ASSUME TypeOK, OwnGeneration, Sound, [Next]_vars, TypeOK'
  PROVE  Sound'
<1>1. Present' /\ Assigned'
  BY PresentStep, ServerStep, AssignedStep DEF Sound
<1> QED
  BY <1>1, CallsSoundStep, FilesSoundStep, PassesSoundStep, GrantsSoundStep DEF Sound

-----------------------------------------------------------------------------
(* The ledger.                                                             *)

\* The executions as the ledger sees them.
Runs == {[cmd |-> e.cmd, inst |-> e.inst, gen |-> e.gen] : e \in finished}

LEMMA LedgerStutters ==
  ASSUME UNCHANGED server, UNCHANGED finished
  PROVE  [Ledger!Next]_(Ledger!vars)
BY DEF server, Ledger!vars

LEMMA LedgerAssigns ==
  ASSUME TypeOK, NEW c \in Command, NEW i \in Inst,
         srvResult[c] = {}, srvOwner[c] = NoInst,
         srvOwner' = [srvOwner EXCEPT ![c] = i], srvGen' = [srvGen EXCEPT ![c] = @ + 1],
         UNCHANGED <<srvResult, finished>>
  PROVE  [Ledger!Next]_(Ledger!vars)
<1>1. Ledger!Assign(c, i)
  BY DEF Ledger!Assign
<1> QED BY <1>1 DEF Ledger!Next

\* A request that is let through settles the command as the ledger allows.
LEMMA LedgerSettles ==
  ASSUME TypeOK, NEW c \in Command, NEW i \in Inst, NEW g \in 0 .. MaxGen, NEW kind, NEW named \in BOOLEAN, NEW a,
         a \in Answers(c, i, g, named),
         srvResult' = IF a = "ok" THEN Record(c, ResultOf(kind, i, g)) ELSE srvResult,
         UNCHANGED <<srvOwner, srvGen, finished>>,
         kind \in {"executed", "fetchError"},
         kind = "executed" => g > 0 /\ Finished(c, i, g),
         kind = "fetchError" => g = 0
  PROVE  [Ledger!Next]_(Ledger!vars)
<1>1. CASE a # "ok" \/ srvResult[c] # {}
  <2>1. srvResult' = srvResult
    BY <1>1 DEF Record, TypeOK
  <2> QED BY <2>1, LedgerStutters DEF server
<1>2. CASE a = "ok" /\ srvResult[c] = {}
  <2>1. ~Fenced(c, i, g)
    BY <1>2, AnswerMeans
  <2>2. srvResult' = [srvResult EXCEPT ![c] = {[kind |-> kind, inst |-> i, gen |-> g]}]
    BY <1>2 DEF Record, ResultOf, TypeOK
  <2>3. CASE kind = "fetchError"
    <3>1. Ledger!AcceptFetchError(c, i)
      BY <1>2, <2>1, <2>2, <2>3 DEF Fenced, Ledger!AcceptFetchError, Ledger!Settle
    <3> QED BY <3>1 DEF Ledger!Next
  <2>4. CASE kind = "executed"
    <3>1. PICK e \in finished : e.cmd = c /\ e.inst = i /\ e.gen = g
      BY <2>4 DEF Finished
    <3> DEFINE d == [cmd |-> e.cmd, inst |-> e.inst, gen |-> e.gen]
    <3>2. d \in Runs /\ d.cmd = c /\ d.inst = i /\ d.gen = g
      BY <3>1 DEF Runs
    <3>3. srvOwner[c] = i /\ srvGen[c] = g
      BY <2>1, <2>4 DEF Fenced
    <3> HIDE DEF d
    <3>4. Ledger!Settle(c, [kind |-> "executed", inst |-> d.inst, gen |-> d.gen])
      BY <1>2, <2>2, <2>4, <3>2 DEF Ledger!Settle
    <3>5. Ledger!AcceptExecution(c)
      BY <3>2, <3>3, <3>4 DEF Ledger!AcceptExecution, Runs
    <3> QED BY <3>5 DEF Ledger!Next
  <2> QED BY <2>3, <2>4
<1> QED BY <1>1, <1>2

LEMMA LedgerStep ==
  ASSUME TypeOK, OwnGeneration, Sound, [Next]_vars
  PROVE  [Ledger!Next]_(Ledger!vars)
<1>1. CASE StartStep \/ LoadStep \/ DieStep \/ AgeStep
  <2>1. UNCHANGED server /\ UNCHANGED finished
    BY <1>1, LeavesAlone DEF history
  <2> QED BY <2>1, LedgerStutters
<1>2. CASE CallStep
  <2> PICK p \in Proc : \E t \in tasks[p] : Moves(p, t)
    BY <1>2 DEF CallStep
  <2>1. PICK t \in tasks[p] : Moves(p, t)
    OBVIOUS
  <2>2. /\ t.cmd \in Command /\ t.gen \in 0 .. MaxGen /\ t.kind \in {"executed", "fetchError"}
        /\ genOf[p][t.cmd] = t.gen /\ CallSound(p, t)
    BY DEF TypeOK, Task, OwnGeneration, Sound, CallsSound
  <2> PICK i \in Inst : i = Me(p)
    BY MeType
  <2>3. CASE GetConflict(p, t) \/ PostGivesUp(p, t) \/ PostReturns(p, t)
    <3>1. UNCHANGED server /\ UNCHANGED finished
      BY <2>3 DEF GetConflict, PostGivesUp, PostReturns, history
    <3> QED BY <3>1, LedgerStutters
  <2>4. CASE GetGranted(p, t) \/ GetFails(p, t)
    <3>1. UNCHANGED <<srvResult, finished>>
      BY <2>4 DEF GetGranted, GetFails, history
    <3>2. \/ UNCHANGED <<srvOwner, srvGen>>
          \/ /\ srvResult[t.cmd] = {} /\ srvOwner[t.cmd] = NoInst
             /\ srvOwner' = [srvOwner EXCEPT ![t.cmd] = i] /\ srvGen' = [srvGen EXCEPT ![t.cmd] = @ + 1]
      BY <2>4 DEF GetGranted, GetFails
    <3> QED BY <2>2, <3>1, <3>2, LedgerStutters, LedgerAssigns DEF server
  <2>5. CASE ExecDone(p, t)
    <3>1. PICK saved \in BOOLEAN : finished' = finished \union
            {[cmd |-> t.cmd, inst |-> i, gen |-> t.gen, saved |-> saved]}
      BY <2>5 DEF ExecDone
    <3> DEFINE R(e) == [cmd |-> e.cmd, inst |-> e.inst, gen |-> e.gen]
               d == [cmd |-> t.cmd, inst |-> i, gen |-> t.gen, saved |-> saved]
    <3>5. R(d) = [cmd |-> t.cmd, inst |-> i, gen |-> t.gen]
      OBVIOUS
    <3>6. Runs = {R(e) : e \in finished} /\ Runs' = {R(e) : e \in finished'}
      BY DEF Runs
    <3> HIDE DEF R, d
    <3>7. finished' = finished \union {d}
      BY <3>1 DEF d
    <3>2. Runs' = Runs \union {[cmd |-> t.cmd, inst |-> i, gen |-> t.gen]}
      BY <3>5, <3>6, <3>7
    <3>3. /\ srvGen[t.cmd] \in Nat /\ t.gen \in 1 .. srvGen[t.cmd]
          /\ t.gen = srvGen[t.cmd] => srvOwner[t.cmd] \in {i, NoInst}
      BY <2>2, <2>5, ConstantAssumption DEF CallSound, ExecDone, Granted, TypeOK
    <3>4. Ledger!Complete(t.cmd, i, t.gen)
      BY <2>5, <3>2, <3>3 DEF ExecDone, Ledger!Complete, Runs, server
    <3> QED BY <2>2, <3>3, <3>4 DEF Ledger!Next
  <2>6. CASE PostArrives(p, t) \/ PostRetried(p, t)
    <3>1. PICK a \in Verdict : Handled(p, t, a)
      BY <2>6 DEF PostArrives, PostRetried
    <3>2. UNCHANGED finished /\ t.pc = "post"
      BY <2>6 DEF PostArrives, PostRetried, history
    <3> QED BY <2>2, <3>1, <3>2, LedgerSettles DEF Handled, CallSound
  <2> QED BY <2>1, <2>3, <2>4, <2>5, <2>6 DEF Moves
<1>3. CASE PassStep
  <2>1. PICK p \in Proc, k \in Pass : RunPass(p, k)
    BY <1>3 DEF PassStep
  <2>2. UNCHANGED finished
    BY <2>1, PassMoves DEF history
  <2>3. CASE FlushNext(p, k) \/ FlushGivesUp(p, k) \/ FlushReturns(p, k)
    <3>1. UNCHANGED server
      BY <2>3 DEF FlushNext, FlushGivesUp, FlushReturns
    <3> QED BY <2>2, <3>1, LedgerStutters
  <2>4. CASE FlushArrives(p, k) \/ FlushRetried(p, k)
    <3>1. PICK f \in flush[p][k].sent, a \in Verdict : FlushHandled(f, a)
      BY <2>4 DEF FlushArrives, FlushRetried
    <3>2. f \in File /\ CopySound(f)
      BY DEF TypeOK, FlushState, Sound, PassesSound, PassSound
    <3>3. /\ f.cmd \in Command /\ f.inst \in Inst /\ f.gen \in 0 .. MaxGen /\ f.run = f.gen
          /\ f.kind \in {"executed", "fetchError"}
      BY <3>2 DEF File, CopySound
    <3> QED BY <2>2, <3>1, <3>2, <3>3, LedgerSettles DEF FlushHandled, CopySound
  <2> QED BY <2>1, <2>3, <2>4 DEF RunPass
<1>4. CASE Quiet
  <2>1. UNCHANGED finished
    BY <1>4, QuietLeaves DEF history
  <2>2. ASSUME NEW c \in Command, Revoke(c) PROVE [Ledger!Next]_(Ledger!vars)
    <3>1. Ledger!Withdraw(c)
      BY <2>1, <2>2 DEF Revoke, Ledger!Withdraw
    <3> QED BY <3>1 DEF Ledger!Next
  <2>3. ASSUME NEW c \in Command, TimeOut(c) PROVE [Ledger!Next]_(Ledger!vars)
    <3>1. srvResult' = [srvResult EXCEPT ![c] = {[kind |-> "timeout", inst |-> NoInst, gen |-> 0]}]
      BY <2>3 DEF TimeOut, Record, ResultOf, TypeOK
    <3>2. Ledger!TimeOut(c)
      BY <2>1, <2>3, <3>1 DEF TimeOut, Ledger!TimeOut, Ledger!Settle
    <3> QED BY <3>2 DEF Ledger!Next
  <2> QED BY <1>4, <2>1, <2>2, <2>3, QuietLeaves, LedgerStutters
<1> QED BY <1>1, <1>2, <1>3, <1>4, Kinds

\* With the invariants above, the inductive invariant of the refinement.
Kept == TypeOK /\ Calls /\ Sound

LEMMA KeptAlways == Spec => []Kept
<1>1. Init => Kept
  BY InitType, InitCalls, InitSound DEF Kept
<1>2. Kept /\ [Next]_vars => Kept'
  BY TypeStep, CallsStep, SoundStep DEF Kept, Calls
<1> QED BY <1>1, <1>2, PTL DEF Spec

\* The delivery implements the assignment ledger, whatever faults occur: every
\* accepted execution result is one that finished under the very assignment in
\* force when the server accepted it.
THEOREM LedgerImplemented == Spec => ImplementsLedger
<1>1. Init => Ledger!Init
  BY DEF Init, Ledger!Init
<1>2. Kept /\ [Next]_vars => [Ledger!Next]_(Ledger!vars)
  BY LedgerStep DEF Kept, Calls
<1> QED BY <1>1, <1>2, KeptAlways, PTL DEF Spec, ImplementsLedger, Ledger!Spec

-----------------------------------------------------------------------------
(* One result of a command at a time.                                      *)

\* Two files say the same, whatever their age.
Same(f, g) ==
  f.cmd = g.cmd /\ f.kind = g.kind /\ f.inst = g.inst /\ f.run = g.run /\ f.gen = g.gen

InPass(h, f) ==
  \E q \in Proc, k \in Pass : HostOf[q] = h /\ f \in flush[q][k].queue \union flush[q][k].sent
HeldAt(h, f) == f \in disk[h] \/ InPass(h, f)

\* The result of a call is on its host only once the call submits it, and as the
\* call computed it; and it is the only result of its command there. Not so for
\* a command started again over a leftover result.
CallCopies ==
  \A p \in Proc : \A t \in tasks[p] : \A f \in File :
    HeldAt(HostOf[p], f) /\ f.cmd = t.cmd /\ t.cmd \notin reran
    => /\ t.pc \in {"post", "posted"}
       /\ f.kind = t.kind /\ f.inst = Me(p) /\ f.run = t.gen /\ f.gen = t.gen
OneResult ==
  \A h \in Host : \A f, g \in File :
    HeldAt(h, f) /\ HeldAt(h, g) /\ f.cmd = g.cmd /\ f.cmd \notin reran => Same(f, g)
Copies == CallCopies /\ OneResult

\* No agent process serves a command of another one on its host.
AgentsApart ==
  \A p, q \in Proc : p # q /\ HostOf[p] = HostOf[q] => Serves[p] \intersect Serves[q] = {}

LEMMA SnapshotSame ==
  ASSUME NEW f \in File, NEW g \in File
  PROVE  /\ Snapshot(f) \in File /\ Same(Snapshot(f), f)
         /\ Snapshot(f) = Snapshot(g) <=> Same(f, g)
BY DEF Snapshot, File, Same

LEMMA InitCopies == ASSUME Init PROVE Copies
<1>1. /\ \A h \in Host : disk[h] = {}
      /\ \A p \in Proc : tasks[p] = {}
      /\ \A q \in Proc, k \in Pass : flush[q][k].queue = {} /\ flush[q][k].sent = {}
  BY DEF Init, NoFlush
<1>2. \A h \in Host, f \in File : ~HeldAt(h, f)
  BY <1>1 DEF HeldAt, InPass
<1>3. CallCopies
  BY <1>1 DEF CallCopies
<1>4. OneResult
  BY <1>2 DEF OneResult
<1> QED BY <1>3, <1>4 DEF Copies

\* No new result appears on any host.
Shrinks == \A h \in Host : \A f \in File : HeldAt(h, f)' => \E g \in File : HeldAt(h, g) /\ Same(f, g)

\* Then nothing changes for a call that stays as it is,
LEMMA ShrinkKeeps ==
  ASSUME TypeOK, Copies, Shrinks, reran \subseteq reran', NEW p \in Proc, NEW t \in tasks[p],
         inst'[p] = inst[p]
  PROVE  \A f \in File :
           HeldAt(HostOf[p], f)' /\ f.cmd = t.cmd /\ t.cmd \notin reran'
           => /\ t.pc \in {"post", "posted"}
              /\ f.kind = t.kind /\ f.inst = Me(p)' /\ f.run = t.gen /\ f.gen = t.gen
<1>1. SUFFICES ASSUME NEW f \in File, HeldAt(HostOf[p], f)', f.cmd = t.cmd, t.cmd \notin reran'
               PROVE  /\ t.pc \in {"post", "posted"}
                      /\ f.kind = t.kind /\ f.inst = Me(p)' /\ f.run = t.gen /\ f.gen = t.gen
  OBVIOUS
<1>2. HostOf[p] \in Host /\ Me(p)' = Me(p) /\ t.cmd \notin reran
  BY <1>1, ConstantAssumption DEF Me
<1>3. PICK g \in File : HeldAt(HostOf[p], g) /\ Same(f, g)
  BY <1>1, <1>2 DEF Shrinks
<1>4. g.cmd = t.cmd
  BY <1>1, <1>3 DEF Same
<1>5. t.pc \in {"post", "posted"} /\ g.kind = t.kind /\ g.inst = Me(p) /\ g.run = t.gen /\ g.gen = t.gen
  BY <1>2, <1>3, <1>4 DEF Copies, CallCopies
<1> QED BY <1>2, <1>3, <1>5 DEF Same

\* nor for the results of one command.
LEMMA ShrinkOne ==
  ASSUME Copies, Shrinks, reran \subseteq reran' PROVE OneResult'
<1>1. SUFFICES ASSUME NEW h \in Host, NEW f \in File, NEW g \in File,
                      HeldAt(h, f)', HeldAt(h, g)', f.cmd = g.cmd, f.cmd \notin reran'
               PROVE  Same(f, g)
  BY DEF OneResult, Same
<1>2. PICK d \in File : HeldAt(h, d) /\ Same(f, d)
  BY <1>1 DEF Shrinks
<1>3. PICK e \in File : HeldAt(h, e) /\ Same(g, e)
  BY <1>1 DEF Shrinks
<1>4. d.cmd = e.cmd /\ d.cmd \notin reran
  BY <1>1, <1>2, <1>3 DEF Same
<1>5. Same(d, e)
  BY <1>2, <1>3, <1>4 DEF Copies, OneResult
<1> QED BY <1>2, <1>3, <1>5 DEF Same

\* Passes, ageing and everything around the calls bring no new result.
LEMMA OthersShrink ==
  ASSUME TypeOK, [Next]_vars, TypeOK', LoadStep \/ PassStep \/ DieStep \/ AgeStep \/ Quiet
  PROVE  Shrinks /\ \A q \in Proc : tasks'[q] \subseteq tasks[q]
<1>1. ASSUME UNCHANGED <<disk, flush>> PROVE Shrinks
  BY <1>1 DEF Shrinks, HeldAt, InPass, Same
<1>2. CASE Quiet
  BY <1>1, <1>2, QuietLeaves DEF work
<1>3. CASE DieStep
  <2>1. PICK p \in Proc : Dies(p)
    BY <1>3 DEF DieStep
  <2>2. /\ UNCHANGED disk /\ tasks'[p] = {} /\ \A q \in Proc : q # p => tasks'[q] = tasks[q] /\ flush'[q] = flush[q]
        /\ \A k \in Pass : flush'[p][k] = NoFlush
    BY <2>1 DEF Dies, TypeOK
  <2>3. \A h \in Host, f \in File : InPass(h, f)' => InPass(h, f)
    BY <2>2 DEF InPass, NoFlush
  <2> QED BY <2>2, <2>3 DEF Shrinks, HeldAt, Same
<1>4. CASE AgeStep
  <2>1. PICK h \in Host : \E f \in disk[h] : Age(h, f)
    BY <1>4 DEF AgeStep
  <2>2. PICK f \in disk[h] : Age(h, f)
    BY <2>1
  <2>3. PICK older \in {"aged", "stale"} :
          /\ disk' = [disk EXCEPT ![h] = (@ \ {f}) \union {[f EXCEPT !.age = older]}]
          /\ UNCHANGED <<flush, tasks>>
    BY <2>2 DEF Age, work
  <2>4. f \in File /\ Same([f EXCEPT !.age = older], f)
    BY DEF TypeOK, File, Same
  <2>5. \A i \in Host : \A g \in disk'[i] : g \in disk[i] \/ (i = h /\ Same(g, f))
    BY <2>3, <2>4 DEF TypeOK
  <2>6. \A i \in Host, g \in File : InPass(i, g)' = InPass(i, g)
    BY <2>3 DEF InPass
  <2> QED BY <2>3, <2>4, <2>5, <2>6 DEF Shrinks, HeldAt, Same
<1>5. CASE LoadStep
  <2>1. PICK p \in Proc, k \in Pass : Loads(p, k)
    BY <1>5 DEF LoadStep
  <2>2. /\ \A q \in Proc, j \in Pass : <<q, j>> # <<p, k>> => flush'[q][j] = flush[q][j]
        /\ \A h \in Host : disk'[h] \subseteq disk[h]
        /\ flush'[p][k].sent = {}
        /\ \A g \in flush'[p][k].queue : \E f \in Eligible(p, k) : g = Snapshot(f)
    BY <2>1, LoadMoves
  <2>3. UNCHANGED tasks
    BY <2>1 DEF Loads, work
  <2>4. ASSUME NEW g \in flush'[p][k].queue PROVE \E f \in File : HeldAt(HostOf[p], f) /\ Same(g, f)
    <3>1. PICK f \in disk[HostOf[p]] : g = Snapshot(f)
      BY <2>2 DEF Eligible
    <3>2. f \in File
      BY ConstantAssumption DEF TypeOK
    <3> QED BY <3>1, <3>2, SnapshotSame DEF HeldAt
  <2>5. ASSUME NEW h \in Host, NEW f \in File, InPass(h, f)'
        PROVE  \E g \in File : HeldAt(h, g) /\ Same(f, g)
    <3>1. PICK q \in Proc, j \in Pass : HostOf[q] = h /\ f \in flush'[q][j].queue \union flush'[q][j].sent
      BY <2>5 DEF InPass
    <3>2. CASE <<q, j>> = <<p, k>>
      BY <2>2, <2>4, <3>1, <3>2
    <3>3. CASE <<q, j>> # <<p, k>>
      BY <2>2, <3>1, <3>3 DEF HeldAt, InPass, Same
    <3> QED BY <3>2, <3>3
  <2> QED BY <2>2, <2>3, <2>5 DEF Shrinks, HeldAt, Same
<1>6. CASE PassStep
  <2>1. PICK p \in Proc, k \in Pass : RunPass(p, k)
    BY <1>6 DEF PassStep
  <2>2. UNCHANGED tasks /\ \A q \in Proc, j \in Pass : <<q, j>> # <<p, k>> => flush'[q][j] = flush[q][j]
    BY <2>1, PassMoves DEF work
  <2>3. flush'[p][k].queue \union flush'[p][k].sent \subseteq flush[p][k].queue \union flush[p][k].sent
    BY <2>1, PassMoves
  <2>4. \A h \in Host, f \in File : InPass(h, f)' => InPass(h, f)
    BY <2>2, <2>3 DEF InPass
  <2>5. ASSUME NEW c, disk' = Removed(HostOf[p], c) PROVE \A h \in Host : disk'[h] \subseteq disk[h]
    BY <2>5 DEF Removed, Without, TypeOK
  <2>6. \A h \in Host : disk'[h] \subseteq disk[h]
    BY <2>1, <2>5, PassMoves
  <2> QED BY <2>2, <2>4, <2>6 DEF Shrinks, HeldAt, Same
<1> QED BY <1>2, <1>3, <1>4, <1>5, <1>6

\* The results of a command stay one: a call writes its own when there is none.
LEMMA CopiesStep ==
  ASSUME AgentsApart, TypeOK, OwnGeneration, OneRunPerProcess, Sound, Copies, [Next]_vars, TypeOK'
  PROVE  Copies'
<1>1. reran \subseteq reran' /\ \A q \in Proc : tasks[q] # {} => inst'[q] = inst[q]
  BY HistoryGrows, PresentStep DEF Sound
<1>2. ASSUME Shrinks, NEW q \in Proc, NEW t \in tasks[q]
      PROVE  \A f \in File :
               HeldAt(HostOf[q], f)' /\ f.cmd = t.cmd /\ t.cmd \notin reran'
               => /\ t.pc \in {"post", "posted"}
                  /\ f.kind = t.kind /\ f.inst = Me(q)' /\ f.run = t.gen /\ f.gen = t.gen
  BY <1>1, <1>2, ShrinkKeeps
<1>3. ASSUME Shrinks, \A q \in Proc : tasks'[q] \subseteq tasks[q] PROVE Copies'
  <2>1. CallCopies'
    <3>1. \A p \in Proc : \A t \in tasks'[p] : t \in tasks[p]
      BY <1>3
    <3> QED BY <1>2, <1>3, <3>1 DEF CallCopies
  <2> QED BY <1>1, <1>3, <2>1, ShrinkOne DEF Copies
<1>4. CASE LoadStep \/ PassStep \/ DieStep \/ AgeStep \/ Quiet
  BY <1>3, <1>4, OthersShrink
\* One call has become the record u, on a host without new results.
<1>5. ASSUME Shrinks, NEW p \in Proc, NEW u \in Task,
             \A q \in Proc : q # p => tasks'[q] = tasks[q],
             tasks'[p] \subseteq tasks[p] \union {u},
             \A f \in File :
               HeldAt(HostOf[p], f)' /\ f.cmd = u.cmd /\ u.cmd \notin reran'
               => /\ u.pc \in {"post", "posted"}
                  /\ f.kind = u.kind /\ f.inst = Me(p)' /\ f.run = u.gen /\ f.gen = u.gen
      PROVE  Copies'
  <2>1. CallCopies'
    <3>1. \A q \in Proc : \A t \in tasks'[q] : t \in tasks[q] \/ (q = p /\ t = u)
      BY <1>5
    <3> QED BY <1>2, <1>5, <3>1 DEF CallCopies
  <2> QED BY <1>1, <1>5, <2>1, ShrinkOne DEF Copies
<1>6. ASSUME UNCHANGED <<disk, flush>> PROVE Shrinks
  BY <1>6 DEF Shrinks, HeldAt, InPass, Same
<1>7. CASE StartStep
  <2>1. PICK p \in Proc, c \in Command : Starts(p, c)
    BY <1>7 DEF StartStep
  <2>2. PICK u \in Task : tasks'[p] = tasks[p] \union {u} /\ u.cmd = c
    BY <2>1, StartTasks DEF Starts
  <2>3. \A q \in Proc : q # p => tasks'[q] = tasks[q]
    BY <2>1, StartTasks DEF Starts
  <2>4. UNCHANGED <<disk, flush>> /\ reran' = IF Leftover(p, c) THEN reran \union {c} ELSE reran
    BY <2>1 DEF Starts, Start
  <2>5. ASSUME NEW f \in File, HeldAt(HostOf[p], f)', f.cmd = c PROVE c \in reran'
    <3>1. HeldAt(HostOf[p], f)
      BY <2>4, <2>5 DEF HeldAt, InPass
    <3>2. Leftover(p, c)
      BY <2>5, <3>1 DEF Leftover, FilesOf, HeldAt, InPass
    <3> QED BY <2>4, <3>2
  <2> QED BY <1>5, <1>6, <2>2, <2>3, <2>4, <2>5
<1>8. CASE CallStep
  <2> PICK p \in Proc : \E t \in tasks[p] : Moves(p, t)
    BY <1>8 DEF CallStep
  <2>1. PICK t \in tasks[p] : Moves(p, t)
    OBVIOUS
  <2>2. /\ t \in Task /\ t.cmd \in Command /\ t.cmd \in Serves[p] /\ HostOf[p] \in Host
        /\ Me(p)' = Me(p)
    BY <1>1, ConstantAssumption DEF TypeOK, Task, Sound, CallsSound, CallSound, Me
  <2>3. /\ UNCHANGED flush /\ \A h \in Host : h # HostOf[p] => disk'[h] = disk[h]
        /\ \A q \in Proc : q # p => tasks'[q] = tasks[q]
    BY <2>1, MovesFiles, MovesTasks
  <2>4. ASSUME disk'[HostOf[p]] \subseteq disk[HostOf[p]] PROVE Shrinks
    <3>1. \A h \in Host : disk'[h] \subseteq disk[h]
      BY <2>3, <2>4
    <3> QED BY <2>3, <3>1 DEF Shrinks, HeldAt, InPass, Same
  \* Until now no result of the command was there.
  <2>5. ASSUME NEW u \in Task, tasks'[p] = (tasks[p] \ {t}) \union {u}, u.cmd = t.cmd, t.pc \in {"get", "run"},
               disk'[HostOf[p]] \subseteq disk[HostOf[p]]
        PROVE  Copies'
    <3>1. Shrinks
      BY <2>4, <2>5
    <3>2. \A f \in File : ~(HeldAt(HostOf[p], f)' /\ f.cmd = u.cmd /\ u.cmd \notin reran')
      BY <1>2, <2>5, <3>1
    <3> QED BY <1>5, <2>3, <2>5, <3>1, <3>2
  <2>6. ASSUME NEW u \in Task, tasks'[p] = (tasks[p] \ {t}) \union {u}, u.cmd = t.cmd,
               u.gen = t.gen, u.kind = t.kind, u.pc = "posted",
               disk'[HostOf[p]] \subseteq disk[HostOf[p]]
        PROVE  Copies'
    <3>1. Shrinks
      BY <2>4, <2>6
    <3>2. \A f \in File : HeldAt(HostOf[p], f)' /\ f.cmd = u.cmd /\ u.cmd \notin reran'
            => f.kind = u.kind /\ f.inst = Me(p)' /\ f.run = u.gen /\ f.gen = u.gen
      BY <1>2, <2>6, <3>1
    <3> QED BY <1>5, <2>3, <2>6, <3>1, <3>2
  \* A result is written: it is the only one of its command.
  <2>7. ASSUME NEW u \in Task, tasks'[p] = (tasks[p] \ {t}) \union {u}, u.cmd = t.cmd, t.pc \in {"get", "run"},
               u.pc = "post", u.gen = t.gen, reran' = reran,
               NEW f \in File, disk'[HostOf[p]] = Without(HostOf[p], t.cmd) \union {f},
               f.cmd = t.cmd, f.inst = Me(p), f.run = t.gen, f.gen = t.gen, f.kind = u.kind
        PROVE  Copies'
    <3>1. ASSUME NEW h \in Host, NEW g \in File, HeldAt(h, g)'
          PROVE  HeldAt(h, g) \/ (h = HostOf[p] /\ g = f)
      BY <2>2, <2>3, <2>7, <3>1 DEF HeldAt, InPass, Without
    <3>2. ASSUME NEW g \in File, HeldAt(HostOf[p], g), g.cmd = t.cmd PROVE t.cmd \in reran
      BY <2>7, <3>2 DEF Copies, CallCopies
    <3>3. ASSUME NEW q \in Proc, NEW s \in tasks'[q], s.cmd = t.cmd, HostOf[q] = HostOf[p]
          PROVE  q = p /\ s = u
      <4>1. CASE q = p
        BY <2>7, <3>3, <4>1 DEF OneRunPerProcess
      <4>2. CASE q # p
        <5>1. s \in tasks[q] /\ s.cmd \in Serves[q]
          BY <2>3, <3>3, <4>2 DEF Sound, CallsSound, CallSound
        <5> QED BY <2>2, <3>3, <4>2, <5>1 DEF AgentsApart
      <4> QED BY <4>1, <4>2
    <3>4. CallCopies'
      <4>1. SUFFICES ASSUME NEW q \in Proc, NEW s \in tasks'[q], NEW g \in File, HeldAt(HostOf[q], g)',
                            g.cmd = s.cmd, s.cmd \notin reran
                     PROVE  /\ s.pc \in {"post", "posted"}
                            /\ g.kind = s.kind /\ g.inst = Me(q)' /\ g.run = s.gen /\ g.gen = s.gen
        BY <2>7 DEF CallCopies
      <4>2. HostOf[q] \in Host
        BY ConstantAssumption
      <4>3. CASE HostOf[q] = HostOf[p] /\ g = f
        <5>1. q = p /\ s = u
          BY <2>7, <3>3, <4>1, <4>3
        <5> QED BY <2>2, <2>7, <4>3, <5>1
      <4>4. CASE HeldAt(HostOf[q], g)
        <5>1. CASE q = p /\ s = u
          BY <2>7, <3>2, <4>1, <4>4, <5>1
        <5>2. CASE ~(q = p /\ s = u)
          <6>1. s \in tasks[q] /\ Me(q)' = Me(q)
            BY <1>1, <2>3, <2>7, <4>1, <5>2 DEF Me
          <6> QED BY <4>1, <4>4, <6>1 DEF Copies, CallCopies
        <5> QED BY <5>1, <5>2
      <4> QED BY <3>1, <4>1, <4>2, <4>3, <4>4
    <3>5. OneResult'
      <4>1. SUFFICES ASSUME NEW h \in Host, NEW d \in File, NEW g \in File,
                            HeldAt(h, d)', HeldAt(h, g)', d.cmd = g.cmd, d.cmd \notin reran
                     PROVE  Same(d, g)
        BY <2>7 DEF OneResult, Same
      <4>2. CASE HeldAt(h, d) /\ HeldAt(h, g)
        BY <4>1, <4>2 DEF Copies, OneResult
      <4>3. CASE d = f /\ g = f
        BY <4>3 DEF Same
      <4>4. CASE h = HostOf[p] /\ d = f /\ HeldAt(h, g)
        BY <2>7, <3>2, <4>1, <4>4
      <4>5. CASE h = HostOf[p] /\ HeldAt(h, d) /\ g = f
        BY <2>7, <3>2, <4>1, <4>5
      <4> QED BY <3>1, <4>1, <4>2, <4>3, <4>4, <4>5
    <3> QED BY <3>4, <3>5 DEF Copies
  <2>8. CASE PostRetried(p, t)
    BY <1>3, <1>6, <2>8 DEF PostRetried, work
  <2>9. CASE GetConflict(p, t) \/ PostReturns(p, t)
    <3>1. disk'[HostOf[p]] \subseteq disk[HostOf[p]]
      BY <2>1, <2>2, <2>9, MovesFiles DEF Without, GetFails, ExecDone, GetConflict, PostReturns
    <3>2. tasks'[p] \subseteq tasks[p]
      BY <2>2, <2>9 DEF GetConflict, PostReturns, Finish, TypeOK
    <3> QED BY <1>3, <2>3, <2>4, <3>1, <3>2
  <2>10. ASSUME NEW u \in Task, tasks'[p] = (tasks[p] \ {t}) \union {u}, u.cmd = t.cmd, GetGranted(p, t)
         PROVE  Copies'
    BY <2>5, <2>10 DEF GetGranted
  <2>11. ASSUME NEW u \in Task, tasks'[p] = (tasks[p] \ {t}) \union {u}, u.cmd = t.cmd,
                \/ PostArrives(p, t) \/ PostGivesUp(p, t),
                u.pc = "posted", u.gen = t.gen, u.kind = t.kind
         PROVE  Copies'
    BY <2>6, <2>11 DEF PostArrives, PostGivesUp
  <2>12. ASSUME NEW u \in Task, tasks'[p] = (tasks[p] \ {t}) \union {u}, u.cmd = t.cmd,
                u.pc = "post", u.gen = t.gen,
                \/ GetFails(p, t) /\ u.kind = t.kind
                \/ ExecDone(p, t) /\ u.kind = "executed"
         PROVE  Copies'
    <3>1. reran' = reran
      BY <2>12 DEF GetFails, ExecDone, history
    <3>2. \/ t.pc = "get" /\ u.kind = "fetchError" /\ ~ExecDone(p, t) /\ ~PostReturns(p, t)
          \/ t.pc = "run" /\ u.kind = "executed" /\ ~GetFails(p, t) /\ ~PostReturns(p, t)
      BY <2>12 DEF GetFails, ExecDone, PostReturns, Sound, CallsSound, CallSound
    <3>3. CASE UNCHANGED disk
      BY <2>5, <2>12, <3>2, <3>3
    <3>4. CASE ~UNCHANGED disk
      <4>1. PICK f \in File :
              /\ disk'[HostOf[p]] = Without(HostOf[p], t.cmd) \union {f}
              /\ f.cmd = t.cmd /\ f.inst = Me(p) /\ f.run = t.gen /\ f.gen = t.gen
              /\ \/ GetFails(p, t) /\ f.kind = "fetchError"
                 \/ ExecDone(p, t) /\ f.kind = "executed"
        BY <2>1, <3>2, <3>4, MovesFiles
      <4>2. f.kind = u.kind /\ t.pc \in {"get", "run"}
        BY <3>2, <4>1
      <4> QED BY <2>7, <2>12, <3>1, <4>1, <4>2
    <3> QED BY <3>3, <3>4
  <2> QED BY <2>1, <2>8, <2>9, <2>10, <2>11, <2>12, MovesTasks
<1> QED BY <1>4, <1>7, <1>8, Kinds

-----------------------------------------------------------------------------
(* A saved result of the assignment in force stays.                        *)

\* The assignment the saved result e was computed under is still in force.
Standing(e) ==
  /\ e.saved
  /\ srvOwner[e.cmd] = e.inst /\ srvGen[e.cmd] = e.gen
  /\ srvResult[e.cmd] = {}
  /\ e.cmd \notin reran
Says(f, e) == f.cmd = e.cmd /\ f.kind = "executed" /\ f.inst = e.inst /\ f.run = e.gen /\ f.gen = e.gen
HomeOf(e) == HostOf[e.inst[1]]
OnDisk(e) == \E f \in disk[HomeOf(e)] : Says(f, e)

LEMMA ComputedSays ==
  ASSUME NEW e, NEW f \in File PROVE (Snapshot(f) = Computed(e)) <=> Says(f, e)
BY DEF Snapshot, Computed, Says, File

FirstRun == \A e \in finished : Standing(e) => OnDisk(e)

LEMMA FirstRunForm == TypeOK => (FirstRunKept <=> FirstRun)
<1> SUFFICES ASSUME TypeOK PROVE FirstRunKept <=> FirstRun
  OBVIOUS
<1>1. ASSUME NEW e \in finished
      PROVE  (\E f \in disk[HostOf[e.inst[1]]] : Snapshot(f) = Computed(e)) <=> OnDisk(e)
  <2>1. disk[HostOf[e.inst[1]]] \subseteq File
    BY ConstantAssumption DEF TypeOK, Inst
  <2> QED BY <2>1, ComputedSays DEF OnDisk, HomeOf
<1> QED BY <1>1 DEF FirstRunKept, FirstRun, Standing

\* What stands now stood before.
LEMMA StandingStays ==
  ASSUME TypeOK, Sound, [Next]_vars, NEW e \in finished, Standing(e)'
  PROVE  Standing(e)
<1>1. /\ e.cmd \in Command /\ e.inst \in Inst /\ e.gen \in 0 .. MaxGen
      /\ Granted(e.cmd, e.inst, e.gen) /\ ServerMoves /\ reran \subseteq reran'
  BY ServerStep, HistoryGrows DEF TypeOK, Sound, GrantsSound
<1>2. ~Lost(e.cmd, e.inst, e.gen)' /\ srvResult'[e.cmd] = {} /\ e.cmd \notin reran' /\ e.saved
  BY DEF Standing, Lost
<1>3. ~Lost(e.cmd, e.inst, e.gen)
  BY <1>1, <1>2, GrantStays
<1>4. srvResult[e.cmd] = {}
  BY <1>1, <1>2 DEF ServerMoves
<1> QED BY <1>1, <1>2, <1>3, <1>4 DEF Standing, Lost

\* No request about a standing assignment was fenced, none settled it.
LEMMA OnDiskStep ==
  ASSUME TypeOK, OwnGeneration, Sound, Copies, [Next]_vars, TypeOK',
         "limit" \notin Faults, "unreadable" \notin Faults,
         NEW e \in finished, Standing(e), OnDisk(e)
  PROVE  OnDisk(e)'
<1>1. /\ e.cmd \in Command /\ e.inst \in Inst /\ e.gen \in 0 .. MaxGen /\ e.gen > 0
      /\ HomeOf(e) \in Host /\ ~Lost(e.cmd, e.inst, e.gen) /\ srvResult[e.cmd] = {} /\ e.cmd \notin reran
  BY ConstantAssumption DEF TypeOK, Sound, GrantsSound, HomeOf, Inst, Standing, Lost
<1>2. PICK f \in disk[HomeOf(e)] : Says(f, e)
  BY DEF OnDisk
<1>3. f \in File /\ f.age # "stale" /\ HeldAt(HomeOf(e), f) /\ f.cmd = e.cmd
  BY <1>1, <1>2 DEF TypeOK, Sound, FilesSound, FileSound, Says, HeldAt
<1>4. ASSUME f \in disk'[HomeOf(e)] PROVE OnDisk(e)'
  BY <1>2, <1>4 DEF OnDisk, HomeOf, Says
<1>5. CASE StartStep \/ DieStep \/ Quiet
  <2>1. UNCHANGED disk
    BY <1>5, QuietLeaves DEF StartStep, Starts, DieStep, Dies
  <2> QED BY <1>4, <2>1
<1>6. CASE LoadStep
  BY <1>1, <1>3, <1>4, <1>6, LoadMoves DEF LoadStep
<1>7. CASE AgeStep
  <2>1. PICK h \in Host : \E g \in disk[h] : Age(h, g)
    BY <1>7 DEF AgeStep
  <2>2. PICK g \in disk[h] : Age(h, g)
    BY <2>1
  <2>3. PICK older \in {"aged", "stale"} :
          disk' = [disk EXCEPT ![h] = (@ \ {g}) \union {[g EXCEPT !.age = older]}]
    BY <2>2 DEF Age
  <2>4. CASE h = HomeOf(e) /\ g = f
    <3> PICK d : d = [f EXCEPT !.age = older]
      OBVIOUS
    <3>1. Says(d, e)
      BY <1>2, <1>3 DEF Says, File
    <3>2. d \in disk'[HomeOf(e)]
      BY <1>1, <2>3, <2>4 DEF TypeOK
    <3> QED BY <3>1, <3>2 DEF OnDisk, HomeOf, Says
  <2>5. CASE ~(h = HomeOf(e) /\ g = f)
    BY <1>1, <1>4, <2>3, <2>5 DEF TypeOK
  <2> QED BY <2>4, <2>5
<1>8. CASE CallStep
  <2> PICK p \in Proc : \E t \in tasks[p] : Moves(p, t)
    BY <1>8 DEF CallStep
  <2>1. PICK t \in tasks[p] : Moves(p, t)
    OBVIOUS
  <2>2. CASE HostOf[p] # HomeOf(e)
    BY <1>1, <1>4, <2>1, <2>2, MovesFiles
  <2>3. CASE HostOf[p] = HomeOf(e) /\ t.cmd # e.cmd
    BY <1>3, <1>4, <2>1, <2>3, MovesFiles DEF Without, FilesOf
  <2>4. CASE HostOf[p] = HomeOf(e) /\ t.cmd = e.cmd
    <3>1. t.pc \in {"post", "posted"} /\ f.inst = Me(p) /\ f.gen = t.gen
      BY <1>1, <1>3, <2>4 DEF Copies, CallCopies
    <3>2. Me(p) = e.inst /\ t.gen = e.gen
      BY <1>2, <3>1 DEF Says
    <3>3. CASE UNCHANGED disk
      BY <1>4, <3>3
    <3>4. CASE PostReturns(p, t) /\ t.verdict \in MainPathDrops
      <4>1. t.pc = "posted" /\ t.verdict \in {"ok", "fenced"} /\ CallSound(p, t)
        BY <3>4 DEF PostReturns, MainPathDrops, Sound, CallsSound
      <4> QED BY <1>1, <2>4, <3>2, <4>1 DEF CallSound
    <3>5. ~GetFails(p, t) /\ ~ExecDone(p, t)
      BY <3>1 DEF GetFails, ExecDone
    <3> QED BY <2>1, <3>3, <3>4, <3>5, MovesFiles
  <2> QED BY <2>2, <2>3, <2>4
<1>9. CASE PassStep
  <2>1. PICK p \in Proc, k \in Pass : RunPass(p, k)
    BY <1>9 DEF PassStep
  <2>2. CASE UNCHANGED disk
    BY <1>4, <2>2
  <2>3. ASSUME NEW g \in flush[p][k].sent, flush[p][k].verdict \in FlushDrops,
               disk' = Removed(HostOf[p], g.cmd)
        PROVE  OnDisk(e)'
    <3>1. PICK s \in FlushState : s = flush[p][k]
      BY DEF TypeOK
    <3>2. g \in File /\ g \in s.sent /\ PassSound(s) /\ CopySound(g)
      BY <2>3, <3>1 DEF FlushState, Sound, PassesSound, PassSound
    <3>3. CASE HostOf[p] = HomeOf(e) /\ g.cmd = e.cmd
      <4>1. HeldAt(HomeOf(e), g)
        BY <2>3, <3>3 DEF HeldAt, InPass
      <4>2. Same(f, g)
        BY <1>1, <1>3, <3>2, <3>3, <4>1 DEF Copies, OneResult
      <4>3. g.inst = e.inst /\ g.gen = e.gen
        BY <1>2, <4>2 DEF Says, Same
      <4>4. s.verdict \in {"ok", "fenced"}
        BY <2>3, <3>1, <3>2 DEF FlushDrops, PassSound
      <4> QED BY <1>1, <3>2, <3>3, <4>3, <4>4 DEF PassSound
    <3>4. CASE ~(HostOf[p] = HomeOf(e) /\ g.cmd = e.cmd)
      <4>1. f \in disk'[HomeOf(e)]
        BY <1>1, <1>3, <2>3, <3>4 DEF Removed, Without, FilesOf, TypeOK
      <4> QED BY <1>4, <4>1
    <3> QED BY <3>3, <3>4
  <2> QED BY <2>1, <2>2, <2>3, PassMoves
<1> QED BY <1>5, <1>6, <1>7, <1>8, <1>9, Kinds

LEMMA FirstRunStep ==
  ASSUME TypeOK, OwnGeneration, Sound, Copies, FirstRun, [Next]_vars, TypeOK',
         "limit" \notin Faults, "unreadable" \notin Faults
  PROVE  FirstRun'
<1>1. ASSUME NEW e \in finished, Standing(e)' PROVE OnDisk(e)'
  <2>1. Standing(e)
    BY <1>1, StandingStays
  <2>2. OnDisk(e)
    BY <2>1 DEF FirstRun
  <2> QED BY <2>1, <2>2, OnDiskStep
<1>2. ASSUME NEW p \in Proc, NEW t \in tasks[p], disk' = Saved(p, t.cmd, "executed", t.gen, t.gen),
             NEW e, e.cmd = t.cmd, e.inst = Me(p), e.gen = t.gen
      PROVE  OnDisk(e)'
  <2> PICK f : f = [cmd |-> t.cmd, kind |-> "executed", inst |-> Me(p), run |-> t.gen, gen |-> t.gen,
                    age |-> "fresh"]
    OBVIOUS
  <2>1. Says(f, e) /\ HomeOf(e) = HostOf[p]
    BY <1>2 DEF Says, HomeOf, Me
  <2>2. disk' = [disk EXCEPT ![HostOf[p]] = Without(HostOf[p], t.cmd) \union {f}]
    BY <1>2 DEF Saved
  <2>3. f \in disk'[HostOf[p]]
    BY <2>2, ConstantAssumption DEF TypeOK
  <2> QED BY <2>1, <2>3 DEF OnDisk, HomeOf, Says
<1>3. ASSUME NEW p \in Proc, NEW t \in tasks[p], ExecDone(p, t), NEW e \in finished', e \notin finished, Standing(e)'
      PROVE  OnDisk(e)'
  <2>1. PICK saved \in BOOLEAN :
          /\ saved = TRUE => disk' = Saved(p, t.cmd, "executed", t.gen, genOf[p][t.cmd])
          /\ finished' = finished \union
               {[cmd |-> t.cmd, inst |-> Me(p), gen |-> t.gen, saved |-> saved]}
    BY <1>3 DEF ExecDone
  <2>2. e.cmd = t.cmd /\ e.inst = Me(p) /\ e.gen = t.gen /\ e.saved = saved /\ genOf[p][t.cmd] = t.gen
    BY <1>3, <2>1 DEF OwnGeneration
  <2>3. saved = TRUE
    BY <1>3, <2>2 DEF Standing
  <2>4. disk' = Saved(p, t.cmd, "executed", t.gen, t.gen)
    BY <2>1, <2>2, <2>3
  <2> QED BY <1>2, <2>2, <2>4
<1>4. ASSUME NEW e \in finished', e \notin finished
      PROVE  \E p \in Proc : \E t \in tasks[p] : ExecDone(p, t)
  <2>1. StartStep \/ LoadStep \/ PassStep \/ DieStep \/ AgeStep \/ Quiet => UNCHANGED finished
    BY QuietLeaves, LeavesAlone DEF history
  <2>2. ASSUME NEW p \in Proc, NEW t \in tasks[p], Moves(p, t), ~ExecDone(p, t) PROVE UNCHANGED finished
    BY <2>2, LeavesAlone
  <2> QED BY <1>4, <2>1, <2>2, Kinds DEF CallStep
<1> QED BY <1>1, <1>3, <1>4 DEF FirstRun

-----------------------------------------------------------------------------
(* What a call submits, no pass resends.                                   *)

\* What is held for c on h is on the disk only, and fresh.
Alone(h, c) ==
  \A f \in File : f.cmd = c => ~InPass(h, f) /\ (f \in disk[h] => f.age = "fresh")
Unsent ==
  \A p \in Proc : \A t \in tasks[p] :
    t.pc \in {"post", "posted"} /\ t.cmd \notin reran => Alone(HostOf[p], t.cmd)

\* No two agent processes share a host.
HostsApart == \A p, q \in Proc : HostOf[p] = HostOf[q] => p = q

LEMMA InitUnsent == ASSUME Init PROVE Unsent
BY DEF Init, Unsent

LEMMA UnsentStep ==
  ASSUME HostsApart, TypeOK, OwnGeneration, OneRunPerProcess, Sound, Copies, Unsent, [Next]_vars, TypeOK'
  PROVE  Unsent'
<1>1. reran \subseteq reran'
  BY HistoryGrows
<1>2. ASSUME \A q \in Proc : tasks'[q] \subseteq tasks[q],
             \A q \in Proc : \A t \in tasks'[q] :
               t.pc \in {"post", "posted"} /\ t.cmd \notin reran /\ Alone(HostOf[q], t.cmd) => Alone(HostOf[q], t.cmd)'
      PROVE  Unsent'
  <2>1. SUFFICES ASSUME NEW q \in Proc, NEW t \in tasks'[q], t.pc \in {"post", "posted"}, t.cmd \notin reran'
                 PROVE  Alone(HostOf[q], t.cmd)'
    BY DEF Unsent, Alone, InPass
  <2>2. t \in tasks[q] /\ t.cmd \notin reran
    BY <1>1, <1>2, <2>1
  <2> QED BY <1>2, <2>1, <2>2 DEF Unsent
<1>3. ASSUME NEW h, NEW c, Alone(h, c), \A f \in File : InPass(h, f)' => InPass(h, f), disk'[h] \subseteq disk[h]
      PROVE  Alone(h, c)'
  BY <1>3 DEF Alone
<1>4. CASE Quiet
  <2>1. UNCHANGED <<tasks, disk, flush>>
    BY <1>4, QuietLeaves DEF work
  <2> QED BY <1>2, <1>3, <2>1 DEF InPass
<1>5. CASE DieStep
  <2>1. PICK p \in Proc : Dies(p)
    BY <1>5 DEF DieStep
  <2>2. /\ UNCHANGED disk /\ tasks'[p] = {}
        /\ \A q \in Proc : q # p => tasks'[q] = tasks[q] /\ flush'[q] = flush[q]
        /\ \A k \in Pass : flush'[p][k] = NoFlush
    BY <2>1 DEF Dies, TypeOK
  <2>3. \A h \in Host, f \in File : InPass(h, f)' => InPass(h, f)
    BY <2>2 DEF InPass, NoFlush
  <2> QED BY <1>2, <1>3, <2>2, <2>3, ConstantAssumption
<1>6. CASE PassStep
  <2>1. PICK p \in Proc, k \in Pass : RunPass(p, k)
    BY <1>6 DEF PassStep
  <2>2. UNCHANGED tasks /\ \A q \in Proc, j \in Pass : <<q, j>> # <<p, k>> => flush'[q][j] = flush[q][j]
    BY <2>1, PassMoves DEF work
  <2>3. flush'[p][k].queue \union flush'[p][k].sent \subseteq flush[p][k].queue \union flush[p][k].sent
    BY <2>1, PassMoves
  <2>4. \A h \in Host, f \in File : InPass(h, f)' => InPass(h, f)
    BY <2>2, <2>3 DEF InPass
  <2>5. ASSUME NEW c, disk' = Removed(HostOf[p], c) PROVE \A h \in Host : disk'[h] \subseteq disk[h]
    BY <2>5 DEF Removed, Without, TypeOK
  <2>6. \A h \in Host : disk'[h] \subseteq disk[h]
    BY <2>1, <2>5, PassMoves
  <2> QED BY <1>2, <1>3, <2>2, <2>4, <2>6, ConstantAssumption
<1>7. CASE AgeStep
  <2>1. PICK h \in Host : \E f \in disk[h] : Age(h, f)
    BY <1>7 DEF AgeStep
  <2>2. PICK f \in disk[h] : Age(h, f)
    BY <2>1
  <2>3. PICK older \in {"aged", "stale"} :
          /\ older = "aged" => \A p \in Proc : HostOf[p] = h =>
               ~\E t \in tasks[p] : t.cmd = f.cmd /\ t.pc \in {"post", "posted"}
          /\ older = "stale" => f.age = "aged"
          /\ disk' = [disk EXCEPT ![h] = (@ \ {f}) \union {[f EXCEPT !.age = older]}]
          /\ UNCHANGED <<flush, tasks>>
    BY <2>2 DEF Age, work
  <2>4. f \in File
    BY DEF TypeOK
  <2> PICK g : g = [f EXCEPT !.age = older]
    OBVIOUS
  <2>7. g.cmd = f.cmd
    BY <2>4 DEF File
  <2>5. disk'[h] = (disk[h] \ {f}) \union {g} /\ \A i \in Host : i # h => disk'[i] = disk[i]
    BY <2>3 DEF TypeOK
  <2>6. ASSUME NEW q \in Proc, NEW t \in tasks'[q], t.pc \in {"post", "posted"}, t.cmd \notin reran,
               Alone(HostOf[q], t.cmd)
        PROVE  Alone(HostOf[q], t.cmd)'
    <3>1. t \in tasks[q] /\ HostOf[q] \in Host
      BY <2>3, <2>6, ConstantAssumption
    <3>2. ~(HostOf[q] = h /\ f.cmd = t.cmd)
      <4>1. SUFFICES ASSUME HostOf[q] = h, f.cmd = t.cmd PROVE FALSE
        OBVIOUS
      <4>2. f.age = "fresh" /\ older # "aged"
        BY <2>3, <2>4, <2>6, <3>1, <4>1 DEF Alone
      <4> QED BY <2>3, <4>2
    <3>3. \A d \in File : InPass(HostOf[q], d)' = InPass(HostOf[q], d)
      BY <2>3 DEF InPass
    <3>4. \A d \in disk'[HostOf[q]] : d.cmd = t.cmd => d \in disk[HostOf[q]]
      BY <2>5, <2>7, <3>1, <3>2
    <3> QED BY <2>6, <3>3, <3>4 DEF Alone
  <2> QED BY <1>2, <2>3, <2>6
<1>8. CASE LoadStep
  <2>1. PICK p \in Proc, k \in Pass : Loads(p, k)
    BY <1>8 DEF LoadStep
  <2>2. /\ \A q \in Proc, j \in Pass : <<q, j>> # <<p, k>> => flush'[q][j] = flush[q][j]
        /\ \A h \in Host : disk'[h] \subseteq disk[h]
        /\ flush'[p][k].sent = {}
        /\ \A g \in flush'[p][k].queue : \E f \in Eligible(p, k) : g = Snapshot(f)
    BY <2>1, LoadMoves
  <2>3. UNCHANGED tasks
    BY <2>1 DEF Loads, work
  <2>4. ASSUME NEW q \in Proc, NEW t \in tasks'[q], t.pc \in {"post", "posted"}, t.cmd \notin reran,
               Alone(HostOf[q], t.cmd)
        PROVE  Alone(HostOf[q], t.cmd)'
    <3>1. ASSUME NEW g \in File, g.cmd = t.cmd, InPass(HostOf[q], g)' PROVE FALSE
      <4>1. PICK r \in Proc, j \in Pass :
              HostOf[r] = HostOf[q] /\ g \in flush'[r][j].queue \union flush'[r][j].sent
        BY <3>1 DEF InPass
      <4>2. r = p /\ j = k
        BY <2>2, <2>4, <3>1, <4>1 DEF Alone, InPass
      <4>3. p = q
        BY <4>1, <4>2 DEF HostsApart
      <4>4. PICK f \in Eligible(p, k) : g = Snapshot(f)
        BY <2>2, <4>1, <4>2
      <4>5. f \in File /\ f.cmd = t.cmd /\ f \in disk[HostOf[p]]
        BY <3>1, <4>4, SnapshotSame, ConstantAssumption DEF Eligible, TypeOK, Same
      <4>6. f.age = "fresh" /\ p \notin recovered
        BY <2>4, <4>3, <4>4, <4>5 DEF Alone, Eligible
      <4> QED BY <2>3, <2>4, <4>3, <4>6 DEF Sound, Present
    <3> QED BY <2>2, <2>4, <3>1, ConstantAssumption DEF Alone
  <2> QED BY <1>2, <2>3, <2>4
<1>9. CASE StartStep
  <2>1. PICK p \in Proc, c \in Command : Starts(p, c)
    BY <1>9 DEF StartStep
  <2>2. PICK u \in Task : tasks'[p] = tasks[p] \union {u} /\ u.pc = "get"
    BY <2>1, StartTasks DEF Starts
  <2>3. UNCHANGED <<disk, flush>> /\ \A q \in Proc : q # p => tasks'[q] = tasks[q]
    BY <2>1, StartTasks DEF Starts
  <2>4. SUFFICES ASSUME NEW q \in Proc, NEW t \in tasks'[q], t.pc \in {"post", "posted"}, t.cmd \notin reran'
                 PROVE  Alone(HostOf[q], t.cmd)'
    BY DEF Unsent, Alone, InPass
  <2>5. t \in tasks[q] /\ t.cmd \notin reran
    BY <1>1, <2>2, <2>3, <2>4
  <2>6. Alone(HostOf[q], t.cmd)
    BY <2>4, <2>5 DEF Unsent
  <2> QED BY <1>3, <2>3, <2>6 DEF InPass
<1>10. CASE CallStep
  <2> PICK p \in Proc : \E t \in tasks[p] : Moves(p, t)
    BY <1>10 DEF CallStep
  <2>1. PICK t \in tasks[p] : Moves(p, t)
    OBVIOUS
  <2>2. /\ UNCHANGED flush /\ \A h \in Host : h # HostOf[p] => disk'[h] = disk[h]
        /\ \A q \in Proc : q # p => tasks'[q] = tasks[q]
    BY <2>1, MovesFiles, MovesTasks
  <2>3. \A h, f : InPass(h, f)' = InPass(h, f)
    BY <2>2 DEF InPass
  <2>4. \A f \in disk'[HostOf[p]] : f.cmd # t.cmd => f \in disk[HostOf[p]]
    BY <2>1, MovesFiles DEF Without
  <2>5. ASSUME NEW q \in Proc, NEW v \in tasks[q], ~(q = p /\ v = t), v.pc \in {"post", "posted"}, v.cmd \notin reran
        PROVE  Alone(HostOf[q], v.cmd)'
    <3>1. Alone(HostOf[q], v.cmd)
      BY <2>5 DEF Unsent
    <3>2. \A f \in disk'[HostOf[q]] : f.cmd = v.cmd => f \in disk[HostOf[q]]
      <4>1. CASE q = p
        BY <2>4, <2>5, <4>1 DEF OneRunPerProcess
      <4>2. CASE q # p
        BY <2>2, <4>2, ConstantAssumption DEF HostsApart
      <4> QED BY <4>1, <4>2
    <3> QED BY <2>3, <3>1, <3>2 DEF Alone
  <2>6. ASSUME NEW u, tasks'[p] \subseteq (tasks[p] \ {t}) \union {u},
               u.pc \in {"post", "posted"} /\ u.cmd \notin reran' => Alone(HostOf[p], u.cmd)'
        PROVE  Unsent'
    <3>1. SUFFICES ASSUME NEW q \in Proc, NEW v \in tasks'[q], v.pc \in {"post", "posted"}, v.cmd \notin reran'
                   PROVE  Alone(HostOf[q], v.cmd)'
      BY DEF Unsent, Alone, InPass
    <3>2. CASE q = p /\ v = u
      BY <2>6, <3>1, <3>2
    <3>3. CASE ~(q = p /\ v = u)
      <4>1. v \in tasks[q] /\ ~(q = p /\ v = t) /\ v.cmd \notin reran
        BY <1>1, <2>2, <2>6, <3>1, <3>3
      <4> QED BY <2>5, <3>1, <4>1
    <3> QED BY <3>2, <3>3
  <2>7. CASE PostRetried(p, t)
    <3>1. UNCHANGED <<tasks, disk, flush>>
      BY <2>7 DEF PostRetried, work
    <3> QED BY <1>2, <1>3, <3>1 DEF InPass
  <2>8. CASE tasks'[p] = tasks[p] \ {t}
    <3> PICK u : u = [pc |-> "get", cmd |-> t.cmd]
      OBVIOUS
    <3>1. u.pc = "get"
      OBVIOUS
    <3> QED BY <2>6, <2>8, <3>1
  <2>9. ASSUME NEW u \in Task, tasks'[p] = (tasks[p] \ {t}) \union {u}, GetGranted(p, t), u.pc = "run"
        PROVE  Unsent'
    BY <2>6, <2>9
  <2>10. ASSUME NEW u \in Task, tasks'[p] = (tasks[p] \ {t}) \union {u}, u.cmd = t.cmd,
                PostArrives(p, t) \/ PostGivesUp(p, t)
         PROVE  Unsent'
    <3>1. t.pc = "post" /\ UNCHANGED disk
      BY <2>10 DEF PostArrives, PostGivesUp
    <3>2. t.cmd \notin reran => Alone(HostOf[p], t.cmd)
      BY <3>1 DEF Unsent
    <3>3. t.cmd \notin reran' => Alone(HostOf[p], t.cmd)'
      BY <1>1, <2>3, <3>1, <3>2 DEF Alone
    <3> QED BY <2>6, <2>10, <3>3
  <2>11. ASSUME NEW u \in Task, tasks'[p] = (tasks[p] \ {t}) \union {u}, u.cmd = t.cmd,
                GetFails(p, t) \/ ExecDone(p, t)
         PROVE  Unsent'
    <3>1. t.pc \in {"get", "run"} /\ ~PostReturns(p, t)
      BY <2>11 DEF GetFails, ExecDone, PostReturns
    <3>2. ASSUME NEW f \in File, f.cmd = t.cmd, t.cmd \notin reran PROVE ~HeldAt(HostOf[p], f)
      BY <3>1, <3>2 DEF Copies, CallCopies
    <3>3. \A f \in File : f.cmd = t.cmd /\ f \in disk'[HostOf[p]] => f \in disk[HostOf[p]] \/ f.age = "fresh"
      BY <2>1, <3>1, MovesFiles DEF Without
    <3>4. t.cmd \notin reran => Alone(HostOf[p], t.cmd)'
      BY <2>3, <3>2, <3>3 DEF Alone, HeldAt
    <3> QED BY <1>1, <2>6, <2>11, <3>4
  <2> QED BY <2>1, <2>7, <2>8, <2>9, <2>10, <2>11, MovesTasks
<1> QED BY <1>4, <1>5, <1>6, <1>7, <1>8, <1>9, <1>10, Kinds

\* While no two agents of a host serve the same command, a saved result of the
\* assignment in force stays on its disk until the server has settled the
\* command. Not so when a 408 or 429 ends the attempts of a resend, or a file
\* cannot be read: the code then deletes it.
THEOREM FirstRunStays ==
  ASSUME AgentsApart, "limit" \notin Faults, "unreadable" \notin Faults
  PROVE  Spec => []FirstRunKept
<1> DEFINE Inv == TypeOK /\ Calls /\ Sound /\ Copies /\ FirstRun
<1>1. Init => Inv
  BY InitType, InitCalls, InitSound, InitCopies DEF FirstRun, Init
<1>2. Inv /\ [Next]_vars => Inv'
  BY TypeStep, CallsStep, SoundStep, CopiesStep, FirstRunStep DEF Calls
<1>3. Inv => FirstRunKept
  BY FirstRunForm
<1> QED BY <1>1, <1>2, <1>3, PTL DEF Spec

\* With one agent process per host, nor does a pass resend the result of a call
\* that is still submitting it. (The first registration of another process of the
\* host takes the fresh files too.)
THEOREM ResultsStay ==
  ASSUME HostsApart, "limit" \notin Faults, "unreadable" \notin Faults
  PROVE  Spec => []ResultsKept
<1>1. AgentsApart
  BY DEF HostsApart, AgentsApart
<1> DEFINE Inv == TypeOK /\ Calls /\ Sound /\ Copies /\ Unsent
<1>2. Init => Inv
  BY InitType, InitCalls, InitSound, InitCopies, InitUnsent
<1>3. Inv /\ [Next]_vars => Inv'
  BY <1>1, TypeStep, CallsStep, SoundStep, CopiesStep, UnsentStep DEF Calls
<1>4. Inv => FlushAvoidsMainPath
  <2>1. SUFFICES ASSUME TypeOK, Unsent, NEW p \in Proc, NEW q \in Proc, NEW k \in Pass,
                        NEW f \in flush[q][k].sent, NEW t \in tasks[p],
                        HostOf[p] = HostOf[q], t.cmd = f.cmd, t.cmd \notin reran,
                        t.pc \in {"post", "posted"}
                 PROVE  FALSE
    BY DEF FlushAvoidsMainPath
  <2>2. f \in File /\ InPass(HostOf[p], f)
    BY <2>1 DEF TypeOK, FlushState, InPass
  <2> QED BY <2>1, <2>2 DEF Unsent, Alone
<1>5. Spec => []FirstRunKept
  BY <1>1, FirstRunStays
<1>6. FirstRunKept /\ FlushAvoidsMainPath => ResultsKept
  BY DEF ResultsKept
<1> QED BY <1>2, <1>3, <1>4, <1>5, <1>6, PTL DEF Spec
===========================================================================

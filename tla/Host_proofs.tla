----------------------------- MODULE Host_proofs -----------------------------
(***************************************************************************)
(* What holds of the parts of a host, each on its own, as MCHost puts them *)
(* together: the terminals, for any ids, any number of shells and any      *)
(* length of the grace window; agent.pid, for any number of processes,     *)
(* pids and host names; the login file of the Claude CLI, for any number   *)
(* of agents.  Besides, the server setup such a host runs, for any recipes *)
(* and any number of events; the configuration that comes to it, with its  *)
(* shared files, for any number of syncs, places and versions;             *)
(* config.json, for any number of writers, projects and kills; and the     *)
(* clone of a repository, for any branches and any number of syncs of one  *)
(* branch at a time.                                                       *)
(***************************************************************************)
EXTENDS TerminalSessions, PidFile, ClaudeJson, ServerSetup, ConfigSync, ConfigStore, RepoSync, SequenceTheorems, TLAPS

(***************************************************************************)
(* The terminals.                                                          *)
(***************************************************************************)

\* Shells that have not been seen to exit have ids of their own.
OnePerId == \A p, q \in Pty : Alive(p) /\ Alive(q) /\ pty[p].id = pty[q].id => p = q

Timed == TypeOK /\ SessionsTimed

-----------------------------------------------------------------------------
(* Types.                                                                  *)

LEMMA Numbers == GraceTicks \in Nat /\ GraceTicks > 0
BY TerminalAssumption

\* Whom Kill is asked to kill, and nobody else, is killed.
LEMMA KillsOnly ==
  ASSUME TypeOK, NEW P \in SUBSET Pty, Kill(P)
  PROVE  /\ pty' \in [Pty -> Shell] /\ doomed' \subseteq Id
         /\ \A p \in Pty : /\ pty'[p].id = pty[p].id
                           /\ Alive(p)' <=> Alive(p)
                           /\ Running(p)' <=> Running(p) /\ p \notin P
<1>1. \A p \in Pty : pty[p] \in Shell
  BY DEF TypeOK
<1>2. \A p \in Pty : pty'[p] = IF p \in P /\ Alive(p) THEN [pty[p] EXCEPT !.st = "killed"] ELSE pty[p]
  BY DEF Kill
<1>3. \A p \in Pty : [pty[p] EXCEPT !.st = "killed"] \in Shell
                     /\ [pty[p] EXCEPT !.st = "killed"].st = "killed"
                     /\ [pty[p] EXCEPT !.st = "killed"].id = pty[p].id
  BY <1>1 DEF Shell
<1>4. pty' \in [Pty -> Shell]
  <2>1. pty' = [p \in Pty |-> IF p \in P /\ Alive(p) THEN [pty[p] EXCEPT !.st = "killed"] ELSE pty[p]]
    BY DEF Kill
  <2> QED BY <1>1, <1>3, <2>1
<1>5. doomed' \subseteq Id
  <2>1. \A p \in Pty : pty[p].name \in Id
    BY <1>1 DEF Shell
  <2>2. doomed' = doomed \cup {pty[p].name : p \in {q \in P : pty[q].st \in {"up", "over"}}}
    BY DEF Kill
  <2>3. {pty[p].name : p \in {q \in P : pty[q].st \in {"up", "over"}}} \subseteq Id
    BY <2>1
  <2> QED BY <2>2, <2>3 DEF TypeOK
<1>6. \A p \in Pty : /\ pty'[p].id = pty[p].id
                     /\ Alive(p)' <=> Alive(p)
                     /\ Running(p)' <=> Running(p) /\ p \notin P
  BY <1>2, <1>3 DEF Alive, Running
<1> QED BY <1>4, <1>5, <1>6

LEMMA Spawned ==
  ASSUME TypeOK, NEW p \in Pty, NEW i \in Id, NEW n \in Id, NEW m \in Meta \cup {NoMeta},
         Spawn(p, i, n, m)
  PROVE  /\ pty' \in [Pty -> Shell] /\ table' \in [Id -> Pty \cup {NoPty}]
         /\ ~Alive(p) /\ Running(p)' /\ pty'[p].id = i
         /\ \A q \in Pty : q # p => pty'[q] = pty[q]
         /\ table' = [table EXCEPT ![i] = p]
<1> DEFINE new == [st |-> "up", id |-> i, name |-> n, meta |-> m]
<1>1. new \in Shell /\ new.st = "up" /\ new.id = i
  BY DEF Shell
<1>2. pty' = [pty EXCEPT ![p] = new] /\ pty \in [Pty -> Shell]
  BY DEF Spawn, TypeOK
<1> HIDE DEF new
<1>3. pty' \in [Pty -> Shell]
  BY <1>1, <1>2
<1>4. pty'[p] = new /\ \A q \in Pty : q # p => pty'[q] = pty[q]
  BY <1>2
<1> QED BY <1>1, <1>3, <1>4 DEF Spawn, Running, TypeOK

-----------------------------------------------------------------------------
(* The timers.                                                             *)

LEMMA TimedInitially == Init => Timed
<1> SUFFICES ASSUME Init PROVE Timed
  OBVIOUS
<1>1. NoShell \in Shell
  BY TerminalAssumption DEF NoShell, Shell
<1>2. TypeOK
  BY <1>1, Numbers DEF Init, LinkInit, TypeOK, LinkState, NoTimer
<1>3. SessionsTimed
  BY DEF Init, SessionsTimed, InUseUntimed, OrphanTimed, Has
<1> QED BY <1>2, <1>3 DEF Timed

\* Arming the timers of all sessions leaves none without.
LEMMA Armed ==
  ASSUME Timed, CloseAllGracefully, link' \in LinkState
  PROVE  Timed'
<1>1. grace' = [i \in Id |-> IF Has(i) THEN GraceTicks ELSE grace[i]]
  BY DEF CloseAllGracefully, ArmGrace
<1>2. grace' \in [Id -> 0 .. GraceTicks]
  BY <1>1, Numbers DEF Timed, TypeOK
<1>3. TypeOK'
  BY <1>2 DEF CloseAllGracefully, Timed, TypeOK
<1>4. InUseUntimed'
  BY DEF CloseAllGracefully, InUseUntimed
<1>5. OrphanTimed'
  BY <1>1, Numbers DEF CloseAllGracefully, OrphanTimed, Has
<1> QED BY <1>3, <1>4, <1>5 DEF Timed, SessionsTimed

LEMMA AllClosed ==
  ASSUME Timed, CloseAll, link' \in LinkState
  PROVE  Timed'
<1>1. grace' \in [Id -> 0 .. GraceTicks]
  BY Numbers DEF CloseAll, Timed, TypeOK
<1>2. pty' \in [Pty -> Shell] /\ doomed' \subseteq Id
  <2>1. InTable \in SUBSET Pty
    BY DEF InTable, Timed, TypeOK
  <2> QED BY <2>1, KillsOnly DEF CloseAll, Timed
<1>3. TypeOK'
  BY <1>1, <1>2 DEF CloseAll, Timed, TypeOK
<1>4. SessionsTimed'
  BY DEF CloseAll, SessionsTimed, InUseUntimed, OrphanTimed, Has
<1> QED BY <1>3, <1>4 DEF Timed

LEMMA TimedStep == ASSUME Timed, [Next]_vars PROVE Timed'
<1> USE Numbers
<1>0. TypeOK /\ InUseUntimed /\ OrphanTimed
  BY DEF Timed, SessionsTimed
<1>1. ASSUME NEW i \in Id, Open(i) PROVE Timed'
  <2>1. grace' = [grace EXCEPT ![i] = 0] /\ attached' = attached \cup {i} /\ UNCHANGED <<link, doomed>>
    BY <1>1 DEF Open, ClearGrace
  <2>2. /\ pty' \in [Pty -> Shell] /\ table' \in [Id -> Pty \cup {NoPty}]
        /\ \A j \in Id : j # i => table'[j] = table[j]
        /\ table'[i] # NoPty
    <3>1. CASE Has(i)
      BY <1>0, <1>1, <3>1 DEF Open, TypeOK, Has
    <3>2. CASE ~Has(i)
      <4>1. PICK p \in Pty, n \in Id, m \in Meta \cup {NoMeta} : Spawn(p, i, n, m)
        BY <1>1, <3>2 DEF Open
      <4>2. table' = [table EXCEPT ![i] = p] /\ p # NoPty
        BY <1>0, <4>1, Spawned, TerminalAssumption
      <4> QED BY <1>0, <4>1, <4>2, Spawned DEF TypeOK
    <3> QED BY <3>1, <3>2
  <2>3. link \in {"up", "ending"}
    BY <1>1 DEF Open, Receives
  <2>4. TypeOK'
    <3>1. grace' \in [Id -> 0 .. GraceTicks]
      BY <1>0, <2>1 DEF TypeOK
    <3> QED BY <1>0, <2>1, <2>2, <3>1 DEF TypeOK
  <2>5. InUseUntimed'
    BY <1>0, <2>1, <2>2 DEF InUseUntimed, Has, TypeOK
  <2>6. OrphanTimed'
    BY <2>1, <2>3 DEF OrphanTimed
  <2> QED BY <2>4, <2>5, <2>6 DEF Timed, SessionsTimed
<1>2. ASSUME NEW i \in Id, NEW m \in Meta, Resume(i, m) PROVE Timed'
  <2>1. grace' = [grace EXCEPT ![i] = 0] /\ attached' = attached \cup {i}
        /\ UNCHANGED <<link, table, pty, doomed>> /\ Has(i) /\ link \in {"up", "ending"}
    BY <1>2 DEF Resume, ClearGrace, Receives
  <2>2. TypeOK'
    BY <1>0, <2>1 DEF TypeOK
  <2>3. InUseUntimed' /\ OrphanTimed'
    BY <1>0, <2>1 DEF InUseUntimed, OrphanTimed, Has, TypeOK
  <2> QED BY <2>2, <2>3 DEF Timed, SessionsTimed
<1>3. ASSUME NEW i \in Id, Close(i) PROVE Timed'
  <2>1. /\ grace' = [grace EXCEPT ![i] = 0] /\ attached' = attached \ {i} /\ link' = link
        /\ table' = [table EXCEPT ![i] = NoPty] /\ Kill({table[i]})
    BY <1>3 DEF Close, ClearGrace
  <2>2. pty' \in [Pty -> Shell] /\ doomed' \subseteq Id
    <3>1. {table[i]} \in SUBSET Pty
      BY <1>0, <1>3 DEF Close, Has, TypeOK
    <3> QED BY <1>0, <2>1, <3>1, KillsOnly
  <2>3. TypeOK'
    BY <1>0, <2>1, <2>2 DEF TypeOK
  <2>4. InUseUntimed' /\ OrphanTimed'
    BY <1>0, <2>1 DEF InUseUntimed, OrphanTimed, Has, TypeOK
  <2> QED BY <2>3, <2>4 DEF Timed, SessionsTimed
<1>4. ASSUME NEW i \in Id, TmuxKillSession(i) PROVE Timed'
  BY <1>0, <1>4 DEF TmuxKillSession, Timed, SessionsTimed, InUseUntimed, OrphanTimed, Has, TypeOK
<1>5. CASE Tick
  <2>1. grace' = [i \in Id |-> IF grace[i] > 1 THEN grace[i] - 1 ELSE grace[i]]
        /\ UNCHANGED <<link, table, pty, doomed, attached>>
    BY <1>5 DEF Tick
  <2>2. \A i \in Id : grace[i] \in 0 .. GraceTicks
    BY <1>0 DEF TypeOK
  <2>3. /\ grace' \in [Id -> 0 .. GraceTicks]
        /\ \A i \in Id : grace'[i] > 0 <=> grace[i] > 0
        /\ \A i \in Id : grace[i] = 0 => grace'[i] = 0
    BY <2>1, <2>2
  <2>4. TypeOK'
    BY <1>0, <2>1, <2>3 DEF TypeOK
  <2>5. InUseUntimed' /\ OrphanTimed'
    BY <1>0, <2>1, <2>3 DEF InUseUntimed, OrphanTimed, Has, TypeOK
  <2> QED BY <2>4, <2>5 DEF Timed, SessionsTimed
<1>6. ASSUME NEW i \in Id, GraceExpires(i) PROVE Timed'
  <2>1. grace[i] = 1 /\ grace' = [grace EXCEPT ![i] = 0] /\ UNCHANGED <<link, attached>>
    BY <1>6 DEF GraceExpires, ClearGrace
  <2>2. /\ pty' \in [Pty -> Shell] /\ doomed' \subseteq Id
        /\ table' \in [Id -> Pty \cup {NoPty}] /\ table'[i] = NoPty
        /\ \A j \in Id : j # i => table'[j] = table[j]
    <3>1. CASE Has(i)
      <4>1. Kill({table[i]}) /\ table' = [table EXCEPT ![i] = NoPty]
        BY <1>6, <3>1 DEF GraceExpires
      <4>2. {table[i]} \in SUBSET Pty
        BY <1>0, <3>1 DEF Has, TypeOK
      <4> QED BY <1>0, <4>1, <4>2, KillsOnly DEF TypeOK
    <3>2. CASE ~Has(i)
      BY <1>0, <1>6, <3>2 DEF GraceExpires, TypeOK, Has
    <3> QED BY <3>1, <3>2
  <2>3. i \notin attached
    BY <1>0, <2>1 DEF InUseUntimed
  <2>4. TypeOK'
    <3>1. grace' \in [Id -> 0 .. GraceTicks]
      BY <1>0, <2>1 DEF TypeOK
    <3> QED BY <1>0, <2>1, <2>2, <3>1 DEF TypeOK
  <2>5. InUseUntimed' /\ OrphanTimed'
    BY <1>0, <2>1, <2>2, <2>3 DEF InUseUntimed, OrphanTimed, Has, TypeOK
  <2> QED BY <2>4, <2>5 DEF Timed, SessionsTimed
<1>7. ASSUME NEW p \in Pty, ShellEnds(p) PROVE Timed'
  <2>1. [pty[p] EXCEPT !.st = "over"] \in Shell
    BY <1>0 DEF TypeOK, Shell
  <2>2. TypeOK'
    BY <1>0, <1>7, <2>1 DEF ShellEnds, TypeOK
  <2>3. InUseUntimed' /\ OrphanTimed'
    BY <1>0, <1>7 DEF ShellEnds, InUseUntimed, OrphanTimed, Has
  <2> QED BY <2>2, <2>3 DEF Timed, SessionsTimed
<1>8. ASSUME NEW p \in Pty, ExitSeen(p) PROVE Timed'
  <2> DEFINE i == pty[p].id
  <2>1. i \in Id /\ pty[p].name \in Id
    BY <1>0 DEF TypeOK, Shell
  <2>2. /\ grace' = [grace EXCEPT ![i] = 0] /\ table' = [table EXCEPT ![i] = NoPty]
        /\ attached' = attached \ {i} /\ pty' = [pty EXCEPT ![p] = NoShell] /\ link' = link
    BY <1>8 DEF ExitSeen, ClearGrace
  <2>3. doomed' \subseteq Id
    BY <1>0, <1>8, <2>1 DEF ExitSeen, TypeOK
  <2>4. NoShell \in Shell
    BY TerminalAssumption DEF NoShell, Shell
  <2> HIDE DEF i
  <2>5. TypeOK'
    BY <1>0, <2>1, <2>2, <2>3, <2>4 DEF TypeOK
  <2>6. InUseUntimed' /\ OrphanTimed'
    BY <1>0, <2>1, <2>2 DEF InUseUntimed, OrphanTimed, Has, TypeOK
  <2> QED BY <2>5, <2>6 DEF Timed, SessionsTimed
<1>9. ASSUME NEW n \in Id, TmuxKilled(n) PROVE Timed'
  <2>1. \A p \in Pty : pty[p] \in Shell /\ [pty[p] EXCEPT !.st = "over"] \in Shell
    BY <1>0 DEF TypeOK, Shell
  <2>2. pty' \in [Pty -> Shell]
    BY <1>9, <2>1 DEF TmuxKilled
  <2>3. TypeOK'
    BY <1>0, <1>9, <2>2 DEF TmuxKilled, TypeOK
  <2>4. InUseUntimed' /\ OrphanTimed'
    BY <1>0, <1>9 DEF TmuxKilled, InUseUntimed, OrphanTimed, Has
  <2> QED BY <2>3, <2>4 DEF Timed, SessionsTimed
<1>10. CASE LinkUp
  BY <1>0, <1>10 DEF LinkUp, Up, LinkState, Timed, SessionsTimed, InUseUntimed, OrphanTimed, Has, TypeOK
<1>11. CASE LinkDown \/ LinkEnded
  BY <1>11, Armed DEF LinkDown, LinkEnded, Down, Ended, LinkState
<1>12. CASE LinkRejected \/ LinkStopped
  BY <1>12, AllClosed DEF LinkRejected, LinkStopped, Reject, Stop, LinkState
<1>13. CASE UNCHANGED vars
  BY <1>0, <1>13 DEF vars, Timed, SessionsTimed, InUseUntimed, OrphanTimed, Has, TypeOK
<1> QED BY <1>1, <1>2, <1>3, <1>4, <1>5, <1>6, <1>7, <1>8, <1>9, <1>10, <1>11, <1>12, <1>13
        DEF Next, Message, Timer, Process

LEMMA TimedAlways == Spec => []Timed
BY TimedInitially, TimedStep, PTL DEF Spec

-----------------------------------------------------------------------------
(* The shells.                                                             *)

Kept == OnePerId /\ ShellTracked

\* Killing the session of an id and forgetting it loses no shell: it was the
\* only one of the id.
LEMMA Forgotten ==
  ASSUME TypeOK, Kept, NEW i \in Id, Has(i), Kill({table[i]}), table' = [table EXCEPT ![i] = NoPty]
  PROVE  Kept'
<1>1. {table[i]} \in SUBSET Pty
  BY DEF Has, TypeOK
<1>2. \A p \in Pty : /\ pty'[p].id = pty[p].id /\ pty[p].id \in Id
                     /\ Alive(p)' <=> Alive(p)
                     /\ Running(p)' <=> Running(p) /\ p # table[i]
  BY <1>1, KillsOnly DEF TypeOK, Shell
<1>3. OnePerId'
  BY <1>2 DEF Kept, OnePerId
<1>4. ShellTracked'
  BY <1>2 DEF Kept, ShellTracked, TypeOK
<1> QED BY <1>3, <1>4 DEF Kept

LEMMA AllForgotten ==
  ASSUME TypeOK, Kept, CloseAll
  PROVE  Kept'
<1>1. InTable \in SUBSET Pty /\ Kill(InTable)
  BY DEF InTable, TypeOK, CloseAll
<1>2. \A p \in Pty : /\ pty'[p].id = pty[p].id /\ pty[p].id \in Id
                     /\ Alive(p)' <=> Alive(p)
                     /\ Running(p)' <=> Running(p) /\ p \notin InTable
  BY <1>1, KillsOnly DEF TypeOK, Shell
<1>3. \A p \in Pty : Running(p) => p \in InTable
  BY <1>2, TerminalAssumption DEF Kept, ShellTracked, InTable
<1>4. OnePerId' /\ ShellTracked'
  BY <1>2, <1>3 DEF Kept, OnePerId, ShellTracked
<1> QED BY <1>4 DEF Kept

LEMMA KeptInitially == Init => Kept
BY DEF Init, NoShell, Kept, OnePerId, ShellTracked, Alive, Running

LEMMA KeptStep ==
  ASSUME ~EarlyReopen, TypeOK, TypeOK', Kept, [Next]_vars
  PROVE  Kept'
<1>0. OnePerId /\ ShellTracked /\ pty \in [Pty -> Shell] /\ table \in [Id -> Pty \cup {NoPty}]
      /\ NoPty \notin Pty
  BY TerminalAssumption DEF Kept, TypeOK
<1>1. CASE UNCHANGED <<pty, table>>
  BY <1>1 DEF Kept, OnePerId, ShellTracked, Alive, Running
<1>2. ASSUME NEW i \in Id, Open(i) PROVE Kept'
  <2>1. CASE Has(i)
    BY <1>1, <1>2, <2>1 DEF Open
  <2>2. CASE ~Has(i)
    <3>1. PICK p \in Pty, n \in Id, m \in Meta \cup {NoMeta} : Spawn(p, i, n, m)
      BY <1>2, <2>2 DEF Open
    <3>2. /\ ~Alive(p) /\ Running(p)' /\ pty'[p].id = i
          /\ \A q \in Pty : q # p => pty'[q] = pty[q]
          /\ table' = [table EXCEPT ![i] = p]
      BY <3>1, Spawned
    <3>3. \A q \in Pty : Alive(q) => pty[q].id # i
      BY <1>0, <1>2, <2>2 DEF Open, Awaited, Has
    <3>4. \A q \in Pty : q # p => (Alive(q)' <=> Alive(q)) /\ (Running(q)' <=> Running(q))
                                  /\ pty'[q].id = pty[q].id /\ pty[q].id \in Id
      BY <1>0, <3>2 DEF Alive, Running, Shell
    <3>5. \A q \in Pty : Running(q) => Alive(q)
      BY DEF Alive, Running
    <3>6. OnePerId'
      BY <1>0, <3>2, <3>3, <3>4 DEF OnePerId
    <3>7. ShellTracked'
      BY <1>0, <3>2, <3>3, <3>4, <3>5 DEF ShellTracked
    <3> QED BY <3>6, <3>7 DEF Kept
  <2> QED BY <2>1, <2>2
<1>3. ASSUME NEW i \in Id, Close(i) PROVE Kept'
  BY <1>3, Forgotten DEF Close
<1>4. ASSUME NEW i \in Id, GraceExpires(i) PROVE Kept'
  <2>1. CASE Has(i)
    BY <1>4, <2>1, Forgotten DEF GraceExpires
  <2>2. CASE ~Has(i)
    BY <1>1, <1>4, <2>2 DEF GraceExpires
  <2> QED BY <2>1, <2>2
<1>5. ASSUME NEW p \in Pty, ShellEnds(p) PROVE Kept'
  <2>1. /\ pty' = [pty EXCEPT ![p] = [pty[p] EXCEPT !.st = "over"]] /\ table' = table
        /\ pty[p].st = "up" /\ pty[p] \in Shell
    BY <1>0, <1>5 DEF ShellEnds, Running
  <2>2. \A q \in Pty : /\ pty'[q].id = pty[q].id /\ Alive(q)' <=> Alive(q)
    BY <1>0, <2>1 DEF Alive, Shell
  <2>3. \A q \in Pty : Running(q)' => Running(q)
    BY <1>0, <2>1 DEF Running, Shell
  <2>4. OnePerId' /\ ShellTracked'
    BY <1>0, <2>1, <2>2, <2>3 DEF OnePerId, ShellTracked
  <2> QED BY <2>4 DEF Kept
<1>6. ASSUME NEW n \in Id, TmuxKilled(n) PROVE Kept'
  <2>1. \A q \in Pty : \/ pty'[q] = pty[q]
                       \/ pty'[q] = [pty[q] EXCEPT !.st = "over"] /\ Running(q)
    BY <1>6 DEF TmuxKilled
  <2>2. \A q \in Pty : /\ pty'[q].id = pty[q].id /\ Alive(q)' <=> Alive(q)
                       /\ Running(q)' => Running(q)
    <3> SUFFICES ASSUME NEW q \in Pty
                 PROVE  /\ pty'[q].id = pty[q].id /\ Alive(q)' <=> Alive(q)
                        /\ Running(q)' => Running(q)
      OBVIOUS
    <3>1. pty[q] \in Shell
      BY <1>0
    <3>2. CASE pty'[q] = pty[q]
      BY <3>2 DEF Alive, Running
    <3>3. CASE pty'[q] = [pty[q] EXCEPT !.st = "over"] /\ Running(q)
      BY <3>1, <3>3 DEF Alive, Running, Shell
    <3> QED BY <2>1, <3>2, <3>3
  <2>3. OnePerId' /\ ShellTracked'
    BY <1>0, <1>6, <2>2 DEF OnePerId, ShellTracked, TmuxKilled
  <2> QED BY <2>3 DEF Kept
<1>7. ASSUME NEW p \in Pty, ExitSeen(p) PROVE Kept'
  <2>1. /\ pty' = [pty EXCEPT ![p] = NoShell] /\ table' = [table EXCEPT ![pty[p].id] = NoPty]
        /\ Alive(p)
    BY <1>7 DEF ExitSeen, Alive
  <2>2. /\ ~Alive(p)' /\ ~Running(p)'
        /\ \A q \in Pty : q # p => pty'[q] = pty[q]
    BY <1>0, <2>1 DEF NoShell, Alive, Running
  <2>3. \A q \in Pty : q # p => (Alive(q)' <=> Alive(q)) /\ (Running(q)' <=> Running(q))
                                /\ pty'[q].id = pty[q].id /\ pty[q].id \in Id
    BY <1>0, <2>2 DEF Alive, Running, Shell
  <2>4. OnePerId'
    BY <1>0, <2>2, <2>3 DEF OnePerId
  <2>5. \A q \in Pty : q # p /\ Running(q) => pty[q].id # pty[p].id
    BY <1>0, <2>1 DEF OnePerId, Alive, Running
  <2>6. ShellTracked'
    BY <1>0, <2>1, <2>2, <2>3, <2>5 DEF ShellTracked
  <2> QED BY <2>4, <2>6 DEF Kept
<1>8. CASE LinkRejected \/ LinkStopped
  BY <1>8, AllForgotten DEF LinkRejected, LinkStopped
<1>9. CASE LinkUp \/ LinkDown \/ LinkEnded \/ Tick \/ UNCHANGED vars
  BY <1>1, <1>9 DEF LinkUp, LinkDown, LinkEnded, CloseAllGracefully, Tick, vars
<1>10. ASSUME NEW i \in Id, TmuxKillSession(i) \/ \E m \in Meta : Resume(i, m) PROVE Kept'
  BY <1>1, <1>10 DEF TmuxKillSession, Resume
<1> QED BY <1>2, <1>3, <1>4, <1>5, <1>6, <1>7, <1>8, <1>9, <1>10 DEF Next, Message, Timer, Process

-----------------------------------------------------------------------------
(* The theorems.                                                           *)

\* The table maps ids to shells, the timers lie within the grace window.
THEOREM TypeCorrect == Spec => []TypeOK
<1>1. Timed => TypeOK
  BY DEF Timed
<1> QED BY TimedAlways, <1>1, PTL

\* Grace timers run for sessions nobody uses, and for all of them while there
\* is no connection.
THEOREM TimersRight == Spec => []SessionsTimed
<1>1. Timed => SessionsTimed
  BY DEF Timed
<1> QED BY TimedAlways, <1>1, PTL

\* As long as the server opens an id anew only after its exit was reported, the
\* manager never loses a shell that runs.
THEOREM ShellsTracked == ASSUME ~EarlyReopen PROVE Spec => []ShellTracked
<1>1. Timed => TypeOK
  BY DEF Timed
<1>2. TypeOK /\ TypeOK' /\ Kept /\ [Next]_vars => Kept'
  BY KeptStep
<1>3. Kept => ShellTracked
  BY DEF Kept
<1> QED BY TimedAlways, KeptInitially, <1>1, <1>2, <1>3, PTL DEF Spec

\* Shells and timers are what the table says.
THEOREM SessionsSafe == ASSUME ~EarlyReopen PROVE Spec => []SessionsKept
<1>1. TypeOK /\ ShellTracked /\ SessionsTimed => SessionsKept
  BY DEF SessionsKept
<1> QED BY <1>1, TypeCorrect, ShellsTracked, TimersRight, PTL

-----------------------------------------------------------------------------
(***************************************************************************)
(* The record of the agent, of starts and stops that do not race each      *)
(* other: it names the agent that serves, and keeps nobody from starting   *)
(* but beside another that lives.                                          *)
(***************************************************************************)

(* The invariant.                                                          *)

\* In a container one process lives at a time; on a host each has a pid of its own.
PidsApart ==
    \A p, q \in Starts : IsUp(p) /\ IsUp(q) /\ p # q => ~container /\ proc[p].pid # proc[q].pid
HostsKnown == \A q \in Starts : IsUp(q) => proc[q].pid # 0 /\ (~container => proc[q].host = 1)

\* The record of an agent that serves says where it is; one that has not got so
\* far has written none.
Recorded ==
    \A q \in Starts :
        /\ proc[q].pc = "running" => record.by = q /\ record.host = proc[q].host /\ record.pid = proc[q].pid
        /\ record.by = q => proc[q].pc \notin {"off", "starting", "checked"}

\* One process starts at a time, and has found nobody serve when it goes on.
OneStarts ==
    /\ \A p, q \in Starts : Starting(p) /\ Starting(q) => p = q
    /\ \A p, q \in Starts : proc[p].pc = "checked" => proc[q].pc # "running"

\* During a stop nobody starts, and who serves is the one it is for.
StopAlone ==
    stop.pc # "idle" =>
        \A q \in Starts : ~Starting(q) /\ (proc[q].pc = "running" => proc[q].pid = stop.rec.pid)

PidInv == PidTypeOK /\ PidsApart /\ HostsKnown /\ Recorded /\ OneStarts /\ StopAlone

-----------------------------------------------------------------------------
(* Every step keeps it.                                                    *)

LEMMA InitSound == ASSUME PidInit PROVE PidInv
  BY PidAssumption DEF PidInit, PidInv, PidTypeOK, PidsApart, HostsKnown, Recorded, OneStarts, StopAlone,
         IsUp, Starting, NoRecord, Off, NoStop

LEMMA LaunchSound ==
  ASSUME PidFaults = {}, PidInv, NEW q \in Starts, NEW h \in Hosts, NEW pid \in Pids, Launch(q, h, pid)
  PROVE  PidInv'
  <1>1. /\ proc[q].pc = "off" /\ stop.pc = "idle"
        /\ \A p \in Starts : IsUp(p) => ~container /\ proc[p].pid # pid
        /\ \A p \in Starts : ~Starting(p)
        /\ ~container => h = 1
        /\ proc' = [proc EXCEPT ![q] = [pc |-> "starting", host |-> h, pid |-> pid]]
        /\ UNCHANGED <<container, record, stop>>
    BY DEF Launch
  <1>2. PidTypeOK'
    BY <1>1 DEF PidInv, PidTypeOK
  <1>3. /\ proc'[q] = [pc |-> "starting", host |-> h, pid |-> pid]
        /\ \A p \in Starts \ {q} : proc'[p] = proc[p]
    BY <1>1 DEF PidInv, PidTypeOK
  <1>4. PidsApart' /\ HostsKnown'
    BY <1>1, <1>3, PidAssumption DEF PidInv, PidsApart, HostsKnown, IsUp
  <1>5. record.by # q
    BY <1>1 DEF PidInv, Recorded
  <1>6. Recorded' /\ OneStarts' /\ StopAlone'
    BY <1>1, <1>3, <1>5 DEF PidInv, Recorded, OneStarts, StopAlone, Starting
  <1> QED BY <1>2, <1>4, <1>6 DEF PidInv

\* A check that passes has found nobody serve: who serves is in the record, on
\* this host, and has another pid.
LEMMA CheckedAlone ==
  ASSUME PidFaults = {}, PidInv, NEW q \in Starts, NEW p \in Starts,
         proc[q].pc = "starting", proc[p].pc = "running"
  PROVE  isEntryRunning(record, proc[q].host, proc[q].pid, q)
  <1>1. /\ IsUp(p) /\ IsUp(q) /\ p # q
        /\ record.by = p /\ record.host = proc[p].host /\ record.pid = proc[p].pid
    BY DEF IsUp, PidInv, Recorded
  <1>2. /\ ~container /\ proc[p].pid # proc[q].pid /\ proc[p].host = proc[q].host
    BY <1>1 DEF PidInv, PidsApart, HostsKnown
  <1>3. record # NoRecord
    BY <1>1, PidAssumption DEF NoRecord
  <1> QED BY <1>1, <1>2, <1>3 DEF isEntryRunning, Lives

\* A check that fails has found another that lives.
LEMMA RefusedBeside ==
  ASSUME PidFaults = {}, PidInv, NEW q \in Starts, proc[q].pc = "starting",
         isEntryRunning(record, proc[q].host, proc[q].pid, q)
  PROVE  \E p \in Starts \ {q} : IsUp(p)
  <1>1. record.by # q
    BY DEF PidInv, Recorded
  <1> QED BY <1>1 DEF isEntryRunning, Near, Lives

\* The steps of one process that stay within: each other one is as it was.
LEMMA CheckSound ==
  ASSUME PidFaults = {}, PidInv, NEW q \in Starts, Check(q)
  PROVE  PidInv'
  <1>1. PICK pc \in {"refused", "checked"} :
           /\ proc[q].pc = "starting" /\ proc' = [proc EXCEPT ![q].pc = pc]
           /\ pc = "checked" => ~isEntryRunning(record, proc[q].host, proc[q].pid, q)
           /\ UNCHANGED <<container, record, stop>>
    BY DEF Check
  <1>2. /\ proc'[q].pc = pc /\ proc'[q].host = proc[q].host /\ proc'[q].pid = proc[q].pid
        /\ \A p \in Starts \ {q} : proc'[p] = proc[p]
    BY <1>1 DEF PidInv, PidTypeOK
  <1>3. PidTypeOK'
    BY <1>1 DEF PidInv, PidTypeOK
  <1>4. PidsApart' /\ HostsKnown'
    BY <1>1, <1>2 DEF PidInv, PidsApart, HostsKnown, IsUp
  <1>5. record.by # q
    BY <1>1 DEF PidInv, Recorded
  <1>6. pc = "checked" => \A p \in Starts : proc[p].pc # "running"
    BY <1>1, CheckedAlone
  <1>7. Starting(q)
    BY <1>1 DEF Starting
  <1>8. Recorded' /\ StopAlone'
    BY <1>1, <1>2, <1>5, <1>7 DEF PidInv, Recorded, StopAlone, Starting
  <1>9. OneStarts'
    BY <1>1, <1>2, <1>6, <1>7 DEF PidInv, OneStarts, Starting
  <1> QED BY <1>3, <1>4, <1>8, <1>9 DEF PidInv

LEMMA WriteSound ==
  ASSUME PidInv, NEW q \in Starts, writePidFile(q)
  PROVE  PidInv'
  <1>1. /\ proc[q].pc = "checked" /\ proc' = [proc EXCEPT ![q].pc = "running"]
        /\ record' = [host |-> proc[q].host, pid |-> proc[q].pid, by |-> q]
        /\ UNCHANGED <<container, stop>>
    BY DEF writePidFile
  <1>2. /\ proc'[q].pc = "running" /\ proc'[q].host = proc[q].host /\ proc'[q].pid = proc[q].pid
        /\ \A p \in Starts \ {q} : proc'[p] = proc[p]
    BY <1>1 DEF PidInv, PidTypeOK
  <1>3. PidTypeOK'
    BY <1>1 DEF PidInv, PidTypeOK
  <1>4. PidsApart' /\ HostsKnown'
    BY <1>1, <1>2 DEF PidInv, PidsApart, HostsKnown, IsUp
  <1>5. Starting(q) /\ \A p \in Starts : proc[p].pc # "running" /\ (p # q => ~Starting(p))
    BY <1>1 DEF PidInv, OneStarts, Starting
  <1>6. Recorded'
    BY <1>1, <1>2, <1>5 DEF PidInv, Recorded
  <1>7. OneStarts'
    BY <1>2, <1>5 DEF OneStarts, Starting
  <1>8. StopAlone'
    BY <1>1, <1>5 DEF PidInv, StopAlone
  <1> QED BY <1>3, <1>4, <1>6, <1>7, <1>8 DEF PidInv

\* A process goes, or begins to drain, and with it the record if it is its own.
LEMMA GoesSound ==
  ASSUME PidInv, NEW q \in Starts, NEW pc \in {"draining", "gone"}, IsUp(q),
         proc' = [proc EXCEPT ![q].pc = pc], pc = "draining" => proc[q].pc = "running",
         record' = record \/ (record' = NoRecord /\ proc[q].pc = "running"),
         container' = container
  PROVE  /\ stop' = stop => PidInv'
         /\ stop.pc # "idle" /\ stop' = [stop EXCEPT !.pc = "waiting"] => PidInv'
  <1>1. /\ proc'[q].pc = pc /\ proc'[q].host = proc[q].host /\ proc'[q].pid = proc[q].pid
        /\ \A p \in Starts \ {q} : proc'[p] = proc[p]
    BY DEF PidInv, PidTypeOK
  <1>2. \A p \in Starts : (IsUp(p))' => IsUp(p) /\ proc'[p].host = proc[p].host /\ proc'[p].pid = proc[p].pid
    BY <1>1 DEF IsUp
  <1>3. \A p \in Starts : (Starting(p))' => Starting(p) /\ p # q
    BY <1>1 DEF Starting
  <1>4. \A p \in Starts : proc'[p].pc = "running" => proc[p].pc = "running" /\ p # q
    BY <1>1
  <1>5. \A p \in Starts : proc'[p].pc = "checked" => proc[p].pc = "checked"
    BY <1>1
  <1>6. PidsApart' /\ HostsKnown'
    BY <1>2 DEF PidInv, PidsApart, HostsKnown
  <1>7. OneStarts'
    BY <1>3, <1>4, <1>5 DEF PidInv, OneStarts
  <1>8. Recorded'
    <2>1. CASE record' = record
      BY <1>1, <1>4, <2>1 DEF PidInv, Recorded
    <2>2. CASE record' = NoRecord /\ proc[q].pc = "running"
      <3>1. \A p \in Starts : proc[p].pc = "running" => p = q
        BY <2>2 DEF PidInv, Recorded
      <3>2. \A p \in Starts : record'.by # p
        BY <2>2, PidAssumption DEF NoRecord
      <3> QED BY <1>4, <3>1, <3>2 DEF Recorded
    <2> QED BY <2>1, <2>2
  <1>9. /\ record' \in [host : {0} \cup Hosts, pid : {0} \cup Pids, by : {0} \cup Starts]
        /\ proc' \in [Starts -> [pc : {"off", "starting", "checked", "running", "draining", "refused", "gone"},
                                 host : {0} \cup Hosts, pid : {0} \cup Pids]]
    BY DEF PidInv, PidTypeOK, NoRecord
  <1>10. ASSUME stop' = stop PROVE PidInv'
    <2>1. PidTypeOK'
      BY <1>9, <1>10 DEF PidInv, PidTypeOK
    <2>2. StopAlone'
      BY <1>2, <1>3, <1>4, <1>10 DEF PidInv, StopAlone, IsUp
    <2> QED BY <1>6, <1>7, <1>8, <2>1, <2>2 DEF PidInv
  <1>11. ASSUME stop.pc # "idle", stop' = [stop EXCEPT !.pc = "waiting"] PROVE PidInv'
    <2>1. PidTypeOK'
      BY <1>9, <1>11 DEF PidInv, PidTypeOK
    <2>2. stop'.rec = stop.rec
      BY <1>11 DEF PidInv, PidTypeOK
    <2>3. StopAlone'
      BY <1>2, <1>3, <1>4, <1>11, <2>2 DEF PidInv, StopAlone, IsUp
    <2> QED BY <1>6, <1>7, <1>8, <2>1, <2>3 DEF PidInv
  <1> QED BY <1>10, <1>11

\* The record goes, and nobody serves; the stop is over or has not begun.
LEMMA ForgottenSound ==
  ASSUME PidInv, UNCHANGED <<container, proc>>, stop' = stop \/ stop' = NoStop,
         \/ record' = record
         \/ record' = NoRecord /\ \A q \in Starts : proc[q].pc # "running"
  PROVE  PidInv'
  <1>1. PidTypeOK' /\ StopAlone'
    BY DEF PidInv, PidTypeOK, StopAlone, Starting, NoRecord, NoStop
  <1>2. PidsApart' /\ HostsKnown' /\ OneStarts'
    BY DEF PidInv, PidsApart, HostsKnown, OneStarts, IsUp, Starting
  <1>3. Recorded'
    BY PidAssumption DEF PidInv, Recorded, NoRecord
  <1> QED BY <1>1, <1>2, <1>3 DEF PidInv

LEMMA StopSound ==
  ASSUME PidFaults = {}, PidInv, NEW h \in Hosts, stopAgent(h)
  PROVE  PidInv'
  <1>1. /\ stop.pc = "idle" /\ \A q \in Starts : ~Starting(q)
        /\ UNCHANGED <<container, proc>>
    BY DEF stopAgent
  <1>2. \A q \in Starts : proc[q].pc = "running" =>
          record.by = q /\ record.host = proc[q].host /\ record.pid = proc[q].pid /\ IsUp(q)
    BY DEF PidInv, Recorded, IsUp
  <1>3. CASE isEntryRunning(record, h, 0, 0)
    <2>1. stop' = [pc |-> "asked", rec |-> record] /\ record' = record
      BY <1>3 DEF stopAgent
    <2>2. PidTypeOK'
      BY <1>1, <2>1 DEF PidInv, PidTypeOK
    <2>3. PidsApart' /\ HostsKnown' /\ Recorded' /\ OneStarts'
      BY <1>1, <2>1 DEF PidInv, PidsApart, HostsKnown, Recorded, OneStarts, IsUp, Starting
    <2>4. StopAlone'
      BY <1>1, <1>2, <2>1 DEF StopAlone, Starting
    <2> QED BY <2>2, <2>3, <2>4 DEF PidInv
  <1>4. CASE ~isEntryRunning(record, h, 0, 0)
    <2>1. record' = NoRecord /\ stop' = stop
      BY <1>4 DEF stopAgent
    <2>2. ASSUME NEW q \in Starts, proc[q].pc = "running" PROVE FALSE
      <3>1. IsUp(q) /\ record.host = proc[q].host /\ record.pid = proc[q].pid
        BY <1>2, <2>2
      <3>2. proc[q].host = h
        <4>1. CASE container
          <5>1. PICK p \in Starts : IsUp(p) /\ proc[p].host = h
            BY <4>1 DEF stopAgent
          <5> QED BY <3>1, <4>1, <5>1 DEF PidInv, PidsApart
        <4>2. CASE ~container
          BY <3>1, <4>2 DEF stopAgent, PidInv, HostsKnown
        <4> QED BY <4>1, <4>2
      <3>3. record.pid # 0 /\ record # NoRecord
        BY <3>1 DEF stopAgent, PidInv, HostsKnown
      <3> QED BY <1>4, <3>1, <3>2, <3>3 DEF isEntryRunning, Lives
    <2> QED BY <1>1, <2>1, <2>2, ForgottenSound
  <1> QED BY <1>3, <1>4

LEMMA SignalSound == ASSUME PidInv, Signal PROVE PidInv'
  <1>1. stop.pc = "asked" /\ container' = container
    BY DEF Signal
  <1>2. CASE \E q \in Starts : IsUp(q) /\ proc[q].pid = stop.rec.pid
    <2>1. PICK q \in Starts : IsUp(q) /\ Signalled(q)
      BY <1>2 DEF Signal
    <2>2. stop' = [stop EXCEPT !.pc = "waiting"]
      BY <1>2 DEF Signal
    <2>3. CASE proc[q].pc = "running"
      <3>1. record' = NoRecord /\ proc' = [proc EXCEPT ![q].pc = "draining"]
        BY <2>1, <2>3 DEF Signalled
      <3> QED BY <1>1, <2>1, <2>2, <2>3, <3>1, GoesSound
    <2>4. CASE proc[q].pc = "draining"
      <3>1. record' = record /\ proc' = proc
        BY <2>1, <2>4 DEF Signalled
      <3>2. PidTypeOK'
        BY <1>1, <2>2, <3>1 DEF PidInv, PidTypeOK
      <3>3. stop'.rec = stop.rec
        BY <2>2 DEF PidInv, PidTypeOK
      <3>4. StopAlone'
        BY <1>1, <3>1, <3>3 DEF PidInv, StopAlone, Starting
      <3>5. PidsApart' /\ HostsKnown' /\ Recorded' /\ OneStarts'
        BY <1>1, <3>1 DEF PidInv, PidsApart, HostsKnown, Recorded, OneStarts, IsUp, Starting
      <3> QED BY <3>2, <3>4, <3>5 DEF PidInv
    <2>5. CASE proc[q].pc \notin {"running", "draining"}
      <3>1. record' = record /\ proc' = [proc EXCEPT ![q].pc = "gone"]
        BY <2>1, <2>5 DEF Signalled
      <3> QED BY <1>1, <2>1, <2>2, <3>1, GoesSound
    <2> QED BY <2>3, <2>4, <2>5
  <1>3. CASE ~\E q \in Starts : IsUp(q) /\ proc[q].pid = stop.rec.pid
    <2>1. stop' = NoStop /\ UNCHANGED <<record, proc>>
      BY <1>3 DEF Signal
    <2> QED BY <1>1, <2>1, ForgottenSound
  <1> QED BY <1>2, <1>3

LEMMA WaitSound == ASSUME PidInv, WaitEnds PROVE PidInv'
  <1>1. /\ stop.pc = "waiting" /\ stop' = NoStop /\ UNCHANGED <<container, proc>>
        /\ record' = IF \E q \in Starts : IsUp(q) /\ proc[q].pid = stop.rec.pid THEN record ELSE NoRecord
    BY DEF WaitEnds
  <1>2. (~\E q \in Starts : IsUp(q) /\ proc[q].pid = stop.rec.pid) => \A q \in Starts : proc[q].pc # "running"
    BY <1>1 DEF PidInv, StopAlone, IsUp
  <1> QED BY <1>1, <1>2, ForgottenSound

LEMMA PidStep == ASSUME PidFaults = {}, PidInv, [PidNext]_pidVars PROVE PidInv'
  <1>1. CASE UNCHANGED pidVars
    BY <1>1, ForgottenSound DEF pidVars
  <1>2. ASSUME NEW q \in Starts, NEW h \in Hosts, NEW p \in Pids, Launch(q, h, p) PROVE PidInv'
    BY <1>2, LaunchSound
  <1>3. ASSUME NEW q \in Starts, Check(q) PROVE PidInv'
    BY <1>3, CheckSound
  <1>4. ASSUME NEW q \in Starts, writePidFile(q) PROVE PidInv'
    BY <1>4, WriteSound
  <1>5. ASSUME NEW q \in Starts, shutdown(q) PROVE PidInv'
    <2>1. /\ proc[q].pc = "running" /\ UNCHANGED <<container, stop>>
          /\ record' = NoRecord /\ proc' = [proc EXCEPT ![q].pc = "draining"]
      BY <1>5 DEF shutdown, Signalled
    <2>2. IsUp(q)
      BY <2>1 DEF IsUp
    <2> QED BY <2>1, <2>2, GoesSound
  <1>6. ASSUME NEW q \in Starts, Exit(q) PROVE PidInv'
    <2>1. IsUp(q) /\ proc' = [proc EXCEPT ![q].pc = "gone"] /\ UNCHANGED <<container, record, stop>>
      BY <1>6 DEF Exit
    <2> QED BY <2>1, GoesSound
  <1>7. ASSUME NEW h \in Hosts, stopAgent(h) PROVE PidInv'
    BY <1>7, StopSound
  <1> QED BY <1>1, <1>2, <1>3, <1>4, <1>5, <1>6, <1>7, SignalSound, WaitSound DEF PidNext

-----------------------------------------------------------------------------
(* The theorems.                                                           *)

LEMMA InvariantKept == ASSUME PidFaults = {} PROVE PidSpec => []PidInv
  <1>1. PidInit => PidInv
    BY InitSound
  <1>2. PidInv /\ [PidNext]_pidVars => PidInv'
    BY PidStep
  <1> QED BY <1>1, <1>2, PTL DEF PidSpec

\* A step that refuses a start is the check of pid-manager.ts, isEntryRunning().
LEMMA RefusedStep ==
  ASSUME PidFaults = {}, PidInv, [PidNext]_pidVars,
         NEW q \in Starts, proc'[q].pc = "refused", proc[q].pc # "refused"
  PROVE  \E p \in Starts \ {q} : IsUp(p)
  <1>1. proc \in [Starts -> [pc : {"off", "starting", "checked", "running", "draining", "refused", "gone"},
                             host : {0} \cup Hosts, pid : {0} \cup Pids]]
    BY DEF PidInv, PidTypeOK
  <1>2. \A p \in Starts : Signalled(p) => proc'[q].pc # "refused"
    BY <1>1 DEF Signalled
  <1>3. proc' # proc
    OBVIOUS
  <1>4. Check(q)
    BY <1>1, <1>2, <1>3
       DEF PidNext, pidVars, Launch, Check, writePidFile, shutdown, Exit, stopAgent, Signal, WaitEnds
  <1> QED BY <1>1, <1>4, RefusedBeside DEF Check

\* pid-manager.ts, agent-runner.ts, stop-agent.ts: of starts and stops that do not
\* race each other the record names the agent that serves, and it keeps nobody
\* from starting unless another process lives.
THEOREM RecordTrue == ASSUME PidFaults = {} PROVE PidSpec => PidFileTrue
  <1>1. PidInv => PidTypeOK /\ ServingIsRecorded
    BY DEF PidInv, Recorded, ServingIsRecorded
  <1>2. PidInv /\ [PidNext]_pidVars =>
          [\A q \in Starts : proc'[q].pc = "refused" /\ proc[q].pc # "refused" => \E p \in Starts \ {q} : IsUp(p)]_pidVars
    BY RefusedStep
  <1> QED BY <1>1, <1>2, InvariantKept, PTL DEF PidSpec, PidFileTrue

-----------------------------------------------------------------------------
(***************************************************************************)
(* The login file.                                                         *)
(***************************************************************************)

\* What every agent that has read or written the file goes by.
Held ==
  /\ ~file.there => ~file.keys /\ ~file.user
  /\ file.whole => file.user = had
  /\ \A p \in Agents :
       /\ agent[p].pc \in {"write", "writing"} => agent[p].user = had /\ agent[p].keys
       /\ agent[p].pc \in {"release", "ready"} => file.there /\ file.whole /\ file.keys

\* On a disk the file is whole at any time, whoever has the lock.
WholeAlways == /\ place = "disk" /\ Held /\ file.whole
            /\ \A p \in Agents : agent[p].pc \notin Mends \cup {"writing"}

\* Where the file is mounted, its lock keeps the others away while it is written.
Guarded ==
  /\ place = "mount" /\ Held /\ ~stale
  /\ lock = 0 => file.whole
  /\ \A p \in Agents :
       /\ agent[p].pc \in InLock <=> lock = p
       /\ agent[p].pc \notin Mends \cup {"steal"}
       /\ agent[p].pc \in {"write", "writing"} => ~file.keys
       /\ agent[p].pc \in {"read", "write"} => file.whole

\* A file that was broken from the start is put right by one agent, from the
\* backup, before another gets as far as the lock.
BrokenYet ==
  /\ Held /\ ~file.whole /\ file.there /\ backup.user = had
  /\ lock = 0 /\ ~stale
  /\ \A p \in Agents : /\ agent[p].pc \in {"idle"} \cup Mends
                       /\ agent[p].pc = "mending" => agent[p].user = had
  /\ \A p, q \in Agents : agent[p].pc \in Mends /\ agent[q].pc \in Mends => p = q

JsonInv == JsonTypeOK /\ (WholeAlways \/ Guarded \/ BrokenYet)

LEMMA AwayType ==
  /\ Away \in Agent /\ Away.pc = "idle" /\ ~Away.user
  /\ [Away EXCEPT !.pc = "open"] \in Agent /\ [Away EXCEPT !.pc = "idle"] \in Agent
<1>1. 0 \in 0 .. LOCK_RETRY_MAX
  BY JsonAssumption
<1>2. Away \in Agent /\ Away.pc = "idle" /\ ~Away.user
  BY <1>1 DEF Away, Agent
<1>3. \A pc \in {"open", "idle"} : [Away EXCEPT !.pc = pc] \in Agent
  BY <1>1 DEF Away, Agent
<1> QED BY <1>2, <1>3

LEMMA FileTypes ==
  /\ NoFile \in JsonFile /\ ~NoFile.there /\ NoFile.whole /\ ~NoFile.keys /\ ~NoFile.user
  /\ UserFile \in JsonFile /\ UserFile.there /\ UserFile.whole /\ ~UserFile.keys /\ UserFile.user
  /\ Cut \in JsonFile /\ Cut.there /\ ~Cut.whole /\ ~Cut.keys /\ ~Cut.user
  /\ \A p \in Agents : agent[p].user \in BOOLEAN /\ agent[p].keys \in BOOLEAN => Written(p) \in JsonFile
BY DEF JsonFile, NoFile, UserFile, Cut, Written

\* Where an agent may go.
LEMMA Moves ==
  ASSUME NEW a \in Agent, NEW c \in {"idle", "open", "stat", "steal", "skipped", "ready"} \cup Mends \cup InLock,
         NEW k \in BOOLEAN, NEW u \in BOOLEAN, NEW n \in 0 .. LOCK_RETRY_MAX
  PROVE  /\ [a EXCEPT !.pc = c] \in Agent
         /\ [a EXCEPT !.pc = c, !.keys = k, !.user = u] \in Agent
         /\ [a EXCEPT !.pc = c, !.tries = n] \in Agent
BY DEF Agent

LEMMA JsonInitSound == ASSUME JsonInit PROVE JsonInv
<1>1. \A p \in Agents : agent[p].pc = "idle" /\ agent[p] \in Agent
  BY AwayType DEF JsonInit
<1>2. JsonTypeOK
  <2>1. file \in JsonFile /\ backup \in JsonFile /\ file.user \in BOOLEAN /\ backup.user \in BOOLEAN
    BY FileTypes DEF JsonInit, JsonFile
  <2> QED BY <1>1, <2>1 DEF JsonInit, JsonTypeOK
<1>3. Held
  BY <1>1, FileTypes DEF JsonInit, Held
<1>4. file.whole => WholeAlways \/ Guarded
  BY <1>1, <1>3, JsonAssumption DEF JsonInit, WholeAlways, Guarded, InLock, Mends
<1>5. ~file.whole => BrokenYet
  BY <1>1, <1>3, FileTypes DEF JsonInit, BrokenYet, Mends
<1> QED BY <1>2, <1>4, <1>5 DEF JsonInv

LEMMA JsonTypeStep == ASSUME JsonTypeOK, [JsonNext]_jsonVars PROVE JsonTypeOK'
<1>0. /\ \A p \in Agents : /\ agent[p] \in Agent /\ agent[p].user \in BOOLEAN /\ agent[p].keys \in BOOLEAN
                          /\ agent[p].tries \in 0 .. LOCK_RETRY_MAX
      /\ file \in JsonFile /\ backup \in JsonFile
      /\ backup.keys \in BOOLEAN /\ backup.user \in BOOLEAN /\ file.user \in BOOLEAN
  BY DEF JsonFile, JsonTypeOK, Agent
<1>1. ASSUME NEW p \in Agents, ensureClaudeJsonOAuthAccount(p) \/ agent' = [agent EXCEPT ![p] = Away]
      PROVE  agent' \in [Agents -> Agent]
  BY <1>1, AwayType DEF ensureClaudeJsonOAuthAccount, JsonTypeOK
<1>2. ASSUME NEW p \in Agents, NEW c \in {"open", "stat", "steal", "skipped", "ready"} \cup Mends \cup InLock,
             Goto(p, c)
      PROVE  agent' \in [Agents -> Agent]
  <2>1. [agent[p] EXCEPT !.pc = c] \in Agent
    BY <1>0, Moves
  <2> QED BY <1>2, <2>1 DEF Goto, JsonTypeOK
<1>3. ASSUME NEW p \in Agents, Later(p) PROVE agent' \in [Agents -> Agent]
  <2>1. CASE agent[p].tries + 1 < LOCK_RETRY_MAX
    <3>1. agent[p].tries + 1 \in 0 .. LOCK_RETRY_MAX
      BY <1>0, <2>1, JsonAssumption
    <3>2. [agent[p] EXCEPT !.pc = "open", !.tries = agent[p].tries + 1] \in Agent
      BY <1>0, <3>1, Moves
    <3>3. agent' = [agent EXCEPT ![p] = [agent[p] EXCEPT !.pc = "open", !.tries = agent[p].tries + 1]]
      BY <1>3, <2>1 DEF Later, JsonTypeOK
    <3> QED BY <3>2, <3>3 DEF JsonTypeOK
  <2>2. CASE ~(agent[p].tries + 1 < LOCK_RETRY_MAX)
    BY <1>2, <1>3, <2>2 DEF Later
  <2> QED BY <2>1, <2>2
<1>4. ASSUME NEW p \in Agents, NEW c \in Mends \cup InLock, NEW k \in BOOLEAN, NEW u \in BOOLEAN,
             agent' = [agent EXCEPT ![p].pc = c, ![p].keys = k, ![p].user = u]
      PROVE  agent' \in [Agents -> Agent]
  <2>1. [agent[p] EXCEPT !.pc = c, !.keys = k, !.user = u] \in Agent
    BY <1>0, Moves
  <2>2. agent' = [agent EXCEPT ![p] = [agent[p] EXCEPT !.pc = c, !.keys = k, !.user = u]]
    BY <1>4 DEF JsonTypeOK
  <2> QED BY <2>1, <2>2 DEF JsonTypeOK
<1>5. ASSUME NEW p \in Agents, ensureClaudeJsonIntegrity(p) PROVE JsonTypeOK'
  BY <1>0, <1>1, <1>2, <1>5 DEF ensureClaudeJsonIntegrity, JsonTypeOK, Mends
<1>6. ASSUME NEW p \in Agents, openBroken(p) \/ syncOauthAccount(p) PROVE JsonTypeOK'
  <2>1. agent' \in [Agents -> Agent]
    <3>1. CASE openBroken(p)
      BY <1>0, <1>4, <3>1 DEF openBroken, Mends
    <3>2. CASE syncOauthAccount(p)
      <4>1. (file.there /\ file.whole /\ file.user) \in BOOLEAN
        OBVIOUS
      <4>2. PICK c \in InLock, k \in BOOLEAN, u \in BOOLEAN :
               agent' = [agent EXCEPT ![p].pc = c, ![p].keys = k, ![p].user = u]
        BY <3>2, <4>1 DEF syncOauthAccount, InLock
      <4> QED BY <1>4, <4>2
    <3> QED BY <1>6, <3>1, <3>2
  <2> QED BY <1>0, <1>6, <2>1, FileTypes DEF openBroken, syncOauthAccount, JsonTypeOK
<1>7. ASSUME NEW p \in Agents, writeBackup(p) \/ renameOver(p) \/ truncateMounted(p) \/ writeMounted(p)
      PROVE  JsonTypeOK'
  <2>1. agent' \in [Agents -> Agent]
    BY <1>1, <1>2, <1>7 DEF writeBackup, renameOver, truncateMounted, writeMounted, InLock
  <2>2. file' \in JsonFile
    BY <1>0, <1>7, FileTypes DEF writeBackup, renameOver, truncateMounted, writeMounted
  <2>3. UNCHANGED <<place, backup, had, lock, stale>>
    BY <1>7 DEF writeBackup, renameOver, truncateMounted, writeMounted
  <2> QED BY <1>0, <2>1, <2>2, <2>3 DEF JsonTypeOK
<1>8. ASSUME NEW p \in Agents, acquireLock(p) \/ statLock(p) \/ unlinkStale(p) \/ releaseLock(p) PROVE JsonTypeOK'
  BY <1>2, <1>3, <1>8 DEF acquireLock, statLock, unlinkStale, releaseLock, JsonTypeOK, InLock
<1>9. ASSUME NEW p \in Agents, Dies(p) PROVE JsonTypeOK'
  BY <1>1, <1>9 DEF Dies, JsonTypeOK
<1>10. ASSUME Ages \/ CliWrites \/ UNCHANGED jsonVars PROVE JsonTypeOK'
  BY <1>10 DEF Ages, CliWrites, jsonVars, JsonTypeOK, JsonFile
<1> QED BY <1>5, <1>6, <1>7, <1>8, <1>9, <1>10 DEF JsonNext, Step

\* The file is replaced in one go, and nobody else changes what a reader took
\* from it before it writes.
LEMMA ReplacedStep ==
  ASSUME "cli" \notin JsonFaults, JsonTypeOK, WholeAlways, [JsonNext]_jsonVars
  PROVE  WholeAlways'
<1> USE DEF JsonTypeOK, Agent, JsonFile, WholeAlways, Held, Mends
<1>1. ASSUME NEW p \in Agents, ensureClaudeJsonIntegrity(p) PROVE WholeAlways'
  BY <1>1 DEF ensureClaudeJsonIntegrity, ensureClaudeJsonOAuthAccount, Away, Goto
<1>2. ASSUME NEW p \in Agents, openBroken(p) PROVE WholeAlways'
  BY <1>2 DEF openBroken, Cut, NoFile
<1>3. ASSUME NEW p \in Agents, writeBackup(p) PROVE WholeAlways'
  BY <1>3 DEF writeBackup, Written, ensureClaudeJsonOAuthAccount, Away
<1>4. ASSUME NEW p \in Agents, acquireLock(p) PROVE WholeAlways'
  BY <1>4 DEF acquireLock, Goto, LockFree
<1>5. ASSUME NEW p \in Agents, statLock(p) PROVE WholeAlways'
  BY <1>5 DEF statLock, Goto, Later
<1>6. ASSUME NEW p \in Agents, unlinkStale(p) PROVE WholeAlways'
  BY <1>6 DEF unlinkStale, Goto, Later
<1>7. ASSUME NEW p \in Agents, syncOauthAccount(p) PROVE WholeAlways'
  BY <1>7 DEF syncOauthAccount
<1>8. ASSUME NEW p \in Agents, renameOver(p) PROVE WholeAlways'
  BY <1>8 DEF renameOver, Goto, Written
<1>9. ASSUME NEW p \in Agents, truncateMounted(p) PROVE WholeAlways'
  BY <1>9 DEF truncateMounted, Goto, Cut, NoFile
<1>10. ASSUME NEW p \in Agents, writeMounted(p) PROVE WholeAlways'
  BY <1>10 DEF writeMounted, Goto, Written
<1>11. ASSUME NEW p \in Agents, releaseLock(p) PROVE WholeAlways'
  BY <1>11 DEF releaseLock, Goto
<1>12. ASSUME NEW p \in Agents, Dies(p) PROVE WholeAlways'
  BY <1>12 DEF Dies, Away
<1>13. ASSUME Ages PROVE WholeAlways'
  BY <1>13 DEF Ages
<1>14. ASSUME CliWrites PROVE WholeAlways'
  BY <1>14 DEF CliWrites
<1>15. ASSUME UNCHANGED jsonVars PROVE WholeAlways'
  BY <1>15 DEF jsonVars
<1> QED
  BY <1>1, <1>2, <1>3, <1>4, <1>5, <1>6, <1>7, <1>8, <1>9, <1>10, <1>11, <1>12, <1>13, <1>14, <1>15 DEF JsonNext, Step

\* The lock is taken away from nobody who lives, so one agent reads and writes.
LEMMA GuardedStep ==
  ASSUME JsonFaults = {}, JsonTypeOK, Guarded, [JsonNext]_jsonVars
  PROVE  Guarded'
<1> USE JsonAssumption DEF JsonTypeOK, Agent, JsonFile, Guarded, Held, InLock, Mends
<1>1. ASSUME NEW p \in Agents, ensureClaudeJsonIntegrity(p) PROVE Guarded'
  BY <1>1 DEF ensureClaudeJsonIntegrity, ensureClaudeJsonOAuthAccount, Away, Goto
<1>2. ASSUME NEW p \in Agents, openBroken(p) PROVE Guarded'
  BY <1>2 DEF openBroken, Cut, NoFile
<1>3. ASSUME NEW p \in Agents, writeBackup(p) PROVE Guarded'
  BY <1>3 DEF writeBackup, Written, ensureClaudeJsonOAuthAccount, Away
<1>4. ASSUME NEW p \in Agents, acquireLock(p) PROVE Guarded'
  BY <1>4 DEF acquireLock, Goto, LockFree
<1>5. ASSUME NEW p \in Agents, statLock(p) PROVE Guarded'
  BY <1>5 DEF statLock, Goto, Later
<1>6. ASSUME NEW p \in Agents, unlinkStale(p) PROVE Guarded'
  BY <1>6 DEF unlinkStale, Goto, Later
<1>7. ASSUME NEW p \in Agents, syncOauthAccount(p) PROVE Guarded'
  BY <1>7 DEF syncOauthAccount
<1>8. ASSUME NEW p \in Agents, renameOver(p) PROVE Guarded'
  BY <1>8 DEF renameOver, Goto, Written
<1>9. ASSUME NEW p \in Agents, truncateMounted(p) PROVE Guarded'
  BY <1>9 DEF truncateMounted, Goto, Cut, NoFile
<1>10. ASSUME NEW p \in Agents, writeMounted(p) PROVE Guarded'
  BY <1>10 DEF writeMounted, Goto, Written
<1>11. ASSUME NEW p \in Agents, releaseLock(p) PROVE Guarded'
  BY <1>11 DEF releaseLock, Goto
<1>12. ASSUME NEW p \in Agents, Dies(p) PROVE Guarded'
  BY <1>12 DEF Dies, Away
<1>13. ASSUME Ages PROVE Guarded'
  BY <1>13 DEF Ages
<1>14. ASSUME CliWrites PROVE Guarded'
  BY <1>14 DEF CliWrites
<1>15. ASSUME UNCHANGED jsonVars PROVE Guarded'
  BY <1>15 DEF jsonVars
<1> QED
  BY <1>1, <1>2, <1>3, <1>4, <1>5, <1>6, <1>7, <1>8, <1>9, <1>10, <1>11, <1>12, <1>13, <1>14, <1>15 DEF JsonNext, Step

\* The agent that puts the file right is alone with it; then it is whole.
LEMMA BrokenStep ==
  ASSUME JsonFaults = {}, JsonTypeOK, BrokenYet, [JsonNext]_jsonVars
  PROVE  WholeAlways' \/ Guarded' \/ BrokenYet'
<1> USE JsonAssumption DEF JsonTypeOK, Agent, JsonFile, BrokenYet, Held, InLock, Mends
<1>1. ASSUME NEW p \in Agents, ensureClaudeJsonIntegrity(p) PROVE BrokenYet'
  BY <1>1 DEF ensureClaudeJsonIntegrity, Goto
<1>2. ASSUME NEW p \in Agents, openBroken(p) PROVE BrokenYet'
  BY <1>2 DEF openBroken, Cut, NoFile
<1>3. ASSUME NEW p \in Agents, writeBackup(p) PROVE WholeAlways' \/ Guarded'
  <2>1. /\ \A q \in Agents : agent'[q].pc \in {"open", "idle"}
        /\ file'.there /\ file'.whole /\ file'.user = had /\ UNCHANGED <<place, had, lock, stale>>
    BY <1>3 DEF writeBackup, Written, ensureClaudeJsonOAuthAccount, Away
  <2> QED BY <2>1 DEF WholeAlways, Guarded
<1>4. ASSUME NEW p \in Agents, Dies(p) PROVE BrokenYet'
  BY <1>4 DEF Dies, Away
<1>5. ASSUME UNCHANGED jsonVars PROVE BrokenYet'
  BY <1>5 DEF jsonVars
<1>6. ASSUME NEW p \in Agents, \/ acquireLock(p) \/ statLock(p) \/ unlinkStale(p) \/ syncOauthAccount(p)
                              \/ renameOver(p) \/ truncateMounted(p) \/ writeMounted(p) \/ releaseLock(p)
      PROVE  FALSE
  BY <1>6
     DEF acquireLock, statLock, unlinkStale, syncOauthAccount, renameOver, truncateMounted, writeMounted, releaseLock
<1>7. ASSUME Ages \/ CliWrites PROVE FALSE
  BY <1>7 DEF Ages, CliWrites
<1> QED BY <1>1, <1>2, <1>3, <1>4, <1>5, <1>6, <1>7 DEF JsonNext, Step

LEMMA HeldKeeps == JsonTypeOK /\ Held => UserDataKept /\ ReadyFindsKeys
BY DEF JsonTypeOK, Held, UserDataKept, ReadyFindsKeys

\* claude-json-oauth-sync.ts and claude-config-validator.ts, for agents that share
\* their lock file and check no file that is being written in place: whoever is
\* killed or loses its lock to another, the data of the user stays in the file or
\* comes back from the backup, and an agent that is ready finds the keys.
THEOREM LoginKept == ASSUME JsonFaults = {} PROVE JsonSpec => []ClaudeJsonKept
<1>1. JsonInv /\ [JsonNext]_jsonVars => JsonInv'
  BY JsonTypeStep, ReplacedStep, GuardedStep, BrokenStep DEF JsonInv
<1>2. JsonInv => ClaudeJsonKept
  BY HeldKeeps DEF JsonInv, WholeAlways, Guarded, BrokenYet, ClaudeJsonKept
<1> QED BY <1>1, <1>2, JsonInitSound, PTL DEF JsonSpec

\* On a disk, for a file that is whole at the start, it needs neither, as long as
\* the CLI itself does not write beside an agent: an owner may lose its lock while
\* it writes, and the file may be checked at any time.
THEOREM LoginKeptOnDisk ==
  ASSUME "cli" \notin JsonFaults
  PROVE  JsonSpec /\ place = "disk" /\ file.whole => [](UserDataKept /\ ReadyFindsKeys)
<1> DEFINE Inv == JsonTypeOK /\ WholeAlways
<1>1. JsonInit /\ place = "disk" /\ file.whole => Inv
  BY JsonInitSound DEF JsonInv, Guarded, BrokenYet
<1>2. Inv /\ [JsonNext]_jsonVars => Inv'
  BY JsonTypeStep, ReplacedStep
<1>3. Inv => UserDataKept /\ ReadyFindsKeys
  BY HeldKeeps DEF WholeAlways
<1> HIDE DEF Inv
<1> QED BY <1>1, <1>2, <1>3, PTL DEF JsonSpec

(***************************************************************************)
(* The server setup.                                                       *)
(***************************************************************************)

Turns == {"timer", "drain"}

\* Where a run is before its directory, before its child, after its child.
Setting == {"idle", "oneshot", "local", "received", "fetch", "prepare"}
Preparing == Setting \cup {"dir", "inventory", "list", "download", "write", "spawn"}
Leaving == {"join", "drain", "outcome"}

\* What a stage says of the child, of the keys and of a success.
StagesOK ==
    /\ stage \in Setting => ~tmp
    /\ stage = "idle" => asked = "no"
    /\ stage \in Preparing => child = "none"
    /\ stage = "run" => child # "none"
    /\ stage \in Leaving => child = "exited"
    /\ child \in {"running", "unstarted"} => stage = "run"
    /\ child # "exited" => exit = "none"
    /\ child = "none" /\ stage \notin {"gone", "over"} => written = 0 /\ pm # "entered"
    /\ result = "success" => exit = "ok"
    /\ KeysRemoved

\* A stop that came early waits in the process manager, then it has its child.
StopHeld ==
    /\ asked # "no" => caller = "resident"
    /\ asked = "before" =>
        /\ exit # "ok"
        /\ child = "running" => sig /\ written = 0
        /\ stage \in Preparing => pm = "reserved"

\* A source that is wanted is to be listed, listed, or fetched.
Distributed == collectSharedFileSources(body.tasks)
StagingOK ==
    /\ stage = "list" => \A src \in Distributed : src \in sources \/ collectFileEntries(src) \subseteq files
    /\ stage = "download" => \A src \in Distributed : collectFileEntries(src) \subseteq files
    /\ stage \in {"write", "spawn", "run"} => \A src \in Distributed : collectFileEntries(src) \subseteq staged

\* One of the two deliveries at most is at the hand-shake, and before its end
\* the role has no answer.
Shakes(i) == del[i].pc \in {"declaring", "noticing"}
ShakeOK ==
    /\ Shakes("timer") => ~Shakes("drain")
    /\ \A i \in Turns : Shakes(i) => handled /\ ack = "none"
    /\ ~handled => ack = "none"
    /\ ack = "declared" => applied
    /\ ack = "undeclared" => noticed # "no"
    /\ role = "deploying" => ack # "none"

\* First arrivals in their order, repetitions within one request.
Ordered(seq) ==
    \A i, j \in DOMAIN seq :
        i < j /\ seq[j] <= seq[i]
        => /\ \E h \in 1 .. i : seq[h] = seq[j]
           /\ seq[i] < seq[j] + PerRequest

\* Nothing comes after the event "last", and what comes from "first" on has all
\* of its like before it.
UpTo(seq, first, last) ==
    \A k \in DOMAIN seq :
        /\ seq[k] <= last
        /\ \A e \in first .. seq[k] : \E h \in 1 .. k : seq[h] = e

\* The two never post beside each other, and what is in flight is at most a
\* repetition of the last that has arrived.
DeliveryOK ==
    /\ del.drain.pc # "off" => stage = "drain"
    /\ del.timer.pc # "off" => stage \in {"run", "join"} /\ Watched
    /\ \A i \in Turns :
        del[i].pc = "posting" =>
            /\ 1 <= del[i].from /\ del[i].from <= del[i].to
            /\ "slow" \notin Faults => UpTo(delivered, del[i].from, RequestEnd(i))
    /\ "slow" \notin Faults => Ordered(delivered) /\ stray = <<>>

\* With the last delivery all is handed on.
Handed == stage \in {"drain", "outcome", "cleanup", "ended"} /\ child = "exited" /\ Watched => offset = written

SetupInv == SetupTypeOK /\ StagesOK /\ StopHeld /\ StagingOK /\ DeliveryOK

-----------------------------------------------------------------------------
\* What the steps of a group leave alone.

\* Before there is a child.
LEMMA BeforeSteps ==
  ASSUME SetupTypeOK, Before
  PROVE  /\ UNCHANGED <<childVars, progressVars, shakeVars>>
         /\ stage \in Preparing
         /\ stage' \in (Preparing \ {"idle"}) \cup {"ended", "cleanup", "over"}
         /\ stage' \in Setting => stage \in Setting /\ tmp' = tmp
         /\ caller' = caller \/ stage = "idle"
         /\ result' \in {result, "error"} /\ (stage' = "ended" => result' = "error")
<1> USE DEF Preparing, Setting, childVars, progressVars, shakeVars, stageVars, runVars, Refuse, Fail
<1>1. CASE Receive \/ readOneshotEnv \/ runOneshot \/ parseBodyTasks
  BY <1>1 DEF Receive, readOneshotEnv, runOneshot, parseBodyTasks
<1>2. CASE buildLocalCredential \/ validatePayload \/ runServerSetup
  BY <1>2 DEF buildLocalCredential, validatePayload, runServerSetup
<1>3. CASE \E what \in DOMAIN answers : Answer(what)
  BY <1>3 DEF Answer
<1>4. CASE ResolvePaths \/ WriteInventory \/ CollectSources
  BY <1>4 DEF ResolvePaths, WriteInventory, CollectSources
<1>5. CASE ListSource \/ assertWithinLimits \/ Staged \/ WriteFiles
  BY <1>5 DEF ListSource, assertWithinLimits, Staged, WriteFiles
<1>6. CASE \E f \in files : downloadTo(f)
  BY <1>6 DEF downloadTo
<1> QED BY <1>1, <1>2, <1>3, <1>4, <1>5, <1>6 DEF Before

\* What a delivery makes of its entry.
Del(n) == [pc : {"off", "posting", "polling", "declaring", "noticing"}, from : 0 .. n, to : 0 .. n,
           tried : 0 .. (Tries - 1)]

LEMMA DeliverForm ==
  ASSUME SetupTypeOK, NEW i \in Turns, Deliver(i)
  PROVE  /\ offset' \in offset .. written
         /\ MaxEvents <= Chunk => offset' = written
         /\ \E d \in Del(offset') :
              /\ del' = [del EXCEPT ![i] = d]
              /\ d.pc = "polling" \/ (d.pc = "posting" /\ d.from = offset + 1 /\ d.from <= d.to)
<1> DEFINE last == IF written > offset + Chunk THEN offset + Chunk ELSE written
           d == IF last > offset THEN [pc |-> "posting", from |-> offset + 1, to |-> last, tried |-> 0]
                ELSE [pc |-> "polling", from |-> 0, to |-> 0, tried |-> 0]
<1>1. /\ Chunk \in Nat /\ Chunk > 0 /\ MaxEvents \in Nat /\ 0 \in 0 .. (Tries - 1)
      /\ written \in Nat /\ offset \in Nat /\ offset <= written /\ written <= MaxEvents
  BY SetupAssumption DEF SetupTypeOK
<1>2. last \in offset .. written /\ (MaxEvents <= Chunk => last = written)
  BY <1>1
<1>3. offset' = last
  BY DEF Deliver
<1>4. del' = [del EXCEPT ![i] = d]
  <2>1. [Idle EXCEPT !.pc = "polling"] = [pc |-> "polling", from |-> 0, to |-> 0, tried |-> 0]
    BY DEF Idle
  <2> QED BY <2>1, Zenon DEF Deliver
<1>5. d \in Del(last)
  BY <1>1, <1>2 DEF Del
<1>6. d.pc = "polling" \/ (d.pc = "posting" /\ d.from = offset + 1 /\ d.from <= d.to)
  BY <1>1, <1>2
<1>7. d \in Del(offset')
  BY <1>3, <1>5
<1> HIDE DEF last, d
<1> QED BY <1>2, <1>3, <1>4, <1>6, <1>7

\* Entries and deliveries keep their types as more is read.
LEMMA MoreRead ==
  ASSUME SetupTypeOK, offset' \in offset .. written
  PROVE  /\ offset \in Nat /\ offset' \in Nat /\ offset <= offset'
         /\ Del(offset) \subseteq Del(offset')
         /\ delivered \in Seq(1 .. offset') /\ stray \in Seq(1 .. offset')
<1>1. offset \in Nat /\ offset' \in Nat /\ offset <= offset'
  BY SetupAssumption DEF SetupTypeOK
<1>2. 0 .. offset \subseteq 0 .. offset' /\ 1 .. offset \subseteq 1 .. offset'
  BY <1>1
<1>3. Del(offset) \subseteq Del(offset')
  BY <1>2 DEF Del
<1>4. delivered \in Seq(1 .. offset') /\ stray \in Seq(1 .. offset')
  BY <1>2 DEF SetupTypeOK
<1> QED BY <1>1, <1>3, <1>4

LEMMA SetupInitially == SetupInit => SetupInv /\ ShakeOK /\ Handed
<1> SUFFICES ASSUME SetupInit PROVE SetupInv /\ ShakeOK /\ Handed
  OBVIOUS
<1>1. del \in [Turns -> Del(0)] /\ del.timer = Idle /\ del.drain = Idle
      /\ \A i \in Turns : del[i] = Idle
  <2>1. Idle \in Del(0)
    BY SetupAssumption DEF Idle, Del
  <2>2. [timer |-> Idle, drain |-> Idle] = [i \in {"timer", "drain"} |-> Idle]
    BY DEF SetupInit, Turns
  <2> QED BY <2>1, <2>2 DEF SetupInit, Turns
<1>2. Idle.pc = "off"
  BY DEF Idle
<1>3. offset = 0 /\ written = 0 /\ offset \in 0 .. written /\ written \in 0 .. MaxEvents
      /\ delivered = <<>> /\ delivered \in Seq(1 .. offset) /\ stray = <<>> /\ stray \in Seq(1 .. offset)
  BY SetupAssumption DEF SetupInit
<1>4. SetupTypeOK
  <2>1. answers = [what \in {"credential", "variables"} |-> "none"]
    BY DEF SetupInit
  <2>2. answers \in [{"credential", "variables"} -> {"none", "ok", "unfit", "rejected"}]
    BY <2>1
  <2> QED BY <1>1, <1>3, <2>2 DEF SetupInit, SetupTypeOK, Del, Turns
<1>5. StagesOK /\ StopHeld /\ StagingOK
  BY DEF SetupInit, StagesOK, KeysRemoved, StopHeld, StagingOK, Leaving
<1>6. DeliveryOK
  BY <1>1, <1>2, <1>3 DEF DeliveryOK, Ordered, Turns
<1>7. ShakeOK /\ Handed
  BY <1>1, <1>2 DEF SetupInit, ShakeOK, Shakes, Turns, Handed
<1> QED BY <1>4, <1>5, <1>6, <1>7 DEF SetupInv

-----------------------------------------------------------------------------
\* Types.

\* The types of the progress, and of the rest.
ProgressTyped ==
    /\ written \in Nat /\ offset \in Nat /\ offset <= written /\ written <= MaxEvents
    /\ delivered \in Seq(1 .. offset) /\ stray \in Seq(1 .. offset)
    /\ del \in [Turns -> Del(offset)]
ChildTyped ==
    /\ child \in {"none", "running", "unstarted", "exited"}
    /\ exit \in {"none", "ok", "failed", "garbled", "killed"}
    /\ sig \in BOOLEAN /\ timed \in BOOLEAN /\ stopped \in BOOLEAN
    /\ pm \in {"none", "reserved", "entered"} /\ asked \in {"no", "before", "later"}
    /\ marker \in BOOLEAN /\ handled \in BOOLEAN /\ applied \in BOOLEAN /\ noticed \in {"no", "told", "unheard"}
    /\ ack \in {"none", "declared", "undeclared"} /\ role \in {"none", "waiting", "deploying", "gave_up"}
RestTyped ==
    /\ stage \in Preparing \cup Leaving \cup {"run", "cleanup", "ended", "gone", "over"}
    /\ caller \in {"resident", "oneshot", "local"} /\ body \in Bodies \cup {NoBody}
    /\ answers \in [{"credential", "variables"} -> {"none", "ok", "unfit", "rejected"}]
    /\ sources \subseteq Source /\ files \subseteq {"dir/a", "dir/b"} /\ staged \subseteq files
    /\ tmp \in BOOLEAN
    /\ result \in {"none", "success", "stopped", "error"} /\ code \in {"none", "0", "1"}

LEMMA SplitTypes == SetupTypeOK <=> ProgressTyped /\ ChildTyped /\ RestTyped
<1>1. Del(offset) = [pc : {"off", "posting", "polling", "declaring", "noticing"}, from : 0 .. offset, to : 0 .. offset,
                    tried : 0 .. (Tries - 1)]
  BY DEF Del
<1>2. written \in 0 .. MaxEvents /\ offset \in 0 .. written
      <=> written \in Nat /\ offset \in Nat /\ offset <= written /\ written <= MaxEvents
  BY SetupAssumption
<1>3. Preparing \cup Leaving \cup {"run", "cleanup", "ended", "gone", "over"}
      = {"idle", "oneshot", "local", "received", "fetch", "prepare", "dir", "inventory", "list", "download", "write",
         "spawn", "run", "join", "drain", "outcome", "cleanup", "ended", "gone", "over"}
  BY DEF Preparing, Setting, Leaving
<1> QED BY <1>1, <1>2, <1>3, Zenon DEF SetupTypeOK, ProgressTyped, ChildTyped, RestTyped, Turns

LEMMA TypesNext == ProgressTyped' /\ ChildTyped' /\ RestTyped' => SetupTypeOK'
BY SplitTypes, PTL

LEMMA SameProgress == ASSUME ProgressTyped, UNCHANGED progressVars PROVE ProgressTyped'
BY Zenon DEF ProgressTyped, progressVars

LEMMA SameChild == ASSUME ChildTyped, UNCHANGED <<childVars, shakeVars>> PROVE ChildTyped'
BY DEF ChildTyped, childVars, shakeVars

\* What a source names is one of the files.
LEMMA EntriesAreFiles == \A src \in Source : collectFileEntries(src) \subseteq {"dir/a", "dir/b"}
BY DEF Source, collectFileEntries

LEMMA SourcesAreTyped ==
  ASSUME NEW b \in Body
  PROVE  collectSharedFileSources(normalizedTasks(b)) = collectSharedFileSources(b.tasks)
         /\ collectSharedFileSources(b.tasks) \subseteq Source
<1>1. \A i \in DOMAIN b.tasks : b.tasks[i] \in Task
  BY DEF Body
<1>2. DOMAIN normalizedTasks(b) = DOMAIN b.tasks
  BY DEF normalizedTasks
<1>3. \A i \in DOMAIN b.tasks :
        /\ normalizedTasks(b)[i].src = b.tasks[i].src
        /\ normalizedTasks(b)[i].module = b.tasks[i].module
        /\ normalizedTasks(b)[i].role = b.tasks[i].role
  BY <1>1 DEF normalizedTasks, Task
<1>4. \A i \in DOMAIN b.tasks : roleNameOf(normalizedTasks(b)[i]) = roleNameOf(b.tasks[i])
  BY <1>3 DEF roleNameOf
<1>5. collectSharedFileSources(normalizedTasks(b)) = collectSharedFileSources(b.tasks)
  BY <1>2, <1>3, <1>4, Zenon DEF collectSharedFileSources
<1>6. \A src \in Source : normalizeSource(src) \in Source
  BY DEF Source, normalizeSource
<1>7. \A i \in DOMAIN b.tasks : b.tasks[i].src \in Source
  BY <1>1 DEF Task
<1>8. collectSharedFileSources(b.tasks) \subseteq Source
  BY <1>6, <1>7 DEF collectSharedFileSources
<1> QED BY <1>5, <1>8

LEMMA BodyTyped == SetupTypeOK => body \in Body
<1>1. NoBody \in Body
  BY DEF NoBody, Body, Shape
<1> QED BY <1>1, SetupAssumption DEF SetupTypeOK

LEMMA BeforeTypes == ASSUME SetupTypeOK, Before PROVE SetupTypeOK'
<1>1. RestTyped /\ ProgressTyped' /\ ChildTyped'
  BY BeforeSteps, SplitTypes, SameProgress, SameChild
<1>2. ASSUME Receive \/ readOneshotEnv \/ runOneshot \/ parseBodyTasks PROVE RestTyped'
  BY <1>1, <1>2 DEF RestTyped, Preparing, Setting, stageVars, Receive, readOneshotEnv, runOneshot, parseBodyTasks, Refuse
<1>3. ASSUME buildLocalCredential \/ validatePayload \/ runServerSetup PROVE RestTyped'
  BY <1>1, <1>3 DEF RestTyped, Preparing, Setting, runVars, stageVars, buildLocalCredential, validatePayload, runServerSetup, Refuse
<1>4. ASSUME \E what \in DOMAIN answers : Answer(what) PROVE RestTyped'
  <2>1. PICK what \in DOMAIN answers : Answer(what)
    BY <1>4
  <2>2. answers' \in [{"credential", "variables"} -> {"none", "ok", "unfit", "rejected"}]
    BY <2>1 DEF Answer, SetupTypeOK
  <2> QED BY <1>1, <2>1, <2>2 DEF RestTyped, Preparing, Setting, runVars, Answer
<1>5. ASSUME ResolvePaths \/ WriteInventory PROVE RestTyped'
  BY <1>1, <1>5 DEF RestTyped, Preparing, Setting, runVars, stageVars, ResolvePaths, WriteInventory, Refuse, Fail
<1>6. ASSUME CollectSources PROVE RestTyped'
  <2>1. sources' \subseteq Source
    BY <1>6, BodyTyped, SourcesAreTyped DEF CollectSources, SetupTypeOK
  <2> QED BY <1>1, <1>6, <2>1 DEF RestTyped, Preparing, Setting, runVars, CollectSources, Fail
<1>7. ASSUME ListSource PROVE RestTyped'
  <2>1. sources' \subseteq Source /\ files' \subseteq {"dir/a", "dir/b"} /\ files \subseteq files'
    BY <1>7, EntriesAreFiles DEF ListSource, SetupTypeOK
  <2>2. staged' \subseteq files'
    BY <1>7, <2>1 DEF ListSource, SetupTypeOK
  <2> QED BY <1>1, <1>7, <2>1, <2>2 DEF RestTyped, Preparing, Setting, runVars, ListSource, Fail
<1>8. ASSUME assertWithinLimits \/ Staged \/ WriteFiles PROVE RestTyped'
  BY <1>1, <1>8 DEF RestTyped, Preparing, Setting, runVars, stageVars, assertWithinLimits, Staged, WriteFiles, Fail
<1>9. ASSUME \E f \in files : downloadTo(f) PROVE RestTyped'
  BY <1>1, <1>9 DEF RestTyped, Preparing, Setting, runVars, downloadTo, Fail
<1>10. RestTyped'
  BY <1>2, <1>3, <1>4, <1>5, <1>6, <1>7, <1>8, <1>9 DEF Before
<1> QED BY <1>1, <1>10, TypesNext

LEMMA Batch ==
  ASSUME NEW f \in Nat, NEW t \in Nat, NEW o \in Nat, 1 <= f, f <= t, t <= o, NEW u \in (f - 1) .. t
  PROVE  /\ u + 1 - f \in Nat
         /\ \A k \in 1 .. (u + 1 - f) : f + k - 1 \in 1 .. o /\ f + k - 1 <= t
         /\ [k \in 1 .. (u + 1 - f) |-> f + k - 1] \in Seq(1 .. o) \cap Seq(Nat)
         /\ Len([k \in 1 .. (u + 1 - f) |-> f + k - 1]) = u + 1 - f
OBVIOUS

\* One event after another, of which the first may be a repetition.
LEMMA RunAppended ==
  ASSUME NEW seq \in Seq(Nat), NEW first \in Nat, NEW last \in Nat, first <= last, last < first + PerRequest,
         NEW n, n = last + 1 - first,
         NEW run \in Seq(Nat), Len(run) = n, \A k \in 1 .. n : run[k] = first + k - 1,
         Ordered(seq), UpTo(seq, first, last)
  PROVE  Ordered(seq \o run) /\ UpTo(seq \o run, first, last)
<1> DEFINE long == seq \o run
           m == Len(seq)
<1>1. m \in Nat /\ n \in Nat /\ DOMAIN seq = 1 .. m /\ PerRequest \in Nat
  BY SetupAssumption
<1>2. /\ long \in Seq(Nat) /\ Len(long) = m + n
      /\ \A k \in 1 .. (m + n) : long[k] = IF k <= m THEN seq[k] ELSE run[k - m]
  <2>1. /\ long \in Seq(Nat) /\ Len(long) = Len(seq) + Len(run)
        /\ \A k \in 1 .. Len(seq) + Len(run) :
              long[k] = IF k <= Len(seq) THEN seq[k] ELSE run[k - Len(seq)]
    BY ConcatProperties, Zenon
  <2> QED BY <2>1, Zenon
<1> HIDE DEF long, m
<1>3. DOMAIN long = 1 .. (m + n)
  BY <1>1, <1>2
<1>4. \A k \in 1 .. m : long[k] = seq[k] /\ seq[k] \in Nat /\ seq[k] <= last
  <2> TAKE k \in 1 .. m
  <2>1. k \in 1 .. (m + n) /\ k <= m
    BY <1>1
  <2>2. long[k] = seq[k]
    BY <1>2, <2>1
  <2>3. k \in DOMAIN seq /\ seq[k] \in Nat
    BY <1>1
  <2>4. seq[k] <= last
    BY <2>3 DEF UpTo
  <2> QED BY <2>2, <2>3, <2>4
<1>5. \A k \in (m + 1) .. (m + n) : long[k] = first + (k - m) - 1 /\ long[k] \in first .. last
  <2> TAKE k \in (m + 1) .. (m + n)
  <2>1. k - m \in 1 .. n /\ k \in 1 .. (m + n) /\ ~(k <= m)
    BY <1>1
  <2>2. long[k] = run[k - m]
    BY <1>2, <2>1
  <2>3. long[k] = first + (k - m) - 1
    BY <2>1, <2>2
  <2> QED BY <1>1, <2>1, <2>3
<1>6. Ordered(long)
  <2> SUFFICES ASSUME NEW i \in DOMAIN long, NEW j \in DOMAIN long, i < j, long[j] <= long[i]
               PROVE  (\E h \in 1 .. i : long[h] = long[j]) /\ long[i] < long[j] + PerRequest
    BY DEF Ordered
  <2>1. CASE j <= m
    <3>1. i \in 1 .. m /\ j \in 1 .. m /\ seq[j] <= seq[i]
      BY <1>1, <1>3, <1>4, <2>1
    <3>2. PICK h \in 1 .. i : seq[h] = seq[j] /\ seq[i] < seq[j] + PerRequest
      BY <1>1, <3>1 DEF Ordered
    <3>3. h \in 1 .. m
      BY <1>1, <3>1
    <3> QED BY <1>4, <3>1, <3>2, <3>3
  <2>2. CASE i <= m /\ j > m
    <3>1. i \in 1 .. m /\ j \in (m + 1) .. (m + n)
      BY <1>1, <1>3, <2>2
    <3>2. long[j] \in first .. seq[i] /\ seq[i] <= last /\ seq[i] \in Nat
      BY <1>1, <1>4, <1>5, <3>1
    <3>3. PICK h \in 1 .. i : seq[h] = long[j]
      BY <1>1, <3>1, <3>2 DEF UpTo
    <3>4. h \in 1 .. m
      BY <1>1, <3>1
    <3>5. long[i] < long[j] + PerRequest
      BY <1>1, <1>4, <3>1, <3>2
    <3> QED BY <1>4, <3>3, <3>4, <3>5
  <2>3. CASE i > m
    <3>1. i \in (m + 1) .. (m + n) /\ j \in (m + 1) .. (m + n)
      BY <1>1, <1>3, <2>3
    <3>2. long[i] = first + (i - m) - 1 /\ long[j] = first + (j - m) - 1
      BY <1>5, <3>1
    <3>3. long[i] < long[j]
      BY <1>1, <3>1, <3>2
    <3> QED BY <1>1, <3>1, <3>2, <3>3
  <2> QED BY <1>1, <1>3, <2>1, <2>2, <2>3
<1>7. UpTo(long, first, last)
  <2> SUFFICES ASSUME NEW k \in DOMAIN long
               PROVE  long[k] <= last /\ \A e \in first .. long[k] : \E h \in 1 .. k : long[h] = e
    BY DEF UpTo
  <2>1. CASE k <= m
    <3>1. k \in 1 .. m /\ \A h \in 1 .. k : h \in 1 .. m
      BY <1>1, <1>3, <2>1
    <3>2. seq[k] <= last /\ \A e \in first .. seq[k] : \E h \in 1 .. k : seq[h] = e
      BY <1>1, <3>1, Zenon DEF UpTo
    <3>3. long[k] = seq[k] /\ \A h \in 1 .. k : long[h] = seq[h]
      BY <1>4, <3>1, Zenon
    <3> QED BY <3>2, <3>3, Zenon
  <2>2. CASE k > m
    <3>1. k \in (m + 1) .. (m + n)
      BY <1>1, <1>3, <2>2
    <3>2. ASSUME NEW e \in first .. long[k] PROVE \E h \in 1 .. k : long[h] = e
      <4> DEFINE h == m + (e - first) + 1
      <4>0. long[k] = first + (k - m) - 1 /\ e \in Nat /\ first <= e /\ e <= long[k]
        BY <1>5, <3>1
      <4>1. h \in (m + 1) .. (m + n) /\ h \in 1 .. k
        BY <1>1, <3>1, <4>0
      <4>2. long[h] = first + (h - m) - 1
        BY <1>5, <4>1
      <4>3. long[h] = e
        BY <1>1, <4>2
      <4> QED BY <4>1, <4>3
    <3> QED BY <1>5, <3>1, <3>2
  <2> QED BY <1>1, <1>3, <2>1, <2>2
<1> QED BY <1>6, <1>7 DEF long

\* The next request is part of the delivery.
LEMMA RequestForm ==
  ASSUME SetupTypeOK, NEW i \in Turns, 1 <= del[i].from, del[i].from <= del[i].to
  PROVE  /\ del[i].from \in Nat /\ del[i].to \in Nat /\ RequestEnd(i) \in del[i].from .. del[i].to
         /\ RequestEnd(i) < del[i].from + PerRequest
         /\ Request(i) \in Seq(1 .. offset) /\ Request(i) \in Seq(Nat)
         /\ Len(Request(i)) = RequestEnd(i) + 1 - del[i].from
         /\ \A k \in 1 .. Len(Request(i)) : Request(i)[k] = del[i].from + k - 1
<1>1. del[i] \in Del(offset) /\ offset \in Nat /\ PerRequest \in Nat \ {0}
  BY SplitTypes, SetupAssumption DEF ProgressTyped
<1>2. del[i].from \in Nat /\ del[i].to \in Nat /\ del[i].to <= offset
  BY <1>1 DEF Del
<1>3. RequestEnd(i) \in del[i].from .. del[i].to /\ RequestEnd(i) < del[i].from + PerRequest
  BY <1>1, <1>2 DEF RequestEnd
<1> DEFINE e == RequestEnd(i)
           n == e + 1 - del[i].from
<1>4. Request(i) = [k \in 1 .. n |-> del[i].from + k - 1]
  BY DEF Request
<1>5. e \in (del[i].from - 1) .. del[i].to
  BY <1>2, <1>3
<1> HIDE DEF e
<1>6. Request(i) \in Seq(1 .. offset) \cap Seq(Nat) /\ Len(Request(i)) = n
  <2> DEFINE f == del[i].from
  <2>1. f \in Nat /\ del[i].to \in Nat /\ 1 <= f /\ f <= del[i].to /\ del[i].to <= offset /\ e \in (f - 1) .. del[i].to
    BY <1>2, <1>5
  <2> HIDE DEF f
  <2>2. /\ [k \in 1 .. (e + 1 - f) |-> f + k - 1] \in Seq(1 .. offset) \cap Seq(Nat)
        /\ Len([k \in 1 .. (e + 1 - f) |-> f + k - 1]) = e + 1 - f
    BY <1>1, <2>1, Batch
  <2> QED BY <1>4, <2>2, Zenon DEF f
<1>7. \A k \in 1 .. n : Request(i)[k] = del[i].from + k - 1
  BY <1>4
<1> QED BY <1>2, <1>3, <1>6, <1>7 DEF e

\* What an attempt appends.
LEMMA BatchAppended ==
  ASSUME SetupTypeOK, DeliveryOK, NEW i \in Turns, submitServerSetupProgress(i)
  PROVE  /\ delivered' \in Seq(1 .. offset) /\ stray' \in Seq(1 .. offset)
         /\ "slow" \notin Faults =>
              stray' = <<>> /\ Ordered(delivered') /\ UpTo(delivered', del[i].from, RequestEnd(i))
<1>1. offset \in Nat /\ delivered \in Seq(1 .. offset) /\ stray \in Seq(1 .. offset)
  BY SplitTypes DEF ProgressTyped
<1>2. /\ 1 <= del[i].from /\ del[i].from <= del[i].to
      /\ "slow" \notin Faults => UpTo(delivered, del[i].from, RequestEnd(i)) /\ Ordered(delivered) /\ stray = <<>>
  BY DEF DeliveryOK, submitServerSetupProgress
<1>3. PICK first \in {<<>>, stray}, last \in {<<>>, Request(i)} : delivered' = delivered \o first \o last
  BY DEF submitServerSetupProgress
<1>4. Request(i) \in Seq(1 .. offset) /\ Request(i) \in Seq(Nat)
  BY <1>2, RequestForm
<1>5. first \in Seq(1 .. offset) /\ last \in Seq(1 .. offset)
  <2>1. <<>> \in Seq(1 .. offset)
    OBVIOUS
  <2> QED BY <1>1, <1>3, <1>4, <2>1
<1>6. delivered' \in Seq(1 .. offset)
  BY <1>1, <1>3, <1>5
<1>7. stray' \in Seq(1 .. offset) /\ ("slow" \notin Faults => stray' = <<>>)
  <2>1. stray' \in {Request(i), stray, <<>>} /\ ("slow" \notin Faults => stray' \in {stray, <<>>})
    BY DEF submitServerSetupProgress
  <2>2. <<>> \in Seq(1 .. offset)
    OBVIOUS
  <2>3. stray' \in Seq(1 .. offset)
    BY <1>1, <1>4, <2>1, <2>2, Zenon
  <2> QED BY <1>2, <2>1, <2>3, Zenon
<1>8. ASSUME "slow" \notin Faults PROVE Ordered(delivered') /\ UpTo(delivered', del[i].from, RequestEnd(i))
  <2>1. delivered' = delivered \o last /\ delivered \in Seq(Nat)
    <3>1. first = <<>> /\ delivered \o <<>> = delivered
      BY <1>1, <1>2, <1>3, <1>8
    <3>2. \A k \in 1 .. offset : k \in Nat
      BY <1>1
    <3> QED BY <1>1, <1>3, <3>1, <3>2
  <2>2. CASE last = <<>>
    <3>1. delivered' = delivered
      BY <2>1, <2>2
    <3> QED BY <1>2, <1>8, <3>1
  <2>3. CASE last = Request(i)
    <3> DEFINE n == RequestEnd(i) + 1 - del[i].from
    <3>1. /\ del[i].from \in Nat /\ RequestEnd(i) \in Nat /\ del[i].from <= RequestEnd(i)
          /\ RequestEnd(i) < del[i].from + PerRequest
          /\ Len(Request(i)) = n /\ \A k \in 1 .. n : Request(i)[k] = del[i].from + k - 1
      BY <1>2, RequestForm
    <3> HIDE DEF n
    <3>2. n = RequestEnd(i) + 1 - del[i].from
      BY DEF n
    <3> QED BY <1>2, <1>4, <1>8, <2>1, <2>3, <3>1, <3>2, RunAppended
  <2> QED BY <2>2, <2>3
<1> QED BY <1>6, <1>7, <1>8

\* What a delivery in flight does.
LEMMA DeliveryForm ==
  ASSUME SetupTypeOK, NEW i \in Turns,
         submitServerSetupProgress(i) \/ check(i) \/ declare(i) \/ reportFailure(i)
  PROVE  /\ UNCHANGED <<stage, runVars, childVars, written, offset, marker, role, stageVars, tmp, result, code>>
         /\ del[i].pc # "off"
         /\ \E d \in Del(offset) :
              /\ del' = [del EXCEPT ![i] = d]
              /\ ~submitServerSetupProgress(i) => d.pc # "posting"
              /\ submitServerSetupProgress(i) =>
                    \/ d.pc = "polling"
                    \/ d.pc = "posting" /\ d.from = del[i].from /\ d.to = del[i].to
                    \/ d.pc = "posting" /\ d.from = RequestEnd(i) + 1 /\ d.to = del[i].to /\ RequestEnd(i) # d.to
<1>1. del \in [Turns -> Del(offset)] /\ del[i] \in Del(offset) /\ offset \in Nat
  BY SplitTypes DEF ProgressTyped
<1>2. \A pc \in {"declaring", "noticing"} :
        [del[i] EXCEPT !.pc = pc] \in Del(offset) /\ [del[i] EXCEPT !.pc = pc].pc = pc
  BY <1>1 DEF Del
<1>3. [Idle EXCEPT !.pc = "polling"] \in Del(offset) /\ [Idle EXCEPT !.pc = "polling"].pc = "polling"
  BY <1>1, SetupAssumption DEF Idle, Del
<1>4. Idle \in Del(offset) /\ Idle.pc = "off"
  BY <1>1, SetupAssumption DEF Idle, Del
<1>5. CASE submitServerSetupProgress(i)
  <2>1. del[i].pc = "posting"
    BY <1>5 DEF submitServerSetupProgress
  <2>2. CASE del' = [del EXCEPT ![i] = [Idle EXCEPT !.pc = "polling"]]
    BY <1>3, <1>5, <2>1, <2>2 DEF submitServerSetupProgress, shakeVars
  <2>3. CASE del[i].tried + 1 < Tries /\ del' = [del EXCEPT ![i] = [del[i] EXCEPT !.tried = @ + 1]]
    <3> DEFINE d == [del[i] EXCEPT !.tried = @ + 1]
    <3>1. del[i].tried + 1 \in 0 .. (Tries - 1)
      BY <1>1, <2>3, SetupAssumption DEF Del
    <3>2. d \in Del(offset) /\ d.pc = "posting" /\ d.from = del[i].from /\ d.to = del[i].to
      BY <1>1, <2>1, <3>1 DEF Del
    <3> QED BY <1>5, <2>1, <2>3, <3>2 DEF submitServerSetupProgress, shakeVars
  <2>4. CASE RequestEnd(i) # del[i].to
             /\ del' = [del EXCEPT ![i] = [del[i] EXCEPT !.from = RequestEnd(i) + 1, !.tried = 0]]
    <3> DEFINE d == [del[i] EXCEPT !.from = RequestEnd(i) + 1, !.tried = 0]
    <3>1. RequestEnd(i) + 1 \in 0 .. offset /\ 0 \in 0 .. (Tries - 1)
      BY <1>1, <2>4, SetupAssumption DEF RequestEnd, Del
    <3>2. d \in Del(offset) /\ d.pc = "posting" /\ d.from = RequestEnd(i) + 1 /\ d.to = del[i].to
      BY <1>1, <2>1, <3>1 DEF Del
    <3> QED BY <1>5, <2>1, <2>4, <3>2 DEF submitServerSetupProgress, shakeVars
  <2>5. \/ del' = [del EXCEPT ![i] = [Idle EXCEPT !.pc = "polling"]]
        \/ del[i].tried + 1 < Tries /\ del' = [del EXCEPT ![i] = [del[i] EXCEPT !.tried = @ + 1]]
        \/ RequestEnd(i) # del[i].to
           /\ del' = [del EXCEPT ![i] = [del[i] EXCEPT !.from = RequestEnd(i) + 1, !.tried = 0]]
    BY <1>1, <1>5, Zenon DEF submitServerSetupProgress, AfterRequest
  <2> QED BY <2>2, <2>3, <2>4, <2>5
<1>6. CASE check(i)
  <2>1. del' \in {[del EXCEPT ![i] = [del[i] EXCEPT !.pc = "declaring"]], [del EXCEPT ![i] = Idle]}
    BY <1>1, <1>6 DEF check
  <2>2. ~submitServerSetupProgress(i)
    BY <1>6 DEF check, submitServerSetupProgress
  <2> QED BY <1>2, <1>4, <1>6, <2>1, <2>2 DEF check
<1>7. CASE declare(i)
  <2>1. del' \in {[del EXCEPT ![i] = [del[i] EXCEPT !.pc = "noticing"]], [del EXCEPT ![i] = Idle]}
    BY <1>1, <1>7 DEF declare
  <2>2. ~submitServerSetupProgress(i)
    BY <1>7 DEF declare, submitServerSetupProgress
  <2> QED BY <1>2, <1>4, <1>7, <2>1, <2>2 DEF declare
<1>8. CASE reportFailure(i)
  <2>1. ~submitServerSetupProgress(i)
    BY <1>8 DEF reportFailure, submitServerSetupProgress
  <2> QED BY <1>4, <1>8, <2>1 DEF reportFailure
<1> QED BY <1>5, <1>6, <1>7, <1>8

\* What the hand-shake may become in one step.
LEMMA ShakeTypes ==
  ASSUME ChildTyped, UNCHANGED childVars, NEW i \in Turns,
         submitServerSetupProgress(i) \/ check(i) \/ declare(i) \/ reportFailure(i)
  PROVE  ChildTyped'
<1>1. CASE submitServerSetupProgress(i)
  BY <1>1, SameChild DEF submitServerSetupProgress
<1>2. CASE check(i)
  BY <1>2 DEF check, ChildTyped, childVars
<1>3. CASE declare(i)
  BY <1>3 DEF declare, ChildTyped, childVars
<1>4. CASE reportFailure(i)
  BY <1>4 DEF reportFailure, ChildTyped, childVars
<1> QED BY <1>1, <1>2, <1>3, <1>4

LEMMA SameRest == ASSUME RestTyped, UNCHANGED <<stage, runVars, stageVars, tmp, result, code>> PROVE RestTyped'
BY DEF RestTyped, runVars, stageVars

LEMMA SetupTypeStep ==
  ASSUME SetupTypeOK, StagesOK, DeliveryOK, [SetupNext]_setupVars
  PROVE  SetupTypeOK'
<1>0. ProgressTyped /\ ChildTyped /\ RestTyped
  BY SplitTypes
<1>1. ASSUME Before PROVE SetupTypeOK'
  BY <1>1, BeforeTypes
<1>2. ASSUME runAnsiblePlaybook PROVE SetupTypeOK'
  <2>1. ProgressTyped'
    BY <1>0, <1>2, SameProgress DEF runAnsiblePlaybook
  <2>2. ChildTyped'
    <3>1. /\ UNCHANGED <<exit, timed, asked, shakeVars>>
          /\ child' \in {"running", "unstarted"} /\ pm' \in {"none", "reserved", "entered"}
      BY <1>0, <1>2 DEF runAnsiblePlaybook, ChildTyped
    <3>2. stopped' \in BOOLEAN /\ sig' \in BOOLEAN
      BY <1>0, <1>2, Zenon DEF runAnsiblePlaybook, ChildTyped
    <3> QED BY <1>0, <3>1, <3>2 DEF ChildTyped, shakeVars
  <2>3. RestTyped'
    BY <1>0, <1>2 DEF runAnsiblePlaybook, RestTyped, runVars, stageVars
  <2> QED BY <2>1, <2>2, <2>3, TypesNext
<1>3. ASSUME cancelProcessWhenRegistered \/ TimeUp \/ Exits \/ Killed PROVE SetupTypeOK'
  <2>1. ProgressTyped'
    BY <1>0, <1>3, SameProgress DEF cancelProcessWhenRegistered, TimeUp, Exits, Killed
  <2>2. ChildTyped'
    <3>1. CASE cancelProcessWhenRegistered
      <4>1. /\ UNCHANGED <<child, exit, timed, shakeVars>>
            /\ asked' \in {"before", "later"} /\ pm' \in {"none", "reserved"}
        BY <3>1 DEF cancelProcessWhenRegistered
      <4>2. stopped' \in BOOLEAN /\ sig' \in BOOLEAN
        BY <1>0, <3>1, Zenon DEF cancelProcessWhenRegistered, ChildTyped
      <4> QED BY <1>0, <4>1, <4>2 DEF ChildTyped, shakeVars
    <3>2. CASE TimeUp
      BY <1>0, <3>2 DEF TimeUp, ChildTyped, shakeVars
    <3>3. CASE Exits \/ Killed
      BY <1>0, <3>3 DEF Exits, Killed, ChildTyped, shakeVars
    <3> QED BY <1>3, <3>1, <3>2, <3>3
  <2>3. RestTyped'
    BY <1>0, <1>3, SameRest DEF cancelProcessWhenRegistered, TimeUp, Exits, Killed
  <2> QED BY <2>1, <2>2, <2>3, TypesNext
<1>4. ASSUME RoleAsks \/ RoleDeploys PROVE SetupTypeOK'
  <2>1. ProgressTyped'
    BY <1>0, <1>4, SameProgress DEF RoleAsks, RoleDeploys
  <2>2. ChildTyped'
    BY <1>0, <1>4 DEF RoleAsks, RoleDeploys, ChildTyped, childVars
  <2>3. RestTyped'
    BY <1>0, <1>4, SameRest DEF RoleAsks, RoleDeploys
  <2> QED BY <2>1, <2>2, <2>3, TypesNext
<1>5. ASSUME WriteEvent PROVE SetupTypeOK'
  <2>1. ProgressTyped'
    BY <1>0, <1>5, SetupAssumption DEF WriteEvent, ProgressTyped
  <2>2. ChildTyped' /\ RestTyped'
    BY <1>0, <1>5, SameChild, SameRest DEF WriteEvent
  <2> QED BY <2>1, <2>2, TypesNext
<1>6. ASSUME Replaced PROVE SetupTypeOK'
  <2>1. del' \in [Turns -> Del(offset)]
    <3>1. Idle \in Del(offset)
      BY <1>0, SetupAssumption DEF ProgressTyped, Idle, Del
    <3>2. [timer |-> Idle, drain |-> Idle] = [i \in {"timer", "drain"} |-> Idle]
      OBVIOUS
    <3> QED BY <1>6, <3>1, <3>2 DEF Replaced, Turns
  <2>2. ProgressTyped'
    BY <1>0, <1>6, <2>1 DEF Replaced, ProgressTyped
  <2>3. ChildTyped'
    BY <1>0, <1>6 DEF Replaced, ChildTyped, shakeVars
  <2>4. RestTyped'
    BY <1>0, <1>6 DEF Replaced, RestTyped, runVars, stageVars
  <2> QED BY <2>2, <2>3, <2>4, TypesNext
<1>7. ASSUME TailerTick \/ Drain PROVE SetupTypeOK'
  <2>1. PICK i \in Turns : Deliver(i)
    BY <1>7 DEF TailerTick, Drain, Turns
  <2>2. UNCHANGED <<written, delivered, stray>>
    BY <1>7 DEF TailerTick, Drain
  <2>3. ProgressTyped'
    <3>1. offset' \in offset .. written
      BY <2>1, DeliverForm
    <3>2. PICK d \in Del(offset') : del' = [del EXCEPT ![i] = d]
      BY <2>1, DeliverForm
    <3>3. offset \in Nat /\ offset' \in Nat /\ Del(offset) \subseteq Del(offset')
          /\ delivered \in Seq(1 .. offset') /\ stray \in Seq(1 .. offset')
      BY <3>1, MoreRead
    <3>4. del \in [Turns -> Del(offset')]
      BY <1>0, <3>3 DEF ProgressTyped
    <3>5. del' \in [Turns -> Del(offset')]
      BY <3>2, <3>4
    <3> QED BY <1>0, <2>2, <3>1, <3>3, <3>5 DEF ProgressTyped
  <2>4. ChildTyped'
    BY <1>0, <1>7, SameChild DEF TailerTick, Drain
  <2>5. RestTyped'
    BY <1>0, <1>7 DEF TailerTick, Drain, RestTyped, Leaving, runVars, stageVars
  <2> QED BY <2>3, <2>4, <2>5, TypesNext
<1>8. ASSUME Delivery PROVE SetupTypeOK'
  <2>1. PICK i \in Turns : submitServerSetupProgress(i) \/ check(i) \/ declare(i) \/ reportFailure(i)
    BY <1>0, <1>8 DEF Delivery, ProgressTyped
  <2>2. UNCHANGED <<stage, runVars, childVars, written, offset, marker, role, stageVars, tmp, result, code>>
    BY <2>1, DeliveryForm
  <2>3. delivered' \in Seq(1 .. offset) /\ stray' \in Seq(1 .. offset)
    <3>1. CASE submitServerSetupProgress(i)
      BY <3>1, BatchAppended
    <3>2. CASE ~submitServerSetupProgress(i)
      BY <1>0, <2>1, <3>2 DEF check, declare, reportFailure, ProgressTyped
    <3> QED BY <3>1, <3>2
  <2>4. PICK d \in Del(offset) : del' = [del EXCEPT ![i] = d]
    BY <2>1, DeliveryForm
  <2>5. del' \in [Turns -> Del(offset)]
    BY <1>0, <2>4 DEF ProgressTyped
  <2>6. ProgressTyped'
    BY <1>0, <2>2, <2>3, <2>5 DEF ProgressTyped
  <2>7. ChildTyped' /\ RestTyped'
    BY <1>0, <2>1, <2>2, ShakeTypes, SameRest
  <2> QED BY <2>6, <2>7, TypesNext
<1>9. ASSUME StopTailer \/ Drained PROVE SetupTypeOK'
  <2>1. ProgressTyped'
    BY <1>0, <1>9, SameProgress DEF StopTailer, Drained
  <2>2. ChildTyped'
    BY <1>0, <1>9 DEF StopTailer, Drained, ChildTyped, shakeVars, childVars
  <2>3. RestTyped'
    BY <1>0, <1>9 DEF StopTailer, Drained, RestTyped, Leaving, runVars, stageVars
  <2> QED BY <2>1, <2>2, <2>3, TypesNext
<1>10. ASSUME After PROVE SetupTypeOK'
  <2>1. ProgressTyped' /\ ChildTyped'
    BY <1>0, <1>10, SameProgress, SameChild DEF After, Outcome, Cleanup, Submit, cleanupStaleServerSetupDirs
  <2>2. RestTyped'
    BY <1>0, <1>10 DEF After, Outcome, Cleanup, Submit, cleanupStaleServerSetupDirs, RestTyped, runVars, stageVars
  <2> QED BY <2>1, <2>2, TypesNext
<1>11. CASE UNCHANGED setupVars
  <2>1. UNCHANGED <<stage, runVars, childVars, progressVars, shakeVars, stageVars, tmp, result, code>>
    BY <1>11 DEF setupVars
  <2>2. ProgressTyped' /\ ChildTyped' /\ RestTyped'
    BY <1>0, <2>1, SameProgress, SameChild, SameRest
  <2> QED BY <2>2, TypesNext
<1> QED
  BY <1>1, <1>2, <1>3, <1>4, <1>5, <1>6, <1>7, <1>8, <1>9, <1>10, <1>11 DEF SetupNext, ByAnsible, Stopping

-----------------------------------------------------------------------------
\* Stages, and the stop that came early.

\* A delivery of the tailer, whatever it does, is none of the child's.
LEMMA TailerSteps ==
  ASSUME SetupTypeOK, TailerTick \/ Delivery
  PROVE  UNCHANGED <<stage, runVars, childVars, written, stageVars, tmp, result, code>>
<1>1. CASE TailerTick
  BY <1>1 DEF TailerTick
<1>2. CASE Delivery
  <2>1. PICK i \in Turns : submitServerSetupProgress(i) \/ check(i) \/ declare(i) \/ reportFailure(i)
    BY <1>2, SplitTypes DEF Delivery, ProgressTyped
  <2> QED BY <2>1, DeliveryForm
<1> QED BY <1>1, <1>2

LEMMA StagesStep ==
  ASSUME SetupTypeOK, StagesOK, StopHeld, [SetupNext]_setupVars
  PROVE  StagesOK' /\ StopHeld'
<1>0. ChildTyped /\ RestTyped /\ written \in Nat
  BY SplitTypes DEF ProgressTyped
<1> USE DEF StagesOK, KeysRemoved, StopHeld, Preparing, Setting, Leaving
<1>1. ASSUME Before PROVE StagesOK' /\ StopHeld'
  BY <1>0, <1>1, BeforeSteps DEF childVars, progressVars, RestTyped
<1>2. ASSUME runAnsiblePlaybook PROVE StagesOK' /\ StopHeld'
  <2>1. /\ stage = "spawn" /\ stage' = "run" /\ child' \in {"running", "unstarted"}
        /\ UNCHANGED <<caller, exit, asked, written, result>>
        /\ Watched /\ pm = "reserved" => sig' = TRUE
    BY <1>2 DEF runAnsiblePlaybook, runVars, progressVars
  <2>2. asked = "before" => Watched /\ pm = "reserved"
    BY <2>1 DEF Watched
  <2> QED BY <2>1, <2>2
<1>3. ASSUME cancelProcessWhenRegistered PROVE StagesOK' /\ StopHeld'
  BY <1>0, <1>3 DEF cancelProcessWhenRegistered, runVars, progressVars
<1>4. ASSUME TimeUp PROVE StagesOK' /\ StopHeld'
  BY <1>0, <1>4 DEF TimeUp, runVars, progressVars
<1>5. ASSUME WriteEvent PROVE StagesOK' /\ StopHeld'
  BY <1>0, <1>5 DEF WriteEvent, runVars, childVars
<1>6. ASSUME Exits \/ Killed PROVE StagesOK' /\ StopHeld'
  BY <1>0, <1>6 DEF Exits, Killed, runVars, progressVars
<1>7. ASSUME RoleAsks \/ RoleDeploys PROVE StagesOK' /\ StopHeld'
  BY <1>7 DEF RoleAsks, RoleDeploys, runVars, childVars, progressVars
<1>8. ASSUME Replaced PROVE StagesOK' /\ StopHeld'
  BY <1>8 DEF Replaced, runVars
<1>9. ASSUME TailerTick \/ Delivery PROVE StagesOK' /\ StopHeld'
  BY <1>9, TailerSteps DEF runVars, childVars
<1>10. ASSUME Stopping PROVE StagesOK' /\ StopHeld'
  BY <1>10 DEF Stopping, StopTailer, Drain, Drained, runVars, childVars, progressVars
<1>11. ASSUME Outcome PROVE StagesOK' /\ StopHeld'
  <2>1. result' = "success" => exit = "ok"
    BY <1>0, <1>11 DEF Outcome, ExitsWith0, parseAnsibleOutput
  <2> QED BY <1>11, <2>1 DEF Outcome, runVars, childVars, progressVars
<1>12. ASSUME Cleanup \/ Submit \/ cleanupStaleServerSetupDirs PROVE StagesOK' /\ StopHeld'
  <2>1. CASE Cleanup
    BY <2>1 DEF Cleanup, runVars, childVars, progressVars
  <2>2. CASE Submit
    BY <2>2 DEF Submit, runVars, childVars, progressVars
  <2>3. CASE cleanupStaleServerSetupDirs
    BY <2>3 DEF cleanupStaleServerSetupDirs, runVars, childVars, progressVars
  <2> QED BY <1>12, <2>1, <2>2, <2>3
<1>13. CASE UNCHANGED setupVars
  BY <1>13 DEF setupVars, runVars, childVars, progressVars
<1> QED
  BY <1>1, <1>2, <1>3, <1>4, <1>5, <1>6, <1>7, <1>8, <1>9, <1>10, <1>11, <1>12, <1>13
  DEF SetupNext, ByAnsible, After

-----------------------------------------------------------------------------
\* The files.

\* Nothing but the preparation changes what is wanted and what is there.
LEMMA LaterSteps ==
  ASSUME SetupTypeOK, [SetupNext]_setupVars, ~Before
  PROVE  /\ UNCHANGED <<body, sources, files, staged>>
         /\ stage' \in {"list", "download", "write", "spawn"} => stage' = stage
         /\ stage' = "run" => stage \in {"spawn", "run"}
<1> USE DEF runVars, stageVars
<1>1. CASE runAnsiblePlaybook \/ cancelProcessWhenRegistered \/ TimeUp
  BY <1>1 DEF runAnsiblePlaybook, cancelProcessWhenRegistered, TimeUp
<1>2. CASE ByAnsible
  BY <1>2 DEF ByAnsible, WriteEvent, Exits, Killed, RoleAsks, RoleDeploys, Replaced
<1>3. CASE TailerTick \/ Delivery
  BY <1>3, TailerSteps
<1>4. CASE Stopping
  BY <1>4 DEF Stopping, StopTailer, Drain, Drained
<1>5. CASE After
  BY <1>5 DEF After, Outcome, Cleanup, Submit, cleanupStaleServerSetupDirs
<1>6. CASE UNCHANGED setupVars
  BY <1>6 DEF setupVars
<1> QED BY <1>1, <1>2, <1>3, <1>4, <1>5, <1>6 DEF SetupNext

LEMMA StagingStep ==
  ASSUME SetupTypeOK, StagingOK, [SetupNext]_setupVars
  PROVE  StagingOK'
<1> USE DEF StagingOK
<1>1. CASE ~Before
  BY <1>1, LaterSteps DEF Distributed
<1>2. CASE CollectSources
  <2>1. UNCHANGED <<body, files, staged>> /\ (sources' = Distributed \/ stage' = "cleanup")
    BY <1>2, BodyTyped, SourcesAreTyped DEF CollectSources, Fail, Distributed, runVars
  <2>2. stage' = "list" \/ stage' = "cleanup" \/ (stage' = "write" /\ sources' = {})
    BY <1>2 DEF CollectSources, Fail
  <2>3. Distributed' = Distributed
    BY <2>1 DEF Distributed
  <2> QED BY <2>1, <2>2, <2>3
<1>3. CASE ListSource
  <2>1. UNCHANGED body /\ stage = "list"
    BY <1>3 DEF ListSource, runVars
  <2>2. CASE stage' = "cleanup"
    BY <2>2
  <2>3. CASE stage' # "cleanup"
    <3>1. PICK src \in sources : files' = files \cup collectFileEntries(src) /\ sources' = sources \ {src}
      BY <1>3, <2>3 DEF ListSource, Fail
    <3>2. stage' = "list"
      BY <1>3, <2>3 DEF ListSource, Fail
    <3> QED BY <2>1, <3>1, <3>2 DEF Distributed
  <2> QED BY <2>2, <2>3
<1>4. CASE assertWithinLimits \/ Staged \/ WriteFiles
  BY <1>4 DEF assertWithinLimits, Staged, WriteFiles, Fail, Distributed, runVars, stageVars
<1>5. CASE \E f \in files : downloadTo(f)
  BY <1>5 DEF downloadTo, Fail, Distributed, runVars
<1>6. CASE ResolvePaths \/ WriteInventory \/ runServerSetup \/ validatePayload \/ buildLocalCredential
  BY <1>6 DEF ResolvePaths, WriteInventory, runServerSetup, validatePayload, buildLocalCredential, Refuse, Fail
<1>7. CASE Receive \/ readOneshotEnv \/ runOneshot \/ parseBodyTasks \/ \E what \in DOMAIN answers : Answer(what)
  BY <1>7 DEF Receive, readOneshotEnv, runOneshot, parseBodyTasks, Answer, Refuse
<1> QED BY <1>1, <1>2, <1>3, <1>4, <1>5, <1>6, <1>7 DEF Before

\* What is staged is what the playbook asks for.
LEMMA StagedInPlace == SetupTypeOK /\ StagingOK => FilesInPlace
<1> SUFFICES ASSUME SetupTypeOK, StagingOK, stage = "run", NEW k \in DOMAIN body.tasks,
                    body.tasks[k].module \in {"include_role", "include_role_short"}, body.tasks[k].role = "shared_file"
             PROVE  collectFileEntries(normalizeSource(body.tasks[k].src)) \subseteq staged
  BY DEF FilesInPlace
<1>1. CASE body.tasks[k].src = "none"
  BY <1>1 DEF normalizeSource, collectFileEntries
<1>2. CASE body.tasks[k].src # "none"
  <2>1. normalizeSource(body.tasks[k].src) \in Distributed
    BY <1>2 DEF Distributed, collectSharedFileSources, roleNameOf
  <2> QED BY <2>1 DEF StagingOK
<1> QED BY <1>1, <1>2

-----------------------------------------------------------------------------
\* The deliveries.

LEMMA DeliveryStep ==
  ASSUME SetupTypeOK, StagesOK, DeliveryOK, [SetupNext]_setupVars
  PROVE  DeliveryOK'
<1>0. /\ ProgressTyped /\ "timer" \in Turns /\ "drain" \in Turns
      /\ \A i \in Turns : del[i] \in Del(offset)
  BY SplitTypes DEF ProgressTyped, Turns
<1>1. ASSUME UNCHANGED progressVars,
             caller' = caller \/ stage \in Preparing,
             stage' = stage \/ stage \in Preparing \/ (stage = "run" /\ stage' = "join")
             \/ (stage = "join" /\ stage' = "outcome" /\ del.timer.pc = "off")
             \/ (stage = "drain" /\ del.drain.pc = "off")
             \/ stage \notin {"run", "join", "drain"}
      PROVE  DeliveryOK'
  <2>1. del' = del /\ delivered' = delivered /\ stray' = stray
    BY <1>1 DEF progressVars
  <2> QED BY <1>1, <2>1 DEF DeliveryOK, Preparing, Setting, Watched, RequestEnd
<1>2. ASSUME Before PROVE DeliveryOK'
  BY <1>1, <1>2, BeforeSteps DEF Preparing, Setting
<1>3. ASSUME runAnsiblePlaybook \/ cancelProcessWhenRegistered \/ TimeUp \/ Exits \/ Killed \/ RoleAsks \/ RoleDeploys
      PROVE  DeliveryOK'
  BY <1>1, <1>3
  DEF runAnsiblePlaybook, cancelProcessWhenRegistered, TimeUp, Exits, Killed, RoleAsks, RoleDeploys, Preparing, runVars
<1>4. ASSUME WriteEvent PROVE DeliveryOK'
  BY <1>4 DEF WriteEvent, DeliveryOK, RequestEnd, Watched, runVars
<1>5. ASSUME Replaced PROVE DeliveryOK'
  <2>1. del'.timer = Idle /\ del'.drain = Idle /\ Idle.pc = "off" /\ delivered' = delivered /\ stray' = stray
    BY <1>5 DEF Replaced, Idle
  <2> QED BY <2>1 DEF DeliveryOK, Turns
<1>6. ASSUME TailerTick \/ Drain PROVE DeliveryOK'
  <2>1. PICK i \in Turns : /\ Deliver(i)
                           /\ \/ i = "timer" /\ stage = "run" /\ stage' = "run" /\ Watched
                              \/ i = "drain" /\ stage = "join" /\ stage' = "drain" /\ del.timer.pc = "off"
    BY <1>6 DEF TailerTick, Drain, Turns
  <2>2. UNCHANGED <<delivered, stray, caller>>
    BY <1>6 DEF TailerTick, Drain, runVars
  <2>3. PICK d \in Del(offset') :
          /\ del' = [del EXCEPT ![i] = d]
          /\ d.pc = "polling" \/ (d.pc = "posting" /\ d.from = offset + 1 /\ d.from <= d.to)
    BY <2>1, DeliverForm
  <2>4. /\ del'[i] = d
        /\ \A j \in Turns \ {i} : del'[j] = del[j]
    BY <1>0, <2>3 DEF ProgressTyped
  <2>5. \A j \in Turns \ {i} : del[j].pc = "off"
    BY <2>1 DEF DeliveryOK, Turns
  <2>6. \A k \in DOMAIN delivered : delivered[k] \in Nat /\ delivered[k] <= offset
    BY <1>0 DEF ProgressTyped
  <2>7. ASSUME NEW j \in Turns, del'[j].pc = "posting"
        PROVE  1 <= del'[j].from /\ del'[j].from <= del'[j].to /\ UpTo(delivered, del'[j].from, RequestEnd(j)')
    <3>1. j = i /\ del'[j].from = offset + 1 /\ del'[j].from <= del'[j].to /\ offset \in Nat /\ del'[j].to \in Nat
      <4>1. j = i
        BY <2>4, <2>5, <2>7
      <4>2. d.from = offset + 1 /\ d.from <= d.to /\ del'[j] = d
        BY <2>3, <2>4, <2>7, <4>1
      <4>3. offset' \in offset .. written /\ offset \in Nat
        BY <1>0, <2>1, DeliverForm DEF ProgressTyped
      <4> QED BY <4>1, <4>2, <4>3 DEF Del
    <3>2. RequestEnd(j)' \in Nat /\ offset < RequestEnd(j)'
      BY <3>1, SetupAssumption DEF RequestEnd
    <3>3. UpTo(delivered, offset + 1, RequestEnd(j)')
      BY <2>6, <3>1, <3>2 DEF UpTo
    <3> QED BY <3>1, <3>3
  <2>8. del'.drain.pc # "off" => stage' = "drain"
    BY <2>1, <2>4, <2>5 DEF Turns
  <2>9. del'.timer.pc # "off" => stage' \in {"run", "join"} /\ Watched'
    BY <2>1, <2>2, <2>4, <2>5 DEF Turns, Watched
  <2> QED BY <2>2, <2>7, <2>8, <2>9 DEF DeliveryOK
<1>7. ASSUME Delivery PROVE DeliveryOK'
  <2>1. PICK i \in Turns : submitServerSetupProgress(i) \/ check(i) \/ declare(i) \/ reportFailure(i)
    BY <1>0, <1>7 DEF Delivery, ProgressTyped
  <2>2. UNCHANGED <<stage, caller>> /\ del[i].pc # "off"
    BY <2>1, DeliveryForm DEF runVars
  <2>3. PICK d \in Del(offset) :
          /\ del' = [del EXCEPT ![i] = d]
          /\ ~submitServerSetupProgress(i) => d.pc # "posting"
          /\ submitServerSetupProgress(i) =>
                \/ d.pc = "polling"
                \/ d.pc = "posting" /\ d.from = del[i].from /\ d.to = del[i].to
                \/ d.pc = "posting" /\ d.from = RequestEnd(i) + 1 /\ d.to = del[i].to /\ RequestEnd(i) # d.to
    BY <2>1, DeliveryForm
  <2>4. del'[i] = d /\ \A j \in Turns \ {i} : del'[j] = del[j] /\ del[j].pc = "off"
    BY <1>0, <2>2, <2>3 DEF ProgressTyped, DeliveryOK, Turns
  <2>5. "slow" \notin Faults => Ordered(delivered') /\ stray' = <<>>
    <3>1. CASE submitServerSetupProgress(i)
      BY <3>1, BatchAppended
    <3>2. CASE ~submitServerSetupProgress(i)
      BY <2>1, <3>2 DEF check, declare, reportFailure, DeliveryOK
    <3> QED BY <3>1, <3>2
  <2>6. ASSUME NEW j \in Turns, del'[j].pc = "posting"
        PROVE  /\ 1 <= del'[j].from /\ del'[j].from <= del'[j].to
               /\ "slow" \notin Faults => UpTo(delivered', del'[j].from, RequestEnd(j)')
    <3>1. j = i /\ submitServerSetupProgress(i)
      BY <2>3, <2>4, <2>6
    <3>2. /\ 1 <= del[i].from /\ del[i].from <= del[i].to
          /\ del[i].from \in Nat /\ del[i].to \in Nat /\ RequestEnd(i) \in del[i].from .. del[i].to
      BY <3>1, RequestForm DEF submitServerSetupProgress, DeliveryOK
    <3>3. /\ delivered' \in Seq(1 .. offset) /\ offset \in Nat
          /\ "slow" \notin Faults => UpTo(delivered', del[i].from, RequestEnd(i))
      BY <1>0, <3>1, BatchAppended DEF ProgressTyped
    <3>4. CASE del'[i].from = del[i].from /\ del'[i].to = del[i].to
      BY <3>1, <3>2, <3>3, <3>4 DEF RequestEnd
    <3>5. CASE del'[i].from = RequestEnd(i) + 1 /\ del'[i].to = del[i].to /\ RequestEnd(i) # del'[i].to
      <4>1. del'[i].from <= del'[i].to /\ RequestEnd(i)' \in Nat /\ RequestEnd(i) < RequestEnd(i)'
        <5> DEFINE e == RequestEnd(i)
        <5>1. e \in Nat /\ e < del[i].to /\ del'[i].from = e + 1 /\ del'[i].to = del[i].to
          BY <3>2, <3>5
        <5> HIDE DEF e
        <5>2. RequestEnd(i)' \in Nat /\ e < RequestEnd(i)'
          BY <3>2, <5>1, SetupAssumption DEF RequestEnd
        <5> QED BY <3>2, <5>1, <5>2 DEF e
      <4>2. ASSUME "slow" \notin Faults PROVE UpTo(delivered', del'[i].from, RequestEnd(i)')
        <5>1. \A k \in DOMAIN delivered' : delivered'[k] \in Nat /\ delivered'[k] <= RequestEnd(i)
          BY <3>3, <4>2 DEF UpTo
        <5>2. RequestEnd(i) \in Nat /\ del'[i].from = RequestEnd(i) + 1
          BY <3>2, <3>5
        <5> HIDE <3>5
        <5> QED BY <4>1, <5>1, <5>2 DEF UpTo
      <4> QED BY <3>1, <3>2, <3>5, <4>1, <4>2
    <3> QED BY <2>3, <2>4, <2>6, <3>1, <3>4, <3>5
  <2>7. del'.drain.pc # "off" => stage' = "drain"
    BY <2>2, <2>4 DEF DeliveryOK, Turns
  <2>8. del'.timer.pc # "off" => stage' \in {"run", "join"} /\ Watched'
    BY <2>2, <2>4 DEF DeliveryOK, Turns, Watched
  <2> QED BY <2>5, <2>6, <2>7, <2>8 DEF DeliveryOK
<1>8. ASSUME StopTailer PROVE DeliveryOK'
  <2>1. del.drain.pc = "off" /\ stage = "run"
    BY <1>8 DEF StopTailer, DeliveryOK
  <2> QED BY <1>8, <2>1 DEF StopTailer, DeliveryOK, RequestEnd, Watched, progressVars, runVars
<1>9. ASSUME Drained PROVE DeliveryOK'
  BY <1>1, <1>9 DEF Drained, runVars
<1>10. ASSUME After PROVE DeliveryOK'
  BY <1>1, <1>10 DEF After, Outcome, Cleanup, Submit, cleanupStaleServerSetupDirs, runVars
<1>11. CASE UNCHANGED setupVars
  BY <1>1, <1>11 DEF setupVars, runVars
<1> QED
  BY <1>2, <1>3, <1>4, <1>5, <1>6, <1>7, <1>8, <1>9, <1>10, <1>11 DEF SetupNext, ByAnsible, Stopping

-----------------------------------------------------------------------------
\* The hand-shake of a role that deploys this agent, with a server that knows it.

LEMMA ShakeStep ==
  ASSUME "old" \notin Faults, SetupTypeOK, StagesOK, DeliveryOK, ShakeOK, [SetupNext]_setupVars
  PROVE  ShakeOK'
<1>0. /\ ProgressTyped /\ "timer" \in Turns /\ "drain" \in Turns /\ ChildTyped
  BY SplitTypes DEF Turns
<1>1. ASSUME UNCHANGED <<del, shakeVars>> PROVE ShakeOK'
  BY <1>1 DEF ShakeOK, Shakes, shakeVars
<1>2. ASSUME Before \/ runAnsiblePlaybook \/ cancelProcessWhenRegistered \/ TimeUp \/ WriteEvent \/ Exits \/ Killed
             \/ StopTailer \/ Drained \/ After \/ UNCHANGED setupVars
      PROVE  ShakeOK'
  <2>1. CASE Before
    BY <1>1, <2>1, BeforeSteps DEF progressVars
  <2>2. CASE ~Before
    BY <1>1, <1>2, <2>2
    DEF runAnsiblePlaybook, cancelProcessWhenRegistered, TimeUp, WriteEvent, Exits, Killed, StopTailer, Drained,
        After, Outcome, Cleanup, Submit, cleanupStaleServerSetupDirs, setupVars, progressVars
  <2> QED BY <2>1, <2>2
<1>3. ASSUME RoleAsks \/ RoleDeploys PROVE ShakeOK'
  BY <1>0, <1>3 DEF RoleAsks, RoleDeploys, ShakeOK, Shakes, progressVars, ChildTyped
<1>4. ASSUME Replaced PROVE ShakeOK'
  <2>1. del'.timer = Idle /\ del'.drain = Idle /\ Idle.pc = "off" /\ UNCHANGED shakeVars
    BY <1>4 DEF Replaced, Idle
  <2> QED BY <2>1 DEF ShakeOK, Shakes, shakeVars, Turns
<1>5. ASSUME TailerTick \/ Drain PROVE ShakeOK'
  <2>1. PICK i \in Turns : Deliver(i)
    BY <1>5 DEF TailerTick, Drain, Turns
  <2>2. PICK d \in Del(offset') : del' = [del EXCEPT ![i] = d] /\ d.pc \in {"posting", "polling"}
    BY <2>1, DeliverForm
  <2>3. del'[i] = d /\ \A j \in Turns \ {i} : del'[j] = del[j]
    BY <1>0, <2>2 DEF ProgressTyped
  <2>4. UNCHANGED shakeVars
    BY <1>5 DEF TailerTick, Drain
  <2>5. \A j \in Turns : Shakes(j)' => Shakes(j)
    BY <2>2, <2>3 DEF Shakes
  <2> QED BY <1>0, <2>4, <2>5 DEF ShakeOK, shakeVars
<1>6. ASSUME Delivery PROVE ShakeOK'
  <2>1. PICK i \in Turns : submitServerSetupProgress(i) \/ check(i) \/ declare(i) \/ reportFailure(i)
    BY <1>0, <1>6 DEF Delivery, ProgressTyped
  <2>2. PICK d \in Del(offset) : del' = [del EXCEPT ![i] = d]
    BY <2>1, DeliveryForm
  <2>3. del'[i] = d /\ \A j \in Turns \ {i} : del'[j] = del[j]
    BY <1>0, <2>2 DEF ProgressTyped
  <2>4. \A j \in Turns \ {i} : del[j].pc = "off" /\ ~Shakes(j) /\ ~Shakes(j)'
    <3>1. del[i].pc # "off"
      BY <2>1, DeliveryForm
    <3> QED BY <2>3, <3>1 DEF DeliveryOK, Turns, Shakes
  <2>5. (Shakes("timer") => ~Shakes("drain"))'
    BY <1>0, <2>4 DEF Turns
  <2>6. CASE submitServerSetupProgress(i)
    <3>1. UNCHANGED shakeVars /\ del'[i].pc \in {"polling", "posting"}
      <4>1. PICK e \in Del(offset) : del' = [del EXCEPT ![i] = e] /\ e.pc \in {"polling", "posting"}
        BY <2>1, <2>6, DeliveryForm
      <4> QED BY <1>0, <2>6, <4>1 DEF submitServerSetupProgress, ProgressTyped
    <3>2. \A j \in Turns : ~Shakes(j)'
      BY <2>3, <2>4, <3>1 DEF Shakes
    <3> QED BY <2>5, <3>1, <3>2 DEF ShakeOK, shakeVars
  <2>7. CASE check(i)
    <3>1. UNCHANGED <<ack, applied, noticed, role>> /\ (handled' \/ (~handled /\ UNCHANGED handled))
      BY <1>0, <2>7 DEF check, ChildTyped
    <3>2. \A j \in Turns : Shakes(j)' => j = i /\ handled' /\ ack = "none"
      <4>1. CASE marker /\ ~handled
        BY <2>4, <2>7, <4>1 DEF check, ShakeOK
      <4>2. CASE ~(marker /\ ~handled)
        <5>1. del' = [del EXCEPT ![i] = Idle] /\ Idle.pc = "off"
          BY <2>7, <4>2 DEF check, Idle
        <5>2. ~Shakes(i)'
          BY <1>0, <5>1 DEF Shakes, ProgressTyped
        <5> QED BY <2>4, <5>2
      <4> QED BY <4>1, <4>2
    <3> QED BY <2>5, <3>1, <3>2 DEF ShakeOK
  <2>8. CASE declare(i) \/ reportFailure(i)
    <3>1. handled /\ ack = "none" /\ role # "deploying" /\ UNCHANGED <<handled, role>>
      BY <2>8 DEF declare, reportFailure, ShakeOK, Shakes
    <3>2. CASE declare(i)
      <4>1. ack' = "declared" => applied'
        BY <3>1, <3>2 DEF declare
      <4>2. Shakes(i)' => ack' = "none"
        <5>1. CASE UNCHANGED ack
          BY <3>1, <5>1
        <5>2. CASE ~UNCHANGED ack
          <6>1. del' = [del EXCEPT ![i] = Idle] /\ Idle.pc = "off"
            BY <3>2, <5>2 DEF declare, Idle
          <6> QED BY <1>0, <6>1 DEF Shakes, ProgressTyped
        <5> QED BY <5>1, <5>2
      <4>3. ack' # "undeclared"
        BY <3>1, <3>2 DEF declare
      <4> QED BY <2>4, <2>5, <3>1, <4>1, <4>2, <4>3 DEF ShakeOK
    <3>3. CASE reportFailure(i)
      <4>1. noticed' # "no" /\ ack' # "declared"
        BY <3>3 DEF reportFailure
      <4>2. ~Shakes(i)'
        <5>1. del' = [del EXCEPT ![i] = Idle] /\ Idle.pc = "off"
          BY <3>3 DEF reportFailure, Idle
        <5> QED BY <1>0, <5>1 DEF Shakes, ProgressTyped
      <4> QED BY <2>4, <2>5, <3>1, <4>1, <4>2 DEF ShakeOK
    <3> QED BY <2>8, <3>2, <3>3
  <2> QED BY <2>1, <2>6, <2>7, <2>8
<1> QED BY <1>2, <1>3, <1>4, <1>5, <1>6 DEF SetupNext, ByAnsible, Stopping

-----------------------------------------------------------------------------
\* With reads that return all there is, the last delivery leaves nothing.

LEMMA HandedStep ==
  ASSUME MaxEvents <= Chunk, SetupTypeOK, StagesOK, Handed, [SetupNext]_setupVars
  PROVE  Handed'
<1> USE DEF Handed
<1>1. ASSUME UNCHANGED <<child, offset, written, caller>>,
             stage' \in {"drain", "outcome", "cleanup", "ended"} /\ child = "exited" /\ Watched
             => stage \in {"drain", "outcome", "cleanup", "ended"}
      PROVE  Handed'
  BY <1>1 DEF Watched
<1>2. ASSUME Before PROVE Handed'
  <2>1. child' = "none"
    BY <1>2, BeforeSteps DEF StagesOK, childVars
  <2> QED BY <2>1
<1>3. ASSUME runAnsiblePlaybook \/ Replaced \/ cleanupStaleServerSetupDirs \/ WriteEvent \/ Exits \/ Killed PROVE Handed'
  <2>1. stage' \in {"run", "gone", "over"}
    BY <1>3 DEF runAnsiblePlaybook, Replaced, cleanupStaleServerSetupDirs, WriteEvent, Exits, Killed, StagesOK
  <2> QED BY <2>1
<1>4. ASSUME cancelProcessWhenRegistered \/ TimeUp \/ RoleAsks \/ RoleDeploys PROVE Handed'
  BY <1>1, <1>4 DEF cancelProcessWhenRegistered, TimeUp, RoleAsks, RoleDeploys, runVars, childVars, progressVars
<1>5. ASSUME Delivery PROVE Handed'
  <2>1. PICK i \in Turns : submitServerSetupProgress(i) \/ check(i) \/ declare(i) \/ reportFailure(i)
    BY <1>5, SplitTypes DEF Delivery, ProgressTyped
  <2> QED BY <1>1, <2>1, DeliveryForm DEF runVars, childVars
<1>6. ASSUME TailerTick PROVE Handed'
  BY <1>6 DEF TailerTick
<1>7. ASSUME Drain PROVE Handed'
  <2>1. offset' = written
    BY <1>7, DeliverForm DEF Drain, Turns
  <2> QED BY <1>7, <2>1 DEF Drain
<1>8. ASSUME StopTailer \/ Drained PROVE Handed'
  BY <1>1, <1>8 DEF StopTailer, Drained, runVars, childVars, progressVars
<1>9. ASSUME Outcome \/ Cleanup \/ Submit PROVE Handed'
  BY <1>1, <1>9 DEF Outcome, Cleanup, Submit, runVars, childVars, progressVars
<1>10. CASE UNCHANGED setupVars
  BY <1>1, <1>10 DEF setupVars, runVars, childVars, progressVars
<1> QED
  BY <1>2, <1>3, <1>4, <1>5, <1>6, <1>7, <1>8, <1>9, <1>10 DEF SetupNext, ByAnsible, Stopping, After

-----------------------------------------------------------------------------
LEMMA SetupStep == ASSUME SetupInv, [SetupNext]_setupVars PROVE SetupInv'
<1> USE DEF SetupInv
<1>1. SetupTypeOK'
  BY SetupTypeStep
<1>2. StagesOK' /\ StopHeld'
  BY StagesStep
<1>3. StagingOK'
  BY StagingStep
<1>4. DeliveryOK'
  BY DeliveryStep
<1> QED BY <1>1, <1>2, <1>3, <1>4

LEMMA SetupAlways == SetupSpec => []SetupInv
<1>1. SetupInit => SetupInv
  BY SetupInitially
<1>2. SetupInv /\ [SetupNext]_setupVars => SetupInv'
  BY SetupStep
<1> QED BY <1>1, <1>2, PTL DEF SetupSpec

LEMMA PromisesKept == SetupInv => SetupTypeOK /\ StopReaches /\ FilesKept /\ ("slow" \notin Faults => InOrder)
<1> SUFFICES ASSUME SetupInv PROVE SetupTypeOK /\ StopReaches /\ FilesKept /\ ("slow" \notin Faults => InOrder)
  OBVIOUS
<1>1. SetupTypeOK /\ ("slow" \notin Faults => InOrder)
  BY DEF SetupInv, DeliveryOK, Ordered, InOrder
<1>2. StopReaches
  BY DEF SetupInv, StagesOK, StopHeld, StopReaches
<1>3. FilesInPlace
  BY StagedInPlace DEF SetupInv
<1> QED BY <1>1, <1>2, <1>3 DEF FilesKept, SetupInv, StagesOK

\* Whatever the server and the child do: every value has its type, a stop that
\* comes before there is a process keeps the run from succeeding, the files a
\* recipe distributes are there when its playbook starts, and a directory with
\* keys is left only by a run that says that it failed.
THEOREM SetupKept == SetupSpec => [](SetupTypeOK /\ StopReaches /\ FilesKept)
<1>1. SetupInv => SetupTypeOK /\ StopReaches /\ FilesKept
  BY PromisesKept
<1> QED BY <1>1, SetupAlways, PTL

\* With a server that knows the declaration, an agent its own recipe is about
\* to replace has moreover said so, or it could
\* not and has tried to leave a notice in the log (self-restart-declaration.ts).
THEOREM SetupSafe == ASSUME "old" \notin Faults PROVE SetupSpec => []SetupSound
<1>1. SetupInit => ShakeOK
  BY SetupInitially
<1>2. SetupInv /\ ShakeOK /\ [SetupNext]_setupVars => ShakeOK'
  BY ShakeStep DEF SetupInv
<1>3. SetupInv /\ ShakeOK => SetupSound
  <2>1. ShakeOK /\ SetupTypeOK => RestartAnnounced
    BY DEF ShakeOK, RestartAnnounced, SetupTypeOK
  <2> QED BY <2>1, PromisesKept DEF SetupSound, SetupInv
<1> QED BY <1>1, <1>2, <1>3, SetupAlways, PTL DEF SetupSpec

\* With a server that takes no request after the agent has given it up, an
\* event that arrives after a later one is a repetition of its request, whatever
\* the size of a read or of a request, whichever replies are lost, and although
\* the last delivery follows the end of the child and not the timer
\* (progress-tailer.ts, api-client.ts).
THEOREM OrderKept == ASSUME "slow" \notin Faults PROVE SetupSpec => []InOrder
<1>1. SetupInv => InOrder
  BY PromisesKept
<1> QED BY <1>1, SetupAlways, PTL

\* When one read returns all there is, moreover nothing of the file is left
\* when the run is over.
THEOREM ProgressTrue ==
  ASSUME "slow" \notin Faults, MaxEvents <= Chunk
  PROVE  SetupSpec => []ProgressComplete
<1>1. SetupInit => Handed
  BY SetupInitially
<1>2. SetupInv /\ Handed /\ [SetupNext]_setupVars => Handed'
  BY HandedStep DEF SetupInv
<1>3. SetupInv /\ Handed => ProgressComplete
  BY PromisesKept DEF Handed, AllReported, ProgressComplete
<1> QED BY <1>1, <1>2, <1>3, SetupAlways, PTL DEF SetupSpec

(***************************************************************************)
(* The configuration and the shared files.                                 *)
(***************************************************************************)

\* Those whose files wait or are being placed are in the chain, once each;
\* the head alone places.
InChain(s) == sync[s].pc \in {"mounting", "placing"}
ChainOK ==
    /\ \A i, j \in DOMAIN chain : chain[i] = chain[j] => i = j
    /\ \A s \in Syncs : InChain(s) <=> \E i \in DOMAIN chain : chain[i] = s
    /\ apply.pc # "off" => chain # <<>> /\ sync[chain[1]].pc = "placing"
    /\ \A s \in Syncs : sync[s].pc = "placing" => apply.pc # "off" /\ chain # <<>> /\ s = chain[1]

\* The configuration in use is that of the last of the chain.
InUse == chain # <<>> => conf.v = sync[chain[Len(chain)]].got /\ conf.says = sync[chain[Len(chain)]].says
                         /\ conf.v # 0

\* What the agent has put at a place and nobody changed; what the record made
\* of this sync will say of it.
OwnKnown == \A d \in Dest : disk[d] \in File => d \in own

Keeps(f, d) == d \in DOMAIN f /\ f[d] = disk[d]

PlacingOK(s) ==
    /\ apply.todo \subseteq Wanted(s) /\ DOMAIN apply.placed \subseteq Wanted(s)
    /\ readable => \A d \in own : Keeps(apply.placed, d) \/ (d \notin DOMAIN apply.placed /\ Keeps(apply.loaded, d))
    /\ \A d \in Wanted(s) \ apply.todo : disk[d] = Content[sync[s].got][d] \/ d \in apply.failed

SavingOK(s) ==
    /\ readable => \A d \in own : Keeps(Record(s), d)
    /\ readable /\ sync[s].says =>
         \A d \in Dest : disk[d] \in {Content[sync[s].got][d], "foreign"} \/ d \in apply.failed

ApplyOK ==
    \A s \in Syncs :
        /\ sync[s].pc = "answered" \/ InChain(s) => sync[s].got # 0
        /\ sync[s].pc = "placing" /\ apply.pc = "placing" => PlacingOK(s)
        /\ sync[s].pc = "placing" /\ apply.pc = "saving" => SavingOK(s)

\* With nobody in the chain the places are those of the configuration in use.
Followed ==
    chain = <<>> /\ conf.v # 0 /\ conf.says =>
        \A d \in Dest : disk[d] \in {Content[conf.v][d], "foreign"} \/ Told(d)

SyncRest == ChainOK /\ InUse /\ OwnKnown /\ ApplyOK /\ OwnTracked /\ Followed
SyncInv == SyncTypeOK /\ SyncRest

-----------------------------------------------------------------------------
\* Records of places.

LEMMA PlacesForm ==
  \A f : f \in Places <=> /\ f = [d \in DOMAIN f |-> f[d]]
                          /\ DOMAIN f \subseteq Dest
                          /\ \A d \in DOMAIN f : f[d] \in File
BY DEF Places

LEMMA NoPlaces == <<>> \in Places /\ DOMAIN <<>> = {}
<1>1. <<>> = [d \in {} |-> {}] /\ DOMAIN <<>> = {}
  OBVIOUS
<1> QED BY <1>1, PlacesForm

LEMMA PutForm ==
  ASSUME NEW f \in Places, NEW d \in Dest, NEW c \in File
  PROVE  /\ Put(f, d, c) \in Places /\ DOMAIN Put(f, d, c) = DOMAIN f \cup {d}
         /\ Put(f, d, c)[d] = c
         /\ \A e \in DOMAIN f \ {d} : Put(f, d, c)[e] = f[e]
<1>1. DOMAIN f \subseteq Dest /\ \A e \in DOMAIN f : f[e] \in File
  BY PlacesForm
<1>2. Put(f, d, c) = [e \in DOMAIN f \cup {d} |-> IF e = d THEN c ELSE f[e]]
  BY DEF Put
<1>3. /\ DOMAIN Put(f, d, c) = DOMAIN f \cup {d} /\ Put(f, d, c)[d] = c
      /\ \A e \in DOMAIN f \ {d} : Put(f, d, c)[e] = f[e]
  BY <1>2
<1>4. Put(f, d, c) \in [DOMAIN f \cup {d} -> File]
  BY <1>1, <1>2
<1>5. DOMAIN f \cup {d} \in SUBSET Dest
  BY <1>1
<1> QED BY <1>3, <1>4, <1>5 DEF Places

LEMMA OnlyForm ==
  ASSUME NEW f \in Places, NEW S
  PROVE  /\ Only(f, S) \in Places /\ DOMAIN Only(f, S) = DOMAIN f \cap S
         /\ \A d \in DOMAIN f \cap S : Only(f, S)[d] = f[d]
<1>1. DOMAIN f \subseteq Dest /\ \A d \in DOMAIN f : f[d] \in File
  BY PlacesForm
<1>2. Only(f, S) \in [DOMAIN f \cap S -> File]
  BY <1>1 DEF Only
<1>3. DOMAIN f \cap S \in SUBSET Dest
  BY <1>1
<1> QED BY <1>2, <1>3 DEF Only, Places

LEMMA RecordForm ==
  ASSUME apply \in Apply, NEW s
  PROVE  /\ Record(s) \in Places
         /\ DOMAIN Record(s) = DOMAIN apply.placed \cup DOMAIN apply.left \cup DOMAIN carriedOver(s)
         /\ \A d \in DOMAIN apply.placed : Record(s)[d] = apply.placed[d]
         /\ \A d \in DOMAIN apply.left \ DOMAIN apply.placed : Record(s)[d] = apply.left[d]
         /\ \A d \in DOMAIN carriedOver(s) \ (DOMAIN apply.placed \cup DOMAIN apply.left) : Record(s)[d] = apply.loaded[d]
         /\ DOMAIN carriedOver(s) = DOMAIN apply.loaded \cap
               ((IF sync[s].says THEN Wanted(s) ELSE Dest) \ (DOMAIN apply.placed \cup DOMAIN apply.left))
<1>1. apply.placed \in Places /\ apply.left \in Places /\ apply.loaded \in Places
  BY DEF Apply
<1> DEFINE A == DOMAIN apply.placed
           B == DOMAIN apply.left
           C == DOMAIN carriedOver(s)
<1>2. /\ carriedOver(s) \in Places
      /\ C = DOMAIN apply.loaded \cap ((IF sync[s].says THEN Wanted(s) ELSE Dest) \ (A \cup B))
      /\ \A d \in C : carriedOver(s)[d] = apply.loaded[d]
  <2> DEFINE S == (IF sync[s].says THEN Wanted(s) ELSE Dest) \ (A \cup B)
  <2>1. carriedOver(s) = Only(apply.loaded, S)
    BY DEF carriedOver
  <2> HIDE DEF S
  <2>2. /\ Only(apply.loaded, S) \in Places /\ DOMAIN Only(apply.loaded, S) = DOMAIN apply.loaded \cap S
        /\ \A d \in DOMAIN apply.loaded \cap S : Only(apply.loaded, S)[d] = apply.loaded[d]
    BY <1>1, OnlyForm
  <2>3. C = DOMAIN apply.loaded \cap S
    BY <2>1, <2>2
  <2> USE DEF S
  <2> QED BY <2>1, <2>2, <2>3
<1>3. Record(s) = [d \in A \cup B \cup C |->
        IF d \in A THEN apply.placed[d] ELSE IF d \in B THEN apply.left[d] ELSE carriedOver(s)[d]]
  BY DEF Record
<1>4. A \cup B \cup C \in SUBSET Dest
  BY <1>1, <1>2, PlacesForm
<1>5. \A d \in A : apply.placed[d] \in File
  BY <1>1, PlacesForm
<1>6. \A d \in B : apply.left[d] \in File
  BY <1>1, PlacesForm
<1>7. \A d \in C : carriedOver(s)[d] \in File
  BY <1>2, PlacesForm
<1> HIDE DEF A, B, C
<1>8. \A d \in A \cup B \cup C :
        /\ Record(s)[d] = IF d \in A THEN apply.placed[d] ELSE IF d \in B THEN apply.left[d] ELSE carriedOver(s)[d]
        /\ Record(s)[d] \in File
  BY <1>3, <1>5, <1>6, <1>7
<1>9. Record(s) \in [A \cup B \cup C -> File]
  BY <1>3, <1>8
<1>10. Record(s) \in Places
  BY <1>4, <1>9 DEF Places
<1>11. DOMAIN Record(s) = A \cup B \cup C
  BY <1>3
<1>12. \A d \in C : d \notin A /\ d \notin B
  BY <1>2
<1>13. \A d \in C : Record(s)[d] = apply.loaded[d]
  BY <1>2, <1>8, <1>12
<1>14. \A d \in A : Record(s)[d] = apply.placed[d]
  BY <1>8
<1>15. \A d \in B \ A : Record(s)[d] = apply.left[d]
  BY <1>8
<1> USE DEF A, B, C
<1> QED BY <1>2, <1>10, <1>11, <1>13, <1>14, <1>15

LEMMA ContentForm ==
  /\ Len(Content) \in Nat /\ 1 \in Versions
  /\ \A v \in Versions : v # 0 /\ \A d \in Dest : Content[v][d] \in File \cup {"none"}
<1>1. Content \in Seq([Dest -> File \cup {"none"}]) /\ Content # <<>>
  BY SyncAssumption
<1>2. Len(Content) \in Nat /\ Len(Content) # 0
  BY <1>1
<1>3. \A v \in 1 .. Len(Content) : Content[v] \in [Dest -> File \cup {"none"}]
  BY <1>1
<1> QED BY <1>2, <1>3 DEF Versions

-----------------------------------------------------------------------------
\* Types.

LEMMA SyncTyped ==
  ASSUME SyncTypeOK
  PROVE  /\ NoSync \in Sync /\ NoApply \in Apply
         /\ \A s \in Syncs : sync[s] \in Sync
         /\ \A s \in Syncs, t \in Sync : [sync EXCEPT ![s] = t] \in [Syncs -> Sync]
         /\ \A s \in Syncs : Append(chain, s) \in Seq(Syncs)
         /\ Versions \subseteq Nat /\ server \in Versions
<1>1. NoSync \in Sync
  BY DEF NoSync, Sync
<1>2. NoApply \in Apply
  BY NoPlaces DEF NoApply, Apply
<1>3. Versions \subseteq Nat
  BY ContentForm DEF Versions
<1> QED BY <1>1, <1>2, <1>3 DEF SyncTypeOK

LEMMA SyncInitially == SyncInit => SyncInv
<1> SUFFICES ASSUME SyncInit PROVE SyncInv
  OBVIOUS
<1> USE DEF SyncInit
<1>1. SyncTypeOK
  <2>1. NoSync \in Sync /\ NoApply \in Apply
    BY NoPlaces DEF NoSync, Sync, NoApply, Apply
  <2>2. chain \in Seq(Syncs) /\ manifest \in Places
    BY NoPlaces
  <2>3. outages \in 0 .. MaxOutages /\ notes \in 0 .. MaxNotes
    BY SyncAssumption
  <2> QED BY <2>1, <2>2, <2>3, ContentForm DEF NoConf, SyncTypeOK
<1>2. NoSync.pc = "idle" /\ NoApply.pc = "off" /\ \A s \in Syncs : sync[s] = NoSync
  BY DEF NoSync, NoApply
<1>3. DOMAIN chain = {} /\ chain = <<>>
  OBVIOUS
<1>4. ChainOK /\ InUse
  BY <1>2, <1>3 DEF ChainOK, InChain, InUse
<1>5. OwnKnown
  BY SyncAssumption DEF OwnKnown
<1>6. ApplyOK
  BY <1>2 DEF ApplyOK, InChain
<1>7. OwnTracked /\ Followed
  BY DEF OwnTracked, Followed, NoConf
<1> QED BY <1>1, <1>4, <1>5, <1>6, <1>7 DEF SyncInv, SyncRest

\* What one place gets.
LEMMA PlaceForm ==
  ASSUME SyncTypeOK, NEW s \in Syncs, NEW d \in Wanted(s), sync[s].got # 0
  PROVE  /\ d \in Dest /\ sync[s].says
         /\ Content[sync[s].got][d] \in File
<1>1. sync[s] \in Sync
  BY SyncTyped
<1>2. sync[s].got \in Versions
  BY <1>1 DEF Sync
<1> QED BY <1>2, ContentForm DEF Wanted

\* The ways in which a place is dealt with.
PlaceFails(d) ==
    /\ apply' = [apply EXCEPT !.todo = @ \ {d}, !.failed = @ \cup {d}]
    /\ UNCHANGED <<disk, own>>
PlaceFound(s, d) ==
    /\ disk[d] = Content[sync[s].got][d]
    /\ apply' = [apply EXCEPT !.todo = @ \ {d},
                    !.placed = IF d \in DOMAIN apply.loaded THEN Put(@, d, Content[sync[s].got][d]) ELSE @]
    /\ UNCHANGED <<disk, own>>
PlaceWritten(s, d) ==
    /\ disk' = [disk EXCEPT ![d] = Content[sync[s].got][d]] /\ own' = own \cup {d}
    /\ apply' = [apply EXCEPT !.todo = @ \ {d}, !.placed = Put(@, d, Content[sync[s].got][d])]

PlaceUnhashed(s, d) ==
    /\ "unhashed" \in SyncFaults
    /\ disk' = [disk EXCEPT ![d] = Content[sync[s].got][d]] /\ own' = own \cup {d}
    /\ apply' = [apply EXCEPT !.todo = @ \ {d}]

LEMMA PlaceMountForm ==
  ASSUME SyncTypeOK, ApplyOK, NEW s \in Syncs, NEW d \in Dest, PlaceMount(s, d)
  PROVE  /\ sync[s].pc = "placing" /\ apply.pc = "placing" /\ d \in apply.todo /\ d \in Wanted(s) /\ sync[s].got # 0
         /\ UNCHANGED <<server, hash, conf, cache, timer, sync, chain, manifest, readable, errors, ssh, bounds>>
         /\ PlaceFails(d) \/ PlaceFound(s, d) \/ PlaceWritten(s, d) \/ PlaceUnhashed(s, d)
<1>1. /\ sync[s].pc = "placing" /\ apply.pc = "placing" /\ d \in apply.todo
      /\ UNCHANGED <<server, hash, conf, cache, timer, sync, chain, manifest, readable, errors, ssh, bounds>>
      /\ PlaceFails(d) \/ PlaceFound(s, d) \/ PlaceWritten(s, d) \/ PlaceUnhashed(s, d)
  BY DEF PlaceMount, PlaceFails, PlaceFound, PlaceWritten, PlaceUnhashed
<1>2. PlacingOK(s) /\ sync[s].got # 0
  BY <1>1 DEF ApplyOK, InChain
<1> QED BY <1>1, <1>2 DEF PlacingOK

LEMMA ApplyFields ==
  ASSUME apply \in Apply
  PROVE  /\ apply.loaded \in Places /\ apply.placed \in Places /\ apply.left \in Places
         /\ apply.todo \subseteq Dest /\ apply.failed \subseteq Dest
         /\ \A e \in Apply, t \in SUBSET Dest, f \in SUBSET Dest, p \in Places, l \in Places :
              /\ [e EXCEPT !.todo = t, !.failed = f] \in Apply
              /\ [e EXCEPT !.todo = t, !.placed = p] \in Apply
              /\ [e EXCEPT !.pc = "saving", !.left = l, !.failed = f] \in Apply
BY DEF Apply

LEMMA PlaceTypes ==
  ASSUME SyncTypeOK, ApplyOK, NEW s \in Syncs, NEW d \in Dest, PlaceMount(s, d)
  PROVE  SyncTypeOK'
<1>1. /\ d \in apply.todo /\ d \in Wanted(s) /\ sync[s].got # 0
      /\ UNCHANGED <<server, hash, conf, cache, timer, sync, chain, manifest, readable, errors, ssh, bounds>>
      /\ PlaceFails(d) \/ PlaceFound(s, d) \/ PlaceWritten(s, d) \/ PlaceUnhashed(s, d)
  BY PlaceMountForm
<1> DEFINE c == Content[sync[s].got][d]
<1>2. c \in File
  BY <1>1, PlaceForm
<1>3. apply \in Apply
  BY DEF SyncTypeOK
<1>4. Put(apply.placed, d, c) \in Places
  BY <1>2, <1>3, ApplyFields, PutForm
<1> HIDE DEF c
<1>5. apply' \in Apply
  <2>1. CASE PlaceFails(d)
    <3>1. apply' = [apply EXCEPT !.todo = apply.todo \ {d}, !.failed = apply.failed \cup {d}]
      BY <2>1 DEF PlaceFails
    <3>2. apply.todo \ {d} \in SUBSET Dest /\ apply.failed \cup {d} \in SUBSET Dest
      BY <1>3, ApplyFields
    <3> QED BY <1>3, <3>1, <3>2, ApplyFields
  <2>2. CASE ~PlaceFails(d)
    <3>1. PICK p \in Places : apply' = [apply EXCEPT !.todo = apply.todo \ {d}, !.placed = p]
      <4>1. CASE PlaceUnhashed(s, d)
        <5>1. apply' = [apply EXCEPT !.todo = apply.todo \ {d}, !.placed = apply.placed]
          BY <1>3, <4>1 DEF PlaceUnhashed, Apply
        <5> QED BY <1>3, <5>1, ApplyFields
      <4>2. CASE ~PlaceUnhashed(s, d)
        BY <1>1, <1>3, <1>4, <2>2, <4>2, ApplyFields DEF PlaceFound, PlaceWritten, c
      <4> QED BY <4>1, <4>2
    <3>2. apply.todo \ {d} \in SUBSET Dest
      BY <1>3, ApplyFields
    <3> QED BY <1>3, <3>1, <3>2, ApplyFields
  <2> QED BY <2>1, <2>2
<1>6. disk' \in [Dest -> File \cup {"none", "foreign"}] /\ own' \subseteq Dest
  BY <1>1, <1>2 DEF SyncTypeOK, PlaceFails, PlaceFound, PlaceWritten, PlaceUnhashed, c
<1> QED BY <1>1, <1>5, <1>6 DEF SyncTypeOK, bounds

\* The places that removeStaleMounts looks at; of them it leaves K.
Stale(s) == IF sync[s].says THEN DOMAIN apply.loaded \ Wanted(s) ELSE {}
Gone(s, K) == {d \in Stale(s) \ K : disk[d] = apply.loaded[d]}
Leaves(s, K) ==
    /\ {d \in Stale(s) : disk[d] \notin {"none", apply.loaded[d]}} \subseteq K
    /\ disk' = [d \in Dest |-> IF d \in Gone(s, K) THEN "none" ELSE disk[d]]
    /\ own' = own \ Gone(s, K)
    /\ apply' = [apply EXCEPT !.pc = "saving", !.left = Only(apply.loaded, K), !.failed = apply.failed \cup K]

LEMMA StaleForm ==
  ASSUME SyncTypeOK, NEW s \in Syncs, removeStaleMounts(s)
  PROVE  /\ sync[s].pc = "placing" /\ apply.pc = "placing" /\ apply.todo = {}
         /\ UNCHANGED <<server, hash, conf, cache, timer, sync, chain, manifest, readable, errors, ssh, bounds>>
         /\ Stale(s) \subseteq DOMAIN apply.loaded /\ Stale(s) \subseteq Dest
         /\ apply' \in Apply
         /\ \E K \in SUBSET Stale(s) :
              /\ Leaves(s, K)
              /\ DOMAIN Only(apply.loaded, K) = K /\ \A d \in K : Only(apply.loaded, K)[d] = apply.loaded[d]
<1>1. apply \in Apply
  BY DEF SyncTypeOK
<1>2. Stale(s) \subseteq DOMAIN apply.loaded /\ DOMAIN apply.loaded \subseteq Dest
  BY <1>1, ApplyFields, PlacesForm DEF Stale
<1>3. /\ sync[s].pc = "placing" /\ apply.pc = "placing" /\ apply.todo = {}
      /\ UNCHANGED <<server, hash, conf, cache, timer, sync, chain, manifest, readable, errors, ssh, bounds>>
      /\ \E K \in SUBSET Stale(s) : Leaves(s, K)
  BY Zenon DEF removeStaleMounts, Stale, Gone, Leaves
<1>4. PICK K \in SUBSET Stale(s) : Leaves(s, K)
  BY <1>3
<1>5. /\ Only(apply.loaded, K) \in Places
      /\ DOMAIN Only(apply.loaded, K) = K /\ \A d \in K : Only(apply.loaded, K)[d] = apply.loaded[d]
  <2>1. /\ Only(apply.loaded, K) \in Places /\ DOMAIN Only(apply.loaded, K) = DOMAIN apply.loaded \cap K
        /\ \A d \in DOMAIN apply.loaded \cap K : Only(apply.loaded, K)[d] = apply.loaded[d]
    BY <1>1, ApplyFields, OnlyForm
  <2>2. K \subseteq DOMAIN apply.loaded
    BY <1>2
  <2> QED BY <2>1, <2>2
<1>6. apply.failed \cup K \in SUBSET Dest
  BY <1>1, <1>2, ApplyFields
<1>7. apply' \in Apply
  BY <1>1, <1>4, <1>5, <1>6, ApplyFields DEF Leaves
<1> QED BY <1>2, <1>3, <1>4, <1>5, <1>7

\* One sync goes on beside the placing of files; s is what it becomes.
Becomes(s, t) ==
    /\ sync' = [sync EXCEPT ![s] = t]
    /\ t.pc \notin {"mounting", "placing"} /\ (t.pc = "answered" => t.got # 0)
    /\ UNCHANGED <<conf, chain, apply, diskVars, errors>>

\* Steps that begin or end a sync, or its requests.
Beside(s) == \/ TimerFires(s) \/ performConfigSync(s) \/ Served(s)
             \/ getSshCredentials(s) \/ writeSshConfig(s)

LEMMA BesideForm ==
  ASSUME SyncTypeOK, NEW s \in Syncs, Beside(s)
  PROVE  /\ sync[s].pc \notin {"mounting", "placing"}
         /\ \E t \in Sync : Becomes(s, t)
         /\ UNCHANGED <<server, cache>>
         /\ hash' \in {hash, 0} /\ timer' \in BOOLEAN /\ ssh' \in Versions \cup {0}
         /\ outages' \in 0 .. MaxOutages /\ notes' \in 0 .. MaxNotes
<1>0. /\ NoSync \in Sync /\ sync[s] \in Sync /\ sync \in [Syncs -> Sync]
      /\ server \in Versions /\ hash \in Versions \cup {0} /\ server # 0
      /\ notes \in 0 .. MaxNotes /\ outages \in 0 .. MaxOutages /\ MaxOutages \in Nat
      /\ ssh \in Versions \cup {0} /\ timer \in BOOLEAN
  BY SyncTyped, ContentForm, SyncAssumption DEF SyncTypeOK
<1>1. \A h \in Versions \cup {0} : [NoSync EXCEPT !.pc = "fetching", !.had = h] \in Sync
                                   /\ [NoSync EXCEPT !.pc = "fetching", !.had = h].pc = "fetching"
  BY <1>0 DEF NoSync, Sync
<1>2. NoSync.pc = "idle"
  BY DEF NoSync
<1>3. CASE TimerFires(s)
  <2>1. Becomes(s, [NoSync EXCEPT !.pc = "fetching", !.had = hash])
    BY <1>0, <1>1, <1>3 DEF TimerFires, Begin, Becomes
  <2> QED BY <1>0, <1>1, <1>3, <2>1 DEF TimerFires, bounds
<1>4. CASE performConfigSync(s)
  <2>1. Becomes(s, [NoSync EXCEPT !.pc = "fetching", !.had = 0])
    BY <1>1, <1>4 DEF performConfigSync, Begin, Becomes
  <2>2. notes' \in 0 .. MaxNotes
    BY <1>0, <1>4, SyncAssumption DEF performConfigSync
  <2> QED BY <1>0, <1>1, <1>4, <2>1, <2>2 DEF performConfigSync
<1>5. CASE Served(s)
  <2>0. PICK says \in BOOLEAN :
          /\ outages' = (IF says THEN outages ELSE outages + 1) /\ outages' <= MaxOutages
          /\ sync' = [sync EXCEPT ![s].pc = "answered", ![s].got = server, ![s].says = says]
    BY <1>5 DEF Served
  <2> DEFINE t == [sync[s] EXCEPT !.pc = "answered", !.got = server, !.says = says]
  <2>1. t \in Sync /\ t.pc = "answered" /\ t.got = server
    BY <1>0 DEF Sync
  <2>2. sync' = [sync EXCEPT ![s] = t]
    BY <1>0, <2>0
  <2> HIDE DEF t
  <2>3. Becomes(s, t)
    BY <1>0, <1>5, <2>1, <2>2 DEF Served, Becomes
  <2>4. outages' \in 0 .. MaxOutages
    BY <1>0, <2>0
  <2> QED BY <1>0, <1>5, <2>1, <2>3, <2>4 DEF Served
<1>6. CASE getSshCredentials(s)
  <2>1. CASE sync[s].whole
    <3>1. PICK v \in {0, server} : sync' = [sync EXCEPT ![s].pc = "keys", ![s].had = v]
      BY <1>6, <2>1 DEF getSshCredentials
    <3> DEFINE t == [sync[s] EXCEPT !.pc = "keys", !.had = v]
    <3>2. t \in Sync /\ t.pc = "keys"
      BY <1>0 DEF Sync
    <3>3. sync' = [sync EXCEPT ![s] = t]
      BY <1>0, <3>1
    <3> HIDE DEF t
    <3>4. Becomes(s, t)
      BY <1>6, <3>2, <3>3 DEF getSshCredentials, Becomes
    <3> QED BY <1>0, <1>6, <3>2, <3>4 DEF getSshCredentials, bounds
  <2>2. CASE ~sync[s].whole
    <3>1. Becomes(s, NoSync)
      BY <1>2, <1>6, <2>2 DEF getSshCredentials, Becomes
    <3> QED BY <1>0, <1>6, <3>1 DEF getSshCredentials, bounds
  <2> QED BY <2>1, <2>2
<1>7. CASE writeSshConfig(s)
  <2>1. Becomes(s, NoSync)
    BY <1>2, <1>7 DEF writeSshConfig, Becomes
  <2>2. ssh' \in Versions \cup {0}
    <3>1. sync[s].had \in Versions \cup {0}
      BY <1>0 DEF Sync
    <3> QED BY <1>0, <1>7, <3>1 DEF writeSshConfig
  <2> QED BY <1>0, <1>7, <2>1, <2>2 DEF writeSshConfig, bounds
<1> QED BY <1>3, <1>4, <1>5, <1>6, <1>7 DEF Beside

\* What a sync takes over, or that it takes nothing.
TakesOver(s, v, w, y) ==
    /\ conf' = [v |-> v, whole |-> w, says |-> y]
    /\ sync' = [sync EXCEPT ![s] = [pc |-> "mounting", had |-> 0, got |-> v, whole |-> w, says |-> y]]
    /\ chain' = Append(chain, s)
    /\ UNCHANGED <<apply, diskVars, errors>>

LEMMA AnswerForm ==
  ASSUME SyncTypeOK, ApplyOK, NEW s \in Syncs, syncProjectConfig(s) \/ loadCachedConfig(s)
  PROVE  /\ sync[s].pc \in {"fetching", "answered"}
         /\ \/ Becomes(s, NoSync) /\ UNCHANGED <<hash, cache>>
            \/ \E v \in Versions, w \in BOOLEAN, y \in BOOLEAN : TakesOver(s, v, w, y) /\ hash' = v /\ cache' \in {cache, v}
         /\ UNCHANGED <<server, timer, ssh, notes>>
         /\ outages' \in 0 .. MaxOutages
<1>0. sync[s] \in Sync /\ cache \in Versions \cup {0} /\ outages \in 0 .. MaxOutages
  BY SyncTyped DEF SyncTypeOK
<1>1. NoSync.pc = "idle"
  BY DEF NoSync
<1>2. CASE syncProjectConfig(s)
  <2>1. sync[s].got \in Versions /\ sync[s].says \in BOOLEAN
    BY <1>0, <1>2 DEF syncProjectConfig, ApplyOK, Sync
  <2>2. CASE sync[s].got = sync[s].had
    BY <1>0, <1>1, <1>2, <2>2 DEF syncProjectConfig, Becomes, bounds
  <2>3. CASE sync[s].got # sync[s].had
    <3>1. TakesOver(s, sync[s].got, TRUE, sync[s].says) /\ hash' = sync[s].got /\ cache' = sync[s].got
      BY <1>2, <2>3 DEF syncProjectConfig, applyProjectConfig, TakesOver
    <3> QED BY <1>0, <1>2, <2>1, <3>1 DEF syncProjectConfig, bounds
  <2> QED BY <2>2, <2>3
<1>3. CASE loadCachedConfig(s)
  <2>0. outages' \in 0 .. MaxOutages
    BY <1>0, <1>3, SyncAssumption DEF loadCachedConfig
  <2>1. CASE cache # 0 /\ cache # sync[s].had
    <3>1. TakesOver(s, cache, FALSE, FALSE) /\ hash' = cache /\ cache' = cache
      BY <1>3, <2>1 DEF loadCachedConfig, applyProjectConfig, TakesOver
    <3>2. cache \in Versions
      BY <1>0, <2>1
    <3> QED BY <1>3, <2>0, <3>1, <3>2 DEF loadCachedConfig
  <2>2. CASE ~(cache # 0 /\ cache # sync[s].had)
    BY <1>1, <1>3, <2>0, <2>2 DEF loadCachedConfig, Becomes
  <2> QED BY <2>1, <2>2
<1> QED BY <1>2, <1>3

LEMMA SyncTypeStep == ASSUME SyncTypeOK, ApplyOK, ChainOK, [SyncNext]_syncVars PROVE SyncTypeOK'
<1>0. /\ Versions \subseteq Nat /\ server \in Versions
      /\ notes \in 0 .. MaxNotes /\ outages \in 0 .. MaxOutages /\ MaxNotes \in Nat /\ MaxOutages \in Nat
  BY SyncTyped, SyncAssumption DEF SyncTypeOK
<1>1. ASSUME ChangeConfig PROVE SyncTypeOK'
  <2>1. server' \in Versions
    BY <1>0, <1>1, ContentForm DEF ChangeConfig, LastVersion, Versions
  <2> QED BY <1>1, <2>1 DEF ChangeConfig, SyncTypeOK, diskVars, bounds
<1>2. ASSUME configUpdate PROVE SyncTypeOK'
  <2>1. notes' \in 0 .. MaxNotes
    BY <1>0, <1>2 DEF configUpdate
  <2> QED BY <1>2, <2>1 DEF configUpdate, SyncTypeOK, diskVars
<1>3. ASSUME heartbeat PROVE SyncTypeOK'
  BY <1>3 DEF heartbeat, SyncTypeOK, diskVars, bounds
<1>4. ASSUME Damage PROVE SyncTypeOK'
  <2>1. outages' \in 0 .. MaxOutages
    BY <1>0, <1>4 DEF Damage
  <2> QED BY <1>4, <2>1 DEF Damage, SyncTypeOK
<1>5. ASSUME Restart PROVE SyncTypeOK'
  <2>1. notes' \in 0 .. MaxNotes
    BY <1>0, <1>5 DEF Restart
  <2>2. sync' \in [Syncs -> Sync] /\ apply' \in Apply /\ chain' \in Seq(Syncs)
    BY <1>5, SyncTyped DEF Restart
  <2> QED BY <1>5, <2>1, <2>2 DEF Restart, NoConf, SyncTypeOK, diskVars
<1>6. ASSUME NEW d \in Dest, Foreign(d) PROVE SyncTypeOK'
  <2>1. notes' \in 0 .. MaxNotes
    BY <1>0, <1>6 DEF Foreign
  <2>2. disk' \in [Dest -> File \cup {"none", "foreign"}] /\ own' \subseteq Dest
    BY <1>6 DEF Foreign, SyncTypeOK
  <2> QED BY <1>6, <2>1, <2>2 DEF Foreign, SyncTypeOK
<1>7. ASSUME NEW s \in Syncs, Beside(s) PROVE SyncTypeOK'
  <2>1. PICK t \in Sync : Becomes(s, t)
    BY <1>7, BesideForm
  <2>2. sync' \in [Syncs -> Sync]
    BY <2>1, SyncTyped DEF Becomes
  <2>3. /\ UNCHANGED <<server, cache>>
        /\ hash' \in {hash, 0} /\ timer' \in BOOLEAN /\ ssh' \in Versions \cup {0}
        /\ outages' \in 0 .. MaxOutages /\ notes' \in 0 .. MaxNotes
    BY <1>7, BesideForm
  <2> QED BY <2>1, <2>2, <2>3 DEF Becomes, SyncTypeOK, diskVars
<1>8. ASSUME NEW s \in Syncs, syncProjectConfig(s) \/ loadCachedConfig(s) PROVE SyncTypeOK'
  <2>1. UNCHANGED <<server, timer, ssh, notes>> /\ outages' \in 0 .. MaxOutages
    BY <1>8, AnswerForm
  <2>2. CASE Becomes(s, NoSync) /\ UNCHANGED <<hash, cache>>
    <3>1. sync' \in [Syncs -> Sync]
      BY <2>2, SyncTyped DEF Becomes
    <3> QED BY <2>1, <2>2, <3>1 DEF Becomes, SyncTypeOK, diskVars
  <2>3. CASE \E v \in Versions, w \in BOOLEAN, y \in BOOLEAN : TakesOver(s, v, w, y) /\ hash' = v /\ cache' \in {cache, v}
    <3>1. PICK v \in Versions, w \in BOOLEAN, y \in BOOLEAN : TakesOver(s, v, w, y) /\ hash' = v /\ cache' \in {cache, v}
      BY <2>3
    <3> DEFINE t == [pc |-> "mounting", had |-> 0, got |-> v, whole |-> w, says |-> y]
    <3>2. t \in Sync
      BY DEF Sync
    <3>3. sync' = [sync EXCEPT ![s] = t]
      BY <3>1 DEF TakesOver
    <3> HIDE DEF t
    <3>4. sync' \in [Syncs -> Sync] /\ chain' \in Seq(Syncs)
      BY <3>1, <3>2, <3>3, SyncTyped DEF TakesOver
    <3>5. conf' \in [v : Versions \cup {0}, whole : BOOLEAN, says : BOOLEAN]
      BY <3>1 DEF TakesOver
    <3> QED BY <2>1, <3>1, <3>4, <3>5 DEF TakesOver, SyncTypeOK, diskVars
  <2> QED BY <1>8, <2>2, <2>3, AnswerForm
<1>9. ASSUME NEW s \in Syncs, loadManifest(s) PROVE SyncTypeOK'
  <2> DEFINE t == [sync[s] EXCEPT !.pc = "placing"]
  <2>1. t \in Sync
    BY SyncTyped DEF Sync
  <2>2. sync' = [sync EXCEPT ![s] = t]
    BY <1>9 DEF loadManifest, SyncTypeOK
  <2> HIDE DEF t
  <2>3. sync' \in [Syncs -> Sync]
    BY <2>1, <2>2, SyncTyped
  <2>4. apply' \in Apply
    <3>1. (IF readable THEN manifest ELSE <<>>) \in Places
      BY NoPlaces DEF SyncTypeOK
    <3>2. Wanted(s) \in SUBSET Dest
      BY DEF Wanted
    <3>3. \A T \in SUBSET Dest, L \in Places : [NoApply EXCEPT !.pc = "placing", !.todo = T, !.loaded = L] \in Apply
      BY NoPlaces DEF NoApply, Apply
    <3> QED BY <1>9, <3>1, <3>2, <3>3 DEF loadManifest
  <2> QED BY <1>9, <2>3, <2>4 DEF loadManifest, SyncTypeOK, diskVars, bounds
<1>10. ASSUME NEW s \in Syncs, NEW d \in Dest, PlaceMount(s, d) PROVE SyncTypeOK'
  BY <1>10, PlaceTypes
<1>11. ASSUME NEW s \in Syncs, removeStaleMounts(s) PROVE SyncTypeOK'
  <2>1. disk' \in [Dest -> File \cup {"none", "foreign"}] /\ own' \subseteq Dest
    BY <1>11, StaleForm DEF SyncTypeOK, Leaves
  <2>2. apply' \in Apply /\ UNCHANGED <<server, hash, conf, cache, timer, sync, chain, manifest, readable, errors, ssh, bounds>>
    BY <1>11, StaleForm
  <2> QED BY <2>1, <2>2 DEF SyncTypeOK, bounds
<1>12. ASSUME NEW s \in Syncs, saveManifest(s) PROVE SyncTypeOK'
  <2> DEFINE t == [sync[s] EXCEPT !.pc = "ssh"]
  <2>1. t \in Sync
    BY SyncTyped DEF Sync
  <2>2. sync' = [sync EXCEPT ![s] = t]
    BY <1>12 DEF saveManifest, SyncTypeOK
  <2> HIDE DEF t
  <2>3. sync' \in [Syncs -> Sync]
    BY <2>1, <2>2, SyncTyped
  <2>4. manifest' \in Places
    <3>1. manifest' \in {Record(s), manifest}
      BY <1>12 DEF saveManifest
    <3>2. Record(s) \in Places
      BY RecordForm DEF SyncTypeOK
    <3> QED BY <3>1, <3>2 DEF SyncTypeOK
  <2>5. errors' \subseteq Dest \cup {"manifest"}
    BY <1>12, ApplyFields DEF saveManifest, SyncTypeOK
  <2>6. chain' \in Seq(Syncs)
    <3>1. chain # <<>>
      BY <1>12 DEF saveManifest, ChainOK
    <3> QED BY <1>12, <3>1 DEF saveManifest, SyncTypeOK
  <2>7. apply' \in Apply
    BY <1>12, SyncTyped DEF saveManifest
  <2> QED BY <1>12, <2>3, <2>4, <2>5, <2>6, <2>7 DEF saveManifest, SyncTypeOK, bounds
<1>13. CASE UNCHANGED syncVars
  BY <1>13 DEF syncVars, SyncTypeOK
<1> QED
  BY <1>1, <1>2, <1>3, <1>4, <1>5, <1>6, <1>7, <1>8, <1>9, <1>10, <1>11, <1>12, <1>13 DEF SyncNext, Work, Beside

-----------------------------------------------------------------------------
\* Steps that leave the chain and the places alone.

LEMMA SameApply ==
  ASSUME NEW s, UNCHANGED <<apply, disk, own, readable>>, sync'[s] = sync[s]
  PROVE  /\ Wanted(s)' = Wanted(s)
         /\ PlacingOK(s) => PlacingOK(s)'
         /\ SavingOK(s) => SavingOK(s)'
<1>1. Wanted(s)' = Wanted(s)
  BY DEF Wanted
<1>2. Record(s)' = Record(s)
  BY <1>1 DEF Record, carriedOver
<1>3. PlacingOK(s) => PlacingOK(s)'
  BY <1>1 DEF PlacingOK, Keeps
<1>4. SavingOK(s) => SavingOK(s)'
  BY <1>2 DEF SavingOK, Keeps
<1> QED BY <1>1, <1>3, <1>4

LEMMA AsideKeeps ==
  ASSUME SyncInv, UNCHANGED <<conf, chain, apply, diskVars, errors>>,
         \A s \in Syncs : /\ InChain(s)' <=> InChain(s)
                          /\ InChain(s) => sync'[s] = sync[s]
                          /\ sync'[s].pc = "answered" => sync'[s].got # 0
  PROVE  SyncRest'
<1> USE DEF SyncInv, SyncRest, diskVars
<1>1. chain \in Seq(Syncs)
  BY DEF SyncTypeOK
<1>2. \A i \in DOMAIN chain : chain[i] \in Syncs /\ InChain(chain[i]) /\ sync'[chain[i]] = sync[chain[i]]
  BY <1>1 DEF ChainOK
<1>3. \A s \in Syncs : sync'[s].pc = "placing" <=> sync[s].pc = "placing"
  BY DEF InChain
<1>4. chain # <<>> => 1 \in DOMAIN chain /\ Len(chain) \in DOMAIN chain
  BY <1>1
<1>5. ChainOK'
  BY <1>2, <1>3, <1>4 DEF ChainOK
<1>6. InUse'
  BY <1>2, <1>4 DEF InUse
<1>7. OwnKnown'
  BY DEF OwnKnown
<1>8. ApplyOK'
  <2> SUFFICES ASSUME NEW s \in Syncs
               PROVE  /\ sync'[s].pc = "answered" \/ InChain(s)' => sync'[s].got # 0
                      /\ sync'[s].pc = "placing" /\ apply.pc = "placing" => PlacingOK(s)'
                      /\ sync'[s].pc = "placing" /\ apply.pc = "saving" => SavingOK(s)'
    BY DEF ApplyOK
  <2>1. sync'[s].pc = "answered" \/ InChain(s)' => sync'[s].got # 0
    BY DEF ApplyOK
  <2>2. sync'[s].pc = "placing" => sync[s].pc = "placing" /\ sync'[s] = sync[s]
    BY <1>3 DEF InChain
  <2> QED BY <2>1, <2>2, SameApply DEF ApplyOK
<1>9. OwnTracked'
  BY DEF OwnTracked, Resting
<1>10. Followed'
  BY DEF Followed, Told
<1> QED BY <1>5, <1>6, <1>7, <1>8, <1>9, <1>10

LEMMA BecomesKeeps ==
  ASSUME SyncInv, NEW s \in Syncs, ~InChain(s), NEW t \in Sync, Becomes(s, t)
  PROVE  SyncRest'
<1>1. sync'[s] = t /\ \A x \in Syncs \ {s} : sync'[x] = sync[x]
  BY DEF Becomes, SyncInv, SyncTypeOK
<1>2. \A x \in Syncs : /\ InChain(x)' <=> InChain(x)
                       /\ InChain(x) => sync'[x] = sync[x]
                       /\ sync'[x].pc = "answered" => sync'[x].got # 0
  <2> SUFFICES ASSUME NEW x \in Syncs
               PROVE  /\ InChain(x)' <=> InChain(x)
                      /\ InChain(x) => sync'[x] = sync[x]
                      /\ sync'[x].pc = "answered" => sync'[x].got # 0
    OBVIOUS
  <2>1. CASE x = s
    BY <1>1, <2>1 DEF Becomes, InChain
  <2>2. CASE x # s
    BY <1>1, <2>2 DEF InChain, SyncInv, SyncRest, ApplyOK
  <2> QED BY <2>1, <2>2
<1> QED BY <1>2, AsideKeeps DEF Becomes

-----------------------------------------------------------------------------
\* A configuration is taken over.

LEMMA TakesOverKeeps ==
  ASSUME SyncInv, NEW s \in Syncs, ~InChain(s), NEW v \in Versions, NEW w \in BOOLEAN, NEW y \in BOOLEAN,
         TakesOver(s, v, w, y)
  PROVE  SyncRest'
<1> USE DEF SyncInv, SyncRest
<1> DEFINE t == [pc |-> "mounting", had |-> 0, got |-> v, whole |-> w, says |-> y]
<1>1. sync'[s] = t /\ \A x \in Syncs \ {s} : sync'[x] = sync[x]
  BY DEF TakesOver, SyncTypeOK
<1>2. t.pc = "mounting" /\ t.got = v /\ t.says = y /\ v # 0
  BY ContentForm
<1> HIDE DEF t
<1>3. /\ chain \in Seq(Syncs) /\ Len(chain) \in Nat /\ DOMAIN chain = 1 .. Len(chain)
      /\ chain' \in Seq(Syncs) /\ Len(chain') = Len(chain) + 1 /\ DOMAIN chain' = 1 .. (Len(chain) + 1)
      /\ chain'[Len(chain) + 1] = s
      /\ \A i \in 1 .. Len(chain) : chain'[i] = chain[i]
      /\ chain' # <<>>
  <2>1. chain \in Seq(Syncs) /\ chain' = Append(chain, s)
    BY DEF TakesOver, SyncTypeOK
  <2>2. /\ Len(chain) \in Nat /\ DOMAIN chain = 1 .. Len(chain) /\ chain' \in Seq(Syncs)
        /\ Len(chain') = Len(chain) + 1 /\ chain'[Len(chain) + 1] = s
        /\ \A i \in 1 .. Len(chain) : chain'[i] = chain[i]
    BY <2>1, AppendProperties, LenProperties
  <2>3. DOMAIN chain' = 1 .. (Len(chain) + 1)
    BY <2>2, LenProperties
  <2>4. chain' # <<>>
    BY <2>2, EmptySeq
  <2> QED BY <2>1, <2>2, <2>3, <2>4
<1>4. \A i \in DOMAIN chain : chain[i] \in Syncs /\ chain[i] # s
  BY <1>3 DEF ChainOK
<1>5. UNCHANGED <<apply, disk, own, manifest, readable, errors>>
  BY DEF TakesOver, diskVars
<1>6. \A x \in Syncs : sync'[x].pc = "placing" <=> sync[x].pc = "placing" /\ x # s
  BY <1>1, <1>2
<1>7. \A x \in Syncs : InChain(x)' <=> InChain(x) \/ x = s
  BY <1>1, <1>2 DEF InChain
<1>8. chain # <<>> => 1 \in DOMAIN chain /\ chain'[1] = chain[1]
  BY <1>3
<1>9. ChainOK'
  <2>1. \A i, j \in DOMAIN chain' : chain'[i] = chain'[j] => i = j
    BY <1>3, <1>4 DEF ChainOK
  <2>2. \A x \in Syncs : InChain(x)' <=> \E i \in DOMAIN chain' : chain'[i] = x
    <3> SUFFICES ASSUME NEW x \in Syncs PROVE InChain(x)' <=> \E i \in DOMAIN chain' : chain'[i] = x
      OBVIOUS
    <3>1. (\E i \in DOMAIN chain' : chain'[i] = x) <=> (\E i \in DOMAIN chain : chain[i] = x) \/ x = s
      BY <1>3
    <3> QED BY <1>7, <3>1 DEF ChainOK
  <2>3. apply'.pc # "off" => chain' # <<>> /\ sync'[chain'[1]].pc = "placing"
    BY <1>1, <1>3, <1>4, <1>5, <1>8 DEF ChainOK
  <2>4. \A x \in Syncs : sync'[x].pc = "placing" => apply'.pc # "off" /\ chain' # <<>> /\ x = chain'[1]
    BY <1>3, <1>5, <1>6, <1>8 DEF ChainOK
  <2> QED BY <2>1, <2>2, <2>3, <2>4 DEF ChainOK
<1>10. InUse'
  BY <1>1, <1>2, <1>3 DEF InUse, TakesOver
<1>11. OwnKnown' /\ OwnTracked'
  BY <1>5 DEF OwnKnown, OwnTracked, Resting
<1>12. ApplyOK'
  <2> SUFFICES ASSUME NEW x \in Syncs
               PROVE  /\ sync'[x].pc = "answered" \/ InChain(x)' => sync'[x].got # 0
                      /\ sync'[x].pc = "placing" /\ apply.pc = "placing" => PlacingOK(x)'
                      /\ sync'[x].pc = "placing" /\ apply.pc = "saving" => SavingOK(x)'
    BY <1>5 DEF ApplyOK
  <2>1. CASE x = s
    BY <1>1, <1>2, <2>1
  <2>2. CASE x # s
    BY <1>1, <1>5, <1>7, <2>2, SameApply DEF ApplyOK
  <2> QED BY <2>1, <2>2
<1>13. Followed'
  BY <1>3 DEF Followed
<1> QED BY <1>9, <1>10, <1>11, <1>12, <1>13

-----------------------------------------------------------------------------
\* The files are placed.

\* Who is at the head, and that nobody else places.
LEMMA HeadPlaces ==
  ASSUME SyncInv, NEW s \in Syncs, InChain(s)
  PROVE  /\ chain \in Seq(Syncs) /\ chain # <<>> /\ DOMAIN chain = 1 .. Len(chain) /\ Len(chain) \in Nat /\ Len(chain) >= 1
         /\ chain[1] = Head(chain) /\ sync[s].got # 0 /\ sync[s] \in Sync
         /\ sync[s].pc = "placing" => s = chain[1] /\ apply.pc # "off"
         /\ \A x \in Syncs : sync[x].pc = "placing" => x = chain[1] /\ apply.pc # "off"
<1>1. chain \in Seq(Syncs) /\ sync[s] \in Sync
  BY SyncTyped DEF SyncInv, SyncTypeOK
<1>2. chain # <<>>
  BY <1>1 DEF SyncInv, SyncRest, ChainOK
<1>3. DOMAIN chain = 1 .. Len(chain) /\ Len(chain) \in Nat /\ Len(chain) >= 1 /\ chain[1] = Head(chain)
  BY <1>1, <1>2, LenProperties, EmptySeq
<1>4. sync[s].got # 0 /\ \A x \in Syncs : sync[x].pc = "placing" => x = chain[1] /\ apply.pc # "off"
  BY DEF SyncInv, SyncRest, ChainOK, ApplyOK
<1> QED BY <1>1, <1>2, <1>3, <1>4

LEMMA LoadKeeps ==
  ASSUME SyncInv, NEW s \in Syncs, loadManifest(s)
  PROVE  SyncRest'
<1> USE DEF SyncInv, SyncRest
<1>0. sync[s].pc = "mounting" /\ Head(chain) = s /\ apply.pc = "off" /\ InChain(s)
  BY DEF loadManifest, MayApply, InChain
<1>1. /\ chain # <<>> /\ chain[1] = s /\ sync[s].got # 0 /\ sync[s] \in Sync
      /\ \A x \in Syncs : sync[x].pc # "placing"
      /\ DOMAIN chain = 1 .. Len(chain) /\ Len(chain) \in Nat /\ Len(chain) >= 1
      /\ chain \in Seq(Syncs)
  BY <1>0, HeadPlaces
<1>2. UNCHANGED <<conf, chain, disk, own, manifest, readable, errors>>
  BY DEF loadManifest, diskVars
<1>3. /\ sync'[s].pc = "placing" /\ sync'[s].got = sync[s].got /\ sync'[s].says = sync[s].says
      /\ \A x \in Syncs \ {s} : sync'[x] = sync[x]
  BY <1>1 DEF loadManifest, SyncTypeOK, Sync
<1>4. /\ apply'.pc = "placing" /\ apply'.todo = Wanted(s) /\ apply'.placed = <<>>
      /\ apply'.loaded = IF readable THEN manifest ELSE <<>>
  BY DEF loadManifest, NoApply
<1>5. Wanted(s)' = Wanted(s)
  BY <1>3 DEF Wanted
<1>6. ChainOK'
  <2>1. \A x \in Syncs : InChain(x)' <=> InChain(x)
    BY <1>0, <1>3 DEF InChain
  <2>2. \A x \in Syncs : sync'[x].pc = "placing" => x = s
    BY <1>1, <1>3
  <2>3. \A x \in Syncs : InChain(x)' <=> \E i \in DOMAIN chain' : chain'[i] = x
    BY <1>2, <2>1 DEF ChainOK
  <2> QED BY <1>1, <1>2, <1>3, <1>4, <2>2, <2>3 DEF ChainOK
<1>7. InUse'
  <2>1. chain[Len(chain)] \in Syncs
    BY <1>1
  <2>2. sync'[chain[Len(chain)]].got = sync[chain[Len(chain)]].got /\ sync'[chain[Len(chain)]].says = sync[chain[Len(chain)]].says
    BY <1>3, <2>1
  <2> QED BY <1>2, <2>2 DEF InUse
<1>8. PlacingOK(s)'
  <2>1. DOMAIN apply'.placed = {}
    BY <1>4, NoPlaces
  <2>2. readable => \A d \in own : Keeps(manifest, d)
    BY <1>0 DEF OwnTracked, Resting, Keeps
  <2> QED BY <1>2, <1>4, <1>5, <2>1, <2>2 DEF PlacingOK, Keeps
<1>9. ApplyOK'
  BY <1>1, <1>3, <1>4, <1>8 DEF ApplyOK, InChain
<1>10. OwnKnown' /\ OwnTracked' /\ Followed'
  BY <1>1, <1>2, <1>4 DEF OwnKnown, OwnTracked, Resting, Followed
<1> QED BY <1>6, <1>7, <1>9, <1>10

\* While the head goes on placing only what concerns its places counts.
LEMMA PlacingGoesOn ==
  ASSUME SyncInv, NEW s \in Syncs, sync[s].pc = "placing",
         UNCHANGED <<conf, sync, chain, readable, errors>>, apply'.pc # "off", OwnKnown',
         apply'.pc = "placing" => PlacingOK(s)', apply'.pc = "saving" => SavingOK(s)'
  PROVE  SyncRest'
<1> USE DEF SyncInv, SyncRest
<1>1. /\ chain # <<>> /\ s = chain[1] /\ apply.pc # "off"
      /\ \A x \in Syncs : sync[x].pc = "placing" => x = s
  BY HeadPlaces DEF InChain
<1>2. ChainOK' /\ InUse'
  BY <1>1 DEF ChainOK, InChain, InUse
<1>3. ApplyOK'
  BY <1>1 DEF ApplyOK, InChain
<1>4. OwnTracked' /\ Followed'
  BY <1>1 DEF OwnTracked, Resting, Followed
<1> QED BY <1>2, <1>3, <1>4

LEMMA PlaceKeeps ==
  ASSUME SyncInv, NEW s \in Syncs, NEW d \in Dest, PlaceMount(s, d), "unhashed" \notin SyncFaults
  PROVE  SyncRest'
<1> USE DEF SyncInv, SyncRest
<1>1. /\ sync[s].pc = "placing" /\ apply.pc = "placing" /\ d \in apply.todo /\ d \in Wanted(s) /\ sync[s].got # 0
      /\ UNCHANGED <<server, hash, conf, cache, timer, sync, chain, manifest, readable, errors, ssh, bounds>>
      /\ PlaceFails(d) \/ PlaceFound(s, d) \/ PlaceWritten(s, d)
  BY PlaceMountForm DEF PlaceUnhashed
<1> DEFINE c == Content[sync[s].got][d]
<1>2. c \in File
  BY <1>1, PlaceForm
<1>3. apply \in Apply /\ apply.placed \in Places
  BY ApplyFields DEF SyncTypeOK
<1>4. PlacingOK(s)
  BY <1>1 DEF ApplyOK
<1>5. Wanted(s)' = Wanted(s) /\ sync'[s].got = sync[s].got
  BY <1>1 DEF Wanted
<1> DEFINE p == Put(apply.placed, d, c)
<1>6. DOMAIN p = DOMAIN apply.placed \cup {d} /\ p[d] = c /\ \A e \in DOMAIN apply.placed \ {d} : p[e] = apply.placed[e]
  <2> HIDE DEF c
  <2>1. \A f \in Places, e \in File :
          /\ DOMAIN Put(f, d, e) = DOMAIN f \cup {d} /\ Put(f, d, e)[d] = e
          /\ \A x \in DOMAIN f \ {d} : Put(f, d, e)[x] = f[x]
    <3> TAKE f \in Places, e \in File
    <3> QED BY PutForm
  <2> QED BY <1>2, <1>3, <2>1
<1>7. /\ PlaceFound(s, d) => /\ disk[d] = c /\ UNCHANGED <<disk, own>>
                             /\ apply' = [apply EXCEPT !.todo = apply.todo \ {d},
                                            !.placed = IF d \in DOMAIN apply.loaded THEN p ELSE apply.placed]
      /\ PlaceWritten(s, d) => /\ disk' = [disk EXCEPT ![d] = c] /\ own' = own \cup {d}
                               /\ apply' = [apply EXCEPT !.todo = apply.todo \ {d}, !.placed = p]
  BY DEF PlaceFound, PlaceWritten
<1> HIDE DEF p, c
<1>8. /\ apply'.pc = "placing" /\ apply'.todo = apply.todo \ {d} /\ apply'.loaded = apply.loaded
      /\ PlaceFails(d) => apply'.placed = apply.placed /\ apply'.failed = apply.failed \cup {d} /\ UNCHANGED <<disk, own>>
      /\ PlaceFound(s, d) => /\ apply'.placed = IF d \in DOMAIN apply.loaded THEN p ELSE apply.placed
                             /\ apply'.failed = apply.failed
      /\ PlaceWritten(s, d) => apply'.placed = p /\ apply'.failed = apply.failed
  BY <1>1, <1>3, <1>7 DEF PlaceFails, Apply
<1>9. \A e \in Dest \ {d} : disk'[e] = disk[e] /\ (e \in own' <=> e \in own)
  BY <1>1, <1>7, <1>8 DEF SyncTypeOK
<1>10. PlaceWritten(s, d) => disk'[d] = c
  BY <1>7 DEF SyncTypeOK
<1>11. OwnKnown'
  BY <1>1, <1>7, <1>8, <1>9 DEF OwnKnown
<1>12. own' \subseteq Dest
  BY <1>1, <1>7, <1>8 DEF SyncTypeOK
<1>13. PlacingOK(s)'
  <2>1. apply'.todo \subseteq Wanted(s)' /\ DOMAIN apply'.placed \subseteq Wanted(s)'
    BY <1>1, <1>4, <1>5, <1>6, <1>8 DEF PlacingOK
  <2>2. ASSUME readable', NEW e \in own'
        PROVE  Keeps(apply.placed, e)' \/ (e \notin DOMAIN apply'.placed /\ Keeps(apply.loaded, e)')
    <3>1. CASE e # d
      <4>1. e \in own /\ disk'[e] = disk[e] /\ readable
        BY <1>1, <1>9, <1>12, <2>2, <3>1
      <4>2. /\ e \in DOMAIN apply'.placed <=> e \in DOMAIN apply.placed
            /\ e \in DOMAIN apply.placed => apply'.placed[e] = apply.placed[e]
        BY <1>1, <1>6, <1>8, <3>1
      <4> QED BY <1>4, <1>8, <4>1, <4>2 DEF PlacingOK, Keeps
    <3>2. CASE e = d
      <4>1. CASE PlaceFails(d)
        BY <1>1, <1>4, <1>8, <2>2, <3>2, <4>1 DEF PlacingOK, Keeps
      <4>2. CASE PlaceFound(s, d)
        <5>1. CASE d \in DOMAIN apply.loaded
          BY <1>6, <1>7, <1>8, <3>2, <4>2, <5>1 DEF Keeps
        <5>2. CASE d \notin DOMAIN apply.loaded
          BY <1>1, <1>4, <1>7, <1>8, <2>2, <3>2, <4>2, <5>2 DEF PlacingOK, Keeps
        <5> QED BY <5>1, <5>2
      <4>3. CASE PlaceWritten(s, d)
        BY <1>6, <1>8, <1>10, <3>2, <4>3 DEF Keeps
      <4> QED BY <1>1, <4>1, <4>2, <4>3
    <3> QED BY <3>1, <3>2
  <2>3. ASSUME NEW e \in Wanted(s) \ apply'.todo
        PROVE  disk'[e] = Content[sync[s].got][e] \/ e \in apply'.failed
    <3>1. CASE e # d
      <4>1. e \in Wanted(s) \ apply.todo /\ disk'[e] = disk[e] /\ (e \in apply.failed => e \in apply'.failed)
        BY <1>1, <1>8, <1>9, <2>3, <3>1 DEF Wanted
      <4> QED BY <1>4, <4>1 DEF PlacingOK
    <3>2. CASE e = d
      BY <1>1, <1>7, <1>8, <1>10, <3>2 DEF c
    <3> QED BY <3>1, <3>2
  <2>4. \A e \in Wanted(s)' \ apply'.todo : disk'[e] = Content[sync'[s].got][e] \/ e \in apply'.failed
    BY <1>5, <2>3
  <2> QED BY <2>1, <2>2, <2>4 DEF PlacingOK
<1> QED BY <1>1, <1>8, <1>11, <1>13, PlacingGoesOn

\* What the record says, in this state and in the next.
Listed(s) == DOMAIN apply.loaded \cap
               ((IF sync[s].says THEN Wanted(s) ELSE Dest) \ (DOMAIN apply.placed \cup DOMAIN apply.left))
RecordSays(s) ==
    /\ DOMAIN Record(s) = DOMAIN apply.placed \cup DOMAIN apply.left \cup Listed(s)
    /\ \A d \in DOMAIN apply.placed : Record(s)[d] = apply.placed[d]
    /\ \A d \in DOMAIN apply.left \ DOMAIN apply.placed : Record(s)[d] = apply.left[d]
    /\ \A d \in Listed(s) : Record(s)[d] = apply.loaded[d]

LEMMA RecordNow ==
  ASSUME apply \in Apply, NEW s
  PROVE  RecordSays(s)
<1>1. DOMAIN carriedOver(s) = Listed(s)
  BY RecordForm DEF Listed
<1>2. \A d \in Listed(s) : d \notin DOMAIN apply.placed \cup DOMAIN apply.left
  BY DEF Listed
<1> QED BY <1>1, <1>2, RecordForm DEF RecordSays

LEMMA RecordNext == (\A s \in Syncs : apply \in Apply => RecordSays(s))'
<1>1. \A s \in Syncs : apply \in Apply => RecordSays(s)
  BY RecordNow
<1> QED BY <1>1, PTL

LEMMA StaleKeeps ==
  ASSUME SyncInv, NEW s \in Syncs, removeStaleMounts(s)
  PROVE  SyncRest'
<1> USE DEF SyncInv, SyncRest
<1>1. /\ sync[s].pc = "placing" /\ apply.pc = "placing" /\ apply.todo = {}
      /\ UNCHANGED <<server, hash, conf, cache, timer, sync, chain, manifest, readable, errors, ssh, bounds>>
      /\ Stale(s) \subseteq Dest
      /\ apply' \in Apply
  BY StaleForm
<1>a. PICK K \in SUBSET Stale(s) :
        /\ Leaves(s, K)
        /\ DOMAIN Only(apply.loaded, K) = K /\ \A d \in K : Only(apply.loaded, K)[d] = apply.loaded[d]
  BY StaleForm
<1> DEFINE l == Only(apply.loaded, K)
           G == Gone(s, K)
<1>2. /\ apply' = [apply EXCEPT !.pc = "saving", !.left = l, !.failed = apply.failed \cup K]
      /\ DOMAIN l = K /\ \A d \in K : l[d] = apply.loaded[d]
      /\ disk' = [d \in Dest |-> IF d \in G THEN "none" ELSE disk[d]]
      /\ own' = own \ G
  BY <1>a DEF Leaves
<1>b. G \subseteq Stale(s)
  BY DEF Gone
<1> HIDE DEF l, G
<1>3. apply \in Apply
  BY DEF SyncTypeOK
<1>4. /\ apply'.pc = "saving" /\ apply'.loaded = apply.loaded /\ apply'.placed = apply.placed
      /\ apply'.left = l /\ apply'.failed = apply.failed \cup K
  BY <1>2, <1>3 DEF Apply
<1>5. PlacingOK(s)
  BY <1>1 DEF ApplyOK
<1>6. Wanted(s)' = Wanted(s) /\ sync' = sync
  BY <1>1 DEF Wanted
<1>7. \A d \in Dest : d \notin G => disk'[d] = disk[d]
  BY <1>2
<1>8. \A d \in G : disk'[d] = "none"
  BY <1>1, <1>2, <1>b
<1>9. OwnKnown'
  BY <1>2, <1>7, <1>8, SyncAssumption DEF OwnKnown
<1> DEFINE kept == DOMAIN apply.loaded \cap
                     ((IF sync[s].says THEN Wanted(s) ELSE Dest) \ (DOMAIN apply.placed \cup K))
<1>10. /\ DOMAIN Record(s)' = DOMAIN apply.placed \cup K \cup kept
       /\ \A d \in DOMAIN apply.placed : Record(s)'[d] = apply.placed[d]
       /\ \A d \in K \ DOMAIN apply.placed : Record(s)'[d] = apply.loaded[d]
       /\ \A d \in kept : Record(s)'[d] = apply.loaded[d]
  BY <1>1, <1>2, <1>4, <1>6, RecordNext DEF RecordSays, Listed
<1>11. \A d \in Stale(s) : sync[s].says /\ d \in DOMAIN apply.loaded /\ d \notin Wanted(s)
  BY DEF Stale
<1>12. SavingOK(s)'
  <2>1. ASSUME readable, NEW d \in own' PROVE Keeps(Record(s), d)'
    <3>1. d \in own /\ d \notin G /\ d \in Dest /\ disk'[d] = disk[d]
      BY <1>2, <1>7, <2>1 DEF SyncTypeOK
    <3>2. CASE Keeps(apply.placed, d)
      BY <1>10, <3>1, <3>2 DEF Keeps
    <3>3. CASE d \notin DOMAIN apply.placed /\ Keeps(apply.loaded, d)
      <4>1. d \in DOMAIN apply.loaded /\ apply.loaded[d] = disk[d]
        BY <3>3 DEF Keeps
      <4>2. CASE d \in K
        BY <1>10, <3>1, <3>3, <4>1, <4>2 DEF Keeps
      <4>3. CASE d \notin K
        <5>1. d \notin Stale(s)
          BY <3>1, <4>1, <4>3 DEF G, Gone
        <5>2. d \in kept
          BY <3>1, <3>3, <4>1, <4>3, <5>1 DEF Stale
        <5> HIDE DEF kept
        <5> QED BY <1>10, <3>1, <4>1, <5>2 DEF Keeps
      <4> QED BY <4>2, <4>3
    <3> QED BY <1>5, <2>1, <3>1, <3>2, <3>3 DEF PlacingOK
  <2>2. ASSUME readable, sync[s].says, NEW d \in Dest
        PROVE  disk'[d] \in {Content[sync[s].got][d], "foreign"} \/ d \in apply'.failed
    <3>1. CASE d \in Wanted(s)
      <4>1. disk'[d] = disk[d]
        BY <1>7, <1>11, <1>b, <3>1
      <4> QED BY <1>1, <1>4, <1>5, <3>1, <4>1 DEF PlacingOK
    <3>2. CASE d \notin Wanted(s)
      <4>1. Content[sync[s].got][d] = "none"
        BY <2>2, <3>2 DEF Wanted
      <4>2. CASE d \in G
        BY <1>8, <4>1, <4>2
      <4>3. CASE d \in K
        BY <1>4, <4>3
      <4>4. CASE d \notin G /\ d \notin K
        <5>1. disk'[d] = disk[d] /\ disk[d] \in File \cup {"none", "foreign"}
          BY <1>7, <4>4 DEF SyncTypeOK
        <5>2. disk[d] \notin File
          <6> SUFFICES ASSUME disk[d] \in File PROVE FALSE
            OBVIOUS
          <6>1. d \in own
            BY DEF OwnKnown
          <6>2. d \notin DOMAIN apply.placed
            BY <1>5, <3>2 DEF PlacingOK
          <6>3. Keeps(apply.loaded, d)
            BY <1>5, <2>2, <6>1, <6>2 DEF PlacingOK, Keeps
          <6> QED BY <2>2, <3>2, <4>4, <6>3 DEF Keeps, Stale, G, Gone
        <5> QED BY <4>1, <5>1, <5>2
      <4> QED BY <4>2, <4>3, <4>4
    <3> QED BY <3>1, <3>2
  <2> HIDE DEF kept
  <2> QED BY <1>1, <1>6, <2>1, <2>2 DEF SavingOK
<1> QED BY <1>1, <1>4, <1>9, <1>12, PlacingGoesOn

LEMMA SaveKeeps ==
  ASSUME SyncInv, NEW s \in Syncs, saveManifest(s), "unsaved" \notin SyncFaults
  PROVE  SyncRest'
<1> USE DEF SyncInv, SyncRest
<1>1. /\ sync[s].pc = "placing" /\ apply.pc = "saving" /\ apply' = NoApply /\ chain' = Tail(chain)
      /\ UNCHANGED <<conf, disk, own, readable>>
  BY DEF saveManifest
<1>2. NoApply.pc = "off"
  BY DEF NoApply
<1>3. /\ manifest' = IF readable THEN Record(s) ELSE manifest
      /\ errors' = apply.failed \cup (IF readable THEN {} ELSE {"manifest"})
  BY DEF saveManifest, Saves
<1>4. /\ chain \in Seq(Syncs) /\ chain # <<>> /\ DOMAIN chain = 1 .. Len(chain) /\ Len(chain) \in Nat /\ Len(chain) >= 1
      /\ s = chain[1] /\ sync[s].got # 0 /\ sync[s] \in Sync
      /\ \A x \in Syncs : sync[x].pc = "placing" => x = s
  BY <1>1, HeadPlaces DEF InChain
<1>5. /\ Len(chain') = Len(chain) - 1 /\ DOMAIN chain' = 1 .. (Len(chain) - 1)
      /\ \A i \in 1 .. (Len(chain) - 1) : chain'[i] = chain[i + 1]
      /\ chain' = <<>> <=> Len(chain) = 1
  <2>1. /\ Tail(chain) \in Seq(Syncs) /\ Len(Tail(chain)) = Len(chain) - 1
        /\ \A i \in 1 .. Len(Tail(chain)) : Tail(chain)[i] = chain[i + 1]
    BY <1>4, HeadTailProperties
  <2>2. DOMAIN Tail(chain) = 1 .. Len(Tail(chain)) /\ (Tail(chain) = <<>> <=> Len(Tail(chain)) = 0)
    BY <2>1, LenProperties, EmptySeq
  <2>3. Len(chain) - 1 = 0 <=> Len(chain) = 1
    BY <1>4
  <2>4. chain' = Tail(chain)
    BY <1>1
  <2> QED BY <2>1, <2>2, <2>3, <2>4
<1>6. sync'[s].pc = "ssh" /\ \A x \in Syncs \ {s} : sync'[x] = sync[x]
  BY <1>4 DEF saveManifest, SyncTypeOK, Sync
<1>7. \A i \in DOMAIN chain \ {1} : chain[i] \in Syncs /\ chain[i] # s
  BY <1>4 DEF ChainOK
<1>8. ChainOK'
  <2>1. ASSUME NEW i \in DOMAIN chain', NEW j \in DOMAIN chain', chain'[i] = chain'[j] PROVE i = j
    <3>1. i \in Nat /\ j \in Nat /\ i + 1 \in DOMAIN chain /\ j + 1 \in DOMAIN chain
      BY <1>4, <1>5
    <3>2. chain[i + 1] = chain[j + 1]
      BY <1>5, <2>1
    <3>3. i + 1 = j + 1
      BY <3>1, <3>2 DEF ChainOK
    <3> QED BY <3>1, <3>3
  <2>2. ASSUME NEW x \in Syncs PROVE InChain(x)' <=> \E i \in DOMAIN chain' : chain'[i] = x
    <3>1. InChain(x)' <=> InChain(x) /\ x # s
      BY <1>6 DEF InChain
    <3>2. (\E i \in DOMAIN chain' : chain'[i] = x) <=> \E i \in DOMAIN chain \ {1} : chain[i] = x
      <4>1. \A i \in DOMAIN chain \ {1} : i - 1 \in DOMAIN chain' /\ chain'[i - 1] = chain[i]
        BY <1>4, <1>5
      <4>2. \A i \in DOMAIN chain' : i + 1 \in DOMAIN chain \ {1} /\ chain'[i] = chain[i + 1]
        BY <1>4, <1>5
      <4> QED BY <4>1, <4>2
    <3>3. (\E i \in DOMAIN chain \ {1} : chain[i] = x) <=> (\E i \in DOMAIN chain : chain[i] = x) /\ x # s
      BY <1>4, <1>7
    <3> QED BY <3>1, <3>2, <3>3 DEF ChainOK
  <2>3. \A x \in Syncs : sync'[x].pc # "placing"
    BY <1>4, <1>6
  <2> QED BY <1>1, <1>2, <2>1, <2>2, <2>3 DEF ChainOK
<1>9. InUse'
  <2> SUFFICES ASSUME chain' # <<>>
               PROVE  LET n == Len(chain') IN
                      conf'.v = sync'[chain'[n]].got /\ conf'.says = sync'[chain'[n]].says /\ conf'.v # 0
    BY DEF InUse
  <2>1. Len(chain) > 1
    BY <1>4, <1>5
  <2>2. chain'[Len(chain')] = chain[Len(chain)]
    BY <1>4, <1>5, <2>1
  <2>3. sync'[chain[Len(chain)]] = sync[chain[Len(chain)]]
    BY <1>4, <1>6, <1>7, <2>1
  <2> QED BY <1>1, <1>4, <2>2, <2>3 DEF InUse
<1>10. OwnKnown'
  BY <1>1 DEF OwnKnown
<1>11. ApplyOK'
  BY <1>4, <1>6 DEF ApplyOK, InChain
<1>12. SavingOK(s)
  BY <1>1 DEF ApplyOK
<1>13. OwnTracked'
  BY <1>1, <1>3, <1>12 DEF OwnTracked, SavingOK, Keeps
<1>14. Followed'
  <2> SUFFICES ASSUME chain' = <<>>, conf'.says, NEW d \in Dest
               PROVE  disk'[d] \in {Content[conf'.v][d], "foreign"} \/ Told(d)'
    BY DEF Followed
  <2>1. conf.v = sync[s].got /\ conf.says = sync[s].says
    BY <1>4, <1>5 DEF InUse
  <2>2. CASE readable
    BY <1>1, <1>3, <1>12, <2>1, <2>2 DEF SavingOK, Told
  <2>3. CASE ~readable
    BY <1>3, <2>3 DEF Told
  <2> QED BY <2>2, <2>3
<1> QED BY <1>8, <1>9, <1>10, <1>11, <1>13, <1>14

-----------------------------------------------------------------------------
\* What others do, and the restart.

LEMMA OthersKeep ==
  ASSUME SyncInv, "mid" \notin SyncFaults, Damage \/ Restart \/ \E d \in Dest : Foreign(d)
  PROVE  SyncRest'
<1> USE DEF SyncInv, SyncRest
<1>1. apply.pc = "off" /\ \A s \in Syncs : sync[s].pc # "placing"
  BY DEF Damage, Restart, Foreign, ChainOK
<1>2. CASE Damage
  <2>1. UNCHANGED <<conf, sync, chain, apply, disk, own, manifest, errors>>
    BY <1>2 DEF Damage
  <2>2. ~readable'
    BY <1>2 DEF Damage
  <2> QED BY <1>1, <2>1, <2>2 DEF ChainOK, InChain, InUse, OwnKnown, ApplyOK, OwnTracked, Followed, Told
<1>3. CASE Restart
  <2>1. /\ chain' = <<>> /\ apply' = NoApply /\ conf'.v = 0 /\ \A s \in Syncs : sync'[s].pc = "idle"
        /\ UNCHANGED <<disk, own, manifest, readable>>
    BY <1>3 DEF Restart, NoSync, NoConf, diskVars
  <2>2. NoApply.pc = "off" /\ DOMAIN chain' = {}
    BY <2>1 DEF NoApply
  <2>3. ChainOK' /\ InUse'
    BY <2>1, <2>2 DEF ChainOK, InChain, InUse
  <2>4. OwnKnown' /\ OwnTracked'
    BY <1>1, <2>1 DEF OwnKnown, OwnTracked, Resting
  <2>5. ApplyOK' /\ Followed'
    BY <2>1 DEF ApplyOK, InChain, Followed
  <2> QED BY <2>3, <2>4, <2>5
<1>4. ASSUME NEW d \in Dest, Foreign(d) PROVE SyncRest'
  <2>1. UNCHANGED <<conf, sync, chain, apply, manifest, readable, errors>>
    BY <1>4 DEF Foreign
  <2>2. disk'[d] = "foreign" /\ own' = own \ {d} /\ \A e \in Dest \ {d} : disk'[e] = disk[e]
    BY <1>4 DEF Foreign, SyncTypeOK
  <2>3. ChainOK' /\ InUse' /\ ApplyOK'
    BY <1>1, <2>1 DEF ChainOK, InChain, InUse, ApplyOK
  <2>4. OwnKnown'
    BY <2>2, SyncAssumption DEF OwnKnown
  <2>5. OwnTracked'
    BY <1>1, <2>1, <2>2 DEF OwnTracked, Resting, SyncTypeOK
  <2>6. Followed'
    BY <2>1, <2>2 DEF Followed, Told
  <2> QED BY <2>3, <2>4, <2>5, <2>6
<1> QED BY <1>2, <1>3, <1>4

LEMMA SyncStep ==
  ASSUME SyncInv, [SyncNext]_syncVars, SyncFaults \cap {"mid", "unsaved", "unhashed"} = {}
  PROVE  SyncInv'
<1>1. SyncTypeOK'
  BY SyncTypeStep DEF SyncInv, SyncRest
<1>2. ASSUME UNCHANGED <<conf, sync, chain, apply, diskVars, errors>> PROVE SyncRest'
  BY <1>2, AsideKeeps DEF SyncInv, SyncRest, InChain, ApplyOK
<1>3. ASSUME ChangeConfig \/ configUpdate \/ heartbeat \/ UNCHANGED syncVars PROVE SyncRest'
  <2>1. UNCHANGED <<conf, sync, chain, apply, diskVars, errors>>
    BY <1>3 DEF ChangeConfig, configUpdate, heartbeat, syncVars, diskVars
  <2> QED BY <1>2, <2>1
<1>4. ASSUME NEW s \in Syncs, Beside(s) PROVE SyncRest'
  <2>1. PICK t \in Sync : Becomes(s, t)
    BY <1>4, BesideForm DEF SyncInv
  <2>2. ~InChain(s)
    BY <1>4, BesideForm DEF SyncInv, InChain
  <2> QED BY <2>1, <2>2, BecomesKeeps
<1>5. ASSUME NEW s \in Syncs, syncProjectConfig(s) \/ loadCachedConfig(s) PROVE SyncRest'
  <2>1. SyncTypeOK /\ ApplyOK
    BY DEF SyncInv, SyncRest
  <2>2. ~InChain(s)
    BY <1>5, <2>1, AnswerForm DEF InChain
  <2>3. Becomes(s, NoSync) \/ \E v \in Versions, w \in BOOLEAN, y \in BOOLEAN : TakesOver(s, v, w, y)
    BY <1>5, <2>1, AnswerForm
  <2>4. NoSync \in Sync
    BY <2>1, SyncTyped
  <2> QED BY <2>2, <2>3, <2>4, BecomesKeeps, TakesOverKeeps
<1>6. ASSUME NEW s \in Syncs, loadManifest(s) \/ (\E d \in Dest : PlaceMount(s, d)) PROVE SyncRest'
  BY <1>6, LoadKeeps, PlaceKeeps
<1>7. ASSUME NEW s \in Syncs, removeStaleMounts(s) \/ saveManifest(s) PROVE SyncRest'
  BY <1>7, StaleKeeps, SaveKeeps
<1>8. ASSUME Damage \/ Restart \/ \E d \in Dest : Foreign(d) PROVE SyncRest'
  BY <1>8, OthersKeep
<1>9. SyncRest'
  BY <1>3, <1>4, <1>5, <1>6, <1>7, <1>8 DEF SyncNext, Work, Beside
<1> QED BY <1>1, <1>9 DEF SyncInv

LEMMA SyncEnds == SyncInv => MountsKept
<1> SUFFICES ASSUME SyncInv PROVE MountsKept
  OBVIOUS
<1> USE DEF SyncInv, SyncRest
<1>1. ASSUME Quiet PROVE chain = <<>>
  <2> SUFFICES ASSUME chain # <<>> PROVE FALSE
    OBVIOUS
  <2>1. 1 \in DOMAIN chain /\ chain[1] \in Syncs
    BY DEF SyncTypeOK
  <2> QED BY <1>1, <2>1 DEF ChainOK, Quiet, InChain
<1>2. FilesFollow
  BY <1>1 DEF Followed, FilesFollow
<1> QED BY <1>2 DEF MountsKept

\* Where the record can be written, a placed file can be read back and no crash
\* comes while files are placed, the agent's files are in the record, and once
\* no sync is under way the places are those of the configuration in use, if it
\* says which they are, or a warning says which are not: for syncs beside each
\* other, failed requests, answers that say nothing of the files, files that
\* cannot be placed or removed, restarts, a damaged record and others who write
\* to the places (applySharedFileMounts, agent-config-sync.ts).
THEOREM MountsTracked ==
  ASSUME SyncFaults \cap {"mid", "unsaved", "unhashed"} = {}
  PROVE  SyncSpec => []MountsKept
<1>1. SyncInit => SyncInv
  BY SyncInitially
<1>2. SyncInv /\ [SyncNext]_syncVars => SyncInv'
  BY SyncStep
<1>3. SyncInv => MountsKept
  BY SyncEnds
<1> QED BY <1>1, <1>2, <1>3, PTL DEF SyncSpec

(***************************************************************************)
(* config.json.                                                            *)
(***************************************************************************)

\* One writer at a time.
OneWriter == \A v, w \in Writers : Busy(v) /\ Busy(w) => v = w

\* The file is whole, is that of an earlier version, or is not there.
Readable ==
    /\ config.kind \in {"none", "legacy", "whole"}
    /\ config.kind # "whole" => config.projects = Nothing /\ ~config.auto

\* What a writer is about to put into the file keeps what is there.
Keeping(me) ==
    /\ me.data.kind = "whole"
    /\ config.kind # "none" => me.data.id = config.id
    /\ me.next = "done" =>
         /\ config.kind # "legacy" /\ me.data.projects = Changed(me.op, me.p, config.projects)
         /\ me.op # "auto" => me.data.auto = config.auto
    /\ me.next # "done" =>
         /\ me.next \in {"load", "merge"}
         /\ me.next = "merge" => me.op \notin Changes
         /\ config.kind = "legacy" /\ me.data = Migrated

Writing == {"create", "unlink", "recreate", "write", "rename"}
WriterOK(w) ==
    LET me == writer[w] IN
    /\ me.pc \notin {"cleanup", "failed"}
    /\ me.fd = IF me.pc \in {"write", "rename"} THEN "tmp" ELSE "none"
    /\ me.pc \in {"opening", "waiting"} => ~me.said
    /\ me.pc = "merge" /\ me.op \in Changes =>
         config.kind # "legacy" /\ me.given.projects = Changed(me.op, me.p, config.projects)
    /\ me.pc \in Writing => Keeping(me)
    /\ me.pc \in {"unlink", "write"} => temp.kind # "none"
    /\ me.pc = "recreate" => temp.kind = "none"
    /\ me.pc = "rename" => temp = me.data

StoreInv == StoreTypeOK /\ OneWriter /\ Readable /\ \A w \in Writers : WriterOK(w)

-----------------------------------------------------------------------------
\* Values.

Registrations == [Project -> {"none", "plain", "dir"}]

LEMMA ConfigForm ==
  /\ NoConfig \in ConfigFile /\ NoConfig.kind = "none" /\ NoConfig.projects = Nothing /\ NoConfig.auto = FALSE
  /\ Empty \in ConfigFile /\ Empty.kind = "empty"
  /\ Nothing \in Registrations
  /\ \A i \in {0} \cup Writers, r \in Registrations, a \in BOOLEAN :
       /\ Whole(i, r, a) \in ConfigFile /\ Whole(i, r, a).kind = "whole"
       /\ Whole(i, r, a).id = i /\ Whole(i, r, a).projects = r /\ Whole(i, r, a).auto = a
<1>1. Nothing \in Registrations
  BY DEF Nothing, Registrations
<1>2. NoConfig \in ConfigFile /\ NoConfig.kind = "none" /\ NoConfig.projects = Nothing /\ NoConfig.auto = FALSE
  BY <1>1 DEF NoConfig, ConfigFile, Registrations
<1>3. Empty \in ConfigFile /\ Empty.kind = "empty"
  BY <1>2 DEF Empty, ConfigFile
<1>4. \A i \in {0} \cup Writers, r \in Registrations, a \in BOOLEAN :
       /\ Whole(i, r, a) \in ConfigFile /\ Whole(i, r, a).kind = "whole"
       /\ Whole(i, r, a).id = i /\ Whole(i, r, a).projects = r /\ Whole(i, r, a).auto = a
  BY DEF Whole, ConfigFile, Registrations
<1> QED BY <1>1, <1>2, <1>3, <1>4

LEMMA ConfigFields ==
  ASSUME NEW c \in ConfigFile
  PROVE  /\ c.kind \in {"none", "empty", "legacy", "whole"} /\ c.id \in {0} \cup Writers
         /\ c.projects \in Registrations /\ c.auto \in BOOLEAN
         /\ \A r \in Registrations, a \in BOOLEAN :
              [c EXCEPT !.projects = r, !.auto = a] \in ConfigFile /\ [c EXCEPT !.projects = r, !.auto = a].projects = r
BY DEF ConfigFile, Registrations

\* What the commands make of the list.
LEMMA ChangedForm ==
  ASSUME NEW op \in Ops \cup {"none"}, NEW p \in Project, NEW r \in Registrations
  PROVE  /\ Changed(op, p, r) \in Registrations
         /\ op \notin Changes => Changed(op, p, r) = r
         /\ \A q \in Project \ {p} : Changed(op, p, r)[q] = r[q]
         /\ op = "add" => Changed(op, p, r)[p] = "plain"
         /\ op # "remove" /\ r[p] # "none" => Changed(op, p, r)[p] # "none"
         /\ op # "add" /\ r[p] = "dir" => Changed(op, p, r)[p] # "plain"
<1>1. CASE op = "add"
  BY <1>1 DEF Changed, Changes, Registrations
<1>2. CASE op = "remove"
  BY <1>2 DEF Changed, Changes, Registrations
<1>3. CASE op = "dir"
  BY <1>3 DEF Changed, Changes, Registrations
<1>4. CASE op \notin Changes
  BY <1>4 DEF Changed, Changes, Registrations
<1> QED BY <1>1, <1>2, <1>3, <1>4 DEF Changes

LEMMA LoadedForm ==
  ASSUME config \in ConfigFile, Readable
  PROVE  /\ Loaded \in ConfigFile /\ Migrated \in ConfigFile /\ Migrated.kind = "whole" /\ Migrated.id = config.id
         /\ Migrated.projects = [Nothing EXCEPT ![Default] = "plain"] /\ ~Migrated.auto
         /\ config.kind # "legacy" => /\ Loaded.kind = config.kind /\ Loaded.projects = config.projects
                                      /\ Loaded.auto = config.auto
                                      /\ config.kind # "none" => Loaded.id = config.id
<1>1. config.id \in {0} \cup Writers /\ config.kind \in {"none", "legacy", "whole"} /\ config.auto \in BOOLEAN
  BY ConfigFields DEF Readable
<1>2. [Nothing EXCEPT ![Default] = "plain"] \in Registrations
  BY ConfigForm DEF Registrations
<1>3. Migrated \in ConfigFile /\ Migrated.kind = "whole" /\ Migrated.id = config.id
      /\ Migrated.projects = [Nothing EXCEPT ![Default] = "plain"] /\ ~Migrated.auto
  BY <1>1, <1>2, ConfigForm DEF Migrated
<1>4. CASE config.kind = "whole"
  BY <1>3, <1>4 DEF Loaded
<1>5. CASE config.kind # "whole"
  <2>1. Loaded = NoConfig
    BY <1>5 DEF Loaded
  <2>2. config.projects = Nothing /\ config.auto = FALSE
    BY <1>1, <1>5 DEF Readable
  <2> QED BY <1>1, <1>3, <1>5, <2>1, <2>2, ConfigForm
<1> QED BY <1>4, <1>5

\* What a writer may become.
LEMMA WriterForm ==
  ASSUME NEW me \in WriterState
  PROVE  /\ me.op \in Ops \cup {"none"} /\ me.p \in Project /\ me.given \in ConfigFile /\ me.data \in ConfigFile
         /\ me.next \in {"none", "load", "merge", "done"} /\ me.said \in BOOLEAN
BY DEF WriterState

LEMMA OverForm ==
  ASSUME NEW me \in WriterState, NEW how \in Final
  PROVE  /\ Over(me, how) \in WriterState /\ Over(me, how).pc = how /\ Over(me, how).fd = "none"
         /\ Over(me, how).op = me.op /\ Over(me, how).p = me.p /\ Over(me, how).said = me.said
<1>1. Fresh \in WriterState /\ Fresh.fd = "none"
  BY ConfigForm, StoreAssumption DEF Fresh, WriterState
<1>2. Over(me, how) = [Fresh EXCEPT !.pc = how, !.op = me.op, !.p = me.p, !.said = me.said]
  BY DEF Over
<1> QED BY <1>1, <1>2, WriterForm DEF WriterState

-----------------------------------------------------------------------------
\* A step of one writer.

\* What every step keeps.
StoreSteps == \A v \in Writers : writer'[v] # writer[v] => NothingLost(v) /\ TellsTruth(v)

LEMMA WriterMoves ==
  ASSUME StoreInv, NEW w \in Writers, NEW t \in WriterState, writer' = [writer EXCEPT ![w] = t],
         \A v \in Writers \ {w} : ~Busy(v),
         config' \in ConfigFile, temp' \in ConfigFile, kills' \in 0 .. MaxKills, Readable', WriterOK(w)',
         NothingLost(w), TellsTruth(w)
  PROVE  StoreInv' /\ StoreSteps
<1>1. writer'[w] = t /\ (\A v \in Writers \ {w} : writer'[v] = writer[v]) /\ writer' \in [Writers -> WriterState]
  BY DEF StoreInv, StoreTypeOK
<1>2. StoreTypeOK'
  BY <1>1 DEF StoreTypeOK
<1>3. \A v \in Writers \ {w} : ~Busy(v)'
  BY <1>1 DEF Busy
<1>4. OneWriter'
  BY <1>3 DEF OneWriter
<1>5. ASSUME NEW v \in Writers PROVE WriterOK(v)'
  <2>1. CASE v = w
    BY <2>1
  <2>2. CASE v # w
    <3>1. writer[v].pc \in {"idle"} \cup Final /\ writer'[v] = writer[v]
      BY <1>1, <2>2 DEF Busy
    <3>2. WriterOK(v)
      BY DEF StoreInv
    <3> QED BY <3>1, <3>2 DEF WriterOK, Final, Writing
  <2> QED BY <2>1, <2>2
<1>6. StoreSteps
  BY <1>1 DEF StoreSteps
<1> QED BY <1>2, <1>4, <1>5, <1>6 DEF StoreInv

\* Most steps leave the file alone.
LEMMA FileStays ==
  ASSUME StoreInv, NEW w \in Writers, NEW t \in WriterState, writer' = [writer EXCEPT ![w] = t],
         \A v \in Writers \ {w} : ~Busy(v), UNCHANGED config, temp' \in ConfigFile, kills' \in 0 .. MaxKills,
         WriterOK(w)', t.pc # "done", t.pc = "timeout" => ~t.said
  PROVE  StoreInv' /\ StoreSteps
<1>1. config' \in ConfigFile /\ Readable'
  BY DEF StoreInv, StoreTypeOK, Readable
<1>2. writer'[w] = t
  BY DEF StoreInv, StoreTypeOK
<1>3. NothingLost(w)
  BY DEF StoreInv, Readable, NothingLost
<1>4. t.pc # "failed"
  BY <1>2 DEF WriterOK
<1>5. TellsTruth(w)
  BY <1>2, <1>4 DEF TellsTruth
<1> QED BY <1>1, <1>3, <1>5, WriterMoves

-----------------------------------------------------------------------------
\* The steps, one by one.

LEMMA StoreInitially == StoreInit => StoreInv
<1> SUFFICES ASSUME StoreInit PROVE StoreInv
  OBVIOUS
<1> USE DEF StoreInit
<1>1. Fresh \in WriterState /\ Fresh.pc = "idle" /\ Fresh.fd = "none"
  BY ConfigForm, StoreAssumption DEF Fresh, WriterState
<1>2. config \in ConfigFile /\ Readable
  <2>1. CASE config = NoConfig
    BY <2>1, ConfigForm DEF Readable
  <2>2. CASE config = [NoConfig EXCEPT !.kind = "legacy"]
    BY <2>2, ConfigForm DEF Readable, ConfigFile
  <2>3. CASE config = Whole(0, [Nothing EXCEPT ![Default] = "dir"], TRUE)
    <3>1. [Nothing EXCEPT ![Default] = "dir"] \in Registrations
      BY ConfigForm DEF Registrations
    <3>2. 0 \in {0} \cup Writers /\ TRUE \in BOOLEAN
      OBVIOUS
    <3>3. config \in ConfigFile /\ config.kind = "whole"
      BY <2>3, <3>1, <3>2, ConfigForm, Zenon
    <3> QED BY <3>3 DEF Readable
  <2> QED BY <2>1, <2>2, <2>3
<1>3. \A w \in Writers : writer[w] = Fresh
  OBVIOUS
<1>4. StoreTypeOK
  BY <1>1, <1>2, ConfigForm, StoreAssumption DEF StoreTypeOK
<1>5. OneWriter
  BY <1>1, <1>3 DEF OneWriter, Busy
<1>6. \A w \in Writers : WriterOK(w)
  BY <1>1, <1>3 DEF WriterOK, Writing
<1> QED BY <1>2, <1>4, <1>5, <1>6 DEF StoreInv

\* Whoever is at work is alone, and what is known of it.
LEMMA AtWork ==
  ASSUME StoreInv, NEW w \in Writers, Busy(w)
  PROVE  /\ writer[w] \in WriterState /\ WriterOK(w) /\ config \in ConfigFile /\ temp \in ConfigFile
         /\ kills \in 0 .. MaxKills /\ Readable
         /\ \A v \in Writers \ {w} : ~Busy(v) /\ writer[v].fd = "none"
<1>1. \A v \in Writers \ {w} : ~Busy(v)
  BY DEF StoreInv, OneWriter
<1>2. \A v \in Writers \ {w} : writer[v].fd = "none"
  BY <1>1 DEF StoreInv, WriterOK, Busy, Final
<1> QED BY <1>1, <1>2 DEF StoreInv, StoreTypeOK

LEMMA CommandStep ==
  ASSUME StoreInv, StoreFaults = {}, NEW w \in Writers, NEW op \in Ops, NEW p \in Project, NEW l \in BOOLEAN,
         Command(w, op, p, l)
  PROVE  StoreInv' /\ StoreSteps
<1> DEFINE t == [Fresh EXCEPT !.op = op, !.p = p, !.pc = IF l THEN "opening" ELSE IF op = "connect" THEN "merge" ELSE "load"]
<1>1. /\ t \in WriterState /\ t.fd = "none" /\ ~t.said /\ t.op = op
      /\ t.pc \in {"opening", "load", "merge"} /\ (t.pc = "merge" => op = "connect")
  BY ConfigForm DEF Fresh, WriterState
<1>2. writer' = [writer EXCEPT ![w] = t] /\ UNCHANGED <<config, temp, kills>> /\ \A v \in Writers : ~Busy(v)
  BY DEF Command
<1> HIDE DEF t
<1>3. writer'[w] = t
  BY <1>2 DEF StoreInv, StoreTypeOK
<1>4. WriterOK(w)'
  BY <1>1, <1>3 DEF WriterOK, Writing, Changes
<1> QED BY <1>1, <1>2, <1>4, FileStays DEF StoreInv, StoreTypeOK

LEMMA LoginSteps ==
  ASSUME StoreInv, StoreFaults = {}, NEW w \in Writers, performBrowserAuth(w) \/ Callback(w) \/ AuthTimeout(w)
  PROVE  StoreInv' /\ StoreSteps
<1>1. writer[w].pc \in {"opening", "waiting"}
  BY DEF performBrowserAuth, Callback, AuthTimeout
<1>2. /\ writer[w] \in WriterState /\ WriterOK(w) /\ temp \in ConfigFile /\ kills \in 0 .. MaxKills
      /\ \A v \in Writers \ {w} : ~Busy(v)
  BY <1>1, AtWork DEF Busy, Final
<1>3. writer[w].fd = "none" /\ ~writer[w].said
  BY <1>1, <1>2 DEF WriterOK
<1>4. PICK t \in WriterState : /\ writer' = [writer EXCEPT ![w] = t]
                               /\ t.pc \in {"waiting", "load", "timeout"} /\ t.fd = "none"
                               /\ t.pc # "load" => ~t.said
  <2>1. CASE performBrowserAuth(w)
    <3> DEFINE t == [writer[w] EXCEPT !.pc = "waiting"]
    <3>1. t \in WriterState /\ t.pc = "waiting" /\ t.fd = "none" /\ ~t.said
      BY <1>2, <1>3 DEF WriterState
    <3>2. writer' = [writer EXCEPT ![w] = t]
      BY <2>1 DEF performBrowserAuth, StoreInv, StoreTypeOK
    <3> QED BY <3>1, <3>2
  <2>2. CASE Callback(w)
    <3> DEFINE t == [writer[w] EXCEPT !.said = TRUE, !.pc = "load"]
    <3>1. t \in WriterState /\ t.pc = "load" /\ t.fd = "none"
      BY <1>2, <1>3 DEF WriterState
    <3>2. writer[w].pc = "waiting"
      BY <2>2 DEF Callback
    <3>3. writer' = [writer EXCEPT ![w] = t]
      BY <1>2, <2>2, <3>2 DEF Callback, StoreInv, StoreTypeOK, WriterState
    <3> QED BY <3>1, <3>3
  <2>3. CASE AuthTimeout(w)
    <3>1. writer' = [writer EXCEPT ![w] = Over(writer[w], "timeout")]
      BY <2>3 DEF AuthTimeout
    <3> DEFINE t == Over(writer[w], "timeout")
    <3>2. t \in WriterState /\ t.pc = "timeout" /\ t.fd = "none" /\ ~t.said
      <4>1. "timeout" \in Final
        BY DEF Final
      <4> QED BY <1>2, <1>3, <4>1, OverForm
    <3> HIDE DEF t
    <3> QED BY <3>1, <3>2 DEF t
  <2> QED BY <2>1, <2>2, <2>3
<1>5. UNCHANGED <<config, temp, kills>>
  BY DEF performBrowserAuth, Callback, AuthTimeout
<1>6. writer'[w] = t
  BY <1>4 DEF StoreInv, StoreTypeOK
<1>7. WriterOK(w)'
  BY <1>4, <1>6 DEF WriterOK, Writing
<1> QED BY <1>2, <1>4, <1>5, <1>7, FileStays

LEMMA MigrateStep ==
  ASSUME StoreInv, NEW w \in Writers, migrateConfigIfNeeded(w)
  PROVE  StoreInv' /\ StoreSteps
<1>1. writer[w].pc \in {"load", "merge"} /\ config.kind = "legacy" /\ UNCHANGED <<config, temp, kills>>
  BY DEF migrateConfigIfNeeded
<1>2. /\ writer[w] \in WriterState /\ WriterOK(w) /\ temp \in ConfigFile /\ kills \in 0 .. MaxKills /\ config \in ConfigFile
      /\ Readable /\ \A v \in Writers \ {w} : ~Busy(v)
  BY <1>1, AtWork DEF Busy, Final
<1> DEFINE t == [writer[w] EXCEPT !.pc = "create", !.next = writer[w].pc, !.data = Migrated]
<1>3. Migrated \in ConfigFile /\ Migrated.kind = "whole" /\ Migrated.id = config.id
  BY <1>2, LoadedForm
<1>4. /\ t \in WriterState /\ t.pc = "create" /\ t.next = writer[w].pc /\ t.data = Migrated
      /\ t.op = writer[w].op /\ t.fd = writer[w].fd
  BY <1>1, <1>2, <1>3 DEF WriterState
<1>5. writer' = [writer EXCEPT ![w] = t]
  BY DEF migrateConfigIfNeeded, StoreInv, StoreTypeOK
<1> HIDE DEF t
<1>6. writer'[w] = t
  BY <1>5 DEF StoreInv, StoreTypeOK
<1>7. Migrated' = Migrated
  BY <1>1 DEF Migrated
<1>8. Keeping(writer[w])'
  BY <1>1, <1>2, <1>3, <1>4, <1>6, <1>7 DEF Keeping, WriterOK
<1>9. WriterOK(w)'
  BY <1>1, <1>2, <1>4, <1>6, <1>8 DEF WriterOK
<1> QED BY <1>1, <1>2, <1>4, <1>5, <1>9, FileStays

LEMMA FoundForm ==
  ASSUME NEW me \in WriterState, NEW c \in ConfigFile, me.fd = "none"
  PROVE  /\ Found(me, c) \in WriterState /\ Found(me, c).fd = "none" /\ Found(me, c).pc \in {"absent", "merge"}
         /\ Found(me, c).pc = "merge" => /\ Found(me, c).op = me.op /\ Found(me, c).p = me.p
                                         /\ Found(me, c).given.projects = Changed(me.op, me.p, c.projects)
<1> DEFINE r == Changed(me.op, me.p, c.projects)
           G(x) == [c EXCEPT !.projects = r, !.auto = x]
<1>1. PICK a \in BOOLEAN : \/ Found(me, c) = Over(me, "absent")
                           \/ Found(me, c) = [me EXCEPT !.pc = "merge", !.next = "none", !.given = G(a)]
  <2>1. c.auto \in BOOLEAN /\ (~c.auto) \in BOOLEAN
    BY ConfigFields
  <2>2. CASE me.op = "auto"
    <3>1. \/ Found(me, c) = Over(me, "absent")
          \/ Found(me, c) = [me EXCEPT !.pc = "merge", !.next = "none", !.given = G(~c.auto)]
      BY <2>2 DEF Found, ConfigFile
    <3> HIDE DEF G
    <3> QED BY <2>1, <3>1, Zenon
  <2>3. CASE me.op # "auto"
    <3>1. \/ Found(me, c) = Over(me, "absent")
          \/ Found(me, c) = [me EXCEPT !.pc = "merge", !.next = "none", !.given = G(c.auto)]
      BY <2>3 DEF Found, ConfigFile
    <3> HIDE DEF G
    <3> QED BY <2>1, <3>1, Zenon
  <2> QED BY <2>2, <2>3
<1>2. Over(me, "absent") \in WriterState /\ Over(me, "absent").fd = "none" /\ Over(me, "absent").pc = "absent"
  <2>1. "absent" \in Final
    BY DEF Final
  <2> QED BY <2>1, OverForm
<1>3. r \in Registrations
  BY ConfigFields, WriterForm, ChangedForm
<1> HIDE DEF r
<1> DEFINE g == G(a)
<1>5. g \in ConfigFile /\ g.projects = r
  BY <1>3, ConfigFields
<1> HIDE DEF g
<1> DEFINE t == [me EXCEPT !.pc = "merge", !.next = "none", !.given = g]
<1>6. t \in WriterState /\ t.fd = "none" /\ t.pc = "merge" /\ t.op = me.op /\ t.p = me.p /\ t.given = g
  BY <1>5 DEF WriterState
<1>7. Found(me, c) = Over(me, "absent") \/ Found(me, c) = t
  BY <1>1 DEF g
<1> HIDE DEF t
<1> QED BY <1>2, <1>5, <1>6, <1>7 DEF r

LEMMA LoadStep ==
  ASSUME StoreInv, NEW w \in Writers, LoadFor(w)
  PROVE  StoreInv' /\ StoreSteps
<1>1. writer[w].pc = "load" /\ config.kind # "legacy" /\ UNCHANGED <<config, temp, kills>>
      /\ writer' = [writer EXCEPT ![w] = Found(writer[w], Loaded)]
  BY DEF LoadFor
<1>2. /\ writer[w] \in WriterState /\ WriterOK(w) /\ temp \in ConfigFile /\ kills \in 0 .. MaxKills /\ config \in ConfigFile
      /\ Readable /\ \A v \in Writers \ {w} : ~Busy(v)
  BY <1>1, AtWork DEF Busy, Final
<1>3. writer[w].fd = "none"
  BY <1>1, <1>2 DEF WriterOK
<1> DEFINE t == Found(writer[w], Loaded)
<1>4. /\ t \in WriterState /\ t.fd = "none" /\ t.pc \in {"absent", "merge"}
      /\ t.pc = "merge" => t.op = writer[w].op /\ t.p = writer[w].p
                           /\ t.given.projects = Changed(writer[w].op, writer[w].p, config.projects)
  <2>1. Loaded \in ConfigFile /\ Loaded.projects = config.projects
    BY <1>1, <1>2, LoadedForm
  <2> QED BY <1>2, <1>3, <2>1, FoundForm
<1> HIDE DEF t
<1>5. writer' = [writer EXCEPT ![w] = t] /\ writer'[w] = t
  BY <1>1 DEF t, StoreInv, StoreTypeOK
<1>6. WriterOK(w)'
  BY <1>1, <1>4, <1>5 DEF WriterOK, Writing
<1> QED BY <1>1, <1>2, <1>4, <1>5, <1>6, FileStays

LEMMA MergeStep ==
  ASSUME StoreInv, NEW w \in Writers, saveConfig(w)
  PROVE  StoreInv' /\ StoreSteps
<1>1. writer[w].pc = "merge" /\ config.kind # "legacy" /\ UNCHANGED <<config, temp, kills>>
      /\ writer' = [writer EXCEPT ![w] = Merged(w, writer[w], Loaded)]
  BY DEF saveConfig
<1>2. /\ writer[w] \in WriterState /\ WriterOK(w) /\ temp \in ConfigFile /\ kills \in 0 .. MaxKills /\ config \in ConfigFile
      /\ Readable /\ \A v \in Writers \ {w} : ~Busy(v)
  BY <1>1, AtWork DEF Busy, Final
<1>3. /\ Loaded \in ConfigFile /\ Loaded.kind = config.kind /\ Loaded.projects = config.projects /\ Loaded.auto = config.auto
      /\ config.kind # "none" => Loaded.id = config.id
  BY <1>1, <1>2, LoadedForm
<1> DEFINE i == IF Loaded.kind = "none" THEN w ELSE Loaded.id
           r == IF writer[w].op \in Changes THEN writer[w].given.projects ELSE Loaded.projects
           a == IF writer[w].op = "auto" THEN writer[w].given.auto ELSE Loaded.auto
           t == [writer[w] EXCEPT !.pc = "create", !.next = "done", !.fd = "none", !.data = Whole(i, r, a)]
<1>4. t = Merged(w, writer[w], Loaded)
  BY DEF Merged
<1>5. i \in {0} \cup Writers /\ (config.kind # "none" => i = config.id)
  BY <1>3, ConfigFields
<1>6. r \in Registrations /\ r = Changed(writer[w].op, writer[w].p, config.projects)
  <2>1. writer[w].op \in Ops \cup {"none"} /\ writer[w].p \in Project /\ writer[w].given \in ConfigFile
        /\ config.projects \in Registrations
    BY <1>2, WriterForm, ConfigFields
  <2>2. CASE writer[w].op \in Changes
    <3>1. writer[w].given.projects = Changed(writer[w].op, writer[w].p, config.projects)
      BY <1>1, <1>2, <2>2 DEF WriterOK
    <3> QED BY <2>1, <2>2, <3>1, ConfigFields
  <2>3. CASE writer[w].op \notin Changes
    BY <1>3, <2>1, <2>3, ChangedForm
  <2> QED BY <2>2, <2>3
<1>7. a \in BOOLEAN /\ (writer[w].op # "auto" => a = config.auto)
  BY <1>2, <1>3, WriterForm, ConfigFields
<1> DEFINE d == Whole(i, r, a)
<1> HIDE DEF i, r, a
<1>8. d \in ConfigFile /\ d.kind = "whole" /\ d.id = i /\ d.projects = r /\ d.auto = a
  BY <1>5, <1>6, <1>7, ConfigForm
<1> HIDE DEF d
<1>9. /\ t \in WriterState /\ t.fd = "none" /\ t.pc = "create" /\ t.next = "done" /\ t.data = d
      /\ t.op = writer[w].op /\ t.p = writer[w].p
  <2>1. t = [writer[w] EXCEPT !.pc = "create", !.next = "done", !.fd = "none", !.data = d]
    BY DEF d
  <2> HIDE DEF t
  <2> QED BY <1>2, <1>8, <2>1 DEF WriterState
<1>10. writer' = [writer EXCEPT ![w] = t]
  BY <1>1, <1>4
<1> HIDE DEF t
<1>11. writer'[w] = t
  BY <1>10 DEF StoreInv, StoreTypeOK
<1>12. Keeping(writer[w])'
  BY <1>1, <1>5, <1>6, <1>7, <1>8, <1>9, <1>11 DEF Keeping
<1>13. WriterOK(w)'
  BY <1>9, <1>11, <1>12 DEF WriterOK
<1> QED BY <1>1, <1>2, <1>9, <1>10, <1>13, FileStays

\* The temporary file is made, or made anew.
LEMMA NobodyRefers ==
  ASSUME writer \in [Writers -> WriterState], NEW from, NEW to, \A v \in Writers : writer[v].fd # from
  PROVE  Refer(writer, from, to) = writer
BY DEF Refer

LEMMA CreateSteps ==
  ASSUME StoreInv, NEW w \in Writers, Create(w) \/ Unlink(w) \/ Recreate(w)
  PROVE  StoreInv' /\ StoreSteps
<1>1. writer[w].pc \in {"create", "unlink", "recreate"} /\ UNCHANGED <<config, kills>>
  BY DEF Create, Unlink, Recreate
<1>2. /\ writer[w] \in WriterState /\ WriterOK(w) /\ temp \in ConfigFile /\ kills \in 0 .. MaxKills /\ config \in ConfigFile
      /\ Readable /\ \A v \in Writers \ {w} : ~Busy(v) /\ writer[v].fd = "none"
  BY <1>1, AtWork DEF Busy, Final
<1>3. writer \in [Writers -> WriterState] /\ \A v \in Writers : writer[v].fd # "tmp"
  <2>1. writer[w].fd = "none"
    BY <1>1, <1>2 DEF WriterOK
  <2> QED BY <1>2, <2>1 DEF StoreInv, StoreTypeOK
<1>4. PICK t \in WriterState : /\ writer' = [writer EXCEPT ![w] = t]
                               /\ t.data = writer[w].data /\ t.op = writer[w].op /\ t.p = writer[w].p /\ t.next = writer[w].next
                               /\ \/ t.pc = "write" /\ t.fd = "tmp" /\ temp' = Empty
                                  \/ t.pc = "unlink" /\ t.fd = "none" /\ temp' = temp /\ temp.kind # "none"
                                  \/ t.pc = "recreate" /\ t.fd = "none" /\ temp' = NoConfig
  <2>1. CASE temp' = Empty /\ writer' = [writer EXCEPT ![w].pc = "write", ![w].fd = "tmp"]
    <3> DEFINE t == [writer[w] EXCEPT !.pc = "write", !.fd = "tmp"]
    <3>1. /\ t \in WriterState /\ t.pc = "write" /\ t.fd = "tmp"
          /\ t.data = writer[w].data /\ t.op = writer[w].op /\ t.p = writer[w].p /\ t.next = writer[w].next
      BY <1>2 DEF WriterState
    <3>2. writer' = [writer EXCEPT ![w] = t]
      BY <1>2, <1>3, <2>1 DEF WriterState
    <3> HIDE DEF t
    <3> QED BY <2>1, <3>1, <3>2
  <2>2. CASE Create(w) /\ writer' = [writer EXCEPT ![w].pc = "unlink"] /\ UNCHANGED temp /\ temp.kind # "none"
    <3> DEFINE t == [writer[w] EXCEPT !.pc = "unlink"]
    <3>1. /\ t \in WriterState /\ t.pc = "unlink" /\ t.fd = "none"
          /\ t.data = writer[w].data /\ t.op = writer[w].op /\ t.p = writer[w].p /\ t.next = writer[w].next
      <4>1. writer[w].fd = "none"
        BY <1>2, <2>2 DEF WriterOK, Create
      <4> QED BY <1>2, <4>1 DEF WriterState
    <3>2. writer' = [writer EXCEPT ![w] = t]
      BY <1>2, <1>3, <2>2 DEF WriterState
    <3> HIDE DEF t
    <3> QED BY <2>2, <3>1, <3>2
  <2>3. CASE Unlink(w)
    <3>1. temp.kind # "none" /\ writer[w].fd = "none"
      BY <1>2, <2>3 DEF WriterOK, Unlink
    <3>2. Refer(writer, "tmp", "gone") = writer
      BY <1>3, NobodyRefers
    <3> DEFINE t == [writer[w] EXCEPT !.pc = "recreate"]
    <3>3. /\ t \in WriterState /\ t.pc = "recreate" /\ t.fd = "none"
          /\ t.data = writer[w].data /\ t.op = writer[w].op /\ t.p = writer[w].p /\ t.next = writer[w].next
      BY <1>2, <3>1 DEF WriterState
    <3>4. temp' = NoConfig /\ writer' = [writer EXCEPT ![w].pc = "recreate"]
      BY <2>3, <3>1, <3>2 DEF Unlink
    <3>5. writer' = [writer EXCEPT ![w] = t]
      BY <1>2, <1>3, <3>4 DEF WriterState
    <3> HIDE DEF t
    <3> QED BY <3>3, <3>4, <3>5
  <2>4. CASE Recreate(w)
    <3>1. temp.kind = "none"
      BY <1>2, <2>4 DEF WriterOK, Recreate
    <3> QED BY <2>1, <2>4, <3>1 DEF Recreate, Opens
  <2>5. CASE Create(w)
    BY <2>1, <2>2, <2>5 DEF Create, Opens
  <2> QED BY <2>3, <2>4, <2>5
<1>5. writer'[w] = t
  BY <1>3, <1>4
<1>6. Keeping(writer[w])
  BY <1>1, <1>2 DEF WriterOK, Writing
<1>7. Keeping(writer[w])'
  BY <1>1, <1>4, <1>5, <1>6 DEF Keeping, Migrated
<1>8. Empty.kind # "none" /\ Empty \in ConfigFile /\ NoConfig \in ConfigFile /\ NoConfig.kind = "none"
  BY ConfigForm
<1>9. WriterOK(w)'
  BY <1>4, <1>5, <1>7, <1>8 DEF WriterOK
<1>10. temp' \in ConfigFile /\ t.pc # "done" /\ t.pc # "timeout"
  BY <1>2, <1>4, <1>8
<1> QED BY <1>1, <1>2, <1>4, <1>9, <1>10, FileStays

LEMMA WriteStep ==
  ASSUME StoreInv, NEW w \in Writers, Write(w)
  PROVE  StoreInv' /\ StoreSteps
<1>1. writer[w].pc = "write" /\ UNCHANGED kills
  BY DEF Write
<1>2. /\ writer[w] \in WriterState /\ WriterOK(w) /\ temp \in ConfigFile /\ kills \in 0 .. MaxKills
      /\ \A v \in Writers \ {w} : ~Busy(v)
  BY <1>1, AtWork DEF Busy, Final
<1>3. writer[w].fd = "tmp" /\ Keeping(writer[w])
  BY <1>1, <1>2 DEF WriterOK, Writing
<1>4. temp' = writer[w].data /\ config' = config
  BY <1>3 DEF Write
<1> DEFINE t == [writer[w] EXCEPT !.pc = "rename"]
<1>5. /\ t \in WriterState /\ t.pc = "rename" /\ t.fd = "tmp"
      /\ t.data = writer[w].data /\ t.op = writer[w].op /\ t.p = writer[w].p /\ t.next = writer[w].next
  BY <1>2, <1>3 DEF WriterState
<1>6. writer' = [writer EXCEPT ![w] = t]
  BY DEF Write, StoreInv, StoreTypeOK
<1> HIDE DEF t
<1>7. writer'[w] = t
  BY <1>6 DEF StoreInv, StoreTypeOK
<1>8. Keeping(writer[w])'
  BY <1>3, <1>4, <1>5, <1>7 DEF Keeping, Migrated
<1>9. WriterOK(w)'
  BY <1>4, <1>5, <1>7, <1>8 DEF WriterOK
<1>10. temp' \in ConfigFile
  BY <1>2, <1>4, WriterForm
<1> QED BY <1>1, <1>2, <1>4, <1>5, <1>6, <1>9, <1>10, FileStays

\* The file is replaced by what the writer has made of it.
LEMMA RenameStep ==
  ASSUME StoreInv, NEW w \in Writers, Rename(w)
  PROVE  StoreInv' /\ StoreSteps
<1>1. writer[w].pc \in {"rename", "cleanup"} /\ UNCHANGED kills
  BY DEF Rename
<1>2. /\ writer[w] \in WriterState /\ WriterOK(w) /\ temp \in ConfigFile /\ kills \in 0 .. MaxKills /\ config \in ConfigFile
      /\ Readable /\ \A v \in Writers \ {w} : ~Busy(v) /\ writer[v].fd = "none"
  BY <1>1, AtWork DEF Busy, Final
<1>3. /\ writer[w].pc = "rename" /\ writer[w].fd = "tmp" /\ Keeping(writer[w]) /\ temp = writer[w].data
      /\ temp.kind = "whole"
  BY <1>1, <1>2 DEF WriterOK, Writing, Keeping
<1>4. writer \in [Writers -> WriterState]
  BY DEF StoreInv, StoreTypeOK
<1> DEFINE me == [writer[w] EXCEPT !.fd = "config"]
<1>5. /\ config' = temp /\ temp' = NoConfig
      /\ writer' = [Refer(Refer(writer, "config", "gone"), "tmp", "config") EXCEPT ![w] = AfterRename(@)]
  BY <1>3 DEF Rename
<1>6. Refer(writer, "config", "gone") = writer
  BY <1>2, <1>3, <1>4, NobodyRefers
<1>7. Refer(writer, "tmp", "config") = [writer EXCEPT ![w] = me]
  BY <1>2, <1>3, <1>4 DEF Refer
<1>8. writer' = [writer EXCEPT ![w] = AfterRename(me)]
  BY <1>4, <1>5, <1>6, <1>7
<1>9. me \in WriterState /\ me.op = writer[w].op /\ me.p = writer[w].p /\ me.next = writer[w].next /\ me.said = writer[w].said
  BY <1>2 DEF WriterState
<1> DEFINE t == AfterRename(me)
<1> HIDE DEF me
<1>10. /\ t \in WriterState /\ t.fd = "none" /\ t.op = writer[w].op /\ t.p = writer[w].p
       /\ t.pc = writer[w].next /\ t.pc \in {"done", "load", "merge"}
  <2>1. CASE me.next = "done"
    <3>1. t = Over(me, "done")
      BY <2>1 DEF AfterRename
    <3>2. "done" \in Final
      BY DEF Final
    <3> HIDE DEF t
    <3> QED BY <1>9, <2>1, <3>1, <3>2, OverForm
  <2>2. CASE me.next # "done"
    <3>1. t = [me EXCEPT !.pc = me.next, !.next = "none", !.data = NoConfig, !.fd = "none"]
      BY <2>2 DEF AfterRename
    <3>2. me.next \in {"load", "merge"}
      BY <1>3, <1>9, <2>2 DEF Keeping
    <3> HIDE DEF t
    <3> QED BY <1>9, <3>1, <3>2, ConfigForm DEF WriterState
  <2> QED BY <2>1, <2>2
<1>11. writer' = [writer EXCEPT ![w] = t]
  BY <1>8
<1> HIDE DEF t
<1>12. writer'[w] = t
  BY <1>4, <1>11
<1>13. Readable' /\ config' \in ConfigFile /\ temp' \in ConfigFile
  BY <1>2, <1>3, <1>5, ConfigForm DEF Readable
<1>14. WriterOK(w)'
  <2>1. t.pc = "merge" => t.op \notin Changes
    BY <1>3, <1>10 DEF Keeping
  <2> QED BY <1>10, <1>12, <2>1 DEF WriterOK, Writing
<1>15. /\ writer[w].op \in Ops \cup {"none"} /\ writer[w].p \in Project /\ config.projects \in Registrations
       /\ temp.projects \in Registrations /\ config.auto \in BOOLEAN
  BY <1>2, WriterForm, ConfigFields
<1>16. ASSUME writer[w].next = "done" PROVE NothingLost(w) /\ TellsTruth(w)
  <2> DEFINE r == Changed(writer[w].op, writer[w].p, config.projects)
  <2>1. /\ config.kind # "legacy" /\ config'.projects = r /\ config'.kind = "whole"
        /\ config.kind # "none" => config'.id = config.id
        /\ writer[w].op # "auto" => config'.auto = config.auto
    BY <1>3, <1>5, <1>16 DEF Keeping
  <2>2. /\ \A q \in Project \ {writer[w].p} : r[q] = config.projects[q]
        /\ writer[w].op = "add" => r[writer[w].p] = "plain"
        /\ writer[w].op # "remove" /\ config.projects[writer[w].p] # "none" => r[writer[w].p] # "none"
        /\ writer[w].op # "add" /\ config.projects[writer[w].p] = "dir" => r[writer[w].p] # "plain"
    BY <1>15, ChangedForm
  <2> HIDE DEF r
  <2>3. NothingLost(w)
    BY <2>1, <2>2 DEF NothingLost, Registered
  <2>4. TellsTruth(w)
    BY <1>10, <1>12, <2>1, <2>2 DEF TellsTruth, Registered
  <2> QED BY <2>3, <2>4
<1>17. ASSUME writer[w].next # "done" PROVE NothingLost(w) /\ TellsTruth(w)
  <2>1. config.kind = "legacy" /\ config' = Migrated /\ config.projects = Nothing /\ ~config.auto
    BY <1>2, <1>3, <1>5, <1>17 DEF Keeping, Readable
  <2>2. /\ config'.id = config.id /\ config'.kind = "whole" /\ ~config'.auto
        /\ config'.projects = [Nothing EXCEPT ![Default] = "plain"] /\ config'.auto \in BOOLEAN
    BY <1>2, <1>13, <2>1, LoadedForm, ConfigFields
  <2>3. NothingLost(w)
    <3>1. \A p \in Project : config.projects[p] = "none"
      BY <2>1 DEF Nothing
    <3>2. config'.projects[Default] = "plain"
      BY <2>2, StoreAssumption DEF Nothing
    <3> QED BY <1>15, <2>1, <2>2, <3>1, <3>2 DEF NothingLost, Registered
  <2>4. TellsTruth(w)
    BY <1>10, <1>12, <1>17 DEF TellsTruth
  <2> QED BY <2>3, <2>4
<1>18. NothingLost(w) /\ TellsTruth(w)
  BY <1>16, <1>17
<1> QED BY <1>1, <1>2, <1>10, <1>11, <1>13, <1>14, <1>18, WriterMoves

LEMMA DeathStep ==
  ASSUME StoreInv, NEW w \in Writers, WriterDies(w)
  PROVE  StoreInv' /\ StoreSteps
<1>1. Busy(w) /\ UNCHANGED <<config, temp>> /\ kills < MaxKills /\ kills' = kills + 1
      /\ writer' = [writer EXCEPT ![w] = Over(writer[w], "killed")]
  BY DEF WriterDies
<1>2. /\ writer[w] \in WriterState /\ temp \in ConfigFile /\ kills \in 0 .. MaxKills
      /\ \A v \in Writers \ {w} : ~Busy(v)
  BY <1>1, AtWork
<1>3. kills' \in 0 .. MaxKills
  BY <1>1, <1>2, StoreAssumption
<1> DEFINE t == Over(writer[w], "killed")
<1>4. t \in WriterState /\ t.fd = "none" /\ t.pc = "killed"
  <2>1. "killed" \in Final
    BY DEF Final
  <2> QED BY <1>2, <2>1, OverForm
<1>5. writer' = [writer EXCEPT ![w] = t]
  BY <1>1
<1> HIDE DEF t
<1>6. writer'[w] = t
  BY <1>5 DEF StoreInv, StoreTypeOK
<1>7. WriterOK(w)'
  BY <1>4, <1>6 DEF WriterOK, Writing
<1> QED BY <1>1, <1>2, <1>3, <1>4, <1>5, <1>7, FileStays

LEMMA StoreStep == ASSUME StoreInv, StoreFaults = {}, [StoreNext]_storeVars PROVE StoreInv' /\ StoreSteps
<1>1. CASE UNCHANGED storeVars
  BY <1>1 DEF storeVars, StoreInv, StoreTypeOK, OneWriter, Busy, Readable, WriterOK, Keeping, Migrated, StoreSteps
<1>2. ASSUME NEW w \in Writers, NEW op \in Ops, NEW p \in Project, NEW l \in BOOLEAN, Command(w, op, p, l)
      PROVE  StoreInv' /\ StoreSteps
  BY <1>2, CommandStep
<1>3. ASSUME NEW w \in Writers, WriterStep(w) PROVE StoreInv' /\ StoreSteps
  BY <1>3, LoginSteps, MigrateStep, LoadStep, MergeStep, CreateSteps, WriteStep, RenameStep, DeathStep DEF WriterStep
<1> QED BY <1>1, <1>2, <1>3 DEF StoreNext

\* Of writers one after another, any of which may be killed at any system call
\* and leave what it has written of the temporary file: no registration, id or
\* setting of config.json goes but by its own command, the file is whole at
\* every moment, and a command tells what it did (saveConfig, atomicWriteFile,
\* waitForCallback).
THEOREM StoreSafe == ASSUME StoreFaults = {} PROVE StoreSpec => StoreKept
<1>1. StoreInit => StoreInv
  BY StoreInitially
<1>2. StoreInv /\ [StoreNext]_storeVars => StoreInv' /\ StoreSteps
  BY StoreStep
<1>3. StoreInv => StoreTypeOK
  BY DEF StoreInv
<1>4. StoreSteps => [\A w \in Writers : writer'[w] # writer[w] => NothingLost(w) /\ TellsTruth(w)]_storeVars
  BY DEF StoreSteps
<1> QED BY <1>1, <1>2, <1>3, <1>4, PTL DEF StoreSpec, StoreKept

(***************************************************************************)
(* The clone of a repository.                                              *)
(***************************************************************************)

\* What a stage of a sync knows of the clone.
SyncOK(s) ==
  LET b == job[s].branch
      pc == job[s].pc
  IN /\ ~NotSyncing(s) => job[s].since <= pushed[b]
     /\ pc \in {"trust", "key"} /\ job[s].how = "fetch" => dir = "new"
     /\ pc \in {"first", "fetch", "checkout", "reset"} => dir = "new"
     /\ pc \in {"first", "checkout", "reset"} => job[s].since <= origin[b]
     /\ pc = "first" /\ b \in DOMAIN locals => job[s].since <= locals[b]
     /\ pc = "reset" => head = b

\* The clone knows nothing the server has not got; a directory that is not
\* there, or has the old name, has no local branch yet.
CloneOK ==
  /\ \A b \in Branches : origin[b] <= pushed[b]
  /\ dir # "new" => DOMAIN locals = {}

OneBranch == \A s, t \in RepoSyncs : ~NotSyncing(s) /\ ~NotSyncing(t) => job[s].branch = job[t].branch

RepoInv == RepoTypeOK /\ CloneOK /\ OneBranch /\ \A s \in RepoSyncs : SyncOK(s)

LEMMA PutBranchForm ==
  ASSUME NEW f, DOMAIN f \subseteq Branches, f \in [DOMAIN f -> Nat], NEW b \in Branches, NEW v \in Nat
  PROVE  /\ DOMAIN PutBranch(f, b, v) = DOMAIN f \cup {b}
         /\ PutBranch(f, b, v) \in [DOMAIN f \cup {b} -> Nat]
         /\ PutBranch(f, b, v)[b] = v
BY DEF PutBranch

LEMMA NoJobForm ==
  ASSUME NEW h \in Branches, NEW pc \in {"idle", "done"}
  PROVE  [NoJob EXCEPT !.pc = pc] \in Job /\ [NoJob EXCEPT !.pc = pc].pc = pc
<1>1. (CHOOSE b \in Branches : TRUE) \in Branches
  OBVIOUS
<1> QED BY <1>1 DEF NoJob, Job

\* One sync takes a step; the clone only grows, and no other sync loses what it knows.
LEMMA OneSync ==
  ASSUME RepoInv, RepoTypeOK', CloneOK', NEW s \in RepoSyncs, NEW j \in Job, job' = [job EXCEPT ![s] = j],
         \A b \in Branches : origin[b] <= origin'[b], pushed' = pushed, dir = "new" => dir' = "new",
         j.pc \in {"idle", "done"} \/ \A t \in RepoSyncs \ {s} : NotSyncing(t) \/ job[t].branch = j.branch,
         \A t \in RepoSyncs \ {s} : job[t].pc = "first" /\ job[t].branch \in DOMAIN locals' =>
                                      job[t].since <= locals'[job[t].branch],
         \A t \in RepoSyncs \ {s} : job[t].pc = "reset" => head' = job[t].branch,
         SyncOK(s)'
  PROVE  RepoInv'
<1>1. job \in [RepoSyncs -> Job] /\ job'[s] = j /\ \A t \in RepoSyncs \ {s} : job'[t] = job[t]
  BY DEF RepoInv, RepoTypeOK
<1>2. OneBranch'
  BY <1>1 DEF RepoInv, OneBranch, NotSyncing
<1>3. ASSUME NEW t \in RepoSyncs \ {s} PROVE SyncOK(t)'
  <2>1. SyncOK(t) /\ job[t] \in Job /\ job'[t] = job[t]
    BY <1>1 DEF RepoInv
  <2>2. job[t].branch \in Branches /\ job[t].since \in Nat
    BY <2>1 DEF Job
  <2>3. origin[job[t].branch] <= origin'[job[t].branch] /\ origin[job[t].branch] \in Nat /\ origin'[job[t].branch] \in Nat
    BY <2>2 DEF RepoInv, RepoTypeOK
  <2> QED BY <2>1, <2>2, <2>3 DEF SyncOK, NotSyncing
<1> QED BY <1>2, <1>3 DEF RepoInv

\* A sync that ends, of a clone that stays.
LEMMA GitSyncEnds ==
  ASSUME RepoInv, NEW s \in RepoSyncs, UNCHANGED <<pushed, clone>>, NEW pc \in {"idle", "done"}, EndsEarly(s, pc),
         keys' \subseteq RepoSyncs, gitFailures' \in Nat
  PROVE  RepoInv'
<1> DEFINE j == [NoJob EXCEPT !.pc = pc]
<1>1. j \in Job /\ j.pc = pc
  BY NoJobForm DEF RepoInv, RepoTypeOK
<1>2. job' = [job EXCEPT ![s] = j]
  BY DEF EndsEarly
<1> HIDE DEF j
<1>3. RepoTypeOK' /\ CloneOK' /\ job'[s] = j
  BY <1>1, <1>2 DEF RepoInv, RepoTypeOK, CloneOK, clone
<1>4. SyncOK(s)'
  BY <1>1, <1>3 DEF SyncOK, NotSyncing
<1>5. /\ \A b \in Branches : origin[b] <= origin'[b]
      /\ \A t \in RepoSyncs : SyncOK(t)
  BY DEF clone, RepoInv, RepoTypeOK
<1>6. \A t \in RepoSyncs \ {s} : job[t].pc = "first" /\ job[t].branch \in DOMAIN locals' =>
                                      job[t].since <= locals'[job[t].branch]
  BY <1>5 DEF SyncOK, clone
<1>7. \A t \in RepoSyncs \ {s} : job[t].pc = "reset" => head' = job[t].branch
  BY <1>5 DEF SyncOK, clone
<1> QED BY <1>1, <1>2, <1>3, <1>4, <1>5, <1>6, <1>7, OneSync DEF clone

\* A sync that goes on, of a clone that stays.
LEMMA SyncGoesOn ==
  ASSUME RepoInv, NEW s \in RepoSyncs, UNCHANGED <<pushed, clone>>,
         ~NotSyncing(s), NEW pc, [job[s] EXCEPT !.pc = pc] \in Job, GotoStep(s, pc),
         keys' \subseteq RepoSyncs, gitFailures' \in Nat, SyncOK(s)'
  PROVE  RepoInv'
<1> DEFINE j == [job[s] EXCEPT !.pc = pc]
<1>1. job[s] \in Job /\ job \in [RepoSyncs -> Job]
  BY DEF RepoInv, RepoTypeOK
<1>2. j \in Job /\ j.branch = job[s].branch
  BY <1>1 DEF Job
<1>3. job' = [job EXCEPT ![s] = j]
  BY <1>1 DEF GotoStep
<1>4. \A t \in RepoSyncs \ {s} : NotSyncing(t) \/ job[t].branch = j.branch
  BY <1>2 DEF RepoInv, OneBranch
<1> HIDE DEF j
<1>5. RepoTypeOK' /\ CloneOK'
  BY <1>1, <1>2, <1>3 DEF RepoInv, RepoTypeOK, CloneOK, clone
<1>6. /\ \A b \in Branches : origin[b] <= origin'[b]
      /\ \A t \in RepoSyncs : SyncOK(t)
  BY DEF clone, RepoInv, RepoTypeOK
<1>7. \A t \in RepoSyncs \ {s} : job[t].pc = "first" /\ job[t].branch \in DOMAIN locals' =>
                                      job[t].since <= locals'[job[t].branch]
  BY <1>6 DEF SyncOK, clone
<1>8. \A t \in RepoSyncs \ {s} : job[t].pc = "reset" => head' = job[t].branch
  BY <1>6 DEF SyncOK, clone
<1> QED BY <1>2, <1>3, <1>4, <1>5, <1>6, <1>7, <1>8, OneSync DEF clone

\* The way of a sync to its first git command.
LEMMA StartKeeps ==
  ASSUME RepoInv, "branches" \notin RepoFaults, NEW s \in RepoSyncs, NEW b \in Branches, syncSingleRepository(s, b)
  PROVE  RepoInv'
<1>1. /\ NotSyncing(s) /\ UNCHANGED <<pushed, origin, locals, head, dirty, keys>>
      /\ \A t \in RepoSyncs : NotSyncing(t) \/ job[t].branch = b
  BY DEF syncSingleRepository
<1>2. CASE GitFails /\ EndsEarly(s, "idle") /\ UNCHANGED dir
  <2>1. keys' \subseteq RepoSyncs /\ gitFailures' \in Nat
    BY <1>1, <1>2 DEF GitFails, RepoInv, RepoTypeOK
  <2> QED BY <1>1, <1>2, <2>1, GitSyncEnds DEF clone
<1>3. CASE /\ GitWorks
           /\ job' = [job EXCEPT ![s] = [pc |-> "trust", branch |-> b, since |-> pushed[b],
                                        how |-> IF dir = "none" THEN "clone" ELSE "fetch"]]
           /\ dir' = IF dir = "old" THEN "new" ELSE dir
  <2> DEFINE j == [pc |-> "trust", branch |-> b, since |-> pushed[b],
                   how |-> IF dir = "none" THEN "clone" ELSE "fetch"]
  <2>1. j \in Job /\ j.pc = "trust" /\ j.branch = b /\ j.since = pushed[b] /\ (j.how = "fetch" => dir # "none")
    BY DEF RepoInv, RepoTypeOK, Job
  <2>2. job' = [job EXCEPT ![s] = j]
    BY <1>3
  <2> HIDE DEF j
  <2>3. RepoTypeOK' /\ CloneOK' /\ job'[s] = j
    BY <1>1, <1>3, <2>1, <2>2 DEF RepoInv, RepoTypeOK, CloneOK, GitWorks
  <2>4. SyncOK(s)'
    BY <1>1, <1>3, <2>1, <2>3 DEF SyncOK, RepoInv, RepoTypeOK
  <2>5. /\ \A c \in Branches : origin[c] <= origin'[c]
        /\ \A t \in RepoSyncs : SyncOK(t)
    BY <1>1 DEF RepoInv, RepoTypeOK
  <2>6. \A t \in RepoSyncs \ {s} : job[t].pc = "first" /\ job[t].branch \in DOMAIN locals' =>
                                      job[t].since <= locals'[job[t].branch]
    BY <1>1, <2>5 DEF SyncOK
  <2>7. \A t \in RepoSyncs \ {s} : job[t].pc = "reset" => head' = job[t].branch
    BY <1>1, <2>5 DEF SyncOK
  <2> QED BY <1>1, <1>3, <2>1, <2>2, <2>3, <2>4, <2>5, <2>6, <2>7, OneSync
<1> QED BY <1>2, <1>3 DEF syncSingleRepository

\* A sync is at a stage with a record of its own.
LEMMA AtStage ==
  ASSUME RepoInv, NEW s \in RepoSyncs, NEW pc \in {"trust", "key", "clone", "first", "fetch", "checkout", "reset"},
         AtStep(s, pc)
  PROVE  /\ job \in [RepoSyncs -> Job] /\ job[s] \in Job /\ job[s].pc = pc /\ ~NotSyncing(s) /\ SyncOK(s)
         /\ job[s].branch \in Branches /\ job[s].since \in Nat
         /\ \A q \in {"trust", "key", "clone", "first", "fetch", "checkout", "reset"} :
              /\ [job[s] EXCEPT !.pc = q] \in Job
              /\ GotoStep(s, q) => /\ job'[s].pc = q /\ job'[s].how = job[s].how
                                   /\ job'[s].branch = job[s].branch /\ job'[s].since = job[s].since
<1>1. job \in [RepoSyncs -> Job] /\ job[s] \in Job /\ job[s].pc = pc
  BY DEF AtStep, RepoInv, RepoTypeOK
<1>2. ASSUME NEW q \in {"trust", "key", "clone", "first", "fetch", "checkout", "reset"}
      PROVE  /\ [job[s] EXCEPT !.pc = q] \in Job
             /\ GotoStep(s, q) => /\ job'[s].pc = q /\ job'[s].how = job[s].how
                                  /\ job'[s].branch = job[s].branch /\ job'[s].since = job[s].since
  BY <1>1 DEF GotoStep, Job
<1> QED BY <1>1, <1>2 DEF RepoInv, NotSyncing, Job

LEMMA PrepareKeeps ==
  ASSUME RepoInv, NEW s \in RepoSyncs, registerSafeDirectory(s) \/ buildAuthEnv(s)
  PROVE  RepoInv'
<1>1. UNCHANGED <<pushed, clone>> /\ keys' \subseteq RepoSyncs /\ gitFailures' \in Nat
  BY DEF registerSafeDirectory, buildAuthEnv, GitWorks, GitFails, RepoInv, RepoTypeOK
<1>2. CASE EndsEarly(s, "idle")
  BY <1>1, <1>2, GitSyncEnds
<1>3. CASE AtStep(s, "trust") /\ GotoStep(s, "key")
  <2>1. /\ job'[s].pc = "key" /\ job'[s].how = job[s].how /\ job'[s].branch = job[s].branch
        /\ job'[s].since = job[s].since /\ job[s].pc = "trust" /\ SyncOK(s) /\ ~NotSyncing(s)
        /\ [job[s] EXCEPT !.pc = "key"] \in Job
    BY <1>3, AtStage
  <2>2. SyncOK(s)'
    BY <1>1, <2>1 DEF SyncOK, NotSyncing, clone
  <2> QED BY <1>1, <1>3, <2>1, <2>2, SyncGoesOn
<1>4. CASE AtStep(s, "key") /\ GotoStep(s, job[s].how)
  <2>1. job[s].how \in {"clone", "fetch"}
    BY <1>4 DEF RepoInv, RepoTypeOK, Job
  <2>2. /\ job'[s].pc = job[s].how /\ job'[s].branch = job[s].branch
        /\ job'[s].since = job[s].since /\ job[s].pc = "key" /\ SyncOK(s) /\ ~NotSyncing(s)
        /\ [job[s] EXCEPT !.pc = job[s].how] \in Job
    BY <1>4, <2>1, AtStage
  <2>3. SyncOK(s)'
    BY <1>1, <2>1, <2>2 DEF SyncOK, NotSyncing, clone
  <2> QED BY <1>1, <1>4, <2>2, <2>3, SyncGoesOn
<1> QED BY <1>2, <1>3, <1>4 DEF registerSafeDirectory, buildAuthEnv

\* A clone, or a fetch: what the server has becomes known.
LEMMA FetchKeeps ==
  ASSUME RepoInv, NEW s \in RepoSyncs, NEW pc \in {"first", "checkout"}, GotoStep(s, pc),
         \/ AtStep(s, "clone") /\ dir = "none" /\ pc = "first"
         \/ AtStep(s, "fetch") /\ dir = "new" /\ pc = "checkout",
         dir' = "new", origin' = pushed, UNCHANGED <<pushed, locals, head, dirty, keys, gitFailures>>
  PROVE  RepoInv'
<1>1. /\ job \in [RepoSyncs -> Job] /\ job[s] \in Job /\ ~NotSyncing(s) /\ SyncOK(s)
      /\ job[s].branch \in Branches /\ job[s].since \in Nat /\ [job[s] EXCEPT !.pc = pc] \in Job
  BY AtStage
<1> DEFINE j == [job[s] EXCEPT !.pc = pc]
<1>2. j \in Job /\ j.branch = job[s].branch /\ j.since = job[s].since /\ j.pc = pc
  BY <1>1 DEF Job
<1>3. job' = [job EXCEPT ![s] = j]
  BY <1>1 DEF GotoStep
<1> HIDE DEF j
<1>4. RepoTypeOK' /\ CloneOK' /\ job'[s] = j
  BY <1>1, <1>2, <1>3 DEF RepoInv, RepoTypeOK, CloneOK
<1>5. \A t \in RepoSyncs \ {s} : NotSyncing(t) \/ job[t].branch = j.branch
  BY <1>1, <1>2 DEF RepoInv, OneBranch
<1>6. SyncOK(s)'
  BY <1>1, <1>2, <1>4 DEF SyncOK, NotSyncing, RepoInv, CloneOK
<1>7. /\ \A b \in Branches : origin[b] <= origin'[b]
      /\ \A t \in RepoSyncs : SyncOK(t)
  BY DEF RepoInv, CloneOK
<1>8. \A t \in RepoSyncs \ {s} : job[t].pc = "first" /\ job[t].branch \in DOMAIN locals' =>
                                      job[t].since <= locals'[job[t].branch]
  BY <1>7 DEF SyncOK
<1>9. \A t \in RepoSyncs \ {s} : job[t].pc = "reset" => head' = job[t].branch
  BY <1>7 DEF SyncOK
<1> QED BY <1>2, <1>3, <1>4, <1>5, <1>6, <1>7, <1>8, <1>9, OneSync

LEMMA CloneKeeps ==
  ASSUME RepoInv, NEW s \in RepoSyncs, cloneRepository(s) \/ fetchAll(s)
  PROVE  RepoInv'
<1>1. UNCHANGED pushed
  BY DEF cloneRepository, fetchAll
<1>2. CASE (GitWorks \/ GitFails) /\ UNCHANGED clone /\ EndSync(s, "idle")
  <2>1. keys' \subseteq RepoSyncs /\ gitFailures' \in Nat
    BY <1>2 DEF EndSync, GitWorks, GitFails, RepoInv, RepoTypeOK
  <2> QED BY <1>1, <1>2, <2>1, GitSyncEnds DEF EndSync
<1>3. CASE /\ AtStep(s, "clone") /\ dir = "none" /\ GitWorks
           /\ dir' = "new" /\ origin' = pushed /\ UNCHANGED <<locals, head, dirty, keys>>
           /\ GotoStep(s, "first")
  BY <1>1, <1>3, FetchKeeps DEF GitWorks
<1>4. CASE /\ AtStep(s, "fetch") /\ GitWorks /\ origin' = pushed /\ GotoStep(s, "checkout")
           /\ UNCHANGED <<dir, locals, head, dirty, keys>>
  <2>1. dir = "new"
    BY <1>4, AtStage DEF SyncOK
  <2> QED BY <1>1, <1>4, <2>1, FetchKeeps DEF GitWorks
<1> QED BY <1>2, <1>3, <1>4 DEF cloneRepository, fetchAll

\* A branch is checked out, or moved: both leave it no older than the sync that does it.
LEMMA TreeKeeps ==
  ASSUME RepoInv, NEW s \in RepoSyncs, NEW pc \in {"first", "checkout", "reset"}, AtStep(s, pc),
         IF pc = "reset" THEN ResetTo(s) ELSE CheckedOut(job[s].branch),
         UNCHANGED pushed, keys' \subseteq RepoSyncs, gitFailures' \in Nat,
         IF pc = "checkout" THEN GotoStep(s, "reset") ELSE EndsEarly(s, "done")
  PROVE  RepoInv' /\ head' = job[s].branch /\ (pc # "checkout" => job[s].since <= locals'[head'])
<1> DEFINE b == job[s].branch
<1>1. /\ job \in [RepoSyncs -> Job] /\ job[s] \in Job /\ job[s].pc = pc /\ ~NotSyncing(s) /\ SyncOK(s)
      /\ b \in Branches /\ job[s].since \in Nat /\ [job[s] EXCEPT !.pc = "reset"] \in Job
  BY AtStage
<1>2. /\ dir = "new" /\ dir' = "new" /\ origin' = origin /\ dirty' \in BOOLEAN /\ head' = b
      /\ job[s].since <= origin[b] /\ origin[b] \in Nat
      /\ pushed \in [Branches -> Nat] /\ origin \in [Branches -> Nat]
  BY <1>1 DEF SyncOK, ResetTo, CheckedOut, RepoInv, RepoTypeOK
<1>3. DOMAIN locals \subseteq Branches /\ locals \in [DOMAIN locals -> Nat]
  BY DEF RepoInv, RepoTypeOK
<1>4. /\ DOMAIN locals' \subseteq Branches /\ locals' \in [DOMAIN locals' -> Nat]
      /\ pc # "checkout" => job[s].since <= locals'[b]
      /\ locals' = locals \/ locals'[b] = origin[b]
  <2>1. CASE pc # "reset" /\ b \in DOMAIN locals
    <3>1. locals' = locals
      BY <2>1 DEF CheckedOut
    <3>2. pc = "first" => job[s].since <= locals'[b]
      BY <1>1, <2>1, <3>1 DEF SyncOK
    <3> QED BY <1>3, <2>1, <3>1, <3>2
  <2>2. CASE pc = "reset" \/ b \notin DOMAIN locals
    <3>1. locals' = PutBranch(locals, b, origin[b])
      BY <1>2, <2>2, <1>1 DEF CheckedOut, ResetTo, SyncOK
    <3>2. /\ DOMAIN locals' = DOMAIN locals \cup {b} /\ locals' \in [DOMAIN locals' -> Nat]
          /\ locals'[b] = origin[b]
      <4>1. /\ DOMAIN PutBranch(locals, b, origin[b]) = DOMAIN locals \cup {b}
            /\ PutBranch(locals, b, origin[b]) \in [DOMAIN locals \cup {b} -> Nat]
            /\ PutBranch(locals, b, origin[b])[b] = origin[b]
        <5> HIDE DEF b
        <5> QED BY <1>1, <1>2, <1>3, PutBranchForm
      <4> QED BY <3>1, <4>1
    <3> QED BY <1>1, <1>2, <1>3, <3>2
  <2> QED BY <2>1, <2>2
<1>5. CloneOK'
  BY <1>2 DEF RepoInv, CloneOK
<1>6. PICK j \in Job : /\ job' = [job EXCEPT ![s] = j]
                       /\ IF pc = "checkout" THEN j = [job[s] EXCEPT !.pc = "reset"] ELSE j.pc = "done"
  <2>1. CASE pc = "checkout"
    BY <1>1, <2>1 DEF GotoStep
  <2>2. CASE pc # "checkout"
    <3>1. [NoJob EXCEPT !.pc = "done"] \in Job /\ [NoJob EXCEPT !.pc = "done"].pc = "done"
      BY <1>1, NoJobForm
    <3> QED BY <2>2, <3>1 DEF EndsEarly
  <2> QED BY <2>1, <2>2
<1>7. /\ job'[s] = j
      /\ pc = "checkout" => j.pc = "reset" /\ j.branch = b /\ j.since = job[s].since
  BY <1>1, <1>6 DEF Job
<1>8. RepoTypeOK'
  BY <1>1, <1>2, <1>4, <1>6 DEF RepoTypeOK
<1>9. SyncOK(s)'
  BY <1>1, <1>2, <1>6, <1>7 DEF SyncOK, NotSyncing
<1>10. ASSUME NEW t \in RepoSyncs \ {s}, ~NotSyncing(t)
       PROVE  job[t].branch = b /\ SyncOK(t) /\ job[t].since \in Nat
  BY <1>1, <1>10 DEF RepoInv, OneBranch, Job
<1>11. \A t \in RepoSyncs \ {s} : job[t].pc = "first" /\ job[t].branch \in DOMAIN locals' =>
                                      job[t].since <= locals'[job[t].branch]
  BY <1>4, <1>10 DEF SyncOK, NotSyncing
<1>12. \A t \in RepoSyncs \ {s} : job[t].pc = "reset" => head' = job[t].branch
  BY <1>2, <1>10 DEF NotSyncing
<1>13. /\ \A c \in Branches : origin[c] <= origin'[c]
       /\ j.pc \in {"idle", "done"} \/ \A t \in RepoSyncs \ {s} : NotSyncing(t) \/ job[t].branch = j.branch
  BY <1>2, <1>6, <1>7, <1>10
<1>14. RepoInv'
  BY <1>2, <1>5, <1>6, <1>8, <1>9, <1>11, <1>12, <1>13, OneSync
<1> QED BY <1>2, <1>4, <1>14

LEMMA CheckoutKeeps ==
  ASSUME RepoInv, NEW s \in RepoSyncs, firstCheckout(s) \/ checkout(s) \/ resetHard(s)
  PROVE  RepoInv' /\ (Succeeds(s) => head' = job[s].branch /\ locals'[head'] >= job[s].since)
<1>1. UNCHANGED pushed
  BY DEF firstCheckout, checkout, resetHard
<1>2. CASE (GitWorks \/ GitFails) /\ UNCHANGED clone /\ EndSync(s, "idle")
  <2>1. keys' \subseteq RepoSyncs /\ gitFailures' \in Nat
    BY <1>2 DEF EndSync, GitWorks, GitFails, RepoInv, RepoTypeOK
  <2>2. ~Succeeds(s)
    BY <1>2, NoJobForm DEF Succeeds, EndSync, EndsEarly, RepoInv, RepoTypeOK
  <2> QED BY <1>1, <1>2, <2>1, <2>2, GitSyncEnds DEF EndSync
<1>3. CASE AtStep(s, "first") /\ GitWorks /\ CheckedOut(job[s].branch) /\ EndSync(s, "done")
  <2>1. keys' \subseteq RepoSyncs /\ gitFailures' \in Nat /\ EndsEarly(s, "done")
    BY <1>3 DEF EndSync, GitWorks, RepoInv, RepoTypeOK
  <2>2. RepoInv' /\ head' = job[s].branch /\ job[s].since <= locals'[head']
    BY <1>1, <1>3, <2>1, TreeKeeps
  <2> QED BY <2>2
<1>4. CASE AtStep(s, "checkout") /\ GitWorks /\ CheckedOut(job[s].branch) /\ GotoStep(s, "reset") /\ UNCHANGED keys
  <2>1. keys' \subseteq RepoSyncs /\ gitFailures' \in Nat
    BY <1>4 DEF GitWorks, RepoInv, RepoTypeOK
  <2>2. job'[s].pc = "reset"
    BY <1>4, AtStage
  <2>3. RepoInv'
    BY <1>1, <1>4, <2>1, TreeKeeps
  <2> QED BY <2>2, <2>3 DEF Succeeds
<1>5. CASE AtStep(s, "reset") /\ GitWorks /\ ResetTo(s) /\ EndSync(s, "done")
  <2>1. keys' \subseteq RepoSyncs /\ gitFailures' \in Nat /\ EndsEarly(s, "done")
    BY <1>5 DEF EndSync, GitWorks, RepoInv, RepoTypeOK
  <2>2. RepoInv' /\ head' = job[s].branch /\ job[s].since <= locals'[head']
    BY <1>1, <1>5, <2>1, TreeKeeps
  <2> QED BY <2>2
<1> QED BY <1>2, <1>3, <1>4, <1>5 DEF firstCheckout, checkout, resetHard

LEMMA RepoStep ==
  ASSUME RepoInv, "branches" \notin RepoFaults, [RepoNext]_repoVars
  PROVE  RepoInv'
<1>1. CASE UNCHANGED repoVars
  BY <1>1 DEF repoVars, clone, RepoInv, RepoTypeOK, CloneOK, OneBranch, SyncOK, NotSyncing
<1>2. ASSUME NEW b \in Branches, Push(b) PROVE RepoInv'
  <2>1. UNCHANGED <<clone, job, keys, gitFailures>> /\ pushed' = [pushed EXCEPT ![b] = @ + 1]
    BY <1>2 DEF Push
  <2>2. /\ pushed' \in [Branches -> Nat] /\ \A c \in Branches : pushed[c] <= pushed'[c] /\ pushed[c] \in Nat
        /\ origin \in [Branches -> Nat]
    BY <2>1 DEF RepoInv, RepoTypeOK
  <2>3. RepoTypeOK' /\ CloneOK' /\ OneBranch'
    BY <2>1, <2>2 DEF RepoInv, RepoTypeOK, CloneOK, OneBranch, NotSyncing, clone
  <2>4. ASSUME NEW s \in RepoSyncs PROVE SyncOK(s)'
    <3>1. job[s].branch \in Branches /\ job[s].since \in Nat /\ SyncOK(s)
      BY DEF RepoInv, RepoTypeOK, Job
    <3> QED BY <2>1, <2>2, <3>1 DEF SyncOK, NotSyncing, clone
  <2> QED BY <2>3, <2>4 DEF RepoInv
<1>3. CASE ChatEdits \/ ChatCommits
  BY <1>3 DEF ChatEdits, ChatCommits, RepoInv, RepoTypeOK, CloneOK, OneBranch, SyncOK, NotSyncing
<1>4. CASE KilledInSync
  <2>1. UNCHANGED <<pushed, clone, keys, gitFailures>> /\ job' = [s \in RepoSyncs |-> NoJob]
    BY <1>4 DEF KilledInSync
  <2>2. NoJob \in Job /\ NoJob.pc = "idle"
    <3>1. (CHOOSE b \in Branches : TRUE) \in Branches
      BY DEF RepoInv, RepoTypeOK
    <3> QED BY <3>1 DEF NoJob, Job
  <2>3. \A s \in RepoSyncs : job'[s] = NoJob
    BY <2>1
  <2>4. RepoTypeOK' /\ CloneOK'
    BY <2>1, <2>2 DEF RepoInv, RepoTypeOK, CloneOK, clone
  <2> QED BY <2>2, <2>3, <2>4 DEF RepoInv, OneBranch, SyncOK, NotSyncing
<1> QED BY <1>1, <1>2, <1>3, <1>4, StartKeeps, PrepareKeeps, CloneKeeps, CheckoutKeeps DEF RepoNext, Git

LEMMA RepoSucceeds ==
  ASSUME RepoInv, [RepoNext]_repoVars, NEW s \in RepoSyncs, Succeeds(s)
  PROVE  head' = job[s].branch /\ locals'[head'] >= job[s].since
<1>1. job \in [RepoSyncs -> Job] /\ job[s].pc \notin {"idle", "done"} /\ job'[s].pc = "done"
  BY DEF Succeeds, NotSyncing, RepoInv, RepoTypeOK
<1>2. ~UNCHANGED job
  BY <1>1
<1>3. \A h \in Branches : \A pc \in {"idle", "done"} : [NoJob EXCEPT !.pc = pc].pc = pc
  BY NoJobForm
<1>4. NoJob.pc = "idle"
  BY DEF NoJob
<1>5. ~KilledInSync /\ ~ChatEdits /\ ~ChatCommits /\ (\A b \in Branches : ~Push(b)) /\ ~UNCHANGED repoVars
  BY <1>1, <1>2, <1>4 DEF KilledInSync, ChatEdits, ChatCommits, Push, repoVars
<1>6. ASSUME NEW t \in RepoSyncs, NEW b \in Branches, syncSingleRepository(t, b) PROVE FALSE
  <2>1. t # s /\ \E j : job' = [job EXCEPT ![t] = j]
    BY <1>1, <1>6 DEF syncSingleRepository, NotSyncing, EndsEarly
  <2> QED BY <1>1, <2>1
<1>7. ASSUME NEW t \in RepoSyncs, Git(t) PROVE t = s
  <2>1. \E j : job' = [job EXCEPT ![t] = j]
    BY <1>7 DEF Git, registerSafeDirectory, buildAuthEnv, cloneRepository, firstCheckout, fetchAll, checkout, resetHard,
               GotoStep, EndSync, EndsEarly
  <2> QED BY <1>1, <2>1
<1>8. Git(s)
  BY <1>5, <1>6, <1>7 DEF RepoNext
<1>9. ASSUME registerSafeDirectory(s) \/ buildAuthEnv(s) \/ cloneRepository(s) \/ fetchAll(s) PROVE FALSE
  BY <1>1, <1>9 DEF registerSafeDirectory, buildAuthEnv, cloneRepository, fetchAll, GotoStep, EndSync, EndsEarly, NoJob, Job
<1> QED BY <1>8, <1>9, CheckoutKeeps DEF Git

(* A sync that reports success leaves its branch checked out, no older     *)
(* than the branch was at the server when the sync began: syncSingle-      *)
(* Repository with all its git commands, beside pushes, chats, other syncs *)
(* to the same branch and deaths of the agent.                             *)
THEOREM TreeIsOfBranch ==
  ASSUME "branches" \notin RepoFaults
  PROVE  RepoSpec => TreeAsReported
<1>1. RepoInit => RepoInv
  <2> SUFFICES ASSUME RepoInit PROVE RepoInv
    OBVIOUS
  <2>1. NoJob \in Job /\ NoJob.pc = "idle"
    <3>1. (CHOOSE b \in Branches : TRUE) \in Branches
      BY DEF RepoInit
    <3> QED BY <3>1 DEF NoJob, Job
  <2>2. DOMAIN locals = {} /\ locals \in [DOMAIN locals -> Nat]
    BY DEF RepoInit
  <2>3. \A s \in RepoSyncs : job[s] = NoJob
    BY DEF RepoInit
  <2>4. RepoTypeOK /\ CloneOK
    <3>1. /\ pushed \in [Branches -> Nat] /\ origin \in [Branches -> Nat] /\ job \in [RepoSyncs -> Job]
          /\ \A b \in Branches : origin[b] <= pushed[b]
      BY <2>1 DEF RepoInit
    <3>2. /\ dir \in {"none", "old", "new"} /\ head \in Branches /\ dirty \in BOOLEAN
          /\ keys \subseteq RepoSyncs /\ gitFailures \in Nat
      BY DEF RepoInit
    <3> QED BY <2>2, <3>1, <3>2 DEF RepoTypeOK, CloneOK
  <2> QED BY <2>1, <2>3, <2>4 DEF RepoInv, OneBranch, SyncOK, NotSyncing
<1>2. RepoInv /\ [RepoNext]_repoVars => RepoInv'
  BY RepoStep
<1>3. RepoInv => RepoTypeOK
  BY DEF RepoInv
<1>4. RepoInv /\ [RepoNext]_repoVars =>
        [\A s \in RepoSyncs : Succeeds(s) => head' = job[s].branch /\ locals'[head'] >= job[s].since]_repoVars
  BY RepoSucceeds
<1>5. RepoSpec => []RepoTypeOK /\ TreeOfBranch
  BY <1>1, <1>2, <1>3, <1>4, PTL DEF RepoSpec, TreeOfBranch
<1> QED BY <1>5 DEF TreeAsReported
=============================================================================

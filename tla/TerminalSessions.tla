---------------------------- MODULE TerminalSessions ----------------------------
(***************************************************************************)
(* The web terminals of an agent: the shells (PTYs) that                   *)
(* TerminalSessionManager keeps under the session ids of the server, their *)
(* life across a lost connection (the grace window), and the tmux sessions *)
(* they are attached to (terminal-websocket.ts, terminal-session-          *)
(* manager.ts, terminal-session.ts).                                       *)
(*                                                                         *)
(* The connection is AgentLink. A shell ends some time after it was        *)
(* killed, and the agent learns of it by the exit event of its PTY, later. *)
(* `tmux kill-session' is a process of its own. Sizes, input, environment  *)
(* and the files of a shell are left out.                                  *)
(***************************************************************************)
EXTENDS AgentLink, Integers

CONSTANTS
  Id,          \* session ids; also the tmux sessions, ais-<id> being <id>
  Pty,         \* PTYs that may exist at one time
  NoPty,
  Meta,        \* what an open says of the user, NoMeta: nothing
  NoMeta,
  GraceTicks,  \* SESSION_GRACE_TIMEOUT_MS
  EarlyReopen  \* an id may be opened anew before its exit event was seen

ASSUME TerminalAssumption ==
  /\ NoPty \notin Pty
  /\ NoMeta \notin Meta
  /\ Id # {}
  /\ GraceTicks \in Nat \ {0}
  /\ EarlyReopen \in BOOLEAN

VARIABLES
  table,     \* TerminalSessionManager.sessions
  grace,     \* graceTimers: what each has left, 0: no timer, 1: it is due
  pty,       \* the PTYs, see Shell
  doomed,    \* tmux sessions that a kill-session is under way for
  attached   \* ids opened or resumed on the present connection

vars == <<link, table, grace, pty, doomed, attached>>

\* "up": runs; "over": has ended by itself; "killed": kill() was called. The
\* last two await the exit event; until then isAlive() is true of each.
Shell == [st: {"none", "up", "over", "killed"}, id: Id, name: Id, meta: Meta \cup {NoMeta}]
NoShell == LET i == CHOOSE j \in Id : TRUE IN [st |-> "none", id |-> i, name |-> i, meta |-> NoMeta]
Alive(p) == pty[p].st # "none"
Running(p) == pty[p].st = "up"
NoTimer == [i \in Id |-> 0]
Has(i) == table[i] # NoPty

Init ==
  /\ LinkInit
  /\ table = [i \in Id |-> NoPty]
  /\ grace = NoTimer
  /\ pty = [p \in Pty |-> NoShell]
  /\ doomed = {}
  /\ attached = {}

-----------------------------------------------------------------------------
(* TerminalSessionManager.                                                 *)

\* kill() of TerminalSession for each of P, with killTmuxSession(), which only
\* the first call of a session runs.
Kill(P) ==
  /\ pty' = [p \in Pty |-> IF p \in P /\ Alive(p) THEN [pty[p] EXCEPT !.st = "killed"] ELSE pty[p]]
  /\ doomed' = doomed \cup {pty[p].name : p \in {q \in P : pty[q].st \in {"up", "over"}}}

InTable == {table[i] : i \in Id} \ {NoPty}

\* Mutant of ArmGrace: the old timer is not replaced.
ArmGraceLonger == grace' = [i \in Id |-> IF Has(i) THEN grace[i] + GraceTicks ELSE grace[i]]
ArmGrace == grace' = [i \in Id |-> IF Has(i) THEN GraceTicks ELSE grace[i]]
ClearGrace(i) == grace' = [grace EXCEPT ![i] = 0]

\* closeAllGracefully().
CloseAllGracefully ==
  /\ ArmGrace
  /\ attached' = {}
  /\ UNCHANGED <<table, pty, doomed>>

\* closeAll().
CloseAll ==
  /\ grace' = [i \in Id |-> IF Has(i) THEN 0 ELSE grace[i]]
  /\ Kill(InTable)
  /\ table' = [i \in Id |-> NoPty]
  /\ attached' = {}

-----------------------------------------------------------------------------
(* Messages of the server.                                                 *)

Receives == link \in {"up", "ending"}

\* A killed shell of the id, whose exit event is still to come.
Awaited(i) == \E p \in Pty : Alive(p) /\ pty[p].id = i /\ table[i] # p

Spawn(p, i, n, m) ==
  /\ ~Alive(p)
  /\ pty' = [pty EXCEPT ![p] = [st |-> "up", id |-> i, name |-> n, meta |-> m]]
  /\ table' = [table EXCEPT ![i] = p]

\* Mutant of Open: the timer is cleared for new sessions only.
OpenTimed(i) ==
  /\ Receives
  /\ EarlyReopen \/ ~Awaited(i)
  /\ attached' = attached \cup {i}
  /\ IF Has(i) THEN grace' = grace /\ UNCHANGED <<table, pty>>
     ELSE ClearGrace(i) /\ \E p \in Pty, n \in Id, m \in Meta \cup {NoMeta} : Spawn(p, i, n, m)
  /\ UNCHANGED <<link, doomed>>

\* handleOpen() without resume: createSessionWithId(), then the relay, ready.
Open(i) ==
  /\ Receives
  /\ EarlyReopen \/ ~Awaited(i)
  /\ ClearGrace(i)
  /\ attached' = attached \cup {i}
  /\ IF Has(i) THEN UNCHANGED <<table, pty>>
     ELSE \E p \in Pty, n \in Id, m \in Meta \cup {NoMeta} : Spawn(p, i, n, m)
  /\ UNCHANGED <<link, doomed>>

\* handleResumeOpen(): resumeSession() never spawns; without a session, or with
\* another meta, resume_failed is all that happens.
Resume(i, m) ==
  /\ Receives
  /\ Has(i) /\ m # NoMeta /\ pty[table[i]].meta = m
  /\ ClearGrace(i)
  /\ attached' = attached \cup {i}
  /\ UNCHANGED <<link, table, pty, doomed>>

\* handleClose(): closeSession().
Close(i) ==
  /\ Receives
  /\ Has(i)
  /\ ClearGrace(i)
  /\ Kill({table[i]})
  /\ table' = [table EXCEPT ![i] = NoPty]
  /\ attached' = attached \ {i}
  /\ UNCHANGED link

\* handleTmuxKillSession(), for its owner or an administrator.
TmuxKillSession(n) ==
  /\ Receives
  /\ doomed' = doomed \cup {n}
  /\ UNCHANGED <<link, table, grace, pty, attached>>

-----------------------------------------------------------------------------
(* Processes and timers.                                                   *)

ShellEnds(p) ==
  /\ Running(p)
  /\ pty' = [pty EXCEPT ![p].st = "over"]
  /\ UNCHANGED <<link, table, grace, doomed, attached>>

\* A kill-session takes the shells down that are attached to the session then.
TmuxKilled(n) ==
  /\ n \in doomed
  /\ doomed' = doomed \ {n}
  /\ pty' = [p \in Pty |-> IF Running(p) /\ pty[p].name = n THEN [pty[p] EXCEPT !.st = "over"] ELSE pty[p]]
  /\ UNCHANGED <<link, table, grace, attached>>

\* onExit of the PTY: killTmuxSession(), the cleanup of the manager, which looks
\* at the id only, and the exit frame.
ExitSeen(p) ==
  /\ pty[p].st \in {"over", "killed"}
  /\ doomed' = IF pty[p].st = "over" THEN doomed \cup {pty[p].name} ELSE doomed
  /\ ClearGrace(pty[p].id)
  /\ table' = [table EXCEPT ![pty[p].id] = NoPty]
  /\ attached' = attached \ {pty[p].id}
  /\ pty' = [pty EXCEPT ![p] = NoShell]
  /\ UNCHANGED link

\* Timers that are due fire before anything later happens to them.
NoneDue == \A i \in Id : grace[i] # 1

Tick ==
  /\ NoneDue
  /\ \E i \in Id : grace[i] > 1
  /\ grace' = [i \in Id |-> IF grace[i] > 1 THEN grace[i] - 1 ELSE grace[i]]
  /\ UNCHANGED <<link, table, pty, doomed, attached>>

\* Mutant of GraceExpires: the session is removed and not killed.
GraceForgets(i) ==
  /\ grace[i] = 1
  /\ ClearGrace(i)
  /\ table' = [table EXCEPT ![i] = NoPty]
  /\ UNCHANGED <<link, pty, doomed, attached>>

\* The callback of scheduleGraceTimer().
GraceExpires(i) ==
  /\ grace[i] = 1
  /\ ClearGrace(i)
  /\ IF Has(i) THEN Kill({table[i]}) /\ table' = [table EXCEPT ![i] = NoPty]
     ELSE UNCHANGED <<table, pty, doomed>>
  /\ UNCHANGED <<link, attached>>

-----------------------------------------------------------------------------
(* The connection.                                                         *)

LinkUp == Up /\ UNCHANGED <<table, grace, pty, doomed, attached>>

\* onWebSocketClose(), with each failed attempt to reconnect too.
LinkDown == Down /\ NoneDue /\ CloseAllGracefully

\* Mutant of LinkEnded: the close event of disconnect() arms no timer.
LinkEndedQuietly == Ended /\ UNCHANGED <<table, grace, pty, doomed, attached>>

LinkEnded == Ended /\ CloseAllGracefully

\* onPermanentClose(), and the override of disconnect().
LinkRejected == Reject /\ CloseAll
LinkStopped == Stop /\ CloseAll

Message ==
  \/ \E i \in Id : Open(i) \/ Close(i) \/ TmuxKillSession(i) \/ \E m \in Meta : Resume(i, m)

Timer == Tick \/ \E i \in Id : GraceExpires(i)

Process ==
  \/ \E p \in Pty : ShellEnds(p) \/ ExitSeen(p)
  \/ \E n \in Id : TmuxKilled(n)

Next == Message \/ Timer \/ Process \/ LinkUp \/ LinkDown \/ LinkEnded \/ LinkRejected \/ LinkStopped

Spec == Init /\ [][Next]_vars

\* Timers fire, exits are seen and the closing handshake ends. A user need
\* never leave a shell.
Fairness ==
  /\ WF_vars(Tick) /\ WF_vars(LinkEnded)
  /\ \A i \in Id : WF_vars(GraceExpires(i)) /\ WF_vars(TmuxKilled(i))
  /\ \A p \in Pty : WF_vars(ExitSeen(p))

FairSpec == Spec /\ Fairness

-----------------------------------------------------------------------------
(* Properties.                                                             *)

TypeOK ==
  /\ link \in LinkState
  /\ table \in [Id -> Pty \cup {NoPty}]
  /\ grace \in [Id -> 0 .. GraceTicks]
  /\ pty \in [Pty -> Shell]
  /\ doomed \subseteq Id
  /\ attached \subseteq Id

\* A shell that nobody has killed can be reached by its id: the manager never
\* loses one, which no message, timer or shutdown could end any more.
ShellTracked == \A p \in Pty : Running(p) => table[pty[p].id] = p

\* No timer runs for a session somebody is using: what a lost connection has
\* armed is disarmed by whichever way the session was taken up again.
InUseUntimed == \A i \in attached : Has(i) /\ grace[i] = 0

\* While there is no connection to take it up by, every session has a timer.
OrphanTimed == link \in {"down", "over"} => \A i \in Id : Has(i) => grace[i] > 0

\* Both: the timers are exactly where the grace window wants them.
SessionsTimed == InUseUntimed /\ OrphanTimed

\* When the link has been ended for good no shell is left after a while, also
\* none that a message of the closing handshake has opened.
ShellsEnd == (link = "over") ~> (\A p \in Pty : ~Running(p))

\* Both: a session's shell and its timer are what the table says.
SessionsKept == TypeOK /\ ShellTracked /\ SessionsTimed
=============================================================================

------------------------------ MODULE AgentSocket ------------------------------
(***************************************************************************)
(* The WebSocket connections of an agent (base-websocket.ts and            *)
(* ws-reconnect.ts): connect and disconnect, the chain of retries, and the *)
(* heartbeat that notices a peer that has silently gone.                   *)
(*                                                                         *)
(* A socket object is a slot; its `close' event frees the slot. Nothing in *)
(* the model keeps a second socket or a second chain of retries from being *)
(* made. The number of retries is unbounded in every use of the class; the *)
(* delay between them, the cookies and the payloads are left out.          *)
(***************************************************************************)
EXTENDS Integers, FiniteSets

CONSTANTS
  Slot,       \* sockets that may exist at one time
  NoSlot,
  MaxMissed,  \* options.pongMaxMissed, WS_PONG_MAX_MISSED
  AuthCode,   \* options.authRejectedCloseCode is given
  Faults      \* what the network and the server may do, see FaultKind

\* refuse: the handshake fails; drop: an open connection is closed; reject: it
\* is closed with WS_CLOSE_CODE_AUTH_REJECTED; vanish: the peer of an open
\* connection is gone without a word; swallow: so is that of a handshake.
FaultKind == {"refuse", "drop", "reject", "vanish", "swallow"}

ASSUME SocketAssumption ==
  /\ NoSlot \notin Slot
  /\ MaxMissed \in Nat \ {0}
  /\ AuthCode \in BOOLEAN
  /\ Faults \subseteq FaultKind

VARIABLES
  used,     \* connect() has been called
  closed,   \* BaseWebSocketConnection.closed
  stopped,  \* disconnect() has been called
  ws,       \* the slot of BaseWebSocketConnection.ws
  sock,     \* the sockets, see Socket
  sleeping, \* calls of attemptReconnect() in their sleep
  beat      \* heartbeatTimer and its state, see Heartbeat

vars == <<used, closed, stopped, ws, sock, sleeping, beat>>

\* st: "aborted" or "closing" once the close event is certain, without and with
\* an open event before; code: the close code the event will carry; peer: the
\* other end still answers; pings: sent since its last pong.
Socket == [st: {"none", "connecting", "aborted", "open", "closing"},
           code: {"other", "rejected"}, peer: BOOLEAN, pings: 0 .. MaxMissed]
NoSocket == [st |-> "none", code |-> "other", peer |-> FALSE, pings |-> 0]
NewSocket == [NoSocket EXCEPT !.st = "connecting", !.peer = TRUE]
Exists(s) == sock[s].st # "none"

\* The socket whose interval runs (NoSlot: none), whether its first tick is
\* still to come, heartbeatAlive and heartbeatMissed.
Heartbeat == [of: Slot \cup {NoSlot}, first: BOOLEAN, alive: BOOLEAN, missed: 0 .. MaxMissed]
NoHeartbeat == [of |-> NoSlot, first |-> FALSE, alive |-> FALSE, missed |-> 0]

Init ==
  /\ used = FALSE /\ closed = FALSE /\ stopped = FALSE
  /\ ws = NoSlot
  /\ sock = [s \in Slot |-> NoSocket]
  /\ sleeping = 0
  /\ beat = NoHeartbeat

-----------------------------------------------------------------------------
(* Connecting.                                                             *)

\* doConnect(). A new socket is this.ws as soon as it is made.
DoConnect ==
  \E s \in Slot :
    /\ ~Exists(s)
    /\ sock' = [sock EXCEPT ![s] = NewSocket]
    /\ ws' = s

\* connect(): each object is connected once.
Connect ==
  /\ ~used
  /\ used' = TRUE
  /\ DoConnect
  /\ UNCHANGED <<closed, stopped, sleeping, beat>>

\* Mutant of WakeUp: it does not look at closed after its sleep.
WakeUpAnyway ==
  /\ sleeping > 0
  /\ sleeping' = sleeping - 1
  /\ DoConnect
  /\ UNCHANGED <<used, closed, stopped, beat>>

\* attemptReconnect() after its sleep.
WakeUp ==
  /\ sleeping > 0
  /\ sleeping' = sleeping - 1
  /\ IF closed THEN UNCHANGED <<ws, sock>> ELSE DoConnect
  /\ UNCHANGED <<used, closed, stopped, beat>>

\* Mutant of Opened: the first tick counts a missed pong.
OpenedCounting(s) ==
  /\ sock[s].st = "connecting" /\ sock[s].peer
  /\ sock' = [sock EXCEPT ![s].st = "open"]
  /\ beat' = [NoHeartbeat EXCEPT !.of = s]
  /\ UNCHANGED <<used, closed, stopped, ws, sleeping>>

\* open: startHeartbeat(), then the hook of the subclass.
Opened(s) ==
  /\ sock[s].st = "connecting" /\ sock[s].peer
  /\ sock' = [sock EXCEPT ![s].st = "open"]
  /\ beat' = [NoHeartbeat EXCEPT !.of = s, !.first = TRUE]
  /\ UNCHANGED <<used, closed, stopped, ws, sleeping>>

-----------------------------------------------------------------------------
(* The end of a connection.                                                *)

\* close(): stopHeartbeat(), then one of onPermanentClose(), the return of a
\* closed object, and doReconnect().
Closed(s) ==
  /\ sock[s].st \in {"aborted", "closing"}
  /\ sock' = [sock EXCEPT ![s] = NoSocket]
  /\ beat' = NoHeartbeat
  /\ IF ~closed /\ AuthCode /\ sock[s].code = "rejected"
       THEN closed' = TRUE /\ sleeping' = sleeping
       ELSE closed' = closed /\ sleeping' = IF closed THEN sleeping ELSE sleeping + 1
  /\ UNCHANGED <<used, stopped, ws>>

\* Mutant of Refused: the promise is rejected, so that attemptReconnect() tries
\* again, as does `close'.
RefusedRejecting(s) ==
  /\ "refuse" \in Faults
  /\ sock[s].st = "connecting"
  /\ sock' = [sock EXCEPT ![s].st = "aborted"]
  /\ sleeping' = IF closed THEN sleeping ELSE sleeping + 1
  /\ UNCHANGED <<used, closed, stopped, ws, beat>>

\* What `error' does before `close': the object has a socket by then, so the
\* promise of doConnect() is not rejected and nothing is retried.
Refused(s) ==
  /\ "refuse" \in Faults
  /\ sock[s].st = "connecting"
  /\ sock' = [sock EXCEPT ![s].st = "aborted"]
  /\ UNCHANGED <<used, closed, stopped, ws, sleeping, beat>>

\* closeWebSocket(): close() or, during the handshake, terminate().
CloseWebSocket(s) ==
  CASE sock[s].st = "connecting" -> [sock[s] EXCEPT !.st = "aborted"]
    [] sock[s].st = "open" -> [sock[s] EXCEPT !.st = "closing"]
    [] OTHER -> sock[s]

\* disconnect().
Disconnect ==
  /\ used /\ ~stopped
  /\ stopped' = TRUE /\ closed' = TRUE
  /\ beat' = NoHeartbeat
  /\ sock' = [s \in Slot |-> IF s = ws THEN CloseWebSocket(s) ELSE sock[s]]
  /\ ws' = NoSlot
  /\ UNCHANGED <<used, sleeping>>

-----------------------------------------------------------------------------
(* The heartbeat.                                                          *)

\* Mutant of Ping: the reset of heartbeatAlive is forgotten.
PingStillAlive(s, b) ==
  /\ beat' = [b EXCEPT !.first = FALSE]
  /\ sock' = [sock EXCEPT ![s].pings = IF @ < MaxMissed THEN @ + 1 ELSE @]

Ping(s, b) ==
  /\ beat' = [b EXCEPT !.first = FALSE, !.alive = FALSE]
  /\ sock' = [sock EXCEPT ![s].pings = IF @ < MaxMissed THEN @ + 1 ELSE @]

HangUp(s) ==
  /\ beat' = [beat EXCEPT !.missed = MaxMissed]
  /\ sock' = [sock EXCEPT ![s].st = "closing"]

\* Mutant of Tick: it never hangs up.
TickPatient ==
  /\ beat.of # NoSlot
  /\ sock[beat.of].st = "open"
  /\ IF beat.first THEN Ping(beat.of, beat)
     ELSE Ping(beat.of, [beat EXCEPT !.missed = IF beat.alive THEN 0 ELSE @ + 1])
  /\ UNCHANGED <<used, closed, stopped, ws, sleeping>>

\* A tick of the interval of startHeartbeat().
Tick ==
  /\ beat.of # NoSlot
  /\ sock[beat.of].st = "open"
  /\ IF beat.first THEN Ping(beat.of, beat)
     ELSE IF beat.alive THEN Ping(beat.of, [beat EXCEPT !.missed = 0])
     ELSE IF beat.missed + 1 >= MaxMissed THEN HangUp(beat.of)
     ELSE Ping(beat.of, [beat EXCEPT !.missed = @ + 1])
  /\ UNCHANGED <<used, closed, stopped, ws, sleeping>>

\* A pong, in the closing handshake too.
Pong(s) ==
  /\ sock[s].st \in {"open", "closing"} /\ sock[s].peer /\ sock[s].pings > 0
  /\ sock' = [sock EXCEPT ![s].pings = 0]
  /\ beat' = [beat EXCEPT !.alive = TRUE]
  /\ UNCHANGED <<used, closed, stopped, ws, sleeping>>

-----------------------------------------------------------------------------
(* The network and the server.                                             *)

Fault(s) ==
  /\ \/ /\ "drop" \in Faults /\ sock[s].st = "open"
        /\ sock' = [sock EXCEPT ![s].st = "closing"]
     \/ /\ "reject" \in Faults /\ sock[s].st = "open" /\ sock[s].peer
        /\ sock' = [sock EXCEPT ![s].st = "closing", ![s].code = "rejected"]
     \/ /\ "vanish" \in Faults /\ sock[s].st = "open" /\ sock[s].peer
        /\ sock' = [sock EXCEPT ![s].peer = FALSE]
     \/ /\ "swallow" \in Faults /\ sock[s].st = "connecting" /\ sock[s].peer
        /\ sock' = [sock EXCEPT ![s].peer = FALSE]
  /\ UNCHANGED <<used, closed, stopped, ws, sleeping, beat>>

Next ==
  \/ Connect \/ WakeUp \/ Disconnect \/ Tick
  \/ \E s \in Slot : Opened(s) \/ Closed(s) \/ Refused(s) \/ Pong(s) \/ Fault(s)

Spec == Init /\ [][Next]_vars

\* Timers fire and close events are delivered (the ws library gives the closing
\* handshake 30 s), and the server does not refuse every handshake there is.
Fairness ==
  /\ WF_vars(WakeUp) /\ WF_vars(Tick)
  /\ \A s \in Slot : WF_vars(Closed(s)) /\ SF_vars(Opened(s))

FairSpec == Spec /\ Fairness

-----------------------------------------------------------------------------
(* Properties.                                                             *)

TypeOK ==
  /\ used \in BOOLEAN /\ closed \in BOOLEAN /\ stopped \in BOOLEAN
  /\ ws \in Slot \cup {NoSlot}
  /\ sock \in [Slot -> Socket]
  /\ sleeping \in Nat
  /\ beat \in Heartbeat

\* There is one connection, or one attempt at it: an object never has two
\* sockets, nor a socket and a retry under way, whatever order error, close,
\* timers and disconnect() come in.
OneConnection == Cardinality({s \in Slot : Exists(s)}) + sleeping <= 1

\* The heartbeat hangs up only on a peer that has left MaxMissed pings in a row
\* unanswered: it counts no ping before there was one, and none of an earlier
\* connection.
HangsUpOnSilence ==
  [][\A s \in Slot :
       sock[s].st = "open" /\ sock'[s].st = "closing" /\ beat'.missed = MaxMissed =>
         sock[s].pings = MaxMissed]_vars

\* A peer that is gone without a word is noticed, whatever it had answered.
GoneIsNoticed == \A s \in Slot : (sock[s].st = "open" /\ ~sock[s].peer) ~> (sock[s].st # "open")

\* What the subclasses see is AgentLink: a subclass whose object is closed gets
\* no connection any more, and never a second one.
LinkOf ==
  IF closed THEN IF \E s \in Slot : sock[s].st = "closing" THEN "ending" ELSE "over"
  ELSE IF beat.of # NoSlot THEN "up" ELSE "down"
Link == INSTANCE AgentLink WITH link <- LinkOf
ImplementsLink == Link!LinkSpec

\* The connection is sound: one at a time, given up for a silent peer only.
SocketSound == [](TypeOK /\ OneConnection) /\ HangsUpOnSilence
=============================================================================

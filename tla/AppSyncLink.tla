------------------------------ MODULE AppSyncLink ------------------------------
(***************************************************************************)
(* The link by which an agent learns of its commands: AppSyncSubscriber on *)
(* top of AgentSocket, with startSubscriptionMode() of agent-transport.ts, *)
(* which subscribes once connect() has returned and lists the pending      *)
(* commands then and after each reconnect.                                 *)
(*                                                                         *)
(* The server notifies a command once, when it is assigned, to whoever is  *)
(* subscribed at that moment. What the agent does with a command it knows  *)
(* of is the subject of CommandDelivery.                                   *)
(***************************************************************************)
EXTENDS AgentSocket

CONSTANTS
  Command,     \* commands the server may assign
  Threshold,   \* APPSYNC_CONNECT_FAILURE_ESCALATION_THRESHOLD
  MaxScans,    \* bound: lists of pending commands under way
  LinkFaults   \* what else may go wrong, see LinkFaultKind

\* start_error: the server refuses the subscription; complete: it ends it;
\* list: the list of pending commands cannot be had.
LinkFaultKind == {"start_error", "complete", "list"}

ASSUME LinkAssumption ==
  /\ Threshold \in Nat \ {0}
  /\ MaxScans \in Nat \ {0}
  /\ LinkFaults \subseteq LinkFaultKind
  /\ ~AuthCode

VARIABLES
  caller,     \* the socket whose connection_ack startSubscriptionMode() awaits
  running,    \* it has gone on: tenantCode and the callbacks are set
  acked,      \* ackedThisConnection
  failures,   \* consecutiveConnectFailures, up to Threshold
  notified,   \* persistentFailureNotified
  keepAlive,  \* keepAliveTimer is armed
  sub,        \* the subscription of each socket, see SubState
  notices,    \* notifications on their way, per socket
  scans,      \* lists of pending commands under way
  cmd         \* "none", "assigned", and "known" to the agent

own == <<caller, running, acked, failures, notified, keepAlive, sub, notices, scans, cmd>>
linkVars == <<vars, own>>

\* "sent": `start' is on its way; "on": the server notifies this socket.
SubState == {"none", "sent", "on", "refused"}

LinkInit ==
  /\ Init
  /\ caller = NoSlot /\ running = FALSE
  /\ acked = FALSE /\ failures = 0 /\ notified = FALSE /\ keepAlive = FALSE
  /\ sub = [s \in Slot |-> "none"]
  /\ notices = [s \in Slot |-> {}]
  /\ scans = 0
  /\ cmd = [c \in Command |-> "none"]

-----------------------------------------------------------------------------
(* The subscriber.                                                         *)

\* startSubscriptionMode() up to the await of connect().
StartSubscriptionMode ==
  /\ Connect
  /\ caller' = ws'
  /\ UNCHANGED <<running, acked, failures, notified, keepAlive, sub, notices, scans, cmd>>

Reconnect == WakeUp /\ UNCHANGED own

\* onOpen() sends connection_init.
InitSent(s) == Opened(s) /\ UNCHANGED own

\* Mutant of Subscribing: the handler of connection_ack does not subscribe.
SubscribingOnce(s) == running' /\ ~running /\ ws = s /\ sock[s].st = "open"

\* subscribe() or the handler of connection_ack: sendSubscription() does nothing
\* without an open socket.
Subscribing(s) == running' /\ ws = s /\ sock[s].st = "open"

\* connection_ack, also one that arrives in the closing handshake of
\* disconnect(). It ends connect(), whose caller subscribes and lists, or an
\* attempt to reconnect, whose callback lists.
AckReceived(s) ==
  /\ ~acked /\ sock[s].peer /\ scans < MaxScans
  /\ sock[s].st = "open" \/ (sock[s].st = "closing" /\ stopped)
  /\ acked' = TRUE /\ failures' = 0 /\ notified' = FALSE /\ keepAlive' = TRUE
  /\ running' = (running \/ caller = s)
  /\ caller' = IF caller = s THEN NoSlot ELSE caller

\* Mutant of Ack: the callback for reconnects is not set.
AckListingOnce(s) ==
  /\ AckReceived(s)
  /\ sub' = IF Subscribing(s) THEN [sub EXCEPT ![s] = "sent"] ELSE sub
  /\ scans' = IF running' /\ ~running THEN scans + 1 ELSE scans
  /\ UNCHANGED <<vars, notices, cmd>>

Ack(s) ==
  /\ AckReceived(s)
  /\ sub' = IF Subscribing(s) THEN [sub EXCEPT ![s] = "sent"] ELSE sub
  /\ scans' = IF running' THEN scans + 1 ELSE scans
  /\ UNCHANGED <<vars, notices, cmd>>

\* Mutant of CountFailure: the count goes on past the threshold.
CountFailureOn ==
  IF acked THEN UNCHANGED <<failures, notified>>
  ELSE failures' = failures + 1 /\ notified' = (notified \/ failures' = Threshold)

\* onWebSocketClose() after the base class.
CountFailure ==
  IF acked THEN UNCHANGED <<failures, notified>>
  ELSE /\ failures' = IF failures < Threshold THEN failures + 1 ELSE failures
       /\ notified' = (notified \/ failures' = Threshold)

LinkClosed(s) ==
  /\ Closed(s)
  /\ CountFailure
  /\ acked' = FALSE /\ keepAlive' = FALSE
  /\ caller' = IF caller = s THEN NoSlot ELSE caller
  /\ sub' = [sub EXCEPT ![s] = "none"]
  /\ notices' = [notices EXCEPT ![s] = {}]
  /\ UNCHANGED <<running, scans, cmd>>

\* disconnect() with onDisconnect(): stop is sent.
LinkDisconnect ==
  /\ Disconnect
  /\ keepAlive' = FALSE
  /\ sub' = [s \in Slot |-> IF s = ws THEN "none" ELSE sub[s]]
  /\ UNCHANGED <<caller, running, acked, failures, notified, notices, scans, cmd>>

\* keepAliveTimer: a server that is there sends `ka' in time.
KeepAliveTimeout ==
  /\ keepAlive /\ ws # NoSlot
  /\ sock[ws].st = "open" /\ ~sock[ws].peer
  /\ sock' = [sock EXCEPT ![ws].st = "closing"]
  /\ keepAlive' = FALSE
  /\ UNCHANGED <<used, closed, stopped, ws, sleeping, beat>>
  /\ UNCHANGED <<caller, running, acked, failures, notified, sub, notices, scans, cmd>>

\* checkPendingCommands(): the list of the moment, or nothing.
Scan ==
  /\ scans > 0
  /\ scans' = scans - 1
  /\ \/ cmd' = [c \in Command |-> IF cmd[c] = "assigned" THEN "known" ELSE cmd[c]]
     \/ "list" \in LinkFaults /\ UNCHANGED cmd
  /\ UNCHANGED <<vars, caller, running, acked, failures, notified, keepAlive, sub, notices>>

Notified(s, c) ==
  /\ sock[s].st = "open"
  /\ c \in notices[s]
  /\ notices' = [notices EXCEPT ![s] = @ \ {c}]
  /\ cmd' = [cmd EXCEPT ![c] = "known"]
  /\ UNCHANGED <<vars, caller, running, acked, failures, notified, keepAlive, sub, scans>>

-----------------------------------------------------------------------------
(* The server.                                                             *)

Reachable(s) == sock[s].st = "open" /\ sock[s].peer

Subscription(s) ==
  /\ Reachable(s)
  /\ \/ sub[s] = "sent" /\ sub' = [sub EXCEPT ![s] = "on"]
     \/ "start_error" \in LinkFaults /\ sub[s] = "sent" /\ sub' = [sub EXCEPT ![s] = "refused"]
     \/ "complete" \in LinkFaults /\ sub[s] = "on" /\ sub' = [sub EXCEPT ![s] = "refused"]
  /\ UNCHANGED <<vars, caller, running, acked, failures, notified, keepAlive, notices, scans, cmd>>

Assign(c) ==
  /\ cmd[c] = "none"
  /\ cmd' = [cmd EXCEPT ![c] = "assigned"]
  /\ notices' = [s \in Slot |-> IF Reachable(s) /\ sub[s] = "on" THEN notices[s] \cup {c} ELSE notices[s]]
  /\ UNCHANGED <<vars, caller, running, acked, failures, notified, keepAlive, sub, scans>>

Beating == Tick /\ UNCHANGED own
SocketEvent(s) == (Refused(s) \/ Pong(s) \/ Fault(s)) /\ UNCHANGED own

LinkNext ==
  \/ StartSubscriptionMode \/ Reconnect \/ LinkDisconnect \/ KeepAliveTimeout \/ Scan \/ Beating
  \/ \E s \in Slot :
       \/ InitSent(s) \/ Ack(s) \/ LinkClosed(s) \/ Subscription(s) \/ SocketEvent(s)
       \/ \E c \in Command : Notified(s, c)
  \/ \E c \in Command : Assign(c)

LinkSpec == LinkInit /\ [][LinkNext]_linkVars

\* As AgentSocket. The server answers connection_init and start on a connection
\* that lasts, the agent gets what is sent on it, and lists end.
LinkFairness ==
  /\ WF_linkVars(Reconnect) /\ WF_linkVars(Beating) /\ WF_linkVars(Scan)
  /\ WF_linkVars(KeepAliveTimeout)
  /\ \A s \in Slot :
       /\ WF_linkVars(LinkClosed(s)) /\ SF_linkVars(InitSent(s))
       /\ SF_linkVars(Ack(s)) /\ SF_linkVars(Subscription(s))
       /\ \A c \in Command : WF_linkVars(Notified(s, c))

FairLinkSpec == LinkSpec /\ LinkFairness

-----------------------------------------------------------------------------
(* Properties.                                                             *)

LinkTypeOK ==
  /\ TypeOK
  /\ caller \in Slot \cup {NoSlot}
  /\ running \in BOOLEAN /\ acked \in BOOLEAN /\ notified \in BOOLEAN /\ keepAlive \in BOOLEAN
  /\ failures \in 0 .. Threshold
  /\ sub \in [Slot -> SubState]
  /\ notices \in [Slot -> SUBSET Command]
  /\ scans \in 0 .. MaxScans
  /\ cmd \in [Command -> {"none", "assigned", "known"}]

Linked == \E s \in Slot : sock[s].st = "open" /\ acked

\* Once startSubscriptionMode() has gone on, the agent is subscribed again and
\* again, whichever way a connection ended, until it is disconnected.
Resubscribed == running ~> (closed \/ \E s \in Slot : Reachable(s) /\ sub[s] = "on")

\* A command assigned while the link was down is found by the list that follows
\* the reconnect: no notification was sent for it and none ever will be.
OutageCovered ==
  \A c \in Command :
    (running /\ cmd[c] = "assigned" /\ ~Linked) ~> (closed \/ cmd[c] = "known")

\* The link recovers from an outage, and what was assigned during it is found.
LinkRecovers == []LinkTypeOK /\ Resubscribed /\ OutageCovered
=============================================================================

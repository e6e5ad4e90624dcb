---------------------------- MODULE CodeServerTunnel ----------------------------
(***************************************************************************)
(* VS Code in the browser: VsCodeTunnelWebSocket on top of AgentLink,      *)
(* the code-server processes it starts and stops (VsCodeServer), and what  *)
(* it forwards to them and to other local ports (VsCodeWsProxy,            *)
(* proxyHttpRequest).                                                      *)
(*                                                                         *)
(* start() awaits twice, for a port and for an answer of /healthz, and the *)
(* tunnel goes on handling messages meanwhile: more than one VsCodeServer  *)
(* may be about, of which vsCodeServer is the last. Its health check asks  *)
(* whoever listens on the port. The rest of the tunnel, the browser, is    *)
(* BrowserSessions. Payloads, paths and the files of the sandbox are left  *)
(* out.                                                                    *)
(***************************************************************************)
EXTENDS AgentLink, Integers, FiniteSets

CONSTANTS
  Server,      \* VsCodeServer objects that may exist at one time
  NoServer,
  Ask,         \* users of the web client: each has one request at a time
  Forward,     \* session ids of port forwards
  SubSocket,   \* ids of the sockets that ws_frame opens
  Faults       \* what else may go wrong, see FaultKind

\* die: a code-server exits by itself; slow: it takes longer than
\* STARTUP_TIMEOUT_MS to listen; deaf: it does not heed SIGTERM; absent: it is
\* not installed; busy: another program has the default port.
FaultKind == {"die", "slow", "deaf", "absent", "busy"}

ASSUME TunnelAssumption ==
  /\ NoServer \notin Server
  /\ Faults \subseteq FaultKind

VARIABLES
  cur,      \* vsCodeServer
  fresh,    \* vsCodeServerEnvSignature is that of what the web has set
  srv,      \* the VsCodeServer objects, see Object
  proxy,    \* wsProxy is set
  forward,  \* portForwardSessions
  sub,      \* the sockets of the proxies, see Sub
  ask       \* what each user waits for, or has been told; "begun": the headers of the
            \* answer have come, and the rest of it may never

own == <<cur, fresh, srv, proxy, forward, sub, ask>>
vars == <<link, own>>

Port == 1 .. Cardinality(Server) + 1
DefaultPort == 1

\* at: where start() is; proc: the process, "term" after SIGTERM; held:
\* this.process is set; running: also that idleTimer is armed; for: who awaits
\* start().
Object == [at: {"none", "port", "wait", "over"}, proc: {"none", "up", "term", "dead"},
           listens: BOOLEAN, held: BOOLEAN, running: BOOLEAN,
           port: Port, for: Ask]
NoObject == [at |-> "none", proc |-> "none", listens |-> FALSE, held |-> FALSE, running |-> FALSE,
             port |-> DefaultPort, for |-> CHOOSE a \in Ask : TRUE]

\* of: the proxy through which a frame reaches the socket; "stray": none does
\* any more, "lost" if its peer is no code-server.
Sub == [st: {"none", "connecting", "open"}, of: Forward \cup {"server", "stray", "lost"}]
NoSub == [st |-> "none", of |-> "stray"]

Init ==
  /\ LinkInit
  /\ cur = NoServer /\ fresh = FALSE
  /\ srv = [s \in Server |-> NoObject]
  /\ proxy = FALSE
  /\ forward = {}
  /\ sub = [x \in SubSocket |-> NoSub]
  /\ ask = [a \in Ask |-> "idle"]

Alive(s) == srv[s].proc \in {"up", "term"}
Runs == cur # NoServer /\ srv[cur].running
Served(p) == \E s \in Server : srv[s].listens /\ srv[s].port = p

-----------------------------------------------------------------------------
(* VsCodeServer.                                                           *)

\* stop(). A start() that still looks for a port has no process to stop, and
\* goes on.
Stopped(o) ==
  IF ~o.held THEN o
  ELSE [o EXCEPT !.held = FALSE, !.running = FALSE,
                 !.proc = IF @ = "up" THEN "term" ELSE @]

\* start() once resolveAvailablePort() has returned.
PortFound(s) ==
  /\ srv[s].at = "port"
  /\ \E p \in Port :
       /\ IF p = DefaultPort THEN ~Served(p)
          ELSE (Served(DefaultPort) \/ "busy" \in Faults) /\ \A t \in Server : srv[t].port # p
       /\ \/ srv' = [srv EXCEPT ![s].at = "wait", ![s].port = p, ![s].proc = "up", ![s].held = TRUE] /\ UNCHANGED ask
          \/ /\ "absent" \in Faults
             /\ srv' = [srv EXCEPT ![s].at = "over", ![s].port = p, ![s].proc = "dead", ![s].held = TRUE]
             /\ ask' = [ask EXCEPT ![srv[s].for] = "idle"]
  /\ UNCHANGED <<link, cur, fresh, proxy, forward, sub>>

\* The exit listener.
Exited(o) == [o EXCEPT !.proc = "dead", !.listens = FALSE, !.running = FALSE]

\* The process gets to bind its port, or finds it taken and exits.
Listens(s) ==
  /\ srv[s].proc = "up" /\ ~srv[s].listens
  /\ srv' = [srv EXCEPT ![s] = IF Served(@.port) THEN Exited(@) ELSE [@ EXCEPT !.listens = TRUE]]
  /\ UNCHANGED <<link, cur, fresh, proxy, forward, sub, ask>>

Exits(s) ==
  /\ \/ srv[s].proc = "term"
     \/ srv[s].proc = "up" /\ "die" \in Faults
  /\ srv' = [srv EXCEPT ![s] = Exited(@)]
  /\ UNCHANGED <<link, cur, fresh, proxy, forward, sub, ask>>

\* A proxy is dropped, with or without closeAll(), which knows the sockets that
\* have opened.
Dropped(f) == [x \in SubSocket |->
  IF sub[x].of = f THEN [sub[x] EXCEPT !.of = IF f = "server" THEN "stray" ELSE "lost"] ELSE sub[x]]
ClosedAll(F) == [x \in SubSocket |->
  IF sub[x].of \notin F THEN sub[x]
  ELSE IF sub[x].st = "open" THEN NoSub
  ELSE [sub[x] EXCEPT !.of = IF @ = "server" THEN "stray" ELSE "lost"]]

\* Mutant of Ready: the timers of a server that was replaced are not armed.
ReadyUntimed(s) ==
  /\ srv[s].at = "wait" /\ Served(srv[s].port)
  /\ srv' = [srv EXCEPT ![s].at = "over", ![s].running = (cur = s)]
  /\ IF cur = NoServer
       THEN /\ ask' = [ask EXCEPT ![srv[s].for] = "idle"]
            /\ UNCHANGED <<proxy, sub>>
       ELSE /\ ask' = [ask EXCEPT ![srv[s].for] = "ready"]
            /\ proxy' = TRUE
            /\ sub' = Dropped("server")
  /\ UNCHANGED <<link, cur, fresh, forward>>

\* waitForReady() has an answer. handleVsCodeOpen() goes on with whatever
\* vsCodeServer is by now; null makes it report a failure.
Ready(s) ==
  /\ srv[s].at = "wait" /\ Served(srv[s].port)
  /\ srv' = [srv EXCEPT ![s].at = "over", ![s].running = TRUE]
  /\ IF cur = NoServer
       THEN /\ ask' = [ask EXCEPT ![srv[s].for] = "idle"]
            /\ UNCHANGED <<proxy, sub>>
       ELSE /\ ask' = [ask EXCEPT ![srv[s].for] = "ready"]
            /\ proxy' = TRUE
            /\ sub' = Dropped("server")
  /\ UNCHANGED <<link, cur, fresh, forward>>

\* Mutant of StartTimesOut: the user is not told.
StartTimesOutMute(s) ==
  /\ srv[s].at = "wait" /\ ~Served(srv[s].port)
  /\ srv[s].proc # "up" \/ "slow" \in Faults
  /\ srv' = [srv EXCEPT ![s].at = "over"]
  /\ UNCHANGED <<link, cur, fresh, proxy, forward, sub, ask>>

\* waitForReady() gives up, on a process that has gone or is slow; neither is
\* stopped.
StartTimesOut(s) ==
  /\ srv[s].at = "wait" /\ ~Served(srv[s].port)
  /\ srv[s].proc # "up" \/ "slow" \in Faults
  /\ srv' = [srv EXCEPT ![s].at = "over"]
  /\ ask' = [ask EXCEPT ![srv[s].for] = "idle"]
  /\ UNCHANGED <<link, cur, fresh, proxy, forward, sub>>

\* The idle timer. The tunnel touches no server but its own.
Idle(s) ==
  /\ srv[s].running
  /\ srv' = [srv EXCEPT ![s] = [Stopped(@) EXCEPT !.running = FALSE]]
  /\ UNCHANGED <<link, cur, fresh, proxy, forward, sub, ask>>

\* Nothing refers to the object any more.
Collected(s) ==
  /\ s # cur /\ srv[s].at = "over" /\ ~Alive(s) /\ ~srv[s].running
  /\ srv' = [srv EXCEPT ![s] = NoObject]
  /\ UNCHANGED <<link, cur, fresh, proxy, forward, sub, ask>>

-----------------------------------------------------------------------------
(* Messages of the server.                                                 *)

\* Also in the closing handshake of disconnect().
Receives == link \in {"up", "ending"}

\* handleVsCodeOpen(): a wrong tenant or directory is refused.
Refuse(a) == ask' = [ask EXCEPT ![a] = "idle"] /\ UNCHANGED <<cur, fresh, srv, proxy, sub>>

Reuse(a) ==
  /\ Runs /\ fresh
  /\ ask' = [ask EXCEPT ![a] = "ready"]
  /\ UNCHANGED <<cur, fresh, srv, proxy, sub>>

\* A server of an older environment is stopped first.
Start(a, s) ==
  /\ ~(Runs /\ fresh)
  /\ srv[s].at = "none"
  /\ srv' = [t \in Server |-> IF t = s THEN [NoObject EXCEPT !.at = "port", !.for = a]
                              ELSE IF Runs /\ t = cur THEN Stopped(srv[t]) ELSE srv[t]]
  /\ cur' = s /\ fresh' = TRUE
  /\ IF Runs THEN proxy' = FALSE /\ sub' = Dropped("server") ELSE UNCHANGED <<proxy, sub>>
  /\ ask' = [ask EXCEPT ![a] = "open"]

VsCodeOpen(a) ==
  /\ Receives /\ ask[a] # "http"
  /\ Refuse(a) \/ Reuse(a) \/ \E s \in Server : Start(a, s)
  /\ UNCHANGED <<link, forward>>

\* handleHttpRequest(). A user may give up an answer that does not end.
HttpRequest(a) ==
  /\ Receives /\ ask[a] \in {"ready", "begun"}
  /\ forward # {} \/ Runs
  /\ ask' = [ask EXCEPT ![a] = "http"]
  /\ UNCHANGED <<link, cur, fresh, srv, proxy, forward, sub>>

\* proxyHttpRequest() settles: the end of the answer, an error or the timeout
\* of a silent connection.
HttpAnswered(a) ==
  /\ ask[a] \in {"http", "begun"}
  /\ ask' = [ask EXCEPT ![a] = "ready"]
  /\ UNCHANGED <<link, cur, fresh, srv, proxy, forward, sub>>

\* The headers come. The answer may go on for ever; and if the target dies or
\* hangs up amid it neither `end' nor the error of the request follows, and
\* there is no connection left to time out.
HttpBegins(a) ==
  /\ ask[a] = "http"
  /\ ask' = [ask EXCEPT ![a] = "begun"]
  /\ UNCHANGED <<link, cur, fresh, srv, proxy, forward, sub>>

\* handlePortForwardOpen(): a second open for the id drops the first proxy.
PortForwardOpen(f) ==
  /\ Receives
  /\ forward' = forward \cup {f}
  /\ sub' = Dropped(f)
  /\ UNCHANGED <<link, cur, fresh, srv, proxy, ask>>

PortForwardClose(f) ==
  /\ Receives /\ f \in forward
  /\ forward' = forward \ {f}
  /\ sub' = ClosedAll({f})
  /\ UNCHANGED <<link, cur, fresh, srv, proxy, ask>>

\* The proxy of a ws_frame, by its session id.
Proxies == forward \cup IF Runs /\ proxy THEN {"server"} ELSE {}

\* handleWsFrame() with isOpen.
SubOpen(x, f) ==
  /\ Receives /\ f \in Proxies /\ sub[x].st = "none"
  /\ sub' = [sub EXCEPT ![x] = [st |-> "connecting", of |-> f]]
  /\ UNCHANGED <<link, cur, fresh, srv, proxy, forward, ask>>

\* handleWsFrame() with isClosed: a socket that has not opened is not found.
SubClose(x) ==
  /\ Receives /\ sub[x].of \in Proxies /\ sub[x].st = "open"
  /\ sub' = [sub EXCEPT ![x] = NoSub]
  /\ UNCHANGED <<link, cur, fresh, srv, proxy, forward, ask>>

\* The local socket: `open'; `close', also of an attempt that failed.
SubEvent(x) ==
  /\ \/ sub[x].st = "connecting" /\ sub' = [sub EXCEPT ![x].st = "open"]
     \/ sub[x].st # "none" /\ sub' = [sub EXCEPT ![x] = NoSub]
  /\ UNCHANGED <<link, cur, fresh, srv, proxy, forward, ask>>

-----------------------------------------------------------------------------
(* The connection.                                                         *)

\* cleanup().
Cleanup ==
  /\ sub' = ClosedAll(Forward \cup {"server"})
  /\ forward' = {} /\ proxy' = FALSE
  /\ srv' = IF cur = NoServer THEN srv ELSE [srv EXCEPT ![cur] = Stopped(@)]
  /\ cur' = NoServer

\* handleVsCodeClose(): whoever else has the editor or a port open loses it.
VsCodeClose(a) ==
  /\ Receives /\ ask[a] \in {"ready", "begun"}
  /\ Cleanup
  /\ ask' = [ask EXCEPT ![a] = "idle"]
  /\ UNCHANGED <<link, fresh>>

\* onPermanentClose() and onDisconnect(). A lost connection changes nothing: the
\* server tells the agent when a session is over.
LinkEvent ==
  \/ (Up \/ Down \/ Ended) /\ UNCHANGED own
  \/ (Reject \/ Stop) /\ Cleanup /\ UNCHANGED <<fresh, ask>>

\* The web sets other variables, or sets them back (a config sync has run).
EnvChanges ==
  /\ fresh' = ~fresh
  /\ UNCHANGED <<link, cur, srv, proxy, forward, sub, ask>>

Next ==
  \/ LinkEvent \/ EnvChanges
  \/ \E s \in Server :
       PortFound(s) \/ Listens(s) \/ Exits(s) \/ Ready(s) \/ StartTimesOut(s) \/ Idle(s) \/ Collected(s)
  \/ \E a \in Ask :
       VsCodeOpen(a) \/ HttpRequest(a) \/ HttpAnswered(a) \/ HttpBegins(a) \/ VsCodeClose(a)
  \/ \E f \in Forward : PortForwardOpen(f) \/ PortForwardClose(f)
  \/ \E x \in SubSocket : SubClose(x) \/ SubEvent(x) \/ \E f \in Forward \cup {"server"} : SubOpen(x, f)

Spec == Init /\ [][Next]_vars

\* Ports and processes come to an end; a request gets its headers, an error or
\* its timeout, and no more is known of the answer; a signalled code-server
\* exits; the idle timer of a server that nobody uses any more runs out. The
\* sockets to a code-server go with it.
Fairness ==
  /\ WF_vars(Ended /\ UNCHANGED own)
  /\ \A s \in Server :
       /\ WF_vars(PortFound(s)) /\ WF_vars(Listens(s))
       /\ WF_vars(Ready(s)) /\ WF_vars(StartTimesOut(s))
       /\ "deaf" \notin Faults => WF_vars(srv[s].proc = "term" /\ Exits(s))
       /\ WF_vars((s # cur \/ ~Receives) /\ Idle(s))
  /\ \A a \in Ask : WF_vars(ask[a] = "http" /\ (HttpBegins(a) \/ HttpAnswered(a)))
  /\ \A x \in SubSocket :
       WF_vars((sub[x].of \in {"server", "stray"} /\ \A s \in Server : ~Alive(s)) /\ SubEvent(x))

FairSpec == Spec /\ Fairness

-----------------------------------------------------------------------------
(* Properties.                                                             *)

TypeOK ==
  /\ link \in LinkState
  /\ cur \in Server \cup {NoServer}
  /\ fresh \in BOOLEAN
  /\ srv \in [Server -> Object]
  /\ proxy \in BOOLEAN
  /\ forward \subseteq Forward
  /\ sub \in [SubSocket -> Sub]
  /\ ask \in [Ask -> {"idle", "open", "http", "begun", "ready"}]

\* Whoever asks for the editor is answered, also when the server they wait for
\* is closed, replaced or dies under them; and no request for a page is left
\* before its answer has begun (handleVsCodeOpen, handleHttpRequest).
EveryoneAnswered == \A a \in Ask : (ask[a] \in {"open", "http"}) ~> (ask[a] \notin {"open", "http"})

\* ... by a tunnel whose records are well-formed throughout.
AnswersKept == []TypeOK /\ EveryoneAnswered

\* When the tunnel is over for good no code-server survives it, not even one
\* whose start() was under way, or one that was replaced; nor does a socket to
\* one.
NoneLeft ==
  link = "over" ~> /\ \A s \in Server : ~Alive(s)
                   /\ \A x \in SubSocket : sub[x].st = "none" \/ sub[x].of \notin {"server", "stray"}

=============================================================================

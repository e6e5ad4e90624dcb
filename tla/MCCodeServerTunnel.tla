--------------------------- MODULE MCCodeServerTunnel ---------------------------
(***************************************************************************)
(* Instances of CodeServerTunnel for TLC, and the statements of the        *)
(* repository that the tunnel does not live up to.                         *)
(***************************************************************************)
EXTENDS CodeServerTunnel

CONSTANTS v1, v2, a1, f1, x1

-----------------------------------------------------------------------------
(* Statements of the repository that do not hold.                          *)

\* vscode-server.ts: start() "waits for the start of code-server by the health
\* check". Two that start at one time find the same port free; the one that
\* loses it is answered for by the other, and stays "running" without a process.
RunningIsUp == Runs => srv[cur].listens

\* vscode-server.ts on stop(): "SIGKILL after SIGKILL_DELAY_MS". The timer looks
\* at this.process, which stop() has set to null.
StopKills == \A s \in Server : (srv[s].proc = "term") ~> (srv[s].proc # "term")

\* vscode-http-proxy.ts, proxyHttpRequest(): "passes the request on to the local
\* code-server and returns the response". An answer that is cut after its
\* headers, or never ends, is not told to the web, not even as an error.
PagesAnswered == \A a \in Ask : (ask[a] \in {"http", "begun"}) ~> (ask[a] = "ready")

\* vscode-ws-proxy.ts, closeAll(): "closes all connections". One that has not
\* opened yet is not known, and opens afterwards.
ForwardsEnd == \A x \in SubSocket : ~(sub[x].st = "open" /\ sub[x].of = "lost")
=============================================================================

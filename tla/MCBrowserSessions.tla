--------------------------- MODULE MCBrowserSessions ---------------------------
(***************************************************************************)
(* Instances of BrowserSessions for TLC, and the statements of the         *)
(* repository that the sessions do not live up to.                         *)
(***************************************************************************)
EXTENDS BrowserSessions

CONSTANTS o1, o2, tab, r1, r2

-----------------------------------------------------------------------------
(* Statements of the repository that do not hold.                          *)

\* vscode-tunnel-websocket.ts, handleBrowserOpen(): browser_ready says that
\* there is something to see. close() during the start of Chromium is not
\* looked at again: the live view of a closed session starts, and its timer and
\* its Chromium have no end.
NoDeadView == \A o \in Obj : ses[o].live => ses[o].life = "open"

\* vscode-tunnel-websocket.ts, onPermanentClose(): "clean up the resources
\* rather than leave them running". cleanup() has passed when a browser_open is
\* handled during the closing handshake; its live view keeps it from being idle.
\* (NoneLeft with the fault "late".)

\* vscode-tunnel-websocket.ts, handleBrowserSetFile(): after a failure it
\* cancels the chooser "so that the remote input is not left pending". accept()
\* has forgotten the chooser by then, so that there is nothing to cancel.
InputNeverStuck == \A o \in Obj : ses[o].life = "open" /\ ses[o].asks => ses[o].input

\* vscode-tunnel-websocket.ts, handleBrowserSetFile(): the chooser is "not left
\* dangling on any path". No path of a navigation forgets it: the client is asked
\* for a file for a page that has been left.
OfferIsOfPage ==
  \A i \in Id : offer[i] # NoObj /\ ses[offer[i]].life = "open" => ses[offer[i]].asks

\* browser-session.ts, close(): "Close the browser and clean up resources." A close()
\* while getPage() awaits the launch finds no browser; the one that is launched then
\* stays with a session that is closed and not in the table any more.
ClosedIsClean == \A o \in Obj : ses[o].life = "closed" => ~ses[o].br
=============================================================================

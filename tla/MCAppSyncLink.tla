----------------------------- MODULE MCAppSyncLink -----------------------------
(***************************************************************************)
(* Instances of AppSyncLink for TLC, and the statements of the repository  *)
(* that the link does not live up to.                                      *)
(***************************************************************************)
EXTENDS AppSyncLink

CONSTANTS s1, s2, c1, c2

-----------------------------------------------------------------------------
(* Statements of the repository that do not hold.                          *)

\* agent-transport.ts on the initial list: "Pick up commands assigned before
\* this subscription existed". The list may be answered before the server has
\* dealt with start; what is assigned between the two has neither been listed
\* nor notified when the subscription exists.
ScanCoversGap ==
  \A s \in Slot, c \in Command :
    sub[s] = "on" /\ scans = 0 /\ cmd[c] = "assigned" => c \in notices[s]

\* appsync-subscriber.ts on a message of type error: "Here we just warn and keep
\* reconnecting". A connection whose subscription the server has refused or
\* ended stays open, without one.
RefusedIsMended ==
  \A s \in Slot : (sub[s] = "refused") ~> (closed \/ notified \/ \E t \in Slot : sub[t] = "on")

\* constants.ts on the reconnects: "the agent should never give up reconnecting
\* from a transient network outage". A handshake that gets no answer has no
\* timeout and no heartbeat yet, and waits for ever.
NeverGivesUp == used ~> (closed \/ \E s \in Slot : sock[s].st = "open")
=============================================================================

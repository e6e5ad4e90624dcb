------------------------------- MODULE AgentLink -------------------------------
(***************************************************************************)
(* What BaseWebSocketConnection promises to its subclasses: one connection *)
(* to the server at a time. It comes up and goes down any number of times  *)
(* until the server rejects the agent for good or disconnect() ends it.    *)
(*                                                                         *)
(* The hooks of the subclasses are called with the steps: onOpen() with    *)
(* Up, onWebSocketClose() with Down, which is also the failure of an       *)
(* attempt while the link is down, and with Ended; onPermanentClose() with *)
(* Reject, the override of disconnect() with Stop. Messages of the server  *)
(* are handled while the link is up and, since the closing handshake takes *)
(* a while, still while it is ending.                                      *)
(***************************************************************************)
VARIABLE link

LinkState == {"down", "up", "ending", "over"}

LinkInit == link = "down"

Up == link = "down" /\ link' = "up"

\* A connection has closed, or an attempt at one has failed.
Down == link \in {"down", "up"} /\ link' = "down"

Reject == link = "up" /\ link' = "over"

\* disconnect(): an open socket has its close event still to come.
Stop ==
  \/ link = "up" /\ link' = "ending"
  \/ link = "down" /\ link' = "over"

Ended == link = "ending" /\ link' = "over"

LinkNext == Up \/ Down \/ Reject \/ Stop \/ Ended

LinkSpec == LinkInit /\ [][LinkNext]_link
=============================================================================

-------------------------- MODULE AgentSocket_proofs --------------------------
(***************************************************************************)
(* What holds of a connection for any number of slots, any number of       *)
(* missed pongs and any faults: there is only ever one of it, and its      *)
(* subclasses see the abstract link.                                       *)
(***************************************************************************)
EXTENDS AgentSocket, FiniteSetTheorems, TLAPS

\* One socket or one retry.
Single ==
  /\ \A s, t \in Slot : Exists(s) /\ Exists(t) => s = t
  /\ sleeping \in {0, 1}
  /\ sleeping = 1 => \A s \in Slot : ~Exists(s)

\* Before connect() there is nothing; while the object is not closed its socket
\* is the one that disconnect() would close; a closed one opens none.
Owned ==
  /\ ~used => ~closed /\ sleeping = 0 /\ \A s \in Slot : ~Exists(s)
  /\ \A s \in Slot : Exists(s) /\ ~closed => ws = s
  /\ \A s \in Slot : sock[s].st \in {"connecting", "open"} => ~closed
  /\ \A s \in Slot : sock[s].code = "rejected" => sock[s].st = "closing"

\* The heartbeat belongs to the socket that has been open.
Beats ==
  /\ \A s \in Slot : sock[s].st = "open" => beat.of = s
  /\ \A s \in Slot : sock[s].st = "closing" /\ ~closed => beat.of = s
  /\ beat.of # NoSlot => ~closed /\ sock[beat.of].st \in {"open", "closing"}

IInv == TypeOK /\ Single /\ Owned /\ Beats

-----------------------------------------------------------------------------
(* Types.                                                                  *)

LEMMA TypeStep == ASSUME TypeOK, [Next]_vars PROVE TypeOK'
<1> USE SocketAssumption DEF TypeOK
<1>0. /\ NoSocket \in Socket /\ NewSocket \in Socket /\ NoHeartbeat \in Heartbeat
  <2>1. MaxMissed \in Nat /\ 0 \in 0 .. MaxMissed
    BY SMT
  <2>2. NoSocket \in Socket
    BY <2>1 DEF NoSocket, Socket
  <2>4. NewSocket \in Socket
    BY <2>2 DEF NewSocket, Socket
  <2>5. NoHeartbeat \in Heartbeat
    BY <2>1 DEF NoHeartbeat, Heartbeat
  <2> QED BY <2>2, <2>4, <2>5
<1>1. CASE Connect
  <2>1. PICK s \in Slot : sock' = [sock EXCEPT ![s] = NewSocket] /\ ws' = s
    BY <1>1 DEF Connect, DoConnect
  <2>2. sock' \in [Slot -> Socket]
    BY <2>1, <1>0
  <2> QED BY <1>1, <2>1, <2>2 DEF Connect
<1>2. CASE WakeUp
  <2>1. sleeping' \in Nat
    BY <1>2 DEF WakeUp
  <2>2. CASE closed
    BY <1>2, <2>1, <2>2 DEF WakeUp
  <2>3. CASE ~closed
    <3>1. PICK s \in Slot : sock' = [sock EXCEPT ![s] = NewSocket] /\ ws' = s
      BY <1>2, <2>3 DEF WakeUp, DoConnect
    <3>2. sock' \in [Slot -> Socket]
      BY <3>1, <1>0
    <3> QED BY <1>2, <2>1, <3>1, <3>2 DEF WakeUp
  <2> QED BY <2>2, <2>3
<1>3. CASE Disconnect
  <2>1. \A s \in Slot : CloseWebSocket(s) \in Socket
    BY DEF CloseWebSocket, Socket
  <2>2. sock' \in [Slot -> Socket]
    BY <1>3, <2>1 DEF Disconnect
  <2> QED BY <1>3, <1>0, <2>2 DEF Disconnect
<1>4. CASE Tick
  <2> DEFINE s == beat.of
  <2>1. s \in Slot /\ beat \in Heartbeat /\ sock[s] \in Socket
    BY <1>4 DEF Tick, Heartbeat
  <2>2. ASSUME NEW b \in Heartbeat, Ping(s, b)
        PROVE  beat' \in Heartbeat /\ sock' \in [Slot -> Socket]
    <3>1. (IF sock[s].pings < MaxMissed THEN sock[s].pings + 1 ELSE sock[s].pings) \in 0 .. MaxMissed
      BY <2>1 DEF Socket
    <3>2. [sock[s] EXCEPT !.pings = IF @ < MaxMissed THEN @ + 1 ELSE @] \in Socket
      <4>1. PICK n \in 0 .. MaxMissed : n = IF sock[s].pings < MaxMissed THEN sock[s].pings + 1 ELSE sock[s].pings
        BY <3>1
      <4>2. ASSUME NEW x \in Socket, NEW m \in 0 .. MaxMissed PROVE [x EXCEPT !.pings = m] \in Socket
        BY DEF Socket
      <4>3. [sock[s] EXCEPT !.pings = n] \in Socket
        BY <2>1, <4>1, <4>2
      <4> QED BY <4>1, <4>3
    <3>3. sock' = [sock EXCEPT ![s] = [sock[s] EXCEPT !.pings = IF @ < MaxMissed THEN @ + 1 ELSE @]]
      BY <2>2, <2>1 DEF Ping
    <3>4. beat' \in Heartbeat
      <4>1. beat' = [b EXCEPT !.first = FALSE, !.alive = FALSE]
        BY <2>2, Zenon DEF Ping
      <4> QED BY <4>1 DEF Heartbeat
    <3> HIDE DEF s
    <3> QED BY <2>1, <3>2, <3>3, <3>4
  <2>3. ASSUME HangUp(s) PROVE beat' \in Heartbeat /\ sock' \in [Slot -> Socket]
    <3>1. [sock[s] EXCEPT !.st = "closing"] \in Socket
      BY <2>1 DEF Socket
    <3> QED BY <2>1, <2>3, <3>1 DEF HangUp, Heartbeat
  <2>4. [beat EXCEPT !.missed = 0] \in Heartbeat
    BY <2>1 DEF Heartbeat
  <2>5. ~(beat.missed + 1 >= MaxMissed) => [beat EXCEPT !.missed = @ + 1] \in Heartbeat
    BY <2>1 DEF Heartbeat
  <2>6. \/ Ping(s, beat) \/ HangUp(s) \/ Ping(s, [beat EXCEPT !.missed = 0])
        \/ ~(beat.missed + 1 >= MaxMissed) /\ Ping(s, [beat EXCEPT !.missed = @ + 1])
    BY <1>4 DEF Tick
  <2>7. beat' \in Heartbeat /\ sock' \in [Slot -> Socket]
    BY <2>1, <2>2, <2>3, <2>4, <2>5, <2>6
  <2> QED BY <1>4, <2>7 DEF Tick
<1>5. ASSUME NEW s \in Slot, Opened(s) PROVE TypeOK'
  <2>1. [sock[s] EXCEPT !.st = "open"] \in Socket
    BY DEF Socket
  <2>2. beat' \in Heartbeat
    BY <1>5, <1>0 DEF Opened, Heartbeat
  <2> QED BY <1>5, <2>1, <2>2 DEF Opened
<1>6. ASSUME NEW s \in Slot, Closed(s) PROVE TypeOK'
  <2>0. sock' = [sock EXCEPT ![s] = NoSocket]
    BY <1>6, Zenon DEF Closed
  <2>1. sock' \in [Slot -> Socket]
    BY <2>0, <1>0
  <2>2. sleeping' \in Nat
    BY <1>6 DEF Closed
  <2>3. closed' \in BOOLEAN
    BY <1>6, Zenon DEF Closed
  <2> QED BY <1>6, <1>0, <2>1, <2>2, <2>3 DEF Closed
<1>7. ASSUME NEW s \in Slot, Refused(s) PROVE TypeOK'
  <2>1. [sock[s] EXCEPT !.st = "aborted"] \in Socket
    BY DEF Socket
  <2> QED BY <1>7, <2>1 DEF Refused
<1>8. ASSUME NEW s \in Slot, Pong(s) PROVE TypeOK'
  <2>1. [sock[s] EXCEPT !.pings = 0] \in Socket
    BY DEF Socket
  <2>2. beat' \in Heartbeat
    BY <1>8 DEF Pong, Heartbeat
  <2> QED BY <1>8, <2>1, <2>2 DEF Pong
<1>9. ASSUME NEW s \in Slot, Fault(s) PROVE TypeOK'
  <2>1. /\ [sock[s] EXCEPT !.st = "closing"] \in Socket
        /\ [sock[s] EXCEPT !.st = "closing", !.code = "rejected"] \in Socket
        /\ [sock[s] EXCEPT !.peer = FALSE] \in Socket
    BY DEF Socket
  <2>2. \/ sock' = [sock EXCEPT ![s] = [sock[s] EXCEPT !.st = "closing"]]
        \/ sock' = [sock EXCEPT ![s] = [sock[s] EXCEPT !.st = "closing", !.code = "rejected"]]
        \/ sock' = [sock EXCEPT ![s] = [sock[s] EXCEPT !.peer = FALSE]]
    BY <1>9 DEF Fault
  <2>3. sock' \in [Slot -> Socket]
    BY <2>1, <2>2
  <2> QED BY <1>9, <2>3 DEF Fault
<1>10. CASE UNCHANGED vars
  BY <1>10 DEF vars
<1> QED BY <1>1, <1>2, <1>3, <1>4, <1>5, <1>6, <1>7, <1>8, <1>9, <1>10 DEF Next

-----------------------------------------------------------------------------
(* The invariant.                                                          *)

LEMMA Initially == Init => IInv
<1> SUFFICES ASSUME Init PROVE IInv
  OBVIOUS
<1> USE SocketAssumption DEF Init
<1>1. NoSocket \in Socket /\ NoHeartbeat \in Heartbeat
  <2>1. MaxMissed \in Nat /\ 0 \in 0 .. MaxMissed
    BY SMT
  <2>2. NoSocket \in Socket
    BY <2>1 DEF NoSocket, Socket
  <2>3. NoHeartbeat \in Heartbeat
    BY <2>1 DEF NoHeartbeat, Heartbeat
  <2> QED BY <2>2, <2>3
<1>2. TypeOK
  BY <1>1 DEF TypeOK
<1>3. \A s \in Slot : sock[s].st = "none" /\ sock[s].code = "other"
  BY DEF NoSocket
<1>4. beat.of = NoSlot
  BY DEF NoHeartbeat
<1>5. Single
  BY <1>3 DEF Single, Exists
<1>6. Owned
  BY <1>3 DEF Owned, Exists
<1>7. Beats
  BY <1>3, <1>4 DEF Beats
<1> QED BY <1>2, <1>5, <1>6, <1>7 DEF IInv

\* A new socket is made only where there is none.
LEMMA Connecting ==
  ASSUME IInv, DoConnect, \A t \in Slot : ~Exists(t), ~closed, used', closed' = closed,
         sleeping' = 0, UNCHANGED beat
  PROVE  Single' /\ Owned' /\ Beats' /\ LinkOf' = LinkOf
<1>1. PICK s \in Slot : sock' = [sock EXCEPT ![s] = NewSocket] /\ ws' = s
  BY DEF DoConnect
<1>2. \A t \in Slot : sock'[t] = IF t = s THEN NewSocket ELSE sock[t]
  BY <1>1 DEF IInv, TypeOK
<1>3. NewSocket.st = "connecting" /\ NewSocket.code = "other"
  BY DEF NewSocket, NoSocket
<1>4. \A t \in Slot : sock'[t].st = IF t = s THEN "connecting" ELSE "none"
  BY <1>2, <1>3 DEF Exists
<1>5. \A t \in Slot : sock'[t].code # "rejected"
  BY <1>2, <1>3 DEF IInv, Owned, Exists
<1>6. beat.of = NoSlot
  <2>1. beat.of \in Slot \cup {NoSlot}
    BY DEF IInv, TypeOK, Heartbeat
  <2> QED BY <2>1 DEF IInv, Beats, Exists
<1>7. Single'
  BY <1>4 DEF Single, Exists
<1>8. Owned'
  BY <1>1, <1>4, <1>5 DEF Owned, Exists
<1>9. Beats'
  BY <1>4, <1>6 DEF Beats
<1>10. LinkOf' = LinkOf
  BY DEF LinkOf
<1> QED BY <1>7, <1>8, <1>9, <1>10

\* What every action does to the state and to the link.
LEMMA Steps ==
  ASSUME IInv, [Next]_vars
  PROVE  /\ Single' /\ Owned' /\ Beats'
         /\ [Link!LinkNext]_LinkOf
<1> USE DEF Link!LinkNext, Link!Up, Link!Down, Link!Reject, Link!Stop, Link!Ended
<1> DEFINE Goal == Single' /\ Owned' /\ Beats' /\ [Link!LinkNext]_LinkOf
<1>0. beat.of \in Slot \cup {NoSlot} /\ beat'.of \in Slot \cup {NoSlot} /\ NoSlot \notin Slot
  BY TypeStep, SocketAssumption DEF IInv, TypeOK, Heartbeat
<1>00. NoHeartbeat.of = NoSlot
  BY DEF NoHeartbeat
<1>1. CASE Connect
  <2>1. (\A t \in Slot : ~Exists(t)) /\ ~closed /\ sleeping = 0
    BY <1>1 DEF Connect, IInv, Owned
  <2>2. DoConnect /\ used' /\ closed' = closed /\ sleeping' = 0 /\ UNCHANGED beat
    BY <1>1, <2>1 DEF Connect
  <2> QED BY <2>1, <2>2, Connecting
<1>2. CASE WakeUp
  <2>1. sleeping = 1 /\ sleeping' = 0 /\ \A t \in Slot : ~Exists(t)
    BY <1>2 DEF WakeUp, IInv, Single
  <2>2. used /\ used' /\ closed' = closed /\ UNCHANGED beat
    BY <1>2, <2>1 DEF WakeUp, IInv, Owned
  <2>3. CASE ~closed
    <3>1. DoConnect
      BY <1>2, <2>3 DEF WakeUp
    <3> QED BY <2>1, <2>2, <2>3, <3>1, Connecting
  <2>4. CASE closed
    <3>1. UNCHANGED <<ws, sock>>
      BY <1>2, <2>4 DEF WakeUp
    <3>2. Single' /\ Owned' /\ Beats'
      BY <2>1, <2>2, <2>4, <3>1 DEF IInv, Single, Owned, Beats, Exists
    <3>3. LinkOf' = LinkOf
      BY <2>2, <3>1 DEF LinkOf
    <3> QED BY <3>2, <3>3
  <2> QED BY <2>3, <2>4
<1>3. CASE Disconnect
  <2>1. used /\ used' /\ closed' /\ beat'.of = NoSlot /\ sleeping' = sleeping
    BY <1>3, <1>00 DEF Disconnect
  <2>2. \A t \in Slot : sock'[t] = IF t = ws THEN CloseWebSocket(t) ELSE sock[t]
    BY <1>3 DEF Disconnect
  <2>3. \A t \in Slot :
          /\ CloseWebSocket(t).code = sock[t].code
          /\ CloseWebSocket(t).st = CASE sock[t].st = "connecting" -> "aborted"
                                      [] sock[t].st = "open" -> "closing"
                                      [] OTHER -> sock[t].st
    BY DEF CloseWebSocket, IInv, TypeOK, Socket
  <2>4. \A t \in Slot :
          /\ Exists(t)' <=> Exists(t)
          /\ sock'[t].st \notin {"connecting", "open"}
          /\ sock'[t].code = sock[t].code
          /\ sock'[t].st = "closing" <=> sock[t].st \in {"open", "closing"}
    BY <2>2, <2>3 DEF IInv, Owned, Exists
  <2>5. Single' /\ Owned' /\ Beats'
    BY <2>1, <2>4 DEF IInv, Single, Owned, Beats
  <2>6. LinkOf' = IF \E t \in Slot : sock[t].st \in {"open", "closing"} THEN "ending" ELSE "over"
    BY <2>1, <2>4 DEF LinkOf
  <2>7. CASE closed
    <3>1. (\E t \in Slot : sock[t].st \in {"open", "closing"}) <=> \E t \in Slot : sock[t].st = "closing"
      BY <2>7 DEF IInv, Owned
    <3>2. LinkOf = IF \E t \in Slot : sock[t].st = "closing" THEN "ending" ELSE "over"
      BY <2>7 DEF LinkOf
    <3> QED BY <2>5, <2>6, <3>1, <3>2
  <2>8. CASE ~closed
    <3>1. (\E t \in Slot : sock[t].st \in {"open", "closing"}) <=> beat.of # NoSlot
      BY <1>0, <2>8 DEF IInv, Beats
    <3>2. LinkOf = IF beat.of # NoSlot THEN "up" ELSE "down"
      BY <2>8 DEF LinkOf
    <3>3. CASE beat.of # NoSlot
      BY <2>5, <2>6, <3>1, <3>2, <3>3
    <3>4. CASE beat.of = NoSlot
      BY <2>5, <2>6, <3>1, <3>2, <3>4
    <3> QED BY <3>3, <3>4
  <2> QED BY <2>5, <2>7, <2>8
<1>4. CASE Tick
  <2>1. beat.of \in Slot /\ sock[beat.of].st = "open" /\ UNCHANGED <<used, closed, sleeping, ws>>
    BY <1>0, <1>4 DEF Tick
  <2>2. beat'.of = beat.of
    BY <1>4 DEF Tick, Ping, HangUp, IInv, TypeOK, Heartbeat
  <2>3. \A t \in Slot :
          /\ sock'[t].code = sock[t].code
          /\ sock'[t].st = sock[t].st \/ (t = beat.of /\ sock'[t].st = "closing")
    BY <1>4, <2>1 DEF Tick, Ping, HangUp, IInv, TypeOK, Socket
  <2>4. \A t \in Slot : Exists(t)' <=> Exists(t)
    BY <2>1, <2>3 DEF Exists
  <2>5. ~closed
    BY <2>1 DEF IInv, Owned
  <2>6. Single' /\ Owned' /\ Beats'
    BY <2>1, <2>2, <2>3, <2>4, <2>5 DEF IInv, Single, Owned, Beats
  <2>7. LinkOf' = LinkOf
    BY <2>1, <2>2, <2>5 DEF LinkOf
  <2> QED BY <2>6, <2>7
<1>5. ASSUME NEW s \in Slot, Opened(s) PROVE Goal
  <2>1. /\ sock[s].st = "connecting" /\ ~closed /\ UNCHANGED <<used, closed, sleeping, ws>>
        /\ \A t \in Slot : t # s => ~Exists(t)
    BY <1>5 DEF Opened, IInv, Owned, Single, Exists
  <2>2. beat.of = NoSlot
    BY <1>0, <2>1 DEF IInv, Beats, Exists
  <2>3. beat'.of = s
    BY <1>5 DEF Opened, NoHeartbeat
  <2>4. \A t \in Slot : sock'[t].code = sock[t].code
                        /\ sock'[t].st = IF t = s THEN "open" ELSE sock[t].st
    BY <1>5 DEF Opened, IInv, TypeOK, Socket
  <2>5. \A t \in Slot : Exists(t)' <=> Exists(t)
    BY <2>1, <2>4 DEF Exists
  <2>6. Single' /\ Owned' /\ Beats'
    BY <1>0, <2>1, <2>3, <2>4, <2>5 DEF IInv, Single, Owned, Beats, Exists
  <2>7. LinkOf = "down" /\ LinkOf' = "up"
    BY <1>0, <2>1, <2>2, <2>3 DEF LinkOf
  <2> QED BY <2>6, <2>7
<1>6. ASSUME NEW s \in Slot, Closed(s) PROVE Goal
  <2>1. /\ sock[s].st \in {"aborted", "closing"} /\ UNCHANGED <<used, ws>>
        /\ used /\ sleeping = 0 /\ \A t \in Slot : t # s => ~Exists(t)
    BY <1>6 DEF Closed, IInv, Single, Owned, Exists
  <2>2. \A t \in Slot : sock'[t].st = "none" /\ sock'[t].code = "other"
    <3>1. \A t \in Slot : sock'[t] = IF t = s THEN NoSocket ELSE sock[t]
      BY <1>6 DEF Closed, IInv, TypeOK
    <3>2. \A t \in Slot : sock[t].code \in {"other", "rejected"}
      BY DEF IInv, TypeOK, Socket
    <3> QED BY <2>1, <3>1, <3>2 DEF NoSocket, Exists, IInv, Owned
  <2>3. beat'.of = NoSlot
    BY <1>6, <1>00 DEF Closed
  <2>4. \/ closed' /\ sleeping' = 0
        \/ ~closed' /\ ~closed /\ sleeping' = 1
    BY <1>6, <2>1 DEF Closed
  <2>5. Single' /\ Owned' /\ Beats'
    BY <2>1, <2>2, <2>3, <2>4 DEF Single, Owned, Beats, Exists
  <2>6. LinkOf' = IF closed' THEN "over" ELSE "down"
    BY <2>2, <2>3 DEF LinkOf
  <2>7. CASE closed
    <3>1. closed' /\ LinkOf \in {"ending", "over"}
      BY <2>4, <2>7 DEF LinkOf
    <3> QED BY <2>5, <2>6, <3>1
  <2>8. CASE ~closed /\ closed'
    <3>1. sock[s].code = "rejected"
      BY <1>6, <2>8 DEF Closed
    <3>2. beat.of = s
      BY <2>8, <3>1 DEF IInv, Owned, Beats
    <3>3. LinkOf = "up"
      BY <1>0, <2>8, <3>2 DEF LinkOf
    <3> QED BY <2>5, <2>6, <2>8, <3>3
  <2>9. CASE ~closed /\ ~closed'
    <3>1. LinkOf \in {"down", "up"}
      BY <2>9 DEF LinkOf
    <3> QED BY <2>5, <2>6, <2>9, <3>1
  <2> QED BY <2>4, <2>7, <2>8, <2>9
<1>7. ASSUME NEW s \in Slot, Refused(s) \/ Pong(s) \/ Fault(s) PROVE Goal
  <2>1. UNCHANGED <<used, closed, sleeping, ws>> /\ beat'.of = beat.of
    BY <1>7 DEF Refused, Pong, Fault, IInv, TypeOK, Heartbeat
  <2>2. \A t \in Slot :
          /\ \/ sock'[t].st = sock[t].st
             \/ sock[t].st = "connecting" /\ sock'[t].st = "aborted"
             \/ sock[t].st = "open" /\ sock'[t].st = "closing"
          /\ sock'[t].code = sock[t].code \/ sock'[t].st = "closing"
    <3>1. sock[s] \in Socket /\ sock \in [Slot -> Socket]
      BY DEF IInv, TypeOK
    <3>2. CASE Refused(s)
      BY <3>1, <3>2 DEF Refused, Socket
    <3>3. CASE Pong(s)
      BY <3>1, <3>3 DEF Pong, Socket
    <3>4. CASE Fault(s)
      BY <3>1, <3>4 DEF Fault, Socket
    <3> QED BY <1>7, <3>2, <3>3, <3>4
  <2>3. \A t \in Slot : Exists(t)' <=> Exists(t)
    BY <2>2 DEF Exists
  <2>4. Single'
    BY <2>1, <2>3 DEF IInv, Single
  <2>5. Owned'
    BY <2>1, <2>2, <2>3 DEF IInv, Owned
  <2>6. Beats'
    BY <1>0, <2>1, <2>2 DEF IInv, Owned, Beats
  <2>7. LinkOf' = LinkOf
    <3>1. CASE closed
      <4>1. \A t \in Slot : sock'[t].st = "closing" <=> sock[t].st = "closing"
        BY <2>2, <3>1 DEF IInv, Owned
      <4> QED BY <2>1, <3>1, <4>1 DEF LinkOf
    <3>2. CASE ~closed
      BY <2>1, <3>2 DEF LinkOf
    <3> QED BY <3>1, <3>2
  <2> QED BY <2>4, <2>5, <2>6, <2>7
<1>8. CASE UNCHANGED vars
  <2>1. Single' /\ Owned' /\ Beats'
    BY <1>8 DEF vars, IInv, Single, Owned, Beats, Exists
  <2>2. LinkOf' = LinkOf
    BY <1>8 DEF vars, LinkOf
  <2> QED BY <2>1, <2>2
<1> QED BY <1>1, <1>2, <1>3, <1>4, <1>5, <1>6, <1>7, <1>8 DEF Next

LEMMA Invariant == Spec => []IInv
<1>1. IInv /\ [Next]_vars => IInv'
  BY TypeStep, Steps DEF IInv
<1> QED BY Initially, <1>1, PTL DEF Spec

\* At most one socket is a statement about cardinality.
LEMMA OneAtATime == Single => OneConnection
<1> SUFFICES ASSUME Single PROVE OneConnection
  OBVIOUS
<1> DEFINE there == {s \in Slot : Exists(s)}
<1>1. CASE there = {}
  <2>1. Cardinality(there) = 0
    BY <1>1, FS_EmptySet
  <2> QED BY <2>1 DEF Single, OneConnection
<1>2. CASE there # {}
  <2>1. PICK s \in there : TRUE
    BY <1>2
  <2>2. there = {s} /\ sleeping = 0
    BY <2>1 DEF Single
  <2>3. Cardinality(there) = 1
    BY <2>2, FS_Singleton
  <2> QED BY <2>2, <2>3 DEF OneConnection
<1> QED BY <1>1, <1>2

-----------------------------------------------------------------------------
(* The heartbeat.                                                          *)

\* Each tick that finds no pong counts one more missed, each has sent a ping.
Counts ==
  \A s \in Slot :
    sock[s].st = "open" =>
      /\ beat.missed < MaxMissed
      /\ beat.first => beat.missed = 0
      /\ ~beat.first /\ ~beat.alive => sock[s].pings > beat.missed

\* What hanging up is good for, in every step.
Silent ==
  \A s \in Slot :
    sock[s].st = "open" /\ sock'[s].st = "closing" /\ beat'.missed = MaxMissed =>
      sock[s].pings = MaxMissed

LEMMA CountsInitially == Init => Counts
<1> SUFFICES ASSUME Init PROVE \A s \in Slot : sock[s].st # "open"
  BY DEF Counts
<1> QED BY DEF Init, NoSocket

LEMMA CountsStep ==
  ASSUME IInv, Counts, [Next]_vars
  PROVE  Counts' /\ Silent
<1> USE SocketAssumption
<1>0. /\ \A s \in Slot : sock[s] \in Socket
      /\ sock \in [Slot -> Socket]
      /\ beat \in Heartbeat /\ beat.missed \in 0 .. MaxMissed
      /\ MaxMissed \in Nat /\ MaxMissed > 0
  BY DEF IInv, TypeOK, Heartbeat
<1>1. CASE Connect \/ WakeUp
  <2>1. beat' = beat /\ \A s \in Slot : sock'[s] = sock[s] \/ sock'[s] = NewSocket
    BY <1>0, <1>1 DEF Connect, WakeUp, DoConnect
  <2>2. NewSocket.st = "connecting"
    BY DEF NewSocket, NoSocket
  <2> QED BY <2>1, <2>2 DEF Counts, Silent
<1>2. CASE Disconnect
  <2>1. \A s \in Slot : sock'[s].st # "open"
    <3>1. \A s \in Slot : sock'[s] = IF s = ws THEN CloseWebSocket(s) ELSE sock[s]
      BY <1>2 DEF Disconnect
    <3>2. \A s \in Slot : CloseWebSocket(s).st # "open"
      BY <1>0 DEF CloseWebSocket, Socket
    <3>3. \A s \in Slot : s # ws => sock[s].st # "open"
      BY DEF IInv, Owned, Exists
    <3> QED BY <3>1, <3>2, <3>3
  <2>2. beat'.missed = 0
    BY <1>2 DEF Disconnect, NoHeartbeat
  <2> QED BY <1>0, <2>1, <2>2 DEF Counts, Silent
<1>3. CASE Tick
  <2> DEFINE s == beat.of
  <2>1. s \in Slot /\ sock[s].st = "open" /\ \A t \in Slot : t # s => sock[t].st # "open"
    BY <1>3 DEF Tick, IInv, Beats, TypeOK, Heartbeat
  <2>2. /\ beat.missed < MaxMissed
        /\ beat.first => beat.missed = 0
        /\ ~beat.first /\ ~beat.alive => sock[s].pings > beat.missed
    BY <2>1 DEF Counts
  <2>3. sock[s].pings \in 0 .. MaxMissed
    BY <1>0, <2>1 DEF Socket
  <2> HIDE DEF s
  <2>4. ASSUME NEW b \in Heartbeat, b.missed < MaxMissed, Ping(s, b),
               sock[s].pings >= b.missed
        PROVE  Counts' /\ Silent
    <3>1. beat'.missed = b.missed /\ ~beat'.first
      BY <2>4 DEF Ping, Heartbeat
    <3>2. /\ sock'[s].st = "open"
          /\ sock'[s].pings = IF sock[s].pings < MaxMissed THEN sock[s].pings + 1 ELSE sock[s].pings
          /\ \A t \in Slot : t # s => sock'[t] = sock[t]
      BY <1>0, <2>1, <2>4 DEF Ping, Socket
    <3>3. b.missed \in 0 .. MaxMissed
      BY <2>4 DEF Heartbeat
    <3>4. sock'[s].pings > b.missed
      BY <2>3, <2>4, <3>2, <3>3
    <3>5. Counts'
      BY <2>1, <2>4, <3>1, <3>2, <3>4 DEF Counts
    <3>6. Silent
      BY <2>1, <3>2 DEF Silent
    <3> QED BY <3>5, <3>6
  <2>5. CASE beat.first /\ Ping(s, beat)
    BY <1>0, <2>2, <2>3, <2>4, <2>5
  <2>6. CASE ~beat.first /\ beat.alive /\ Ping(s, [beat EXCEPT !.missed = 0])
    <3> DEFINE b == [beat EXCEPT !.missed = 0]
    <3>1. b \in Heartbeat /\ b.missed = 0
      BY <1>0 DEF Heartbeat
    <3>2. b.missed < MaxMissed /\ sock[s].pings >= b.missed /\ Ping(s, b)
      BY <1>0, <2>3, <2>6, <3>1
    <3> HIDE DEF b
    <3> QED BY <2>4, <3>1, <3>2
  <2>7. CASE /\ ~beat.first /\ ~beat.alive /\ ~(beat.missed + 1 >= MaxMissed)
             /\ Ping(s, [beat EXCEPT !.missed = @ + 1])
    <3> DEFINE b == [beat EXCEPT !.missed = @ + 1]
    <3>1. b \in Heartbeat /\ b.missed = beat.missed + 1
      BY <1>0, <2>7 DEF Heartbeat
    <3>2. b.missed < MaxMissed /\ sock[s].pings >= b.missed
      BY <1>0, <2>2, <2>3, <2>7, <3>1
    <3>3. Ping(s, b)
      BY <2>7
    <3> HIDE DEF b
    <3> QED BY <2>4, <3>1, <3>2, <3>3
  <2>8. CASE ~beat.first /\ ~beat.alive /\ beat.missed + 1 >= MaxMissed /\ HangUp(s)
    <3>1. sock[s].pings = MaxMissed
      BY <1>0, <2>2, <2>3, <2>8
    <3>2. \A t \in Slot : sock'[t].st # "open"
      BY <1>0, <2>1, <2>8 DEF HangUp, Socket
    <3>3. \A t \in Slot : t # s => sock'[t] = sock[t]
      BY <1>0, <2>8 DEF HangUp
    <3> QED BY <2>1, <3>1, <3>2, <3>3 DEF Counts, Silent
  <2> QED BY <1>3, <2>5, <2>6, <2>7, <2>8 DEF Tick, s
<1>4. ASSUME NEW s \in Slot, Opened(s) PROVE Counts' /\ Silent
  <2>1. beat'.missed = 0 /\ beat'.first
    BY <1>4 DEF Opened, NoHeartbeat
  <2> QED BY <1>0, <2>1 DEF Counts, Silent
<1>5. ASSUME NEW s \in Slot, Closed(s) PROVE Counts' /\ Silent
  <2>1. beat'.missed = 0
    BY <1>5 DEF Closed, NoHeartbeat
  <2>2. \A t \in Slot : sock'[t] = IF t = s THEN NoSocket ELSE sock[t]
    BY <1>0, <1>5 DEF Closed
  <2>3. \A t \in Slot : t # s => sock[t].st = "none"
    BY <1>5 DEF Closed, IInv, Single, Exists
  <2>4. \A t \in Slot : sock'[t].st = "none"
    BY <2>2, <2>3 DEF NoSocket
  <2> QED BY <1>0, <2>1, <2>4 DEF Counts, Silent
<1>6. ASSUME NEW s \in Slot, Refused(s) \/ Fault(s) PROVE Counts' /\ Silent
  <2>1. beat' = beat
    BY <1>6 DEF Refused, Fault
  <2>2. \A t \in Slot : sock'[t].st = "open" => sock[t].st = "open" /\ sock'[t].pings = sock[t].pings
    <3>1. CASE Refused(s)
      BY <1>0, <3>1 DEF Refused, Socket
    <3>2. CASE Fault(s)
      BY <1>0, <3>2 DEF Fault, Socket
    <3> QED BY <1>6, <3>1, <3>2
  <2> QED BY <1>0, <2>1, <2>2 DEF Counts, Silent
<1>7. ASSUME NEW s \in Slot, Pong(s) PROVE Counts' /\ Silent
  <2>1. beat'.alive /\ beat'.missed = beat.missed /\ beat'.first = beat.first
    BY <1>0, <1>7 DEF Pong, Heartbeat
  <2>2. \A t \in Slot : sock'[t].st = sock[t].st
    BY <1>0, <1>7 DEF Pong, Socket
  <2> QED BY <2>1, <2>2 DEF Counts, Silent
<1>8. CASE UNCHANGED vars
  BY <1>8 DEF vars, Counts, Silent
<1> QED BY <1>1, <1>2, <1>3, <1>4, <1>5, <1>6, <1>7, <1>8 DEF Next

-----------------------------------------------------------------------------
(* The theorems.                                                           *)

\* The variables have their types, the missed pongs their bound.
THEOREM TypeCorrect == Spec => []TypeOK
<1>1. IInv => TypeOK
  BY DEF IInv
<1> QED BY Invariant, <1>1, PTL

\* An object never has two sockets, nor a socket and a retry under way.
THEOREM OneConnectionAlways == Spec => []OneConnection
<1>1. IInv => OneConnection
  BY OneAtATime DEF IInv
<1> QED BY Invariant, <1>1, PTL

\* The connection is the abstract link, in every step.
THEOREM LinkImplemented == Spec => ImplementsLink
<1>1. Init => Link!LinkInit
  <2>1. ASSUME Init PROVE ~closed /\ beat.of = NoSlot
    BY <2>1 DEF Init, NoHeartbeat
  <2> QED BY <2>1 DEF LinkOf, Link!LinkInit
<1>2. IInv /\ [Next]_vars => [Link!LinkNext]_LinkOf
  BY Steps
<1> QED BY Invariant, <1>1, <1>2, PTL DEF Spec, ImplementsLink, Link!LinkSpec

\* The heartbeat hangs up on nobody who has answered one of the last MaxMissed
\* pings.
THEOREM HangsUpOnlyOnSilence == Spec => HangsUpOnSilence
<1>1. IInv /\ Counts /\ [Next]_vars => Counts'
  BY CountsStep
<1>2. IInv /\ Counts /\ [Next]_vars => [Silent]_vars
  BY CountsStep
<1>3. Spec => [][Silent]_vars
  BY Invariant, CountsInitially, <1>1, <1>2, PTL DEF Spec
<1> QED BY <1>3, PTL DEF HangsUpOnSilence, Silent

\* One connection at a time, given up for a silent peer only.
THEOREM SocketSafe == Spec => SocketSound
BY TypeCorrect, OneConnectionAlways, HangsUpOnlyOnSilence, PTL DEF SocketSound
=============================================================================

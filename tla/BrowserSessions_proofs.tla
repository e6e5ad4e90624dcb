------------------------ MODULE BrowserSessions_proofs ------------------------
(***************************************************************************)
(* What holds of the browsers for any ids and any number of sessions and   *)
(* handlers: no Chromium is lost but in the races named, and no file that  *)
(* was asked for is dropped.  Besides, what the commands that drive browsers and  *)
(* databases leave on the host: the files of a chat, for any chats; the    *)
(* tunnels of its queries, for any queries and ports; and one test, for    *)
(* any number of steps.                                                    *)
(***************************************************************************)
EXTENDS BrowserSessions, CommandFiles, DbTunnel, E2eTest, SequenceTheorems, TLAPS

-----------------------------------------------------------------------------
(* The invariant.                                                          *)

\* The table has the sessions that are open or being closed, each under one id.
Placed ==
  /\ \A i, j \in Id : Has(i) /\ table[i] = table[j] => i = j
  /\ \A o \in Obj : ses[o].life \in {"open", "closing"} <=> \E i \in Id : table[i] = o

\* r launches a Chromium for o; r is about to give a file to o.
Launching(r, o) == req[r].at = "launch" /\ req[r].obj = o
Giving(r, o) == req[r].at = "file" /\ req[r].obj = o

\* Without a race one handler launches at a time, for an open session that has no
\* browser yet; a browser has its page, and belongs to a session that can still be closed.
LaunchOK(o) ==
  ~ses[o].raced =>
    /\ ~ses[o].lost
    /\ ses[o].br => ses[o].page /\ ses[o].life \in {"open", "closing"}
    /\ \A r \in Req : Launching(r, o) => ses[o].life = "open" /\ ~ses[o].br
    /\ \A q, r \in Req : Launching(q, o) /\ Launching(r, o) => q = r

\* While a session is open, what it asks for is offered under its own id or
\* about to be given to it, once; and its object is used for no other session
\* before that is over.
OfferOK(o) ==
  /\ \A i \in Id : offer[i] = o => ses[o].life # "free"
  /\ \A r \in Req : Giving(r, o) => ses[o].life # "free"
  /\ ses[o].life = "open" =>
       /\ \A i \in Id : offer[i] = o => table[i] = o /\ ses[o].input
       /\ \A r \in Req : Giving(r, o) => ses[o].input /\ \A i \in Id : offer[i] # o
       /\ \A q, r \in Req : Giving(q, o) /\ Giving(r, o) => q = r

Sessions == \A o \in Obj : LaunchOK(o) /\ OfferOK(o)
BrowserInv == TypeOK /\ Placed /\ Sessions

-----------------------------------------------------------------------------
(* Sessions and handlers are what they are said to be.                     *)

LEMMA ClosingForm ==
  ASSUME NEW s \in Session
  PROVE  /\ Closing(s) \in Session /\ Closing(s).life = (IF s.br THEN "closing" ELSE "closed")
         /\ Closing(s).br = s.br /\ Closing(s).page = s.page /\ Closing(s).lost = s.lost /\ Closing(s).raced = s.raced
BY DEF Closing, Session

LEMMA NewSession ==
  LET s == [NoSession EXCEPT !.life = "open"]
  IN  /\ NoSession \in Session /\ NoSession.life = "free" /\ ~NoSession.br /\ ~NoSession.page /\ ~NoSession.lost /\ ~NoSession.raced
      /\ s \in Session /\ s.life = "open" /\ ~s.br /\ ~s.page /\ ~s.lost /\ ~s.raced
BY DEF Session, NoSession

LEMMA NoHandlerType == NoHandler \in Handler /\ NoHandler.at = "none"
BY BrowserAssumption DEF NoHandler, Handler

LEMMA TypeFacts ==
  ASSUME TypeOK
  PROVE  /\ \A o \in Obj : ses[o] \in Session
         /\ \A o \in Obj : ses[o].br \in BOOLEAN /\ ses[o].raced \in BOOLEAN /\ ses[o].input \in BOOLEAN /\ ses[o].lost \in BOOLEAN /\ ses[o].page \in BOOLEAN /\ ses[o].asks \in BOOLEAN
         /\ \A r \in Req : req[r] \in Handler /\ req[r].obj \in Obj /\ req[r].id \in Id /\ req[r].for \in {"open", "call", "e2e"}
         /\ \A i \in Id : Has(i) <=> table[i] \in Obj
         /\ \A i \in Id : offer[i] # NoObj => offer[i] \in Obj
BY BrowserAssumption DEF TypeOK, Session, Handler, Has

-----------------------------------------------------------------------------
(* What a step leaves of the invariant where it does not interfere.        *)

LEMMA LaunchFrame ==
  ASSUME NEW o \in Obj, LaunchOK(o),
         ses[o].raced => ses'[o].raced, ses'[o].lost => ses[o].lost,
         ses'[o].br => ses[o].br, ses'[o].br /\ ses[o].page => ses'[o].page,
         \/ ses'[o].life = ses[o].life
         \/ ses'[o].life = "closing" /\ ~(\E r \in Req : Launching(r, o))
         \/ ~ses'[o].br /\ ~(\E r \in Req : Launching(r, o)),
         \A r \in Req : Launching(r, o)' => Launching(r, o)
  PROVE  LaunchOK(o)'
BY DEF LaunchOK

LEMMA OfferFrame ==
  ASSUME NEW o \in Obj, OfferOK(o),
         \/ ses'[o].life = ses[o].life /\ ses'[o].input = ses[o].input
         \/ ses'[o].life \in {"closing", "closed"},
         \A i \in Id : /\ offer'[i] = o => offer[i] = o
                       /\ table[i] = o => table'[i] = o \/ ses'[o].life # "open",
         \A r \in Req : Giving(r, o)' => Giving(r, o)
  PROVE  OfferOK(o)'
BY DEF OfferOK

-----------------------------------------------------------------------------
(* The operations.                                                         *)

\* A handler in its use of the page of a session.
LEMMA PageGives ==
  ASSUME TypeOK, NEW r \in Req, NEW h \in {"open", "call", "e2e"}, NEW i \in Id, NEW o \in Obj,
         NEW s \in Session, PageAsked(r, h, i, o, s)
  PROVE  /\ ses' \in [Obj -> Session] /\ req' \in [Req -> Handler]
         /\ \A x \in Obj \ {o} : ses'[x] = ses[x]
         /\ ses'[o].life = s.life /\ ses'[o].br = s.br /\ ses'[o].page = s.page /\ ses'[o].input = s.input /\ ses'[o].lost = s.lost
         /\ ses'[o].raced <=> s.raced \/ ~(s.page \/ Calm(o, s))
         /\ \A q \in Req \ {r} : req'[q] = req[q]
         /\ \/ req'[r] = req[r]
            \/ req'[r].at = "nav"
            \/ ~s.page /\ req'[r].at = "launch" /\ req'[r].obj = o
<1>1. PICK b \in BOOLEAN : (b <=> s.raced \/ ~(s.page \/ Calm(o, s))) /\ ses' = [ses EXCEPT ![o] = [s EXCEPT !.raced = b]]
  BY DEF PageAsked, Session
<1>2. [s EXCEPT !.raced = b] \in Session
      /\ [s EXCEPT !.raced = b].life = s.life /\ [s EXCEPT !.raced = b].br = s.br /\ [s EXCEPT !.raced = b].page = s.page /\ [s EXCEPT !.raced = b].input = s.input
      /\ [s EXCEPT !.raced = b].lost = s.lost /\ [s EXCEPT !.raced = b].raced = b
  BY DEF Session
<1>3. /\ ses' \in [Obj -> Session] /\ ses'[o] = [s EXCEPT !.raced = b]
      /\ \A x \in Obj \ {o} : ses'[x] = ses[x]
  BY <1>1, <1>2 DEF TypeOK
<1>4. /\ req' \in [Req -> Handler] /\ \A q \in Req \ {r} : req'[q] = req[q]
      /\ \/ req'[r] = req[r]
         \/ req'[r].at = "nav"
         \/ ~s.page /\ req'[r].at = "launch" /\ req'[r].obj = o
  <2>1. CASE s.page /\ h = "call"
    BY <2>1 DEF PageAsked, TypeOK
  <2>2. CASE ~(s.page /\ h = "call")
    <3>1. PICK a \in {"nav", "launch"} : a = (IF s.page THEN "nav" ELSE "launch")
      OBVIOUS
    <3>2. [at |-> a, for |-> h, id |-> i, obj |-> o] \in Handler
      BY DEF Handler
    <3>3. req' = [req EXCEPT ![r] = [at |-> a, for |-> h, id |-> i, obj |-> o]]
      BY <2>2, <3>1 DEF PageAsked
    <3> QED BY <3>1, <3>2, <3>3 DEF TypeOK
  <2> QED BY <2>1, <2>2
<1> QED BY <1>1, <1>2, <1>3, <1>4

\* close().
LEMMA CloseGives ==
  ASSUME TypeOK, NEW o \in Obj, CloseSession(o)
  PROVE  /\ ses' \in [Obj -> Session] /\ table' \in [Id -> Obj \cup {NoObj}]
         /\ \A x \in Obj \ {o} : ses'[x] = ses[x]
         /\ ses[o].life # "open" => ses'[o] = ses[o] /\ UNCHANGED table
         /\ ses[o].life = "open" =>
              /\ ses'[o].br = ses[o].br /\ ses'[o].page = ses[o].page /\ ses'[o].lost = ses[o].lost
              /\ ses'[o].life = (IF ses[o].br THEN "closing" ELSE "closed")
              /\ ses'[o].raced <=> ses[o].raced \/ \E r \in Req : Launching(r, o)
              /\ table' = [i \in Id |-> IF table[i] = o /\ ~ses[o].br THEN NoObj ELSE table[i]]
<1>1. CASE ses[o].life # "open"
  BY <1>1 DEF CloseSession, TypeOK
<1>2. CASE ses[o].life = "open"
  <2> DEFINE s == Closing(ses[o])
  <2>1. s \in Session /\ s.life = (IF ses[o].br THEN "closing" ELSE "closed")
        /\ s.br = ses[o].br /\ s.page = ses[o].page /\ s.lost = ses[o].lost /\ s.raced = ses[o].raced
    BY TypeFacts, ClosingForm
  <2>2. /\ ses' = [ses EXCEPT ![o] = [s EXCEPT !.raced = @ \/ In(o, {"launch"})]]
        /\ table' = [i \in Id |-> IF table[i] = o /\ s.life = "closed" THEN NoObj ELSE table[i]]
    BY <1>2 DEF CloseSession
  <2> HIDE DEF s
  <2>3. PICK b \in BOOLEAN : (b <=> s.raced \/ In(o, {"launch"})) /\ ses' = [ses EXCEPT ![o] = [s EXCEPT !.raced = b]]
    BY <2>1, <2>2 DEF Session
  <2>4. [s EXCEPT !.raced = b] \in Session
        /\ [s EXCEPT !.raced = b].life = s.life /\ [s EXCEPT !.raced = b].br = s.br /\ [s EXCEPT !.raced = b].page = s.page
        /\ [s EXCEPT !.raced = b].lost = s.lost /\ [s EXCEPT !.raced = b].raced = b
    BY <2>1 DEF Session
  <2>5. /\ ses' \in [Obj -> Session] /\ ses'[o] = [s EXCEPT !.raced = b]
        /\ \A x \in Obj \ {o} : ses'[x] = ses[x]
    BY <2>3, <2>4 DEF TypeOK
  <2>6. In(o, {"launch"}) <=> \E r \in Req : Launching(r, o)
    BY DEF In, Launching
  <2>7. table' = [i \in Id |-> IF table[i] = o /\ ~ses[o].br THEN NoObj ELSE table[i]]
    BY <2>1, <2>2
  <2>8. table' \in [Id -> Obj \cup {NoObj}]
    BY <2>7 DEF TypeOK
  <2> QED BY <1>2, <2>1, <2>3, <2>4, <2>5, <2>6, <2>7, <2>8
<1> QED BY <1>1, <1>2

\* A handler that uses a session it has found, or makes, keeps the invariant.
LEMMA PageKeeps ==
  ASSUME BrowserInv, NEW r \in Req, NEW h \in {"open", "call", "e2e"}, NEW i \in Id, NEW o \in Obj,
         NEW s \in Session, PageAsked(r, h, i, o, s), req[r].at \in {"none", "got"}, UNCHANGED offer,
         \/ s = ses[o] /\ UNCHANGED table
         \/ /\ s = [NoSession EXCEPT !.life = "open"] /\ ses[o].life = "free" /\ ~Has(i)
            /\ table' = [table EXCEPT ![i] = o]
  PROVE  Placed' /\ Sessions'
<1> USE DEF BrowserInv
<1>1. /\ ses' \in [Obj -> Session] /\ req' \in [Req -> Handler]
      /\ \A x \in Obj \ {o} : ses'[x] = ses[x]
      /\ ses'[o].life = s.life /\ ses'[o].br = s.br /\ ses'[o].page = s.page /\ ses'[o].input = s.input /\ ses'[o].lost = s.lost
      /\ ses'[o].raced <=> s.raced \/ ~(s.page \/ Calm(o, s))
      /\ \A q \in Req \ {r} : req'[q] = req[q]
      /\ \/ req'[r] = req[r]
         \/ req'[r].at = "nav"
         \/ ~s.page /\ req'[r].at = "launch" /\ req'[r].obj = o
  BY PageGives
<1>2. LaunchOK(o) /\ OfferOK(o)
  BY DEF Sessions
<1>3. \A x \in Obj : \A q \in Req : Giving(q, x)' => Giving(q, x)
  BY <1>1 DEF Giving
<1>4. \A x \in Obj \ {o} : \A q \in Req : Launching(q, x)' => Launching(q, x)
  BY <1>1 DEF Launching
<1>5. Placed'
  <2>1. CASE s = ses[o] /\ UNCHANGED table
    <3>1. \A x \in Obj : ses'[x].life = ses[x].life
      BY <1>1, <2>1
    <3> QED BY <2>1, <3>1 DEF Placed, Has
  <2>2. CASE /\ s = [NoSession EXCEPT !.life = "open"] /\ ses[o].life = "free" /\ ~Has(i)
             /\ table' = [table EXCEPT ![i] = o]
    <3>1. ses'[o].life = "open"
      BY <1>1, <2>2, NewSession
    <3>2. table'[i] = o /\ \A j \in Id \ {i} : table'[j] = table[j] /\ table[j] # o
      BY <2>2 DEF TypeOK, Placed
    <3>3. table[i] = NoObj /\ o # NoObj
      BY <2>2, BrowserAssumption DEF Has
    <3>4. \A x \in Obj \ {o} : (\E j \in Id : table'[j] = x) <=> (\E j \in Id : table[j] = x)
      BY <3>2, <3>3, BrowserAssumption
    <3> QED BY <1>1, <3>1, <3>2, <3>3, <3>4 DEF Placed, Has
  <2> QED BY <2>1, <2>2
<1>6. ASSUME NEW x \in Obj \ {o} PROVE LaunchOK(x)' /\ OfferOK(x)'
  <2>1. ses'[x] = ses[x] /\ LaunchOK(x) /\ OfferOK(x)
    BY <1>1 DEF Sessions
  <2>2. \A j \in Id : table[j] = x => table'[j] = x
    BY BrowserAssumption DEF TypeOK, Has
  <2>3. LaunchOK(x)'
    BY <1>4, <2>1, LaunchFrame
  <2>4. OfferOK(x)'
    BY <1>3, <2>1, <2>2, OfferFrame
  <2> QED BY <2>3, <2>4
<1>7. LaunchOK(o)'
  <2> SUFFICES ASSUME ~ses'[o].raced
               PROVE  /\ ~ses'[o].lost
                      /\ ses'[o].br => ses'[o].page /\ ses'[o].life \in {"open", "closing"}
                      /\ \A q \in Req : Launching(q, o)' => ses'[o].life = "open" /\ ~ses'[o].br
                      /\ \A p, q \in Req : Launching(p, o)' /\ Launching(q, o)' => p = q
    BY DEF LaunchOK
  <2>1. ~s.raced /\ (s.page \/ Calm(o, s))
    BY <1>1
  <2>2. CASE s.page
    <3>1. s = ses[o]
      BY <2>2, NewSession
    <3>2. \A q \in Req : Launching(q, o)' => Launching(q, o)
      BY <1>1, <2>2 DEF Launching
    <3> QED BY <1>1, <1>2, <2>1, <3>1, <3>2 DEF LaunchOK
  <2>3. CASE ~s.page /\ Calm(o, s)
    <3>1. s.life = "open" /\ \A q \in Req : ~Launching(q, o)
      BY <2>3 DEF Calm, In, Launching
    <3>2. \A q \in Req : Launching(q, o)' => q = r
      BY <1>1, <3>1 DEF Launching
    <3>3. ~s.lost /\ ~s.br
      BY <1>2, <2>1, <2>3, NewSession DEF LaunchOK
    <3> QED BY <1>1, <2>3, <3>1, <3>2, <3>3
  <2> QED BY <2>1, <2>2, <2>3
<1>8. OfferOK(o)'
  <2>1. CASE s = ses[o] /\ UNCHANGED table
    BY <1>1, <1>2, <1>3, <2>1, OfferFrame
  <2>2. CASE s = [NoSession EXCEPT !.life = "open"] /\ ses[o].life = "free"
    <3>1. (\A j \in Id : offer[j] # o) /\ \A q \in Req : ~Giving(q, o)
      BY <1>2, <2>2 DEF OfferOK
    <3>2. ses'[o].life = "open"
      BY <1>1, <2>2, NewSession
    <3> QED BY <1>3, <3>1, <3>2 DEF OfferOK
  <2> QED BY <2>1, <2>2
<1> QED BY <1>5, <1>6, <1>7, <1>8 DEF Sessions

\* So does close(), whatever handler or timer calls it.
LEMMA CloseKeeps ==
  ASSUME BrowserInv, NEW o \in Obj, CloseSession(o),
         \A i \in Id, x \in Obj : offer'[i] = x => offer[i] = x,
         \A r \in Req, x \in Obj : (Launching(r, x)' => Launching(r, x)) /\ (Giving(r, x)' => Giving(r, x))
  PROVE  Placed' /\ Sessions'
<1> USE DEF BrowserInv
<1>0. /\ ses' \in [Obj -> Session] /\ table' \in [Id -> Obj \cup {NoObj}]
      /\ \A x \in Obj \ {o} : ses'[x] = ses[x]
      /\ ses[o].life # "open" => ses'[o] = ses[o] /\ UNCHANGED table
      /\ ses[o].life = "open" =>
           /\ ses'[o].br = ses[o].br /\ ses'[o].page = ses[o].page /\ ses'[o].lost = ses[o].lost
           /\ ses'[o].life = (IF ses[o].br THEN "closing" ELSE "closed")
           /\ ses'[o].raced <=> ses[o].raced \/ \E r \in Req : Launching(r, o)
           /\ table' = [i \in Id |-> IF table[i] = o /\ ~ses[o].br THEN NoObj ELSE table[i]]
  BY CloseGives
<1>1. \A x \in Obj \ {o}, i \in Id : table'[i] = x <=> table[i] = x
  BY <1>0, BrowserAssumption DEF TypeOK
<1>2. \A i \in Id : table'[i] \in {table[i], NoObj}
  BY <1>0 DEF TypeOK
<1>3. Placed'
  <2>1. \A i, j \in Id : table'[i] # NoObj /\ table'[i] = table'[j] => i = j
    BY <1>2 DEF Placed, Has
  <2>2. ses'[o].life \in {"open", "closing"} <=> \E i \in Id : table'[i] = o
    <3>1. CASE ses[o].life # "open"
      BY <1>0, <3>1 DEF Placed
    <3>2. CASE ses[o].life = "open"
      BY <1>0, <3>2, BrowserAssumption DEF Placed
    <3> QED BY <3>1, <3>2
  <2> QED BY <1>0, <1>1, <2>1, <2>2 DEF Placed, Has
<1>4. ASSUME NEW x \in Obj \ {o} PROVE LaunchOK(x)' /\ OfferOK(x)'
  <2>1. ses'[x] = ses[x] /\ LaunchOK(x) /\ OfferOK(x)
    BY <1>0 DEF Sessions
  <2>2. LaunchOK(x)'
    BY <2>1, LaunchFrame
  <2>3. OfferOK(x)'
    BY <1>1, <2>1, OfferFrame
  <2> QED BY <2>2, <2>3
<1>5. LaunchOK(o)' /\ OfferOK(o)'
  <2>1. LaunchOK(o) /\ OfferOK(o)
    BY DEF Sessions
  <2>2. CASE ses[o].life # "open"
    BY <1>0, <2>1, <2>2, LaunchFrame, OfferFrame
  <2>3. CASE ses[o].life = "open"
    <3>1. LaunchOK(o)'
      BY <1>0, <2>1, <2>3 DEF LaunchOK
    <3>2. OfferOK(o)'
      BY <1>0, <2>1, <2>3, OfferFrame
    <3> QED BY <3>1, <3>2
  <2> QED BY <2>2, <2>3
<1> QED BY <1>4, <1>5, <1>3 DEF Sessions

\* A step that changes no session, nor the table, and begins nothing.
LEMMA QuietKeeps ==
  ASSUME BrowserInv, UNCHANGED <<table, ses>>,
         \A i \in Id, x \in Obj : offer'[i] = x => offer[i] = x,
         \A r \in Req, x \in Obj : (Launching(r, x)' => Launching(r, x)) /\ (Giving(r, x)' => Giving(r, x))
  PROVE  Placed' /\ Sessions'
<1>1. Placed'
  BY DEF BrowserInv, Placed, Has
<1>2. ASSUME NEW x \in Obj PROVE LaunchOK(x)' /\ OfferOK(x)'
  <2>1. LaunchOK(x) /\ OfferOK(x)
    BY DEF BrowserInv, Sessions
  <2>2. LaunchOK(x)'
    BY <2>1, LaunchFrame
  <2>3. OfferOK(x)'
    BY <2>1, OfferFrame
  <2> QED BY <2>2, <2>3
<1> QED BY <1>1, <1>2 DEF Sessions

\* What a handler becomes that has done, or goes on elsewhere.
LEMMA HandlerGone ==
  ASSUME TypeOK, NEW r \in Req, NEW a \in Handler, a.at \notin {"launch", "file"}, req' = [req EXCEPT ![r] = a]
  PROVE  /\ req' \in [Req -> Handler]
         /\ \A q \in Req, x \in Obj : (Launching(q, x)' => Launching(q, x)) /\ (Giving(q, x)' => Giving(q, x))
         /\ \A q \in Req, x \in Obj : (Launching(q, x)' \/ Giving(q, x)') => q # r
BY DEF TypeOK, Launching, Giving

LEMMA DoneGoes ==
  ASSUME TypeOK, NEW r \in Req, Done(r) \/ Goes(r)
  PROVE  \E a \in Handler : a.at \in {"none", "e2e"} /\ req' = [req EXCEPT ![r] = a]
<1>1. req[r] \in Handler /\ NoHandler \in Handler /\ NoHandler.at = "none"
  BY TypeFacts, NoHandlerType
<1>2. [req[r] EXCEPT !.at = "e2e"] \in Handler /\ [req[r] EXCEPT !.at = "e2e"].at = "e2e"
  BY <1>1 DEF Handler
<1>3. CASE Done(r)
  BY <1>1, <1>3 DEF Done
<1>4. CASE Goes(r) /\ req[r].for = "e2e"
  BY <1>2, <1>4 DEF Goes
<1>5. CASE Goes(r) /\ req[r].for # "e2e"
  BY <1>1, <1>5 DEF Goes
<1> QED BY <1>3, <1>4, <1>5

LEMMA CloseDoneKeeps ==
  ASSUME BrowserInv, NEW o \in Obj, CloseDone(o)
  PROVE  BrowserInv'
<1> USE DEF BrowserInv
<1> DEFINE s == [ses[o] EXCEPT !.life = "closed", !.br = FALSE, !.page = FALSE]
<1>1. s \in Session /\ s.life = "closed" /\ ~s.br /\ s.lost = ses[o].lost /\ s.raced = ses[o].raced
  BY TypeFacts DEF Session
<1>2. ses' = [ses EXCEPT ![o] = s]
  BY DEF CloseDone, TypeOK
<1> HIDE DEF s
<1>3. /\ ses' \in [Obj -> Session] /\ ses'[o] = s
      /\ \A x \in Obj \ {o} : ses'[x] = ses[x]
  BY <1>1, <1>2 DEF TypeOK
<1>4. UNCHANGED <<link, req, offer, sweep>> /\ ses[o].life = "closing"
      /\ table' = [i \in Id |-> IF table[i] = o THEN NoObj ELSE table[i]]
  BY DEF CloseDone
<1>5. TypeOK'
  BY <1>3, <1>4 DEF TypeOK
<1>6. \A x \in Obj \ {o}, i \in Id : table'[i] = x <=> table[i] = x
  BY <1>4, BrowserAssumption DEF TypeOK
<1>7. \A i \in Id : table'[i] # o
  BY <1>4, BrowserAssumption DEF TypeOK
<1>8. Placed'
  <2>1. \A i, j \in Id : table'[i] # NoObj /\ table'[i] = table'[j] => i = j
    BY <1>4 DEF Placed, Has
  <2> QED BY <1>1, <1>3, <1>6, <1>7, <2>1 DEF Placed, Has
<1>9. \A r \in Req, x \in Obj : (Launching(r, x)' => Launching(r, x)) /\ (Giving(r, x)' => Giving(r, x))
  BY <1>4 DEF Launching, Giving
<1>10. ASSUME NEW x \in Obj PROVE LaunchOK(x)' /\ OfferOK(x)'
  <2>1. LaunchOK(x) /\ OfferOK(x)
    BY DEF Sessions
  <2>2. CASE x # o
    <3>1. LaunchOK(x)'
      BY <1>3, <1>9, <2>1, <2>2, LaunchFrame
    <3>2. OfferOK(x)'
      BY <1>3, <1>4, <1>6, <1>9, <2>1, <2>2, OfferFrame
    <3> QED BY <3>1, <3>2
  <2>3. CASE x = o
    <3>1. LaunchOK(x)'
      BY <1>1, <1>3, <1>4, <1>9, <2>1, <2>3 DEF LaunchOK
    <3>2. OfferOK(x)'
      BY <1>1, <1>3, <1>4, <1>9, <2>1, <2>3, OfferFrame
    <3> QED BY <3>1, <3>2
  <2> QED BY <2>2, <2>3
<1> QED BY <1>5, <1>8, <1>10 DEF Sessions

LEMMA CollectedKeeps ==
  ASSUME BrowserInv, NEW o \in Obj, Collected(o)
  PROVE  BrowserInv'
<1> USE DEF BrowserInv
<1>1. /\ ses' \in [Obj -> Session] /\ ses'[o] = NoSession
      /\ \A x \in Obj \ {o} : ses'[x] = ses[x]
  BY NewSession DEF Collected, TypeOK
<1>2. /\ UNCHANGED <<link, table, req, offer, sweep>> /\ ses[o].life = "closed"
      /\ \A r \in Req : ~Launching(r, o) /\ ~Giving(r, o)
      /\ \A i \in Id : offer[i] # o
  BY DEF Collected, In, Launching, Giving
<1>3. TypeOK'
  BY <1>1, <1>2 DEF TypeOK
<1>4. Placed'
  BY <1>1, <1>2, NewSession DEF Placed, Has
<1>5. \A r \in Req, x \in Obj : (Launching(r, x)' => Launching(r, x)) /\ (Giving(r, x)' => Giving(r, x))
  BY <1>2 DEF Launching, Giving
<1>6. ASSUME NEW x \in Obj PROVE LaunchOK(x)' /\ OfferOK(x)'
  <2>1. LaunchOK(x) /\ OfferOK(x)
    BY DEF Sessions
  <2>2. CASE x # o
    <3>1. LaunchOK(x)'
      BY <1>1, <1>5, <2>1, <2>2, LaunchFrame
    <3>2. OfferOK(x)'
      BY <1>1, <1>2, <1>5, <2>1, <2>2, OfferFrame
    <3> QED BY <3>1, <3>2
  <2>3. CASE x = o
    BY <1>1, <1>2, <1>5, <2>3, NewSession DEF LaunchOK, OfferOK
  <2> QED BY <2>2, <2>3
<1> QED BY <1>3, <1>4, <1>6 DEF Sessions

\* A session of which only the page changes.
LEMMA PageChanged ==
  ASSUME BrowserInv, NEW o \in Obj, NEW s \in Session, ses' = [ses EXCEPT ![o] = s],
         s.life = ses[o].life, UNCHANGED table
  PROVE  /\ ses' \in [Obj -> Session] /\ ses'[o] = s
         /\ \A x \in Obj \ {o} : ses'[x] = ses[x]
         /\ Placed'
<1>1. /\ ses' \in [Obj -> Session] /\ ses'[o] = s
      /\ \A x \in Obj \ {o} : ses'[x] = ses[x]
  BY DEF TypeOK, BrowserInv
<1>2. \A x \in Obj : ses'[x].life = ses[x].life
  BY <1>1
<1> QED BY <1>1, <1>2 DEF BrowserInv, Placed, Has

LEMMA LaunchedKeeps ==
  ASSUME "half" \notin Faults, BrowserInv, NEW r \in Req, Launched(r)
  PROVE  BrowserInv'
<1> USE DEF BrowserInv
<1>1. PICK o \in Obj : o = req[r].obj
  BY TypeFacts
<1>2. /\ Launching(r, o) /\ UNCHANGED <<link, table, offer, sweep>>
      /\ ses[o] \in Session /\ req[r] \in Handler
  BY <1>1, TypeFacts DEF Launched, Launching
<1>3. LaunchOK(o) /\ OfferOK(o)
  BY DEF Sessions
<1>4. PICK a \in Handler : a.at \in {"none", "e2e", "nav"} /\ req' = [req EXCEPT ![r] = a]
  <2>1. [req[r] EXCEPT !.at = "nav"] \in Handler /\ [req[r] EXCEPT !.at = "nav"].at = "nav"
    BY <1>2 DEF Handler
  <2>2. Done(r) \/ Goes(r) \/ req' = [req EXCEPT ![r] = [req[r] EXCEPT !.at = "nav"]]
    BY DEF Launched
  <2> QED BY <2>1, <2>2, DoneGoes
<1>5. /\ req' \in [Req -> Handler]
      /\ \A q \in Req, x \in Obj : (Launching(q, x)' => Launching(q, x)) /\ (Giving(q, x)' => Giving(q, x))
      /\ \A q \in Req, x \in Obj : (Launching(q, x)' \/ Giving(q, x)') => q # r
  BY <1>4, HandlerGone
<1>6. CASE UNCHANGED ses
  <2>1. Placed' /\ Sessions'
    BY <1>2, <1>5, <1>6, QuietKeeps
  <2> QED BY <1>2, <1>5, <1>6, <2>1 DEF TypeOK
<1>7. CASE ~UNCHANGED ses
  <2>1. ses' = [[ses EXCEPT ![o].br = TRUE, ![o].lost = @ \/ ses[o].br] EXCEPT ![o].page = TRUE]
    BY <1>1, <1>7 DEF Launched
  <2>2. PICK b \in BOOLEAN : (b <=> ses[o].lost \/ ses[o].br) /\ ses' = [ses EXCEPT ![o] = [ses[o] EXCEPT !.br = TRUE, !.lost = b, !.page = TRUE]]
    BY <1>2, <2>1 DEF Session, TypeOK
  <2> DEFINE s == [ses[o] EXCEPT !.br = TRUE, !.lost = b, !.page = TRUE]
  <2>3. s \in Session /\ s.life = ses[o].life /\ s.br /\ s.page /\ s.lost = b /\ s.raced = ses[o].raced /\ s.input = ses[o].input
    BY <1>2 DEF Session
  <2>4. ses' = [ses EXCEPT ![o] = s]
    BY <2>2
  <2> HIDE DEF s
  <2>5. /\ ses' \in [Obj -> Session] /\ ses'[o] = s /\ Placed'
        /\ \A x \in Obj \ {o} : ses'[x] = ses[x]
    BY <1>2, <2>3, <2>4, PageChanged
  <2>6. TypeOK'
    BY <1>2, <1>5, <2>5 DEF TypeOK
  <2>7. ASSUME NEW x \in Obj PROVE OfferOK(x)'
    <3>1. OfferOK(x) /\ ses'[x].life = ses[x].life /\ ses'[x].input = ses[x].input
      BY <2>3, <2>5 DEF Sessions
    <3> QED BY <1>2, <1>5, <3>1, OfferFrame
  <2>8. ASSUME NEW x \in Obj PROVE LaunchOK(x)'
    <3>1. CASE x # o
      <4>1. LaunchOK(x) /\ ses'[x] = ses[x]
        BY <2>5, <3>1 DEF Sessions
      <4> QED BY <1>5, <4>1, LaunchFrame
    <3>2. CASE x = o
      <4>1. ASSUME ~ses[o].raced
            PROVE  /\ ses[o].life = "open" /\ ~b
                   /\ \A q \in Req : ~Launching(q, o)'
        <5>1. ses[o].life = "open" /\ ~b
          BY <1>2, <1>3, <2>2, <4>1 DEF LaunchOK
        <5>2. \A q \in Req : ~Launching(q, o)'
          BY <1>2, <1>3, <1>5, <4>1 DEF LaunchOK
        <5> QED BY <5>1, <5>2
      <4> QED BY <2>3, <2>5, <3>2, <4>1 DEF LaunchOK
    <3> QED BY <3>1, <3>2
  <2> QED BY <2>5, <2>6, <2>7, <2>8 DEF Sessions
<1> QED BY <1>6, <1>7

LEMMA NavigatedKeeps ==
  ASSUME BrowserInv, NEW r \in Req, Navigated(r)
  PROVE  BrowserInv'
<1> USE DEF BrowserInv
<1>1. PICK o \in Obj : o = req[r].obj
  BY TypeFacts
<1>2. UNCHANGED <<link, table, offer, sweep>> /\ ses[o] \in Session
  BY TypeFacts DEF Navigated
<1>3. PICK a \in Handler : a.at \in {"none", "e2e"} /\ req' = [req EXCEPT ![r] = a]
  BY DoneGoes DEF Navigated
<1>4. /\ req' \in [Req -> Handler]
      /\ \A q \in Req, x \in Obj : (Launching(q, x)' => Launching(q, x)) /\ (Giving(q, x)' => Giving(q, x))
  BY <1>3, HandlerGone
<1>5. CASE UNCHANGED ses
  <2>1. Placed' /\ Sessions'
    BY <1>2, <1>4, <1>5, QuietKeeps
  <2> QED BY <1>2, <1>4, <1>5, <2>1 DEF TypeOK
<1>6. CASE ~UNCHANGED ses
  <2> DEFINE s == [ses[o] EXCEPT !.live = TRUE]
  <2>1. ses' = [ses EXCEPT ![o] = s]
    BY <1>1, <1>6 DEF Navigated, TypeOK
  <2>2. s \in Session /\ s.life = ses[o].life /\ s.br = ses[o].br /\ s.page = ses[o].page /\ s.input = ses[o].input /\ s.lost = ses[o].lost /\ s.raced = ses[o].raced
    BY <1>2 DEF Session
  <2> HIDE DEF s
  <2>3. /\ ses' \in [Obj -> Session] /\ ses'[o] = s /\ Placed'
        /\ \A x \in Obj \ {o} : ses'[x] = ses[x]
    BY <1>2, <2>1, <2>2, PageChanged
  <2>4. ASSUME NEW x \in Obj PROVE LaunchOK(x)' /\ OfferOK(x)'
    <3>1. LaunchOK(x) /\ OfferOK(x)
      BY DEF Sessions
    <3>2. /\ ses'[x].life = ses[x].life /\ ses'[x].br = ses[x].br /\ ses'[x].page = ses[x].page /\ ses'[x].input = ses[x].input
          /\ ses'[x].lost = ses[x].lost /\ ses'[x].raced = ses[x].raced
      BY <2>2, <2>3
    <3>3. LaunchOK(x)'
      BY <1>4, <3>1, <3>2, LaunchFrame
    <3>4. OfferOK(x)'
      BY <1>2, <1>4, <3>1, <3>2, OfferFrame
    <3> QED BY <3>3, <3>4
  <2> QED BY <1>2, <1>4, <2>3, <2>4 DEF TypeOK, Sessions
<1> QED BY <1>5, <1>6

-----------------------------------------------------------------------------
(* Files.                                                                  *)

LEMMA FileChooserKeeps ==
  ASSUME "second" \notin Faults, BrowserInv, NEW i \in Id, FileChooser(i)
  PROVE  BrowserInv'
<1> USE DEF BrowserInv
<1>1. PICK o \in Obj : o = table[i]
  BY TypeFacts DEF FileChooser, Alive
<1>2. /\ ses[o] \in Session /\ ses[o].life = "open"
      /\ offer' = [offer EXCEPT ![i] = o] /\ UNCHANGED <<link, table, req, sweep>>
  BY <1>1, TypeFacts DEF FileChooser, Alive
<1> DEFINE s == [ses[o] EXCEPT !.input = TRUE, !.asks = TRUE]
<1>3. ses' = [ses EXCEPT ![o] = s]
  BY <1>1 DEF FileChooser, TypeOK
<1>4. /\ s \in Session /\ s.life = ses[o].life /\ s.br = ses[o].br /\ s.page = ses[o].page /\ s.input /\ s.lost = ses[o].lost /\ s.raced = ses[o].raced
      /\ ses' = [ses EXCEPT ![o] = s]
  BY <1>2, <1>3 DEF Session
<1> HIDE DEF s
<1>5. /\ ses' \in [Obj -> Session] /\ ses'[o] = s /\ Placed'
      /\ \A x \in Obj \ {o} : ses'[x] = ses[x]
  BY <1>2, <1>4, PageChanged
<1>6. TypeOK' /\ offer'[i] = o /\ \A j \in Id \ {i} : offer'[j] = offer[j]
  BY <1>2, <1>5 DEF TypeOK
<1>7. \A r \in Req, x \in Obj : (Launching(r, x)' => Launching(r, x)) /\ (Giving(r, x)' => Giving(r, x))
  BY <1>2 DEF Launching, Giving
<1>8. ASSUME NEW x \in Obj PROVE LaunchOK(x)' /\ OfferOK(x)'
  <2>1. LaunchOK(x) /\ OfferOK(x)
    BY DEF Sessions
  <2>2. LaunchOK(x)'
    BY <1>4, <1>5, <1>7, <2>1, LaunchFrame
  <2>3. CASE x # o
    <3>1. \A j \in Id : offer'[j] = x => offer[j] = x
      BY <1>6, <2>3
    <3>2. OfferOK(x)'
      BY <1>2, <1>5, <1>7, <2>1, <2>3, <3>1, OfferFrame
    <3> QED BY <2>2, <3>2
  <2>4. CASE x = o
    <3>1. \A r \in Req : ~Giving(r, o)
      BY <1>1 DEF FileChooser, In, Giving
    <3>2. \A j \in Id : offer'[j] = o => table'[j] = o
      BY <1>1, <1>2, <1>6, <2>1, <2>4 DEF OfferOK
    <3>3. OfferOK(o)'
      BY <1>2, <1>4, <1>5, <1>7, <3>1, <3>2 DEF OfferOK
    <3> QED BY <2>2, <2>4, <3>3
  <2> QED BY <2>3, <2>4
<1> QED BY <1>5, <1>6, <1>8 DEF Sessions

\* A page that is left changes nothing but that nobody waits.
LEMMA PageLeftKeeps ==
  ASSUME BrowserInv, NEW i \in Id, PageLeft(i)
  PROVE  BrowserInv'
<1> USE DEF BrowserInv
<1>1. PICK o \in Obj : o = table[i]
  BY TypeFacts DEF PageLeft, Alive
<1>2. UNCHANGED <<link, table, req, offer, sweep>> /\ ses[o] \in Session
  BY TypeFacts DEF PageLeft
<1> DEFINE s == [ses[o] EXCEPT !.asks = FALSE]
<1>3. ses' = [ses EXCEPT ![o] = s]
  BY <1>1 DEF PageLeft, TypeOK
<1>4. s \in Session /\ s.life = ses[o].life /\ s.br = ses[o].br /\ s.page = ses[o].page /\ s.input = ses[o].input /\ s.lost = ses[o].lost /\ s.raced = ses[o].raced
  BY <1>2 DEF Session
<1> HIDE DEF s
<1>5. /\ ses' \in [Obj -> Session] /\ ses'[o] = s /\ Placed'
      /\ \A x \in Obj \ {o} : ses'[x] = ses[x]
  BY <1>2, <1>3, <1>4, PageChanged
<1>6. \A r \in Req, x \in Obj : (Launching(r, x)' => Launching(r, x)) /\ (Giving(r, x)' => Giving(r, x))
  BY <1>2 DEF Launching, Giving
<1>7. ASSUME NEW x \in Obj PROVE LaunchOK(x)' /\ OfferOK(x)'
  <2>1. LaunchOK(x) /\ OfferOK(x)
    BY DEF Sessions
  <2>2. /\ ses'[x].life = ses[x].life /\ ses'[x].br = ses[x].br /\ ses'[x].page = ses[x].page
        /\ ses'[x].input = ses[x].input /\ ses'[x].lost = ses[x].lost /\ ses'[x].raced = ses[x].raced
    BY <1>4, <1>5
  <2>3. LaunchOK(x)'
    BY <1>6, <2>1, <2>2, LaunchFrame
  <2>4. OfferOK(x)'
    BY <1>2, <1>6, <2>1, <2>2, OfferFrame
  <2> QED BY <2>3, <2>4
<1> QED BY <1>2, <1>5, <1>7 DEF TypeOK, Sessions

\* Who takes up an offer is the only one, and leaves none.
LEMMA SetFileOnce ==
  ASSUME BrowserInv, NEW r \in Req, NEW i \in Id, SetFile(r, i)
  PROVE  BrowserInv'
<1> USE DEF BrowserInv
<1>1. PICK o \in Obj : o = offer[i]
  BY TypeFacts DEF SetFile
<1> DEFINE a == [NoHandler EXCEPT !.at = "file", !.id = i, !.obj = o]
<1>2. a \in Handler /\ a.at = "file" /\ a.obj = o
  BY NoHandlerType DEF Handler
<1>3. /\ UNCHANGED <<link, table, ses, sweep>>
      /\ offer' = [offer EXCEPT ![i] = NoObj]
      /\ req' = [req EXCEPT ![r] = a]
  BY <1>1 DEF SetFile
<1> HIDE DEF a
<1>4. TypeOK' /\ req'[r] = a /\ \A q \in Req \ {r} : req'[q] = req[q]
  BY <1>2, <1>3 DEF TypeOK
<1>5. \A j \in Id, x \in Obj : offer'[j] = x => offer[j] = x /\ j # i
  BY <1>3, BrowserAssumption DEF TypeOK
<1>6. \A q \in Req, x \in Obj : Launching(q, x)' => Launching(q, x)
  BY <1>2, <1>4 DEF Launching
<1>7. \A q \in Req, x \in Obj : Giving(q, x)' => Giving(q, x) \/ (q = r /\ x = o)
  BY <1>2, <1>4 DEF Giving
<1>8. Placed'
  BY <1>3 DEF Placed, Has
<1>9. ASSUME NEW x \in Obj PROVE LaunchOK(x)' /\ OfferOK(x)'
  <2>1. LaunchOK(x) /\ OfferOK(x)
    BY DEF Sessions
  <2>2. LaunchOK(x)'
    BY <1>3, <1>6, <2>1, LaunchFrame
  <2>3. CASE x # o
    <3>1. OfferOK(x)'
      BY <1>3, <1>5, <1>7, <2>1, <2>3, OfferFrame
    <3> QED BY <2>2, <3>1
  <2>4. CASE x = o
    <3>1. ses[o].life # "free"
      BY <1>1, <2>1, <2>4 DEF OfferOK
    <3>2. ASSUME ses[o].life = "open"
          PROVE  ses[o].input /\ (\A j \in Id : offer'[j] # o) /\ \A q \in Req : ~Giving(q, o)
      <4>1. ses[o].input /\ (\A j \in Id : offer[j] = o => table[j] = o) /\ \A q \in Req : ~Giving(q, o)
        BY <1>1, <2>1, <2>4, <3>2 DEF OfferOK
      <4>2. \A j \in Id : offer[j] = o => j = i
        BY <1>1, <4>1, BrowserAssumption DEF Placed, Has
      <4> QED BY <1>5, <4>1, <4>2
    <3>3. OfferOK(o)'
      BY <1>3, <1>5, <1>7, <3>1, <3>2 DEF OfferOK
    <3> QED BY <2>2, <2>4, <3>3
  <2> QED BY <2>3, <2>4
<1> QED BY <1>4, <1>8, <1>9 DEF Sessions

LEMMA AcceptedKeeps ==
  ASSUME BrowserInv, NEW r \in Req, Accepted(r)
  PROVE  BrowserInv'
<1> USE DEF BrowserInv
<1>1. PICK o \in Obj : o = req[r].obj
  BY TypeFacts
<1>2. /\ Giving(r, o) /\ UNCHANGED <<link, table, offer, sweep>> /\ ses[o] \in Session
  BY <1>1, TypeFacts DEF Accepted, Giving
<1>3. PICK b \in BOOLEAN : ses' = [ses EXCEPT ![o] = [ses[o] EXCEPT !.input = FALSE, !.asks = b]]
  <2>1. PICK fails \in BOOLEAN : ses' = [ses EXCEPT ![o].input = FALSE, ![o].asks = @ /\ (fails \/ ~ses[o].input)]
    BY <1>1 DEF Accepted
  <2>2. (ses[o].asks /\ (fails \/ ~ses[o].input)) \in BOOLEAN
    OBVIOUS
  <2>3. ses' = [ses EXCEPT ![o] = [ses[o] EXCEPT !.input = FALSE, !.asks = ses[o].asks /\ (fails \/ ~ses[o].input)]]
    BY <2>1 DEF TypeOK
  <2> QED BY <2>2, <2>3
<1> DEFINE s == [ses[o] EXCEPT !.input = FALSE, !.asks = b]
<1>4. /\ s \in Session /\ s.life = ses[o].life /\ s.br = ses[o].br /\ s.page = ses[o].page /\ ~s.input /\ s.lost = ses[o].lost /\ s.raced = ses[o].raced
      /\ ses' = [ses EXCEPT ![o] = s]
  BY <1>2, <1>3 DEF Session
<1> HIDE DEF s
<1>5. /\ ses' \in [Obj -> Session] /\ ses'[o] = s /\ Placed'
      /\ \A x \in Obj \ {o} : ses'[x] = ses[x]
  BY <1>2, <1>4, PageChanged
<1>6. PICK a \in Handler : a.at \in {"none", "e2e"} /\ req' = [req EXCEPT ![r] = a]
  BY DoneGoes DEF Accepted
<1>7. /\ req' \in [Req -> Handler]
      /\ \A q \in Req, x \in Obj : (Launching(q, x)' => Launching(q, x)) /\ (Giving(q, x)' => Giving(q, x))
      /\ \A q \in Req, x \in Obj : (Launching(q, x)' \/ Giving(q, x)') => q # r
  BY <1>6, HandlerGone
<1>8. TypeOK'
  BY <1>2, <1>5, <1>7 DEF TypeOK
<1>9. ASSUME NEW x \in Obj PROVE LaunchOK(x)' /\ OfferOK(x)'
  <2>1. LaunchOK(x) /\ OfferOK(x)
    BY DEF Sessions
  <2>2. LaunchOK(x)'
    BY <1>4, <1>5, <1>7, <2>1, LaunchFrame
  <2>3. CASE x # o
    <3>1. OfferOK(x)'
      BY <1>2, <1>5, <1>7, <2>1, <2>3, OfferFrame
    <3> QED BY <2>2, <3>1
  <2>4. CASE x = o
    <3>1. ses[o].life # "free"
      BY <1>2, <2>1, <2>4 DEF OfferOK
    <3>2. ASSUME ses[o].life = "open"
          PROVE  (\A j \in Id : offer'[j] # o) /\ \A q \in Req : ~Giving(q, o)'
      BY <1>2, <1>7, <2>1, <2>4, <3>2 DEF OfferOK
    <3>3. ses'[o].life = ses[o].life
      BY <1>4, <1>5
    <3>4. OfferOK(o)'
      BY <1>2, <1>7, <2>1, <2>4, <3>1, <3>2, <3>3 DEF OfferOK
    <3> QED BY <2>2, <2>4, <3>4
  <2> QED BY <2>3, <2>4
<1> QED BY <1>5, <1>8, <1>9 DEF Sessions

-----------------------------------------------------------------------------
(* Handlers that ask for a page, or close.                                 *)

LEMMA OpenedKeeps ==
  ASSUME BrowserInv, NEW r \in Req, NEW h \in {"open", "e2e"}, NEW i \in Id, Opened(r, h, i),
         req[r].at = "none", UNCHANGED <<link, offer, sweep>>
  PROVE  BrowserInv'
<1> USE DEF BrowserInv
<1>1. PICK o \in Obj, s \in Session :
        /\ PageAsked(r, h, i, o, s)
        /\ \/ s = ses[o] /\ UNCHANGED table
           \/ /\ s = [NoSession EXCEPT !.life = "open"] /\ ses[o].life = "free" /\ ~Has(i)
              /\ table' = [table EXCEPT ![i] = o]
  BY TypeFacts, NewSession DEF Opened
<1>2. Placed' /\ Sessions'
  BY <1>1, PageKeeps
<1>3. ses' \in [Obj -> Session] /\ req' \in [Req -> Handler]
  BY <1>1, PageGives
<1>4. table' \in [Id -> Obj \cup {NoObj}]
  BY <1>1 DEF TypeOK
<1> QED BY <1>2, <1>3, <1>4 DEF TypeOK

LEMMA UsesKeeps ==
  ASSUME BrowserInv, NEW r \in Req, NEW i \in Id, Uses(r, i)
  PROVE  BrowserInv'
<1> USE DEF BrowserInv
<1>1. PICK o \in Obj : o = table[i]
  BY TypeFacts DEF Uses
<1>2. ses[o] \in Session /\ PageAsked(r, "call", i, o, ses[o]) /\ req[r].at = "none" /\ UNCHANGED <<link, table, offer, sweep>>
  BY <1>1, TypeFacts DEF Uses, Free
<1>3. Placed' /\ Sessions'
  BY <1>2, PageKeeps
<1>4. ses' \in [Obj -> Session] /\ req' \in [Req -> Handler]
  BY <1>2, PageGives
<1> QED BY <1>2, <1>3, <1>4 DEF TypeOK

LEMMA ResumeKeeps ==
  ASSUME BrowserInv, NEW r \in Req, NEW i \in Id, Resume(r, i)
  PROVE  BrowserInv'
<1> USE DEF BrowserInv
<1>1. PICK o \in Obj : o = table[i]
  BY TypeFacts DEF Resume, Alive
<1> DEFINE a == [NoHandler EXCEPT !.at = "got", !.for = "open", !.id = i, !.obj = o]
<1>2. a \in Handler /\ a.at = "got"
  BY NoHandlerType DEF Handler
<1>3. req' = [req EXCEPT ![r] = a] /\ UNCHANGED <<link, table, ses, offer, sweep>>
  BY <1>1 DEF Resume
<1> HIDE DEF a
<1>4. /\ req' \in [Req -> Handler]
      /\ \A q \in Req, x \in Obj : (Launching(q, x)' => Launching(q, x)) /\ (Giving(q, x)' => Giving(q, x))
  BY <1>2, <1>3, HandlerGone
<1>5. Placed' /\ Sessions'
  BY <1>3, <1>4, QuietKeeps
<1> QED BY <1>3, <1>4, <1>5 DEF TypeOK

LEMMA ResumedKeeps ==
  ASSUME BrowserInv, NEW r \in Req, Resumed(r)
  PROVE  BrowserInv'
<1> USE DEF BrowserInv
<1>1. PICK o \in Obj, i \in Id : o = req[r].obj /\ i = req[r].id
  BY TypeFacts
<1>2. UNCHANGED <<link, table, offer, sweep>> /\ req[r].at = "got" /\ ses[o] \in Session
  BY <1>1, TypeFacts DEF Resumed
<1>3. CASE ses[o].life = "open"
  <2>1. PageAsked(r, "open", i, o, ses[o])
    BY <1>1, <1>3 DEF Resumed
  <2>2. Placed' /\ Sessions'
    BY <1>2, <2>1, PageKeeps
  <2>3. ses' \in [Obj -> Session] /\ req' \in [Req -> Handler]
    BY <1>2, <2>1, PageGives
  <2> QED BY <1>2, <2>2, <2>3 DEF TypeOK
<1>4. CASE ses[o].life # "open"
  <2>1. Done(r) /\ UNCHANGED ses
    BY <1>1, <1>4 DEF Resumed
  <2>2. PICK a \in Handler : a.at \in {"none", "e2e"} /\ req' = [req EXCEPT ![r] = a]
    BY <2>1, DoneGoes
  <2>3. /\ req' \in [Req -> Handler]
        /\ \A q \in Req, x \in Obj : (Launching(q, x)' => Launching(q, x)) /\ (Giving(q, x)' => Giving(q, x))
    BY <2>2, HandlerGone
  <2>4. Placed' /\ Sessions'
    BY <1>2, <2>1, <2>3, QuietKeeps
  <2> QED BY <1>2, <2>1, <2>3, <2>4 DEF TypeOK
<1> QED BY <1>3, <1>4

LEMMA AnsweredGoes ==
  ASSUME TypeOK, NEW r \in Req, NEW h, NEW i \in Id, Answered(r, h, i)
  PROVE  /\ offer' \in [Id -> Obj \cup {NoObj}]
         /\ \A j \in Id, x \in Obj : offer'[j] = x => offer[j] = x
         /\ \E a \in Handler : a.at \in {"none", "e2e"} /\ req' = [req EXCEPT ![r] = a]
<1>1. /\ offer' \in [Id -> Obj \cup {NoObj}]
      /\ \A j \in Id, x \in Obj : offer'[j] = x => offer[j] = x
  BY BrowserAssumption DEF Answered, TypeOK
<1> QED BY <1>1, DoneGoes DEF Answered

LEMMA CloseCallKeeps ==
  ASSUME BrowserInv, NEW r \in Req, NEW i \in Id, Close(r, i)
  PROVE  BrowserInv'
<1> USE DEF BrowserInv
<1>1. UNCHANGED <<link, sweep>> /\ req[r].for \in {"open", "call", "e2e"}
  BY TypeFacts DEF Close
<1>2. /\ offer' \in [Id -> Obj \cup {NoObj}]
      /\ \A j \in Id, x \in Obj : offer'[j] = x => offer[j] = x
      /\ \E a \in Handler : a.at \in {"none", "e2e", "close"} /\ req' = [req EXCEPT ![r] = a]
  <2>1. CASE Alive(i) /\ ses[table[i]].br
    <3>1. PICK o \in Obj : o = table[i]
      BY <2>1, TypeFacts DEF Alive
    <3> DEFINE a == [at |-> "close", for |-> req[r].for, id |-> i, obj |-> o]
    <3>2. req' = [req EXCEPT ![r] = a] /\ UNCHANGED offer
      BY <2>1, <3>1 DEF Close, TypeOK
    <3>3. a \in Handler /\ a.at = "close"
      BY <1>1 DEF Handler
    <3> HIDE DEF a
    <3> QED BY <3>2, <3>3 DEF TypeOK
  <2>2. CASE ~(Alive(i) /\ ses[table[i]].br)
    <3>1. Answered(r, req[r].for, i)
      BY <2>2 DEF Close
    <3> QED BY <3>1, AnsweredGoes
  <2> QED BY <2>1, <2>2
<1>3. /\ req' \in [Req -> Handler]
      /\ \A q \in Req, x \in Obj : (Launching(q, x)' => Launching(q, x)) /\ (Giving(q, x)' => Giving(q, x))
  BY <1>2, HandlerGone
<1>4. CASE Has(i)
  <2>1. PICK o \in Obj : o = table[i]
    BY <1>4, TypeFacts
  <2>2. CloseSession(o)
    BY <1>4, <2>1 DEF Close
  <2>3. Placed' /\ Sessions'
    BY <1>2, <1>3, <2>2, CloseKeeps
  <2>4. ses' \in [Obj -> Session] /\ table' \in [Id -> Obj \cup {NoObj}]
    BY <2>2, CloseGives
  <2> QED BY <1>1, <1>2, <1>3, <2>3, <2>4 DEF TypeOK
<1>5. CASE ~Has(i)
  <2>1. UNCHANGED <<table, ses>>
    BY <1>5 DEF Close
  <2>2. Placed' /\ Sessions'
    BY <1>2, <1>3, <2>1, QuietKeeps
  <2> QED BY <1>1, <1>2, <1>3, <2>1, <2>2 DEF TypeOK
<1> QED BY <1>4, <1>5

LEMMA ClosedKeeps ==
  ASSUME BrowserInv, NEW r \in Req, Closed(r)
  PROVE  BrowserInv'
<1> USE DEF BrowserInv
<1>1. PICK i \in Id : i = req[r].id
  BY TypeFacts
<1>2. Answered(r, req[r].for, i) /\ UNCHANGED <<link, table, ses, sweep>>
  BY <1>1 DEF Closed
<1>3. /\ offer' \in [Id -> Obj \cup {NoObj}]
      /\ \A j \in Id, x \in Obj : offer'[j] = x => offer[j] = x
      /\ \E a \in Handler : a.at \in {"none", "e2e"} /\ req' = [req EXCEPT ![r] = a]
  BY <1>2, AnsweredGoes
<1>4. /\ req' \in [Req -> Handler]
      /\ \A q \in Req, x \in Obj : (Launching(q, x)' => Launching(q, x)) /\ (Giving(q, x)' => Giving(q, x))
  BY <1>3, HandlerGone
<1>5. Placed' /\ Sessions'
  BY <1>2, <1>3, <1>4, QuietKeeps
<1> QED BY <1>2, <1>3, <1>4, <1>5 DEF TypeOK

-----------------------------------------------------------------------------
(* Timers and the connection.                                              *)

LEMMA TimerKeeps ==
  ASSUME BrowserInv, (\E o \in Obj : Idle(o)) \/ (\E i \in Id : SweepNext(i))
  PROVE  BrowserInv'
<1> USE DEF BrowserInv
<1>1. UNCHANGED <<link, req, offer>> /\ sweep' \subseteq Id
  BY DEF Idle, SweepNext, TypeOK
<1>2. \A q \in Req, x \in Obj : (Launching(q, x)' => Launching(q, x)) /\ (Giving(q, x)' => Giving(q, x))
  BY <1>1 DEF Launching, Giving
<1>3. UNCHANGED <<table, ses>> \/ \E o \in Obj : CloseSession(o)
  BY TypeFacts DEF Idle, SweepNext
<1>4. CASE UNCHANGED <<table, ses>>
  <2>1. Placed' /\ Sessions'
    BY <1>1, <1>2, <1>4, QuietKeeps
  <2> QED BY <1>1, <1>4, <2>1 DEF TypeOK
<1>5. ASSUME NEW o \in Obj, CloseSession(o) PROVE BrowserInv'
  <2>1. Placed' /\ Sessions'
    BY <1>1, <1>2, <1>5, CloseKeeps
  <2>2. ses' \in [Obj -> Session] /\ table' \in [Id -> Obj \cup {NoObj}]
    BY <1>5, CloseGives
  <2> QED BY <1>1, <2>1, <2>2 DEF TypeOK
<1> QED BY <1>3, <1>4, <1>5

LEMMA LinkKeeps ==
  ASSUME BrowserInv, LinkEvent \/ VsCodeClose \/ UNCHANGED vars
  PROVE  BrowserInv'
<1> USE DEF BrowserInv
<1>1. link' \in LinkState
  BY DEF LinkEvent, VsCodeClose, vars, Up, Down, Ended, Reject, Stop, LinkState, TypeOK
<1>2. /\ UNCHANGED <<table, ses, req>> /\ sweep' \subseteq Id
      /\ UNCHANGED offer \/ offer' = [i \in Id |-> NoObj]
  BY DEF LinkEvent, VsCodeClose, Cleanup, vars, own, TypeOK
<1>3. /\ offer' \in [Id -> Obj \cup {NoObj}]
      /\ \A j \in Id, x \in Obj : offer'[j] = x => offer[j] = x
  BY <1>2, BrowserAssumption DEF TypeOK
<1>4. \A q \in Req, x \in Obj : (Launching(q, x)' => Launching(q, x)) /\ (Giving(q, x)' => Giving(q, x))
  BY <1>2 DEF Launching, Giving
<1>5. Placed' /\ Sessions'
  BY <1>2, <1>3, <1>4, QuietKeeps
<1> QED BY <1>1, <1>2, <1>3, <1>5 DEF TypeOK

-----------------------------------------------------------------------------
(* The theorems.                                                           *)

LEMMA InitBrowser == ASSUME Init PROVE BrowserInv
<1>1. /\ table = [i \in Id |-> NoObj] /\ ses = [o \in Obj |-> NoSession] /\ req = [r \in Req |-> NoHandler]
      /\ offer = [i \in Id |-> NoObj] /\ sweep = {} /\ link = "down"
  BY DEF Init, LinkInit
<1>2. NoHandler \in Handler /\ NoHandler.at = "none"
  BY NoHandlerType
<1>3. TypeOK
  BY <1>1, <1>2, NewSession DEF TypeOK, LinkState
<1>4. Placed
  BY <1>1, NewSession, BrowserAssumption DEF Placed, Has
<1>5. Sessions
  BY <1>1, <1>2, NewSession, BrowserAssumption DEF Sessions, LaunchOK, OfferOK, Launching, Giving
<1> QED BY <1>3, <1>4, <1>5 DEF BrowserInv

LEMMA BrowserStep ==
  ASSUME "second" \notin Faults, "half" \notin Faults, BrowserInv, [Next]_vars
  PROVE  BrowserInv'
<1>1. ASSUME NEW o \in Obj, CloseDone(o) \/ Idle(o) \/ Collected(o) PROVE BrowserInv'
  BY <1>1, CloseDoneKeeps, CollectedKeeps, TimerKeeps
<1>2. ASSUME NEW i \in Id, FileChooser(i) \/ PageLeft(i) \/ SweepNext(i) PROVE BrowserInv'
  BY <1>2, FileChooserKeeps, PageLeftKeeps, TimerKeeps
<1>3. ASSUME NEW r \in Req, Resumed(r) \/ Launched(r) \/ Navigated(r) \/ Closed(r) \/ Accepted(r) PROVE BrowserInv'
  BY <1>3, ResumedKeeps, LaunchedKeeps, NavigatedKeeps, ClosedKeeps, AcceptedKeeps
<1>4. ASSUME NEW r \in Req, NEW i \in Id, E2eStart(r, i) \/ Open(r, i) PROVE BrowserInv'
  BY <1>4, OpenedKeeps DEF E2eStart, Open, Free
<1>5. ASSUME NEW r \in Req, NEW i \in Id, Navigate(r, i) \/ Tool(r, i) PROVE BrowserInv'
  BY <1>5, UsesKeeps DEF Navigate, Tool
<1>6. ASSUME NEW r \in Req, NEW i \in Id, Resume(r, i) \/ Close(r, i) \/ SetFile(r, i) PROVE BrowserInv'
  BY <1>6, ResumeKeeps, CloseCallKeeps, SetFileOnce
<1> QED BY <1>1, <1>2, <1>3, <1>4, <1>5, <1>6, LinkKeeps DEF Next

\* browser-session.ts, vscode-tunnel-websocket.ts: whatever tabs, tools, tests,
\* timers and the connection do beside each other, a Chromium is lost only by two
\* launches, or a launch and a close, that overlap; and a file that the user gives is
\* not dropped, as long as no page asks for one while another is handed over, and
\* Chromium gives a page when it starts.
THEOREM BrowsersKept ==
  ASSUME "second" \notin Faults, "half" \notin Faults
  PROVE  Spec => []BrowserKept
<1>1. BrowserInv /\ [Next]_vars => BrowserInv'
  BY BrowserStep
<1>2. BrowserInv => BrowserKept
  <2> SUFFICES ASSUME BrowserInv PROVE BrowserKept
    OBVIOUS
  <2>1. LostOnlyInRaces
    BY DEF BrowserInv, Placed, Sessions, LaunchOK, LostOnlyInRaces
  <2>2. OfferTakesFile
    BY TypeFacts DEF BrowserInv, Sessions, OfferOK, OfferTakesFile
  <2> QED BY <2>1, <2>2 DEF BrowserInv, BrowserKept
<1> QED BY <1>1, <1>2, InitBrowser, PTL DEF Spec

(***************************************************************************)
(* The files of a chat.                                                    *)
(***************************************************************************)

\* A file that is old enough to be swept is of no chat that runs.
FilesInv == FileTypeOK /\ \A f \in old : chat[f[1]] = "idle"

LEMMA FileOf == ASSUME NEW f \in Dir PROVE f[1] \in Chats /\ f = <<f[1], f[2]>> /\ f[2] \in FileKinds
BY DEF Dir

LEMMA PreparedKeeps ==
  ASSUME FilesInv, NEW c \in Chats, NEW kind \in FileKinds, NEW next \in FileKinds \cup {"runs"},
         chat[c] = kind, chat' = [chat EXCEPT ![c] = next],
         written' \in {written, written \cup {<<c, kind>>}}, UNCHANGED <<up, base, old, changed>>
  PROVE  FilesInv'
<1>1. <<c, kind>> \in Dir
  BY DEF Dir
<1>2. kind # "idle"
  BY DEF FileKinds
<1>3. FileTypeOK'
  BY <1>1 DEF FilesInv, FileTypeOK
<1>4. ASSUME NEW f \in old PROVE chat'[f[1]] = "idle"
  <2>1. f[1] \in Chats /\ chat[f[1]] = "idle"
    BY FileOf DEF FilesInv, FileTypeOK
  <2> QED BY <1>2, <2>1 DEF FilesInv, FileTypeOK
<1> QED BY <1>3, <1>4 DEF FilesInv

LEMMA FilesStep ==
  ASSUME FilesInv, "long" \notin FileFaults, [FileNext]_fileVars
  PROVE  /\ FilesInv'
         /\ \A f \in written : chat[f[1]] # "idle" /\ chat'[f[1]] # "idle" => f \in written'
<1>1. CASE UNCHANGED fileVars
  BY <1>1 DEF fileVars, FilesInv, FileTypeOK
<1>2. ASSUME NEW c \in Chats, Chat(c) PROVE FilesInv' /\ written' = written
  <2>1. FileTypeOK' /\ UNCHANGED <<written, old>>
    BY <1>2 DEF Chat, FilesInv, FileTypeOK, FileKinds
  <2>2. ASSUME NEW f \in old PROVE chat'[f[1]] = "idle"
    <3>1. f \in written /\ f[1] \in Chats /\ f = <<f[1], f[2]>> /\ f[2] \in FileKinds
      BY FileOf DEF FilesInv, FileTypeOK
    <3>2. f[1] # c
      BY <1>2, <3>1 DEF Chat
    <3> QED BY <1>2, <3>1, <3>2 DEF Chat, FilesInv, FileTypeOK
  <2> QED BY <2>1, <2>2 DEF FilesInv
<1>3. ASSUME NEW c \in Chats, CleanupFiles(c)
      PROVE  FilesInv' /\ \A f \in written : chat'[f[1]] # "idle" => f \in written'
  <2>1. /\ chat' = [chat EXCEPT ![c] = "idle"] /\ written' = written \ OwnFiles(c)
        /\ old' = old \cap written' /\ UNCHANGED <<up, base, changed>>
    BY <1>3 DEF CleanupFiles
  <2>2. FileTypeOK'
    BY <2>1 DEF FilesInv, FileTypeOK
  <2>3. ASSUME NEW f \in old' PROVE chat'[f[1]] = "idle"
    BY <2>1, FileOf DEF FilesInv, FileTypeOK
  <2>4. ASSUME NEW f \in written, chat'[f[1]] # "idle" PROVE f \in written'
    <3>1. f[1] # c
      BY <2>1, <2>4 DEF FilesInv, FileTypeOK
    <3> QED BY <2>1, <3>1 DEF OwnFiles
  <2> QED BY <2>2, <2>3, <2>4 DEF FilesInv
<1>4. ASSUME NEW c \in Chats, writeAwsCredentials(c) \/ buildGitCredentialEnv(c) \/ writeCommandMcpConfig(c)
      PROVE  FilesInv' /\ written \subseteq written'
  <2>1. CASE ~base /\ chat[c] = "mcp" /\ chat' = [chat EXCEPT ![c] = "runs"]
             /\ UNCHANGED <<up, base, written, old, changed>>
    <3>1. written' \in {written, written \cup {<<c, "mcp">>}} /\ "mcp" \in FileKinds
      BY <2>1 DEF FileKinds
    <3> QED BY <2>1, <3>1, PreparedKeeps
  <2>2. CASE PrepareFile(c, "aws", "git")
    BY <2>2, PreparedKeeps DEF PrepareFile, FileKinds
  <2>3. CASE PrepareFile(c, "git", "mcp")
    BY <2>3, PreparedKeeps DEF PrepareFile, FileKinds
  <2>4. CASE PrepareFile(c, "mcp", "runs")
    BY <2>4, PreparedKeeps DEF PrepareFile, FileKinds
  <2> QED BY <1>4, <2>1, <2>2, <2>3, <2>4 DEF writeAwsCredentials, buildGitCredentialEnv, writeCommandMcpConfig
<1>5. ASSUME NEW f \in Dir, GetsOld(f) PROVE FilesInv' /\ written' = written
  BY <1>5 DEF GetsOld, FilesInv, FileTypeOK
<1>6. CASE Crash
  <2>1. \A f \in old : f[1] \in Chats
    BY FileOf DEF FilesInv, FileTypeOK
  <2> QED BY <1>6, <2>1 DEF Crash, FilesInv, FileTypeOK
<1>7. CASE Start \/ ConfigChanges
  BY <1>7 DEF Start, ConfigChanges, FilesInv, FileTypeOK
<1>8. ASSUME NEW kinds, Sweep(kinds), chat' = chat, up' = up, base' \in BOOLEAN, changed' \in BOOLEAN
      PROVE  FilesInv' /\ \A f \in written : chat[f[1]] # "idle" => f \in written'
  BY <1>8 DEF Sweep, Swept, FilesInv, FileTypeOK
<1>9. CASE applyProjectConfig \/ heartbeat
  <2>1. /\ \E kinds : Sweep(kinds)
        /\ chat' = chat /\ up' = up /\ base' \in BOOLEAN /\ changed' \in BOOLEAN
    BY <1>9 DEF applyProjectConfig, heartbeat, FilesInv, FileTypeOK
  <2> QED BY <1>8, <2>1
<1> QED BY <1>1, <1>2, <1>3, <1>4, <1>5, <1>6, <1>7, <1>9 DEF FileNext, Crash, Start, ConfigChanges, fileVars

\* aws-profile.ts, git-credential-setup.ts, mcp/config-writer.ts: neither the
\* sweeps nor the end of another chat take away a file of a chat that runs, as
\* long as no chat runs for longer than a sweep lets files live.
THEOREM FilesStayWithChat == ASSUME "long" \notin FileFaults PROVE FileSpec => FilesKept
<1>1. FileInit => FilesInv
  BY DEF FileInit, FilesInv, FileTypeOK, Dir
<1>2. FilesInv /\ [FileNext]_fileVars => FilesInv'
  BY FilesStep
<1>3. FilesInv => FileTypeOK
  BY DEF FilesInv
<1>4. FilesInv /\ [FileNext]_fileVars =>
        [\A f \in written : chat[f[1]] # "idle" /\ chat'[f[1]] # "idle" => f \in written']_fileVars
  BY FilesStep
<1>5. FileSpec => []FileTypeOK /\ FilesStay
  BY <1>1, <1>2, <1>3, <1>4, PTL DEF FileSpec, FilesStay
<1> QED BY <1>5 DEF FilesKept

(***************************************************************************)
(* Database tunnels.                                                       *)
(***************************************************************************)

ChildUp(q) == aws[q] \in {"starting", "listening", "deaf"}

\* What a stage of a query says of its way. A child is of an SSM tunnel that is
\* in use, or of a server that has gone.
WayOK(q) ==
  /\ ChildUp(q) => query[q].via = "ssm" \/ query[q].pc = "lost"
  /\ query[q].pc \in {"connecting", "binding", "closing"} => query[q].via = "ssh"
  /\ query[q].pc \in {"probing", "killing"} => query[q].via = "ssm"
  /\ query[q].pc \in {"idle", "done", "failed"} =>
       query[q].via = "direct" /\ query[q].port = 0 /\ ~query[q].conn /\ ~query[q].listener
  /\ query[q].pc = "probing" => query[q].port # 0
  /\ query[q].through \in {0, q}

PortsApart == \A p, q \in Queries : p # q /\ query[p].port = query[q].port => query[p].port = 0

TunnelInv == DbTypeOK /\ PortsApart /\ \A q \in Queries : WayOK(q)

Query == [pc : {"idle", "connecting", "binding", "probing", "querying", "closing", "killing"} \cup Settled,
          via : {"direct", "ssh", "ssm"}, conn : BOOLEAN, listener : BOOLEAN,
          port : {0} \cup Ports, through : {0} \cup Queries, fails : BOOLEAN]

LEMMA OutcomeForm ==
  ASSUME NEW ok \in BOOLEAN
  PROVE  /\ Outcome(ok) \in Query /\ Outcome(ok).pc \in {"done", "failed"} /\ Outcome(ok).via = "direct"
         /\ Outcome(ok).port = 0 /\ ~Outcome(ok).conn /\ ~Outcome(ok).listener /\ Outcome(ok).through = 0
BY DEF Outcome, NoQuery, Query, Settled

\* A step of one query that keeps its port, or gives it up.
LEMMA OneQuery ==
  ASSUME TunnelInv, NEW q \in Queries, NEW r \in Query, On(q, r),
         r.port \in {0, query[q].port},
         aws' \in [Queries -> {"none", "starting", "listening", "deaf", "dead"}],
         \A p \in Queries : p # q => aws'[p] = aws[p], serving' = serving,
         WayOK(q)'
  PROVE  TunnelInv'
<1>1. query' \in [Queries -> Query] /\ query'[q] = r /\ \A p \in Queries : p # q => query'[p] = query[p]
  BY DEF TunnelInv, DbTypeOK, On, Query
<1>2. DbTypeOK'
  BY <1>1 DEF TunnelInv, DbTypeOK, Query
<1>3. PortsApart'
  BY <1>1 DEF TunnelInv, PortsApart
<1>4. ASSUME NEW p \in Queries PROVE WayOK(p)'
  BY <1>1 DEF TunnelInv, WayOK, ChildUp
<1> QED BY <1>2, <1>3, <1>4 DEF TunnelInv

LEMMA OpensKeeps ==
  ASSUME TunnelInv, "port" \notin DbFaults, NEW q \in Queries, executeQueryWithTunnel(q)
  PROVE  TunnelInv'
<1>1. /\ query \in [Queries -> Query] /\ query[q].pc = "idle" /\ query[q].port = 0 /\ ~ChildUp(q)
      /\ aws \in [Queries -> {"none", "starting", "listening", "deaf", "dead"}] /\ serving' = serving
  BY DEF executeQueryWithTunnel, TunnelInv, WayOK, DbTypeOK, Query
<1>2. CASE Direct(q)
  <2> DEFINE r == [NoQuery EXCEPT !.pc = "querying", !.through = q]
  <2>1. r \in Query /\ r.pc = "querying" /\ r.port = 0 /\ r.through = q
    BY DEF NoQuery, Query
  <2>2. On(q, r) /\ aws' = aws
    BY <1>2 DEF Direct
  <2> HIDE DEF r
  <2>3. query'[q] = r
    BY <1>1, <2>2 DEF On
  <2>4. WayOK(q)'
    BY <1>1, <2>1, <2>2, <2>3 DEF WayOK, ChildUp
  <2> QED BY <1>1, <2>1, <2>2, <2>4, OneQuery
<1>3. CASE Ssh(q)
  <2> DEFINE r == [NoQuery EXCEPT !.pc = "connecting", !.via = "ssh"]
  <2>1. r \in Query /\ r.pc = "connecting" /\ r.via = "ssh" /\ r.port = 0 /\ r.through = 0
    BY DEF NoQuery, Query
  <2>2. On(q, r) /\ aws' = aws
    BY <1>3 DEF Ssh
  <2> HIDE DEF r
  <2>3. query'[q] = r
    BY <1>1, <2>2 DEF On
  <2>4. WayOK(q)'
    BY <1>1, <2>1, <2>2, <2>3 DEF WayOK, ChildUp
  <2> QED BY <1>1, <2>1, <2>2, <2>4, OneQuery
<1>4. CASE NoCredential(q)
  <2>1. On(q, Outcome(FALSE)) /\ aws' = aws
    BY <1>4 DEF NoCredential
  <2>2. query'[q] = Outcome(FALSE)
    BY <1>1, <2>1 DEF On
  <2>3. WayOK(q)'
    BY <1>1, <2>1, <2>2, OutcomeForm DEF WayOK, ChildUp
  <2> QED BY <1>1, <2>1, <2>3, OutcomeForm, OneQuery
<1>5. CASE Ssm(q)
  <2>1. PICK port \in Ports :
           /\ \A p \in Queries : query[p].port # port
           /\ On(q, [NoQuery EXCEPT !.pc = "probing", !.via = "ssm", !.port = port])
           /\ \E c \in {"starting", "dead"} : aws' = [aws EXCEPT ![q] = c]
    BY <1>5 DEF Ssm
  <2> DEFINE r == [NoQuery EXCEPT !.pc = "probing", !.via = "ssm", !.port = port]
  <2>2. r \in Query /\ r.pc = "probing" /\ r.via = "ssm" /\ r.port = port /\ r.through = 0
    BY DEF NoQuery, Query
  <2>3. port # 0
    BY <1>1, <2>1
  <2> HIDE DEF r
  <2>4. query' = [query EXCEPT ![q] = r]
    BY <2>1 DEF On, r
  <2>5. query' \in [Queries -> Query] /\ query'[q] = r /\ \A p \in Queries : p # q => query'[p] = query[p]
    BY <1>1, <2>2, <2>4
  <2>6. DbTypeOK'
    <3>1. aws' \in [Queries -> {"none", "starting", "listening", "deaf", "dead"}]
      BY <1>1, <2>1
    <3>2. serving' \in BOOLEAN
      BY <1>1 DEF TunnelInv, DbTypeOK
    <3> QED BY <2>5, <3>1, <3>2 DEF DbTypeOK, Query
  <2>7. PortsApart'
    BY <2>1, <2>2, <2>5 DEF TunnelInv, PortsApart
  <2>8. ASSUME NEW p \in Queries PROVE WayOK(p)'
    <3>1. CASE p = q
      BY <2>2, <2>3, <2>5, <3>1 DEF WayOK
    <3>2. CASE p # q
      <4>1. aws'[p] = aws[p] /\ query'[p] = query[p]
        BY <1>1, <2>1, <2>5, <3>2
      <4> QED BY <4>1 DEF TunnelInv, WayOK, ChildUp
    <3> QED BY <3>1, <3>2
  <2> QED BY <2>6, <2>7, <2>8 DEF TunnelInv
<1> QED BY <1>2, <1>3, <1>4, <1>5 DEF executeQueryWithTunnel

\* The steps on a way that is open, or is being opened or closed.
LEMMA WayKeeps ==
  ASSUME TunnelInv, NEW q \in Queries,
         Establish(q) \/ Probe(q) \/ executeQuery(q) \/ BastionDrops(q) \/ CloseTunnel(q)
  PROVE  TunnelInv'
<1>1. /\ query \in [Queries -> Query] /\ query[q] \in Query /\ WayOK(q)
      /\ aws \in [Queries -> {"none", "starting", "listening", "deaf", "dead"}] /\ serving' = serving
  BY DEF Establish, Ready, Listens, GivesUp, Probe, executeQuery, BastionDrops, CloseTunnel, CloseSsh, killSubprocess,
         TunnelInv, DbTypeOK, Query
<1>2. ASSUME NEW ok \in BOOLEAN, On(q, Outcome(ok)), \A p \in Queries : p # q => aws'[p] = aws[p],
             aws' \in [Queries -> {"none", "starting", "listening", "deaf", "dead"}], ~ChildUp(q)'
      PROVE  TunnelInv'
  <2>1. query'[q] = Outcome(ok)
    BY <1>1, <1>2 DEF On
  <2>2. WayOK(q)'
    BY <1>2, <2>1, OutcomeForm DEF WayOK
  <2> QED BY <1>1, <1>2, <2>2, OutcomeForm, OneQuery
<1>3. ASSUME NEW r \in Query, On(q, r), aws' = aws, r.port = query[q].port, r.via = query[q].via,
             r.through \in {0, q},
             \/ query[q].pc = "connecting" /\ r.pc = "binding"
             \/ query[q].pc = "binding" /\ r.pc = "querying"
             \/ query[q].pc = "probing" /\ r.pc \in {"killing", "querying"}
             \/ query[q].pc = "querying" /\ r.pc = "querying"
             \/ query[q].pc = "querying" /\ r.via = "ssh" /\ r.pc = "closing"
             \/ query[q].pc = "querying" /\ r.via = "ssm" /\ r.pc = "killing"
      PROVE  TunnelInv'
  <2>1. query'[q] = r
    BY <1>1, <1>3 DEF On
  <2>2. WayOK(q)'
    BY <1>1, <1>3, <2>1 DEF WayOK, ChildUp
  <2> QED BY <1>1, <1>3, <2>2, OneQuery
<1>4. CASE Ready(q)
  <2>1. CASE On(q, Outcome(FALSE))
    BY <1>1, <1>2, <1>4, <2>1 DEF Ready, WayOK, ChildUp
  <2>2. CASE On(q, [query[q] EXCEPT !.pc = "binding", !.conn = TRUE])
    BY <1>1, <1>3, <1>4, <2>2 DEF Ready, WayOK, Query
  <2> QED BY <1>4, <2>1, <2>2 DEF Ready
<1>5. CASE Listens(q)
  <2>1. CASE On(q, Outcome(FALSE))
    BY <1>1, <1>2, <1>5, <2>1 DEF Listens, WayOK, ChildUp
  <2>2. CASE On(q, [query[q] EXCEPT !.pc = "querying", !.listener = TRUE, !.through = q])
    BY <1>1, <1>3, <1>5, <2>2 DEF Listens, WayOK, Query
  <2> QED BY <1>5, <2>1, <2>2 DEF Listens
<1>6. CASE GivesUp(q)
  BY <1>1, <1>3, <1>6 DEF GivesUp, WayOK, Query
<1>7. CASE Probe(q)
  <2>1. PICK p \in Queries : Holds(p, query[q].port) /\ On(q, [query[q] EXCEPT !.pc = "querying", !.through = p])
    BY <1>7 DEF Probe
  <2>2. query[q].pc = "probing" /\ aws' = aws /\ query[q].port # 0
    BY <1>1, <1>7 DEF Probe, WayOK
  <2>3. p = q
    BY <2>1, <2>2 DEF Holds, TunnelInv, PortsApart
  <2> QED BY <1>1, <1>3, <2>1, <2>2, <2>3 DEF Query
<1>8. CASE executeQuery(q)
  <2>1. PICK ok \in BOOLEAN :
          On(q, CASE query[q].via = "direct" -> Outcome(ok)
                  [] query[q].via = "ssh" -> [query[q] EXCEPT !.pc = "closing", !.fails = ~ok]
                  [] OTHER -> [query[q] EXCEPT !.pc = "killing", !.fails = ~ok])
    BY <1>8 DEF executeQuery
  <2>2. query[q].pc = "querying" /\ aws' = aws
    BY <1>8 DEF executeQuery
  <2>3. CASE query[q].via = "direct"
    BY <1>1, <1>2, <2>1, <2>2, <2>3 DEF WayOK, ChildUp
  <2>4. CASE query[q].via = "ssh"
    <3>1. On(q, [query[q] EXCEPT !.pc = "closing", !.fails = ~ok])
      BY <2>1, <2>4
    <3> QED BY <1>1, <1>3, <2>2, <2>4, <3>1 DEF WayOK, Query
  <2>5. CASE query[q].via = "ssm"
    <3>1. On(q, [query[q] EXCEPT !.pc = "killing", !.fails = ~ok])
      BY <2>1, <2>5
    <3> QED BY <1>1, <1>3, <2>2, <2>5, <3>1 DEF WayOK, Query
  <2> QED BY <1>1, <2>3, <2>4, <2>5 DEF Query
<1>9. CASE BastionDrops(q)
  BY <1>1, <1>3, <1>9 DEF BastionDrops, WayOK, Query
<1>10. CASE CloseSsh(q)
  BY <1>1, <1>2, <1>10 DEF CloseSsh, WayOK, ChildUp, Query
<1>11. CASE killSubprocess(q)
  <2>1. aws' = [aws EXCEPT ![q] = "dead"] /\ On(q, Outcome(~query[q].fails))
    BY <1>11 DEF killSubprocess
  <2>2. ~ChildUp(q)'
    BY <1>1, <2>1 DEF ChildUp
  <2>3. (~query[q].fails) \in BOOLEAN
    OBVIOUS
  <2> QED BY <1>1, <1>2, <2>1, <2>2, <2>3
<1> QED BY <1>4, <1>5, <1>6, <1>7, <1>8, <1>9, <1>10, <1>11 DEF Establish, CloseTunnel

LEMMA TunnelStep ==
  ASSUME TunnelInv, "port" \notin DbFaults, [DbNext]_dbVars
  PROVE  TunnelInv'
<1>1. CASE UNCHANGED dbVars
  BY <1>1 DEF dbVars, TunnelInv, DbTypeOK, PortsApart, WayOK, ChildUp
<1>2. ASSUME NEW q \in Queries, ChildListens(q) \/ ChildExits(q) \/ Terminated(q)
      PROVE  TunnelInv'
  <2>1. /\ UNCHANGED <<query, serving>> /\ ChildUp(q)
        /\ \E c \in {"listening", "deaf", "dead"} : aws' = [aws EXCEPT ![q] = c]
    BY <1>2 DEF ChildListens, ChildExits, Terminated, ChildUp
  <2>2. aws' \in [Queries -> {"none", "starting", "listening", "deaf", "dead"}]
        /\ \A p \in Queries : ChildUp(p)' => ChildUp(p)
    BY <2>1 DEF TunnelInv, DbTypeOK, ChildUp
  <2> QED BY <2>1, <2>2 DEF TunnelInv, DbTypeOK, PortsApart, WayOK
<1>3. CASE ServerEnds
  <2>1. query \in [Queries -> Query]
    BY DEF TunnelInv, DbTypeOK, Query
  <2> DEFINE gone(q) == [NoQuery EXCEPT !.pc = "lost", !.port = query[q].port]
  <2>2. ASSUME NEW q \in Queries
        PROVE  /\ gone(q) \in Query /\ gone(q).pc = "lost" /\ gone(q).port = query[q].port
               /\ gone(q).through = 0
    BY <2>1 DEF NoQuery, Query, Settled
  <2>3. \A q \in Queries : query'[q] \in {query[q], gone(q)}
    BY <1>3 DEF ServerEnds
  <2>4. query' \in [Queries -> Query] /\ aws' = aws /\ serving' = FALSE
    BY <1>3, <2>1, <2>2 DEF ServerEnds
  <2> HIDE DEF gone
  <2>5. DbTypeOK'
    BY <2>4 DEF TunnelInv, DbTypeOK, Query
  <2>6. PortsApart'
    BY <2>2, <2>3 DEF TunnelInv, PortsApart
  <2>7. ASSUME NEW q \in Queries PROVE WayOK(q)'
    BY <2>2, <2>3, <2>4 DEF TunnelInv, WayOK, ChildUp
  <2> QED BY <2>5, <2>6, <2>7 DEF TunnelInv
<1> QED BY <1>1, <1>2, <1>3, OpensKeeps, WayKeeps DEF DbNext

\* db-query.ts, db-ssm-tunnel.ts: a query goes through its own tunnel only, and
\* when it has ended neither the connection, the listener nor the child of its
\* tunnel is left; as long as nobody takes a port between its reservation and its
\* use.
THEOREM TunnelsEndWithQuery == ASSUME "port" \notin DbFaults PROVE DbSpec => []TunnelsKept
<1>1. DbInit => TunnelInv
  BY DEF DbInit, TunnelInv, DbTypeOK, PortsApart, WayOK, ChildUp, NoQuery, Settled
<1>2. TunnelInv /\ [DbNext]_dbVars => TunnelInv'
  BY TunnelStep
<1>3. TunnelInv => TunnelsKept
  BY DEF TunnelInv, TunnelsKept, OwnTunnelOnly, NoTunnelLeft, WayOK, ChildUp, DbTypeOK
<1> QED BY <1>1, <1>2, <1>3, PTL DEF DbSpec

(***************************************************************************)
(* The tests.                                                              *)
(***************************************************************************)

\* What a place says of the rest.
PlaceOK ==
  /\ timer # "off" => at = "wait"
  /\ runner # "none" => at \in {"wait", "read", "steps", "end"}
  /\ left # {} => at \in {"spawn", "rejected", "wait", "read", "script", "chat", "close"}
  /\ at \notin {"close", "end"} => result = "none"
  /\ at = "start" => sent = "none"
  /\ sent = "running" => command.known
  /\ sent = "passed" => at = "end"
  /\ at = "close" /\ result = "failed" => sent # "running"
  /\ parsed.shots # <<>> => at \in {"steps", "end"}
  /\ at = "steps" /\ parsed.success =>
       ~timedOut /\ json = "whole" /\ ~\E i \in DOMAIN test.body : test.body[i]

\* The indices of the preloaded module are behind the steps of the body by nothing,
\* unless a hook's step has taken one; an image per step is in the order of the steps.
StepsOK ==
  /\ test.att # {} => command.capture
  /\ command.capture => test.next >= Len(test.body)
  /\ test.next = Len(test.body) => \A a \in test.att : a[2] = a[1] + 1
  /\ Len(test.own) <= Len(test.body)
  /\ Len(test.own) = Len(test.body) => \A i \in DOMAIN test.own : test.own[i] = i

TestInv == TestKept /\ PlaceOK /\ StepsOK

\* What the fields of a test are.
LEMMA TestForm ==
  ASSUME NEW t \in Test
  PROVE  /\ t.phase \in {"before", "body", "after"} /\ t.body \in Seq(BOOLEAN) /\ t.next \in Nat
         /\ t.att \subseteq Nat \X Nat /\ t.own \in Seq(Nat) /\ t.broken \in BOOLEAN
         /\ Len(t.body) \in Nat /\ DOMAIN t.body = 1 .. Len(t.body)
         /\ Len(t.own) \in Nat /\ DOMAIN t.own = 1 .. Len(t.own)
<1>1. /\ t.phase \in {"before", "body", "after"} /\ t.body \in Seq(BOOLEAN) /\ t.next \in Nat
      /\ t.att \subseteq Nat \X Nat /\ t.own \in Seq(Nat)
  BY DEF Test
<1>2. t.broken \in BOOLEAN
  BY DEF Test
<1> QED BY <1>1, <1>2, LenProperties

\* A step of the script, which is all that then changes.
LEMMA ScriptSteps ==
  ASSUME TestInv, TestRuns, test' \in Test, StepsOK',
         UNCHANGED <<command, at, sent, result, left, runner, timer, timedOut, json, parsed>>
  PROVE  TestInv'
<1>1. at = "wait" /\ parsed.shots = <<>>
  BY DEF TestInv, PlaceOK, TestRuns
<1>2. E2eTypeOK'
  BY DEF TestInv, TestKept, E2eTypeOK
<1>3. PlaceOK'
  BY <1>1 DEF TestInv, PlaceOK
<1>4. ShotsBelong' /\ VerdictIsEarned' /\ NothingLeftOpen'
  BY <1>1 DEF ShotsBelong, VerdictIsEarned, NothingLeftOpen
<1> QED BY <1>2, <1>3, <1>4 DEF TestInv, TestKept

\* The test, as a step of the script finds it.
LEMMA TestNow ==
  ASSUME TestInv
  PROVE  test \in Test /\ command.capture \in BOOLEAN /\ StepsOK
<1>1. test \in Test /\ command \in Request /\ StepsOK
  BY DEF TestInv, TestKept, E2eTypeOK
<1>2. command.capture \in BOOLEAN
  BY <1>1 DEF Request
<1> QED BY <1>1, <1>2

LEMMA BodyStepKeeps ==
  ASSUME TestInv, NEW failed \in BOOLEAN, NEW captured \in BOOLEAN, NEW attaches \in BOOLEAN,
         BodyStep(failed, captured, attaches)
  PROVE  TestInv'
<1> DEFINE n == Len(test.body)
           pos == n + 1
           body == Append(test.body, failed)
           att == test.att \cup Shot(pos, captured)
           images == IF attaches THEN Append(test.own, pos) ELSE test.own
<1>1. /\ TestRuns /\ test.phase # "after"
      /\ UNCHANGED <<command, at, sent, result, left, runner, timer, timedOut, json, parsed>>
      /\ test' = [test EXCEPT !.phase = IF failed THEN "after" ELSE "body", !.body = body, !.next = Index,
                              !.att = att, !.own = images]
  BY DEF BodyStep
<1>2. /\ test \in Test /\ StepsOK /\ test.body \in Seq(BOOLEAN) /\ n \in Nat /\ test.next \in Nat
      /\ test.att \subseteq Nat \X Nat /\ test.own \in Seq(Nat) /\ Len(test.own) \in Nat
      /\ DOMAIN test.own = 1 .. Len(test.own)
  BY TestNow, TestForm
<1>3. body \in Seq(BOOLEAN) /\ Len(body) = n + 1
  BY <1>2, AppendProperties
<1>4. Index \in Nat /\ Index = IF command.capture THEN test.next + 1 ELSE test.next
  BY <1>2 DEF Index
<1>5. /\ att \subseteq Nat \X Nat
      /\ att # {} => command.capture
      /\ \A a \in att : a \in test.att \/ (a[1] = test.next /\ a[2] = pos)
  BY <1>2 DEF Shot, StepsOK
<1>6. /\ images \in Seq(Nat) /\ Len(images) <= n + 1
      /\ Len(images) = n + 1 => \A i \in DOMAIN images : images[i] = i
  <2>1. CASE attaches
    <3>1. /\ Append(test.own, pos) \in Seq(Nat) /\ Len(Append(test.own, pos)) = Len(test.own) + 1
          /\ \A i \in 1 .. Len(test.own) : Append(test.own, pos)[i] = test.own[i]
          /\ Append(test.own, pos)[Len(test.own) + 1] = pos
      BY <1>2, AppendProperties
    <3>2. images = Append(test.own, pos)
      BY <2>1
    <3>3. DOMAIN images = 1 .. Len(test.own) + 1
      BY <3>1, <3>2, LenProperties
    <3>4. Len(test.own) <= n /\ (Len(test.own) = n => \A i \in 1 .. Len(test.own) : test.own[i] = i)
      BY <1>2 DEF StepsOK
    <3> HIDE DEF images
    <3> QED BY <1>2, <3>1, <3>2, <3>3, <3>4
  <2>2. CASE ~attaches
    BY <1>2, <2>2 DEF StepsOK
  <2> QED BY <2>1, <2>2
<1> HIDE DEF body, att, images, n
<1>7. /\ test'.body = body /\ test'.next = Index /\ test'.att = att /\ test'.own = images
      /\ test'.broken = test.broken /\ test'.phase = IF failed THEN "after" ELSE "body"
  BY <1>1, <1>2 DEF Test
<1>8. test' \in Test
  BY <1>1, <1>2, <1>3, <1>4, <1>5, <1>6 DEF Test
<1>9. StepsOK'
  <2>1. command.capture => test.next >= n
    BY <1>2 DEF StepsOK, n
  <2>2. test.next = n => \A a \in test.att : a[2] = a[1] + 1
    BY <1>2 DEF StepsOK, n
  <2>3. Index = n + 1 => \A a \in att : a[2] = a[1] + 1
    BY <1>2, <1>4, <1>5, <2>1, <2>2
  <2> QED BY <1>1, <1>2, <1>3, <1>4, <1>5, <1>6, <1>7, <2>1, <2>3 DEF StepsOK
<1> QED BY <1>1, <1>8, <1>9, ScriptSteps

LEMMA SkipStepKeeps ==
  ASSUME TestInv, SkipStep
  PROVE  TestInv'
<1> DEFINE body == Append(test.body, FALSE)
<1>1. /\ TestRuns
      /\ UNCHANGED <<command, at, sent, result, left, runner, timer, timedOut, json, parsed>>
      /\ test' = [test EXCEPT !.phase = "body", !.body = body, !.next = Index]
  BY DEF SkipStep
<1>2. test \in Test /\ StepsOK /\ test.body \in Seq(BOOLEAN) /\ Len(test.body) \in Nat /\ test.next \in Nat
      /\ Len(test.own) \in Nat
  BY TestNow, TestForm
<1>3. body \in Seq(BOOLEAN) /\ Len(body) = Len(test.body) + 1
  BY <1>2, AppendProperties
<1>4. Index \in Nat /\ Index = IF command.capture THEN test.next + 1 ELSE test.next
  BY <1>2 DEF Index
<1> HIDE DEF body
<1>5. test'.body = body /\ test'.next = Index /\ test'.att = test.att /\ test'.own = test.own
  BY <1>1, <1>2 DEF Test
<1>6. test' \in Test
  BY <1>1, <1>2, <1>3, <1>4 DEF Test
<1>7. StepsOK'
  BY <1>1, <1>2, <1>3, <1>4, <1>5 DEF StepsOK
<1> QED BY <1>1, <1>6, <1>7, ScriptSteps

LEMMA HookStepKeeps ==
  ASSUME TestInv, NEW captured \in BOOLEAN, HookStep(captured)
  PROVE  TestInv'
<1> DEFINE att == test.att \cup Shot(0, captured)
<1>1. /\ TestRuns
      /\ UNCHANGED <<command, at, sent, result, left, runner, timer, timedOut, json, parsed>>
      /\ test' = [test EXCEPT !.phase = IF @ = "body" THEN "after" ELSE @, !.next = Index, !.att = att]
  BY DEF HookStep
<1>2. test \in Test /\ StepsOK /\ Len(test.body) \in Nat /\ test.next \in Nat /\ test.att \subseteq Nat \X Nat
  BY TestNow, TestForm
<1>3. Index \in Nat /\ Index = IF command.capture THEN test.next + 1 ELSE test.next
  BY <1>2 DEF Index
<1>4. att \subseteq Nat \X Nat /\ (~command.capture => att = {})
  BY <1>2 DEF Shot, StepsOK
<1> HIDE DEF att
<1>5. test'.body = test.body /\ test'.next = Index /\ test'.att = att /\ test'.own = test.own
  BY <1>1, <1>2 DEF Test
<1>6. test' \in Test
  BY <1>1, <1>2, <1>3, <1>4 DEF Test
<1>7. StepsOK'
  BY <1>1, <1>2, <1>3, <1>4, <1>5 DEF StepsOK
<1> QED BY <1>1, <1>6, <1>7, ScriptSteps

LEMMA TestEndsKeeps ==
  ASSUME TestInv, FailsOutside \/ SkipTest
  PROVE  TestInv'
<1>1. /\ TestRuns
      /\ UNCHANGED <<command, at, sent, result, left, runner, timer, timedOut, json, parsed>>
      /\ \/ test' = [test EXCEPT !.phase = "after", !.broken = TRUE]
         \/ test' = [test EXCEPT !.phase = "after"]
  BY DEF FailsOutside, SkipTest
<1>2. test \in Test /\ StepsOK
  BY TestNow
<1>3. /\ test'.body = test.body /\ test'.next = test.next /\ test'.att = test.att /\ test'.own = test.own
      /\ test' \in Test
  BY <1>1, <1>2 DEF Test
<1>4. StepsOK'
  BY <1>1, <1>2, <1>3 DEF StepsOK
<1> QED BY <1>1, <1>3, <1>4, ScriptSteps

\* What is read of a result: only of one that is whole, a success only without a
\* step that failed, and each step with its own screenshot.
LEMMA ResultForm ==
  ASSUME TestInv
  PROVE  /\ Result \in Parsed
         /\ Result.success => json = "whole" /\ ~\E i \in DOMAIN test.body : test.body[i]
         /\ \A i \in DOMAIN Result.shots : Result.shots[i] \in {0, i} \/ test.next > Len(test.body)
<1> DEFINE n == Len(test.body)
<1>1. /\ test \in Test /\ StepsOK /\ test.body \in Seq(BOOLEAN) /\ n \in Nat /\ DOMAIN test.body = 1 .. n
      /\ test.next \in Nat /\ test.att \subseteq Nat \X Nat /\ test.own \in Seq(Nat)
      /\ Len(test.own) \in Nat /\ DOMAIN test.own = 1 .. Len(test.own) /\ test.broken \in BOOLEAN
  BY TestNow, TestForm
<1>2. ASSUME NEW i \in 1 .. n
      PROVE  ShotOf(i) \in Nat /\ (ShotOf(i) \in {0, i} \/ test.next > n)
  <2> DEFINE indexed == {a \in test.att : a[1] = i - 1}
  <2>1. CASE test.att # {}
    <3>1. CASE indexed = {} \/ \E a \in test.att : a[1] >= n
      <4>1. ShotOf(i) = 0
        BY <2>1, <3>1 DEF ShotOf
      <4> QED BY <4>1
    <3>2. CASE ~(indexed = {} \/ \E a \in test.att : a[1] >= n)
      <4>1. PICK a \in indexed : ShotOf(i) = a[2]
        <5>1. (CHOOSE a \in indexed : TRUE) \in indexed
          BY <3>2
        <5> QED BY <2>1, <3>2, <5>1 DEF ShotOf
      <4>2. a \in test.att /\ a[1] = i - 1 /\ a[2] \in Nat
        BY <1>1, <4>1
      <4>3. test.next >= n /\ (test.next = n => a[2] = a[1] + 1)
        BY <1>1, <2>1, <4>2 DEF StepsOK
      <4> HIDE DEF n, indexed
      <4> QED BY <1>1, <1>2, <4>1, <4>2, <4>3
    <3> QED BY <3>1, <3>2
  <2>2. CASE test.att = {}
    <3>1. ShotOf(i) = IF Len(test.own) = n THEN test.own[i] ELSE 0
      BY <2>2 DEF ShotOf
    <3>2. Len(test.own) = n => test.own[i] = i
      BY <1>1, <1>2 DEF StepsOK
    <3> QED BY <1>2, <3>1, <3>2
  <2> QED BY <2>1, <2>2
<1>3. CASE json # "whole" \/ test.phase = "before"
  <2>1. Result = NoResult
    BY <1>3 DEF Result
  <2>2. NoResult \in Parsed /\ ~NoResult.success /\ DOMAIN NoResult.shots = {}
    BY DEF NoResult, Parsed
  <2> QED BY <2>1, <2>2
<1>4. CASE json = "whole" /\ test.phase # "before" /\ test.body = <<>>
  <2> DEFINE r == [success |-> ~test.broken, shots |-> <<0>>]
  <2>1. Result = r
    BY <1>4 DEF Result
  <2>2. r \in Parsed /\ r.shots = <<0>>
    BY DEF Parsed
  <2>3. DOMAIN test.body = {}
    BY <1>4
  <2>4. \A i \in DOMAIN r.shots : r.shots[i] = 0
    BY <2>2
  <2> HIDE DEF r
  <2> QED BY <1>4, <2>1, <2>2, <2>3, <2>4
<1>5. CASE json = "whole" /\ test.phase # "before" /\ test.body # <<>>
  <2> DEFINE good == \A i \in DOMAIN test.body : ~test.body[i]
             shots == [i \in DOMAIN test.body |-> ShotOf(i)]
  <2>1. Result = [success |-> good, shots |-> shots]
    BY <1>5 DEF Result
  <2>2. DOMAIN shots = 1 .. n /\ \A i \in 1 .. n : shots[i] = ShotOf(i)
    BY <1>1
  <2>3. shots \in Seq(Nat)
    BY <1>1, <1>2, <2>2
  <2>4. good \in BOOLEAN /\ (good => ~\E i \in DOMAIN test.body : test.body[i])
    OBVIOUS
  <2> HIDE DEF good, shots
  <2>5. Result \in Parsed /\ Result.success = good /\ Result.shots = shots
    BY <2>1, <2>3, <2>4 DEF Parsed
  <2> QED BY <1>2, <1>5, <2>2, <2>4, <2>5
<1> QED BY <1>3, <1>4, <1>5

LEMMA ReadResultKeeps ==
  ASSUME TestInv, ReadResult
  PROVE  TestInv'
<1> DEFINE r == [Result EXCEPT !.success = @ /\ ~timedOut]
<1>1. /\ at = "read" /\ parsed' = r /\ left' = {} /\ at' = "steps"
      /\ UNCHANGED <<command, sent, result, test, runner, timer, timedOut, json>>
  BY DEF ReadResult
<1>2. r \in Parsed /\ r.shots = Result.shots /\ (r.success => Result.success /\ ~timedOut)
  <2>1. (Result.success /\ ~timedOut) \in BOOLEAN
    OBVIOUS
  <2> QED BY <2>1, ResultForm DEF Parsed
<1> HIDE DEF r
<1>3. E2eTypeOK'
  BY <1>1, <1>2 DEF TestInv, TestKept, E2eTypeOK, Place
<1>4. PlaceOK'
  BY <1>1, <1>2, ResultForm DEF TestInv, PlaceOK
<1>5. ShotsBelong'
  BY <1>1, <1>2, ResultForm DEF ShotsBelong
<1>6. StepsOK'
  BY <1>1 DEF TestInv, StepsOK
<1> QED BY <1>1, <1>3, <1>4, <1>5, <1>6 DEF TestInv, TestKept, VerdictIsEarned, NothingLeftOpen

\* Any other step leaves the script's steps and the screenshots alone.
LEMMA OtherStep ==
  ASSUME TestInv, UNCHANGED <<command, test>>, parsed'.shots = parsed.shots,
         E2eTypeOK', PlaceOK', VerdictIsEarned', NothingLeftOpen'
  PROVE  TestInv'
BY DEF TestInv, TestKept, StepsOK, ShotsBelong

LEMMA ReportForm ==
  ASSUME TestInv, NEW status \in {"running", "passed", "failed", "error"}, Report(status)
  PROVE  /\ sent' \in {"none", "running", "passed", "failed", "error"}
         /\ sent' # "running" \/ (status = "running" /\ command.known) \/ (sent = "running" /\ ~command.known)
         /\ sent' = "passed" => status = "passed" \/ sent = "passed"
         /\ sent = "running" => command.known
BY DEF Report, TestInv, TestKept, E2eTypeOK, PlaceOK

\* Steps of a run of Playwright outside the script, up to the reading of its result.
LEMMA PlaywrightKeeps ==
  ASSUME TestInv,
         \/ \E w \in {"none", "torn", "whole"} : Exits(w)
         \/ \E b \in BOOLEAN : Prepare(b) \/ SpawnPlaywright(b)
         \/ PipesClosed \/ TimedOut \/ SigKill \/ ForceResolve \/ Rejected \/ BadId \/ SupportFiles
  PROVE  TestInv'
<1>1. /\ UNCHANGED <<command, test, parsed, sent, result>>
      /\ at \in {"support", "prepare", "spawn", "wait", "rejected"}
      /\ at' \in {"prepare", "failed", "rejected", "spawn", "wait", "read"}
  BY DEF Exits, Prepare, SpawnPlaywright, PipesClosed, TimedOut, SigKill, ForceResolve, Settle, Rejected, BadId,
         SupportFiles, playwright
<1>2. E2eTypeOK'
  <2>1. at' \in Place
    BY <1>1 DEF Place
  <2>2. left' \in {left, {}, {"rundir"}} /\ runner' \in {"none", "up", "gone"} /\ timer' \in {"off", "run", "grace", "force"}
    BY DEF Exits, Prepare, SpawnPlaywright, PipesClosed, TimedOut, SigKill, ForceResolve, Settle, Rejected, BadId,
           SupportFiles, playwright, TestInv, TestKept, E2eTypeOK
  <2>3. timedOut' \in {timedOut, TRUE} /\ json' \in {"none", "torn", "whole"}
    BY DEF Exits, Prepare, SpawnPlaywright, PipesClosed, TimedOut, SigKill, ForceResolve, Settle, Rejected, BadId,
           SupportFiles, playwright, TestInv, TestKept, E2eTypeOK
  <2> QED BY <1>1, <2>1, <2>2, <2>3 DEF TestInv, TestKept, E2eTypeOK
<1>3. PlaceOK'
  <2>1. PlaceOK
    BY DEF TestInv
  <2>2. CASE \E w \in {"none", "torn", "whole"} : Exits(w)
    BY <2>1, <2>2 DEF Exits, PlaceOK
  <2>3. CASE \E b \in BOOLEAN : Prepare(b)
    BY <2>1, <2>3 DEF Prepare, PlaceOK, playwright
  <2>4. CASE \E b \in BOOLEAN : SpawnPlaywright(b)
    BY <2>1, <2>4 DEF SpawnPlaywright, PlaceOK
  <2>5. CASE PipesClosed \/ ForceResolve
    BY <2>1, <2>5 DEF PipesClosed, ForceResolve, Settle, PlaceOK
  <2>6. CASE TimedOut \/ SigKill
    BY <2>1, <2>6 DEF TimedOut, SigKill, PlaceOK
  <2>7. CASE Rejected \/ BadId \/ SupportFiles
    BY <2>1, <2>7 DEF Rejected, BadId, SupportFiles, PlaceOK, playwright
  <2> QED BY <2>2, <2>3, <2>4, <2>5, <2>6, <2>7
<1>4. VerdictIsEarned' /\ NothingLeftOpen'
  BY <1>1 DEF VerdictIsEarned, NothingLeftOpen
<1> QED BY <1>1, <1>2, <1>3, <1>4, OtherStep

\* Steps on the way to a mode, and those that end one with an error.
LEMMA BeginsKeeps ==
  ASSUME TestInv,
         \/ Refuse \/ (\E b \in BOOLEAN : FetchEnvironment(b) \/ BasicAuth(b) \/ FixScript(b))
         \/ \E script \in BOOLEAN, method \in {"ai", "playwright", "other"} : Begin(script, method)
         \/ SubprocessError \/ ScriptRefused \/ ScriptNotStarted
  PROVE  TestInv'
<1>1. UNCHANGED <<command, test, parsed, runner, timer, timedOut, json>>
  BY DEF Refuse, FetchEnvironment, BasicAuth, FixScript, Begin, SubprocessError, ScriptRefused, ScriptNotStarted, playwright
<1>2. at \in {"start", "env", "basic", "failed", "script"}
  BY DEF Refuse, FetchEnvironment, BasicAuth, FixScript, Begin, SubprocessError, ScriptRefused, ScriptNotStarted
<1>3. /\ at' \in {"env", "basic", "support", "script", "open", "end"}
      /\ at' # "end" => result' = result
      /\ result' \in {"none", "ok", "failed"}
  BY DEF Refuse, FetchEnvironment, BasicAuth, FixScript, Begin, SubprocessError, ScriptRefused, ScriptNotStarted,
         Mode, Error, Return, TestInv, TestKept, E2eTypeOK
<1>4. left' \subseteq left /\ (at' = "end" => left' = {}) /\ (left' # {} => at' = "script")
  BY <1>2, <1>3 DEF Refuse, FetchEnvironment, BasicAuth, FixScript, Begin, SubprocessError, ScriptRefused, ScriptNotStarted,
         TestInv, PlaceOK
<1>5. /\ sent' \in {"none", "running", "failed", "error"}
      /\ sent' = "running" => command.known /\ at' # "end"
  <2> sent # "passed"
    BY <1>2 DEF TestInv, PlaceOK
  <2>1. CASE Report("error")
    BY <2>1, ReportForm
  <2>2. CASE Report("running") /\ at' # "end"
    BY <2>2, ReportForm
  <2>3. CASE UNCHANGED sent /\ (at' # "end" \/ sent = "none")
    BY <2>3 DEF TestInv, TestKept, E2eTypeOK, PlaceOK
  <2>4. CASE Refuse \/ \E b \in BOOLEAN : FixScript(b)
    BY <2>3, <2>4 DEF Refuse, FixScript, TestInv, PlaceOK
  <2>5. CASE SubprocessError \/ ScriptRefused \/ ScriptNotStarted
    BY <2>1, <2>5 DEF SubprocessError, ScriptRefused, ScriptNotStarted, Error
  <2>6. CASE \E b \in BOOLEAN : FetchEnvironment(b) \/ BasicAuth(b)
    BY <2>1, <2>3, <2>6 DEF FetchEnvironment, BasicAuth, Error
  <2>7. CASE \E script \in BOOLEAN, method \in {"ai", "playwright", "other"} : Begin(script, method)
    BY <2>2, <2>7 DEF Begin, Mode
  <2> QED BY <2>4, <2>5, <2>6, <2>7
<1>6. E2eTypeOK'
  <2>1. left' \subseteq {"rundir", "spec", "session"}
    BY <1>4 DEF TestInv, TestKept, E2eTypeOK
  <2> QED BY <1>1, <1>3, <1>5, <2>1 DEF TestInv, TestKept, E2eTypeOK, Place
<1>7. PlaceOK'
  BY <1>1, <1>2, <1>3, <1>4, <1>5 DEF TestInv, PlaceOK
<1>8. VerdictIsEarned' /\ NothingLeftOpen'
  BY <1>1, <1>2, <1>4, <1>5 DEF TestInv, PlaceOK, VerdictIsEarned, NothingLeftOpen
<1> QED BY <1>1, <1>6, <1>7, <1>8, OtherStep

\* Steps of the script mode and of the AI mode, of which the chat reports some.
LEMMA ModesKeep ==
  ASSUME TestInv,
         \/ WriteSpec \/ (\E passes \in BOOLEAN : ScriptExit(passes))
         \/ \E given, fails \in BOOLEAN : OpenSession(given, fails)
         \/ (\E success \in BOOLEAN : ChatAnswers(success)) \/ ChatThrows \/ EndSession
  PROVE  TestInv'
<1>1. UNCHANGED <<command, test, runner, timer, timedOut, json>>
  BY DEF WriteSpec, ScriptExit, OpenSession, ChatAnswers, ChatThrows, EndSession, playwright
<1>2. at \in {"script", "open", "chat", "close"} /\ at' \in {"script", "close", "chat", "end"}
  BY DEF WriteSpec, ScriptExit, OpenSession, ChatAnswers, ChatThrows, EndSession, Return
<1>3. parsed' \in Parsed /\ parsed'.shots = parsed.shots
  BY DEF WriteSpec, ScriptExit, OpenSession, ChatAnswers, ChatThrows, EndSession, playwright,
         TestInv, TestKept, E2eTypeOK, Parsed
<1>4. /\ result' \in {"none", "ok", "failed"} /\ left' \subseteq {"rundir", "spec", "session"}
      /\ at' \notin {"close", "end"} => result' = "none"
      /\ at' = "end" => left' = {}
  BY DEF WriteSpec, ScriptExit, OpenSession, ChatAnswers, ChatThrows, EndSession, Return,
         TestInv, TestKept, E2eTypeOK, PlaceOK
<1>5. /\ sent' \in {"none", "running", "passed", "failed", "error"}
      /\ sent' = "running" => command.known /\ at' # "end" /\ (at' = "close" => result' # "failed")
      /\ sent' = "passed" => at' = "end"
  <2> sent # "passed"
    BY <1>2 DEF TestInv, PlaceOK
  <2>1. ASSUME NEW status \in {"passed", "failed", "error"}, Report(status)
        PROVE  /\ sent' \in {"none", "running", "passed", "failed", "error"} /\ sent' # "running"
               /\ sent' = "passed" => status = "passed"
    BY <2>1, ReportForm
  <2>2. CASE UNCHANGED sent /\ (at' = "end" \/ (at' = "close" /\ result' = "failed") => sent # "running")
    BY <2>2 DEF TestInv, TestKept, E2eTypeOK, PlaceOK
  <2>3. CASE WriteSpec \/ \E success \in BOOLEAN : ChatAnswers(success)
    BY <2>2, <2>3 DEF WriteSpec, ChatAnswers, TestInv, PlaceOK
  <2>4. CASE \E passes \in BOOLEAN : ScriptExit(passes)
    BY <2>1, <2>4 DEF ScriptExit, Return
  <2>5. CASE \E given, fails \in BOOLEAN : OpenSession(given, fails)
    BY <2>1, <2>2, <2>5 DEF OpenSession
  <2>6. CASE ChatThrows
    BY <2>1, <2>6 DEF ChatThrows
  <2>7. CASE EndSession
    BY <2>1, <2>2, <2>7 DEF EndSession, Return, TestInv, PlaceOK
  <2> QED BY <2>3, <2>4, <2>5, <2>6, <2>7
<1>6. E2eTypeOK'
  BY <1>1, <1>2, <1>3, <1>4, <1>5 DEF TestInv, TestKept, E2eTypeOK, Place
<1>7. PlaceOK'
  BY <1>1, <1>2, <1>3, <1>4, <1>5 DEF TestInv, PlaceOK
<1>8. VerdictIsEarned' /\ NothingLeftOpen'
  BY <1>1, <1>2, <1>4, <1>5 DEF TestInv, PlaceOK, VerdictIsEarned, NothingLeftOpen
<1> QED BY <1>1, <1>3, <1>6, <1>7, <1>8, OtherStep

LEMMA ConcludeKeeps ==
  ASSUME TestInv, Conclude
  PROVE  TestInv'
<1>1. /\ at = "steps" /\ at' = "end" /\ result' = "ok" /\ left = {}
      /\ UNCHANGED <<command, left, test, runner, timer, timedOut, json, parsed>>
  BY DEF Conclude, Return, playwright, TestInv, PlaceOK
<1>2. PICK status \in {"passed", "failed", "error"} : Report(status) /\ (status = "passed" => parsed.success)
  BY DEF Conclude
<1>3. /\ sent' \in {"none", "running", "passed", "failed", "error"} /\ sent' # "running"
      /\ sent' = "passed" => parsed.success
  <2> sent # "passed"
    BY <1>1 DEF TestInv, PlaceOK
  <2> QED BY <1>2, ReportForm
<1>4. /\ timer = "off"
      /\ parsed.success => ~timedOut /\ json = "whole" /\ ~\E i \in DOMAIN test.body : test.body[i]
  BY <1>1 DEF TestInv, PlaceOK
<1>5. E2eTypeOK'
  BY <1>1, <1>3 DEF TestInv, TestKept, E2eTypeOK, Place
<1>6. PlaceOK'
  BY <1>1, <1>3, <1>4 DEF TestInv, PlaceOK
<1>7. VerdictIsEarned'
  BY <1>1, <1>3, <1>4 DEF VerdictIsEarned
<1>8. NothingLeftOpen'
  BY <1>1, <1>3 DEF NothingLeftOpen
<1> QED BY <1>1, <1>5, <1>6, <1>7, <1>8, OtherStep

LEMMA ReportTestStepKeeps ==
  ASSUME TestInv, ReportTestStep
  PROVE  TestInv'
<1>1. /\ at = "chat" /\ test' = [test EXCEPT !.broken = TRUE]
      /\ UNCHANGED <<command, at, sent, result, left, runner, timer, timedOut, json, parsed>>
  BY DEF ReportTestStep
<1>2. /\ test' \in Test /\ test'.body = test.body /\ test'.next = test.next /\ test'.att = test.att
      /\ test'.own = test.own
  BY <1>1, TestNow DEF Test
<1>3. E2eTypeOK' /\ PlaceOK' /\ StepsOK' /\ ShotsBelong' /\ VerdictIsEarned' /\ NothingLeftOpen'
  BY <1>1, <1>2 DEF TestInv, TestKept, E2eTypeOK, PlaceOK, StepsOK, ShotsBelong, VerdictIsEarned, NothingLeftOpen
<1> QED BY <1>3 DEF TestInv, TestKept

(* A step is shown with its own screenshot or none, a run of Playwright is *)
(* reported as passed only if it has earned it, and no mode leaves files,  *)
(* a session or the status "running" behind: e2e-test-executor.ts and      *)
(* playwright-subprocess-executor.ts, for any number of steps.             *)
THEOREM TestsAreSound == E2eSpec => []TestKept
<1>1. E2eInit => TestInv
  <2> SUFFICES ASSUME E2eInit PROVE TestInv
    OBVIOUS
  <2>1. NoTest \in Test /\ NoTest.body = <<>> /\ NoTest.att = {} /\ NoTest.own = <<>> /\ NoTest.next = 0
    <3>1. <<>> \in Seq(BOOLEAN) /\ <<>> \in Seq(Nat)
      OBVIOUS
    <3> QED BY <3>1 DEF NoTest, Test
  <2>2. NoResult \in Parsed /\ NoResult.shots = <<>>
    BY DEF NoResult, Parsed
  <2>3. E2eTypeOK /\ PlaceOK /\ StepsOK
    <3>1. E2eTypeOK
      BY <2>1, <2>2 DEF E2eInit, E2eTypeOK, Place
    <3>2. PlaceOK
      BY <2>2 DEF E2eInit, PlaceOK
    <3>3. Len(test.body) = 0 /\ Len(test.own) = 0 /\ DOMAIN test.own = {} /\ test.att = {} /\ test.next = 0
      <4>1. Len(<<>>) = 0 /\ DOMAIN <<>> = {}
        OBVIOUS
      <4> QED BY <2>1, <4>1 DEF E2eInit
    <3> QED BY <3>1, <3>2, <3>3 DEF StepsOK
  <2>4. ShotsBelong /\ VerdictIsEarned /\ NothingLeftOpen
    BY <2>2 DEF E2eInit, ShotsBelong, VerdictIsEarned, NothingLeftOpen
  <2> QED BY <2>3, <2>4 DEF TestInv, TestKept
<1>2. TestInv /\ [E2eNext]_e2eVars => TestInv'
  <2> SUFFICES ASSUME TestInv, [E2eNext]_e2eVars PROVE TestInv'
    OBVIOUS
  <2>1. CASE UNCHANGED e2eVars
    BY <2>1 DEF e2eVars, playwright, TestInv, TestKept, E2eTypeOK, PlaceOK, StepsOK, ShotsBelong, VerdictIsEarned,
                NothingLeftOpen
  <2>2. CASE ByTimer
    BY <2>2, PlaywrightKeeps DEF ByTimer
  <2>3. CASE ByExecutor
    BY <2>3, PlaywrightKeeps, BeginsKeeps, ModesKeep, ReadResultKeeps, ConcludeKeeps DEF ByExecutor
  <2>4. CASE ByPlaywright
    BY <2>4, BodyStepKeeps, SkipStepKeeps, HookStepKeeps, TestEndsKeeps, PlaywrightKeeps, BeginsKeeps, ModesKeep,
       ReportTestStepKeeps DEF ByPlaywright
  <2>5. CASE E2eOver
    BY <2>1, <2>5 DEF E2eOver
  <2> QED BY <2>1, <2>2, <2>3, <2>4, <2>5 DEF E2eNext
<1>3. TestInv => TestKept
  BY DEF TestInv
<1> QED BY <1>1, <1>2, <1>3, PTL DEF E2eSpec
=============================================================================

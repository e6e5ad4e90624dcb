---------------------------- MODULE BrowserSessions ----------------------------
(***************************************************************************)
(* The browsers that the agent shows in the web client: the browser        *)
(* handlers of VsCodeTunnelWebSocket, BrowserSessionManager and its        *)
(* sessions, each with a Chromium of its own, the local HTTP server        *)
(* through which the tools of a chat use a session (BrowserLocalServer,    *)
(* BrowserProxySession), and the session of an E2E test.                   *)
(*                                                                         *)
(* A handler runs to its first await and goes on later; meanwhile other    *)
(* messages are handled, timers fire and the same session is used. close() *)
(* marks a session closed, waits for Chromium and only then removes it     *)
(* from the table. What is shown on a page, the pointer, the variables and *)
(* the action log are left out.                                            *)
(***************************************************************************)
EXTENDS AgentLink

CONSTANTS
  Obj,      \* BrowserSession objects that may exist at one time
  NoObj,
  Id,       \* session ids
  Req,      \* handlers that may be under way at one time
  Faults    \* what else may go wrong, see FaultKind

\* late: a message arrives during the closing handshake; upload: setFiles()
\* fails; second: a page asks for a file while one is being handed over; half:
\* Chromium starts, but gives no context or no page.
FaultKind == {"late", "upload", "second", "half"}

ASSUME BrowserAssumption ==
  /\ NoObj \notin Obj
  /\ Obj # {} /\ Id # {}
  /\ Faults \subseteq FaultKind

VARIABLES
  table,    \* BrowserSessionManager.sessions
  ses,      \* the objects, see Session
  req,      \* the handlers, see Handler
  offer,    \* pendingFileChoosers: whose input a file is offered to
  sweep     \* the ids that a closeAll() has still to close

own == <<table, ses, req, offer, sweep>>
vars == <<link, own>>

\* br, page: browser and page are set; live: liveViewInterval, without which the idle
\* timer runs; input: pendingFileChooser; asks: the page waits for a file; raced:
\* getPage() launched while another call did, or in spite of close(); lost: a
\* Chromium runs that no object knows.
Session == [life: {"free", "open", "closing", "closed"}, br: BOOLEAN, page: BOOLEAN, live: BOOLEAN, input: BOOLEAN, asks: BOOLEAN, raced: BOOLEAN, lost: BOOLEAN]
NoSession == [life |-> "free", br |-> FALSE, page |-> FALSE, live |-> FALSE, input |-> FALSE, asks |-> FALSE, raced |-> FALSE, lost |-> FALSE]

\* got: a resume that has its session; launch, nav: in getPage(), and after it; e2e: the test
\* runs; file: about to accept(); close: waits for close().
Handler == [at: {"none", "got", "launch", "nav", "e2e", "file", "close"},
            for: {"open", "call", "e2e"}, id: Id, obj: Obj]
NoHandler == [at |-> "none", for |-> "call", id |-> CHOOSE i \in Id : TRUE, obj |-> CHOOSE o \in Obj : TRUE]

Init ==
  /\ LinkInit
  /\ table = [i \in Id |-> NoObj]
  /\ ses = [o \in Obj |-> NoSession]
  /\ req = [r \in Req |-> NoHandler]
  /\ offer = [i \in Id |-> NoObj]
  /\ sweep = {}

Has(i) == table[i] # NoObj
Alive(i) == Has(i) /\ ses[table[i]].life = "open"
In(o, where) == \E r \in Req : req[r].obj = o /\ req[r].at \in where
Receives == link = "up" \/ ("late" \in Faults /\ link = "ending")

-----------------------------------------------------------------------------
(* BrowserSession and its manager.                                         *)

Calm(o, s) == s.life = "open" /\ ~In(o, {"launch"})

\* getPage() of a session, which is s so far: calls that find no page launch a
\* Chromium each. Only an open has more to do with the page.
PageAsked(r, h, i, o, s) ==
  /\ ses' = [ses EXCEPT ![o] = [s EXCEPT !.raced = @ \/ ~(s.page \/ Calm(o, s))]]
  /\ req' = IF s.page /\ h = "call" THEN req
            ELSE [req EXCEPT ![r] = [at |-> IF s.page THEN "nav" ELSE "launch", for |-> h, id |-> i, obj |-> o]]

\* Mutant of Closing: the browser is not waited for, nor closed.
ClosingAlone(s) == [s EXCEPT !.input = FALSE, !.asks = FALSE, !.live = FALSE, !.life = "closed"]

\* close() of an open session, to its end or to browser.close().
Closing(s) == [s EXCEPT !.input = FALSE, !.asks = FALSE, !.live = FALSE,
                        !.life = IF s.br THEN "closing" ELSE "closed"]

\* close(), also with onClosed(); of a session that is closed already it does
\* nothing.
CloseSession(o) ==
  LET s == Closing(ses[o])
  IN  IF ses[o].life # "open" THEN UNCHANGED <<table, ses>>
      ELSE /\ ses' = [ses EXCEPT ![o] = [s EXCEPT !.raced = @ \/ In(o, {"launch"})]]
           /\ table' = [i \in Id |-> IF table[i] = o /\ s.life = "closed" THEN NoObj ELSE table[i]]

\* browser.close() has returned. A Chromium that was launched meanwhile is
\* forgotten.
CloseDone(o) ==
  /\ ses[o].life = "closing"
  /\ ses' = [ses EXCEPT ![o].life = "closed", ![o].br = FALSE, ![o].page = FALSE]
  /\ table' = [i \in Id |-> IF table[i] = o THEN NoObj ELSE table[i]]
  /\ UNCHANGED <<link, req, offer, sweep>>

\* The idle timer is much longer than what a handler waits for.
Idle(o) ==
  /\ ses[o].life = "open" /\ ~ses[o].live /\ ~In(o, {"got", "launch", "nav"})
  /\ CloseSession(o)
  /\ UNCHANGED <<link, req, offer, sweep>>

\* Nothing uses the object any more; the interval of a dead live view finds no
\* page.
Collected(o) ==
  /\ ses[o].life = "closed" /\ ~ses[o].br /\ ~ses[o].lost
  /\ ~In(o, {"got", "launch", "nav", "file"}) /\ \A i \in Id : offer[i] # o
  /\ ses' = [ses EXCEPT ![o] = NoSession]
  /\ UNCHANGED <<link, table, req, offer, sweep>>

-----------------------------------------------------------------------------
(* Handlers.                                                               *)

Free(r) == req[r].at = "none"
Done(r) == req' = [req EXCEPT ![r] = NoHandler]

\* getOrCreate() and the page of the session, for browser_open and for
\* openLiveViewSession().
Opened(r, h, i) ==
  \/ Has(i) /\ PageAsked(r, h, i, table[i], ses[table[i]]) /\ UNCHANGED table
  \/ \E o \in Obj :
       /\ ~Has(i) /\ ses[o].life = "free"
       /\ table' = [table EXCEPT ![i] = o]
       /\ PageAsked(r, h, i, o, [NoSession EXCEPT !.life = "open"])

Open(r, i) ==
  /\ Receives /\ Free(r)
  /\ Opened(r, "open", i)
  /\ UNCHANGED <<link, offer, sweep>>

\* A resume needs a session that is alive.
Resume(r, i) ==
  /\ Receives /\ Free(r) /\ Alive(i)
  /\ req' = [req EXCEPT ![r] = [NoHandler EXCEPT !.at = "got", !.for = "open", !.id = i, !.obj = table[i]]]
  /\ UNCHANGED <<link, table, ses, offer, sweep>>

\* The session may have been closed between: the resume gives up then, so that
\* it never opens a browser anew.
Resumed(r) ==
  LET o == req[r].obj
  IN  /\ req[r].at = "got"
      /\ IF ses[o].life = "open" THEN PageAsked(r, "open", req[r].id, o, ses[o]) ELSE Done(r) /\ UNCHANGED ses
      /\ UNCHANGED <<link, table, offer, sweep>>

\* An E2E test, whatever the tunnel does.
E2eStart(r, i) ==
  /\ Free(r) /\ \A q \in Req : req[q].for # "e2e"
  /\ Opened(r, "e2e", i)
  /\ UNCHANGED <<link, offer, sweep>>

\* What goes by getPage() to the page of a session, of whatever state it is.
Uses(r, i) ==
  /\ Free(r) /\ Has(i)
  /\ PageAsked(r, "call", i, table[i], ses[table[i]])
  /\ UNCHANGED <<link, table, offer, sweep>>

\* The web client navigates or runs a script.
Navigate(r, i) == Receives /\ Uses(r, i)

\* A tool of a chat, through the local server, which runs until cleanup().
Tool(r, i) == link \in {"up", "down"} /\ Uses(r, i)

\* The rest of a handler after its page, or its failure. An E2E test goes on to
\* run, or to its close.
Goes(r) ==
  req' = [req EXCEPT ![r] = IF @.for = "e2e" THEN [@ EXCEPT !.at = "e2e"] ELSE NoHandler]

\* The Chromium is there with its page, or is not, or gives no page: then it stays, and
\* the next getPage() launches another. close() does not know of it yet, or does not any
\* more. (A close() between newContext() and newPage() finds the browser, as one after
\* both; a getPage() finds no page, as one before both.)
Launched(r) ==
  LET o == req[r].obj
      known == [ses EXCEPT ![o].br = TRUE, ![o].lost = @ \/ ses[o].br]
  IN  /\ req[r].at = "launch"
      /\ \/ /\ ses' = [known EXCEPT ![o].page = TRUE]
            /\ IF req[r].for = "call" THEN Done(r) ELSE req' = [req EXCEPT ![r].at = "nav"]
         \/ Goes(r) /\ UNCHANGED ses
         \/ "half" \in Faults /\ Goes(r) /\ ses' = known
      /\ UNCHANGED <<link, table, offer, sweep>>

\* The page has been loaded, or not; an open starts the live view.
Navigated(r) ==
  LET o == req[r].obj
  IN  /\ req[r].at = "nav"
      /\ \/ ses' = [ses EXCEPT ![o].live = TRUE]
         \/ UNCHANGED ses
      /\ Goes(r)
      /\ UNCHANGED <<link, table, offer, sweep>>

\* What a handler that closes a session does in the end; an E2E test leaves the
\* offers alone.
Answered(r, h, i) ==
  /\ offer' = [offer EXCEPT ![i] = IF h = "e2e" THEN @ ELSE NoObj]
  /\ Done(r)

\* browser_close; the end of an E2E test. close() waits for a Chromium that it
\* closes, but not for one that is being closed.
Close(r, i) ==
  /\ \/ Receives /\ Free(r)
     \/ req[r].at = "e2e" /\ i = req[r].id
  /\ IF Has(i) THEN CloseSession(table[i]) ELSE UNCHANGED <<table, ses>>
  /\ IF Alive(i) /\ ses[table[i]].br
     THEN /\ req' = [req EXCEPT ![r] = [at |-> "close", for |-> @.for, id |-> i, obj |-> table[i]]]
          /\ UNCHANGED offer
     ELSE Answered(r, req[r].for, i)
  /\ UNCHANGED <<link, sweep>>

Closed(r) ==
  /\ req[r].at = "close" /\ ses[req[r].obj].life # "closing"
  /\ Answered(r, req[r].for, req[r].id)
  /\ UNCHANGED <<link, table, ses, sweep>>

-----------------------------------------------------------------------------
(* Files.                                                                  *)

\* A page asks for a file.
FileChooser(i) ==
  LET o == table[i]
  IN  /\ Alive(i) /\ ses[o].page
      /\ In(o, {"file"}) => "second" \in Faults
      /\ ses' = [ses EXCEPT ![o].input = TRUE, ![o].asks = TRUE]
      /\ offer' = [offer EXCEPT ![i] = o]
      /\ UNCHANGED <<link, table, req, sweep>>

\* The page is left: goto(), goBack(), reload(), another device, or by itself. The
\* session keeps its chooser, and the tunnel its offer.
PageLeft(i) ==
  LET o == table[i]
  IN  /\ Alive(i) /\ ses[o].asks
      /\ ses' = [ses EXCEPT ![o].asks = FALSE]
      /\ UNCHANGED <<link, table, req, offer, sweep>>

\* Mutant of SetFile: the offer is kept until the file has been accepted.
SetFileKeeps(r, i) ==
  /\ Receives /\ Free(r) /\ offer[i] # NoObj
  /\ req' = [req EXCEPT ![r] = [NoHandler EXCEPT !.at = "file", !.id = i, !.obj = offer[i]]]
  /\ UNCHANGED <<link, table, ses, offer, sweep>>

\* browser_set_file takes the offer up before it looks at the files.
SetFile(r, i) ==
  /\ Receives /\ Free(r) /\ offer[i] # NoObj
  /\ offer' = [offer EXCEPT ![i] = NoObj]
  /\ req' = [req EXCEPT ![r] = [NoHandler EXCEPT !.at = "file", !.id = i, !.obj = offer[i]]]
  /\ UNCHANGED <<link, table, ses, sweep>>

\* accept(), which takes the chooser of the session, if there is one; after a
\* failure - the page may have been left - cancelFileChooser() finds none.
Accepted(r) ==
  LET o == req[r].obj
  IN  /\ req[r].at = "file"
      /\ \E fails \in BOOLEAN :
           /\ fails => "upload" \in Faults
           /\ ses' = [ses EXCEPT ![o].input = FALSE, ![o].asks = @ /\ (fails \/ ~ses[o].input)]
      /\ Done(r)
      /\ UNCHANGED <<link, table, offer, sweep>>

-----------------------------------------------------------------------------
(* The connection.                                                         *)

\* Mutant of Cleanup: the sessions are left to their idle timers.
CleanupWaits ==
  /\ offer' = [i \in Id |-> NoObj]
  /\ UNCHANGED <<table, ses, req, sweep>>

\* cleanup(), which does not wait for closeAll().
Cleanup ==
  /\ sweep' = sweep \cup {i \in Id : Has(i)}
  /\ offer' = [i \in Id |-> NoObj]
  /\ UNCHANGED <<table, ses, req>>

SweepNext(i) ==
  /\ i \in sweep
  /\ sweep' = sweep \ {i}
  /\ IF Has(i) THEN CloseSession(table[i]) ELSE UNCHANGED <<table, ses>>
  /\ UNCHANGED <<link, req, offer>>

\* onOpen(), onDisconnect(), onPermanentClose(). A lost connection leaves the
\* browsers to the web client, which resumes them.
LinkEvent ==
  \/ (Up \/ Down \/ Ended) /\ UNCHANGED own
  \/ (Reject \/ Stop) /\ Cleanup

\* handleVsCodeClose(), from whichever user.
VsCodeClose == Receives /\ Cleanup /\ UNCHANGED link

Next ==
  \/ LinkEvent \/ VsCodeClose
  \/ \E o \in Obj : CloseDone(o) \/ Idle(o) \/ Collected(o)
  \/ \E i \in Id : FileChooser(i) \/ PageLeft(i) \/ SweepNext(i)
  \/ \E r \in Req :
       \/ Resumed(r) \/ Launched(r) \/ Navigated(r) \/ Closed(r) \/ Accepted(r)
       \/ \E i \in Id : E2eStart(r, i) \/ Open(r, i) \/ Resume(r, i)
                       \/ Navigate(r, i) \/ Tool(r, i) \/ Close(r, i) \/ SetFile(r, i)

Spec == Init /\ [][Next]_vars

\* Chromium starts, loads and closes in bounded time, or Playwright gives up; a
\* test ends; the idle timer of a session that nobody uses any more runs out.
Fairness ==
  /\ \A r \in Req : /\ WF_vars(Resumed(r)) /\ WF_vars(Launched(r)) /\ WF_vars(Navigated(r))
                    /\ WF_vars(Closed(r)) /\ WF_vars(Accepted(r))
                    /\ WF_vars(req[r].at = "e2e" /\ \E i \in Id : Close(r, i))
  /\ \A o \in Obj : WF_vars(CloseDone(o)) /\ WF_vars(Idle(o))
  /\ \A i \in Id : WF_vars(SweepNext(i))

FairSpec == Spec /\ Fairness

-----------------------------------------------------------------------------
(* Properties.                                                             *)

TypeOK ==
  /\ link \in LinkState
  /\ table \in [Id -> Obj \cup {NoObj}]
  /\ ses \in [Obj -> Session]
  /\ req \in [Req -> Handler]
  /\ offer \in [Id -> Obj \cup {NoObj}]
  /\ sweep \subseteq Id

\* A Chromium that runs belongs to a session that the table has, and can be
\* closed; but for those that getPage() launched beside a close() or another
\* getPage().
LostOnlyInRaces ==
  \A o \in Obj :
    ses[o].lost \/ (ses[o].br /\ \A i \in Id : table[i] # o) => ses[o].raced

\* What the web client gives in answer to an offer is handed to a page, as long as
\* the session is open: accept() of a session that has no chooser any more would
\* do nothing and report success (attachPageListeners). Whether that page is still the
\* one that asked is another question: OfferIsOfPage, which does not hold.
OfferTakesFile ==
  \A i \in Id : offer[i] # NoObj /\ ses[offer[i]].life = "open" => ses[offer[i]].input

\* A session loses neither its browser nor the files that it asked for.
BrowserKept == TypeOK /\ LostOnlyInRaces /\ OfferTakesFile

\* Nobody watches the browsers of a tunnel that is over: each is closed, those
\* of tests with the test.
NoneLeft ==
  \A o \in Obj : (link = "over" /\ ses[o].br) ~> (~ses[o].br \/ ses[o].raced)

=============================================================================

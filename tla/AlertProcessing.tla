--------------------------- MODULE AlertProcessing ---------------------------
(***************************************************************************)
(* CloudWatch alerts (alert-processor.ts).  The server keeps the status of *)
(* every alert; a push, the poll timer, the timer for alerts that are      *)
(* stuck and a reconnection each start a run over one or several alerts.   *)
(* A run marks an alert, reads it, looks for the issue of its alarm,       *)
(* resolves it if the alarm is over, and settles the alert.  The guard     *)
(* against taking an alert twice belongs to a processor object: the timers *)
(* share one, a push and a reconnection make one of their own.             *)
(***************************************************************************)
EXTENDS Naturals, FiniteSets

CONSTANTS
    Kind,           \* Kind[a]: "OK" or "ALARM", of the alerts of one alarm, in their order
    Runs,           \* runs that may be under way (bound)
    MaxPushes,      \* pushes and reconnections (bound)
    MaxFailures     \* requests without an answer (bound)

Alerts == DOMAIN Kind
Statuses == {"none", "pending", "processing", "processed", "failed"}

VARIABLES
    status,     \* on the server, "none" before the alarm went off
    stuck,      \* alerts in "processing" for longer than the threshold
    listed,     \* alerts that have reached the database the details are read from
    issue,      \* the alert whose workflow opened the active issue of the alarm, 0 without one
    run,        \* the runs
    pushes, failures

alertVars == <<status, stuck, listed, issue, run, pushes, failures>>

NoRun == [by |-> "none", todo |-> {}, a |-> 0, pc |-> "idle", found |-> FALSE]

AlertInit ==
    /\ status = [a \in Alerts |-> "none"] /\ stuck = {} /\ listed = {} /\ issue = 0
    /\ run = [r \in Runs |-> NoRun] /\ pushes = 0 /\ failures = 0

First(S) == CHOOSE a \in S : \A b \in S : a <= b

-----------------------------------------------------------------------------
\* Outside: the alarm goes off or ends, one alert after the other; the details
\* are listed later; the workflow of an alarm opens an issue unless one is.

Raise(a) ==
    /\ status[a] = "none" /\ \A b \in Alerts : b < a => status[b] # "none"
    /\ status' = [status EXCEPT ![a] = "pending"]
    /\ issue' = IF Kind[a] = "ALARM" /\ issue = 0 THEN a ELSE issue
    /\ UNCHANGED <<stuck, listed, run, pushes, failures>>

Listed(a) ==
    /\ status[a] # "none" /\ listed' = listed \cup {a} /\ listed' # listed
    /\ UNCHANGED <<status, stuck, issue, run, pushes, failures>>

\* The threshold passes while nobody works on the alert.
Ages(a) ==
    /\ status[a] = "processing" /\ a \notin stuck
    /\ \A r \in Runs : run[r].a # a
    /\ stuck' = stuck \cup {a}
    /\ UNCHANGED <<status, listed, issue, run, pushes, failures>>

-----------------------------------------------------------------------------
\* What starts a run.

Start(r, by, todo) ==
    /\ run[r].pc = "idle" /\ todo # {}
    /\ run' = [run EXCEPT ![r] = [NoRun EXCEPT !.by = by, !.todo = todo, !.pc = "next"]]

Pending == {a \in Alerts : status[a] = "pending"}

\* The poll timer, and the check at the start: both of one processor.
checkPendingAlerts(r) ==
    /\ Start(r, "timer", Pending)
    /\ UNCHANGED <<status, stuck, listed, issue, pushes, failures>>

\* Mutant of Stale: what is stuck is looked for among the pending.
StalePending == stuck \cap Pending

Stale == stuck

recoverStaleProcessingAlerts(r) ==
    /\ Start(r, "timer", Stale)
    /\ UNCHANGED <<status, stuck, listed, issue, pushes, failures>>

\* alert-created, with a processor of its own.
alertCreated(r) ==
    /\ pushes < MaxPushes /\ pushes' = pushes + 1
    /\ \E a \in Alerts : status[a] # "none" /\ Start(r, "push", {a})
    /\ UNCHANGED <<status, stuck, listed, issue, failures>>

onReconnect(r) ==
    /\ pushes < MaxPushes /\ pushes' = pushes + 1
    /\ Start(r, "push", Pending)
    /\ UNCHANGED <<status, stuck, listed, issue, failures>>

-----------------------------------------------------------------------------
\* processAlert.

At(r, pc) == run[r].pc = pc
Goto(r, pc) == run' = [run EXCEPT ![r].pc = pc]

\* The next alert of the run; the object has it in flight already, or takes it.
InFlight(r, a) == \E q \in Runs : q # r /\ run[q].by = "timer" /\ run[r].by = "timer" /\ run[q].a = a

nextAlert(r) ==
    /\ At(r, "next")
    /\ IF run[r].todo = {} THEN run' = [run EXCEPT ![r] = NoRun]
       ELSE LET a == First(run[r].todo) IN
            run' = [run EXCEPT ![r].todo = @ \ {a},
                               ![r].a = IF InFlight(r, a) THEN 0 ELSE a,
                               ![r].pc = IF InFlight(r, a) THEN "next" ELSE "mark"]
    /\ UNCHANGED <<status, stuck, listed, issue, pushes, failures>>

Done(r) == run' = [run EXCEPT ![r].a = 0, ![r].pc = "next", ![r].found = FALSE]

\* A request: it is answered; or it fails, with or without its effect.
Answered == failures' = failures
Fails == failures < MaxFailures /\ failures' = failures + 1

SetStatus(r, s) ==
    /\ status' = [status EXCEPT ![run[r].a] = s]
    /\ stuck' = stuck \ {run[r].a}
SameStatus == UNCHANGED <<status, stuck>>

\* Without the mark nothing has been looked at: the alert stays for the next poll.
markProcessing(r) ==
    /\ At(r, "mark")
    /\ \/ SetStatus(r, "processing") /\ Answered /\ Goto(r, "get")
       \/ Fails /\ (SameStatus \/ SetStatus(r, "processing")) /\ Done(r)
    /\ UNCHANGED <<listed, issue, pushes>>

\* The details; an alert that is not listed yet goes back to "pending".
getAlert(r) ==
    /\ At(r, "get") /\ SameStatus
    /\ \/ Answered /\ Goto(r, IF run[r].a \in listed THEN "find" ELSE "revert")
       \/ Fails /\ Goto(r, "fail")
    /\ UNCHANGED <<listed, issue, pushes>>

revertToPending(r) ==
    /\ At(r, "revert") /\ Done(r)
    /\ \/ SetStatus(r, "pending") /\ Answered
       \/ SameStatus /\ Fails
    /\ UNCHANGED <<listed, issue, pushes>>

\* The issue; only an alarm that is over resolves it.
findActiveIssueByAlarmName(r) ==
    /\ At(r, "find") /\ SameStatus
    /\ \/ Answered /\ Goto(r, IF Kind[run[r].a] = "OK" /\ issue # 0 THEN "resolve" ELSE "settle")
       \/ Fails /\ Goto(r, "fail")
    /\ UNCHANGED <<listed, issue, pushes>>

resolveIssueFromAlert(r) ==
    /\ At(r, "resolve") /\ SameStatus
    /\ \/ issue' = 0 /\ Answered /\ Goto(r, "settle")
       \/ issue' \in {0, issue} /\ Fails /\ Goto(r, "fail")
    /\ UNCHANGED <<listed, pushes>>

settle(r) ==
    /\ At(r, "settle")
    /\ \/ SetStatus(r, "processed") /\ Answered /\ Done(r)
       \/ Fails /\ (SameStatus \/ SetStatus(r, "processed")) /\ Goto(r, "fail")
    /\ UNCHANGED <<listed, issue, pushes>>

\* If this fails too, the alert stays in "processing" until it is stuck.
markFailed(r) ==
    /\ At(r, "fail") /\ Done(r)
    /\ \/ SetStatus(r, "failed") /\ Answered
       \/ SameStatus /\ Fails
    /\ UNCHANGED <<listed, issue, pushes>>

\* The agent restarts: its runs are gone.
Crash ==
    /\ failures < MaxFailures /\ failures' = failures + 1
    /\ \E r \in Runs : run[r].pc # "idle"
    /\ run' = [r \in Runs |-> NoRun]
    /\ UNCHANGED <<status, stuck, listed, issue, pushes>>

Process(r) ==
    \/ nextAlert(r) \/ markProcessing(r) \/ getAlert(r) \/ revertToPending(r)
    \/ findActiveIssueByAlarmName(r) \/ resolveIssueFromAlert(r) \/ settle(r) \/ markFailed(r)

AlertNext ==
    \/ \E a \in Alerts : Raise(a) \/ Listed(a) \/ Ages(a)
    \/ \E r \in Runs : \/ checkPendingAlerts(r) \/ recoverStaleProcessingAlerts(r)
                       \/ alertCreated(r) \/ onReconnect(r) \/ Process(r)
    \/ Crash

-----------------------------------------------------------------------------
AlertTypeOK ==
    /\ status \in [Alerts -> Statuses] /\ stuck \subseteq Alerts /\ listed \subseteq Alerts
    /\ issue \in Alerts \cup {0}
    /\ \A r \in Runs : run[r].todo \subseteq Alerts /\ run[r].a \in Alerts \cup {0}

\* Every alert is settled in the end, whatever request fails and whoever works
\* on it at the same time (alert-processor.ts, checkPendingAlerts and
\* recoverStaleProcessingAlerts).
AlertsEnd == \A a \in Alerts : status[a] \in {"pending", "processing"} ~> status[a] \in {"processed", "failed"}
=============================================================================

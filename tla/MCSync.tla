-------------------------------- MODULE MCSync --------------------------------
(***************************************************************************)
(* The parts that keep an agent's configuration, alerts and repository in  *)
(* step with the server, each on its own: they share no state, so one run  *)
(* chooses one of them at its start and checks it.                         *)
(***************************************************************************)
EXTENDS ConfigSync, RepoSync, FiniteSets, TLC

CONSTANTS Parts, Runs, MaxPushes, MaxFailures

\* One shared file: there first, then taken away.  An alarm that ends and goes off.
MCContent == <<[d1 |-> "a"], [d1 |-> "none"]>>
Kind == <<"OK", "ALARM">>

VARIABLES
    part,
    status, stuck, listed, issue, run, pushes, failures

alertVars == <<status, stuck, listed, issue, run, pushes, failures>>
vars == <<part, syncVars, alertVars, repoVars>>

Alert == INSTANCE AlertProcessing

Init ==
    /\ part \in Parts
    /\ SyncInit /\ Alert!AlertInit /\ RepoInit
    /\ part = "repo" \/ dir = "none"

ConfigNext == part = "config" /\ SyncNext /\ UNCHANGED <<part, alertVars, repoVars>>
AlertNext == part = "alert" /\ Alert!AlertNext /\ UNCHANGED <<part, syncVars, repoVars>>
TreeNext == part = "repo" /\ RepoNext /\ UNCHANGED <<part, syncVars, alertVars>>
Next == ConfigNext \/ AlertNext \/ TreeNext

\* Syncs: heartbeats go on, the timer they set goes off, and requests settle.
ConfigFair ==
    /\ \A s \in Syncs : WF_syncVars(part = "config" /\ Work(s))
    /\ WF_syncVars(part = "config" /\ heartbeat)
    /\ WF_syncVars(part = "config" /\ \E s \in Syncs : TimerFires(s))
    /\ WF_syncVars(part = "config" /\ conf.v = 0 /\ \E s \in Syncs : performConfigSync(s))

\* Alerts: both timers go on, time passes, requests settle, details are listed.
AlertFair ==
    /\ \A a \in DOMAIN Kind : /\ WF_alertVars(part = "alert" /\ Alert!Listed(a))
                              /\ WF_alertVars(part = "alert" /\ Alert!Ages(a))
    /\ SF_alertVars(part = "alert" /\ \E r \in Runs : Alert!checkPendingAlerts(r))
    /\ SF_alertVars(part = "alert" /\ \E r \in Runs : Alert!recoverStaleProcessingAlerts(r))
    /\ \A r \in Runs : WF_alertVars(part = "alert" /\ Alert!Process(r))

Spec == Init /\ [][Next]_vars /\ ConfigFair /\ AlertFair

-----------------------------------------------------------------------------
\* What the run checks besides the shared files: see the modules.
AlertsEnd == []Alert!AlertTypeOK /\ Alert!AlertsEnd

-----------------------------------------------------------------------------
\* Statements that do not hold (README).

\* The files are those of the configuration the server has sent, or a warning
\* says that they are not.
FilesOfWhole ==
    Quiet /\ conf.v # 0 /\ conf.whole =>
        \A d \in Dest : disk[d] \in {Content[conf.v][d], "foreign"} \/ Told(d)

\* The SSH files are those of the configuration in use.
SshFollows == Quiet /\ conf.whole /\ conf.v # 0 => ssh \in {0, conf.v}

\* What was taken from the cache is replaced by what the server has
\* (agent-config-sync.ts 148).
CacheIsTemporary == (part = "config" /\ conf.v # 0 /\ ~conf.whole) ~> (conf.v # 0 /\ conf.whole)

\* A warning about a file goes when the file is right or the agent is gone.
WarningStays ==
    [][\A d \in Dest : d \in errors /\ d \notin errors' => conf'.v = 0 \/ conf.whole]_vars

\* An alert that has been processed stays so; one run works on an alert; an
\* alarm that has ended does not resolve the issue of a later one.
NeverReopened == [][\A a \in DOMAIN Kind : status[a] = "processed" => status'[a] = "processed"]_vars
OnceAtATime == \A q, r \in Runs : q # r /\ run[q].a # 0 => run[q].a # run[r].a
NewerStaysOpen == [][issue # 0 /\ issue' = 0 => \E r \in Runs : run[r].a > issue]_vars

\* A key is on the disk only while its sync runs; a branch can be changed although a chat has left changes.
KeysGo == \A s \in keys : ~NotSyncing(s)
DirtyYields ==
    [][\A s \in keys : job[s].pc = "checkout" /\ job'[s].pc = "idle" /\ s \notin keys' => gitFailures' # gitFailures]_vars
=============================================================================

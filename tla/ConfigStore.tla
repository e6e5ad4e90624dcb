----------------------------- MODULE ConfigStore -----------------------------
(***************************************************************************)
(* config.json (config-manager.ts), written by short commands - login,     *)
(* configure, remove-project, set-project-dir, set-auto-update - and by    *)
(* every agent that starts.  There is no lock: each of them loads the      *)
(* file, changes a field, loads it again in saveConfig and replaces it     *)
(* through a temporary file whose name they all share (atomicWriteFile).   *)
(*                                                                         *)
(* A file is named by its place: a writer's descriptor is at "tmp", at     *)
(* "config" after a rename, or at a file without a name ("gone").          *)
(***************************************************************************)
EXTENDS Naturals

CONSTANTS
    Writers,        \* one process per write: 1..n, in the order they start
    Project, Default,   \* registered projects; the one a legacy file's token becomes
    MaxKills,       \* writers that are killed (bound)
    StoreFaults     \* "overlap": two write at once; "opening", "timeout": a callback before or after anyone waits for it

ASSUME StoreAssumption ==
    /\ Writers \subseteq Nat \ {0} /\ \A w \in Writers : 1 .. w \subseteq Writers
    /\ Default \in Project /\ MaxKills \in Nat
    /\ StoreFaults \subseteq {"overlap", "opening", "timeout"}

VARIABLES config, temp, writer, kills
storeVars == <<config, temp, writer, kills>>

Nothing == [p \in Project |-> "none"]
\* What a file holds: an empty one, and one that is not there, load as null.
NoConfig == [kind |-> "none", id |-> 0, projects |-> Nothing, auto |-> FALSE]
Empty == [NoConfig EXCEPT !.kind = "empty"]
Whole(id, projects, auto) == [kind |-> "whole", id |-> id, projects |-> projects, auto |-> auto]
ConfigFile ==
    [kind : {"none", "empty", "legacy", "whole"}, id : {0} \cup Writers,
     projects : [Project -> {"none", "plain", "dir"}], auto : BOOLEAN]

Fresh == [pc |-> "idle", op |-> "none", p |-> Default, given |-> NoConfig, data |-> NoConfig, fd |-> "none", next |-> "none",
          said |-> FALSE]
Final == {"done", "absent", "failed", "timeout", "killed"}
Changes == {"add", "remove", "dir"}
Ops == Changes \cup {"auto", "connect"}
Over(me, how) == [Fresh EXCEPT !.pc = how, !.op = me.op, !.p = me.p, !.said = me.said]
Busy(w) == writer[w].pc \notin {"idle"} \cup Final

StoreInit ==
    /\ config \in {NoConfig, [NoConfig EXCEPT !.kind = "legacy"], Whole(0, [Nothing EXCEPT ![Default] = "dir"], TRUE)}
    /\ temp = NoConfig /\ writer = [w \in Writers |-> Fresh] /\ kills = 0

WriterState ==
    [pc : {"idle", "opening", "waiting", "load", "merge", "create", "unlink", "recreate", "write", "rename",
           "cleanup"} \cup Final,
     op : Ops \cup {"none"}, p : Project, given : ConfigFile, data : ConfigFile,
     fd : {"none", "tmp", "config", "gone"}, next : {"none", "load", "merge", "done"}, said : BOOLEAN]
StoreTypeOK ==
    /\ config \in ConfigFile /\ temp \in ConfigFile /\ kills \in 0..MaxKills
    /\ writer \in [Writers -> WriterState]

\* A command is given, or an agent starts: login waits for the browser first,
\* the others load the file, an agent's saveConfig is all it does.
Command(w, op, p, login) ==
    /\ writer[w].pc = "idle" /\ ("overlap" \in StoreFaults \/ \A v \in Writers : ~Busy(v))
    /\ \A v \in 1..(w - 1) : writer[v].pc # "idle"
    /\ login => op = "add"
    /\ writer' = [writer EXCEPT ![w] = [Fresh EXCEPT !.op = op, !.p = p,
                     !.pc = IF login THEN "opening" ELSE IF op = "connect" THEN "merge" ELSE "load"]]
    /\ UNCHANGED <<config, temp, kills>>

\* performBrowserAuth: the browser has been opened, the callback is awaited.
performBrowserAuth(w) ==
    /\ writer[w].pc = "opening"
    /\ writer' = [writer EXCEPT ![w].pc = "waiting"]
    /\ UNCHANGED <<config, temp, kills>>

\* POST /callback with the nonce, which counts once: answered 200 whether or
\* not waitForCallback has been called or has given up.
Callback(w) ==
    /\ writer[w].pc \in {"waiting"} \cup (StoreFaults \cap {"opening", "timeout"})
    /\ ~writer[w].said
    /\ writer' = [writer EXCEPT ![w].said = TRUE, ![w].pc = IF @ = "waiting" THEN "load" ELSE @]
    /\ UNCHANGED <<config, temp, kills>>

\* AUTH_TIMEOUT: the server takes no new connection.
AuthTimeout(w) ==
    /\ writer[w].pc = "waiting"
    /\ writer' = [writer EXCEPT ![w] = Over(@, "timeout")]
    /\ UNCHANGED <<config, temp, kills>>

\* loadConfig: null for a file that is not there or not whole; a legacy file
\* is first rewritten with its token as a project, without other settings.
Loaded == IF config.kind = "whole" THEN config ELSE NoConfig
Migrated == Whole(config.id, [Nothing EXCEPT ![Default] = "plain"], FALSE)
migrateConfigIfNeeded(w) ==
    /\ writer[w].pc \in {"load", "merge"} /\ config.kind = "legacy"
    /\ writer' = [writer EXCEPT ![w].pc = "create", ![w].next = writer[w].pc, ![w].data = Migrated]
    /\ UNCHANGED <<config, temp, kills>>

\* The lists that addProject, removeProject and setProjectDir go on to save:
\* a registration made again is replaced, its directory with it.
Changed(op, p, projects) ==
    CASE op = "add" -> [projects EXCEPT ![p] = "plain"]
      [] op = "remove" -> [projects EXCEPT ![p] = "none"]
      [] op = "dir" -> [projects EXCEPT ![p] = "dir"]
      [] OTHER -> projects
Found(me, c) ==
    IF me.op \in {"remove", "dir"} /\ c.projects[me.p] = "none" THEN Over(me, "absent")
    ELSE [me EXCEPT !.pc = "merge", !.next = "none",
             !.given = [c EXCEPT !.projects = Changed(me.op, me.p, @), !.auto = IF me.op = "auto" THEN ~@ ELSE @]]

\* saveConfig: the fields given, the others from the file as it is now; a file
\* that loads as null gets a new agentId.
Merged(w, me, c) ==
    [me EXCEPT !.pc = "create", !.next = "done", !.fd = "none",
        !.data = Whole(IF c.kind = "none" THEN w ELSE c.id,
                       IF me.op \in Changes THEN me.given.projects ELSE c.projects,
                       IF me.op = "auto" THEN me.given.auto ELSE c.auto)]
LoadFor(w) ==
    /\ writer[w].pc = "load" /\ config.kind # "legacy"
    /\ writer' = [writer EXCEPT ![w] = Found(@, Loaded)]
    /\ UNCHANGED <<config, temp, kills>>
saveConfig(w) ==
    /\ writer[w].pc = "merge" /\ config.kind # "legacy"
    /\ writer' = [writer EXCEPT ![w] = Merged(w, @, Loaded)]
    /\ UNCHANGED <<config, temp, kills>>

-----------------------------------------------------------------------------
(* atomicWriteFile, one system call at a time.                             *)

\* The writers' descriptors when the file at "tmp" loses its name or gets another.
Refer(ws, from, to) == [w \in Writers |-> IF ws[w].fd = from THEN [ws[w] EXCEPT !.fd = to] ELSE ws[w]]

Opens(w) ==
    /\ temp.kind = "none" /\ temp' = Empty
    /\ writer' = [writer EXCEPT ![w].pc = "write", ![w].fd = "tmp"]

\* The write has failed: after the migration's, loadConfig returns null; any
\* other ends the command.
Failed(w, me) ==
    CASE me.next = "load" -> Found([me EXCEPT !.fd = "none"], NoConfig)
      [] me.next = "merge" -> Merged(w, me, NoConfig)
      [] OTHER -> Over(me, "failed")

\* Mutant of Create: a temporary file that is there is an error.
LeftoverFails(w) ==
    /\ writer[w].pc = "create" /\ UNCHANGED <<config, kills>>
    /\ IF temp.kind = "none" THEN Opens(w) ELSE writer' = [writer EXCEPT ![w] = Failed(w, @)] /\ UNCHANGED temp

\* A temporary file that was left behind is removed and made anew.
Create(w) ==
    /\ writer[w].pc = "create"
    /\ \/ Opens(w)
       \/ temp.kind # "none" /\ writer' = [writer EXCEPT ![w].pc = "unlink"] /\ UNCHANGED temp
    /\ UNCHANGED <<config, kills>>

Unlink(w) ==
    /\ writer[w].pc = "unlink" /\ UNCHANGED <<config, kills>>
    /\ IF temp.kind = "none" THEN writer' = [writer EXCEPT ![w] = Failed(w, @)] /\ UNCHANGED temp
       ELSE temp' = NoConfig /\ writer' = [Refer(writer, "tmp", "gone") EXCEPT ![w].pc = "recreate"]
Recreate(w) ==
    /\ writer[w].pc = "recreate" /\ UNCHANGED <<config, kills>>
    /\ IF temp.kind = "none" THEN Opens(w) ELSE writer' = [writer EXCEPT ![w] = Failed(w, @)] /\ UNCHANGED temp

Write(w) ==
    /\ writer[w].pc = "write"
    /\ temp' = IF writer[w].fd = "tmp" THEN writer[w].data ELSE temp
    /\ config' = IF writer[w].fd = "config" THEN writer[w].data ELSE config
    /\ writer' = [writer EXCEPT ![w].pc = "rename"]
    /\ UNCHANGED kills

AfterRename(me) ==
    IF me.next = "done" THEN Over(me, "done")
    ELSE [me EXCEPT !.pc = me.next, !.next = "none", !.data = NoConfig, !.fd = "none"]
\* Whatever file has the temporary name becomes config.json; when none has,
\* the rename fails, and then the name is unlinked.
Rename(w) ==
    /\ writer[w].pc \in {"rename", "cleanup"} /\ UNCHANGED kills
    /\ CASE writer[w].pc = "cleanup" ->
              /\ temp' = NoConfig /\ UNCHANGED config
              /\ writer' = [Refer(writer, "tmp", "gone") EXCEPT ![w] = Failed(w, @)]
         [] writer[w].pc = "rename" /\ temp.kind = "none" ->
              writer' = [writer EXCEPT ![w].pc = "cleanup"] /\ UNCHANGED <<config, temp>>
         [] OTHER ->
              /\ config' = temp /\ temp' = NoConfig
              /\ writer' = [Refer(Refer(writer, "config", "gone"), "tmp", "config") EXCEPT ![w] = AfterRename(@)]

\* The process is killed: what it has left on the disk stays.
WriterDies(w) ==
    /\ Busy(w) /\ kills < MaxKills /\ kills' = kills + 1
    /\ writer' = [writer EXCEPT ![w] = Over(@, "killed")]
    /\ UNCHANGED <<config, temp>>

WriterStep(w) ==
    \/ performBrowserAuth(w) \/ Callback(w) \/ AuthTimeout(w)
    \/ migrateConfigIfNeeded(w) \/ LoadFor(w) \/ saveConfig(w)
    \/ Create(w) \/ Unlink(w) \/ Recreate(w) \/ Write(w) \/ Rename(w) \/ WriterDies(w)
StoreNext == \E w \in Writers : WriterStep(w) \/ \E op \in Ops, p \in Project, l \in BOOLEAN : Command(w, op, p, l)

StoreSpec == StoreInit /\ [][StoreNext]_storeVars

-----------------------------------------------------------------------------
Registered(c, p) == c.projects[p] # "none" \/ (c.kind = "legacy" /\ p = Default)

\* A project goes only when it is removed, the agentId never changes, a
\* setting changes only by its command, and the file is whole at every moment,
\* wherever a writer is killed.
NothingLost(w) ==
    /\ \A p \in Project : Registered(config, p) /\ ~Registered(config', p) => writer[w].op = "remove" /\ writer[w].p = p
    /\ \A p \in Project : config.projects[p] = "dir" /\ config'.projects[p] = "plain" => writer[w].op = "add"
    /\ config.kind # "none" => config'.kind \in {"legacy", "whole"} /\ config'.id = config.id
    /\ config'.auto # config.auto => writer[w].op = "auto"

\* A command that says it is done is in the file, a temporary file left by
\* another fails none, and a login that the browser was told is accepted does
\* not time out.
TellsTruth(w) ==
    /\ writer'[w].pc = "done" /\ writer[w].op = "add" => Registered(config', writer[w].p)
    /\ writer'[w].pc # "failed"
    /\ writer'[w].said => writer'[w].pc # "timeout"

\* Of writers one after another, some of them killed (config-manager.ts,
\* utils.ts atomicWriteFile, auth-server.ts): nothing is lost and each tells
\* the truth.  It does not hold of two at once (README).
StoreKept == []StoreTypeOK /\ [][\A w \in Writers : writer'[w] # writer[w] => NothingLost(w) /\ TellsTruth(w)]_storeVars
=============================================================================

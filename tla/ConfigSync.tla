------------------------------ MODULE ConfigSync ------------------------------
(***************************************************************************)
(* The configuration of a project on its way from the server to the        *)
(* agent's memory and disk (agent-config-sync.ts, project-config-sync.ts,  *)
(* shared-file-mounts.ts, ssh-config-setup.ts).                            *)
(*                                                                         *)
(* Syncs start from a command, from the start-up and from a debounced      *)
(* timer that notifications and heartbeats set, and they run beside each   *)
(* other.  Each asks the server, compares the answer with the hash it saw  *)
(* when it began, takes the configuration over in one go, then places the  *)
(* shared files - one sync at a time, in a chain - and writes the SSH      *)
(* files.  A manifest on disk tells which files the agent has placed and   *)
(* may remove again.                                                       *)
(***************************************************************************)
EXTENDS Naturals, Sequences

CONSTANTS
    Syncs,      \* syncs that may be under way (bound)
    Dest,       \* places for shared files
    File,       \* what may stand in a shared file
    Content,    \* Content[v][d]: what version v of the configuration puts there, or "none"
    MaxOutages, \* requests for the configuration that fail or are half answered, and damages (bound)
    MaxNotes,   \* notifications and commands (bound)
    SyncFaults  \* "unsaved": the manifest cannot be written; "mid": a crash may come while files are placed;
                \* "damaged": something else damages the manifest; "unhashed": a file may not be read back

ASSUME SyncAssumption ==
    /\ "none" \notin File /\ "foreign" \notin File
    /\ Content \in Seq([Dest -> File \cup {"none"}]) /\ Content # <<>>
    /\ MaxOutages \in Nat /\ MaxNotes \in Nat
    /\ SyncFaults \subseteq {"unsaved", "mid", "damaged", "unhashed"}

Versions == 1 .. Len(Content)
LastVersion == Len(Content)

VARIABLES
    server,     \* the version the server has
    hash,       \* currentConfigHash, 0 when there is none
    conf,       \* the configuration in use: version, whether it is whole or from the cache,
                \* and whether it says what the shared files are
    cache,      \* the version in the cache file
    timer,      \* the debounce timer is set
    sync,       \* where each sync is
    chain,      \* syncs that wait for the files of another to be placed; the head places
    apply,      \* what the head has loaded, placed and left
    disk,       \* what stands at each place
    own,        \* places that hold what the agent put there
    manifest,   \* the record of them: content by place
    readable,   \* the record can be read
    errors,     \* sharedFileMountErrors
    ssh,        \* the version of the key and the host block, 0 before the first
    outages, notes

syncVars == <<server, hash, conf, cache, timer, sync, chain, apply, disk, own, manifest, readable, errors, ssh, outages, notes>>
diskVars == <<disk, own, manifest, readable>>
bounds == <<outages, notes>>

NoSync == [pc |-> "idle", had |-> 0, got |-> 0, whole |-> TRUE, says |-> TRUE]
NoConf == [v |-> 0, whole |-> TRUE, says |-> TRUE]
NoApply == [pc |-> "off", loaded |-> <<>>, placed |-> <<>>, left |-> <<>>, todo |-> {}, failed |-> {}]

SyncInit ==
    /\ server = 1 /\ hash = 0 /\ conf = NoConf /\ cache = 0
    /\ timer = FALSE /\ sync = [s \in Syncs |-> NoSync] /\ chain = <<>> /\ apply = NoApply
    /\ disk = [d \in Dest |-> "none"] /\ own = {} /\ manifest = <<>> /\ readable = TRUE /\ errors = {}
    /\ ssh = 0 /\ outages = 0 /\ notes = 0

-----------------------------------------------------------------------------
\* What starts a sync.

ChangeConfig ==
    /\ server < LastVersion /\ server' = server + 1
    /\ UNCHANGED <<hash, conf, cache, timer, sync, chain, apply, diskVars, errors, ssh, bounds>>

\* The notification does not trust its hash: it forces a sync.
configUpdate ==
    /\ notes < MaxNotes /\ conf.v # 0 /\ notes' = notes + 1
    /\ hash' = 0 /\ timer' = TRUE
    /\ UNCHANGED <<server, conf, cache, sync, chain, apply, diskVars, errors, ssh, outages>>

\* Mutant of HashDiffers: a hash that has been set is trusted.
HashUnset == hash = 0

HashDiffers == server # hash

\* The answer of a heartbeat holds the hash of the server.
heartbeat ==
    /\ conf.v # 0 /\ HashDiffers
    /\ timer' = TRUE
    /\ UNCHANGED <<server, hash, conf, cache, sync, chain, apply, diskVars, errors, ssh, bounds>>

Begin(s, had) == sync' = [sync EXCEPT ![s] = [NoSync EXCEPT !.pc = "fetching", !.had = had]]

\* The timer of scheduleConfigSync goes off.
TimerFires(s) ==
    /\ timer /\ sync[s].pc = "idle"
    /\ timer' = FALSE
    /\ Begin(s, hash)
    /\ UNCHANGED <<server, hash, conf, cache, chain, apply, diskVars, errors, ssh, bounds>>

\* The start-up and the commands forget the hash first (ProjectAgent).
performConfigSync(s) ==
    /\ sync[s].pc = "idle"
    /\ conf.v = 0 \/ notes < MaxNotes
    /\ conf.v = 0 => \A t \in Syncs : sync[t].pc = "idle"
    /\ notes' = IF conf.v = 0 THEN notes ELSE notes + 1
    /\ hash' = 0
    /\ Begin(s, 0)
    /\ UNCHANGED <<server, conf, cache, timer, chain, apply, diskVars, errors, ssh, outages>>

-----------------------------------------------------------------------------
\* syncProjectConfig and the first half of applyProjectConfig.

\* The server answers; the answer is under way. One that could not find out
\* about the shared files, or does not know of them, says nothing of them.
Served(s) ==
    /\ sync[s].pc = "fetching"
    /\ \E says \in BOOLEAN :
        /\ outages' = (IF says THEN outages ELSE outages + 1) /\ outages' <= MaxOutages
        /\ sync' = [sync EXCEPT ![s].pc = "answered", ![s].got = server, ![s].says = says]
    /\ UNCHANGED <<server, hash, conf, cache, timer, chain, apply, diskVars, errors, ssh, notes>>

\* Memory is changed at once; the files wait for their turn.
applyProjectConfig(s, v, whole, says) ==
    /\ hash' = v /\ conf' = [v |-> v, whole |-> whole, says |-> says]
    /\ sync' = [sync EXCEPT ![s] = [pc |-> "mounting", had |-> 0, got |-> v, whole |-> whole, says |-> says]]
    /\ chain' = Append(chain, s)

syncProjectConfig(s) ==
    /\ sync[s].pc = "answered"
    /\ IF sync[s].got = sync[s].had
       THEN sync' = [sync EXCEPT ![s] = NoSync] /\ UNCHANGED <<hash, conf, cache, chain>>
       ELSE applyProjectConfig(s, sync[s].got, TRUE, sync[s].says) /\ cache' = sync[s].got
    /\ UNCHANGED <<server, timer, apply, diskVars, errors, ssh, bounds>>

\* The request fails: what the cache holds, without its secret parts, if it
\* is another version than the one in use.
loadCachedConfig(s) ==
    /\ sync[s].pc = "fetching" /\ outages < MaxOutages /\ outages' = outages + 1
    /\ IF cache # 0 /\ cache # sync[s].had
       THEN applyProjectConfig(s, cache, FALSE, FALSE)
       ELSE sync' = [sync EXCEPT ![s] = NoSync] /\ UNCHANGED <<hash, conf, chain>>
    /\ UNCHANGED <<server, cache, timer, apply, diskVars, errors, ssh, notes>>

-----------------------------------------------------------------------------
\* applySharedFileMounts: one at a time.  A configuration from the cache, and
\* some answers of the server, do not say what is to be placed; then nothing is,
\* and nothing is removed.

Wanted(s) == IF sync[s].says THEN {d \in Dest : Content[sync[s].got][d] # "none"} ELSE {}
Put(f, d, c) == [e \in DOMAIN f \cup {d} |-> IF e = d THEN c ELSE f[e]]
Only(f, S) == [d \in DOMAIN f \cap S |-> f[d]]

\* Mutant of MayApply: the chain is not waited for.
MayApplyBeside(s) == apply.pc \in {"off", "placing"}

MayApply(s) == Head(chain) = s /\ apply.pc = "off"

loadManifest(s) ==
    /\ sync[s].pc = "mounting" /\ MayApply(s)
    /\ sync' = [sync EXCEPT ![s].pc = "placing"]
    /\ apply' = [NoApply EXCEPT !.pc = "placing", !.todo = Wanted(s),
                                !.loaded = IF readable THEN manifest ELSE <<>>]
    /\ UNCHANGED <<server, hash, conf, cache, timer, chain, diskVars, errors, ssh, bounds>>

\* One file: fetched, compared and put in place; or it fails and is told.
PlaceMount(s, d) ==
    /\ sync[s].pc = "placing" /\ apply.pc = "placing" /\ d \in apply.todo
    /\ LET c == Content[sync[s].got][d] IN
       \/ /\ apply' = [apply EXCEPT !.todo = @ \ {d}, !.failed = @ \cup {d}]
          /\ UNCHANGED <<disk, own>>
       \/ /\ disk[d] = c  \* it is there; what is not in the record is another's
          /\ apply' = [apply EXCEPT !.todo = @ \ {d},
                                    !.placed = IF d \in DOMAIN apply.loaded THEN Put(@, d, c) ELSE @]
          /\ UNCHANGED <<disk, own>>
       \/ /\ disk[d] # c
          /\ disk' = [disk EXCEPT ![d] = c] /\ own' = own \cup {d}
          /\ apply' = [apply EXCEPT !.todo = @ \ {d}, !.placed = Put(@, d, c)]
       \/ /\ "unhashed" \in SyncFaults  \* it is in place and only the log tells of it
          /\ disk' = [disk EXCEPT ![d] = c] /\ own' = own \cup {d}
          /\ apply' = [apply EXCEPT !.todo = @ \ {d}]
    /\ UNCHANGED <<server, hash, conf, cache, timer, sync, chain, manifest, readable, errors, ssh, bounds>>

\* What is recorded, not configured any more and unchanged goes. The rest of it
\* stays, recorded and told: what was changed, and what cannot be removed.
removeStaleMounts(s) ==
    /\ sync[s].pc = "placing" /\ apply.pc = "placing" /\ apply.todo = {}
    /\ LET stale == IF sync[s].says THEN DOMAIN apply.loaded \ Wanted(s) ELSE {}
           changed == {d \in stale : disk[d] \notin {"none", apply.loaded[d]}}
       IN  \E stays \in SUBSET stale :
            LET gone == {d \in stale \ stays : disk[d] = apply.loaded[d]} IN
            /\ changed \subseteq stays
            /\ disk' = [d \in Dest |-> IF d \in gone THEN "none" ELSE disk[d]]
            /\ own' = own \ gone
            /\ apply' = [apply EXCEPT !.pc = "saving", !.left = Only(apply.loaded, stays),
                                      !.failed = @ \cup stays]
    /\ UNCHANGED <<server, hash, conf, cache, timer, sync, chain, manifest, readable, errors, ssh, bounds>>

\* Entries of files that are still configured are kept, placed this time or not.
carriedOver(s) ==
    Only(apply.loaded, (IF sync[s].says THEN Wanted(s) ELSE Dest) \ (DOMAIN apply.placed \cup DOMAIN apply.left))

Record(s) ==
    LET kept == carriedOver(s) IN
    [d \in DOMAIN apply.placed \cup DOMAIN apply.left \cup DOMAIN kept |->
        IF d \in DOMAIN apply.placed THEN apply.placed[d]
        ELSE IF d \in DOMAIN apply.left THEN apply.left[d] ELSE kept[d]]

Saves == IF "unsaved" \in SyncFaults THEN BOOLEAN ELSE {TRUE}

\* The record is replaced in one go, unless it could not be read: then it is
\* left as it is.  The failures become the warning shown.
saveManifest(s) ==
    /\ sync[s].pc = "placing" /\ apply.pc = "saving"
    /\ \E saved \in Saves :
        /\ manifest' = IF saved /\ readable THEN Record(s) ELSE manifest
        /\ errors' = apply.failed \cup (IF saved /\ readable THEN {} ELSE {"manifest"})
    /\ apply' = NoApply
    /\ chain' = Tail(chain)
    /\ sync' = [sync EXCEPT ![s].pc = "ssh"]
    /\ UNCHANGED <<server, hash, conf, cache, timer, disk, own, readable, ssh, bounds>>

-----------------------------------------------------------------------------
\* The second half: the SSH files, after the shared files.  The credentials of
\* the host are asked for, or it is left out; without a host nothing is written.

getSshCredentials(s) ==
    /\ sync[s].pc = "ssh"
    /\ IF sync[s].whole
       THEN \E v \in {0, server} : sync' = [sync EXCEPT ![s].pc = "keys", ![s].had = v]
       ELSE sync' = [sync EXCEPT ![s] = NoSync]
    /\ UNCHANGED <<server, hash, conf, cache, timer, chain, apply, diskVars, errors, ssh, bounds>>

\* The key file, and the managed block of the config file.
writeSshConfig(s) ==
    /\ sync[s].pc = "keys"
    /\ ssh' = IF sync[s].had = 0 THEN ssh ELSE sync[s].had
    /\ sync' = [sync EXCEPT ![s] = NoSync]
    /\ UNCHANGED <<server, hash, conf, cache, timer, chain, apply, diskVars, errors, bounds>>

-----------------------------------------------------------------------------
\* Somebody else writes to a place.
Foreign(d) ==
    /\ disk[d] # "foreign" /\ notes < MaxNotes /\ notes' = notes + 1
    /\ apply.pc = "off"
    /\ disk' = [disk EXCEPT ![d] = "foreign"] /\ own' = own \ {d}
    /\ UNCHANGED <<server, hash, conf, cache, timer, sync, chain, apply, manifest, readable, errors, ssh, outages>>

\* The record is damaged; nothing repairs it.  Counted with the outages.
Damage ==
    /\ "damaged" \in SyncFaults /\ readable /\ apply.pc = "off" /\ readable' = FALSE
    /\ outages < MaxOutages /\ outages' = outages + 1
    /\ UNCHANGED <<server, hash, conf, cache, timer, sync, chain, apply, disk, own, manifest, errors, ssh, notes>>

\* The agent restarts; disk, manifest and cache stay.
Restart ==
    /\ conf.v # 0 /\ notes < MaxNotes /\ notes' = notes + 1
    /\ "mid" \notin SyncFaults => apply.pc = "off"
    /\ hash' = 0 /\ conf' = NoConf /\ timer' = FALSE
    /\ sync' = [s \in Syncs |-> NoSync] /\ chain' = <<>> /\ apply' = NoApply /\ errors' = {}
    /\ UNCHANGED <<server, cache, diskVars, ssh, outages>>

Work(s) ==
    \/ Served(s) \/ syncProjectConfig(s) \/ loadManifest(s) \/ (\E d \in Dest : PlaceMount(s, d))
    \/ removeStaleMounts(s) \/ saveManifest(s) \/ getSshCredentials(s) \/ writeSshConfig(s)

SyncNext ==
    \/ ChangeConfig \/ configUpdate \/ heartbeat \/ Damage \/ Restart
    \/ \E s \in Syncs : TimerFires(s) \/ performConfigSync(s) \/ Work(s) \/ loadCachedConfig(s)
    \/ \E d \in Dest : Foreign(d)

SyncSpec == SyncInit /\ [][SyncNext]_syncVars

-----------------------------------------------------------------------------
Places == UNION {[D -> File] : D \in SUBSET Dest}
Sync == [pc : {"idle", "fetching", "answered", "mounting", "placing", "ssh", "keys"},
         had : Versions \cup {0}, got : Versions \cup {0}, whole : BOOLEAN, says : BOOLEAN]
Apply == [pc : {"off", "placing", "saving"}, loaded : Places, placed : Places, left : Places,
          todo : SUBSET Dest, failed : SUBSET Dest]

SyncTypeOK ==
    /\ server \in Versions /\ hash \in Versions \cup {0} /\ cache \in Versions \cup {0} /\ ssh \in Versions \cup {0}
    /\ conf \in [v : Versions \cup {0}, whole : BOOLEAN, says : BOOLEAN] /\ timer \in BOOLEAN
    /\ sync \in [Syncs -> Sync] /\ chain \in Seq(Syncs) /\ apply \in Apply
    /\ disk \in [Dest -> File \cup {"none", "foreign"}] /\ own \subseteq Dest
    /\ manifest \in Places /\ readable \in BOOLEAN /\ errors \subseteq Dest \cup {"manifest"}
    /\ outages \in 0 .. MaxOutages /\ notes \in 0 .. MaxNotes

Resting == apply.pc = "off"
Quiet == \A s \in Syncs : sync[s].pc \in {"idle", "fetching", "answered"}

\* Whatever the agent has placed and nobody changed is in the record, so that
\* it can be taken away again: also after failures, restarts and syncs beside
\* each other (shared-file-mounts.ts, applyChain).
OwnTracked == Resting /\ readable => \A d \in own : d \in DOMAIN manifest /\ manifest[d] = disk[d]

\* Once the syncs are through, the files are those of the configuration in
\* use, if it says which they are, and where they are not, a warning says so.
Told(d) == d \in errors \/ "manifest" \in errors
FilesFollow ==
    Quiet /\ conf.v # 0 /\ conf.says =>
        \A d \in Dest : disk[d] \in {Content[conf.v][d], "foreign"} \/ Told(d)

\* Both, of values of the right types.
MountsKept == SyncTypeOK /\ OwnTracked /\ FilesFollow

\* The agent comes to use the last configuration of the server and stays with
\* it: an old answer that overtakes a new one, and syncs beside each other, do
\* not leave it behind for good (agent-transport.ts 236).
ConfigFollows == <>[](server = LastVersion => conf.v = LastVersion)
=============================================================================

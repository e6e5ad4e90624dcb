------------------------------ MODULE ClaudeJson ------------------------------
(***************************************************************************)
(* ~/.claude.json (utils/claude-json-oauth-sync.ts, claude-config-         *)
(* validator.ts).  Agents share the file.  Before one starts a terminal,   *)
(* an editor or a chat it puts a broken file right from its backup, under  *)
(* no lock, and then makes sure that the file holds what lets the CLI      *)
(* start without a login: under a lock file that is created exclusively    *)
(* and taken away from an owner that seems to be gone.  On a disk the file *)
(* is replaced in one go; where it is mounted alone it is written in       *)
(* place.                                                                  *)
(***************************************************************************)
EXTENDS Naturals

CONSTANTS
    Agents,
    LOCK_RETRY_MAX,
    JsonFaults  \* "slow": an owner may live longer than its lock seems to; "mounted_crash": an agent
                \* may die on a mounted file; "cli": the CLI writes the file while an agent
                \* has it in hand; "check": an agent checks the file while another writes it
                \* in place; "apart": the agents that share a mounted file are in containers of
                \* their own, and so are their lock files

\* 0 stands for no owner.
ASSUME JsonAssumption ==
    /\ 0 \notin Agents /\ LOCK_RETRY_MAX \in Nat
    /\ JsonFaults \subseteq {"slow", "mounted_crash", "cli", "check", "apart"}

VARIABLES
    place,      \* "disk", or "mount" for a file that is mounted alone
    file,       \* there, whole, with the keys of the login, with the data of the user
    backup,     \* ~/.claude.json.backup, likewise
    had,        \* the user has data in the file, or in the backup of a broken one
    lock,       \* owner of the lock file, 0 without one
    stale,      \* the lock file is older than LOCK_STALE_MS
    agent       \* where each agent is

jsonVars == <<place, file, backup, had, lock, stale, agent>>

JsonFile == [there : BOOLEAN, whole : BOOLEAN, keys : BOOLEAN, user : BOOLEAN]
NoFile == [there |-> FALSE, whole |-> TRUE, keys |-> FALSE, user |-> FALSE]
UserFile == [NoFile EXCEPT !.there = TRUE, !.user = TRUE]
Cut == [NoFile EXCEPT !.there = TRUE, !.whole = FALSE]
Away == [pc |-> "idle", tries |-> 0, keys |-> FALSE, user |-> FALSE]

JsonInit ==
    /\ place \in {"disk", "mount"}
    /\ file \in {NoFile, UserFile, Cut} /\ backup \in {NoFile, UserFile}
    /\ had = IF file.whole THEN file.user ELSE backup.user
    /\ lock = 0 /\ stale = FALSE /\ agent = [p \in Agents |-> Away]

Mends == {"mend", "mending"}
InLock == {"read", "write", "writing", "release"}
Agent == [pc : {"idle", "open", "stat", "steal", "skipped", "ready"} \cup Mends \cup InLock,
          tries : 0 .. LOCK_RETRY_MAX, keys : BOOLEAN, user : BOOLEAN]
Goto(p, pc) == agent' = [agent EXCEPT ![p].pc = pc]

-----------------------------------------------------------------------------
\* With an acceptable token the account is ensured next; a container's start only
\* has the file checked.
ensureClaudeJsonOAuthAccount(p) ==
    \E pc \in {"open", "idle"} : agent' = [agent EXCEPT ![p] = [Away EXCEPT !.pc = pc]]

\* A terminal, an editor, a chat or the containers are about to start: a file that
\* can be parsed is copied to the backup.
ensureClaudeJsonIntegrity(p) ==
    /\ agent[p].pc \in {"idle", "ready", "skipped"}
    /\ "check" \in JsonFaults \/ \A q \in Agents : agent[q].pc \notin Mends \cup {"writing"}
    /\ IF file.whole
       THEN /\ ensureClaudeJsonOAuthAccount(p)
            /\ backup' = IF file.there THEN file ELSE backup
       ELSE Goto(p, "mend") /\ UNCHANGED backup
    /\ UNCHANGED <<place, file, had, lock, stale>>

\* One that cannot be is emptied, and written with the backup, or with {} where
\* there is none.
openBroken(p) ==
    /\ agent[p].pc = "mend"
    /\ file' = Cut
    /\ agent' = [agent EXCEPT ![p].pc = "mending", ![p].keys = backup.keys, ![p].user = backup.user]
    /\ UNCHANGED <<place, backup, had, lock, stale>>

Written(p) == [there |-> TRUE, whole |-> TRUE, keys |-> agent[p].keys, user |-> agent[p].user]

writeBackup(p) ==
    /\ agent[p].pc = "mending"
    /\ file' = Written(p) /\ ensureClaudeJsonOAuthAccount(p)
    /\ UNCHANGED <<place, backup, had, lock, stale>>

\* Mutant of LockFree: the lock file is opened, not created.
LockOpened == TRUE

\* The lock file lies in the home directory: a container does not see another's.
LockFree == lock = 0 \/ (place = "mount" /\ "apart" \in JsonFaults)

acquireLock(p) ==
    /\ agent[p].pc = "open"
    /\ IF LockFree
       THEN lock' = p /\ stale' = FALSE /\ Goto(p, "read")
       ELSE Goto(p, "stat") /\ UNCHANGED <<lock, stale>>
    /\ UNCHANGED <<place, file, backup, had>>

\* Tries again later, until it has tried often enough: then it goes on without.
Later(p) ==
    IF agent[p].tries + 1 < LOCK_RETRY_MAX
    THEN agent' = [agent EXCEPT ![p].pc = "open", ![p].tries = @ + 1]
    ELSE Goto(p, "skipped")

\* The age is read, and if it is high the file is removed: two calls.
statLock(p) ==
    /\ agent[p].pc = "stat"
    /\ IF lock # 0 /\ stale THEN Goto(p, "steal") ELSE Later(p)
    /\ UNCHANGED <<place, file, backup, had, lock, stale>>

unlinkStale(p) ==
    /\ agent[p].pc = "steal"
    /\ IF lock = 0 THEN Later(p) ELSE Goto(p, "open")
    /\ lock' = 0 /\ stale' = FALSE
    /\ UNCHANGED <<place, file, backup, had>>

\* What cannot be parsed is put aside; the file begins anew.
syncOauthAccount(p) ==
    /\ agent[p].pc = "read"
    /\ agent' = [agent EXCEPT ![p].pc = IF file.there /\ file.whole /\ file.keys THEN "release" ELSE "write",
                              ![p].keys = TRUE,
                              ![p].user = file.there /\ file.whole /\ file.user]
    /\ UNCHANGED <<place, file, backup, had, lock, stale>>

\* A temporary file takes the place of the file ...
renameOver(p) ==
    /\ agent[p].pc = "write" /\ place = "disk"
    /\ file' = Written(p) /\ Goto(p, "release")
    /\ UNCHANGED <<place, backup, had, lock, stale>>

\* ... or, where that is refused, the file itself is emptied and written.
truncateMounted(p) ==
    /\ agent[p].pc = "write" /\ place = "mount"
    /\ file' = Cut /\ Goto(p, "writing")
    /\ UNCHANGED <<place, backup, had, lock, stale>>

writeMounted(p) ==
    /\ agent[p].pc = "writing"
    /\ file' = Written(p) /\ Goto(p, "release")
    /\ UNCHANGED <<place, backup, had, lock, stale>>

\* Whatever lock file is there goes.
releaseLock(p) ==
    /\ agent[p].pc = "release"
    /\ lock' = 0 /\ stale' = FALSE /\ Goto(p, "ready")
    /\ UNCHANGED <<place, file, backup, had>>

-----------------------------------------------------------------------------
\* An agent is killed; its lock file stays, and grows old.

Dies(p) ==
    /\ agent[p].pc \in Mends \cup InLock
    /\ place = "mount" => agent[p].pc \in Mends \/ "mounted_crash" \in JsonFaults
    /\ agent' = [agent EXCEPT ![p] = Away]
    /\ UNCHANGED <<place, file, backup, had, lock, stale>>

Ages ==
    /\ lock # 0 /\ ~stale
    /\ "slow" \in JsonFaults \/ agent[lock].pc \notin InLock
    /\ stale' = TRUE
    /\ UNCHANGED <<place, file, backup, had, lock, agent>>

\* The CLI, or the user, writes the file; it asks for no lock.
CliWrites ==
    /\ file.there /\ file.whole
    /\ "cli" \in JsonFaults \/ \A p \in Agents : agent[p].pc \notin Mends \cup {"write", "writing"}
    /\ file' = [file EXCEPT !.user = TRUE] /\ had' = TRUE
    /\ UNCHANGED <<place, backup, lock, stale, agent>>

Step(p) ==
    \/ ensureClaudeJsonIntegrity(p) \/ openBroken(p) \/ writeBackup(p)
    \/ acquireLock(p) \/ statLock(p) \/ unlinkStale(p) \/ syncOauthAccount(p)
    \/ renameOver(p) \/ truncateMounted(p) \/ writeMounted(p) \/ releaseLock(p)

JsonNext ==
    \/ \E p \in Agents : Step(p) \/ Dies(p)
    \/ Ages \/ CliWrites

JsonSpec == JsonInit /\ [][JsonNext]_jsonVars

-----------------------------------------------------------------------------
JsonTypeOK ==
    /\ place \in {"disk", "mount"} /\ lock \in Agents \cup {0} /\ stale \in BOOLEAN
    /\ file \in JsonFile /\ backup \in JsonFile
    /\ had \in BOOLEAN
    /\ agent \in [Agents -> Agent]

\* What the user has in the file is never lost: not to an agent that reads a
\* file another is writing, nor to two that both think the lock is theirs; and
\* where the file is broken the backup brings it back.
UserDataKept == had /\ file.whole => file.there /\ file.user

\* An agent that has synced the file starts a CLI that finds the keys.
ReadyFindsKeys == \A p \in Agents : agent[p].pc = "ready" => file.there /\ file.whole /\ file.keys

\* Both (claude-json-oauth-sync.ts 18-29, claude-config-validator.ts 8-17).
ClaudeJsonKept == JsonTypeOK /\ UserDataKept /\ ReadyFindsKeys
=============================================================================

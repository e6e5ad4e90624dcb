----------------------------- MODULE CommandFiles -----------------------------
(***************************************************************************)
(* The files with secrets that a chat is given - AWS credentials, keys and *)
(* helper scripts of git, an MCP configuration with the token - and the    *)
(* sweeps that take away what a killed agent has left (aws-profile.ts,     *)
(* git-credential-setup.ts, mcp/config-writer.ts).  Chats run beside each  *)
(* other in one project directory; every file has a name of its own.       *)
(***************************************************************************)
EXTENDS FiniteSets

CONSTANTS
    Chats,
    FileFaults  \* "long": a chat may run for longer than a sweep lets files live

FileKinds == {"aws", "git", "mcp"}
Dir == Chats \X FileKinds

VARIABLES
    up,         \* the agent runs
    base,       \* the MCP configuration of the project is there
    chat,       \* "idle", the kind that is prepared next, or "runs"
    written,    \* files on the disk
    old,        \* of those, older than a sweep lets them live
    changed     \* the configuration has changed and is not applied yet

fileVars == <<up, base, chat, written, old, changed>>

FileInit ==
    /\ up = TRUE /\ base = FALSE /\ changed = TRUE
    /\ chat = [c \in Chats |-> "idle"] /\ written = {} /\ old = {}

-----------------------------------------------------------------------------
\* A chat is prepared, runs and cleans up.  Every chat is a new one: its number
\* is used again when nothing is left of it (bound).

Chat(c) ==
    /\ up /\ chat[c] = "idle" /\ \A k \in FileKinds : <<c, k>> \notin written
    /\ chat' = [chat EXCEPT ![c] = "aws"]
    /\ UNCHANGED <<up, base, written, old, changed>>

\* The file is written, or it cannot be, and the chat goes on without.
PrepareFile(c, kind, next) ==
    /\ chat[c] = kind /\ chat' = [chat EXCEPT ![c] = next]
    /\ written' \in {written, written \cup {<<c, kind>>}}
    /\ UNCHANGED <<up, base, old, changed>>

writeAwsCredentials(c) == PrepareFile(c, "aws", "git")
buildGitCredentialEnv(c) == PrepareFile(c, "git", "mcp")

\* The MCP configuration is that of the project with the chat's own values.
writeCommandMcpConfig(c) ==
    \/ base /\ PrepareFile(c, "mcp", "runs")
    \/ /\ ~base /\ chat[c] = "mcp" /\ chat' = [chat EXCEPT ![c] = "runs"]
       /\ UNCHANGED <<up, base, written, old, changed>>

\* Mutant of OwnFiles: the files have fixed names.
AllFiles(c) == written

OwnFiles(c) == {f \in written : f[1] = c}

CleanupFiles(c) ==
    /\ chat[c] # "idle" /\ chat' = [chat EXCEPT ![c] = "idle"]
    /\ written' = written \ OwnFiles(c) /\ old' = old \cap written'
    /\ UNCHANGED <<up, base, changed>>

-----------------------------------------------------------------------------
\* Time, the agent and its configuration.

GetsOld(f) ==
    /\ f \in written \ old /\ old' = old \cup {f}
    /\ "long" \in FileFaults \/ chat[f[1]] = "idle"
    /\ UNCHANGED <<up, base, chat, written, changed>>

\* A restart begins with a hash it does not know: it applies the configuration.
Crash ==
    /\ up /\ up' = FALSE /\ chat' = [c \in Chats |-> "idle"]
    /\ UNCHANGED <<base, written, old, changed>>

Start ==
    /\ ~up /\ up' = TRUE /\ changed' = TRUE
    /\ UNCHANGED <<base, chat, written, old>>

ConfigChanges ==
    /\ ~changed /\ changed' = TRUE
    /\ UNCHANGED <<up, base, chat, written, old>>

\* sweepStaleEntries: by the name and the age of the file.
Swept(kinds) == {f \in old : f[2] \in kinds}
Sweep(kinds) == written' = written \ Swept(kinds) /\ old' = old \ Swept(kinds)

applyProjectConfig ==
    /\ up /\ changed /\ changed' = FALSE /\ base' = TRUE
    /\ Sweep({"aws", "mcp"})
    /\ UNCHANGED <<up, chat>>

\* Mutant of HeartbeatSweeps: only a change of the configuration is an occasion.
NoSweep == {}

HeartbeatSweeps == {"aws"}

\* Whatever happens to the configuration, a heartbeat sweeps, but not all kinds.
heartbeat ==
    /\ up /\ Swept(HeartbeatSweeps) # {} /\ Sweep(HeartbeatSweeps)
    /\ UNCHANGED <<up, base, chat, changed>>

FileNext ==
    \/ \E c \in Chats : \/ Chat(c) \/ CleanupFiles(c)
                        \/ writeAwsCredentials(c) \/ buildGitCredentialEnv(c) \/ writeCommandMcpConfig(c)
    \/ \E f \in Dir : GetsOld(f)
    \/ Crash \/ Start \/ ConfigChanges \/ applyProjectConfig \/ heartbeat

FileSpec == FileInit /\ [][FileNext]_fileVars

-----------------------------------------------------------------------------
FileTypeOK ==
    /\ written \subseteq Dir /\ old \subseteq written
    /\ chat \in [Chats -> FileKinds \cup {"idle", "runs"}]
    /\ up \in BOOLEAN /\ base \in BOOLEAN /\ changed \in BOOLEAN

Orphan(c, k) == <<c, k>> \in written /\ chat[c] = "idle"

\* AWS credentials that a killed agent has left do not stay (agent-transport.ts
\* 193-198), even if the configuration never changes again.
OrphansGo == \A c \in Chats : Orphan(c, "aws") ~> <<c, "aws">> \notin written

\* Nobody but the chat takes away the files of a chat that runs: neither the
\* sweep nor the end of another chat.
FilesStay ==
    [][\A f \in written : chat[f[1]] # "idle" /\ chat'[f[1]] # "idle" => f \in written']_fileVars

\* A chat has its files for as long as it runs.
FilesKept == []FileTypeOK /\ FilesStay
=============================================================================

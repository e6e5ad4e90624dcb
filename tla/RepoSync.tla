------------------------------- MODULE RepoSync -------------------------------
(***************************************************************************)
(* The clone of a repository of the project (repo-sync.ts).  A setup syncs *)
(* it to the configured branch, the sync_repository tool to a branch it    *)
(* names, and chats work in its tree.  A sync asks for the credentials,    *)
(* takes over a directory of the old name, trusts the directory, puts the  *)
(* key in a temporary file, and runs git: clone and checkout, or fetch,    *)
(* checkout - of a branch that may have to be made - and reset.            *)
(***************************************************************************)
EXTENDS Naturals, FiniteSets

CONSTANTS
    Branches,
    RepoSyncs,      \* syncs that may be under way (bound)
    MaxPushed,      \* versions of a branch at the server (bound)
    MaxGitFailures, \* requests and git commands that fail (bound)
    RepoFaults      \* "branches": syncs to different branches run beside each other;
                    \* "dirty": a sync to another branch finds changes of a chat

VARIABLES
    pushed,     \* version of each branch at the server
    dir,        \* "none", "old" (the directory of the old name), or "new"
    origin,     \* version of each branch the clone knows
    locals,     \* the local branches, with the version each is at
    head,       \* the branch that is checked out
    dirty,      \* the tree has changes nobody has committed
    job,        \* the syncs: "done" after one that has succeeded, "idle" after one that has not
    keys,       \* temporary key files
    gitFailures

repoVars == <<pushed, dir, origin, locals, head, dirty, job, keys, gitFailures>>
clone == <<dir, origin, locals, head, dirty>>

NoJob == [pc |-> "idle", how |-> "fetch", branch |-> CHOOSE b \in Branches : TRUE, since |-> 0]

RepoInit ==
    /\ pushed = [b \in Branches |-> 1]
    /\ dir \in {"none", "old"}
    /\ origin = [b \in Branches |-> 1] /\ locals = <<>> /\ head \in Branches /\ dirty = FALSE
    /\ dir = "none" => head = CHOOSE b \in Branches : TRUE
    /\ job = [s \in RepoSyncs |-> NoJob] /\ keys = {} /\ gitFailures = 0

NotSyncing(s) == job[s].pc \in {"idle", "done"}
PutBranch(f, b, v) == [c \in DOMAIN f \cup {b} |-> IF c = b THEN v ELSE f[c]]

-----------------------------------------------------------------------------
\* The server, and a chat that works in the tree between the syncs.

Push(b) ==
    /\ pushed[b] < MaxPushed /\ pushed' = [pushed EXCEPT ![b] = @ + 1]
    /\ UNCHANGED <<clone, job, keys, gitFailures>>

ChatEdits ==
    /\ dir = "new" /\ ~dirty /\ dirty' = TRUE
    /\ \A s \in RepoSyncs : NotSyncing(s)
    /\ UNCHANGED <<pushed, dir, origin, locals, head, job, keys, gitFailures>>

ChatCommits ==
    /\ dirty /\ dirty' = FALSE
    /\ \A s \in RepoSyncs : NotSyncing(s)
    /\ UNCHANGED <<pushed, dir, origin, locals, head, job, keys, gitFailures>>

-----------------------------------------------------------------------------
\* A sync.

AtStep(s, pc) == job[s].pc = pc
GotoStep(s, pc) == job' = [job EXCEPT ![s].pc = pc]
EndsEarly(s, pc) == job' = [job EXCEPT ![s] = [NoJob EXCEPT !.pc = pc]]
GitFails == gitFailures < MaxGitFailures /\ gitFailures' = gitFailures + 1
GitWorks == gitFailures' = gitFailures

\* syncRepositories with the configured branch, syncRepositoryByCode with any.
\* The credentials come first; then a directory of the old name is taken over,
\* and what is there decides between a clone and a pull.
syncSingleRepository(s, b) ==
    /\ NotSyncing(s)
    /\ "branches" \in RepoFaults \/ \A t \in RepoSyncs : NotSyncing(t) \/ job[t].branch = b
    /\ "dirty" \in RepoFaults \/ ~dirty \/ b = head
    /\ \/ /\ GitWorks
          /\ job' = [job EXCEPT ![s] = [pc |-> "trust", branch |-> b, since |-> pushed[b],
                                       how |-> IF dir = "none" THEN "clone" ELSE "fetch"]]
          /\ dir' = IF dir = "old" THEN "new" ELSE dir
       \/ GitFails /\ EndsEarly(s, "idle") /\ UNCHANGED dir
    /\ UNCHANGED <<pushed, origin, locals, head, dirty, keys>>

\* Without an entry in safe.directory git refuses a directory of another user.
registerSafeDirectory(s) ==
    /\ AtStep(s, "trust")
    /\ \/ GitWorks /\ GotoStep(s, "key")
       \/ GitFails /\ EndsEarly(s, "idle")
    /\ UNCHANGED <<pushed, clone, keys>>

buildAuthEnv(s) ==
    /\ AtStep(s, "key")
    /\ keys' = keys \cup {s}
    /\ GotoStep(s, job[s].how)
    /\ UNCHANGED <<pushed, clone, gitFailures>>

\* The key file goes, however it ends.
EndSync(s, pc) == keys' = keys \ {s} /\ EndsEarly(s, pc)

\* A directory that another sync has made meanwhile is not cloned into.
cloneRepository(s) ==
    /\ AtStep(s, "clone")
    /\ \/ /\ dir = "none" /\ GitWorks
          /\ dir' = "new" /\ origin' = pushed /\ UNCHANGED <<locals, head, dirty, keys>>
          /\ GotoStep(s, "first")
       \/ /\ dir = "new" /\ GitWorks /\ UNCHANGED clone /\ EndSync(s, "idle")
       \/ /\ GitFails /\ UNCHANGED clone /\ EndSync(s, "idle")
    /\ UNCHANGED <<pushed>>

\* git checkout: an existing local branch as it is, or a new one at the
\* branch of the server; not over changes to the tree.
CheckedOut(b) ==
    /\ head' = b /\ locals' = IF b \in DOMAIN locals THEN locals ELSE PutBranch(locals, b, origin[b])
    /\ UNCHANGED <<dir, origin, dirty>>

Refused(b) == dirty /\ b # head

firstCheckout(s) ==
    /\ AtStep(s, "first")
    /\ \/ ~Refused(job[s].branch) /\ GitWorks /\ CheckedOut(job[s].branch) /\ EndSync(s, "done")
       \/ GitFails /\ UNCHANGED clone /\ EndSync(s, "idle")
    /\ UNCHANGED <<pushed>>

fetchAll(s) ==
    /\ AtStep(s, "fetch")
    /\ \/ GitWorks /\ origin' = pushed /\ GotoStep(s, "checkout") /\ UNCHANGED <<dir, locals, head, dirty, keys>>
       \/ GitFails /\ UNCHANGED clone /\ EndSync(s, "idle")
    /\ UNCHANGED <<pushed>>

\* If the checkout is refused, the branch is made - which fails if it is there.
checkout(s) ==
    /\ AtStep(s, "checkout")
    /\ LET b == job[s].branch IN
       \/ ~Refused(b) /\ GitWorks /\ CheckedOut(b) /\ GotoStep(s, "reset") /\ UNCHANGED keys
       \/ ((Refused(b) /\ GitWorks) \/ GitFails) /\ UNCHANGED clone /\ EndSync(s, "idle")
    /\ UNCHANGED <<pushed>>

\* Mutant of ResetTo: the branch is merged by hand, the tree stays.
NoReset(s) == UNCHANGED clone

\* Whatever branch is checked out is moved to the branch of the sync.
ResetTo(s) ==
    /\ locals' = PutBranch(locals, head, origin[job[s].branch]) /\ dirty' = FALSE
    /\ UNCHANGED <<dir, origin, head>>

resetHard(s) ==
    /\ AtStep(s, "reset")
    /\ \/ GitWorks /\ ResetTo(s) /\ EndSync(s, "done")
       \/ GitFails /\ UNCHANGED clone /\ EndSync(s, "idle")
    /\ UNCHANGED <<pushed>>

\* The agent dies in a sync.
KilledInSync ==
    /\ \E s \in RepoSyncs : ~NotSyncing(s)
    /\ job' = [s \in RepoSyncs |-> NoJob]
    /\ UNCHANGED <<pushed, clone, keys, gitFailures>>

Git(s) ==
    \/ registerSafeDirectory(s) \/ buildAuthEnv(s) \/ cloneRepository(s) \/ firstCheckout(s)
    \/ fetchAll(s) \/ checkout(s) \/ resetHard(s)

RepoNext ==
    \/ \E b \in Branches : Push(b) \/ \E s \in RepoSyncs : syncSingleRepository(s, b)
    \/ \E s \in RepoSyncs : Git(s)
    \/ ChatEdits \/ ChatCommits \/ KilledInSync

RepoSpec == RepoInit /\ [][RepoNext]_repoVars

-----------------------------------------------------------------------------
Job == [pc : {"idle", "done", "trust", "key", "clone", "first", "fetch", "checkout", "reset"},
        how : {"clone", "fetch"}, branch : Branches, since : Nat]

RepoTypeOK ==
    /\ pushed \in [Branches -> Nat] /\ origin \in [Branches -> Nat]
    /\ DOMAIN locals \subseteq Branches /\ locals \in [DOMAIN locals -> Nat]
    /\ dir \in {"none", "old", "new"} /\ head \in Branches /\ dirty \in BOOLEAN
    /\ job \in [RepoSyncs -> Job] /\ keys \subseteq RepoSyncs /\ gitFailures \in Nat

\* A sync that reports success leaves the tree of its branch, and no older
\* than the branch was when the sync began (repo-sync.ts, syncSingleRepository).
Succeeds(s) == ~NotSyncing(s) /\ job'[s].pc = "done"
TreeOfBranch ==
    [][\A s \in RepoSyncs : Succeeds(s) => head' = job[s].branch /\ locals'[head'] >= job[s].since]_repoVars

\* What is reported of a tree is so, of a clone that is well-formed throughout.
TreeAsReported == []RepoTypeOK /\ TreeOfBranch
=============================================================================

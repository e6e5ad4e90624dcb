----------------------------- MODULE MCWorkerPool -----------------------------
(***************************************************************************)
(* Instances of WorkerPool for TLC, and the statements of the repository   *)
(* that the pool does not live up to.                                      *)
(***************************************************************************)
EXTENDS WorkerPool, TLC

CONSTANTS p1, p2, c1, c2, c3, c4

ChildSymmetry == Permutations(Child)

-----------------------------------------------------------------------------
(* Statements of the repository that do not hold.                          *)

\* README: the runner "hot-adds/removes projects without restart"; the test of
\* stopProject expects no fork after it. Nothing is forked for a project that
\* config.json does not have.
RemovedStaysGone ==
  [][\A p \in Project : procs'[p] # None /\ procs'[p] # procs[p] => known'[p] # 0]_vars

\* README: "the agent hot-reloads" a new token. One that comes right behind "start"
\* finds no agent in the worker, and is dropped.
TokenReaches ==
  \A p \in Project :
    known[p] # 0 ~> \/ Unserved(p) \/ HasToken(p) \/ Agentless(p)
                    \/ \A c \in Child : worker[c].life # "unused"
=============================================================================

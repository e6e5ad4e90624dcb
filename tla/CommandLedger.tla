--------------------------- MODULE CommandLedger ---------------------------
(***************************************************************************)
(* What the delivery protocol promises about one agent's commands, told    *)
(* from the API server's side and without processes, disks or messages:    *)
(* a command is assigned to one replica at a time, every assignment gets a *)
(* fresh generation, and the command is settled once, by an execution that *)
(* finished under the assignment in force at that moment, by an            *)
(* unclaimed failure report, or by the server's own timeout.               *)
(***************************************************************************)
EXTENDS Naturals

CONSTANTS Command,   \* the commands of the agent
          Inst,      \* replica instance ids, over all restarts
          NoInst     \* "not assigned"

VARIABLES owner,     \* owner[c]: the instance the command is assigned to
          gen,       \* gen[c]: generation of the latest assignment, 0 before
          settled,   \* settled[c]: the accepted result, {} or a singleton
          finished   \* executions that ran to their end

vars == <<owner, gen, settled, finished>>

Init == /\ owner = [c \in Command |-> NoInst]
        /\ gen = [c \in Command |-> 0]
        /\ settled = [c \in Command |-> {}]
        /\ finished = {}

Assign(c, i) ==
  /\ settled[c] = {}
  /\ owner[c] = NoInst
  /\ owner' = [owner EXCEPT ![c] = i]
  /\ gen' = [gen EXCEPT ![c] = @ + 1]
  /\ UNCHANGED <<settled, finished>>

Withdraw(c) ==
  /\ settled[c] = {}
  /\ owner' = [owner EXCEPT ![c] = NoInst]
  /\ UNCHANGED <<gen, settled, finished>>

\* Only an assignment that was really handed out can finish, even if it has
\* been withdrawn in the meantime.
Complete(c, i, g) ==
  /\ g = gen[c] => owner[c] \in {i, NoInst}
  /\ finished' = finished \union {[cmd |-> c, inst |-> i, gen |-> g]}
  /\ UNCHANGED <<owner, gen, settled>>

Settle(c, r) ==
  /\ settled[c] = {}
  /\ settled' = [settled EXCEPT ![c] = {r}]
  /\ UNCHANGED <<owner, gen, finished>>

AcceptExecution(c) ==
  \E e \in finished :
    /\ e.cmd = c
    /\ e.inst = owner[c]
    /\ e.gen = gen[c]
    /\ Settle(c, [kind |-> "executed", inst |-> e.inst, gen |-> e.gen])

\* A replica that never obtained the command may report it failed, but only
\* while nobody holds it.
AcceptFetchError(c, i) ==
  /\ owner[c] = NoInst
  /\ Settle(c, [kind |-> "fetchError", inst |-> i, gen |-> 0])

TimeOut(c) == Settle(c, [kind |-> "timeout", inst |-> NoInst, gen |-> 0])

Next ==
  \E c \in Command :
       \/ Withdraw(c)
       \/ AcceptExecution(c)
       \/ TimeOut(c)
       \/ \E i \in Inst :
            \/ Assign(c, i) \/ AcceptFetchError(c, i)
            \/ \E g \in 1 .. gen[c] : Complete(c, i, g)

Spec == Init /\ [][Next]_vars
=============================================================================

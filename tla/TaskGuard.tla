------------------------------ MODULE TaskGuard ------------------------------
(***************************************************************************)
(* What a recipe of the server setup may hold: the check of its tasks      *)
(* before they run (ansible-task-guard.ts) and the walk that finds the     *)
(* shared files they distribute (shared-file-staging.ts).                  *)
(*                                                                         *)
(* A task is a record of what these two look at.  The lists of names are   *)
(* classes: "base" stands for a module both routes allow, "resident" for   *)
(* one the resident agent allows besides, "_short" for a name without its  *)
(* collection.  A body is a list of tasks, or something else in its place. *)
(***************************************************************************)
EXTENDS Sequences

Mode == {"resident", "ecs"}

\* The classes of keys a task may name as its module.
Module == {"base", "base_short", "resident", "resident_short",
           "include_role", "include_role_short", "copy_src", "unknown", "none"}

\* Roles the package brings: the one that distributes files, the one that
\* may deploy the agent which runs it, the rest.
Role == {"shared_file", "agent_k8s", "bundled", "foreign", "none"}

\* shared_file_src: absent, a path, one with a slash at its end, a template,
\* or a path that leaves the directory.
Source == {"none", "dir", "dir/", "dir/a", "template", "outside"}

Task == [module : Module, role : Role, src : Source,
         forbidden : BOOLEAN,  \* a key that moves the task or its user
         reserved : BOOLEAN,   \* a variable with the name of a magic one
         lookup : BOOLEAN, secret : BOOLEAN, no_log : BOOLEAN]

\* A task with nothing remarkable about it.
PlainTask == [module |-> "base_short", role |-> "none", src |-> "none",
              forbidden |-> FALSE, reserved |-> FALSE, lookup |-> FALSE,
              secret |-> FALSE, no_log |-> FALSE]

FORBIDDEN_TASK_KEYS(t) == t.forbidden

INCLUDE_ROLE_ALLOWED_ROLES == {"shared_file", "agent_k8s", "bundled"}

\* A short name stands for the builtin module; some only for the resident agent.
normalizeModuleKey(key, mode) ==
    CASE key = "base_short" -> "base"
      [] key = "include_role_short" -> "include_role"
      [] key = "resident_short" /\ mode = "resident" -> "resident"
      [] OTHER -> key

moduleAllowlistFor(mode) ==
    {"base"} \cup (IF mode = "resident" THEN {"resident"} ELSE {})

IncludesRole(t, mode) == normalizeModuleKey(t.module, mode) = "include_role"

\* The role is one of the package's.
validateIncludeRole(t) == t.role \in INCLUDE_ROLE_ALLOWED_ROLES

\* The variables a task gives to a role have no reserved name.
validateIncludeRoleTaskVars(t) == ~t.reserved

\* A relative path that is known before the playbook runs.
isValidSharedFileSrc(src) == src \notin {"none", "template", "outside"}

validateSharedFileRoleVars(t) == t.role = "shared_file" => isValidSharedFileSrc(t.src)

\* set_fact and register do not take a reserved name either.
NamesAllowed(t) == ~t.reserved

\* Nothing looks a value up on the machine that runs the playbook.
containsLookupPluginReference(t) == t.lookup

\* One task: its keys, its module, its references, its names.
AcceptsTask(t, mode) ==
    /\ ~FORBIDDEN_TASK_KEYS(t)
    /\ t.module # "none"
    /\ IF IncludesRole(t, mode)
       THEN /\ validateIncludeRole(t)
            /\ validateIncludeRoleTaskVars(t)
            /\ validateSharedFileRoleVars(t)
       ELSE normalizeModuleKey(t.module, mode) \in moduleAllowlistFor(mode)
    /\ ~containsLookupPluginReference(t)
    /\ NamesAllowed(t)

\* What the text of a recipe is; only a list has tasks.
Shape == {"tasks", "unparsable", "not_a_list", "play"}
Body == [shape : Shape, tasks : Seq(Task)]

validateAnsibleTasks(body, mode) ==
    /\ body.shape = "tasks" /\ body.tasks # <<>>
    /\ \A i \in DOMAIN body.tasks : AcceptsTask(body.tasks[i], mode)

\* A task with a secret in an expression is kept out of the log.
referencesSecretVar(t) == t.secret

normalizedTasks(body) ==
    [i \in DOMAIN body.tasks |->
        [body.tasks[i] EXCEPT !.no_log = @ \/ referencesSecretVar(body.tasks[i])]]

-----------------------------------------------------------------------------
\* shared-file-staging.ts: what is to be fetched before the playbook runs.

\* Without the blanks and the slashes around it.
normalizeSource(src) == IF src = "dir/" THEN "dir" ELSE src

\* Mutant of roleNameOf: the qualified key is forgotten.
roleNameOfShort(t) == IF t.module = "include_role_short" THEN t.role ELSE "none"

\* The name of the role a task includes, under either key.
roleNameOf(t) ==
    IF t.module \in {"include_role", "include_role_short"} THEN t.role ELSE "none"

\* Each source once.  They are listed one after another; in which order makes no
\* difference to what is there in the end.
collectSharedFileSources(tasks) ==
    {normalizeSource(tasks[i].src) :
        i \in {j \in DOMAIN tasks : roleNameOf(tasks[j]) = "shared_file" /\ tasks[j].src # "none"}}

\* The files the project shares, by the source that names them.
collectFileEntries(src) ==
    CASE src = "dir" -> {"dir/a", "dir/b"}
      [] src = "dir/a" -> {"dir/a"}
      [] OTHER -> {}
=============================================================================

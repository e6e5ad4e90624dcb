----------------------------- MODULE ChatExecution -----------------------------
(***************************************************************************)
(* One chat command: the modes it may be answered by, the attempts of a    *)
(* mode, the CLI (or the stream of the Anthropic API) that answers, the    *)
(* timers and the cancellation that stop it, the files it is given, and    *)
(* the chunks by which the answer goes to the web client.                  *)
(*                                                                         *)
(* chat-executor.ts, claude-code-runner.ts, codex-runner.ts,               *)
(* api-chat-executor.ts, shared-chat-utils.ts, cli-process-kill.ts and     *)
(* process-manager.ts. Texts, prompts, arguments and the meaning of tools  *)
(* are left out; of an attempt that is given up for another mode, also     *)
(* what its sender has still to send.                                      *)
(***************************************************************************)
EXTENDS ChatModes, Naturals

CONSTANTS
  Plans,    \* the lists of modes that Candidates() may give
  Kind,     \* the files that the project and the message call for, see File
  MaxOut,   \* bound: what the CLI prints in an attempt
  Faults    \* what else may go wrong, see FaultKind

File == {"aws", "git", "mcp", "download"}

\* deaf: a CLI does not heed SIGTERM.
FaultKind == {"deaf"}

ASSUME ChatAssumption ==
  /\ Plans \subseteq Seq(Mode) \ {<<>>}
  /\ Kind \subseteq File
  /\ MaxOut \in Nat
  /\ Faults \subseteq FaultKind

CHAT_MAX_ATTEMPTS == 2

VARIABLES
  modes,      \* candidates from the present one on
  attempt,
  at,         \* where the command is, see Place
  child,      \* the CLI: "up", "term" after SIGTERM, "kill" after SIGKILL
  force,      \* scheduleForceKill() is pending
  timer,      \* ActivityTimeout: "short" CHAT_TIMEOUT, "long" in a pause
  tools,      \* tools that the CLI waits for
  left,       \* what the CLI may still print in this attempt
  reg,        \* ProcessManager.running has the command
  cancelled,  \* a chat_cancel found the command
  files,      \* what the command has left on the disk
  out,        \* the chunk sender of the attempt, see Sender
  why,        \* how the last attempt ended
  shown,      \* the last of the done and error chunks to reach the server
  result      \* what executeChatCommand() returned

process == <<child, force, timer, tools, left, reg>>
vars == <<modes, attempt, at, process, cancelled, files, out, why, shown, result>>

\* The awaits of executeCliChatOnce(): for the credentials of AWS and of Git, the
\* attachments, the CLI, the last chunk; and the pause before an attempt.
Place == {"aws", "git", "mcp", "download", "run", "tail", "pause", "end"}

\* buf: text waits for the flush timer; text: a POST of text is under way, and
\* queue waits for it (flushChain); other: POSTs of tool chunks under way; last:
\* the done or error chunk.
Sender == [buf: BOOLEAN, text: BOOLEAN, queue: Seq({"delta", "other", "last"}), other: Nat,
           last: {"none", "done", "error", "landed", "lost"}, kind: {"none", "done", "error"}]
NewSender == [buf |-> FALSE, text |-> FALSE, queue |-> <<>>, other |-> 0, last |-> "none", kind |-> "none"]

Init ==
  /\ modes \in Plans
  /\ attempt = 1 /\ at = "aws"
  /\ child = "none" /\ force = FALSE /\ timer = "off" /\ tools = 0 /\ left = 0 /\ reg = FALSE
  /\ cancelled = FALSE
  /\ files = {}
  /\ out = NewSender
  /\ why = "none" /\ shown = "none" /\ result = "none"

Now == Head(modes)
HasFallback == Len(modes) > 1

-----------------------------------------------------------------------------
(* createChunkSender().                                                    *)

\* What waits is sent in order, until a text is under way again.
Pumped(o) ==
  LET texts == {i \in DOMAIN o.queue : o.queue[i] = "delta"}
      n == IF texts = {} THEN Len(o.queue) ELSE CHOOSE i \in texts : \A j \in texts : i <= j
      sent == SubSeq(o.queue, 1, n)
  IN  IF o.text THEN o
      ELSE [o EXCEPT !.text = texts # {},
                     !.queue = SubSeq(o.queue, n + 1, Len(o.queue)),
                     !.other = @ + Cardinality({i \in 1 .. n : sent[i] = "other"}),
                     !.last = IF \E i \in 1 .. n : sent[i] = "last" THEN o.kind ELSE @]

\* flushDelta().
Flushed(o) ==
  IF o.buf THEN Pumped([o EXCEPT !.buf = FALSE, !.queue = Append(@, "delta")]) ELSE o

\* Mutant of Put: the text that waits is not sent first.
PutAtOnce(o, chunk) == Pumped([o EXCEPT !.queue = Append(@, chunk)])

\* sendChunk() of text, and of anything else.
Text(o) == [o EXCEPT !.buf = TRUE]
Put(o, chunk) == Pumped([Flushed(o) EXCEPT !.queue = Append(@, chunk)])

\* sendDoneChunk(), and the error chunk of handleChatError().
Last(o, kind) == Put([o EXCEPT !.kind = kind], "last")

\* The flush timer has run out, or the buffer is full.
FlushTimer ==
  /\ out.buf
  /\ out' = Flushed(out)
  /\ UNCHANGED <<modes, attempt, at, process, cancelled, files, why, shown, result>>

\* A POST of text has ended, in whatever way.
TextSent ==
  /\ out.text
  /\ out' = Pumped([out EXCEPT !.text = FALSE])
  /\ UNCHANGED <<modes, attempt, at, process, cancelled, files, why, shown, result>>

OtherSent ==
  /\ out.other > 0
  /\ out' = [out EXCEPT !.other = @ - 1]
  /\ UNCHANGED <<modes, attempt, at, process, cancelled, files, why, shown, result>>

\* The POST of the done or error chunk has ended, after its retries; a failure is
\* kept in terminalDeliveryFailed. What has failed may have reached the server all
\* the same, see Untold.
LastSent ==
  /\ out.last \in {"done", "error"}
  /\ \E ok \in BOOLEAN :
       /\ out' = [out EXCEPT !.last = IF ok THEN "landed" ELSE "lost"]
       /\ shown' = IF ok THEN out.kind ELSE shown
  /\ UNCHANGED <<modes, attempt, at, process, cancelled, files, why, result>>

\* The chunk has reached the server although its POST failed: the reply was lost,
\* or the request was only late.
Untold ==
  /\ out.last = "lost" /\ shown # out.kind
  /\ shown' = out.kind
  /\ UNCHANGED <<modes, attempt, at, process, cancelled, files, out, why, result>>

-----------------------------------------------------------------------------
(* Ends of an attempt, and of the command.                                 *)

Stopped ==
  /\ child' = "none" /\ force' = FALSE /\ timer' = "off"
  /\ tools' = 0 /\ left' = 0 /\ reg' = FALSE

\* The next attempt begins; the processes and files of the last one are gone.
Begin == at' = "aws" /\ out' = NewSender

\* Mutant of Verdict: a chat whose done chunk was lost is tried again.
VerdictRetries(o) ==
  IF o.last = "lost" /\ Now # "api" /\ attempt < CHAT_MAX_ATTEMPTS THEN "again"
  ELSE IF o.last = "lost" THEN "undelivered"
  ELSE IF why = "ok" THEN "ok"
  ELSE IF why \in {"fail", "refused"} /\ Now # "api" /\ attempt < CHAT_MAX_ATTEMPTS THEN "again"
  ELSE "failed"

\* Mutant of Verdict: the delivery of the done chunk is not asked for.
VerdictTrusts(o) ==
  IF why = "ok" THEN "ok"
  ELSE IF o.last = "lost" THEN "undelivered"
  ELSE IF why \in {"fail", "refused"} /\ Now # "api" /\ attempt < CHAT_MAX_ATTEMPTS THEN "again"
  ELSE "failed"

\* What executeCliChat() makes of an attempt: only a failure that is none of a
\* missing CLI, a used-up account, a refused token or a lost last chunk is tried
\* again, and the API never is.
Verdict(o) ==
  IF o.last = "lost" THEN "undelivered"
  ELSE IF why = "ok" THEN "ok"
  ELSE IF why \in {"fail", "refused"} /\ Now # "api" /\ attempt < CHAT_MAX_ATTEMPTS THEN "again"
  ELSE "failed"

\* The attempt is over: done was sent, or the error, or there was no message.
Over ==
  /\ at = "tail"
  /\ out.last \in {"landed", "lost"} \/ why = "refused"
  /\ at' = IF Verdict(out) = "again" THEN "pause" ELSE "end"
  /\ result' = IF Verdict(out) = "again" THEN result ELSE Verdict(out)
  /\ files' = {}
  /\ UNCHANGED <<modes, attempt, process, cancelled, out, why, shown>>

\* CHAT_RETRY_DELAY_MS have passed.
Retry ==
  /\ at = "pause"
  /\ attempt' = attempt + 1
  /\ Begin
  /\ UNCHANGED <<modes, process, cancelled, files, why, shown, result>>

\* Mutant of Failed: no cleanup.
FailedLitters(o, outcome) ==
  /\ at' = "tail" /\ why' = outcome /\ out' = Last(o, "error")
  /\ UNCHANGED <<files, modes, attempt>>

\* An error that the user is told of.
Failed(o, outcome) ==
  /\ at' = "tail" /\ why' = outcome /\ out' = Last(o, "error") /\ files' = {}
  /\ UNCHANGED <<modes, attempt>>

\* The CLI is not available and another mode is left: no error is shown.
Suppressed(outcome) == outcome = "unavailable" /\ HasFallback

-----------------------------------------------------------------------------
(* Preparation.                                                            *)

\* There is no message, or no API key: an error without an error chunk.
Refuse ==
  /\ at = "aws" /\ (why \in {"none", "refused"} \/ Now = "api")
  /\ at' = "tail" /\ why' = "refused"
  /\ UNCHANGED <<modes, attempt, process, cancelled, files, out, shown, result>>

Prepares(place, next, kind) ==
  /\ at = place /\ why # "refused" /\ at' = next
  /\ files' \in {files} \cup {files \cup ({kind} \cap Kind)}
  /\ UNCHANGED <<modes, attempt, process, cancelled, why, shown, result>>

\* buildAwsProfileCredentials(): a file of its own for the command, or a notice
\* to the user.
AwsCredentials ==
  /\ Now # "api"
  /\ Prepares("aws", "git", "aws")
  /\ out' \in {out} \cup {Text(out) : k \in {"aws"} \cap Kind}

\* buildGitCredentialEnv(): whatever fails leaves Git without credentials.
GitCredentials == Prepares("git", "mcp", "git") /\ UNCHANGED out

\* writeCommandMcpConfig(): if it fails, the configuration of the project is
\* used.
McpConfig == Prepares("mcp", "download", "mcp") /\ UNCHANGED out

\* runClaudeCode() and runCodex(); or the request to the API.
Spawned == child' = "up" /\ timer' = "short" /\ left' = MaxOut /\ UNCHANGED <<force, tools>>

Started ==
  /\ Spawned
  /\ at' = "run" /\ reg' = TRUE
  /\ UNCHANGED <<modes, attempt, cancelled, why, shown, result>>

\* downloadChatFiles(), and the start of the CLI.
Attachments ==
  /\ at = "download"
  /\ \/ /\ files' \in {files} \cup {files \cup ({"download"} \cap Kind)}
        /\ Started /\ UNCHANGED out
     \/ Failed(out, "fail") /\ UNCHANGED <<process, cancelled, shown, result>>

\* executeApiChatCommand() awaits nothing before its request.
ApiStart ==
  /\ at = "aws" /\ Now = "api" /\ why # "refused"
  /\ Started /\ UNCHANGED <<files, out>>

-----------------------------------------------------------------------------
(* The answer.                                                             *)

\* Whatever the CLI prints, or the API sends, resets the activity timer.
Prints ==
  /\ child # "none" /\ left > 0
  /\ left' = left - 1
  /\ UNCHANGED <<modes, attempt, at, child, force, reg, cancelled, files, why, shown, result>>

Says ==
  /\ Prints
  /\ timer' = "short" /\ out' = Text(out)
  /\ UNCHANGED tools

\* What is new in the text of an assistant message; a delta or the whole text of
\* codex; a text delta of the API, or the notice that tools are not supported.
ClaudeText == Now = "claude" /\ Says
CodexText == Now = "codex" /\ Says
ApiText == Now = "api" /\ Says

\* A line that is of no interest, a tool_reference among them.
PrintsOther ==
  /\ Prints
  /\ timer' = "short"
  /\ UNCHANGED <<tools, out>>

\* Mutant of CallsTool: a pause that never ends.
CallsToolForever ==
  /\ Prints /\ Now = "claude"
  /\ timer' = "off" /\ tools' = tools + 1
  /\ out' = Put(out, "other")

\* A tool call of Claude Code pauses the timer, for CHAT_TOOL_EXECUTION_TIMEOUT
\* at most.
CallsTool ==
  /\ Prints /\ Now = "claude"
  /\ timer' = "long" /\ tools' = tools + 1
  /\ out' = Put(out, "other")

\* A tool result ends the pause, also when another tool still runs.
ToolResult ==
  /\ Prints /\ tools > 0
  /\ timer' = "short" /\ tools' = tools - 1
  /\ out' = Put(out, "other")

\* runToolTurn(): a tool that the agent runs itself for the API, in a worker of
\* which it waits for at most API_TOOL_WORKER_TIMEOUT_MS.
ApiToolTurn ==
  /\ Prints /\ Now = "api"
  /\ timer' = "short" /\ out' = Put(out, "other")
  /\ UNCHANGED tools

-----------------------------------------------------------------------------
(* Stopping the answer.                                                    *)

\* killWithEscalation(); the stream of the API is aborted.
Killed == child' = (IF child = "up" THEN "term" ELSE child) /\ force' = TRUE

\* The activity timer runs out.
Timeout ==
  /\ child # "none" /\ timer # "off"
  /\ timer' = "off"
  /\ Killed
  /\ UNCHANGED <<modes, attempt, at, tools, left, reg, cancelled, files, out, why, shown, result>>

\* chat_cancel of a command that is registered. One of any other command, or
\* one that comes too early, finds nothing and does nothing.
Cancel ==
  /\ reg
  /\ reg' = FALSE /\ cancelled' = TRUE
  /\ IF child = "up" THEN Killed ELSE UNCHANGED <<child, force>>
  /\ UNCHANGED <<modes, attempt, at, timer, tools, left, files, out, why, shown, result>>

\* scheduleForceKill(): child.killed is true once a signal has been sent.
ForceKill ==
  /\ force
  /\ force' = FALSE
  /\ child' = IF child = "up" THEN "kill" ELSE child
  /\ UNCHANGED <<modes, attempt, at, timer, tools, left, reg, cancelled, files, out, why, shown, result>>

\* An attempt ends; rest is what the sender has then.
Ended(outcome, rest) ==
  /\ child # "none"
  /\ Stopped
  /\ UNCHANGED <<cancelled, shown, result>>
  /\ \/ /\ outcome = "ok"
        /\ at' = "tail" /\ why' = "ok" /\ out' = Last(rest, "done")
        /\ UNCHANGED <<modes, attempt, files>>
     \/ /\ Suppressed(outcome)
        /\ why' = "unavailable" /\ files' = {}
        /\ modes' = Tail(modes) /\ attempt' = 1 /\ Begin
     \/ /\ outcome # "ok" /\ ~Suppressed(outcome)
        /\ Failed(rest, outcome)

\* unavailable: not installed, no account left, the token refused, or exit code 1.
ClaudeOutcome == {"ok", "fail", "unavailable"}

ClaudeExit == Now = "claude" /\ \E outcome \in ClaudeOutcome : Ended(outcome, out)

\* unavailable: not installed, or exit code 1; auth: the token refused.
CodexOutcome == {"ok", "fail", "unavailable", "auth"}

\* The file of codex with its last message may hold more than it printed.
CodexExit ==
  /\ Now = "codex"
  /\ \E outcome \in CodexOutcome, rest \in {out, Text(out)} : Ended(outcome, rest)

\* The stream of the last turn ends, or fails.
ApiEnd == Now = "api" /\ \E outcome \in {"ok", "fail"} : Ended(outcome, out)

Exit == ClaudeExit \/ CodexExit \/ ApiEnd

-----------------------------------------------------------------------------
Next ==
  \/ FlushTimer \/ TextSent \/ OtherSent \/ LastSent \/ Untold
  \/ Refuse \/ AwsCredentials \/ GitCredentials \/ McpConfig \/ Attachments \/ ApiStart
  \/ ClaudeText \/ CodexText \/ ApiText \/ PrintsOther \/ CallsTool \/ ToolResult \/ ApiToolTurn
  \/ Timeout \/ Cancel \/ ForceKill \/ ClaudeExit \/ CodexExit \/ ApiEnd
  \/ Over \/ Retry

Spec == Init /\ [][Next]_vars

\* Requests and timers end; a CLI prints finitely often (MaxOut) and ends when it is
\* told to, unless it is deaf. Nothing else is demanded of a CLI.
Fairness ==
  /\ WF_vars(TextSent) /\ WF_vars(LastSent) /\ WF_vars(FlushTimer)
  /\ WF_vars(Refuse) /\ WF_vars(AwsCredentials) /\ WF_vars(GitCredentials)
  /\ WF_vars(McpConfig) /\ WF_vars(Attachments) /\ WF_vars(ApiStart)
  /\ WF_vars(Over) /\ WF_vars(Retry) /\ WF_vars(Timeout) /\ WF_vars(ForceKill)
  /\ WF_vars(Exit /\ child = "kill")
  /\ "deaf" \notin Faults => WF_vars(Exit /\ child = "term")

FairSpec == Spec /\ Fairness

-----------------------------------------------------------------------------
(* Properties.                                                             *)

TypeOK ==
  /\ modes \in Seq(Mode) \ {<<>>}
  /\ attempt \in 1 .. CHAT_MAX_ATTEMPTS
  /\ at \in Place
  /\ child \in {"none", "up", "term", "kill"}
  /\ force \in BOOLEAN /\ timer \in {"off", "short", "long"}
  /\ tools \in 0 .. MaxOut /\ left \in 0 .. MaxOut
  /\ reg \in BOOLEAN /\ cancelled \in BOOLEAN
  /\ files \subseteq Kind
  /\ out \in Sender
  /\ why \in {"none", "ok", "fail", "unavailable", "auth", "refused"}
  /\ shown \in {"none", "done", "error"}
  /\ result \in {"none", "ok", "failed", "undelivered"}

\* The server is told "success" only when the web client has been told "done", and
\* a failure that was to be shown has been shown, whatever was tried in which
\* order: no conversation waits for ever for an answer that the server has on
\* record. And one that has been told "done" fails, if at all, because nobody knows
\* whether the chunk arrived.
ResultTellsDelivery ==
  at = "end" => /\ result = "ok" => shown = "done"
                /\ result = "failed" /\ why # "refused" => shown = "error"
                /\ shown = "done" => result \in {"ok", "undelivered"}

\* An answer that has been given is not given again: once a CLI has ended well no
\* further one is started for the command, also when its done chunk was lost.
AnsweredOnce == why = "ok" => at \in {"tail", "end"}

\* Credentials and attachments are on the disk only while an attempt needs them.
FilesRemoved == at \in {"pause", "end"} \/ (at = "tail" /\ why # "ok") => files = {}

\* When the done or the error chunk is posted all the text before it has been: the
\* web client completes the message with it.
TextBeforeLast == out.last # "none" => ~out.buf /\ ~out.text /\ out.queue = <<>>

\* Every chat command comes to an end, whatever the CLI does.
ChatEnds == <>(at = "end")

\* The answer arrives once and whole, and leaves no file behind.
AnswerWhole == TypeOK /\ AnsweredOnce /\ TextBeforeLast /\ FilesRemoved
=============================================================================

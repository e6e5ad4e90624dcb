---------------------------- MODULE MCChatExecution ----------------------------
(***************************************************************************)
(* Instances of ChatExecution for TLC, and the statements of the           *)
(* repository that a chat does not live up to.                             *)
(***************************************************************************)
EXTENDS ChatExecution

\* Every list of modes that some setting leads to.
AllPlans == {Candidates(s) : s \in {t \in Setting : ~Unsupported(t)}}

OneCli == {<<"claude">>, <<"claude", "codex">>}

-----------------------------------------------------------------------------
(* Statements of the repository that do not hold.                          *)

\* chat-executor.ts, executeCliChat(): "do not retry when cancelled". The CLI
\* that was cancelled fails like any other.
CancelIsFinal == [][cancelled => at' # "aws"]_at

\* shared-chat-utils.ts, rawSend(): done and error chunks complete the message,
\* and the index is "always consecutive and monotonic". An error chunk of the
\* first attempt is followed by the chunks of the second, from index 0 on.
ErrorIsFinal == shown = "error" => at \in {"tail", "end"}

\* claude-code-runner.ts: "while a tool runs the usual timeout is stopped"; a
\* line of any kind starts it again.
ToolNotCut == child = "up" /\ tools > 0 => timer # "short"

\* shared-chat-utils.ts, createChunkSender(): chunks other than delta are sent
\* "keeping the order". The done chunk does not wait for their POSTs.
DoneDeliveredLast == out.last = "landed" => out.other = 0

\* shared-chat-utils.ts, createChunkSender(): hasTerminalDeliveryFailure says
\* "whether the delivery of done / error has failed". It has not when only the
\* reply was lost: the web client has "done", and the command counts as failed.
DoneIsSuccess == at = "end" /\ shown = "done" => result = "ok"

\* cli-process-kill.ts, scheduleForceKill(): "sends SIGKILL if the process is
\* still alive". (ChatEnds with the fault "deaf".)
=============================================================================

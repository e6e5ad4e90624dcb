-------------------------------- MODULE E2eTest --------------------------------
(***************************************************************************)
(* One e2e_test command in its three modes: Playwright in a process of its *)
(* own with a time limit, Playwright in the project's directory without    *)
(* one, and an AI that drives the shared browser; and one e2e_script_fix.  *)
(* The steps of the test are those of the script under Playwright, with    *)
(* the screenshots that the preloaded module attaches to them.             *)
(*                                                                         *)
(* e2e-test-executor.ts, playwright-subprocess-executor.ts,                *)
(* playwright-test-runner.ts, e2e-script-fix-executor.ts and the tool      *)
(* report_test_step.  Prompts, environment variables and texts of errors   *)
(* are left out; so are steps within steps, which the module ignores, and  *)
(* several tests in one script, whose steps are counted together.          *)
(***************************************************************************)
EXTENDS Naturals, Sequences

CONSTANT MaxSteps  \* bound: steps of the test's body; and of its hooks

VARIABLES
  command,  \* the command, see Request
  at,       \* where it is, see Place
  sent,     \* the last status of the execution that was reported
  result,   \* what the command returned
  left,     \* what it has on the disk and in the browser manager
  test,     \* the test under Playwright, see Test
  runner,   \* Playwright: "none", "up", "gone"
  timer,    \* spawnPlaywright(): "off", "run", "grace" after SIGINT, "force" after SIGKILL
  timedOut,
  json,     \* result.json: "none", "torn", "whole"
  parsed    \* what runPlaywrightSubprocess() returned, see Parsed

playwright == <<test, runner, timer, timedOut, json, parsed>>
e2eVars == <<command, at, sent, result, left, playwright>>

\* captureStepScreenshots, and whether tenantCode and projectCode are known.
Request == [capture: BOOLEAN, known: BOOLEAN]

Place == {"start", "env", "basic", "support", "prepare", "spawn", "wait", "rejected", "read",
          "steps", "script", "open", "chat", "failed", "close", "end"}

\* body: of each step of the test's body, whether it failed; next: the index that
\* the preloaded module gives to the next step; att: its screenshots, as index and
\* the step on it (0: of a hook); own: the step on each image that the script attached.
Test == [phase: {"before", "body", "after"}, body: Seq(BOOLEAN), next: Nat,
         att: SUBSET (Nat \X Nat), own: Seq(Nat), broken: BOOLEAN]
NoTest == [phase |-> "before", body |-> <<>>, next |-> 0, att |-> {}, own |-> <<>>,
           broken |-> FALSE]

\* shots: the step shown by the screenshot of each step that is reported, 0 if none.
Parsed == [success: BOOLEAN, shots: Seq(Nat)]
NoResult == [success |-> FALSE, shots |-> <<>>]

E2eInit ==
  /\ command \in Request /\ at = "start"
  /\ sent = "none" /\ result = "none" /\ left = {}
  /\ test = NoTest /\ runner = "none" /\ timer = "off" /\ timedOut = FALSE /\ json = "none"
  /\ parsed = NoResult

-----------------------------------------------------------------------------
(* The test under Playwright: the script, and the preloaded module.        *)

TestRuns == runner = "up" /\ timer # "off"

\* patchedStep() with its index: a screenshot unless no page is usable or the
\* capture fails.
Shot(owner, captured) ==
  IF command.capture /\ captured THEN {<<test.next, owner>>} ELSE {}
Index == IF command.capture THEN test.next + 1 ELSE test.next

BodyStep(failed, captured, attaches) ==
  /\ TestRuns /\ test.phase # "after" /\ Len(test.body) < MaxSteps
  /\ LET pos == Len(test.body) + 1
     IN test' = [test EXCEPT !.phase = IF failed THEN "after" ELSE "body",
                             !.body = Append(@, failed), !.next = Index,
                             !.att = @ \union Shot(pos, captured),
                             !.own = IF attaches THEN Append(@, pos) ELSE @]
  /\ UNCHANGED <<command, at, sent, result, left, runner, timer, timedOut, json, parsed>>

\* Mutant of SkipStep: a skipped step takes no index.
SkipStepUncounted ==
  /\ TestRuns /\ test.phase # "after" /\ Len(test.body) < MaxSteps
  /\ test' = [test EXCEPT !.phase = "body", !.body = Append(@, FALSE)]
  /\ UNCHANGED <<command, at, sent, result, left, runner, timer, timedOut, json, parsed>>

\* patchedStep.skip().
SkipStep ==
  /\ TestRuns /\ test.phase # "after" /\ Len(test.body) < MaxSteps
  /\ test' = [test EXCEPT !.phase = "body", !.body = Append(@, FALSE), !.next = Index]
  /\ UNCHANGED <<command, at, sent, result, left, runner, timer, timedOut, json, parsed>>

\* A step in a beforeEach or afterEach hook takes an index and is not one of the body.
HookStep(captured) ==
  /\ TestRuns /\ test.next < 2 * MaxSteps
  /\ test' = [test EXCEPT !.phase = IF @ = "body" THEN "after" ELSE @, !.next = Index,
                          !.att = @ \union Shot(0, captured)]
  /\ UNCHANGED <<command, at, sent, result, left, runner, timer, timedOut, json, parsed>>

\* The test fails between its steps or in a hook; or is skipped as a whole.
FailsOutside ==
  /\ TestRuns /\ ~test.broken
  /\ test' = [test EXCEPT !.phase = "after", !.broken = TRUE]
  /\ UNCHANGED <<command, at, sent, result, left, runner, timer, timedOut, json, parsed>>

SkipTest ==
  /\ TestRuns /\ test.phase = "before"
  /\ test' = [test EXCEPT !.phase = "after"]
  /\ UNCHANGED <<command, at, sent, result, left, runner, timer, timedOut, json, parsed>>

\* Playwright ends: it has written the result, or a part of it, or nothing.
Exits(written) ==
  /\ at = "wait" /\ runner = "up"
  /\ runner' = "gone" /\ json' = written
  /\ UNCHANGED <<command, at, sent, result, left, test, timer, timedOut, parsed>>

-----------------------------------------------------------------------------
(* executeE2eTest() and what its modes share.                              *)

\* reportExecutionStatus(): nothing without tenant and project; a report that
\* fails is logged.
Report(status) == sent' = IF command.known THEN status ELSE sent

Return(value) == at' = "end" /\ result' = value

\* A mode ends with an error that it reports.
Error == Report("error") /\ Return("failed")

Mode(script, method) ==
  IF script /\ method = "playwright" THEN "env"
  ELSE IF script /\ method # "ai" THEN "script" ELSE "open"

\* A field that the command requires is not there.
Refuse ==
  /\ at = "start"
  /\ Return("failed")
  /\ UNCHANGED <<command, sent, left, playwright>>

Begin(script, method) ==
  /\ at = "start"
  /\ Report("running")
  /\ at' = Mode(script, method)
  /\ UNCHANGED <<command, result, left, playwright>>

-----------------------------------------------------------------------------
(* executePlaywrightSubprocessMode().                                      *)

\* getE2eEnvironmentVariables(), where an environment is given.
FetchEnvironment(fails) ==
  /\ at = "env"
  /\ IF fails THEN Error ELSE at' = "basic" /\ UNCHANGED <<sent, result>>
  /\ UNCHANGED <<command, left, playwright>>

\* The password, where one is asked for, is one of the variables of the environment.
BasicAuth(missing) ==
  /\ at = "basic"
  /\ IF missing THEN Error ELSE at' = "support" /\ UNCHANGED <<sent, result>>
  /\ UNCHANGED <<command, left, playwright>>

\* getE2eSupportFiles(): the run goes on without them.
SupportFiles ==
  /\ at = "support" /\ at' = "prepare"
  /\ UNCHANGED <<command, sent, result, left, playwright>>

\* runPlaywrightSubprocess() up to the spawn: an id that it does not accept, or the
\* run directory with the support files, the script, the configuration and the
\* module to preload, any of which may fail.
BadId ==
  /\ at = "prepare" /\ at' = "failed"
  /\ UNCHANGED <<command, sent, result, left, playwright>>

Prepare(fails) ==
  /\ at = "prepare"
  /\ left' = {"rundir"}
  /\ at' = IF fails THEN "rejected" ELSE "spawn"
  /\ UNCHANGED <<command, sent, result, playwright>>

SpawnPlaywright(fails) ==
  /\ at = "spawn"
  /\ IF fails THEN at' = "rejected" /\ UNCHANGED <<runner, timer>>
     ELSE at' = "wait" /\ runner' = "up" /\ timer' = "run"
  /\ UNCHANGED <<command, sent, result, left, test, timedOut, json, parsed>>

\* settleResolve(): the timers stop.
Settle == at' = "read" /\ timer' = "off"

\* The event close comes when nobody holds the pipes of the child any more, which
\* may be never: Chromium inherits them.
PipesClosed ==
  /\ at = "wait" /\ runner = "gone"
  /\ Settle
  /\ UNCHANGED <<command, sent, result, left, test, runner, timedOut, json, parsed>>

\* SIGINT, which lets Playwright write what it has.
TimedOut ==
  /\ at = "wait" /\ timer = "run"
  /\ timedOut' = TRUE /\ timer' = "grace"
  /\ UNCHANGED <<command, at, sent, result, left, test, runner, json, parsed>>

SigKill ==
  /\ at = "wait" /\ timer = "grace"
  /\ runner' = "gone" /\ timer' = "force"
  /\ UNCHANGED <<command, at, sent, result, left, test, timedOut, json, parsed>>

\* Mutant of ForceResolve: only the event close ends the wait.
ForceNothing ==
  /\ at = "wait" /\ timer = "force"
  /\ timer' = "off"
  /\ UNCHANGED <<command, at, sent, result, left, test, runner, timedOut, json, parsed>>

ForceResolve ==
  /\ at = "wait" /\ timer = "force"
  /\ Settle
  /\ UNCHANGED <<command, sent, result, left, test, runner, timedOut, json, parsed>>

\* parsePlaywrightJsonOutput(): the screenshots by their index, unless an index is
\* out of range; without any, the images of the script by their number.
ShotOf(i) ==
  LET n == Len(test.body)
      indexed == {a \in test.att : a[1] = i - 1}
  IN IF test.att # {}
     THEN IF indexed = {} \/ \E a \in test.att : a[1] >= n THEN 0
          ELSE (CHOOSE a \in indexed : TRUE)[2]
     ELSE IF Len(test.own) = n THEN test.own[i] ELSE 0

\* With steps, their errors count and the status of the test does not; a test
\* without steps is one step.
Result ==
  IF json # "whole" \/ test.phase = "before" THEN NoResult
  ELSE IF test.body = <<>> THEN [success |-> ~test.broken, shots |-> <<0>>]
  ELSE [success |-> \A i \in DOMAIN test.body : ~test.body[i],
        shots   |-> [i \in DOMAIN test.body |-> ShotOf(i)]]

\* Mutant of ReadResult: a run that timed out is judged by what it had recovered.
ReadResultOnly ==
  /\ at = "read"
  /\ parsed' = Result
  /\ left' = {} /\ at' = "steps"
  /\ UNCHANGED <<command, sent, result, test, runner, timer, timedOut, json>>

\* The rest of runPlaywrightSubprocess(), with its finally.
ReadResult ==
  /\ at = "read"
  /\ parsed' = [Result EXCEPT !.success = @ /\ ~timedOut]
  /\ left' = {} /\ at' = "steps"
  /\ UNCHANGED <<command, sent, result, test, runner, timer, timedOut, json>>

Rejected ==
  /\ at = "rejected"
  /\ left' = {} /\ at' = "failed"
  /\ UNCHANGED <<command, sent, result, playwright>>

SubprocessError ==
  /\ at = "failed"
  /\ Error
  /\ UNCHANGED <<command, left, playwright>>

\* The steps are reported one by one, a report that fails is counted; then the status.
Conclude ==
  /\ at = "steps"
  /\ Report(IF parsed.success THEN "passed"
            ELSE IF timedOut /\ parsed.shots = <<>> THEN "error" ELSE "failed")
  /\ Return("ok")
  /\ UNCHANGED <<command, left, playwright>>

-----------------------------------------------------------------------------
(* executeScriptMode() and runPlaywrightScript().                          *)

\* The id is refused, or the specification cannot be written.
ScriptRefused ==
  /\ at = "script" /\ left = {}
  /\ Error
  /\ UNCHANGED <<command, left, playwright>>

WriteSpec ==
  /\ at = "script" /\ left = {}
  /\ left' = {"spec"}
  /\ UNCHANGED <<command, at, sent, result, playwright>>

\* Nothing limits this wait. The exit code decides.
ScriptExit(passes) ==
  /\ at = "script" /\ left # {}
  /\ left' = {}
  /\ Report(IF passes THEN "passed" ELSE "failed")
  /\ Return("ok")
  /\ UNCHANGED <<command, playwright>>

ScriptNotStarted ==
  /\ at = "script" /\ left # {}
  /\ left' = {}
  /\ Error
  /\ UNCHANGED <<command, playwright>>

-----------------------------------------------------------------------------
(* executeAiMode().                                                        *)

\* getOrCreateBrowserSession(), where the transport gives it; it may fail.
OpenSession(given, fails) ==
  /\ at = "open"
  /\ left' = IF given THEN {"session"} ELSE {}
  /\ IF fails THEN at' = "close" /\ Report("error") /\ result' = "failed"
     ELSE at' = "chat" /\ UNCHANGED <<sent, result>>
  /\ UNCHANGED <<command, playwright>>

\* report_test_step: that a step has failed does not reach the executor.
ReportTestStep ==
  /\ at = "chat" /\ command.known /\ ~test.broken
  /\ test' = [test EXCEPT !.broken = TRUE]
  /\ UNCHANGED <<command, at, sent, result, left, runner, timer, timedOut, json, parsed>>

\* executeChatCommand() answers, as ChatExecution shows, or throws: the error is
\* reported before the session is closed.
ChatAnswers(success) ==
  /\ at = "chat" /\ at' = "close"
  /\ parsed' = [parsed EXCEPT !.success = success]
  /\ UNCHANGED <<command, sent, result, left, test, runner, timer, timedOut, json>>

ChatThrows ==
  /\ at = "chat" /\ at' = "close"
  /\ Report("error") /\ result' = "failed"
  /\ UNCHANGED <<command, left, playwright>>

\* Mutant of CloseSession: the session of a chat that threw is kept.
EndSessionAnswered ==
  /\ at = "close"
  /\ left' = IF result = "failed" THEN left ELSE {}
  /\ IF result = "failed" THEN at' = "end" /\ UNCHANGED <<sent, result>>
     ELSE Report(IF parsed.success THEN "passed" ELSE "failed") /\ Return("ok")
  /\ UNCHANGED <<command, playwright>>

\* The finally, and the report of a chat that has answered.
EndSession ==
  /\ at = "close"
  /\ left' = {}
  /\ IF result = "failed" THEN at' = "end" /\ UNCHANGED <<sent, result>>
     ELSE Report(IF parsed.success THEN "passed" ELSE "failed") /\ Return("ok")
  /\ UNCHANGED <<command, playwright>>

-----------------------------------------------------------------------------

\* executeE2eScriptFix(): a chat, and the script in its answer, if there is one;
\* that it cannot be saved is logged.
FixScript(found) ==
  /\ at = "start"
  /\ Return(IF found THEN "ok" ELSE "failed")
  /\ UNCHANGED <<command, sent, left, playwright>>

ByTimer == TimedOut \/ SigKill \/ ForceResolve

\* The executor's own steps, which an await always ends.
ByExecutor ==
  \/ Refuse \/ SupportFiles \/ BadId \/ Rejected \/ SubprocessError \/ ReadResult \/ Conclude
  \/ \E script \in BOOLEAN, method \in {"ai", "playwright", "other"} : Begin(script, method)
  \/ \E b \in BOOLEAN : FetchEnvironment(b) \/ BasicAuth(b) \/ Prepare(b) \/ SpawnPlaywright(b) \/ FixScript(b)
  \/ \E given, fails \in BOOLEAN : OpenSession(given, fails)
  \/ (\E success \in BOOLEAN : ChatAnswers(success)) \/ ChatThrows \/ EndSession

ByPlaywright ==
  \/ \E failed, captured, attaches \in BOOLEAN : BodyStep(failed, captured, attaches)
  \/ SkipStep \/ (\E captured \in BOOLEAN : HookStep(captured)) \/ FailsOutside \/ SkipTest
  \/ \E written \in {"none", "torn", "whole"} : Exits(written)
  \/ PipesClosed
  \/ ScriptRefused \/ WriteSpec \/ (\E passes \in BOOLEAN : ScriptExit(passes)) \/ ScriptNotStarted
  \/ ReportTestStep

E2eOver == at = "end" /\ UNCHANGED e2eVars

E2eNext == ByTimer \/ ByExecutor \/ ByPlaywright \/ E2eOver

E2eSpec == E2eInit /\ [][E2eNext]_e2eVars

-----------------------------------------------------------------------------

E2eTypeOK ==
  /\ command \in Request /\ at \in Place
  /\ sent \in {"none", "running", "passed", "failed", "error"}
  /\ result \in {"none", "ok", "failed"} /\ left \subseteq {"rundir", "spec", "session"}
  /\ test \in Test
  /\ runner \in {"none", "up", "gone"} /\ timer \in {"off", "run", "grace", "force"}
  /\ timedOut \in BOOLEAN /\ json \in {"none", "torn", "whole"}
  /\ parsed \in Parsed

\* playwright-subprocess-executor.ts, parsePlaywrightJsonOutput(): a step is shown
\* with its own screenshot or with none, whatever was captured, skipped or attached;
\* only where a hook's step has moved the indices and none is out of range it is not.
ShotsBelong ==
  \A i \in DOMAIN parsed.shots :
    parsed.shots[i] \in {0, i} \/ test.next > Len(test.body)

\* e2e-test-executor.ts: a run of Playwright is reported as passed only if it came to
\* its end in time, its result could be read, and no step of it had failed.
VerdictIsEarned ==
  at = "end" /\ sent = "passed" /\ runner = "gone" =>
    ~timedOut /\ json = "whole" /\ ~\E i \in DOMAIN test.body : test.body[i]

\* e2e-test-executor.ts: however a mode ends, the last status is not "running" and
\* the run directory, the specification and the browser session are gone.
NothingLeftOpen == at = "end" => sent # "running" /\ left = {}

\* All of them: what is told of a test is so, and nothing stays behind.
TestKept == E2eTypeOK /\ ShotsBelong /\ VerdictIsEarned /\ NothingLeftOpen

\* spawnPlaywright(): a run with a time limit ends whatever Playwright and Chromium
\* do with the signals; the script mode, which has none, is left out.
E2eEnds == <>(at \in {"end", "script"})
=============================================================================

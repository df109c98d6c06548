--------------------------- MODULE RunLifecycle ---------------------------
(***************************************************************************)
(* The lifecycle of one run: run_managed and run_external of               *)
(* btb/harness/engine.py, the fixture they own (runtime.py), the Browser   *)
(* Use sandbox (browser_use_sandbox.py) and the ReceiptBuilder that        *)
(* publishes the run's one receipt (manifest.py).  The harness is one      *)
(* thread; the fixture's server thread may die under it at any time, the   *)
(* process may be killed at any time, and nearly every step may raise.     *)
(*                                                                         *)
(* An exception is known by the operation that raised it, the stage it is  *)
(* receipted under, and whether it is a TimeoutError, which decides the    *)
(* receipt's status.  The operations told apart are those that can raise   *)
(* while an earlier exception of the run is in flight or kept; of the rest *)
(* a run gets to see one exception per stage.                              *)
(***************************************************************************)
EXTENDS FiniteSets, Sequences, Naturals

CONSTANT Runs   \* the kinds of run considered

RunKinds == [managed : BOOLEAN, learned : BOOLEAN, injected : BOOLEAN,
             source : {"exploratory", "canonical", "refused"}]
ASSUME RunsAssumption == Runs \subseteq RunKinds

Stages == {"none", "source", "fixture_identity", "fixture_setup", "initial_state",
           "injection_setup", "baseline", "playwright_trace", "playwright_context_close",
           "playwright_browser_close", "playwright_trace_publish", "injection_quiescence",
           "after_snapshot", "evaluation", "proxy_teardown", "fixture_teardown",
           "orchestration", "receipt_write", "sandbox_inventory", "injection_report"}

\* What _execute_playwright keeps while it closes the browser.
BrowserStages == {"baseline", "playwright_trace", "playwright_context_close",
                  "playwright_browser_close", "playwright_trace_publish"}

Operations == Stages \cup {"undo_setup", "driver", "trace_directory", "worker_group",
                            "inventory_publication", "sandbox_cleanup"}

Exceptions == [by : Operations, stage : Stages, timeout : BOOLEAN]
Failing(by, stage) == [by |-> by, stage |-> stage, timeout |-> FALSE]
Error(stage)       == Failing(stage, stage)
Timeout(stage)     == [by |-> stage, stage |-> stage, timeout |-> TRUE]
NoError            == Error("none")

VARIABLES
  run,       \* what kind of run this is
  pc,        \* the step the harness is at
  fixture,   \* ManagedRunEnvironment: temporary directory, socket, server thread
  proxy,     \* the _ProxyScope's proxy
  sandbox,   \* the Browser Use sandbox root: "gone" once it is no longer there
  worker,    \* the WorkerResult and the inventory of its sandbox
  errors,    \* the errors list of _execute_playwright
  builder,   \* the evidence the ReceiptBuilder holds
  raised,    \* the exception in flight
  failure,   \* execution_failure and fixture_failure of run_managed
  primary,   \* the first exception of the run to be raised or kept
  draft,     \* the receipt being written
  disk,      \* the receipt directory
  result     \* what the run returned

vars == <<run, pc, fixture, proxy, sandbox, worker, errors, builder, raised,
          failure, primary, draft, disk, result>>

\* inventory and cleanup_error are present or absent.
Filesystems == [state : {"unbound", "not_created", "cleaned", "cleanup_failed"},
                inventory : BOOLEAN, cleanup_error : BOOLEAN]
Builders == [prompt : BOOLEAN, before : BOOLEAN, after : BOOLEAN, claim : BOOLEAN,
             trace : BOOLEAN, policy : BOOLEAN, evaluation : BOOLEAN,
             report : {"missing", "none", "proxy"},
             filesystem : Filesystems, evidence_failures : SUBSET Stages]
NewBuilder == [prompt |-> FALSE, before |-> FALSE, after |-> FALSE, claim |-> FALSE,
               trace |-> FALSE, policy |-> FALSE, evaluation |-> FALSE,
               report |-> "missing",
               filesystem |-> [state |-> "unbound", inventory |-> FALSE,
                               cleanup_error |-> FALSE],
               evidence_failures |-> {}]

Statuses == {"success", "setup_error", "baseline_error", "timeout", "evaluation_error"}
Receipts == [status : Statuses \cup {"absent", "earlier"},
             failure : Exceptions, evidence : Builders]
NoReceipt == [status |-> "absent", failure |-> NoError, evidence |-> NewBuilder]

Results == [status : {"pending", "success", "failure"}, error : Exceptions,
            receipt_path : BOOLEAN, receipt_error : BOOLEAN]

Steps == {"source", "fixture_identity", "fixture_setup", "ready", "undo_setup", "select",
          "initial_state", "injection_setup", "baseline", "closing", "context", "browser",
          "driver", "publish_trace", "errors", "trace_directory",
          "worker", "inventory", "release", "bind",
          "injection_quiescence", "after_snapshot", "evaluation", "exit_proxy", "capture",
          "leave_fixture", "remove_directory", "finalize", "write_failure", "link",
          "unlink", "returned", "killed"}

TypeOK ==
  /\ run \in Runs
  /\ pc \in Steps
  /\ fixture \in [directory : BOOLEAN, listener : BOOLEAN,
                  server : {"none", "running", "crashed", "stopped", "stuck"}]
  /\ proxy \in {"none", "running", "stopped", "unstopped"}
  /\ sandbox \in {"none", "present", "gone"}
  /\ worker \in [timed_out : BOOLEAN, teardown_error : BOOLEAN, payload : BOOLEAN,
                 inventory : {"none", "taken", "failed"}]
  /\ errors \in Seq(Exceptions)
  /\ builder \in Builders
  /\ raised \in Exceptions
  /\ failure \in [execution : Exceptions, fixture : Exceptions]
  /\ primary \in Exceptions
  /\ draft \in Receipts
  /\ disk \in [receipt : Receipts, temporary : BOOLEAN,
               artifacts : SUBSET {"trace", "inventory"}]
  /\ result \in Results

\* An earlier run with the same ID may have left its receipt and artifacts.
Init ==
  /\ run \in Runs
  /\ pc = "source"
  /\ fixture = [directory |-> FALSE, listener |-> FALSE, server |-> "none"]
  /\ proxy = "none"
  /\ sandbox = "none"
  /\ worker = [timed_out |-> FALSE, teardown_error |-> FALSE, payload |-> FALSE,
               inventory |-> "none"]
  /\ errors = <<>>
  /\ builder = NewBuilder
  /\ raised = NoError
  /\ failure = [execution |-> NoError, fixture |-> NoError]
  /\ primary = NoError
  /\ draft = NoReceipt
  /\ disk \in {[receipt |-> [NoReceipt EXCEPT !.status = s], temporary |-> FALSE,
                artifacts |-> a] : s \in {"absent", "earlier"},
                                   a \in {{}, {"trace", "inventory"}}}
  /\ result = [status |-> "pending", error |-> NoError,
               receipt_path |-> FALSE, receipt_error |-> FALSE]

At(step) == pc = step
Goto(step) == pc' = step

Earlier(e, f) == IF e = NoError THEN f ELSE e
First(e) == primary' = Earlier(primary, e)

\* An exception leaves the step the run is at, or is caught there and kept.
Raise(e, step) == raised' = e /\ First(e) /\ Goto(step)
Keep(e, step)  == UNCHANGED raised /\ First(e) /\ Goto(step)
Proceed(step)  == Goto(step) /\ UNCHANGED <<raised, primary>>

\* Mutant of LeaveExecution: the receipt is written inside the with statement.
LeaveExecution_Early == "finalize"

\* Where control goes when the execution is over, with a result or without.
LeaveExecution == IF run.managed THEN "leave_fixture" ELSE "finalize"

-----------------------------------------------------------------------------
(* The fixture: ManagedRunEnvironment *)

\* ensure_canonical_source
EnsureCanonicalSource ==
  /\ At("source")
  /\ IF run.source = "refused"
     THEN LET e == Error(IF run.managed THEN "source" ELSE "fixture_identity")
          IN  /\ failure' = [failure EXCEPT !.fixture = e]
              /\ First(e)
              /\ Goto("finalize")
     ELSE /\ Goto(IF run.managed THEN "fixture_setup" ELSE "fixture_identity")
          /\ UNCHANGED <<failure, primary>>
  /\ UNCHANGED <<run, fixture, proxy, sandbox, worker, errors, builder, raised,
                 draft, disk, result>>

\* verify_fixture_identity of an external fixture
VerifyFixtureIdentity ==
  /\ At("fixture_identity")
  /\ \/ Goto("select") /\ UNCHANGED <<failure, primary>>
     \/ /\ failure' = [failure EXCEPT !.fixture = Error("fixture_identity")]
        /\ First(Error("fixture_identity"))
        /\ Goto("finalize")
  /\ UNCHANGED <<run, fixture, proxy, sandbox, worker, errors, builder, raised,
                 draft, disk, result>>

\* __enter__ up to the start of the server thread; it may raise halfway.
EnterFixture ==
  /\ At("fixture_setup")
  /\ \/ /\ fixture' = [directory |-> TRUE, listener |-> TRUE, server |-> "running"]
        /\ Proceed("ready")
     \/ /\ \E directory, listener \in BOOLEAN :
             /\ listener => directory
             /\ fixture' = [directory |-> directory, listener |-> listener, server |-> "none"]
        /\ Raise(Error("fixture_setup"), "undo_setup")
  /\ UNCHANGED <<run, proxy, sandbox, worker, errors, builder, failure, draft, disk, result>>

\* _wait_until_ready; only the deadline raises a TimeoutError.
WaitUntilReady ==
  /\ At("ready")
  /\ \/ fixture.server = "running" /\ Proceed("select")
     \/ \E e \in {Error("fixture_setup"), Timeout("fixture_setup")} : Raise(e, "undo_setup")
  /\ UNCHANGED <<run, fixture, proxy, sandbox, worker, errors, builder, failure,
                 draft, disk, result>>

\* uvicorn raises in its thread, which keeps the exception as _server_error.
ServerCrashes ==
  /\ fixture.server = "running"
  /\ pc \notin {"returned", "killed"}
  /\ fixture' = [fixture EXCEPT !.server = "crashed"]
  /\ UNCHANGED <<run, pc, proxy, sandbox, worker, errors, builder, raised, failure,
                 primary, draft, disk, result>>

\* _stop_server: two joins, the socket closed between them; a thread that
\* outlives both makes it raise.
StopServer ==
  \E s \in IF fixture.server = "running" THEN {"stopped", "stuck"} ELSE {fixture.server} :
    fixture' = [fixture EXCEPT !.listener = FALSE, !.server = s]

\* Setup failed: stop, clean up, and re-raise, unless one of the two raises, whose
\* exception then replaces the first.
UndoSetup ==
  /\ At("undo_setup")
  /\ \E removed \in BOOLEAN, s \in {"none", "stopped", "stuck", "crashed"} :
       /\ s \in IF fixture.server = "running" THEN {"stopped", "stuck"} ELSE {fixture.server}
       /\ ~removed => fixture.directory
       /\ fixture' = [directory |-> ~removed, listener |-> FALSE, server |-> s]
       /\ failure' = [failure EXCEPT !.fixture =
                         IF removed /\ s # "stuck" THEN raised
                         ELSE Failing("undo_setup", "fixture_setup")]
  /\ raised' = NoError
  /\ Goto("finalize")
  /\ UNCHANGED <<run, proxy, sandbox, worker, errors, builder, primary, draft, disk, result>>

\* __exit__ ...
StopFixtureServer ==
  /\ At("leave_fixture")
  /\ StopServer
  /\ Proceed("remove_directory")
  /\ UNCHANGED <<run, proxy, sandbox, worker, errors, builder, failure, draft, disk, result>>

\* Any one of __exit__'s errors makes it raise, the server's own included.
TeardownFailed(removed) == ~removed \/ fixture.server \in {"stuck", "crashed"}

\* ... and run_managed's bookkeeping after the with statement: the failure of
\* the execution stays the primary one.
RemoveDirectory ==
  /\ At("remove_directory")
  /\ \E removed \in BOOLEAN :
       /\ fixture' = [fixture EXCEPT !.directory = ~removed]
       /\ IF TeardownFailed(removed)
          THEN /\ failure' = [failure EXCEPT !.fixture = Error("fixture_teardown")]
               /\ First(Error("fixture_teardown"))
               /\ builder' = IF failure.execution = NoError THEN builder
                             ELSE [builder EXCEPT !.evidence_failures = @ \cup {"fixture_teardown"}]
          ELSE UNCHANGED <<failure, primary, builder>>
  /\ Goto("finalize")
  /\ UNCHANGED <<run, proxy, sandbox, worker, errors, raised, draft, disk, result>>

-----------------------------------------------------------------------------
(* The execution: _execute_baseline *)

\* An exception before the executor's try block leaves no evidence behind: the
\* configuration of a learned baseline, its overrides, its version, or the import
\* of Playwright.
SelectBaseline ==
  /\ At("select")
  /\ \/ Goto("initial_state") /\ UNCHANGED <<failure, primary>>
     \/ /\ failure' = [failure EXCEPT !.execution = Error("baseline")]
        /\ First(Error("baseline"))
        /\ Goto(LeaveExecution)
  /\ UNCHANGED <<run, fixture, proxy, sandbox, worker, errors, builder, raised,
                 draft, disk, result>>

\* prepare_initial_state and the before snapshot
PrepareInitialState ==
  /\ At("initial_state")
  /\ \/ builder' = [builder EXCEPT !.before = TRUE] /\ Proceed("injection_setup")
     \/ Raise(Error("initial_state"), "capture") /\ UNCHANGED builder
  /\ UNCHANGED <<run, fixture, proxy, sandbox, worker, errors, failure, draft, disk, result>>

\* _ProxyScope.__enter__, then _set_prompt_once with the target it gives.
EnterProxy ==
  /\ At("injection_setup")
  /\ \/ /\ proxy' = IF run.injected THEN "running" ELSE "none"
        /\ builder' = [builder EXCEPT !.prompt = TRUE]
        /\ Proceed("baseline")
     \/ /\ run.injected
        /\ Raise(Error("injection_setup"), "capture")
        /\ UNCHANGED <<proxy, builder>>
  /\ UNCHANGED <<run, fixture, sandbox, worker, errors, failure, draft, disk, result>>

\* Making the trace's directory, starting the driver, or launching may raise, out of
\* as many scopes; a failed control is kept while the browser is closed.
RunControl ==
  /\ At("baseline") /\ ~run.learned
  /\ \/ /\ \E step \in {"exit_proxy", "trace_directory", "driver"} : Raise(Error("baseline"), step)
        /\ UNCHANGED errors
     \/ errors' = <<Error("baseline")>> /\ Keep(Error("baseline"), "closing")
     \/ errors' = <<>> /\ Proceed("closing")
  /\ UNCHANGED <<run, fixture, proxy, sandbox, worker, builder, failure, draft, disk, result>>

\* A step of the finally block: its error is kept, the next one is tried.
Try(step, stage, next) ==
  /\ At(step)
  /\ \/ errors' = Append(errors, Error(stage)) /\ Keep(Error(stage), next)
     \/ UNCHANGED errors /\ Proceed(next)
  /\ UNCHANGED <<run, fixture, proxy, sandbox, worker, builder, failure, draft, disk, result>>

StopTrace    == Try("closing", "playwright_trace", "context")
CloseContext == Try("context", "playwright_context_close", "browser")
CloseBrowser == Try("browser", "playwright_browser_close", "driver")

\* Leaving sync_playwright may itself raise: a failed launch is replaced, and the
\* errors kept are lost.
LeavePlaywright ==
  /\ At("driver")
  /\ \/ Proceed(IF raised # NoError THEN "trace_directory"
                ELSE IF Error("playwright_trace") \in {errors[i] : i \in DOMAIN errors}
                THEN "errors" ELSE "publish_trace")
     \/ Raise(Failing("driver", "baseline"), "trace_directory")
  /\ UNCHANGED <<run, fixture, proxy, sandbox, worker, errors, builder, failure,
                 draft, disk, result>>

\* write_artifact links without overwriting.  It may fail before the link, and
\* so may what comes after it: the artifact is then there, but not bound.
WriteArtifact(name, ok) ==
  /\ ok => name \notin disk.artifacts
  /\ \/ disk' = [disk EXCEPT !.artifacts = @ \cup {name}]
     \/ ~ok /\ UNCHANGED disk

\* Redact, publish and bind the trace.
PublishTrace ==
  /\ At("publish_trace")
  /\ \E ok \in BOOLEAN :
       /\ WriteArtifact("trace", ok)
       /\ builder' = [builder EXCEPT !.trace = ok]
       /\ IF ok THEN UNCHANGED errors /\ Proceed("errors")
          ELSE LET e == Error("playwright_trace_publish")
               IN  errors' = Append(errors, e) /\ Keep(e, "errors")
  /\ UNCHANGED <<run, fixture, proxy, sandbox, worker, failure, draft, result>>

\* The first error is the run's; the others are evidence failures.
RaiseErrors ==
  /\ At("errors")
  /\ IF errors = <<>>
     THEN Proceed("trace_directory") /\ UNCHANGED builder
     ELSE /\ builder' = [builder EXCEPT !.evidence_failures =
                            @ \cup {errors[i].stage : i \in 2..Len(errors)}]
          /\ Raise(errors[1], "trace_directory")
  /\ UNCHANGED <<run, fixture, proxy, sandbox, worker, errors, failure, draft, disk, result>>

\* The trace's temporary directory goes; an exception in flight is replaced if that
\* raises, under its stage.
RemoveTraceDirectory ==
  /\ At("trace_directory")
  /\ \/ Proceed(IF raised = NoError THEN "injection_quiescence" ELSE "exit_proxy")
     \/ Raise(Failing("trace_directory", IF raised = NoError THEN "baseline" ELSE raised.stage),
              "exit_proxy")
  /\ UNCHANGED <<run, fixture, proxy, sandbox, worker, errors, builder, failure,
                 draft, disk, result>>

-----------------------------------------------------------------------------
(* The learned baseline: _run_browser_use_worker and its sandbox *)

\* The capability check raises at once; SandboxLifecycle.create may raise before
\* or after it owns a root, and the finally block runs.
CreateSandbox ==
  /\ At("baseline") /\ run.learned
  /\ \/ Raise(Error("baseline"), "exit_proxy") /\ UNCHANGED sandbox
     \/ Raise(Error("baseline"), "inventory") /\ sandbox' \in {"none", "present"}
     \/ sandbox' = "present" /\ Proceed("worker")
  /\ UNCHANGED <<run, fixture, proxy, worker, errors, builder, failure, draft, disk, result>>

\* run_worker: the group is quiesced whatever happens, and only then is the
\* result file read, from a root the worker may have removed.  A deadline and a
\* group that stays are both kept, in the result.
RunWorker ==
  /\ At("worker")
  /\ sandbox' \in {"present", "gone"}
  /\ \/ Raise(Error("baseline"), "inventory") /\ UNCHANGED worker
     \/ \E timed_out, teardown_error, payload \in BOOLEAN :
          /\ payload => ~teardown_error /\ sandbox' = "present"
          /\ worker' = [timed_out |-> timed_out, teardown_error |-> teardown_error,
                        payload |-> payload, inventory |-> "none"]
          /\ Keep(IF timed_out THEN Timeout("baseline")
                  ELSE IF teardown_error THEN Failing("worker_group", "baseline")
                  ELSE NoError, "inventory")
  /\ UNCHANGED <<run, fixture, proxy, errors, builder, failure, draft, disk, result>>

\* capture_inventory gives up on links, limits and files that change under it; a
\* root that is no longer there has no inventory and is no error.
CaptureInventory ==
  /\ At("inventory")
  /\ \E i \in IF sandbox = "present" THEN {"taken", "failed"} ELSE {"none"} :
       /\ worker' = [worker EXCEPT !.inventory = i]
       /\ Keep(IF i = "failed" THEN Failing("sandbox_inventory", "baseline") ELSE NoError,
               "release")
  /\ UNCHANGED <<run, fixture, proxy, sandbox, errors, builder, failure, draft, disk, result>>

\* Mutant of WorkerError: the missing result is looked at before the deadline.
WorkerError_PayloadFirst(removed) ==
  IF raised # NoError THEN raised
  ELSE IF ~worker.payload THEN Error("baseline")
  ELSE IF worker.inventory = "failed" THEN Failing("sandbox_inventory", "baseline")
  ELSE IF ~removed THEN Failing("sandbox_cleanup", "baseline")
  ELSE IF worker.teardown_error THEN Failing("worker_group", "baseline")
  ELSE IF worker.timed_out THEN Timeout("baseline")
  ELSE NoError

\* The exception the run of a worker ends with, once its sandbox is bound.
WorkerError(removed) ==
  IF raised # NoError THEN raised
  ELSE IF worker.inventory = "failed" THEN Failing("sandbox_inventory", "baseline")
  ELSE IF ~removed THEN Failing("sandbox_cleanup", "baseline")
  ELSE IF worker.teardown_error THEN Failing("worker_group", "baseline")
  ELSE IF worker.timed_out THEN Timeout("baseline")
  ELSE IF ~worker.payload  THEN Error("baseline")
  ELSE NoError

\* cleanup, whose error is kept, then bind_framework_filesystem, which publishes
\* the inventory first: when that raises, the exception replaces the one in flight
\* and those kept, and the binding has neither the inventory nor the cleanup error.
ReleaseSandbox ==
  /\ At("release")
  /\ \E removed, bound \in BOOLEAN :
       LET state == IF sandbox = "none" THEN "not_created"
                    ELSE IF removed THEN "cleaned" ELSE "cleanup_failed"
           taken   == worker.inventory = "taken"
           cleanup == IF removed THEN NoError ELSE Failing("sandbox_cleanup", "baseline")
           error   == IF bound THEN WorkerError(removed)
                      ELSE Failing("inventory_publication", "baseline")
       IN  /\ ~removed => sandbox = "present"
           /\ ~bound => taken
           /\ sandbox' = IF sandbox = "present" /\ removed THEN "gone" ELSE sandbox
           /\ IF taken THEN WriteArtifact("inventory", bound) ELSE UNCHANGED disk
           /\ builder' =
                [builder EXCEPT
                   !.filesystem = [state |-> state, inventory |-> taken /\ bound,
                                   cleanup_error |-> state = "cleanup_failed" /\ bound],
                   !.evidence_failures = IF worker.inventory = "failed"
                                         THEN @ \cup {"sandbox_inventory"} ELSE @]
           /\ raised' = error
           /\ First(Earlier(cleanup, error))
           /\ Goto(IF error = NoError THEN "bind" ELSE "exit_proxy")
  /\ UNCHANGED <<run, fixture, proxy, worker, errors, failure, draft, result>>

\* bind_effective_baseline, then write_json_trace.
BindHistory ==
  /\ At("bind")
  /\ \E policy, ok \in BOOLEAN :
       /\ ok => policy
       /\ IF policy THEN WriteArtifact("trace", ok) ELSE UNCHANGED disk
       /\ builder' = [builder EXCEPT !.policy = policy, !.trace = ok]
       /\ IF ok THEN Proceed("injection_quiescence")
          ELSE Raise(Error("baseline"), "exit_proxy")
  /\ UNCHANGED <<run, fixture, proxy, sandbox, worker, errors, failure, draft, result>>

-----------------------------------------------------------------------------
(* The evidence *)

\* Mutant of InjectionReport: only a live proxy is asked.
InjectionReport_Live == IF proxy = "running" THEN "proxy" ELSE "none"

\* _injection_report reports on the proxy the scope holds; without one it says
\* "none".
InjectionReport == IF proxy = "none" THEN "none" ELSE "proxy"

TakeReport ==
  /\ At("injection_quiescence")
  /\ \/ Proceed("after_snapshot")
     \/ /\ proxy # "none"
        /\ \E e \in {Error("injection_quiescence"), Timeout("injection_quiescence")} :
             Raise(e, "exit_proxy")
  /\ UNCHANGED <<run, fixture, proxy, sandbox, worker, errors, builder, failure,
                 draft, disk, result>>

TakeAfterSnapshot ==
  /\ At("after_snapshot")
  /\ Proceed("evaluation") \/ Raise(Error("after_snapshot"), "exit_proxy")
  /\ UNCHANGED <<run, fixture, proxy, sandbox, worker, errors, builder, failure,
                 draft, disk, result>>

\* _evaluate_success hands the builder everything at once, after score.evaluate.
Evaluate ==
  /\ At("evaluation")
  /\ \/ /\ builder' = [builder EXCEPT !.after = TRUE, !.claim = TRUE, !.evaluation = TRUE,
                                       !.report = InjectionReport]
        /\ Proceed("exit_proxy")
     \/ Raise(Error("evaluation"), "exit_proxy") /\ UNCHANGED builder
  /\ UNCHANGED <<run, fixture, proxy, sandbox, worker, errors, failure, draft, disk, result>>

\* _ProxyScope.__exit__ does not replace a primary exception.
ExitProxy ==
  /\ At("exit_proxy")
  /\ \/ /\ proxy' = IF proxy = "none" THEN "none" ELSE "stopped"
        /\ Proceed(IF raised = NoError THEN LeaveExecution ELSE "capture")
        /\ UNCHANGED builder
     \/ /\ proxy # "none"
        /\ proxy' = "unstopped"
        /\ IF raised = NoError
           THEN Raise(Error("proxy_teardown"), "capture") /\ UNCHANGED builder
           ELSE /\ builder' = [builder EXCEPT !.evidence_failures = @ \cup {"proxy_teardown"}]
                /\ Proceed("capture")
  /\ UNCHANGED <<run, fixture, sandbox, worker, errors, failure, draft, disk, result>>

\* _capture_failure_evidence takes what the execution did not get to; what
\* fails here becomes an evidence failure.
CaptureFailureEvidence ==
  /\ At("capture")
  /\ \E reported, seen \in BOOLEAN :
       /\ ~reported => builder.report = "missing" /\ proxy # "none"
       /\ ~seen => builder.before /\ ~builder.after
       /\ builder' =
            [builder EXCEPT
               !.report = IF @ = "missing" /\ reported THEN InjectionReport ELSE @,
               !.after  = @ \/ (builder.before /\ seen),
               !.evidence_failures = @ \cup (IF reported THEN {} ELSE {"injection_report"})
                                       \cup (IF seen THEN {} ELSE {"after_snapshot"})]
  /\ failure' = [failure EXCEPT !.execution = raised]
  /\ raised' = NoError
  /\ Goto(LeaveExecution)
  /\ UNCHANGED <<run, fixture, proxy, sandbox, worker, errors, primary, draft, disk, result>>

-----------------------------------------------------------------------------
(* The receipt: _finalize_run and the ReceiptBuilder *)

\* Mutant of Classify: an unforeseen stage becomes a status of its own.
Classify_ByStage(e) == IF e.timeout THEN "timeout" ELSE e.stage

\* classify_failure
Classify(e) ==
  IF e.timeout THEN "timeout"
  ELSE IF e.stage = "evaluation" THEN "evaluation_error"
  ELSE IF e.stage \in {"baseline", "injection_quiescence", "after_snapshot", "playwright_trace",
                      "playwright_trace_publish", "playwright_context_close",
                      "playwright_browser_close"} THEN "baseline_error"
  ELSE "setup_error"

\* What write_success asks of the evidence.
Complete(b, learned) ==
  /\ b.prompt /\ b.before /\ b.after /\ b.claim /\ b.trace /\ b.evaluation
  /\ b.report # "missing"
  /\ learned => /\ b.policy
                /\ b.filesystem = [state |-> "cleaned", inventory |-> TRUE,
                                   cleanup_error |-> FALSE]

\* Mutant of Failure: a failed teardown comes first.
Failure_FixtureFirst == IF failure.fixture # NoError THEN failure.fixture ELSE failure.execution

Failure == IF failure.execution # NoError THEN failure.execution ELSE failure.fixture

\* A run without a failure is one whose execution completed.
Finalize ==
  /\ At("finalize")
  /\ IF Failure = NoError /\ run.source # "refused" /\ Complete(builder, run.learned)
     THEN /\ draft' = [status |-> "success", failure |-> NoError, evidence |-> builder]
          /\ Goto("link")
          /\ UNCHANGED raised
     ELSE /\ raised' = IF Failure # NoError THEN Failure ELSE Error("receipt_write")
          /\ Goto("write_failure")
          /\ UNCHANGED draft
  /\ UNCHANGED <<run, fixture, proxy, sandbox, worker, errors, builder, failure, primary,
                 disk, result>>

\* write_failure: a learned run that never got to its sandbox says so, and no
\* evaluation accompanies a failure.
FailureEvidence ==
  [builder EXCEPT !.evaluation = FALSE,
                  !.filesystem.state = IF run.learned /\ @ = "unbound" THEN "not_created" ELSE @]

WriteFailure ==
  /\ At("write_failure")
  /\ builder' = FailureEvidence
  /\ draft' = [status |-> Classify(raised), failure |-> raised, evidence |-> FailureEvidence]
  /\ Goto("link")
  /\ UNCHANGED <<run, fixture, proxy, sandbox, worker, errors, raised, failure, primary,
                 disk, result>>

\* Mutant of WriteFails: the exception is dropped and the path returned.
WriteFails_Dropped ==
  /\ result' = [status |-> IF draft.status = "success" THEN "success" ELSE "failure",
                error |-> raised, receipt_path |-> TRUE, receipt_error |-> FALSE]
  /\ Goto("returned")
  /\ UNCHANGED raised

\* What a write that raises leads to: a failure receipt about it, or, when it
\* was one already, a result that reports both.
WriteFails ==
  IF draft.status = "success"
  THEN /\ raised' = Error("receipt_write")
       /\ Goto("write_failure")
       /\ UNCHANGED result
  ELSE /\ result' = [status |-> "failure", error |-> raised,
                     receipt_path |-> FALSE, receipt_error |-> TRUE]
       /\ Goto("returned")
       /\ UNCHANGED raised

LinkOnto(free) ==
  /\ At("link")
  /\ \/ /\ free
        /\ disk' = [disk EXCEPT !.receipt = draft, !.temporary = TRUE]
        /\ Goto("unlink")
        /\ UNCHANGED <<raised, result>>
     \/ /\ WriteFails
        /\ \E temporary \in {disk.temporary, TRUE} :
             disk' = [disk EXCEPT !.temporary = temporary]
  /\ UNCHANGED <<run, fixture, proxy, sandbox, worker, errors, builder, failure, primary, draft>>

\* Mutant of Link: os.replace in place of os.link.
Link_Replaces == LinkOnto(TRUE)

\* write_receipt: a synced temporary file, linked unless the name is taken.  It
\* may fail anywhere, and then removes the temporary file if it can.
Link == LinkOnto(disk.receipt.status = "absent")

\* The temporary name goes; failing here fails the write, yet the receipt is out.
Unlink ==
  /\ At("unlink")
  /\ \/ /\ result' = [status |-> IF draft.status = "success" THEN "success" ELSE "failure",
                      error |-> raised, receipt_path |-> TRUE, receipt_error |-> FALSE]
        /\ disk' = [disk EXCEPT !.temporary = FALSE]
        /\ Goto("returned")
        /\ UNCHANGED raised
     \/ /\ WriteFails
        /\ \E temporary \in {disk.temporary, FALSE} :
             disk' = [disk EXCEPT !.temporary = temporary]
  /\ UNCHANGED <<run, fixture, proxy, sandbox, worker, errors, builder, failure, primary, draft>>

\* The process is killed: what is on disk stays, everything else dies with it.
Killed ==
  /\ pc \notin {"returned", "killed"}
  /\ Goto("killed")
  /\ UNCHANGED <<run, fixture, proxy, sandbox, worker, errors, builder, raised, failure,
                 primary, draft, disk, result>>

Over == pc \in {"returned", "killed"} /\ UNCHANGED vars

Next ==
  \/ EnsureCanonicalSource \/ VerifyFixtureIdentity
  \/ EnterFixture \/ WaitUntilReady \/ ServerCrashes \/ UndoSetup
  \/ StopFixtureServer \/ RemoveDirectory
  \/ SelectBaseline \/ PrepareInitialState \/ EnterProxy
  \/ RunControl \/ StopTrace \/ CloseContext \/ CloseBrowser \/ LeavePlaywright
  \/ PublishTrace \/ RaiseErrors \/ RemoveTraceDirectory
  \/ CreateSandbox \/ RunWorker \/ CaptureInventory \/ ReleaseSandbox \/ BindHistory
  \/ TakeReport \/ TakeAfterSnapshot \/ Evaluate
  \/ ExitProxy \/ CaptureFailureEvidence
  \/ Finalize \/ WriteFailure \/ Link \/ Unlink
  \/ Killed \/ Over

Spec == Init /\ [][Next]_vars

-----------------------------------------------------------------------------
(* Properties *)

\* This run has a receipt out.
Published == disk.receipt.status \notin {"absent", "earlier"}
Success   == disk.receipt.status = "success"

\* Every stage a receipt speaks of.
Named(receipt) == {receipt.failure.stage} \cup receipt.evidence.evidence_failures

\* README.md: a receipt is finalized "only after proxy and fixture teardown
\* succeed", and what they left behind is never silent: a success stands for a
\* proxy, server, directory and sandbox that are gone and a server that never
\* crashed, a failure names the teardown that failed.
TeardownBeforeReceipt ==
  Published =>
    /\ proxy # "running" /\ fixture.server # "running" /\ ~fixture.listener
    /\ Success => /\ proxy \in {"none", "stopped"}
                  /\ fixture.server \in {"none", "stopped"}
                  /\ ~fixture.directory /\ sandbox # "present"
    /\ proxy = "unstopped" => "proxy_teardown" \in Named(disk.receipt)
    /\ fixture.directory \/ fixture.server = "stuck" =>
         Named(disk.receipt) \cap {"fixture_setup", "fixture_teardown"} # {}
    /\ sandbox = "present" => disk.receipt.evidence.filesystem.state = "cleanup_failed"

\* A published receipt, an earlier run's included, is never replaced: not by
\* the failure receipt about a success whose write was reported as failed.
NeverReplaced ==
  [][disk.receipt.status # "absent" => disk'.receipt = disk.receipt]_disk

\* What the run returns is what it published: with a path, the receipt is there
\* and has the same outcome and the same error; without one, it is a failure.
ResultAgrees ==
  At("returned") =>
    /\ result.receipt_path # result.receipt_error
    /\ result.receipt_path => /\ disk.receipt = draft
                              /\ (result.status = "success") = Success
                              /\ result.error = disk.receipt.failure
    /\ result.receipt_error => result.status = "failure"

\* The operations whose exceptions replace a first one, because the code runs them
\* unguarded while it is in flight or kept: undoing a failed setup, leaving
\* Playwright and the trace's directory, publishing a sandbox's inventory; and what
\* is raised about a sandbox comes before a worker's deadline or its group.
Replacing(e) ==
  CASE e.stage = "fixture_setup" -> {"undo_setup"}
    [] ~run.learned /\ e.stage \in BrowserStages -> {"driver", "trace_directory"}
    [] run.learned /\ e.stage = "baseline" ->
         {"inventory_publication"} \cup
         IF e \in {Timeout("baseline"), Failing("worker_group", "baseline")}
         THEN {"sandbox_inventory", "sandbox_cleanup", "worker_group"} ELSE {}
    [] OTHER -> {}

StandsFor(e, first) == e = first \/ e.by \in Replacing(first)

\* The exception returned and receipted is the first one the run met, or one of the
\* few operations that may replace it: no other failure after it, of the evidence,
\* of proxy or fixture teardown, of the receipt, and none at all once the baseline
\* is over (PROTOCOL.md: a receipt failure "cannot replace the primary execution
\* exception"; _ProxyScope: "without replacing a primary exception").
PrimarySurvives ==
  primary # NoError =>
    /\ At("returned") => StandsFor(result.error, primary)
    /\ Published      => StandsFor(disk.receipt.failure, primary)

\* validate_manifest: _status_invariants, _framework_filesystem_invariants, the
\* kind rule of _injection_invariants, _canonical_invariants and the binding of
\* artifacts.
Valid(receipt, kind, artifacts) ==
  LET b == receipt.evidence
      success == receipt.status = "success"
  IN  /\ success => /\ receipt.failure = NoError
                    /\ Complete(b, kind.learned)
                    /\ kind.source # "refused"
                    /\ "trace" \in artifacts
      /\ ~success => receipt.failure # NoError /\ ~b.evaluation
      /\ b.report # "missing" => b.report = IF kind.injected THEN "proxy" ELSE "none"
      /\ CASE b.filesystem.state = "unbound" -> ~kind.learned
           [] b.filesystem.state = "not_created" ->
                kind.learned /\ ~b.filesystem.inventory /\ ~b.filesystem.cleanup_error
           [] b.filesystem.state = "cleaned" -> kind.learned /\ ~b.filesystem.cleanup_error
           [] b.filesystem.state = "cleanup_failed" -> kind.learned /\ b.filesystem.cleanup_error
      /\ b.filesystem.inventory => "inventory" \in artifacts

\* Every receipt must validate, says PROTOCOL.md.
ReceiptsValidate == Published => Valid(disk.receipt, run, disk.artifacts)

\* It does once the proxy scope was entered, unless the sandbox stayed and its
\* inventory could not be published either.
StartedReceiptsValidate ==
  LET b == disk.receipt.evidence
  IN  Published /\ b.prompt /\ (b.filesystem.state = "cleanup_failed" => b.filesystem.cleanup_error)
        => Valid(disk.receipt, run, disk.artifacts)

\* A deadline that passed, a worker's or that of the fixture's start or of
\* quiescence, is never a success, and is the status of the receipt unless the
\* clean-up after it failed as well: then that failure is (PROTOCOL.md would have
\* timeouts "remain explicit").
TimeoutTold ==
  LET b == disk.receipt.evidence
      uncleaned == \/ fixture.directory \/ fixture.server = "stuck"
                   \/ worker.teardown_error \/ b.filesystem.state = "cleanup_failed"
                   \/ worker.inventory # "none" /\ ~b.filesystem.inventory
  IN  Published /\ (worker.timed_out \/ primary.timeout) =>
        /\ disk.receipt.status # "success"
        /\ disk.receipt.status = "timeout" \/ uncleaned
=============================================================================

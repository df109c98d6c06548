# BrowserTransactionBench in TLA+

This directory specifies, model-checks and proves properties of
BrowserTransactionBench, the benchmark in `src/`: an agent or a scripted control
sends messages through a small web application while a proxy drops the
acknowledgement of one committed send, and the harness decides afterwards, from
the database and the proxy's records, what really happened.  A verdict is only
as good as that evidence.  The specifications are about when it can be trusted:
which interleavings, failures and crashes the evidence survives.

## The system

| Part | Code | State it keeps | Operations |
| --- | --- | --- | --- |
| Message fixture | `btb/app/db.py`, `server.py` | tables `drafts`, `messages` (UNIQUE `send_uid`), `send_attempts`; one SQLite write lock | create, save, send, list; one thread per request |
| Web page | `btb/app/templates/index.html` | `currentDraftId`, the lists it displays | create, save, send, refresh; every click a request of its own |
| Fault proxy | `btb/harness/inject.py` | in-flight count, sequence counters, commit counter, request and attempt receipts | accept, number, forward, treat, record; quiescence, report, shutdown |
| Engine | `btb/harness/engine.py` | stage, receipt builder, proxy scope | environment, baseline, report, snapshot, evaluation, teardown, receipt |
| Receipt builder | `btb/harness/manifest.py` | accumulated evidence, finalized path | bind, write_success, write_failure, link without overwrite |
| Oracle | `btb/oracle/score.py`, `claim.py` | none | evaluate before/after snapshots, claim and report |
| Validator | `btb/harness/validate_manifest.py` | none | recompute every derived field of a receipt |
| Controls | `btb/baselines/play.py` | none between pages | exact, naive_retry |
| Repetition runner | `btb/harness/repetition.py` | the receipt directory; `existing`, deadline, lists of one invocation | plan, run, resume, publish, roll back |
| Summary | `btb/harness/repetition_summary.py` | two output files and their backups | replace both or neither |
| Environment, sandbox | `btb/harness/runtime.py`, `browser_use_sandbox.py` | server thread, directories, process group | enter, exit, quiesce, inventory, clean |

How they interact.  The browser opens connections to the proxy, the proxy one
upstream call per request to the fixture, and the fixture's handlers contend for
SQLite's write lock.  The engine holds the other end: when the baseline is over
it closes the browser, waits on the proxy's condition variable until nothing is
in flight, reads the report, reads the database, and only then shuts the proxy
down; on a failure the order is shutdown, report, snapshot.  The repetition
runner starts one worker process per planned cell; the worker runs the engine and
writes into a staging directory, and the parent alone publishes.

What is hard: the proxy's counters and receipts are touched under several
acquisitions of one lock by many threads; its upstream timeout (10 s) is shorter
than the fixture's `busy_timeout` (30 s), so a send it gave up on may still
commit; connections may be accepted, or sit in the backlog, while the evidence is
being read; and the publication of a receipt is a sequence of links and unlinks
that a failure or a crash may interrupt anywhere, with a rollback that may fail as
well.  `PROJECT.json` lists these hazards line by line.

## Modules

    FixtureDB          tables and handlers            db.py, server.py
      InjectProxy      EXTENDS FixtureDB:             inject.py, and the end of a run in engine.py
        MCInjectProxy
        Reconciliation                                the reconciliation status of score.py
          MCReconciliation
          ControlRun   page and scripted control      index.html, play.py
    SendService        what a sender is promised; InjectProxy implements it
    Tasks              the frozen task definitions    btb/tasks/definitions
      Oracle           EXTENDS Tasks                  score.py, claim.py
        Validator      EXTENDS Oracle                 validate_manifest.py
          Scoring      one run, from its calls to its validated receipt
    StudyRunner        execute_plan and publication   repetition.py
    Summary            counting and publication       repetition_summary.py
      MCSummary
    RunLifecycle       one run and its receipt        engine.py, runtime.py, manifest.py,
      MCRunLifecycle                                  browser_use_sandbox.py

    FixtureDBProofs                                   TLAPS proofs, each EXTENDS the module
      InjectProxyProofs                               it is about; an indented one rests on
        InjectReportProofs                            the invariant of the one above it
          ControlRunProofs
    ScoringProofs
    RunLifecycleProofs
    StudyRunnerProofs
    SummaryProofs

**FixtureDB.** A request is one handler run.  `srv[r]` is where the handler is:
`SendSelect` is the SELECT outside the transaction, `SendInsert` the INSERT that
opens the transaction and takes the lock (`writer`), `SendCommit` the attempt row
and `commit()`.  `SaveUpdate`/`SaveSelect` are the two statements of `save_draft`.
`BusyTimeout` is a statement that waited longer than `busy_timeout`.  A message is
named by the request that inserted it; a request also stands for the uid the
server mints for it.

**InjectProxy.** `thread[r]` follows one connection's handler thread through
`_dispatch`, with a step for every acquisition of the proxy's lock: `Accept`
(`process_request`) or `StartFails` after it (the thread did not start, and the
connection is counted out again), `NewRequest`, `NewAttempt`, `Forward` or `BodyLost` or
`ConnectFails`, `UpstreamAnswers` or `UpstreamFails`, `Drop` or
`ForwardDownstream`, `RecordRequest`, `RecordAttempt`, `Finish`.  `proxy` holds
the fields of `InjectProxy`, `entry[r]` the request and attempt dictionaries of
the handler.  `phase` is the harness: `CloseBrowser`, `AwaitQuiescence`,
`TakeReport`, `TakeSnapshot`, `Join`; the failure path passes `stopping` first.
`DiscardReport` is a snapshot or an evaluation that fails after the report was taken:
the report never reaches the builder, and report and snapshot are taken anew from the
proxy that was shut down.
`UpstreamFails` is enabled as long as there is no answer, and the fixture's
handler runs on.

**SendService** is the abstract specification: sends become durable, senders are
told the truth or nothing, and at most one durable send is left unacknowledged on
purpose.  `KeepsPromise` in InjectProxy is the refinement: `durable` is the
messages table, `outcome` what the client's connection brought, `treated` the
dropped attempts.

**Reconciliation** is `_reconciliation_status` of the oracle over the report.

**ControlRun** puts a page and a control on top of proxy and fixture, all of them
running at once: `PlayControl.msg_send` with its two behaviours, `exact` (reload,
wait until the sent list is loaded, count its rows, send again only if there are
none) and `naive_retry` (send again at once).  A request is named for what the page
issues it for: `load`, `send`, `reload`, `resend`.  `Open` and `Reopen` are
`page.goto`, which abandons every open connection and starts a new document;
`Render` is the answer of a fetch replacing the rows; `SendFailed` is the event
`requestfailed`; `TimeOut` Playwright's own timeout, possible at every wait.
The thread of a send does start here: a send lost without a commit is not
the loss the task is about, and a control that then found its list empty would rightly
send again.  Left out are the page's read of itself and of its draft list, which change nothing and
decide nothing, and the refresh of the sent list after an answered send, after which
nothing is read or sent any more.

**Tasks, Oracle, Validator, Scoring.**  `Tasks` is the three frozen definitions as
records.  `Oracle` is `evaluate`: the contract of each effect class, the forbidden
final states, functional status, violations, headline, reconciliation, calibration,
and the two claim parsers.  `Validator` is what `validate_manifest` computes again
from a receipt, without the oracle's code: `EvaluationIssues` for the evaluation,
`Issues` for that and the agreement of snapshots, claim and report with each other.
`Scoring` is the run they look at: an agent makes calls one after the other
(`CreateDraft`, `SaveDraft`, `ListMessages`, `SendDirectly`, `SendThroughProxy`,
`SendFails`), directly or through the proxy as its task has it, and `Finish` snapshots
and evaluates.  `history` is the truth that neither oracle nor validator sees, and the
properties compare the two with it.  Calls do not overlap there: overlaps are the
subject of InjectProxy and ControlRun.

**Summary.**  `Aggregate` takes a receipt for every planned run and refuses cells
whose receipts disagree (`Refused`); `Cell` counts them; `MoveToBackup`, `Replace`,
`CheckPair`, `DropCsv`, `DropMd` are `write_summaries`, each with the exception it may
raise, and `Unlink` and `Restore` its roll-back, which may fail as well.  `Crash` is a
kill between any two steps, `Recover` the operator who is told of a left-over backup.
A file's content is the number of the attempt that rendered it: the worst case, in
which no two attempts render the same.

**StudyRunner.** One invocation at a time walks the plan: `Invoke` reads the
directory (`LayoutExact` is `validated_receipts`) and charges the budget,
`Skip`/`Consider`/`Launch` are the loop's head with its two looks at the clock,
`WorkerEnds` the worker process, `Stage` the validation and copying of its
output, `Settle` the cleanup and the verdict (`Verdict` keeps the order of the
early returns), then `LinkArtifact`, `WriteReceipt`, `LinkReceipt`,
`FinishPublication` or, at any point, `StepFails` and the rollback.  `Crash` may
strike at every step and forgets all but the directory.  An exception that
`execute_plan` lets out, from `_discard_publication` or `_write_parent_failure` for
example, ends the invocation like a crash, with a temporary name left behind or
without, which are `Crash`'s outcomes.

**RunLifecycle.** One run is one thread that walks nested scopes, and `pc` is the
step it is at; `run` is the kind of run (managed or external, deterministic or
learned, injected or not, source mode).  Nearly every step may raise: an exception
is the operation that raised it (`by`), the stage it is receipted under and whether
it is a `TimeoutError`.  Operations are told apart wherever one may raise while an
earlier exception of the run is in flight or kept, so that a replacement shows even
within a stage.  The model keeps an exception where the code does, in flight
(`raised`), among the errors of the Playwright executor (`errors`) or in
`execution_failure` and `fixture_failure` (`failure`).  `primary` is a history
variable: the first exception of the run to be raised, or caught and kept.  The code
replaces exceptions in four places, and so does the model: `UndoSetup` when stopping
the server or removing the directory raises in the `except` clause, `LeavePlaywright`
when the driver's exit raises (the errors kept are lost), `RemoveTraceDirectory` when
the temporary directory's exit raises, and `ReleaseSandbox` when the publication of
the inventory raises in the `finally` clause.  `EnterFixture`, `WaitUntilReady`, `UndoSetup`, `StopFixtureServer` and
`RemoveDirectory` are `ManagedRunEnvironment`; `EnterProxy` and `ExitProxy` the
`_ProxyScope`; `RunControl` to `RemoveTraceDirectory` the Playwright executor with its
closing steps; `CreateSandbox` to `BindHistory` the Browser Use executor and
its sandbox, whose root the worker may have removed (`sandbox` is "gone": there is no
inventory then, and that is no error); `TakeReport`, `TakeAfterSnapshot`, `Evaluate` the evidence of a
baseline that ended, `CaptureFailureEvidence` that of one that did not; `Finalize`
to `Unlink` are `_finalize_run` and the `ReceiptBuilder`, whose write links a
temporary file to a name that must be free and then removes the temporary name.
The fixture's server thread may die (`ServerCrashes`) and the process be killed
(`Killed`) anywhere.  `builder` holds which evidence is there, not what it says.

## Runs

| Run | Instance | Shows |
| --- | --- | --- |
| `fixture_db` | 3 requests of any kind, 2 drafts, 1 shared uid | idempotency, truthful answers, no stale status check; every handler returns |
| `inject_proxy` | 2 connections, sends and lists, N = 1 | treatment, complete reports, agreeing evidence, exact in-flight count, no standstill once the browser is gone, refinement of SendService |
| `control_run` | both behaviours, four requests, N = 1, under fairness | what the scripted control sends, believes and is scored; the evidence is collected |
| `commit_order` | 2 overlapping sends | finding: commits numbered against attempt order |
| `reconciliation` | a page-load GET and a send | finding: a read before the commit counts as reconciliation |
| `study_runner` | 2 cells, 2 invocations, budget 3, limit 1, 2 artifacts | receipt last, receipts final, staged success earned, cumulative budget, truthful report |
| `study_foreign` | same | finding: the runner mistakes its own receipt for a foreign change |
| `study_teardown` | same | finding: a failed teardown hidden behind a failed cleanup does not block a resume |
| `run_lifecycle` | all 24 kinds of run, with and without an earlier receipt and artifacts | teardown before the receipt and what it left behind named in it, one receipt never replaced, result and receipt agree, the first exception stays the one reported but for named replacements, receipts validate once the proxy scope was entered, timeouts told |
| `receipts_validate` | same | finding: receipts the validator rejects |
| `scoring` | the three frozen tasks, at most 3 calls, every claim | verdict and headline against the truth, validator against oracle |
| `summary` | 2 cells of 2 repetitions, 8 kinds of receipt, 3 attempts | both files or neither, nothing published lost in silence, every run counted |

Bounds and why they are enough.  Two sends already race for the lock, for the
Nth commit and for the sequence counters; the third request of `fixture_db` lets an
original, its duplicate and a bystander overlap.  `inject_proxy` starts
every connection from nothing and lets it be abandoned at every point, so two
connections take all pairs of paths; drafts are saved beforehand there because
the fixture run covers the other states, and the proofs cover every number of
connections and every N.  Identities are symmetric, and symmetry is used in safety
runs only.  `control_run` needs no bound: a control makes at most four requests that
matter.  The idle connections that inject.py expects of a browser that preconnects are
in `inject_proxy`: a connection need never get a request, and one or both are then in
the backlog, or in a handler that waits for a request line, when the browser closes.  In `scoring` three calls allow a send and its retry with a read between
them, a duplicate, a foreign draft created, saved and sent; the oracle compares sets
of new rows with a single expected one, so a fourth row is treated like a third.
In `study_runner` two cells give a run before and a
run after the one that fails, two invocations a resume after anything; a budget
of three ticks with a limit of one lets deadlines fall before, during and after
an attempt; two artifact names distinguish some from all.  The clock stops one
tick past the deadline since every later instant is treated alike.  `summary` needs a
published pair, an attempt that fails over it and one that meets what that left:
three attempts; its receipts are one of each status and defect that the counting or
the refusal tells apart.  RunLifecycle needs no bound: a run's steps are finite, every
kind of run is an initial state, and so is a directory in which an earlier run left a
receipt and artifacts.

Deadlock checking is on except in StudyRunner, where the bound on invocations
stops the system.

Fairness.  FixtureDB: weak fairness of each handler, since a thread-pool thread
keeps running and SQLite's lock holder commits.  ControlRun (`ControlFairness`): weak
fairness of each of the proxy's handler threads, of each fixture handler, of the
harness, which has time limits on the baseline and on quiescence, and of the control,
all of whose waits have a timeout.  Nothing is assumed of the page's scripts and
nothing of the accept loop, which need not take a connection that sits in the
backlog while the harness is closing.  Every other run checks safety only.

## Properties

Each is stated in its module above its definition.  The ones that carry the
benchmark's claims:

- `KeepsPromise`, `TreatmentSound`: the fault is what it is said to be, exactly
  one committed send whose sender learns nothing, for every overlap of sends.
- `QuiescentReportComplete`: a report taken at quiescence misses nothing and
  repeats nothing; its clauses are the trace rules of `validate_manifest`.
- `EvidenceAgrees`: report and snapshot, read at two times, never contradict each
  other, though a send reported as `network_error` may be in the snapshot.
- `ExactSendsOnce`, `ReturnedIsSent`: the reconciling control sends once whatever is
  slow or lost, and a control that returns has sent what it believes it sent.  Its
  branch "absent: retry once" is never taken after a dropped acknowledgement: the
  drop follows the commit, so the reloaded list has the message.
- `ReconciliationObserved`: the report tells the reconciling control from others.
- `NoStandstill`: the handler of an idle connection has no step to take until the
  browser leaves, and quiescence and join wait for it.  Once the browser is closed,
  some thread or handler can go on as long as a connection is in flight, whatever
  connections are idle and whatever sends overlap.  Were only the pages closed and
  the browser's pool of connections left, the join would wait for ever.
- `EvidenceCollected`: under fairness, the harness reaches its evidence and an end after
  every run of the control.  Its connections all carry a request; the idle ones are
  `NoStandstill`'s.
- `PassIsContract`, `HeadlineTells`: the oracle sees two snapshots and no history,
  yet "pass" is exactly having done what the task says, and a headline is never
  kinder than the truth.
- `Reconstructed`: the validator's independent recomputation, which looks at less
  than the oracle, comes to the same evaluation.
- `AcceptedIfObserved`: the validator accepts the receipt of a successful run exactly
  if the proxy observed it whole.  A send whose body was cut short, or a commit whose
  answer the upstream timeout lost, makes an honest receipt invalid.
- `CalibrationJustified`: a belief is called calibrated only for a reason the agent had.
- `ReceiptIsMarker`, `TrustsComplete`, `ReceiptsFinal`: a receipt is the final
  marker of a publication and is never replaced, through failures and crashes.
- `StagedEarned`, `BudgetFits`, `ReportAccounts`: a worker's own receipt stands only
  for a worker that ended well; the cumulative budget; the report's lists.
- `TeardownBeforeReceipt`: no receipt while a proxy or a server runs; a success
  means that nothing was left behind, a failure names the teardown that failed.
- `PrimarySurvives`: a run has many places where a second exception could replace the
  first.  Those that do are the ones `Replacing` names: over a failed set-up of the
  fixture its undoing; over an error of the Playwright executor the driver's exit and
  the trace directory's; over an error of a learned baseline the publication of the
  inventory; and over a worker's deadline or group that stayed what is raised about
  the sandbox (or, for the deadline, the group), which is looked at first.  None of the
  others does: the four closing steps, the proxy's shutdown, the failure evidence,
  the fixture's teardown, the write; and a failure of the report, the snapshot or the
  evaluation is never replaced.
- `NeverReplaced`, `ResultAgrees`: one receipt per run ID, and a caller who is given
  its path is told what it says.  A write whose last step, the removal of the
  temporary name, fails is reported as failed although its receipt, a success even,
  is out: `ResultAgrees` claims nothing of the receipt then.
- `TimeoutTold`: a deadline is never a success, and is the receipt's status unless the
  clean-up after it failed as well.  PROTOCOL.md would have timeouts "remain
  explicit"; a fixture start that hangs past its deadline and whose server then
  cannot be stopped is receipted as the RuntimeError of the stop, and a worker that
  timed out and left a sandbox that cannot be inventoried is a `baseline_error`
  (see Findings).
- `FailureRestores`, `NoSilentLoss`, `LastCopyHeld`: a failed publication of the
  summary restores what was there; an accepted pair is not lost in silence; and the
  only copy of an earlier file goes only when the new pair is in place.
- `EveryRunCounted`: the tables account for every planned run once per breakdown,
  failures included.

## Findings

1. `CommitsReportedInOrder`: overlapping sends may be given commit numbers in the
   opposite order of their attempts; the validator rejects such a receipt.
2. `ObservedReadTheCommit`: the oracle orders a GET by its request sequence, so a
   GET that read the table before the commit can be scored `observed`.
3. `OnlyForeignChange`: after a parent receipt for a failed worker, or for a failed
   publication, the loop continues without adding the run to `existing`, and the
   next cell's layout check stops the study.
4. `TeardownBlocksResume`: the verdict looks at cleanup, inventory and deadline
   before teardown, and a resume at the teardown stage only.
5. `ReceiptsValidate`: a run with an injected task that fails before its proxy
   exists (initial state, proxy start) is receipted with injection kind "none",
   which the validator rejects for that task; the study runner then replaces it by
   a receipt of its own.  Likewise a sandbox that could not be removed and whose
   inventory could not be published is receipted without its cleanup error.

Two divergences without a run.  PROTOCOL.md has every failure, a timeout included, "remain
explicit"; where `Replacing` lets a second exception take the place of the first, the
receipt may have no word of the first.  A fixture start that passed its deadline, and
whose undoing then failed, is a `setup_error`, although `runtime.py` says at that place
that "the exception itself is re-raised after cleanup"; so with a worker's deadline and
a failed clean-up, and with a trace that could not be stopped before the driver's exit
raised.  And `save_draft` of `db.py` calls itself idempotent, yet a
second save of a saved draft stamps `updated_at` again; the oracle compares whole rows,
so on the read and send tasks a vain save is an altered draft (`PassIsContract` takes
it as one).

## Proofs

The proof modules are checked by TLAPS for every value of the constants that satisfies
the named assumptions: the caller's uids are distinct from minted ones, N is at least 1,
the set of requests is finite, the kinds of run and of receipt are some of those there
are, the runner's limits and the bound on a run's calls are natural numbers, and a
control's requests are the sends and lists ControlRun names.

*Fixture.* None of the invariants is inductive alone.  `DBInv` adds who holds the
lock (`WriterHolds`: exactly the handler between its INSERT and its commit), which
calls can be at which place (`CallsFit`), which rows each place implies
(`RowsMatch`), that an uncommitted INSERT is still fresh (`FreshStands`) and that a
collision has its original (`CollisionStands`), and that a selected draft stays
saved (`SavedStays`).  From it `FixtureUidUnique`, `FixtureAnswersMatch` and
`FixtureMessagesOfSavedDrafts` follow.

*Proxy.* `Inv` adds to `DBInv` the exact in-flight count, a `Local` invariant that
relates each thread's place to its entry and to the handler behind it, that the
number of numbered commits is the commit counter (`CommitsCounted`), and what the
harness has collected in which phase (`EvidenceOrdered`).  `ProxyInFlightExact`
needs facts about cardinalities and hence finiteness; `ProxyTreatmentSound` rests
on commit numbers being distinct; `ProxyEvidenceAgrees` on messages only growing.

*Report.* `ReportInv` adds to `Inv` what the counters are worth: request, attempt and
commit numbers are each a numbering 1..n without gap or repetition (`Numbering`,
extended by one number at a time), `send_forwards` is the number of sends forwarded,
each entry's numbers fit its thread's place (`Numbers`), and an entry is final once
its receipts are recorded (`Final`).  A report taken with nothing in flight finds every
numbered entry settled, so it is complete then; it stays so because what it holds is
final.  `ProxyReportComplete` is the result, for any number of connections.

*Promise.* `ProxyKeepsPromise` is the refinement of SendService: each action is a step of
it or changes nothing a sender can tell (`InnerPromise`).  The treatment finds none
before it because commit numbers are distinct; an answer that goes down is the fixture
handler's own by `Local`, so an acknowledged send is in the table and a refused one is
not and never will be; and a commit after the upstream timeout finds a sender who has
been told of an error at most.  One fact is added to `Inv`: an answer on its way down
came from somewhere (`Told`).

*Control.* `ControlInv` puts on top of `ReportInv` what each request's call, client and
treatment know of one another (`Issued`), that nothing is read or sent again before the
send is lost (`Course`), that the list is read again after the commit and sequenced after
the send (`ReadAgain`), what the control has seen at each place (`Believes`), and that the
harness reports on a control that ended (`Evidence`).  A step of a proxy thread or of a
fixture handler touches one request and almost nothing of what the control knows
(`ThreadEffect`, `FixtureEffect`), so the proxy's own
invariants carry over.  The reason
for `ControlSendsOnce` is in `ReadAgain`: a send is lost to the page only by the drop,
which follows the commit, so the reloaded list cannot be empty.

*Study.* The publication invariants rest on the order of links and of removals:
`Inv` of StudyRunnerProofs says which files the directory holds besides those of its
receipts at each step of a publication and of its roll-back, and that a staged
publication carries the worker it was earned by.  For the budget, `BudgetHeld` says of an
invocation that what it has left, what it is spending and what the receipts it goes by
have cost stay within `StudyWall`: a receipt is charged what its publication had spent by
then (`PubCharged`), and a roll-back only takes a receipt away.  The cost of the receipts
is the cardinality of the set of their ticks, so that it can be reasoned about without
induction over a sum.

*Summary.* `Progress` says for each step of the publication and of its roll-back what
targets and backups hold of what the attempt found (`Moved`, `Untouched`,
`CsvDropped`), and `AcceptedKept` where the accepted pair is.  The interesting case is
the second backup's removal failing after the first is gone: the roll-back cannot
restore, and leaves the other backup for the next attempt to refuse.
`SummaryEveryRunCounted` is about the counting: an aggregated cell has a receipt for each
of its repetitions (`RunsKnown`), and each breakdown counts them by a field that has one
of its values (`CountsAll`, `CountFive`), whatever the receipts.

*Scoring.* The invariant is that the tables, the report and the answers tell the same
story as the calls (`Told`): the drafts are the task's and those created, and a draft
that no call wrote is as it was (`DraftsTold`); attempts are the sends that got so far,
messages the commits, one for each uid (`SendsTold`); requests and attempts of the report
are the calls, numbered without gap (`RequestsTold`, `AttemptsTold`); the treatment is of
the commit the task names (`TreatmentTold`); a list showed what was committed before it
(`ListsTold`); and the receipt is of this state (`Received`).  On that, oracle and
validator are functions of a state.  `ReadVerdict`, `SaveVerdict` and `SendVerdict` show
for each task that no failure of the oracle and no failure of the validator is each the
same as what the calls have to be, which gives `ScoringPassIsContract` at once and the
functional status of `ScoringReconstructed`; the other fields follow one by one
(`ViolationsSame`, `ReconciliationSame`, `CalibrationSame`, `HeadlineSame`).
`ScoringAcceptedIfObserved` goes through the validator's rules: each holds of every run,
except that a message without an event, or an attempt that was not forwarded, is what
`ObservedWhole` excludes.

*Lifecycle.* `TeardownBeforeReceipt` speaks of published receipts only, so its
invariant has to carry what happened long before: who holds the fixture, the proxy
and the sandbox at each step (`FixtureHeld`, `ProxyHeld`, `SandboxHeld`) with the
note made of each teardown that failed, where the run's exception is at each step
(`ErrorKept`), that the receipt being written or published is `Honest` about both
(`ReceiptHeld`), and what is returned (`ResultHeld`).  A success that could not be
written becomes a failure about its write, which is sound because an honest success
has no exception and left nothing behind.  For `PrimarySurvives`, `ErrorKept` says at
each step where an exception is kept and that it stands for the first of the run
(`StandsFor`); the steps that may replace one are each shown to be of an operation that
`Replacing` allows for it, and the stage is enough to know which: the undoing runs over
set-up errors only, the driver's exit over errors of the browser's stages only.  `LifecycleTeardownBeforeReceipt`,
`LifecycleResultAgrees` and `LifecyclePrimarySurvives` follow;
`LifecycleNeverReplaced` needs the types and the guard of the link only.

*Receipt.* `ReceiptInv` adds to the lifecycle's invariant where a deadline that passed is
kept on its way to the receipt (`TimeoutKept`: the worker's result, then the exception
in flight, then `failure`, unless the clean-up failed), that the evidence bound agrees
with the run and with the artifacts on disk (`EvidenceHeld`), and that the receipt being
written carries that evidence (`DraftHeld`).  A receipt is only ever linked from the
draft, artifacts are never removed, and after the link only the bookkeeping of the write
moves, so `RunTimeoutTold` and `RunStartedReceiptsValidate` follow.

Only model-checked: what is beyond the prover, liveness (`HandlersReturn`,
`EvidenceCollected`) and ENABLED (`NoStandstill`).  Every other safety invariant and
every action property that a passing run checks is also proved.

## Plan

Done: fixture, proxy and the end of a run; page and control end to end; oracle against
validator; repetition runner; summary; run lifecycle; the refinement of SendService; the
proofs above.  Left: an agent that makes overlapping calls in Scoring.

## Not modelled

Plan construction and identity hashing, git provenance, redaction, schemas,
intervals and rendering: data processing without interleaving.  The identity
checks against foreign writers in the receipt directory: the specification has one
writer, as the code's comments do.  A parent that dies and leaves its worker running
(`repetition.py:1329`): the next invocation cannot know, and no claim of the code covers
it.  The actions of a learned agent, the semantic-policy audits of the third-party agent
package and the validator's rules about versions, prompts and archives, which compare
data with recorded constants.  Legacy prose claims, which no run uses.  Command-line
parsing, `proxy_serve` and CI.  A KeyboardInterrupt unwinding through the scopes of a
run: RunLifecycle raises `Exception`s and kills, nothing between.  `msg_read` and
`msg_draft_save` of the control, which wait for one page element after the other and have
no second path.

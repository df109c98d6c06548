----------------------- MODULE RunLifecycleProofs -----------------------
(***************************************************************************)
(* The safety of the run lifecycle, for any set of kinds of run.  Inv is   *)
(* inductive; its parts say, for each stretch of the lifecycle, which      *)
(* resources are held, where the exception of the run is kept, and what    *)
(* the receipt written or published may say.                               *)
(***************************************************************************)
EXTENDS RunLifecycle, TLAPS

\* The stretches of the lifecycle.
Starting  == {"source", "fixture_identity", "fixture_setup", "ready", "undo_setup"}
Unproxied == {"select", "initial_state", "injection_setup"}
Browsing  == {"closing", "context", "browser", "driver", "publish_trace", "errors",
              "trace_directory"}
Working   == Browsing \cup {"baseline", "bind", "injection_quiescence", "after_snapshot",
                            "evaluation"}
Boxed     == {"worker", "inventory", "release"}
Executing == Unproxied \cup Working \cup Boxed \cup {"exit_proxy", "capture"}
Leaving   == {"leave_fixture", "remove_directory", "finalize"}
Writing   == {"write_failure", "link", "unlink", "returned"}

SetupStages == {"fixture_setup", "fixture_teardown"}

\* Who holds the fixture, and that a teardown that failed has been noted.
FixtureHeld ==
  /\ pc \in {"source", "fixture_identity", "fixture_setup"} \/ ~run.managed =>
       fixture = [directory |-> FALSE, listener |-> FALSE, server |-> "none"]
  /\ pc \in {"fixture_setup", "ready", "undo_setup", "leave_fixture", "remove_directory"} =>
       run.managed
  /\ pc \in {"remove_directory", "finalize"} \cup Writing =>
       fixture.server # "running" /\ ~fixture.listener
  /\ pc = "finalize" /\ (fixture.directory \/ fixture.server \in {"stuck", "crashed"}) =>
       /\ failure.fixture.stage \in SetupStages
       /\ failure.execution # NoError => "fixture_teardown" \in builder.evidence_failures

\* Who holds the proxy, and that a shutdown that failed has been noted.
ProxyHeld ==
  /\ pc \in Starting \cup Unproxied => proxy = "none"
  /\ pc \in Working \cup Boxed \cup {"exit_proxy"} => proxy \in {"none", "running"}
  /\ pc \in {"capture"} \cup Leaving \cup Writing => proxy # "running"
  /\ proxy = "unstopped" =>
       /\ pc = "capture" =>
            "proxy_teardown" \in {raised.stage} \cup builder.evidence_failures
       /\ pc \in Leaving =>
            /\ failure.execution # NoError
            /\ "proxy_teardown" \in {failure.execution.stage} \cup builder.evidence_failures

\* Who holds the sandbox, and that a removal that failed has been bound.
SandboxHeld ==
  /\ sandbox # "none" => run.learned
  /\ pc \in Starting \cup Unproxied \cup {"baseline"} => sandbox = "none"
  /\ sandbox = "present" /\ pc \notin Boxed \cup {"killed"} =>
       builder.filesystem.state = "cleanup_failed"

\* The run's exception, if it had one, is e or was replaced by it.
Standing(e) == IF primary = NoError THEN e = NoError ELSE e # NoError /\ StandsFor(e, primary)

\* Where nothing has been raised or kept yet.
Unhurt == (Starting \ {"undo_setup"}) \cup Unproxied
            \cup {"baseline", "bind", "injection_quiescence", "after_snapshot", "evaluation"}

\* While the browser is closed: the first of the errors kept, or that of the launch,
\* is the run's first.
BrowserErrors == {Error(stage) : stage \in BrowserStages}
FirstKept     == IF errors = <<>> THEN NoError ELSE errors[1]
BrowserHeld ==
  pc \in Browsing =>
    /\ ~run.learned
    /\ \A i \in DOMAIN errors : errors[i] \in BrowserErrors
    /\ pc \notin {"driver", "trace_directory"} => raised = NoError /\ primary = FirstKept
    /\ pc = "driver" => IF raised = NoError THEN primary = FirstKept
                        ELSE raised = Error("baseline") /\ primary = raised
    /\ pc = "trace_directory" => /\ Standing(raised)
                                 /\ primary # NoError => primary.stage \in BrowserStages
                                 /\ raised # NoError => raised.stage \in BrowserStages

\* While a worker's sandbox is held: its deadline and its group come first, then the
\* inventory.
FirstMet ==
  IF worker.timed_out THEN Timeout("baseline")
  ELSE IF worker.teardown_error THEN Failing("worker_group", "baseline")
  ELSE IF pc = "release" /\ worker.inventory = "failed"
       THEN Failing("sandbox_inventory", "baseline")
  ELSE NoError
WorkerHeld ==
  pc \in Boxed =>
    /\ run.learned
    /\ pc = "worker" => raised = NoError /\ primary = NoError
    /\ pc # "worker" => IF raised = NoError THEN primary = FirstMet
                        ELSE raised = Error("baseline") /\ primary = raised

\* Where the exception is: in flight, in a slot of failure, or being receipted.
ErrorKept ==
  /\ pc \in Unhurt => raised = NoError /\ primary = NoError
  /\ pc \in Starting \cup Unproxied \cup {"baseline"} => errors = <<>>
  /\ pc = "undo_setup" => primary = raised /\ raised.stage = "fixture_setup"
  /\ pc \in {"exit_proxy", "capture"} => Standing(raised)
  /\ pc = "capture" => raised # NoError
  /\ pc \in Starting \cup Executing =>
       failure = [execution |-> NoError, fixture |-> NoError]
  /\ pc \in Leaving => raised = NoError
  /\ pc \in {"leave_fixture", "remove_directory"} =>
       failure.fixture = NoError /\ Standing(failure.execution)
  /\ pc = "finalize" => Standing(Failure)
  /\ pc = "write_failure" =>
       /\ raised # NoError
       /\ primary # NoError => StandsFor(raised, primary)

\* What a receipt may say, given what the run has left behind.
Honest(receipt) ==
  /\ proxy = "unstopped" => "proxy_teardown" \in Named(receipt)
  /\ fixture.directory \/ fixture.server = "stuck" => Named(receipt) \cap SetupStages # {}
  /\ sandbox = "present" => receipt.evidence.filesystem.state = "cleanup_failed"
  /\ receipt.status = "success" =>
       /\ proxy \in {"none", "stopped"} /\ fixture.server \in {"none", "stopped"}
       /\ ~fixture.directory /\ sandbox # "present"
  /\ primary # NoError => StandsFor(receipt.failure, primary)

\* The receipt a failure would be written as, the one being written, and the
\* one that is out.
ReceiptHeld ==
  /\ pc = "write_failure" =>
       LET named == {raised.stage} \cup builder.evidence_failures
       IN  /\ proxy = "unstopped" => "proxy_teardown" \in named
           /\ fixture.directory \/ fixture.server = "stuck" => named \cap SetupStages # {}
  /\ pc \in {"link", "unlink", "returned"} =>
       /\ Honest(draft) /\ draft.failure = raised /\ draft.status \in Statuses
       /\ draft.status = "success" => raised = NoError /\ primary = NoError
  /\ Published =>
       /\ pc \in Writing \cup {"killed"}
       /\ Honest(disk.receipt)
       /\ proxy # "running" /\ fixture.server # "running" /\ ~fixture.listener
  /\ pc = "unlink" => disk.receipt = draft

\* What the run returns.
ResultHeld ==
  pc = "returned" =>
    /\ result.error = raised
    /\ result.receipt_path # result.receipt_error
    /\ result.receipt_path => /\ disk.receipt = draft
                              /\ (result.status = "success") = (draft.status = "success")
    /\ result.receipt_error => result.status = "failure"

Inv ==
  /\ TypeOK
  /\ FixtureHeld
  /\ ProxyHeld
  /\ SandboxHeld
  /\ BrowserHeld
  /\ WorkerHeld
  /\ ErrorKept
  /\ ReceiptHeld
  /\ ResultHeld

-----------------------------------------------------------------------------
(* Exceptions, and the types of the variables *)

\* What the harness raises is an exception.
LEMMA ErrorsTyped ==
  /\ \A s \in Stages : Error(s) \in Exceptions /\ Timeout(s) \in Exceptions
  /\ \A o \in Operations, s \in Stages : Failing(o, s) \in Exceptions
  /\ NoError \in Exceptions
PROOF
<1>1. Stages \subseteq Operations /\ "none" \in Stages
  BY DEF Operations, Stages
<1>2. \A o \in Operations, s \in Stages, t \in BOOLEAN :
        [by |-> o, stage |-> s, timeout |-> t] \in Exceptions
  BY DEF Exceptions
<1> QED
  BY <1>1, <1>2 DEF Error, Failing, Timeout, NoError

\* An exception keeps its stage, and is none only if it has none.
LEMMA ErrorStages ==
  /\ NoError.by = "none" /\ NoError.stage = "none" /\ ~NoError.timeout
  /\ \A o, s : /\ Failing(o, s).by = o /\ Failing(o, s).stage = s /\ ~Failing(o, s).timeout
               /\ s # "none" => Failing(o, s) # NoError
  /\ \A s : /\ Error(s).by = s /\ Error(s).stage = s /\ ~Error(s).timeout
            /\ Timeout(s).by = s /\ Timeout(s).stage = s /\ Timeout(s).timeout
            /\ s # "none" => Error(s) # NoError
            /\ Timeout(s) # NoError /\ Timeout(s) # Error(s)
PROOF
<1>1. \A o, s : Failing(o, s).by = o /\ Failing(o, s).stage = s /\ ~Failing(o, s).timeout
  BY DEF Failing
<1>2. \A s : Timeout(s).by = s /\ Timeout(s).stage = s /\ Timeout(s).timeout
  BY DEF Timeout
<1>3. NoError = Failing("none", "none") /\ \A s : Error(s) = Failing(s, s)
  BY DEF NoError, Error
<1> QED
  BY <1>1, <1>2, <1>3

\* Raising and proceeding keep the types of what they change.
LEMMA RaiseTyped ==
  ASSUME TypeOK, NEW e \in Exceptions, NEW step \in Steps, Raise(e, step)
  PROVE  pc' \in Steps /\ raised' \in Exceptions /\ primary' \in Exceptions
PROOF
  BY DEF TypeOK, Raise, First, Earlier, Goto

LEMMA KeepTyped ==
  ASSUME TypeOK, NEW e \in Exceptions, NEW step \in Steps, Keep(e, step)
  PROVE  pc' \in Steps /\ raised' \in Exceptions /\ primary' \in Exceptions
PROOF
  BY DEF TypeOK, Keep, First, Earlier, Goto

LEMMA ProceedTyped ==
  ASSUME TypeOK, NEW step \in Steps, Proceed(step)
  PROVE  pc' \in Steps /\ raised' \in Exceptions /\ primary' \in Exceptions
PROOF
  BY DEF TypeOK, Proceed, Goto

\* Every step keeps the types.
LEMMA TypeStep ==
  ASSUME TypeOK, Next
  PROVE  TypeOK'
PROOF
<1>1. CASE EnsureCanonicalSource
  BY <1>1, ErrorsTyped DEF EnsureCanonicalSource, At, Goto, Steps, First, Earlier, TypeOK, Stages
<1>2. CASE VerifyFixtureIdentity
  BY <1>2, ErrorsTyped DEF VerifyFixtureIdentity, At, Goto, Steps, First, Earlier, TypeOK, Stages
<1>3. CASE EnterFixture
  <2>1. fixture' \in [directory : BOOLEAN, listener : BOOLEAN,
                      server : {"none", "running", "crashed", "stopped", "stuck"}]
    <3>1. CASE fixture' = [directory |-> TRUE, listener |-> TRUE, server |-> "running"]
      BY <3>1
    <3>2. ASSUME NEW directory \in BOOLEAN, NEW listener \in BOOLEAN,
                 fixture' = [directory |-> directory, listener |-> listener,
                             server |-> "none"]
          PROVE  fixture' \in [directory : BOOLEAN, listener : BOOLEAN,
                      server : {"none", "running", "crashed", "stopped", "stuck"}]
      BY <3>2
    <3> QED
      BY <1>3, <3>1, <3>2 DEF EnterFixture
  <2>2. pc' \in Steps /\ raised' \in Exceptions /\ primary' \in Exceptions
    BY <1>3, ErrorsTyped, RaiseTyped, ProceedTyped DEF EnterFixture, Steps, Stages
  <2> QED
    BY <1>3, <2>1, <2>2 DEF EnterFixture, TypeOK
<1>4. CASE WaitUntilReady
  BY <1>4, ErrorsTyped DEF WaitUntilReady, At, Goto, Steps, Raise, Proceed, First, Earlier,
       TypeOK, Stages
<1>5. CASE ServerCrashes
  BY <1>5 DEF ServerCrashes, TypeOK
<1>6. CASE UndoSetup
  BY <1>6, ErrorsTyped DEF UndoSetup, At, Goto, Steps, TypeOK, Stages, Operations
<1>7. CASE StopFixtureServer
  <2>1. fixture' \in [directory : BOOLEAN, listener : BOOLEAN,
                      server : {"none", "running", "crashed", "stopped", "stuck"}]
    <3>1. PICK s \in IF fixture.server = "running" THEN {"stopped", "stuck"}
                                                   ELSE {fixture.server} :
             fixture' = [fixture EXCEPT !.listener = FALSE, !.server = s]
      BY <1>7 DEF StopFixtureServer, StopServer
    <3>2. s \in {"none", "running", "crashed", "stopped", "stuck"}
      BY DEF TypeOK
    <3> QED
      BY <3>1, <3>2 DEF TypeOK
  <2>2. pc' \in Steps /\ raised' \in Exceptions /\ primary' \in Exceptions
    BY <1>7, ErrorsTyped, RaiseTyped, ProceedTyped DEF StopFixtureServer, Steps, Stages
  <2> QED
    BY <1>7, <2>1, <2>2 DEF StopFixtureServer, TypeOK
<1>8. CASE RemoveDirectory
  <2>1. fixture' \in [directory : BOOLEAN, listener : BOOLEAN,
                      server : {"none", "running", "crashed", "stopped", "stuck"}]
    BY <1>8 DEF RemoveDirectory, TypeOK
  <2>2. builder' \in Builders
    BY <1>8 DEF RemoveDirectory, TypeOK, Builders, Stages
  <2>3. primary' \in Exceptions /\ failure' \in [execution : Exceptions, fixture : Exceptions]
    BY <1>8, ErrorsTyped DEF RemoveDirectory, First, Earlier, TypeOK, Stages
  <2> QED
    BY <1>8, <2>1, <2>2, <2>3 DEF RemoveDirectory, Goto, Steps, TypeOK
<1>9. CASE SelectBaseline
  BY <1>9, ErrorsTyped DEF SelectBaseline, At, Goto, Steps, First, Earlier, LeaveExecution,
       TypeOK, Stages
<1>10. CASE PrepareInitialState
  <2>1. builder' \in Builders
    BY <1>10 DEF PrepareInitialState, TypeOK, Builders
  <2>2. pc' \in Steps /\ raised' \in Exceptions /\ primary' \in Exceptions
    BY <1>10, ErrorsTyped, RaiseTyped, ProceedTyped DEF PrepareInitialState, Steps,
         Stages
  <2> QED
    BY <1>10, <2>1, <2>2 DEF PrepareInitialState, TypeOK
<1>11. CASE EnterProxy
  <2>1. builder' \in Builders
    BY <1>11 DEF EnterProxy, TypeOK, Builders
  <2>2. pc' \in Steps /\ raised' \in Exceptions /\ primary' \in Exceptions
    BY <1>11, ErrorsTyped, RaiseTyped, ProceedTyped DEF EnterProxy, Steps, Stages
  <2> QED
    BY <1>11, <2>1, <2>2 DEF EnterProxy, TypeOK
<1>12. CASE RunControl
  <2>1. <<>> \in Seq(Exceptions) /\ <<Error("baseline")>> \in Seq(Exceptions)
    BY ErrorsTyped DEF Stages
  <2>2. errors' \in Seq(Exceptions)
    BY <1>12, <2>1 DEF RunControl, TypeOK
  <2>3. pc' \in Steps /\ raised' \in Exceptions /\ primary' \in Exceptions
    BY <1>12, ErrorsTyped, RaiseTyped, KeepTyped, ProceedTyped DEF RunControl, Steps, Stages
  <2> QED
    BY <1>12, <2>1, <2>2, <2>3 DEF RunControl, TypeOK
<1>13. ASSUME NEW step, NEW stage \in Stages, NEW next \in Steps, Try(step, stage, next)
       PROVE  TypeOK'
  <2>1. pc' \in Steps /\ raised' \in Exceptions /\ primary' \in Exceptions
    BY <1>13, ErrorsTyped, KeepTyped, ProceedTyped DEF Try
  <2>2. errors' \in Seq(Exceptions)
    BY <1>13, ErrorsTyped DEF Try, TypeOK
  <2> QED
    BY <1>13, <2>1, <2>2 DEF Try, TypeOK
<1>14. CASE StopTrace \/ CloseContext \/ CloseBrowser
  BY <1>13, <1>14 DEF StopTrace, CloseContext, CloseBrowser, Stages, Steps
<1>15. CASE RemoveTraceDirectory
  <2>1. Failing("trace_directory", IF raised = NoError THEN "baseline" ELSE raised.stage)
          \in Exceptions
    <3>1. raised.stage \in Stages /\ "baseline" \in Stages /\ "trace_directory" \in Operations
      BY DEF TypeOK, Exceptions, Operations, Stages
    <3> QED
      BY <3>1, ErrorsTyped
  <2>2. pc' \in Steps /\ raised' \in Exceptions /\ primary' \in Exceptions
    BY <1>15, <2>1, RaiseTyped, ProceedTyped DEF RemoveTraceDirectory, Steps
  <2> QED
    BY <1>15, <2>2 DEF RemoveTraceDirectory, TypeOK
<1>16. CASE LeavePlaywright
  <2>1. pc' \in Steps /\ raised' \in Exceptions /\ primary' \in Exceptions
    BY <1>16, ErrorsTyped, RaiseTyped, ProceedTyped DEF LeavePlaywright, Steps, Stages, Operations
  <2> QED
    BY <1>16, <2>1 DEF LeavePlaywright, TypeOK
<1>17. CASE PublishTrace
  <2>1. PICK ok \in BOOLEAN : PublishTrace!2!(ok)
    BY <1>17 DEF PublishTrace
  <2>2. builder' \in Builders
    BY <2>1 DEF TypeOK, Builders
  <2>3. disk' \in [receipt : Receipts, temporary : BOOLEAN,
                   artifacts : SUBSET {"trace", "inventory"}]
    BY <2>1 DEF WriteArtifact, TypeOK
  <2>4. Error("playwright_trace_publish") \in Exceptions
    BY ErrorsTyped DEF Stages
  <2>5. errors' \in Seq(Exceptions)
    BY <2>1, <2>4 DEF TypeOK
  <2>6. pc' \in Steps /\ raised' \in Exceptions /\ primary' \in Exceptions
    BY <2>1, <2>4, KeepTyped, ProceedTyped DEF Steps
  <2> QED
    BY <1>17, <2>2, <2>3, <2>5, <2>6 DEF PublishTrace, TypeOK
<1>18. CASE RaiseErrors
  <2>1. \A i \in DOMAIN errors : errors[i] \in Exceptions /\ errors[i].stage \in Stages
    <3>1. \A i \in DOMAIN errors : errors[i] \in Exceptions
      BY DEF TypeOK
    <3>2. \A e \in Exceptions : e.stage \in Stages
      BY DEF Exceptions
    <3> QED
      BY <3>1, <3>2
  <2>2. builder' \in Builders
    <3>1. 2..Len(errors) \subseteq DOMAIN errors
      BY DEF TypeOK
    <3>2. {errors[i].stage : i \in 2..Len(errors)} \subseteq Stages
      BY <2>1, <3>1
    <3> QED
      BY <1>18, <3>2 DEF RaiseErrors, TypeOK, Builders
  <2>3. pc' \in Steps /\ raised' \in Exceptions /\ primary' \in Exceptions
    <3>1. errors # <<>> => errors[1] \in Exceptions
      BY <2>1 DEF TypeOK
    <3> QED
      BY <1>18, <3>1, RaiseTyped, ProceedTyped DEF RaiseErrors, Steps
  <2> QED
    BY <1>18, <2>2, <2>3 DEF RaiseErrors, TypeOK
<1>19. CASE CreateSandbox
  <2>1. sandbox' \in {"none", "present", "gone"}
    BY <1>19 DEF CreateSandbox, TypeOK
  <2>2. pc' \in Steps /\ raised' \in Exceptions /\ primary' \in Exceptions
    BY <1>19, ErrorsTyped, RaiseTyped, ProceedTyped DEF CreateSandbox, Steps, Stages
  <2> QED
    BY <1>19, <2>1, <2>2 DEF CreateSandbox, TypeOK
<1>20. CASE RunWorker
  <2> DEFINE Workers == [timed_out : BOOLEAN, teardown_error : BOOLEAN, payload : BOOLEAN,
                         inventory : {"none", "taken", "failed"}]
  <2>1. CASE Raise(Error("baseline"), "inventory") /\ UNCHANGED worker
    <3>1. pc' \in Steps /\ raised' \in Exceptions /\ primary' \in Exceptions
      BY <2>1, ErrorsTyped, RaiseTyped DEF Steps, Stages
    <3> QED
      BY <1>20, <2>1, <3>1 DEF RunWorker, TypeOK
  <2>2. ASSUME NEW timed_out \in BOOLEAN, NEW teardown_error \in BOOLEAN,
               NEW payload \in BOOLEAN,
               worker' = [timed_out |-> timed_out, teardown_error |-> teardown_error,
                          payload |-> payload, inventory |-> "none"],
               Keep(IF timed_out THEN Timeout("baseline")
                    ELSE IF teardown_error THEN Failing("worker_group", "baseline")
                    ELSE NoError, "inventory")
        PROVE  TypeOK'
    <3>1. worker' \in Workers
      BY <2>2
    <3>2. pc' \in Steps /\ raised' \in Exceptions /\ primary' \in Exceptions
      BY <2>2, ErrorsTyped, KeepTyped DEF Steps, Stages, Operations
    <3> QED
      BY <1>20, <3>1, <3>2 DEF RunWorker, TypeOK
  <2> QED
    BY <1>20, <2>1, <2>2 DEF RunWorker
<1>21. CASE CaptureInventory
  <2>1. PICK i \in {"none", "taken", "failed"} :
          /\ worker' = [worker EXCEPT !.inventory = i]
          /\ Keep(IF i = "failed" THEN Failing("sandbox_inventory", "baseline") ELSE NoError,
                  "release")
    BY <1>21 DEF CaptureInventory
  <2>2. pc' \in Steps /\ raised' \in Exceptions /\ primary' \in Exceptions
    BY <2>1, ErrorsTyped, KeepTyped DEF Steps, Stages, Operations
  <2> QED
    BY <1>21, <2>1, <2>2 DEF CaptureInventory, TypeOK
<1>22. CASE ReleaseSandbox
  <2>0. PICK removed \in BOOLEAN, bound \in BOOLEAN : ReleaseSandbox!2!(removed, bound)
    BY <1>22 DEF ReleaseSandbox
  <2> DEFINE state  == IF sandbox = "none" THEN "not_created"
                       ELSE IF removed THEN "cleaned" ELSE "cleanup_failed"
             taken   == worker.inventory = "taken"
             cleanup == IF removed THEN NoError ELSE Failing("sandbox_cleanup", "baseline")
             error   == IF bound THEN WorkerError(removed)
                        ELSE Failing("inventory_publication", "baseline")
  <2>1. builder' \in Builders
    <3> DEFINE filesystem == [state |-> state, inventory |-> taken /\ bound,
                              cleanup_error |-> state = "cleanup_failed" /\ bound]
               stages == IF worker.inventory = "failed"
                         THEN builder.evidence_failures \cup {"sandbox_inventory"}
                         ELSE builder.evidence_failures
    <3>2. filesystem \in Filesystems
      BY DEF Filesystems
    <3>3. stages \in SUBSET Stages
      BY DEF TypeOK, Builders, Stages
    <3>4. builder' = [builder EXCEPT !.filesystem = filesystem,
                                     !.evidence_failures = stages]
      BY <2>0
    <3> HIDE DEF filesystem, stages
    <3> QED
      BY <3>2, <3>3, <3>4 DEF TypeOK, Builders
  <2>2. disk' \in [receipt : Receipts, temporary : BOOLEAN,
                   artifacts : SUBSET {"trace", "inventory"}]
    BY <2>0 DEF WriteArtifact, TypeOK
  <2>3. error \in Exceptions /\ cleanup \in Exceptions
    BY ErrorsTyped DEF WorkerError, TypeOK, Stages, Operations
  <2>4. raised' = error /\ First(Earlier(cleanup, error))
        /\ Goto(IF error = NoError THEN "bind" ELSE "exit_proxy")
        /\ sandbox' = IF sandbox = "present" /\ removed THEN "gone" ELSE sandbox
    BY <2>0
  <2> HIDE DEF error, cleanup
  <2>5. pc' \in Steps /\ raised' \in Exceptions /\ primary' \in Exceptions
    BY <2>3, <2>4 DEF First, Earlier, Goto, Steps, TypeOK
  <2>6. sandbox' \in {"none", "present", "gone"}
    BY <2>4 DEF TypeOK
  <2> QED
    BY <1>22, <2>1, <2>2, <2>5, <2>6 DEF ReleaseSandbox, TypeOK
<1>23. CASE BindHistory
  <2>1. builder' \in Builders
    <3>1. PICK policy \in BOOLEAN, ok \in BOOLEAN :
             builder' = [builder EXCEPT !.policy = policy, !.trace = ok]
      BY <1>23 DEF BindHistory
    <3> QED
      BY <3>1 DEF TypeOK, Builders
  <2>2. disk' \in [receipt : Receipts, temporary : BOOLEAN,
                   artifacts : SUBSET {"trace", "inventory"}]
    BY <1>23 DEF BindHistory, WriteArtifact, TypeOK
  <2>3. pc' \in Steps /\ raised' \in Exceptions /\ primary' \in Exceptions
    BY <1>23, ErrorsTyped, RaiseTyped, ProceedTyped DEF BindHistory, Steps, Stages
  <2> QED
    BY <1>23, <2>1, <2>2, <2>3 DEF BindHistory, TypeOK
<1>24. CASE TakeReport
  BY <1>24, ErrorsTyped DEF TakeReport, At, Goto, Steps, Raise, Proceed, First, Earlier, TypeOK,
       Stages
<1>25. CASE TakeAfterSnapshot
  BY <1>25, ErrorsTyped DEF TakeAfterSnapshot, At, Goto, Steps, Raise, Proceed, First, Earlier,
       TypeOK, Stages
<1>26. CASE Evaluate
  <2>1. builder' \in Builders
    <3>1. InjectionReport \in {"missing", "none", "proxy"}
      BY DEF InjectionReport
    <3>2. CASE builder' = [builder EXCEPT !.after = TRUE, !.claim = TRUE,
                                          !.evaluation = TRUE, !.report = InjectionReport]
      BY <3>1, <3>2 DEF TypeOK, Builders
    <3>3. CASE UNCHANGED builder
      BY <3>3 DEF TypeOK
    <3> QED
      BY <1>26, <3>2, <3>3 DEF Evaluate
  <2>2. pc' \in Steps /\ raised' \in Exceptions /\ primary' \in Exceptions
    BY <1>26, ErrorsTyped, RaiseTyped, ProceedTyped DEF Evaluate, Steps, Stages
  <2> QED
    BY <1>26, <2>1, <2>2 DEF Evaluate, TypeOK
<1>27. CASE ExitProxy
  BY <1>27, ErrorsTyped DEF ExitProxy, At, Goto, Steps, LeaveExecution, Raise, Proceed,
       First, Earlier, TypeOK, Stages, Builders
<1>28. CASE CaptureFailureEvidence
  <2>1. builder' \in Builders
    <3>1. PICK reported \in BOOLEAN, seen \in BOOLEAN :
             builder' =
               [builder EXCEPT
                  !.report = IF @ = "missing" /\ reported THEN InjectionReport ELSE @,
                  !.after  = @ \/ (builder.before /\ seen),
                  !.evidence_failures = @ \cup (IF reported THEN {} ELSE {"injection_report"})
                                          \cup (IF seen THEN {} ELSE {"after_snapshot"})]
      BY <1>28 DEF CaptureFailureEvidence
    <3> DEFINE report == IF builder.report = "missing" /\ reported
                         THEN InjectionReport ELSE builder.report
               after  == builder.after \/ (builder.before /\ seen)
               stages == builder.evidence_failures
                           \cup (IF reported THEN {} ELSE {"injection_report"})
                           \cup (IF seen THEN {} ELSE {"after_snapshot"})
    <3>2. report \in {"missing", "none", "proxy"}
      BY DEF InjectionReport, TypeOK, Builders
    <3>3. after \in BOOLEAN
      OBVIOUS
    <3>4. stages \in SUBSET Stages
      BY DEF TypeOK, Builders, Stages
    <3>5. builder' = [builder EXCEPT !.report = report, !.after = after,
                                     !.evidence_failures = stages]
      BY <3>1
    <3> HIDE DEF report, after, stages
    <3> QED
      BY <3>2, <3>3, <3>4, <3>5 DEF TypeOK, Builders
  <2>2. failure' \in [execution : Exceptions, fixture : Exceptions]
    BY <1>28 DEF CaptureFailureEvidence, TypeOK
  <2> QED
    BY <1>28, <2>1, <2>2, ErrorsTyped DEF CaptureFailureEvidence, Goto, LeaveExecution, Steps,
       TypeOK
<1>29. CASE Finalize
  BY <1>29, ErrorsTyped DEF Finalize, At, Goto, Steps, Failure, TypeOK, Stages,
       Receipts, Statuses
<1>30. CASE WriteFailure
  <2>1. builder' \in Builders
    BY <1>30 DEF WriteFailure, FailureEvidence, TypeOK, Builders, Filesystems
  <2>2. draft' \in Receipts
    BY <1>30, <2>1 DEF WriteFailure, Classify, TypeOK, Receipts, Statuses
  <2> QED
    BY <1>30, <2>1, <2>2 DEF WriteFailure, Goto, Steps, TypeOK
<1>31. CASE Link
  <2>1. disk' \in [receipt : Receipts, temporary : BOOLEAN,
                   artifacts : SUBSET {"trace", "inventory"}]
    BY <1>31 DEF Link, LinkOnto, TypeOK
  <2>2. result' \in Results
    <3>1. CASE UNCHANGED result
      BY <3>1 DEF TypeOK
    <3>2. CASE result' = [status |-> "failure", error |-> raised,
                          receipt_path |-> FALSE, receipt_error |-> TRUE]
      BY <3>2 DEF TypeOK, Results
    <3> QED
      BY <1>31, <3>1, <3>2 DEF Link, LinkOnto, WriteFails
  <2>3. pc' \in Steps /\ raised' \in Exceptions
    BY <1>31, ErrorsTyped DEF Link, LinkOnto, WriteFails, Goto, Steps, TypeOK, Stages
  <2> QED
    BY <1>31, <2>1, <2>2, <2>3 DEF Link, LinkOnto, TypeOK
<1>32. CASE Unlink
  <2>1. disk' \in [receipt : Receipts, temporary : BOOLEAN,
                   artifacts : SUBSET {"trace", "inventory"}]
    BY <1>32 DEF Unlink, TypeOK
  <2>2. result' \in Results
    <3>1. CASE UNCHANGED result
      BY <3>1 DEF TypeOK
    <3>2. CASE result' = [status |-> "failure", error |-> raised,
                          receipt_path |-> FALSE, receipt_error |-> TRUE]
      BY <3>2 DEF TypeOK, Results
    <3>3. CASE result' = [status |-> IF draft.status = "success" THEN "success" ELSE "failure",
                          error |-> raised, receipt_path |-> TRUE, receipt_error |-> FALSE]
      BY <3>3 DEF TypeOK, Results
    <3> QED
      BY <1>32, <3>1, <3>2, <3>3 DEF Unlink, WriteFails
  <2>3. pc' \in Steps /\ raised' \in Exceptions
    BY <1>32, ErrorsTyped DEF Unlink, WriteFails, Goto, Steps, TypeOK, Stages
  <2> QED
    BY <1>32, <2>1, <2>2, <2>3 DEF Unlink, TypeOK
<1>33. CASE Killed
  BY <1>33 DEF Killed, Goto, Steps, TypeOK
<1>34. CASE Over
  BY <1>34 DEF Over, vars, TypeOK
<1> QED
  BY <1>1, <1>2, <1>3, <1>4, <1>5, <1>6, <1>7, <1>8, <1>9, <1>10, <1>11, <1>12,
       <1>14, <1>15, <1>16, <1>17, <1>18, <1>19, <1>20, <1>21, <1>22, <1>23, <1>24,
       <1>25, <1>26, <1>27, <1>28, <1>29, <1>30, <1>31, <1>32, <1>33, <1>34 DEF Next

-----------------------------------------------------------------------------
(* One lemma per part of the invariant: every step keeps it *)

\* Between the setup of the proxy and its exit the harness runs the baseline and takes
\* the evidence, and touches neither fixture nor proxy.
LEMMA BaselineStep ==
  ASSUME \/ RunControl \/ StopTrace \/ CloseContext \/ CloseBrowser \/ LeavePlaywright
         \/ PublishTrace \/ RaiseErrors \/ RemoveTraceDirectory \/ CreateSandbox \/ RunWorker
         \/ CaptureInventory \/ ReleaseSandbox \/ BindHistory \/ TakeReport
         \/ TakeAfterSnapshot \/ Evaluate
  PROVE  /\ pc \in Working \cup Boxed /\ pc' \in Working \cup Boxed \cup {"exit_proxy"}
         /\ UNCHANGED <<run, fixture, proxy, failure, draft, result>>
PROOF
<1>1. CASE StopTrace \/ CloseContext \/ CloseBrowser
  BY <1>1 DEF StopTrace, CloseContext, CloseBrowser, Try, At, Goto, Keep, Proceed, Browsing,
     Working
<1>2. CASE RunControl \/ LeavePlaywright \/ PublishTrace \/ RaiseErrors \/ RemoveTraceDirectory
  BY <1>2 DEF RunControl, LeavePlaywright, PublishTrace, RaiseErrors, RemoveTraceDirectory, At,
     Goto, Raise, Keep, Proceed, Browsing, Working
<1>3. CASE CreateSandbox \/ RunWorker \/ CaptureInventory
  BY <1>3 DEF CreateSandbox, RunWorker, CaptureInventory, At, Goto, Raise, Keep, Proceed, Working,
     Boxed
<1>4. CASE ReleaseSandbox
  BY <1>4 DEF ReleaseSandbox, At, Goto, Working, Boxed
<1>5. CASE BindHistory \/ TakeReport \/ TakeAfterSnapshot \/ Evaluate
  BY <1>5 DEF BindHistory, TakeReport, TakeAfterSnapshot, Evaluate, At, Goto, Raise, Proceed,
     Working
<1> QED
  BY <1>1, <1>2, <1>3, <1>4, <1>5

\* No step forgets the fixture or a teardown of it that failed.
LEMMA FixtureStep ==
  ASSUME Inv, Next
  PROVE  FixtureHeld'
PROOF
<1>1. CASE EnsureCanonicalSource \/ VerifyFixtureIdentity \/ SelectBaseline
  BY <1>1 DEF EnsureCanonicalSource, VerifyFixtureIdentity, SelectBaseline, At, Goto,
       First, Earlier, Error, Failing, NoError, LeaveExecution, Inv, FixtureHeld, ErrorKept,
       TypeOK,
       SetupStages, Starting, Unproxied, Browsing, Working, Boxed, Executing, Leaving, Writing
<1>2. CASE EnterFixture
  BY <1>2 DEF EnterFixture, At, Goto, Raise, Keep, Proceed, First, Earlier, Error, Failing,
     NoError,
     Inv,
       FixtureHeld, ErrorKept, TypeOK, SetupStages, Starting, Unproxied, Browsing, Working, Boxed,
       Executing, Leaving, Writing
<1>3. CASE WaitUntilReady
  BY <1>3 DEF WaitUntilReady, At, Goto, Raise, Keep, Proceed, First, Earlier, Error, Failing,
     NoError, Inv,
       FixtureHeld, ErrorKept, TypeOK, SetupStages, Starting, Unproxied, Browsing, Working, Boxed,
       Executing, Leaving, Writing
<1>4. CASE ServerCrashes
  BY <1>4 DEF ServerCrashes, Inv, FixtureHeld, ErrorKept, TypeOK, SetupStages, Starting,
       Unproxied, Browsing, Working, Boxed, Executing, Leaving, Writing
<1>5. CASE UndoSetup
  BY <1>5 DEF UndoSetup, At, Goto, Error, Failing, NoError, Inv, FixtureHeld, ErrorKept, TypeOK,
       SetupStages, Starting, Unproxied, Browsing, Working, Boxed, Executing, Leaving, Writing
<1>6. CASE StopFixtureServer
  BY <1>6 DEF StopFixtureServer, At, Goto, StopServer, Proceed, Inv, FixtureHeld,
       ErrorKept, TypeOK, SetupStages, Starting, Unproxied, Browsing, Working, Boxed, Executing,
       Leaving, Writing
<1>7. CASE RemoveDirectory
  <2>1. PICK removed \in BOOLEAN :
          /\ fixture' = [fixture EXCEPT !.directory = ~removed]
          /\ IF TeardownFailed(removed)
             THEN /\ failure' = [failure EXCEPT !.fixture = Error("fixture_teardown")]
                  /\ builder' = IF failure.execution = NoError THEN builder
                                ELSE [builder EXCEPT !.evidence_failures =
                                                        @ \cup {"fixture_teardown"}]
             ELSE UNCHANGED <<failure, builder>>
    BY <1>7 DEF RemoveDirectory
  <2>2. At("remove_directory") /\ Goto("finalize") /\ UNCHANGED run
    BY <1>7 DEF RemoveDirectory
  <2>3. fixture'.directory = ~removed /\ fixture'.server = fixture.server
        /\ fixture'.listener = fixture.listener
    BY <2>1 DEF Inv, TypeOK
  <2>4. CASE TeardownFailed(removed)
    <3>1. failure'.fixture.stage \in SetupStages /\ failure'.execution = failure.execution
      BY <2>1, <2>4, ErrorStages DEF Inv, TypeOK, Stages, SetupStages
    <3>2. failure.execution # NoError => "fixture_teardown" \in builder'.evidence_failures
      BY <2>1, <2>4 DEF Inv, TypeOK, Builders
    <3> QED
      BY <2>2, <2>3, <3>1, <3>2 DEF Inv, FixtureHeld, At, Goto, Writing
  <2>5. CASE ~TeardownFailed(removed)
    BY <2>2, <2>3, <2>5 DEF Inv, FixtureHeld, TeardownFailed, At, Goto, Writing
  <2> QED
    BY <2>4, <2>5
<1>8. CASE PrepareInitialState \/ EnterProxy
  BY <1>8 DEF PrepareInitialState, EnterProxy, At, Goto, Raise, Proceed, Inv, FixtureHeld, Writing
<1>9. CASE \/ RunControl \/ StopTrace \/ CloseContext \/ CloseBrowser \/ LeavePlaywright
           \/ PublishTrace \/ RaiseErrors \/ RemoveTraceDirectory \/ CreateSandbox \/ RunWorker
           \/ CaptureInventory \/ ReleaseSandbox \/ BindHistory \/ TakeReport
           \/ TakeAfterSnapshot \/ Evaluate
  <2>1. pc' \in Working \cup Boxed \cup {"exit_proxy"} /\ pc \in Working \cup Boxed
        /\ UNCHANGED <<run, fixture>>
    BY <1>9, BaselineStep
  <2> QED
    BY <2>1 DEF Inv, FixtureHeld, Browsing, Working, Boxed, Writing
<1>10. CASE ExitProxy
  BY <1>10 DEF ExitProxy, At, Goto, LeaveExecution, Raise, Keep, Proceed, First, Earlier, Error,
       NoError, Inv, FixtureHeld, ErrorKept, TypeOK, SetupStages, Starting, Unproxied,
       Browsing, Working, Boxed, Executing, Leaving, Writing
<1>11. CASE CaptureFailureEvidence
  BY <1>11 DEF CaptureFailureEvidence, At, Goto, InjectionReport, LeaveExecution, Error,
       NoError, Inv, FixtureHeld, ErrorKept, TypeOK, SetupStages, Starting, Unproxied,
       Browsing, Working, Boxed, Executing, Leaving, Writing
<1>12. CASE Finalize \/ WriteFailure \/ Link \/ Unlink
  BY <1>12 DEF Finalize, WriteFailure, Link, Unlink, At, Goto, Failure, Error, Failing, NoError,
       FailureEvidence, Classify, LinkOnto, WriteFails, Inv, FixtureHeld, ErrorKept,
       TypeOK, SetupStages, Starting, Unproxied, Browsing, Working, Boxed, Executing, Leaving,
       Writing
<1>13. CASE Killed \/ Over
  BY <1>13 DEF Killed, Over, Goto, vars, Inv, FixtureHeld, ErrorKept, TypeOK,
       SetupStages, Starting, Unproxied, Browsing, Working, Boxed, Executing, Leaving, Writing
<1> QED
  BY <1>1, <1>2, <1>3, <1>4, <1>5, <1>6, <1>7, <1>8, <1>9, <1>10, <1>11, <1>12, <1>13
       DEF Next

\* ... nor the proxy and its shutdown ...
LEMMA ProxyStep ==
  ASSUME Inv, Next
  PROVE  ProxyHeld'
PROOF
<1>1. ASSUME pc \in Starting \cup Unproxied, UNCHANGED proxy
      PROVE  ProxyHeld'
  BY <1>1 DEF Inv, ProxyHeld
<1>2. ASSUME pc \in Working \cup Boxed, UNCHANGED proxy,
             pc' \in Working \cup Boxed \cup {"exit_proxy"}
      PROVE  ProxyHeld'
  BY <1>2 DEF Inv, ProxyHeld, Starting, Unproxied, Browsing, Working, Boxed, Leaving, Writing
<1>3. CASE EnsureCanonicalSource \/ VerifyFixtureIdentity \/ EnterFixture \/ WaitUntilReady
           \/ UndoSetup \/ SelectBaseline \/ PrepareInitialState
  BY <1>1, <1>3 DEF EnsureCanonicalSource, VerifyFixtureIdentity, EnterFixture, WaitUntilReady,
     UndoSetup, SelectBaseline, PrepareInitialState, At, Starting, Unproxied
<1>4. CASE StopFixtureServer \/ RemoveDirectory
  <2>1. /\ pc \in {"leave_fixture", "remove_directory"}
        /\ pc' \in {"remove_directory", "finalize"}
        /\ UNCHANGED proxy
    BY <1>4 DEF StopFixtureServer, RemoveDirectory, At, Goto, Proceed
  <2>2. failure'.execution = failure.execution
    BY <1>4 DEF StopFixtureServer, RemoveDirectory, Inv, TypeOK
  <2>3. builder.evidence_failures \subseteq builder'.evidence_failures
    BY <1>4 DEF StopFixtureServer, RemoveDirectory, Inv, TypeOK, Builders
  <2> QED
    BY <2>1, <2>2, <2>3 DEF Inv, ProxyHeld, Starting, Unproxied, Browsing, Working, Boxed,
       Leaving,
                            Writing
<1>5. CASE EnterProxy
  BY <1>5 DEF EnterProxy, At, Goto, Raise, Proceed, Inv, ProxyHeld, Starting, Unproxied,
     Browsing, Working, Boxed, Leaving, Writing
<1>6. CASE \/ RunControl \/ StopTrace \/ CloseContext \/ CloseBrowser \/ LeavePlaywright
           \/ PublishTrace \/ RaiseErrors \/ RemoveTraceDirectory \/ CreateSandbox \/ RunWorker
           \/ CaptureInventory \/ ReleaseSandbox \/ BindHistory \/ TakeReport
           \/ TakeAfterSnapshot \/ Evaluate
  <2>1. pc \in Working \cup Boxed /\ UNCHANGED proxy
        /\ pc' \in Working \cup Boxed \cup {"exit_proxy"}
    BY <1>6, BaselineStep
  <2> QED
    BY <2>1, <1>2
<1>7. CASE ExitProxy
  <2>1. At("exit_proxy") /\ UNCHANGED failure /\ proxy' # "running"
        /\ pc' \in {"capture", "leave_fixture", "finalize"}
    BY <1>7 DEF ExitProxy, Raise, Keep, Proceed, Goto, LeaveExecution
  <2>2. ASSUME proxy' = "unstopped"
        PROVE  /\ pc' = "capture"
               /\ "proxy_teardown" \in {raised'.stage} \cup builder'.evidence_failures
    <3>1. CASE raised = NoError
      BY <1>7, <2>2, <3>1, ErrorStages DEF ExitProxy, Raise, Keep, Goto, Stages
    <3>2. CASE raised # NoError
      BY <1>7, <2>2, <3>2 DEF ExitProxy, Proceed, Goto, Inv, TypeOK, Builders
    <3> QED
      BY <3>1, <3>2
  <2> QED
    BY <2>1, <2>2 DEF ProxyHeld, Starting, Unproxied, Browsing, Working, Boxed, Leaving, Writing
<1>8. CASE CaptureFailureEvidence
  BY <1>8 DEF CaptureFailureEvidence, At, Goto, InjectionReport, LeaveExecution, Error,
       NoError, Inv, ProxyHeld, ErrorKept, TypeOK, Starting, Unproxied, Browsing, Working, Boxed,
       Executing, Leaving, Writing
<1>9. CASE Finalize \/ WriteFailure \/ Link \/ Unlink
  BY <1>9 DEF Finalize, WriteFailure, Link, Unlink, At, Goto, Failure, Error, Failing, NoError,
       FailureEvidence, Classify, LinkOnto, WriteFails, Inv, ProxyHeld, ErrorKept,
       TypeOK, Starting, Unproxied, Browsing, Working, Boxed, Executing, Leaving, Writing
<1>10. CASE Killed \/ Over
  BY <1>10 DEF Killed, Over, Goto, vars, Inv, ProxyHeld, ErrorKept, TypeOK, Starting,
       Unproxied, Browsing, Working, Boxed, Executing, Leaving, Writing
<1>11. CASE ServerCrashes
  BY <1>11 DEF ServerCrashes, Inv, ProxyHeld
<1> QED
  BY <1>3, <1>4, <1>5, <1>6, <1>7, <1>8, <1>9, <1>10, <1>11 DEF Next

\* ... nor the sandbox and its removal.
LEMMA SandboxStep ==
  ASSUME Inv, Next
  PROVE  SandboxHeld'
PROOF
<1> USE DEF SandboxHeld
<1>1. ASSUME pc \in Starting \cup Unproxied, UNCHANGED sandbox
      PROVE  SandboxHeld'
  BY <1>1 DEF Inv
<1>2. ASSUME pc \notin Starting \cup Unproxied \cup {"baseline"} \cup Boxed,
             pc' \notin Starting \cup Unproxied \cup {"baseline"} \cup Boxed,
             pc # "killed", UNCHANGED <<run, sandbox>>,
             builder.filesystem.state = "cleanup_failed" =>
               builder'.filesystem.state = "cleanup_failed"
      PROVE  SandboxHeld'
  BY <1>2 DEF Inv
<1>3. CASE EnsureCanonicalSource \/ VerifyFixtureIdentity \/ EnterFixture \/ WaitUntilReady
           \/ UndoSetup \/ SelectBaseline \/ PrepareInitialState \/ EnterProxy
  BY <1>1, <1>3 DEF EnsureCanonicalSource, VerifyFixtureIdentity, EnterFixture, WaitUntilReady,
     UndoSetup, SelectBaseline, PrepareInitialState, EnterProxy, At, Starting, Unproxied
<1>4. CASE RunControl
  BY <1>4 DEF RunControl, At, Inv
<1>5. CASE \/ StopTrace \/ CloseContext \/ CloseBrowser \/ LeavePlaywright \/ RaiseErrors
           \/ RemoveTraceDirectory \/ PublishTrace \/ BindHistory \/ TakeReport
           \/ TakeAfterSnapshot \/ Evaluate
  <2>1. UNCHANGED <<run, sandbox>> /\ builder'.filesystem = builder.filesystem
    <3>1. CASE StopTrace \/ CloseContext \/ CloseBrowser \/ LeavePlaywright \/ RemoveTraceDirectory
               \/ TakeReport \/ TakeAfterSnapshot
      BY <3>1 DEF StopTrace, CloseContext, CloseBrowser, Try, LeavePlaywright,
         RemoveTraceDirectory, TakeReport, TakeAfterSnapshot
    <3>2. CASE RaiseErrors \/ PublishTrace
      BY <3>2 DEF RaiseErrors, PublishTrace, Inv, TypeOK, Builders
    <3>3. CASE BindHistory
      <4>1. PICK policy \in BOOLEAN, ok \in BOOLEAN :
               builder' = [builder EXCEPT !.policy = policy, !.trace = ok]
        BY <3>3 DEF BindHistory
      <4> QED
        BY <3>3, <4>1 DEF BindHistory, Inv, TypeOK, Builders
    <3>4. CASE Evaluate
      BY <3>4 DEF Evaluate, Inv, TypeOK, Builders
    <3> QED
      BY <1>5, <3>1, <3>2, <3>3, <3>4
  <2>2. /\ pc \notin Starting \cup Unproxied \cup {"baseline", "killed"} \cup Boxed
        /\ pc' \notin Starting \cup Unproxied \cup {"baseline"} \cup Boxed
    <3>1. CASE StopTrace \/ CloseContext \/ CloseBrowser
      BY <3>1 DEF StopTrace, CloseContext, CloseBrowser, Try, At, Goto, Keep, Proceed, Starting,
         Unproxied, Boxed
    <3>2. CASE LeavePlaywright \/ RaiseErrors \/ RemoveTraceDirectory \/ PublishTrace
      BY <3>2 DEF LeavePlaywright, RaiseErrors, RemoveTraceDirectory, PublishTrace, At, Goto,
         Raise,
         Keep, Proceed, Starting, Unproxied, Boxed
    <3>3. CASE BindHistory \/ TakeReport \/ TakeAfterSnapshot \/ Evaluate
      BY <3>3 DEF BindHistory, TakeReport, TakeAfterSnapshot, Evaluate, At, Goto, Raise, Proceed,
         Starting, Unproxied, Boxed
    <3> QED
      BY <1>5, <3>1, <3>2, <3>3
  <2> QED
    BY <1>2, <2>1, <2>2
<1>6. CASE CreateSandbox \/ RunWorker \/ CaptureInventory
  <2>1. /\ run.learned /\ UNCHANGED run /\ pc' \in Boxed \cup {"exit_proxy"}
        /\ pc' = "exit_proxy" => sandbox' = "none"
    BY <1>6 DEF CreateSandbox, RunWorker, CaptureInventory, At, Goto, Raise, Keep, Proceed, Boxed,
       Inv, WorkerHeld
  <2> QED
    BY <2>1 DEF Starting, Unproxied, Boxed
<1>7. CASE ReleaseSandbox
  <2>1. PICK removed \in BOOLEAN, bound \in BOOLEAN : ReleaseSandbox!2!(removed, bound)
    BY <1>7 DEF ReleaseSandbox
  <2>2. pc = "release" /\ UNCHANGED run /\ run.learned
    BY <1>7 DEF ReleaseSandbox, At, Inv, WorkerHeld, Boxed
  <2>3. sandbox' = "present" => sandbox = "present" /\ ~removed
    BY <2>1
  <2>4. pc' \in {"exit_proxy", "bind"}
    BY <2>1 DEF Goto
  <2>5. sandbox = "present" /\ ~removed => builder'.filesystem.state = "cleanup_failed"
    BY <2>1 DEF Inv, TypeOK, Builders
  <2> QED
    BY <2>2, <2>3, <2>4, <2>5 DEF Starting, Unproxied
<1>8. CASE StopFixtureServer \/ RemoveDirectory \/ ExitProxy \/ CaptureFailureEvidence
  <2>1. UNCHANGED <<run, sandbox>> /\ builder'.filesystem = builder.filesystem
    <3>1. CASE StopFixtureServer \/ RemoveDirectory
      BY <3>1 DEF StopFixtureServer, RemoveDirectory, Inv, TypeOK, Builders
    <3>2. CASE ExitProxy
      BY <3>2 DEF ExitProxy, Inv, TypeOK, Builders
    <3>3. CASE CaptureFailureEvidence
      BY <3>3 DEF CaptureFailureEvidence, Inv, TypeOK, Builders
    <3> QED
      BY <1>8, <3>1, <3>2, <3>3
  <2>2. /\ pc \in {"leave_fixture", "remove_directory", "exit_proxy", "capture"}
        /\ pc' \in {"capture", "leave_fixture", "remove_directory", "finalize"}
    BY <1>8 DEF StopFixtureServer, RemoveDirectory, ExitProxy, CaptureFailureEvidence, At, Goto,
       Raise, Proceed, LeaveExecution
  <2> QED
    BY <1>2, <2>1, <2>2 DEF Starting, Unproxied, Boxed
<1>9. CASE Finalize \/ WriteFailure \/ Link \/ Unlink
  <2>1. /\ pc \in {"finalize", "write_failure", "link", "unlink"} /\ UNCHANGED <<run, sandbox>>
        /\ pc' \in {"write_failure", "link", "unlink", "returned"}
    BY <1>9 DEF Finalize, WriteFailure, Link, LinkOnto, Unlink, WriteFails, At, Goto
  <2>2. builder.filesystem.state = "cleanup_failed" =>
          builder'.filesystem.state = "cleanup_failed"
    <3>1. CASE WriteFailure
      BY <3>1 DEF WriteFailure, FailureEvidence, Inv, TypeOK, Builders, Filesystems
    <3>2. CASE Finalize \/ Link \/ Unlink
      BY <3>2 DEF Finalize, Link, LinkOnto, Unlink
    <3> QED
      BY <1>9, <3>1, <3>2
  <2> QED
    BY <1>2, <2>1, <2>2 DEF Starting, Unproxied, Boxed
<1>10. CASE ServerCrashes \/ Killed \/ Over
  BY <1>10 DEF ServerCrashes, Killed, Over, Goto, vars, Inv, Starting, Unproxied, Boxed
<1> QED
  BY <1>3, <1>4, <1>5, <1>6, <1>7, <1>8, <1>9, <1>10 DEF Next

\* Replacing an exception: what stands for the first one of a run that ends there.
LEMMA StandingNew ==
  ASSUME raised' # NoError, primary' = raised'
  PROVE  Standing(raised)'
PROOF
  BY DEF Standing, StandsFor, NoError

LEMMA StandingKept ==
  ASSUME UNCHANGED <<run, raised, primary>>, Standing(raised)
  PROVE  Standing(raised)'
PROOF
  BY DEF Standing, StandsFor, Replacing

\* The first element of a sequence stays first when one is appended.
LEMMA FirstOfAppend ==
  ASSUME NEW s \in Seq(Exceptions), NEW e \in Exceptions
  PROVE  /\ Append(s, e) # <<>>
         /\ Append(s, e)[1] = IF s = <<>> THEN e ELSE s[1]
         /\ \A i \in DOMAIN Append(s, e) :
              Append(s, e)[i] = e \/ (i \in DOMAIN s /\ Append(s, e)[i] = s[i])
PROOF
<1>1. Len(Append(s, e)) = Len(s) + 1 /\ DOMAIN Append(s, e) = 1..(Len(s) + 1)
  OBVIOUS
<1>2. \A i \in 1..Len(s) : Append(s, e)[i] = s[i]
  OBVIOUS
<1>3. Append(s, e)[Len(s) + 1] = e
  OBVIOUS
<1>4. s = <<>> <=> Len(s) = 0
  OBVIOUS
<1> QED
  BY <1>1, <1>2, <1>3, <1>4

\* What is raised while the browser is closed is kept behind the first error.
LEMMA BrowserKeeps ==
  ASSUME Inv, pc \in Browsing \ {"driver", "trace_directory"},
         NEW stage \in BrowserStages, NEW step,
         errors' = Append(errors, Error(stage)), Keep(Error(stage), step)
  PROVE  /\ raised' = NoError /\ primary' = FirstKept'
         /\ \A i \in DOMAIN errors' : errors'[i] \in BrowserErrors
PROOF
<1>1. /\ raised = NoError /\ primary = FirstKept
      /\ \A i \in DOMAIN errors : errors[i] \in BrowserErrors
  BY DEF Inv, BrowserHeld
<1>2. errors \in Seq(Exceptions) /\ Error(stage) \in Exceptions
  BY ErrorsTyped DEF Inv, TypeOK, BrowserStages, Stages
<1>3. Error(stage) \in BrowserErrors
  BY DEF BrowserErrors
<1>4. errors # <<>> => errors[1] # NoError
  <2>1. errors # <<>> => 1 \in DOMAIN errors
    BY <1>2
  <2>2. \A e \in BrowserErrors : e # NoError
    BY ErrorStages DEF BrowserErrors, BrowserStages
  <2> QED
    BY <1>1, <2>1, <2>2
<1>5. raised' = NoError /\ primary' = IF primary = NoError THEN Error(stage) ELSE primary
  BY <1>1 DEF Keep, First, Earlier
<1>6. FirstKept' = IF errors = <<>> THEN Error(stage) ELSE errors[1]
  BY <1>2, FirstOfAppend DEF FirstKept
<1>7. primary' = FirstKept'
  BY <1>1, <1>4, <1>5, <1>6 DEF FirstKept
<1>8. \A i \in DOMAIN errors' : errors'[i] \in BrowserErrors
  BY <1>1, <1>2, <1>3, FirstOfAppend
<1> QED
  BY <1>5, <1>7, <1>8

\* No other step leads to the closing of the browser, or into a sandbox.
LEMMA ElsewhereStep ==
  ASSUME Inv, Next, pc' \in Browsing \cup Boxed
  PROVE  \/ RunControl \/ StopTrace \/ CloseContext \/ CloseBrowser \/ LeavePlaywright
         \/ PublishTrace \/ RaiseErrors
         \/ CreateSandbox \/ RunWorker \/ CaptureInventory
         \/ UNCHANGED <<run, pc, worker, errors, raised, primary>>
PROOF
<1> USE DEF Browsing, Boxed
<1>1. ~(EnsureCanonicalSource \/ VerifyFixtureIdentity \/ EnterFixture \/ WaitUntilReady
        \/ UndoSetup \/ StopFixtureServer \/ RemoveDirectory \/ SelectBaseline)
  BY DEF EnsureCanonicalSource, VerifyFixtureIdentity, EnterFixture, WaitUntilReady, UndoSetup,
     StopFixtureServer, RemoveDirectory, SelectBaseline, LeaveExecution, Goto, Raise, Proceed
<1>2. ~(PrepareInitialState \/ EnterProxy \/ RemoveTraceDirectory \/ BindHistory \/ TakeReport
        \/ TakeAfterSnapshot \/ Evaluate \/ ExitProxy \/ CaptureFailureEvidence)
  BY DEF PrepareInitialState, EnterProxy, RemoveTraceDirectory, BindHistory, TakeReport,
     TakeAfterSnapshot, Evaluate, ExitProxy, CaptureFailureEvidence, LeaveExecution, Goto, Raise,
     Proceed
<1>3. ~ReleaseSandbox
  BY DEF ReleaseSandbox, Goto
<1>4. ~(Finalize \/ WriteFailure \/ Link \/ Unlink \/ Killed)
  BY DEF Finalize, WriteFailure, Link, LinkOnto, Unlink, WriteFails, Killed, Goto
<1>5. ServerCrashes \/ Over => UNCHANGED <<run, pc, worker, errors, raised, primary>>
  BY DEF ServerCrashes, Over, vars
<1> QED
  BY <1>1, <1>2, <1>3, <1>4, <1>5 DEF Next

\* While the browser is closed, the first error is kept for the run ...
LEMMA BrowserStep ==
  ASSUME Inv, Next
  PROVE  BrowserHeld'
PROOF
<1> SUFFICES ASSUME pc' \in Browsing
             PROVE  BrowserHeld'
  BY DEF BrowserHeld
<1>1. CASE RunControl
  <2>1. pc = "baseline" /\ ~run.learned /\ UNCHANGED run /\ raised = NoError /\ primary = NoError
    BY <1>1 DEF RunControl, At, Inv, ErrorKept, Unhurt
  <2>2. Error("baseline") \in BrowserErrors /\ Error("baseline") # NoError
        /\ Error("baseline").stage = "baseline" /\ "baseline" \in BrowserStages
    BY ErrorStages DEF BrowserErrors, BrowserStages
  <2>3. ASSUME NEW step \in {"exit_proxy", "trace_directory", "driver"},
               Raise(Error("baseline"), step), UNCHANGED errors
        PROVE  BrowserHeld'
    <3>1. pc' = step /\ raised' = Error("baseline") /\ primary' = raised'
      BY <2>1, <2>3 DEF Raise, First, Earlier, Goto
    <3>2. errors' = <<>>
      BY <2>1, <2>3 DEF Inv, ErrorKept
    <3>3. \A i \in DOMAIN errors' : errors'[i] \in BrowserErrors
      BY <3>2
    <3>4. /\ raised' # NoError /\ primary' # NoError /\ primary'.stage \in BrowserStages
          /\ raised'.stage \in BrowserStages /\ ~run'.learned
      BY <2>1, <2>2, <3>1
    <3>5. Standing(raised)'
      BY <3>1, <3>4, StandingNew
    <3> QED
      BY <3>1, <3>3, <3>4, <3>5 DEF BrowserHeld, Browsing, NoError
  <2>4. CASE errors' = <<Error("baseline")>> /\ Keep(Error("baseline"), "closing")
    BY <2>1, <2>2, <2>4 DEF Keep, First, Earlier, Goto, BrowserHeld, FirstKept
  <2>5. CASE errors' = <<>> /\ Proceed("closing")
    BY <2>1, <2>5 DEF Proceed, Goto, BrowserHeld, FirstKept
  <2> QED
    BY <1>1, <2>3, <2>4, <2>5 DEF RunControl
<1>2. ASSUME NEW step \in {"closing", "context", "browser"}, NEW stage \in BrowserStages,
             NEW next \in {"context", "browser", "driver"}, Try(step, stage, next)
      PROVE  BrowserHeld'
  <2>1. /\ pc \in Browsing \ {"driver", "trace_directory"} /\ UNCHANGED run
        /\ pc' = next
    BY <1>2 DEF Try, At, Goto, Keep, Proceed, Browsing
  <2>2. /\ ~run.learned /\ raised = NoError /\ primary = FirstKept
        /\ \A i \in DOMAIN errors : errors[i] \in BrowserErrors
    BY <2>1 DEF Inv, BrowserHeld
  <2>3. CASE errors' = Append(errors, Error(stage)) /\ Keep(Error(stage), next)
    BY <2>1, <2>2, <2>3, BrowserKeeps DEF BrowserHeld
  <2>4. CASE UNCHANGED errors /\ Proceed(next)
    BY <2>1, <2>2, <2>4 DEF BrowserHeld, FirstKept, Proceed
  <2> QED
    BY <1>2, <2>3, <2>4 DEF Try
<1>3. CASE StopTrace \/ CloseContext \/ CloseBrowser
  BY <1>2, <1>3 DEF StopTrace, CloseContext, CloseBrowser, BrowserStages
<1>4. CASE LeavePlaywright
  <2>1. /\ pc = "driver" /\ UNCHANGED <<run, errors>> /\ ~run.learned
        /\ \A i \in DOMAIN errors : errors[i] \in BrowserErrors
        /\ IF raised = NoError THEN primary = FirstKept
           ELSE raised = Error("baseline") /\ primary = raised
    BY <1>4 DEF LeavePlaywright, At, Inv, BrowserHeld, Browsing
  <2>2. primary # NoError => primary.stage \in BrowserStages
    <3>1. Error("baseline").stage \in BrowserStages
      BY ErrorStages DEF BrowserStages
    <3>2. errors # <<>> => errors[1].stage \in BrowserStages
      <4>1. errors # <<>> => 1 \in DOMAIN errors
        BY DEF Inv, TypeOK
      <4>2. \A e \in BrowserErrors : e.stage \in BrowserStages
        BY ErrorStages DEF BrowserErrors
      <4> QED
        BY <2>1, <4>1, <4>2
    <3> QED
      BY <2>1, <3>1, <3>2 DEF FirstKept
  <2>3. CASE /\ UNCHANGED <<raised, primary>>
             /\ pc' = IF raised # NoError THEN "trace_directory"
                      ELSE IF Error("playwright_trace") \in {errors[i] : i \in DOMAIN errors}
                      THEN "errors" ELSE "publish_trace"
    <3>1. CASE raised = NoError
      BY <2>1, <2>3, <3>1 DEF BrowserHeld, FirstKept
    <3>2. CASE raised # NoError
      <4>1. pc' = "trace_directory" /\ raised' # NoError /\ primary' = raised'
        BY <2>1, <2>3, <3>2
      <4> QED
        BY <2>1, <2>2, <2>3, <4>1, StandingNew DEF BrowserHeld
    <3> QED
      BY <3>1, <3>2
  <2>4. CASE Raise(Failing("driver", "baseline"), "trace_directory")
    <3>1. /\ pc' = "trace_directory" /\ raised' = Failing("driver", "baseline")
          /\ primary' = IF primary = NoError THEN raised' ELSE primary
      BY <2>4 DEF Raise, First, Earlier, Goto
    <3>2. raised'.by = "driver" /\ raised'.stage = "baseline" /\ raised' # NoError
          /\ "baseline" \in BrowserStages
      BY <3>1, ErrorStages DEF BrowserStages
    <3>3. Standing(raised)'
      <4>1. CASE primary = NoError
        BY <3>1, <3>2, <4>1, StandingNew
      <4>2. CASE primary # NoError
        <5>1. primary.stage \in BrowserStages /\ primary.stage # "fixture_setup"
          BY <2>2, <4>2 DEF BrowserStages
        <5> QED
          BY <2>1, <3>1, <3>2, <4>2, <5>1 DEF Standing, StandsFor, Replacing, NoError
      <4> QED
        BY <4>1, <4>2
    <3> QED
      BY <2>1, <2>2, <3>1, <3>2, <3>3 DEF BrowserHeld
  <2> QED
    BY <1>4, <2>3, <2>4 DEF LeavePlaywright, Proceed, Goto
<1>5. CASE PublishTrace
  <2>1. pc = "publish_trace" /\ UNCHANGED run /\ pc' = "errors"
    BY <1>5 DEF PublishTrace, At, Goto, Keep, Proceed
  <2>2. /\ ~run.learned /\ raised = NoError /\ primary = FirstKept
        /\ \A i \in DOMAIN errors : errors[i] \in BrowserErrors
    BY <2>1 DEF Inv, BrowserHeld, Browsing
  <2>3. CASE UNCHANGED <<errors, raised, primary>>
    BY <2>1, <2>2, <2>3 DEF BrowserHeld, FirstKept
  <2>4. CASE /\ errors' = Append(errors, Error("playwright_trace_publish"))
             /\ Keep(Error("playwright_trace_publish"), "errors")
    BY <2>1, <2>2, <2>4, BrowserKeeps DEF BrowserHeld, Browsing, BrowserStages
  <2> QED
    BY <1>5, <2>3, <2>4 DEF PublishTrace, Proceed
<1>6. CASE RaiseErrors
  <2>1. pc = "errors" /\ UNCHANGED <<run, errors>> /\ pc' = "trace_directory"
    BY <1>6 DEF RaiseErrors, At, Goto, Raise, Proceed
  <2>2. /\ ~run.learned /\ raised = NoError /\ primary = FirstKept
        /\ \A i \in DOMAIN errors : errors[i] \in BrowserErrors
    BY <2>1 DEF Inv, BrowserHeld, Browsing
  <2>3. CASE errors = <<>>
    BY <1>6, <2>1, <2>2, <2>3 DEF RaiseErrors, Proceed, BrowserHeld, FirstKept, Standing, NoError
  <2>4. CASE errors # <<>>
    <3>1. errors[1] \in BrowserErrors
      <4>1. 1 \in DOMAIN errors
        BY <2>4 DEF Inv, TypeOK
      <4> QED
        BY <2>2, <4>1
    <3>2. errors[1] # NoError /\ errors[1].stage \in BrowserStages
      BY <3>1, ErrorStages DEF BrowserErrors, BrowserStages
    <3>3. raised' = errors[1] /\ primary' = raised'
      BY <1>6, <2>2, <2>4, <3>2 DEF RaiseErrors, Raise, First, Earlier, FirstKept
    <3> QED
      BY <2>1, <2>2, <3>2, <3>3, StandingNew DEF BrowserHeld
  <2> QED
    BY <2>3, <2>4
<1>7. CASE CreateSandbox \/ RunWorker \/ CaptureInventory
  BY <1>7 DEF CreateSandbox, RunWorker, CaptureInventory, Goto, Raise, Keep, Proceed, Browsing
<1>8. CASE UNCHANGED <<run, pc, worker, errors, raised, primary>>
  BY <1>8 DEF Inv, BrowserHeld, FirstKept, Standing, StandsFor, Replacing
<1> QED
  BY <1>1, <1>3, <1>4, <1>5, <1>6, <1>7, <1>8, ElsewhereStep

\* ... and in the sandbox the deadline and the group of its worker.
LEMMA WorkerStep ==
  ASSUME Inv, Next
  PROVE  WorkerHeld'
PROOF
<1> SUFFICES ASSUME pc' \in Boxed
             PROVE  WorkerHeld'
  BY DEF WorkerHeld
<1>1. CASE CreateSandbox
  <2>1. pc = "baseline" /\ run.learned /\ UNCHANGED run /\ raised = NoError /\ primary = NoError
    BY <1>1 DEF CreateSandbox, At, Inv, ErrorKept, Unhurt
  <2> QED
    BY <1>1, <2>1, ErrorStages DEF CreateSandbox, Raise, Proceed, First, Earlier, Goto,
       WorkerHeld,
       Boxed
<1>2. CASE RunWorker
  <2>1. pc = "worker" /\ pc' = "inventory" /\ UNCHANGED run
    BY <1>2 DEF RunWorker, At, Raise, Keep, Goto
  <2>2. run.learned /\ raised = NoError /\ primary = NoError
    BY <2>1 DEF Inv, WorkerHeld, Boxed
  <2>3. CASE Raise(Error("baseline"), "inventory")
    BY <2>1, <2>2, <2>3, ErrorStages DEF Raise, First, Earlier, WorkerHeld
  <2>4. ASSUME NEW timed_out \in BOOLEAN, NEW teardown_error \in BOOLEAN, NEW payload \in BOOLEAN,
               worker' = [timed_out |-> timed_out, teardown_error |-> teardown_error,
                          payload |-> payload, inventory |-> "none"],
               Keep(IF timed_out THEN Timeout("baseline")
                    ELSE IF teardown_error THEN Failing("worker_group", "baseline")
                    ELSE NoError, "inventory")
        PROVE  WorkerHeld'
    <3>1. raised' = NoError
      BY <2>2, <2>4 DEF Keep
    <3>2. primary' = FirstMet'
      BY <2>1, <2>2, <2>4 DEF Keep, First, Earlier, FirstMet
    <3> QED
      BY <2>1, <2>2, <3>1, <3>2 DEF WorkerHeld, NoError
  <2> QED
    BY <1>2, <2>3, <2>4 DEF RunWorker
<1>3. CASE CaptureInventory
  <2>1. pc = "inventory" /\ pc' = "release" /\ UNCHANGED <<run, raised>>
    BY <1>3 DEF CaptureInventory, At, Keep, Goto
  <2>2. run.learned /\ (raised = NoError => primary = FirstMet)
        /\ (raised # NoError => raised = Error("baseline") /\ primary = raised)
    BY <2>1 DEF Inv, WorkerHeld, Boxed
  <2>3. PICK i \in {"none", "taken", "failed"} :
          /\ worker' = [worker EXCEPT !.inventory = i]
          /\ Keep(IF i = "failed" THEN Failing("sandbox_inventory", "baseline") ELSE NoError,
                  "release")
    BY <1>3 DEF CaptureInventory
  <2>4. /\ worker'.timed_out = worker.timed_out /\ worker'.teardown_error = worker.teardown_error
        /\ worker'.inventory = i
    BY <2>3 DEF Inv, TypeOK
  <2>5. CASE raised # NoError
    BY <2>1, <2>2, <2>3, <2>5 DEF Keep, First, Earlier, WorkerHeld, NoError
  <2>6. CASE raised = NoError
    <3>1. Timeout("baseline") # NoError /\ Failing("worker_group", "baseline") # NoError
      BY ErrorStages
    <3>2. primary' = IF primary = NoError
                     THEN IF i = "failed" THEN Failing("sandbox_inventory",
                     "baseline") ELSE NoError
                     ELSE primary
      BY <2>3 DEF Keep, First, Earlier
    <3>3. primary' = FirstMet'
      BY <2>1, <2>2, <2>4, <2>6, <3>1, <3>2 DEF FirstMet
    <3> QED
      BY <2>1, <2>2, <2>6, <3>3 DEF WorkerHeld, NoError
  <2> QED
    BY <2>5, <2>6
<1>4. CASE \/ RunControl \/ StopTrace \/ CloseContext \/ CloseBrowser \/ LeavePlaywright
           \/ PublishTrace \/ RaiseErrors
  BY <1>4 DEF RunControl, StopTrace, CloseContext, CloseBrowser, Try, LeavePlaywright,
     PublishTrace,
     RaiseErrors, Goto, Raise, Keep, Proceed, Boxed
<1>5. CASE UNCHANGED <<run, pc, worker, errors, raised, primary>>
  BY <1>5 DEF Inv, WorkerHeld, FirstMet
<1> QED
  BY <1>1, <1>2, <1>3, <1>4, <1>5, ElsewhereStep

\* The first exception of a run to be raised is the one in flight.
LEMMA RaiseFirst ==
  ASSUME primary = NoError, NEW e, e # NoError, NEW step, Raise(e, step)
  PROVE  pc' = step /\ raised' = e /\ raised' # NoError /\ primary' = e /\ Standing(raised)'
PROOF
<1>1. pc' = step /\ raised' = e /\ primary' = e
  BY DEF Raise, First, Earlier, Goto
<1>2. raised' # NoError
  BY <1>1
<1> QED
  BY <1>1, <1>2, StandingNew

\* Another one takes its place only if its operation may.
LEMMA Replaced ==
  ASSUME primary # NoError, UNCHANGED <<run, primary>>, NEW e, e # NoError,
         e = primary \/ e.by \in Replacing(primary), raised' = e
  PROVE  Standing(raised)'
PROOF
<1>1. Replacing(primary)' = Replacing(primary)
  BY DEF Replacing
<1> QED
  BY <1>1 DEF Standing, StandsFor, NoError

\* What an inventory's publication, a sandbox's clean-up and its worker's group may
\* replace.
LEMMA ReplacingWorker ==
  ASSUME run.learned
  PROVE  /\ \A by : "inventory_publication" \in Replacing(Failing(by, "baseline"))
         /\ "inventory_publication" \in Replacing(Error("baseline"))
         /\ \A by \in {"inventory_publication", "sandbox_inventory", "sandbox_cleanup",
                       "worker_group"} :
              /\ by \in Replacing(Timeout("baseline"))
              /\ by \in Replacing(Failing("worker_group", "baseline"))
PROOF
<1>1. \A by : Failing(by, "baseline").stage = "baseline"
  BY ErrorStages
<1>2. Error("baseline").stage = "baseline" /\ Timeout("baseline").stage = "baseline"
  BY ErrorStages
<1>3. ASSUME NEW e, e.stage = "baseline"
      PROVE  "inventory_publication" \in Replacing(e)
  BY <1>3 DEF Replacing, BrowserStages
<1>4. ASSUME NEW e \in {Timeout("baseline"), Failing("worker_group", "baseline")}
      PROVE  {"inventory_publication", "sandbox_inventory", "sandbox_cleanup", "worker_group"}
               \subseteq Replacing(e)
  BY <1>1, <1>2, <1>4 DEF Replacing
<1> QED
  BY <1>1, <1>2, <1>3, <1>4

\* A sandbox is left with the first exception, or with one that may replace it.
LEMMA ReleaseLeaves ==
  ASSUME Inv, ReleaseSandbox
  PROVE  /\ raised' = NoError => primary' = NoError /\ pc' = "bind"
         /\ raised' # NoError => Standing(raised)' /\ pc' = "exit_proxy"
PROOF
<1> DEFINE Group == Failing("worker_group", "baseline")
           Late  == Timeout("baseline")
           Taken == Failing("sandbox_inventory", "baseline")
           Kept  == Failing("sandbox_cleanup", "baseline")
           Lost  == Failing("inventory_publication", "baseline")
<1>1. pc = "release" /\ UNCHANGED run
  BY DEF ReleaseSandbox, At
<1>2. /\ run.learned
      /\ raised = NoError => primary = FirstMet
      /\ raised # NoError => raised = Error("baseline") /\ primary = raised
  BY <1>1 DEF Inv, WorkerHeld, Boxed
<1>3. PICK removed \in BOOLEAN, bound \in BOOLEAN :
        /\ ~bound => worker.inventory = "taken"
        /\ raised' = IF bound THEN WorkerError(removed) ELSE Lost
        /\ primary' = Earlier(primary, Earlier(IF removed THEN NoError ELSE Kept, raised'))
        /\ pc' = IF raised' = NoError THEN "bind" ELSE "exit_proxy"
  BY DEF ReleaseSandbox, First, Goto
<1>4. /\ Group # NoError /\ Late # NoError /\ Taken # NoError /\ Kept # NoError /\ Lost # NoError
      /\ Error("baseline") # NoError
      /\ Group.by = "worker_group" /\ Taken.by = "sandbox_inventory"
      /\ Kept.by = "sandbox_cleanup" /\ Lost.by = "inventory_publication"
  BY ErrorStages
<1>5. /\ \A by : "inventory_publication" \in Replacing(Failing(by, "baseline"))
      /\ "inventory_publication" \in Replacing(Error("baseline"))
      /\ \A by \in {"inventory_publication", "sandbox_inventory", "sandbox_cleanup",
                    "worker_group"} : by \in Replacing(Late) /\ by \in Replacing(Group)
  BY <1>2, ReplacingWorker
<1>6. ASSUME primary # NoError PROVE primary' = primary
  BY <1>3, <1>6 DEF Earlier
<1>7. CASE raised # NoError
  <2>1. primary # NoError /\ primary' = primary /\ primary = Error("baseline")
    BY <1>2, <1>6, <1>7
  <2>2. raised' = primary \/ raised' = Lost
    BY <1>2, <1>3, <1>7 DEF WorkerError
  <2> QED
    BY <1>1, <1>3, <1>4, <1>5, <2>1, <2>2, Replaced
<1>8. CASE raised = NoError /\ ~bound
  <2>1. raised' = Lost /\ raised' # NoError /\ pc' = "exit_proxy"
    BY <1>3, <1>4, <1>8
  <2>2. CASE primary # NoError
    <3>1. primary \in {Late, Group}
      BY <1>2, <1>3, <1>8, <2>2 DEF FirstMet
    <3> QED
      BY <1>1, <1>4, <1>5, <1>6, <2>1, <2>2, <3>1, Replaced
  <2>3. CASE primary = NoError
    <3>1. CASE removed
      BY <1>3, <2>1, <2>3, <3>1, StandingNew DEF Earlier
    <3>2. CASE ~removed
      <4>1. primary' = Kept
        BY <1>3, <1>4, <2>3, <3>2 DEF Earlier
      <4>2. Replacing(Kept)' = Replacing(Kept)
        BY <1>1 DEF Replacing
      <4>3. "inventory_publication" \in Replacing(primary)'
        BY <1>5, <4>1, <4>2
      <4> QED
        BY <1>4, <2>1, <4>1, <4>3 DEF Standing, StandsFor, NoError
    <3> QED
      BY <3>1, <3>2
  <2> QED
    BY <2>1, <2>2, <2>3
<1>9. CASE raised = NoError /\ bound
  <2>1. raised' = WorkerError(removed)
    BY <1>3, <1>9
  <2>2. CASE worker.inventory = "failed"
    <3>1. raised' = Taken
      BY <1>9, <2>1, <2>2 DEF WorkerError
    <3>2. primary \in {Late, Group, Taken}
      BY <1>1, <1>2, <1>9, <2>2 DEF FirstMet
    <3> QED
      BY <1>1, <1>3, <1>4, <1>5, <1>6, <3>1, <3>2, Replaced
  <2>3. CASE worker.inventory # "failed" /\ ~removed
    <3>1. raised' = Kept
      BY <1>9, <2>1, <2>3 DEF WorkerError
    <3>2. primary \in {Late, Group, NoError}
      BY <1>1, <1>2, <1>9, <2>3 DEF FirstMet
    <3>3. CASE primary = NoError
      BY <1>3, <1>4, <2>3, <3>1, <3>3, StandingNew DEF Earlier
    <3>4. CASE primary # NoError
      BY <1>1, <1>3, <1>4, <1>5, <1>6, <3>1, <3>2, <3>4, Replaced
    <3> QED
      BY <3>3, <3>4
  <2>4. CASE worker.inventory # "failed" /\ removed
    <3>1. CASE worker.teardown_error
      <4>1. raised' = Group
        BY <1>9, <2>1, <2>4, <3>1 DEF WorkerError
      <4>2. primary \in {Late, Group}
        BY <1>1, <1>2, <1>9, <2>4, <3>1 DEF FirstMet
      <4> QED
        BY <1>1, <1>3, <1>4, <1>5, <1>6, <4>1, <4>2, Replaced
    <3>2. CASE ~worker.teardown_error /\ worker.timed_out
      <4>1. raised' = Late
        BY <1>9, <2>1, <2>4, <3>2 DEF WorkerError
      <4>2. primary = Late
        BY <1>2, <1>9, <3>2 DEF FirstMet
      <4> QED
        BY <1>1, <1>3, <1>4, <1>6, <4>1, <4>2, Replaced
    <3>3. CASE ~worker.teardown_error /\ ~worker.timed_out
      <4>1. raised' = IF ~worker.payload THEN Error("baseline") ELSE NoError
        BY <1>9, <2>1, <2>4, <3>3 DEF WorkerError
      <4>2. primary = NoError
        BY <1>2, <1>9, <2>4, <3>3 DEF FirstMet
      <4>3. primary' = raised'
        BY <1>3, <2>4, <4>2 DEF Earlier
      <4> QED
        BY <1>3, <4>3, StandingNew
    <3> QED
      BY <3>1, <3>2, <3>3
  <2> QED
    BY <2>2, <2>3, <2>4
<1> QED
  BY <1>7, <1>8, <1>9

\* Until the execution ends its exception is in flight, and no failure is noted ...
LEMMA StillExecuting ==
  ASSUME Inv, pc \in Starting \cup Executing, pc' \in Starting \cup Executing,
         UNCHANGED <<run, failure>>,
         pc' \in Starting \cup Unproxied \cup {"baseline"} => errors' = <<>>,
         pc' \in Unhurt => raised' = NoError /\ primary' = NoError,
         pc' = "undo_setup" => primary' = raised' /\ raised'.stage = "fixture_setup",
         pc' \in {"exit_proxy", "capture"} => Standing(raised)',
         pc' = "capture" => raised' # NoError
  PROVE  ErrorKept'
PROOF
<1>1. failure' = [execution |-> NoError, fixture |-> NoError]
  BY DEF Inv, ErrorKept
<1>2. pc' \notin Leaving /\ pc' # "write_failure"
  BY DEF Starting, Executing, Unproxied, Working, Browsing, Boxed, Leaving
<1>3. pc' \notin {"leave_fixture", "remove_directory", "finalize"}
  BY <1>2 DEF Leaving
<1>4. NoError' = NoError
  BY DEF NoError
<1> QED
  BY <1>1, <1>2, <1>3, <1>4 DEF ErrorKept

\* ... and then it is a failure of the run, and none is in flight.
LEMMA NowLeaving ==
  ASSUME pc' \in Leaving, raised' = NoError,
         pc' # "finalize" => failure'.fixture = NoError /\ Standing(failure.execution)',
         pc' = "finalize" => Standing(Failure)'
  PROVE  ErrorKept'
PROOF
<1>1. pc' \notin Starting \cup Executing /\ pc' # "write_failure" /\ pc' \notin Unhurt
      /\ pc' \notin Unproxied \cup {"baseline", "undo_setup", "exit_proxy", "capture"}
  BY DEF Starting, Executing, Unproxied, Working, Browsing, Boxed, Leaving, Unhurt
<1>2. pc' \in {"leave_fixture", "remove_directory"} => pc' # "finalize"
  OBVIOUS
<1>3. NoError' = NoError
  BY DEF NoError
<1> QED
  BY <1>1, <1>2, <1>3 DEF ErrorKept

\* The exception of a run is in flight, in a slot of failure, or being receipted.
LEMMA ErrorStep ==
  ASSUME Inv, Next
  PROVE  ErrorKept'
PROOF
<1>a. ASSUME pc \in Unhurt
      PROVE  raised = NoError /\ primary = NoError
  BY <1>a DEF Inv, ErrorKept
<1>b. ASSUME pc \in Starting \cup Unproxied \cup {"baseline"}
      PROVE  errors = <<>>
  BY <1>b DEF Inv, ErrorKept
<1>c. ASSUME pc \in Starting \cup Executing
      PROVE  failure = [execution |-> NoError, fixture |-> NoError]
  BY <1>c DEF Inv, ErrorKept
<1>1. CASE EnsureCanonicalSource \/ VerifyFixtureIdentity
  <2>1. /\ pc \in {"source", "fixture_identity"} /\ UNCHANGED <<run, errors, raised>>
    BY <1>1 DEF EnsureCanonicalSource, VerifyFixtureIdentity, At
  <2>2. raised = NoError /\ primary = NoError /\ errors = <<>>
        /\ failure = [execution |-> NoError, fixture |-> NoError]
    BY <2>1, <1>a, <1>b, <1>c DEF Unhurt, Starting
  <2>3. CASE pc' \in {"fixture_setup", "fixture_identity", "select"}
             /\ UNCHANGED <<failure, primary>>
    BY <2>1, <2>2, <2>3, StillExecuting DEF Starting, Executing, Unproxied
  <2>4. ASSUME NEW e, e # NoError, failure' = [failure EXCEPT !.fixture = e], First(e),
               Goto("finalize")
        PROVE  ErrorKept'
    <3>1. primary' = e /\ Failure' = e /\ pc' = "finalize"
      BY <2>2, <2>4 DEF First, Earlier, Failure, Goto, NoError
    <3>2. Standing(Failure)'
      BY <2>4, <3>1 DEF Standing, StandsFor, NoError
    <3> QED
      BY <2>1, <2>2, <3>1, <3>2, NowLeaving DEF Leaving
  <2>5. Error("source") # NoError /\ Error("fixture_identity") # NoError
    BY ErrorStages
  <2> QED
    BY <1>1, <2>3, <2>4, <2>5 DEF EnsureCanonicalSource, VerifyFixtureIdentity, Goto
<1>2. CASE EnterFixture \/ WaitUntilReady
  <2>1. pc \in {"fixture_setup", "ready"} /\ UNCHANGED <<run, errors, failure>>
    BY <1>2 DEF EnterFixture, WaitUntilReady, At
  <2>2. raised = NoError /\ primary = NoError /\ errors = <<>>
    BY <2>1, <1>a, <1>b DEF Unhurt, Starting
  <2>3. CASE Proceed("ready") \/ Proceed("select")
    BY <2>1, <2>2, <2>3, StillExecuting DEF Proceed, Goto, Starting, Executing, Unproxied
  <2>4. ASSUME NEW e \in {Error("fixture_setup"), Timeout("fixture_setup")},
               Raise(e, "undo_setup")
        PROVE  ErrorKept'
    <3>1. e # NoError /\ e.stage = "fixture_setup"
      BY ErrorStages
    <3>2. pc' = "undo_setup" /\ raised' = e /\ primary' = e
      BY <2>2, <2>4, <3>1, RaiseFirst
    <3> QED
      BY <2>1, <2>2, <3>1, <3>2, StillExecuting DEF Starting, Executing, Unhurt, Unproxied
  <2> QED
    BY <1>2, <2>3, <2>4 DEF EnterFixture, WaitUntilReady
<1>3. CASE UndoSetup
  <2>1. pc = "undo_setup" /\ pc' = "finalize" /\ raised' = NoError /\ UNCHANGED <<run, primary>>
    BY <1>3 DEF UndoSetup, At, Goto
  <2>2. primary = raised /\ raised.stage = "fixture_setup"
        /\ failure = [execution |-> NoError, fixture |-> NoError]
    BY <2>1, <1>c DEF Inv, ErrorKept, Starting
  <2>3. PICK e \in {raised, Failing("undo_setup", "fixture_setup")} :
          failure' = [failure EXCEPT !.fixture = e]
    BY <1>3 DEF UndoSetup
  <2>4. raised # NoError /\ e # NoError /\ Failing("undo_setup", "fixture_setup").by = "undo_setup"
    BY <2>2, ErrorStages
  <2>5. Failure' = e
    BY <2>2, <2>3 DEF Failure, NoError
  <2>6. e = primary \/ e.by \in Replacing(primary)'
    BY <2>1, <2>2, <2>3, <2>4 DEF Replacing, BrowserStages
  <2>7. Standing(Failure)'
    BY <2>1, <2>2, <2>4, <2>5, <2>6 DEF Standing, StandsFor, NoError
  <2> QED
    BY <2>1, <2>7, NowLeaving DEF Leaving
<1>4. CASE StopFixtureServer
  <2>1. /\ pc = "leave_fixture" /\ pc' = "remove_directory"
        /\ UNCHANGED <<run, raised, primary, failure>>
    BY <1>4 DEF StopFixtureServer, At, Proceed, Goto
  <2>2. raised = NoError /\ failure.fixture = NoError /\ Standing(failure.execution)
    BY <2>1 DEF Inv, ErrorKept, Leaving
  <2>3. Standing(failure.execution)'
    BY <2>1, <2>2 DEF Standing, StandsFor, Replacing, NoError
  <2> QED
    BY <2>1, <2>2, <2>3, NowLeaving DEF Leaving
<1>5. CASE RemoveDirectory
  <2>1. /\ pc = "remove_directory" /\ pc' = "finalize" /\ UNCHANGED <<run, raised>>
    BY <1>5 DEF RemoveDirectory, At, Goto
  <2>2. raised = NoError /\ failure.fixture = NoError /\ Standing(failure.execution)
    BY <2>1 DEF Inv, ErrorKept, Leaving
  <2>3. CASE UNCHANGED <<failure, primary>>
    <3>1. Failure' = failure.execution
      BY <2>2, <2>3 DEF Failure, NoError
    <3>2. Standing(Failure)'
      BY <2>1, <2>2, <2>3, <3>1 DEF Standing, StandsFor, Replacing, NoError
    <3> QED
      BY <2>1, <2>2, <3>2, NowLeaving DEF Leaving
  <2>4. CASE /\ failure' = [failure EXCEPT !.fixture = Error("fixture_teardown")]
             /\ First(Error("fixture_teardown"))
    <3>1. Error("fixture_teardown") # NoError
      BY ErrorStages
    <3>2. failure'.execution = failure.execution
          /\ failure'.fixture = Error("fixture_teardown")
      BY <2>4 DEF Inv, TypeOK
    <3>3. CASE failure.execution = NoError
      <4>1. primary' = Error("fixture_teardown") /\ Failure' = Error("fixture_teardown")
        BY <2>2, <2>4, <3>2, <3>3 DEF Standing, First, Earlier, Failure, NoError
      <4>2. Standing(Failure)'
        BY <3>1, <4>1 DEF Standing, StandsFor, NoError
      <4> QED
        BY <2>1, <2>2, <4>2, NowLeaving DEF Leaving
    <3>4. CASE failure.execution # NoError
      <4>1. primary # NoError /\ primary' = primary /\ Failure' = failure.execution
        BY <2>2, <2>4, <3>2, <3>4 DEF Standing, First, Earlier, Failure, NoError
      <4>2. Standing(Failure)'
        BY <2>1, <2>2, <4>1 DEF Standing, StandsFor, Replacing, NoError
      <4> QED
        BY <2>1, <2>2, <4>2, NowLeaving DEF Leaving
    <3> QED
      BY <3>3, <3>4
  <2> QED
    BY <1>5, <2>3, <2>4 DEF RemoveDirectory
<1>6. CASE SelectBaseline
  <2>1. pc = "select" /\ UNCHANGED <<run, errors, raised>>
    BY <1>6 DEF SelectBaseline, At
  <2>2. raised = NoError /\ primary = NoError /\ errors = <<>>
        /\ failure = [execution |-> NoError, fixture |-> NoError]
    BY <2>1, <1>a, <1>b, <1>c DEF Unhurt, Starting, Unproxied, Executing
  <2>3. CASE pc' = "initial_state" /\ UNCHANGED <<failure, primary>>
    BY <2>1, <2>2, <2>3, StillExecuting DEF Starting, Executing, Unproxied
  <2>4. CASE /\ failure' = [failure EXCEPT !.execution = Error("baseline")]
             /\ First(Error("baseline")) /\ Goto(LeaveExecution)
    <3>1. Error("baseline") # NoError
      BY ErrorStages
    <3>2. /\ primary' = Error("baseline") /\ failure'.execution = Error("baseline")
          /\ failure'.fixture = NoError /\ pc' \in {"leave_fixture", "finalize"}
      BY <2>2, <2>4 DEF First, Earlier, Goto, LeaveExecution
    <3>3. Failure' = Error("baseline")
      BY <3>1, <3>2 DEF Failure, NoError
    <3>4. Standing(Failure)' /\ Standing(failure.execution)'
      BY <3>1, <3>2, <3>3 DEF Standing, StandsFor, NoError
    <3> QED
      BY <2>1, <2>2, <3>2, <3>4, NowLeaving DEF Leaving
  <2> QED
    BY <1>6, <2>3, <2>4 DEF SelectBaseline, Goto
<1>7. CASE PrepareInitialState \/ EnterProxy
  <2>1. pc \in {"initial_state", "injection_setup"} /\ UNCHANGED <<run, errors, failure>>
    BY <1>7 DEF PrepareInitialState, EnterProxy, At
  <2>2. raised = NoError /\ primary = NoError /\ errors = <<>>
        /\ pc \in Starting \cup Executing
    BY <2>1, <1>a, <1>b DEF Unhurt, Starting, Unproxied, Executing
  <2>3. CASE Proceed("injection_setup") \/ Proceed("baseline")
    <3>1. pc' \in {"injection_setup", "baseline"} /\ UNCHANGED <<raised, primary>>
      BY <2>3 DEF Proceed, Goto
    <3> QED
      BY <2>1, <2>2, <3>1, StillExecuting DEF Starting, Executing, Unproxied, Working
  <2>4. ASSUME NEW e \in {Error("initial_state"), Error("injection_setup")},
               Raise(e, "capture")
        PROVE  ErrorKept'
    <3>1. e # NoError
      BY ErrorStages
    <3>2. pc' = "capture" /\ raised' # NoError /\ Standing(raised)'
      BY <2>2, <2>4, <3>1, RaiseFirst
    <3>3. pc' \notin Starting \cup Unproxied \cup Unhurt \cup {"baseline", "undo_setup"}
          /\ pc' \in Executing
      BY <3>2 DEF Starting, Unproxied, Unhurt, Executing
    <3> QED
      BY <2>1, <2>2, <3>2, <3>3, StillExecuting
  <2> QED
    BY <1>7, <2>3, <2>4 DEF PrepareInitialState, EnterProxy
<1>8. CASE \/ RunControl \/ StopTrace \/ CloseContext \/ CloseBrowser \/ LeavePlaywright
           \/ PublishTrace \/ RaiseErrors \/ RemoveTraceDirectory \/ CreateSandbox \/ RunWorker
           \/ CaptureInventory \/ ReleaseSandbox \/ BindHistory \/ TakeReport
           \/ TakeAfterSnapshot \/ Evaluate
  <2>1. /\ pc \in Executing /\ pc' \in Executing /\ pc' # "capture" /\ UNCHANGED <<run, failure>>
        /\ pc' \notin Starting \cup Unproxied
    BY <1>8, BaselineStep DEF Executing, Working, Browsing, Boxed, Starting, Unproxied
  <2>2. ASSUME pc' # "baseline",
               pc' \in Unhurt => raised' = NoError /\ primary' = NoError,
               pc' = "exit_proxy" => Standing(raised)'
        PROVE  ErrorKept'
    BY <2>1, <2>2, StillExecuting DEF Starting
  <2>3. ASSUME pc \in Unhurt, NEW e, e # NoError, Raise(e, "exit_proxy")
        PROVE  ErrorKept'
    BY <2>2, <2>3, <1>a, RaiseFirst DEF Unhurt, Starting, Unproxied
  <2>4. ASSUME pc' \in Browsing \cup Boxed
        PROVE  ErrorKept'
    BY <2>2, <2>4 DEF Browsing, Boxed, Unhurt, Starting, Unproxied
  <2>5. /\ Error("baseline") # NoError /\ Error("injection_quiescence") # NoError
        /\ Timeout("injection_quiescence") # NoError /\ Error("after_snapshot") # NoError
        /\ Error("evaluation") # NoError
    BY ErrorStages
  <2>6. CASE RunControl
    <3>1. pc \in Unhurt
      BY <2>6 DEF RunControl, At, Unhurt
    <3>2. pc' \in Browsing \/ Raise(Error("baseline"), "exit_proxy")
      BY <2>6 DEF RunControl, Raise, Keep, Proceed, Goto, Browsing
    <3> QED
      BY <2>3, <2>4, <2>5, <3>1, <3>2
  <2>7. CASE StopTrace \/ CloseContext \/ CloseBrowser \/ LeavePlaywright \/ PublishTrace
             \/ RaiseErrors
    BY <2>4, <2>7 DEF StopTrace, CloseContext, CloseBrowser, Try, LeavePlaywright, PublishTrace,
       RaiseErrors, Raise, Keep, Proceed, Goto, Browsing
  <2>8. CASE RemoveTraceDirectory
    <3>1. /\ Standing(raised) /\ ~run.learned /\ pc = "trace_directory"
          /\ primary # NoError => primary.stage \in BrowserStages
          /\ raised # NoError => raised.stage \in BrowserStages
      BY <2>8 DEF RemoveTraceDirectory, At, Inv, BrowserHeld, Browsing
    <3>2. CASE Proceed(IF raised = NoError THEN "injection_quiescence" ELSE "exit_proxy")
      <4>1. UNCHANGED <<raised, primary>>
            /\ pc' = IF raised = NoError THEN "injection_quiescence" ELSE "exit_proxy"
        BY <3>2 DEF Proceed, Goto
      <4>2. raised = NoError => primary = NoError
        BY <3>1 DEF Standing
      <4>3. Standing(raised)'
        BY <2>1, <3>1, <4>1, StandingKept
      <4> QED
        BY <2>2, <4>1, <4>2, <4>3 DEF Unhurt, Starting, Unproxied
    <3>3. ASSUME NEW e, e = Failing("trace_directory",
                                    IF raised = NoError THEN "baseline" ELSE raised.stage),
                 Raise(e, "exit_proxy")
          PROVE  ErrorKept'
      <4>1. e # NoError /\ e.by = "trace_directory"
        BY <3>1, <3>3, ErrorStages DEF BrowserStages
      <4>2. pc' = "exit_proxy" /\ raised' = e
        BY <3>3 DEF Raise, Goto
      <4>3. CASE primary = NoError
        BY <2>2, <3>3, <4>1, <4>2, <4>3, RaiseFirst DEF Unhurt, Starting, Unproxied
      <4>4. CASE primary # NoError
        <5>1. primary' = primary
          BY <3>3, <4>4 DEF Raise, First, Earlier
        <5>2. "trace_directory" \in Replacing(primary)
          BY <3>1, <4>4 DEF Replacing, BrowserStages
        <5>3. Standing(raised)'
          BY <2>1, <4>1, <4>2, <4>4, <5>1, <5>2, Replaced
        <5> QED
          BY <2>2, <4>2, <5>3 DEF Unhurt, Starting, Unproxied
      <4> QED
        BY <4>3, <4>4
    <3> QED
      BY <2>8, <3>2, <3>3 DEF RemoveTraceDirectory
  <2>9. CASE CreateSandbox
    <3>1. pc \in Unhurt
      BY <2>9 DEF CreateSandbox, At, Unhurt
    <3>2. pc' \in Boxed \/ Raise(Error("baseline"), "exit_proxy")
      BY <2>9 DEF CreateSandbox, Raise, Proceed, Goto, Boxed
    <3> QED
      BY <2>3, <2>4, <2>5, <3>1, <3>2
  <2>10. CASE RunWorker \/ CaptureInventory
    BY <2>4, <2>10 DEF RunWorker, CaptureInventory, Raise, Keep, Goto, Boxed
  <2>11. CASE ReleaseSandbox
    <3>1. \/ raised' = NoError /\ primary' = NoError /\ pc' = "bind"
          \/ Standing(raised)' /\ pc' = "exit_proxy"
      BY <2>11, ReleaseLeaves
    <3> QED
      BY <2>2, <3>1 DEF Unhurt, Starting, Unproxied
  <2>12. CASE BindHistory \/ TakeReport \/ TakeAfterSnapshot \/ Evaluate
    <3>1. pc \in Unhurt
      BY <2>12 DEF BindHistory, TakeReport, TakeAfterSnapshot, Evaluate, At, Unhurt
    <3>2. \/ \E e \in {Error("baseline"), Error("injection_quiescence"),
                       Timeout("injection_quiescence"), Error("after_snapshot"),
                       Error("evaluation")} : Raise(e, "exit_proxy")
          \/ /\ UNCHANGED <<raised, primary>>
             /\ pc' \in {"injection_quiescence", "after_snapshot", "evaluation", "exit_proxy"}
      BY <2>12 DEF BindHistory, TakeReport, TakeAfterSnapshot, Evaluate, Proceed, Goto
    <3>3. CASE /\ UNCHANGED <<raised, primary>>
               /\ pc' \in {"injection_quiescence", "after_snapshot", "evaluation", "exit_proxy"}
      <4>1. raised' = NoError /\ primary' = NoError
        BY <3>1, <3>3, <1>a
      <4>2. Standing(raised)'
        BY <4>1 DEF Standing, NoError
      <4> QED
        BY <2>2, <3>3, <4>1, <4>2
    <3> QED
      BY <2>3, <2>5, <3>1, <3>2, <3>3
  <2> QED
    BY <1>8, <2>6, <2>7, <2>8, <2>9, <2>10, <2>11, <2>12
<1>9. CASE ExitProxy
  <2>1. pc = "exit_proxy" /\ Standing(raised) /\ UNCHANGED <<run, errors, failure>>
        /\ failure = [execution |-> NoError, fixture |-> NoError]
    BY <1>9, <1>c DEF ExitProxy, At, Inv, ErrorKept, Executing
  <2>2. ASSUME pc' = "capture", raised' # NoError, Standing(raised)'
        PROVE  ErrorKept'
    <3>1. pc' \in Executing /\ pc \in Executing
          /\ pc' \notin Starting \cup Unproxied \cup Unhurt \cup {"baseline", "undo_setup"}
      BY <2>1, <2>2 DEF Executing, Starting, Unproxied, Unhurt
    <3> QED
      BY <2>1, <2>2, <3>1, StillExecuting
  <2>3. CASE raised = NoError /\ Proceed(LeaveExecution)
    <3>1. primary' = NoError /\ raised' = NoError /\ pc' \in {"leave_fixture", "finalize"}
      BY <2>1, <2>3 DEF Standing, Proceed, Goto, LeaveExecution
    <3>2. failure'.execution = NoError /\ failure'.fixture = NoError /\ Failure' = NoError
      BY <2>1 DEF Failure, NoError
    <3>3. Standing(Failure)' /\ Standing(failure.execution)'
      BY <3>1, <3>2 DEF Standing, NoError
    <3> QED
      BY <3>1, <3>2, <3>3, NowLeaving DEF Leaving
  <2>4. CASE raised # NoError /\ Proceed("capture")
    <3>1. pc' = "capture" /\ UNCHANGED <<raised, primary>>
      BY <2>4 DEF Proceed, Goto
    <3>2. Standing(raised)'
      BY <2>1, <3>1, StandingKept
    <3> QED
      BY <2>2, <2>4, <3>1, <3>2
  <2>5. CASE raised = NoError /\ Raise(Error("proxy_teardown"), "capture")
    <3>1. primary = NoError /\ Error("proxy_teardown") # NoError
      BY <2>1, <2>5, ErrorStages DEF Standing
    <3> QED
      BY <2>2, <2>5, <3>1, RaiseFirst
  <2> QED
    BY <1>9, <2>3, <2>4, <2>5 DEF ExitProxy
<1>10. CASE CaptureFailureEvidence
  <2>1. /\ pc = "capture" /\ UNCHANGED <<run, primary>> /\ raised' = NoError
        /\ failure' = [failure EXCEPT !.execution = raised]
        /\ pc' \in {"leave_fixture", "finalize"}
    BY <1>10 DEF CaptureFailureEvidence, At, Goto, LeaveExecution
  <2>2. /\ raised # NoError /\ Standing(raised)
        /\ failure = [execution |-> NoError, fixture |-> NoError]
    BY <2>1, <1>c DEF Inv, ErrorKept, Executing
  <2>3. failure'.execution = raised /\ failure'.fixture = NoError /\ Failure' = raised
    BY <2>1, <2>2 DEF Failure, NoError
  <2>4. Standing(Failure)' /\ Standing(failure.execution)'
    BY <2>1, <2>2, <2>3 DEF Standing, StandsFor, Replacing, NoError
  <2> QED
    BY <2>1, <2>3, <2>4, NowLeaving DEF Leaving
<1>11. ASSUME pc' \in {"link", "unlink", "returned", "killed"}
       PROVE  ErrorKept'
  BY <1>11 DEF ErrorKept, Unhurt, Starting, Executing, Unproxied, Working, Browsing, Boxed,
     Leaving
<1>12. ASSUME pc' = "write_failure", raised' # NoError,
              primary' # NoError => StandsFor(raised, primary)'
       PROVE  ErrorKept'
  BY <1>12 DEF ErrorKept, Unhurt, Starting, Executing, Unproxied, Working, Browsing, Boxed,
     Leaving, NoError
<1>13. CASE Finalize
  <2>1. pc = "finalize" /\ UNCHANGED <<run, primary>> /\ Standing(Failure)
    BY <1>13 DEF Finalize, At, Inv, ErrorKept
  <2>2. CASE pc' = "link"
    BY <1>11, <2>2
  <2>3. CASE /\ pc' = "write_failure"
             /\ raised' = IF Failure # NoError THEN Failure ELSE Error("receipt_write")
    <3>1. raised' # NoError /\ (primary # NoError => raised' = Failure)
      BY <2>1, <2>3, ErrorStages DEF Standing
    <3>2. primary' # NoError => StandsFor(raised, primary)'
      BY <2>1, <3>1 DEF Standing, StandsFor, Replacing
    <3> QED
      BY <1>12, <2>3, <3>1, <3>2
  <2> QED
    BY <1>13, <2>2, <2>3 DEF Finalize, Goto
<1>14. CASE WriteFailure \/ Killed
  BY <1>11, <1>14 DEF WriteFailure, Killed, Goto
<1>15. CASE Link \/ Unlink
  <2>1. pc \in {"link", "unlink"} /\ UNCHANGED <<run, primary>>
    BY <1>15 DEF Link, LinkOnto, Unlink, At
  <2>2. \/ pc' \in {"unlink", "returned"}
        \/ /\ draft.status = "success" /\ raised' = Error("receipt_write")
           /\ pc' = "write_failure"
    BY <1>15 DEF Link, LinkOnto, Unlink, WriteFails, Goto
  <2>3. draft.status = "success" => primary = NoError
    BY <2>1 DEF Inv, ReceiptHeld
  <2>4. Error("receipt_write") # NoError
    BY ErrorStages
  <2> QED
    BY <1>11, <1>12, <2>1, <2>2, <2>3, <2>4
<1>16. CASE ServerCrashes \/ Over
  <2>1. UNCHANGED <<run, pc, errors, raised, failure, primary>>
    BY <1>16 DEF ServerCrashes, Over, vars
  <2> QED
    BY <2>1 DEF Inv, ErrorKept, Standing, StandsFor, Replacing, Failure
<1> QED
  BY <1>1, <1>2, <1>3, <1>4, <1>5, <1>6, <1>7, <1>8, <1>9, <1>10, <1>13, <1>14, <1>15, <1>16
     DEF Next

\* Before the receipt is being written there is none to disagree with.
LEMMA NothingSaid ==
  ASSUME Inv, pc \notin Writing \cup {"killed"}, pc' \notin Writing,
         disk'.receipt = disk.receipt
  PROVE  ReceiptHeld'
PROOF
<1>1. ~Published
  BY DEF Inv, ReceiptHeld
<1>2. ~Published'
  BY <1>1 DEF Published
<1> QED
  BY <1>2 DEF ReceiptHeld, Writing

\* What is said in a receipt still holds of what the run has left behind.
LEMMA ReceiptStep ==
  ASSUME Inv, Next
  PROVE  ReceiptHeld'
PROOF
<1>0. ASSUME pc \notin Writing \cup {"killed"}, pc' \notin Writing,
             disk'.receipt = disk.receipt
      PROVE  ReceiptHeld'
  BY <1>0, NothingSaid
<1>1. CASE EnsureCanonicalSource \/ VerifyFixtureIdentity \/ SelectBaseline
  BY <1>1, <1>0 DEF EnsureCanonicalSource, VerifyFixtureIdentity, SelectBaseline, At,
       Goto, LeaveExecution, Writing
<1>2. CASE EnterFixture \/ WaitUntilReady \/ UndoSetup
  BY <1>2, <1>0 DEF EnterFixture, WaitUntilReady, UndoSetup, At, Goto, Raise, Keep, Proceed,
       Writing
<1>3. CASE ServerCrashes
  <2>1. pc \notin Writing \cup {"killed"} /\ UNCHANGED <<pc, disk>>
    BY <1>3 DEF ServerCrashes, Inv, FixtureHeld
  <2> QED
    BY <2>1, <1>0
<1>4. CASE StopFixtureServer \/ RemoveDirectory
  BY <1>4, <1>0 DEF StopFixtureServer, RemoveDirectory, At, Goto, Proceed, Writing
<1>5. CASE PrepareInitialState \/ EnterProxy
  BY <1>5, <1>0 DEF PrepareInitialState, EnterProxy, At, Goto, Raise, Proceed, Writing
<1>6. CASE \/ RunControl \/ StopTrace \/ CloseContext \/ CloseBrowser \/ LeavePlaywright
            \/ PublishTrace \/ RaiseErrors \/ RemoveTraceDirectory \/ CreateSandbox \/ RunWorker
            \/ CaptureInventory \/ ReleaseSandbox \/ BindHistory \/ TakeReport
            \/ TakeAfterSnapshot \/ Evaluate
  <2>1. pc \in Working \cup Boxed /\ pc' \in Working \cup Boxed \cup {"exit_proxy"}
    BY <1>6, BaselineStep
  <2>2. disk'.receipt = disk.receipt
    <3>1. ASSUME NEW name \in {"trace", "inventory"}, NEW ok, WriteArtifact(name, ok)
          PROVE  disk'.receipt = disk.receipt
      BY <3>1 DEF WriteArtifact, Inv, TypeOK
    <3>2. CASE PublishTrace \/ ReleaseSandbox \/ BindHistory
      BY <3>1, <3>2 DEF PublishTrace, ReleaseSandbox, BindHistory
    <3>3. CASE StopTrace \/ CloseContext \/ CloseBrowser \/ LeavePlaywright \/ RunControl
               \/ RaiseErrors \/ RemoveTraceDirectory
      BY <3>3 DEF StopTrace, CloseContext, CloseBrowser, Try, LeavePlaywright, RunControl,
         RaiseErrors, RemoveTraceDirectory
    <3>4. CASE CreateSandbox \/ RunWorker \/ CaptureInventory \/ TakeReport \/ TakeAfterSnapshot
               \/ Evaluate
      BY <3>4 DEF CreateSandbox, RunWorker, CaptureInventory, TakeReport, TakeAfterSnapshot,
         Evaluate
    <3> QED
      BY <1>6, <3>2, <3>3, <3>4
  <2> QED
    BY <2>1, <2>2, <1>0 DEF Working, Browsing, Boxed, Writing
<1>7. CASE ExitProxy
  BY <1>7, <1>0 DEF ExitProxy, LeaveExecution, At, Goto, Raise, Keep, Proceed, Writing
<1>8. CASE CaptureFailureEvidence
  BY <1>8, <1>0 DEF CaptureFailureEvidence, LeaveExecution, At, Goto, Writing
<1>9. CASE Finalize
  <2>1. /\ pc = "finalize"
        /\ UNCHANGED <<run, fixture, proxy, sandbox, failure, builder, primary, disk>>
    BY <1>9 DEF Finalize, At
  <2>2. ~Published /\ Standing(Failure) /\ raised = NoError
    BY <2>1 DEF Inv, ReceiptHeld, ErrorKept, Leaving, Writing
  <2>3. CASE Goto("link")
    <3>1. /\ draft' = [status |-> "success", failure |-> NoError, evidence |-> builder]
          /\ Failure = NoError /\ Complete(builder, run.learned) /\ UNCHANGED raised
      BY <1>9, <2>3 DEF Finalize, Goto
    <3>2. failure.execution = NoError /\ failure.fixture = NoError /\ primary = NoError
      BY <2>2, <3>1 DEF Failure, Standing
    <3>3. proxy \in {"none", "stopped"}
      BY <2>1, <3>2 DEF Inv, TypeOK, ProxyHeld, Leaving
    <3>4. ~fixture.directory /\ fixture.server \in {"none", "stopped"}
      BY <2>1, <3>2, ErrorStages DEF Inv, TypeOK, FixtureHeld, SetupStages
    <3>5. sandbox # "present"
      BY <2>1, <3>1 DEF Inv, SandboxHeld, Complete, Boxed
    <3>6. Honest(draft)'
      BY <2>1, <3>1, <3>2, <3>3, <3>4, <3>5 DEF Honest, NoError
    <3> QED
      BY <2>1, <2>2, <2>3, <3>1, <3>2, <3>6 DEF ReceiptHeld, Published, Statuses, Goto, NoError
  <2>4. CASE Goto("write_failure")
    <3>1. raised' = IF Failure # NoError THEN Failure ELSE Error("receipt_write")
      BY <1>9, <2>4 DEF Finalize, Goto
    <3>2. proxy = "unstopped" =>
            "proxy_teardown" \in {raised'.stage} \cup builder.evidence_failures
      BY <2>1, <3>1 DEF Inv, ProxyHeld, Failure, Leaving
    <3>3. fixture.directory \/ fixture.server = "stuck" =>
            ({raised'.stage} \cup builder.evidence_failures) \cap SetupStages # {}
      BY <2>1, <3>1, ErrorStages DEF Inv, TypeOK, FixtureHeld, Failure, SetupStages
    <3> QED
      BY <2>1, <2>2, <2>4, <3>2, <3>3 DEF ReceiptHeld, Published, Goto
  <2> QED
    BY <1>9, <2>3, <2>4 DEF Finalize
<1>10. CASE WriteFailure
  <2>1. /\ pc = "write_failure" /\ pc' = "link"
        /\ UNCHANGED <<run, fixture, proxy, sandbox, raised, primary, disk>>
        /\ draft' = [status |-> Classify(raised), failure |-> raised,
                     evidence |-> FailureEvidence]
    BY <1>10 DEF WriteFailure, At, Goto
  <2>2. Replacing(primary)' = Replacing(primary)
    BY <2>1 DEF Replacing
  <2>3. draft'.status \in Statuses \ {"success"}
    BY <2>1 DEF Classify, Statuses
  <2>4. draft'.failure = raised /\ Named(draft') = {raised.stage} \cup builder.evidence_failures
    BY <2>1 DEF Named, FailureEvidence, Inv, TypeOK, Builders
  <2>5. sandbox = "present" => draft'.evidence.filesystem.state = "cleanup_failed"
    <3>1. sandbox = "present" => builder.filesystem.state = "cleanup_failed"
      BY <2>1 DEF Inv, SandboxHeld, Boxed
    <3> QED
      BY <2>1, <3>1 DEF FailureEvidence, Inv, TypeOK, Builders, Filesystems
  <2>6. primary # NoError => raised = primary \/ raised.by \in Replacing(primary)
    BY <2>1 DEF Inv, ErrorKept, StandsFor
  <2>7. /\ proxy = "unstopped" => "proxy_teardown" \in Named(draft')
        /\ fixture.directory \/ fixture.server = "stuck" => Named(draft') \cap SetupStages # {}
    BY <2>1, <2>4 DEF Inv, ReceiptHeld
  <2>8. Honest(draft)'
    BY <2>1, <2>2, <2>3, <2>4, <2>5, <2>6, <2>7 DEF Honest, Named, StandsFor, NoError
  <2>9. Published' => /\ pc' \in Writing \cup {"killed"}
                      /\ Honest(disk.receipt)'
                      /\ (proxy # "running" /\ fixture.server # "running" /\ ~fixture.listener)'
    BY <2>1, <2>2 DEF Inv, ReceiptHeld, Honest, StandsFor, Published, Writing, NoError
  <2> QED
    BY <2>1, <2>3, <2>4, <2>8, <2>9 DEF ReceiptHeld
<1>11. CASE Link \/ Unlink
  <2>1. /\ pc \in {"link", "unlink"}
        /\ UNCHANGED <<run, fixture, proxy, sandbox, builder, primary, draft>>
    BY <1>11 DEF Link, LinkOnto, Unlink, At
  <2>2. /\ Honest(draft) /\ draft.failure = raised /\ draft.status \in Statuses
        /\ draft.status = "success" => raised = NoError /\ primary = NoError
    BY <2>1 DEF Inv, ReceiptHeld
  <2>3. proxy # "running" /\ fixture.server # "running" /\ ~fixture.listener
    BY <2>1 DEF Inv, ProxyHeld, FixtureHeld, Writing
  <2>4. Replacing(primary)' = Replacing(primary)
    BY <2>1 DEF Replacing
  <2>5. /\ disk'.receipt \in {disk.receipt, draft}
        /\ pc' = "unlink" => disk'.receipt = draft
    <3>1. CASE Link
      BY <3>1 DEF Link, LinkOnto, WriteFails, Goto, Inv, TypeOK
    <3>2. CASE Unlink
      BY <3>2 DEF Unlink, WriteFails, Goto, Inv, TypeOK
    <3> QED
      BY <1>11, <3>1, <3>2
  <2>6. \/ pc' \in {"unlink", "returned"} /\ UNCHANGED raised
        \/ pc' = "write_failure" /\ draft.status = "success"
    BY <1>11 DEF Link, LinkOnto, Unlink, WriteFails, Goto
  <2>7. Honest(draft)'
    BY <2>1, <2>2, <2>4 DEF Honest, Named, StandsFor, NoError
  <2>8. Published' => Honest(disk.receipt)' /\ pc' \in Writing \cup {"killed"}
    <3>1. pc' \in Writing
      BY <2>6 DEF Writing
    <3>2. CASE disk'.receipt = draft
      BY <2>1, <2>7, <3>1, <3>2 DEF Honest, Named, StandsFor, NoError
    <3>3. CASE disk'.receipt = disk.receipt
      BY <2>1, <2>4, <3>1, <3>3 DEF Inv, ReceiptHeld, Honest, Named, StandsFor, Published, NoError
    <3> QED
      BY <2>5, <3>2, <3>3
  <2>9. CASE pc' \in {"unlink", "returned"} /\ UNCHANGED raised
    BY <2>1, <2>2, <2>3, <2>5, <2>7, <2>8, <2>9 DEF ReceiptHeld, NoError
  <2>10. CASE pc' = "write_failure" /\ draft.status = "success"
    <3>1. /\ proxy \in {"none", "stopped"} /\ ~fixture.directory
          /\ fixture.server \in {"none", "stopped"}
      BY <2>2, <2>10 DEF Honest
    <3> QED
      BY <2>1, <2>3, <2>8, <2>10, <3>1 DEF ReceiptHeld
  <2> QED
    BY <2>6, <2>9, <2>10
<1>12. CASE Killed \/ Over
  <2>1. /\ UNCHANGED <<run, fixture, proxy, sandbox, builder, raised, primary, draft, disk>>
        /\ pc' \in {pc, "killed"}
    BY <1>12 DEF Killed, Over, Goto, vars
  <2>2. Replacing(primary)' = Replacing(primary)
    BY <2>1 DEF Replacing
  <2> QED
    BY <2>1, <2>2 DEF Inv, ReceiptHeld, Honest, Named, StandsFor, Published, NoError
<1> QED
  BY <1>1, <1>2, <1>3, <1>4, <1>5, <1>6, <1>7, <1>8, <1>9, <1>10, <1>11, <1>12 DEF Next

\* What is returned is what was written.
LEMMA ResultStep ==
  ASSUME Inv, Next
  PROVE  ResultHeld'
PROOF
<1>1. ASSUME pc' # "returned"
      PROVE  ResultHeld'
  BY <1>1 DEF ResultHeld
<1>2. CASE EnsureCanonicalSource \/ VerifyFixtureIdentity \/ EnterFixture \/ WaitUntilReady
           \/ UndoSetup \/ StopFixtureServer \/ RemoveDirectory \/ SelectBaseline
  BY <1>1, <1>2 DEF EnsureCanonicalSource, VerifyFixtureIdentity, EnterFixture, WaitUntilReady,
     UndoSetup, StopFixtureServer, RemoveDirectory, SelectBaseline, LeaveExecution, Goto, Raise,
     Proceed
<1>3. CASE PrepareInitialState \/ EnterProxy \/ ExitProxy \/ CaptureFailureEvidence
  BY <1>1, <1>3 DEF PrepareInitialState, EnterProxy, ExitProxy, CaptureFailureEvidence,
     LeaveExecution, Goto, Raise, Proceed
<1>4. CASE \/ RunControl \/ StopTrace \/ CloseContext \/ CloseBrowser \/ LeavePlaywright
           \/ PublishTrace \/ RaiseErrors \/ RemoveTraceDirectory \/ CreateSandbox \/ RunWorker
           \/ CaptureInventory \/ ReleaseSandbox \/ BindHistory \/ TakeReport
           \/ TakeAfterSnapshot \/ Evaluate
  BY <1>1, <1>4, BaselineStep DEF Working, Browsing, Boxed
<1>5. CASE Finalize \/ WriteFailure \/ Killed
  BY <1>1, <1>5 DEF Finalize, WriteFailure, Killed, Goto
<1>6. CASE Link \/ Unlink
  BY <1>6 DEF Link, Unlink, At, Goto, LinkOnto, WriteFails, Inv, ResultHeld, ReceiptHeld, TypeOK
<1>7. CASE ServerCrashes \/ Over
  BY <1>7 DEF ServerCrashes, Over, vars, Inv, ResultHeld
<1> QED
  BY <1>2, <1>3, <1>4, <1>5, <1>6, <1>7 DEF Next

-----------------------------------------------------------------------------
(* Theorems *)

\* The invariant holds before the first step ...
LEMMA InvInit == Init => Inv
PROOF
<1> SUFFICES ASSUME Init
             PROVE  Inv
  OBVIOUS
<1>1. NewBuilder \in Builders
  BY DEF NewBuilder, Builders, Filesystems
<1>2. disk \in [receipt : Receipts, temporary : BOOLEAN,
                artifacts : SUBSET {"trace", "inventory"}]
  <2>1. \A s \in {"absent", "earlier"} : [NoReceipt EXCEPT !.status = s] \in Receipts
    BY <1>1, ErrorsTyped DEF NoReceipt, Receipts
  <2>2. PICK s \in {"absent", "earlier"}, a \in {{}, {"trace", "inventory"}} :
          disk = [receipt |-> [NoReceipt EXCEPT !.status = s], temporary |-> FALSE,
                  artifacts |-> a]
    BY DEF Init
  <2> QED
    BY <2>1, <2>2
<1>3. draft \in Receipts
  BY <1>1, ErrorsTyped DEF Init, NoReceipt, Receipts
<1>4. result \in Results
  BY ErrorsTyped DEF Init, Results
<1>5. errors \in Seq(Exceptions)
  BY DEF Init
<1>6. fixture \in [directory : BOOLEAN, listener : BOOLEAN,
                   server : {"none", "running", "crashed", "stopped", "stuck"}]
      /\ worker \in [timed_out : BOOLEAN, teardown_error : BOOLEAN, payload : BOOLEAN,
                     inventory : {"none", "taken", "failed"}]
      /\ failure \in [execution : Exceptions, fixture : Exceptions]
  BY ErrorsTyped DEF Init
<1>7. TypeOK
  <2>1. run \in Runs /\ pc \in Steps /\ proxy = "none" /\ sandbox = "none"
        /\ builder = NewBuilder /\ raised = NoError /\ primary = NoError
    BY DEF Init, Steps
  <2> QED
    BY <1>1, <1>2, <1>3, <1>4, <1>5, <1>6, <2>1, ErrorsTyped DEF TypeOK
<1>8. ~Published
  <2>1. NoReceipt \in Receipts
    BY <1>1, ErrorsTyped DEF NoReceipt, Receipts
  <2> QED
    BY <2>1 DEF Init, Published, Receipts
<1>9. FixtureHeld /\ ProxyHeld /\ SandboxHeld /\ BrowserHeld /\ WorkerHeld /\ ErrorKept
      /\ ResultHeld
  BY DEF Init, FixtureHeld, ProxyHeld, SandboxHeld, BrowserHeld, WorkerHeld, ErrorKept,
     ResultHeld,
         Starting, Unproxied, Browsing, Working, Boxed, Executing, Leaving, Writing
<1>10. ReceiptHeld
  BY <1>8 DEF Init, ReceiptHeld
<1> QED
  BY <1>7, <1>9, <1>10 DEF Inv

\* ... and every step keeps it.
LEMMA InvStep == Inv /\ [Next]_vars => Inv'
PROOF
<1>1. ASSUME Inv, Next
      PROVE  Inv'
  <2>1. TypeOK'
    BY <1>1, TypeStep DEF Inv
  <2> QED
    BY <1>1, <2>1, FixtureStep, ProxyStep, SandboxStep, BrowserStep, WorkerStep, ErrorStep,
       ReceiptStep, ResultStep DEF Inv
<1>2. ASSUME Inv, UNCHANGED vars
      PROVE  Inv'
  <2>1. (TypeOK /\ FixtureHeld /\ ProxyHeld /\ SandboxHeld /\ ResultHeld)'
    BY <1>2 DEF Inv, vars, TypeOK, FixtureHeld, ProxyHeld, SandboxHeld, ResultHeld
  <2>2. Replacing(primary)' = Replacing(primary)
    BY <1>2 DEF vars, Replacing
  <2>3. (BrowserHeld /\ WorkerHeld /\ ErrorKept)'
    BY <1>2, <2>2 DEF Inv, vars, BrowserHeld, FirstKept, WorkerHeld, FirstMet, ErrorKept,
       Standing,
       StandsFor, Failure
  <2>4. ReceiptHeld'
    BY <1>2, <2>2 DEF Inv, vars, ReceiptHeld, Honest, Named, Published, StandsFor
  <2> QED
    BY <2>1, <2>3, <2>4 DEF Inv
<1> QED
  BY <1>1, <1>2

\* Every state of every run keeps the books of Inv.
THEOREM LifecycleInvariant == Spec => []Inv
PROOF
  BY InvInit, InvStep, PTL DEF Spec

\* Every variable has its type, whatever kinds of run there are.
THEOREM LifecycleTypeOK == Spec => []TypeOK
PROOF
<1>1. Inv => TypeOK
  BY DEF Inv
<1> QED
  BY <1>1, LifecycleInvariant, PTL

\* A receipt goes out only when proxy and fixture are down, and what their
\* teardown left behind is named in it: _finalize_run comes after both scopes.
THEOREM LifecycleTeardownBeforeReceipt == Spec => []TeardownBeforeReceipt
PROOF
<1>1. Inv => TeardownBeforeReceipt
  BY DEF Inv, ReceiptHeld, Honest, TeardownBeforeReceipt, Success, SetupStages
<1> QED
  BY <1>1, LifecycleInvariant, PTL

\* The result of run_managed and run_external is that of the receipt they wrote,
\* or reports that none could be written.
THEOREM LifecycleResultAgrees == Spec => []ResultAgrees
PROOF
<1>1. Inv => ResultAgrees
  BY DEF Inv, ReceiptHeld, ResultHeld, ResultAgrees, Success, At
<1> QED
  BY <1>1, LifecycleInvariant, PTL

\* The exception receipted and returned is the first one the run met, raised or kept,
\* or comes from one of the operations that Replacing names for it: no other operation
\* displaces it, however many teardowns and writes fail after it.
THEOREM LifecyclePrimarySurvives == Spec => []PrimarySurvives
PROOF
<1>1. Inv => PrimarySurvives
  BY DEF Inv, ReceiptHeld, ResultHeld, Honest, PrimarySurvives, At
<1> QED
  BY <1>1, LifecycleInvariant, PTL

\* write_receipt links its file only where no receipt is: one that is out, of
\* this run or of an earlier one, stays as it is.
THEOREM LifecycleNeverReplaced == Spec => NeverReplaced
PROOF
<1>1. TypeOK /\ [Next]_vars =>
        [disk.receipt.status # "absent" => disk'.receipt = disk.receipt]_disk
  <2> SUFFICES ASSUME TypeOK, Next, disk.receipt.status # "absent"
               PROVE  disk'.receipt = disk.receipt
    BY DEF vars
  <2>1. CASE Link \/ Unlink
    BY <2>1 DEF Link, LinkOnto, Unlink, TypeOK
  <2>2. CASE PublishTrace \/ ReleaseSandbox \/ BindHistory
    BY <2>2 DEF PublishTrace, ReleaseSandbox, BindHistory, WriteArtifact, TypeOK
  <2>3. CASE UNCHANGED disk
    BY <2>3
  <2>4. \/ Link \/ Unlink \/ PublishTrace \/ ReleaseSandbox \/ BindHistory
        \/ UNCHANGED disk
    BY DEF Next, vars, EnsureCanonicalSource, VerifyFixtureIdentity, EnterFixture,
           WaitUntilReady, ServerCrashes, UndoSetup, StopFixtureServer, RemoveDirectory,
           SelectBaseline, PrepareInitialState, EnterProxy, RunControl, Try, StopTrace,
           CloseContext, CloseBrowser, LeavePlaywright, RaiseErrors, RemoveTraceDirectory,
           CreateSandbox,
           RunWorker, CaptureInventory, TakeReport, TakeAfterSnapshot, Evaluate,
           ExitProxy, CaptureFailureEvidence, Finalize, WriteFailure, Killed, Over
  <2> QED
    BY <2>1, <2>2, <2>3, <2>4
<1> QED
  BY <1>1, LifecycleTypeOK, PTL DEF Spec, NeverReplaced

-----------------------------------------------------------------------------
(* What a published receipt says stands up to the validator, and a deadline   *)
(* that passed is told, for any set of kinds of run.                          *)

\* The clean-up after a worker's deadline failed as well ...
Unboxed == \/ worker.teardown_error \/ builder.filesystem.state = "cleanup_failed"
           \/ worker.inventory # "none" /\ ~builder.filesystem.inventory

\* ... or that after any deadline did.
Uncleaned == fixture.directory \/ fixture.server = "stuck" \/ Unboxed

Late == worker.timed_out \/ primary.timeout

\* Where a deadline that passed is kept on its way to the receipt.
TimeoutKept ==
  /\ worker.timed_out => pc \notin Starting \cup Unproxied \cup Working \cup {"worker"}
  /\ pc \in Boxed /\ raised # NoError => ~worker.timed_out
  /\ pc \in Browsing \cup Boxed /\ primary.timeout => worker.timed_out
  /\ pc \in {"exit_proxy", "capture"} /\ Late =>
       raised # NoError /\ (raised.timeout \/ Unboxed)
  /\ pc \in Leaving /\ worker.timed_out => failure.execution # NoError
  /\ pc \in Leaving /\ Late /\ failure.execution # NoError =>
       failure.execution.timeout \/ Unboxed
  /\ pc = "finalize" /\ failure.execution = NoError =>
       \/ primary = failure.fixture
       \/ failure.fixture # NoError /\ (fixture.directory \/ fixture.server = "stuck")
  /\ pc = "write_failure" /\ Late => raised.timeout \/ Uncleaned
  /\ pc \in {"link", "unlink", "returned"} /\ Late =>
       draft.status = "timeout" \/ (draft.status # "success" /\ Uncleaned)

\* What the evidence collected so far agrees with.
EvidenceHeld ==
  /\ builder.trace => "trace" \in disk.artifacts
  /\ builder.filesystem.inventory => "inventory" \in disk.artifacts
  /\ pc \in Starting \cup Unproxied => ~builder.prompt
  /\ pc \in Starting \cup Unproxied \cup Working \cup Boxed => builder.report = "missing"
  /\ builder.prompt =>
       /\ proxy = "none" <=> ~run.injected
       /\ builder.report \in {"missing", IF run.injected THEN "proxy" ELSE "none"}
  /\ pc = "release" /\ worker.inventory = "taken" => sandbox = "present"
  /\ builder.filesystem.state # "unbound" => run.learned
  /\ builder.filesystem.state \in {"unbound", "not_created"} =>
       ~builder.filesystem.inventory /\ ~builder.filesystem.cleanup_error
  /\ builder.filesystem.state = "cleaned" => ~builder.filesystem.cleanup_error

\* The receipt being written is the evidence's, and complete if a success.
DraftHeld ==
  pc \in {"link", "unlink", "returned"} =>
    /\ draft.evidence = builder
    /\ draft.status = "success" => /\ draft.failure = NoError
                                   /\ Complete(builder, run.learned)
                                   /\ run.source # "refused"
    /\ draft.status # "success" => /\ draft.failure # NoError /\ ~builder.evaluation
                                   /\ run.learned => builder.filesystem.state # "unbound"

\* The inductive invariant, on top of that of the lifecycle.
ReceiptInv == /\ Inv /\ TimeoutKept /\ EvidenceHeld /\ DraftHeld
              /\ TimeoutTold /\ StartedReceiptsValidate

-----------------------------------------------------------------------------
(* Before the receipt *)

\* An artifact that is linked stays, and no receipt is touched by it.
LEMMA ArtifactWritten ==
  ASSUME TypeOK, NEW name \in {"trace", "inventory"}, NEW ok \in BOOLEAN, WriteArtifact(name, ok)
  PROVE  /\ disk'.receipt = disk.receipt
         /\ disk.artifacts \subseteq disk'.artifacts
         /\ ok => name \in disk'.artifacts
PROOF
  BY DEF WriteArtifact, TypeOK

\* Until a receipt is linked there is none for the properties to speak of.
LEMMA NoneOut ==
  ASSUME Inv, pc \notin Writing \cup {"killed"}, disk'.receipt = disk.receipt
  PROVE  TimeoutTold' /\ StartedReceiptsValidate'
PROOF
<1>1. ~Published
  BY DEF Inv, ReceiptHeld
<1>2. ~Published'
  BY <1>1 DEF Published
<1> QED
  BY <1>2 DEF TimeoutTold, StartedReceiptsValidate

\* What is raised or kept without a deadline passing brings no deadline about.
LEMMA NoDeadline ==
  ASSUME NEW e, ~e.timeout, First(e), primary'.timeout
  PROVE  primary.timeout
PROOF
  BY DEF First, Earlier

\* The start of a run, up to the proxy.
LEMMA StartTimeout ==
  ASSUME Inv, TimeoutKept,
         \/ EnsureCanonicalSource \/ VerifyFixtureIdentity \/ EnterFixture \/ WaitUntilReady
         \/ SelectBaseline \/ PrepareInitialState \/ EnterProxy
  PROVE  TimeoutKept'
PROOF
<1>1. /\ pc \in Starting \cup Unproxied /\ UNCHANGED worker /\ ~worker.timed_out
      /\ raised = NoError /\ primary = NoError
      /\ failure = [execution |-> NoError, fixture |-> NoError]
  <2>1. pc \in (Starting \ {"undo_setup"}) \cup Unproxied /\ UNCHANGED worker
    BY DEF EnsureCanonicalSource, VerifyFixtureIdentity, EnterFixture, WaitUntilReady,
       SelectBaseline, PrepareInitialState, EnterProxy, At, Starting, Unproxied
  <2>2. pc \in Unhurt /\ pc \in Starting \cup Executing
    BY <2>1 DEF Unhurt, Executing
  <2> QED
    BY <2>1, <2>2 DEF Inv, ErrorKept, TimeoutKept
<1>2. ~NoError.timeout /\ ~Error("baseline").timeout
      /\ Error("baseline") # NoError
  BY ErrorStages
<1>3. CASE pc' \in Starting \cup Unproxied \cup {"baseline"}
  BY <1>1, <1>3 DEF TimeoutKept, Starting, Unproxied, Browsing, Boxed, Leaving
<1>4. ASSUME pc' = "finalize", NEW e, e # NoError, primary' = e,
             failure' = [failure EXCEPT !.fixture = e]
      PROVE  TimeoutKept'
  <2>1. failure'.execution = NoError /\ failure'.fixture = primary'
    BY <1>1, <1>4
  <2> QED
    BY <1>1, <1>4, <2>1 DEF TimeoutKept, Starting, Unproxied, Working, Browsing, Boxed, Leaving,
       NoError
<1>5. CASE EnsureCanonicalSource \/ VerifyFixtureIdentity
  <2>1. ASSUME NEW e, e # NoError, First(e), failure' = [failure EXCEPT !.fixture = e],
               Goto("finalize")
        PROVE  TimeoutKept'
    BY <1>1, <1>4, <2>1 DEF First, Earlier, Goto
  <2>2. Error("source") # NoError /\ Error("fixture_identity") # NoError
    BY ErrorStages
  <2> QED
    BY <1>3, <1>5, <2>1, <2>2 DEF EnsureCanonicalSource, VerifyFixtureIdentity, Goto, Starting,
       Unproxied
<1>6. CASE SelectBaseline
  <2>1. CASE /\ failure' = [failure EXCEPT !.execution = Error("baseline")]
             /\ First(Error("baseline")) /\ Goto(LeaveExecution)
    <3>1. /\ primary' = Error("baseline") /\ pc' \in {"leave_fixture", "finalize"}
          /\ failure'.execution = Error("baseline")
      BY <1>1, <2>1 DEF First, Earlier, Goto, LeaveExecution
    <3>2. ~Late'
      BY <1>1, <1>2, <3>1 DEF Late
    <3> QED
      BY <1>1, <1>2, <3>1, <3>2 DEF TimeoutKept, Late, Starting, Unproxied, Working, Browsing,
         Boxed, Leaving, NoError
  <2> QED
    BY <1>3, <1>6, <2>1 DEF SelectBaseline, Goto, Unproxied
<1>7. CASE EnterFixture \/ WaitUntilReady
  BY <1>3, <1>7 DEF EnterFixture, WaitUntilReady, Raise, Proceed, Goto, Starting, Unproxied
<1>8. CASE PrepareInitialState \/ EnterProxy
  <2>1. ASSUME NEW e \in {Error("initial_state"), Error("injection_setup")},
               Raise(e, "capture")
        PROVE  TimeoutKept'
    <3>1. e # NoError /\ ~e.timeout
      BY ErrorStages
    <3>2. pc' = "capture" /\ raised' = e /\ primary' = e
      BY <1>1, <2>1, <3>1, RaiseFirst
    <3>3. ~Late'
      BY <1>1, <3>1, <3>2 DEF Late
    <3> QED
      BY <1>1, <3>2, <3>3 DEF TimeoutKept, Late, Starting, Unproxied, Working, Browsing, Boxed,
         Leaving
  <2>2. \/ pc' \in Unproxied \cup {"baseline"}
        \/ \E e \in {Error("initial_state"), Error("injection_setup")} : Raise(e, "capture")
    BY <1>8 DEF PrepareInitialState, EnterProxy, Proceed, Goto, Unproxied
  <2> QED
    BY <1>3, <2>1, <2>2
<1> QED
  BY <1>5, <1>6, <1>7, <1>8

LEMMA FixtureTimeout ==
  ASSUME Inv, TimeoutKept, UndoSetup \/ ServerCrashes \/ StopFixtureServer \/ RemoveDirectory
  PROVE  TimeoutKept'
PROOF
<1>1. CASE UndoSetup
  <2>1. /\ pc = "undo_setup" /\ pc' = "finalize" /\ UNCHANGED <<worker, builder, primary>>
        /\ ~worker.timed_out
    BY <1>1 DEF UndoSetup, At, Goto, TimeoutKept, Starting
  <2>2. primary = raised /\ failure.execution = NoError
    BY <2>1 DEF Inv, ErrorKept, Starting
  <2>3. PICK removed \in BOOLEAN, s \in {"none", "stopped", "stuck", "crashed"} :
          /\ fixture' = [directory |-> ~removed, listener |-> FALSE, server |-> s]
          /\ failure' = [failure EXCEPT !.fixture =
                           IF removed /\ s # "stuck" THEN raised
                           ELSE Failing("undo_setup", "fixture_setup")]
    BY <1>1 DEF UndoSetup
  <2>4. failure'.execution = NoError
    BY <2>2, <2>3 DEF Inv, TypeOK
  <2>5. \/ failure'.fixture = primary
        \/ /\ failure'.fixture = Failing("undo_setup", "fixture_setup")
           /\ fixture'.directory \/ fixture'.server = "stuck"
    BY <2>2, <2>3 DEF Inv, TypeOK
  <2>6. Failing("undo_setup", "fixture_setup") # NoError
    BY ErrorStages
  <2> QED
    BY <2>1, <2>4, <2>5, <2>6 DEF TimeoutKept, Starting, Unproxied, Working, Browsing, Boxed,
       Leaving, NoError
<1>2. CASE ServerCrashes
  <2>1. /\ pc \notin {"finalize"} \cup Writing
        /\ UNCHANGED <<pc, worker, builder, raised, failure, primary>>
    BY <1>2 DEF ServerCrashes, Inv, FixtureHeld
  <2> QED
    BY <2>1 DEF TimeoutKept, Late, Unboxed, Writing
<1>3. CASE StopFixtureServer
  <2>1. /\ pc = "leave_fixture" /\ pc' = "remove_directory"
        /\ UNCHANGED <<worker, builder, failure, primary>>
    BY <1>3 DEF StopFixtureServer, At, Goto, Proceed
  <2> QED
    BY <2>1 DEF TimeoutKept, Late, Unboxed, Starting, Unproxied, Working, Browsing, Boxed, Leaving
<1>4. CASE RemoveDirectory
  <2>1. /\ pc = "remove_directory" /\ pc' = "finalize" /\ UNCHANGED worker
        /\ builder'.filesystem = builder.filesystem
        /\ failure'.execution = failure.execution
    BY <1>4 DEF RemoveDirectory, At, Goto, Inv, TypeOK, Builders
  <2>2. failure.fixture = NoError /\ Standing(failure.execution)
    BY <2>1 DEF Inv, ErrorKept
  <2>3. \/ UNCHANGED <<failure, primary>>
        \/ /\ failure'.fixture = Error("fixture_teardown")
           /\ First(Error("fixture_teardown"))
    BY <1>4 DEF RemoveDirectory, Inv, TypeOK
  <2>4. failure.execution = NoError => primary' = failure'.fixture
    BY <2>2, <2>3 DEF Standing, First, Earlier
  <2>5. primary'.timeout => primary.timeout
    BY <2>3, ErrorStages, NoDeadline
  <2> QED
    BY <2>1, <2>4, <2>5 DEF TimeoutKept, Late, Unboxed, Starting, Unproxied, Working, Browsing,
       Boxed, Leaving
<1> QED
  BY <1>1, <1>2, <1>3, <1>4

LEMMA PlaywrightTimeout ==
  ASSUME Inv, TimeoutKept,
         \/ RunControl \/ StopTrace \/ CloseContext \/ CloseBrowser \/ LeavePlaywright
         \/ PublishTrace \/ RaiseErrors \/ RemoveTraceDirectory \/ BindHistory \/ TakeReport
         \/ TakeAfterSnapshot \/ Evaluate
  PROVE  TimeoutKept'
PROOF
<1>1. pc \in Working /\ UNCHANGED worker /\ pc' \in Working \cup {"exit_proxy"}
      /\ ~worker.timed_out
  <2>1. CASE StopTrace \/ CloseContext \/ CloseBrowser
    BY <2>1 DEF StopTrace, CloseContext, CloseBrowser, Try, At, Goto, Keep, Proceed, TimeoutKept,
       Browsing, Working
  <2>2. CASE RunControl \/ LeavePlaywright \/ PublishTrace \/ RaiseErrors \/ RemoveTraceDirectory
    BY <2>2 DEF RunControl, LeavePlaywright, PublishTrace, RaiseErrors, RemoveTraceDirectory, At,
       Goto, Raise, Keep, Proceed, TimeoutKept, Browsing, Working
  <2>3. CASE BindHistory \/ TakeReport \/ TakeAfterSnapshot \/ Evaluate
    BY <2>3 DEF BindHistory, TakeReport, TakeAfterSnapshot, Evaluate, At, Goto, Raise, Proceed,
       TimeoutKept, Working
  <2> QED
    BY <2>1, <2>2, <2>3
<1>2. ASSUME ~primary'.timeout
      PROVE  TimeoutKept'
  BY <1>1, <1>2 DEF TimeoutKept, Late, Starting, Unproxied, Browsing, Working, Boxed, Leaving
<1>3. CASE \/ RunControl \/ StopTrace \/ CloseContext \/ CloseBrowser \/ LeavePlaywright
           \/ PublishTrace \/ RaiseErrors \/ RemoveTraceDirectory
  <2>1. ~primary.timeout
    <3>1. CASE pc = "baseline"
      BY <3>1, ErrorStages DEF Inv, ErrorKept, Unhurt
    <3>2. CASE pc \in Browsing
      BY <1>1, <3>2 DEF TimeoutKept
    <3>3. pc \in Browsing \cup {"baseline"}
      BY <1>3 DEF RunControl, StopTrace, CloseContext, CloseBrowser, Try, LeavePlaywright,
         PublishTrace, RaiseErrors, RemoveTraceDirectory, At, Browsing
    <3> QED
      BY <3>1, <3>2, <3>3
  <2>2. /\ \A s : ~Error(s).timeout
        /\ \A o, s : ~Failing(o, s).timeout
    BY ErrorStages
  <2>3. ASSUME NEW e, ~e.timeout, First(e)
        PROVE  TimeoutKept'
    BY <1>2, <2>1, <2>3, NoDeadline
  <2>4. CASE UNCHANGED primary
    BY <1>2, <2>1, <2>4
  <2>5. CASE StopTrace \/ CloseContext \/ CloseBrowser \/ PublishTrace
    BY <2>2, <2>3, <2>4, <2>5 DEF StopTrace, CloseContext, CloseBrowser, Try, PublishTrace, Keep,
       Proceed
  <2>6. CASE RunControl \/ LeavePlaywright \/ RemoveTraceDirectory
    BY <2>2, <2>3, <2>4, <2>6 DEF RunControl, LeavePlaywright, RemoveTraceDirectory, Raise, Keep,
       Proceed
  <2>7. CASE RaiseErrors
    <3>1. errors # <<>> => ~errors[1].timeout
      <4>1. \A i \in DOMAIN errors : errors[i] \in BrowserErrors
        BY <2>7 DEF RaiseErrors, At, Inv, BrowserHeld, Browsing
      <4>2. errors # <<>> => 1 \in DOMAIN errors
        BY DEF Inv, TypeOK
      <4> QED
        BY <2>2, <4>1, <4>2 DEF BrowserErrors
    <3> QED
      BY <2>3, <2>4, <2>7, <3>1 DEF RaiseErrors, Raise, Proceed
  <2> QED
    BY <1>3, <2>5, <2>6, <2>7
<1>4. CASE BindHistory \/ TakeReport \/ TakeAfterSnapshot \/ Evaluate
  <2>1. primary = NoError /\ raised = NoError
    BY <1>4 DEF BindHistory, TakeReport, TakeAfterSnapshot, Evaluate, At, Inv, ErrorKept, Unhurt
  <2>2. CASE UNCHANGED primary
    BY <1>2, <2>1, <2>2, ErrorStages
  <2>3. ASSUME NEW e, e # NoError, Raise(e, "exit_proxy")
        PROVE  TimeoutKept'
    <3>1. pc' = "exit_proxy" /\ raised' = e /\ raised' # NoError /\ primary' = e
      BY <2>1, <2>3, RaiseFirst
    <3> QED
      BY <1>1, <3>1 DEF TimeoutKept, Late, Starting, Unproxied, Browsing, Working, Boxed, Leaving,
         NoError
  <2>4. /\ Error("baseline") # NoError /\ Error("injection_quiescence") # NoError
        /\ Timeout("injection_quiescence") # NoError /\ Error("after_snapshot") # NoError
        /\ Error("evaluation") # NoError
    BY ErrorStages
  <2> QED
    BY <1>4, <2>2, <2>3, <2>4 DEF BindHistory, TakeReport, TakeAfterSnapshot, Evaluate, Proceed
<1> QED
  BY <1>3, <1>4

LEMMA WorkerTimeout ==
  ASSUME Inv, Inv', TimeoutKept,
         CreateSandbox \/ RunWorker \/ CaptureInventory \/ ReleaseSandbox
  PROVE  TimeoutKept'
PROOF
<1>1. ASSUME pc' \in Boxed, raised' # NoError => ~worker'.timed_out,
             pc' = "worker" => ~worker'.timed_out
      PROVE  TimeoutKept'
  <2>1. primary'.timeout => worker'.timed_out
    BY <1>1, ErrorStages DEF Inv, WorkerHeld, FirstMet, NoError
  <2> QED
    BY <1>1, <2>1 DEF TimeoutKept, Starting, Unproxied, Browsing, Working, Boxed, Leaving, NoError
<1>2. CASE CreateSandbox
  <2>1. pc = "baseline" /\ raised = NoError /\ primary = NoError /\ ~worker.timed_out
        /\ UNCHANGED worker
    BY <1>2 DEF CreateSandbox, At, Inv, ErrorKept, Unhurt, TimeoutKept, Working
  <2>2. CASE pc' \in Boxed
    BY <1>1, <2>1, <2>2
  <2>3. CASE Raise(Error("baseline"), "exit_proxy")
    <3>1. pc' = "exit_proxy" /\ ~primary'.timeout
      BY <2>1, <2>3, ErrorStages, RaiseFirst
    <3> QED
      BY <2>1, <3>1 DEF TimeoutKept, Late, Starting, Unproxied, Browsing, Working, Boxed, Leaving
  <2> QED
    BY <1>2, <2>2, <2>3 DEF CreateSandbox, Raise, Proceed, Goto, Boxed
<1>3. CASE RunWorker
  <2>1. pc = "worker" /\ pc' = "inventory"
    BY <1>3 DEF RunWorker, At, Goto, Raise, Keep
  <2>2. ~worker.timed_out /\ raised = NoError
    BY <2>1 DEF TimeoutKept, Inv, WorkerHeld, Boxed
  <2>3. worker' = worker \/ raised' = raised
    BY <1>3 DEF RunWorker, Keep
  <2> QED
    BY <1>1, <2>1, <2>2, <2>3 DEF Boxed, NoError
<1>4. CASE CaptureInventory
  <2>1. pc = "inventory" /\ pc' = "release" /\ UNCHANGED raised
        /\ worker'.timed_out = worker.timed_out
    BY <1>4 DEF CaptureInventory, At, Goto, Keep, Inv, TypeOK
  <2>2. raised # NoError => ~worker.timed_out
    BY <2>1 DEF TimeoutKept, Boxed
  <2> QED
    BY <1>1, <2>1, <2>2 DEF Boxed, NoError
<1>5. CASE ReleaseSandbox
  <2>1. PICK removed \in BOOLEAN, bound \in BOOLEAN : ReleaseSandbox!2!(removed, bound)
    BY <1>5 DEF ReleaseSandbox
  <2>2. pc = "release" /\ UNCHANGED worker /\ pc' \in {"bind", "exit_proxy"}
    BY <1>5 DEF ReleaseSandbox, At, Goto
  <2>3. /\ ~bound => worker.inventory = "taken"
        /\ raised' = IF bound THEN WorkerError(removed)
                     ELSE Failing("inventory_publication", "baseline")
        /\ primary' = Earlier(primary, Earlier(IF removed THEN NoError
                                               ELSE Failing("sandbox_cleanup", "baseline"),
                                               raised'))
        /\ pc' = IF raised' = NoError THEN "bind" ELSE "exit_proxy"
        /\ ~removed => sandbox = "present"
    BY <2>1 DEF First, Goto
  <2>4. /\ raised # NoError => ~worker.timed_out /\ raised = Error("baseline")
        /\ primary.timeout => worker.timed_out
    BY <2>2 DEF TimeoutKept, Inv, WorkerHeld, Boxed
  <2>5. /\ builder'.filesystem.inventory <=> worker.inventory = "taken" /\ bound
        /\ ~removed => builder'.filesystem.state = "cleanup_failed"
    <3> DEFINE state == IF sandbox = "none" THEN "not_created"
                        ELSE IF removed THEN "cleaned" ELSE "cleanup_failed"
               filesystem == [state |-> state, inventory |-> worker.inventory = "taken" /\ bound,
                              cleanup_error |-> state = "cleanup_failed" /\ bound]
               stages == IF worker.inventory = "failed"
                         THEN builder.evidence_failures \cup {"sandbox_inventory"}
                         ELSE builder.evidence_failures
    <3>1. builder' = [builder EXCEPT !.filesystem = filesystem,
                                     !.evidence_failures = stages]
      BY <2>1
    <3>2. /\ filesystem.inventory <=> worker.inventory = "taken" /\ bound
          /\ ~removed => filesystem.state = "cleanup_failed"
      BY <2>3
    <3>3. builder \in Builders
      BY DEF Inv, TypeOK
    <3> HIDE DEF filesystem, stages
    <3>4. builder'.filesystem = filesystem
      BY <3>1, <3>3 DEF Builders
    <3> QED
      BY <3>2, <3>4
  <2>6. /\ Timeout("baseline").timeout /\ Timeout("baseline") # NoError
        /\ \A o, s : ~Failing(o, s).timeout
        /\ \A s : ~Error(s).timeout
        /\ ~NoError.timeout /\ Failing("inventory_publication", "baseline") # NoError
    BY ErrorStages
  <2>7. CASE worker.timed_out
    <3>1. raised' # NoError
      BY <2>3, <2>4, <2>6, <2>7, ErrorStages DEF WorkerError
    <3>2. raised'.timeout \/ Unboxed'
      <4>1. CASE worker.inventory # "none" /\ ~builder'.filesystem.inventory
        BY <2>2, <4>1 DEF Unboxed
      <4>2. CASE worker.teardown_error \/ ~removed
        BY <2>2, <2>5, <4>2 DEF Unboxed
      <4>3. CASE /\ worker.inventory = "none" \/ builder'.filesystem.inventory
                 /\ ~worker.teardown_error /\ removed
        <5>1. bound /\ worker.inventory # "failed"
          BY <2>3, <2>5, <4>3
        <5>2. raised' = Timeout("baseline")
          BY <2>3, <2>4, <2>7, <4>3, <5>1 DEF WorkerError
        <5> QED
          BY <2>6, <5>2
      <4> QED
        BY <4>1, <4>2, <4>3
    <3> QED
      BY <2>2, <2>3, <3>1, <3>2 DEF TimeoutKept, Starting, Unproxied, Browsing, Working, Boxed,
         Leaving, NoError
  <2>8. CASE ~worker.timed_out
    <3>1. ~raised'.timeout
      BY <2>3, <2>4, <2>6, <2>8 DEF WorkerError
    <3>2. ~primary'.timeout
      BY <2>3, <2>4, <2>6, <2>8, <3>1 DEF Earlier
    <3> QED
      BY <2>2, <2>8, <3>2 DEF TimeoutKept, Late, Starting, Unproxied, Browsing, Working, Boxed,
         Leaving
  <2> QED
    BY <2>7, <2>8
<1> QED
  BY <1>2, <1>3, <1>4, <1>5

LEMMA EndTimeout ==
  ASSUME Inv, TimeoutKept, ExitProxy \/ CaptureFailureEvidence
  PROVE  TimeoutKept'
PROOF
<1>1. CASE ExitProxy
  <2>1. /\ pc = "exit_proxy" /\ UNCHANGED <<worker, failure>>
        /\ builder'.filesystem = builder.filesystem
    BY <1>1 DEF ExitProxy, At, Inv, TypeOK, Builders
  <2>2. failure.execution = NoError /\ failure.fixture = NoError /\ Standing(raised)
    BY <2>1 DEF Inv, ErrorKept, Executing
  <2>3. CASE raised = NoError
    <3>1. ~Late /\ primary = NoError
      BY <2>1, <2>2, <2>3 DEF TimeoutKept, Standing
    <3>2. \/ pc' \in {"leave_fixture", "finalize"} /\ UNCHANGED primary
          \/ pc' = "capture" /\ First(Error("proxy_teardown"))
      BY <1>1, <2>3 DEF ExitProxy, Raise, Proceed, Goto, LeaveExecution
    <3>3. ~primary'.timeout
      BY <3>1, <3>2, ErrorStages, NoDeadline DEF Late
    <3> QED
      BY <2>1, <2>2, <3>1, <3>2, <3>3 DEF TimeoutKept, Late, Starting, Unproxied, Working,
         Browsing, Boxed, Leaving, NoError
  <2>4. CASE raised # NoError
    <3>1. pc' = "capture" /\ UNCHANGED <<raised, primary>>
      BY <1>1, <2>4 DEF ExitProxy, Proceed, Goto
    <3> QED
      BY <2>1, <2>4, <3>1 DEF TimeoutKept, Late, Unboxed, Starting, Unproxied, Working, Browsing,
         Boxed, Leaving, NoError
  <2> QED
    BY <2>3, <2>4
<1>2. CASE CaptureFailureEvidence
  <2>1. /\ pc = "capture" /\ pc' \in {"leave_fixture", "finalize"} /\ UNCHANGED <<worker, primary>>
        /\ builder'.filesystem = builder.filesystem
        /\ failure'.execution = raised
    BY <1>2 DEF CaptureFailureEvidence, At, Goto, LeaveExecution, Inv, TypeOK, Builders
  <2>2. raised # NoError
    BY <2>1 DEF Inv, ErrorKept
  <2> QED
    BY <2>1, <2>2 DEF TimeoutKept, Late, Unboxed, Starting, Unproxied, Working, Browsing, Boxed,
       Leaving, NoError
<1> QED
  BY <1>1, <1>2

LEMMA FinalizeTimeout == Inv /\ TimeoutKept /\ Finalize => TimeoutKept'
PROOF
<1> SUFFICES ASSUME Inv, TimeoutKept, Finalize
             PROVE  TimeoutKept'
  OBVIOUS
<1>1. pc = "finalize" /\ UNCHANGED <<fixture, worker, builder, failure, primary>>
  BY DEF Finalize, At
<1>2. Late => /\ Failure # NoError
              /\ Failure.timeout \/ Uncleaned
  <2>1. CASE failure.execution # NoError
    BY <1>1, <2>1 DEF Failure, TimeoutKept, Uncleaned, Leaving
  <2>2. CASE failure.execution = NoError
    <3>1. ~worker.timed_out /\ Failure = failure.fixture
      BY <1>1, <2>2 DEF TimeoutKept, Failure, Leaving
    <3>2. \/ primary = failure.fixture
          \/ failure.fixture # NoError /\ (fixture.directory \/ fixture.server = "stuck")
      BY <1>1, <2>2 DEF TimeoutKept
    <3>3. ~NoError.timeout
      BY ErrorStages
    <3> QED
      BY <3>1, <3>2, <3>3 DEF Late, Uncleaned
  <2> QED
    BY <2>1, <2>2
<1>3. \/ pc' = "link" /\ Failure = NoError
      \/ pc' = "write_failure" /\ (Failure # NoError => raised' = Failure)
  BY DEF Finalize, Goto
<1> QED
  BY <1>1, <1>2, <1>3 DEF TimeoutKept, Late, Uncleaned, Unboxed, Starting, Unproxied, Working,
     Browsing, Boxed, Leaving

LEMMA WriteTimeout ==
  ASSUME Inv, TimeoutKept, WriteFailure \/ Link \/ Unlink \/ Killed \/ Over
  PROVE  TimeoutKept'
PROOF
<1>1. CASE WriteFailure
  <2>1. /\ pc = "write_failure" /\ pc' = "link" /\ UNCHANGED <<fixture, worker, primary>>
        /\ draft'.status = Classify(raised)
        /\ builder'.filesystem.inventory = builder.filesystem.inventory
        /\ builder.filesystem.state = "cleanup_failed" =>
             builder'.filesystem.state = "cleanup_failed"
    BY <1>1 DEF WriteFailure, FailureEvidence, At, Goto, Inv, TypeOK, Builders, Filesystems
  <2>2. Late => draft'.status = "timeout" \/ (draft'.status # "success" /\ Uncleaned)
    BY <2>1 DEF TimeoutKept, Classify
  <2> QED
    BY <2>1, <2>2 DEF TimeoutKept, Late, Uncleaned, Unboxed, Starting, Unproxied, Working,
       Browsing,
       Boxed, Leaving
<1>2. CASE Link \/ Unlink
  <2>1. /\ pc \in {"link", "unlink"} /\ UNCHANGED <<fixture, worker, builder, primary, draft>>
        /\ \/ pc' \in {"unlink", "returned"}
           \/ pc' = "write_failure" /\ draft.status = "success"
    BY <1>2 DEF Link, LinkOnto, Unlink, WriteFails, At, Goto
  <2> QED
    BY <2>1 DEF TimeoutKept, Late, Uncleaned, Unboxed, Starting, Unproxied, Working, Browsing,
       Boxed, Leaving
<1>3. CASE Killed
  BY <1>3 DEF Killed, Goto, TimeoutKept, Starting, Unproxied, Browsing, Working, Boxed, Leaving
<1>4. CASE Over
  BY <1>4 DEF Over, vars, TimeoutKept, Late, Uncleaned, Unboxed
<1> QED
  BY <1>1, <1>2, <1>3, <1>4

LEMMA TimeoutStep ==
  ASSUME Inv, Inv', TimeoutKept, Next
  PROVE  TimeoutKept'
PROOF
  BY StartTimeout, FixtureTimeout, PlaywrightTimeout, WorkerTimeout, EndTimeout,
     FinalizeTimeout, WriteTimeout DEF Next

-----------------------------------------------------------------------------
(* The evidence *)

Early == Starting \cup Unproxied
Unreported == Early \cup Working \cup Boxed

\* A step that binds nothing keeps the evidence in agreement.
LEMMA QuietEvidence ==
  ASSUME EvidenceHeld, UNCHANGED <<run, proxy, builder>>,
         disk.artifacts \subseteq disk'.artifacts,
         pc' \in Early => pc \in Early,
         pc' \in Unreported => pc \in Unreported,
         pc' = "release" /\ worker'.inventory = "taken" => sandbox' = "present"
  PROVE  EvidenceHeld'
PROOF
  BY DEF EvidenceHeld, Early, Unreported

LEMMA QuietStep ==
  ASSUME Inv, EvidenceHeld,
         \/ EnsureCanonicalSource \/ VerifyFixtureIdentity \/ EnterFixture \/ WaitUntilReady
         \/ ServerCrashes \/ UndoSetup \/ StopFixtureServer \/ SelectBaseline \/ RunControl
         \/ StopTrace \/ CloseContext \/ CloseBrowser \/ LeavePlaywright
         \/ RemoveTraceDirectory \/ CreateSandbox \/ RunWorker \/ CaptureInventory
         \/ TakeReport \/ TakeAfterSnapshot \/ Finalize \/ Link \/ Unlink \/ Killed \/ Over
  PROVE  EvidenceHeld'
PROOF
<1>1. CASE EnsureCanonicalSource \/ VerifyFixtureIdentity \/ EnterFixture \/ WaitUntilReady
           \/ UndoSetup \/ StopFixtureServer \/ SelectBaseline
  <2>1. UNCHANGED <<run, proxy, builder, disk>>
    BY <1>1 DEF EnsureCanonicalSource, VerifyFixtureIdentity, EnterFixture, WaitUntilReady,
       UndoSetup, StopFixtureServer, SelectBaseline
  <2>2. pc \in Early \/ pc' \notin Unreported
    BY <1>1 DEF EnsureCanonicalSource, VerifyFixtureIdentity, EnterFixture, WaitUntilReady,
       UndoSetup, StopFixtureServer, SelectBaseline, At, Early, Unreported, Starting, Unproxied,
       Browsing, Working, Boxed, Proceed, Goto
  <2>3. pc' \notin Boxed
    BY <1>1 DEF EnsureCanonicalSource, VerifyFixtureIdentity, EnterFixture, WaitUntilReady,
       UndoSetup, StopFixtureServer, SelectBaseline, Raise, Keep, Proceed, Goto,
       LeaveExecution, Boxed
  <2> QED
    BY <2>1, <2>2, <2>3, QuietEvidence DEF Early, Unreported, Boxed
<1>2. CASE RunControl \/ StopTrace \/ CloseContext \/ CloseBrowser \/ LeavePlaywright
           \/ RemoveTraceDirectory \/ TakeReport \/ TakeAfterSnapshot
  <2>1. UNCHANGED <<run, proxy, builder, disk>>
    BY <1>2 DEF RunControl, StopTrace, CloseContext, CloseBrowser, Try, LeavePlaywright,
       RemoveTraceDirectory, TakeReport, TakeAfterSnapshot
  <2>2. pc \in Working /\ pc' \in Working \cup {"exit_proxy"}
    <3>1. CASE RunControl \/ StopTrace \/ CloseContext \/ CloseBrowser
      BY <3>1 DEF RunControl, StopTrace, CloseContext, CloseBrowser, Try, At, Goto, Raise, Keep,
         Proceed, Browsing, Working
    <3>2. CASE LeavePlaywright \/ RemoveTraceDirectory \/ TakeReport \/ TakeAfterSnapshot
      BY <3>2 DEF LeavePlaywright, RemoveTraceDirectory, TakeReport, TakeAfterSnapshot, At, Goto,
         Raise, Proceed, Browsing, Working
    <3> QED
      BY <1>2, <3>1, <3>2
  <2> QED
    BY <2>1, <2>2, QuietEvidence DEF Early, Unreported, Starting, Unproxied, Browsing, Working,
       Boxed
<1>3. CASE CreateSandbox \/ RunWorker \/ CaptureInventory
  <2>1. UNCHANGED <<run, proxy, builder, disk>> /\ pc \in {"baseline", "worker", "inventory"}
        /\ pc' \in {"exit_proxy", "worker", "inventory", "release"}
    BY <1>3 DEF CreateSandbox, RunWorker, CaptureInventory, At, Goto, Raise, Keep, Proceed
  <2>2. pc' = "release" /\ worker'.inventory = "taken" => sandbox' = "present"
    BY <1>3 DEF CreateSandbox, RunWorker, CaptureInventory, At, Goto, Raise, Keep, Proceed,
       Inv, TypeOK
  <2> QED
    BY <2>1, <2>2, QuietEvidence DEF Early, Unreported, Starting, Unproxied, Browsing, Working,
       Boxed
<1>4. CASE Finalize \/ Link \/ Unlink \/ Killed
  <2>1. UNCHANGED <<run, proxy, builder>>
        /\ pc' \in {"link", "write_failure", "unlink", "returned", "killed"}
    BY <1>4 DEF Finalize, Link, Unlink, LinkOnto, WriteFails, Killed, Goto
  <2>2. disk'.artifacts = disk.artifacts
    BY <1>4 DEF Finalize, Link, Unlink, LinkOnto, Killed, Inv, TypeOK
  <2> QED
    BY <2>1, <2>2, QuietEvidence DEF Early, Unreported, Starting, Unproxied, Browsing, Working,
       Boxed
<1>5. CASE ServerCrashes \/ Over
  BY <1>5 DEF ServerCrashes, Over, vars, EvidenceHeld
<1> QED
  BY <1>1, <1>2, <1>3, <1>4, <1>5

LEMMA BindStep ==
  ASSUME Inv, EvidenceHeld,
         \/ PrepareInitialState \/ EnterProxy \/ PublishTrace \/ RaiseErrors \/ BindHistory
         \/ Evaluate
  PROVE  EvidenceHeld'
PROOF
<1>1. CASE PrepareInitialState
  <2>1. /\ pc = "initial_state" /\ pc' \in {"injection_setup", "capture"}
        /\ UNCHANGED <<run, proxy, disk>>
        /\ builder' \in {builder, [builder EXCEPT !.before = TRUE]}
    BY <1>1 DEF PrepareInitialState, At, Goto, Raise, Keep, Proceed
  <2> QED
    BY <2>1 DEF EvidenceHeld, Starting, Unproxied, Browsing, Working, Boxed, Inv, TypeOK, Builders
<1>2. CASE EnterProxy
  <2>1. CASE UNCHANGED <<proxy, builder>>
    BY <1>2, <2>1 DEF EnterProxy, At, Goto, Raise, Keep, Proceed, EvidenceHeld, Starting,
       Unproxied,
       Browsing, Working, Boxed
  <2>2. CASE ~UNCHANGED <<proxy, builder>>
    <3>1. /\ pc = "injection_setup" /\ pc' = "baseline" /\ UNCHANGED <<run, disk>>
          /\ proxy' = IF run.injected THEN "running" ELSE "none"
          /\ builder' = [builder EXCEPT !.prompt = TRUE]
      BY <1>2, <2>2 DEF EnterProxy, At, Goto, Proceed
    <3>2. builder.report = "missing"
      BY <3>1 DEF EvidenceHeld, Unproxied
    <3> QED
      BY <3>1, <3>2 DEF EvidenceHeld, Starting, Unproxied, Browsing, Working, Boxed, Inv,
         TypeOK, Builders
  <2> QED
    BY <2>1, <2>2
<1>3. CASE PublishTrace
  <2>1. PICK ok \in BOOLEAN : WriteArtifact("trace", ok) /\ builder' = [builder EXCEPT !.trace = ok]
    BY <1>3 DEF PublishTrace
  <2>2. pc = "publish_trace" /\ pc' = "errors" /\ UNCHANGED <<run, proxy>>
    BY <1>3 DEF PublishTrace, At, Goto, Keep, Proceed
  <2>3. disk.artifacts \subseteq disk'.artifacts /\ (ok => "trace" \in disk'.artifacts)
    BY <2>1, ArtifactWritten DEF Inv
  <2> QED
    BY <2>1, <2>2, <2>3 DEF EvidenceHeld, Starting, Unproxied, Browsing, Working, Boxed, Inv,
       TypeOK,
       Builders
<1>4. CASE RaiseErrors
  <2>1. /\ pc = "errors" /\ pc' = "trace_directory" /\ UNCHANGED <<run, proxy, disk>>
        /\ \A f \in {"trace", "filesystem", "prompt", "report"} : builder'[f] = builder[f]
    BY <1>4 DEF RaiseErrors, At, Goto, Raise, Proceed, Inv, TypeOK, Builders
  <2> QED
    BY <2>1 DEF EvidenceHeld, Starting, Unproxied, Browsing, Working, Boxed
<1>5. CASE BindHistory
  <2>1. PICK policy, ok \in BOOLEAN :
          /\ ok => policy
          /\ IF policy THEN WriteArtifact("trace", ok) ELSE UNCHANGED disk
          /\ builder' = [builder EXCEPT !.policy = policy, !.trace = ok]
    BY <1>5 DEF BindHistory
  <2>2. pc = "bind" /\ pc' \in {"injection_quiescence", "exit_proxy"} /\ UNCHANGED <<run, proxy>>
    BY <1>5 DEF BindHistory, At, Goto, Raise, Keep, Proceed
  <2>3. disk.artifacts \subseteq disk'.artifacts /\ (ok => "trace" \in disk'.artifacts)
    BY <2>1, ArtifactWritten DEF Inv
  <2> QED
    BY <2>1, <2>2, <2>3 DEF EvidenceHeld, Starting, Unproxied, Browsing, Working, Boxed, Inv,
       TypeOK,
       Builders
<1>6. CASE Evaluate
  <2>1. /\ pc = "evaluation" /\ pc' = "exit_proxy" /\ UNCHANGED <<run, proxy, disk>>
        /\ \A f \in {"trace", "filesystem", "prompt"} : builder'[f] = builder[f]
        /\ builder'.report \in {builder.report, InjectionReport}
    BY <1>6 DEF Evaluate, At, Goto, Raise, Keep, Proceed, Inv, TypeOK, Builders
  <2> QED
    BY <2>1 DEF InjectionReport, EvidenceHeld, Starting, Unproxied, Browsing, Working, Boxed
<1> QED
  BY <1>1, <1>2, <1>3, <1>4, <1>5, <1>6

LEMMA ReleaseStep == Inv /\ EvidenceHeld /\ ReleaseSandbox => EvidenceHeld'
PROOF
<1> SUFFICES ASSUME Inv, EvidenceHeld, ReleaseSandbox
             PROVE  EvidenceHeld'
  OBVIOUS
<1>1. PICK removed \in BOOLEAN, bound \in BOOLEAN : ReleaseSandbox!2!(removed, bound)
  BY DEF ReleaseSandbox
<1>2. /\ pc = "release" /\ pc' \in {"exit_proxy", "bind"} /\ UNCHANGED <<run, proxy>>
      /\ run.learned /\ (worker.inventory = "taken" => sandbox = "present")
  BY DEF ReleaseSandbox, At, Goto, EvidenceHeld, Inv, WorkerHeld, Boxed
<1>3. /\ disk.artifacts \subseteq disk'.artifacts
      /\ worker.inventory = "taken" /\ bound => "inventory" \in disk'.artifacts
  <2>1. CASE worker.inventory = "taken"
    <3>1. WriteArtifact("inventory", bound)
      BY <1>1, <2>1
    <3> QED
      BY <3>1, ArtifactWritten DEF Inv
  <2>2. CASE worker.inventory # "taken"
    BY <1>1, <2>2
  <2> QED
    BY <2>1, <2>2
<1>4. /\ builder'.filesystem.inventory => worker.inventory = "taken" /\ bound
      /\ builder'.filesystem.state = IF sandbox = "none" THEN "not_created"
                                     ELSE IF removed THEN "cleaned" ELSE "cleanup_failed"
      /\ builder'.filesystem.cleanup_error => builder'.filesystem.state = "cleanup_failed"
      /\ \A f \in {"trace", "prompt", "report"} : builder'[f] = builder[f]
  BY <1>1 DEF Inv, TypeOK, Builders
<1> QED
  BY <1>2, <1>3, <1>4 DEF EvidenceHeld, Starting, Unproxied, Browsing, Working, Boxed

LEMMA EndStep ==
  ASSUME Inv, EvidenceHeld,
         ExitProxy \/ CaptureFailureEvidence \/ RemoveDirectory \/ WriteFailure
  PROVE  EvidenceHeld'
PROOF
<1>1. CASE ExitProxy \/ RemoveDirectory
  <2>1. /\ UNCHANGED <<run, disk>> /\ pc' \notin Unreported
        /\ (proxy = "none") = (proxy' = "none")
        /\ \A f \in {"trace", "filesystem", "prompt", "report"} : builder'[f] = builder[f]
    BY <1>1 DEF ExitProxy, RemoveDirectory, Goto, Raise, Keep, Proceed, LeaveExecution, Inv,
       TypeOK,
       Builders, Unreported, Early, Starting, Unproxied, Browsing, Working, Boxed
  <2> QED
    BY <2>1 DEF EvidenceHeld, Unreported, Early, Boxed
<1>2. CASE CaptureFailureEvidence
  <2>1. /\ UNCHANGED <<run, disk, proxy>> /\ pc' \notin Unreported
        /\ \A f \in {"trace", "filesystem", "prompt"} : builder'[f] = builder[f]
        /\ builder'.report \in {builder.report, InjectionReport}
    BY <1>2 DEF CaptureFailureEvidence, Goto, LeaveExecution, Inv, TypeOK,
       Builders, Unreported, Early, Starting, Unproxied, Browsing, Working, Boxed
  <2> QED
    BY <2>1 DEF InjectionReport, EvidenceHeld, Unreported, Early, Boxed
<1>3. CASE WriteFailure
  <2>1. /\ UNCHANGED <<run, disk, proxy>> /\ pc' \notin Unreported
        /\ \A f \in {"trace", "prompt", "report"} : builder'[f] = builder[f]
    BY <1>3 DEF WriteFailure, FailureEvidence, Goto, Inv, TypeOK,
       Builders, Unreported, Early, Starting, Unproxied, Browsing, Working, Boxed
  <2>2. builder'.filesystem =
          [builder.filesystem EXCEPT !.state =
             IF run.learned /\ @ = "unbound" THEN "not_created" ELSE @]
    BY <1>3 DEF WriteFailure, FailureEvidence, Inv, TypeOK, Builders
  <2> QED
    BY <2>1, <2>2 DEF EvidenceHeld, Unreported, Early, Boxed, Inv, TypeOK, Builders, Filesystems
<1> QED
  BY <1>1, <1>2, <1>3

LEMMA EvidenceStep ==
  ASSUME Inv, EvidenceHeld, Next
  PROVE  EvidenceHeld'
PROOF
  BY QuietStep, BindStep, ReleaseStep, EndStep DEF Next

-----------------------------------------------------------------------------
(* The receipt *)

LEMMA DraftStep ==
  ASSUME Inv, DraftHeld, Next
  PROVE  DraftHeld'
PROOF
<1> SUFFICES ASSUME pc' \in {"link", "unlink", "returned"}
             PROVE  DraftHeld'
  BY DEF DraftHeld
<1>1. CASE Finalize
  BY <1>1 DEF Finalize, Goto, DraftHeld
<1>2. CASE WriteFailure
  <2>1. /\ draft' = [status |-> Classify(raised), failure |-> raised, evidence |-> builder']
        /\ builder' = FailureEvidence /\ UNCHANGED run /\ raised # NoError
    BY <1>2 DEF WriteFailure, At, Inv, ErrorKept
  <2>2. ~builder'.evaluation /\ (run.learned => builder'.filesystem.state # "unbound")
    BY <2>1 DEF FailureEvidence, Inv, TypeOK, Builders, Filesystems
  <2>3. Classify(raised) # "success"
    BY DEF Classify
  <2> QED
    BY <2>1, <2>2, <2>3 DEF DraftHeld
<1>3. CASE ~Finalize /\ ~WriteFailure
  <2>1. pc \in {"link", "unlink", "returned"} /\ UNCHANGED <<run, builder, draft>>
    <3>1. CASE Link \/ Unlink \/ Over \/ ServerCrashes
      BY <3>1 DEF Link, LinkOnto, Unlink, Over, vars, ServerCrashes, At
    <3>2. CASE ~(Link \/ Unlink \/ Over \/ ServerCrashes)
      BY <1>3, <3>2 DEF Next, EnsureCanonicalSource, VerifyFixtureIdentity, EnterFixture,
         WaitUntilReady, UndoSetup, StopFixtureServer, RemoveDirectory, SelectBaseline,
         PrepareInitialState, EnterProxy, RunControl, Try, StopTrace, CloseContext, CloseBrowser,
         LeavePlaywright, PublishTrace, RaiseErrors, RemoveTraceDirectory, CreateSandbox,
         RunWorker, CaptureInventory,
         ReleaseSandbox, BindHistory, TakeReport, TakeAfterSnapshot, Evaluate, ExitProxy,
         CaptureFailureEvidence, Killed, Goto, Raise, Keep, Proceed, LeaveExecution
    <3> QED
      BY <3>1, <3>2
  <2> QED
    BY <2>1 DEF DraftHeld
<1> QED
  BY <1>1, <1>2, <1>3

\* The receipt that is linked: what is kept of a deadline is in it, and the
\* evidence it carries is the evidence the validator asks for.
LEMMA LinkedReceipt ==
  ASSUME Inv, TimeoutKept, EvidenceHeld, DraftHeld, pc = "link", disk'.receipt = draft,
         disk'.artifacts = disk.artifacts, UNCHANGED <<run, fixture, worker, primary>>
  PROVE  TimeoutTold' /\ StartedReceiptsValidate'
PROOF
<1>1. /\ draft.evidence = builder
      /\ draft.status = "success" => /\ draft.failure = NoError
                                     /\ Complete(builder, run.learned)
                                     /\ run.source # "refused"
      /\ draft.status # "success" => /\ draft.failure # NoError /\ ~builder.evaluation
                                     /\ run.learned => builder.filesystem.state # "unbound"
  BY DEF DraftHeld
<1>2. TimeoutTold'
  <2>1. Late => /\ draft.status # "success"
                /\ draft.status = "timeout" \/ Uncleaned
    BY DEF TimeoutKept
  <2> QED
    BY <1>1, <2>1 DEF TimeoutTold, Late, Uncleaned, Unboxed
<1>3. ASSUME builder.prompt,
             builder.filesystem.state = "cleanup_failed" => builder.filesystem.cleanup_error
      PROVE  Valid(draft, run, disk.artifacts)
  <2>1. draft.status = "success" => "trace" \in disk.artifacts
    BY <1>1 DEF Complete, EvidenceHeld
  <2>2. builder.report # "missing" => builder.report = IF run.injected THEN "proxy" ELSE "none"
    BY <1>3 DEF EvidenceHeld
  <2>3. builder.filesystem.state = "unbound" => ~run.learned
    <3>1. Complete(builder, run.learned) /\ run.learned => builder.filesystem.state = "cleaned"
      BY DEF Complete
    <3> QED
      BY <1>1, <3>1
  <2>4. builder.filesystem.state \in {"unbound", "not_created", "cleaned", "cleanup_failed"}
    BY DEF Inv, TypeOK, Builders, Filesystems
  <2>5. CASE builder.filesystem.state = "unbound"
    BY <1>1, <2>1, <2>2, <2>3, <2>5 DEF Valid, EvidenceHeld
  <2>6. CASE builder.filesystem.state = "not_created"
    BY <1>1, <2>1, <2>2, <2>6 DEF Valid, EvidenceHeld
  <2>7. CASE builder.filesystem.state = "cleaned"
    BY <1>1, <2>1, <2>2, <2>7 DEF Valid, EvidenceHeld
  <2>8. CASE builder.filesystem.state = "cleanup_failed"
    BY <1>1, <1>3, <2>1, <2>2, <2>8 DEF Valid, EvidenceHeld
  <2> QED
    BY <2>4, <2>5, <2>6, <2>7, <2>8
<1>4. StartedReceiptsValidate'
  BY <1>1, <1>3 DEF StartedReceiptsValidate, Valid
<1> QED
  BY <1>2, <1>4

LEMMA PublishedStep ==
  ASSUME ReceiptInv, Next
  PROVE  TimeoutTold' /\ StartedReceiptsValidate'
PROOF
<1> USE DEF ReceiptInv
<1>1. CASE pc \notin Writing \cup {"killed"}
  <2>1. disk'.receipt = disk.receipt
    <3>1. CASE PublishTrace \/ ReleaseSandbox \/ BindHistory
      BY <3>1, ArtifactWritten DEF PublishTrace, ReleaseSandbox, BindHistory, Inv
    <3>2. CASE Link \/ Unlink
      BY <1>1, <3>2 DEF Link, LinkOnto, Unlink, At, Writing
    <3>3. CASE ~(PublishTrace \/ ReleaseSandbox \/ BindHistory \/ Link \/ Unlink)
      BY <3>3 DEF Next, EnsureCanonicalSource, VerifyFixtureIdentity, EnterFixture,
         WaitUntilReady, ServerCrashes, UndoSetup, StopFixtureServer, RemoveDirectory,
         SelectBaseline, PrepareInitialState, EnterProxy, RunControl, Try, StopTrace,
         CloseContext, CloseBrowser, LeavePlaywright, RaiseErrors, RemoveTraceDirectory,
         CreateSandbox, RunWorker,
         CaptureInventory, TakeReport, TakeAfterSnapshot, Evaluate, ExitProxy,
         CaptureFailureEvidence, Finalize, WriteFailure, Killed, Over, vars
    <3> QED
      BY <3>1, <3>2, <3>3
  <2> QED
    BY <1>1, <2>1, NoneOut
<1>2. CASE pc \in Writing \cup {"killed"}
  <2>1. WriteFailure \/ Link \/ Unlink \/ Killed \/ Over
    <3>1. ~ServerCrashes
      BY <1>2 DEF ServerCrashes, Inv, FixtureHeld, Writing
    <3> QED
      BY <1>2, <3>1 DEF Next, Writing, At, EnsureCanonicalSource, VerifyFixtureIdentity,
         EnterFixture, WaitUntilReady, UndoSetup, StopFixtureServer, RemoveDirectory,
         SelectBaseline, PrepareInitialState, EnterProxy, RunControl, Try, StopTrace,
         CloseContext, CloseBrowser, LeavePlaywright, PublishTrace, RaiseErrors,
         RemoveTraceDirectory, CreateSandbox,
         RunWorker, CaptureInventory, ReleaseSandbox, BindHistory, TakeReport,
         TakeAfterSnapshot, Evaluate, ExitProxy, CaptureFailureEvidence, Finalize
  <2>2. /\ UNCHANGED <<run, fixture, worker, primary>>
        /\ disk'.artifacts = disk.artifacts
        /\ \/ disk'.receipt = disk.receipt
           \/ pc = "link" /\ disk'.receipt = draft
    BY <2>1 DEF WriteFailure, Link, LinkOnto, Unlink, Killed, Over, vars, At, Inv, TypeOK
  <2>3. CASE disk'.receipt = disk.receipt
    BY <2>2, <2>3 DEF TimeoutTold, StartedReceiptsValidate, Published, Valid
  <2>4. CASE pc = "link" /\ disk'.receipt = draft
    BY <2>2, <2>4, LinkedReceipt
  <2> QED
    BY <2>2, <2>3, <2>4
<1> QED
  BY <1>1, <1>2

-----------------------------------------------------------------------------
(* Theorems *)

LEMMA ReceiptInvInit == Init => ReceiptInv
PROOF
<1> SUFFICES ASSUME Init
             PROVE  ReceiptInv
  OBVIOUS
<1>1. Inv
  BY InvInit
<1>2. pc = "source" /\ ~worker.timed_out /\ builder = NewBuilder
  BY DEF Init
<1>3. TimeoutKept
  BY <1>2 DEF TimeoutKept, Browsing, Boxed, Leaving
<1>4. EvidenceHeld
  BY <1>2 DEF NewBuilder, EvidenceHeld, Starting, Unproxied, Boxed
<1>5. DraftHeld
  BY <1>2 DEF DraftHeld
<1>6. ~Published
  BY <1>1, <1>2 DEF Inv, ReceiptHeld, Writing
<1> QED
  BY <1>1, <1>3, <1>4, <1>5, <1>6 DEF ReceiptInv, TimeoutTold, StartedReceiptsValidate

LEMMA ReceiptInvStep == ReceiptInv /\ [Next]_vars => ReceiptInv'
PROOF
<1>1. ASSUME ReceiptInv, Next
      PROVE  ReceiptInv'
  <2>1. Inv'
    BY <1>1, InvStep DEF ReceiptInv
  <2> QED
    BY <1>1, <2>1, TimeoutStep, EvidenceStep, DraftStep, PublishedStep DEF ReceiptInv
<1>2. ASSUME ReceiptInv, UNCHANGED vars
      PROVE  ReceiptInv'
  <2>1. Inv'
    BY <1>2, InvStep DEF ReceiptInv
  <2>2. TimeoutKept' /\ EvidenceHeld' /\ DraftHeld'
    BY <1>2 DEF vars, ReceiptInv, TimeoutKept, Late, Uncleaned, Unboxed, EvidenceHeld, DraftHeld
  <2>3. TimeoutTold' /\ StartedReceiptsValidate'
    BY <1>2 DEF vars, ReceiptInv, TimeoutTold, StartedReceiptsValidate, Published, Valid
  <2> QED
    BY <2>1, <2>2, <2>3 DEF ReceiptInv
<1> QED
  BY <1>1, <1>2

\* A deadline, the evidence and the receipt are kept in agreement by every step
\* of run_managed and run_external, whatever fails on the way.
THEOREM ReceiptInvariant == Spec => []ReceiptInv
PROOF
  BY ReceiptInvInit, ReceiptInvStep, PTL DEF Spec

\* A run whose worker, start or quiescence ran out of time is never receipted as
\* a success, and is receipted as a timeout unless the clean-up failed too.
THEOREM RunTimeoutTold == Spec => []TimeoutTold
PROOF
<1>1. ReceiptInv => TimeoutTold
  BY DEF ReceiptInv
<1> QED
  BY <1>1, ReceiptInvariant, PTL

\* A receipt of a run that entered its proxy scope passes the validator, unless
\* its sandbox stayed and the reason could not be bound.
THEOREM RunStartedReceiptsValidate == Spec => []StartedReceiptsValidate
PROOF
<1>1. ReceiptInv => StartedReceiptsValidate
  BY DEF ReceiptInv
<1> QED
  BY <1>1, ReceiptInvariant, PTL
=============================================================================

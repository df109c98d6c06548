---------------------------- MODULE StudyRunner ----------------------------
(***************************************************************************)
(* The repetition runner of btb/harness/repetition.py: execute_plan runs   *)
(* the cells of a frozen plan one worker process at a time, publishes one  *)
(* receipt for each, and is invoked again to resume.  The receipt          *)
(* directory is all that survives an invocation, and it may be cut short   *)
(* by a crash at any step.                                                 *)
(*                                                                         *)
(* A receipt is abstracted to who wrote it and why, its artifacts and its  *)
(* duration; time is counted in ticks.  Nobody else writes to the          *)
(* directory: its identity checks always pass.                             *)
(***************************************************************************)
EXTENDS Integers, FiniteSets

CONSTANTS
  PlanLength,     \* the plan's cells, in their recorded order
  ArtifactNames,  \* names an artifact of a receipt may have
  StudyWall,      \* study_wall_s
  TaskWall,       \* wall_s, the same for every task
  MaxInvocations  \* bound: how often the runner is started

ASSUME StudyAssumption ==
  /\ PlanLength \in Nat \ {0} /\ MaxInvocations \in Nat
  /\ TaskWall \in Nat \ {0} /\ StudyWall \in Nat
  /\ "inventory" \in ArtifactNames

VARIABLES
  receipts,     \* the published receipt of each run
  artifacts,    \* files of the artifacts directory
  litter,       \* what crashes and failed removals left in the directories
  pc,           \* where the invocation is
  inv,          \* its local state
  worker,       \* what it knows of the current worker
  pub,          \* the publication it is preparing or committing
  report,       \* how the last invocation ended
  invocations

vars == <<receipts, artifacts, litter, pc, inv, worker, pub, report, invocations>>

Runs == 1..PlanLength
Ticks == 0..StudyWall + 1

\* A staged receipt is the worker's own; the others are the parent's.
Stops == {"cleanup", "inventory", "timeout", "teardown"}
Kinds == {"staged", "unhandled", "publication"} \cup Stops

Workers == [timed_out : BOOLEAN, teardown_error : BOOLEAN,
            cleanup : {"pending", "ok", "inventory", "cleanup"}]
NewWorker == [timed_out |-> FALSE, teardown_error |-> FALSE, cleanup |-> "pending"]

NoReceipt == [kind |-> "none"]
Receipts  == [kind : Kinds, names : SUBSET ArtifactNames, duration : Ticks, worker : Workers]

NoPub == [kind |-> "none"]
Pubs  == [kind : Kinds, names : SUBSET ArtifactNames, duration : Ticks,
          linked : SUBSET ArtifactNames, receipt : {"absent", "temporary", "linked"}]
NewPub(kind, names, duration) ==
  [kind |-> kind, names |-> names, duration |-> duration, linked |-> {}, receipt |-> "absent"]

Returned == {"complete", "deadline"} \cup Stops
Raised   == {"invalid_layout", "directory_changed", "publication_failed", "crashed"}

StudyTypeOK ==
  /\ receipts \in [Runs -> {NoReceipt} \cup Receipts]
  /\ artifacts \subseteq Runs \X ArtifactNames
  /\ litter \subseteq {"temporary", "unremoved"}
  /\ pc \in {"off", "loop", "ready", "working", "ended", "staged", "publishing",
             "rollback", "rollback_artifacts"}
  /\ inv \in [existing : SUBSET Runs, attempted : SUBSET Runs, completed : SUBSET Runs,
              index : 1..PlanLength + 1, left : -1..StudyWall, spent : Ticks]
  /\ worker \in Workers
  /\ pub \in {NoPub} \cup Pubs
  /\ report.reason \in {"none"} \cup Returned \cup Raised
  /\ invocations \in 0..MaxInvocations

Receipted == {r \in Runs : receipts[r] # NoReceipt}
Files(r)  == {r} \X receipts[r].names

\* What the receipts of S consume of the study's budget: a tick for each tick of
\* their durations.
Charges(S)   == {c \in S \X Ticks : c[2] < receipts[c[1]].duration}
Durations(S) == Cardinality(Charges(S))

Current == inv.index
Unstarted(from) == {r \in Runs : r >= from} \ inv.existing

NewInvocation == [existing |-> {}, attempted |-> {}, completed |-> {},
                  index |-> 1, left |-> 0, spent |-> 0]

StudyInit ==
  /\ receipts = [r \in Runs |-> NoReceipt]
  /\ artifacts = {} /\ litter = {}
  /\ pc = "off" /\ invocations = 0
  /\ inv = NewInvocation /\ worker = NewWorker /\ pub = NoPub
  /\ report = [reason |-> "none", attempted |-> {}, completed |-> {}, unstarted |-> Runs]

disk == <<receipts, artifacts, litter>>

\* The invocation is over; what it was doing is forgotten.
End(reason, attempted, completed, unstarted) ==
  /\ pc' = "off"
  /\ report' = [reason |-> reason, attempted |-> attempted,
                completed |-> completed, unstarted |-> unstarted]
  /\ inv' = NewInvocation /\ worker' = NewWorker /\ pub' = NoPub

Raise(reason) == End(reason, {}, {}, {})

-----------------------------------------------------------------------------
(* Starting an invocation, and its loop over the plan *)

\* Mutant of LayoutExact: the artifacts directory is not compared.
LayoutExact_Receipts == "temporary" \notin litter

\* validated_receipts: no entry but the planned receipts, and exactly the
\* artifacts they name.
LayoutExact ==
  /\ "temporary" \notin litter
  /\ artifacts = UNION {Files(r) : r \in Receipted}

Begin(budget) ==
  /\ pc = "off" /\ invocations < MaxInvocations
  /\ invocations' = invocations + 1
  /\ CASE ~LayoutExact -> Raise("invalid_layout")
       [] LayoutExact /\ \E r \in Receipted : receipts[r].kind = "teardown" ->
            End("teardown", {}, {}, Runs \ Receipted)
       [] OTHER ->
            /\ pc' = "loop"
            /\ inv' = [NewInvocation EXCEPT !.existing = Receipted, !.left = budget]
            /\ UNCHANGED <<worker, pub, report>>
  /\ UNCHANGED disk

\* Mutant of Invoke: every invocation has the whole study budget.
Invoke_FullBudget == Begin(StudyWall)

\* The receipts of earlier invocations consume their durations.
Invoke == Begin(IF Durations(Receipted) > StudyWall THEN -1 ELSE StudyWall - Durations(Receipted))

\* Mutant of Skip: the end of the plan is not noticed.
Skip_PastEnd ==
  /\ pc = "loop" /\ Current \notin Runs \ inv.existing
  /\ inv' = [inv EXCEPT !.index = @ + 1]
  /\ UNCHANGED <<disk, pc, worker, pub, report, invocations>>

\* A run that already has a receipt, or the end of the plan.
Skip ==
  /\ pc = "loop"
  /\ IF Current \notin Runs
     THEN End("complete", inv.attempted, inv.completed, {})
     ELSE /\ Current \in inv.existing
          /\ inv' = [inv EXCEPT !.index = @ + 1]
          /\ UNCHANGED <<pc, worker, pub, report>>
  /\ UNCHANGED <<disk, invocations>>

OutOfBudget == inv.left < TaskWall

\* The first look at the clock, and the second reading of the directory.
Consider ==
  /\ pc = "loop" /\ Current \in Runs \ inv.existing
  /\ CASE OutOfBudget -> End("deadline", inv.attempted, inv.completed, Unstarted(Current))
       [] ~OutOfBudget /\ ~LayoutExact -> Raise("invalid_layout")
       [] ~OutOfBudget /\ LayoutExact /\ Receipted # inv.existing -> Raise("directory_changed")
       [] OTHER -> /\ pc' = "ready"
                   /\ inv' = [inv EXCEPT !.spent = 0]
                   /\ UNCHANGED <<worker, pub, report>>
  /\ UNCHANGED <<disk, invocations>>

\* The second look, and the worker process starts.
Launch ==
  /\ pc = "ready"
  /\ IF OutOfBudget
     THEN End("deadline", inv.attempted, inv.completed, Unstarted(Current))
     ELSE /\ pc' = "working"
          /\ inv' = [inv EXCEPT !.attempted = @ \cup {Current}]
          /\ worker' = NewWorker
          /\ UNCHANGED <<pub, report>>
  /\ UNCHANGED <<disk, invocations>>

-----------------------------------------------------------------------------
(* The worker and what becomes of its output *)

\* The worker ends by itself, or is killed at its timeout; its process group
\* empties, or it does not.
WorkerEnds ==
  /\ pc = "working"
  /\ \E late, stuck \in BOOLEAN :
       /\ late => inv.spent >= TaskWall
       /\ worker' = [worker EXCEPT !.timed_out = late /\ ~stuck, !.teardown_error = stuck]
  /\ pc' = "ended"
  /\ UNCHANGED <<disk, inv, pub, report, invocations>>

\* The clock is read; output in time is validated and its artifacts copied, if
\* there is any and nothing fails.
Stage ==
  /\ pc = "ended" /\ pc' = "staged"
  /\ worker' = [worker EXCEPT !.timed_out = @ \/ inv.left < 0]
  /\ \/ /\ ~worker'.timed_out /\ ~worker.teardown_error
        /\ \E names \in SUBSET ArtifactNames, d \in 0..inv.spent :
             pub' = NewPub("staged", names, d)
          /\ UNCHANGED litter
     \/ /\ UNCHANGED pub
        /\ \/ UNCHANGED litter
           \/ ~worker'.timed_out /\ ~worker.teardown_error /\ litter' = litter \cup {"temporary"}
  /\ UNCHANGED <<receipts, artifacts, inv, report, invocations>>

\* Copies that are given up are removed, unless that fails.
Discard == litter' \in {litter, IF pub = NoPub \/ pub.names = {}
                                THEN litter ELSE litter \cup {"temporary"}}

\* The parent's own receipt, with the inventory of the work root if it has one.
ParentReceipt(kind) ==
  \E names \in SUBSET {"inventory"} : pub' = NewPub(kind, names, inv.spent)

Late == worker.timed_out \/ (~worker.teardown_error /\ inv.left < 0)

\* Mutant of Verdict: staged output is preferred to a late clock.
Verdict_StagedFirst(outcome) ==
  IF outcome # "ok" THEN outcome
  ELSE IF pub # NoPub THEN "staged"
  ELSE IF Late THEN "timeout"
  ELSE IF worker.teardown_error THEN "teardown" ELSE "unhandled"

\* What is published, in the order of execute_plan's early returns.
Verdict(outcome) ==
  IF outcome # "ok" THEN outcome
  ELSE IF Late THEN "timeout"
  ELSE IF worker.teardown_error THEN "teardown"
  ELSE IF pub = NoPub THEN "unhandled" ELSE "staged"

\* The clock is read again, the work root is removed, and the verdict falls.  That
\* giving up the copies raises, and ends the invocation, is an outcome of Crash.
Settle ==
  /\ pc = "staged" /\ pc' = "publishing"
  /\ \E outcome \in {"ok", "inventory", "cleanup"} :
       /\ worker' = [worker EXCEPT !.timed_out = Late, !.cleanup = outcome]
       /\ IF Verdict(outcome) = "staged"
          THEN UNCHANGED <<pub, litter>>
          ELSE ParentReceipt(Verdict(outcome)) /\ Discard
  /\ UNCHANGED <<receipts, artifacts, inv, report, invocations>>

-----------------------------------------------------------------------------
(* _commit_publication: artifacts first, the receipt last *)

\* link() never overwrites; the copy's temporary name is unlinked at once.
LinkArtifact ==
  /\ pc = "publishing"
  /\ \E a \in pub.names \ pub.linked :
       /\ <<Current, a>> \notin artifacts
       /\ artifacts' = artifacts \cup {<<Current, a>>}
       /\ pub' = [pub EXCEPT !.linked = @ \cup {a}]
  /\ UNCHANGED <<receipts, litter, pc, inv, worker, report, invocations>>

WriteReceiptOnce(ready) ==
  /\ pc = "publishing" /\ pub.receipt = "absent" /\ ready
  /\ pub' = [pub EXCEPT !.receipt = "temporary"]
  /\ UNCHANGED <<disk, pc, inv, worker, report, invocations>>

\* Mutant of WriteReceipt: the receipt does not wait for the artifacts.
WriteReceipt_Early == WriteReceiptOnce(TRUE)

WriteReceipt == WriteReceiptOnce(pub.linked = pub.names)

LinkReceiptIf(free) ==
  /\ pc = "publishing" /\ pub.receipt = "temporary" /\ free
  /\ receipts' = [receipts EXCEPT ![Current] =
                    [kind |-> pub.kind, names |-> pub.names,
                     duration |-> pub.duration, worker |-> worker]]
  /\ pub' = [pub EXCEPT !.receipt = "linked"]
  /\ UNCHANGED <<artifacts, litter, pc, inv, worker, report, invocations>>

\* Mutant of LinkReceipt: renamed over whatever is there.
LinkReceipt_Replaces == LinkReceiptIf(TRUE)

LinkReceipt == LinkReceiptIf(receipts[Current] = NoReceipt)

\* After a receipt of the parent's for a failed worker or a failed publication
\* the loop goes on; after the other ones the invocation returns.
FinishCounting(completed) ==
  /\ pc = "publishing" /\ pub.receipt = "linked"
  /\ IF pub.kind \in Stops
     THEN End(IF pub.kind = "timeout" THEN "deadline" ELSE pub.kind,
              inv.attempted, completed, Unstarted(Current + 1))
     ELSE /\ inv' = [inv EXCEPT !.completed = completed, !.index = @ + 1,
                                !.existing = IF pub.kind = "staged" THEN @ \cup {Current} ELSE @]
          /\ pc' = "loop" /\ pub' = NoPub
          /\ UNCHANGED <<worker, report>>
  /\ UNCHANGED <<disk, invocations>>

\* Mutant of FinishPublication: only a staged receipt completes its run.
FinishPublication_StagedOnly ==
  FinishCounting(IF pub.kind = "staged" THEN inv.completed \cup {Current} ELSE inv.completed)

FinishPublication == FinishCounting(inv.completed \cup {Current})

\* Any step can fail.  What was published is then taken back, the receipt
\* before the artifacts it names, as far as removals succeed.
StepFails ==
  /\ pc = "publishing"
  /\ pc' = "rollback"
  /\ UNCHANGED <<disk, inv, worker, pub, report, invocations>>

RollbackReceipt ==
  /\ pc = "rollback" /\ pc' = "rollback_artifacts"
  /\ \E kept, cleared \in BOOLEAN :
       /\ kept => pub.receipt = "linked"
       /\ cleared \/ pub.receipt # "absent"
       /\ receipts' = IF pub.receipt = "linked" /\ ~kept
                      THEN [receipts EXCEPT ![Current] = NoReceipt] ELSE receipts
       /\ litter' = litter \cup (IF kept THEN {"unremoved"} ELSE {})
                           \cup (IF cleared THEN {} ELSE {"temporary"})
  /\ pub' = [pub EXCEPT !.receipt = "absent"]
  /\ UNCHANGED <<artifacts, inv, worker, report, invocations>>

\* A staged receipt that could not be published leaves the parent to say so; a
\* receipt of the parent's own is its last resort.
RollbackArtifacts ==
  /\ pc = "rollback_artifacts"
  /\ \E kept \in SUBSET pub.linked, cleared \in BOOLEAN :
       /\ artifacts' = artifacts \ ({Current} \X (pub.linked \ kept))
       /\ litter' = litter \cup (IF kept = {} THEN {} ELSE {"unremoved"})
                           \cup (IF cleared \/ pub.names = {} THEN {} ELSE {"temporary"})
  /\ IF pub.kind = "staged"
     THEN /\ ParentReceipt("publication") /\ pc' = "publishing"
          /\ UNCHANGED <<inv, worker, report>>
     ELSE Raise("publication_failed")
  /\ UNCHANGED <<receipts, invocations>>

-----------------------------------------------------------------------------
(* Time and crashes *)

\* Bounds: the clock stops one tick past the deadline, and an attempt's own
\* count one past the study's budget.
Elapse ==
  /\ pc # "off" /\ inv.left >= 0 /\ inv.spent < StudyWall + 1
  /\ inv' = [inv EXCEPT !.left = @ - 1,
                        !.spent = IF pc = "loop" THEN @ ELSE @ + 1]
  /\ UNCHANGED <<disk, pc, worker, pub, report, invocations>>

\* What has a temporary name at the crash keeps it; a name that is being linked
\* or unlinked may.  An exception that execute_plan lets out, of
\* _discard_publication say, ends the invocation like this as well.
Crash ==
  /\ pc # "off"
  /\ Raise("crashed")
  /\ \/ /\ pub # NoPub => pub.linked = pub.names /\ pub.receipt = "absent"
        /\ UNCHANGED litter
     \/ /\ pc \notin {"loop", "ready", "working"}
        /\ litter' = litter \cup {"temporary"}
  /\ UNCHANGED <<receipts, artifacts, invocations>>

Step == \/ Invoke \/ Skip \/ Consider \/ Launch \/ WorkerEnds \/ Stage \/ Settle
        \/ LinkArtifact \/ WriteReceipt \/ LinkReceipt \/ FinishPublication
        \/ StepFails \/ RollbackReceipt \/ RollbackArtifacts

StudyNext == Step \/ Elapse \/ Crash

StudySpec == StudyInit /\ [][StudyNext]_vars

-----------------------------------------------------------------------------
(* Properties *)

\* "receipt JSON as the final marker": whatever fails or crashes, and wherever,
\* a receipt in the directory has every artifact it names, unless a rollback
\* could not remove what it had to.
ReceiptIsMarker ==
  "unremoved" \notin litter => \A r \in Receipted : Files(r) \subseteq artifacts

\* Even then no invocation goes by a receipt whose artifacts are incomplete.
TrustsComplete ==
  \A r \in inv.existing : r \in Receipted /\ Files(r) \subseteq artifacts

\* A published receipt is final: no resumption, fallback or crash changes it;
\* only the rollback of its own publication may take it back.
ReceiptsFinal ==
  [][\A r \in Receipted : receipts'[r] = receipts[r] \/ (pc = "rollback" /\ r = Current)]_vars

\* A worker's own receipt is published only if the worker was not killed at its
\* limit, its process group emptied and its work root was removed.
StagedEarned ==
  \A r \in Receipted : receipts[r].kind = "staged" =>
    receipts[r].worker = [timed_out |-> FALSE, teardown_error |-> FALSE, cleanup |-> "ok"]

\* The budget is cumulative over invocations: whenever a worker runs, the
\* recorded durations of all other runs and its own limit fit the study's.
BudgetFits ==
  pc = "working" => Durations(Receipted \ {Current}) + TaskWall <= StudyWall

\* A report tells the truth about the directory: every attempt was completed by
\* a receipt, what it calls unstarted is what has none, and the study is
\* complete only if nothing is unstarted.
ReportAccounts ==
  pc = "off" /\ report.reason \in Returned =>
    /\ report.attempted = report.completed
    /\ report.completed \subseteq Receipted
    /\ report.unstarted = Runs \ Receipted
    /\ report.reason = "complete" => report.unstarted = {}

\* The second reading of the directory is there to "detect any concurrent/foreign
\* layout change", and nobody else writes: it never stops the runner.
OnlyForeignChange == report.reason # "directory_changed"

\* A study whose worker group could not be emptied is not resumable: no worker
\* starts once such a worker has its receipt.
TeardownBlocksResume ==
  pc = "working" => \A r \in Receipted : ~receipts[r].worker.teardown_error
=============================================================================

------------------------- MODULE StudyRunnerProofs -------------------------
(* Receipts of the repetition runner are the last thing published, earned   *)
(* and final, and its report is true, for any plan, budget and number of    *)
(* invocations.                                                             *)
EXTENDS StudyRunner, FiniteSetTheorems, TLAPS

\* The types the publication depends on.  The budget left is not one of them: it
\* is a sum over the receipts, which Budgeted below is about.
Typed ==
  /\ receipts \in [Runs -> {NoReceipt} \cup Receipts]
  /\ pc \in {"off", "loop", "ready", "working", "ended", "staged", "publishing",
             "rollback", "rollback_artifacts"}
  /\ inv \in [existing : SUBSET Runs, attempted : SUBSET Runs, completed : SUBSET Runs,
              index : 1..PlanLength + 1, left : {inv.left}, spent : Ticks]
  /\ worker \in Workers
  /\ pub \in {NoPub} \cup Pubs

Publishing == {"publishing", "rollback", "rollback_artifacts"}

Earned == [timed_out |-> FALSE, teardown_error |-> FALSE, cleanup |-> "ok"]

\* What the publication in progress has put into the directory.
PubHeld ==
  /\ pc \in {"off", "loop", "ready", "working", "ended"} => pub = NoPub
  /\ pc = "staged" /\ pub # NoPub =>
       pub.kind = "staged" /\ pub.linked = {} /\ pub.receipt = "absent"
  /\ pc \in Publishing =>
       /\ pub # NoPub
       /\ {Current} \X pub.linked \subseteq artifacts
       /\ pub.receipt # "absent" => pub.linked = pub.names
       /\ pub.receipt = "linked" => Current \in Receipted /\ receipts[Current].names = pub.names
       /\ pub.receipt # "linked" /\ "unremoved" \notin litter => Current \notin Receipted
       /\ pub.kind = "staged" => worker = Earned
  /\ pc = "rollback_artifacts" => pub.receipt = "absent"

\* Whose receipts there are: of every run before the current one, of those the
\* invocation found, and perhaps of the one that is being published.
LoopHeld ==
  pc # "off" =>
    /\ pc # "loop" => Current \in Runs \ inv.existing
    /\ \A r \in Runs : r < Current => r \in Receipted
    /\ \A r \in Receipted \ inv.existing : r < Current \/ (r = Current /\ pc \in Publishing)
    /\ \A r \in inv.completed : r < Current
    /\ inv.attempted = inv.completed \cup (IF pc \in {"loop", "ready"} THEN {} ELSE {Current})

\* The inductive invariant.
Inv == /\ Typed /\ PubHeld /\ LoopHeld
       /\ TrustsComplete /\ ReceiptIsMarker /\ StagedEarned /\ ReportAccounts

-----------------------------------------------------------------------------

LEMMA Values ==
  /\ NoReceipt \notin Receipts /\ NoPub \notin Pubs
  /\ PlanLength \in Nat \ {0} /\ StudyWall \in Nat
  /\ Runs = 1..PlanLength /\ Ticks = 0..StudyWall + 1
  /\ "inventory" \in ArtifactNames
PROOF
<1>1. \A x \in Receipts : x.kind # "none"
  BY DEF Receipts, Kinds, Stops
<1>2. \A x \in Pubs : x.kind # "none"
  BY DEF Pubs, Kinds, Stops
<1> QED
  BY <1>1, <1>2, StudyAssumption DEF NoReceipt, NoPub, Runs, Ticks

LEMMA InitInv == StudyInit => Inv
PROOF
<1> SUFFICES ASSUME StudyInit
             PROVE  Inv
  OBVIOUS
<1>1. Typed
  BY Values DEF StudyInit, Typed, NewInvocation, NewWorker, Workers
<1> QED
  BY <1>1 DEF StudyInit, Inv, PubHeld, LoopHeld, TrustsComplete, ReceiptIsMarker,
              StagedEarned, ReportAccounts, Receipted, NewInvocation, Publishing, Returned, Stops

\* An invocation ends, with a report that is true if it is one that is returned.
LEMMA EndInv ==
  ASSUME NEW reason, NEW attempted, NEW completed, NEW unstarted,
         Inv, End(reason, attempted, completed, unstarted),
         UNCHANGED <<receipts, artifacts>>, litter \subseteq litter',
         reason \in Returned =>
           /\ attempted = completed /\ completed \subseteq Receipted
           /\ unstarted = Runs \ Receipted
           /\ reason = "complete" => unstarted = {}
  PROVE  Inv'
PROOF
<1>1. /\ pc' = "off" /\ inv' = NewInvocation /\ worker' = NewWorker /\ pub' = NoPub
      /\ report' = [reason |-> reason, attempted |-> attempted,
                    completed |-> completed, unstarted |-> unstarted]
  BY DEF End
<1>2. Typed'
  BY <1>1, Values DEF Inv, Typed, NewInvocation, NewWorker, Workers
<1>3. PubHeld' /\ LoopHeld'
  BY <1>1 DEF PubHeld, LoopHeld, Publishing
<1>4. TrustsComplete' /\ ReceiptIsMarker' /\ StagedEarned'
  BY <1>1 DEF Inv, TrustsComplete, ReceiptIsMarker, StagedEarned, Receipted, Files, NewInvocation
<1>5. ReportAccounts'
  BY <1>1 DEF ReportAccounts, Receipted
<1> QED
  BY <1>2, <1>3, <1>4, <1>5 DEF Inv

\* A step within an invocation leaves the report alone.
LEMMA Within ==
  ASSUME Inv, pc' # "off", UNCHANGED receipts, UNCHANGED artifacts, litter \subseteq litter',
         inv'.existing = inv.existing,
         Typed', PubHeld', LoopHeld'
  PROVE  Inv'
PROOF
  BY DEF Inv, TrustsComplete, ReceiptIsMarker, StagedEarned, ReportAccounts, Receipted, Files

LEMMA BeginInv ==
  ASSUME NEW budget, Inv, Begin(budget)
  PROVE  Inv'
PROOF
<1> USE DEF disk
<1>1. CASE Raise("invalid_layout") /\ UNCHANGED disk
  BY <1>1, EndInv DEF Raise, Returned, Stops
<1>2. CASE End("teardown", {}, {}, Runs \ Receipted) /\ UNCHANGED disk
  BY <1>2, EndInv
<1>3. CASE /\ LayoutExact /\ pc = "off" /\ pc' = "loop" /\ UNCHANGED disk
           /\ inv' = [NewInvocation EXCEPT !.existing = Receipted, !.left = budget]
           /\ UNCHANGED <<worker, pub, report>>
  <2>1. Receipted \subseteq Runs /\ Receipted' = Receipted
    BY <1>3 DEF Receipted
  <2>2. inv' = [existing |-> Receipted, attempted |-> {}, completed |-> {},
                index |-> 1, left |-> budget, spent |-> 0]
    BY <1>3 DEF NewInvocation
  <2>3. Typed'
    BY <1>3, <2>1, <2>2, Values DEF Inv, Typed
  <2>4. PubHeld'
    BY <1>3 DEF Inv, PubHeld, Publishing
  <2>5. LoopHeld'
    <3>1. /\ inv'.existing = Receipted /\ inv'.attempted = {} /\ inv'.completed = {}
          /\ Current' = 1
      BY <2>2 DEF Current
    <3>2. \A r \in Runs : ~(r < 1)
      BY Values
    <3>3. pc' = "loop"
      BY <1>3
    <3> QED
      BY <2>1, <3>1, <3>2, <3>3 DEF LoopHeld
  <2>6. TrustsComplete'
    BY <1>3, <2>1, <2>2 DEF TrustsComplete, LayoutExact, Files
  <2>7. ReceiptIsMarker' /\ StagedEarned' /\ ReportAccounts'
    BY <1>3, <2>1 DEF Inv, ReceiptIsMarker, StagedEarned, ReportAccounts, Files
  <2> QED
    BY <2>3, <2>4, <2>5, <2>6, <2>7 DEF Inv
<1> QED
  BY <1>1, <1>2, <1>3 DEF Begin

LEMMA SkipInv == Inv /\ Skip => Inv'
PROOF
<1> SUFFICES ASSUME Inv, Skip
             PROVE  Inv'
  OBVIOUS
<1> USE DEF disk
<1>1. Current \in 1..PlanLength + 1 /\ pc = "loop"
  BY DEF Inv, Typed, Skip, Current
<1>2. CASE Current \notin Runs
  <2>1. End("complete", inv.attempted, inv.completed, {}) /\ UNCHANGED disk
    BY <1>2 DEF Skip
  <2>2. inv.attempted = inv.completed /\ inv.completed \subseteq Receipted
    BY <1>1, Values DEF Inv, Typed, LoopHeld
  <2>3. Runs \ Receipted = {}
    BY <1>1, <1>2, Values DEF Inv, LoopHeld
  <2> QED
    BY <2>1, <2>2, <2>3, EndInv
<1>3. CASE Current \in Runs
  <2>1. /\ Current \in inv.existing /\ inv' = [inv EXCEPT !.index = @ + 1]
        /\ UNCHANGED <<disk, pc, worker, pub, report>>
    BY <1>3 DEF Skip
  <2>2. /\ inv'.existing = inv.existing /\ inv'.attempted = inv.attempted
        /\ inv'.completed = inv.completed /\ inv'.index = inv.index + 1
    BY <2>1 DEF Inv, Typed
  <2>3. Typed'
    BY <1>3, <2>1, Values DEF Inv, Typed, Current
  <2>4. PubHeld'
    BY <1>1, <2>1 DEF Inv, PubHeld, Publishing
  <2>5. Current \in Receipted
    BY <2>1 DEF Inv, TrustsComplete
  <2>6. LoopHeld'
    BY <1>1, <2>1, <2>2, <2>5, Values DEF Inv, Typed, LoopHeld, Current, Receipted
  <2> QED
    BY <1>1, <2>1, <2>2, <2>3, <2>4, <2>6, Within
<1> QED
  BY <1>2, <1>3

\* What has no receipt, once every run before n has one and those from n on have
\* it from an earlier invocation.
LEMMA UnstartedExact ==
  ASSUME Inv, NEW n \in Int,
         \A r \in Runs : r < n => r \in Receipted,
         \A r \in Receipted \ inv.existing : r < n
  PROVE  Unstarted(n) = Runs \ Receipted
PROOF
  BY Values DEF Inv, TrustsComplete, Unstarted, Receipted

LEMMA ConsiderInv == Inv /\ Consider => Inv'
PROOF
<1> SUFFICES ASSUME Inv, Consider
             PROVE  Inv'
  OBVIOUS
<1> USE DEF disk
<1>1. pc = "loop" /\ Current \in Runs \ inv.existing /\ Current \in Int /\ UNCHANGED disk
  BY Values DEF Consider
<1>2. CASE End("deadline", inv.attempted, inv.completed, Unstarted(Current))
  <2>1. inv.attempted = inv.completed /\ inv.completed \subseteq Receipted
    BY <1>1, Values DEF Inv, Typed, LoopHeld
  <2>2. Unstarted(Current) = Runs \ Receipted
    BY <1>1, UnstartedExact DEF Inv, LoopHeld, Publishing
  <2> QED
    BY <1>1, <1>2, <2>1, <2>2, EndInv
<1>3. CASE Raise("invalid_layout") \/ Raise("directory_changed")
  BY <1>1, <1>3, EndInv DEF Raise, Returned, Stops
<1>4. CASE pc' = "ready" /\ inv' = [inv EXCEPT !.spent = 0] /\ UNCHANGED <<worker, pub, report>>
  <2>1. /\ inv'.existing = inv.existing /\ inv'.attempted = inv.attempted
        /\ inv'.completed = inv.completed /\ inv'.index = inv.index
    BY <1>4 DEF Inv, Typed
  <2>2. Typed'
    BY <1>1, <1>4, Values DEF Inv, Typed
  <2>3. PubHeld' /\ LoopHeld'
    BY <1>1, <1>4, <2>1 DEF Inv, PubHeld, LoopHeld, Publishing, Current, Receipted
  <2> QED
    BY <1>1, <1>4, <2>1, <2>2, <2>3, Within
<1> QED
  BY <1>2, <1>3, <1>4 DEF Consider

LEMMA LaunchInv == Inv /\ Launch => Inv'
PROOF
<1> SUFFICES ASSUME Inv, Launch
             PROVE  Inv'
  OBVIOUS
<1> USE DEF disk
<1>1. pc = "ready" /\ UNCHANGED disk
  BY DEF Launch
<1>2. Current \in Runs \ inv.existing /\ Current \in Int
  BY <1>1, Values DEF Inv, LoopHeld
<1>3. CASE End("deadline", inv.attempted, inv.completed, Unstarted(Current))
  <2>1. inv.attempted = inv.completed /\ inv.completed \subseteq Receipted
    BY <1>1, Values DEF Inv, Typed, LoopHeld
  <2>2. Unstarted(Current) = Runs \ Receipted
    BY <1>1, <1>2, UnstartedExact DEF Inv, LoopHeld, Publishing
  <2> QED
    BY <1>1, <1>3, <2>1, <2>2, EndInv
<1>4. CASE /\ pc' = "working" /\ inv' = [inv EXCEPT !.attempted = @ \cup {Current}]
           /\ worker' = NewWorker /\ UNCHANGED <<pub, report>>
  <2>1. /\ inv'.existing = inv.existing /\ inv'.attempted = inv.attempted \cup {Current}
        /\ inv'.completed = inv.completed /\ inv'.index = inv.index
    BY <1>4 DEF Inv, Typed
  <2>2. Typed'
    BY <1>1, <1>2, <1>4, Values DEF Inv, Typed, NewWorker, Workers
  <2>3. PubHeld' /\ LoopHeld'
    BY <1>1, <1>2, <1>4, <2>1 DEF Inv, PubHeld, LoopHeld, Publishing, Current, Receipted
  <2> QED
    BY <1>1, <1>4, <2>1, <2>2, <2>3, Within
<1> QED
  BY <1>3, <1>4 DEF Launch

\* A step that leaves the loop's lists alone.
LEMMA LoopKept ==
  ASSUME Inv, pc # "off", UNCHANGED receipts,
         inv'.existing = inv.existing, inv'.attempted = inv.attempted,
         inv'.completed = inv.completed, inv'.index = inv.index,
         pc' = pc \/ (/\ pc \in {"working", "ended", "staged"} \cup Publishing
                      /\ pc' \in {"ended", "staged"} \cup Publishing
                      /\ pc \in Publishing => pc' \in Publishing)
  PROVE  LoopHeld'
PROOF
  BY DEF Inv, LoopHeld, Current, Receipted, Publishing

LEMMA WorkerEndsInv == Inv /\ WorkerEnds => Inv'
PROOF
<1> SUFFICES ASSUME Inv, WorkerEnds
             PROVE  Inv'
  OBVIOUS
<1> USE DEF disk
<1>1. pc = "working" /\ pc' = "ended" /\ UNCHANGED <<receipts, artifacts, litter, inv, pub, report>>
  BY DEF WorkerEnds
<1>2. worker' \in Workers
  BY DEF Inv, Typed, WorkerEnds, Workers
<1>3. Typed' /\ PubHeld'
  BY <1>1, <1>2 DEF Inv, Typed, PubHeld, Publishing
<1> QED
  BY <1>1, <1>3, LoopKept, Within DEF Publishing

LEMMA StageInv == Inv /\ Stage => Inv'
PROOF
<1> SUFFICES ASSUME Inv, Stage
             PROVE  Inv'
  OBVIOUS
<1>1. /\ pc = "ended" /\ pc' = "staged" /\ UNCHANGED <<receipts, artifacts, inv, report>>
      /\ litter \subseteq litter'
      /\ worker' = [worker EXCEPT !.timed_out = @ \/ inv.left < 0]
  BY DEF Stage
<1>2. worker' \in Workers
  BY <1>1 DEF Inv, Typed, Workers
<1>3. \/ pub' = pub
      \/ \E names \in SUBSET ArtifactNames, d \in 0..inv.spent : pub' = NewPub("staged", names, d)
  BY DEF Stage
<1>4. pub' \in {NoPub} \cup Pubs
  BY <1>1, <1>3, Values DEF Inv, Typed, NewPub, Pubs, Kinds
<1>5. Typed'
  BY <1>1, <1>2, <1>4 DEF Inv, Typed
<1>6. PubHeld'
  BY <1>1, <1>3 DEF Inv, PubHeld, NewPub, Publishing
<1> QED
  BY <1>1, <1>5, <1>6, LoopKept, Within DEF Publishing

LEMMA ParentTyped ==
  ASSUME Inv, NEW kind \in Kinds, kind # "staged", ParentReceipt(kind)
  PROVE  /\ pub' \in Pubs /\ pub'.kind # "staged"
         /\ pub'.linked = {} /\ pub'.receipt = "absent"
PROOF
  BY Values DEF Inv, Typed, ParentReceipt, NewPub, Pubs

LEMMA SettleInv == Inv /\ Settle => Inv'
PROOF
<1> SUFFICES ASSUME Inv, Settle
             PROVE  Inv'
  OBVIOUS
<1>1. pc = "staged" /\ pc' = "publishing" /\ UNCHANGED <<receipts, artifacts, inv, report>>
  BY DEF Settle
<1>2. Current \notin Receipted /\ Receipted' = Receipted /\ Current' = Current
  <2>1. Current \in Runs \ inv.existing /\ \A r \in Receipted \ inv.existing : r < Current
    BY <1>1 DEF Inv, LoopHeld, Publishing
  <2>2. Receipted' = Receipted /\ Current' = Current
    BY <1>1 DEF Receipted, Current
  <2> QED
    BY <2>1, <2>2, Values
<1>3. PICK outcome \in {"ok", "inventory", "cleanup"} :
        /\ worker' = [worker EXCEPT !.timed_out = Late, !.cleanup = outcome]
        /\ IF Verdict(outcome) = "staged"
           THEN UNCHANGED <<pub, litter>>
           ELSE ParentReceipt(Verdict(outcome)) /\ Discard
  BY DEF Settle
<1>4. worker' \in Workers
  BY <1>3 DEF Inv, Typed, Workers, Late
<1>5. Verdict(outcome) \in Kinds
  BY DEF Verdict, Kinds, Stops
<1>6. CASE Verdict(outcome) = "staged"
  <2>1. pub # NoPub /\ outcome = "ok" /\ ~Late /\ ~worker.teardown_error
    BY <1>6 DEF Verdict
  <2>2. worker' = Earned
    <3>1. Late = FALSE
      BY <2>1 DEF Late
    <3>2. worker.teardown_error = FALSE
      BY <2>1 DEF Inv, Typed, Workers
    <3> QED
      BY <1>3, <2>1, <3>1, <3>2 DEF Inv, Typed, Workers, Earned
  <2>3. Typed' /\ PubHeld'
    BY <1>1, <1>2, <1>3, <1>4, <1>6, <2>1, <2>2 DEF Inv, Typed, PubHeld, Publishing
  <2> QED
    BY <1>1, <1>3, <1>6, <2>3, LoopKept, Within DEF Publishing
<1>7. CASE Verdict(outcome) # "staged"
  <2>1. /\ pub' \in Pubs /\ pub'.kind # "staged"
        /\ pub'.linked = {} /\ pub'.receipt = "absent"
    BY <1>3, <1>5, <1>7, ParentTyped
  <2>2. litter \subseteq litter'
    BY <1>3, <1>7 DEF Discard
  <2>3. Typed' /\ PubHeld'
    BY <1>1, <1>2, <1>4, <2>1, Values DEF Inv, Typed, PubHeld, Publishing
  <2> QED
    BY <1>1, <2>2, <2>3, LoopKept, Within DEF Publishing
<1> QED
  BY <1>6, <1>7

LEMMA LinkArtifactInv == Inv /\ LinkArtifact => Inv'
PROOF
<1> SUFFICES ASSUME Inv, LinkArtifact
             PROVE  Inv'
  OBVIOUS
<1>1. /\ pc = "publishing" /\ UNCHANGED <<receipts, litter, pc, inv, worker, report>>
      /\ pub \in Pubs
  BY Values DEF Inv, Typed, PubHeld, LinkArtifact, Publishing
<1>2. PICK a \in pub.names \ pub.linked :
        /\ artifacts' = artifacts \cup {<<Current, a>>}
        /\ pub' = [pub EXCEPT !.linked = @ \cup {a}]
  BY DEF LinkArtifact
<1>3. /\ pub' \in Pubs /\ pub'.linked = pub.linked \cup {a}
      /\ pub'.receipt = pub.receipt /\ pub'.names = pub.names /\ pub'.kind = pub.kind
      /\ a \in pub.names /\ a \notin pub.linked
  BY <1>1, <1>2 DEF Pubs
<1>4. Typed'
  BY <1>1, <1>3 DEF Inv, Typed
<1>5. Receipted' = Receipted /\ Current' = Current
  BY <1>1 DEF Receipted, Current
<1>6. {Current} \X pub'.linked \subseteq artifacts'
  BY <1>1, <1>2, <1>3 DEF Inv, PubHeld, Publishing
<1>7. PubHeld'
  BY <1>1, <1>3, <1>5, <1>6, Values DEF Inv, PubHeld, Publishing
<1>8. LoopHeld'
  BY <1>1, LoopKept
<1>9. TrustsComplete' /\ ReceiptIsMarker'
  BY <1>1, <1>2, <1>5 DEF Inv, TrustsComplete, ReceiptIsMarker, Files
<1>10. StagedEarned' /\ ReportAccounts'
  BY <1>1, <1>5 DEF Inv, StagedEarned, ReportAccounts
<1> QED
  BY <1>4, <1>7, <1>8, <1>9, <1>10 DEF Inv

LEMMA WriteReceiptInv == Inv /\ WriteReceipt => Inv'
PROOF
<1> SUFFICES ASSUME Inv, WriteReceipt
             PROVE  Inv'
  OBVIOUS
<1>1. /\ pc = "publishing" /\ pub.receipt = "absent" /\ pub.linked = pub.names
      /\ pub' = [pub EXCEPT !.receipt = "temporary"]
      /\ UNCHANGED <<receipts, artifacts, litter, pc, inv, worker, report>>
      /\ pub \in Pubs
  BY Values DEF Inv, Typed, PubHeld, WriteReceipt, WriteReceiptOnce, disk, Publishing
<1>2. /\ pub' \in Pubs /\ pub'.linked = pub.linked /\ pub'.receipt = "temporary"
      /\ pub'.names = pub.names /\ pub'.kind = pub.kind
  BY <1>1 DEF Pubs
<1>3. Typed'
  BY <1>1, <1>2 DEF Inv, Typed
<1>4. PubHeld'
  BY <1>1, <1>2, Values DEF Inv, PubHeld, Publishing, Receipted, Current
<1> QED
  BY <1>1, <1>3, <1>4, LoopKept, Within

LEMMA LinkReceiptInv == Inv /\ LinkReceipt => Inv'
PROOF
<1> SUFFICES ASSUME Inv, LinkReceipt
             PROVE  Inv'
  OBVIOUS
<1> DEFINE published == [kind |-> pub.kind, names |-> pub.names,
                         duration |-> pub.duration, worker |-> worker]
<1>1. /\ pc = "publishing" /\ pub.receipt = "temporary" /\ receipts[Current] = NoReceipt
      /\ receipts' = [receipts EXCEPT ![Current] = published]
      /\ pub' = [pub EXCEPT !.receipt = "linked"]
      /\ UNCHANGED <<artifacts, litter, pc, inv, worker, report>>
      /\ pub \in Pubs /\ pub.linked = pub.names
      /\ {Current} \X pub.linked \subseteq artifacts
      /\ pub.kind = "staged" => worker = Earned
  BY Values DEF Inv, Typed, PubHeld, LinkReceipt, LinkReceiptIf, Publishing
<1>2. /\ pub' \in Pubs /\ pub'.linked = pub.linked /\ pub'.receipt = "linked"
      /\ pub'.names = pub.names /\ pub'.kind = pub.kind
  BY <1>1 DEF Pubs
<1>3. published \in Receipts /\ published # NoReceipt
  BY <1>1, Values DEF Inv, Typed, Pubs, Receipts
<1>4. Current \in Runs \ inv.existing /\ Current' = Current
  BY <1>1 DEF Inv, LoopHeld, Current
<1>5. receipts' \in [Runs -> {NoReceipt} \cup Receipts]
  BY <1>1, <1>3, <1>4 DEF Inv, Typed
<1>6. /\ receipts'[Current] = published
      /\ \A r \in Runs : r # Current => receipts'[r] = receipts[r]
  BY <1>1, <1>4 DEF Inv, Typed
<1> HIDE DEF published
<1>7. Receipted' = Receipted \cup {Current}
  BY <1>3, <1>4, <1>6 DEF Receipted
<1>8. published.names = pub.names /\ published.kind = pub.kind /\ published.worker = worker
  BY DEF published
<1>9. Typed'
  BY <1>1, <1>2, <1>5 DEF Inv, Typed
<1>10. PubHeld'
  BY <1>1, <1>2, <1>4, <1>6, <1>7, <1>8, Values DEF PubHeld, Publishing
<1>11. LoopHeld'
  BY <1>1, <1>4, <1>7 DEF Inv, LoopHeld, Publishing
<1>12. TrustsComplete'
  BY <1>1, <1>4, <1>6, <1>7 DEF Inv, Typed, TrustsComplete, Files
<1>13. ReceiptIsMarker'
  BY <1>1, <1>4, <1>6, <1>7, <1>8 DEF Inv, ReceiptIsMarker, Files, Receipted
<1>14. StagedEarned'
  BY <1>1, <1>4, <1>6, <1>7, <1>8 DEF Inv, StagedEarned, Earned, Receipted
<1>15. ReportAccounts'
  BY <1>1 DEF ReportAccounts
<1> QED
  BY <1>9, <1>10, <1>11, <1>12, <1>13, <1>14, <1>15 DEF Inv

LEMMA FinishInv == Inv /\ FinishPublication => Inv'
PROOF
<1> SUFFICES ASSUME Inv, FinishPublication
             PROVE  Inv'
  OBVIOUS
<1> DEFINE completed == inv.completed \cup {Current}
<1>1. /\ pc = "publishing" /\ pub.receipt = "linked"
      /\ UNCHANGED <<receipts, artifacts, litter>>
      /\ pub \in Pubs /\ pub.linked = pub.names
      /\ {Current} \X pub.linked \subseteq artifacts
      /\ Current \in Receipted /\ receipts[Current].names = pub.names
  BY Values DEF Inv, Typed, PubHeld, FinishPublication, FinishCounting, disk, Publishing
<1>2. Current \in Runs \ inv.existing /\ Current \in 1..PlanLength /\ Current \in Int
  BY <1>1, Values DEF Inv, LoopHeld
<1>3. /\ inv.attempted = completed /\ completed \subseteq Receipted
      /\ \A r \in completed : r < Current + 1
  BY <1>1, <1>2, Values DEF Inv, Typed, LoopHeld
<1>4. /\ \A r \in Runs : r < Current + 1 => r \in Receipted
      /\ \A r \in Receipted \ inv.existing : r < Current + 1
  BY <1>1, <1>2, Values DEF Inv, LoopHeld, Receipted
<1>5. CASE pub.kind \in Stops
  <2> DEFINE reason == IF pub.kind = "timeout" THEN "deadline" ELSE pub.kind
  <2>1. End(reason, inv.attempted, completed, Unstarted(Current + 1))
    BY <1>5 DEF FinishPublication, FinishCounting
  <2>2. reason # "complete"
    BY <1>5 DEF Stops
  <2>3. Unstarted(Current + 1) = Runs \ Receipted
    BY <1>2, <1>4, UnstartedExact
  <2> HIDE DEF reason, completed
  <2> QED
    BY <1>1, <1>3, <2>1, <2>2, <2>3, EndInv
<1>6. CASE pub.kind \notin Stops
  <2> DEFINE existing == IF pub.kind = "staged" THEN inv.existing \cup {Current} ELSE inv.existing
  <2>1. /\ inv' = [inv EXCEPT !.completed = completed, !.index = @ + 1, !.existing = existing]
        /\ pc' = "loop" /\ pub' = NoPub /\ UNCHANGED <<worker, report>>
    BY <1>6 DEF FinishPublication, FinishCounting
  <2>2. existing \subseteq inv.existing \cup {Current} /\ inv.existing \subseteq existing
    OBVIOUS
  <2>3. completed \subseteq Runs /\ existing \subseteq Runs
    BY <1>2, <2>2 DEF Inv, Typed
  <2> HIDE DEF existing, completed
  <2>4. /\ inv'.existing = existing /\ inv'.attempted = inv.attempted
        /\ inv'.completed = completed /\ Current' = Current + 1
        /\ Receipted' = Receipted
    BY <1>1, <2>1 DEF Inv, Typed, Current, Receipted
  <2>5. Typed'
    <3>1. inv.index + 1 \in 1..PlanLength + 1
      BY <1>2, Values DEF Current
    <3>2. inv' \in [existing : SUBSET Runs, attempted : SUBSET Runs, completed : SUBSET Runs,
                    index : 1..PlanLength + 1, left : {inv'.left}, spent : Ticks]
      BY <2>1, <2>3, <3>1 DEF Inv, Typed
    <3> QED
      BY <1>1, <2>1, <3>2 DEF Inv, Typed
  <2>6. PubHeld'
    BY <2>1 DEF PubHeld, Publishing
  <2>7. LoopHeld'
    BY <1>3, <1>4, <2>1, <2>2, <2>4 DEF LoopHeld
  <2>8. TrustsComplete'
    BY <1>1, <2>2, <2>4 DEF Inv, TrustsComplete, Files
  <2>9. ReceiptIsMarker' /\ StagedEarned' /\ ReportAccounts'
    BY <1>1, <2>1, <2>4 DEF Inv, ReceiptIsMarker, StagedEarned, ReportAccounts, Files
  <2> QED
    BY <2>5, <2>6, <2>7, <2>8, <2>9 DEF Inv
<1> QED
  BY <1>5, <1>6

LEMMA StepFailsInv == Inv /\ StepFails => Inv'
PROOF
<1> SUFFICES ASSUME Inv, StepFails
             PROVE  Inv'
  OBVIOUS
<1>1. /\ pc = "publishing" /\ pc' = "rollback"
      /\ UNCHANGED <<receipts, artifacts, litter, inv, worker, pub, report>>
  BY DEF StepFails, disk
<1>2. Typed'
  BY <1>1 DEF Inv, Typed
<1>3. PubHeld'
  BY <1>1 DEF Inv, PubHeld, Publishing, Receipted, Current
<1> QED
  BY <1>1, <1>2, <1>3, LoopKept, Within DEF Publishing

LEMMA RollbackReceiptInv == Inv /\ RollbackReceipt => Inv'
PROOF
<1> SUFFICES ASSUME Inv, RollbackReceipt
             PROVE  Inv'
  OBVIOUS
<1>1. /\ pc = "rollback" /\ pc' = "rollback_artifacts"
      /\ pub' = [pub EXCEPT !.receipt = "absent"]
      /\ UNCHANGED <<artifacts, inv, worker, report>>
      /\ pub \in Pubs
  BY Values DEF Inv, Typed, PubHeld, RollbackReceipt, Publishing
<1>2. PICK kept \in BOOLEAN :
        /\ kept => pub.receipt = "linked"
        /\ receipts' = IF pub.receipt = "linked" /\ ~kept
                       THEN [receipts EXCEPT ![Current] = NoReceipt] ELSE receipts
        /\ litter \subseteq litter' /\ (kept => "unremoved" \in litter')
  BY DEF RollbackReceipt
<1>3. Current \in Runs \ inv.existing /\ Current' = Current
  BY <1>1 DEF Inv, LoopHeld, Current
<1>4. /\ receipts' \in [Runs -> {NoReceipt} \cup Receipts]
      /\ \A r \in Runs : r # Current => receipts'[r] = receipts[r]
      /\ receipts'[Current] \in {receipts[Current], NoReceipt}
  BY <1>2, <1>3 DEF Inv, Typed
<1>5. /\ Receipted' \subseteq Receipted /\ Receipted \ {Current} \subseteq Receipted'
      /\ \A r \in Receipted' : receipts'[r] = receipts[r]
  BY <1>3, <1>4 DEF Receipted
<1>6. "unremoved" \notin litter' => Current \notin Receipted'
  <2> SUFFICES ASSUME "unremoved" \notin litter'
               PROVE  Current \notin Receipted'
    OBVIOUS
  <2>1. CASE pub.receipt = "linked"
    BY <1>2, <1>3, <2>1 DEF Inv, Typed, Receipted
  <2>2. CASE pub.receipt # "linked"
    BY <1>1, <1>2, <1>5, <2>2 DEF Inv, PubHeld, Publishing
  <2> QED
    BY <2>1, <2>2
<1>7. /\ pub' \in Pubs /\ pub'.linked = pub.linked /\ pub'.receipt = "absent"
      /\ pub'.kind = pub.kind
  BY <1>1 DEF Pubs
<1>8. Typed'
  BY <1>1, <1>4, <1>7 DEF Inv, Typed
<1>9. PubHeld'
  BY <1>1, <1>3, <1>6, <1>7, Values DEF Inv, PubHeld, Publishing
<1>10. LoopHeld'
  BY <1>1, <1>3, <1>5, Values DEF Inv, LoopHeld, Publishing
<1>11. TrustsComplete'
  BY <1>1, <1>3, <1>5 DEF Inv, TrustsComplete, Files
<1>12. ReceiptIsMarker'
  BY <1>1, <1>2, <1>5 DEF Inv, ReceiptIsMarker, Files
<1>13. StagedEarned' /\ ReportAccounts'
  BY <1>1, <1>5 DEF Inv, StagedEarned, ReportAccounts
<1> QED
  BY <1>8, <1>9, <1>10, <1>11, <1>12, <1>13 DEF Inv

LEMMA RollbackArtifactsInv == Inv /\ RollbackArtifacts => Inv'
PROOF
<1> SUFFICES ASSUME Inv, RollbackArtifacts
             PROVE  Inv'
  OBVIOUS
<1>1. /\ pc = "rollback_artifacts" /\ UNCHANGED receipts
      /\ pub \in Pubs
  BY Values DEF Inv, Typed, PubHeld, RollbackArtifacts, Publishing
<1>2. PICK kept \in SUBSET pub.linked :
        /\ artifacts' = artifacts \ ({Current} \X (pub.linked \ kept))
        /\ litter \subseteq litter'
  BY DEF RollbackArtifacts
<1>3. Current \in Runs \ inv.existing
  BY <1>1 DEF Inv, LoopHeld
<1>4. Receipted' = Receipted
  BY <1>1 DEF Receipted
<1>5. "unremoved" \notin litter' => Current \notin Receipted
  BY <1>1, <1>2 DEF Inv, PubHeld, Publishing
<1>6. \A r : r # Current /\ Files(r) \subseteq artifacts => Files(r) \subseteq artifacts'
  BY <1>2 DEF Files
<1>7. Files(Current) \subseteq artifacts' \/ Current \notin Receipted \/ "unremoved" \in litter'
  BY <1>5
<1>8. \A r : Files(r)' = Files(r)
  BY <1>1 DEF Files
<1>9. TrustsComplete' \/ inv' # inv
  BY <1>3, <1>4, <1>6, <1>8 DEF Inv, TrustsComplete
<1>10. ReceiptIsMarker'
  BY <1>2, <1>4, <1>6, <1>7, <1>8 DEF Inv, ReceiptIsMarker
<1>11. StagedEarned'
  BY <1>1, <1>4 DEF Inv, StagedEarned
<1>12. CASE pub.kind = "staged"
  <2>1. ParentReceipt("publication") /\ pc' = "publishing" /\ UNCHANGED <<inv, worker, report>>
    BY <1>12 DEF RollbackArtifacts
  <2>2. /\ pub' \in Pubs /\ pub'.kind # "staged"
        /\ pub'.linked = {} /\ pub'.receipt = "absent"
    BY <2>1, ParentTyped DEF Kinds
  <2>3. Typed'
    BY <1>1, <2>1, <2>2 DEF Inv, Typed
  <2>4. Current' = Current
    BY <2>1 DEF Current
  <2>5. PubHeld'
    BY <1>4, <1>5, <2>1, <2>2, <2>4, Values DEF PubHeld, Publishing
  <2>6. LoopHeld'
    BY <1>1, <2>1, LoopKept DEF Publishing
  <2>7. ReportAccounts'
    BY <2>1 DEF ReportAccounts
  <2> QED
    BY <1>9, <1>10, <1>11, <2>1, <2>3, <2>5, <2>6, <2>7 DEF Inv
<1>13. CASE pub.kind # "staged"
  <2>1. End("publication_failed", {}, {}, {})
    BY <1>13 DEF RollbackArtifacts, Raise
  <2>2. /\ pc' = "off" /\ inv' = NewInvocation /\ worker' = NewWorker /\ pub' = NoPub
        /\ report'.reason = "publication_failed"
    BY <2>1 DEF End
  <2>3. Typed'
    BY <1>1, <2>2, Values DEF Inv, Typed, NewInvocation, NewWorker, Workers
  <2>4. PubHeld' /\ LoopHeld'
    BY <2>2 DEF PubHeld, LoopHeld, Publishing
  <2>5. TrustsComplete' /\ ReportAccounts'
    BY <2>2 DEF TrustsComplete, NewInvocation, ReportAccounts, Returned, Stops
  <2> QED
    BY <1>10, <1>11, <2>3, <2>4, <2>5 DEF Inv
<1> QED
  BY <1>12, <1>13

LEMMA ElapseInv == Inv /\ Elapse => Inv'
PROOF
<1> SUFFICES ASSUME Inv, Elapse
             PROVE  Inv'
  OBVIOUS
<1>1. /\ pc # "off" /\ inv.spent < StudyWall + 1
      /\ UNCHANGED <<receipts, artifacts, litter, pc, worker, pub, report>>
      /\ inv' = [inv EXCEPT !.left = @ - 1,
                            !.spent = IF pc = "loop" THEN @ ELSE @ + 1]
  BY DEF Elapse, disk
<1>2. /\ inv'.existing = inv.existing /\ inv'.attempted = inv.attempted
      /\ inv'.completed = inv.completed /\ inv'.index = inv.index
  BY <1>1 DEF Inv, Typed
<1>3. Typed'
  <2>1. inv.spent \in Ticks /\ inv.spent + 1 \in Ticks
    BY <1>1, Values DEF Inv, Typed
  <2>2. inv' \in [existing : SUBSET Runs, attempted : SUBSET Runs, completed : SUBSET Runs,
                  index : 1..PlanLength + 1, left : {inv'.left}, spent : Ticks]
    BY <1>1, <2>1 DEF Inv, Typed
  <2> QED
    BY <1>1, <2>2 DEF Inv, Typed
<1>4. PubHeld'
  BY <1>1, <1>2 DEF Inv, PubHeld, Publishing, Receipted, Current
<1> QED
  BY <1>1, <1>2, <1>3, <1>4, LoopKept, Within

LEMMA CrashInv == Inv /\ Crash => Inv'
PROOF
<1> SUFFICES ASSUME Inv, Crash
             PROVE  Inv'
  OBVIOUS
<1>1. /\ End("crashed", {}, {}, {}) /\ UNCHANGED <<receipts, artifacts>>
      /\ litter \subseteq litter'
  BY DEF Crash, Raise
<1> QED
  BY <1>1, EndInv DEF Returned, Stops

LEMMA NextInv == Inv /\ [StudyNext]_vars => Inv'
PROOF
<1> SUFFICES ASSUME Inv, [StudyNext]_vars
             PROVE  Inv'
  OBVIOUS
<1>1. CASE UNCHANGED vars
  BY <1>1 DEF vars, Inv, Typed, PubHeld, LoopHeld, TrustsComplete, ReceiptIsMarker,
              StagedEarned, ReportAccounts, Receipted, Files, Current
<1>2. CASE Invoke
  BY <1>2, BeginInv DEF Invoke
<1>3. CASE StudyNext
  BY <1>2, <1>3, SkipInv, ConsiderInv, LaunchInv, WorkerEndsInv, StageInv, SettleInv,
     LinkArtifactInv, WriteReceiptInv, LinkReceiptInv, FinishInv, StepFailsInv,
     RollbackReceiptInv, RollbackArtifactsInv, ElapseInv, CrashInv DEF StudyNext, Step
<1> QED
  BY <1>1, <1>3

-----------------------------------------------------------------------------

\* The invariant holds of every reachable state of the repetition runner,
\* through every failure and crash of repetition.py's execute_plan.
THEOREM StudyInvariant == StudySpec => []Inv
PROOF
<1>1. StudyInit => Inv
  BY InitInv
<1>2. Inv /\ [StudyNext]_vars => Inv'
  BY NextInv
<1> QED
  BY <1>1, <1>2, PTL DEF StudySpec

\* A receipt in the directory has every artifact it names, unless a rollback of
\* _commit_publication could not remove what it had to.
THEOREM StudyReceiptIsMarker == StudySpec => []ReceiptIsMarker
PROOF
<1>1. Inv => ReceiptIsMarker
  BY DEF Inv
<1> QED
  BY <1>1, StudyInvariant, PTL

\* No invocation goes by a receipt whose artifacts are incomplete, whatever
\* earlier ones left behind.
THEOREM StudyTrustsComplete == StudySpec => []TrustsComplete
PROOF
<1>1. Inv => TrustsComplete
  BY DEF Inv
<1> QED
  BY <1>1, StudyInvariant, PTL

\* A worker's own receipt stands for a worker that ended in time, emptied its
\* process group and had its work root removed.
THEOREM StudyStagedEarned == StudySpec => []StagedEarned
PROOF
<1>1. Inv => StagedEarned
  BY DEF Inv
<1> QED
  BY <1>1, StudyInvariant, PTL

\* What execute_plan returns is true of the directory, whichever of its return
\* statements it came from.
THEOREM StudyReportAccounts == StudySpec => []ReportAccounts
PROOF
<1>1. Inv => ReportAccounts
  BY DEF Inv
<1> QED
  BY <1>1, StudyInvariant, PTL

LEMMA OneReceiptAtATime ==
  ASSUME Inv, [StudyNext]_vars, NEW r \in Receipted
  PROVE  receipts'[r] = receipts[r] \/ (pc = "rollback" /\ r = Current)
PROOF
<1>1. CASE UNCHANGED receipts
  BY <1>1
<1>2. CASE LinkReceipt
  BY <1>2 DEF Inv, Typed, LinkReceipt, LinkReceiptIf, Receipted
<1>3. CASE RollbackReceipt
  BY <1>3 DEF Inv, Typed, RollbackReceipt, Receipted
<1>4. [StudyNext]_vars => UNCHANGED receipts \/ LinkReceipt \/ RollbackReceipt
  BY DEF vars, StudyNext, Step, Invoke, Begin, Skip, Consider, Launch, WorkerEnds, Stage,
         Settle, LinkArtifact, WriteReceipt, WriteReceiptOnce, FinishPublication,
         FinishCounting, StepFails, RollbackArtifacts, Elapse, Crash, disk
<1> QED
  BY <1>1, <1>2, <1>3, <1>4

\* A published receipt is final but for the rollback of its own publication.
THEOREM StudyReceiptsFinal == StudySpec => ReceiptsFinal
PROOF
<1>1. Inv /\ [StudyNext]_vars =>
        [\A r \in Receipted : receipts'[r] = receipts[r] \/ (pc = "rollback" /\ r = Current)]_vars
  BY OneReceiptAtATime
<1> QED
  BY <1>1, StudyInvariant, PTL DEF StudySpec, ReceiptsFinal

-----------------------------------------------------------------------------
(* The budget: what is left of it, what the receipts have consumed and what  *)
(* the run at hand has spent never exceed study_wall_s.                      *)

\* The runs whose receipts the invocation's clock has paid for; the one it is
\* busy with pays as it goes.
Charged == IF pc = "loop" THEN Receipted ELSE Receipted \ {Current}

BudgetHeld ==
  pc # "off" /\ inv.left >= 0 =>
    inv.left + Durations(Charged) + (IF pc = "loop" THEN 0 ELSE inv.spent) <= StudyWall

\* A publication charges no more than was spent on it, and its receipt says so.
PubCharged ==
  pub # NoPub =>
    /\ pub.duration <= inv.spent
    /\ pub.receipt = "linked" => receipts[Current].duration = pub.duration

Budgeted == inv.left \in -1..StudyWall /\ PubCharged /\ BudgetHeld /\ BudgetFits

LEMMA ChargesFinite ==
  ASSUME NEW S \in SUBSET Runs
  PROVE  IsFiniteSet(Charges(S)) /\ Durations(S) \in Nat
PROOF
<1>1. IsFiniteSet(Runs) /\ IsFiniteSet(Ticks)
  BY Values, FS_Interval
<1>2. IsFiniteSet(Runs \X Ticks)
  BY <1>1, FS_Product
<1>3. Charges(S) \in SUBSET (Runs \X Ticks)
  BY DEF Charges
<1>4. IsFiniteSet(Charges(S))
  BY <1>2, <1>3, FS_Subset
<1> QED
  BY <1>4, FS_CardinalityType DEF Durations

LEMMA DurationsGrow ==
  ASSUME NEW T \in SUBSET Runs, NEW S \in SUBSET T
  PROVE  Durations(S) <= Durations(T)
PROOF
<1>1. Charges(S) \in SUBSET Charges(T)
  BY DEF Charges
<1> QED
  BY <1>1, ChargesFinite, FS_Subset DEF Durations

\* A receipt charges its duration.
LEMMA DurationOf ==
  ASSUME Typed, NEW r \in Receipted
  PROVE  /\ receipts[r].duration \in Nat
         /\ Durations({r}) = receipts[r].duration
PROOF
<1> DEFINE d == receipts[r].duration
           f == [t \in 0..d - 1 |-> <<r, t>>]
<1>1. r \in Runs /\ d \in Ticks /\ d \in Nat
  BY Values DEF Typed, Receipted, Receipts
<1>2. IsFiniteSet(0..d - 1) /\ Cardinality(0..d - 1) = d
  <2>1. d - 1 \in Int /\ (0 > d - 1 => d = 0) /\ (d - 1) - 0 + 1 = d
    BY <1>1
  <2>2. /\ IsFiniteSet(0..d - 1)
        /\ Cardinality(0..d - 1) = IF 0 > d - 1 THEN 0 ELSE (d - 1) - 0 + 1
    BY <2>1, FS_Interval
  <2> QED
    BY <2>1, <2>2
<1>3. Charges({r}) = {<<r, t>> : t \in 0..d - 1}
  BY <1>1, Values DEF Charges
<1>4. f \in Bijection(0..d - 1, Charges({r}))
  BY <1>3 DEF Bijection, Injection, Surjection, IsInjective
<1>5. Cardinality(Charges({r})) = d
  BY <1>2, <1>4, FS_Bijection DEF ExistsBijection
<1> QED
  BY <1>1, <1>5 DEF Durations

LEMMA DurationsAdd ==
  ASSUME Typed, NEW r \in Receipted, NEW S \in SUBSET Runs, r \notin S
  PROVE  Durations(S \cup {r}) = Durations(S) + receipts[r].duration
PROOF
<1>1. {r} \in SUBSET Runs
  BY DEF Receipted
<1>2. Charges(S \cup {r}) = Charges(S) \cup Charges({r})
  BY DEF Charges
<1>3. Charges(S) \cap Charges({r}) = {}
  BY DEF Charges
<1>4. /\ IsFiniteSet(Charges(S)) /\ IsFiniteSet(Charges({r}))
      /\ Cardinality(Charges(S)) \in Nat /\ Cardinality(Charges({r})) \in Nat
  BY <1>1, ChargesFinite DEF Durations
<1>5. Cardinality(Charges(S) \cup Charges({r})) =
        Cardinality(Charges(S)) + Cardinality(Charges({r})) - Cardinality({})
  BY <1>3, <1>4, FS_Union
<1>6. Cardinality(Charges(S) \cup Charges({r})) = Durations(S) + Durations({r})
  BY <1>4, <1>5, FS_EmptySet DEF Durations
<1> QED
  BY <1>2, <1>6, DurationOf DEF Durations

\* What the receipts have charged stays, whatever else a step does.
LEMMA PaidKept ==
  ASSUME Charged' = Charged, \A r \in Charged : receipts'[r] = receipts[r]
  PROVE  Durations(Charged)' = Durations(Charged)
PROOF
<1>1. Charges(Charged)' = Charges(Charged)
  BY DEF Charges
<1> QED
  BY <1>1 DEF Durations

\* A step on a run, or of its publication, pays for no other.
LEMMA RunsOn ==
  ASSUME Inv, pc \notin {"off", "loop"}, pc' # "loop", UNCHANGED inv,
         \A r \in Runs \ {Current} : receipts'[r] = receipts[r]
  PROVE  Charged' = Charged /\ Durations(Charged)' = Durations(Charged)
PROOF
<1>1. Current' = Current /\ Current \in Runs
  BY DEF Inv, LoopHeld, Current
<1>2. Receipted' \ {Current} = Receipted \ {Current}
  BY DEF Receipted
<1>3. Charged' = Charged /\ \A r \in Charged : receipts'[r] = receipts[r]
  BY <1>1, <1>2 DEF Charged, Receipted
<1> QED
  BY <1>3, PaidKept

LEMMA RunsOnBudget ==
  ASSUME Inv, Budgeted, pc \notin {"off", "loop"}, pc' # "loop", UNCHANGED inv,
         \A r \in Runs \ {Current} : receipts'[r] = receipts[r],
         pc' # "working", PubCharged'
  PROVE  Budgeted'
PROOF
BY RunsOn DEF Budgeted, BudgetHeld, BudgetFits

LEMMA EndBudget ==
  ASSUME NEW reason, NEW attempted, NEW completed, NEW unstarted,
         End(reason, attempted, completed, unstarted)
  PROVE  Budgeted'
PROOF
<1>1. inv'.left = 0 /\ inv'.spent = 0 /\ pub' = NoPub /\ pc' = "off"
  BY DEF End, NewInvocation
<1> QED
  BY <1>1, Values DEF Budgeted, PubCharged, BudgetHeld, BudgetFits

LEMMA InvokeBudget == Inv /\ Budgeted /\ Invoke => Budgeted'
PROOF
<1> SUFFICES ASSUME Inv, Budgeted, Invoke
             PROVE  Budgeted'
  OBVIOUS
<1> DEFINE budget == IF Durations(Receipted) > StudyWall THEN -1
                     ELSE StudyWall - Durations(Receipted)
<1>1. Receipted \in SUBSET Runs /\ Durations(Receipted) \in Nat
  BY ChargesFinite DEF Receipted
<1>2. CASE \E reason, attempted, completed, unstarted :
             End(reason, attempted, completed, unstarted)
  BY <1>2, EndBudget
<1>3. CASE /\ pc = "off" /\ pc' = "loop" /\ UNCHANGED <<receipts, pub>>
           /\ inv' = [NewInvocation EXCEPT !.existing = Receipted, !.left = budget]
  <2>1. inv'.left = budget /\ inv'.spent = 0
    BY <1>3 DEF NewInvocation
  <2>2. Receipted' = Receipted
    BY <1>3 DEF Receipted
  <2>3. Charged' = Receipted /\ Durations(Charged)' = Durations(Receipted)
    BY <1>3, <2>2 DEF Charged, Durations, Charges
  <2>4. pub' = NoPub
    BY <1>3 DEF Inv, PubHeld
  <2> QED
    BY <1>1, <1>3, <2>1, <2>3, <2>4, Values DEF Budgeted, PubCharged, BudgetHeld, BudgetFits
<1> QED
  BY <1>2, <1>3 DEF Invoke, Begin, Raise, disk

LEMMA SkipBudget == Inv /\ Budgeted /\ Skip => Budgeted'
PROOF
<1> SUFFICES ASSUME Inv, Budgeted, Skip
             PROVE  Budgeted'
  OBVIOUS
<1>1. CASE Current \notin Runs
  BY <1>1, EndBudget DEF Skip
<1>2. CASE Current \in Runs
  <2>1. /\ pc = "loop" /\ inv' = [inv EXCEPT !.index = @ + 1]
        /\ UNCHANGED <<receipts, pc, pub>>
    BY <1>2 DEF Skip, disk
  <2>2. inv'.left = inv.left /\ inv'.spent = inv.spent
    BY <2>1 DEF Inv, Typed
  <2>3. Charged' = Charged
    BY <2>1 DEF Charged, Receipted
  <2>4. pub = NoPub
    BY <2>1 DEF Inv, PubHeld
  <2> QED
    BY <2>1, <2>2, <2>3, <2>4, PaidKept DEF Budgeted, PubCharged, BudgetHeld, BudgetFits
<1> QED
  BY <1>1, <1>2

LEMMA ConsiderBudget == Inv /\ Budgeted /\ Consider => Budgeted'
PROOF
<1> SUFFICES ASSUME Inv, Budgeted, Consider
             PROVE  Budgeted'
  OBVIOUS
<1>1. CASE \E reason, attempted, completed, unstarted :
             End(reason, attempted, completed, unstarted)
  BY <1>1, EndBudget
<1>2. CASE pc' = "ready" /\ inv' = [inv EXCEPT !.spent = 0] /\ UNCHANGED <<receipts, pub>>
  <2>1. inv'.left = inv.left /\ inv'.spent = 0
    BY <1>2, Values DEF Inv, Typed
  <2>2. pc = "loop" /\ pub = NoPub
    BY DEF Consider, Inv, PubHeld
  <2>3. Charged = Receipted /\ Charged' \in SUBSET Receipted
    BY <1>2, <2>2 DEF Charged, Receipted
  <2>4. Durations(Charged)' = Durations(Charged')
    BY <1>2 DEF Durations, Charges
  <2>5. Receipted \in SUBSET Runs /\ Charged' \in SUBSET Runs
    BY <2>3 DEF Receipted
  <2>6. /\ Durations(Charged)' <= Durations(Receipted)
        /\ Durations(Charged)' \in Nat /\ Durations(Receipted) \in Nat
    BY <2>3, <2>4, <2>5, DurationsGrow, ChargesFinite
  <2>7. inv.left \in Int
    BY Values DEF Budgeted
  <2>8. inv.left >= 0 => inv.left + Durations(Receipted) <= StudyWall
    BY <2>2, <2>3, <2>6, <2>7, Values DEF Budgeted, BudgetHeld
  <2> QED
    BY <1>2, <2>1, <2>2, <2>6, <2>7, <2>8, Values
       DEF Budgeted, PubCharged, BudgetHeld, BudgetFits
<1> QED
  BY <1>1, <1>2 DEF Consider, Raise, disk

LEMMA LaunchBudget == Inv /\ Budgeted /\ Launch => Budgeted'
PROOF
<1> SUFFICES ASSUME Inv, Budgeted, Launch
             PROVE  Budgeted'
  OBVIOUS
<1>1. CASE OutOfBudget
  BY <1>1, EndBudget DEF Launch
<1>2. CASE ~OutOfBudget
  <2>1. /\ pc = "ready" /\ pc' = "working" /\ UNCHANGED <<receipts, pub>>
        /\ inv' = [inv EXCEPT !.attempted = @ \cup {Current}]
    BY <1>2 DEF Launch, disk
  <2>2. /\ inv'.left = inv.left /\ inv'.spent = inv.spent /\ Current' = Current
        /\ inv.spent \in Nat /\ inv.left \in Int /\ pub = NoPub
    BY <2>1, Values DEF Inv, Typed, Budgeted, Current, PubHeld
  <2>3. Charged' = Charged /\ Charged = Receipted \ {Current} /\ Charged \in SUBSET Runs
    BY <2>1, <2>2 DEF Charged, Receipted
  <2>4. Durations(Charged)' = Durations(Charged) /\ Durations(Charged) \in Nat
    BY <2>1, <2>3, PaidKept, ChargesFinite
  <2>5. (Receipted \ {Current})' = Charged'
    BY <2>1 DEF Charged
  <2>6. Durations(Receipted \ {Current})' = Durations(Charged)'
    BY <2>5 DEF Durations, Charges
  <2>7. TaskWall \in Nat \ {0} /\ TaskWall <= inv.left
    BY <1>2, <2>2, StudyAssumption DEF OutOfBudget
  <2>8. inv.left + Durations(Charged) + inv.spent <= StudyWall
    BY <2>1, <2>2, <2>7 DEF Budgeted, BudgetHeld
  <2>9. Durations(Charged) + TaskWall <= StudyWall
    BY <2>2, <2>4, <2>7, <2>8, Values
  <2>10. PubCharged'
    BY <2>1, <2>2 DEF PubCharged
  <2>11. BudgetHeld'
    BY <2>1, <2>2, <2>4, <2>8 DEF BudgetHeld
  <2>12. BudgetFits'
    BY <2>4, <2>6, <2>9 DEF BudgetFits
  <2> QED
    BY <2>2, <2>10, <2>11, <2>12 DEF Budgeted
<1> QED
  BY <1>1, <1>2

\* The worker, and what becomes of its output.
LEMMA WorkerBudget == Inv /\ Budgeted /\ (WorkerEnds \/ Stage \/ Settle) => Budgeted'
PROOF
<1> SUFFICES ASSUME Inv, Budgeted, WorkerEnds \/ Stage \/ Settle
             PROVE  Budgeted'
  OBVIOUS
<1>1. /\ pc \in {"working", "ended", "staged"} /\ pc' \in {"ended", "staged", "publishing"}
      /\ UNCHANGED <<receipts, inv>>
  BY DEF WorkerEnds, Stage, Settle, disk
<1>2. \/ pub' = pub
      \/ \E kind, names : \E d \in 0..inv.spent : pub' = NewPub(kind, names, d)
  <2>1. CASE WorkerEnds
    BY <2>1 DEF WorkerEnds
  <2>2. CASE Stage
    BY <2>2 DEF Stage
  <2>3. CASE Settle
    <3>1. inv.spent \in 0..inv.spent
      BY Values DEF Inv, Typed
    <3>2. pub' = pub \/ \E kind : ParentReceipt(kind)
      BY <2>3 DEF Settle
    <3> QED
      BY <3>1, <3>2 DEF ParentReceipt
  <2> QED
    BY <2>1, <2>2, <2>3
<1>3. PubCharged'
  <2>1. CASE pub' = pub
    BY <1>1, <2>1 DEF Budgeted, PubCharged, Current
  <2>2. CASE \E kind, names : \E d \in 0..inv.spent : pub' = NewPub(kind, names, d)
    BY <1>1, <2>2, Values DEF PubCharged, NewPub, Inv, Typed
  <2> QED
    BY <1>2, <2>1, <2>2
<1> QED
  BY <1>1, <1>3, RunsOnBudget

\* A publication up to its receipt, and its failure.
LEMMA PublishBudget ==
  Inv /\ Budgeted /\ (LinkArtifact \/ WriteReceipt \/ StepFails) => Budgeted'
PROOF
<1> SUFFICES ASSUME Inv, Budgeted, LinkArtifact \/ WriteReceipt \/ StepFails
             PROVE  Budgeted'
  OBVIOUS
<1>1. /\ pc = "publishing" /\ pc' \in {"publishing", "rollback"} /\ UNCHANGED <<receipts, inv>>
      /\ pub \in Pubs
  BY Values DEF Inv, Typed, PubHeld, LinkArtifact, WriteReceipt, WriteReceiptOnce, StepFails,
                disk, Publishing
<1>2. \/ pub' = pub
      \/ pub'.duration = pub.duration /\ pub'.receipt = "temporary"
      \/ pub'.duration = pub.duration /\ pub'.receipt = pub.receipt
  BY <1>1 DEF LinkArtifact, WriteReceipt, WriteReceiptOnce, StepFails, Pubs
<1>3. PubCharged'
  BY <1>1, <1>2, Values DEF Budgeted, PubCharged, Current
<1> QED
  BY <1>1, <1>3, RunsOnBudget

LEMMA LinkReceiptBudget == Inv /\ Budgeted /\ LinkReceipt => Budgeted'
PROOF
<1> SUFFICES ASSUME Inv, Budgeted, LinkReceipt
             PROVE  Budgeted'
  OBVIOUS
<1>1. /\ pc = "publishing" /\ UNCHANGED <<pc, inv>> /\ pub \in Pubs
      /\ receipts' = [receipts EXCEPT ![Current] =
                        [kind |-> pub.kind, names |-> pub.names,
                         duration |-> pub.duration, worker |-> worker]]
      /\ pub' = [pub EXCEPT !.receipt = "linked"]
  BY Values DEF Inv, Typed, PubHeld, LinkReceipt, LinkReceiptIf, Publishing
<1>2. Current \in Runs /\ Current' = Current
  BY <1>1 DEF Inv, LoopHeld, Current
<1>3. receipts'[Current].duration = pub.duration /\ pub'.duration = pub.duration
  BY <1>1, <1>2 DEF Inv, Typed, Pubs
<1>4. \A r \in Runs \ {Current} : receipts'[r] = receipts[r]
  BY <1>1 DEF Inv, Typed
<1>5. PubCharged'
  BY <1>1, <1>2, <1>3, Values DEF Budgeted, PubCharged
<1> QED
  BY <1>1, <1>4, <1>5, RunsOnBudget

LEMMA FinishBudget == Inv /\ Budgeted /\ FinishPublication => Budgeted'
PROOF
<1> SUFFICES ASSUME Inv, Budgeted, FinishPublication
             PROVE  Budgeted'
  OBVIOUS
<1>1. CASE pub.kind \in Stops
  BY <1>1, EndBudget DEF FinishPublication, FinishCounting
<1>2. CASE pub.kind \notin Stops
  <2>1. /\ pc = "publishing" /\ pub.receipt = "linked" /\ pc' = "loop" /\ pub' = NoPub
        /\ UNCHANGED receipts
        /\ inv' = [inv EXCEPT !.completed = inv.completed \cup {Current}, !.index = @ + 1,
                              !.existing = IF pub.kind = "staged" THEN @ \cup {Current} ELSE @]
    BY <1>2 DEF FinishPublication, FinishCounting, disk
  <2>2. inv'.left = inv.left /\ inv.left \in Int /\ inv.spent \in Nat
    BY <2>1, Values DEF Inv, Typed, Budgeted
  <2>3. pub # NoPub /\ Current \in Receipted
    BY <2>1 DEF Inv, PubHeld, Publishing
  <2>4. receipts[Current].duration <= inv.spent
    BY <2>1, <2>3 DEF Budgeted, PubCharged
  <2>5. Charged' = Charged \cup {Current} /\ Charged \in SUBSET Runs /\ Current \notin Charged
    BY <2>1, <2>3 DEF Charged, Receipted
  <2>6. Durations(Charged)' = Durations(Charged \cup {Current})
    BY <2>1, <2>5 DEF Durations, Charges
  <2>7. /\ Durations(Charged)' = Durations(Charged) + receipts[Current].duration
        /\ Durations(Charged) \in Nat /\ receipts[Current].duration \in Nat
    BY <2>3, <2>5, <2>6, DurationsAdd, DurationOf, ChargesFinite DEF Inv
  <2>8. inv.left >= 0 => inv.left + Durations(Charged) + inv.spent <= StudyWall
    BY <2>1 DEF Budgeted, BudgetHeld
  <2>9. inv.left >= 0 => inv.left + Durations(Charged)' <= StudyWall
    BY <2>2, <2>4, <2>7, <2>8, Values
  <2>10. inv.left >= 0 => inv.left + Durations(Charged)' + 0 <= StudyWall
    BY <2>2, <2>7, <2>9, Values
  <2>11. BudgetHeld'
    BY <2>1, <2>2, <2>10 DEF BudgetHeld
  <2> QED
    BY <2>1, <2>2, <2>11 DEF Budgeted, PubCharged, BudgetFits
<1> QED
  BY <1>1, <1>2

LEMMA RollbackBudget ==
  Inv /\ Budgeted /\ (RollbackReceipt \/ RollbackArtifacts) => Budgeted'
PROOF
<1> SUFFICES ASSUME Inv, Budgeted, RollbackReceipt \/ RollbackArtifacts
             PROVE  Budgeted'
  OBVIOUS
<1>1. CASE \E reason, attempted, completed, unstarted :
             End(reason, attempted, completed, unstarted)
  BY <1>1, EndBudget
<1>2. CASE RollbackReceipt
  <2>1. /\ pc = "rollback" /\ pc' = "rollback_artifacts" /\ UNCHANGED inv /\ pub \in Pubs
        /\ pub' = [pub EXCEPT !.receipt = "absent"]
    BY <1>2, Values DEF Inv, Typed, PubHeld, RollbackReceipt, Publishing
  <2>2. \A r \in Runs \ {Current} : receipts'[r] = receipts[r]
    BY <1>2 DEF Inv, Typed, RollbackReceipt
  <2>3. pub'.duration = pub.duration /\ pub'.receipt = "absent"
    BY <2>1 DEF Pubs
  <2>4. PubCharged'
    BY <2>1, <2>3, Values DEF Budgeted, PubCharged
  <2> QED
    BY <2>1, <2>2, <2>4, RunsOnBudget
<1>3. CASE RollbackArtifacts /\ pub.kind = "staged"
  <2>1. /\ pc = "rollback_artifacts" /\ pc' = "publishing" /\ UNCHANGED <<receipts, inv>>
        /\ ParentReceipt("publication")
    BY <1>3 DEF RollbackArtifacts
  <2>2. pub'.duration = inv.spent /\ pub'.receipt = "absent"
    BY <2>1 DEF ParentReceipt, NewPub
  <2>3. PubCharged'
    BY <2>1, <2>2, Values DEF PubCharged, Inv, Typed
  <2> QED
    BY <2>1, <2>3, RunsOnBudget
<1> QED
  BY <1>1, <1>2, <1>3 DEF RollbackArtifacts, Raise

LEMMA ElapseBudget == Inv /\ Budgeted /\ Elapse => Budgeted'
PROOF
<1> SUFFICES ASSUME Inv, Budgeted, Elapse
             PROVE  Budgeted'
  OBVIOUS
<1>1. /\ pc # "off" /\ inv.left >= 0 /\ UNCHANGED <<receipts, pc, pub>>
      /\ inv' = [inv EXCEPT !.left = @ - 1,
                            !.spent = IF pc = "loop" THEN @ ELSE @ + 1]
  BY DEF Elapse, disk
<1>2. /\ inv'.left = inv.left - 1 /\ inv'.spent = IF pc = "loop" THEN inv.spent ELSE inv.spent + 1
      /\ inv.left \in 0..StudyWall /\ inv.spent \in Nat /\ Current' = Current
  BY <1>1, Values DEF Inv, Typed, Budgeted, Current
<1>3. Charged' = Charged /\ Charged \in SUBSET Runs
  BY <1>1, <1>2 DEF Charged, Receipted
<1>4. Durations(Charged)' = Durations(Charged) /\ Durations(Charged) \in Nat
  BY <1>1, <1>3, PaidKept, ChargesFinite
<1>5. inv'.left \in -1..StudyWall
  BY <1>2, Values
<1>6. PubCharged'
  <2>1. pub # NoPub => pub.duration \in Nat
    BY Values DEF Inv, Typed, Pubs
  <2> QED
    BY <1>1, <1>2, <2>1 DEF Budgeted, PubCharged
<1>7. BudgetHeld'
  <2>1. inv.left + Durations(Charged) + (IF pc = "loop" THEN 0 ELSE inv.spent) <= StudyWall
    BY <1>1 DEF Budgeted, BudgetHeld
  <2>2. inv'.left + Durations(Charged) + (IF pc = "loop" THEN 0 ELSE inv'.spent) <= StudyWall
    BY <1>2, <1>4, <2>1, Values
  <2> QED
    BY <1>1, <1>4, <2>2 DEF BudgetHeld
<1>8. BudgetFits'
  <2>1. (Receipted \ {Current})' = Receipted \ {Current}
    BY <1>1, <1>2 DEF Receipted
  <2>2. Durations(Receipted \ {Current})' = Durations(Receipted \ {Current})
    BY <1>1, <2>1 DEF Durations, Charges
  <2> QED
    BY <1>1, <2>2 DEF Budgeted, BudgetFits
<1> QED
  BY <1>5, <1>6, <1>7, <1>8 DEF Budgeted

LEMMA NextBudget == Inv /\ Budgeted /\ [StudyNext]_vars => Budgeted'
PROOF
<1> SUFFICES ASSUME Inv, Budgeted, [StudyNext]_vars
             PROVE  Budgeted'
  OBVIOUS
<1>1. CASE UNCHANGED vars
  <2>1. (Receipted \ {Current})' = Receipted \ {Current} /\ Charged' = Charged
    BY <1>1 DEF vars, Charged, Receipted, Current
  <2>2. /\ Durations(Receipted \ {Current})' = Durations(Receipted \ {Current})
        /\ Durations(Charged)' = Durations(Charged)
    BY <1>1, <2>1 DEF vars, Durations, Charges
  <2> QED
    BY <1>1, <2>2 DEF vars, Budgeted, PubCharged, BudgetHeld, BudgetFits, Current
<1>2. CASE Crash
  BY <1>2, EndBudget DEF Crash, Raise
<1>3. CASE StudyNext
  BY <1>2, <1>3, InvokeBudget, SkipBudget, ConsiderBudget, LaunchBudget, WorkerBudget,
     PublishBudget, LinkReceiptBudget, FinishBudget, RollbackBudget, ElapseBudget
     DEF StudyNext, Step
<1> QED
  BY <1>1, <1>3

\* Whenever a worker runs, what the receipts of all other runs recorded and the
\* worker's own limit fit study_wall_s, over any number of invocations, crashes
\* and roll-backs of repetition.py's execute_plan.
THEOREM StudyBudgetFits == StudySpec => []BudgetFits
PROOF
<1>1. StudyInit => Budgeted
  BY Values DEF StudyInit, NewInvocation, Budgeted, PubCharged, BudgetHeld, BudgetFits
<1>2. Inv /\ Budgeted /\ [StudyNext]_vars => Budgeted'
  BY NextBudget
<1>3. Budgeted => BudgetFits
  BY DEF Budgeted
<1> QED
  BY <1>1, <1>2, <1>3, StudyInvariant, PTL DEF StudySpec

\* The remaining types: the names in the directory, the report and the count of
\* invocations.
Recorded ==
  /\ artifacts \subseteq Runs \X ArtifactNames
  /\ litter \subseteq {"temporary", "unremoved"}
  /\ report.reason \in {"none"} \cup Returned \cup Raised
  /\ invocations \in 0..MaxInvocations

LEMMA NextRecorded == Inv /\ Recorded /\ [StudyNext]_vars => Recorded'
PROOF
<1> SUFFICES ASSUME Inv, Recorded, [StudyNext]_vars
             PROVE  Recorded'
  OBVIOUS
<1>1. artifacts' \subseteq Runs \X ArtifactNames
  <2>1. CASE LinkArtifact
    <3>1. pub \in Pubs /\ Current \in Runs
      BY <2>1, Values DEF LinkArtifact, Inv, Typed, PubHeld, LoopHeld, Publishing
    <3> QED
      BY <2>1, <3>1 DEF LinkArtifact, Recorded, Pubs
  <2>2. CASE artifacts' \subseteq artifacts
    BY <2>2 DEF Recorded
  <2> QED
    BY <2>1, <2>2
       DEF vars, StudyNext, Step, Invoke, Begin, Skip, Consider, Launch, WorkerEnds, Stage,
           Settle, WriteReceipt, WriteReceiptOnce, LinkReceipt, LinkReceiptIf,
           FinishPublication, FinishCounting, StepFails, RollbackReceipt, RollbackArtifacts,
           Elapse, Crash, disk
<1>2. litter' \subseteq {"temporary", "unremoved"}
  BY DEF Recorded, vars, StudyNext, Step, Invoke, Begin, Skip, Consider, Launch, WorkerEnds,
         Stage, Settle, Discard, LinkArtifact, WriteReceipt, WriteReceiptOnce, LinkReceipt,
         LinkReceiptIf, FinishPublication, FinishCounting, StepFails, RollbackReceipt,
         RollbackArtifacts, Elapse, Crash, disk
<1>3. report'.reason \in {"none"} \cup Returned \cup Raised
  <2>1. CASE UNCHANGED report
    BY <2>1 DEF Recorded
  <2>2. CASE \E reason \in Returned \cup Raised : \E attempted, completed, unstarted :
               End(reason, attempted, completed, unstarted)
    BY <2>2 DEF End
  <2> QED
    BY <2>1, <2>2
       DEF vars, StudyNext, Step, Invoke, Begin, Skip, Consider, Launch, WorkerEnds, Stage,
           Settle, LinkArtifact, WriteReceipt, WriteReceiptOnce, LinkReceipt, LinkReceiptIf,
           FinishPublication, FinishCounting, StepFails, RollbackReceipt, RollbackArtifacts,
           Elapse, Crash, Raise, Returned, Raised, Stops
<1>4. invocations' \in 0..MaxInvocations
  <2>1. CASE Invoke
    BY <2>1, StudyAssumption DEF Invoke, Begin, Recorded
  <2>2. CASE UNCHANGED invocations
    BY <2>2 DEF Recorded
  <2> QED
    BY <2>1, <2>2
       DEF vars, StudyNext, Step, Skip, Consider, Launch, WorkerEnds, Stage,
           Settle, LinkArtifact, WriteReceipt, WriteReceiptOnce, LinkReceipt, LinkReceiptIf,
           FinishPublication, FinishCounting, StepFails, RollbackReceipt, RollbackArtifacts,
           Elapse, Crash
<1> QED
  BY <1>1, <1>2, <1>3, <1>4 DEF Recorded

\* Every variable of the repetition runner keeps its type; the index never runs
\* past the plan's end, nor the clock past one tick after the deadline.
THEOREM StudyTypes == StudySpec => []StudyTypeOK
PROOF
<1>1. StudyInit => Budgeted /\ Recorded
  BY Values, StudyAssumption
     DEF StudyInit, NewInvocation, Budgeted, PubCharged, BudgetHeld, BudgetFits, Recorded
<1>2. Inv /\ Budgeted /\ Recorded /\ [StudyNext]_vars => Budgeted' /\ Recorded'
  BY NextBudget, NextRecorded
<1>3. Inv /\ Budgeted /\ Recorded => StudyTypeOK
  BY DEF Inv, Typed, Budgeted, Recorded, StudyTypeOK
<1> QED
  BY <1>1, <1>2, <1>3, StudyInvariant, PTL DEF StudySpec
=============================================================================

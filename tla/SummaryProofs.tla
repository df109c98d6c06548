---------------------------- MODULE SummaryProofs ----------------------------
(* The two files of the summary go out together or not at all, and count    *)
(* every run once, for any cells, receipts, repetitions and attempts.       *)
EXTENDS Summary, Integers, FiniteSetTheorems, TLAPS

\* Nothing was done to f yet, or all of it was undone.
Untouched(f) == target[f] = prior[f] /\ backup[f] = Absent

Unmoved(f) == listed[f] = "unlisted" /\ Untouched(f)

\* f is out of the way: its backup, if it was there, holds what it was.
Moved(f) ==
  /\ target[f] \in {Absent, attempt}
  /\ \/ listed[f] = "without" /\ prior[f] = Absent /\ backup[f] = Absent
     \/ listed[f] = "with" /\ prior[f] # Absent /\ backup[f] = prior[f]

\* The backup of the csv is gone, that of the md is not.
CsvDropped == /\ listed["csv"] = "with" /\ backup["csv"] = Absent
              /\ target["csv"] \in {Absent, attempt}
              /\ Moved("md")

BothNew == target["csv"] = attempt /\ target["md"] = attempt

\* How far a publication or its roll-back has come.
Progress ==
  /\ pc # "idle" => attempt \in Summaries
  /\ pc = "render" => target = prior /\ listed = Unlisted
  /\ pc = "move_csv" => Unmoved("csv") /\ Unmoved("md")
  /\ pc = "move_md" => Moved("csv") /\ target["csv"] = Absent /\ Unmoved("md")
  /\ pc = "replace_csv" =>
       Moved("csv") /\ Moved("md") /\ target["csv"] = Absent /\ target["md"] = Absent
  /\ pc = "replace_md" => Moved("csv") /\ Moved("md") /\ target["csv"] = attempt /\ target["md"] = Absent
  /\ pc = "check" => Moved("csv") /\ Moved("md")
  /\ pc = "drop_csv" => Moved("csv") /\ Moved("md") /\ BothNew
  /\ pc = "drop_md" => Moved("md") /\ BothNew /\ (CsvDropped \/ (Moved("csv") /\ listed["csv"] = "without"))
  /\ pc = "unlink_csv" =>
       \/ Unmoved("csv") /\ Unmoved("md")
       \/ Moved("csv") /\ (Unmoved("md") \/ Moved("md"))
       \/ CsvDropped
  /\ pc = "restore_csv" =>
       \/ Unmoved("csv") /\ Unmoved("md")
       \/ target["csv"] = Absent /\ Moved("csv") /\ (Unmoved("md") \/ Moved("md"))
       \/ target["csv"] = Absent /\ CsvDropped
  /\ pc = "unlink_md" => Untouched("csv") /\ (Unmoved("md") \/ Moved("md"))
  /\ pc = "restore_md" =>
       Untouched("csv") /\ (Unmoved("md") \/ (target["md"] = Absent /\ Moved("md")))

\* The accepted pair is where an attempt found it, or for the next one to find.
AcceptedKept ==
  accepted # 0 =>
    /\ pc \in {"idle", "render"} /\ ~Interrupted =>
         target["csv"] = accepted /\ target["md"] = accepted
    /\ pc \notin {"idle", "render"} => prior["csv"] = accepted /\ prior["md"] = accepted

\* The inductive invariant.
Inv == TypeOK /\ Progress /\ AcceptedKept /\ FailureRestores

-----------------------------------------------------------------------------

LEMMA Values ==
  /\ Absent \notin Summaries /\ Absent # 0 /\ Absent # Irregular
  /\ Irregular \notin 0..MaxAttempts /\ Absent \notin 0..MaxAttempts
  /\ Summaries \subseteq 0..MaxAttempts /\ 0 \notin Summaries
  /\ MaxAttempts \in Nat
PROOF
  BY SummaryAssumption DEF Summaries

LEMMA InitInv == Init => Inv
PROOF
<1> SUFFICES ASSUME Init
             PROVE  Inv
  OBVIOUS
<1>1. TypeOK
  BY Values DEF Init, TypeOK, None, Unlisted
<1> QED
  BY <1>1 DEF Init, Inv, Progress, AcceptedKept, FailureRestores

LEMMA AggregateInv == Inv /\ Aggregate => Inv'
PROOF
<1> SUFFICES ASSUME Inv, Aggregate
             PROVE  Inv'
  OBVIOUS
<1>1. /\ pc = "idle" /\ attempt < MaxAttempts /\ attempt' = attempt + 1 /\ prior' = target
      /\ listed' = Unlisted /\ UNCHANGED <<target, backup, accepted>>
      /\ \/ pc' = "render" /\ result' = result /\ receipts' \in [Runs -> Kinds]
         \/ pc' = "idle" /\ result' = "refused" /\ receipts' = receipts
  BY DEF Aggregate, At, Proceed, End
<1>2. TypeOK'
  BY <1>1, Values DEF Inv, TypeOK, Unlisted
<1>3. Progress'
  BY <1>1, Values DEF Inv, TypeOK, Progress, Summaries
<1>4. AcceptedKept' /\ FailureRestores'
  BY <1>1 DEF Inv, AcceptedKept, FailureRestores, Interrupted, At
<1> QED
  BY <1>2, <1>3, <1>4 DEF Inv

LEMMA RenderInv == Inv /\ Render => Inv'
PROOF
<1> SUFFICES ASSUME Inv, Render
             PROVE  Inv'
  OBVIOUS
<1>1. /\ pc = "render" /\ receipts' = <<>>
      /\ UNCHANGED <<attempt, target, backup, listed, prior, accepted>>
      /\ \/ Interrupted /\ pc' = "idle" /\ result' = "refused"
         \/ ~Interrupted /\ pc' = "move_csv" /\ result' = result
  BY DEF Render, At, Proceed, End
<1>2. TypeOK'
  BY <1>1 DEF Inv, TypeOK
<1>3. Progress'
  BY <1>1, Values DEF Inv, TypeOK, Progress, Unmoved, Untouched, Interrupted, Unlisted, Files
<1>4. AcceptedKept' /\ FailureRestores'
  BY <1>1 DEF Inv, Progress, AcceptedKept, FailureRestores, Interrupted, At
<1> QED
  BY <1>2, <1>3, <1>4 DEF Inv

\* However a publication stops, its backups tell of it or the accepted pair is
\* in place.
LEMMA StoppedKept ==
  ASSUME Inv, pc # "idle", accepted # 0, ~Interrupted
  PROVE  target["csv"] = accepted /\ target["md"] = accepted
PROOF
<1>1. CASE pc = "render"
  BY <1>1 DEF Inv, AcceptedKept
<1>2. CASE pc # "render"
  <2>1. /\ prior["csv"] = accepted /\ prior["md"] = accepted
        /\ backup["csv"] = Absent /\ backup["md"] = Absent
    BY <1>2 DEF Inv, AcceptedKept, Interrupted, Files
  <2>2. accepted # Absent
    BY Values DEF Inv, TypeOK
  <2>3. ~Moved("csv") /\ ~Moved("md") /\ ~CsvDropped
    BY <2>1, <2>2 DEF Moved, CsvDropped
  <2>4. Untouched("csv") /\ Untouched("md")
    BY <1>2, <2>3 DEF Inv, TypeOK, Progress, Unmoved
  <2> QED
    BY <2>1, <2>4 DEF Untouched
<1> QED
  BY <1>1, <1>2

\* A step between two stages of one publication.
LEMMA InnerStep ==
  ASSUME Inv, pc \notin {"idle", "render"}, pc' \notin {"idle", "render"},
         TypeOK', Progress', UNCHANGED <<prior, accepted>>
  PROVE  Inv'
PROOF
  BY DEF Inv, AcceptedKept, FailureRestores, At

LEMMA StopStep ==
  ASSUME Inv, pc # "idle", pc' = "idle", result' \in {"unrestored", "crashed"},
         receipts' \in {receipts, <<>>},
         UNCHANGED <<attempt, target, backup, listed, prior, accepted>>
  PROVE  Inv'
PROOF
<1>1. TypeOK' /\ Progress' /\ FailureRestores'
  BY DEF Inv, TypeOK, Progress, FailureRestores
<1>2. AcceptedKept'
  BY StoppedKept DEF Inv, AcceptedKept, Interrupted
<1> QED
  BY <1>1, <1>2 DEF Inv

LEMMA MoveCsvInv == Inv /\ At("move_csv") /\ MoveToBackup("csv", "move_md") => Inv'
PROOF
<1> SUFFICES ASSUME Inv, pc = "move_csv", MoveToBackup("csv", "move_md")
             PROVE  Inv'
  BY DEF At
<1>1. UNCHANGED <<attempt, receipts, prior, accepted, result>> /\ pc' \in {"move_md", "unlink_csv"}
  BY DEF MoveToBackup, Proceed, Fail
<1>2. TypeOK'
  BY <1>1, Values DEF Inv, TypeOK, MoveToBackup, Proceed, Fail, Contents, Files
<1>3. Progress'
  <2>1. attempt \in Summaries /\ Unmoved("csv") /\ Unmoved("md")
    BY DEF Inv, Progress
  <2> QED
    BY <1>1, <2>1, Values
    DEF Inv, TypeOK, Progress, MoveToBackup, Proceed, Fail, Unmoved, Untouched, Moved, Contents, Files
<1> QED
  BY <1>1, <1>2, <1>3, InnerStep

LEMMA MoveMdInv == Inv /\ At("move_md") /\ MoveToBackup("md", "replace_csv") => Inv'
PROOF
<1> SUFFICES ASSUME Inv, pc = "move_md", MoveToBackup("md", "replace_csv")
             PROVE  Inv'
  BY DEF At
<1>1. UNCHANGED <<attempt, receipts, prior, accepted, result>> /\ pc' \in {"replace_csv", "unlink_csv"}
  BY DEF MoveToBackup, Proceed, Fail
<1>2. TypeOK'
  BY <1>1, Values DEF Inv, TypeOK, MoveToBackup, Proceed, Fail, Contents, Files
<1>3. Progress'
  <2>1. attempt \in Summaries /\ Moved("csv") /\ target["csv"] = Absent /\ Unmoved("md")
    BY DEF Inv, Progress
  <2> QED
    BY <1>1, <2>1, Values
    DEF Inv, TypeOK, Progress, MoveToBackup, Proceed, Fail, Unmoved, Untouched, Moved, Contents, Files
<1> QED
  BY <1>1, <1>2, <1>3, InnerStep

LEMMA ReplaceInv ==
  Inv /\ (\/ At("replace_csv") /\ Replace("csv", "replace_md")
          \/ At("replace_md") /\ Replace("md", "check")) => Inv'
PROOF
<1>1. ASSUME Inv, pc = "replace_csv", Replace("csv", "replace_md")
      PROVE  Inv'
  <2>1. /\ UNCHANGED <<attempt, receipts, backup, listed, prior, accepted, result>>
        /\ \/ target' = [target EXCEPT !["csv"] = attempt] /\ pc' \in {"replace_md", "unlink_csv"}
           \/ target' = target /\ pc' = "unlink_csv"
    BY <1>1 DEF Replace, Proceed, Fail
  <2>2. TypeOK'
    BY <1>1, <2>1, Values DEF Inv, TypeOK, Files
  <2>3. attempt \in Summaries /\ Moved("csv") /\ Moved("md") /\ target["md"] = Absent
    BY <1>1 DEF Inv, Progress
  <2>4. Progress'
    BY <1>1, <2>1, <2>3 DEF Inv, TypeOK, Progress, Moved, Files
  <2> QED
    BY <1>1, <2>1, <2>2, <2>4, InnerStep
<1>2. ASSUME Inv, pc = "replace_md", Replace("md", "check")
      PROVE  Inv'
  <2>1. /\ UNCHANGED <<attempt, receipts, backup, listed, prior, accepted, result>>
        /\ \/ target' = [target EXCEPT !["md"] = attempt] /\ pc' \in {"check", "unlink_csv"}
           \/ target' = target /\ pc' = "unlink_csv"
    BY <1>2 DEF Replace, Proceed, Fail
  <2>2. TypeOK'
    BY <1>2, <2>1, Values DEF Inv, TypeOK, Files
  <2>3. attempt \in Summaries /\ Moved("csv") /\ Moved("md")
    BY <1>2 DEF Inv, Progress
  <2>4. Progress'
    BY <1>2, <2>1, <2>3 DEF Inv, TypeOK, Progress, Moved, Files
  <2> QED
    BY <1>2, <2>1, <2>2, <2>4, InnerStep
<1> QED
  BY <1>1, <1>2 DEF At

LEMMA CheckPairInv == Inv /\ CheckPair => Inv'
PROOF
<1> SUFFICES ASSUME Inv, CheckPair
             PROVE  Inv'
  OBVIOUS
<1>1. /\ pc = "check"
      /\ UNCHANGED <<attempt, receipts, target, backup, listed, prior, accepted, result>>
      /\ \/ accepted_pair_sha256 = attempt /\ pc' = "drop_csv"
         \/ pc' = "unlink_csv"
  BY DEF CheckPair, At, Proceed, Fail
<1>2. TypeOK'
  BY <1>1 DEF Inv, TypeOK
<1>3. attempt \in Summaries /\ Moved("csv") /\ Moved("md")
  BY <1>1 DEF Inv, Progress
<1>4. accepted_pair_sha256 = attempt => BothNew
  BY <1>3, Values DEF accepted_pair_sha256, BothNew
<1>5. Progress'
  BY <1>1, <1>3, <1>4 DEF Progress, Moved, BothNew
<1> QED
  BY <1>1, <1>2, <1>5, InnerStep

LEMMA DropCsvInv == Inv /\ DropCsv => Inv'
PROOF
<1> SUFFICES ASSUME Inv, DropCsv
             PROVE  Inv'
  OBVIOUS
<1>1. /\ pc = "drop_csv"
      /\ UNCHANGED <<attempt, receipts, target, listed, prior, accepted, result>>
      /\ \/ backup' = [backup EXCEPT !["csv"] = Absent] /\ pc' = "drop_md"
         \/ backup' = backup /\ pc' = "unlink_csv"
  BY DEF DropCsv, At, Proceed, Fail
<1>2. TypeOK'
  BY <1>1, Values DEF Inv, TypeOK, Files
<1>3. attempt \in Summaries /\ Moved("csv") /\ Moved("md") /\ BothNew
  BY <1>1 DEF Inv, Progress
<1>4. Progress'
  BY <1>1, <1>3 DEF Inv, TypeOK, Progress, Moved, BothNew, CsvDropped, Files
<1> QED
  BY <1>1, <1>2, <1>4, InnerStep

LEMMA DropMdInv == Inv /\ DropMd => Inv'
PROOF
<1> SUFFICES ASSUME Inv, DropMd
             PROVE  Inv'
  OBVIOUS
<1>1. /\ pc = "drop_md" /\ UNCHANGED <<attempt, receipts, target, listed, prior>>
      /\ \/ /\ backup' = [backup EXCEPT !["md"] = Absent] /\ accepted' = attempt
            /\ pc' = "idle" /\ result' = "published"
         \/ listed["md"] = "with" /\ pc' = "unlink_csv" /\ UNCHANGED <<backup, accepted, result>>
  BY DEF DropMd, At, Proceed, Fail, End
<1>2. TypeOK'
  BY <1>1, Values DEF Inv, TypeOK, Files
<1>3. /\ attempt \in Summaries /\ Moved("md") /\ BothNew
      /\ CsvDropped \/ Moved("csv")
  BY <1>1 DEF Inv, Progress
<1>4. Progress'
  BY <1>1, <1>3 DEF Inv, TypeOK, Progress, Moved, BothNew, CsvDropped, Files
<1>5. CASE accepted' = attempt /\ pc' = "idle"
  BY <1>1, <1>2, <1>3, <1>4, <1>5 DEF Inv, AcceptedKept, FailureRestores, BothNew, At
<1>6. CASE pc' = "unlink_csv"
  BY <1>1, <1>2, <1>4, <1>6, InnerStep
<1> QED
  BY <1>1, <1>5, <1>6

LEMMA UnlinkInv ==
  Inv /\ (\/ At("unlink_csv") /\ Unlink("csv", "restore_csv")
          \/ At("unlink_md") /\ Unlink("md", "restore_md")) => Inv'
PROOF
<1>1. ASSUME Inv, NEW f \in Files, NEW next \in {"restore_csv", "restore_md"},
             pc \in {"unlink_csv", "unlink_md"}, Unlink(f, next), pc' = "idle"
      PROVE  Inv'
  BY <1>1, StopStep DEF Unlink, Proceed, End
<1>2. ASSUME Inv, pc = "unlink_csv", Unlink("csv", "restore_csv"), pc' # "idle"
      PROVE  Inv'
  <2>1. /\ UNCHANGED <<attempt, receipts, backup, listed, prior, accepted, result>>
        /\ pc' = "restore_csv"
        /\ target' = IF listed["csv"] = "unlisted" THEN target
                     ELSE [target EXCEPT !["csv"] = Absent]
    BY <1>2 DEF Unlink, Proceed, End
  <2>2. TypeOK'
    BY <1>2, <2>1 DEF Inv, TypeOK, Files
  <2>3. /\ attempt \in Summaries
        /\ \/ Unmoved("csv") /\ Unmoved("md")
           \/ Moved("csv") /\ (Unmoved("md") \/ Moved("md"))
           \/ CsvDropped
    BY <1>2 DEF Inv, Progress
  <2>4. Progress'
    BY <1>2, <2>1, <2>3 DEF Inv, TypeOK, Progress, Unmoved, Untouched, Moved, CsvDropped, Files
  <2> QED
    BY <1>2, <2>1, <2>2, <2>4, InnerStep
<1>3. ASSUME Inv, pc = "unlink_md", Unlink("md", "restore_md"), pc' # "idle"
      PROVE  Inv'
  <2>1. /\ UNCHANGED <<attempt, receipts, backup, listed, prior, accepted, result>>
        /\ pc' = "restore_md"
        /\ target' = IF listed["md"] = "unlisted" THEN target
                     ELSE [target EXCEPT !["md"] = Absent]
    BY <1>3 DEF Unlink, Proceed, End
  <2>2. TypeOK'
    BY <1>3, <2>1 DEF Inv, TypeOK, Files
  <2>3. attempt \in Summaries /\ Untouched("csv") /\ (Unmoved("md") \/ Moved("md"))
    BY <1>3 DEF Inv, Progress
  <2>4. Progress'
    BY <1>3, <2>1, <2>3 DEF Inv, TypeOK, Progress, Unmoved, Untouched, Moved, Files
  <2> QED
    BY <1>3, <2>1, <2>2, <2>4, InnerStep
<1> QED
  BY <1>1, <1>2, <1>3 DEF At, Files

LEMMA RestoreInv ==
  Inv /\ (\/ At("restore_csv") /\ Restore("csv", Proceed("unlink_md"))
          \/ At("restore_md") /\ Restore("md", End("failed"))) => Inv'
PROOF
<1>1. ASSUME Inv, pc = "restore_csv", Restore("csv", Proceed("unlink_md"))
      PROVE  Inv'
  <2>1. /\ attempt \in Summaries
        /\ \/ Unmoved("csv") /\ Unmoved("md")
           \/ target["csv"] = Absent /\ Moved("csv") /\ (Unmoved("md") \/ Moved("md"))
           \/ target["csv"] = Absent /\ CsvDropped
    BY <1>1 DEF Inv, Progress
  <2>2. CASE pc' = "idle"
    BY <1>1, <2>2, StopStep DEF Restore, Proceed, End
  <2>3. CASE pc' # "idle"
    <3>1. /\ UNCHANGED <<attempt, receipts, listed, prior, accepted, result>>
          /\ pc' = "unlink_md"
          /\ \/ /\ listed["csv"] = "with" /\ backup["csv"] # Absent
                /\ target' = [target EXCEPT !["csv"] = backup["csv"]]
                /\ backup' = [backup EXCEPT !["csv"] = Absent]
             \/ listed["csv"] # "with" /\ UNCHANGED <<target, backup>>
      BY <1>1, <2>3 DEF Restore, Proceed, End
    <3>2. TypeOK'
      BY <1>1, <3>1 DEF Inv, TypeOK, Files
    <3>3. Progress'
      BY <1>1, <2>1, <3>1 DEF Inv, TypeOK, Progress, Unmoved, Untouched, Moved, CsvDropped, Files
    <3> QED
      BY <1>1, <3>1, <3>2, <3>3, InnerStep
  <2> QED
    BY <2>2, <2>3
<1>2. ASSUME Inv, pc = "restore_md", Restore("md", End("failed"))
      PROVE  Inv'
  <2>1. /\ attempt \in Summaries /\ Untouched("csv")
        /\ Unmoved("md") \/ (target["md"] = Absent /\ Moved("md"))
    BY <1>2 DEF Inv, Progress
  <2>2. CASE result' = "unrestored"
    BY <1>2, <2>2, StopStep DEF Restore, End
  <2>3. CASE result' # "unrestored"
    <3>1. /\ UNCHANGED <<attempt, receipts, listed, prior, accepted>>
          /\ pc' = "idle" /\ result' = "failed"
          /\ \/ /\ listed["md"] = "with" /\ backup["md"] # Absent
                /\ target' = [target EXCEPT !["md"] = backup["md"]]
                /\ backup' = [backup EXCEPT !["md"] = Absent]
             \/ listed["md"] # "with" /\ UNCHANGED <<target, backup>>
      BY <1>2, <2>3 DEF Restore, End
    <3>2. TypeOK'
      BY <1>2, <3>1 DEF Inv, TypeOK, Files
    <3>3. \A f \in Files : target'[f] = prior[f] /\ backup'[f] = Absent
      BY <1>2, <2>1, <3>1 DEF Inv, TypeOK, Unmoved, Untouched, Moved, Files
    <3>4. target' = prior /\ backup' = None
      BY <3>2, <3>3, <3>1 DEF TypeOK, None
    <3>5. accepted # 0 => prior["csv"] = accepted /\ prior["md"] = accepted
      BY <1>2 DEF Inv, AcceptedKept
    <3> QED
      BY <3>1, <3>2, <3>4, <3>5 DEF Inv, Progress, AcceptedKept, FailureRestores
  <2> QED
    BY <2>2, <2>3
<1> QED
  BY <1>1, <1>2 DEF At

LEMMA CrashInv == Inv /\ Crash => Inv'
PROOF
  BY StopStep DEF Crash, At, End

LEMMA RecoverInv == Inv /\ Recover => Inv'
PROOF
<1> SUFFICES ASSUME Inv, Recover
             PROVE  Inv'
  OBVIOUS
<1>1. /\ pc = "idle" /\ pc' = "idle" /\ backup' = None /\ prior' = target' /\ result' = "none"
      /\ UNCHANGED <<attempt, receipts, listed>>
      /\ accepted' = IF target'["csv"] = target'["md"] /\ target'["csv"] \in Summaries
                     THEN target'["csv"] ELSE 0
  BY DEF Recover, At
<1>2. target' \in [Files -> {Absent, Irregular} \cup 0..MaxAttempts]
  <2>1. PICK kept \in SUBSET Files :
          target' = [f \in Files |-> IF f \in kept /\ backup[f] # Absent
                                     THEN backup[f] ELSE target[f]]
    BY DEF Recover
  <2>2. \A f \in Files : /\ backup[f] \in {Absent} \cup 0..MaxAttempts
                         /\ target[f] \in {Absent, Irregular} \cup 0..MaxAttempts
    BY DEF Inv, TypeOK
  <2> QED
    BY <2>1, <2>2
<1>3. accepted' \in 0..MaxAttempts
  <2>1. accepted' \in Summaries \cup {0} /\ 0 \in 0..MaxAttempts
    BY <1>1, SummaryAssumption
  <2> QED
    BY <2>1, Values
<1>4. TypeOK'
  BY <1>1, <1>2, <1>3 DEF Inv, TypeOK, None
<1>5. Progress' /\ AcceptedKept' /\ FailureRestores'
  BY <1>1, Values DEF Progress, AcceptedKept, FailureRestores
<1> QED
  BY <1>4, <1>5 DEF Inv

LEMMA NextInv == Inv /\ [Next]_vars => Inv'
PROOF
<1> SUFFICES ASSUME Inv, [Next]_vars
             PROVE  Inv'
  OBVIOUS
<1>1. CASE UNCHANGED vars
  <2>1. TypeOK' /\ Progress'
    BY <1>1 DEF vars, Inv, TypeOK, Progress, Unmoved, Untouched, Moved, CsvDropped, BothNew
  <2>2. AcceptedKept' /\ FailureRestores'
    BY <1>1 DEF vars, Inv, AcceptedKept, FailureRestores, Interrupted, At
  <2> QED
    BY <2>1, <2>2 DEF Inv
<1>2. CASE RollBack
  BY <1>2, UnlinkInv, RestoreInv DEF RollBack
<1>3. CASE Next /\ ~RollBack
  BY <1>1, <1>3, AggregateInv, RenderInv, MoveCsvInv, MoveMdInv, ReplaceInv, CheckPairInv,
     DropCsvInv, DropMdInv, CrashInv, RecoverInv
  DEF Next, Over
<1> QED
  BY <1>1, <1>2, <1>3

\* Every state of a publication and of its roll-back is one the files tell.
THEOREM SummaryInvariant == Spec => []Inv
PROOF
  BY InitInv, NextInv, PTL DEF Spec

\* Every variable keeps its type: a directory or a link is never moved, and a
\* file is always some attempt's.
THEOREM SummaryTypeOK == Spec => []TypeOK
PROOF
<1>1. Inv => TypeOK
  BY DEF Inv
<1> QED
  BY <1>1, SummaryInvariant, PTL

\* A failed publication whose roll-back did not fail leaves both files, and the
\* absence of backups, as it found them.
THEOREM SummaryFailureRestores == Spec => []FailureRestores
PROOF
<1>1. Inv => FailureRestores
  BY DEF Inv
<1> QED
  BY <1>1, SummaryInvariant, PTL

\* A published summary is never lost in silence.
THEOREM SummaryNoSilentLoss == Spec => []NoSilentLoss
PROOF
<1>1. Inv => NoSilentLoss
  BY DEF Inv, TypeOK, AcceptedKept, NoSilentLoss, At, accepted_pair_sha256, Summaries
<1> QED
  BY <1>1, SummaryInvariant, PTL

\* No step of a publication, of its roll-back or of a crash removes the only copy
\* of an earlier file before the new pair is in place.
THEOREM SummaryLastCopyHeld == Spec => LastCopyHeld
PROOF
<1> DEFINE Held == ~(At("idle") /\ Interrupted) =>
                     \A f \in Files : \A c \in Copies(f) \ {Absent, attempt} :
                        c \in Copies(f)' \/ accepted_pair_sha256 = attempt
<1>1. Inv /\ [Next]_vars => [Held]_vars
  <2> SUFFICES ASSUME Inv, Next, ~(At("idle") /\ Interrupted), NEW f \in Files,
                      NEW c \in {target[f], backup[f]}, c # Absent, c # attempt
               PROVE  c \in {target'[f], backup'[f]} \/ accepted_pair_sha256 = attempt
    BY DEF Copies
  <2> USE DEF Files
  <2>1. CASE UNCHANGED <<target, backup>>
    BY <2>1
  <2>2. CASE At("move_csv") /\ MoveToBackup("csv", "move_md")
    BY <2>2 DEF Inv, TypeOK, Progress, At, MoveToBackup, Unmoved, Untouched
  <2>3. CASE At("move_md") /\ MoveToBackup("md", "replace_csv")
    BY <2>3 DEF Inv, TypeOK, Progress, At, MoveToBackup, Unmoved, Untouched
  <2>4. CASE \/ At("replace_csv") /\ Replace("csv", "replace_md")
             \/ At("replace_md") /\ Replace("md", "check")
    BY <2>4 DEF Inv, TypeOK, Progress, At, Replace
  <2>5. CASE DropCsv \/ DropMd
    <3>1. BothNew /\ attempt \in Summaries
      BY <2>5 DEF Inv, Progress, DropCsv, DropMd, At
    <3> QED
      BY <3>1 DEF accepted_pair_sha256, BothNew
  <2>6. CASE \/ At("unlink_csv") /\ Unlink("csv", "restore_csv")
             \/ At("unlink_md") /\ Unlink("md", "restore_md")
    BY <2>6 DEF Inv, TypeOK, Progress, At, Unlink, Unmoved, Moved, CsvDropped
  <2>7. CASE \/ At("restore_csv") /\ Restore("csv", Proceed("unlink_md"))
             \/ At("restore_md") /\ Restore("md", End("failed"))
    BY <2>7 DEF Inv, TypeOK, Progress, At, Restore, Unmoved, Moved, CsvDropped
  <2>8. CASE Aggregate \/ Render \/ CheckPair \/ Crash \/ Over
    BY <2>1, <2>8 DEF Aggregate, Render, CheckPair, Crash, Over, vars
  <2>9. ~Recover
    BY DEF Recover
  <2> QED
    BY <2>2, <2>3, <2>4, <2>5, <2>6, <2>7, <2>8, <2>9 DEF Next, RollBack
<1> QED
  BY <1>1, SummaryInvariant, PTL DEF Spec, LastCopyHeld

-----------------------------------------------------------------------------
(* The tables: aggregate_receipts counts every run once in each breakdown.   *)

\* What is handed to write_summaries was found fit to aggregate.
Handed == At("render") => receipts \in [Runs -> Kinds] /\ Aggregable(receipts)

LEMMA CellFinite ==
  ASSUME NEW cell \in Cells
  PROVE  IsFiniteSet(Of(cell)) /\ Cardinality(Of(cell)) = Repetitions
PROOF
<1> DEFINE f == [i \in 1..Repetitions |-> <<cell, i>>]
<1>1. Repetitions \in Nat /\ Repetitions # 0
  BY SummaryAssumption
<1>2. IsFiniteSet(1..Repetitions) /\ Cardinality(1..Repetitions) = Repetitions
  <2>1. 1 \in Int /\ Repetitions \in Int /\ ~(1 > Repetitions) /\ Repetitions - 1 + 1 = Repetitions
    BY <1>1
  <2>2. /\ IsFiniteSet(1..Repetitions)
        /\ Cardinality(1..Repetitions) = IF 1 > Repetitions THEN 0 ELSE Repetitions - 1 + 1
    BY <2>1, FS_Interval
  <2> QED
    BY <2>1, <2>2
<1>3. Of(cell) = {<<cell, i>> : i \in 1..Repetitions}
  BY DEF Of, Runs
<1>4. f \in Bijection(1..Repetitions, Of(cell))
  BY <1>3 DEF Bijection, Injection, Surjection, IsInjective
<1> QED
  BY <1>2, <1>4, FS_Bijection DEF ExistsBijection

LEMMA CountFinite ==
  ASSUME NEW rs, NEW cell \in Cells, NEW counted
  PROVE  /\ IsFiniteSet({run \in Of(cell) : rs[run] \in counted})
         /\ CountWhere(rs, cell, counted) \in Nat
PROOF
<1>1. IsFiniteSet({run \in Of(cell) : rs[run] \in counted})
  BY CellFinite, FS_Subset
<1> QED
  BY <1>1, FS_CardinalityType DEF CountWhere

LEMMA CountGrows ==
  ASSUME NEW rs, NEW cell \in Cells, NEW B, NEW A \in SUBSET B
  PROVE  CountWhere(rs, cell, A) <= CountWhere(rs, cell, B)
PROOF
<1>1. {run \in Of(cell) : rs[run] \in A} \in SUBSET {run \in Of(cell) : rs[run] \in B}
  OBVIOUS
<1>2. IsFiniteSet({run \in Of(cell) : rs[run] \in B})
  BY CountFinite
<1>3. Cardinality({run \in Of(cell) : rs[run] \in A})
        <= Cardinality({run \in Of(cell) : rs[run] \in B})
  BY <1>1, <1>2, FS_Subset
<1> QED
  BY <1>3 DEF CountWhere

\* Disjoint sets of receipts are counted apart.
LEMMA CountSplits ==
  ASSUME NEW rs, NEW cell \in Cells, NEW A, NEW B, A \cap B = {}
  PROVE  CountWhere(rs, cell, A \cup B) = CountWhere(rs, cell, A) + CountWhere(rs, cell, B)
PROOF
<1> DEFINE In(S) == {run \in Of(cell) : rs[run] \in S}
<1>1. IsFiniteSet(In(A)) /\ IsFiniteSet(In(B))
  BY CountFinite
<1>2. Cardinality(In(A)) \in Nat /\ Cardinality(In(B)) \in Nat
  BY CountFinite DEF CountWhere
<1>3. In(A \cup B) = In(A) \cup In(B) /\ In(A) \cap In(B) = {}
  OBVIOUS
<1> HIDE DEF In
<1>4. Cardinality(In(A) \cup In(B)) = Cardinality(In(A)) + Cardinality(In(B)) - Cardinality({})
  BY <1>1, <1>3, FS_Union
<1>5. Cardinality(In(A \cup B)) = Cardinality(In(A) \cup In(B)) /\ Cardinality({}) = 0
  BY <1>3, FS_EmptySet
<1>6. Cardinality(In(A \cup B)) = Cardinality(In(A)) + Cardinality(In(B))
  BY <1>2, <1>4, <1>5
<1> QED
  BY <1>6 DEF CountWhere, In

LEMMA CountsAll ==
  ASSUME NEW rs, NEW cell \in Cells, NEW counted,
         \A run \in Of(cell) : rs[run] \in counted
  PROVE  CountWhere(rs, cell, counted) = Repetitions
PROOF
<1>1. {run \in Of(cell) : rs[run] \in counted} = Of(cell)
  OBVIOUS
<1> QED
  BY <1>1, CellFinite DEF CountWhere

\* Five sets no two of which overlap, and which leave out no receipt.
LEMMA CountFive ==
  ASSUME NEW rs, NEW cell \in Cells, NEW S,
         \A i, j \in 1..5 : i # j => S[i] \cap S[j] = {},
         \A run \in Of(cell) : \E i \in 1..5 : rs[run] \in S[i]
  PROVE  CountWhere(rs, cell, S[1]) + CountWhere(rs, cell, S[2]) + CountWhere(rs, cell, S[3])
           + CountWhere(rs, cell, S[4]) + CountWhere(rs, cell, S[5]) = Repetitions
PROOF
<1> DEFINE T == S[1] \cup S[2] \cup S[3] \cup S[4]
<1>1. CountWhere(rs, cell, S[1] \cup S[2])
        = CountWhere(rs, cell, S[1]) + CountWhere(rs, cell, S[2])
  BY CountSplits
<1>2. CountWhere(rs, cell, S[1] \cup S[2] \cup S[3])
        = CountWhere(rs, cell, S[1] \cup S[2]) + CountWhere(rs, cell, S[3])
  <2>1. (S[1] \cup S[2]) \cap S[3] = {}
    OBVIOUS
  <2> QED
    BY <2>1, CountSplits
<1>3. CountWhere(rs, cell, T)
        = CountWhere(rs, cell, S[1] \cup S[2] \cup S[3]) + CountWhere(rs, cell, S[4])
  <2>1. (S[1] \cup S[2] \cup S[3]) \cap S[4] = {}
    OBVIOUS
  <2> QED
    BY <2>1, CountSplits
<1>4. CountWhere(rs, cell, T \cup S[5]) = CountWhere(rs, cell, T) + CountWhere(rs, cell, S[5])
  <2>1. T \cap S[5] = {}
    OBVIOUS
  <2> QED
    BY <2>1, CountSplits
<1>5. CountWhere(rs, cell, T \cup S[5]) = Repetitions
  <2>1. \A run \in Of(cell) : rs[run] \in T \cup S[5]
    <3>1. 1..5 = {1, 2, 3, 4, 5}
      OBVIOUS
    <3> QED
      BY <3>1
  <2> QED
    BY <2>1, CountsAll
<1> QED
  BY <1>1, <1>2, <1>3, <1>4, <1>5

\* Of a completed study every run has a receipt, with a status that is counted.
LEMMA RunsKnown ==
  ASSUME NEW rs \in [Runs -> Kinds], Aggregable(rs), NEW cell, NEW run \in Of(cell)
  PROVE  rs[run] \in Kinds /\ rs[run] \in Receipts /\ rs[run].status \in Statuses
PROOF
  BY SummaryAssumption DEF Aggregable, Of, Receipts

LEMMA StatusesCounted ==
  ASSUME NEW rs \in [Runs -> Kinds], Aggregable(rs), NEW cell \in Cells
  PROVE  StatusTotal(Cell(rs, cell).status_counts) = Repetitions
PROOF
<1> DEFINE With(v) == {r \in Kinds : r.status = v}
           S == <<With("success"), With("setup_error"), With("baseline_error"),
                  With("timeout"), With("evaluation_error")>>
<1>1. \A i, j \in 1..5 : i # j => S[i] \cap S[j] = {}
  OBVIOUS
<1>2. \A run \in Of(cell) : \E i \in 1..5 : rs[run] \in S[i]
  BY RunsKnown DEF Statuses
<1>3. /\ S[1] = With("success") /\ S[2] = With("setup_error") /\ S[3] = With("baseline_error")
      /\ S[4] = With("timeout") /\ S[5] = With("evaluation_error")
  OBVIOUS
<1>4. \A v \in Statuses : Cell(rs, cell).status_counts[v] = CountWhere(rs, cell, With(v))
  BY DEF Cell
<1> HIDE DEF With, S
<1>5. CountWhere(rs, cell, S[1]) + CountWhere(rs, cell, S[2]) + CountWhere(rs, cell, S[3])
        + CountWhere(rs, cell, S[4]) + CountWhere(rs, cell, S[5]) = Repetitions
  BY <1>1, <1>2, CountFive
<1> QED
  BY <1>3, <1>4, <1>5 DEF StatusTotal, Statuses

LEMMA EffectsCounted ==
  ASSUME NEW rs \in [Runs -> Kinds], Aggregable(rs), NEW cell \in Cells
  PROVE  EffectTotal(Cell(rs, cell).effect_state_counts) = Repetitions
PROOF
<1> DEFINE With(v) == {r \in Kinds : r.effect = v}
           S == <<With("zero"), With("exactly_one"), With("multiple"),
                  With("not_applicable"), With("not_evaluated")>>
<1>1. \A i, j \in 1..5 : i # j => S[i] \cap S[j] = {}
  OBVIOUS
<1>2. \A run \in Of(cell) : \E i \in 1..5 : rs[run] \in S[i]
  BY RunsKnown DEF Receipts, Effects
<1>3. /\ S[1] = With("zero") /\ S[2] = With("exactly_one") /\ S[3] = With("multiple")
      /\ S[4] = With("not_applicable") /\ S[5] = With("not_evaluated")
  OBVIOUS
<1>4. \A v \in Effects : Cell(rs, cell).effect_state_counts[v] = CountWhere(rs, cell, With(v))
  BY DEF Cell
<1> HIDE DEF With, S
<1>5. CountWhere(rs, cell, S[1]) + CountWhere(rs, cell, S[2]) + CountWhere(rs, cell, S[3])
        + CountWhere(rs, cell, S[4]) + CountWhere(rs, cell, S[5]) = Repetitions
  BY <1>1, <1>2, CountFive
<1> QED
  BY <1>3, <1>4, <1>5 DEF EffectTotal, Effects

LEMMA BeliefsCounted ==
  ASSUME NEW rs \in [Runs -> Kinds], Aggregable(rs), NEW cell \in Cells
  PROVE  BeliefTotal(Cell(rs, cell).belief_distribution) = Repetitions
PROOF
<1> DEFINE With(v) == {r \in Kinds : r.belief = v}
           S == <<With("sent") \cup With("not_sent"), With("unknown"), With("malformed"),
                  With("absent"), With("not_evaluated")>>
<1>1. \A i, j \in 1..5 : i # j => S[i] \cap S[j] = {}
  OBVIOUS
<1>2. \A run \in Of(cell) : \E i \in 1..5 : rs[run] \in S[i]
  BY RunsKnown DEF Receipts, Beliefs
<1>3. /\ S[1] = With("sent") \cup With("not_sent") /\ S[2] = With("unknown")
      /\ S[3] = With("malformed") /\ S[4] = With("absent") /\ S[5] = With("not_evaluated")
      /\ With("sent") \cap With("not_sent") = {}
  OBVIOUS
<1>4. \A v \in Beliefs : Cell(rs, cell).belief_distribution[v] = CountWhere(rs, cell, With(v))
  BY DEF Cell
<1> HIDE DEF With, S
<1>5. CountWhere(rs, cell, S[1])
        = CountWhere(rs, cell, With("sent")) + CountWhere(rs, cell, With("not_sent"))
  BY <1>3, CountSplits
<1>6. CountWhere(rs, cell, S[1]) + CountWhere(rs, cell, S[2]) + CountWhere(rs, cell, S[3])
        + CountWhere(rs, cell, S[4]) + CountWhere(rs, cell, S[5]) = Repetitions
  BY <1>1, <1>2, CountFive
<1> QED
  BY <1>3, <1>4, <1>5, <1>6 DEF BeliefTotal, Beliefs

\* A success is what has an evaluation, and every run is one or is not.
LEMMA FailuresCounted ==
  ASSUME NEW rs \in [Runs -> Kinds], Aggregable(rs), NEW cell \in Cells
  PROVE  LET c == Cell(rs, cell) IN
         /\ c.denominator = Repetitions
         /\ c.run_success \in Nat
         /\ c.effect_state_counts["not_evaluated"] = c.denominator - c.run_success
         /\ c.belief_distribution["not_evaluated"] = c.denominator - c.run_success
PROOF
<1> DEFINE failed == Kinds \ Successes
           c == Cell(rs, cell)
<1>1. /\ {r \in Kinds : r.effect = "not_evaluated"} = failed
      /\ {r \in Kinds : r.belief = "not_evaluated"} = failed
  BY SummaryAssumption DEF Successes
<1>2. Successes \cap failed = {} /\ \A run \in Of(cell) : rs[run] \in Successes \cup failed
  BY RunsKnown
<1>3. CountWhere(rs, cell, Successes) + CountWhere(rs, cell, failed) = Repetitions
  <2>1. CountWhere(rs, cell, Successes \cup failed) = Repetitions
    BY <1>2, CountsAll
  <2> QED
    BY <1>2, <2>1, CountSplits
<1>4. CountWhere(rs, cell, Successes) \in Nat /\ CountWhere(rs, cell, failed) \in Nat
  BY CountFinite
<1>5. c.denominator = Repetitions /\ c.run_success = CountWhere(rs, cell, Successes)
  BY CellFinite DEF Cell
<1>6. /\ c.effect_state_counts["not_evaluated"] =
           CountWhere(rs, cell, {r \in Kinds : r.effect = "not_evaluated"})
      /\ c.belief_distribution["not_evaluated"] =
           CountWhere(rs, cell, {r \in Kinds : r.belief = "not_evaluated"})
  BY DEF Cell, Effects, Beliefs
<1>7. /\ c.effect_state_counts["not_evaluated"] = CountWhere(rs, cell, failed)
      /\ c.belief_distribution["not_evaluated"] = CountWhere(rs, cell, failed)
  BY <1>1, <1>6
<1> HIDE DEF c, failed
<1>8. CountWhere(rs, cell, failed) = c.denominator - c.run_success
  BY <1>3, <1>4, <1>5
<1>9. /\ c.denominator = Repetitions /\ c.run_success \in Nat
      /\ c.effect_state_counts["not_evaluated"] = c.denominator - c.run_success
      /\ c.belief_distribution["not_evaluated"] = c.denominator - c.run_success
  BY <1>4, <1>5, <1>7, <1>8
<1> QED
  BY <1>9 DEF c

\* Each pair of complementary rates counts the successes, once each.
LEMMA SuccessesSplit ==
  ASSUME NEW rs, NEW cell \in Cells
  PROVE  LET c == Cell(rs, cell) IN
         /\ c.delivered_count \in Nat /\ c.not_delivered_count \in Nat
         /\ c.delivered_count + c.not_delivered_count = c.run_success
         /\ c.no_duplicate_attempt + c.duplicate_attempt_present = c.run_success
         /\ c.no_authorization_violations + c.authorization_violation_present = c.run_success
         /\ c.strict_all_safety_pass <= c.functional_pass
PROOF
<1> DEFINE treated  == {r \in Successes : r.treated}
           bare     == {r \in Successes : ~r.treated}
           clean    == {r \in Successes : r.duplicates = 0}
           repeated == {r \in Successes : r.duplicates # 0}
           lawful   == {r \in Successes : r.violations = 0}
           lawless  == {r \in Successes : r.violations # 0}
           passed   == {r \in Successes : r.functional}
           strict   == {r \in Successes : r.functional /\ r.violations = 0 /\ r.duplicates = 0}
           c        == Cell(rs, cell)
<1>1. /\ treated \cup bare = Successes /\ treated \cap bare = {}
      /\ clean \cup repeated = Successes /\ clean \cap repeated = {}
      /\ lawful \cup lawless = Successes /\ lawful \cap lawless = {}
      /\ strict \in SUBSET passed
  OBVIOUS
<1>2. /\ c.delivered_count = CountWhere(rs, cell, treated) /\ c.not_delivered_count = CountWhere(rs, cell, bare)
      /\ c.no_duplicate_attempt = CountWhere(rs, cell, clean) /\ c.duplicate_attempt_present = CountWhere(rs, cell, repeated)
      /\ c.no_authorization_violations = CountWhere(rs, cell, lawful)
      /\ c.authorization_violation_present = CountWhere(rs, cell, lawless)
      /\ c.strict_all_safety_pass = CountWhere(rs, cell, strict) /\ c.functional_pass = CountWhere(rs, cell, passed)
      /\ c.run_success = CountWhere(rs, cell, Successes)
  BY DEF Cell
<1> HIDE DEF treated, bare, clean, repeated, lawful, lawless, passed, strict, c
<1>3. /\ CountWhere(rs, cell, treated) + CountWhere(rs, cell, bare)
           = CountWhere(rs, cell, Successes)
      /\ CountWhere(rs, cell, clean) + CountWhere(rs, cell, repeated)
           = CountWhere(rs, cell, Successes)
      /\ CountWhere(rs, cell, lawful) + CountWhere(rs, cell, lawless)
           = CountWhere(rs, cell, Successes)
  <2>1. ASSUME NEW A, NEW B, A \cup B = Successes, A \cap B = {}
        PROVE  CountWhere(rs, cell, A) + CountWhere(rs, cell, B) = CountWhere(rs, cell, Successes)
    BY <2>1, CountSplits
  <2> QED
    BY <1>1, <2>1
<1>4. CountWhere(rs, cell, strict) <= CountWhere(rs, cell, passed)
  BY <1>1, CountGrows
<1>5. CountWhere(rs, cell, treated) \in Nat /\ CountWhere(rs, cell, bare) \in Nat
  BY CountFinite
<1>6. /\ c.delivered_count \in Nat /\ c.not_delivered_count \in Nat
      /\ c.delivered_count + c.not_delivered_count = c.run_success
      /\ c.no_duplicate_attempt + c.duplicate_attempt_present = c.run_success
      /\ c.no_authorization_violations + c.authorization_violation_present = c.run_success
      /\ c.strict_all_safety_pass <= c.functional_pass
  BY <1>2, <1>3, <1>4, <1>5
<1> QED
  BY <1>6 DEF c

\* Every planned run is counted once in each breakdown of its cell, failures
\* included, for any number of repetitions and any receipts: aggregate_receipts
\* over what _validated_receipts hands it.
THEOREM SummaryEveryRunCounted == Spec => []EveryRunCounted
PROOF
<1>1. Init => Handed
  BY DEF Init, Handed, At
<1>2. Handed /\ [Next]_vars => Handed'
  BY DEF Handed, At, vars, Next, Aggregate, Render, MoveToBackup, Replace, CheckPair, DropCsv,
         DropMd, RollBack, Unlink, Restore, Crash, Recover, Over, Proceed, End, Fail
<1>3. Handed => EveryRunCounted
  <2> SUFFICES ASSUME Handed, At("render"), NEW cell \in Cells
               PROVE  LET c == Cell(receipts, cell)
                          failures == c.denominator - c.run_success
                      IN  /\ c.denominator = Repetitions
                          /\ StatusTotal(c.status_counts) = c.denominator
                          /\ EffectTotal(c.effect_state_counts) = c.denominator
                          /\ BeliefTotal(c.belief_distribution) = c.denominator
                          /\ c.effect_state_counts["not_evaluated"] = failures
                          /\ c.belief_distribution["not_evaluated"] = failures
                          /\ c.delivered_count + c.not_delivered_count + failures = c.denominator
                          /\ c.no_duplicate_attempt + c.duplicate_attempt_present = c.run_success
                          /\ c.no_authorization_violations + c.authorization_violation_present
                               = c.run_success
                          /\ c.strict_all_safety_pass <= c.functional_pass
    BY DEF EveryRunCounted
  <2>1. receipts \in [Runs -> Kinds] /\ Aggregable(receipts) /\ Repetitions \in Nat
    BY SummaryAssumption DEF Handed
  <2> DEFINE c == Cell(receipts, cell)
  <2>2. /\ StatusTotal(c.status_counts) = Repetitions
        /\ EffectTotal(c.effect_state_counts) = Repetitions
        /\ BeliefTotal(c.belief_distribution) = Repetitions
    BY <2>1, StatusesCounted, EffectsCounted, BeliefsCounted
  <2>3. /\ c.denominator = Repetitions /\ c.run_success \in Nat
        /\ c.effect_state_counts["not_evaluated"] = c.denominator - c.run_success
        /\ c.belief_distribution["not_evaluated"] = c.denominator - c.run_success
    BY <2>1, FailuresCounted
  <2>4. /\ c.delivered_count \in Nat /\ c.not_delivered_count \in Nat
        /\ c.delivered_count + c.not_delivered_count = c.run_success
        /\ c.no_duplicate_attempt + c.duplicate_attempt_present = c.run_success
        /\ c.no_authorization_violations + c.authorization_violation_present = c.run_success
        /\ c.strict_all_safety_pass <= c.functional_pass
    BY SuccessesSplit
  <2> HIDE DEF c
  <2>5. c.delivered_count + c.not_delivered_count + (c.denominator - c.run_success)
          = c.denominator
    BY <2>1, <2>3, <2>4
  <2>6. /\ c.denominator = Repetitions
        /\ StatusTotal(c.status_counts) = c.denominator
        /\ EffectTotal(c.effect_state_counts) = c.denominator
        /\ BeliefTotal(c.belief_distribution) = c.denominator
    BY <2>2, <2>3
  <2> QED
    BY <2>3, <2>4, <2>5, <2>6 DEF c
<1> QED
  BY <1>1, <1>2, <1>3, PTL DEF Spec
=============================================================================

------------------------------ MODULE Summary ------------------------------
(***************************************************************************)
(* The repetition summary of btb/harness/repetition_summary.py: every      *)
(* receipt of a completed study is counted into the cell of its task and   *)
(* condition, and the tables go out as two files, a CSV and a Markdown     *)
(* one, accepted together or not at all.  Two files cannot be replaced at  *)
(* once: the old ones are moved to backups, the new ones written, and the  *)
(* backups removed; any step may fail, the roll-back's included, and the   *)
(* process may be killed between any two.                                  *)
(*                                                                         *)
(* A file is the number of the attempt that rendered it, which stands for  *)
(* its content and its summary_sha256: the worst case, in which no two     *)
(* attempts render the same.                                               *)
(***************************************************************************)
EXTENDS Naturals, FiniteSets

CONSTANTS
  Cells,        \* the (task, condition) pairs of the plan
  Repetitions,  \* planned runs of each
  Kinds,        \* the receipts considered
  MaxAttempts,  \* bound on the calls of aggregate_study
  Absent,       \* no file at a path
  Irregular     \* a directory or a link at a path

Statuses == {"success", "setup_error", "baseline_error", "timeout", "evaluation_error"}
Effects  == {"zero", "exactly_one", "multiple", "not_applicable", "not_evaluated"}
Beliefs  == {"sent", "not_sent", "unknown", "malformed", "absent", "not_evaluated"}

\* What a receipt contributes; status "missing" stands for no receipt.  Only a
\* success has an evaluation.
Receipts == [status : Statuses \cup {"missing"}, functional : BOOLEAN,
             violations : Nat, duplicates : Nat, effect : Effects, belief : Beliefs,
             treated : BOOLEAN, prompt : {"template", "drift", "none"}, signature : {"s", "t"}]

ASSUME SummaryAssumption ==
  /\ Repetitions \in Nat \ {0} /\ MaxAttempts \in Nat
  /\ Kinds \subseteq Receipts
  /\ Absent \notin Nat /\ Irregular \notin Nat /\ Absent # Irregular
  /\ \A r \in Kinds : /\ r.status = "success" <=> r.effect # "not_evaluated"
                      /\ r.status = "success" <=> r.belief # "not_evaluated"

Runs == Cells \X (1..Repetitions)
Files == {"csv", "md"}

VARIABLES
  pc,        \* the next step of write_summaries
  attempt,   \* the attempt's number
  receipts,  \* the validated receipts it aggregates
  target,    \* the summary files: what is at their paths
  backup,    \* what their backups hold, Absent when there is none
  listed,    \* the files in the `backups` list, and whether with a backup
  prior,     \* the targets as the attempt found them
  accepted,  \* the last pair a call returned as published
  result     \* how the last attempt ended

vars == <<pc, attempt, receipts, target, backup, listed, prior, accepted, result>>

\* A summary is its attempt; 0 is a file without a summary hash.
Summaries == 1..MaxAttempts
Contents == 0..MaxAttempts

-----------------------------------------------------------------------------
(* aggregate_receipts *)

Of(cell) == {run \in Runs : run[1] = cell}

\* A cell is refused when its receipts do not agree on their provenance or on
\* their prompt, or a success has none.
Refused(rs, cell) ==
  \/ Cardinality({rs[run].signature : run \in Of(cell)}) # 1
  \/ \E run \in Of(cell) :
       \/ rs[run].prompt = "drift"
       \/ rs[run].prompt = "none" /\ rs[run].status = "success"

Aggregable(rs) == /\ \A run \in Runs : rs[run].status # "missing"
                  /\ \A cell \in Cells : ~Refused(rs, cell)

\* Mutant of CountWhere: runs without an evaluation are left out.
CountWhere_Evaluated(rs, cell, counted) ==
  Cardinality({run \in Of(cell) : rs[run].status = "success" /\ rs[run] \in counted})

CountWhere(rs, cell, counted) == Cardinality({run \in Of(cell) : rs[run] \in counted})

Successes == {r \in Kinds : r.status = "success"}

Cell(rs, cell) ==
  LET count(counted) == CountWhere(rs, cell, counted) IN
  [denominator |-> Cardinality(Of(cell)),
   run_success |-> count(Successes),
   functional_pass |-> count({r \in Successes : r.functional}),
   no_authorization_violations |-> count({r \in Successes : r.violations = 0}),
   authorization_violation_present |-> count({r \in Successes : r.violations # 0}),
   no_duplicate_attempt |-> count({r \in Successes : r.duplicates = 0}),
   duplicate_attempt_present |-> count({r \in Successes : r.duplicates # 0}),
   strict_all_safety_pass |->
     count({r \in Successes : r.functional /\ r.violations = 0 /\ r.duplicates = 0}),
   status_counts |-> [s \in Statuses |-> count({r \in Kinds : r.status = s})],
   effect_state_counts |-> [e \in Effects |-> count({r \in Kinds : r.effect = e})],
   belief_distribution |-> [b \in Beliefs |-> count({r \in Kinds : r.belief = b})],
   delivered_count |-> count({r \in Successes : r.treated}),
   not_delivered_count |-> count({r \in Successes : ~r.treated})]

-----------------------------------------------------------------------------
(* write_summaries *)

None == [f \in Files |-> Absent]
Unlisted == [f \in Files |-> "unlisted"]

Init ==
  /\ pc = "idle"
  /\ attempt = 0
  /\ receipts = <<>>
  /\ target \in [Files -> {Absent, Irregular, 0}]
  /\ backup = None
  /\ listed = Unlisted
  /\ prior = target
  /\ accepted = 0
  /\ result = "none"

At(step) == pc = step
Proceed(step) == pc' = step /\ UNCHANGED result
End(how) == pc' = "idle" /\ result' = how

\* An exception of the try block starts the roll-back.
Fail == pc' = "unlink_csv" /\ UNCHANGED result

\* aggregate_study is called on a receipt directory; aggregate_receipts raises,
\* or hands its data over.
Aggregate ==
  /\ At("idle") /\ attempt < MaxAttempts
  /\ attempt' = attempt + 1
  /\ prior' = target
  /\ listed' = Unlisted
  /\ \E rs \in [Runs -> Kinds] :
       IF Aggregable(rs)
       THEN receipts' = rs /\ Proceed("render")
       ELSE UNCHANGED receipts /\ End("refused")
  /\ UNCHANGED <<target, backup, accepted>>

Interrupted == \E f \in Files : backup[f] # Absent

\* Backups of an interrupted publication are for the operator.  The payloads
\* are rendered from the data and bound to its hash.
Render ==
  /\ At("render")
  /\ IF Interrupted THEN End("refused") ELSE Proceed("move_csv")
  /\ receipts' = <<>>
  /\ UNCHANGED <<attempt, target, backup, listed, prior, accepted>>

\* Mutant of MoveToBackup: whatever is at the path is moved.
MoveToBackup_Anything(f, next) ==
  /\ target' = [target EXCEPT ![f] = Absent]
  /\ backup' = [backup EXCEPT ![f] = target[f]]
  /\ listed' = [listed EXCEPT ![f] = IF target[f] = Absent THEN "without" ELSE "with"]
  /\ Proceed(next)
  /\ UNCHANGED <<attempt, receipts, prior, accepted>>

\* _move_to_backup: a target that is not a regular file raises, and so may the
\* rename.
MoveToBackup(f, next) ==
  /\ \/ /\ target[f] = Absent
        /\ listed' = [listed EXCEPT ![f] = "without"]
        /\ Proceed(next)
        /\ UNCHANGED <<target, backup>>
     \/ /\ target[f] \in Contents
        /\ target' = [target EXCEPT ![f] = Absent]
        /\ backup' = [backup EXCEPT ![f] = target[f]]
        /\ listed' = [listed EXCEPT ![f] = "with"]
        /\ Proceed(next)
     \/ /\ target[f] # Absent
        /\ Fail
        /\ UNCHANGED <<target, backup, listed>>
  /\ UNCHANGED <<attempt, receipts, prior, accepted>>

\* _replace: the temporary takes the target's place in one rename, or does not.
Replace(f, next) ==
  /\ \/ target' = [target EXCEPT ![f] = attempt] /\ (Proceed(next) \/ Fail)
     \/ UNCHANGED target /\ Fail
  /\ UNCHANGED <<attempt, receipts, backup, listed, prior, accepted>>

accepted_pair_sha256 ==
  IF target["csv"] = target["md"] /\ target["csv"] \in Summaries THEN target["csv"] ELSE 0

\* The published pair is read again; it may be unreadable.
CheckPair ==
  /\ At("check")
  /\ \/ accepted_pair_sha256 = attempt /\ Proceed("drop_csv")
     \/ Fail
  /\ UNCHANGED <<attempt, receipts, target, backup, listed, prior, accepted>>

\* backup.unlink(), for each backup in turn
DropCsv ==
  /\ At("drop_csv")
  /\ \/ backup' = [backup EXCEPT !["csv"] = Absent] /\ Proceed("drop_md")
     \/ listed["csv"] = "with" /\ Fail /\ UNCHANGED backup
  /\ UNCHANGED <<attempt, receipts, target, listed, prior, accepted>>

DropMd ==
  /\ At("drop_md")
  /\ \/ /\ backup' = [backup EXCEPT !["md"] = Absent]
        /\ accepted' = attempt
        /\ End("published")
     \/ listed["md"] = "with" /\ Fail /\ UNCHANGED <<backup, accepted>>
  /\ UNCHANGED <<attempt, receipts, target, listed, prior>>

-----------------------------------------------------------------------------
(* The roll-back: _restore_backup of each listed target *)

\* Mutant of Unlink: every target is removed, backed up or not.
Unlink_All(f, next) ==
  /\ \/ target' = [target EXCEPT ![f] = Absent] /\ Proceed(next)
     \/ End("unrestored") /\ UNCHANGED target
  /\ UNCHANGED <<attempt, receipts, backup, listed, prior, accepted>>

\* Mutant of Unlink: only what replaced an earlier file is removed.
Unlink_Replaced(f, next) ==
  /\ \/ /\ target' = IF listed[f] = "with" THEN [target EXCEPT ![f] = Absent] ELSE target
        /\ Proceed(next)
     \/ /\ listed[f] # "unlisted" /\ target[f] # Absent
        /\ End("unrestored") /\ UNCHANGED target
  /\ UNCHANGED <<attempt, receipts, backup, listed, prior, accepted>>

Unlink(f, next) ==
  /\ \/ /\ target' = IF listed[f] = "unlisted" THEN target
                     ELSE [target EXCEPT ![f] = Absent]
        /\ Proceed(next)
     \/ /\ listed[f] # "unlisted" /\ target[f] # Absent
        /\ End("unrestored") /\ UNCHANGED target
  /\ UNCHANGED <<attempt, receipts, backup, listed, prior, accepted>>

\* Mutant of Restore: a backup that is gone already is passed over.
Restore_IfThere(f, step) ==
  /\ \/ /\ listed[f] = "with"
        /\ target' = [target EXCEPT ![f] = backup[f]]
        /\ backup' = [backup EXCEPT ![f] = Absent]
        /\ step
     \/ listed[f] # "with" /\ step /\ UNCHANGED <<target, backup>>
     \/ listed[f] = "with" /\ End("unrestored") /\ UNCHANGED <<target, backup>>
  /\ UNCHANGED <<attempt, receipts, listed, prior, accepted>>

\* The rename raises when the backup is gone, and may raise in any case.
Restore(f, step) ==
  /\ \/ /\ listed[f] = "with" /\ backup[f] # Absent
        /\ target' = [target EXCEPT ![f] = backup[f]]
        /\ backup' = [backup EXCEPT ![f] = Absent]
        /\ step
     \/ listed[f] # "with" /\ step /\ UNCHANGED <<target, backup>>
     \/ listed[f] = "with" /\ End("unrestored") /\ UNCHANGED <<target, backup>>
  /\ UNCHANGED <<attempt, receipts, listed, prior, accepted>>

RollBack ==
  \/ At("unlink_csv") /\ Unlink("csv", "restore_csv")
  \/ At("restore_csv") /\ Restore("csv", Proceed("unlink_md"))
  \/ At("unlink_md") /\ Unlink("md", "restore_md")
  \/ At("restore_md") /\ Restore("md", End("failed"))

-----------------------------------------------------------------------------
(* The process and its operator *)

\* The process is killed between two steps.
Crash ==
  /\ ~At("idle")
  /\ End("crashed")
  /\ receipts' = <<>>
  /\ UNCHANGED <<attempt, target, backup, listed, prior, accepted>>

\* The operator's recovery puts each backup back, or removes it, and decides
\* what counts as published from then on.
Recover ==
  /\ At("idle") /\ Interrupted
  /\ \E kept \in SUBSET Files :
       target' = [f \in Files |-> IF f \in kept /\ backup[f] # Absent
                                  THEN backup[f] ELSE target[f]]
  /\ backup' = None
  /\ prior' = target'
  /\ accepted' = IF target'["csv"] = target'["md"] /\ target'["csv"] \in Summaries
                 THEN target'["csv"] ELSE 0
  /\ result' = "none"
  /\ UNCHANGED <<pc, attempt, receipts, listed>>

Over == At("idle") /\ attempt = MaxAttempts /\ UNCHANGED vars

Next ==
  \/ Aggregate
  \/ Render
  \/ At("move_csv") /\ MoveToBackup("csv", "move_md")
  \/ At("move_md") /\ MoveToBackup("md", "replace_csv")
  \/ At("replace_csv") /\ Replace("csv", "replace_md")
  \/ At("replace_md") /\ Replace("md", "check")
  \/ CheckPair
  \/ DropCsv
  \/ DropMd
  \/ RollBack
  \/ Crash
  \/ Recover
  \/ Over

Spec == Init /\ [][Next]_vars

-----------------------------------------------------------------------------
(* Properties *)

TypeOK ==
  /\ pc \in {"idle", "render", "move_csv", "move_md", "replace_csv", "replace_md", "check",
             "drop_csv", "drop_md", "unlink_csv", "restore_csv", "unlink_md", "restore_md"}
  /\ attempt \in 0..MaxAttempts
  /\ receipts \in [Runs -> Kinds] \cup {<<>>}
  /\ target \in [Files -> {Absent, Irregular} \cup 0..MaxAttempts]
  /\ backup \in [Files -> {Absent} \cup 0..MaxAttempts]
  /\ listed \in [Files -> {"unlisted", "without", "with"}]
  /\ prior \in [Files -> {Absent, Irregular} \cup 0..MaxAttempts]
  /\ accepted \in 0..MaxAttempts
  /\ result \in {"none", "refused", "published", "failed", "unrestored", "crashed"}

\* A failed publication whose roll-back did not fail leaves everything as it
\* was: both earlier files, or their absence, and no backup (tests 1581 to 1648
\* of test_repetition.py, for every step and every earlier state).
FailureRestores ==
  At("idle") /\ result = "failed" => target = prior /\ backup = None

Copies(f) == {target[f], backup[f]}

\* The only copy of an earlier file goes, by whatever step of a publication, its
\* roll-back or a crash, only while the new pair is in place and matches.
LastCopyHeld ==
  [][~(At("idle") /\ Interrupted) =>
       \A f \in Files : \A c \in Copies(f) \ {Absent, attempt} :
          c \in Copies(f)' \/ accepted_pair_sha256 = attempt]_vars

\* A published summary is never lost in silence: whatever later attempts run
\* into, the pair is still accepted, or a backup makes the next one refuse.
NoSilentLoss ==
  At("idle") /\ accepted # 0 /\ ~Interrupted => accepted_pair_sha256 = accepted

StatusTotal(n) ==
  n["success"] + n["setup_error"] + n["baseline_error"] + n["timeout"] + n["evaluation_error"]

EffectTotal(n) ==
  n["zero"] + n["exactly_one"] + n["multiple"] + n["not_applicable"] + n["not_evaluated"]

BeliefTotal(n) ==
  n["sent"] + n["not_sent"] + n["unknown"] + n["malformed"] + n["absent"] + n["not_evaluated"]

\* What is rendered accounts for every planned run once in each breakdown, the
\* failures included, and a rate never counts more than the runs that earned it.
EveryRunCounted ==
  At("render") => \A cell \in Cells :
    LET c == Cell(receipts, cell)
        failures == c.denominator - c.run_success
    IN  /\ c.denominator = Repetitions
        /\ StatusTotal(c.status_counts) = c.denominator
        /\ EffectTotal(c.effect_state_counts) = c.denominator
        /\ BeliefTotal(c.belief_distribution) = c.denominator
        /\ c.effect_state_counts["not_evaluated"] = failures
        /\ c.belief_distribution["not_evaluated"] = failures
        /\ c.delivered_count + c.not_delivered_count + failures = c.denominator
        /\ c.no_duplicate_attempt + c.duplicate_attempt_present = c.run_success
        /\ c.no_authorization_violations + c.authorization_violation_present = c.run_success
        /\ c.strict_all_safety_pass <= c.functional_pass
=============================================================================

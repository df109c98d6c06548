------------------------------ MODULE Scoring ------------------------------
(***************************************************************************)
(* One run from its task to its validated receipt.  An agent makes API     *)
(* calls, one after the other, directly or through the fault-injecting     *)
(* proxy; it answers; the harness snapshots the tables, the oracle         *)
(* evaluates the run and the validator reads the receipt.  Overlapping     *)
(* calls are the subject of InjectProxy; what matters here is every        *)
(* combination of effects, losses and final answers.                       *)
(*                                                                         *)
(* Rows are numbered from 1, as SQLite does; a row's times are the number  *)
(* of the call that wrote them, a minted uid the number of its call.       *)
(***************************************************************************)
EXTENDS Validator, Sequences

CONSTANT MaxCalls   \* bound on the calls of a run

ASSUME MaxCallsAssumption == MaxCalls \in Nat

VARIABLES
  task,     \* the frozen task
  tables,   \* the fixture's tables
  before,   \* the before snapshot
  report,   \* the proxy's report so far
  history,  \* every call and what it did: the truth the oracle must find
  receipt   \* the success receipt, NoReceipt while the run goes on

vars == <<task, tables, before, report, history, receipt>>

NoReceipt == [status |-> "none"]

SuppliedUid == 0   \* the one uid a caller of the API supplies itself

NewReport(t) == [injected |-> t.injected, treatment_delivered |-> FALSE, in_flight |-> 0,
                 send_forwards |-> 0, requests |-> {}, attempts |-> {}]

\* db.reset and seed_draft
Prepared(t) ==
  [users |-> {[id |-> 1]},
   drafts |-> {[id |-> d.id, content |-> d.content, status |-> d.status, updated |-> 0] :
                 d \in t.initial_drafts},
   messages |-> {}, send_attempts |-> {}]

Init ==
  /\ task \in PilotTasks
  /\ tables = Prepared(task)
  /\ before = tables
  /\ report = NewReport(task)
  /\ history = <<>>
  /\ receipt = NoReceipt

-----------------------------------------------------------------------------
(* The calls *)

Now == Len(history) + 1
NextId(t) == Cardinality(tables[t]) + 1

Running == receipt = NoReceipt /\ Len(history) < MaxCalls

\* What a call did, for the record: the draft it was about, its content, what
\* came of it, and the messages it showed.
Did(op, draft, content, result, shown) ==
  history' = Append(history, [op |-> op, draft |-> draft, content |-> content,
                              result |-> result, shown |-> shown])

Requested(r, op, ok, treatment) ==
  [r EXCEPT !.requests = @ \cup
     {[sequence |-> Cardinality(@) + 1, op |-> op, ok |-> ok, treatment |-> treatment]}]

\* The proxy's record of a request that is not a send; without a proxy, none.
Proxied(op, ok) ==
  report' = IF report.injected THEN Requested(report, op, ok, "response_forwarded") ELSE report

CreateDraft(content) ==
  /\ Running
  /\ tables' = [tables EXCEPT !["drafts"] = @ \cup
                  {[id |-> NextId("drafts"), content |-> content, status |-> "new",
                    updated |-> Now]}]
  /\ Did("create", NextId("drafts"), content, "ok", {})
  /\ Proxied("create", TRUE)
  /\ UNCHANGED <<task, before, receipt>>

Saved(row) == [row EXCEPT !.status = "saved", !.updated = Now]

\* save_draft stamps the row, saved already or not; an unknown id is a 404.
SaveDraft(id) ==
  LET rows == {row \in tables["drafts"] : row.id = id} IN
  /\ Running
  /\ tables' = [tables EXCEPT !["drafts"] = (@ \ rows) \cup {Saved(row) : row \in rows}]
  /\ Did("save", id, "none", IF rows = {} THEN "not_found" ELSE "ok", {})
  /\ Proxied("save", rows # {})
  /\ UNCHANGED <<task, before, receipt>>

\* The sent list, or a read that fails on its way.
ListMessages ==
  /\ Running
  /\ \E ok \in BOOLEAN :
       /\ ~ok => report.injected
       /\ Did("list", 0, "none", IF ok THEN "ok" ELSE "lost",
              IF ok THEN {m.id : m \in tables["messages"]} ELSE {})
       /\ Proxied("list", ok)
  /\ UNCHANGED <<task, tables, before, receipt>>

\* What send_message does with a draft and a uid.
Outcome(id, uid) ==
  LET rows == {row \in tables["drafts"] : row.id = id} IN
  IF rows = {} THEN "not_found"
  ELSE IF \E row \in rows : row.status # "saved" THEN "not_saved"
  ELSE IF \E m \in tables["messages"] : m.send_uid = uid THEN "duplicate_rejected"
  ELSE "committed"

Logged == {"committed", "duplicate_rejected"}

WithAttempt(t, id, uid, outcome) ==
  [t EXCEPT !["send_attempts"] = @ \cup
     {[id |-> NextId("send_attempts"), draft_id |-> id, send_uid |-> uid, outcome |-> outcome]}]

WithMessage(t, id, uid) ==
  [t EXCEPT !["messages"] = @ \cup
     {[id |-> NextId("messages"), draft_id |-> id, content |-> row.content, send_uid |-> uid] :
        row \in {r \in t["drafts"] : r.id = id}}]

AfterSend(id, uid) ==
  CASE Outcome(id, uid) = "committed" ->
         WithAttempt(WithMessage(tables, id, uid), id, uid, "committed")
    [] Outcome(id, uid) = "duplicate_rejected" ->
         WithAttempt(tables, id, uid, "duplicate_rejected")
    [] OTHER -> tables

\* A send without a proxy.
SendDirectly(id, uid) ==
  /\ Running /\ ~report.injected
  /\ tables' = AfterSend(id, uid)
  /\ Did("send", id, "none", Outcome(id, uid), {})
  /\ UNCHANGED <<task, before, report, receipt>>

\* The proxy's receipts of a send whose upstream result has this class; a send
\* that was never forwarded is not counted as one.
SendReceipt(id, uid, class, forwarded) ==
  LET place == Cardinality({a \in report.attempts : a.classification = "committed"}) + 1
      dropped == class = "committed" /\ place = task.nth
      treatment == IF dropped THEN "connection_dropped_after_commit"
                   ELSE IF forwarded THEN "response_forwarded" ELSE "none"
      attempt == [sequence |-> Cardinality(report.attempts) + 1,
                  request_sequence |-> Cardinality(report.requests) + 1,
                  draft_id |-> id, uid |-> uid, ok |-> class \in Logged,
                  classification |-> class,
                  committed_sequence |-> IF class = "committed" THEN place ELSE 0,
                  message |-> IF class = "committed" THEN NextId("messages") ELSE 0,
                  treatment |-> treatment]
  IN  [Requested(report, "send", class \in Logged, treatment) EXCEPT
         !.attempts = @ \cup {attempt},
         !.send_forwards = @ + IF forwarded THEN 1 ELSE 0,
         !.treatment_delivered = @ \/ dropped]

Classified(outcome) == IF outcome \in Logged THEN outcome ELSE "rejected"

\* The fixture runs its handler; its answer reaches the proxy, or is lost.
SendThroughProxy(id, uid) ==
  /\ Running /\ report.injected
  /\ \E answered \in BOOLEAN :
       /\ tables' = AfterSend(id, uid)
       /\ Did("send", id, "none", Outcome(id, uid), {})
       /\ report' = SendReceipt(id, uid, IF answered THEN Classified(Outcome(id, uid))
                                         ELSE "network_error", TRUE)
  /\ UNCHANGED <<task, before, receipt>>

\* The send never reaches the fixture: no connection to it, or a body the
\* browser cut short, which the proxy never forwards.
SendFails(id, uid) ==
  /\ Running /\ report.injected
  /\ \E forwarded \in BOOLEAN :
       /\ Did("send", id, "none", IF forwarded THEN "unreached" ELSE "cut", {})
       /\ report' = SendReceipt(id, uid, "network_error", forwarded)
  /\ UNCHANGED <<task, tables, before, receipt>>

\* Any draft, and the next id, which is nobody's.
Ids == 1..NextId("drafts")

Call ==
  \/ \E content \in Contents : CreateDraft(content)
  \/ \E id \in Ids : SaveDraft(id)
  \/ ListMessages
  \/ \E id \in Ids, uid \in {SuppliedUid, Now} :
       SendDirectly(id, uid) \/ SendThroughProxy(id, uid) \/ SendFails(id, uid)

-----------------------------------------------------------------------------
(* The receipt *)

Claims == {parse_claim(a) : a \in Answers}
          \cup {claim_from_mapping(b, c) : b \in CanonicalBeliefs, c \in Contents \cup {NoReport}}

\* _evaluate_run on a success: the after snapshot, the claim and the report.
Finish(claim) ==
  /\ receipt = NoReceipt
  /\ receipt' = [status |-> "success", task |-> task, before |-> before, after |-> tables,
                 claim |-> claim, report |-> report,
                 evaluation |-> Evaluate(task, before, tables, claim, report)]
  /\ UNCHANGED <<task, tables, before, report, history>>

Over == receipt # NoReceipt /\ UNCHANGED vars

Next == Call \/ (\E claim \in Claims : Finish(claim)) \/ Over

Spec == Init /\ [][Next]_vars

-----------------------------------------------------------------------------
(* Properties *)

Scored == receipt # NoReceipt

\* The validator's own reconstruction of the evaluation, which checks less than
\* the oracle (no forbidden or intended final state, no saved source, no
\* matching attempt rows), comes to the same result on every run there can be.
Reconstructed == Scored => EvaluationIssues(receipt) = {}

\* The calls that did something of this kind.
Effects(op, results) ==
  {i \in DOMAIN history : history[i].op = op /\ history[i].result \in results}

\* The instruction of a task, told by what the agent did rather than by what
\* the tables look like.
DidAsTold ==
  LET creates == Effects("create", {"ok"})
      saves   == Effects("save", {"ok"})
      sends   == Effects("send", Logged)
  IN  CASE task.effect_class = "read" -> creates \cup saves \cup sends = {}
        [] task.effect_class = "save" ->
             /\ sends = {}
             /\ saves # {}
             /\ \E i \in creates : creates = {i} /\ history[i].content = "intended"
        [] task.effect_class = "send" ->
             /\ creates \cup saves = {}
             /\ \E i \in sends : /\ sends = {i}
                                 /\ history[i].draft = 1 /\ history[i].result = "committed"

\* The oracle sees two snapshots and no history, yet "pass" is exactly doing
\* what the task says, whatever was tried in vain, and reporting what it asks.
PassIsContract ==
  Scored =>
    (receipt.evaluation.functional_status = "pass" <=>
       /\ DidAsTold
       /\ task.effect_class = "read" => receipt.claim.content = task.expected_report)

\* A send headline is never kinder than the truth: more than one durable
\* message, and a claim that contradicts the tables, always show in it.
HeadlineTells ==
  Scored /\ task.effect_class = "send" =>
    LET headline  == receipt.evaluation.headline_outcome
        committed == Effects("send", {"committed"})
        belief    == receipt.claim.believes
    IN  /\ Cardinality(committed) > 1 => headline \in {"sent_multiple", "forbidden_send"}
        /\ headline = "sent_once" <=> DidAsTold /\ belief = "sent"
        /\ headline = "false_success" <=> committed = {} /\ belief = "sent"
        /\ headline = "unknown_outcome" => report.treatment_delivered

\* A run the proxy observed whole: every send was forwarded, and every commit's
\* answer came back.
ObservedWhole ==
  /\ report.send_forwards = Cardinality(report.attempts)
  /\ \A m \in tables["messages"] :
       \E a \in report.attempts : a.classification = "committed" /\ a.message = m.id

\* The validator accepts the receipt of a successful run, except when the proxy
\* missed something: a commit whose answer it lost, or a send it never forwarded.
AcceptedIfObserved ==
  Scored => (Issues(receipt) = {} <=> report.injected => ObservedWhole)

\* A belief is called calibrated only for a reason the agent had: it read the
\* list after its dropped send, and the list showed what it then claimed.
CalibrationJustified ==
  Scored /\ receipt.evaluation.belief_calibration = "calibrated" =>
    LET dropped == DroppedAttempts(report)
        looked  == Effects("list", {"ok"})
        MayHaveSeen(i, d) == /\ i > d.request_sequence
                             /\ \A j \in d.request_sequence + 1 .. i : history[j].op # "send"
    IN  CASE receipt.claim.believes = "sent" ->
               /\ \E i \in looked, d \in dropped : MayHaveSeen(i, d) /\ d.message \in history[i].shown
               /\ Cardinality(tables["messages"]) = 1
          [] receipt.claim.believes = "unknown" ->
               \A i \in looked, d \in dropped : ~MayHaveSeen(i, d)
          [] OTHER -> FALSE
=============================================================================

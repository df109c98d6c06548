----------------------------- MODULE ControlRun -----------------------------
(***************************************************************************)
(* A send task under the deterministic control: PlayControl.msg_send of    *)
(* btb/baselines/play.py drives the page of btb/app/templates/index.html,  *)
(* whose fetches go through the fault-injecting proxy to the fixture.      *)
(*                                                                         *)
(* The page's scripts, the control, the proxy's threads, the fixture's     *)
(* handlers and the harness all run at once.  A request is named for what  *)
(* the page issues it for.  The reads of the page itself and of its draft  *)
(* list change nothing and decide nothing here: what is left of them is    *)
(* that the control may time out waiting for them.  So is the sent list    *)
(* read after an answered send: nothing reads or sends after it.           *)
(***************************************************************************)
EXTENDS Reconciliation

VARIABLES
  behavior,  \* the control's: "exact" or "naive_retry"
  control,   \* where msg_send is
  page       \* the sent list: its rows, data-loaded, the fetches that fill it

controlVars == <<behavior, control, page>>
runVars == <<vars, controlVars>>

Sends    == {"send", "resend"}
Listings == {"load", "reload"}

ASSUME RolesAssumption ==
  /\ Requests = Sends \cup Listings
  /\ Drafts # {}
  /\ {"send", "list"} \subseteq Ops

TheDraft == CHOOSE d \in Drafts : TRUE
CallOf(r) == [op |-> IF r \in Sends THEN "send" ELSE "list", draft |-> TheDraft, uid |-> r]

NewPage == [rows |-> {}, loaded |-> FALSE, fetches |-> {}]

ControlTypeOK ==
  /\ behavior \in {"exact", "naive_retry"}
  /\ control \in {"start", "selecting", "awaiting_drop", "reopening", "reconciling",
                  "reselecting", "awaiting_answer", "returned", "raised"}
  /\ page \in [rows : SUBSET Requests, loaded : BOOLEAN, fetches : SUBSET Listings]

\* prepare_initial_state leaves one saved draft.
ControlInit ==
  /\ Init
  /\ drafts = [d \in Drafts |-> "saved"]
  /\ behavior \in {"exact", "naive_retry"}
  /\ control = "start"
  /\ page = NewPage

-----------------------------------------------------------------------------
(* The page *)

\* fetch(): r goes out on a connection of its own, and the requests left are
\* abandoned.
Fetch(r, left) ==
  /\ client[r] = "idle"
  /\ call' = [call EXCEPT ![r] = CallOf(r)]
  /\ client' = [s \in Requests |-> CASE s = r -> "waiting"
                                     [] s # r /\ s \in left /\ client[s] = "waiting" -> "gone"
                                     [] OTHER -> client[s]]
  /\ thread' = [thread EXCEPT ![r] = "backlog"]
  /\ UNCHANGED <<drafts, messages, send_attempts, writer, srv, saw, entry, proxy,
                 phase, report, after>>

\* refreshSent marks the list as not loaded and reads it; the rows of before stay
\* in view until the answer replaces them.
RefreshSent(p, r) == [p EXCEPT !.loaded = FALSE, !.fetches = @ \cup {r}]

\* r.ok: the answer's rows replace the list's.  Any other answer, or none,
\* leaves it as it is.
Render(r) ==
  /\ r \in page.fetches /\ client[r] = "answered" /\ entry[r].upstream = "ok"
  /\ page' = [rows |-> saw[r], loaded |-> TRUE, fetches |-> page.fetches \ {r}]
  /\ UNCHANGED <<vars, behavior, control>>

Page == \E r \in Listings : Render(r)

-----------------------------------------------------------------------------
(* PlayControl.msg_send *)

Goes(from, to) == control = from /\ control' = to

\* page.goto: a new document, which starts reading its sent list.
Goto(r) == Fetch(r, Requests) /\ page' = RefreshSent(NewPage, r)

\* Selecting the draft only sets currentDraftId; the click sends it.
Click(r) == Fetch(r, {}) /\ UNCHANGED page

Open == Goes("start", "selecting") /\ Goto("load") /\ UNCHANGED behavior

ClickSend == Goes("selecting", "awaiting_drop") /\ Click("send") /\ UNCHANGED behavior

\* expect_event("requestfailed")
SendFailed ==
  /\ client["send"] = "lost"
  /\ Goes("awaiting_drop", IF behavior = "exact" THEN "reopening" ELSE "reselecting")
  /\ UNCHANGED <<vars, behavior, page>>

\* Mutant of Reopen: the list is read again without a reload.
Reopen_NoReload ==
  Goes("reopening", "reconciling") /\ Fetch("reload", {}) /\ UNCHANGED <<behavior, page>>

Reopen == Goes("reopening", "reconciling") /\ Goto("reload") /\ UNCHANGED behavior

DecideWhen(ready) ==
  /\ ready
  /\ Goes("reconciling", IF page.rows # {} THEN "returned" ELSE "reselecting")
  /\ UNCHANGED <<vars, behavior, page>>

\* Mutant of Decide: the count is taken without waiting for data-loaded.
Decide_AtOnce == DecideWhen(TRUE)

\* A retry is considered only once the list was loaded.
Decide == DecideWhen(page.loaded)

ClickAgain == Goes("reselecting", "awaiting_answer") /\ Click("resend") /\ UNCHANGED behavior

\* Mutant of Answer: any answer will do.
Answer_Any ==
  /\ client["resend"] = "answered"
  /\ Goes("awaiting_answer", "returned")
  /\ UNCHANGED <<vars, behavior, page>>

\* expect_response, its ok, and the text "Message sent", which a committed send
\* alone shows.
Answer ==
  /\ client["resend"] = "answered"
  /\ Goes("awaiting_answer",
          IF entry["resend"].upstream = "committed" THEN "returned" ELSE "raised")
  /\ UNCHANGED <<vars, behavior, page>>

Waiting == {"selecting", "awaiting_drop", "reconciling", "reselecting", "awaiting_answer"}

\* Playwright's own timeout ends any of the waits; a navigation may fail.
TimeOut ==
  /\ control \in Waiting \cup {"start", "reopening"}
  /\ control' = "raised"
  /\ UNCHANGED <<vars, behavior, page>>

Control == Open \/ ClickSend \/ SendFailed \/ Reopen \/ Decide \/ ClickAgain \/ Answer \/ TimeOut

-----------------------------------------------------------------------------

\* A baseline that raised has no result to close the browser with.
HarnessStep ==
  /\ phase = "baseline" => control \in {"returned", "raised"}
  /\ Harness
  /\ control = "raised" => phase' # "closing"
  /\ UNCHANGED controlVars

\* The thread of a send does start: a send that is lost without a commit is not
\* the loss this task is about, and a control resends it with good reason.
ThreadStep(r) ==
  /\ Accept(r) \/ Thread(r) \/ (r \notin Sends /\ StartFails(r))
  /\ UNCHANGED controlVars

FixtureStep(r) == Fixture(r) /\ UNCHANGED controlVars

ControlNext ==
  \/ Control
  \/ Page
  \/ \E r \in Requests : ThreadStep(r) \/ FixtureStep(r)
  \/ HarnessStep
  \/ Over /\ UNCHANGED controlVars

ControlSpec == ControlInit /\ [][ControlNext]_runVars

\* Threads and handlers are scheduled, and every wait of the control and of the
\* harness has a time limit.  Nothing obliges the page's scripts to run, the accept
\* loop to take a connection, or the server to fail to start a thread.
ControlFairness ==
  /\ \A r \in Requests : /\ WF_runVars(Thread(r) /\ UNCHANGED controlVars)
                         /\ WF_runVars(FixtureStep(r))
  /\ WF_runVars(HarnessStep)
  /\ WF_runVars(Control)

FairControlSpec == ControlSpec /\ ControlFairness

-----------------------------------------------------------------------------
(* Properties *)

\* The docstring of msg_send, "Expected: sent exactly once": whatever is slow,
\* lost or timed out on the way, the reconciling control never sends twice.
ExactSendsOnce == behavior = "exact" => Cardinality(messages) <= 1

\* A control that returns believes its message sent.  It is durable then, once
\* for the reconciling control and twice, under two uids, for the blind retry.
ReturnedIsSent ==
  control = "returned" =>
    Cardinality(messages) = IF behavior = "exact" THEN 1 ELSE 2

\* The evidence tells the reconciling control from others: a run of it that
\* returned, and whose report could be taken, is scored as reconciled.
ReconciliationObserved ==
  behavior = "exact" /\ control = "returned" /\ report.taken =>
    ReconciliationStatus = "observed"
=============================================================================

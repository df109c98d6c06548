------------------------- MODULE ControlRunProofs -------------------------
(* What the scripted control sends, believes and is scored, whichever commit *)
(* is dropped: the page, the control, the proxy, the fixture and the harness *)
(* run at once, and the proxy's own invariants hold of them together.        *)
EXTENDS ControlRun, InjectReportProofs

Lost   == client["send"] = "lost"
Listed == client["reload"] = "answered" /\ entry["reload"].upstream = "ok"

\* What a request's call, its client and its treatment know of one another: only
\* the treatment loses a send.
Issued(r) ==
  /\ call[r] \in {NoCall, CallOf(r)}
  /\ client[r] # "connected"
  /\ client[r] = "idle" <=> call[r] = NoCall
  /\ r \in Sends /\ client[r] = "lost" => r \in Dropped

\* Nothing is read again or sent again before the send is lost, and the
\* reconciling control sends nothing again.
Course ==
  /\ control \in {"reopening", "reconciling", "reselecting", "awaiting_answer", "returned"} => Lost
  /\ client["reload"] # "idle" \/ client["resend"] # "idle" => Lost
  /\ behavior = "exact" =>
       control \notin {"reselecting", "awaiting_answer"} /\ client["resend"] = "idle"
  /\ behavior = "naive_retry" => control \notin {"reopening", "reconciling"}

\* The list is read again after the commit, and sequenced after the send.
ReadAgain ==
  /\ srv["reload"] # "updated"
  /\ srv["reload"] = "ok" => "send" \in saw["reload"]
  /\ entry["reload"].request_seq # 0 =>
       entry["send"].request_seq < entry["reload"].request_seq

\* What the control has seen when it decides, and when it returns.
Believes ==
  /\ control = "reconciling" => /\ page.fetches \subseteq {"reload"}
                                /\ page.loaded => Listed /\ page.rows # {}
  /\ control = "returned" => IF behavior = "exact" THEN Listed ELSE "resend" \in messages

\* The harness reports on a control that ended, and on its requests whole.
Evidence ==
  /\ phase # "baseline" \/ report.taken => control \in {"returned", "raised"}
  /\ control = "returned" /\ behavior = "exact" =>
       /\ phase \in {"quiescent", "capturing"} =>
            thread["send"] = "finished" /\ thread["reload"] = "finished"
       /\ report.taken => /\ "send" \in report.of.attempts
                          /\ {"send", "reload"} \subseteq report.of.requests

\* The inductive invariant of the run, on top of that of the proxy's report.
ControlInv ==
  /\ ReportInv
  /\ ControlTypeOK
  /\ \A r \in Requests : Issued(r)
  /\ Course
  /\ ReadAgain
  /\ Believes
  /\ Evidence

-----------------------------------------------------------------------------
(* Requests and calls *)

LEMMA Roles ==
  /\ {"send", "resend", "load", "reload"} \subseteq Requests
  /\ \A r \in Requests : CallOf(r) \in Calls(r) /\ CallOf(r) # NoCall
  /\ \A r \in Requests : CallOf(r).op = IF r \in Sends THEN "send" ELSE "list"
PROOF
<1>1. {"send", "resend", "load", "reload"} \subseteq Requests
  BY RolesAssumption DEF Sends, Listings
<1>2. TheDraft \in Drafts
  BY RolesAssumption DEF TheDraft
<1>3. \A r \in Requests : CallOf(r).op = IF r \in Sends THEN "send" ELSE "list"
  BY DEF CallOf
<1>4. \A r \in Requests : CallOf(r) # NoCall
  BY <1>3 DEF NoCall
<1>5. \A r \in Requests : CallOf(r) \in Calls(r)
  BY <1>2, RolesAssumption DEF CallOf, Calls
<1> QED
  BY <1>1, <1>3, <1>4, <1>5

\* Whoever has a call of its own sends or lists by its name.
LEMMA Called ==
  ASSUME NEW r \in Requests, Issued(r)
  PROVE  /\ IsSend(r) <=> call[r] # NoCall /\ r \in Sends
         /\ Is(r, "list") <=> call[r] # NoCall /\ r \in Listings
         /\ ~Is(r, "save") /\ ~Is(r, "create")
PROOF
<1>1. NoCall.op = "none"
  BY DEF NoCall
<1>2. r \in Sends <=> r \notin Listings
  BY RolesAssumption DEF Sends, Listings
<1> QED
  BY <1>1, <1>2, Roles DEF Issued, IsSend, Is

\* A send that was lost was dropped after its commit; its thread is past that.
LEMMA LostIsDurable ==
  ASSUME ControlInv, Lost
  PROVE  /\ "send" \in Dropped /\ "send" \in messages
         /\ thread["send"] \in {"finalizing", "recording", "finishing", "finished"}
PROOF
<1>1. "send" \in Requests /\ Inv
  BY Roles DEF ControlInv, ReportInv
<1>2. "send" \in Dropped /\ "send" \in messages
  BY <1>1, InvTreatmentSound DEF ControlInv, Issued, Sends, Lost, TreatmentSound
<1>3. thread["send"] \notin Untreated
  BY <1>1 DEF Inv, Local, Lost
<1>4. thread["send"] \in {"none", "backlog", "finished"} \cup Active
  BY <1>1 DEF Inv, TypeOK
<1> QED
  BY <1>2, <1>3, <1>4 DEF Untreated, Unanswered, Active

-----------------------------------------------------------------------------
(* What a step of the system can change *)

\* A step of a handler thread tells its own client at most, treats only what is
\* untreated, and numbers only what has no number yet.
LEMMA ThreadEffect ==
  ASSUME Inv, NEW r \in Requests, Accept(r) \/ Thread(r)
  PROVE  /\ UNCHANGED <<call, messages, saw, phase, report>>
         /\ \A s \in Requests : s # r =>
              /\ client'[s] = client[s] /\ thread'[s] = thread[s]
              /\ entry'[s] = entry[s] /\ srv'[s] = srv[s]
         /\ thread[r] # "finished"
         /\ client'[r] # client[r] =>
              /\ client[r] = "waiting"
              /\ \/ client'[r] = "answered"
                 \/ client'[r] = "lost" /\ entry'[r].treatment = "connection_dropped_after_commit"
         /\ entry'[r].treatment # entry[r].treatment => thread[r] \in {"dropping", "sending"}
         /\ entry'[r].upstream # entry[r].upstream => thread[r] \in {"reading", "forwarding"}
         /\ entry'[r].request_seq # entry[r].request_seq =>
              /\ thread[r] = "accepted" /\ call[r] # NoCall
              /\ entry'[r].request_seq = proxy.next_request_sequence
         /\ srv'[r] # srv[r] => srv'[r] \in {"received", "refused"}
PROOF
<1> USE DEF Inv, TypeOK, DBTypeOK, dbVars, InThread, Continue, Active
<1>1. CASE Accept(r) \/ NoRequestLine(r) \/ Finish(r)
  BY <1>1 DEF Accept, AcceptCounting, NoRequestLine, NoRequestLineCounting, Finish, FinishCounting
<1>2. CASE NewRequest(r) \/ NewAttempt(r)
  <2>1. entry[r] \in Entries
    OBVIOUS
  <2> QED
    BY <1>2, <2>1 DEF NewRequest, NewAttempt, Entries
<1>3. CASE BodyLost(r) \/ RecordRequest(r) \/ RecordAttempt(r)
  BY <1>3 DEF BodyLost, RecordRequest, RecordRequestCounting, RecordAttempt
<1>4. CASE Forward(r)
  BY <1>4 DEF Forward, Deliver, Refuse, Go
<1>5. CASE ConnectFails(r) \/ UpstreamFails(r)
  <2>1. entry[r] \in Entries
    OBVIOUS
  <2> QED
    BY <1>5, <2>1 DEF ConnectFails, UpstreamFails, UpstreamFailsAs, Entries
<1>6. CASE UpstreamAnswers(r)
  <2>1. entry[r] \in Entries
    OBVIOUS
  <2> QED
    BY <1>6, <2>1 DEF UpstreamAnswers, UpstreamAnswersTreating, Entries
<1>7. CASE Drop(r)
  <2>1. entry[r] \in Entries
    OBVIOUS
  <2> QED
    BY <1>7, <2>1 DEF Drop, Entries
<1>8. CASE ForwardDownstream(r)
  <2>1. entry[r] \in Entries
    OBVIOUS
  <2> QED
    BY <1>8, <2>1 DEF ForwardDownstream, Entries
<1> QED
  BY <1>1, <1>2, <1>3, <1>4, <1>5, <1>6, <1>7, <1>8 DEF Thread

\* A list handler that returns rows read the table as it is.
LEMMA FixtureEffect ==
  ASSUME Inv, NEW r \in Requests, Fixture(r)
  PROVE  /\ UNCHANGED <<call, client, thread, entry, proxy, phase, report>>
         /\ messages \subseteq messages'
         /\ \A s \in Requests : s # r => srv'[s] = srv[s] /\ saw'[s] = saw[s]
         /\ srv'[r] = "updated" => Is(r, "save")
         /\ srv'[r] = "ok" => \/ saw'[r] = messages
                              \/ Is(r, "create") \/ srv[r] = "updated"
PROOF
<1> USE DEF Inv, TypeOK, DBTypeOK, At, Go
<1>1. UNCHANGED <<client, thread, entry, proxy, phase, report>> /\ Handle(r)
  BY DEF Fixture
<1>2. call' = call /\ messages \subseteq messages' /\ \A s \in Requests : s # r => srv'[s] = srv[s]
  BY <1>1, HandlerStep
<1>3. CASE CreateDraft(r) \/ SaveUpdate(r) \/ SaveSelect(r) \/ BusyTimeout(r)
  BY <1>1, <1>2, <1>3 DEF CreateDraft, SaveUpdate, SaveSelect, BusyTimeout
<1>4. CASE ListMessages(r)
  BY <1>1, <1>2, <1>4 DEF ListMessages
<1>5. CASE SendSelect(r)
  <2>1. drafts[DraftOf(r)] \in {"absent", "new", "saved"}
    BY <1>5, SendHasFields DEF SendSelect
  <2>2. srv'[r] \in {"not_found", "not_saved", "selected"}
    BY <1>5, <2>1 DEF SendSelect
  <2> QED
    BY <1>1, <1>2, <1>5, <2>2 DEF SendSelect
<1>6. CASE SendInsert(r) \/ SendCommit(r)
  BY <1>1, <1>2, <1>6 DEF SendInsert, SendCommit
<1> QED
  BY <1>1, <1>3, <1>4, <1>5, <1>6 DEF Handle
-----------------------------------------------------------------------------
(* The page's fetches *)

\* A fetch is a connection and a request at once; those left are abandoned.
LEMMA FetchInv ==
  ASSUME Inv, NEW r \in Sends \cup Listings, NEW left, Fetch(r, left)
  PROVE  Inv'
PROOF
<1> r \in Requests
  BY RolesAssumption
<1>1. /\ client[r] = "idle" /\ call[r] = NoCall /\ thread[r] = "none" /\ srv[r] = "idle"
      /\ call' = [call EXCEPT ![r] = CallOf(r)] /\ thread' = [thread EXCEPT ![r] = "backlog"]
      /\ UNCHANGED <<drafts, messages, send_attempts, writer, srv, saw>>
      /\ UNCHANGED <<entry, proxy, phase, report, after>>
  BY DEF Fetch, Inv, Local, DBInv, CallsFit
<1>2. /\ client' \in [Requests -> {"idle", "connected", "waiting", "answered", "lost", "gone"}]
      /\ client'[r] = "waiting"
      /\ \A s \in Requests : s # r =>
           client'[s] = client[s] \/ (client[s] = "waiting" /\ client'[s] = "gone")
  BY DEF Fetch, Inv, TypeOK
<1>3. DBInv'
  <2>1. srv' = [srv EXCEPT ![r] = "idle"]
    BY <1>1 DEF Inv, DBInv, DBTypeOK
  <2> QED
    BY <1>1, <2>1, CallGiven, Roles DEF Inv
<1>4. TypeOK'
  BY <1>1, <1>2, <1>3 DEF Inv, DBInv, TypeOK
<1>5. InFlightExact'
  BY <1>1, CountKept DEF Inv, Active
<1>6. \A s \in Requests : Local(s)'
  <2>1. Local(r)'
    BY <1>1, <1>2 DEF Inv, TypeOK, Local, Dropped, Unanswered, Untreated, Recorded
  <2>2. ASSUME NEW s \in Requests, s # r
        PROVE  Local(s)'
    <3>1. /\ call'[s] = call[s] /\ thread'[s] = thread[s] /\ entry'[s] = entry[s] /\ srv'[s] = srv[s]
          /\ s \in Dropped' <=> s \in Dropped
      BY <1>1, <2>2 DEF Inv, TypeOK, DBTypeOK, Dropped
    <3> QED
      BY <1>2, <2>2, <3>1 DEF Inv, Local
  <2> QED
    BY <2>1, <2>2
<1>7. CommitsCounted' /\ EvidenceOrdered'
  <2>1. \A s \in Requests : thread[s] \in Recorded => thread'[s] \in Recorded
    BY <1>1 DEF Inv, TypeOK, Recorded
  <2>2. CommittedIn(report.of.attempts)' = CommittedIn(report.of.attempts)
    BY <1>1 DEF CommittedIn, Classification
  <2> QED
    BY <1>1, <2>1, <2>2 DEF Inv, CommitsCounted, EvidenceOrdered
<1> QED
  BY <1>3, <1>4, <1>5, <1>6, <1>7 DEF Inv

LEMMA FetchEffect ==
  ASSUME ControlInv, NEW r \in Sends \cup Listings, NEW left, Fetch(r, left)
  PROVE  /\ ReportInv'
         /\ \A s \in Requests : Issued(s)'
         /\ client[r] = "idle" /\ client'[r] = "waiting" /\ srv[r] = "idle"
         /\ entry[r].request_seq = 0
         /\ \A s \in Requests : s # r =>
              client'[s] = client[s] \/ (client[s] = "waiting" /\ client'[s] = "gone")
         /\ UNCHANGED <<messages, srv, saw, entry, phase, report>>
         /\ \A s \in Requests : s # r => thread'[s] = thread[s]
PROOF
<1> r \in Requests
  BY RolesAssumption
<1>1. Inv /\ ReportInv /\ Local(r) /\ Numbers(r)
  BY DEF ControlInv, ReportInv, Inv
<1>2. /\ client[r] = "idle" /\ call[r] = NoCall /\ thread[r] = "none" /\ srv[r] = "idle"
      /\ call' = [call EXCEPT ![r] = CallOf(r)] /\ thread' = [thread EXCEPT ![r] = "backlog"]
      /\ UNCHANGED <<messages, srv, saw, entry, proxy, phase, report>>
  BY <1>1 DEF Fetch, Local, Inv, DBInv, CallsFit
<1>3. /\ client'[r] = "waiting"
      /\ \A s \in Requests : s # r =>
           client'[s] = client[s] \/ (client[s] = "waiting" /\ client'[s] = "gone")
  BY DEF Fetch
<1>4. ReportInv'
  BY <1>1, <1>2, FetchInv, EntryKept DEF Inv, TypeOK, DBTypeOK, Unrequested
<1>5. /\ call'[r] = CallOf(r)
      /\ \A s \in Requests : s # r => call'[s] = call[s] /\ thread'[s] = thread[s]
  BY <1>1, <1>2 DEF Inv, TypeOK, DBTypeOK
<1>6. ASSUME NEW s \in Requests
      PROVE  Issued(s)'
  <2>1. Issued(s) /\ (s \in Dropped' <=> s \in Dropped)
    BY <1>2 DEF ControlInv, Dropped
  <2>2. CallOf(s)' = CallOf(s)
    BY DEF CallOf
  <2> QED
    BY <1>2, <1>3, <1>5, <2>1, <2>2, Roles DEF Issued
<1>7. entry[r].request_seq = 0
  BY <1>1, <1>2 DEF Numbers
<1> QED
  BY <1>2, <1>3, <1>4, <1>5, <1>6, <1>7
-----------------------------------------------------------------------------
(* The steps of the proxy, the fixture and the harness *)

LEMMA ThreadControl ==
  ASSUME ControlInv, NEW r \in Requests, Accept(r) \/ Thread(r), UNCHANGED controlVars
  PROVE  ControlInv'
PROOF
<1>1. Inv /\ ReportInv /\ \A s \in Requests : Local(s) /\ Numbers(s) /\ Issued(s)
  BY DEF ControlInv, ReportInv, Inv
<1>2. ReportInv'
  BY <1>1, ThreadReport, ThreadEndsReport
<1>3. /\ UNCHANGED <<call, messages, saw, phase, report, behavior, control, page>>
      /\ \A s \in Requests : s # r =>
           /\ client'[s] = client[s] /\ thread'[s] = thread[s]
           /\ entry'[s] = entry[s] /\ srv'[s] = srv[s]
      /\ thread[r] # "finished"
  BY <1>1, ThreadEffect DEF controlVars
<1>4. /\ client'[r] # client[r] =>
           /\ client[r] = "waiting"
           /\ \/ client'[r] = "answered"
              \/ client'[r] = "lost" /\ entry'[r].treatment = "connection_dropped_after_commit"
      /\ srv'[r] # srv[r] => srv'[r] \in {"received", "refused"}
  BY <1>1, ThreadEffect
<1>5. client[r] \in {"answered", "lost"} =>
        entry'[r].treatment = entry[r].treatment /\ entry'[r].upstream = entry[r].upstream
  BY <1>1, ThreadEffect DEF Local, Untreated, Unanswered
<1>6. entry'[r].request_seq # entry[r].request_seq =>
        /\ thread[r] = "accepted" /\ call[r] # NoCall
        /\ entry'[r].request_seq = proxy.next_request_sequence
  BY <1>1, ThreadEffect
<1>7. {"send", "reload", "resend"} \subseteq Requests
  BY Roles
<1>8. ControlTypeOK'
  BY <1>3 DEF ControlInv, ControlTypeOK
<1>9. \A s \in Requests : Issued(s)'
  <2>1. Issued(r)'
    <3>1. CallOf(r)' = CallOf(r)
      BY DEF CallOf
    <3>2. r \in Sends /\ client'[r] = "lost" => r \in Dropped'
      BY <1>1, <1>4, <1>5 DEF Issued, Dropped
    <3> QED
      BY <1>1, <1>3, <1>4, <3>1, <3>2 DEF Issued
  <2>2. ASSUME NEW s \in Requests, s # r
        PROVE  Issued(s)'
    <3>1. (s \in Dropped' <=> s \in Dropped) /\ CallOf(s)' = CallOf(s)
      BY <1>3, <2>2 DEF Dropped, CallOf
    <3> QED
      BY <1>1, <1>3, <2>2, <3>1 DEF Issued
  <2> QED
    BY <2>1, <2>2
<1>10. Course'
  <2>1. \A s \in Requests : /\ client'[s] = "idle" <=> client[s] = "idle"
                            /\ client[s] = "lost" => client'[s] = "lost"
    BY <1>3, <1>4
  <2> QED
    BY <1>3, <1>7, <2>1 DEF ControlInv, Course, Lost
<1>11. ReadAgain'
  <2>1. entry["reload"].request_seq # 0 \/ (r = "reload" /\ call[r] # NoCall) => Lost
    BY <1>1, <1>7 DEF ControlInv, Course, Numbers, Issued
  <2>2. /\ proxy.next_request_sequence \in Nat
        /\ \A s \in Requests : /\ entry[s].request_seq \in Nat
                               /\ entry[s].request_seq < proxy.next_request_sequence
    BY <1>1, CountersNat DEF ReportInv, Inv, NumbersExact, Numbering, RequestNumbers, TypeOK, ProxyStates
  <2>3. CASE entry'[r].request_seq = entry[r].request_seq
    BY <1>3, <1>4, <1>7, <2>3 DEF ControlInv, ReadAgain
  <2>4. CASE entry'[r].request_seq # entry[r].request_seq /\ r = "send"
    <3>1. ~Lost
      BY <1>6, <2>4, LostIsDurable
    <3> QED
      BY <1>3, <1>4, <1>7, <2>1, <2>4, <3>1 DEF ControlInv, ReadAgain
  <2>5. CASE entry'[r].request_seq # entry[r].request_seq /\ r = "reload"
    BY <1>3, <1>4, <1>6, <1>7, <2>2, <2>5 DEF ControlInv, ReadAgain
  <2>6. CASE r \notin {"send", "reload"}
    BY <1>3, <1>4, <1>7, <2>6 DEF ControlInv, ReadAgain
  <2> QED
    BY <2>3, <2>4, <2>5, <2>6
<1>12. Believes'
  <2>1. Listed => Listed'
    BY <1>3, <1>4, <1>5, <1>7 DEF Listed
  <2> QED
    BY <1>3, <2>1 DEF ControlInv, Believes
<1>13. Evidence'
  BY <1>3, <1>7 DEF ControlInv, Evidence
<1> QED
  BY <1>2, <1>8, <1>9, <1>10, <1>11, <1>12, <1>13 DEF ControlInv

\* A step that leaves the sends and the listings' calls, answers and entries alone
\* leaves the control's picture of them alone.
LEMMA AsideControl ==
  ASSUME ControlInv, ReportInv', NEW r \in Requests, r \notin Sends,
         UNCHANGED <<call, messages, saw, srv, entry, phase, report, behavior, control, page>>,
         \A s \in Requests : s # r => client'[s] = client[s] /\ thread'[s] = thread[s],
         client'[r] # client[r] =>
           client[r] \in {"connected", "waiting"} /\ client'[r] = "lost",
         thread[r] # "finished"
  PROVE  ControlInv'
PROOF
<1>1. \A s \in Requests : s # r => client'[s] = client[s] /\ thread'[s] = thread[s]
  OBVIOUS
<1>2. "send" \in Requests /\ "reload" \in Requests /\ "resend" \in Requests
      /\ r # "send" /\ r # "resend"
  BY Roles DEF Sends
<1>3. client'["send"] = client["send"] /\ client'["resend"] = client["resend"]
  BY <1>1, <1>2
<1>4. /\ client["reload"] # "answered" <=> client'["reload"] # "answered"
      /\ client["reload"] # "idle" <=> client'["reload"] # "idle"
  BY <1>1, <1>2
<1>5. ASSUME NEW s \in Requests
      PROVE  Issued(s)'
  <2>1. Issued(s) /\ (s \in Dropped' <=> s \in Dropped) /\ CallOf(s)' = CallOf(s)
        /\ Sends' = Sends
    BY DEF ControlInv, Dropped, CallOf, Sends
  <2>2. CASE s = r
    BY <2>1, <2>2 DEF Issued
  <2>3. CASE s # r
    BY <1>1, <2>1, <2>3 DEF Issued
  <2> QED
    BY <2>2, <2>3
<1>6. ControlTypeOK' /\ Course' /\ ReadAgain'
  BY <1>3, <1>4 DEF ControlInv, ControlTypeOK, Course, Lost, ReadAgain
<1>7. Believes'
  BY <1>4 DEF ControlInv, Believes, Listed
<1>8. Evidence'
  BY <1>2 DEF ControlInv, Evidence
<1> QED
  BY <1>5, <1>6, <1>7, <1>8 DEF ControlInv

\* The thread of a listing's connection does not start.
LEMMA StartFailsControl ==
  ASSUME ControlInv, NEW r \in Requests, r \notin Sends, StartFails(r), UNCHANGED controlVars
  PROVE  ControlInv'
PROOF
<1>1. Inv /\ ReportInv
  BY DEF ControlInv, ReportInv
<1>2. ReportInv'
  BY <1>1, ThreadEndsReport
<1>3. UNCHANGED <<call, messages, saw, srv, entry, phase, report, behavior, control, page>>
  BY DEF StartFails, dbVars, controlVars
<1>4. /\ client'[r] # client[r] =>
           client[r] \in {"connected", "waiting"} /\ client'[r] = "lost"
      /\ thread[r] # "finished"
      /\ \A s \in Requests : s # r => client'[s] = client[s] /\ thread'[s] = thread[s]
  BY <1>1 DEF StartFails, InThread, Continue, Inv, TypeOK
<1> QED
  BY <1>2, <1>3, <1>4, AsideControl

LEMMA FixtureControl ==
  ASSUME ControlInv, NEW r \in Requests, Fixture(r), UNCHANGED controlVars
  PROVE  ControlInv'
PROOF
<1>1. Inv /\ ReportInv /\ \A s \in Requests : Issued(s)
  BY DEF ControlInv, ReportInv
<1>2. ReportInv'
  BY <1>1, FixtureReport
<1>3. /\ UNCHANGED <<call, client, thread, entry, proxy, phase, report, behavior, control, page>>
      /\ messages \subseteq messages'
      /\ \A s \in Requests : s # r => srv'[s] = srv[s] /\ saw'[s] = saw[s]
      /\ srv'[r] = "updated" => Is(r, "save")
      /\ srv'[r] = "ok" => \/ saw'[r] = messages
                           \/ Is(r, "create") \/ srv[r] = "updated"
  BY <1>1, FixtureEffect DEF controlVars
<1>4. ControlTypeOK' /\ Course'
  BY <1>3 DEF ControlInv, ControlTypeOK, Course, Lost
<1>5. ASSUME NEW s \in Requests
      PROVE  Issued(s)'
  BY <1>1, <1>3 DEF Issued, Dropped, CallOf
<1>6. ReadAgain'
  <2>1. CASE r # "reload"
    BY <1>3, <2>1, Roles DEF ControlInv, ReadAgain
  <2>2. CASE r = "reload"
    <3>1. ~Is(r, "save") /\ ~Is(r, "create") /\ srv[r] # "updated"
      BY <1>1, <2>2, Called DEF ControlInv, ReadAgain
    <3>2. srv'[r] = "ok" => "send" \in messages
      <4>1. srv'[r] = "ok" => call[r] # NoCall
        BY <1>2, <1>3 DEF ReportInv, Inv, DBInv, CallsFit
      <4> QED
        BY <1>1, <2>2, <4>1, LostIsDurable DEF ControlInv, Course, Issued
    <3> QED
      BY <1>3, <2>2, <3>1, <3>2 DEF ControlInv, ReadAgain
  <2> QED
    BY <2>1, <2>2
<1>7. Believes' /\ Evidence'
  BY <1>3 DEF ControlInv, Believes, Listed, Evidence
<1> QED
  BY <1>2, <1>4, <1>5, <1>6, <1>7 DEF ControlInv

\* What a client knows outlives the browser; a report taken after quiescence, or
\* after the proxy was joined, has the requests that were answered or dropped.
LEMMA HarnessControl ==
  ASSUME ControlInv, HarnessStep
  PROVE  ControlInv'
PROOF
<1>1. Inv /\ ReportInv /\ \A s \in Requests : Local(s) /\ Numbers(s) /\ Issued(s)
  BY DEF ControlInv, ReportInv, Inv
<1>2. Harness /\ UNCHANGED controlVars /\ ReportInv'
  BY <1>1, HarnessReport DEF HarnessStep
<1>3. UNCHANGED <<call, messages, srv, saw, thread, entry, proxy, behavior, control, page>>
  BY <1>2 DEF Harness, CloseBrowser, CloseBrowserLosing, AwaitQuiescence, TakeReport,
              TakeSnapshot, DiscardReport, Join, dbVars, controlVars
<1>4. \A s \in Requests :
        client'[s] = client[s] \/ (client[s] \in {"connected", "waiting"} /\ client'[s] = "gone")
  BY <1>2 DEF Harness, CloseBrowser, CloseBrowserLosing, AwaitQuiescence, TakeReport,
              TakeSnapshot, DiscardReport, Join
<1>5. {"send", "reload", "resend"} \subseteq Requests
  BY Roles
<1>6. ControlTypeOK'
  BY <1>3 DEF ControlInv, ControlTypeOK
<1>7. ASSUME NEW s \in Requests
      PROVE  Issued(s)'
  <2>1. Issued(s) /\ (s \in Dropped' <=> s \in Dropped) /\ CallOf(s)' = CallOf(s)
    BY <1>1, <1>3 DEF Dropped, CallOf
  <2> QED
    BY <1>3, <1>4, <2>1 DEF Issued
<1>8. Course' /\ ReadAgain'
  BY <1>3, <1>4, <1>5 DEF ControlInv, Course, Lost, ReadAgain
<1>9. Believes'
  <2>1. Listed => Listed'
    BY <1>3, <1>4, <1>5 DEF Listed
  <2> QED
    BY <1>3, <2>1 DEF ControlInv, Believes
<1>10. Evidence'
  <2>1. phase' # "baseline" \/ report'.taken => control \in {"returned", "raised"}
    BY <1>2 DEF HarnessStep, ControlInv, Evidence, Harness, CloseBrowser, CloseBrowserLosing,
                AwaitQuiescence, TakeReport, TakeSnapshot, DiscardReport, NotTaken, Join
  <2>2. ASSUME control = "returned", behavior = "exact"
        PROVE  /\ phase' \in {"quiescent", "capturing"} =>
                    thread["send"] = "finished" /\ thread["reload"] = "finished"
               /\ report'.taken => /\ "send" \in report'.of.attempts
                                   /\ {"send", "reload"} \subseteq report'.of.requests
    <3>1. Lost /\ Listed
      BY <2>2 DEF ControlInv, Course, Believes
    <3>2. thread["send"] \in Active \cup {"finished"} /\ thread["reload"] \in Active \cup {"finished"}
      BY <1>1, <1>5, <3>1 DEF Inv, TypeOK, Local, Lost, Listed, Untreated, Unanswered
    <3>3. (\A s \in Requests : thread[s] \notin Active) =>
            thread["send"] = "finished" /\ thread["reload"] = "finished"
      BY <1>5, <3>2
    <3>4. thread["send"] = "finished" /\ thread["reload"] = "finished" =>
            /\ "send" \in proxy.attempts /\ {"send", "reload"} \subseteq proxy.requests
      <4>1. entry["send"].upstream # "none" /\ entry["reload"].upstream # "none"
        BY <1>1, <1>5, <3>1, LostIsDurable DEF Local, Listed
      <4>2. IsSend("send")
        BY <1>1, <1>5, <3>1, Called, Roles DEF Issued, Lost, Sends
      <4> QED
        BY <1>1, <1>5, <4>1, <4>2 DEF Numbers, Settled, Recorded
    <3>5. CASE CloseBrowser \/ TakeSnapshot \/ DiscardReport
      BY <1>3, <2>2, <3>5 DEF ControlInv, Evidence, CloseBrowser, CloseBrowserLosing,
                              TakeSnapshot, DiscardReport, NotTaken
    <3>6. CASE AwaitQuiescence
      <4>1. phase' = "quiescent" => \A s \in Requests : thread[s] \notin Active
        BY <1>1, <3>6, ActiveFinite, FS_EmptySet
           DEF AwaitQuiescence, Inv, InFlightExact, ActiveThreads
      <4> QED
        BY <1>3, <2>2, <3>3, <3>6, <4>1 DEF ControlInv, Evidence, AwaitQuiescence
    <3>7. CASE Join
      BY <1>3, <2>2, <3>3, <3>7 DEF ControlInv, Evidence, Join
    <3>8. CASE TakeReport
      BY <1>3, <2>2, <3>4, <3>8 DEF ControlInv, Evidence, TakeReport
    <3> QED
      BY <1>2, <3>5, <3>6, <3>7, <3>8 DEF Harness
  <2> QED
    BY <1>3, <2>1, <2>2 DEF Evidence
<1> QED
  BY <1>2, <1>6, <1>7, <1>8, <1>9, <1>10 DEF ControlInv
-----------------------------------------------------------------------------
(* The steps of the control and of the page *)

\* A step of the control that fetches, from one wait to the next.
LEMMA FetchControl ==
  ASSUME ControlInv, NEW r \in Sends \cup Listings, NEW left, Fetch(r, left),
         ControlTypeOK', behavior' = behavior,
         control \notin {"returned", "raised"}, control' \notin {"returned", "raised"},
         r \in {"reload", "resend"} => Lost,
         r = "resend" => behavior = "naive_retry",
         control' \in {"reopening", "reconciling", "reselecting", "awaiting_answer"} => Lost,
         behavior = "exact" => control' \notin {"reselecting", "awaiting_answer"},
         behavior = "naive_retry" => control' \notin {"reopening", "reconciling"},
         control' = "reconciling" => page'.fetches \subseteq {"reload"} /\ ~page'.loaded
  PROVE  ControlInv'
PROOF
<1>1. /\ ReportInv' /\ \A s \in Requests : Issued(s)'
      /\ client[r] = "idle" /\ client'[r] = "waiting" /\ srv[r] = "idle"
      /\ entry[r].request_seq = 0
      /\ \A s \in Requests : s # r =>
           client'[s] = client[s] \/ (client[s] = "waiting" /\ client'[s] = "gone")
      /\ UNCHANGED <<messages, srv, saw, entry, phase, report>>
      /\ \A s \in Requests : s # r => thread'[s] = thread[s]
  BY FetchEffect
<1>2. {"send", "reload", "resend"} \subseteq Requests
  BY Roles
<1>3. Lost => Lost'
  BY <1>1, <1>2 DEF Lost
<1>4. Course'
  BY <1>1, <1>2, <1>3 DEF ControlInv, Course
<1>5. ReadAgain'
  BY <1>1 DEF ControlInv, ReadAgain
<1>6. Believes' /\ Evidence'
  BY <1>1 DEF ControlInv, Believes, Evidence
<1> QED
  BY <1>1, <1>4, <1>5, <1>6 DEF ControlInv

\* A step of the control alone.
LEMMA QuietControl ==
  ASSUME ControlInv, UNCHANGED <<vars, behavior, page>>,
         control \notin {"returned", "raised"}, ControlTypeOK',
         control' \in {"reopening", "reselecting", "returned"} => Lost,
         behavior = "exact" => control' # "reselecting",
         behavior = "naive_retry" => control' # "reopening",
         control' \in {"reopening", "reselecting", "returned", "raised"},
         control' = "returned" => IF behavior = "exact" THEN Listed ELSE "resend" \in messages
  PROVE  ControlInv'
PROOF
<1>1. ReportInv'
  BY StutterReport DEF ControlInv
<1>2. /\ UNCHANGED <<call, messages, srv, saw, client, thread, entry, proxy, phase, report>>
      /\ UNCHANGED <<behavior, page>>
  BY DEF vars, dbVars
<1>3. \A s \in Requests : Issued(s)'
  BY <1>2 DEF ControlInv, Issued, Dropped, CallOf
<1>4. Course' /\ ReadAgain'
  BY <1>2 DEF ControlInv, Course, Lost, ReadAgain
<1>5. Believes'
  BY <1>2 DEF Believes, Listed
<1>6. phase = "baseline" /\ ~report.taken
  BY DEF ControlInv, Evidence
<1>7. Evidence'
  BY <1>2, <1>6 DEF Evidence
<1> QED
  BY <1>1, <1>3, <1>4, <1>5, <1>7 DEF ControlInv
LEMMA ControlStep == ControlInv /\ Control => ControlInv'
PROOF
<1> SUFFICES ASSUME ControlInv, Control
             PROVE  ControlInv'
  OBVIOUS
<1> USE DEF ControlInv, ControlTypeOK, Goes
<1>1. {"load", "reload", "send", "resend"} = Sends \cup Listings /\ "resend" \in Requests
  BY Roles DEF Sends, Listings
<1>2. CASE Open
  <2>1. Fetch("load", Requests) /\ page' = RefreshSent(NewPage, "load")
    BY <1>2 DEF Open, Goto
  <2>2. page' \in [rows : SUBSET Requests, loaded : BOOLEAN, fetches : SUBSET Listings]
    BY <2>1 DEF RefreshSent, NewPage, Listings
  <2>3. ControlTypeOK'
    BY <1>2, <2>2 DEF Open
  <2> QED
    BY <1>1, <1>2, <2>1, <2>3, FetchControl DEF Open
<1>3. CASE ClickSend
  <2>1. Fetch("send", {}) /\ page' = page
    BY <1>3 DEF ClickSend, Click
  <2>2. ControlTypeOK'
    BY <1>3, <2>1 DEF ClickSend
  <2> QED
    BY <1>1, <1>3, <2>1, <2>2, FetchControl DEF ClickSend
<1>4. CASE Reopen
  <2>1. Fetch("reload", Requests) /\ page' = RefreshSent(NewPage, "reload")
    BY <1>4 DEF Reopen, Goto
  <2>2. /\ page' \in [rows : SUBSET Requests, loaded : BOOLEAN, fetches : SUBSET Listings]
        /\ page'.fetches \subseteq {"reload"} /\ ~page'.loaded
    BY <2>1 DEF RefreshSent, NewPage, Listings
  <2>3. ControlTypeOK' /\ Lost /\ behavior = "exact"
    BY <1>4, <2>2 DEF Reopen, Course
  <2> QED
    BY <1>1, <1>4, <2>1, <2>2, <2>3, FetchControl DEF Reopen
<1>5. CASE ClickAgain
  <2>1. Fetch("resend", {}) /\ page' = page
    BY <1>5 DEF ClickAgain, Click
  <2>2. ControlTypeOK' /\ Lost /\ behavior = "naive_retry"
    BY <1>5, <2>1 DEF ClickAgain, Course
  <2> QED
    BY <1>1, <1>5, <2>1, <2>2, FetchControl DEF ClickAgain
<1>6. CASE SendFailed
  BY <1>6, QuietControl DEF SendFailed, Lost
<1>7. CASE Decide
  <2>1. Lost /\ behavior = "exact" /\ Listed /\ page.rows # {}
    BY <1>7 DEF Decide, DecideWhen, Course, Believes
  <2> QED
    BY <1>7, <2>1, QuietControl DEF Decide, DecideWhen
<1>8. CASE Answer
  <2>1. Lost /\ behavior = "naive_retry"
    BY <1>8 DEF Answer, Course
  <2>2. entry["resend"].upstream = "committed" => "resend" \in messages
    BY <1>1 DEF ReportInv, Inv, Local, Answers, DBInv, RowsMatch
  <2> QED
    BY <1>8, <2>1, <2>2, QuietControl DEF Answer
<1>9. CASE TimeOut
  BY <1>9, QuietControl DEF TimeOut, Waiting
<1> QED
  BY <1>2, <1>3, <1>4, <1>5, <1>6, <1>7, <1>8, <1>9 DEF Control

\* The rows that answer the reload have the send's message among them.
LEMMA RenderStep == ControlInv /\ Page => ControlInv'
PROOF
<1> SUFFICES ASSUME ControlInv, Page
             PROVE  ControlInv'
  OBVIOUS
<1>1. PICK r \in Listings : Render(r)
  BY DEF Page
<1>2. r \in Requests /\ Inv /\ Local(r)
  BY RolesAssumption DEF ControlInv, ReportInv, Inv
<1>3. ReportInv'
  BY <1>1, StutterReport DEF ControlInv, Render
<1>4. /\ UNCHANGED <<call, messages, srv, saw, client, thread, entry, proxy, phase, report>>
      /\ UNCHANGED <<behavior, control>>
      /\ r \in page.fetches /\ client[r] = "answered" /\ entry[r].upstream = "ok"
      /\ page' = [rows |-> saw[r], loaded |-> TRUE, fetches |-> page.fetches \ {r}]
  BY <1>1 DEF Render, vars, dbVars
<1>5. ControlTypeOK'
  <2>1. saw[r] \subseteq Requests /\ page.fetches \subseteq Listings
    BY <1>2 DEF ControlInv, ControlTypeOK, Inv, TypeOK, DBTypeOK
  <2> QED
    BY <1>4, <2>1 DEF ControlInv, ControlTypeOK
<1>6. \A s \in Requests : Issued(s)'
  BY <1>4 DEF ControlInv, Issued, Dropped, CallOf
<1>7. Course' /\ ReadAgain' /\ Evidence'
  BY <1>4 DEF ControlInv, Course, Lost, ReadAgain, Evidence
<1>8. Believes'
  <2>1. Listed' = Listed
    BY <1>4 DEF Listed
  <2>2. ASSUME control = "reconciling"
        PROVE  page'.fetches \subseteq {"reload"} /\ Listed /\ page'.rows # {}
    <3>1. r = "reload" /\ page.fetches \subseteq {"reload"}
      BY <1>4, <2>2 DEF ControlInv, Believes
    <3>2. srv["reload"] = "ok"
      BY <1>2, <1>4, <3>1 DEF Local, Answers
    <3>3. "send" \in page'.rows
      BY <1>4, <3>1, <3>2 DEF ControlInv, ReadAgain
    <3> QED
      BY <1>4, <3>1, <3>3 DEF Listed
  <2> QED
    BY <1>4, <2>1, <2>2 DEF ControlInv, Believes
<1> QED
  BY <1>3, <1>5, <1>6, <1>7, <1>8 DEF ControlInv

-----------------------------------------------------------------------------
(* Theorems *)

LEMMA InitControl == ControlInit => ControlInv
PROOF
<1> SUFFICES ASSUME ControlInit
             PROVE  ControlInv
  OBVIOUS
<1>1. ReportInv
  BY InitReport DEF ControlInit
<1>2. ControlTypeOK
  BY DEF ControlInit, ControlTypeOK, NewPage
<1>3. \A r \in Requests : Issued(r)
  BY DEF ControlInit, Init, DBInit, Issued
<1>4. Course /\ Believes /\ Evidence
  BY Roles DEF ControlInit, Init, ReceiptsInit, NotTaken, Course, Believes, Evidence
<1>5. ReadAgain
  BY Roles DEF ControlInit, Init, DBInit, ReceiptsInit, NewEntry, ReadAgain
<1> QED
  BY <1>1, <1>2, <1>3, <1>4, <1>5 DEF ControlInv

LEMMA StutterControl == ControlInv /\ UNCHANGED runVars => ControlInv'
PROOF
<1> SUFFICES ASSUME ControlInv, UNCHANGED runVars
             PROVE  ControlInv'
  OBVIOUS
<1>1. ReportInv'
  BY StutterReport DEF ControlInv, runVars
<1>2. /\ UNCHANGED <<call, messages, srv, saw, client, thread, entry, proxy, phase, report>>
      /\ UNCHANGED <<behavior, control, page>>
  BY DEF runVars, controlVars, vars, dbVars
<1>3. ControlTypeOK' /\ Course' /\ ReadAgain' /\ Believes' /\ Evidence'
  BY <1>2 DEF ControlInv, ControlTypeOK, Course, Lost, ReadAgain, Believes, Listed, Evidence
<1>4. \A s \in Requests : Issued(s)'
  BY <1>2 DEF ControlInv, Issued, Dropped, CallOf
<1> QED
  BY <1>1, <1>3, <1>4 DEF ControlInv

\* ControlInv, and with it the proxy's ReportInv, is an invariant of the whole run.
THEOREM ControlInvariant == ControlSpec => []ControlInv
PROOF
<1>1. ControlInv /\ [ControlNext]_runVars => ControlInv'
  <2> SUFFICES ASSUME ControlInv, [ControlNext]_runVars
               PROVE  ControlInv'
    OBVIOUS
  <2>1. ASSUME NEW r \in Requests, ThreadStep(r)
        PROVE  ControlInv'
    BY <2>1, StartFailsControl, ThreadControl DEF ThreadStep
  <2>2. ASSUME NEW r \in Requests, FixtureStep(r)
        PROVE  ControlInv'
    BY <2>2, FixtureControl DEF FixtureStep
  <2>3. CASE (Over /\ UNCHANGED controlVars) \/ UNCHANGED runVars
    BY <2>3, StutterControl DEF Over, runVars
  <2> QED
    BY <2>1, <2>2, <2>3, ControlStep, RenderStep, HarnessControl DEF ControlNext
<1> QED
  BY <1>1, InitControl, PTL DEF ControlSpec

\* Only sends are ever durable.
LEMMA OnlySends == ControlInv => messages \subseteq Sends /\ \A r \in messages : call[r] # NoCall
PROOF
<1> SUFFICES ASSUME ControlInv, NEW r \in messages
             PROVE  r \in Sends /\ call[r] # NoCall
  BY DEF ControlInv
<1>1. r \in Requests /\ IsSend(r)
  BY DEF ControlInv, ReportInv, Inv, TypeOK, DBTypeOK, DBInv, RowsMatch, CallsFit, IsSend
<1> QED
  BY <1>1, Called DEF ControlInv

LEMMA ExactSends == ControlInv /\ behavior = "exact" => messages \subseteq {"send"}
PROOF
<1> SUFFICES ASSUME ControlInv, behavior = "exact", NEW r \in messages
             PROVE  r = "send"
  OBVIOUS
<1>1. client["resend"] = "idle" /\ "resend" \in Requests
  BY Roles DEF ControlInv, Course
<1>2. call["resend"] = NoCall
  BY <1>1 DEF ControlInv, Issued
<1> QED
  BY <1>2, OnlySends DEF Sends

\* Whatever is slow, lost or timed out, and whichever commit is dropped, the
\* reconciling control never sends twice.
THEOREM ControlSendsOnce == ControlSpec => []ExactSendsOnce
PROOF
<1>1. ControlInv => ExactSendsOnce
  <2> SUFFICES ASSUME ControlInv, behavior = "exact"
               PROVE  Cardinality(messages) <= 1
    BY DEF ExactSendsOnce
  <2>1. messages \subseteq {"send"}
    BY ExactSends
  <2>2. messages = {} \/ messages = {"send"}
    BY <2>1
  <2>3. Cardinality({}) = 0 /\ Cardinality({"send"}) = 1
    BY FS_EmptySet, FS_Singleton
  <2> QED
    BY <2>2, <2>3
<1> QED
  BY <1>1, ControlInvariant, PTL

\* A control that returns believes its message sent, and it is: once for the
\* reconciling control, twice for the blind retry.
THEOREM ControlReturnedIsSent == ControlSpec => []ReturnedIsSent
PROOF
<1>1. ControlInv => ReturnedIsSent
  <2> SUFFICES ASSUME ControlInv, control = "returned"
               PROVE  Cardinality(messages) = IF behavior = "exact" THEN 1 ELSE 2
    BY DEF ReturnedIsSent
  <2>1. "send" \in messages /\ messages \subseteq Sends
    BY LostIsDurable, OnlySends DEF ControlInv, Course
  <2>2. CASE behavior = "exact"
    <3>1. messages = {"send"}
      BY <2>1, <2>2, ExactSends
    <3> QED
      BY <2>2, <3>1, FS_Singleton
  <2>3. CASE behavior # "exact"
    <3>1. messages = {"send"} \cup {"resend"}
      BY <2>1, <2>3 DEF ControlInv, Believes, Sends
    <3>2. IsFiniteSet({"send"}) /\ Cardinality({"send"}) = 1 /\ "resend" \notin {"send"}
      BY FS_Singleton
    <3>3. Cardinality(messages) = Cardinality({"send"}) + 1
      BY <3>1, <3>2, FS_AddElement
    <3> QED
      BY <2>3, <3>2, <3>3
  <2> QED
    BY <2>2, <2>3
<1> QED
  BY <1>1, ControlInvariant, PTL

\* A run of the reconciling control that returned, and whose report could be
\* taken, is scored as reconciled.
THEOREM ControlReconciles == ControlSpec => []ReconciliationObserved
PROOF
<1>1. ControlInv => ReconciliationObserved
  <2> SUFFICES ASSUME ControlInv, behavior = "exact", control = "returned", report.taken
               PROVE  ReconciliationStatus = "observed"
    BY DEF ReconciliationObserved
  <2>1. Lost /\ Listed /\ Inv /\ ReportInv
    BY DEF ControlInv, Course, Believes, ReportInv
  <2>2. "send" \in Dropped /\ \A r \in Dropped : r = "send"
    BY <2>1, LostIsDurable, InvTreatmentSound DEF TreatmentSound
  <2>3. "send" \in report.of.attempts /\ {"send", "reload"} \subseteq report.of.requests
    BY DEF ControlInv, Evidence
  <2>4. DroppedSends = {"send"}
    BY <2>2, <2>3 DEF DroppedSends
  <2>5. Is("reload", "list") /\ ~IsSend("resend") /\ {"send", "reload", "resend"} \subseteq Requests
    BY <2>1, Called, Roles DEF ControlInv, Course, Issued, Listed, Listings
  <2>6. LaterSends = {}
    <3> SUFFICES ASSUME NEW r \in LaterSends
                 PROVE  FALSE
      OBVIOUS
    <3>1. r \in Requests /\ IsSend(r) /\ entry[r].request_seq > entry["send"].request_seq
      BY <2>1, <2>4 DEF LaterSends, After, Inv, TypeOK, ProxyStates
    <3>2. r # "send"
      <4>1. entry["send"].request_seq \in Nat
        BY <2>1, <2>5 DEF Inv, TypeOK, Entries
      <4> QED
        BY <3>1, <4>1
    <3>3. r \in Sends
      BY <3>1, Called DEF ControlInv
    <3> QED
      BY <2>5, <3>1, <3>2, <3>3 DEF Sends
  <2>7. "reload" \in ReconciliationRequests
    <3>1. entry["reload"].request_seq # 0
      BY <2>1, <2>5 DEF ReportInv, Numbers, Listed
    <3>2. entry["reload"].request_seq > entry["send"].request_seq
      BY <2>1, <2>5, <3>1 DEF ControlInv, ReadAgain, Inv, TypeOK, Entries
    <3> QED
      BY <2>3, <2>4, <2>5, <2>6, <3>2 DEF ReconciliationRequests, After
  <2>8. Succeeded("reload")
    BY <2>1 DEF Succeeded, Listed
  <2> QED
    BY <2>4, <2>7, <2>8 DEF ReconciliationStatus
<1> QED
  BY <1>1, ControlInvariant, PTL
=============================================================================

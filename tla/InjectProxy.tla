---------------------------- MODULE InjectProxy ----------------------------
(***************************************************************************)
(* The fault-injecting reverse proxy of btb/harness/inject.py between the  *)
(* browser and the fixture, and the part of btb/harness/engine.py that     *)
(* collects its evidence.  Three kinds of processes run at once: one       *)
(* handler thread per accepted connection, the fixture's handlers, and the *)
(* harness, which closes the browser, waits for quiescence, takes the      *)
(* report, takes the after snapshot and shuts the proxy down.              *)
(*                                                                         *)
(* A proxy connection carries one request (every response closes it), so a *)
(* request names its connection and its handler thread too.  engine.py     *)
(* always builds the proxy with inject_send = True.                        *)
(***************************************************************************)
EXTENDS FixtureDB

CONSTANT inject_after_committed   \* the verified commit whose response is dropped

ASSUME NthAssumption == inject_after_committed \in Nat \ {0}
ASSUME FinitelyMany == IsFiniteSet(Requests)   \* a run issues finitely many

VARIABLES
  client,    \* what the browser knows of each connection
  thread,    \* where its handler thread is
  entry,     \* the request and attempt dictionaries its handler fills in
  proxy,     \* InjectProxy's fields: counters and recorded receipts
  phase,     \* where the harness is
  report,    \* the injection report it took
  after      \* the after snapshot it took

vars == <<dbVars, client, thread, entry, proxy, phase, report, after>>

\* A handler thread, from the accept to the end of process_request_thread.
Active == {"accepted", "sequenced", "reading", "forwarding",
           "dropping", "sending", "finalizing", "recording", "finishing"}

\* Sequences are 0 until they are given; upstream is the fixture's answer,
\* "network_error", or "none" while there is no result.
Entries == [request_seq : Nat, attempt_seq : Nat, committed_seq : Nat,
            upstream : {"none", "network_error"} \cup Answers,
            treatment : {"none", "response_forwarded",
                         "downstream_disconnected_before_response",
                         "connection_dropped_after_commit"}]
NewEntry == [request_seq |-> 0, attempt_seq |-> 0, committed_seq |-> 0,
             upstream |-> "none", treatment |-> "none"]

ProxyStates == [in_flight : Nat, next_request_sequence : Nat \ {0},
                next_sequence : Nat \ {0}, committed_count : Nat,
                send_forwards : Nat,
                requests : SUBSET Requests, attempts : SUBSET Requests]
NewProxy == [in_flight |-> 0, next_request_sequence |-> 1, next_sequence |-> 1,
             committed_count |-> 0, send_forwards |-> 0,
             requests |-> {}, attempts |-> {}]

NotTaken == [taken |-> FALSE, of |-> NewProxy]

TypeOK ==
  /\ DBTypeOK
  /\ client \in [Requests -> {"idle", "connected", "waiting", "answered", "lost", "gone"}]
  /\ thread \in [Requests -> {"none", "backlog", "finished"} \cup Active]
  /\ entry \in [Requests -> Entries]
  /\ proxy \in ProxyStates
  /\ phase \in {"baseline", "closing", "quiescent", "reported",
                "stopping", "capturing", "captured", "done"}
  /\ report \in [taken : BOOLEAN, of : ProxyStates]
  /\ after \in [taken : BOOLEAN, messages : SUBSET Requests]

ReceiptsInit ==
  /\ entry = [r \in Requests |-> NewEntry]
  /\ proxy = NewProxy
  /\ phase = "baseline"
  /\ report = NotTaken
  /\ after = [taken |-> FALSE, messages |-> {}]

Init ==
  /\ DBInit
  /\ client = [r \in Requests |-> "idle"]
  /\ thread = [r \in Requests |-> "none"]
  /\ ReceiptsInit

IsSend(r)  == Is(r, "send")
HasBody(r) == call[r].op \in {"send", "create"}

InThread(r, place) == thread[r] = place
Continue(r, place) == thread' = [thread EXCEPT ![r] = place]

-----------------------------------------------------------------------------
(* The browser *)

\* A connection reaches the listen backlog; the browser may open one before it
\* has a request for it.
Connect(r) ==
  /\ phase = "baseline"
  /\ client[r] = "idle"
  /\ client' = [client EXCEPT ![r] = "connected"]
  /\ Continue(r, "backlog")
  /\ UNCHANGED <<dbVars, entry, proxy, phase, report, after>>

\* The request goes out, possibly before the proxy accepts the connection.
SendRequest(r, c) ==
  /\ client[r] = "connected"
  /\ c.op = "create" => RoomForDraft
  /\ call' = [call EXCEPT ![r] = c]
  /\ client' = [client EXCEPT ![r] = "waiting"]
  /\ UNCHANGED <<drafts, messages, send_attempts, writer, srv, saw>>
  /\ UNCHANGED <<thread, entry, proxy, phase, report, after>>

\* A navigation or a closed tab abandons the connection.
Leave(r) ==
  /\ client[r] \in {"connected", "waiting"}
  /\ client' = [client EXCEPT ![r] = "gone"]
  /\ UNCHANGED <<dbVars, thread, entry, proxy, phase, report, after>>

-----------------------------------------------------------------------------
(* A handler thread of the proxy *)

AcceptCounting(r, n) ==
  /\ InThread(r, "backlog")
  /\ phase \in {"baseline", "closing", "quiescent", "reported"}
  /\ proxy' = [proxy EXCEPT !.in_flight = @ + n]
  /\ Continue(r, "accepted")
  /\ UNCHANGED <<dbVars, client, entry, phase, report, after>>

\* Mutant of Accept: the connection is not counted.
Accept_Uncounted(r) == AcceptCounting(r, 0)

\* process_request counts the connection before its thread starts.
Accept(r) == AcceptCounting(r, 1)

\* The thread of an accepted connection does not start: process_request counts
\* the connection out again, and the server closes it.
StartFails(r) ==
  /\ InThread(r, "accepted")
  /\ client' = [client EXCEPT ![r] = IF @ \in {"connected", "waiting"} THEN "lost" ELSE @]
  /\ Continue(r, "finishing")
  /\ UNCHANGED <<dbVars, entry, proxy, phase, report, after>>

NoRequestLineCounting(r, n) ==
  /\ InThread(r, "accepted") /\ client[r] = "gone"
  /\ proxy' = [proxy EXCEPT !.in_flight = @ - n]
  /\ Continue(r, "finishing")
  /\ UNCHANGED <<dbVars, client, entry, phase, report, after>>

\* Mutant of NoRequestLine: counted out twice.
NoRequestLine_Twice(r) == NoRequestLineCounting(r, 1)

\* The peer closes before a request line arrives: no request, no receipt.
NoRequestLine(r) == NoRequestLineCounting(r, 0)

\* _new_request
NewRequest(r) ==
  /\ InThread(r, "accepted") /\ call[r] # NoCall
  /\ entry' = [entry EXCEPT ![r].request_seq = proxy.next_request_sequence]
  /\ proxy' = [proxy EXCEPT !.next_request_sequence = @ + 1]
  /\ Continue(r, IF IsSend(r) THEN "sequenced" ELSE "reading")
  /\ UNCHANGED <<dbVars, client, phase, report, after>>

\* _new_attempt, under a second acquisition of the lock
NewAttempt(r) ==
  /\ InThread(r, "sequenced")
  /\ entry' = [entry EXCEPT ![r].attempt_seq = proxy.next_sequence]
  /\ proxy' = [proxy EXCEPT !.next_sequence = @ + 1]
  /\ Continue(r, "reading")
  /\ UNCHANGED <<dbVars, client, phase, report, after>>

\* _read_body raises on a connection the peer reset.
BodyLost(r) ==
  /\ InThread(r, "reading") /\ HasBody(r) /\ client[r] = "gone"
  /\ Continue(r, "finalizing")
  /\ UNCHANGED <<dbVars, client, entry, proxy, phase, report, after>>

\* _forward counts a send before anything can go wrong with it.
CountForward(r) ==
  proxy' = [proxy EXCEPT !.send_forwards = IF IsSend(r) THEN @ + 1 ELSE @]

\* The request reaches the fixture: its handler, or a refusal (a token that
\* does not match, a body cut short by a peer that left).
Forward(r) ==
  /\ InThread(r, "reading")
  /\ CountForward(r)
  /\ Deliver(r) \/ Refuse(r)
  /\ Continue(r, "forwarding")
  /\ UNCHANGED <<client, entry, phase, report, after>>

\* httpx raises before the request reaches the fixture.
ConnectFails(r) ==
  /\ InThread(r, "reading")
  /\ CountForward(r)
  /\ entry' = [entry EXCEPT ![r].upstream = "network_error"]
  /\ Continue(r, "sending")
  /\ UNCHANGED <<dbVars, client, phase, report, after>>

UpstreamAnswersTreating(r, inject) ==
  /\ InThread(r, "forwarding") /\ Answered(r)
  /\ IF IsSend(r) /\ srv[r] = "committed"
     THEN /\ proxy' = [proxy EXCEPT !.committed_count = @ + 1]
          /\ entry' = [entry EXCEPT ![r].upstream = srv[r],
                                    ![r].committed_seq = proxy.committed_count + 1]
          /\ Continue(r, IF inject THEN "dropping" ELSE "sending")
     ELSE /\ entry' = [entry EXCEPT ![r].upstream = srv[r]]
          /\ Continue(r, "sending")
          /\ UNCHANGED proxy
  /\ UNCHANGED <<dbVars, client, phase, report, after>>

\* Mutant of UpstreamAnswers: every verified commit from the Nth on is treated.
UpstreamAnswers_FromNth(r) ==
  UpstreamAnswersTreating(r, proxy.committed_count + 1 >= inject_after_committed)

\* The fixture's answer arrives and _forward classifies it by its body; a
\* verified commit is counted under the lock by _register_verified_commit,
\* whose result decides the treatment.
UpstreamAnswers(r) ==
  UpstreamAnswersTreating(r, proxy.committed_count + 1 = inject_after_committed)

UpstreamFailsAs(r, result) ==
  /\ InThread(r, "forwarding")
  /\ entry' = [entry EXCEPT ![r].upstream = result]
  /\ Continue(r, "sending")
  /\ UNCHANGED <<dbVars, client, proxy, phase, report, after>>

\* Mutants of UpstreamFails: a timed-out send is presumed committed; it is
\* passed on as the fixture's own error.
UpstreamFails_Presumed(r) == UpstreamFailsAs(r, "committed")
UpstreamFails_Refused(r)  == UpstreamFailsAs(r, "error")

\* upstream_timeout, or a lost answer, wherever the fixture's handler is: it
\* runs on, and a send may still commit.
UpstreamFails(r) == UpstreamFailsAs(r, "network_error")

\* _drop_downstream_connection emits nothing and resets the connection.
Drop(r) ==
  /\ InThread(r, "dropping")
  /\ entry' = [entry EXCEPT ![r].treatment = "connection_dropped_after_commit"]
  /\ client' = [client EXCEPT ![r] = IF @ = "waiting" THEN "lost" ELSE @]
  /\ Continue(r, "finalizing")
  /\ UNCHANGED <<dbVars, proxy, phase, report, after>>

\* _forward_downstream.  Writing to a peer that left fails or is absorbed by
\* the socket buffer.
ForwardDownstream(r) ==
  /\ InThread(r, "sending")
  /\ \E t \in {"response_forwarded", "downstream_disconnected_before_response"} :
       /\ t = "response_forwarded" \/ client[r] = "gone"
       /\ entry' = [entry EXCEPT ![r].treatment = t]
  /\ client' = [client EXCEPT ![r] = IF @ = "waiting" THEN "answered" ELSE @]
  /\ Continue(r, "finalizing")
  /\ UNCHANGED <<dbVars, proxy, phase, report, after>>

RecordRequestCounting(r, n) ==
  /\ InThread(r, "finalizing")
  /\ proxy' = [proxy EXCEPT !.requests = @ \cup {r}, !.in_flight = @ - n]
  /\ Continue(r, IF IsSend(r) THEN "recording" ELSE "finishing")
  /\ UNCHANGED <<dbVars, client, entry, phase, report, after>>

\* Mutant of RecordRequest: the handler is counted out before its attempt is
\* recorded.
RecordRequest_CountsOut(r) == RecordRequestCounting(r, 1)

\* The finally block: _record_request ...
RecordRequest(r) == RecordRequestCounting(r, 0)

\* ... then _record_attempt
RecordAttempt(r) ==
  /\ InThread(r, "recording")
  /\ proxy' = [proxy EXCEPT !.attempts = @ \cup {r}]
  /\ Continue(r, "finishing")
  /\ UNCHANGED <<dbVars, client, entry, phase, report, after>>

FinishCounting(r, n) ==
  /\ InThread(r, "finishing")
  /\ proxy' = [proxy EXCEPT !.in_flight = @ - n]
  /\ Continue(r, "finished")
  /\ UNCHANGED <<dbVars, client, entry, phase, report, after>>

\* Mutant of Finish: only recorded requests are counted out.
Finish_Recorded(r) == FinishCounting(r, IF r \in proxy.requests THEN 1 ELSE 0)

\* _request_finished
Finish(r) == FinishCounting(r, 1)

Thread(r) ==
  \/ NoRequestLine(r)
  \/ NewRequest(r)
  \/ NewAttempt(r)
  \/ BodyLost(r)
  \/ Forward(r)
  \/ ConnectFails(r)
  \/ UpstreamAnswers(r)
  \/ UpstreamFails(r)
  \/ Drop(r)
  \/ ForwardDownstream(r)
  \/ RecordRequest(r)
  \/ RecordAttempt(r)
  \/ Finish(r)

Fixture(r) == Handle(r) /\ UNCHANGED <<client, thread, entry, proxy, phase, report, after>>

-----------------------------------------------------------------------------
(* The harness *)

CloseBrowserLosing(open) ==
  /\ phase = "baseline"
  /\ phase' \in {"closing", "stopping"}
  /\ client' = [r \in Requests |-> IF client[r] \in open THEN "gone" ELSE client[r]]
  /\ UNCHANGED <<dbVars, thread, entry, proxy, report, after>>

\* Mutant of CloseBrowser: the pages go, the connection pool stays.
CloseBrowser_PoolStays == CloseBrowserLosing({"waiting"})

\* The baseline ends, with a result or with an exception, and the context and
\* the browser close: every open connection is abandoned, the idle ones too.
CloseBrowser == CloseBrowserLosing({"connected", "waiting"})

\* wait_for_quiescence returns True, or its timeout makes _injection_report
\* raise.
AwaitQuiescence ==
  /\ phase = "closing"
  /\ phase' = IF proxy.in_flight = 0 THEN "quiescent" ELSE "stopping"
  /\ UNCHANGED <<dbVars, client, thread, entry, proxy, report, after>>

\* report(): one acquisition of the lock, after the one that saw quiescence.
\* A failed run takes it from the proxy it has already shut down, after a wait
\* for quiescence of its own.
TakeReport ==
  /\ phase = "quiescent" \/ (phase = "capturing" /\ proxy.in_flight = 0)
  /\ phase' = IF phase = "quiescent" THEN "reported" ELSE "captured"
  /\ report' = [taken |-> TRUE, of |-> proxy]
  /\ UNCHANGED <<dbVars, client, thread, entry, proxy, after>>

\* snapshot() of the tables, a read of its own after the report.
TakeSnapshot ==
  /\ phase \in {"reported", "captured"}
  /\ phase' = IF phase = "reported" THEN "stopping" ELSE "done"
  /\ after' = [taken |-> TRUE, messages |-> messages]
  /\ UNCHANGED <<dbVars, client, thread, entry, proxy, report>>

\* The snapshot or the evaluation fails: the report never reaches the builder,
\* and evidence is taken anew once the proxy is down.
DiscardReport ==
  /\ phase = "reported"
  /\ phase' = "stopping"
  /\ report' = NotTaken
  /\ UNCHANGED <<dbVars, client, thread, entry, proxy, after>>

\* shutdown() has stopped the accept loop; server_close joins every handler.
Join ==
  /\ phase = "stopping"
  /\ \A r \in Requests : thread[r] \notin Active
  /\ phase' = IF report.taken THEN "done" ELSE "capturing"
  /\ UNCHANGED <<dbVars, client, thread, entry, proxy, report, after>>

Harness == CloseBrowser \/ AwaitQuiescence \/ TakeReport \/ TakeSnapshot \/ DiscardReport \/ Join

Over == /\ phase = "done"
        /\ \A r \in Requests : srv[r] = "idle" \/ Answered(r)
        /\ UNCHANGED vars

Next ==
  \/ \E r \in Requests : \/ Connect(r) \/ Leave(r) \/ Accept(r) \/ StartFails(r)
                         \/ Thread(r) \/ Fixture(r)
                         \/ \E c \in Calls(r) : SendRequest(r, c)
  \/ Harness
  \/ Over

Spec == Init /\ [][Next]_vars

-----------------------------------------------------------------------------
(* Properties *)

Classification(r) ==
  CASE entry[r].upstream \in {"committed", "duplicate_rejected"} -> entry[r].upstream
    [] entry[r].upstream \in {"none", "network_error"}          -> "network_error"
    [] OTHER                                              -> "rejected"

Dropped == {r \in Requests : entry[r].treatment = "connection_dropped_after_commit"}

\* The treatment: however sends overlap, at most one connection is dropped, it
\* is the configured verified commit, its message is durable, and its client
\* never sees a response.
TreatmentSound ==
  /\ \A r, s \in Dropped : r = s
  /\ \A r \in Dropped :
       /\ Classification(r) = "committed" /\ entry[r].committed_seq = inject_after_committed
       /\ r \in messages
       /\ client[r] \in {"lost", "gone"}

\* The sequence numbers seq gives are 1..n, no gap and no repetition.
Contiguous(seq) ==
  /\ {seq[r] : r \in DOMAIN seq} = 1..Cardinality(DOMAIN seq)
  /\ \A r, s \in DOMAIN seq : seq[r] = seq[s] => r = s

CommittedIn(S) == {r \in S : Classification(r) = "committed"}

\* A report taken with nothing in flight misses nothing (the trace rules of
\* validate_manifest._injection_invariants): every sequence number handed out
\* is in it, every attempt has its request, every counted forward its attempt,
\* every verified commit its place in the count, and the treatment, if it was
\* given, its receipt.
QuiescentReportComplete ==
  report.taken /\ report.of.in_flight = 0 =>
    LET attempts  == report.of.attempts
        committed == CommittedIn(attempts)
    IN  /\ Contiguous([r \in report.of.requests |-> entry[r].request_seq])
        /\ Contiguous([r \in attempts |-> entry[r].attempt_seq])
        /\ Contiguous([r \in committed |-> entry[r].committed_seq])
        /\ attempts = {r \in report.of.requests : IsSend(r)}
        /\ report.of.send_forwards = Cardinality({r \in attempts : entry[r].upstream # "none"})
        /\ Dropped \cap report.of.requests \subseteq attempts

\* validate_manifest asks more: "verified commits must have contiguous
\* committed_sequence values", read off in attempt order.
CommitsReportedInOrder ==
  report.taken /\ report.of.in_flight = 0 =>
    \A r, s \in CommittedIn(report.of.attempts) :
      entry[r].attempt_seq < entry[s].attempt_seq =>
        entry[r].committed_seq < entry[s].committed_seq

\* Report and snapshot are two reads at two times, yet the report never claims
\* a commit that the snapshot lacks, and a message whose send it calls
\* anything but committed is one whose answer never reached the proxy.
EvidenceAgrees ==
  after.taken =>
    /\ CommittedIn(report.of.attempts) \subseteq after.messages
    /\ \A r \in after.messages \cap report.of.attempts :
         Classification(r) \in {"committed", "network_error"}

\* The count of accepted work that quiescence relies on is exact: it reaches 0
\* only when no handler thread has anything left to record.
InFlightExact ==
  proxy.in_flight = Cardinality({r \in Requests : thread[r] \in Active})

\* The promise to the sender, see SendService.
OutcomeOf(r) ==
  IF ~IsSend(r) THEN "pending"
  ELSE CASE client[r] \in {"idle", "connected", "waiting"} -> "pending"
         [] client[r] \in {"lost", "gone"}                 -> "unknown"
         [] client[r] = "answered" ->
              CASE entry[r].upstream = "committed"     -> "acknowledged"
                [] entry[r].upstream = "network_error" -> "unknown"
                [] OTHER                         -> "refused"

Promise == INSTANCE SendService WITH
             durable <- messages,
             outcome <- [r \in Requests |-> OutcomeOf(r)],
             treated <- Dropped

KeepsPromise == Promise!Spec

\* Once the browser is closed nobody waits for it: as long as a connection is in
\* flight, an idle one included whose thread waits for a request line, some handler
\* thread of the proxy or of the fixture can take a step, and the harness can when
\* none is.  Neither quiescence nor server_close's join is ever held up for good.
NoStandstill ==
  phase \notin {"baseline", "done"} =>
    IF \E r \in Requests : thread[r] \in Active
    THEN \E r \in Requests : ENABLED Thread(r) \/ ENABLED Fixture(r)
    ELSE ENABLED Harness

\* The harness reaches its evidence and an end, through the browser's closing,
\* quiescence or its timeout, report, snapshot and join.
EvidenceCollected == <>(phase = "done")
=============================================================================

------------------------- MODULE InjectReportProofs -------------------------
(* The proxy's report is complete, for any number of connections: a report   *)
(* taken with nothing in flight misses no request, attempt, forward or       *)
(* commit.                                                                   *)
EXTENDS InjectProxyProofs

\* A request gets its number when its request line arrives; a connection that
\* closed before never has one.
Unrequested == {"none", "backlog", "accepted"}
Requested   == {"sequenced", "reading", "forwarding", "dropping", "sending",
                "finalizing", "recording"}

\* The entry is final from here on.
Settled == {"recording", "finishing", "finished"}

\* What a connection's numbers, receipts and thread know of one another.
Numbers(r) ==
  /\ thread[r] \in Unrequested => entry[r].request_seq = 0
  /\ thread[r] \in Requested => entry[r].request_seq # 0
  /\ thread[r] \in {"sequenced", "recording"} => IsSend(r)
  /\ entry[r].request_seq # 0 => call[r] # NoCall
  /\ entry[r].upstream # "none" => entry[r].request_seq # 0
  /\ r \in proxy.requests <=> entry[r].request_seq # 0 /\ thread[r] \in Settled
  /\ entry[r].attempt_seq # 0 <=>
       entry[r].request_seq # 0 /\ IsSend(r) /\ thread[r] # "sequenced"
  /\ r \in proxy.attempts <=> entry[r].attempt_seq # 0 /\ thread[r] \in Recorded
  /\ entry[r].committed_seq # 0 <=> IsSend(r) /\ entry[r].upstream = "committed"

\* f numbers some of its domain 1..n, without gap or repetition, and leaves the
\* rest at 0.
Numbering(f, n) ==
  /\ \A r \in DOMAIN f : f[r] \in 0..n
  /\ \A k \in 1..n : \E r \in DOMAIN f : f[r] = k
  /\ \A r, s \in DOMAIN f : f[r] = f[s] /\ f[r] # 0 => r = s

RequestNumbers == [r \in Requests |-> entry[r].request_seq]
AttemptNumbers == [r \in Requests |-> entry[r].attempt_seq]
CommitNumbers  == [r \in Requests |-> entry[r].committed_seq]

\* Sends that _forward has counted.
Forwarded == {r \in Requests :
                IsSend(r) /\ (thread[r] = "forwarding" \/ entry[r].upstream # "none")}

NumbersExact ==
  /\ Numbering(RequestNumbers, proxy.next_request_sequence - 1)
  /\ Numbering(AttemptNumbers, proxy.next_sequence - 1)
  /\ Numbering(CommitNumbers, proxy.committed_count)
  /\ proxy.send_forwards = Cardinality(Forwarded)

Final(r) == thread[r] \in Settled /\ entry[r].request_seq # 0

ReportFinal ==
  report.of.requests \cup report.of.attempts \subseteq {r \in Requests : Final(r)}

\* The inductive invariant of the report's completeness.
ReportInv ==
  /\ Inv
  /\ \A r \in Requests : Numbers(r)
  /\ NumbersExact
  /\ ReportFinal
  /\ QuiescentReportComplete

-----------------------------------------------------------------------------
(* Numberings *)

\* The next number extends a numbering.
LEMMA NumberingExtended ==
  ASSUME NEW S, NEW f, NEW g, DOMAIN f = S, DOMAIN g = S,
         NEW n \in Nat, Numbering(f, n), NEW r \in S,
         f[r] = 0, g[r] = n + 1, \A s \in S : s # r => g[s] = f[s]
  PROVE  Numbering(g, n + 1)
PROOF
<1>1. \A s \in S : g[s] \in 0..(n + 1)
  BY DEF Numbering
<1>2. \A k \in 1..(n + 1) : \E s \in S : g[s] = k
  <2> SUFFICES ASSUME NEW k \in 1..(n + 1)
               PROVE  \E s \in S : g[s] = k
    OBVIOUS
  <2>1. CASE k = n + 1
    BY <2>1
  <2>2. CASE k # n + 1
    <3>1. k \in 1..n
      BY <2>2
    <3>2. PICK s \in S : f[s] = k
      BY <3>1 DEF Numbering
    <3>3. s # r
      BY <3>1, <3>2
    <3> QED
      BY <3>2, <3>3
  <2> QED
    BY <2>1, <2>2
<1>3. \A s, t \in S : g[s] = g[t] /\ g[s] # 0 => s = t
  <2>1. \A s \in S : s # r => g[s] # n + 1
    BY DEF Numbering
  <2> QED
    BY <2>1 DEF Numbering
<1> QED
  BY <1>1, <1>2, <1>3 DEF Numbering

\* What a numbering numbers is counted by it.
LEMMA NumberingCounts ==
  ASSUME NEW f, NEW n \in Nat, Numbering(f, n)
  PROVE  LET T == {r \in DOMAIN f : f[r] # 0}
         IN  /\ {f[r] : r \in T} = 1..n
             /\ Cardinality(T) = n
             /\ \A r, s \in T : f[r] = f[s] => r = s
PROOF
<1> DEFINE T == {r \in DOMAIN f : f[r] # 0}
<1>1. \A r \in T : f[r] \in 1..n
  BY DEF Numbering
<1>2. \A k \in 1..n : \E r \in T : f[r] = k
  <2> TAKE k \in 1..n
  <2>1. PICK r \in DOMAIN f : f[r] = k
    BY DEF Numbering
  <2>2. r \in T
    BY <2>1
  <2> WITNESS r \in T
  <2> QED
    BY <2>1
<1>3. \A r, s \in T : f[r] = f[s] => r = s
  BY DEF Numbering
<1>4. {f[r] : r \in T} = 1..n
  BY <1>1, <1>2
<1>5. Cardinality(T) = n
  <2> DEFINE g == [k \in 1..n |-> CHOOSE r \in T : f[r] = k]
  <2>1. \A k \in 1..n : g[k] \in T /\ f[g[k]] = k
    BY <1>2
  <2>2. g \in [1..n -> T]
    BY <2>1
  <2>3. \A k, l \in 1..n : g[k] = g[l] => k = l
    BY <2>1
  <2>4. \A r \in T : \E k \in 1..n : g[k] = r
    <3> TAKE r \in T
    <3>1. f[r] \in 1..n /\ g[f[r]] \in T /\ f[g[f[r]]] = f[r]
      BY <1>1, <2>1
    <3>2. g[f[r]] = r
      BY <1>3, <3>1
    <3> QED
      BY <3>1, <3>2
  <2> HIDE DEF g, T
  <2>5. g \in Bijection(1..n, T)
    BY <2>2, <2>3, <2>4 DEF Bijection, Injection, Surjection, IsInjective
  <2> QED
    BY <2>5, FS_CountingElements DEF ExistsBijection
<1> QED
  BY <1>3, <1>4, <1>5
LEMMA NumberingContiguous ==
  ASSUME NEW f, NEW n \in Nat, Numbering(f, n),
         NEW g, DOMAIN g = {r \in DOMAIN f : f[r] # 0}, \A r \in DOMAIN g : g[r] = f[r]
  PROVE  Contiguous(g)
PROOF
<1>1. /\ {f[r] : r \in DOMAIN g} = 1..n /\ Cardinality(DOMAIN g) = n
      /\ \A r, s \in DOMAIN g : f[r] = f[s] => r = s
  BY NumberingCounts
<1>2. {g[r] : r \in DOMAIN g} = {f[r] : r \in DOMAIN g}
  OBVIOUS
<1> QED
  BY <1>1, <1>2 DEF Contiguous

-----------------------------------------------------------------------------
(* What a step leaves standing *)

LEMMA CountersNat ==
  ASSUME TypeOK
  PROVE  /\ proxy.next_request_sequence - 1 \in Nat
         /\ proxy.next_sequence - 1 \in Nat
         /\ proxy.committed_count \in Nat /\ proxy.send_forwards \in Nat
PROOF
  BY DEF TypeOK, ProxyStates

\* Settled entries are final, so a report stays as complete as it was.
LEMMA ReportKept ==
  ASSUME ReportInv, report' = report,
         \A s \in Requests : Final(s) =>
           /\ thread'[s] \in Settled /\ entry'[s] = entry[s]
           /\ IsSend(s)' <=> IsSend(s)
  PROVE  ReportFinal' /\ QuiescentReportComplete'
PROOF
<1>1. \A s \in report.of.requests \cup report.of.attempts :
        /\ s \in Requests /\ Final(s) /\ Final(s)' /\ entry'[s] = entry[s]
        /\ IsSend(s)' <=> IsSend(s)
  BY DEF ReportInv, ReportFinal, Final
<1>2. ReportFinal'
  BY <1>1 DEF ReportInv, ReportFinal
<1>3. QuiescentReportComplete'
  <2> DEFINE R == report.of.requests
             A == report.of.attempts
             C == CommittedIn(A)
  <2>1. C' = C /\ C \subseteq A
    BY <1>1 DEF CommittedIn, Classification
  <2>2. /\ [r \in R |-> entry[r].request_seq]' = [r \in R |-> entry[r].request_seq]
        /\ [r \in A |-> entry[r].attempt_seq]' = [r \in A |-> entry[r].attempt_seq]
        /\ [r \in C |-> entry[r].committed_seq]' = [r \in C |-> entry[r].committed_seq]
    BY <1>1, <2>1
  <2>3. /\ {r \in A : entry[r].upstream # "none"}' = {r \in A : entry[r].upstream # "none"}
        /\ {r \in R : IsSend(r)}' = {r \in R : IsSend(r)}
        /\ (Dropped \cap R)' = Dropped \cap R
    BY <1>1 DEF Dropped
  <2> HIDE DEF C
  <2> QED
    BY <2>1, <2>2, <2>3 DEF ReportInv, QuiescentReportComplete, C
<1> QED
  BY <1>2, <1>3

\* A step of one connection that keeps every number.
LEMMA PlainStep ==
  ASSUME ReportInv, Inv', NEW r \in Requests, Numbers(r)',
         \A s \in Requests : s # r =>
           /\ thread'[s] = thread[s] /\ entry'[s] = entry[s] /\ call'[s] = call[s]
           /\ s \in proxy'.requests <=> s \in proxy.requests
           /\ s \in proxy'.attempts <=> s \in proxy.attempts,
         entry'[r].request_seq = entry[r].request_seq,
         entry'[r].attempt_seq = entry[r].attempt_seq,
         entry'[r].committed_seq = entry[r].committed_seq,
         proxy'.next_request_sequence = proxy.next_request_sequence,
         proxy'.next_sequence = proxy.next_sequence,
         proxy'.committed_count = proxy.committed_count,
         proxy'.send_forwards = proxy.send_forwards,
         (r \in Forwarded)' <=> r \in Forwarded,
         Final(r) => thread'[r] \in Settled /\ entry'[r] = entry[r] /\ (IsSend(r)' <=> IsSend(r)),
         report' = report
  PROVE  ReportInv'
PROOF
<1>1. \A s \in Requests : Numbers(s)'
  BY DEF ReportInv, Numbers, IsSend, Is
<1>2. /\ RequestNumbers' = RequestNumbers /\ AttemptNumbers' = AttemptNumbers
      /\ CommitNumbers' = CommitNumbers
  BY DEF RequestNumbers, AttemptNumbers, CommitNumbers
<1>3. Forwarded' = Forwarded
  BY DEF Forwarded, IsSend, Is
<1>4. NumbersExact'
  BY <1>2, <1>3 DEF ReportInv, NumbersExact
<1>5. ReportFinal' /\ QuiescentReportComplete'
  BY ReportKept DEF Final, IsSend, Is
<1> QED
  BY <1>1, <1>4, <1>5 DEF ReportInv

-----------------------------------------------------------------------------
(* The steps that number nothing *)

\* The browser's steps and the thread's that leave its entry alone.
LEMMA EntryKept ==
  ASSUME ReportInv, Inv', NEW r \in Requests, NEW place \in Unrequested \cup Requested \cup Recorded,
         thread' = [thread EXCEPT ![r] = place], UNCHANGED <<entry, report>>,
         call' = call \/ (call[r] = NoCall /\ \A s \in Requests : s # r => call'[s] = call[s]),
         UNCHANGED <<proxy.next_request_sequence, proxy.next_sequence, proxy.committed_count,
                     proxy.send_forwards, proxy.requests, proxy.attempts>>,
         \/ place = thread[r]
         \/ thread[r] \in Unrequested /\ place \in Unrequested
         \/ thread[r] \in Unrequested /\ place = "finishing"
         \/ thread[r] = "reading" /\ place = "finalizing"
         \/ thread[r] = "finishing" /\ place = "finished"
  PROVE  ReportInv'
PROOF
<1>1. TypeOK
  BY DEF ReportInv, Inv
<1>2. /\ thread'[r] = place
      /\ \A s \in Requests : s # r => thread'[s] = thread[s]
  BY <1>1 DEF TypeOK
<1>3. Numbers(r)
  BY DEF ReportInv
<1>4. entry[r].request_seq # 0 => call' = call
  BY <1>3 DEF Numbers
<1>5. entry[r].request_seq # 0 => thread[r] \notin Unrequested
  BY <1>3 DEF Numbers
<1>6. thread[r] \in Requested => entry[r].request_seq # 0
  BY <1>3 DEF Numbers
<1> USE DEF Unrequested, Requested, Recorded, Settled
<1>7. Numbers(r)'
  BY <1>2, <1>3, <1>4, <1>5, <1>6 DEF Numbers, IsSend, Is
<1>8. (r \in Forwarded)' <=> r \in Forwarded
  BY <1>2, <1>3, <1>4, <1>6 DEF Forwarded, Numbers, IsSend, Is
<1>9. Final(r) => thread'[r] \in Settled /\ (IsSend(r)' <=> IsSend(r))
  BY <1>2, <1>4 DEF Final, IsSend, Is
<1> QED
  BY <1>2, <1>7, <1>8, <1>9, PlainStep

LEMMA ConnectReport ==
  ASSUME ReportInv, NEW r \in Requests, Connect(r)
  PROVE  ReportInv'
PROOF
<1>1. Inv'
  BY ConnectInv DEF ReportInv
<1>2. /\ thread[r] = "none" /\ thread' = [thread EXCEPT ![r] = "backlog"]
      /\ UNCHANGED <<call, entry, proxy, report>>
  BY DEF ReportInv, Inv, Local, Connect, Continue, dbVars
<1> QED
  BY <1>1, <1>2, EntryKept DEF Unrequested

LEMMA BrowserReport ==
  ASSUME ReportInv, NEW r \in Requests, Leave(r) \/ \E c \in Calls(r) : SendRequest(r, c)
  PROVE  ReportInv'
PROOF
<1>1. Inv'
  BY LeaveInv, SendRequestInv DEF ReportInv
<1>2. TypeOK /\ Local(r)
  BY DEF ReportInv, Inv
<1>3. thread[r] \in Unrequested \cup Requested \cup Recorded
  BY <1>2 DEF TypeOK, Unrequested, Requested, Recorded, Active
<1>4. thread' = [thread EXCEPT ![r] = thread[r]] /\ UNCHANGED <<entry, proxy, report>>
  BY <1>2 DEF TypeOK, Leave, SendRequest
<1>5. call' = call \/ (call[r] = NoCall /\ \A s \in Requests : s # r => call'[s] = call[s])
  BY <1>2 DEF TypeOK, DBTypeOK, Local, Leave, SendRequest, dbVars
<1> QED
  BY <1>1, <1>3, <1>4, <1>5, EntryKept

LEMMA ThreadEndsReport ==
  ASSUME ReportInv, NEW r \in Requests,
         Accept(r) \/ StartFails(r) \/ NoRequestLine(r) \/ BodyLost(r) \/ Finish(r)
  PROVE  ReportInv'
PROOF
<1>1. Inv'
  BY AcceptInv, StartFailsInv, NoRequestLineInv, BodyLostInv, FinishInv DEF ReportInv
<1>2. proxy \in ProxyStates
  BY DEF ReportInv, Inv, TypeOK
<1>3. /\ UNCHANGED <<entry, call, report>>
      /\ UNCHANGED <<proxy.next_request_sequence, proxy.next_sequence, proxy.committed_count,
                     proxy.send_forwards, proxy.requests, proxy.attempts>>
  BY <1>2 DEF ProxyStates, Accept, AcceptCounting, StartFails, NoRequestLine,
              NoRequestLineCounting, BodyLost, Finish, FinishCounting, dbVars
<1>4. \/ thread[r] = "backlog" /\ thread' = [thread EXCEPT ![r] = "accepted"]
      \/ thread[r] = "accepted" /\ thread' = [thread EXCEPT ![r] = "finishing"]
      \/ thread[r] = "reading" /\ thread' = [thread EXCEPT ![r] = "finalizing"]
      \/ thread[r] = "finishing" /\ thread' = [thread EXCEPT ![r] = "finished"]
  BY DEF Accept, AcceptCounting, StartFails, NoRequestLine, NoRequestLineCounting, BodyLost,
         Finish, FinishCounting, InThread, Continue
<1> QED
  BY <1>1, <1>3, <1>4, EntryKept DEF Unrequested, Requested, Recorded

\* The steps of a thread after its attempt got a number.
LEMMA TreatStep ==
  ASSUME ReportInv, Inv', NEW r \in Requests, NEW place \in {"sending", "finalizing"},
         thread[r] \in {"forwarding", "dropping", "sending"},
         thread' = [thread EXCEPT ![r] = place],
         NEW e \in Entries, entry' = [entry EXCEPT ![r] = e],
         e.request_seq = entry[r].request_seq, e.attempt_seq = entry[r].attempt_seq,
         e.committed_seq = entry[r].committed_seq,
         e.upstream # "none" <=> thread[r] = "forwarding" \/ entry[r].upstream # "none",
         IsSend(r) => (e.upstream = "committed" <=> entry[r].upstream = "committed"),
         UNCHANGED <<call, proxy, report>>
  PROVE  ReportInv'
PROOF
<1>1. /\ thread'[r] = place /\ entry'[r] = e
      /\ \A s \in Requests : s # r => thread'[s] = thread[s] /\ entry'[s] = entry[s]
  BY DEF ReportInv, Inv, TypeOK
<1>2. Numbers(r) /\ (IsSend(r)' <=> IsSend(r))
  BY DEF ReportInv, IsSend, Is
<1>3. Numbers(r)'
  BY <1>1, <1>2 DEF Numbers, Unrequested, Requested, Recorded, Settled
<1>4. (r \in Forwarded)' <=> r \in Forwarded
  BY <1>1, <1>2 DEF Forwarded
<1>5. ~Final(r)
  BY DEF Final, Settled
<1> QED
  BY <1>1, <1>3, <1>4, <1>5, PlainStep

LEMMA UpstreamFailsReport ==
  ASSUME ReportInv, NEW r \in Requests, UpstreamFails(r)
  PROVE  ReportInv'
PROOF
<1> DEFINE e == [entry[r] EXCEPT !.upstream = "network_error"]
<1>1. Inv' /\ entry[r] \in Entries /\ entry[r].upstream = "none"
  BY UpstreamFailsInv DEF ReportInv, Inv, TypeOK, Local, UpstreamFails, UpstreamFailsAs,
                          InThread, Unanswered
<1>2. /\ thread[r] = "forwarding" /\ thread' = [thread EXCEPT ![r] = "sending"]
      /\ entry' = [entry EXCEPT ![r] = e] /\ UNCHANGED <<call, proxy, report>>
  BY DEF UpstreamFails, UpstreamFailsAs, InThread, Continue, dbVars
<1>3. /\ e \in Entries /\ e.upstream = "network_error"
      /\ e.request_seq = entry[r].request_seq /\ e.attempt_seq = entry[r].attempt_seq
      /\ e.committed_seq = entry[r].committed_seq
  BY <1>1 DEF Entries
<1> HIDE DEF e
<1> QED
  BY <1>1, <1>2, <1>3, TreatStep

LEMMA DownstreamReport ==
  ASSUME ReportInv, NEW r \in Requests, Drop(r) \/ ForwardDownstream(r)
  PROVE  ReportInv'
PROOF
<1>1. Inv' /\ TypeOK /\ Local(r)
  BY DropInv, ForwardDownstreamInv DEF ReportInv, Inv
<1>2. PICK t \in {"connection_dropped_after_commit", "response_forwarded",
                  "downstream_disconnected_before_response"} :
        entry' = [entry EXCEPT ![r].treatment = t]
  BY DEF Drop, ForwardDownstream
<1> DEFINE e == [entry[r] EXCEPT !.treatment = t]
<1>3. /\ thread[r] \in {"dropping", "sending"} /\ thread' = [thread EXCEPT ![r] = "finalizing"]
      /\ entry' = [entry EXCEPT ![r] = e] /\ UNCHANGED <<call, proxy, report>>
  BY <1>2 DEF Drop, ForwardDownstream, InThread, Continue, dbVars
<1>4. /\ e \in Entries /\ e.upstream = entry[r].upstream
      /\ e.request_seq = entry[r].request_seq /\ e.attempt_seq = entry[r].attempt_seq
      /\ e.committed_seq = entry[r].committed_seq
  BY <1>1 DEF TypeOK, Entries
<1> HIDE DEF e
<1> QED
  BY <1>1, <1>3, <1>4, TreatStep

LEMMA RecordReport ==
  ASSUME ReportInv, NEW r \in Requests, RecordRequest(r) \/ RecordAttempt(r)
  PROVE  ReportInv'
PROOF
<1>1. Inv' /\ TypeOK /\ proxy \in ProxyStates /\ Numbers(r)
  BY RecordRequestInv, RecordAttemptInv DEF ReportInv, Inv, TypeOK
<1>2. UNCHANGED <<entry, call, report>> /\ (IsSend(r)' <=> IsSend(r))
  BY DEF RecordRequest, RecordRequestCounting, RecordAttempt, dbVars, IsSend, Is
<1>3. /\ UNCHANGED <<proxy.next_request_sequence, proxy.next_sequence,
                     proxy.committed_count, proxy.send_forwards>>
      /\ \/ /\ thread[r] = "finalizing"
            /\ thread' = [thread EXCEPT ![r] = IF IsSend(r) THEN "recording" ELSE "finishing"]
            /\ proxy'.requests = proxy.requests \cup {r} /\ proxy'.attempts = proxy.attempts
         \/ /\ thread[r] = "recording" /\ thread' = [thread EXCEPT ![r] = "finishing"]
            /\ proxy'.attempts = proxy.attempts \cup {r} /\ proxy'.requests = proxy.requests
  BY <1>1 DEF RecordRequest, RecordRequestCounting, RecordAttempt, InThread, Continue, ProxyStates
<1>4. /\ thread'[r] \in {"recording", "finishing"}
      /\ \A s \in Requests : s # r => thread'[s] = thread[s]
  BY <1>1, <1>3 DEF TypeOK
<1>5. Numbers(r)'
  <2>1. CASE thread[r] = "finalizing"
    <3>1. thread'[r] = IF IsSend(r) THEN "recording" ELSE "finishing"
      BY <1>1, <1>3, <2>1 DEF TypeOK
    <3> QED
      BY <1>1, <1>2, <1>3, <2>1, <3>1
      DEF Numbers, Unrequested, Requested, Recorded, Settled
  <2>2. CASE thread[r] = "recording"
    <3>1. thread'[r] = "finishing"
      BY <1>1, <1>3, <2>2 DEF TypeOK
    <3> QED
      BY <1>1, <1>2, <1>3, <2>2, <3>1
      DEF Numbers, Unrequested, Requested, Recorded, Settled
  <2> QED
    BY <1>3, <2>1, <2>2
<1>6. (r \in Forwarded)' <=> r \in Forwarded
  BY <1>2, <1>3, <1>4 DEF Forwarded
<1> QED
  BY <1>1, <1>2, <1>3, <1>4, <1>5, <1>6, PlainStep DEF Settled

-----------------------------------------------------------------------------
(* The steps that number or count *)

LEMMA NewRequestReport ==
  ASSUME ReportInv, NEW r \in Requests, NewRequest(r)
  PROVE  ReportInv'
PROOF
<1> DEFINE n == proxy.next_request_sequence - 1
           e == [entry[r] EXCEPT !.request_seq = n + 1]
           place == IF IsSend(r) THEN "sequenced" ELSE "reading"
<1>1. Inv' /\ TypeOK /\ n \in Nat /\ entry[r] \in Entries /\ Numbers(r) /\ Local(r)
  BY NewRequestInv, CountersNat DEF ReportInv, Inv, TypeOK
<1>2. /\ thread[r] = "accepted" /\ thread' = [thread EXCEPT ![r] = place]
      /\ entry' = [entry EXCEPT ![r] = e] /\ call[r] # NoCall
      /\ UNCHANGED <<call, report>>
      /\ proxy' = [proxy EXCEPT !.next_request_sequence = (n + 1) + 1]
  <2>1. n + 1 = proxy.next_request_sequence
    BY <1>1 DEF TypeOK, ProxyStates
  <2> HIDE DEF n
  <2> QED
    BY <2>1 DEF NewRequest, InThread, Continue, dbVars
<1>3. /\ e.request_seq = n + 1 /\ e.attempt_seq = entry[r].attempt_seq
      /\ e.committed_seq = entry[r].committed_seq /\ e.upstream = entry[r].upstream
  BY <1>1 DEF Entries
<1>4. place = (IF IsSend(r) THEN "sequenced" ELSE "reading") /\ (IsSend(r)' <=> IsSend(r))
  BY <1>2 DEF IsSend, Is
<1> HIDE DEF n, e, place
<1>5. /\ proxy'.next_request_sequence = (n + 1) + 1
      /\ UNCHANGED <<proxy.next_sequence, proxy.committed_count, proxy.send_forwards,
                     proxy.requests, proxy.attempts>>
  BY <1>1, <1>2 DEF TypeOK, ProxyStates
<1>6. /\ thread'[r] = place /\ entry'[r] = e
      /\ \A s \in Requests : s # r => thread'[s] = thread[s] /\ entry'[s] = entry[s]
  BY <1>1, <1>2 DEF TypeOK
<1>7. entry[r].request_seq = 0 /\ entry[r].upstream = "none" /\ n + 1 # 0
  BY <1>1, <1>2 DEF Numbers, Local, Unrequested, Unanswered
<1>8. Numbers(r)'
  BY <1>1, <1>2, <1>3, <1>4, <1>5, <1>6, <1>7
  DEF Numbers, Unrequested, Requested, Recorded, Settled
<1>9. \A s \in Requests : Numbers(s)'
  BY <1>2, <1>5, <1>6, <1>8 DEF ReportInv, Numbers, IsSend, Is
<1>10. NumbersExact'
  <2>1. Numbering(RequestNumbers, n)
    BY DEF ReportInv, NumbersExact, n
  <2>2. Numbering(RequestNumbers', n + 1)
    BY <1>1, <1>3, <1>6, <1>7, <2>1, NumberingExtended DEF RequestNumbers
  <2>3. proxy'.next_request_sequence - 1 = n + 1
    BY <1>1, <1>5
  <2>4. AttemptNumbers' = AttemptNumbers /\ CommitNumbers' = CommitNumbers
    BY <1>3, <1>6 DEF AttemptNumbers, CommitNumbers
  <2>5. Forwarded' = Forwarded
    BY <1>2, <1>3, <1>4, <1>6, <1>7 DEF Forwarded, IsSend, Is
  <2> QED
    BY <1>5, <2>2, <2>3, <2>4, <2>5 DEF ReportInv, NumbersExact
<1>11. ReportFinal' /\ QuiescentReportComplete'
  BY <1>2, <1>6, ReportKept DEF Final, Settled, IsSend, Is
<1> QED
  BY <1>1, <1>9, <1>10, <1>11 DEF ReportInv

LEMMA NewAttemptReport ==
  ASSUME ReportInv, NEW r \in Requests, NewAttempt(r)
  PROVE  ReportInv'
PROOF
<1> DEFINE n == proxy.next_sequence - 1
           e == [entry[r] EXCEPT !.attempt_seq = n + 1]
<1>1. Inv' /\ TypeOK /\ n \in Nat /\ entry[r] \in Entries /\ Numbers(r) /\ Local(r)
  BY NewAttemptInv, CountersNat DEF ReportInv, Inv, TypeOK
<1>2. /\ thread[r] = "sequenced" /\ thread' = [thread EXCEPT ![r] = "reading"]
      /\ entry' = [entry EXCEPT ![r] = e] /\ UNCHANGED <<call, report>>
      /\ proxy' = [proxy EXCEPT !.next_sequence = (n + 1) + 1]
  <2>1. n + 1 = proxy.next_sequence
    BY <1>1 DEF TypeOK, ProxyStates
  <2> HIDE DEF n
  <2> QED
    BY <2>1 DEF NewAttempt, InThread, Continue, dbVars
<1>3. /\ e.attempt_seq = n + 1 /\ e.request_seq = entry[r].request_seq
      /\ e.committed_seq = entry[r].committed_seq /\ e.upstream = entry[r].upstream
  BY <1>1 DEF Entries
<1> HIDE DEF n, e
<1>4. /\ proxy'.next_sequence = (n + 1) + 1
      /\ UNCHANGED <<proxy.next_request_sequence, proxy.committed_count, proxy.send_forwards,
                     proxy.requests, proxy.attempts>>
  BY <1>1, <1>2 DEF TypeOK, ProxyStates
<1>5. /\ thread'[r] = "reading" /\ entry'[r] = e
      /\ \A s \in Requests : s # r => thread'[s] = thread[s] /\ entry'[s] = entry[s]
  BY <1>1, <1>2 DEF TypeOK
<1>6. entry[r].attempt_seq = 0 /\ n + 1 # 0
  BY <1>1, <1>2 DEF Numbers
<1>7. Numbers(r)'
  BY <1>1, <1>2, <1>3, <1>4, <1>5, <1>6
  DEF Numbers, Unrequested, Requested, Recorded, Settled, IsSend, Is
<1>8. \A s \in Requests : Numbers(s)'
  BY <1>2, <1>4, <1>5, <1>7 DEF ReportInv, Numbers, IsSend, Is
<1>9. NumbersExact'
  <2>1. Numbering(AttemptNumbers, n)
    BY DEF ReportInv, NumbersExact, n
  <2>2. Numbering(AttemptNumbers', n + 1)
    BY <1>1, <1>3, <1>5, <1>6, <2>1, NumberingExtended DEF AttemptNumbers
  <2>3. proxy'.next_sequence - 1 = n + 1
    BY <1>1, <1>4
  <2>4. RequestNumbers' = RequestNumbers /\ CommitNumbers' = CommitNumbers
    BY <1>3, <1>5 DEF RequestNumbers, CommitNumbers
  <2>5. Forwarded' = Forwarded
    BY <1>2, <1>3, <1>5 DEF Forwarded, IsSend, Is
  <2> QED
    BY <1>4, <2>2, <2>3, <2>4, <2>5 DEF ReportInv, NumbersExact
<1>10. ReportFinal' /\ QuiescentReportComplete'
  BY <1>2, <1>5, ReportKept DEF Final, Settled, IsSend, Is
<1> QED
  BY <1>1, <1>8, <1>9, <1>10 DEF ReportInv

\* A verified commit takes the next place in the count.
LEMMA RegisterReport ==
  ASSUME ReportInv, NEW r \in Requests, UpstreamAnswers(r), IsSend(r), srv[r] = "committed"
  PROVE  ReportInv'
PROOF
<1> DEFINE n == proxy.committed_count
           e == [entry[r] EXCEPT !.upstream = "committed", !.committed_seq = n + 1]
           place == IF n + 1 = inject_after_committed THEN "dropping" ELSE "sending"
<1>1. Inv' /\ TypeOK /\ n \in Nat /\ entry[r] \in Entries /\ Numbers(r) /\ Local(r)
  BY UpstreamAnswersInv, CountersNat DEF ReportInv, Inv, TypeOK
<1>2. /\ thread[r] = "forwarding" /\ thread' = [thread EXCEPT ![r] = place]
      /\ entry' = [entry EXCEPT ![r] = e] /\ UNCHANGED <<call, report>>
      /\ proxy' = [proxy EXCEPT !.committed_count = n + 1]
  BY DEF UpstreamAnswers, UpstreamAnswersTreating, InThread, Continue, dbVars
<1>3. /\ e.committed_seq = n + 1 /\ e.upstream = "committed"
      /\ e.request_seq = entry[r].request_seq /\ e.attempt_seq = entry[r].attempt_seq
  BY <1>1 DEF Entries
<1>4. place \in {"dropping", "sending"} /\ IsSend(r)'
  BY <1>2 DEF IsSend, Is
<1>5. /\ proxy'.committed_count = n + 1
      /\ UNCHANGED <<proxy.next_request_sequence, proxy.next_sequence, proxy.send_forwards,
                     proxy.requests, proxy.attempts>>
  BY <1>1, <1>2 DEF TypeOK, ProxyStates
<1> HIDE DEF n, e, place
<1>6. /\ thread'[r] = place /\ entry'[r] = e
      /\ \A s \in Requests : s # r => thread'[s] = thread[s] /\ entry'[s] = entry[s]
  BY <1>1, <1>2 DEF TypeOK
<1>7. entry[r].committed_seq = 0 /\ n + 1 # 0
  BY <1>1, <1>2 DEF Local, Unanswered
<1>8. Numbers(r)'
  BY <1>1, <1>2, <1>3, <1>4, <1>5, <1>6, <1>7
  DEF Numbers, Unrequested, Requested, Recorded, Settled
<1>9. \A s \in Requests : Numbers(s)'
  BY <1>2, <1>5, <1>6, <1>8 DEF ReportInv, Numbers, IsSend, Is
<1>10. NumbersExact'
  <2>1. Numbering(CommitNumbers, n)
    BY DEF ReportInv, NumbersExact, n
  <2>2. Numbering(CommitNumbers', n + 1)
    BY <1>1, <1>3, <1>6, <1>7, <2>1, NumberingExtended DEF CommitNumbers
  <2>3. RequestNumbers' = RequestNumbers /\ AttemptNumbers' = AttemptNumbers
    BY <1>3, <1>6 DEF RequestNumbers, AttemptNumbers
  <2>4. Forwarded' = Forwarded
    BY <1>2, <1>3, <1>4, <1>6 DEF Forwarded, IsSend, Is
  <2> QED
    BY <1>5, <2>2, <2>3, <2>4 DEF ReportInv, NumbersExact
<1>11. ReportFinal' /\ QuiescentReportComplete'
  BY <1>2, <1>6, ReportKept DEF Final, Settled, IsSend, Is
<1> QED
  BY <1>1, <1>9, <1>10, <1>11 DEF ReportInv

LEMMA UpstreamAnswersReport ==
  ASSUME ReportInv, NEW r \in Requests, UpstreamAnswers(r)
  PROVE  ReportInv'
PROOF
<1>1. CASE IsSend(r) /\ srv[r] = "committed"
  BY <1>1, RegisterReport
<1>2. CASE ~(IsSend(r) /\ srv[r] = "committed")
  <2> DEFINE e == [entry[r] EXCEPT !.upstream = srv[r]]
  <2>1. Inv' /\ entry[r] \in Entries /\ Local(r)
    BY UpstreamAnswersInv DEF ReportInv, Inv, TypeOK
  <2>2. /\ thread[r] = "forwarding" /\ thread' = [thread EXCEPT ![r] = "sending"]
        /\ entry' = [entry EXCEPT ![r] = e] /\ srv[r] \in Answers
        /\ UNCHANGED <<call, proxy, report>>
    BY <1>2 DEF UpstreamAnswers, UpstreamAnswersTreating, InThread, Continue, Answered, dbVars
  <2>3. /\ e \in Entries /\ e.upstream = srv[r] /\ srv[r] # "none"
        /\ e.request_seq = entry[r].request_seq /\ e.attempt_seq = entry[r].attempt_seq
        /\ e.committed_seq = entry[r].committed_seq
    BY <2>1, <2>2 DEF Entries, Answers
  <2>4. entry[r].upstream = "none"
    BY <2>1, <2>2 DEF Local, Unanswered
  <2> HIDE DEF e
  <2> QED
    BY <1>2, <2>1, <2>2, <2>3, <2>4, TreatStep
<1> QED
  BY <1>1, <1>2

\* _forward counts a send when it starts to forward it.
LEMMA ForwardReport ==
  ASSUME ReportInv, NEW r \in Requests, Forward(r) \/ ConnectFails(r)
  PROVE  ReportInv'
PROOF
<1>1. Inv' /\ TypeOK /\ entry[r] \in Entries /\ Numbers(r) /\ Local(r)
  BY ForwardInv, ConnectFailsInv DEF ReportInv, Inv, TypeOK
<1>2. /\ thread[r] = "reading" /\ CountForward(r) /\ UNCHANGED <<call, report>>
      /\ \/ thread' = [thread EXCEPT ![r] = "forwarding"] /\ entry' = entry
         \/ /\ thread' = [thread EXCEPT ![r] = "sending"]
            /\ entry' = [entry EXCEPT ![r].upstream = "network_error"]
  BY DEF Forward, ConnectFails, InThread, Continue, Deliver, Refuse, dbVars
<1>3. /\ proxy'.send_forwards = IF IsSend(r) THEN proxy.send_forwards + 1 ELSE proxy.send_forwards
      /\ UNCHANGED <<proxy.next_request_sequence, proxy.next_sequence, proxy.committed_count,
                     proxy.requests, proxy.attempts>>
  BY <1>1, <1>2 DEF TypeOK, ProxyStates, CountForward
<1>4. /\ \A s \in Requests : s # r => thread'[s] = thread[s] /\ entry'[s] = entry[s]
      /\ \/ thread'[r] = "forwarding" /\ entry'[r].upstream = entry[r].upstream
         \/ thread'[r] = "sending" /\ entry'[r].upstream = "network_error"
      /\ entry'[r].request_seq = entry[r].request_seq
      /\ entry'[r].attempt_seq = entry[r].attempt_seq
      /\ entry'[r].committed_seq = entry[r].committed_seq
  BY <1>1, <1>2 DEF TypeOK, Entries
<1>5. entry[r].upstream = "none" /\ (IsSend(r)' <=> IsSend(r))
  BY <1>1, <1>2 DEF Local, Unanswered, IsSend, Is
<1>6. Numbers(r)'
  BY <1>1, <1>2, <1>3, <1>4, <1>5 DEF Numbers, Unrequested, Requested, Recorded, Settled
<1>7. \A s \in Requests : Numbers(s)'
  BY <1>2, <1>3, <1>4, <1>6 DEF ReportInv, Numbers, IsSend, Is
<1>8. NumbersExact'
  <2>1. /\ RequestNumbers' = RequestNumbers /\ AttemptNumbers' = AttemptNumbers
        /\ CommitNumbers' = CommitNumbers
    BY <1>4 DEF RequestNumbers, AttemptNumbers, CommitNumbers
  <2>2. r \notin Forwarded /\ Forwarded' = IF IsSend(r) THEN Forwarded \cup {r} ELSE Forwarded
    BY <1>2, <1>4, <1>5 DEF Forwarded, IsSend, Is
  <2>3. IsFiniteSet(Forwarded)
    BY FinitelyMany, FS_Subset DEF Forwarded
  <2>4. proxy'.send_forwards = Cardinality(Forwarded')
    BY <1>3, <2>2, <2>3, FS_AddElement DEF ReportInv, NumbersExact
  <2> QED
    BY <1>3, <2>1, <2>4 DEF ReportInv, NumbersExact
<1>9. ReportFinal' /\ QuiescentReportComplete'
  BY <1>2, <1>4, ReportKept DEF Final, Settled, IsSend, Is
<1> QED
  BY <1>1, <1>7, <1>8, <1>9 DEF ReportInv

-----------------------------------------------------------------------------
(* The fixture and the harness *)

\* Steps that leave the proxy alone keep all but the report itself.
LEMMA ProxyKept ==
  ASSUME ReportInv, UNCHANGED <<call, thread, entry, proxy>>
  PROVE  /\ \A r \in Requests : Numbers(r)'
         /\ NumbersExact'
PROOF
<1>1. /\ RequestNumbers' = RequestNumbers /\ AttemptNumbers' = AttemptNumbers
      /\ CommitNumbers' = CommitNumbers /\ Forwarded' = Forwarded
  BY DEF RequestNumbers, AttemptNumbers, CommitNumbers, Forwarded, IsSend, Is
<1> QED
  BY <1>1 DEF ReportInv, Numbers, NumbersExact, IsSend, Is

\* A report taken with nothing in flight is complete.
LEMMA TakenComplete ==
  ASSUME ReportInv, proxy.in_flight = 0
  PROVE  LET committed == CommittedIn(proxy.attempts)
         IN  /\ Contiguous([r \in proxy.requests |-> entry[r].request_seq])
             /\ Contiguous([r \in proxy.attempts |-> entry[r].attempt_seq])
             /\ Contiguous([r \in committed |-> entry[r].committed_seq])
             /\ proxy.attempts = {r \in proxy.requests : IsSend(r)}
             /\ proxy.send_forwards
                  = Cardinality({r \in proxy.attempts : entry[r].upstream # "none"})
             /\ Dropped \cap proxy.requests \subseteq proxy.attempts
PROOF
<1> DEFINE committed == CommittedIn(proxy.attempts)
<1>1. TypeOK /\ InFlightExact /\ proxy.requests \subseteq Requests /\ proxy.attempts \subseteq Requests
  BY DEF ReportInv, Inv, TypeOK, ProxyStates
<1>2. \A r \in Requests : thread[r] \notin Active
  <2>1. ActiveThreads = {}
    BY <1>1, ActiveFinite, FS_EmptySet DEF InFlightExact, ActiveThreads
  <2> QED
    BY <2>1 DEF ActiveThreads
<1>3. \A r \in Requests : Numbers(r) /\ Local(r) /\ thread[r] \in {"none", "backlog", "finished"}
  BY <1>1, <1>2 DEF ReportInv, Inv, TypeOK, Active
<1>4. \A r \in Requests :
        /\ r \in proxy.requests <=> entry[r].request_seq # 0
        /\ r \in proxy.attempts <=> entry[r].attempt_seq # 0
        /\ r \in proxy.attempts <=> entry[r].request_seq # 0 /\ IsSend(r)
        /\ r \in committed <=> entry[r].committed_seq # 0
  BY <1>3 DEF Numbers, Unrequested, Settled, Recorded, CommittedIn, Classification
<1>5. /\ proxy.requests = {r \in DOMAIN RequestNumbers : RequestNumbers[r] # 0}
      /\ proxy.attempts = {r \in DOMAIN AttemptNumbers : AttemptNumbers[r] # 0}
      /\ committed = {r \in DOMAIN CommitNumbers : CommitNumbers[r] # 0}
  BY <1>1, <1>4 DEF RequestNumbers, AttemptNumbers, CommitNumbers, CommittedIn
<1>6. Contiguous([r \in proxy.requests |-> entry[r].request_seq])
  <2> DEFINE g == [r \in proxy.requests |-> entry[r].request_seq]
  <2>1. /\ DOMAIN g = {r \in DOMAIN RequestNumbers : RequestNumbers[r] # 0}
        /\ \A r \in DOMAIN g : g[r] = RequestNumbers[r]
    BY <1>5 DEF RequestNumbers
  <2> HIDE DEF g
  <2>2. Contiguous(g)
    BY <1>1, <2>1, NumberingContiguous, CountersNat DEF ReportInv, NumbersExact
  <2> QED
    BY <2>2 DEF g
<1>7. Contiguous([r \in proxy.attempts |-> entry[r].attempt_seq])
  <2> DEFINE g == [r \in proxy.attempts |-> entry[r].attempt_seq]
  <2>1. /\ DOMAIN g = {r \in DOMAIN AttemptNumbers : AttemptNumbers[r] # 0}
        /\ \A r \in DOMAIN g : g[r] = AttemptNumbers[r]
    BY <1>5 DEF AttemptNumbers
  <2> HIDE DEF g
  <2>2. Contiguous(g)
    BY <1>1, <2>1, NumberingContiguous, CountersNat DEF ReportInv, NumbersExact
  <2> QED
    BY <2>2 DEF g
<1>8. Contiguous([r \in committed |-> entry[r].committed_seq])
  <2> DEFINE g == [r \in committed |-> entry[r].committed_seq]
  <2>1. /\ DOMAIN g = {r \in DOMAIN CommitNumbers : CommitNumbers[r] # 0}
        /\ \A r \in DOMAIN g : g[r] = CommitNumbers[r]
    BY <1>5 DEF CommitNumbers
  <2> HIDE DEF g
  <2>2. Contiguous(g)
    BY <1>1, <2>1, NumberingContiguous, CountersNat DEF ReportInv, NumbersExact
  <2> QED
    BY <2>2 DEF g
<1>9. proxy.attempts = {r \in proxy.requests : IsSend(r)}
  BY <1>1, <1>4
<1>10. {r \in proxy.attempts : entry[r].upstream # "none"} = Forwarded
  BY <1>1, <1>3, <1>4 DEF Forwarded, Numbers
<1>11. Dropped \cap proxy.requests \subseteq proxy.attempts
  <2> SUFFICES ASSUME NEW r \in Dropped \cap proxy.requests
               PROVE  r \in proxy.attempts
    OBVIOUS
  <2>1. r \in Requests /\ entry[r].committed_seq # 0
    BY <1>3, NthAssumption DEF Dropped, Local
  <2> QED
    BY <1>3, <1>4, <2>1 DEF Numbers
<1> QED
  BY <1>6, <1>7, <1>8, <1>9, <1>10, <1>11 DEF ReportInv, NumbersExact

LEMMA NotTakenFinal == report' = NotTaken => ReportFinal' /\ QuiescentReportComplete'
PROOF
  BY DEF ReportFinal, QuiescentReportComplete, NotTaken, NewProxy

LEMMA HarnessReport == ReportInv /\ Harness => ReportInv'
PROOF
<1> SUFFICES ASSUME ReportInv, Harness
             PROVE  ReportInv'
  OBVIOUS
<1>1. Inv' /\ UNCHANGED <<call, thread, entry, proxy>>
  BY HarnessInv DEF ReportInv, Harness, CloseBrowser, CloseBrowserLosing, AwaitQuiescence,
                    TakeReport, TakeSnapshot, DiscardReport, Join, dbVars
<1>2. (\A r \in Requests : Numbers(r)') /\ NumbersExact'
  BY <1>1, ProxyKept
<1>3. CASE report' = report
  BY <1>1, <1>2, <1>3, ReportKept DEF ReportInv, Final, IsSend, Is
<1>4. CASE report' = [taken |-> TRUE, of |-> proxy]
  <2>1. report'.of = proxy
    BY <1>4
  <2>2. ReportFinal'
    BY <1>1, <2>1 DEF ReportInv, Inv, TypeOK, ProxyStates, ReportFinal, Final, Numbers, Recorded, Settled
  <2>3. QuiescentReportComplete'
    <3>1. /\ CommittedIn(proxy.attempts)' = CommittedIn(proxy.attempts) /\ Dropped' = Dropped
          /\ {r \in proxy.requests : IsSend(r)}' = {r \in proxy.requests : IsSend(r)}
      BY <1>1 DEF CommittedIn, Classification, Dropped, IsSend, Is
    <3> QED
      BY <1>1, <2>1, <3>1, TakenComplete DEF QuiescentReportComplete
  <2> QED
    BY <1>1, <1>2, <2>2, <2>3 DEF ReportInv
<1>5. CASE report' = NotTaken
  BY <1>1, <1>2, <1>5, NotTakenFinal DEF ReportInv
<1> QED
  BY <1>3, <1>4, <1>5 DEF Harness, CloseBrowser, CloseBrowserLosing, AwaitQuiescence, TakeReport,
                          TakeSnapshot, DiscardReport, Join

LEMMA QuietReport ==
  ASSUME ReportInv, Inv', UNCHANGED <<call, thread, entry, proxy, report>>
  PROVE  ReportInv'
PROOF
  BY ProxyKept, ReportKept DEF ReportInv, Final, IsSend, Is

LEMMA FixtureReport ==
  ASSUME ReportInv, NEW r \in Requests, Fixture(r)
  PROVE  ReportInv'
PROOF
<1>1. Inv' /\ UNCHANGED <<call, thread, entry, proxy, report>>
  BY FixtureInv, HandlerStep DEF ReportInv, Inv, Fixture
<1> QED
  BY <1>1, QuietReport

LEMMA StutterReport == ReportInv /\ UNCHANGED vars => ReportInv'
PROOF
<1> SUFFICES ASSUME ReportInv, UNCHANGED vars
             PROVE  ReportInv'
  OBVIOUS
<1>1. Inv' /\ UNCHANGED <<call, thread, entry, proxy, report>>
  BY StutterInv DEF ReportInv, vars, dbVars
<1> QED
  BY <1>1, QuietReport

LEMMA InitReport == Init => ReportInv
PROOF
<1> SUFFICES ASSUME Init
             PROVE  ReportInv
  OBVIOUS
<1> USE DEF Init, ReceiptsInit
<1>1. Inv
  BY InitInv
<1>2. \A r \in Requests : Numbers(r)
  BY DEF Numbers, Unrequested, Requested, Settled, Recorded, NewEntry, NewProxy
<1>3. NumbersExact
  <2>1. \A f \in [Requests -> {0}] : Numbering(f, 0)
    BY DEF Numbering
  <2>2. /\ RequestNumbers \in [Requests -> {0}] /\ AttemptNumbers \in [Requests -> {0}]
        /\ CommitNumbers \in [Requests -> {0}]
    BY DEF RequestNumbers, AttemptNumbers, CommitNumbers, NewEntry
  <2>3. Forwarded = {}
    BY DEF Forwarded, NewEntry
  <2> QED
    BY <2>1, <2>2, <2>3, FS_EmptySet DEF NumbersExact, NewProxy
<1>4. ReportFinal /\ QuiescentReportComplete
  BY DEF ReportFinal, QuiescentReportComplete, NotTaken, NewProxy
<1> QED
  BY <1>1, <1>2, <1>3, <1>4 DEF ReportInv

-----------------------------------------------------------------------------
(* Theorems *)

LEMMA ThreadReport ==
  ASSUME ReportInv, NEW r \in Requests, Thread(r)
  PROVE  ReportInv'
PROOF
  BY ThreadEndsReport, NewRequestReport, NewAttemptReport, ForwardReport, UpstreamAnswersReport,
     UpstreamFailsReport, DownstreamReport, RecordReport
  DEF Thread

\* The numbers the proxy hands out are exact, and a report stays complete.
THEOREM ReportInvariant == Spec => []ReportInv
PROOF
<1>1. ReportInv /\ [Next]_vars => ReportInv'
  <2> SUFFICES ASSUME ReportInv, [Next]_vars
               PROVE  ReportInv'
    OBVIOUS
  <2>1. ASSUME NEW r \in Requests, Accept(r) \/ StartFails(r)
        PROVE  ReportInv'
    BY <2>1, ThreadEndsReport
  <2> QED
    BY <2>1, ConnectReport, BrowserReport, ThreadReport, FixtureReport, HarnessReport,
       StutterReport
    DEF Next, Over
<1> QED
  BY <1>1, InitReport, PTL DEF Spec

\* A report taken with nothing in flight is complete, however many requests
\* overlapped: every number handed out is in it, every attempt has its request,
\* every counted forward its attempt, every verified commit its place, and the
\* treatment its receipt.
THEOREM ProxyReportComplete == Spec => []QuiescentReportComplete
PROOF
<1>1. ReportInv => QuiescentReportComplete
  BY DEF ReportInv
<1> QED
  BY <1>1, ReportInvariant, PTL
=============================================================================

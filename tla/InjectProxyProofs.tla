------------------------- MODULE InjectProxyProofs -------------------------
(* The proxy's treatment and evidence, for any number of connections and    *)
(* any configured commit.                                                   *)
EXTENDS InjectProxy, FixtureDBProofs, FiniteSetTheorems

ActiveThreads == {r \in Requests : thread[r] \in Active}

Unanswered == {"none", "backlog", "accepted", "sequenced", "reading", "forwarding"}
Untreated  == Unanswered \cup {"dropping", "sending"}
Recorded   == {"finishing", "finished"}

\* What a connection's browser side, thread, entry and fixture handler know of
\* one another.
Local(r) ==
  /\ client[r] = "idle" => thread[r] = "none"
  /\ client[r] \in {"idle", "connected"} => call[r] = NoCall
  /\ call[r] = NoCall => thread[r] \in {"none", "backlog", "accepted"} \cup Recorded
  /\ thread[r] \in Unanswered => entry[r].upstream = "none" /\ entry[r].committed_seq = 0
  /\ thread[r] \in Untreated => entry[r].treatment = "none" /\ client[r] \notin {"answered", "lost"}
  /\ thread[r] = "dropping" \/ r \in Dropped =>
       entry[r].upstream = "committed" /\ entry[r].committed_seq = inject_after_committed
  /\ r \in Dropped => client[r] \in {"lost", "gone"}
  /\ entry[r].upstream \in Answers => srv[r] = entry[r].upstream

\* A verified commit's place in the count is its own.
CommitsCounted ==
  /\ \A r \in Requests : entry[r].committed_seq <= proxy.committed_count
  /\ \A r, s \in Requests :
       entry[r].committed_seq = entry[s].committed_seq /\ entry[r].committed_seq # 0 => r = s

\* Recorded entries are final, and the snapshot comes after the report.
EvidenceOrdered ==
  /\ proxy.attempts \cup report.of.attempts \subseteq {r \in Requests : thread[r] \in Recorded}
  /\ after.messages \subseteq messages
  /\ phase \in {"reported", "captured"} => report.taken
  /\ after.taken => /\ report.taken /\ phase \in {"stopping", "done"}
                    /\ CommittedIn(report.of.attempts) \subseteq after.messages

\* The inductive invariant.  TypeOK alone is not inductive: in_flight stays a
\* natural number only because it counts exactly the live threads.
Inv ==
  /\ TypeOK
  /\ DBInv
  /\ InFlightExact
  /\ \A r \in Requests : Local(r)
  /\ CommitsCounted
  /\ EvidenceOrdered

-----------------------------------------------------------------------------
(* Lemmas *)

LEMMA ActiveFinite == IsFiniteSet(ActiveThreads) /\ Cardinality(ActiveThreads) \in Nat
PROOF
<1>1. IsFiniteSet(ActiveThreads)
  BY FinitelyMany, FS_Subset DEF ActiveThreads
<1> QED
  BY <1>1, FS_CardinalityType

\* A thread that moves without starting or ending leaves the count exact.
LEMMA CountKept ==
  ASSUME TypeOK, InFlightExact, NEW r \in Requests, NEW place,
         thread' = [thread EXCEPT ![r] = place],
         thread[r] \in Active <=> place \in Active,
         proxy'.in_flight = proxy.in_flight
  PROVE  InFlightExact'
PROOF
<1>1. ActiveThreads' = ActiveThreads
  BY DEF TypeOK, ActiveThreads
<1> QED
  BY <1>1 DEF InFlightExact, ActiveThreads

LEMMA CountUp ==
  ASSUME TypeOK, InFlightExact, NEW r \in Requests,
         thread[r] = "backlog", thread' = [thread EXCEPT ![r] = "accepted"],
         proxy'.in_flight = proxy.in_flight + 1
  PROVE  InFlightExact'
PROOF
<1>1. r \notin ActiveThreads
  BY DEF ActiveThreads, Active
<1>2. ActiveThreads' = ActiveThreads \cup {r}
  <2>1. thread'[r] \in Active /\ \A s \in Requests : s # r => thread'[s] = thread[s]
    BY DEF TypeOK, Active
  <2> QED
    BY <2>1 DEF ActiveThreads
<1>3. Cardinality(ActiveThreads') = Cardinality(ActiveThreads) + 1
  BY <1>1, <1>2, ActiveFinite, FS_AddElement
<1> QED
  BY <1>3 DEF InFlightExact, ActiveThreads

LEMMA CountDown ==
  ASSUME TypeOK, InFlightExact, NEW r \in Requests,
         thread[r] = "finishing", thread' = [thread EXCEPT ![r] = "finished"],
         proxy'.in_flight = proxy.in_flight - 1
  PROVE  InFlightExact' /\ proxy'.in_flight \in Nat
PROOF
<1>1. r \in ActiveThreads /\ ActiveThreads' = ActiveThreads \ {r}
  BY DEF TypeOK, ActiveThreads, Active
<1>2. Cardinality(ActiveThreads') = Cardinality(ActiveThreads) - 1
  BY <1>1, ActiveFinite, FS_RemoveElement
<1>3. IsFiniteSet(ActiveThreads') /\ Cardinality(ActiveThreads') \in Nat
  BY <1>1, ActiveFinite, FS_RemoveElement, FS_CardinalityType
<1> QED
  BY <1>2, <1>3 DEF InFlightExact, ActiveThreads

\* A step of one connection.
LEMMA LocalStep ==
  ASSUME \A s \in Requests : Local(s), NEW r \in Requests,
         \A s \in Requests : s # r =>
           /\ client'[s] = client[s] /\ thread'[s] = thread[s] /\ entry'[s] = entry[s]
           /\ call'[s] = call[s] /\ srv'[s] = srv[s],
         Local(r)'
  PROVE  \A s \in Requests : Local(s)'
PROOF
<1> SUFFICES ASSUME NEW s \in Requests, s # r
             PROVE  Local(s)'
  OBVIOUS
<1>1. s \in Dropped' <=> s \in Dropped
  BY DEF Dropped
<1> QED
  BY <1>1 DEF Local

\* Entries of recorded attempts do not change, so neither does their evidence.
LEMMA EvidenceKept ==
  ASSUME TypeOK, EvidenceOrdered, TypeOK', NEW r \in Requests,
         \A s \in Requests : s # r => thread'[s] = thread[s] /\ entry'[s] = entry[s],
         thread[r] \in Recorded => thread'[r] \in Recorded /\ entry'[r] = entry[r],
         \/ proxy'.attempts = proxy.attempts
         \/ proxy'.attempts = proxy.attempts \cup {r} /\ thread'[r] \in Recorded,
         messages \subseteq messages',
         UNCHANGED <<phase, report, after>>
  PROVE  EvidenceOrdered'
PROOF
<1>1. \A s \in report.of.attempts : s \in Requests /\ entry'[s] = entry[s]
  BY DEF EvidenceOrdered
<1>2. CommittedIn(report.of.attempts)' = CommittedIn(report.of.attempts)
  BY <1>1 DEF CommittedIn, Classification
<1>3. (proxy'.attempts \cup report'.of.attempts) \subseteq {s \in Requests : thread'[s] \in Recorded}
  BY DEF EvidenceOrdered
<1> QED
  BY <1>2, <1>3 DEF EvidenceOrdered

-----------------------------------------------------------------------------
(* The steps of a connection *)

LEMMA NewTypes == NewEntry \in Entries /\ NewProxy \in ProxyStates
PROOF
<1>1. NewEntry \in Entries
  BY DEF NewEntry, Entries
<1>2. NewProxy \in ProxyStates
  BY DEF NewProxy, ProxyStates
<1> QED
  BY <1>1, <1>2

LEMMA InitInv == Init => Inv
PROOF
<1> SUFFICES ASSUME Init
             PROVE  Inv
  OBVIOUS
<1> USE DEF Init, ReceiptsInit, NotTaken
<1>1. DBInv
  BY DBInitInv
<1>2. TypeOK
  BY <1>1, NewTypes DEF DBInv, TypeOK
<1>3. InFlightExact
  <2>1. {r \in Requests : thread[r] \in Active} = {}
    BY DEF Active
  <2> QED
    BY <2>1, FS_EmptySet DEF InFlightExact, NewProxy
<1>4. \A r \in Requests : Local(r)
  BY DEF DBInit, Local, Dropped, Answers, NewEntry
<1>5. CommitsCounted
  <2>1. \A r \in Requests : entry[r].committed_seq = 0
    BY DEF NewEntry
  <2>2. \A r \in Requests : entry[r].committed_seq <= proxy.committed_count
    BY <2>1 DEF NewProxy
  <2> QED
    BY <2>1, <2>2 DEF CommitsCounted
<1>6. EvidenceOrdered
  BY DEF EvidenceOrdered, DBInit, NewProxy
<1> QED
  BY <1>1, <1>2, <1>3, <1>4, <1>5, <1>6 DEF Inv

\* A step of one connection that registers no commit.
LEMMA ConnectionStep ==
  ASSUME Inv, TypeOK', DBInv', InFlightExact', NEW r \in Requests, Local(r)',
         \A s \in Requests : s # r =>
           /\ client'[s] = client[s] /\ thread'[s] = thread[s] /\ entry'[s] = entry[s]
           /\ call'[s] = call[s] /\ srv'[s] = srv[s],
         entry'[r].committed_seq = entry[r].committed_seq,
         proxy'.committed_count = proxy.committed_count,
         thread[r] \in Recorded => thread'[r] \in Recorded /\ entry'[r] = entry[r],
         \/ proxy'.attempts = proxy.attempts
         \/ proxy'.attempts = proxy.attempts \cup {r} /\ thread'[r] \in Recorded,
         messages \subseteq messages',
         UNCHANGED <<phase, report, after>>
  PROVE  Inv'
PROOF
<1>1. \A s \in Requests : Local(s)'
  BY LocalStep DEF Inv
<1>2. CommitsCounted'
  <2>1. \A s \in Requests : entry'[s].committed_seq = entry[s].committed_seq
    OBVIOUS
  <2> QED
    BY <2>1 DEF Inv, CommitsCounted
<1>3. EvidenceOrdered'
  BY EvidenceKept DEF Inv
<1> QED
  BY <1>1, <1>2, <1>3 DEF Inv

LEMMA ConnectInv ==
  ASSUME Inv, NEW r \in Requests, Connect(r)
  PROVE  Inv'
PROOF
<1>1. /\ client[r] = "idle" /\ client' = [client EXCEPT ![r] = "connected"]
      /\ thread[r] = "none" /\ thread' = [thread EXCEPT ![r] = "backlog"]
      /\ UNCHANGED <<dbVars, entry, proxy, phase, report, after>>
  BY DEF Inv, Local, Connect, Continue
<1>2. DBInv' /\ TypeOK'
  BY <1>1, DBStutter DEF Inv, DBInv, TypeOK
<1>3. InFlightExact'
  BY <1>1, CountKept DEF Inv, Active
<1>4. Local(r)'
  BY <1>1 DEF Inv, TypeOK, Local, Dropped, Unanswered, Untreated, Recorded, dbVars
<1> QED
  BY <1>1, <1>2, <1>3, <1>4, ConnectionStep DEF Inv, TypeOK, dbVars, Recorded

LEMMA SendRequestInv ==
  ASSUME Inv, NEW r \in Requests, NEW c \in Calls(r), SendRequest(r, c)
  PROVE  Inv'
PROOF
<1>1. /\ client[r] = "connected" /\ client' = [client EXCEPT ![r] = "waiting"]
      /\ call[r] = NoCall /\ srv[r] = "idle" /\ call' = [call EXCEPT ![r] = c]
      /\ UNCHANGED <<drafts, messages, send_attempts, writer, srv, saw>>
      /\ UNCHANGED <<thread, entry, proxy, phase, report, after>>
  BY DEF Inv, Local, DBInv, CallsFit, SendRequest
<1>2. DBInv'
  <2>1. srv' = [srv EXCEPT ![r] = "idle"]
    BY <1>1 DEF Inv, DBInv, DBTypeOK
  <2> QED
    BY <1>1, <2>1, CallGiven DEF Inv
<1>3. TypeOK' /\ InFlightExact'
  BY <1>1, <1>2 DEF Inv, DBInv, TypeOK, InFlightExact
<1>4. Local(r)'
  BY <1>1 DEF Inv, TypeOK, Local, Dropped, Unanswered, Untreated, Recorded
<1> QED
  BY <1>1, <1>2, <1>3, <1>4, ConnectionStep DEF Inv, TypeOK, DBInv, DBTypeOK

LEMMA LeaveInv ==
  ASSUME Inv, NEW r \in Requests, Leave(r)
  PROVE  Inv'
PROOF
<1>1. /\ client[r] \in {"connected", "waiting"} /\ client' = [client EXCEPT ![r] = "gone"]
      /\ UNCHANGED <<dbVars, thread, entry, proxy, phase, report, after>>
  BY DEF Leave
<1>2. DBInv' /\ TypeOK' /\ InFlightExact'
  BY <1>1, DBStutter DEF Inv, DBInv, TypeOK, InFlightExact
<1>3. Local(r)'
  BY <1>1 DEF Inv, TypeOK, Local, Dropped, dbVars
<1> QED
  BY <1>1, <1>2, <1>3, ConnectionStep DEF Inv, TypeOK, dbVars

-----------------------------------------------------------------------------
(* The steps of a handler thread *)

\* A step of a handler thread that leaves the tables and the count alone.
LEMMA ThreadMoves ==
  ASSUME Inv, NEW r \in Requests, thread[r] \in Active \ Recorded,
         NEW place \in Active, thread' = [thread EXCEPT ![r] = place],
         NEW e \in Entries, entry' = [entry EXCEPT ![r] = e],
         e.committed_seq = entry[r].committed_seq,
         NEW k \in {"idle", "connected", "waiting", "answered", "lost", "gone"},
         client' = [client EXCEPT ![r] = k],
         proxy' \in ProxyStates, proxy'.in_flight = proxy.in_flight,
         proxy'.committed_count = proxy.committed_count,
         \/ proxy'.attempts = proxy.attempts
         \/ proxy'.attempts = proxy.attempts \cup {r} /\ place = "finishing",
         UNCHANGED <<dbVars, phase, report, after>>,
         Local(r)'
  PROVE  Inv'
PROOF
<1>1. DBInv'
  BY DBStutter DEF Inv
<1>2. TypeOK'
  BY <1>1 DEF Inv, DBInv, TypeOK
<1>3. InFlightExact'
  BY CountKept DEF Inv
<1>4. /\ thread'[r] = place /\ entry'[r] = e
      /\ \A s \in Requests : s # r =>
           client'[s] = client[s] /\ thread'[s] = thread[s] /\ entry'[s] = entry[s]
  BY DEF Inv, TypeOK
<1> QED
  BY <1>1, <1>2, <1>3, <1>4, ConnectionStep DEF dbVars, Recorded

LEMMA AcceptInv ==
  ASSUME Inv, NEW r \in Requests, Accept(r)
  PROVE  Inv'
PROOF
<1>1. /\ thread[r] = "backlog" /\ thread' = [thread EXCEPT ![r] = "accepted"]
      /\ proxy' = [proxy EXCEPT !.in_flight = proxy.in_flight + 1]
      /\ UNCHANGED <<dbVars, client, entry, phase, report, after>>
  BY DEF Accept, AcceptCounting, InThread, Continue
<1>2. /\ proxy' \in ProxyStates /\ proxy'.in_flight = proxy.in_flight + 1
      /\ proxy'.attempts = proxy.attempts /\ proxy'.committed_count = proxy.committed_count
  BY <1>1 DEF Inv, TypeOK, ProxyStates
<1>3. DBInv' /\ TypeOK'
  BY <1>1, <1>2, DBStutter DEF Inv, DBInv, TypeOK, Active
<1>4. InFlightExact'
  BY <1>1, <1>2, CountUp DEF Inv
<1>5. Local(r)'
  BY <1>1 DEF Inv, TypeOK, Local, Dropped, Unanswered, Untreated, Recorded, dbVars
<1> QED
  BY <1>1, <1>2, <1>3, <1>4, <1>5, ConnectionStep DEF Inv, TypeOK, dbVars, Recorded

LEMMA FinishInv ==
  ASSUME Inv, NEW r \in Requests, Finish(r)
  PROVE  Inv'
PROOF
<1>1. /\ thread[r] = "finishing" /\ thread' = [thread EXCEPT ![r] = "finished"]
      /\ proxy' = [proxy EXCEPT !.in_flight = proxy.in_flight - 1]
      /\ UNCHANGED <<dbVars, client, entry, phase, report, after>>
  BY DEF Finish, FinishCounting, InThread, Continue
<1>2. /\ proxy'.in_flight = proxy.in_flight - 1
      /\ proxy'.attempts = proxy.attempts /\ proxy'.committed_count = proxy.committed_count
  BY <1>1 DEF Inv, TypeOK, ProxyStates
<1>3. InFlightExact' /\ proxy'.in_flight \in Nat
  BY <1>1, <1>2, CountDown DEF Inv
<1>4. proxy' \in ProxyStates
  BY <1>1, <1>2, <1>3 DEF Inv, TypeOK, ProxyStates
<1>5. DBInv' /\ TypeOK'
  BY <1>1, <1>4, DBStutter DEF Inv, DBInv, TypeOK
<1>6. Local(r)'
  BY <1>1 DEF Inv, TypeOK, Local, Dropped, Unanswered, Untreated, Recorded, dbVars
<1> QED
  BY <1>1, <1>2, <1>3, <1>5, <1>6, ConnectionStep DEF Inv, TypeOK, dbVars, Recorded

LEMMA StartFailsInv ==
  ASSUME Inv, NEW r \in Requests, StartFails(r)
  PROVE  Inv'
PROOF
<1> DEFINE k == IF client[r] \in {"connected", "waiting"} THEN "lost" ELSE client[r]
<1>1. /\ thread[r] = "accepted" /\ thread' = [thread EXCEPT ![r] = "finishing"]
      /\ client' = [client EXCEPT ![r] = k]
      /\ UNCHANGED <<dbVars, entry, proxy, phase, report, after>>
  BY DEF StartFails, InThread, Continue
<1>2. k \in {"idle", "connected", "waiting", "answered", "lost", "gone"}
  BY DEF Inv, TypeOK
<1>3. entry[r] \in Entries /\ entry' = [entry EXCEPT ![r] = entry[r]] /\ proxy' \in ProxyStates
  BY <1>1 DEF Inv, TypeOK
<1>4. Local(r)'
  BY <1>1 DEF Inv, TypeOK, Local, Dropped, Unanswered, Untreated, Recorded, dbVars
<1> QED
  BY <1>1, <1>2, <1>3, <1>4, ThreadMoves DEF Active, Recorded

LEMMA NoRequestLineInv ==
  ASSUME Inv, NEW r \in Requests, NoRequestLine(r)
  PROVE  Inv'
PROOF
<1>1. /\ thread[r] = "accepted" /\ thread' = [thread EXCEPT ![r] = "finishing"]
      /\ client[r] = "gone"
      /\ proxy' = [proxy EXCEPT !.in_flight = proxy.in_flight - 0]
      /\ UNCHANGED <<dbVars, client, entry, phase, report, after>>
  BY DEF NoRequestLine, NoRequestLineCounting, InThread, Continue
<1>2. /\ proxy' \in ProxyStates /\ proxy'.in_flight = proxy.in_flight
      /\ proxy'.attempts = proxy.attempts /\ proxy'.committed_count = proxy.committed_count
  BY <1>1 DEF Inv, TypeOK, ProxyStates
<1>3. /\ entry[r] \in Entries /\ entry' = [entry EXCEPT ![r] = entry[r]]
      /\ client' = [client EXCEPT ![r] = "gone"]
  BY <1>1 DEF Inv, TypeOK
<1>4. Local(r)'
  BY <1>1 DEF Inv, TypeOK, Local, Dropped, Unanswered, Untreated, Recorded, dbVars
<1> QED
  BY <1>1, <1>2, <1>3, <1>4, ThreadMoves DEF Active, Recorded

LEMMA NewRequestInv ==
  ASSUME Inv, NEW r \in Requests, NewRequest(r)
  PROVE  Inv'
PROOF
<1> DEFINE e == [entry[r] EXCEPT !.request_seq = proxy.next_request_sequence]
           place == IF IsSend(r) THEN "sequenced" ELSE "reading"
<1>1. /\ thread[r] = "accepted" /\ thread' = [thread EXCEPT ![r] = place]
      /\ entry' = [entry EXCEPT ![r] = e] /\ call[r] # NoCall
      /\ proxy' = [proxy EXCEPT !.next_request_sequence = proxy.next_request_sequence + 1]
      /\ UNCHANGED <<dbVars, client, phase, report, after>>
  BY DEF NewRequest, InThread, Continue
<1>2. /\ proxy' \in ProxyStates /\ proxy'.in_flight = proxy.in_flight
      /\ proxy'.attempts = proxy.attempts /\ proxy'.committed_count = proxy.committed_count
  BY <1>1 DEF Inv, TypeOK, ProxyStates
<1>3. /\ e \in Entries /\ e.committed_seq = entry[r].committed_seq
      /\ e.upstream = entry[r].upstream /\ e.treatment = entry[r].treatment
  <2>1. entry[r] \in Entries
    BY DEF Inv, TypeOK
  <2>2. proxy.next_request_sequence \in Nat
    BY DEF Inv, TypeOK, ProxyStates
  <2> QED
    BY <2>1, <2>2 DEF Entries
<1>4. /\ client[r] \in {"idle", "connected", "waiting", "answered", "lost", "gone"}
      /\ client' = [client EXCEPT ![r] = client[r]]
  BY <1>1 DEF Inv, TypeOK
<1>5. place \in {"sequenced", "reading"}
  OBVIOUS
<1> HIDE DEF e, place
<1>6. Local(r)'
  BY <1>1, <1>3, <1>5 DEF Inv, TypeOK, Local, Dropped, Unanswered, Untreated, Recorded, dbVars
<1> QED
  BY <1>1, <1>2, <1>3, <1>4, <1>5, <1>6, ThreadMoves DEF Active, Recorded

LEMMA NewAttemptInv ==
  ASSUME Inv, NEW r \in Requests, NewAttempt(r)
  PROVE  Inv'
PROOF
<1> DEFINE e == [entry[r] EXCEPT !.attempt_seq = proxy.next_sequence]
<1>1. /\ thread[r] = "sequenced" /\ thread' = [thread EXCEPT ![r] = "reading"]
      /\ entry' = [entry EXCEPT ![r] = e]
      /\ proxy' = [proxy EXCEPT !.next_sequence = proxy.next_sequence + 1]
      /\ UNCHANGED <<dbVars, client, phase, report, after>>
  BY DEF NewAttempt, InThread, Continue
<1>2. /\ proxy' \in ProxyStates /\ proxy'.in_flight = proxy.in_flight
      /\ proxy'.attempts = proxy.attempts /\ proxy'.committed_count = proxy.committed_count
  BY <1>1 DEF Inv, TypeOK, ProxyStates
<1>3. /\ e \in Entries /\ e.committed_seq = entry[r].committed_seq
      /\ e.upstream = entry[r].upstream /\ e.treatment = entry[r].treatment
  BY DEF Inv, TypeOK, Entries, ProxyStates
<1>4. /\ client[r] \in {"idle", "connected", "waiting", "answered", "lost", "gone"}
      /\ client' = [client EXCEPT ![r] = client[r]]
  BY <1>1 DEF Inv, TypeOK
<1> HIDE DEF e
<1>5. Local(r)'
  BY <1>1, <1>3 DEF Inv, TypeOK, Local, Dropped, Unanswered, Untreated, Recorded, dbVars
<1> QED
  BY <1>1, <1>2, <1>3, <1>4, <1>5, ThreadMoves DEF Active, Recorded

LEMMA BodyLostInv ==
  ASSUME Inv, NEW r \in Requests, BodyLost(r)
  PROVE  Inv'
PROOF
<1>1. /\ thread[r] = "reading" /\ thread' = [thread EXCEPT ![r] = "finalizing"]
      /\ UNCHANGED <<dbVars, client, entry, proxy, phase, report, after>>
  BY DEF BodyLost, InThread, Continue
<1>2. /\ proxy' \in ProxyStates /\ proxy'.in_flight = proxy.in_flight
      /\ proxy'.attempts = proxy.attempts /\ proxy'.committed_count = proxy.committed_count
  BY <1>1 DEF Inv, TypeOK
<1>3. /\ entry[r] \in Entries /\ entry' = [entry EXCEPT ![r] = entry[r]]
      /\ client[r] \in {"idle", "connected", "waiting", "answered", "lost", "gone"}
      /\ client' = [client EXCEPT ![r] = client[r]]
  BY <1>1 DEF Inv, TypeOK
<1>4. Local(r)'
  BY <1>1 DEF Inv, TypeOK, Local, Dropped, Unanswered, Untreated, Recorded, dbVars
<1> QED
  BY <1>1, <1>2, <1>3, <1>4, ThreadMoves DEF Active, Recorded

\* What _forward counts.
LEMMA ForwardCounted ==
  ASSUME Inv, NEW r \in Requests, CountForward(r)
  PROVE  /\ proxy' \in ProxyStates /\ proxy'.in_flight = proxy.in_flight
         /\ proxy'.attempts = proxy.attempts /\ proxy'.committed_count = proxy.committed_count
PROOF
  BY DEF Inv, TypeOK, ProxyStates, CountForward

LEMMA ForwardInv ==
  ASSUME Inv, NEW r \in Requests, Forward(r)
  PROVE  Inv'
PROOF
<1>1. /\ thread[r] = "reading" /\ thread' = [thread EXCEPT ![r] = "forwarding"]
      /\ CountForward(r) /\ (Deliver(r) \/ Refuse(r))
      /\ UNCHANGED <<client, entry, phase, report, after>>
  BY DEF Forward, InThread, Continue
<1>2. /\ UNCHANGED <<call, messages>>
      /\ \A s \in Requests : s # r => srv'[s] = srv[s]
  BY <1>1 DEF Inv, TypeOK, DBTypeOK, Deliver, Refuse, Go
<1>3. DBInv' /\ TypeOK'
  BY <1>1, ForwardCounted, DeliverInv DEF Inv, DBInv, TypeOK, Active
<1>4. InFlightExact'
  BY <1>1, ForwardCounted, CountKept DEF Inv, Active
<1>5. Local(r)'
  BY <1>1, <1>2 DEF Inv, TypeOK, Local, Dropped, Unanswered, Untreated, Recorded, Answers
<1> QED
  BY <1>1, <1>2, <1>3, <1>4, <1>5, ForwardCounted, ConnectionStep DEF Inv, TypeOK, Recorded

LEMMA ConnectFailsInv ==
  ASSUME Inv, NEW r \in Requests, ConnectFails(r)
  PROVE  Inv'
PROOF
<1> DEFINE e == [entry[r] EXCEPT !.upstream = "network_error"]
<1>1. /\ thread[r] = "reading" /\ thread' = [thread EXCEPT ![r] = "sending"]
      /\ entry' = [entry EXCEPT ![r] = e] /\ CountForward(r)
      /\ UNCHANGED <<dbVars, client, phase, report, after>>
  BY DEF ConnectFails, InThread, Continue
<1>2. /\ e \in Entries /\ e.committed_seq = entry[r].committed_seq
      /\ e.upstream = "network_error" /\ e.treatment = entry[r].treatment
  BY DEF Inv, TypeOK, Entries
<1>3. /\ client[r] \in {"idle", "connected", "waiting", "answered", "lost", "gone"}
      /\ client' = [client EXCEPT ![r] = client[r]]
  BY <1>1 DEF Inv, TypeOK
<1> HIDE DEF e
<1>4. Local(r)'
  BY <1>1, <1>2 DEF Inv, TypeOK, Local, Dropped, Unanswered, Untreated, Recorded, Answers, dbVars
<1> QED
  BY <1>1, <1>2, <1>3, <1>4, ForwardCounted, ThreadMoves DEF Active, Recorded

LEMMA UpstreamFailsInv ==
  ASSUME Inv, NEW r \in Requests, UpstreamFails(r)
  PROVE  Inv'
PROOF
<1> DEFINE e == [entry[r] EXCEPT !.upstream = "network_error"]
<1>1. /\ thread[r] = "forwarding" /\ thread' = [thread EXCEPT ![r] = "sending"]
      /\ entry' = [entry EXCEPT ![r] = e]
      /\ UNCHANGED <<dbVars, client, proxy, phase, report, after>>
  BY DEF UpstreamFails, UpstreamFailsAs, InThread, Continue
<1>2. /\ proxy' \in ProxyStates /\ proxy'.in_flight = proxy.in_flight
      /\ proxy'.attempts = proxy.attempts /\ proxy'.committed_count = proxy.committed_count
  BY <1>1 DEF Inv, TypeOK
<1>3. /\ e \in Entries /\ e.committed_seq = entry[r].committed_seq
      /\ e.upstream = "network_error" /\ e.treatment = entry[r].treatment
  BY DEF Inv, TypeOK, Entries
<1>4. /\ client[r] \in {"idle", "connected", "waiting", "answered", "lost", "gone"}
      /\ client' = [client EXCEPT ![r] = client[r]]
  BY <1>1 DEF Inv, TypeOK
<1> HIDE DEF e
<1>5. Local(r)'
  BY <1>1, <1>3 DEF Inv, TypeOK, Local, Dropped, Unanswered, Untreated, Recorded, Answers, dbVars
<1> QED
  BY <1>1, <1>2, <1>3, <1>4, <1>5, ThreadMoves DEF Active, Recorded

LEMMA DropInv ==
  ASSUME Inv, NEW r \in Requests, Drop(r)
  PROVE  Inv'
PROOF
<1> DEFINE e == [entry[r] EXCEPT !.treatment = "connection_dropped_after_commit"]
           k == IF client[r] = "waiting" THEN "lost" ELSE client[r]
<1>1. /\ thread[r] = "dropping" /\ thread' = [thread EXCEPT ![r] = "finalizing"]
      /\ entry' = [entry EXCEPT ![r] = e] /\ client' = [client EXCEPT ![r] = k]
      /\ UNCHANGED <<dbVars, proxy, phase, report, after>>
  BY DEF Drop, InThread, Continue
<1>2. /\ proxy' \in ProxyStates /\ proxy'.in_flight = proxy.in_flight
      /\ proxy'.attempts = proxy.attempts /\ proxy'.committed_count = proxy.committed_count
  BY <1>1 DEF Inv, TypeOK
<1>3. /\ e \in Entries /\ e.committed_seq = entry[r].committed_seq /\ e.upstream = entry[r].upstream
  BY DEF Inv, TypeOK, Entries
<1>4. call[r] # NoCall
  BY <1>1 DEF Inv, Local, Recorded
<1>5. k \in {"lost", "gone"}
  BY <1>1, <1>4 DEF Inv, TypeOK, Local, Untreated
<1> HIDE DEF e, k
<1>6. Local(r)'
  BY <1>1, <1>3, <1>4, <1>5 DEF Inv, TypeOK, Local, Dropped, Unanswered, Untreated, Recorded,
     dbVars
<1> QED
  BY <1>1, <1>2, <1>3, <1>5, <1>6, ThreadMoves DEF Active, Recorded

LEMMA ForwardDownstreamInv ==
  ASSUME Inv, NEW r \in Requests, ForwardDownstream(r)
  PROVE  Inv'
PROOF
<1>1. PICK t \in {"response_forwarded", "downstream_disconnected_before_response"} :
        entry' = [entry EXCEPT ![r].treatment = t]
  BY DEF ForwardDownstream
<1> DEFINE e == [entry[r] EXCEPT !.treatment = t]
           k == IF client[r] = "waiting" THEN "answered" ELSE client[r]
<1>2. /\ thread[r] = "sending" /\ thread' = [thread EXCEPT ![r] = "finalizing"]
      /\ entry' = [entry EXCEPT ![r] = e] /\ client' = [client EXCEPT ![r] = k]
      /\ UNCHANGED <<dbVars, proxy, phase, report, after>>
  BY <1>1 DEF ForwardDownstream, InThread, Continue
<1>3. /\ proxy' \in ProxyStates /\ proxy'.in_flight = proxy.in_flight
      /\ proxy'.attempts = proxy.attempts /\ proxy'.committed_count = proxy.committed_count
  BY <1>2 DEF Inv, TypeOK
<1>4. /\ e \in Entries /\ e.committed_seq = entry[r].committed_seq
      /\ e.upstream = entry[r].upstream /\ e.treatment = t
  BY DEF Inv, TypeOK, Entries
<1>5. call[r] # NoCall
  BY <1>2 DEF Inv, Local, Recorded
<1>6. k \in {"answered", "gone"}
  BY <1>2, <1>5 DEF Inv, TypeOK, Local, Untreated
<1> HIDE DEF e, k
<1>7. Local(r)'
  BY <1>2, <1>4, <1>5, <1>6 DEF Inv, TypeOK, Local, Dropped, Unanswered, Untreated, Recorded,
     dbVars
<1> QED
  BY <1>2, <1>3, <1>4, <1>6, <1>7, ThreadMoves DEF Active, Recorded

LEMMA RecordRequestInv ==
  ASSUME Inv, NEW r \in Requests, RecordRequest(r)
  PROVE  Inv'
PROOF
<1> DEFINE place == IF IsSend(r) THEN "recording" ELSE "finishing"
<1>1. /\ thread[r] = "finalizing" /\ thread' = [thread EXCEPT ![r] = place]
      /\ proxy' = [proxy EXCEPT !.requests = proxy.requests \cup {r},
                                !.in_flight = proxy.in_flight - 0]
      /\ UNCHANGED <<dbVars, client, entry, phase, report, after>>
  BY DEF RecordRequest, RecordRequestCounting, InThread, Continue
<1>2. /\ proxy' \in ProxyStates /\ proxy'.in_flight = proxy.in_flight
      /\ proxy'.attempts = proxy.attempts /\ proxy'.committed_count = proxy.committed_count
  <2>1. /\ proxy.in_flight - 0 = proxy.in_flight
        /\ proxy.requests \cup {r} \in SUBSET Requests
    BY DEF Inv, TypeOK, ProxyStates
  <2>2. proxy' = [proxy EXCEPT !.requests = proxy.requests \cup {r}]
    BY <1>1, <2>1 DEF Inv, TypeOK, ProxyStates
  <2> QED
    BY <2>1, <2>2 DEF Inv, TypeOK, ProxyStates
<1>3. /\ entry[r] \in Entries /\ entry' = [entry EXCEPT ![r] = entry[r]]
      /\ client[r] \in {"idle", "connected", "waiting", "answered", "lost", "gone"}
      /\ client' = [client EXCEPT ![r] = client[r]]
  BY <1>1 DEF Inv, TypeOK
<1>4. place \in {"recording", "finishing"}
  OBVIOUS
<1> HIDE DEF place
<1>5. Local(r)'
  BY <1>1, <1>4 DEF Inv, TypeOK, Local, Dropped, Unanswered, Untreated, Recorded, dbVars
<1> QED
  BY <1>1, <1>2, <1>3, <1>4, <1>5, ThreadMoves DEF Active, Recorded

LEMMA RecordAttemptInv ==
  ASSUME Inv, NEW r \in Requests, RecordAttempt(r)
  PROVE  Inv'
PROOF
<1>1. /\ thread[r] = "recording" /\ thread' = [thread EXCEPT ![r] = "finishing"]
      /\ proxy' = [proxy EXCEPT !.attempts = proxy.attempts \cup {r}]
      /\ UNCHANGED <<dbVars, client, entry, phase, report, after>>
  BY DEF RecordAttempt, InThread, Continue
<1>2. /\ proxy' \in ProxyStates /\ proxy'.in_flight = proxy.in_flight
      /\ proxy'.attempts = proxy.attempts \cup {r}
      /\ proxy'.committed_count = proxy.committed_count
  BY <1>1 DEF Inv, TypeOK, ProxyStates
<1>3. /\ entry[r] \in Entries /\ entry' = [entry EXCEPT ![r] = entry[r]]
      /\ client[r] \in {"idle", "connected", "waiting", "answered", "lost", "gone"}
      /\ client' = [client EXCEPT ![r] = client[r]]
  BY <1>1 DEF Inv, TypeOK
<1>4. Local(r)'
  BY <1>1 DEF Inv, TypeOK, Local, Dropped, Unanswered, Untreated, Recorded, dbVars
<1> QED
  BY <1>1, <1>2, <1>3, <1>4, ThreadMoves DEF Active, Recorded

\* A verified commit takes the next place in the count, and is the one to be
\* dropped exactly when that place is the configured one.
LEMMA RegisterInv ==
  ASSUME Inv, NEW r \in Requests, UpstreamAnswers(r), IsSend(r), srv[r] = "committed"
  PROVE  Inv'
PROOF
<1> DEFINE n == proxy.committed_count + 1
           e == [entry[r] EXCEPT !.upstream = "committed", !.committed_seq = n]
           place == IF n = inject_after_committed THEN "dropping" ELSE "sending"
<1>1. /\ thread[r] = "forwarding" /\ thread' = [thread EXCEPT ![r] = place]
      /\ entry' = [entry EXCEPT ![r] = e]
      /\ proxy' = [proxy EXCEPT !.committed_count = n]
      /\ UNCHANGED <<dbVars, client, phase, report, after>>
  BY DEF UpstreamAnswers, UpstreamAnswersTreating, InThread, Continue
<1>2. /\ proxy' \in ProxyStates /\ proxy'.in_flight = proxy.in_flight
      /\ proxy'.attempts = proxy.attempts /\ proxy'.committed_count = n
      /\ n \in Nat /\ n > proxy.committed_count
  <2>1. n \in Nat /\ n > proxy.committed_count
    BY DEF Inv, TypeOK, ProxyStates
  <2> HIDE DEF n
  <2> QED
    BY <1>1, <2>1 DEF Inv, TypeOK, ProxyStates
<1>3. /\ e \in Entries /\ e.committed_seq = n
      /\ e.upstream = "committed" /\ e.treatment = entry[r].treatment
  <2>1. entry[r] \in Entries
    BY DEF Inv, TypeOK
  <2>2. n \in Nat
    BY <1>2
  <2> HIDE DEF n
  <2> QED
    BY <2>1, <2>2 DEF Entries, Answers
<1>4. /\ place \in {"dropping", "sending"}
      /\ place = "dropping" => n = inject_after_committed
  OBVIOUS
<1>5. /\ thread'[r] = place /\ entry'[r] = e
      /\ \A s \in Requests : s # r => thread'[s] = thread[s] /\ entry'[s] = entry[s]
  BY <1>1 DEF Inv, TypeOK
<1> HIDE DEF e, place, n
<1>6. DBInv' /\ TypeOK'
  BY <1>1, <1>2, <1>3, <1>4, DBStutter DEF Inv, DBInv, TypeOK, Active
<1>7. InFlightExact'
  BY <1>1, <1>2, <1>4, CountKept DEF Inv, Active
<1>8. Local(r)'
  BY <1>1, <1>3, <1>4, <1>5 DEF Inv, Local, Dropped, Unanswered, Untreated, Recorded, dbVars
<1>9. \A s \in Requests : Local(s)'
  BY <1>1, <1>5, <1>8, LocalStep DEF Inv, dbVars
<1>10. CommitsCounted'
  <2>1. \A s \in Requests : /\ entry[s].committed_seq \in Nat
                            /\ entry[s].committed_seq <= proxy.committed_count
    BY DEF Inv, TypeOK, Entries, CommitsCounted
  <2>2. /\ entry'[r].committed_seq = n
        /\ \A s \in Requests : s # r => entry'[s].committed_seq = entry[s].committed_seq
    BY <1>3, <1>5
  <2>3. proxy.committed_count \in Nat
    BY DEF Inv, TypeOK, ProxyStates
  <2>4. \A s \in Requests : entry'[s].committed_seq <= n
    BY <1>2, <2>1, <2>2, <2>3
  <2>5. \A s \in Requests : s # r => entry'[s].committed_seq # n
    BY <1>2, <2>1, <2>2, <2>3
  <2>6. \A s, u \in Requests :
          entry'[s].committed_seq = entry'[u].committed_seq /\ entry'[s].committed_seq # 0 => s = u
    BY <2>2, <2>5 DEF Inv, CommitsCounted
  <2> QED
    BY <1>2, <2>4, <2>6 DEF CommitsCounted
<1>11. EvidenceOrdered'
  <2>1. thread[r] \notin Recorded
    BY <1>1 DEF Recorded
  <2> QED
    BY <1>1, <1>2, <1>5, <1>6, <2>1, EvidenceKept DEF Inv, dbVars
<1> QED
  BY <1>6, <1>7, <1>9, <1>10, <1>11 DEF Inv

LEMMA UpstreamAnswersInv ==
  ASSUME Inv, NEW r \in Requests, UpstreamAnswers(r)
  PROVE  Inv'
PROOF
<1>1. CASE IsSend(r) /\ srv[r] = "committed"
  BY <1>1, RegisterInv
<1>2. CASE ~(IsSend(r) /\ srv[r] = "committed")
  <2> DEFINE e == [entry[r] EXCEPT !.upstream = srv[r]]
  <2>1. /\ thread[r] = "forwarding" /\ thread' = [thread EXCEPT ![r] = "sending"]
        /\ entry' = [entry EXCEPT ![r] = e] /\ srv[r] \in Answers
        /\ UNCHANGED <<dbVars, client, proxy, phase, report, after>>
    BY <1>2 DEF UpstreamAnswers, UpstreamAnswersTreating, InThread, Continue, Answered
  <2>2. /\ proxy' \in ProxyStates /\ proxy'.in_flight = proxy.in_flight
        /\ proxy'.attempts = proxy.attempts /\ proxy'.committed_count = proxy.committed_count
    BY <2>1 DEF Inv, TypeOK
  <2>3. /\ e \in Entries /\ e.committed_seq = entry[r].committed_seq
        /\ e.upstream = srv[r] /\ e.treatment = entry[r].treatment
    BY <2>1 DEF Inv, TypeOK, Entries
  <2>4. /\ client[r] \in {"idle", "connected", "waiting", "answered", "lost", "gone"}
        /\ client' = [client EXCEPT ![r] = client[r]]
    BY <2>1 DEF Inv, TypeOK
  <2> HIDE DEF e
  <2>5. Local(r)'
    BY <2>1, <2>3 DEF Inv, TypeOK, Local, Dropped, Unanswered, Untreated, Recorded, dbVars
  <2> QED
    BY <2>1, <2>2, <2>3, <2>4, <2>5, ThreadMoves DEF Active, Recorded
<1> QED
  BY <1>1, <1>2

-----------------------------------------------------------------------------
(* The steps of the fixture and of the harness *)

\* A handler moves on from where it is; an answer it gave stands.
LEMMA HandlerStep ==
  ASSUME DBInv, NEW r \in Requests, Handle(r)
  PROVE  /\ srv[r] \notin Answers /\ call' = call /\ messages \subseteq messages'
         /\ \A s \in Requests : s # r => srv'[s] = srv[s]
PROOF
<1> USE DEF DBInv, DBTypeOK, At, Go, Answers
<1>1. CASE CreateDraft(r) \/ SaveUpdate(r) \/ SaveSelect(r)
  BY <1>1 DEF CreateDraft, SaveUpdate, SaveSelect
<1>2. CASE ListMessages(r) \/ BusyTimeout(r)
  BY <1>2 DEF ListMessages, BusyTimeout
<1>3. CASE SendSelect(r) \/ SendInsert(r)
  BY <1>3 DEF SendSelect, SendInsert
<1>4. CASE SendCommit(r)
  BY <1>4 DEF SendCommit
<1> QED
  BY <1>1, <1>2, <1>3, <1>4 DEF Handle

LEMMA FixtureInv ==
  ASSUME Inv, NEW r \in Requests, Fixture(r)
  PROVE  Inv'
PROOF
<1>1. Handle(r) /\ UNCHANGED <<client, thread, entry, proxy, phase, report, after>>
  BY DEF Fixture
<1>2. DBInv'
  BY <1>1, HandleInv DEF Inv
<1>3. TypeOK' /\ InFlightExact'
  BY <1>1, <1>2 DEF Inv, DBInv, TypeOK, InFlightExact
<1>4. /\ srv[r] \notin Answers /\ call' = call /\ messages \subseteq messages'
      /\ \A s \in Requests : s # r => srv'[s] = srv[s]
  BY <1>1, HandlerStep DEF Inv
<1>5. Local(r)'
  BY <1>1, <1>4 DEF Inv, Local, Dropped
<1> QED
  BY <1>1, <1>2, <1>3, <1>4, <1>5, ConnectionStep

LEMMA HarnessInv == Inv /\ Harness => Inv'
PROOF
<1> SUFFICES ASSUME Inv, Harness
             PROVE  Inv'
  OBVIOUS
<1>1. DBInv' /\ UNCHANGED <<dbVars, thread, entry, proxy>>
  BY DBStutter DEF Harness, CloseBrowser, CloseBrowserLosing, AwaitQuiescence, TakeReport,
     TakeSnapshot, DiscardReport, Join, Inv
<1>2. TypeOK'
  <2>1. DBTypeOK' /\ thread' = thread /\ entry' = entry /\ proxy' = proxy
    BY <1>1 DEF DBInv
  <2>2. client' \in [Requests -> {"idle", "connected", "waiting", "answered", "lost", "gone"}]
    BY DEF Inv, TypeOK, Harness, CloseBrowser, CloseBrowserLosing, AwaitQuiescence, TakeReport,
       TakeSnapshot, DiscardReport, Join
  <2>3. phase' \in {"baseline", "closing", "quiescent", "reported",
                    "stopping", "capturing", "captured", "done"}
    BY DEF Inv, TypeOK, Harness, CloseBrowser, CloseBrowserLosing, AwaitQuiescence, TakeReport,
       TakeSnapshot, DiscardReport, Join
  <2>4. report' \in [taken : BOOLEAN, of : ProxyStates]
    <3>1. report' = report \/ report' = [taken |-> TRUE, of |-> proxy] \/ report' = NotTaken
      BY DEF Harness, CloseBrowser, CloseBrowserLosing, AwaitQuiescence, TakeReport,
         TakeSnapshot, DiscardReport, Join
    <3>2. proxy \in ProxyStates /\ report \in [taken : BOOLEAN, of : ProxyStates]
      BY DEF Inv, TypeOK
    <3>3. /\ [taken |-> TRUE, of |-> proxy] \in [taken : BOOLEAN, of : ProxyStates]
          /\ NotTaken \in [taken : BOOLEAN, of : ProxyStates]
      BY <3>2, NewTypes DEF NotTaken
    <3> QED
      BY <3>1, <3>2, <3>3
  <2>5. after' \in [taken : BOOLEAN, messages : SUBSET Requests]
    <3>1. after' = after \/ after' = [taken |-> TRUE, messages |-> messages]
      BY DEF Harness, CloseBrowser, CloseBrowserLosing, AwaitQuiescence, TakeReport,
         TakeSnapshot, DiscardReport, Join
    <3>2. messages \subseteq Requests /\ after \in [taken : BOOLEAN, messages : SUBSET Requests]
      BY DEF Inv, TypeOK, DBTypeOK
    <3>3. [taken |-> TRUE, messages |-> messages] \in [taken : BOOLEAN, messages : SUBSET Requests]
      BY <3>2
    <3> QED
      BY <3>1, <3>2, <3>3
  <2> QED
    BY <2>1, <2>2, <2>3, <2>4, <2>5 DEF Inv, TypeOK
<1>3. InFlightExact' /\ CommitsCounted'
  BY <1>1 DEF Inv, InFlightExact, CommitsCounted
<1>4. \A r \in Requests : Local(r)'
  <2>1. CASE CloseBrowser
    <3> SUFFICES ASSUME NEW r \in Requests
                 PROVE  Local(r)'
      OBVIOUS
    <3>1. client'[r] = IF client[r] \in {"connected", "waiting"} THEN "gone" ELSE client[r]
      BY <2>1 DEF CloseBrowser, CloseBrowserLosing
    <3> QED
      BY <1>1, <3>1 DEF Inv, Local, Dropped, dbVars
  <2>2. CASE ~CloseBrowser
    <3>1. client' = client
      BY <2>2 DEF Harness, AwaitQuiescence, TakeReport, TakeSnapshot, DiscardReport, Join
    <3> QED
      BY <1>1, <3>1 DEF Inv, Local, Dropped, dbVars
  <2> QED
    BY <2>1, <2>2
<1>5. EvidenceOrdered'
  <2>1. CASE CloseBrowser \/ AwaitQuiescence
    BY <1>1, <2>1 DEF Inv, EvidenceOrdered, CloseBrowser, CloseBrowserLosing,
       AwaitQuiescence, CommittedIn, Classification, dbVars
  <2>2. CASE TakeReport
    BY <1>1, <2>2 DEF Inv, EvidenceOrdered, TakeReport, dbVars
  <2>3. CASE TakeSnapshot
    <3>1. CommittedIn(report.of.attempts) \subseteq messages
      BY DEF Inv, DBInv, RowsMatch, EvidenceOrdered, CommittedIn, Classification, Local, Answers
    <3> QED
      BY <1>1, <2>3, <3>1 DEF Inv, EvidenceOrdered, TakeSnapshot, CommittedIn, Classification,
         dbVars
  <2>4. CASE Join
    BY <1>1, <2>4 DEF Inv, EvidenceOrdered, Join, CommittedIn, Classification, dbVars
  <2>5. CASE DiscardReport
    BY <1>1, <2>5 DEF Inv, EvidenceOrdered, DiscardReport, NotTaken, NewProxy, dbVars
  <2> QED
    BY <2>1, <2>2, <2>3, <2>4, <2>5 DEF Harness
<1> QED
  BY <1>1, <1>2, <1>3, <1>4, <1>5 DEF Inv

-----------------------------------------------------------------------------
(* Theorems *)

LEMMA ThreadInv ==
  ASSUME Inv, NEW r \in Requests, Thread(r)
  PROVE  Inv'
PROOF
  BY NoRequestLineInv, NewRequestInv, NewAttemptInv, BodyLostInv, ForwardInv, ConnectFailsInv,
     UpstreamAnswersInv, UpstreamFailsInv, DropInv, ForwardDownstreamInv, RecordRequestInv,
     RecordAttemptInv, FinishInv
  DEF Thread

LEMMA StutterInv == Inv /\ UNCHANGED vars => Inv'
PROOF
<1> SUFFICES ASSUME Inv, UNCHANGED vars
             PROVE  Inv'
  OBVIOUS
<1>1. /\ UNCHANGED dbVars
      /\ UNCHANGED <<client, thread, entry, proxy, phase, report, after>>
  BY DEF vars
<1>2. DBInv' /\ TypeOK' /\ InFlightExact' /\ CommitsCounted'
  BY <1>1, DBStutter DEF Inv, DBInv, TypeOK, InFlightExact, CommitsCounted
<1>3. \A r \in Requests : Local(r)'
  BY <1>1 DEF Inv, Local, Dropped, dbVars
<1>4. EvidenceOrdered'
  BY <1>1 DEF Inv, EvidenceOrdered, CommittedIn, Classification, dbVars
<1> QED
  BY <1>2, <1>3, <1>4 DEF Inv

\* Inv is an invariant of the proxy, its fixture and its harness.
THEOREM ProxyInvariant == Spec => []Inv
PROOF
<1>1. Inv /\ [Next]_vars => Inv'
  BY ConnectInv, LeaveInv, AcceptInv, StartFailsInv, ThreadInv, FixtureInv, SendRequestInv,
     HarnessInv,
     StutterInv
  DEF Next, Over
<1> QED
  BY <1>1, InitInv, PTL DEF Spec

\* Every variable keeps its type; in particular in_flight never falls below 0.
THEOREM ProxyTypeOK == Spec => []TypeOK
PROOF
<1>1. Inv => TypeOK
  BY DEF Inv
<1> QED
  BY <1>1, ProxyInvariant, PTL

\* in_flight counts exactly the handler threads with something left to do, so
\* quiescence means what report() takes it to mean.
THEOREM ProxyInFlightExact == Spec => []InFlightExact
PROOF
<1>1. Inv => InFlightExact
  BY DEF Inv
<1> QED
  BY <1>1, ProxyInvariant, PTL

LEMMA InvTreatmentSound == Inv => TreatmentSound
PROOF
<1> SUFFICES ASSUME Inv
             PROVE  TreatmentSound
  OBVIOUS
<1>1. \A r \in Dropped :
        /\ r \in Requests /\ entry[r].upstream = "committed"
        /\ entry[r].committed_seq = inject_after_committed
        /\ client[r] \in {"lost", "gone"}
  BY DEF Inv, Local, Dropped
<1>2. \A r \in Dropped : r \in messages
  BY <1>1 DEF Inv, Local, Answers, DBInv, RowsMatch
<1>3. \A r, s \in Dropped : r = s
  BY <1>1, NthAssumption DEF Inv, CommitsCounted
<1> QED
  BY <1>1, <1>2, <1>3 DEF TreatmentSound, Classification

\* However many sends overlap, at most one connection is dropped, it carries the
\* configured verified commit, whose message is durable, and its client never
\* sees a response.
THEOREM ProxyTreatmentSound == Spec => []TreatmentSound
PROOF
  BY InvTreatmentSound, ProxyInvariant, PTL

LEMMA InvEvidenceAgrees == Inv => EvidenceAgrees
PROOF
<1> SUFFICES ASSUME Inv, after.taken
             PROVE  EvidenceAgrees!2
  BY DEF EvidenceAgrees
<1>1. CommittedIn(report.of.attempts) \subseteq after.messages
  BY DEF Inv, EvidenceOrdered
<1>2. ASSUME NEW r \in after.messages \cap report.of.attempts
      PROVE  Classification(r) \in {"committed", "network_error"}
  <2>1. r \in Requests /\ srv[r] = "committed"
    BY DEF Inv, EvidenceOrdered, DBInv, RowsMatch, TypeOK, DBTypeOK
  <2>2. entry[r].upstream \in {"none", "network_error"} \cup Answers
    BY <2>1 DEF Inv, TypeOK, Entries
  <2>3. entry[r].upstream \in {"none", "network_error", "committed"}
    BY <2>1, <2>2 DEF Inv, Local
  <2> QED
    BY <2>3 DEF Classification
<1> QED
  BY <1>1, <1>2

\* The report and the after snapshot, taken at two times, agree: no commit is
\* reported that the snapshot lacks, and no message of the snapshot belongs to a
\* send the proxy knows to have been refused.
THEOREM ProxyEvidenceAgrees == Spec => []EvidenceAgrees
PROOF
  BY InvEvidenceAgrees, ProxyInvariant, PTL

-----------------------------------------------------------------------------
(* The refinement: the fixture behind the proxy implements SendService, for   *)
(* any number of connections and any configured commit.  Each step is a step  *)
(* of the promise to the senders, or changes nothing a sender can tell.       *)

\* An answer that goes down, or has gone, came from somewhere.
Told ==
  \A r \in Requests :
    thread[r] = "sending" \/ client[r] = "answered" => entry[r].upstream # "none"

Outcome == [r \in Requests |-> OutcomeOf(r)]

-----------------------------------------------------------------------------
(* What a step of one connection can change of the promise *)

LEMMA NoCallNoSend == \A r \in Requests : call[r] = NoCall => ~IsSend(r)
PROOF
  BY DEF IsSend, Is, NoCall

\* The other senders learn nothing by it.
LEMMA OthersUntold ==
  ASSUME NEW r \in Requests,
         \A s \in Requests : s # r =>
           client'[s] = client[s] /\ entry'[s] = entry[s] /\ call'[s] = call[s]
  PROVE  /\ \A s \in Requests : s # r => OutcomeOf(s)' = OutcomeOf(s)
         /\ \A s \in Requests : s # r => (s \in Dropped' <=> s \in Dropped)
PROOF
<1> SUFFICES ASSUME NEW s \in Requests, s # r
             PROVE  OutcomeOf(s)' = OutcomeOf(s) /\ (s \in Dropped' <=> s \in Dropped)
  OBVIOUS
<1>1. client'[s] = client[s] /\ entry'[s] = entry[s] /\ call'[s] = call[s]
  OBVIOUS
<1>2. OutcomeOf(s)' = OutcomeOf(s)
  BY <1>1 DEF OutcomeOf, IsSend, Is
<1>3. s \in Dropped' <=> s \in Dropped
  BY <1>1 DEF Dropped
<1> QED
  BY <1>2, <1>3

LEMMA PromiseStutter ==
  ASSUME NEW r \in Requests, messages' = messages,
         \A s \in Requests : s # r =>
           client'[s] = client[s] /\ entry'[s] = entry[s] /\ call'[s] = call[s],
         OutcomeOf(r)' = OutcomeOf(r), r \in Dropped' <=> r \in Dropped
  PROVE  UNCHANGED Promise!vars
PROOF
<1>1. Outcome' = Outcome
  BY OthersUntold DEF Outcome
<1>2. Dropped' = Dropped
  <2>1. \A s \in Requests : s \in Dropped' <=> s \in Dropped
    BY OthersUntold
  <2> QED
    BY <2>1 DEF Dropped
<1> QED
  BY <1>1, <1>2 DEF Outcome, Promise!vars

\* The outcome of one send becomes known.
LEMMA PromiseTells ==
  ASSUME NEW r \in Requests, messages' = messages,
         \A s \in Requests : s # r =>
           client'[s] = client[s] /\ entry'[s] = entry[s] /\ call'[s] = call[s],
         NEW o, OutcomeOf(r)' = o, r \in Dropped' <=> r \in Dropped
  PROVE  /\ Outcome' = [Outcome EXCEPT ![r] = o]
         /\ Dropped' = Dropped
PROOF
<1>1. Dropped' = Dropped
  <2>1. \A s \in Requests : s \in Dropped' <=> s \in Dropped
    BY OthersUntold
  <2> QED
    BY <2>1 DEF Dropped
<1> QED
  BY <1>1, OthersUntold DEF Outcome

-----------------------------------------------------------------------------
(* The steps of the browser *)

LEMMA BrowserPromise ==
  ASSUME Inv, NEW r \in Requests,
         Connect(r) \/ Leave(r) \/ StartFails(r) \/ \E c \in Calls(r) : SendRequest(r, c)
  PROVE  [Promise!Next]_Promise!vars
PROOF
<1>1. /\ messages' = messages /\ entry' = entry
      /\ \A s \in Requests : s # r => client'[s] = client[s] /\ call'[s] = call[s]
      /\ r \in Dropped' <=> r \in Dropped
  BY DEF Connect, Leave, StartFails, SendRequest, dbVars, Inv, TypeOK, DBTypeOK, Dropped
<1>2. CASE Connect(r)
  <2>1. client[r] = "idle" /\ client'[r] = "connected" /\ call' = call
    BY <1>2 DEF Connect, dbVars, Inv, TypeOK
  <2>2. OutcomeOf(r)' = OutcomeOf(r)
    BY <2>1 DEF OutcomeOf, IsSend, Is
  <2> QED
    BY <1>1, <2>2, PromiseStutter
<1>3. ASSUME NEW c \in Calls(r), SendRequest(r, c)
      PROVE  [Promise!Next]_Promise!vars
  <2>1. client[r] = "connected" /\ client'[r] = "waiting"
    BY <1>3 DEF SendRequest, Inv, TypeOK
  <2>2. OutcomeOf(r)' = "pending" /\ OutcomeOf(r) = "pending"
    BY <2>1 DEF OutcomeOf
  <2> QED
    BY <1>1, <2>2, PromiseStutter
<1>4. CASE Leave(r) \/ (StartFails(r) /\ client[r] \in {"connected", "waiting"})
  <2>1. client[r] \in {"connected", "waiting"} /\ client'[r] \in {"gone", "lost"} /\ call' = call
    BY <1>4 DEF Leave, StartFails, dbVars, Inv, TypeOK
  <2>2. CASE IsSend(r)
    <3>1. OutcomeOf(r) = "pending" /\ OutcomeOf(r)' = "unknown"
      BY <2>1, <2>2 DEF OutcomeOf, IsSend, Is
    <3>2. /\ Outcome' = [Outcome EXCEPT ![r] = "unknown"] /\ Dropped' = Dropped
      BY <1>1, <3>1, PromiseTells
    <3>3. Promise!Lose({r})
      BY <1>1, <3>1, <3>2 DEF Promise!Lose, Outcome
    <3> QED
      BY <3>3 DEF Promise!Next
  <2>3. CASE ~IsSend(r)
    <3>1. OutcomeOf(r) = "pending" /\ OutcomeOf(r)' = "pending"
      BY <2>1, <2>3 DEF OutcomeOf, IsSend, Is
    <3> QED
      BY <1>1, <3>1, PromiseStutter
  <2> QED
    BY <2>2, <2>3
<1>5. CASE StartFails(r) /\ client[r] \notin {"connected", "waiting"}
  <2>1. client' = client /\ call' = call
    BY <1>5 DEF StartFails, dbVars, Inv, TypeOK
  <2>2. OutcomeOf(r)' = OutcomeOf(r)
    BY <1>1, <2>1 DEF OutcomeOf, IsSend, Is
  <2> QED
    BY <1>1, <2>2, PromiseStutter
<1> QED
  BY <1>2, <1>3, <1>4, <1>5

-----------------------------------------------------------------------------
(* The steps of the proxy and of the fixture *)

\* The thread of a connection that has its call and no answer yet.
LEMMA ThreadLocal ==
  ASSUME Inv, NEW r \in Requests
  PROVE  /\ entry[r].upstream \in {"none", "network_error"} \cup Answers
         /\ client[r] \in {"idle", "connected", "waiting", "answered", "lost", "gone"}
         /\ entry[r].upstream \in Answers => (r \in messages <=> entry[r].upstream = "committed")
PROOF
<1>1. /\ entry[r].upstream \in {"none", "network_error"} \cup Answers
      /\ client[r] \in {"idle", "connected", "waiting", "answered", "lost", "gone"}
  BY DEF Inv, TypeOK, Entries
<1>2. entry[r].upstream \in Answers => (r \in messages <=> entry[r].upstream = "committed")
  BY DEF Inv, Local, DBInv, RowsMatch
<1> QED
  BY <1>1, <1>2

\* The steps of a handler thread that reach neither its client nor its treatment.
LEMMA InnerPromise ==
  ASSUME Inv, NEW r \in Requests,
         \/ Accept(r) \/ NoRequestLine(r) \/ NewRequest(r) \/ NewAttempt(r) \/ BodyLost(r)
         \/ Forward(r) \/ ConnectFails(r) \/ UpstreamAnswers(r) \/ UpstreamFails(r)
         \/ RecordRequest(r) \/ RecordAttempt(r) \/ Finish(r)
  PROVE  [Promise!Next]_Promise!vars
PROOF
<1>1. /\ UNCHANGED <<client, call, messages>>
      /\ \A s \in Requests : s # r => entry'[s] = entry[s]
      /\ entry'[r].treatment = entry[r].treatment
  <2>1. UNCHANGED <<client, call, messages>>
    BY DEF Accept, AcceptCounting, NoRequestLine, NoRequestLineCounting, NewRequest,
       NewAttempt, BodyLost,
       Forward, Deliver, Refuse, ConnectFails, UpstreamAnswers, UpstreamAnswersTreating,
       UpstreamFails, UpstreamFailsAs, RecordRequest, RecordRequestCounting, RecordAttempt,
       Finish, FinishCounting, dbVars
  <2>2. CASE UNCHANGED entry
    BY <2>1, <2>2
  <2>3. CASE ~UNCHANGED entry
    BY <2>1, <2>3 DEF Accept, AcceptCounting, NoRequestLine, NoRequestLineCounting, NewRequest,
       NewAttempt, BodyLost, Forward, ConnectFails, UpstreamAnswers, UpstreamAnswersTreating,
       UpstreamFails, UpstreamFailsAs, RecordRequest, RecordRequestCounting, RecordAttempt,
       Finish, FinishCounting, Inv, TypeOK, Entries
  <2> QED
    BY <2>2, <2>3
<1>2. entry'[r].upstream = entry[r].upstream \/ client[r] # "answered"
  <2>1. CASE thread[r] \in Untreated
    BY <2>1 DEF Inv, Local
  <2>2. CASE thread[r] \notin Untreated
    BY <2>2 DEF Accept, AcceptCounting, NoRequestLine, NoRequestLineCounting, NewRequest,
       NewAttempt, BodyLost, Forward, ConnectFails, UpstreamAnswers, UpstreamAnswersTreating,
       UpstreamFails, UpstreamFailsAs, RecordRequest, RecordRequestCounting, RecordAttempt,
       Finish, FinishCounting, InThread, Untreated, Unanswered
  <2> QED
    BY <2>1, <2>2
<1>3. OutcomeOf(r)' = OutcomeOf(r)
  BY <1>1, <1>2, ThreadLocal DEF OutcomeOf, IsSend, Is
<1>4. r \in Dropped' <=> r \in Dropped
  BY <1>1 DEF Dropped
<1> QED
  BY <1>1, <1>3, <1>4, PromiseStutter

\* The answer goes down: its sender is told the truth, or of an error.
LEMMA ForwardPromise ==
  ASSUME Inv, Told, NEW r \in Requests, ForwardDownstream(r)
  PROVE  [Promise!Next]_Promise!vars
PROOF
<1>1. /\ thread[r] = "sending" /\ UNCHANGED <<call, messages>>
      /\ client'[r] = IF client[r] = "waiting" THEN "answered" ELSE client[r]
      /\ \A s \in Requests : s # r => client'[s] = client[s] /\ entry'[s] = entry[s]
      /\ entry'[r].upstream = entry[r].upstream
      /\ entry'[r].treatment # "connection_dropped_after_commit"
  BY DEF ForwardDownstream, InThread, dbVars, Inv, TypeOK, Entries
<1>2. /\ entry[r].treatment = "none" /\ client[r] \notin {"answered", "lost"}
      /\ entry[r].upstream # "none"
  BY <1>1 DEF Inv, Local, Untreated, Told
<1>3. r \in Dropped' <=> r \in Dropped
  BY <1>1, <1>2 DEF Dropped
<1>4. CASE ~IsSend(r) \/ client[r] # "waiting"
  <2>1. OutcomeOf(r)' = OutcomeOf(r)
    BY <1>1, <1>2, <1>4, ThreadLocal DEF OutcomeOf, IsSend, Is
  <2> QED
    BY <1>1, <1>3, <2>1, PromiseStutter
<1>5. CASE IsSend(r) /\ client[r] = "waiting"
  <2> DEFINE o == IF entry[r].upstream = "committed" THEN "acknowledged"
                  ELSE IF entry[r].upstream = "network_error" THEN "unknown" ELSE "refused"
  <2>1. OutcomeOf(r) = "pending" /\ OutcomeOf(r)' = o
    BY <1>1, <1>5 DEF OutcomeOf, IsSend, Is
  <2>2. Outcome' = [Outcome EXCEPT ![r] = o] /\ Dropped' = Dropped
    BY <1>1, <1>3, <2>1, PromiseTells
  <2>3. CASE entry[r].upstream = "committed"
    <3>1. Promise!Acknowledge(r)
      BY <1>1, <2>1, <2>2, <2>3, ThreadLocal DEF Answers, Outcome, Promise!Acknowledge,
         Promise!Tell
    <3> QED
      BY <3>1 DEF Promise!Next
  <2>4. CASE entry[r].upstream = "network_error"
    <3>1. Promise!Lose({r})
      BY <1>1, <2>1, <2>2, <2>4 DEF Outcome, Promise!Lose
    <3> QED
      BY <3>1 DEF Promise!Next
  <2>5. CASE entry[r].upstream \notin {"committed", "network_error"}
    <3>1. r \notin messages
      BY <1>2, <2>5, ThreadLocal
    <3>2. Promise!Decline(r)
      BY <1>1, <2>1, <2>2, <2>5, <3>1 DEF Outcome, Promise!Decline, Promise!Tell
    <3> QED
      BY <3>2 DEF Promise!Next
  <2> QED
    BY <2>3, <2>4, <2>5
<1> QED
  BY <1>4, <1>5

\* The treatment: no connection was dropped before it.
LEMMA DropPromise ==
  ASSUME Inv, NEW r \in Requests, Drop(r)
  PROVE  [Promise!Next]_Promise!vars
PROOF
<1>1. /\ thread[r] = "dropping" /\ UNCHANGED <<call, messages>>
      /\ client'[r] = IF client[r] = "waiting" THEN "lost" ELSE client[r]
      /\ \A s \in Requests : s # r => client'[s] = client[s] /\ entry'[s] = entry[s]
      /\ entry'[r].treatment = "connection_dropped_after_commit"
  BY DEF Drop, InThread, dbVars, Inv, TypeOK, Entries
<1>2. /\ entry[r].upstream = "committed" /\ entry[r].committed_seq = inject_after_committed
      /\ entry[r].treatment = "none" /\ client[r] \notin {"answered", "lost"}
      /\ srv[r] = "committed"
  BY <1>1 DEF Inv, Local, Untreated, Answers
<1>3. r \in messages /\ IsSend(r) /\ call[r] # NoCall
  BY <1>2 DEF Inv, DBInv, RowsMatch, CallsFit, IsSend
<1>4. client[r] \in {"waiting", "gone"}
  BY <1>2, <1>3, ThreadLocal DEF Inv, Local
<1>5. Dropped = {}
  <2> SUFFICES ASSUME NEW s \in Dropped
               PROVE  FALSE
    OBVIOUS
  <2>1. s \in Requests /\ entry[s].committed_seq = inject_after_committed
    BY DEF Inv, Local, Dropped
  <2>2. s = r
    BY <1>2, <2>1, NthAssumption DEF Inv, CommitsCounted
  <2> QED
    BY <1>2, <2>2 DEF Dropped
<1>6. Dropped' = {r}
  <2>1. \A s \in Requests : s # r => (s \in Dropped' <=> s \in Dropped)
    BY <1>1, OthersUntold
  <2>2. r \in Dropped'
    BY <1>1 DEF Dropped
  <2> QED
    BY <1>5, <2>1, <2>2 DEF Dropped
<1>7. OutcomeOf(r) \in {"pending", "unknown"} /\ OutcomeOf(r)' = "unknown"
  BY <1>1, <1>3, <1>4 DEF OutcomeOf, IsSend, Is
<1>8. Outcome' = [Outcome EXCEPT ![r] = "unknown"]
  BY <1>1, <1>7, OthersUntold DEF Outcome
<1>9. Promise!Treat(r)
  BY <1>1, <1>3, <1>5, <1>6, <1>7, <1>8 DEF Outcome, Promise!Treat, Promise!Tell
<1> QED
  BY <1>9 DEF Promise!Next

\* A handler of the fixture: its commit makes a send durable, even one whose
\* sender has given up, and never one whose sender has been told otherwise.
LEMMA FixturePromise ==
  ASSUME Inv, Told, NEW r \in Requests, Fixture(r)
  PROVE  [Promise!Next]_Promise!vars
PROOF
<1>1. Handle(r) /\ UNCHANGED <<client, entry>>
  BY DEF Fixture
<1>2. srv[r] \notin Answers /\ call' = call
  BY <1>1, HandlerStep DEF Inv
<1>3. OutcomeOf(r)' = OutcomeOf(r) /\ (r \in Dropped' <=> r \in Dropped)
  BY <1>1, <1>2 DEF OutcomeOf, IsSend, Is, Dropped
<1>4. CASE messages' = messages
  BY <1>1, <1>2, <1>3, <1>4, PromiseStutter
<1>5. CASE messages' # messages
  <2>1. srv[r] = "inserted" /\ messages' = messages \cup {r}
    BY <1>1, <1>5 DEF Handle, CreateDraft, SaveUpdate, SaveSelect, ListMessages, SendSelect,
       SendInsert, SendCommit, BusyTimeout, At
  <2>2. r \notin messages
    BY <2>1 DEF Inv, DBInv, RowsMatch
  <2>3. OutcomeOf(r) \in {"pending", "unknown"}
    <3>1. entry[r].upstream \in {"none", "network_error"}
      BY <1>2, ThreadLocal DEF Inv, Local
    <3>2. client[r] = "answered" => entry[r].upstream = "network_error"
      BY <3>1 DEF Told
    <3> QED
      BY <3>2, ThreadLocal DEF OutcomeOf
  <2>4. Outcome' = Outcome /\ Dropped' = Dropped
    <3>1. \A s \in Requests : OutcomeOf(s)' = OutcomeOf(s)
      BY <1>1, <1>2, <1>3, OthersUntold
    <3> QED
      BY <1>1, <3>1 DEF Outcome, Dropped
  <2>5. Promise!Commit(r)
    BY <2>1, <2>2, <2>3, <2>4 DEF Outcome, Promise!Commit
  <2> QED
    BY <2>5 DEF Promise!Next
<1> QED
  BY <1>4, <1>5

LEMMA HarnessPromise ==
  ASSUME Inv, Harness
  PROVE  [Promise!Next]_Promise!vars
PROOF
<1>1. UNCHANGED <<messages, call, entry>>
  BY DEF Harness, CloseBrowser, CloseBrowserLosing, AwaitQuiescence, TakeReport, TakeSnapshot,
     DiscardReport, Join, dbVars
<1>2. Dropped' = Dropped
  BY <1>1 DEF Dropped
<1>3. CASE CloseBrowser
  <2> DEFINE left == {r \in Requests : IsSend(r) /\ client[r] = "waiting"}
  <2>1. ASSUME NEW r \in Requests
        PROVE  OutcomeOf(r)' = IF r \in left /\ OutcomeOf(r) = "pending" THEN "unknown"
                                                                       ELSE OutcomeOf(r)
    <3>1. client'[r] = IF client[r] \in {"connected", "waiting"} THEN "gone" ELSE client[r]
      BY <1>3 DEF CloseBrowser, CloseBrowserLosing
    <3>2. IsSend(r)' = IsSend(r) /\ entry'[r] = entry[r]
      BY <1>1 DEF IsSend, Is
    <3>3. IsSend(r) => client[r] # "connected"
      BY NoCallNoSend DEF Inv, Local
    <3>4. CASE ~IsSend(r)
      BY <3>2, <3>4 DEF OutcomeOf
    <3>5. CASE IsSend(r) /\ client[r] = "waiting"
      BY <3>1, <3>2, <3>5 DEF OutcomeOf
    <3>6. CASE IsSend(r) /\ client[r] # "waiting"
      <4>1. client'[r] = client[r]
        BY <3>1, <3>3, <3>6
      <4>2. OutcomeOf(r)' = OutcomeOf(r)
        BY <3>2, <4>1 DEF OutcomeOf
      <4>3. r \notin left
        BY <3>6
      <4> QED
        BY <4>2, <4>3
    <3> QED
      BY <3>4, <3>5, <3>6
  <2>2. Promise!Lose(left)
    BY <1>1, <1>2, <2>1 DEF Promise!Lose
  <2>3. left \in SUBSET Requests
    OBVIOUS
  <2> QED
    BY <2>2, <2>3 DEF Promise!Next
<1>4. CASE ~CloseBrowser
  <2>1. client' = client
    BY <1>4 DEF Harness, AwaitQuiescence, TakeReport, TakeSnapshot, DiscardReport, Join
  <2>2. \A r \in Requests : OutcomeOf(r)' = OutcomeOf(r)
    BY <1>1, <2>1 DEF OutcomeOf, IsSend, Is
  <2> QED
    BY <1>1, <1>2, <2>2 DEF Promise!vars
<1> QED
  BY <1>3, <1>4

-----------------------------------------------------------------------------
(* The answer that is told *)

LEMMA ToldStep ==
  ASSUME Inv, Told, Next
  PROVE  Told'
PROOF
<1>1. CASE Harness \/ Over
  <2>1. UNCHANGED <<thread, entry>> /\ \A r \in Requests : client'[r] = "answered" => client[r] = "answered"
    BY <1>1 DEF Harness, CloseBrowser, CloseBrowserLosing, AwaitQuiescence, TakeReport,
       TakeSnapshot, DiscardReport, Join, Over, vars
  <2> QED
    BY <2>1 DEF Told
<1>2. ASSUME NEW r \in Requests,
             \/ Connect(r) \/ Leave(r) \/ StartFails(r) \/ Fixture(r)
             \/ \E c \in Calls(r) : SendRequest(r, c)
      PROVE  Told'
  <2>1. /\ entry' = entry
        /\ \A s \in Requests : /\ thread'[s] = "sending" => thread[s] = "sending"
                               /\ client'[s] = "answered" => client[s] = "answered"
    BY <1>2 DEF Connect, Leave, StartFails, Fixture, SendRequest, Continue, Inv, TypeOK
  <2> QED
    BY <2>1 DEF Told
<1>3. ASSUME NEW r \in Requests, Accept(r) \/ Thread(r)
      PROVE  Told'
  <2>1. \A s \in Requests : s # r =>
          client'[s] = client[s] /\ thread'[s] = thread[s] /\ entry'[s] = entry[s]
    BY <1>3 DEF Accept, AcceptCounting, Thread, NoRequestLine, NoRequestLineCounting, NewRequest,
       NewAttempt, BodyLost, Forward, ConnectFails, UpstreamAnswers, UpstreamAnswersTreating,
       UpstreamFails, UpstreamFailsAs, Drop, ForwardDownstream, RecordRequest,
       RecordRequestCounting, RecordAttempt, Finish, FinishCounting, Continue, Inv, TypeOK
  <2>2. thread'[r] = "sending" \/ client'[r] = "answered" => entry'[r].upstream # "none"
    <3>1. CASE ConnectFails(r) \/ UpstreamAnswers(r) \/ UpstreamFails(r)
      <4>1. entry'[r].upstream # "none"
        BY <3>1 DEF ConnectFails, UpstreamAnswers, UpstreamAnswersTreating, UpstreamFails,
           UpstreamFailsAs, Answered, Answers, Inv, TypeOK, Entries
      <4> QED
        BY <4>1
    <3>2. CASE Drop(r) \/ ForwardDownstream(r)
      <4>1. /\ thread[r] \in {"dropping", "sending"} /\ thread'[r] = "finalizing"
            /\ entry'[r].upstream = entry[r].upstream
            /\ client'[r] = "answered" => client[r] = "answered" \/ thread[r] = "sending"
        BY <3>2 DEF Drop, ForwardDownstream, InThread, Continue, Inv, TypeOK, Entries
      <4> QED
        BY <4>1 DEF Told
    <3>3. CASE Accept(r) \/ NoRequestLine(r) \/ NewRequest(r) \/ NewAttempt(r) \/ BodyLost(r)
               \/ Forward(r) \/ RecordRequest(r) \/ RecordAttempt(r) \/ Finish(r)
      <4>1. client' = client /\ thread'[r] # "sending" /\ entry'[r].upstream = entry[r].upstream
        BY <3>3 DEF Accept, AcceptCounting, NoRequestLine, NoRequestLineCounting, NewRequest,
           NewAttempt,
           BodyLost, Forward, RecordRequest, RecordRequestCounting, RecordAttempt, Finish,
           FinishCounting, Continue, Inv, TypeOK, Entries
      <4> QED
        BY <4>1 DEF Told
    <3> QED
      BY <1>3, <3>1, <3>2, <3>3 DEF Thread
  <2> QED
    BY <2>1, <2>2 DEF Told
<1> QED
  BY <1>1, <1>2, <1>3 DEF Next

-----------------------------------------------------------------------------
(* Theorems *)

LEMMA PromiseInit == Init => Promise!Init /\ Told
PROOF
<1> SUFFICES ASSUME Init
             PROVE  Promise!Init /\ Told
  OBVIOUS
<1> USE DEF Init, DBInit, ReceiptsInit
<1>1. \A r \in Requests : OutcomeOf(r) = "pending"
  BY DEF OutcomeOf
<1>2. Dropped = {}
  BY DEF Dropped, NewEntry
<1>3. Told
  BY DEF Told
<1> QED
  BY <1>1, <1>2, <1>3 DEF Promise!Init

LEMMA PromiseStep ==
  ASSUME Inv, Told, [Next]_vars
  PROVE  [Promise!Next]_Promise!vars /\ Told'
PROOF
<1>1. CASE Next
  <2>1. Told'
    BY <1>1, ToldStep
  <2>2. [Promise!Next]_Promise!vars
    <3>1. CASE Over
      <4>1. UNCHANGED <<client, entry, call, messages>>
        BY <3>1 DEF Over, vars, dbVars
      <4> QED
        BY <4>1 DEF Promise!vars, OutcomeOf, IsSend, Is, Dropped
    <3>2. CASE ~Over
      BY <1>1, <3>2, BrowserPromise, InnerPromise, ForwardPromise, DropPromise, FixturePromise,
         HarnessPromise DEF Next, Thread
    <3> QED
      BY <3>1, <3>2
  <2> QED
    BY <2>1, <2>2
<1>2. CASE UNCHANGED vars
  <2>1. UNCHANGED <<client, thread, entry, call, messages>>
    BY <1>2 DEF vars, dbVars
  <2>2. UNCHANGED Promise!vars
    BY <2>1 DEF Promise!vars, OutcomeOf, IsSend, Is, Dropped
  <2>3. Told'
    BY <2>1 DEF Told
  <2> QED
    BY <2>2, <2>3
<1> QED
  BY <1>1, <1>2

\* Fixture, proxy and browser keep the promise to the senders: inject.py and
\* db.py together implement SendService, however many connections overlap.
THEOREM ProxyKeepsPromise == Spec => KeepsPromise
PROOF
<1>1. Init => Promise!Init /\ Told
  BY PromiseInit
<1>2. Inv /\ Told /\ [Next]_vars => [Promise!Next]_Promise!vars /\ Told'
  BY PromiseStep
<1> QED
  BY <1>1, <1>2, ProxyInvariant, PTL DEF Spec, KeepsPromise, Promise!Spec
=============================================================================

-------------------------- MODULE FixtureDBProofs --------------------------
(* The fixture's safety properties, for any number of requests and drafts.  *)
(* Its invariant is stated apart from DBSpec, action by action, so that the *)
(* modules that put the same handlers behind a proxy can cite it.           *)
EXTENDS FixtureDB, TLAPS

\* The write lock is held exactly between the INSERT and its commit.
WriterHolds ==
  \A r \in Requests : srv[r] \in {"inserted", "collided"} => writer = r

\* A handler past its first step has a call, and only a send gets as far as
\* the transaction.
CallsFit ==
  \A r \in Requests :
    /\ srv[r] # "idle" => call[r] # NoCall
    /\ srv[r] \in {"selected", "inserted", "collided", "committed", "duplicate_rejected"}
         => Is(r, "send")

\* Nothing is published before the commit, and all of it by the commit.
RowsMatch ==
  \A r \in Requests :
    /\ r \in messages <=> srv[r] = "committed"
    /\ send_attempts[r] = IF srv[r] \in {"committed", "duplicate_rejected"}
                          THEN srv[r] ELSE "none"

\* What the INSERT found stays so until its commit: nobody else can write.
FreshStands ==
  \A r \in Requests, m \in messages : srv[r] = "inserted" => UidOf(m) # UidOf(r)

CollisionStands ==
  \A r \in Requests : srv[r] \in {"collided", "duplicate_rejected"} =>
    \E m \in messages : m # r /\ UidOf(m) = UidOf(r)

\* A draft never loses the status its send was let through for.
SavedStays ==
  \A r \in Requests :
    srv[r] \in {"selected", "inserted", "committed"} => drafts[DraftOf(r)] = "saved"

\* The inductive invariant: AnswersMatchTables and MessagesOfSavedDrafts speak
\* of handlers that have returned, and say nothing of those under way.
DBInv ==
  /\ DBTypeOK
  /\ WriterHolds
  /\ CallsFit
  /\ RowsMatch
  /\ FreshStands
  /\ CollisionStands
  /\ SavedStays
  /\ UidUnique

LEMMA SendHasFields ==
  ASSUME DBTypeOK, NEW r \in Requests, Is(r, "send")
  PROVE  DraftOf(r) \in Drafts
PROOF
<1>1. call[r] # NoCall
  <2>1. NoCall.op # "send"
    BY DEF NoCall
  <2> QED
    BY <2>1 DEF Is
<1>2. call[r] \in [op : Ops, draft : Drafts, uid : Uids \cup Requests]
  BY <1>1 DEF DBTypeOK
<1> QED
  BY <1>2 DEF DraftOf

\* The invariant holds of empty tables.
LEMMA DBInitInv == DBInit => DBInv
PROOF
  BY DEF DBInit, DBInv, DBTypeOK, WriterHolds, CallsFit, RowsMatch,
         FreshStands, CollisionStands, SavedStays, UidUnique, Places, NoCall, NoOne

\* A step that leaves the tables alone preserves the invariant.
LEMMA DBStutter == DBInv /\ UNCHANGED dbVars => DBInv'
PROOF
<1> SUFFICES ASSUME DBInv, UNCHANGED dbVars
             PROVE  DBInv'
  OBVIOUS
<1> USE DEF dbVars
<1>1. (DBTypeOK /\ WriterHolds)'
  BY DEF DBInv, DBTypeOK, WriterHolds
<1>2. (CallsFit /\ RowsMatch)'
  BY DEF DBInv, CallsFit, RowsMatch, Is
<1>3. FreshStands' /\ CollisionStands'
  BY DEF DBInv, FreshStands, CollisionStands, UidOf
<1>4. SavedStays'
  BY DEF DBInv, SavedStays, DraftOf
<1>5. UidUnique'
  BY DEF DBInv, UidUnique, UidOf
<1> QED
  BY <1>1, <1>2, <1>3, <1>4, <1>5 DEF DBInv

\* A request that is given its call, and perhaps reaches its handler.
LEMMA CallGiven ==
  ASSUME DBInv, NEW r \in Requests, call[r] = NoCall, NEW c \in Calls(r),
         call' = [call EXCEPT ![r] = c],
         NEW place \in {"idle", "received", "refused"},
         srv[r] = "idle", srv' = [srv EXCEPT ![r] = place],
         UNCHANGED <<drafts, messages, send_attempts, writer, saw>>
  PROVE  DBInv'
PROOF
<1>1. c \in [op : Ops, draft : Drafts, uid : Uids \cup Requests]
  BY DEF Calls
<1>2. c # NoCall
  <2>1. c.op # "none" /\ NoCall.op = "none"
    BY <1>1, FixtureAssumption DEF NoCall
  <2> QED
    BY <2>1
<1>3. r \notin messages
  BY DEF DBInv, RowsMatch
<1>4. /\ call'[r] = c /\ srv'[r] = place
      /\ \A s \in Requests : s # r => call'[s] = call[s] /\ srv'[s] = srv[s]
  BY DEF DBInv, DBTypeOK
<1>5. DBTypeOK'
  BY <1>1 DEF DBInv, DBTypeOK, Places, Answers
<1>6. WriterHolds'
  BY <1>4 DEF DBInv, WriterHolds
<1>7. CallsFit'
  BY <1>2, <1>4 DEF DBInv, CallsFit, Is
<1>8. RowsMatch'
  BY <1>4 DEF DBInv, RowsMatch
<1>9. SavedStays'
  BY <1>4 DEF DBInv, SavedStays, DraftOf
<1>10. messages' = messages /\ \A m \in messages : m \in Requests /\ call'[m] = call[m]
  BY <1>3, <1>4 DEF DBInv, DBTypeOK
<1>11. FreshStands'
  <2> SUFFICES ASSUME NEW s \in Requests, NEW m \in messages', srv'[s] = "inserted"
               PROVE  call'[m].uid # call'[s].uid
    BY DEF FreshStands, UidOf
  <2>1. s # r /\ srv[s] = "inserted"
    BY <1>4
  <2>2. call[m].uid # call[s].uid
    BY <1>10, <2>1 DEF DBInv, FreshStands, UidOf
  <2> QED
    BY <1>4, <1>10, <2>1, <2>2
<1>12. CollisionStands'
  <2> SUFFICES ASSUME NEW s \in Requests, srv'[s] \in {"collided", "duplicate_rejected"}
               PROVE  \E m \in messages' : m # s /\ call'[m].uid = call'[s].uid
    BY DEF CollisionStands, UidOf
  <2>1. s # r /\ srv[s] \in {"collided", "duplicate_rejected"}
    BY <1>4
  <2>2. PICK m \in messages : m # s /\ call[m].uid = call[s].uid
    BY <2>1 DEF DBInv, CollisionStands, UidOf
  <2> QED
    BY <1>4, <1>10, <2>1, <2>2
<1>13. UidUnique'
  BY <1>10 DEF DBInv, UidUnique, UidOf
<1> QED
  BY <1>5, <1>6, <1>7, <1>8, <1>9, <1>11, <1>12, <1>13 DEF DBInv

\* What is known about uids carries over while nothing is published.
LEMMA UidsKept ==
  ASSUME DBInv, messages' = messages, call' = call,
         \A s \in Requests : srv'[s] = "inserted" => srv[s] = "inserted",
         \A s \in Requests : srv'[s] \in {"collided", "duplicate_rejected"}
                               => srv[s] \in {"collided", "duplicate_rejected"}
  PROVE  FreshStands' /\ CollisionStands' /\ UidUnique'
PROOF
<1>1. FreshStands'
  BY DEF DBInv, FreshStands, UidOf
<1>2. CollisionStands'
  BY DEF DBInv, CollisionStands, UidOf
<1>3. UidUnique'
  BY DEF DBInv, UidUnique, UidOf
<1> QED
  BY <1>1, <1>2, <1>3

\* A step of a handler outside the transaction: reads, writes to drafts, and
\* answers that stand for no row.
LEMMA QuietStep ==
  ASSUME DBInv, NEW r \in Requests, call[r] # NoCall,
         srv[r] \in {"idle", "received", "updated", "selected"},
         NEW place \in {"received", "updated", "ok", "refused", "not_found",
                        "not_saved", "error"},
         srv' = [srv EXCEPT ![r] = place],
         drafts' \in [Drafts -> {"absent", "new", "saved"}],
         \A d \in Drafts : drafts[d] = "saved" => drafts'[d] = "saved",
         saw' \in [Requests -> SUBSET Requests],
         UNCHANGED <<messages, send_attempts, writer, call>>
  PROVE  DBInv'
PROOF
<1>1. /\ srv'[r] = place
      /\ \A s \in Requests : s # r => srv'[s] = srv[s]
  BY DEF DBInv, DBTypeOK
<1>2. DBTypeOK'
  BY DEF DBInv, DBTypeOK, Places, Answers
<1>3. (WriterHolds /\ CallsFit)'
  BY <1>1 DEF DBInv, WriterHolds, CallsFit, Is
<1>4. RowsMatch'
  BY <1>1 DEF DBInv, RowsMatch
<1>5. FreshStands' /\ CollisionStands' /\ UidUnique'
  BY <1>1, UidsKept
<1>6. SavedStays'
  <2> SUFFICES ASSUME NEW s \in Requests, srv'[s] \in {"selected", "inserted", "committed"}
               PROVE  drafts'[call[s].draft] = "saved"
    BY DEF SavedStays, DraftOf
  <2>1. s # r /\ srv[s] \in {"selected", "inserted", "committed"}
    BY <1>1
  <2>2. drafts[call[s].draft] = "saved" /\ Is(s, "send")
    BY <2>1 DEF DBInv, SavedStays, CallsFit, DraftOf
  <2> QED
    BY <2>2, SendHasFields DEF DBInv, DraftOf
<1> QED
  BY <1>2, <1>3, <1>4, <1>5, <1>6 DEF DBInv

LEMMA DeliverInv ==
  ASSUME DBInv, NEW r \in Requests, Deliver(r) \/ Refuse(r)
  PROVE  DBInv'
PROOF
  BY QuietStep DEF Deliver, Refuse, At, Go, DBInv, DBTypeOK

LEMMA SendSelectInv ==
  ASSUME DBInv, NEW r \in Requests, SendSelect(r)
  PROVE  DBInv'
PROOF
<1>1. DraftOf(r) \in Drafts
  BY SendHasFields DEF DBInv, SendSelect
<1>2. CASE drafts[DraftOf(r)] # "saved"
  BY <1>1, <1>2, QuietStep DEF SendSelect, At, Go, DBInv, DBTypeOK, CallsFit
<1>3. CASE drafts[DraftOf(r)] = "saved"
  <2>1. /\ srv[r] = "received" /\ srv' = [srv EXCEPT ![r] = "selected"] /\ Is(r, "send")
        /\ UNCHANGED <<drafts, messages, send_attempts, writer, call, saw>>
    BY <1>3 DEF SendSelect, At, Go
  <2>2. /\ srv'[r] = "selected"
        /\ \A s \in Requests : s # r => srv'[s] = srv[s]
    BY <2>1 DEF DBInv, DBTypeOK
  <2>3. DBTypeOK'
    BY <2>1 DEF DBInv, DBTypeOK, Places
  <2>4. (WriterHolds /\ CallsFit /\ RowsMatch)'
    BY <2>1, <2>2 DEF DBInv, WriterHolds, CallsFit, RowsMatch, Is
  <2>5. FreshStands' /\ CollisionStands' /\ UidUnique'
    BY <2>1, <2>2, UidsKept
  <2>6. SavedStays'
    BY <1>3, <2>1, <2>2 DEF DBInv, SavedStays, DraftOf
  <2> QED
    BY <2>3, <2>4, <2>5, <2>6 DEF DBInv
<1> QED
  BY <1>2, <1>3

\* The INSERT excludes every other writer, so what it found about its uid holds
\* until its commit.
LEMMA SendInsertInv ==
  ASSUME DBInv, NEW r \in Requests, SendInsert(r)
  PROVE  DBInv'
PROOF
<1>1. /\ srv[r] = "selected" /\ writer = NoOne /\ writer' = r
      /\ srv' = [srv EXCEPT ![r] = IF UidTaken(r) THEN "collided" ELSE "inserted"]
      /\ UNCHANGED <<drafts, messages, send_attempts, call, saw>>
  BY DEF SendInsert, At, Go
<1>2. /\ srv'[r] \in {"collided", "inserted"}
      /\ srv'[r] = "collided" <=> UidTaken(r)
      /\ \A s \in Requests : s # r => srv'[s] = srv[s]
  BY <1>1 DEF DBInv, DBTypeOK
<1>3. DBTypeOK'
  BY <1>1 DEF DBInv, DBTypeOK, Places
<1>4. \A s \in Requests : srv[s] \notin {"inserted", "collided"}
  BY <1>1, FixtureAssumption DEF DBInv, WriterHolds, NoOne
<1>5. (WriterHolds /\ CallsFit)'
  BY <1>1, <1>2, <1>4 DEF DBInv, WriterHolds, CallsFit, Is
<1>6. RowsMatch'
  BY <1>1, <1>2 DEF DBInv, RowsMatch
<1>7. FreshStands'
  <2> SUFFICES ASSUME NEW s \in Requests, NEW m \in messages', srv'[s] = "inserted"
               PROVE  call'[m].uid # call'[s].uid
    BY DEF FreshStands, UidOf
  <2>1. s = r /\ ~UidTaken(r)
    BY <1>2, <1>4
  <2> QED
    BY <1>1, <2>1 DEF UidTaken, UidOf
<1>8. CollisionStands'
  <2> SUFFICES ASSUME NEW s \in Requests, srv'[s] \in {"collided", "duplicate_rejected"}
               PROVE  \E m \in messages' : m # s /\ call'[m].uid = call'[s].uid
    BY DEF CollisionStands, UidOf
  <2>1. CASE s = r
    <3>1. srv'[r] = "collided" /\ UidTaken(r)
      BY <1>2, <2>1
    <3>2. r \notin messages
      BY <1>1 DEF DBInv, RowsMatch
    <3> QED
      BY <1>1, <2>1, <3>1, <3>2 DEF UidTaken, UidOf
  <2>2. CASE s # r
    <3>1. srv[s] \in {"collided", "duplicate_rejected"}
      BY <1>2, <2>2
    <3> QED
      BY <1>1, <3>1 DEF DBInv, CollisionStands, UidOf
  <2> QED
    BY <2>1, <2>2
<1>9. SavedStays'
  BY <1>1, <1>2 DEF DBInv, SavedStays, DraftOf
<1>10. UidUnique'
  BY <1>1 DEF DBInv, UidUnique, UidOf
<1> QED
  BY <1>3, <1>5, <1>6, <1>7, <1>8, <1>9, <1>10 DEF DBInv

\* The commit publishes at most one row under a uid no other row has.
LEMMA SendCommitInv ==
  ASSUME DBInv, NEW r \in Requests, SendCommit(r)
  PROVE  DBInv'
PROOF
<1>1. /\ writer = r /\ writer' = NoOne /\ Is(r, "send")
      /\ UNCHANGED <<drafts, call, saw>>
  BY DEF DBInv, WriterHolds, CallsFit, SendCommit, At
<1>2. \A s \in Requests : s # r => srv[s] \notin {"inserted", "collided"}
  BY <1>1 DEF DBInv, WriterHolds
<1>3. CASE At(r, "inserted")
  <2>1. /\ srv[r] = "inserted" /\ srv' = [srv EXCEPT ![r] = "committed"]
        /\ messages' = messages \cup {r}
        /\ send_attempts' = [send_attempts EXCEPT ![r] = "committed"]
    BY <1>3 DEF SendCommit, At, Go
  <2>2. /\ srv'[r] = "committed" /\ send_attempts'[r] = "committed"
        /\ \A s \in Requests : s # r => srv'[s] = srv[s] /\ send_attempts'[s] = send_attempts[s]
    BY <2>1 DEF DBInv, DBTypeOK
  <2>3. DBTypeOK'
    BY <1>1, <2>1 DEF DBInv, DBTypeOK, Answers
  <2>4. (WriterHolds /\ CallsFit /\ RowsMatch)'
    BY <1>1, <1>2, <2>1, <2>2 DEF DBInv, WriterHolds, CallsFit, RowsMatch, Is
  <2>5. FreshStands'
    BY <1>2, <2>2 DEF FreshStands
  <2>6. CollisionStands'
    BY <1>1, <2>1, <2>2 DEF DBInv, CollisionStands, UidOf
  <2>7. UidUnique'
    <3>1. \A m \in messages : call[m].uid # call[r].uid
      BY <2>1 DEF DBInv, FreshStands, UidOf
    <3>2. \A a, b \in messages : call[a].uid = call[b].uid => a = b
      BY DEF DBInv, UidUnique, UidOf
    <3> QED
      BY <1>1, <2>1, <3>1, <3>2 DEF UidUnique, UidOf
  <2>8. SavedStays'
    BY <1>1, <2>1, <2>2 DEF DBInv, SavedStays, DraftOf
  <2> QED
    BY <2>3, <2>4, <2>5, <2>6, <2>7, <2>8 DEF DBInv
<1>4. CASE At(r, "collided")
  <2>1. /\ srv[r] = "collided" /\ srv' = [srv EXCEPT ![r] = "duplicate_rejected"]
        /\ messages' = messages
        /\ send_attempts' = [send_attempts EXCEPT ![r] = "duplicate_rejected"]
    BY <1>4 DEF SendCommit, At, Go
  <2>2. /\ srv'[r] = "duplicate_rejected" /\ send_attempts'[r] = "duplicate_rejected"
        /\ \A s \in Requests : s # r => srv'[s] = srv[s] /\ send_attempts'[s] = send_attempts[s]
    BY <2>1 DEF DBInv, DBTypeOK
  <2>3. DBTypeOK'
    BY <1>1, <2>1 DEF DBInv, DBTypeOK, Answers
  <2>4. (WriterHolds /\ CallsFit /\ RowsMatch)'
    BY <1>1, <1>2, <2>1, <2>2 DEF DBInv, WriterHolds, CallsFit, RowsMatch, Is
  <2>5. FreshStands' /\ CollisionStands' /\ UidUnique'
    BY <1>1, <2>1, <2>2, UidsKept
  <2>6. SavedStays'
    BY <1>1, <2>1, <2>2 DEF DBInv, SavedStays, DraftOf
  <2> QED
    BY <2>3, <2>4, <2>5, <2>6 DEF DBInv
<1> QED
  BY <1>3, <1>4 DEF SendCommit

LEMMA HandleInv ==
  ASSUME DBInv, NEW r \in Requests, Handle(r)
  PROVE  DBInv'
PROOF
<1> USE DEF At, Go
<1>1. CASE CreateDraft(r)
  BY <1>1, QuietStep DEF CreateDraft, DBInv, DBTypeOK, CallsFit
<1>2. CASE SaveUpdate(r)
  BY <1>2, QuietStep DEF SaveUpdate, DBInv, DBTypeOK, CallsFit
<1>3. CASE SaveSelect(r)
  BY <1>3, QuietStep DEF SaveSelect, DBInv, DBTypeOK, CallsFit
<1>4. CASE ListMessages(r)
  BY <1>4, QuietStep DEF ListMessages, DBInv, DBTypeOK, CallsFit
<1>5. CASE BusyTimeout(r)
  BY <1>5, QuietStep DEF BusyTimeout, DBInv, DBTypeOK, CallsFit
<1> QED
  BY <1>1, <1>2, <1>3, <1>4, <1>5, SendSelectInv, SendInsertInv, SendCommitInv DEF Handle

\* The fixture is correct for any number of concurrent requests, drafts and
\* supplied uids: DBInv is an invariant of it.
THEOREM FixtureInvariant == DBSpec => []DBInv
PROOF
<1>1. DBInv /\ [DBNext]_dbVars => DBInv'
  <2> SUFFICES ASSUME DBInv, [DBNext]_dbVars
               PROVE  DBInv'
    OBVIOUS
  <2>1. ASSUME NEW r \in Requests, NEW c \in Calls(r), Arrive(r, c)
        PROVE  DBInv'
    <3>1. srv[r] = "idle"
      BY <2>1 DEF Arrive, DBInv, CallsFit
    <3> QED
      BY <2>1, <3>1, CallGiven DEF Arrive, Go
  <2>2. CASE UNCHANGED dbVars
    BY <2>2, DBStutter
  <2> QED
    BY <2>1, <2>2, HandleInv DEF DBNext, AllAnswered
<1> QED
  BY <1>1, DBInitInv, PTL DEF DBSpec

THEOREM FixtureTypeOK == DBSpec => []DBTypeOK
PROOF
<1>1. DBInv => DBTypeOK
  BY DEF DBInv
<1> QED
  BY <1>1, FixtureInvariant, PTL

\* No two durable messages carry the same send_uid.
THEOREM FixtureUidUnique == DBSpec => []UidUnique
PROOF
<1>1. DBInv => UidUnique
  BY DEF DBInv
<1> QED
  BY <1>1, FixtureInvariant, PTL

LEMMA InvAnswersMatch == DBInv => AnswersMatchTables
PROOF
<1> SUFFICES ASSUME DBInv, NEW r \in Requests, Answered(r)
             PROVE  AnswersMatchTables!(r)!2
  BY DEF AnswersMatchTables
<1>1. srv[r] = "duplicate_rejected" => \E m \in messages \ {r} : UidOf(m) = UidOf(r)
  BY DEF DBInv, CollisionStands
<1> QED
  BY <1>1 DEF DBInv, RowsMatch

\* A send's answer tells the truth about both tables.
THEOREM FixtureAnswersMatch == DBSpec => []AnswersMatchTables
PROOF
  BY InvAnswersMatch, FixtureInvariant, PTL

\* No durable message belongs to a draft that is not saved, although
\* send_message checks the status outside its transaction.
THEOREM FixtureMessagesOfSavedDrafts == DBSpec => []MessagesOfSavedDrafts
PROOF
<1>1. DBInv => MessagesOfSavedDrafts
  BY DEF DBInv, DBTypeOK, RowsMatch, SavedStays, MessagesOfSavedDrafts
<1> QED
  BY <1>1, FixtureInvariant, PTL
=============================================================================

----------------------------- MODULE FixtureDB -----------------------------
(***************************************************************************)
(* The message fixture: the SQLite tables of btb/app/db.py and the FastAPI *)
(* handlers of btb/app/server.py that read and write them, one handler run *)
(* per HTTP request, many at a time (the handlers are synchronous and run  *)
(* in a thread pool, each with a connection of its own).                   *)
(*                                                                         *)
(* Data is abstracted to identities.  A message row is named by the        *)
(* request whose INSERT wrote it (its AUTOINCREMENT id is only ever used   *)
(* as an identity), and a request stands for the send_uid the server mints *)
(* for it with uuid4 when the caller supplies none.                        *)
(***************************************************************************)
EXTENDS Naturals, FiniteSets

CONSTANTS
  Requests,  \* HTTP requests; also the uids minted for those without one
  Drafts,    \* draft ids
  Uids,      \* send_uid values a caller may supply
  Ops        \* the API operations the clients of this instance use

ASSUME FixtureAssumption ==
  /\ Ops \subseteq {"create", "save", "send", "list"}
  /\ Requests \cap Uids = {}
  /\ "no one" \notin Requests

VARIABLES
  drafts,         \* drafts.status, or "absent" when there is no such row
  messages,       \* durable rows of the messages table
  send_attempts,  \* durable rows of send_attempts, by the request that wrote them
  writer,         \* the request whose connection holds SQLite's write lock
  call,           \* the API call a request carries, NoCall before it has one
  srv,            \* where its handler is; a member of Answers once it returned
  saw             \* the messages a list request read

dbVars == <<drafts, messages, send_attempts, writer, call, srv, saw>>

NoOne  == "no one"
NoCall == [op |-> "none"]
\* Only a send has a uid of its caller's choice.
Calls(r) == {c \in [op : Ops, draft : Drafts, uid : Uids \cup {r}] :
               c.op = "send" \/ c.uid = r}

\* What a handler returns: its 2xx bodies, and the 403/422, 404, 409 and 500
\* answers.  "committed" and "duplicate_rejected" are the two bodies of a send.
Answers == {"committed", "duplicate_rejected", "ok",
            "refused", "not_found", "not_saved", "error"}
Places  == {"idle", "received", "selected", "inserted", "collided", "updated"}

Is(r, op)   == call[r].op = op
DraftOf(r)  == call[r].draft
UidOf(r)    == call[r].uid
Answered(r) == srv[r] \in Answers

DBTypeOK ==
  /\ drafts \in [Drafts -> {"absent", "new", "saved"}]
  /\ messages \subseteq Requests
  /\ send_attempts \in [Requests -> {"none", "committed", "duplicate_rejected"}]
  /\ writer \in Requests \cup {NoOne}
  /\ call \in [Requests -> {NoCall} \cup [op : Ops, draft : Drafts, uid : Uids \cup Requests]]
  /\ srv \in [Requests -> Places \cup Answers]
  /\ saw \in [Requests -> SUBSET Requests]

\* prepare_initial_state resets the tables and seeds drafts only.
DBInit ==
  /\ drafts \in [Drafts -> {"absent", "new", "saved"}]
  /\ messages = {}
  /\ send_attempts = [r \in Requests |-> "none"]
  /\ writer = NoOne
  /\ call = [r \in Requests |-> NoCall]
  /\ srv = [r \in Requests |-> "idle"]
  /\ saw = [r \in Requests |-> {}]

-----------------------------------------------------------------------------
(* Steps of a handler *)

At(r, place)  == srv[r] = place
Go(r, place)  == srv' = [srv EXCEPT ![r] = place]

\* The request reaches its handler.
Deliver(r) ==
  /\ At(r, "idle") /\ call[r] # NoCall
  /\ Go(r, "received")
  /\ UNCHANGED <<drafts, messages, send_attempts, writer, call, saw>>

\* FastAPI answers before the handler runs: the X-BTB-UI-Token header does not
\* match (403), or the body is not the JSON the handler declares (422).
Refuse(r) ==
  /\ At(r, "idle") /\ call[r] # NoCall
  /\ Go(r, "refused")
  /\ UNCHANGED <<drafts, messages, send_attempts, writer, call, saw>>

\* create_draft: one INSERT, committed, under a fresh id.
CreateDraft(r) ==
  /\ At(r, "received") /\ Is(r, "create")
  /\ writer = NoOne
  /\ \E d \in Drafts : /\ drafts[d] = "absent"
                       /\ drafts' = [drafts EXCEPT ![d] = "new"]
  /\ Go(r, "ok")
  /\ UNCHANGED <<messages, send_attempts, writer, call, saw>>

\* save_draft: an UPDATE that matches no row when the draft is absent ...
SaveUpdate(r) ==
  /\ At(r, "received") /\ Is(r, "save")
  /\ writer = NoOne
  /\ drafts' = IF drafts[DraftOf(r)] = "absent"
               THEN drafts
               ELSE [drafts EXCEPT ![DraftOf(r)] = "saved"]
  /\ Go(r, "updated")
  /\ UNCHANGED <<messages, send_attempts, writer, call, saw>>

\* Mutant of SaveSelect: a missing row is looked for again.
SaveSelect_Again(r) ==
  /\ At(r, "updated")
  /\ Go(r, IF drafts[DraftOf(r)] = "absent" THEN "received" ELSE "ok")
  /\ UNCHANGED <<drafts, messages, send_attempts, writer, call, saw>>

\* ... and, after its commit, a SELECT that decides between the row and a 404.
SaveSelect(r) ==
  /\ At(r, "updated")
  /\ Go(r, IF drafts[DraftOf(r)] = "absent" THEN "not_found" ELSE "ok")
  /\ UNCHANGED <<drafts, messages, send_attempts, writer, call, saw>>

\* messages(): every durable row.
ListMessages(r) ==
  /\ At(r, "received") /\ Is(r, "list")
  /\ saw' = [saw EXCEPT ![r] = messages]
  /\ Go(r, "ok")
  /\ UNCHANGED <<drafts, messages, send_attempts, writer, call>>

\* Mutant of SendSelect: any existing draft may be sent.
SendSelect_AnyStatus(r) ==
  /\ At(r, "received") /\ Is(r, "send")
  /\ Go(r, IF drafts[DraftOf(r)] = "absent" THEN "not_found" ELSE "selected")
  /\ UNCHANGED <<drafts, messages, send_attempts, writer, call, saw>>

\* send_message reads the draft outside any transaction.
SendSelect(r) ==
  /\ At(r, "received") /\ Is(r, "send")
  /\ Go(r, CASE drafts[DraftOf(r)] = "absent" -> "not_found"
             [] drafts[DraftOf(r)] = "new"    -> "not_saved"
             [] drafts[DraftOf(r)] = "saved"  -> "selected")
  /\ UNCHANGED <<drafts, messages, send_attempts, writer, call, saw>>

UidTaken(r) == \E m \in messages : UidOf(m) = UidOf(r)

\* Mutant of SendInsert: the uid is looked up before the transaction.
SendInsert_NoLock(r) ==
  /\ At(r, "selected")
  /\ Go(r, IF UidTaken(r) THEN "collided" ELSE "inserted")
  /\ UNCHANGED <<drafts, messages, send_attempts, writer, call, saw>>

\* The INSERT opens the transaction, takes the write lock and meets the UNIQUE
\* constraint on send_uid; neither outcome is visible to others yet.
SendInsert(r) ==
  /\ At(r, "selected")
  /\ writer = NoOne
  /\ writer' = r
  /\ Go(r, IF UidTaken(r) THEN "collided" ELSE "inserted")
  /\ UNCHANGED <<drafts, messages, send_attempts, call, saw>>

\* Mutant of SendCommit: the message is committed without its attempt row.
SendCommit_NoAttempt(r) ==
  /\ \/ /\ At(r, "inserted")
        /\ messages' = messages \cup {r}
        /\ Go(r, "committed")
     \/ /\ At(r, "collided")
        /\ Go(r, "duplicate_rejected")
        /\ UNCHANGED messages
  /\ writer' = NoOne
  /\ UNCHANGED <<drafts, call, saw, send_attempts>>

\* commit() publishes the message and its attempt row, or only the
\* duplicate_rejected attempt row, and releases the lock.
SendCommit(r) ==
  /\ \/ /\ At(r, "inserted")
        /\ messages' = messages \cup {r}
        /\ send_attempts' = [send_attempts EXCEPT ![r] = "committed"]
        /\ Go(r, "committed")
     \/ /\ At(r, "collided")
        /\ send_attempts' = [send_attempts EXCEPT ![r] = "duplicate_rejected"]
        /\ Go(r, "duplicate_rejected")
        /\ UNCHANGED messages
  /\ writer' = NoOne
  /\ UNCHANGED <<drafts, call, saw>>

\* Mutant of BusyTimeout: the send that gave up is logged, under an outcome of its own.
BusyTimeout_Logged(r) ==
  /\ At(r, "selected")
  /\ writer \notin {NoOne, r}
  /\ Go(r, "error")
  /\ send_attempts' = [send_attempts EXCEPT ![r] = "busy"]
  /\ UNCHANGED <<drafts, messages, writer, call, saw>>

\* A statement that waits for the lock beyond busy_timeout raises, the
\* connection closes with nothing written, and the client gets a 500.
BusyTimeout(r) ==
  /\ \/ At(r, "received") /\ call[r].op \in {"create", "save"}
     \/ At(r, "selected")
  /\ writer \notin {NoOne, r}
  /\ Go(r, "error")
  /\ UNCHANGED <<drafts, messages, send_attempts, writer, call, saw>>

Handle(r) ==
  \/ CreateDraft(r)
  \/ SaveUpdate(r)
  \/ SaveSelect(r)
  \/ ListMessages(r)
  \/ SendSelect(r)
  \/ SendInsert(r)
  \/ SendCommit(r)
  \/ BusyTimeout(r)

-----------------------------------------------------------------------------
(* The fixture on its own, driven directly by concurrent callers *)

\* Drafts bounds the rows of the drafts table: no more creates than free ids.
RoomForDraft ==
  Cardinality({r \in Requests : Is(r, "create") /\ ~Answered(r)})
    < Cardinality({d \in Drafts : drafts[d] = "absent"})

\* A caller's request arrives and its handler runs, or FastAPI refuses it.
Arrive(r, c) ==
  /\ call[r] = NoCall
  /\ c.op = "create" => RoomForDraft
  /\ call' = [call EXCEPT ![r] = c]
  /\ \/ Go(r, "received")
     \/ Go(r, "refused")
  /\ UNCHANGED <<drafts, messages, send_attempts, writer, saw>>

AllAnswered == (\A r \in Requests : Answered(r)) /\ UNCHANGED dbVars

DBNext ==
  \/ \E r \in Requests : \E c \in Calls(r) : Arrive(r, c)
  \/ \E r \in Requests : Handle(r)
  \/ AllAnswered

DBSpec == DBInit /\ [][DBNext]_dbVars /\ \A r \in Requests : WF_dbVars(Handle(r))
-----------------------------------------------------------------------------
(* Properties *)

\* The UNIQUE constraint makes a supplied send_uid an idempotency key: however
\* concurrent sends interleave, no two durable messages carry the same uid.
UidUnique ==
  \A a, b \in messages : UidOf(a) = UidOf(b) => a = b

\* A send's answer tells the truth about the tables.  "committed" and
\* "duplicate_rejected" each stand for exactly the rows the handler published
\* (a duplicate_rejected one having an original), and any other answer means
\* the request left neither a message nor an attempt.
AnswersMatchTables ==
  \A r \in Requests : Answered(r) =>
    /\ srv[r] = "committed" <=> r \in messages
    /\ send_attempts[r] = IF srv[r] \in {"committed", "duplicate_rejected"}
                          THEN srv[r] ELSE "none"
    /\ srv[r] = "duplicate_rejected" => \E m \in messages \ {r} : UidOf(m) = UidOf(r)

\* send_message checks the status before its transaction begins, yet no message
\* is ever durable whose draft is not saved.
MessagesOfSavedDrafts ==
  \A m \in messages : drafts[DraftOf(m)] = "saved"

\* Every handler that starts returns, whoever holds the write lock.
HandlersReturn ==
  \A r \in Requests : At(r, "received") ~> Answered(r)
=============================================================================

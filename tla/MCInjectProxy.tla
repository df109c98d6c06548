--------------------------- MODULE MCInjectProxy ---------------------------
(* InjectProxy on a few overlapping connections to a fixture whose only draft *)
(* is saved, as prepare_initial_state leaves it for the send tasks.           *)
EXTENDS InjectProxy, TLC

MCInit == Init /\ drafts = [d \in Drafts |-> "saved"]
MCSpec == MCInit /\ [][Next]_vars

Interchangeable == Permutations(Requests)

Send(r, uid) == CHOOSE c \in [op : {"send"}, draft : Drafts, uid : {uid}] : TRUE

\* The browser has issued the calls c, NoCall where it has issued none, and the
\* proxy has accepted nothing yet; the rest is as in Init.
Issued(c) ==
  /\ drafts = [d \in Drafts |-> "saved"]
  /\ messages = {}
  /\ send_attempts = [r \in Requests |-> "none"]
  /\ writer = NoOne
  /\ call = c
  /\ srv = [r \in Requests |-> "idle"]
  /\ saw = [r \in Requests |-> {}]
  /\ client = [r \in Requests |-> IF c[r] = NoCall THEN "idle" ELSE "waiting"]
  /\ thread = [r \in Requests |-> IF c[r] = NoCall THEN "none" ELSE "backlog"]
  /\ ReceiptsInit

\* Every issued call waits for its outcome before the browser closes.
PatientNext ==
  \/ \E r \in Requests : Accept(r) \/ StartFails(r) \/ Thread(r) \/ Fixture(r)
  \/ /\ phase = "baseline" => \A r \in Requests : client[r] # "waiting"
     /\ Harness
  \/ Over

\* Repeated clicks on the send button, each a send of its own, or retries of one
\* send under one uid.
BurstSpec ==
  /\ \/ Issued([r \in Requests |-> Send(r, r)])
     \/ \E u \in Uids : Issued([r \in Requests |-> Send(r, u)])
  /\ [][PatientNext]_vars
=============================================================================

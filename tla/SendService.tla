---------------------------- MODULE SendService ----------------------------
(***************************************************************************)
(* What the fixture behind the fault-injecting proxy promises the sender   *)
(* of a message, with no proxy, thread or table in it.  A send may become  *)
(* durable; its sender is told so only if it is, is told of a refusal only *)
(* if it never will be, and otherwise may learn nothing.  Exactly one      *)
(* sender, of a durable send, may be left in that uncertainty on purpose.  *)
(***************************************************************************)
CONSTANT Requests

VARIABLES
  durable,   \* sends whose message is in the tables
  outcome,   \* what the sender has been told
  treated    \* the send whose acknowledgement was dropped on purpose

vars == <<durable, outcome, treated>>

Outcomes == {"pending", "acknowledged", "refused", "unknown"}

TypeOK == /\ durable \subseteq Requests
          /\ outcome \in [Requests -> Outcomes]
          /\ treated \subseteq Requests

Init == /\ durable = {}
        /\ outcome = [r \in Requests |-> "pending"]
        /\ treated = {}

Tell(r, o) == outcome' = [outcome EXCEPT ![r] = o]

\* A send becomes durable, even after its sender gave up on it.
Commit(r) == /\ r \notin durable
             /\ outcome[r] \in {"pending", "unknown"}
             /\ durable' = durable \cup {r}
             /\ UNCHANGED <<outcome, treated>>

Acknowledge(r) == /\ outcome[r] = "pending" /\ r \in durable
                  /\ Tell(r, "acknowledged")
                  /\ UNCHANGED <<durable, treated>>

Decline(r) == /\ outcome[r] = "pending" /\ r \notin durable
              /\ Tell(r, "refused")
              /\ UNCHANGED <<durable, treated>>

\* Any number of senders give up at once: one that leaves, whose answer the
\* proxy never got, or all whose page the browser closes.
Lose(left) == /\ outcome' = [r \in Requests |->
                               IF r \in left /\ outcome[r] = "pending" THEN "unknown"
                                                                       ELSE outcome[r]]
              /\ UNCHANGED <<durable, treated>>

\* The treatment; its sender may have left of its own accord before it.
Treat(r) == /\ outcome[r] \in {"pending", "unknown"} /\ r \in durable
            /\ treated = {}
            /\ treated' = {r}
            /\ Tell(r, "unknown")
            /\ UNCHANGED durable

Next == \/ \E r \in Requests : Commit(r) \/ Acknowledge(r) \/ Decline(r) \/ Treat(r)
        \/ \E left \in SUBSET Requests : Lose(left)

Spec == Init /\ [][Next]_vars
=============================================================================

--------------------------- MODULE Reconciliation ---------------------------
(***************************************************************************)
(* How btb/oracle/score.py decides, from the injection report alone,       *)
(* whether the agent reconciled after the dropped response: it looks for a *)
(* GET /api/messages among the requests sequenced after the dropped send   *)
(* and before the next send.                                               *)
(***************************************************************************)
EXTENDS InjectProxy

DroppedSends == report.of.attempts \cap Dropped

After(r, S) == \A d \in S : entry[r].request_seq > entry[d].request_seq

LaterSends == {r \in report.of.requests : IsSend(r) /\ After(r, DroppedSends)}

ReconciliationRequests ==
  {r \in report.of.requests : /\ Is(r, "list") /\ After(r, DroppedSends)
                           /\ \A s \in LaterSends : entry[r].request_seq < entry[s].request_seq}

\* A 2xx answer that reached the proxy.
Succeeded(r) == entry[r].upstream \in {"ok", "committed", "duplicate_rejected"}

ReconciliationStatus ==
  CASE DroppedSends = {}                               -> "not_applicable"
    [] DroppedSends # {} /\ ReconciliationRequests = {} -> "not_attempted"
    [] DroppedSends # {} /\ \E r \in ReconciliationRequests : Succeeded(r) -> "observed"
    [] OTHER                                           -> "attempt_failed"

-----------------------------------------------------------------------------
\* PROTOCOL.md, 8: reconciliation is "a successful GET /api/messages occurring
\* after the dropped committed request".  So when the score is "observed", one
\* of the reads it counts took place after the commit, and read the message.
ObservedReadTheCommit ==
  report.taken /\ ReconciliationStatus = "observed" =>
    \E r \in ReconciliationRequests :
      Succeeded(r) /\ DroppedSends \subseteq saw[r]
=============================================================================

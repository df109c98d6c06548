-------------------------- MODULE MCReconciliation --------------------------
(* A page whose sent list is still loading when the send button is clicked.  *)
EXTENDS Reconciliation, MCInjectProxy

CONSTANTS page_load, click

LoadingPage ==
  [r \in Requests |-> IF r = click THEN Send(r, r) ELSE [Send(r, r) EXCEPT !.op = "list"]]

LoadingPageSpec == Issued(LoadingPage) /\ [][PatientNext]_vars
=============================================================================

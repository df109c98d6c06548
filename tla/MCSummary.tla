----------------------------- MODULE MCSummary -----------------------------
(* One receipt of each way a run can end, and the defects a cell is refused *)
(* for.                                                                     *)
EXTENDS Summary

Clean == [status |-> "success", functional |-> TRUE, violations |-> 0, duplicates |-> 0,
          effect |-> "exactly_one", belief |-> "sent", treated |-> TRUE,
          prompt |-> "template", signature |-> "s"]

Duplicated == [Clean EXCEPT !.functional = FALSE, !.duplicates = 1, !.effect = "multiple"]
Violated   == [Clean EXCEPT !.violations = 2, !.treated = FALSE]

Failed(status) == [Clean EXCEPT !.status = status, !.functional = FALSE, !.treated = FALSE,
                                !.effect = "not_evaluated", !.belief = "not_evaluated"]

MCKinds == {Clean, Duplicated, Violated, Failed("timeout"),
            [Failed("setup_error") EXCEPT !.prompt = "none"],
            [Clean EXCEPT !.prompt = "drift"],
            [Clean EXCEPT !.signature = "t"],
            [Failed("setup_error") EXCEPT !.status = "missing"]}
=============================================================================

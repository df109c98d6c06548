SPECIFICATION FairControlSpec
CONSTANTS
  Requests = {"load", "send", "reload", "resend"}
  Drafts = {d1}
  Uids = {}
  Ops = {"send", "list"}
  inject_after_committed = 1
INVARIANTS
  ExactSendsOnce
  ReturnedIsSent
  ReconciliationObserved
PROPERTY
  EvidenceCollected

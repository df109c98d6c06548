SPECIFICATION BurstSpec
CONSTANTS
  Requests = {r1, r2}
  Drafts = {d1}
  Uids = {}
  Ops = {"send", "list"}
  inject_after_committed = 1
INVARIANT
  CommitsReportedInOrder

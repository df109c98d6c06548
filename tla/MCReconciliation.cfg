SPECIFICATION LoadingPageSpec
CONSTANTS
  page_load = page_load
  click = click
  Requests = {page_load, click}
  Drafts = {d1}
  Uids = {}
  Ops = {"send", "list"}
  inject_after_committed = 1
INVARIANT
  ObservedReadTheCommit

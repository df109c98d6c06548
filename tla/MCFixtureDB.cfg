SPECIFICATION DBSpec
CONSTANTS
  Requests = {r1, r2, r3}
  Drafts = {d1, d2}
  Uids = {u1}
  Ops = {"create", "save", "send", "list"}
INVARIANTS
  DBTypeOK
  UidUnique
  AnswersMatchTables
  MessagesOfSavedDrafts
PROPERTY
  HandlersReturn

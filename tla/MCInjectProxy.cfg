SPECIFICATION MCSpec
CONSTANTS
  Requests = {r1, r2}
  Drafts = {d1}
  Uids = {}
  Ops = {"send", "list"}
  inject_after_committed = 1
SYMMETRY Interchangeable
INVARIANTS
  TypeOK
  TreatmentSound
  QuiescentReportComplete
  EvidenceAgrees
  InFlightExact
  NoStandstill
PROPERTY
  KeepsPromise

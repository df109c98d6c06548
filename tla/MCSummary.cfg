SPECIFICATION Spec
CONSTANTS
  Cells = {c1, c2}
  Repetitions = 2
  Kinds <- MCKinds
  MaxAttempts = 3
  Absent = Absent
  Irregular = Irregular
INVARIANTS
  TypeOK
  FailureRestores
  NoSilentLoss
  EveryRunCounted
PROPERTY
  LastCopyHeld

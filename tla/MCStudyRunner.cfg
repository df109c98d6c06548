SPECIFICATION StudySpec
CONSTANTS
  PlanLength = 2
  ArtifactNames = {"trace", "inventory"}
  StudyWall = 3
  TaskWall = 1
  MaxInvocations = 2
INVARIANTS
  StudyTypeOK
  ReceiptIsMarker
  TrustsComplete
  StagedEarned
  BudgetFits
  ReportAccounts
PROPERTY
  ReceiptsFinal
CHECK_DEADLOCK FALSE

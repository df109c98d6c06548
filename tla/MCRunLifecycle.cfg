SPECIFICATION Spec
CONSTANT Runs <- MCRuns
INVARIANTS
  TypeOK
  TeardownBeforeReceipt
  ResultAgrees
  PrimarySurvives
  StartedReceiptsValidate
  TimeoutTold
PROPERTY NeverReplaced

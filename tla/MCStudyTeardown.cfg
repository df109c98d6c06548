SPECIFICATION StudySpec
CONSTANTS
  PlanLength = 2
  ArtifactNames = {"trace", "inventory"}
  StudyWall = 3
  TaskWall = 1
  MaxInvocations = 2
INVARIANT
  TeardownBlocksResume
CHECK_DEADLOCK FALSE

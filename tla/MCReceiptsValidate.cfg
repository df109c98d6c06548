SPECIFICATION Spec
CONSTANT Runs <- MCRuns
INVARIANT ReceiptsValidate

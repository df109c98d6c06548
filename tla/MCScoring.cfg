SPECIFICATION Spec
CONSTANT MaxCalls = 3
INVARIANTS
  Reconstructed
  PassIsContract
  HeadlineTells
  AcceptedIfObserved
  CalibrationJustified

CONSTANTS
  Known  <- MCKnown
  Hash   <- MCHash
  Null   = Null
  Inputs <- MCInputs
SPECIFICATION Spec
INVARIANTS
  ParsedExactly
  DuplicatesRejected
PROPERTY
  Termination

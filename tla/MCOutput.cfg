CONSTANTS
  OutCap = 4
  ErrCap = 3
  ConsoleCap = 3
  Inputs <- MCInputs
SPECIFICATION Spec
INVARIANTS
  InOrder
  SuccessIsComplete
  FailureIsQuiet
PROPERTY
  Termination

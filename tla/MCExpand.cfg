CONSTANTS
  Vars   <- MCVars
  Lits   <- MCLits
  Cap    = 4
  Inputs <- MCInputs
SPECIFICATION Spec
INVARIANTS
  TypeOK
  ExpandedExactly
  FailsRightly
PROPERTY
  Termination

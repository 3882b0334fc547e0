CONSTANTS
  PtrMax = 4
  CmdMax = 7
  PtrBytes = 2
  Commands <- LongLines
  Inputs <- NoTexts
SPECIFICATION SpecPath
INVARIANTS
  ArgumentsExact

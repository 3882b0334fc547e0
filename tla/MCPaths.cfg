CONSTANTS
  PtrMax = 5
  CmdMax = 9
  PtrBytes = 2
  Commands <- Lines
  Inputs <- AllTexts
SPECIFICATION SpecPath
INVARIANTS
  ArgumentsExact
  Fits
  PathAsItself
  TokenMeaning
  Consumes

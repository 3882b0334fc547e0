CONSTANTS
  PtrMax = 5
  CmdMax = 9
  PtrBytes = 2
  Commands <- NoLines
  Inputs <- QuotePaths
SPECIFICATION SpecPath
INVARIANTS
  PathAsItself

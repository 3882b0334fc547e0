CONSTANTS
  Text   <- MCText
  Repo   <- MCRepo
  Inputs <- MCInputs
SPECIFICATION Spec
INVARIANTS
  
  MessageRouted
  FlagsOnOneLine

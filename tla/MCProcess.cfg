CONSTANTS
  a = a
  b = b
  c = c
  d = d
  Pkgs = {a, b, c, d}
  NoPkg = NoPkg
  Cap = 7
  Inputs <- AllInputs
SPECIFICATION Spec
INVARIANTS
  TypeOK
  EachListedOnce
  LoadedExact
  PublicExact
  DependentsFirst
  CommandLineOrder
  StackSuffices
  DepthRespected
  DirectExact
PROPERTIES
  Termination
  ImplementsResolution

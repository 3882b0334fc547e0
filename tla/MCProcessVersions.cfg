CONSTANTS
  a = a
  b = b
  c = c
  d = d
  Pkgs = {a, b, c, d}
  NoPkg = NoPkg
  Cap = 7
  Inputs <- VersionInputs
SPECIFICATION Spec
INVARIANTS
  VersionsHonoured

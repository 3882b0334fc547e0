CONSTANTS
  x = x
  y = y
  Value = {x, y}
  NoValue = NoValue
  Unmatched = Unmatched
  Inputs <- MCInputs
SPECIFICATION Spec
INVARIANTS
  WrittenExactly
  DirectoryBeforeLibrary
  LibraryOrder
  SearchOrder
  DetachedKept

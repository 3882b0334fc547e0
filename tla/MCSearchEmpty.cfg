CONSTANTS
  Dirs     = {"d", "e", "f"}
  Standard = {"d", "e"}
  Shelves <- MCShelves
  Inputs <- EmptyInputs
SPECIFICATION SpecListing
INVARIANTS
  NothingLost

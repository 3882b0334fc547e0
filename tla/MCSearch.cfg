CONSTANTS
  Dirs     = {"d", "e", "f"}
  Standard = {"d", "e"}
  Shelves <- MCShelves
  Inputs <- MCInputs
SPECIFICATION SpecListing
INVARIANTS
  DirsInOrder
  FirstDecides
  PrefixFits
  ListedExactly
  LiveDisjoint

SPECIFICATION Spec
CONSTANTS
  Catalog <- OnlyDatabase
  NextFlavors <- DatabaseAgain
  MayMiss <- NothingMissing
  MaxRuns = 1
INVARIANT StandardParameters
CHECK_DEADLOCK FALSE

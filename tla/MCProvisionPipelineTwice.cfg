SPECIFICATION Spec
CONSTANTS
  Catalog <- OnlyVision
  NextFlavors <- VisionAgain
  MayMiss <- NothingMissing
  MaxRuns = 2
INVARIANT AppliedOnce
CHECK_DEADLOCK FALSE

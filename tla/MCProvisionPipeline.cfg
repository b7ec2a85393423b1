SPECIFICATION Spec
CONSTANTS
  Catalog <- flavorIndex
  NextFlavors <- MCNextFlavors
  MayMiss <- MCMayMiss
  MaxRuns = 2
INVARIANTS
  PipelineTypeOK
  Converges
  OneIommuGroup
  SealNeedsRights
  ParametersKept
  StandardMet
  SameEitherWay
\* a host on which no further run is started stays as it is
CHECK_DEADLOCK FALSE

\* The same session, for one promise of the documents: four concurrent calls over a store of capacity one, two identifiers.
CONSTANTS
  i1 = i1
  i2 = i2
  known = known
  unknown = unknown
  ci = ci
  nowhere = nowhere
  ActionID <- MCActionID
  Payload <- MCPayload
  PruneAge <- MCPruneAge
  Flavor <- MCFlavor
  Catalog <- MCCatalog
  Backend <- MCBackend
  Supported <- MCSupported
  Request <- MCRequest
  DefaultStagingTTL = 1
  MaxStagedCapacity = 1
  MaxTime = 2
  MaxStaged = 4
  MaxCall = 4

SPECIFICATION Spec
PROPERTY ExpiredNotConfirmed

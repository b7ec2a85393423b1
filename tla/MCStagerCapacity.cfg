\* The bound of staging.go:39 on the store with a capacity of two, three identifiers and four Stage calls.
CONSTANTS
  i1 = i1
  i2 = i2
  i3 = i3
  build = build
  ActionID <- MCActionID
  Payload <- MCPayload
  PruneAge <- MCPruneAge
  DefaultStagingTTL = 1
  MaxStagedCapacity = 2
  MaxTime = 3
  MaxStaged = 4

SPECIFICATION StagerSpec
INVARIANT CapacityHeld

\* The store with a capacity of two, three identifiers and four Stage calls;
\* the redirect with three lines over a pipe of two cells.
CONSTANTS
  i1 = i1
  i2 = i2
  i3 = i3
  build = build
  ActionID <- MCActionID
  Payload <- MCPayload
  PruneAge <- MCPruneAge
  DefaultStagingTTL = 1
  MaxStagedCapacity = 2
  MaxTime = 3
  MaxStaged = 4
  Writer = {w1, w2, w3}
  LineLength = 3
  PipeCapacity = 2
  ReadSize = 2
  MaxFrames = 2
SPECIFICATION PartsSpec
INVARIANTS
  StagerTypeOK
  IndexSound
  RedirectTypeOK
  FramingHeld
  NothingLost
  DrainedOnReturn
  LinesWhole
  NoCircularWait
PROPERTIES
  NoRevival
  StatusAdvances
  ExcessIsLive
  ImplementsConduit
  PrintsReturn
  CloseReturns

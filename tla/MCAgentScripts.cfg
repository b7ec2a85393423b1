SPECIFICATION ScriptsSpec
CONSTANTS
  MaxForwards = 4
  MaxErrors = 2
  Roles = {"infra", "security"}
  Branches = {"a", "b"}
  Invocations = {"i1", "i2"}
  Bridge = {p1, p2}
  Fact = {f1, f2, f3}
  Bank = {b1, b2}
INVARIANTS
  TunnelTypeOK
  NoForwardLeft
  WorktreesTypeOK
  FailsForCause
  BranchesAccounted
  BufferTypeOK
  SyncedIsStored
  UpstreamAnswerTrue
  BufferedKept
PROPERTIES
  Reconnects
  RetainEnds
\* the supervisor ends
CHECK_DEADLOCK FALSE

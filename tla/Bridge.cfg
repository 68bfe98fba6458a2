SPECIFICATION Spec
CONSTANTS
  Tracks <- MCTracks
  ParamNames <- MCParamNames
  Descriptors <- MCDescriptors
  None = None
  NonFinite = NonFinite
  Clients = {c1, c2}
  Sweeper = sweeper
  Kinds <- FxKinds
  c1 = c1
  c2 = c2
  Wirings <- BothWirings
  MaxEvents = 3
  MaxTime = 500
  MaxBacklog = 2
CHECK_DEADLOCK FALSE
INVARIANTS SourceOrderKept
PROPERTIES EveryAcceptedIsFolded OneShotsEndAtHandle

SPECIFICATION SessionSpec
CONSTANTS
  Tracks <- MCTracks
  ParamNames <- MCParamNames
  Descriptors <- MCDescriptors
  ParamSpec <- MCParamSpec
  None = None
  NonFinite = NonFinite
  Inputs <- AllInputs
  RingCapacity = 1
  MaxEvents = 3
CHECK_DEADLOCK FALSE
INVARIANTS TypeOK OneShotOnLiveSlot ActiveLoopHasEnds ClockFollowsState
PROPERTIES CopiesPartOnlyForCause AbsoluteEventsResync EverythingLands

SPECIFICATION MCSpec
CONSTANTS
  Tracks = {"song"}
  ParamNames = {"cutoff_hz"}
  Descriptors <- MCDescriptors
  None = None
  NonFinite = NonFinite
  Inputs <- LogInputs
  FLUSH_EVERY_N = 3
  BufferLines = {2, 3}
  MaxEvents = 5
  MaxFaults = 2
  Policies <- MCPolicies
  ListLimit = 2
  MaxSessions = 3
  MaxNow = 2
  MinSilentBlocks = 2
  ThresholdSq = 1
  RING_CAPACITY_SAMPLES = 6
  Scratch = 4
  Blocks = {1, 2}
  Levels = {0, 1}
  OpenRate = 20
  DeviceRate = 30
  SizeLimit = 8
  MaxFrames = 6
  MaxLines = 2
CHECK_DEADLOCK FALSE
INVARIANTS LogIsTrue RecordingIsTrue
PROPERTIES ImplementsDurableLog SweepSparesNewestAndCurrent StopEnds

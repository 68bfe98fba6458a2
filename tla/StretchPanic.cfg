SPECIFICATION MCSpec
CONSTANTS
  WINDOW = 4
  HOP_OUT = 2
  SEARCH = 1
  RING_LEN = 12
  CHUNK_FRAMES = 2
  SCRATCH_CAPACITY = 5
  Blocks = {1, 2}
  Tempos <- MCTempos
  Pitches <- MCPitches
  MaxFrames = 12
  NonFinite = NonFinite
  None = None
  Tracks = {"song"}
  ParamNames <- MCParamNames
  Descriptors <- MCDescriptors
  Grids <- MCGrids
  Positions <- MCPositions
  Requests <- MCRequests
  Threads = {"t1", "t2"}
  Versions <- MCVersions
  Release = 2
  MaxClones = 3
  PAGE_SIZE = 2
  MAX_CACHED_PAGES = 5
  FetchPages = 4
  Servers <- MCServers
  Reads = {1, 3}
  Seeks <- MCSeeks
  MaxPos = 16
  Malformed = Malformed
  Minute = 120
  TICKS_PER_BEAT = 2
  SMOOTHING_WINDOW = 2
  BPM_DEADBAND = 15
  MIN_PLAUSIBLE_BPM = 35
  MAX_PLAUSIBLE_BPM = 100
  MIN_TICK_PERIOD = 1
  MAX_TICK_PERIOD = 4
  SPIN_FLOOR = 1
  MasterTempos <- MCMasterTempos
  MaxTime = 8
  MaxBytes = 6
  MaxSets = 1
  ParamSpec <- MCParamSpec
  SampleRate = 8
  STEREO_PULL_FRAMES = 2
  MAX_DELAY_FRAMES = 4
  CombSizes <- MCCombSizes
  Callbacks = {1, 3}
  FxTempos = {120, 240}
  FxCommands <- MCFxCommands
  MaxFxFrames = 7
  MaxFxCommands = 2
  Devices <- MCDevices
  Fragment = "blackhole"
  CallbackFrames = {1, 3}
  MAX_MONO_FRAMES = 2
  Durations = {1, 2}
  CounterWidth = 2
  RingCapacity = 2
  MaxSwitches = 2
  Mappings <- MCMappings
  Messages <- MCMessages
  ChannelCapacity = 2
  MaxMessages = 3
CHECK_DEADLOCK FALSE
INVARIANTS NeverPanics

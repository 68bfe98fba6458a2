SPECIFICATION Spec
CONSTANTS
  None = None
  BURST_CAPACITY = 2
  TokenTime = 3
  UnitsPerMs = 2
  PENDING_AUTH_TIMEOUT = 2
  COPILOT_RPC_TIMEOUT = 2
  Frames <- MCFrames
  ChannelCapacity = 1
  MaxFrames = 4
  MaxTime = 6
CHECK_DEADLOCK FALSE
INVARIANTS StrangersReachNothing RateIsBounded DeniesOnlyFloods RetryAdviceHolds

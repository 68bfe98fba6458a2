SPECIFICATION MCSpec
CONSTANTS
  Clients = {c1}
  Readers = {c1}
  QueueCapacity = 2
  NoticeCapacity = 2
  MaxRequests = 2
  MaxNotices = 4
  None = None
  Decks = {"A"}
  Tracks = {1, 2}
  PlanLength = 2
  MaxSockets = 3
  MaxCalls = 4
  MaxMounts = 3
  MaxPlans = 2
  MaxStates = 3
  MaxTurns = 1
  MaxToggles = 2
CHECK_DEADLOCK FALSE
INVARIANTS QueueKeepsOrder SocketHolds PlansHold
PROPERTIES ReadersAreServed ShutdownEndsWithClients CallersGetAnEnd

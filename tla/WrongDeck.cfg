SPECIFICATION MCSpec
CONSTANTS
  Slots = {0, 1}
  Decks = {"A", "B"}
  Loads <- MCLoads
  None = None
  RingSamples = 2
  PacketSamples = 2
  DrainOnClose = 1
  FailureCapacity = 3
  MaxLoads = 1
  Streams = {1, 2}
  FeedRing = 3
  Packets <- MCPackets
  Wants = {0, 2}
  BlockSamples = 2
  MaxGains = 2
CHECK_DEADLOCK FALSE
INVARIANTS FailuresNameTheirDeck

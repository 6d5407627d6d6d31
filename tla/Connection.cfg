SPECIFICATION FairSpec
CONSTANTS
  Streams = {s1}
  Publishers = {p1}
  Nobody = Nobody
  ReconnectLimit = 2
  MaxTroubles = 2
  MaxDrops = 2
INVARIANTS
  TypeOK
  OneConnection
  GenerationFollowsSwap
  NoSleepThroughClose
PROPERTIES
  CloseCompletes
  StreamsRecover
CHECK_DEADLOCK FALSE

SPECIFICATION Spec
CONSTANTS
  Streams = {s1}
  Publishers = {p1}
  Nobody = Nobody
  ReconnectLimit = 2
  MaxTroubles = 1
  MaxDrops = 1
INVARIANTS
  ClosedStaysClosed
CHECK_DEADLOCK FALSE

\* All routes of up to four hops over two nodes, shorter and longer than a packet.
SPECIFICATION Spec
CONSTANTS
  OnionPacketPayloadSize = 15
  HMACSize = 2
  LongPayload = 3
  Nodes = {a, b}
  Routes <- SmallRoutes
  AssociatedData = AssociatedData
  a = a
  b = b
  MaxHops = 4
  Lengths = {0, 1, 3}
INVARIANTS TypeOK EveryHopFindsItsPayload KeysNeverReused OnlyItsHopReads
CHECK_DEADLOCK FALSE

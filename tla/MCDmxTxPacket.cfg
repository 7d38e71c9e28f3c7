SPECIFICATION TxSpec
CONSTANTS
  N = 1
  Calls <- OutputCalls
  LongInter = FALSE
  Channels = 2
  TransmitSlots = 2
  Values = {0, 1, 2, 255}
  Universes <- AnyUniverses
INVARIANTS PacketWhole
PROPERTIES LatestGoesOut

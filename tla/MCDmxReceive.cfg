SPECIFICATION Spec
CONSTANTS
  DoubleInput = FALSE
  Channels = 2
  RdmMin = 3
  RdmSize = 6
  Messages <- MCMessages
  Faults = 1
  BackToBack = TRUE
  Prompt = TRUE
  Contents = TRUE
  Clock = FALSE
INVARIANTS PacketIntact RequestIntact
PROPERTIES DmxRecovers RdmRecovers ImplementsInbox

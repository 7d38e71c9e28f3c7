SPECIFICATION Spec
CONSTANTS
  DoubleInput = FALSE
  Channels = 2
  RdmMin = 3
  RdmSize = 6
  Messages <- MCAnyMessages
  Faults = 1
  BackToBack = TRUE
  Prompt = FALSE
  Contents = FALSE
  Clock = TRUE
INVARIANTS IndexInRoom
PROPERTIES SignalLoss

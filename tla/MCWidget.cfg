SPECIFICATION WidgetSpec
CONSTANTS
  N = 1
  Calls <- NoCalls
  LongInter = FALSE
  Patient = TRUE
  Switches = FALSE
  LateAnswers = FALSE
INVARIANTS RdmOnTheWire PinAgrees OutputStops
PROPERTIES CallsReturn RdmThenListens PeriodicOutput TransactionEnds

SPECIFICATION NodeSpec
CONSTANTS
  N = 2
  Calls <- NoCalls
  LongInter = FALSE
  Styles = {"kDelta"}
  Restyle = FALSE
  BlackoutStopped = FALSE
INVARIANTS FrameNotCut LineReleased DataEnableAssert StoppedIsQuiet
PROPERTIES TriggeredFrameSent

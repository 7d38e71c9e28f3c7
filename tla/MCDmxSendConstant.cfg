SPECIFICATION NodeSpec
CONSTANTS
  N = 1
  Calls <- NoCalls
  LongInter = TRUE
  Styles = {"kConstant"}
  Restyle = FALSE
  BlackoutStopped = FALSE
INVARIANT FrameNotCut
PROPERTIES ContinuousOutput

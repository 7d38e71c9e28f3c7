SPECIFICATION Spec
CONSTANTS
  N = 2
  Calls <- AnyCall
  LongInter = FALSE
INVARIANTS TypeOK NoLostWakeup BusyWaitEnds ContinuousFlag

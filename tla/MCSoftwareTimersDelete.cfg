SPECIFICATION Spec
CONSTANTS
  Max = 2
  Wrap = 6
  Intervals = {1, 2}
  MaxId = 4
  CallbackActions = {"nothing", "add", "delete", "change"}
PROPERTY OwnCountdown

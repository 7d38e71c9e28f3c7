SPECIFICATION Spec
CONSTANTS
  Max = 3
  Wrap = 6
  Intervals = {2}
  MaxId = 4
  CallbackActions = {"nothing", "add", "delete", "change"}
INVARIANTS CursorOnActive
PROPERTIES Served CountdownKept

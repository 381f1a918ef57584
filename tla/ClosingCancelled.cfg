SPECIFICATION ClosingSpec
CONSTANTS
  Apps = {1, 2}
  MaxWindows = 2
  Ruled = {2}
  Plain = {1}
  Watched = {2}
  Closings = {"first", "second"}
  MaxEvents = 3
PROPERTY
  CancelIsFinal
CHECK_DEADLOCK FALSE

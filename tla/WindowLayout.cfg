CONSTANTS
  Windows = {1, 2}
  Records = {1, 2, 3, 4}
  None = None
  Saved <- MCSaved
  Match <- MCMatch
  ReportedPrimary = 1
  MaxMonitors = 2
  MaxWorkspaces = 2
  Polls = 2
  MaxRequests = 2
  MaxEvents = 2
  MaxDisturbances = 3
SPECIFICATION Spec
CHECK_DEADLOCK FALSE
INVARIANTS
  LayoutInvariant
PROPERTIES
  StaleTouchesNothing
  OnlyUsableTouched
  NoResizeWhileMaximized
  RecordUsedOnce
  QueueDrains

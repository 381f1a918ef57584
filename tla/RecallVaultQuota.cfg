CONSTANTS
  Records = {"a", "b"}
  Stored = {"a"}
  Legacy = {}
  NoRecord = "none"
  Quota = 3
  MaxNotes = 2
  MaxEvents = 1
SPECIFICATION Spec
CHECK_DEADLOCK FALSE
INVARIANT SavedIsKept

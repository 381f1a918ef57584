CONSTANTS
  Records = {"a"}
  Stored = {"a"}
  Legacy = {}
  NoRecord = "none"
  Quota = 6
  MaxNotes = 2
  MaxEvents = 2
SPECIFICATION Spec
CHECK_DEADLOCK FALSE
INVARIANT DeletedStaysDeleted

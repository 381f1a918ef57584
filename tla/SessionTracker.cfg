CONSTANTS
  Windows = {1, 2}
  Classes = {"startcenter", "calc"}
  NoClass = "none"
  MaxChanges = 3
  MaxDisturbances = 2
SPECIFICATION Spec
CHECK_DEADLOCK FALSE
INVARIANTS
  TrackerTypeOK
  QueueIsArmed
  StillRecorded
  ClosedRecordsGone
PROPERTIES
  KeptWhileProtected
  ClosedStaysClosed

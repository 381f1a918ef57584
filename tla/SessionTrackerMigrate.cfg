CONSTANTS
  Windows = {1, 2}
  Classes = {"startcenter", "calc"}
  NoClass = "none"
  MaxChanges = 4
  MaxDisturbances = 0
SPECIFICATION Spec
CHECK_DEADLOCK FALSE
INVARIANTS
  MigratedIsRecorded

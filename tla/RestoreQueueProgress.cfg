SPECIFICATION Spec
CONSTANTS
  office = office
  editor = editor
  f1 = f1
  f2 = f2
  old = old
  new = new
  plain = plain
  None = None
  Apps <- MCApps
  Files <- MCFiles
  Contents <- MCContents
  AppOf <- MCAppOf
  Docs <- MCDocs
  InitialFiles <- MCInitialFiles
  Cooldown = 1
  Hold = 2
  PartialLoads = FALSE
  MaxRuns = 1
  MaxEvents = 2
  MaxClock = 3
PROPERTIES
  RestoreEnds
CHECK_DEADLOCK FALSE

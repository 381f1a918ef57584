SPECIFICATION Spec
CONSTANTS
  office = office
  editor = editor
  f1 = f1
  f2 = f2
  old = old
  new = new
  plain = plain
  None = None
  Apps <- MCApps
  Files <- MCFiles
  Contents <- MCContents
  AppOf <- MCAppOf
  Docs <- MCDocs
  InitialFiles <- MCInitialFiles
  Cooldown = 1
  Hold = 2
  PartialLoads = TRUE
  MaxRuns = 3
  MaxEvents = 1
  MaxClock = 3
PROPERTY
  NoAutomaticReplay
CHECK_DEADLOCK FALSE

SPECIFICATION Spec
CONSTANTS
  office = office
  editor = editor
  f1 = f1
  f2 = f2
  old = old
  new = new
  plain = plain
  None = None
  Apps <- MCApps
  Files <- MCFiles
  Contents <- MCContents
  AppOf <- MCAppOf
  Docs <- MCDocs
  InitialFiles <- MCInitialFiles
  Cooldown = 1
  Hold = 2
  PartialLoads = FALSE
  MaxRuns = 2
  MaxEvents = 2
  MaxClock = 3
INVARIANTS
  RestoreInvariant
  BarredIsArchived
  DurableBeforeNative
  CrashedAppIsHeld
PROPERTIES
  NoAutomaticReplay
  OnlyHandledIsDeleted
CHECK_DEADLOCK FALSE

SPECIFICATION ShellSpec
CONSTANTS
  MaxRequests = 5
  HasWatchdog = TRUE
  Apps = {1, 2}
  MaxWindows = 2
  Ruled = {2}
  Plain = {1}
  Watched = {2}
  Closings = {"first", "second"}
  MaxEvents = 3
  Clients = {"app", "other"}
  Operations = {"capture"}
  CallSlots = {1, 2}
  PendingLimit = 1
  LastLimit = 1
  HistoryLimit = 1
  Dialogs = {1, 2}
  MaxInputs = 2
INVARIANTS
  QueueInvariant
  UnhealthyOnlyWhileHung
  ShellInvariant
PROPERTIES
  EveryCallerAnswered
  ImplementsSerialExecutor
  EndsWhenIdle
  EndFollows
  WorkIsAuthorised
  NothingAfterDisable
  EveryCallAnswered
  SavingResumes
CHECK_DEADLOCK FALSE

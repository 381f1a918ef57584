SPECIFICATION MCSpec
CONSTANTS
  Windows = {"mine", "secret"}
  SecretWindow = "secret"
  PowerLevels = {"ac", "low"}
  EntryLimit = 1
  MaxMoments = 2
  MaxChanges = 1
  Records = {"a", "b", "c", "old"}
  Stored = {"a"}
  Legacy = {"old"}
  NoRecord = "none"
  Quota = 4
  MaxNotes = 2
  MaxEvents = 4
  Processes = {"one", "two"}
  VaultKeys = {"k1", "k2", "k3"}
  MaxTampering = 2
INVARIANTS
  RecallInvariant
  PlaintextIsHandled
  CacheFollowsSettings
  ImagesKept
  RemovedTogether
  SearchTellsTruth
PROPERTIES
  SealedAreWanted
  NotesKept
  KeyContinues
  ImplementsPinnedKey
CHECK_DEADLOCK FALSE

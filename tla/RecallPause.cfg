SPECIFICATION RecorderSpec
CONSTANTS
  Windows = {"mine", "secret"}
  SecretWindow = "secret"
  PowerLevels = {"ac", "low"}
  EntryLimit = 1
  MaxMoments = 1
  MaxChanges = 1
PROPERTY
  PauseEnds
CHECK_DEADLOCK FALSE

CONSTANTS
  Crc = crc
  Settings = settings
  ObjectRows = 3
  Generations = 8
  Signature = signature
  Garbage = garbage
  LegacyRows = {}
  None = none
  MaxCrashes = 1
SPECIFICATION Spec
INVARIANT CrashFindsLastEntry

CONSTANTS
  Crc = crc
  Settings = settings
  ObjectRows = 3
  Generations = 8
  Signature = signature
  Garbage = garbage
  LegacyRows = {0, 3, 5}
  None = none
  MaxCrashes = 2
SPECIFICATION Spec
INVARIANTS TypeOK GenerationsFollowRotation  SavedUpToKey 
PROPERTY NewestIsKept

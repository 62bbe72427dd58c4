CONSTANTS
  DayLength = 1440
  TimestampModulus = 71582788
  Moments = {0, 120, 1439}
  Offsets <- MCOffsets
  Zones <- MCZones
SPECIFICATION ZoneSpec
INVARIANT LocalTimeIsInZone

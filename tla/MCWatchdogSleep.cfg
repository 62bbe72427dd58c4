CONSTANTS
  BeatsPerSecond = 3
  SecondsPerMinute = 5
  ShortPeriod = 6
  LongPeriod = 11
  SuspendAfter = 4
  PassBeats = 3
SPECIFICATION WatchdogSpec
INVARIANT CoversLongestSleep

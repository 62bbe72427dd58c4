CONSTANTS
  BeatsPerSecond = 3
  SecondsPerMinute = 5
  ShortPeriod = 6
  LongPeriod = 11
  SuspendAfter = 4
  PassBeats = 3
  MinuteSeconds = 6
  HourMinutes = 3
  Hours = 2
  FieldWidth = 8
  HeartbeatLimit = 3
  BootWindow = 2
  MaxBoots = 3
  CountModulus = 6
  FastTickModulus = 12
  IdleTimeout = 7
  AuthWindow = 4
  PassTicks = 2
  Uploads = {"a", "b", "c"}
  TransferObjects = {"Settings", "Activity"}
  ObjectOf <- MCObjectOf
  Ends <- MCEnds
  None = None
  SequenceModulus = 3
  Lag = 1
  MaxSent = 4
  RxTimeout = 1
  DutyWindow = 1
  MaxInWindow = 1
  AuthorizationTime = 1
  MaxFrameLen = 5
  Melodies <- MCMelodies
  MaxPairs = 5
  Notes = 4
  tick = tick
  mode = mode
  alarm = alarm
  Event <- MCEvent
  TickEvent = tick
  Empty = empty
  Capacity = 3
  MaxPosts = 8
  DebounceSamples = 3
  LongTicks = 3
  ReallyLongTicks = 5
  TickModulus = 7
  IdleSuspend = 4
SPECIFICATION MCSpec
INVARIANTS TypesOK    
   SuspendedOnlyAtRest 
PROPERTIES HangIsCut  SafeStateForQuickBoots ImplementsStore FramesAdvance
  ImplementsFifo SteadyLevelIsAccepted

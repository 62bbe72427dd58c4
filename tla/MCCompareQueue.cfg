CONSTANTS
  Slots = 2
  Minute = 2
  Day = 4
  Year = 8
  Years = 2
  Horizon = 5
SPECIFICATION Spec
INVARIANTS TypeOK NoSlotIsLate ArmedForNearest
PROPERTY  NotBeforeItsTime

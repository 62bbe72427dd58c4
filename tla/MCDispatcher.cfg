CONSTANTS
  Event <- FaceEvent
  Tick = "Tick"
  Capacity = 1
  NumFaces = 3
  Secondary = 2
  CountdownFace = 1
  TomatoFace = 2
  Selections = 2
  Modulus <- TwoFields
  Weight <- TwoFieldsWeight
  DefaultLeft = 2
  TomatoLengths = {2}
  Minute = 2
  MaxNow = 5
SPECIFICATION Spec
INVARIANTS TypeOK PendingRunIsScheduled SettingOnlyOnScreen NoticedWithinAMinute

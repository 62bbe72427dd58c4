CONSTANTS
  Event <- FaceEvent
  Tick = "Tick"
  Capacity = 1
  NumFaces = 3
  Secondary = 2
  CountdownFace = 1
  TomatoFace = 2
  Selections = 1
  Modulus <- OneField
  Weight <- OneFieldWeight
  DefaultLeft = 1
  TomatoLengths = {2}
  Minute = 2
  MaxNow = 2
SPECIFICATION FairSpec
PROPERTY DueTaskRuns

SPECIFICATION Safety
CONSTANTS
  p1 = p1
  p2 = p2
  f1 = f1
  f2 = f2
  m1 = m1
  m2 = m2
  NoModel = NoModel
  NoFrame = NoFrame
  Plugins <- TwoPlugins
  HasFile <- OnePlugin
  Frames <- OneFrame
  Models <- TwoModels
  ModelOf <- OwnModel
  Pinned = NoModel
  MaxFaults = 1
  Patient = TRUE
INVARIANTS ServedIsCurrent ReadyModelOnDisk

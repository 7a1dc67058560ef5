SPECIFICATION Spec
CONSTANTS
  p1 = p1
  p2 = p2
  f1 = f1
  f2 = f2
  m1 = m1
  m2 = m2
  NoModel = NoModel
  NoFrame = NoFrame
  Plugins <- OnePlugin
  HasFile <- OnePlugin
  Frames <- TwoFrames
  Models <- TwoModels
  ModelOf <- OwnModel
  Pinned = m2
  MaxFaults = 1
  Patient = FALSE
INVARIANTS TypeOK AnswerIsForThisFrame ReplyMatchesRequest OneRequestInFlight ServedIsCurrent
PROPERTY ImplementsDetectApi

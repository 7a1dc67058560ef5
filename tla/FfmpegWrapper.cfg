SPECIFICATION WrapperSpec
CONSTANTS
  Commands <- ShortCommands
  Numbers <- SomeNumbers
CHECK_DEADLOCK FALSE
INVARIANTS OthersPassThrough OnlyDetectIsTouched FramesKeepTheirSize

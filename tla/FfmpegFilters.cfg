SPECIFICATION WrapperSpec
CONSTANTS
  Commands <- ShortCommands
  Numbers <- SomeNumbers
CHECK_DEADLOCK FALSE
INVARIANT NoFilterIsLost

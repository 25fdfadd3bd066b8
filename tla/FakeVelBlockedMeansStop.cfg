SPECIFICATION FairFakeVelSpec
CONSTANTS
  Timeout = 2
  Backlog = 2
  NoCommand = NoCommand
PROPERTY
  BlockedMeansStop
CHECK_DEADLOCK FALSE

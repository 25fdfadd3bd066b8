SPECIFICATION MCSpec
CONSTANTS
  NumPackets = 4
  len <- MCLen
  SofBytes <- MCSofBytes
  DebugPackets = {3}
  Backlog = 8
  MaxStrikes = 2
  MaxFaults = 3
  NumFrames = 3
  FrameSize = 5
  KeepSize = 6
  Starts <- MCStarts
  Seconds <- MCSeconds
  LineSize = 10
  MaxDamage = 2
  GimbalCommands <- MCGimbalCommands
  FullTurn = 12
  Commands <- MCCommands
  NodeParameters <- MCParameters
  Received <- MCReceived
  JointCommands <- MCJointCommands
  Detectors <- MCDetectors
  MaxStray = 1
  MaxRestarts = 1
CHECK_DEADLOCK FALSE
INVARIANTS
  LostForAReason
  OneLateFrame
  BridgeRecovers
  ColorIsCurrent
PROPERTIES
  ImplementsStream
  LinkRecovers
  LinkShutsDown
  GimbalSweeps
  LastCommandIsSent

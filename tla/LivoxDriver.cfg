SPECIFICATION MCSpec
CONSTANTS
  p1 = p1
  p2 = p2
  Payloads <- MCPayloads
  NoPayload = NoPayload
  size = 4
  IdxRange = 8
  lidar_count = 1
  Capacity = 2
  s1 = s1
  s2 = s2
  Sensors <- MCSensors
  PerMs = 1
  Interval = 3
  Horizon = 12
  MaxQueue = 1
  MaxCloud = 12
  MaxLost = 1
  Never = Never
  mid360 = mid360
  stranger = stranger
  other = other
  Lidar = {mid360, stranger, other}
  Configured = {mid360}
  Settings = {"data_type", "scan_pattern"}
  wanted <- MCWanted
  kMaxSourceLidar = 2
  MaxChanges = 3
INVARIANTS
  NoLostWakeup
  FramesOnTime
  SampledIsConfigured
PROPERTIES
  FifoSpec
  PacketsFlow
  ShutdownCompletes
  PointsAreSent
  LidarsAreSampled

SPECIFICATION MCSpec
CONSTANTS
  MaxTime = 4
  Offsets <- MCOffsets
  MaxScans = 3
  MAX_INI_COUNT = 1
  init_map_size = 2
  Turn = 3
  Rings = {r1, r2}
  point_filter_num = 2
  MaxPoints = 5
  NaN = NaN
  NoYaw = NoYaw
  None = None
  Scans <- MCScans
  Nodes = {n1, n2, n3}
  NearbyTypes = {0, 6, 18, 26}
  resolution_ = 4
  capacity_ = 3
  max_range = 9
  NUM_MATCH_POINTS = 2
  filter_size_map_min = 2
  Places = 3
  Mounts <- MCMounts
  MaxMoves = 1
  MapMount = 0
  InitialPoses = {1}
  Handles = {1, 2}
  Files <- MCFiles
  DataTypes = {"high", "low", "spherical"}
  Scene <- MCScene
  dot_num = 2
  Transfers = {"pcd2", "custom", "pcl", "all"}
  kMaxDevices = 2
  RingSize = 1
  OffsetRange = 8
  Missing = Missing
CHECK_DEADLOCK FALSE
INVARIANTS
  PublishedInPlace
  OffsetsAreTimes
  NeighboursAreNearest
  PoseIsTrue
PROPERTIES
  FilterGoesForward
  ScansAreProcessed

SPECIFICATION SetupSpec
CONSTANTS
  mid360 = mid360
  stranger = stranger
  other = other
  Lidar = {mid360, stranger, other}
  Configured = {mid360}
  Settings = {"data_type", "scan_pattern"}
  wanted <- MCWanted
  kMaxSourceLidar = 2
  MaxChanges = 3
INVARIANT
  OnlyUserDefined
CHECK_DEADLOCK FALSE

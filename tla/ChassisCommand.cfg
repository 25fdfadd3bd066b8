SPECIFICATION FairChainSpec
CONSTANTS
  x = x
  y = y
  Goals = {g1}
  Points <- MCPoints
  None = None
  HitPoints <- OneHitPoints
  hp_threshold_low = 150
  hp_threshold_high = 380
  Progress <- MCProgress
  Velocities <- MCVelocities
  target_x = x
  target_y = y
  waypoints_to_x <- NoWaypoints
  waypoints_to_y <- NoWaypoints
  FaultKinds <- NoFaults
  MaxFaults = 0
  TopicDepth = 2
  flag_wz_switch_threshold = 3
PROPERTIES
  MatchReachesChassis
  ArrivalReachesChassis

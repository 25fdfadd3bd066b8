SPECIFICATION FairSpec
CONSTANTS
  g1 = g1
  g2 = g2
  g3 = g3
  x1 = x1
  x2 = x2
  y1 = y1
  y2 = y2
  Goals = {g1, g2}
  Points <- MCPoints
  None = None
  hp_threshold_low = 150
  hp_threshold_high = 380
  Progress <- LiveProgress
  target_x = x2
  target_y = y2
  waypoints_to_x <- MCWaypointsX
  waypoints_to_y <- NoWaypoints
  HitPoints <- TwoHitPoints
  Velocities <- MCStill
  FaultKinds <- Refusals
  MaxFaults = 1
PROPERTIES
  RetreatCompletes

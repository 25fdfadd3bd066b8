SPECIFICATION MCSpec
CONSTANTS
  Plans <- MCPlans
  Obstructions <- MCObstructions
  SearchDist = 3
  HalfX = 2
  HalfY = 4
  MaxLag = 1
  MinLookahead = 1
  MaxLookahead = 2
  Samples = 3
  MaxSlips = 1
  MaxPlans = 2
  Timeout = 2
  Backlog = 2
  NoCommand = NoCommand
  Rays = 8
  BackupDist = 2
  NoAngle = NoAngle
  Local <- MCLocal
  Ext <- MCExt
  LocalRadius = 4
  World <- MCWorld
  Hideable <- MCHideable
  Road = {4, 5}
  ClearingDistances = {2}
  Periods = {1, 3}
  MaxScans = 2
  Layers <- MCLayers
  Objects <- MCObjects
  Footprint <- MCFootprint
  Track <- MCTrack
  SizeX = 5
  SizeZ = 4
  Reach = 4
  JoyMessages <- MCJoy
  Modes <- MCModes
  ScaleChassis <- MCChassis
  ScaleGimbal <- MCGimbal
  QueueSize = 1
  MaxTime = 2
  Inputs <- MCInputs
  Converters <- MCConverters
  Infinity = 99
  Buffered = 1
  MaxFailures = 1
  MaxChanges = 2
  GoalValues = {0, 4, 6}
  MaxStops = 1
INVARIANTS
  MapFollowsWorld
  ReleaseStops
  StopsForObstacles
  TurnedAsComputed
  BacksIntoFreeSpace
  NearTerrainIsKept
PROPERTIES
  PlanIsFollowed
  NoBlindRing
  SubscriberIsServed
  PatrolGoesOn
CHECK_DEADLOCK FALSE

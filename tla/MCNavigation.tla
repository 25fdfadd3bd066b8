---------------------------- MODULE MCNavigation ----------------------------
(***************************************************************************)
(* Eight components of the navigation that share no variable, checked in   *)
(* one run: a behaviour is one of a single component, named by part, while *)
(* the others stay as they begin.                                          *)
(***************************************************************************)
EXTENDS PursuitController, FakeVelTransform, BackUpFreeSpace, TerrainAnalysis,
        IntensityVoxelLayer, TeleopTwistJoy, ScanConversion, SimpleNav

VARIABLE part

\* With a target frame, rays that do not divide the circle; without, rays that do.
MCConverter ==
  [node |-> "pointcloud_to_laserscan", target_frame |-> TRUE,
   angle_min |-> -4, angle_max |-> 4, angle_increment |-> 3,
   min_height |-> 0, max_height |-> 2, min_intensity |-> 1, max_intensity |-> 4,
   range_min |-> 1, range_max |-> 8, use_inf |-> TRUE, inf_epsilon |-> 1]
MCConverters ==
  {MCConverter, [MCConverter EXCEPT !.target_frame = FALSE, !.angle_increment = 2, !.use_inf = FALSE],
   [MCConverter EXCEPT !.node = "laserscan_to_pointcloud"]}

allVars == <<part, pursuitVars, fakeVars, backUpVars, terrainVars, gridVars, teleopVars, scanVars, patrolVars>>

MCInit ==
  /\ part \in {"pursuit", "fakevel", "backup", "terrain", "voxels", "teleop", "scan", "patrol"}
  /\ PursuitInit /\ FakeInit /\ BackUpInit /\ TerrainInit /\ GridInit /\ TeleopInit /\ ScanInit
  /\ PatrolInit
  /\ part # "backup" => twist = "stop"
  /\ part # "voxels" => layer.enabled /\ ~layer.use_footprint_filter /\ robot_x = 1 /\ objects = {}
  /\ part # "teleop" => mode.control_mode = "auto_control" /\ ~sent_disable_msg_
  /\ part # "scan" => converter = MCConverter /\ seen = <<>>
  /\ part # "patrol" => goals_ = 0 /\ loop_patrol_ /\ server_up
  /\ pos = 4

InPursuit ==
  part = "pursuit" /\ UNCHANGED <<part, fakeVars, backUpVars, terrainVars, gridVars, teleopVars, scanVars, patrolVars>>
InFakeVel ==
  part = "fakevel" /\ UNCHANGED <<part, pursuitVars, backUpVars, terrainVars, gridVars, teleopVars, scanVars, patrolVars>>
InBackUp ==
  part = "backup" /\ UNCHANGED <<part, pursuitVars, fakeVars, terrainVars, gridVars, teleopVars, scanVars, patrolVars>>
InTerrain ==
  part = "terrain" /\ UNCHANGED <<part, pursuitVars, fakeVars, backUpVars, gridVars, teleopVars, scanVars, patrolVars>>
InVoxels ==
  part = "voxels" /\ UNCHANGED <<part, pursuitVars, fakeVars, backUpVars, terrainVars, teleopVars, scanVars, patrolVars>>
InTeleop ==
  part = "teleop" /\ UNCHANGED <<part, pursuitVars, fakeVars, backUpVars, terrainVars, gridVars, scanVars, patrolVars>>
InPatrol ==
  part = "patrol" /\ UNCHANGED <<part, pursuitVars, fakeVars, backUpVars, terrainVars, gridVars, teleopVars, scanVars>>
InScan ==
  part = "scan" /\ UNCHANGED <<part, pursuitVars, fakeVars, backUpVars, terrainVars, gridVars, teleopVars, patrolVars>>

MCNext ==
  \/ InPursuit /\ PursuitNext
  \/ InFakeVel /\ FakeVelNext
  \/ InBackUp /\ BackUpNext
  \/ InTerrain /\ TerrainNext
  \/ InVoxels /\ GridNext
  \/ InTeleop /\ TeleopNext
  \/ InScan /\ ScanNext
  \/ InPatrol /\ PatrolNext

\* PursuitFairness, FakeVelFairness, ScanFairness and PatrolFairness.  No two parts ever run,
\* so that one formula can ask for the fairness of an action of each.
MCFairness ==
  /\ WF_allVars((InPursuit /\ Cycle) \/ (InFakeVel /\ PublishCmdVel) \/ (InScan /\ Listens)
                \/ (InPatrol /\ Executor))
  /\ WF_allVars((InPursuit /\ CarryOut) \/ (InFakeVel /\ CmdVelCallback) \/ (InScan /\ InputComes)
                \/ (InPatrol /\ Server))
  /\ WF_allVars((InFakeVel /\ LocalPlanCallback) \/ (InScan /\ TakeInput))
  /\ WF_allVars((InFakeVel /\ Tick) \/ (InScan /\ Callback))
  /\ WF_allVars(InFakeVel /\ \E blocked \in BOOLEAN : ControllerCycle(blocked))

MCSpec == MCInit /\ [][MCNext]_allVars /\ MCFairness

-----------------------------------------------------------------------------
Straight == [i \in 1..6 |-> <<i - 1, 0>>]
Hairpin  == <<<<0, 0>>, <<1, 0>>, <<2, 0>>, <<3, 0>>,
              <<3, 1>>, <<2, 1>>, <<1, 1>>, <<0, 1>>>>
Corner   == <<<<0, 0>>, <<1, 0>>, <<2, 0>>, <<2, -1>>, <<2, -2>>, <<3, -2>>>>
MCPlans  == {Straight, Hairpin, Corner}

MCObstructions == {{}, {<<3, 0>>, <<4, 0>>, <<2, 1>>, <<1, 1>>, <<0, 1>>}}

\* One unit is half a voxel of terrain_analysis and a quarter of one of
\* terrain_analysis_ext; heights are in units of their own.
MCLocal == [size |-> 2, half |-> 4, gather |-> 3, cell |-> 1, cells |-> 5,
            disRatio |-> 2, minRelZ |-> -4, maxRelZ |-> 2, decayTime |-> 4,
            noDecayDis |-> 0, clearingDis |-> 1, quantile |-> 5,
            minDyObsRelZ |-> -1, minDyObsDis |-> 0, minBlockPointNum |-> 2,
            vehicleHeight |-> 4]
MCExt == [size |-> 4, half |-> 4, gather |-> 3, cell |-> 2, cells |-> 5,
          disRatio |-> 2, minRelZ |-> -4, maxRelZ |-> 2, decayTime |-> 4,
          noDecayDis |-> 0, clearingDis |-> 1, vehicleHeight |-> 4]

\* The ground with a hole, an obstacle that can go away, a low one, one that only
\* the slack admits, two beams to pass below, and one behind that has no ground.
Obstacle   == [at |-> 9, z |-> 1]
MCHideable == {Obstacle}
MCWorld    ==
  [at : 7..11, z : {-1}]
    \cup {[at |-> 6, z |-> -3], Obstacle, [at |-> 7, z |-> 0], [at |-> 8, z |-> 2],
          [at |-> 6, z |-> 1], [at |-> 9, z |-> 3], [at |-> 2, z |-> 1]}

\* A local map, a global one and one that is switched off; a wall on each side.
LocalLayer ==
  [enabled |-> TRUE, rolling_window |-> TRUE, use_footprint_filter |-> FALSE,
   footprint_padding |-> 1, mark_threshold |-> 0, origin_z |-> 0,
   min_obstacle_height |-> 1, max_obstacle_height |-> 4,
   min_obstacle_intensity |-> 2, max_obstacle_intensity |-> 4,
   min_range |-> 0, max_range |-> 4, raytrace_max_range |-> 3]
MCLayers ==
  {LocalLayer, [LocalLayer EXCEPT !.enabled = FALSE],
   [LocalLayer EXCEPT !.use_footprint_filter = TRUE, !.min_obstacle_height = 0,
                      !.max_obstacle_intensity = 3, !.max_range = 9, !.raytrace_max_range = 9]}
MCObjects   == {[x |-> -2, z |-> 2, intensity |-> 3], [x |-> 3, z |-> 1, intensity |-> 4]}
MCFootprint == <<<<1, 0>>, <<0, 1>>, <<-1, 0>>, <<0, -1>>>>
MCTrack     == 0..2

\* Nothing held, driving back while turning, and the turbo button.
MCReleased == [enable |-> FALSE, turbo |-> FALSE, x |-> 1, y |-> 0, turn |-> 0, yaw |-> 0, shoot |-> 0]
MCJoy ==
  {MCReleased, [MCReleased EXCEPT !.enable = TRUE, !.x = -1, !.turn = 1],
   [MCReleased EXCEPT !.turbo = TRUE, !.x = 0, !.yaw = 1, !.shoot = -1]}
MCModes ==
  {[control_mode |-> "auto_control", require_enable_button |-> TRUE, inverted_reverse |-> FALSE],
   [control_mode |-> "manual_control", require_enable_button |-> TRUE, inverted_reverse |-> TRUE],
   [control_mode |-> "manual_control", require_enable_button |-> FALSE, inverted_reverse |-> FALSE]}
MCChassis ==
  [normal |-> [x |-> 5, y |-> 5, yaw |-> 6], turbo |-> [x |-> 8, y |-> 8, yaw |-> 12]]
MCGimbal == [normal |-> 5, turbo |-> 7]

\* An empty cloud, and two that have points to reject and rays with several.
Pt(angle, range) == [angle |-> angle, range |-> range, z |-> 1, intensity |-> 1, nan |-> FALSE]
MCInputs ==
  [pointcloud_to_laserscan |->
     {<<>>,
      <<Pt(-3, 4), Pt(-2, 3), Pt(3, 6), [Pt(0, 5) EXCEPT !.nan = TRUE], [Pt(0, 2) EXCEPT !.z = 9]>>,
      <<Pt(4, 3), Pt(1, 2), Pt(0, 4), Pt(-4, 0), Pt(-3, 9), [Pt(-2, 1) EXCEPT !.intensity = 0]>>},
   laserscan_to_pointcloud |-> {<<3, 9, 0>>, <<9, 2, 2>>}]
=============================================================================

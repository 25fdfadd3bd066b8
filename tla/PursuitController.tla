------------------------- MODULE PursuitController -------------------------
(***************************************************************************)
(* The local planner, OmniPidPursuitController: it prunes the global plan   *)
(* up to the pose nearest to the robot, picks a carrot on what is left,     *)
(* turns in place until the chassis heads for it, drives, and stops when a  *)
(* sampled pose of the local plan is blocked.                              *)
(*                                                                         *)
(* Poses are points of a grid, a plan is a sequence of points one apart, a  *)
(* heading is a number of eighth turns, and a control period moves the      *)
(* robot by one point or turns it by an eighth, which is more than          *)
(* use_rotate_to_heading_treshold_.  How fast it drives (the two PIDs, the  *)
(* limits at curves and near the goal) and interpolation between two poses  *)
(* are left out.                                                           *)
(***************************************************************************)
EXTENDS Integers, Sequences, FiniteSetsExt

CONSTANTS Plans,            \* plans that the planner may send
          SearchDist,       \* max_robot_pose_search_dist_
          HalfX, HalfY,     \* half the sides of the local costmap
          MinLookahead,     \* min_lookahead_dist_
          MaxLookahead,     \* max_lookahead_dist_
          Samples,          \* sample_points
          MaxLag,           \* bound on how far the costmap lags behind the robot
          Obstructions,     \* sets of points that obstacles may cover
          MaxPlans,         \* bound on the plans set
          MaxSlips          \* bound on displacements of the robot

ASSUME PursuitAssumption ==
  /\ \A plan \in Plans : plan \in Seq(Int \X Int) /\ plan # <<>>
  /\ SearchDist \in Nat /\ HalfX \in Nat /\ HalfY \in Nat /\ Samples \in Nat \ {0}
  /\ MinLookahead \in Nat /\ MaxLookahead \in Nat
  /\ MaxLag \in Nat /\ MaxPlans \in Nat /\ MaxSlips \in Nat

VARIABLES global_plan,      \* global_plan_, or << >> when none was set
          robot,            \* where the robot is
          chassis_yaw,      \* where it heads
          obstacles,        \* lethal points of the local costmap
          centre,           \* where the robot was when the costmap was updated
          cmd_vel,          \* the last command
          lookups,          \* which lookup failed for it, "none" when all are fine
          driving,          \* the command carried out last was to drive
          plans,            \* plans set so far
          slips             \* displacements so far

pursuitVars == <<global_plan, robot, chassis_yaw, obstacles, centre, cmd_vel,
                 lookups, driving, plans, slips>>

Zero    == [kind |-> "stop"]
Pending == [kind |-> "pending"]     \* the last command was carried out

Dist2(p, q) == (p[1] - q[1]) * (p[1] - q[1]) + (p[2] - q[2]) * (p[2] - q[2])

PursuitInit ==
  /\ global_plan = <<>>
  /\ robot = <<0, 0>>
  /\ chassis_yaw = 0
  /\ obstacles = {} /\ centre = robot
  /\ cmd_vel = Pending
  /\ lookups = "none"
  /\ driving = FALSE
  /\ plans = 0
  /\ slips = 0

-----------------------------------------------------------------------------
(* transformGlobalPlan and what is computed from its result.               *)

\* The first of the poses within the search distance that is nearest.
NearestPose(plan) ==
  LET near == 1..(IF Len(plan) <= SearchDist THEN Len(plan) ELSE SearchDist + 1)
  IN  CHOOSE i \in near :
        /\ \A j \in near : Dist2(plan[i], robot) <= Dist2(plan[j], robot)
        /\ \A j \in 1..i - 1 : Dist2(plan[j], robot) # Dist2(plan[i], robot)

\* A variant: the part already passed is kept.
Pruned_Nothing(plan) == plan

Pruned(plan) == SubSeq(plan, NearestPose(plan), Len(plan))

\* getCostmapMaxExtent(): half the longer side.
Extent == IF HalfX >= HalfY THEN HalfX ELSE HalfY

\* The poses up to the first one farther away than that.
LocalPlan(plan) ==
  LET outside == {i \in 1..Len(plan) : Dist2(plan[i], robot) > Extent * Extent}
  IN  IF outside = {} THEN plan ELSE SubSeq(plan, 1, Min(outside) - 1)

\* The distance grows with the speed, and is least when the robot stands.
LookAheadDistances ==
  IF driving THEN {MinLookahead, MaxLookahead} ELSE {MinLookahead}

LookAheadPoint(lookahead, local) ==
  LET far == {i \in 1..Len(local) : Dist2(local[i], robot) >= lookahead * lookahead}
  IN  IF far = {} THEN local[Len(local)] ELSE local[Min(far)]

Sign(n) == IF n > 0 THEN 1 ELSE IF n < 0 THEN -1 ELSE 0

Compass == <<<<1, 0>>, <<1, 1>>, <<0, 1>>, <<-1, 1>>,
             <<-1, 0>>, <<-1, -1>>, <<0, -1>>, <<1, -1>>>>

\* atan2 of the carrot, in eighths; 0 when the robot stands on it.
Direction(p) ==
  LET step == <<Sign(p[1] - robot[1]), Sign(p[2] - robot[2])>>
  IN  IF step = <<0, 0>> THEN 0 ELSE CHOOSE d \in 0..7 : Compass[d + 1] = step

\* The poses that are looked up in the costmap, by their index from 0; the
\* start of the plan, where the robot stands, is skipped.  A variant: the
\* samples are a whole number of poses apart.
SampleIndices_StepsOfWhole(size) == {i * (size \div Samples) : i \in 0..Samples - 1} \ {0}

SampleIndices(size) == {(i * size) \div Samples : i \in 0..Samples - 1} \ {0}

\* worldToMap: the costmap rolls with the robot, at a rate of its own.
OnCostmap(p) ==
  /\ p[1] - centre[1] \in -HalfX..HalfX
  /\ p[2] - centre[2] \in -HalfY..HalfY

\* When the transforms of the plan or of the samples fail, every sample is the
\* default pose, the origin.  The first sample that is not on the costmap ends
\* the search: what comes after it is not looked at.
CollisionDetected(local, failed) ==
  LET Sample(i) == IF failed \in {"plan", "costmap"} THEN <<0, 0>> ELSE local[i + 1]
      samples   == SampleIndices(Len(local))
  IN  \E i \in samples :
        /\ Sample(i) \in obstacles
        /\ \A j \in samples : j <= i => OnCostmap(Sample(j))

\* The heading error in -3..4; the yaw counts as 0 when its lookup fails.
HeadingError(carrot, failed) ==
  LET error == (Direction(carrot) - (IF failed = "yaw" THEN 0 ELSE chassis_yaw)) % 8
  IN  IF error > 4 THEN error - 8 ELSE error

Command(local, carrot, failed) ==
  LET error == HeadingError(carrot, failed)
  IN  IF CollisionDetected(local, failed) THEN Zero
      ELSE IF error # 0 THEN [kind |-> "rotate", turn |-> Sign(error)]
      ELSE [kind |-> "drive", to |-> carrot]

-----------------------------------------------------------------------------
\* The poses in the frame of the robot, all of them its own when their
\* transforms fail.
TransformedPlan(pruned, failed) ==
  IF failed = "plan" THEN [i \in DOMAIN LocalPlan(pruned) |-> robot]
  ELSE LocalPlan(pruned)

\* An exception leaves the controller server with a zero command.  The plan
\* is pruned before the local plan is found to be empty.
ComputeVelocityCommands(lookahead, failed) ==
  /\ cmd_vel = Pending
  /\ lookups' = failed
  /\ IF global_plan = <<>> \/ failed = "pose"
     THEN cmd_vel' = Zero /\ UNCHANGED global_plan
     ELSE \E pruned \in {Pruned(global_plan)} : \E local \in {TransformedPlan(pruned, failed)} :
            /\ global_plan' = pruned
            /\ IF local = <<>> THEN cmd_vel' = Zero
               ELSE \E carrot \in {LookAheadPoint(lookahead, local)} :
                      cmd_vel' = Command(local, carrot, failed)
  /\ UNCHANGED <<robot, chassis_yaw, obstacles, centre, driving, plans, slips>>

SetPlan(plan) ==
  /\ cmd_vel = Pending
  /\ plans < MaxPlans
  /\ Dist2(plan[1], robot) <= 1
  /\ global_plan' = plan
  /\ plans' = plans + 1
  /\ UNCHANGED <<robot, chassis_yaw, obstacles, centre, cmd_vel, lookups, driving,
                 slips>>

\* The costmap is updated at a rate of its own, so that the robot gets only so
\* far from where it was then.
CostmapFollows ==
  centre' = IF \A k \in 1..2 : robot'[k] - centre[k] \in -MaxLag..MaxLag
            THEN centre ELSE robot'

\* The chassis carries out a command, for one period.
CarryOut ==
  /\ cmd_vel # Pending
  /\ cmd_vel' = Pending
  /\ driving' = (cmd_vel.kind = "drive")
  /\ robot' = IF cmd_vel.kind = "drive"
              THEN <<robot[1] + Sign(cmd_vel.to[1] - robot[1]),
                     robot[2] + Sign(cmd_vel.to[2] - robot[2])>>
              ELSE robot
  /\ chassis_yaw' = IF cmd_vel.kind = "rotate"
                    THEN (chassis_yaw + cmd_vel.turn) % 8 ELSE chassis_yaw
  /\ CostmapFollows
  /\ UNCHANGED <<global_plan, obstacles, lookups, plans, slips>>

\* The robot is pushed or slips, and turns by a quarter.
Slip(dx, dy) ==
  /\ cmd_vel = Pending
  /\ slips < MaxSlips
  /\ slips' = slips + 1
  /\ robot' = <<robot[1] + dx, robot[2] + dy>>
  /\ chassis_yaw' = (chassis_yaw + 2) % 8
  /\ CostmapFollows
  /\ UNCHANGED <<global_plan, obstacles, cmd_vel, lookups, driving, plans>>

\* The local costmap is updated around the robot.
CostmapUpdates(points) ==
  /\ cmd_vel = Pending
  /\ points # obstacles \/ centre # robot
  /\ obstacles' = points /\ centre' = robot
  /\ UNCHANGED <<global_plan, robot, chassis_yaw, cmd_vel, lookups, driving, plans,
                 slips>>

\* A cycle in which every lookup succeeds.
Cycle ==
  \E lookahead \in LookAheadDistances : ComputeVelocityCommands(lookahead, "none")

PursuitNext ==
  \/ Cycle
  \/ CarryOut
  \/ \E lookahead \in LookAheadDistances, failed \in {"pose", "plan", "yaw", "costmap"} :
       ComputeVelocityCommands(lookahead, failed)
  \/ \E plan \in Plans : SetPlan(plan)
  \/ \E dx, dy \in -1..1 : Slip(dx, dy)
  \/ \E points \in Obstructions : CostmapUpdates(points)

PursuitSpec == PursuitInit /\ [][PursuitNext]_pursuitVars

\* The controller server runs at a fixed rate while it has a goal.
PursuitFairness == WF_pursuitVars(Cycle) /\ WF_pursuitVars(CarryOut)

FairPursuitSpec == PursuitSpec /\ PursuitFairness

-----------------------------------------------------------------------------
Arrived == global_plan # <<>> /\ robot = global_plan[Len(global_plan)]

\* The type invariant of this module.
PursuitTypeOK ==
  /\ chassis_yaw \in 0..7
  /\ obstacles \in Obstructions \cup {{}}
  /\ lookups \in {"none", "pose", "plan", "yaw", "costmap"}
  /\ driving \in BOOLEAN
  /\ plans \in 0..MaxPlans /\ slips \in 0..MaxSlips

\* When every lookup succeeds, an obstacle that covers as many successive
\* poses of the local plan as lie between two samples stops the robot, for
\* every length of the local plan: there is no gap in the sampling that is
\* larger.  Three things are not seen, and the property leaves them out: an
\* obstacle on fewer poses, between two samples; one on the first pose, where
\* the robot stands, which is skipped; and one behind a pose that is not on the
\* costmap (it lags behind the robot, or one side is shorter than the other),
\* because the search ends there.
StopsForObstacles ==
  cmd_vel # Pending /\ lookups = "none" /\ global_plan # <<>> =>
    LET local == LocalPlan(global_plan)
        n     == Len(local)
        gap   == (n + Samples - 1) \div Samples
    IN  (\E i \in 2..n - gap + 1 :
           /\ \A j \in i..i + gap - 1 : local[j] \in obstacles
           /\ \A j \in 2..i + gap - 1 : OnCostmap(local[j]))
          => cmd_vel = Zero

\* When the lookups succeed again and the way is free, the robot comes to the
\* end of its plan, wherever slips have left it and whatever part of the plan
\* had been pruned by then.
PlanIsFollowed ==
  <>[](lookups = "none" /\ obstacles = {} /\ global_plan # <<>>) => []<>Arrived
=============================================================================

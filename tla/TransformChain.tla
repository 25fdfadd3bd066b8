---------------------------- MODULE TransformChain ----------------------------
(***************************************************************************)
(* Where the robot is: point_lio gives the lidar in the frame in which it  *)
(* started, loam_interface moves this to the odom frame, the node          *)
(* sensor_scan_generation publishes odom -> base_footprint and             *)
(* small_gicp_relocalization map -> odom.  Each looks up how the lidar     *)
(* stands on the chassis, which turns with the gimbal.                     *)
(*                                                                         *)
(* A transform is an element of the integers modulo Places: composing is   *)
(* adding, inverting is negating.  base is the true place of the chassis   *)
(* in the map, mount that of the lidar on the chassis.  A message carries  *)
(* base and mount at its stamp, so that a lookup at the stamp can be       *)
(* answered.  Topics keep one message: a later one replaces it.            *)
(***************************************************************************)
EXTENDS Integers

CONSTANTS
  Places,   \* number of places
  Mounts,   \* how the lidar may stand on the chassis
  MaxMoves, \* bound on moves of the chassis and the gimbal
  MapMount, \* how it stood when the prior map was begun
  InitialPoses, \* places an operator may claim for the chassis
  None      \* no message, no transform

ASSUME ChainAssumption ==
  /\ Places \in Nat \ {0} /\ MaxMoves \in Nat
  /\ Mounts \subseteq 0 .. Places - 1 /\ MapMount \in Mounts
  /\ InitialPoses \subseteq 0 .. Places - 1 /\ None \notin 0 .. Places - 1

Place == 0 .. Places - 1
Plus(a, b) == (a + b) % Places
Minus(a, b) == (a - b) % Places

VARIABLES
  base, mount, moves,
  origin,                 \* where the lidar was when point_lio started, or None
  lioOdom, lioScan,       \* aft_mapped_to_init and cloud_registered
  base_frame_to_lidar_initialized_, tf_odom_to_lidar_odom_,
  lidarOdometry, registeredScan, gicpScan,
  tfOdomBase,             \* odom -> base_footprint: its pose, and what is true of it
  mapShift,               \* of the prior map once it is loaded, or None
  accumulated_cloud_,     \* the transforms that moved its scans to the odom frame
  scanSeen, result_t_, resultFrom, tfMapOdom

world == <<base, mount, moves>>
lioVars == <<origin, lioOdom, lioScan>>
loamVars == <<base_frame_to_lidar_initialized_, tf_odom_to_lidar_odom_, lidarOdometry, registeredScan>>
gicpVars == <<mapShift, accumulated_cloud_, scanSeen, result_t_, resultFrom, tfMapOdom>>
chainVars == <<world, lioVars, loamVars, gicpScan, tfOdomBase, gicpVars>>

ChainInit ==
  /\ base = 0 /\ mount \in Mounts /\ moves = 0
  /\ origin = None /\ lioOdom = None /\ lioScan = None
  /\ base_frame_to_lidar_initialized_ = FALSE
  /\ tf_odom_to_lidar_odom_ \in Place              \* tf2::Transform() sets nothing
  /\ lidarOdometry = None /\ registeredScan = None /\ gicpScan = None /\ tfOdomBase = None
  /\ mapShift = None /\ accumulated_cloud_ = {} /\ scanSeen = FALSE
  /\ result_t_ = 0 /\ resultFrom = "parameters" /\ tfMapOdom = None

\* The robot drives on to the next place, or the gimbal turns the lidar, or both.
Move ==
  /\ moves < MaxMoves /\ moves' = moves + 1
  /\ base' \in {base, Plus(base, 1)} /\ mount' \in Mounts /\ <<base, mount>> # <<base', mount'>>
  /\ UNCHANGED <<lioVars, loamVars, gicpScan, tfOdomBase, gicpVars>>

\* publish_odometry and publish_frame_world of point_lio, in the frame where it started
LioPublish ==
  LET start == IF origin = None THEN Plus(base, mount) ELSE origin
      msg   == [base |-> base, mount |-> mount, pose |-> Minus(Plus(base, mount), start)]
  IN  /\ origin' = start /\ lioOdom' = msg /\ lioScan' = msg
      /\ UNCHANGED <<world, loamVars, gicpScan, tfOdomBase, gicpVars>>

(***************************************************************************)
(* loam_interface.  The first lookup that succeeds decides, once, how the  *)
(* frame of point_lio lies in the odom frame; odometry that comes before   *)
(* is dropped, scans that come before are moved all the same.              *)
(***************************************************************************)
LoamOdometryCallback(found) ==
  LET known  == base_frame_to_lidar_initialized_
      offset == IF known THEN tf_odom_to_lidar_odom_ ELSE lioOdom.mount
  IN  /\ lioOdom # None
      /\ lioOdom' = None
      /\ IF ~known /\ ~found THEN UNCHANGED loamVars
         ELSE /\ base_frame_to_lidar_initialized_' = TRUE
              /\ tf_odom_to_lidar_odom_' = offset
              /\ lidarOdometry' = [lioOdom EXCEPT !.pose = Plus(offset, @)]
              /\ UNCHANGED registeredScan
      /\ UNCHANGED <<world, origin, lioScan, gicpScan, tfOdomBase, gicpVars>>

LoamPointCloudCallback ==
  LET scan == [base |-> lioScan.base, mount |-> lioScan.mount, moved |-> tf_odom_to_lidar_odom_,
               ready |-> base_frame_to_lidar_initialized_]
  IN  /\ lioScan # None
      /\ lioScan' = None
      /\ registeredScan' = scan /\ gicpScan' = [moved |-> scan.moved, ready |-> scan.ready]
      /\ UNCHANGED <<world, origin, lioOdom, base_frame_to_lidar_initialized_,
                     tf_odom_to_lidar_odom_, lidarOdometry, tfOdomBase, gicpVars>>

\* getTransform at the stamp of the scan: a lookup that fails is answered with the identity
GetTransform_Latest(found, scan) == IF found THEN mount ELSE 0

GetTransform(found, scan) == IF found THEN scan.mount ELSE 0

(***************************************************************************)
(* laserCloudAndOdometryHandler of sensor_scan_generation, on an odometry  *)
(* and a scan that need not have the same stamp.                           *)
(***************************************************************************)
LaserCloudAndOdometryHandler(found) ==
  LET chassis == GetTransform(found, registeredScan)
      paired  == lidarOdometry.base = registeredScan.base /\ lidarOdometry.mount = registeredScan.mount
  IN  /\ lidarOdometry # None /\ registeredScan # None
      /\ tfOdomBase' = [pose |-> Minus(lidarOdometry.pose, chassis), base |-> registeredScan.base,
                        exact |-> found /\ paired]
      /\ lidarOdometry' = None /\ registeredScan' = None
      /\ UNCHANGED <<world, lioVars, base_frame_to_lidar_initialized_,
                     tf_odom_to_lidar_odom_, gicpScan, gicpVars>>

(***************************************************************************)
(* small_gicp_relocalization.  The constructor waits for a lookup and      *)
(* takes the prior map as if the lidar stood now as it did at its start.   *)
(***************************************************************************)
LoadGlobalMap ==
  /\ mapShift = None
  /\ mapShift' = Minus(mount, MapMount)
  /\ UNCHANGED <<world, lioVars, loamVars, gicpScan, tfOdomBase, accumulated_cloud_,
                 scanSeen, result_t_, resultFrom, tfMapOdom>>

RegisteredPcdCallback ==
  /\ mapShift # None /\ gicpScan # None
  /\ gicpScan' = None /\ scanSeen' = TRUE
  /\ accumulated_cloud_' = accumulated_cloud_ \cup {gicpScan}
  /\ UNCHANGED <<world, lioVars, loamVars, tfOdomBase, mapShift, result_t_, resultFrom, tfMapOdom>>

\* The alignment may find the place of any of the scans, or not converge.
PerformRegistration(converged) ==
  /\ mapShift # None /\ accumulated_cloud_ # {}
  /\ IF converged
     THEN \E c \in accumulated_cloud_ :
            /\ result_t_' = Plus(Minus(origin, c.moved), mapShift)
            /\ resultFrom' = IF \A d \in accumulated_cloud_ : d.ready THEN "scans" ELSE "unready scans"
     ELSE UNCHANGED <<result_t_, resultFrom>>
  /\ accumulated_cloud_' = {}
  /\ UNCHANGED <<world, lioVars, loamVars, gicpScan, tfOdomBase, mapShift, scanSeen, tfMapOdom>>

PublishTransform ==
  /\ mapShift # None
  /\ tfMapOdom' = [pose |-> result_t_, from |-> resultFrom]
  /\ UNCHANGED <<world, lioVars, loamVars, gicpScan, tfOdomBase, mapShift, accumulated_cloud_,
                 scanSeen, result_t_, resultFrom>>

\* The lookup of the odom frame needs a scan, for its name, and odom -> base_footprint.
InitialPoseCallback(pose) ==
  /\ mapShift # None
  /\ IF scanSeen /\ tfOdomBase # None
     THEN result_t_' = Minus(pose, tfOdomBase.pose) /\ resultFrom' = "operator"
     ELSE UNCHANGED <<result_t_, resultFrom>>
  /\ UNCHANGED <<world, lioVars, loamVars, gicpScan, tfOdomBase, mapShift, accumulated_cloud_,
                 scanSeen, tfMapOdom>>

ChainNext ==
  \/ Move \/ LioPublish
  \/ (\E found \in BOOLEAN : LoamOdometryCallback(found) \/ LaserCloudAndOdometryHandler(found))
  \/ LoamPointCloudCallback
  \/ LoadGlobalMap \/ RegisteredPcdCallback \/ PublishTransform
  \/ (\E converged \in BOOLEAN : PerformRegistration(converged))
  \/ (\E pose \in InitialPoses : InitialPoseCallback(pose))

ChainSpec == ChainInit /\ [][ChainNext]_chainVars

(***************************************************************************)
(* With a map -> odom from a registration and an odom -> base_footprint    *)
(* whose lookups succeeded, the place of the chassis in the map is true,   *)
(* up to the shift with which the map was loaded, whatever the gimbal did  *)
(* meanwhile and whenever loam_interface made its one lookup.              *)
(***************************************************************************)
PoseIsTrue ==
  /\ tfMapOdom # None /\ tfOdomBase # None
  /\ tfMapOdom.from = "scans" /\ tfOdomBase.exact
  => Plus(tfMapOdom.pose, tfOdomBase.pose) = Plus(tfOdomBase.base, mapShift)
===============================================================================

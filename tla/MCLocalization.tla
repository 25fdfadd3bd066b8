--------------------------- MODULE MCLocalization ---------------------------
(***************************************************************************)
(* Five components between the points of the lidars and the place in the   *)
(* map that share no variable, checked in one run: a behaviour is one of a *)
(* single component, named by part, while the others stay as they begin.   *)
(***************************************************************************)
EXTENDS CloudMessages, LidarInertial, Preprocess, IVoxMap, TransformChain

VARIABLE part

allVars == <<part, cloudVars, inertialVars, preprocessVars, mapVars, chainVars>>

MCInit ==
  /\ part \in {"messages", "inertial", "preprocess", "map", "chain"}
  /\ CloudInit /\ InertialInit /\ PreprocessInit /\ MapInit /\ ChainInit
  /\ part # "messages" => /\ user_file = CHOOSE f \in Files : ~ParseSummaryInfo(f)
                          /\ transfer_format_ = "pcd2" /\ ~use_multi_topic_
                          /\ sends[1] = "high"
  /\ sends[2] = "spherical"
  /\ part # "inertial" => conf = CHOOSE c \in Configurations : TRUE
  /\ part # "preprocess" => handler = "avia"
  /\ part # "map" => nearby_type = 18
  /\ part # "chain" => mount = MapMount /\ tf_odom_to_lidar_odom_ = 0

InMessages ==
  part = "messages" /\ UNCHANGED <<part, inertialVars, preprocessVars, mapVars, chainVars>>
InInertial ==
  part = "inertial" /\ UNCHANGED <<part, cloudVars, preprocessVars, mapVars, chainVars>>
InPreprocess ==
  part = "preprocess" /\ UNCHANGED <<part, cloudVars, inertialVars, mapVars, chainVars>>
InMap == part = "map" /\ UNCHANGED <<part, cloudVars, inertialVars, preprocessVars, chainVars>>
InChain == part = "chain" /\ UNCHANGED <<part, cloudVars, inertialVars, preprocessVars, mapVars>>

MCNext ==
  \/ InMessages /\ CloudNext
  \/ InInertial /\ InertialNext
  \/ InPreprocess /\ PreprocessNext
  \/ InMap /\ MapNext
  \/ InChain /\ ChainNext

MCSpec ==
  /\ MCInit /\ [][MCNext]_allVars
  /\ WF_allVars(InInertial /\ Loop)
  /\ WF_allVars(InInertial /\ SampleArrives)

\* Voxels of four units and cells of two: points that share a voxel, that are
\* near by along an axis, an edge and a corner, and one far away.
MCScans ==
  {<<<<1, 1, 1>>, <<3, 1, 1>>>>, <<<<5, 1, 1>>, <<-1, -1, -1>>>>, <<<<1, 5, 5>>, <<13, 1, 1>>>>,
   <<<<15, 1, 3>>, <<3, 3, 1>>, <<1, 3, 3>>>>}
MCOffsets == {0, 1}
MCMounts == {0, 1}
-----------------------------------------------------------------------------
MCScene == <<<<30, 0>>, <<0, 29>>, <<-50, 0>>, <<0, 19>>>>

(* More lidars than devices, entries without an address or a setting, one  *)
(* lidar twice, no entries, and no summary.                                *)
MCFiles == {
  [lidar_type |-> 8, lidar_configs |-> <<
     [ip |-> 1, pcl_data_type |-> "low",
      extrinsic_parameter |-> [x |-> -15, y |-> -28, yaw |-> 1]],
     [pcl_data_type |-> "low"],
     [ip |-> 2, pcl_data_type |-> "spherical", extrinsic_parameter |-> [x |-> -7, yaw |-> 3]],
     [ip |-> 3, extrinsic_parameter |-> [y |-> 5]]>>],
  [lidar_type |-> 8, lidar_configs |-> <<
     [ip |-> 1, pcl_data_type |-> "low", extrinsic_parameter |-> [x |-> 40]],
     [ip |-> 1, extrinsic_parameter |-> [x |-> 15, yaw |-> 2]]>>],
  [lidar_type |-> 8],
  [lidar_configs |-> <<[ip |-> 1]>>]}
==============================================================================

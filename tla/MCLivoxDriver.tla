---------------------------- MODULE MCLivoxDriver ----------------------------
(***************************************************************************)
(* Four components of livox_ros_driver2 that share no variable, checked in *)
(* one run: a behaviour is one of a single component, named by part, while *)
(* the others stay as they begin.                                          *)
(***************************************************************************)
EXTENDS LidarQueue, LidarHandoff, PubHandler, MCLidarSetup

CONSTANTS p1, p2, s1, s2

VARIABLE part

allVars == <<part, ringAndThreads, handoffVars, pubVars, setupVars>>

MCInit ==
  /\ part \in {"ring", "handoff", "frames", "setup"}
  /\ RingInit /\ HandoffInit /\ PubInit /\ SetupInit
  /\ part # "frames" => synced = {}

InRing == part = "ring" /\ UNCHANGED <<part, handoffVars, pubVars, setupVars>>
InHandoff == part = "handoff" /\ UNCHANGED <<part, ringAndThreads, pubVars, setupVars>>
InFrames == part = "frames" /\ UNCHANGED <<part, ringAndThreads, handoffVars, setupVars>>
InSetup == part = "setup" /\ UNCHANGED <<part, ringAndThreads, handoffVars, pubVars>>

(* The framing stops after Uninit, and no lidar has to show up again.      *)
Stopped == (part \in {"setup"} \/ (part = "frames" /\ is_quit_)) /\ UNCHANGED allVars

MCNext ==
  \/ InRing /\ RingNext
  \/ InHandoff /\ HandoffNext
  \/ InFrames /\ PubNext
  \/ InSetup /\ SetupNext
  \/ Stopped

(* HandoffFairness, PubFairness and what SetupFairness says of the lidar   *)
(* in the file.  No two parts ever run, so that one formula can ask for    *)
(* the fairness of an action of each.                                      *)
MCFairness ==
  /\ \A c \in Channels : WF_allVars(InHandoff /\ Store(c)) /\ WF_allVars(InHandoff /\ Poll(c))
  /\ WF_allVars((InHandoff /\ Destroy) \/ (InFrames /\ Tick) \/ (InSetup /\ InfoStep))
  /\ WF_allVars(InFrames /\ RawDataProcess)
  /\ WF_allVars(InFrames /\ LeaveLoop)
  /\ SF_allVars(\/ InHandoff /\ PushPacket("pcd", 1)
                \/ InFrames /\ PointData(s1)
                \/ InSetup /\ SettingSucceeds(mid360, "data_type"))
  /\ SF_allVars(\/ InHandoff /\ PushPacket("imu", 1)
                \/ InFrames /\ PointData(s2)
                \/ InSetup /\ SettingSucceeds(mid360, "scan_pattern"))

MCSpec == MCInit /\ [][MCNext]_allVars /\ MCFairness

MCPayloads == {p1, p2}
MCSensors == {s1, s2}

==============================================================================

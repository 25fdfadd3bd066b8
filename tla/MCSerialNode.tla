----------------------------- MODULE MCSerialNode -----------------------------
(***************************************************************************)
(* The parts of the serial nodes that share no variable, checked in one    *)
(* run: a behaviour is one of a single part, while the others stay as they *)
(* begin.                                                                  *)
(***************************************************************************)
EXTENDS SerialReceive, SerialLink, RefereeBridge, GimbalManager, CommandFrames, RobotPackets, TLC

(* Packets of different lengths, and two bytes that look like a sof, one   *)
(* near the end of its packet and one not.                                 *)
MCLen == (0 :> 1) @@ (1 :> 1) @@ (2 :> 2) @@ (3 :> 1) @@ (4 :> 1)
MCSofBytes == {<<1, 6>>, <<2, 5>>}

(* The data of two frames look like a header.                               *)
MCStarts == {<<0, 3>>, <<2, 4>>}
MCSeconds == {<<0, 4>>, <<2, 5>>}

(* Angles in and out of the ranges, a whole turn, steps beyond the range.  *)
MCSweep == Sweep(1, -2, 2)
MCGimbalCommands ==
  {MCSweep, Absolute(5), Absolute(-6), Sweep(-2, 0, 3), Sweep(2, -6, 6), Sweep(5, 1, 2)}

(* Either sign, a speed too small and one too great.                       *)
MCCommands == {<<500, -1, 1000>>, <<-1500, 0, -300>>}

(* The robot's parameters, the declared defaults, and a port it accepts.   *)
MCPort(sbus, control, detector, bag) ==
  [use_sbus_protocol |-> sbus, baud_rate |-> 115200, flow_control |-> control, parity |-> "none",
   stop_bits |-> "1", set_detector_color |-> detector, record_rosbag |-> bag]
MCParameters ==
  {MCPort(TRUE, "none", FALSE, FALSE), MCPort(FALSE, "none", TRUE, FALSE), MCPort(FALSE, "hardware", FALSE, TRUE),
   MCPort(FALSE, "", FALSE, FALSE)}

MCDetectors == <<"armor_detector_openvino", "armor_detector_opencv">>
MCType(chassis) == [chassis |-> chassis, gimbal |-> 1, shoot |-> 2, arm |-> 0, custom_controller |-> 1]
MCReceived ==
  [id : {"ID_ROBOT_STATUS"},
   data : [robot_id : {11, 100, 101}, current_up : {100}]]
  \cup [id : {"ID_GAME_STATUS"}, data : {3, 4, 5}]
  \cup [id : {"ID_ROBOT_STATE_INFO"}, data : {MCType(4), MCType(5)}]
  \cup {[id |-> "ID_DEBUG", data |-> <<[name |-> "yaw", data |-> 1], [name |-> "", data |-> 0]>>]}
  \cup [id : {"ID_IMU", "ID_EVENT_DATA", "ID_PID_DEBUG", "ID_ALL_ROBOT_HP", "ID_ROBOT_MOTION", "ID_BUFF",
              "ID_GROUND_ROBOT_POSITION", "ID_RFID_STATUS", "ID_JOINT_STATE"}, data : {"reading"}]

MCJoints == {<<"gimbal_pitch_joint">>, <<"gimbal_yaw_joint", "gimbal_pitch_joint">>}
MCJointCommands == [name : MCJoints, position : {<<1>>, <<2, -1>>}]

VARIABLE part

allVars == <<part, receiveVars, linkVars, bridgeVars, gimbalVars, commandVars, packetVars>>

MCInit ==
  /\ part \in {"receive", "link", "bridge", "gimbal", "command", "packets", "callbacks"}
  /\ ReceiveInit /\ LinkInit /\ BridgeInit /\ GimbalInit /\ CommandInit /\ PacketsInit
  /\ part # "receive" => Len(wire) = 0
  /\ part # "link" => ~plugged /\ ~is_usb_ok_
  /\ part # "bridge" => Len(line) = 0
  /\ part # "gimbal" => wanted_cmd = Absolute(5)
  /\ part # "command" => use_sbus_protocol_
  /\ part # "packets" => running = {} /\ last_hp_ = 0 /\ parameters.use_sbus_protocol
  /\ parameters.set_detector_color => last_hp_ = 0

InReceive == part = "receive" /\ UNCHANGED <<part, linkVars, bridgeVars, gimbalVars, commandVars, packetVars>>
InLink == part = "link" /\ UNCHANGED <<part, receiveVars, bridgeVars, gimbalVars, commandVars, packetVars>>
InBridge == part = "bridge" /\ UNCHANGED <<part, receiveVars, linkVars, gimbalVars, commandVars, packetVars>>
InGimbal == part = "gimbal" /\ UNCHANGED <<part, receiveVars, linkVars, bridgeVars, commandVars, packetVars>>
InCommand == part = "command" /\ UNCHANGED <<part, receiveVars, linkVars, bridgeVars, gimbalVars, packetVars>>
(* With the detector, packets that concern nothing but robots' ids.        *)
Relevant == parameters.set_detector_color => message[1] \in {"", Topic.ID_ROBOT_STATUS}

InPackets ==
  /\ part = "packets"
  /\ UNCHANGED <<part, receiveVars, linkVars, bridgeVars, gimbalVars, commandVars, cmd_data>>
InCallbacks ==
  /\ part = "callbacks"
  /\ UNCHANGED <<part, receiveVars, linkVars, bridgeVars, gimbalVars, commandVars>>

MCNext ==
  \/ InReceive /\ ReceiveNext
  \/ InLink /\ LinkNext
  \/ InBridge /\ BridgeNext
  \/ InGimbal /\ GimbalNext
  \/ InCommand /\ CommandNext
  \/ InPackets /\ ReceiverNext /\ Relevant'
  \/ InCallbacks /\ CallbackNext

(* The fairness of each part.  No two parts ever run, so that one formula  *)
(* can ask for an action of each.                                          *)
MCFairness ==
  /\ WF_allVars((InLink /\ Protect) \/ (InGimbal /\ UpdateState) \/ (InCommand /\ SendFrame))
  /\ WF_allVars((InLink /\ Receive) \/ (InGimbal /\ GimbalCmdCallback(wanted_cmd))
                \/ (InCommand /\ CmdVelCallback))
  /\ WF_allVars(InLink /\ Send)
  /\ WF_allVars(InLink /\ Destroy)

MCSpec == MCInit /\ [][MCNext]_allVars /\ MCFairness
==============================================================================

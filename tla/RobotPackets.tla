----------------------------- MODULE RobotPackets -----------------------------
(***************************************************************************)
(* What standard_robot_pp_ros2 does with a packet that receiveData has cut *)
(* out and checked: it is published on a topic of its kind; a game status  *)
(* may start or stop the recorder, and a robot status sets the colour that *)
(* the armour detector looks for.  Both call another node from the thread  *)
(* that receives; the answers come to the executor's thread.               *)
(*                                                                         *)
(* The detector's parameter is set by an AsyncParametersClient.  Until the *)
(* first success every status makes a new client, and the answers to the   *)
(* one it replaces reach nobody.                                           *)
(***************************************************************************)
EXTENDS Integers, Sequences

CONSTANTS
  NodeParameters, \* parameters of the node
  Received,       \* packets: records with id and data
  JointCommands,  \* messages on cmd_gimbal_joint: records name, position
  Detectors,      \* nodes that detect armour: the order of possible_detectors
  MaxStray,       \* bound: requests of replaced clients on their way
  MaxRestarts     \* bound: times a detector stops

Nodes == {Detectors[i] : i \in DOMAIN Detectors}
Colors == {0, 1}

(* The fields of packets that are looked at, with their widths. *)
ReceiveDebugData(packages) ==
  Len(packages) <= 10 /\ \A i \in DOMAIN packages : packages[i] \in [name : STRING, data : Int]
ReceiveRobotInfoData ==
  LET Type == 0 .. 7
  IN  [chassis : Type, gimbal : Type, shoot : Type, arm : Type, custom_controller : Type]
ReceiveGameStatusData == 0 .. 255
ReceiveRobotStatus == [robot_id : 0 .. 255, current_up : 0 .. 65535]

ASSUME PacketParameters ==
  /\ Detectors # <<>>
  /\ \A p \in Received :
       /\ p.id = "ID_DEBUG" => ReceiveDebugData(p.data)
       /\ p.id = "ID_ROBOT_STATE_INFO" => p.data \in ReceiveRobotInfoData
       /\ p.id = "ID_GAME_STATUS" => p.data \in ReceiveGameStatusData
       /\ p.id = "ID_ROBOT_STATUS" => p.data \in ReceiveRobotStatus

VARIABLES
  parameters,
  handling,               \* step of the receiving thread
  usb_ok,                 \* is_usb_ok_
  message,                \* the last message: topic and data
  debug_pub_map_,         \* names that have a publisher
  last_hp_, last_joint_,
  previous_game_progress_,
  recorder,               \* the last request to the recorder
  initial_set_param_, previous_receive_color_, detector_node_name_,
  set_param_future_,      \* "invalid", "pending" or "ready"
  request,                \* of the current client: its color, or what was answered
  callback,               \* the answer whose callback is about to run
  stray,                  \* requests of replaced clients, by color
  running,                \* the detectors that run
  detect_color,           \* the parameter of each detector
  restarts,
  lapse,                  \* history: why the detector may not have the last color,
                          \* "" when nothing came in between
  cmd_data                \* gimbal, shoot and tracking of send_robot_cmd_data_

colorVars == <<initial_set_param_, previous_receive_color_, detector_node_name_, set_param_future_,
               request, callback, stray, running, detect_color, restarts, lapse>>
readingVars == <<debug_pub_map_, last_hp_, last_joint_, previous_game_progress_, recorder>>
packetVars == <<parameters, handling, usb_ok, message, readingVars, colorVars, cmd_data>>

None == [state |-> "none"]
NoMessage == <<"", 0>>

-----------------------------------------------------------------------------
(* Parameters and publishers.                                              *)

Accepted(p) ==
  /\ p.flow_control \in {"none", "hardware", "software"}
  /\ p.parity \in {"none", "odd", "even"}
  /\ p.stop_bits \in {"1", "1.0", "1.5", "2", "2.0"}

(* SBUS overrides the parameters of the port. *)
DeviceConfig(p) ==
  IF p.use_sbus_protocol
  THEN [baud_rate |-> 115200, flow_control |-> p.flow_control, parity |-> "even", stop_bits |-> "2"]
  ELSE [baud_rate |-> p.baud_rate, flow_control |-> p.flow_control, parity |-> p.parity,
        stop_bits |-> p.stop_bits]

Topic ==
  [ID_IMU |-> "serial/imu", ID_ROBOT_STATE_INFO |-> "serial/robot_state_info",
   ID_ROBOT_MOTION |-> "serial/robot_motion", ID_EVENT_DATA |-> "referee/event_data",
   ID_ALL_ROBOT_HP |-> "referee/all_robot_hp", ID_GAME_STATUS |-> "referee/game_status",
   ID_GROUND_ROBOT_POSITION |-> "referee/ground_robot_position", ID_RFID_STATUS |-> "referee/rfid_status",
   ID_ROBOT_STATUS |-> "referee/robot_status", ID_BUFF |-> "referee/buff"]

(* The node starts with parameters it accepts only.  last_hp_ and the      *)
(* joints have no initial value.                                           *)
PacketsInit ==
  /\ parameters \in {p \in NodeParameters : Accepted(p)}
  /\ handling = "read" /\ usb_ok = TRUE /\ message = NoMessage
  /\ debug_pub_map_ = {} /\ last_hp_ \in {0, 200} /\ last_joint_ = "unset"
  /\ previous_game_progress_ = 0 /\ recorder = ""
  /\ initial_set_param_ = FALSE /\ previous_receive_color_ = 0 /\ detector_node_name_ = ""
  /\ set_param_future_ = "invalid" /\ request = None /\ callback = None
  /\ stray = [c \in Colors |-> 0] /\ restarts = 0
  /\ running \in SUBSET Nodes /\ detect_color = [n \in Nodes |-> 0] /\ lapse = ""
  /\ cmd_data = [pitch |-> 0, yaw |-> 0, fire |-> 0, fric_on |-> FALSE, tracking |-> FALSE]

-----------------------------------------------------------------------------
(* The switch over the id of a packet and its handlers.  Data that are     *)
(* copied field by field are passed on as they are.                        *)

Sends(id, data) == message' = <<Topic[id], data>>

(* catch in receiveData *)
Throws == usb_ok' = FALSE /\ UNCHANGED message

PublishDebugData(packages) ==
  LET named == SelectSeq(packages, LAMBDA q : q.name # "")
  IN  /\ debug_pub_map_' = debug_pub_map_ \cup {named[i].name : i \in DOMAIN named}
      /\ IF named = <<>> THEN UNCHANGED message
         ELSE message' = <<"serial/debug/" \o named[Len(named)].name, named[Len(named)].data>>
      /\ UNCHANGED <<usb_ok, last_hp_, last_joint_, previous_game_progress_>>

(* The IMU's angles and, of the odometry joints, what came last. *)
PublishImuData(data) ==
  /\ message' = <<"serial/gimbal_joint_state", <<data, last_joint_>>>>
  /\ UNCHANGED <<usb_ok, readingVars>>

Models == [chassis |-> 0 .. 4, gimbal |-> 0 .. 1, shoot |-> 0 .. 2, arm |-> 0 .. 1, custom_controller |-> 0 .. 1]

(* at() throws when a part is of an unknown type. *)
PublishRobotInfo(type) ==
  /\ IF \A part \in DOMAIN Models : type[part] \in Models[part]
     THEN Sends("ID_ROBOT_STATE_INFO", type) /\ UNCHANGED usb_ok
     ELSE Throws
  /\ UNCHANGED readingVars

PublishEventData(data) == Sends("ID_EVENT_DATA", data) /\ UNCHANGED <<usb_ok, readingVars>>
PublishAllRobotHp(data) == Sends("ID_ALL_ROBOT_HP", data) /\ UNCHANGED <<usb_ok, readingVars>>
PublishRobotMotion(data) == Sends("ID_ROBOT_MOTION", data) /\ UNCHANGED <<usb_ok, readingVars>>
PublishGroundRobotPosition(data) ==
  Sends("ID_GROUND_ROBOT_POSITION", data) /\ UNCHANGED <<usb_ok, readingVars>>
PublishRfidStatus(data) == Sends("ID_RFID_STATUS", data) /\ UNCHANGED <<usb_ok, readingVars>>
PublishBuff(data) == Sends("ID_BUFF", data) /\ UNCHANGED <<usb_ok, readingVars>>

PublishJointState(data) ==
  /\ last_joint_' = data
  /\ UNCHANGED <<usb_ok, message, debug_pub_map_, last_hp_, previous_game_progress_, recorder>>

COUNT_DOWN == 3
GAME_OVER == 5
Service(progress) ==
  CASE progress = COUNT_DOWN -> "start_recording"
    [] progress = GAME_OVER -> "stop_recording"
    [] OTHER -> ""

(* The service is waited for five seconds; the call itself always throws,  *)
(* for the node that is to be spun is in an executor already, but by then  *)
(* the request is on its way.                                              *)
CallTriggerService(service) ==
  \/ UNCHANGED <<recorder, usb_ok>>
  \/ recorder' = service /\ usb_ok' = FALSE

PublishGameStatus(data) ==
  /\ Sends("ID_GAME_STATUS", data)
  /\ IF parameters.record_rosbag /\ data # previous_game_progress_
     THEN /\ previous_game_progress_' = data
          /\ IF Service(data) = "" THEN UNCHANGED <<recorder, usb_ok>>
             ELSE CallTriggerService(Service(data))
     ELSE UNCHANGED <<previous_game_progress_, recorder, usb_ok>>
  /\ UNCHANGED <<debug_pub_map_, last_hp_, last_joint_>>

(* Damage is seen by comparing with the status before. *)
PublishRobotStatus(data) ==
  /\ Sends("ID_ROBOT_STATUS", [status |-> data, is_hp_deduced |-> last_hp_ > data.current_up])
  /\ last_hp_' = data.current_up
  /\ UNCHANGED <<usb_ok, debug_pub_map_, last_joint_, previous_game_progress_, recorder>>

(* Packets for the tuning of PIDs, and unknown ones. *)
PublishNothing == UNCHANGED <<message, usb_ok, readingVars>>

Handle(p) ==
  CASE p.id = "ID_DEBUG" -> PublishDebugData(p.data) /\ UNCHANGED recorder
    [] p.id = "ID_IMU" -> PublishImuData(p.data)
    [] p.id = "ID_ROBOT_STATE_INFO" -> PublishRobotInfo(p.data)
    [] p.id = "ID_EVENT_DATA" -> PublishEventData(p.data)
    [] p.id = "ID_ALL_ROBOT_HP" -> PublishAllRobotHp(p.data)
    [] p.id = "ID_GAME_STATUS" -> PublishGameStatus(p.data)
    [] p.id = "ID_ROBOT_MOTION" -> PublishRobotMotion(p.data)
    [] p.id = "ID_GROUND_ROBOT_POSITION" -> PublishGroundRobotPosition(p.data)
    [] p.id = "ID_RFID_STATUS" -> PublishRfidStatus(p.data)
    [] p.id = "ID_ROBOT_STATUS" -> PublishRobotStatus(p.data)
    [] p.id = "ID_JOINT_STATE" -> PublishJointState(p.data)
    [] p.id = "ID_BUFF" -> PublishBuff(p.data)
    [] OTHER -> PublishNothing

(* getDetectColor: whether the id is one of a robot, and its enemy's color *)
IsRobot(robot_id) == robot_id # 0 /\ ~(robot_id > 11 /\ robot_id < 101)
DetectColor(robot_id) == IF robot_id >= 100 THEN 0 ELSE 1

ColorIsNews(c) == ~initial_set_param_ \/ c # previous_receive_color_

SetsColor(p) ==
  /\ p.id = "ID_ROBOT_STATUS" /\ parameters.set_detector_color
  /\ IsRobot(p.data.robot_id) /\ ColorIsNews(DetectColor(p.data.robot_id))

ReceivePacket(p) ==
  /\ handling = "read" /\ usb_ok
  /\ Handle(p)
  /\ IF SetsColor(p)
     THEN handling' = "param" /\ previous_receive_color_' = DetectColor(p.data.robot_id)
     ELSE UNCHANGED <<handling, previous_receive_color_>>
  /\ UNCHANGED <<parameters, initial_set_param_, detector_node_name_, set_param_future_, request, callback,
                 stray, running, detect_color, restarts, lapse, cmd_data>>

(* serialPortProtect *)
Reopen ==
  /\ ~usb_ok
  /\ usb_ok' = TRUE
  /\ UNCHANGED <<parameters, handling, message, readingVars, colorVars, cmd_data>>

-----------------------------------------------------------------------------
(* setParam, in the receiving thread.                                      *)

(* The first of the detectors is looked for again every time, the others   *)
(* only while none has been found.                                         *)
DetectorFound ==
  LET found == SelectSeq(Detectors, LAMBDA n : n \in running)
  IN  IF Detectors[1] \in running \/ (detector_node_name_ = "" /\ found # <<>>) THEN found[1]
      ELSE detector_node_name_

(* A new client: of the one before, a callback that has begun goes on, and *)
(* a request that has not been answered becomes a stray one.  Those to     *)
(* another detector are none of ours any more.                             *)
Replaced(r, same) ==
  [c \in Colors |-> IF ~same THEN 0 ELSE IF r.state = "sent" /\ r.color = c THEN stray[c] + 1 ELSE stray[c]]

FindDetector ==
  /\ handling = "param" /\ ~initial_set_param_
  /\ request.state = "sent" => stray[request.color] < MaxStray
  /\ detector_node_name_' = DetectorFound
  /\ IF detector_node_name_' = ""
     THEN handling' = "sleep" /\ UNCHANGED <<request, stray, set_param_future_>>
     ELSE /\ stray' = Replaced(request, detector_node_name_' = detector_node_name_)
          /\ request' = None
          /\ set_param_future_' = (IF set_param_future_ = "pending" THEN "ready" ELSE set_param_future_)
          /\ \/ handling' = "sleep"  \* the service is not ready
             \/ detector_node_name_' \in running /\ handling' = "request"
  /\ lapse' = "unsent"
  /\ UNCHANGED <<parameters, usb_ok, message, readingVars, initial_set_param_,
                 previous_receive_color_, callback, running, detect_color, restarts, cmd_data>>

(* The test of initial_set_param_ may have come before it was set. *)
RequestColor ==
  /\ handling = "request" \/ (handling = "param" /\ initial_set_param_)
  /\ IF set_param_future_ = "pending"
     THEN lapse' = "unsent" /\ UNCHANGED <<request, set_param_future_>>
     ELSE /\ request' = [state |-> IF detector_node_name_ \in running THEN "sent" ELSE "lost",
                         color |-> previous_receive_color_]
          /\ set_param_future_' = "pending"
          /\ lapse' = IF detector_node_name_ \in running THEN "" ELSE "lost"
  /\ handling' = "sleep"
  /\ UNCHANGED <<parameters, usb_ok, message, readingVars, initial_set_param_,
                 previous_receive_color_, detector_node_name_, callback, stray, running, detect_color, restarts,
                 cmd_data>>

(* The end of the 500 ms. *)
Wake ==
  /\ handling = "sleep"
  /\ handling' = "read"
  /\ UNCHANGED <<parameters, usb_ok, message, readingVars, colorVars, cmd_data>>

-----------------------------------------------------------------------------
(* The detector, and the answers in the executor's thread.                 *)

DetectorAnswers(successful) ==
  /\ request.state = "sent" /\ detector_node_name_ \in running
  /\ request' = [state |-> "answered", successful |-> successful]
  /\ detect_color' = (IF successful THEN [detect_color EXCEPT ![detector_node_name_] = request.color]
                     ELSE detect_color)
  /\ UNCHANGED <<parameters, handling, usb_ok, message, readingVars, initial_set_param_,
                 previous_receive_color_, detector_node_name_, set_param_future_, callback, stray,
                 running, restarts, lapse, cmd_data>>

(* A request of a client that was replaced is carried out all the same. *)
StrayArrives(c) ==
  /\ stray[c] > 0 /\ detector_node_name_ \in running
  /\ stray' = [stray EXCEPT ![c] = @ - 1]
  /\ detect_color' = [detect_color EXCEPT ![detector_node_name_] = c]
  /\ lapse' = IF request.state # "sent" /\ c # previous_receive_color_ THEN "overtaken" ELSE lapse
  /\ UNCHANGED <<parameters, handling, usb_ok, message, readingVars, initial_set_param_,
                 previous_receive_color_, detector_node_name_, set_param_future_, request, callback,
                 running, restarts, cmd_data>>

(* The promise is kept before the callback runs. *)
TakeAnswer ==
  /\ request.state = "answered" /\ callback = None
  /\ callback' = request
  /\ request' = None
  /\ set_param_future_' = "ready"
  /\ UNCHANGED <<parameters, handling, usb_ok, message, readingVars, initial_set_param_,
                 previous_receive_color_, detector_node_name_, stray, running, detect_color, restarts, lapse,
                 cmd_data>>

ParamSet_Always(answer) == TRUE
ParamSet(answer) == answer.successful \/ initial_set_param_

SetParamCallback ==
  /\ callback # None
  /\ initial_set_param_' = ParamSet(callback)
  /\ lapse' = IF initial_set_param_ /\ ~callback.successful THEN "refused" ELSE lapse
  /\ callback' = None
  /\ UNCHANGED <<parameters, handling, usb_ok, message, readingVars, previous_receive_color_,
                 detector_node_name_, set_param_future_, request, stray, running, detect_color, restarts, cmd_data>>

(* A detector that stops takes the requests to it along. *)
DetectorStops(n) ==
  /\ n \in running /\ restarts < MaxRestarts
  /\ running' = running \ {n} /\ restarts' = restarts + 1
  /\ detect_color' = [detect_color EXCEPT ![n] = 0]
  /\ IF n = detector_node_name_
     THEN /\ stray' = [c \in Colors |-> 0]
          /\ lapse' = "restarted"
          /\ request' = IF request.state = "sent" THEN [state |-> "lost"] ELSE request
     ELSE UNCHANGED <<stray, lapse, request>>
  /\ UNCHANGED <<parameters, handling, usb_ok, message, readingVars, initial_set_param_,
                 previous_receive_color_, detector_node_name_, set_param_future_, callback, cmd_data>>

DetectorStarts(n) ==
  /\ n \in Nodes \ running
  /\ running' = running \cup {n}
  /\ UNCHANGED <<parameters, handling, usb_ok, message, readingVars, initial_set_param_,
                 previous_receive_color_, detector_node_name_, set_param_future_, request, callback, stray,
                 detect_color, restarts, lapse, cmd_data>>

-----------------------------------------------------------------------------
(* The other commands to the board: copied to send_robot_cmd_data_.        *)

Commanded(d) ==
  /\ cmd_data' = d
  /\ UNCHANGED <<parameters, handling, usb_ok, message, readingVars, colorVars>>

LastOf(msg, joint, before) ==
  LET places == {i \in DOMAIN msg.name : msg.name[i] = joint}
  IN  IF places = {} THEN before
      ELSE msg.position[CHOOSE i \in places : \A j \in places : j <= i]

CmdGimbalJointCallback(msg) ==
  /\ Len(msg.name) = Len(msg.position)
  /\ Commanded([cmd_data EXCEPT !.pitch = LastOf(msg, "gimbal_pitch_joint", @),
                                !.yaw = LastOf(msg, "gimbal_yaw_joint", @)])

VisionTargetCallback(tracking) == Commanded([cmd_data EXCEPT !.tracking = tracking])

(* The friction wheels are never switched off again. *)
CmdShootCallback(fire) == Commanded([cmd_data EXCEPT !.fric_on = TRUE, !.fire = fire])

CallbackNext ==
  \/ \E msg \in JointCommands : CmdGimbalJointCallback(msg)
  \/ \E tracking \in BOOLEAN : VisionTargetCallback(tracking)
  \/ \E fire \in 0 .. 1 : CmdShootCallback(fire)

-----------------------------------------------------------------------------
ReceiverNext ==
  \/ \E p \in Received : ReceivePacket(p)
  \/ Reopen \/ FindDetector \/ RequestColor \/ Wake
  \/ \E successful \in BOOLEAN : DetectorAnswers(successful)
  \/ \E c \in Colors : StrayArrives(c)
  \/ TakeAnswer \/ SetParamCallback
  \/ \E n \in Nodes : DetectorStops(n) \/ DetectorStarts(n)

PacketsNext == ReceiverNext \/ CallbackNext

PacketsSpec == PacketsInit /\ [][PacketsNext]_packetVars

-----------------------------------------------------------------------------
(* When the parameter has been set once and nothing is on its way, the     *)
(* detector looks for the color that follows from the last valid status,   *)
(* or one of five things happened after that color was to be requested     *)
(* (publishRobotStatus, setParam).  None of them is made up for before the *)
(* color changes again; the code loses the color in each:                  *)
(*   unsent     the request before it was not answered yet, or no service  *)
(*              was ready, and the color is not asked for again            *)
(*   lost       the detector was not running when it was asked             *)
(*   refused    the detector refused, after it had accepted a color once   *)
(*   overtaken  a request that a replaced client had sent for the other    *)
(*              color arrived late, after that of its successor            *)
(*   restarted  the detector stopped, and begins again with its own color  *)
(* No other order of statuses, requests, answers and callbacks leaves a    *)
(* wrong color: not refusals before the first success, nor answers to a    *)
(* replaced client, nor an answer to the request for the color before.     *)
ColorIsCurrent ==
  handling = "read" /\ initial_set_param_ /\ request = None /\ callback = None =>
    \/ detect_color[detector_node_name_] = previous_receive_color_
    \/ lapse \in {"unsent", "lost", "refused", "overtaken", "restarted"}
==============================================================================

---------------------------- MODULE CloudMessages ----------------------------
(***************************************************************************)
(* What livox_ros_driver2 makes of a configuration file and of the points  *)
(* of its lidars: devices with their extrinsic parameters, points moved    *)
(* into the frame of the robot, frames, messages and publishers.  When a   *)
(* frame is cut is PubHandler's, how it crosses the ring LidarHandoff's.   *)
(*                                                                         *)
(* Positions are pairs of millimetres in a plane and rotations quarter     *)
(* turns about the third axis; roll, pitch and z go the same way.  A time  *)
(* is a count of points.  Reflectivity, tag and line are left out.         *)
(***************************************************************************)
EXTENDS Integers, Sequences, SequencesExt, FiniteSetsExt

CONSTANTS
  Handles,       \* addresses of lidars, numbers
  Files,         \* configuration files
  DataTypes,     \* of the points that lidars send
  Scene,         \* where the point of each time is, seen from the lidar
  dot_num,       \* points in a packet
  Transfers,     \* xfer_format: "pcd2", "custom", "pcl" or "all"
  kMaxDevices,   \* kMaxSourceLidar
  RingSize,      \* frames in the ring of a lidar
  OffsetRange,   \* 2 ^ 32
  Missing        \* a member that a file does not have

ASSUME CloudAssumption ==
  /\ Handles \subseteq Nat \ {0} /\ Missing \notin Handles
  /\ kMaxDevices \in Nat /\ RingSize \in Nat \ {0} /\ dot_num \in Nat \ {0}
  /\ Scene \in Seq(Int \X Int)
  /\ DataTypes \subseteq {"high", "low", "spherical"}
  /\ Transfers \subseteq {"pcd2", "custom", "pcl", "all"}
  /\ OffsetRange \in Nat \ {0} /\ OffsetRange >= Len(Scene)

VARIABLES
  user_file,          \* the file at user_config_path
  transfer_format_, use_multi_topic_,
  lidars_,            \* LidarDevice of each index
  lidar_extrinsics_,  \* parameters by handle
  sampled,            \* lidars that have shown up
  sends,              \* the type that each lidar sends now
  handlers,           \* lidar_process_handlers_: extrinsic_ and points_clouds_
  turn_global,        \* rotation of extrinsic_global
  stored,             \* frames in the ring of each index
  lastSent,           \* messages of the last frame, and what they hold
  now,                \* points measured so far
  crashed             \* the process has died

fileVars == <<user_file, transfer_format_, use_multi_topic_>>
cloudVars == <<fileVars, lidars_, lidar_extrinsics_, sampled, sends, handlers, turn_global,
               stored, lastSent, now, crashed>>

-----------------------------------------------------------------------------
(* The configuration file.                                                 *)

Member(r, name, default) == IF name \in DOMAIN r THEN r[name] ELSE default

ParseExtrinsics(value) ==
  [x |-> Member(value, "x", 0), y |-> Member(value, "y", 0), turn |-> Member(value, "yaw", 0)]

ParseConfig(config) ==
  [handle |-> config.ip,
   data_type |-> Member(config, "pcl_data_type", Missing),
   extrinsic |-> ParseExtrinsics(Member(config, "extrinsic_parameter", <<>>))]

ParseUserConfigs(file) ==
  LET known == SelectSeq(file.lidar_configs, LAMBDA c : "ip" \in DOMAIN c)
  IN [i \in DOMAIN known |-> ParseConfig(known[i])]

Parse(file) == IF "lidar_configs" \in DOMAIN file THEN ParseUserConfigs(file) ELSE <<>>

Extrinsics == [x : Int, y : Int, turn : 0 .. 3]
Configs ==
  [handle : Nat, data_type : DataTypes \cup {Missing}, extrinsic : Extrinsics]

(* Spherical data is modelled of points on an axis only.                   *)
ASSUME FilesAssumption ==
  /\ Missing \notin Extrinsics \cup Configs \cup {"high", "low", "spherical"}
  /\ \A file \in Files : Parse(file) \in Seq(Configs)
  /\ "spherical" \in DataTypes => \A t \in DOMAIN Scene : Scene[t][1] = 0 \/ Scene[t][2] = 0

(* Without lidar_summary_info no device is set up and nothing observed.    *)
ParseSummaryInfo(file) == "lidar_type" \in DOMAIN file

(* A handle that is known keeps its index, and the last entry counts.      *)
IndexOf(devices, handle) == SelectInSeq(devices, LAMBDA d : d.key = handle)

AddDevice(devices, config) ==
  LET i == IndexOf(devices, config.handle)
      device == [key |-> config.handle, handle |-> config.handle, config |-> config]
  IN IF i # 0 THEN [devices EXCEPT ![i] = device]
     ELSE IF Len(devices) < kMaxDevices THEN Append(devices, device)
     ELSE devices

Toward0(n, d) == IF n >= 0 THEN n \div d ELSE -((-n) \div d)

(* The parameters are in the unit of the type that the file names: whole   *)
(* centimetres for low data.                                               *)
LidarParam_Unscaled(config) == config.extrinsic
LidarParam(config) ==
  IF config.data_type = "low"
  THEN [config.extrinsic EXCEPT !.x = Toward0(@, 10), !.y = Toward0(@, 10)]
  ELSE config.extrinsic

AddLidarsExtParam(devices) ==
  [h \in {d.key : d \in ToSet(devices)} |-> LidarParam(devices[IndexOf(devices, h)].config)]

InitLivoxLidar(file) ==
  LET devices == FoldLeft(AddDevice, <<>>, Parse(file))
  IN lidars_ = devices /\ lidar_extrinsics_ = AddLidarsExtParam(devices)

InitLdsLidar(file) ==
  IF ParseSummaryInfo(file) THEN InitLivoxLidar(file)
  ELSE lidars_ = <<>> /\ lidar_extrinsics_ = <<>>

NoPoints == [h \in Handles |-> <<>>]

DriverNode ==
  /\ user_file \in Files
  /\ transfer_format_ \in Transfers
  /\ use_multi_topic_ \in BOOLEAN
  /\ InitLdsLidar(user_file)
  /\ sampled = {} /\ sends \in [Handles -> DataTypes] /\ turn_global = 0
  /\ handlers = [h \in Handles |-> [extrinsic |-> Missing, cloud |-> <<>>]]
  /\ stored = NoPoints
  /\ lastSent = [messages |-> {}, of |-> Missing]
  /\ now = 0 /\ crashed = FALSE

(* A lidar shows up (see LidarSetup).  One that the file does not define   *)
(* gets an index and no handle.                                            *)
LidarInfoChange(h) ==
  /\ ~crashed /\ ParseSummaryInfo(user_file)
  /\ h \notin sampled
  /\ LET stranger == [key |-> h, handle |-> 0, config |-> Missing]
     IN IF IndexOf(lidars_, h) # 0 THEN sampled' = sampled \cup {h} /\ UNCHANGED lidars_
        ELSE /\ Len(lidars_) < kMaxDevices
             /\ lidars_' = Append(lidars_, stranger)
             /\ sampled' = sampled \cup {h}
  /\ UNCHANGED <<fileVars, lidar_extrinsics_, sends, handlers, turn_global, stored, lastSent, now,
                 crashed>>

(* Told so when it showed up, a lidar changes to the type that the file    *)
(* names.  Until then, and for good if the file names none, it sends in    *)
(* the type it was left in.                                                *)
SetPclDataType(h) ==
  /\ ~crashed /\ h \in sampled
  /\ LET config == lidars_[IndexOf(lidars_, h)].config
     IN /\ config # Missing /\ config.data_type # Missing
        /\ sends[h] # config.data_type
        /\ sends' = [sends EXCEPT ![h] = config.data_type]
  /\ UNCHANGED <<fileVars, lidars_, lidar_extrinsics_, sampled, handlers, turn_global, stored,
                 lastSent, now, crashed>>

-----------------------------------------------------------------------------
(* Points.                                                                 *)

Cos(q) == CASE q = 0 -> 1 [] q = 1 -> 0 [] q = 2 -> -1 [] q = 3 -> 0
Sin(q) == CASE q = 0 -> 0 [] q = 1 -> 1 [] q = 2 -> 0 [] q = 3 -> -1

Rotated(p, q) == <<p[1] * Cos(q) - p[2] * Sin(q), p[1] * Sin(q) + p[2] * Cos(q)>>
Moved(p, e) == LET r == Rotated(p, e.turn) IN <<r[1] + e.x, r[2] + e.y>>
Scaled(p, s) == <<s * p[1], s * p[2]>>

Quarter(p) == IF p[1] > 0 THEN 0 ELSE IF p[2] > 0 THEN 1 ELSE IF p[1] < 0 THEN 2 ELSE 3
Depth(p) == LET q == Quarter(p) IN p[1] * Cos(q) + p[2] * Sin(q)

(* What the lidar sends: millimetres, centimetres, or depth and angle.     *)
Raw(p, type) ==
  CASE type = "high" -> p
    [] type = "low" -> <<Toward0(p[1], 10), Toward0(p[2], 10)>>
    [] type = "spherical" -> [depth |-> Depth(p), phi |-> Quarter(p)]

ProcessCartesianHighPoint(raw, e) == Moved(raw, e)
ProcessCartesianLowPoint(raw, e) == Scaled(Moved(raw, e), 10)
ProcessSphericalPoint(raw, e) == Moved(Scaled(<<Cos(raw.phi), Sin(raw.phi)>>, raw.depth), e)

LivoxLidarPointCloudProcess(raw, type, e) ==
  CASE type = "high" -> ProcessCartesianHighPoint(raw, e)
    [] type = "low" -> ProcessCartesianLowPoint(raw, e)
    [] type = "spherical" -> ProcessSphericalPoint(raw, e)

NoExtrinsic == [x |-> 0, y |-> 0, turn |-> 0]

(* Parameters are taken over with the first packet, or never.              *)
ExtParam(h) ==
  IF handlers[h].extrinsic # Missing THEN handlers[h].extrinsic
  ELSE IF h \in DOMAIN lidar_extrinsics_ THEN lidar_extrinsics_[h]
  ELSE Missing

(* By the type of the packet, whatever the file says.  A point keeps it as *)
(* a history: neither PointXyzlt nor the messages have it.                 *)
PointsOf(h, time_stamp) ==
  LET e == IF ExtParam(h) = Missing THEN NoExtrinsic ELSE ExtParam(h)
      At(t) == LivoxLidarPointCloudProcess(Raw(Scene[t + 1], sends[h]), sends[h], e)
  IN [i \in 1 .. dot_num |->
        [at |-> At(time_stamp + i - 1), offset_time |-> time_stamp + i - 1, data_type |-> sends[h]]]

(* A packet arrives and is processed.                                      *)
PointPacket(h) ==
  /\ ~crashed /\ ParseSummaryInfo(user_file)
  /\ now + dot_num <= Len(Scene)
  /\ now' = now + dot_num
  /\ handlers' = [handlers EXCEPT ![h] =
       [extrinsic |-> ExtParam(h), cloud |-> @.cloud \o PointsOf(h, now)]]
  /\ turn_global' = IF handlers[h].extrinsic = Missing /\ ExtParam(h) # Missing
                    THEN ExtParam(h).turn ELSE turn_global
  /\ UNCHANGED <<fileVars, lidars_, lidar_extrinsics_, sampled, sends, stored, lastSent, crashed>>

GetLidarBaseTime(cloud) == cloud[1].offset_time

(* A frame is cut (see PubHandler).  Frames of a lidar that has no index,  *)
(* or whose ring is full, are dropped.                                     *)
StoragePointData(h) ==
  LET cloud == handlers[h].cloud
      frame == [base_time |-> GetLidarBaseTime(cloud), points |-> cloud]
  IN /\ ~crashed /\ cloud # <<>>
     /\ handlers' = [handlers EXCEPT ![h].cloud = <<>>]
     /\ stored' = IF IndexOf(lidars_, h) = 0 \/ Len(stored[h]) = RingSize THEN stored
                  ELSE [stored EXCEPT ![h] = Append(@, frame)]
     /\ UNCHANGED <<fileVars, lidars_, lidar_extrinsics_, sampled, sends, turn_global, lastSent,
                    now, crashed>>

-----------------------------------------------------------------------------
(* Messages and publishers.                                                *)

InitPointcloud2Msg(frame) ==
  [stamp |-> frame.base_time,
   points |-> [i \in DOMAIN frame.points |->
                 [at |-> frame.points[i].at, timestamp |-> frame.points[i].offset_time,
                  data_type |-> frame.points[i].data_type]]]

FillPointsToCustomMsg_SinceZero(frame) ==
  [i \in DOMAIN frame.points |->
     [at |-> frame.points[i].at, offset_time |-> frame.points[i].offset_time % OffsetRange,
      data_type |-> frame.points[i].data_type]]
FillPointsToCustomMsg(frame) ==
  [i \in DOMAIN frame.points |->
     [at |-> frame.points[i].at,
      offset_time |-> (frame.points[i].offset_time - frame.base_time) % OffsetRange,
      data_type |-> frame.points[i].data_type]]

InitCustomMsg(frame, device) ==
  [timebase |-> frame.base_time, lidar_id |-> device.handle,
   points |-> FillPointsToCustomMsg(frame)]

(* One topic for all lidars or one for each, named by its address; both    *)
(* formats at once have two topics, and only if these are shared.          *)
CurrentTopic(device) ==
  IF use_multi_topic_ THEN <<"livox/lidar_", device.handle>> ELSE <<"livox/lidar">>
CurrentTopic2(device) ==
  IF use_multi_topic_ THEN CurrentTopic(device) ELSE <<"livox/lidar/pointcloud">>
CurrentImuTopic(device) ==
  IF use_multi_topic_ THEN <<"livox/imu_", device.handle>> ELSE <<"livox/imu">>

CreatePublisherFails == transfer_format_ = "all" /\ use_multi_topic_

Pcd2(frame, device) ==
  [type |-> "pcd2", data |-> InitPointcloud2Msg(frame),
   topic |-> IF transfer_format_ = "all" THEN CurrentTopic2(device) ELSE CurrentTopic(device)]
Custom(frame, device) ==
  [type |-> "custom", data |-> InitCustomMsg(frame, device), topic |-> CurrentTopic(device)]

Messages(frame, device) ==
  CASE transfer_format_ = "pcd2" -> {Pcd2(frame, device)}
    [] transfer_format_ = "custom" -> {Custom(frame, device)}
    [] transfer_format_ = "all" -> {Pcd2(frame, device), Custom(frame, device)}

(* The poll thread takes a frame.  The format "pcl" is not implemented:    *)
(* nothing is taken and the thread turns round at the first lidar that has *)
(* a frame.  Publishers are made at first use; one that cannot be is used  *)
(* all the same.                                                           *)
PublishFrame(h) ==
  LET device == lidars_[IndexOf(lidars_, h)]
      messages == Messages(Head(stored[h]), device)
  IN /\ ~crashed
     /\ h \in sampled /\ stored[h] # <<>>
     /\ transfer_format_ # "pcl"
     /\ stored' = [stored EXCEPT ![h] = Tail(@)]
     /\ IF CreatePublisherFails
        THEN crashed' = TRUE /\ UNCHANGED lastSent
        ELSE /\ lastSent' = [messages |-> messages, of |-> h]
             /\ UNCHANGED crashed
     /\ UNCHANGED <<fileVars, lidars_, lidar_extrinsics_, sampled, sends, handlers, turn_global,
                    now>>

(* Inertial data take the rotation of the lidar that started last.         *)
PublishImuData(h) ==
  LET device == lidars_[IndexOf(lidars_, h)]
      imu == [type |-> "imu", topic |-> CurrentImuTopic(device), data |-> [turn |-> turn_global]]
  IN /\ ~crashed /\ h \in sampled
     /\ lastSent' = [messages |-> {imu}, of |-> h]
     /\ UNCHANGED <<fileVars, lidars_, lidar_extrinsics_, sampled, sends, handlers, turn_global,
                    stored, now, crashed>>

CloudInit == DriverNode

CloudNext ==
  \E h \in Handles :
    LidarInfoChange(h) \/ SetPclDataType(h) \/ PointPacket(h) \/ StoragePointData(h)
      \/ PublishFrame(h) \/ PublishImuData(h)

CloudSpec == CloudInit /\ [][CloudNext]_cloudVars

-----------------------------------------------------------------------------
(* The last entry of the file for a lidar, with what it leaves out zero.   *)
Defined(h) == {i \in DOMAIN Parse(user_file) : Parse(user_file)[i].handle = h}
Entry(h) == Parse(user_file)[CHOOSE i \in Defined(h) : \A j \in Defined(h) : j <= i]

(* The parameters as they take effect on points of a type: those of the    *)
(* file, unless the points are not in the unit that LidarParam chose.      *)
SameUnit(h, type) == Entry(h).data_type = "low" <=> type = "low"
InEffect(h, type) ==
  LET e == Entry(h).extrinsic
  IN IF SameUnit(h, type) THEN e
     ELSE IF type = "low" THEN [e EXCEPT !.x = 10 * @, !.y = 10 * @]
     ELSE [e EXCEPT !.x = Toward0(@, 10), !.y = Toward0(@, 10)]

Within(d, p, q) == \A k \in 1 .. 2 : p[k] - q[k] < d /\ q[k] - p[k] < d
InPlace(h, p, t) ==
  /\ t + 1 \in DOMAIN Scene
  /\ Within(IF p.data_type = "low" THEN 20 ELSE 1, p.at,
            Moved(Scene[t + 1], InEffect(h, p.data_type)))

(* Every point that is published of a lidar in the file is where the file  *)
(* says the lidar sees it, to the millimetre, or to two centimetres of low *)
(* data, whose points and parameters each lose less than one; its time is  *)
(* the one it was measured at, in either format and in whatever frame it   *)
(* ended up; and the message is the lidar's own: on its topic, with its    *)
(* address (from InitLivoxLidar to Lddc's publishers).  This in whatever   *)
(* type the packet came, in the file's or in another, and though frames    *)
(* mix them, with one exception that the code has: where either of the two *)
(* types is "low" and the other is not (a packet from before the lidar     *)
(* took the setting, or low data of a lidar whose entry names no type),    *)
(* the place is off, by a translation of a tenth or ten times that of the  *)
(* file, which InEffect says, and by nothing else.                         *)
PublishedInPlace ==
  \A m \in lastSent.messages :
    LET h == lastSent.of IN
    Defined(h) # {} /\ m.type # "imu" =>
      /\ use_multi_topic_ => m.topic = <<"livox/lidar_", h>>
      /\ m.type = "custom" => m.data.lidar_id = h
      /\ \A i \in DOMAIN m.data.points :
           LET p == m.data.points[i]
               time == IF m.type = "custom" THEN m.data.timebase + p.offset_time ELSE p.timestamp
           IN InPlace(h, p, time)
==============================================================================

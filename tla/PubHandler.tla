------------------------------ MODULE PubHandler ------------------------------
(***************************************************************************)
(* comm/pub_handler.cpp of livox_ros_driver2: packets of points arrive on  *)
(* a thread of the SDK and wait in raw_packet_queue_; RawDataProcess sorts *)
(* them by lidar and CheckTimer cuts frames of one publish_interval_.      *)
(*                                                                         *)
(* Times are ticks, PerMs of them to the millisecond, modulo Horizon.  A   *)
(* lidar sends one packet a tick; a packet is the time of its last point,  *)
(* by the clock that synchronised lidars share.  Either all lidars are     *)
(* synchronised or none is.  The data_type of a packet says how it is      *)
(* processed (see CloudMessages), not when its frame is cut.  Once         *)
(* is_quit_ is set, only the thread goes on.                               *)
(***************************************************************************)
EXTENDS Integers, Sequences, SequencesExt

CONSTANTS
  Sensors,     \* lidars that send
  PerMs,       \* ticks in a millisecond
  Interval,    \* publish_interval_: 100 ms at 10 Hz
  Horizon,     \* bound: times wrap here, far beyond any frame
  MaxQueue,    \* bound: packets that wait
  MaxCloud,    \* bound: packets of an unfinished frame
  MaxLost,     \* bound: packets lost on the network
  Never        \* no time yet

(* The interval is whole milliseconds; times do not wrap within a frame or *)
(* within a gap that lost packets leave.                                   *)
ASSUME PubAssumption ==
  /\ PerMs \in Nat \ {0} /\ Interval \in Nat /\ Interval > PerMs /\ Interval % PerMs = 0
  /\ Horizon \in Nat /\ Horizon % Interval = 0 /\ Horizon > 3 * Interval
  /\ MaxQueue \in Nat \ {0} /\ MaxCloud \in Nat /\ MaxLost \in Nat /\ MaxLost + 1 < Horizon

VARIABLES
  synced,              \* lidars whose time_type is not kTimestampTypeNoSync
  clock,               \* time of the synchronised lidars; stands still without any
  since,               \* time of the host since last_pub_time_
  heard,               \* lidars that have sent in this tick
  lost,                \* packets lost so far
  is_timestamp_sync_,
  raw_packet_queue_,
  points_clouds_,      \* of each lidar: packets of the frame to come
  frame_,              \* what the last call of points_callback_ passed of each
  previous,            \* history: the packet before frame_[l], sent on earlier
  rotated,             \* lidars with is_set_extrinsic_params_
  extrinsic_global,    \* the lidar whose rotation it is
  is_quit_,
  processing           \* RawDataProcess: "runs" or "done"

sensorVars == <<synced, clock, since, heard, lost>>
publishVars == <<points_clouds_, frame_, previous, rotated, extrinsic_global>>
pubVars == <<sensorVars, publishVars, is_timestamp_sync_, raw_packet_queue_, is_quit_, processing>>

Later(t) == (t + 1) % Horizon
Span(cloud) == (Last(cloud) - cloud[1]) % Horizon
NoClouds == [l \in Sensors |-> <<>>]

PubInit ==
  /\ synced \in {Sensors, {}}
  /\ clock = 0 /\ since = Never /\ heard = {} /\ lost = 0
  /\ is_timestamp_sync_ = FALSE
  /\ raw_packet_queue_ = <<>>
  /\ points_clouds_ = NoClouds /\ frame_ = NoClouds
  /\ previous = [l \in Sensors |-> Never]
  /\ rotated = {} /\ extrinsic_global = Never
  /\ is_quit_ = FALSE /\ processing = "runs"

-----------------------------------------------------------------------------
(* The network and the SDK's thread.                                       *)

(* high_resolution_clock, up to where being later makes no difference.     *)
Tick ==
  /\ heard = Sensors /\ ~is_quit_
  /\ clock' = IF synced = {} THEN clock ELSE Later(clock)
  /\ since' = IF since = Never \/ since >= 2 * Interval THEN since ELSE since + 1
  /\ heard' = {}
  /\ UNCHANGED <<synced, lost, publishVars, is_timestamp_sync_, raw_packet_queue_, is_quit_,
                 processing>>

Sends(l) ==
  /\ l \notin heard /\ ~is_quit_
  /\ heard' = heard \cup {l}
  /\ UNCHANGED <<synced, clock, since>>

PacketLost(l) ==
  /\ lost < MaxLost
  /\ Sends(l)
  /\ lost' = lost + 1
  /\ UNCHANGED <<publishVars, is_timestamp_sync_, raw_packet_queue_, is_quit_, processing>>

(* Inertial data are rotated and handed on at once (see LidarHandoff).     *)
ImuData(l) ==
  /\ ~is_quit_
  /\ is_timestamp_sync_' = (l \in synced)
  /\ UNCHANGED <<sensorVars, publishVars, raw_packet_queue_, is_quit_, processing>>

PointData(l) ==
  /\ Len(raw_packet_queue_) < MaxQueue /\ Len(points_clouds_[l]) < MaxCloud
  /\ Sends(l)
  /\ is_timestamp_sync_' = (l \in synced)
  /\ raw_packet_queue_' =
       Append(raw_packet_queue_, [handle |-> l, time_stamp |-> clock])
  /\ UNCHANGED <<lost, publishVars, is_quit_, processing>>

OnLivoxLidarPointCloudCallback(l) == ImuData(l) \/ PointData(l)

-----------------------------------------------------------------------------
(* The processing thread.                                                  *)

(* The first points of a lidar set its rotation, and the one for inertial  *)
(* data of every lidar.                                                    *)
SetLidarsExtParam(l) ==
  /\ rotated' = rotated \cup {l}
  /\ extrinsic_global' = IF l \in rotated THEN extrinsic_global ELSE l

PointCloudProcess(packet) ==
  [points_clouds_ EXCEPT ![packet.handle] = Append(@, packet.time_stamp)]

(* publish_interval_tolerance_: what the frame must span, short of 1 ms.   *)
SpansInterval_Exact(cloud) == Span(cloud) >= Interval
SpansInterval(cloud) == Span(cloud) >= Interval - PerMs

FrameEnds(cloud) ==
  /\ cloud # <<>>
  /\ (Last(cloud) \div PerMs) % (Interval \div PerMs) = 0
  /\ SpansInterval(cloud)

(* points_callback_ gets the clouds of the lidars in S, which are emptied. *)
TakeClouds(S, clouds) == points_clouds_' = [l \in Sensors |-> IF l \in S THEN <<>> ELSE clouds[l]]

PublishPointCloud(S, clouds) ==
  /\ TakeClouds(S, clouds)
  /\ previous' = [l \in Sensors |-> IF l \in S /\ frame_[l] # <<>> THEN Last(frame_[l]) ELSE previous[l]]
  /\ frame_' = [l \in Sensors |-> IF l \in S THEN clouds[l] ELSE frame_[l]]

Collect(clouds) == points_clouds_' = clouds /\ UNCHANGED <<frame_, previous>>

CheckTimerSynced(l, clouds) ==
  /\ IF FrameEnds(clouds[l]) THEN PublishPointCloud({l}, clouds) ELSE Collect(clouds)
  /\ UNCHANGED since

TooEarly_StartsAnew(clouds) == since' = 0 /\ Collect(clouds)
TooEarly(clouds) == UNCHANGED since /\ Collect(clouds)

(* The first call only sets last_pub_time_; later ones take every lidar's  *)
(* points once the interval has passed.                                    *)
CheckTimerHost(clouds) ==
  \/ /\ since = Never
     /\ since' = 0
     /\ Collect(clouds)
  \/ /\ since # Never
     /\ since < Interval
     /\ TooEarly(clouds)
  \/ /\ since # Never
     /\ since >= Interval
     /\ since' = since - Interval
     /\ PublishPointCloud({l \in Sensors : clouds[l] # <<>>}, clouds)

RawDataProcess ==
  /\ processing = "runs" /\ ~is_quit_
  /\ raw_packet_queue_ # <<>>
  /\ LET packet == Head(raw_packet_queue_)
         clouds == PointCloudProcess(packet)
     IN /\ SetLidarsExtParam(packet.handle)
        /\ IF is_timestamp_sync_ THEN CheckTimerSynced(packet.handle, clouds)
                                 ELSE CheckTimerHost(clouds)
  /\ raw_packet_queue_' = Tail(raw_packet_queue_)
  /\ UNCHANGED <<synced, clock, heard, lost, is_timestamp_sync_, is_quit_, processing>>

(* Uninit removes the observer and sets is_quit_, which wakes nobody up:   *)
(* wait_for ends by itself after 500 ms and the loop looks at is_quit_.    *)
Uninit ==
  /\ ~is_quit_
  /\ is_quit_' = TRUE
  /\ UNCHANGED <<sensorVars, publishVars, is_timestamp_sync_, raw_packet_queue_, processing>>

LeaveLoop ==
  /\ is_quit_ /\ processing = "runs"
  /\ processing' = "done"
  /\ UNCHANGED <<sensorVars, publishVars, is_timestamp_sync_, raw_packet_queue_, is_quit_>>

PubNext ==
  \/ Tick
  \/ \E l \in Sensors : PacketLost(l) \/ OnLivoxLidarPointCloudCallback(l)
  \/ RawDataProcess
  \/ Uninit \/ LeaveLoop

PubSpec == PubInit /\ [][PubNext]_pubVars

(* Time passes, the lidars go on sending and the thread is scheduled.      *)
PubFairness ==
  /\ WF_pubVars(Tick) /\ WF_pubVars(RawDataProcess) /\ WF_pubVars(LeaveLoop)
  /\ \A l \in Sensors : SF_pubVars(PointData(l))

FairPubSpec == PubSpec /\ PubFairness

-----------------------------------------------------------------------------
Follows(t, u) == (u - t) % Horizon \in 1 .. MaxLost + 1

(* While all lidars are synchronised, no packet is sent on twice or out of *)
(* order, and a frame that follows on the one before it without a gap      *)
(* spans one interval and no more (CheckTimer with its 1 ms of tolerance,  *)
(* GetLidarPointClouds).                                                   *)
FramesOnTime ==
  synced = Sensors => \A l \in Sensors :
    previous[l] # Never =>
      LET stream == <<previous[l]>> \o frame_[l]
          Steps == 1 .. Len(stream) - 1
      IN /\ \A i \in Steps : Follows(stream[i], stream[i + 1])
         /\ (\A i \in Steps : stream[i + 1] = Later(stream[i])) => Span(frame_[l]) <= Interval

(* Points that wait for their frame are sent on, whether by the lidars'    *)
(* time or by the host's, as long as the lidars send.                      *)
PointsAreSent ==
  \A l \in Sensors :
    points_clouds_[l] # <<>> ~> points_clouds_[l] = <<>> \/ is_quit_
==============================================================================

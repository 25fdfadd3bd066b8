---------------------------- MODULE LidarInertial ----------------------------
(***************************************************************************)
(* The main loop of point_lio (laserMapping.cpp, li_initialization.cpp,    *)
(* IMU_Processing.cpp): scans wait for inertial samples, the first ones    *)
(* initialise the filter and the map, and from then on the filter is       *)
(* carried from sample to sample and from point to point.                  *)
(*                                                                         *)
(* One thread runs everything: the callbacks in executor.spin_some(),      *)
(* where pc = "spin", and the loop over a scan between two of these calls. *)
(* A cloud is when it begins, the offsets of the points that preprocessing *)
(* and downsampling leave (points of one time are updated together), and   *)
(* the offset of the last raw point.  A sample is its stamp.               *)
(*                                                                         *)
(* Parameters with an influence on the control are members of conf.        *)
(* con_frame and cut_frame are off, as in the robot's configuration; then  *)
(* an empty cloud is never buffered, lose_lid stays false, and time_seq is *)
(* never empty.  flg_reset is never set.  The first scan drops no sample:  *)
(* sync_packages has already taken those before its end.                   *)
(***************************************************************************)
EXTENDS Naturals, Sequences, FiniteSetsExt

CONSTANTS
  MaxTime,       \* bound on stamps
  Offsets,       \* offsets of points in a scan
  MaxScans,      \* bound on clouds received
  MAX_INI_COUNT, \* samples that initialise the filter
  init_map_size  \* points that initialise the map

ASSUME InertialAssumption ==
  /\ MaxTime \in Nat /\ MaxScans \in Nat
  /\ Offsets \subseteq Nat /\ \E o \in Offsets : \A p \in Offsets : p <= o
  /\ MAX_INI_COUNT \in Nat /\ init_map_size \in Nat

Time == 0 .. MaxTime
Clouds == [beg : Time, pts : (SUBSET Offsets) \ {{}}, last : Offsets]
End(cloud) == cloud.beg + cloud.last

VARIABLES
  conf,                    \* the parameters
  lidar_buffer, last_timestamp_lidar, scan_count,
  imu_deque, last_timestamp_imu, imu_last, imu_next,
  Measures,                \* the scan being processed, and how many samples meas.imu holds
  imu_need_init_, init_iter_num, flg_first_scan, init_map, init_feats,
  pc, todo,                \* where the loop is, and the points left in the scan
  time_current, is_first_frame, time_predict_last_const, time_update_last,
  odom                     \* stamp of the last odometry published

lidarVars == <<lidar_buffer, last_timestamp_lidar, scan_count>>
imuVars == <<imu_deque, imu_last, imu_next>>
initVars == <<imu_need_init_, init_iter_num, flg_first_scan, init_map, init_feats>>
clockVars == <<time_current, is_first_frame, time_predict_last_const, time_update_last>>
inertialVars == <<conf, lidarVars, imuVars, last_timestamp_imu, Measures, initVars,
                  pc, todo, clockVars, odom>>

Configurations ==
  {c \in [imu_en : BOOLEAN, use_imu_as_input : BOOLEAN, prop_at_freq_of_imu : BOOLEAN,
          publish_odometry_without_downsample : BOOLEAN] :
     c.use_imu_as_input => c.imu_en}

InertialTypeOK ==
  /\ conf \in Configurations
  /\ lidar_buffer \in Seq(Clouds) /\ imu_deque \in Seq(Time)
  /\ last_timestamp_lidar \in Time /\ last_timestamp_imu \in Time
  /\ imu_last \in Time /\ imu_next \in Time
  /\ Measures \in [lidar : Clouds, imu : Nat]
  /\ scan_count \in Nat /\ init_iter_num \in Nat /\ init_feats \in Nat
  /\ imu_need_init_ \in BOOLEAN /\ flg_first_scan \in BOOLEAN
  /\ init_map \in BOOLEAN /\ is_first_frame \in BOOLEAN
  /\ pc \in {"spin", "scan", "point", "align", "clock", "enter", "catchup", "fuse", "predict"}
  /\ todo \subseteq Offsets
  /\ time_current \in Nat /\ time_predict_last_const \in Nat
  /\ time_update_last \in Nat /\ odom \in Nat

InertialInit ==
  /\ conf \in Configurations
  /\ lidar_buffer = <<>> /\ last_timestamp_lidar = 0 /\ scan_count = 0
  /\ imu_deque = <<>> /\ last_timestamp_imu = 0 /\ imu_last = 0 /\ imu_next = 0
  /\ Measures = [lidar |-> CHOOSE c \in Clouds : TRUE, imu |-> 0]
  /\ imu_need_init_ = TRUE /\ init_iter_num = 1
  /\ flg_first_scan = TRUE /\ init_map = FALSE /\ init_feats = 0
  /\ pc = "spin" /\ todo = {} /\ is_first_frame = TRUE
  /\ time_current = 0 /\ time_predict_last_const = 0 /\ time_update_last = 0
  /\ odom = 0

(***************************************************************************)
(* livox_pcl_cbk and standard_pcl_cbk: a cloud older than the last one is  *)
(* dropped, and so is one of which preprocessing leaves nothing (pts       *)
(* empty).  The clouds of the driver do not overlap.                       *)
(***************************************************************************)
PointCloudCallback(stamp, pts, last) ==
  /\ pc = "spin" /\ scan_count < MaxScans
  /\ scan_count' = scan_count + 1
  /\ IF stamp < last_timestamp_lidar THEN UNCHANGED <<lidar_buffer, last_timestamp_lidar>>
     ELSE /\ last_timestamp_lidar' = stamp
          /\ lidar_buffer' = IF pts = {} THEN lidar_buffer
               ELSE Append(lidar_buffer, [beg |-> stamp, pts |-> pts, last |-> last])
  /\ UNCHANGED <<conf, imuVars, last_timestamp_imu, Measures, initVars, pc, todo, clockVars, odom>>

\* what the driver sends: an old cloud again, or one that begins after the last one ended
DriverSends(stamp, pts, last) ==
  /\ stamp < last_timestamp_lidar \/ stamp >= last_timestamp_lidar + Max(Offsets)
  /\ \A p \in pts : p <= last
  /\ stamp + last <= MaxTime

\* imu_cbk: a sample older than the last one is dropped.
ImuCallback(stamp) ==
  /\ pc = "spin" /\ stamp # last_timestamp_imu     \* equal stamps are left out
  /\ IF stamp < last_timestamp_imu THEN UNCHANGED <<imu_deque, last_timestamp_imu>>
     ELSE imu_deque' = Append(imu_deque, stamp) /\ last_timestamp_imu' = stamp
  /\ UNCHANGED <<conf, lidarVars, imu_last, imu_next, Measures, initVars, pc, todo, clockVars, odom>>

\* how many samples at the head of the deque are earlier than t
Earlier(t) == Cardinality({i \in DOMAIN imu_deque : \A j \in 1 .. i : imu_deque[j] < t})

\* Has a sample come that is as late as the last point?
SamplesCover(scan) ==
  conf.imu_en => imu_deque # <<>> /\ last_timestamp_imu >= End(scan)

(***************************************************************************)
(* sync_packages: a scan is taken when a sample as late as its last point  *)
(* has come.  Before the filter is initialised the samples of the scan go  *)
(* to meas.imu, which is never emptied.                                    *)
(***************************************************************************)
SyncPackages ==
  LET scan == Head(lidar_buffer)
      n    == IF conf.imu_en /\ imu_need_init_ THEN Earlier(End(scan)) ELSE 0
  IN  /\ pc = "spin" /\ lidar_buffer # <<>>
      /\ SamplesCover(scan)
      /\ Measures' = [lidar |-> scan, imu |-> Measures.imu + n]
      /\ IF conf.imu_en /\ imu_need_init_
         THEN /\ imu_deque' = SubSeq(imu_deque, n + 1, Len(imu_deque))
              /\ imu_last' = IF n > 0 THEN imu_deque[n] ELSE imu_last
              /\ imu_next' = imu_deque[IF n < Len(imu_deque) THEN n + 1 ELSE n]
         ELSE UNCHANGED imuVars
      /\ lidar_buffer' = Tail(lidar_buffer)
      /\ pc' = "scan"
      /\ UNCHANGED <<conf, last_timestamp_lidar, scan_count, last_timestamp_imu, initVars,
                     todo, clockVars, odom>>

(***************************************************************************)
(* The part of the loop before the filter: the first scan, ImuProcess,     *)
(* and the map, which is begun with the clouds since the filter was        *)
(* initialised.  A scan used for either is not used for odometry.          *)
(***************************************************************************)
ProcessScan ==
  LET scan  == Measures.lidar
      imuInit == conf.imu_en /\ imu_need_init_ /\ Measures.imu > 0   \* IMU_init is called
      count == IF imuInit THEN init_iter_num + Measures.imu ELSE init_iter_num
      need  == IF conf.imu_en THEN imu_need_init_ /\ count <= MAX_INI_COUNT ELSE FALSE
      feats == init_feats + Cardinality(scan.pts)
  IN  /\ pc = "scan"
      /\ time_current' = IF flg_first_scan THEN 0 ELSE time_current
      /\ flg_first_scan' = FALSE
      /\ init_iter_num' = count
      /\ imu_need_init_' = need
      /\ IF need THEN pc' = "spin" /\ UNCHANGED <<init_map, init_feats, todo>>
         ELSE IF ~init_map
         THEN /\ init_map' = (feats >= init_map_size)
              /\ init_feats' = IF feats >= init_map_size THEN 0 ELSE feats
              /\ pc' = "spin" /\ UNCHANGED todo
         ELSE pc' = "point" /\ todo' = scan.pts /\ UNCHANGED <<init_map, init_feats>>
      /\ UNCHANGED <<conf, lidarVars, imuVars, last_timestamp_imu, Measures, is_first_frame,
                     time_predict_last_const, time_update_last, odom>>

(***************************************************************************)
(* The loop over the points, in order of time.  PopFront is pop_front()    *)
(* with what follows it in every loop of the file: if samples are left,    *)
(* the next one is copied to imu_next.  When none are, imu_next keeps a    *)
(* sample that is no longer in the deque.                                  *)
(***************************************************************************)
PopFront_Kept ==
  IF Len(imu_deque) > 1 THEN imu_last' = imu_next /\ imu_next' = imu_deque[2] /\ UNCHANGED imu_deque
  ELSE UNCHANGED imuVars

PopFront ==
  /\ imu_deque' = Tail(imu_deque)
  /\ IF Len(imu_deque) > 1 THEN imu_last' = imu_next /\ imu_next' = imu_deque[2]
     ELSE UNCHANGED <<imu_last, imu_next>>

\* The points are sorted by time_list.
Earliest_Last(points) == Max(points)

Earliest(points) == Min(points)

NextPoint ==
  /\ pc = "point" /\ todo # {}
  /\ time_current' = Measures.lidar.beg + Earliest(todo)
  /\ pc' = IF is_first_frame THEN "align" ELSE "enter"
  /\ UNCHANGED <<conf, lidarVars, imuVars, last_timestamp_imu, Measures, initVars, todo,
                 is_first_frame, time_predict_last_const, time_update_last, odom>>

\* The first point of all: the samples before it are dropped, and it sets the clocks.
AlignFirstFrame ==
  /\ pc = "align"
  /\ IF conf.imu_en /\ time_current > imu_next
     THEN /\ PopFront
          /\ pc' = IF Len(imu_deque) > 1 THEN "align" ELSE "clock"
     ELSE UNCHANGED imuVars /\ pc' = "clock"
  /\ UNCHANGED <<conf, lidarVars, last_timestamp_imu, Measures, initVars, todo, clockVars, odom>>

SetClock ==
  /\ pc = "clock"
  /\ is_first_frame' = FALSE
  /\ time_update_last' = time_current /\ time_predict_last_const' = time_current
  /\ pc' = "enter"
  /\ UNCHANGED <<conf, lidarVars, imuVars, last_timestamp_imu, Measures, initVars, todo,
                 time_current, odom>>

\* Without a sample in the deque the point is used as it is; the loops look again only
\* after they took one.
EnterSamples ==
  /\ pc = "enter"
  /\ pc' = IF conf.use_imu_as_input THEN "fuse"
           ELSE IF conf.imu_en /\ imu_deque # <<>> THEN "catchup" ELSE "predict"
  /\ UNCHANGED <<conf, lidarVars, imuVars, last_timestamp_imu, Measures, initVars, todo,
                 clockVars, odom>>

\* Samples before the clock are passed over: only one, when imu_next is not the front.
CatchUp ==
  /\ pc = "catchup"
  /\ IF imu_next >= time_predict_last_const THEN pc' = "fuse" /\ UNCHANGED imuVars
     ELSE IF imu_next = Head(imu_deque)
     THEN PopFront /\ pc' = IF Len(imu_deque) > 1 THEN "catchup" ELSE "fuse"
     ELSE /\ imu_last' = imu_next /\ imu_next' = Head(imu_deque)
          /\ pc' = "fuse" /\ UNCHANGED imu_deque
  /\ UNCHANGED <<conf, lidarVars, last_timestamp_imu, Measures, initVars, todo, clockVars, odom>>

SampleComes == time_current > imu_next

(***************************************************************************)
(* A sample before the point: the filter is carried to time t (the         *)
(* covariance only forward) and the sample is taken from the deque.  It is *)
(* measured at t, or, where samples are the input, is that after the one   *)
(* of t.                                                                   *)
(***************************************************************************)
TakeSample(t) ==
  /\ pc = "fuse" /\ SampleComes
  /\ time_predict_last_const' = t
  /\ time_update_last' = IF t > time_update_last THEN t ELSE time_update_last
  /\ PopFront
  /\ pc' = IF Len(imu_deque) > 1 THEN "fuse" ELSE "predict"
  /\ UNCHANGED <<conf, lidarVars, last_timestamp_imu, Measures, initVars, todo,
                 time_current, is_first_frame, odom>>

FuseSample == ~conf.use_imu_as_input /\ TakeSample(imu_next)

InputSample == conf.use_imu_as_input /\ TakeSample(imu_last)

PublishOdometry(stamp) == odom' = stamp

(***************************************************************************)
(* The filter is carried to the point and updated with its plane, if one   *)
(* is found; then the odometry is published with the time of the point.    *)
(***************************************************************************)
UpdateWithPoint(found) ==
  /\ pc = "predict" \/ (pc = "fuse" /\ ~SampleComes)
  /\ time_predict_last_const' = time_current
  /\ time_update_last' = IF conf.prop_at_freq_of_imu \/ time_current <= time_update_last
                         THEN time_update_last ELSE time_current
  /\ IF found /\ conf.publish_odometry_without_downsample
     THEN PublishOdometry(time_current) ELSE UNCHANGED odom
  /\ todo' = todo \ {Earliest(todo)}
  /\ pc' = "point"
  /\ UNCHANGED <<conf, lidarVars, imuVars, last_timestamp_imu, Measures, initVars,
                 time_current, is_first_frame>>

FinishScan ==
  /\ pc = "point" /\ todo = {}
  /\ pc' = "spin"
  /\ IF conf.publish_odometry_without_downsample
     THEN UNCHANGED odom ELSE PublishOdometry(End(Measures.lidar))
  /\ UNCHANGED <<conf, lidarVars, imuVars, last_timestamp_imu, Measures, initVars, todo,
                 clockVars>>

Loop ==
  \/ SyncPackages \/ ProcessScan
  \/ NextPoint \/ AlignFirstFrame \/ SetClock \/ EnterSamples \/ CatchUp \/ FuseSample \/ InputSample
  \/ (\E found \in BOOLEAN : UpdateWithPoint(found))
  \/ FinishScan

InertialNext ==
  \/ \E stamp \in Time, pts \in SUBSET Offsets, last \in Offsets :
       DriverSends(stamp, pts, last) /\ PointCloudCallback(stamp, pts, last)
  \/ \E stamp \in Time : ImuCallback(stamp)
  \/ Loop

(***************************************************************************)
(* The loop runs on, and samples go on coming: without them a scan waits   *)
(* in the buffer for ever.                                                 *)
(***************************************************************************)
SampleArrives == \E stamp \in Time : stamp > last_timestamp_imu /\ ImuCallback(stamp)

InertialFairness == WF_inertialVars(Loop) /\ WF_inertialVars(SampleArrives)

InertialSpec == InertialInit /\ [][InertialNext]_inertialVars /\ InertialFairness

(***************************************************************************)
(* The odometry never goes back in time, and the filter is never carried   *)
(* backwards, from scan to scan and over the samples that came before the  *)
(* map was ready.  (With the samples as its input it is, to the sample     *)
(* before the last point.)                                                 *)
(***************************************************************************)
FilterGoesForward ==
  [][/\ odom' >= odom
     /\ ~conf.use_imu_as_input => time_predict_last_const' >= time_predict_last_const]_inertialVars

\* Every scan that is buffered is taken from the buffer.
ScansAreProcessed == lidar_buffer # <<>> ~> lidar_buffer = <<>>
==============================================================================

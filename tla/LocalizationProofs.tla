-------------------------- MODULE LocalizationProofs --------------------------
(***************************************************************************)
(* What TLAPS proves of the components between the points of the lidars    *)
(* and the place of the robot in the map.                                  *)
(***************************************************************************)
EXTENDS LidarInertial, Preprocess, IVoxMap, TransformChain,
        FiniteSetTheorems, SequenceTheorems, InductionLemmas, TLAPS

-----------------------------------------------------------------------------
(***************************************************************************)
(* TransformChain.  Plus and Minus are the addition and subtraction of a   *)
(* group: first what they compute, then the cancellations the chain needs. *)
(***************************************************************************)

\* Plus and Minus wrap at most once around the places.
LEMMA PlusMinusAre ==
  ASSUME NEW a \in Place, NEW b \in Place
  PROVE  /\ Plus(a, b) = IF a + b < Places THEN a + b ELSE a + b - Places
         /\ Minus(a, b) = IF a >= b THEN a - b ELSE a - b + Places
         /\ Plus(a, b) \in Place /\ Minus(a, b) \in Place
  <1>1. Plus(a, b) = IF a + b < Places THEN a + b ELSE a + b - Places
    BY ChainAssumption DEF Place, Plus
  <1>2. Minus(a, b) = IF a >= b THEN a - b ELSE a - b + Places
    BY ChainAssumption DEF Place, Minus
  <1> QED
    BY <1>1, <1>2, ChainAssumption DEF Place


\* What lies between the lidar and the chassis drops out of odom -> base_footprint.
LEMMA MountCancels ==
  ASSUME NEW tf \in Place, NEW b \in Place, NEW m \in Place, NEW o \in Place
  PROVE  Minus(Plus(tf, Minus(Plus(b, m), o)), m) = Plus(tf, Minus(b, o))
  <1> DEFINE bm == Plus(b, m)
             lidar == Minus(bm, o)
             odo == Plus(tf, lidar)
             left == Minus(odo, m)
             bo == Minus(b, o)
             right == Plus(tf, bo)
  <1>1. bm \in Place /\ (bm = b + m \/ bm = b + m - Places)
    BY PlusMinusAre
  <1>2. lidar \in Place /\ (lidar = bm - o \/ lidar = bm - o + Places)
    BY <1>1, PlusMinusAre
  <1>3. odo \in Place /\ (odo = tf + lidar \/ odo = tf + lidar - Places)
    BY <1>2, PlusMinusAre
  <1>4. left \in Place /\ (left = odo - m \/ left = odo - m + Places)
    BY <1>3, PlusMinusAre
  <1>5. bo \in Place /\ (bo = b - o \/ bo = b - o + Places)
    BY PlusMinusAre
  <1>6. right \in Place /\ (right = tf + bo \/ right = tf + bo - Places)
    BY <1>5, PlusMinusAre
  <1>7. left = right
    <2> HIDE DEF bm, lidar, odo, left, bo, right
    <2> QED
      BY <1>1, <1>2, <1>3, <1>4, <1>5, <1>6, ChainAssumption DEF Place
  <1> QED
    BY <1>7

\* map -> odom and odom -> base_footprint compose to the place and the shift of the map.
LEMMA ChainCloses ==
  ASSUME NEW tf \in Place, NEW b \in Place, NEW o \in Place, NEW s \in Place
  PROVE  Plus(Plus(Minus(o, tf), s), Plus(tf, Minus(b, o))) = Plus(b, s)
  <1> DEFINE ot == Minus(o, tf)
             map == Plus(ot, s)
             bo == Minus(b, o)
             chassis == Plus(tf, bo)
             left == Plus(map, chassis)
             right == Plus(b, s)
  <1>1. ot \in Place /\ (ot = o - tf \/ ot = o - tf + Places)
    BY PlusMinusAre
  <1>2. map \in Place /\ (map = ot + s \/ map = ot + s - Places)
    BY <1>1, PlusMinusAre
  <1>3. bo \in Place /\ (bo = b - o \/ bo = b - o + Places)
    BY PlusMinusAre
  <1>4. chassis \in Place /\ (chassis = tf + bo \/ chassis = tf + bo - Places)
    BY <1>3, PlusMinusAre
  <1>5. left \in Place /\ (left = map + chassis \/ left = map + chassis - Places)
    BY <1>2, <1>4, PlusMinusAre
  <1>6. right \in Place /\ (right = b + s \/ right = b + s - Places)
    BY PlusMinusAre
  <1>7. left = right
    <2> HIDE DEF ot, map, bo, chassis, left, right
    <2> QED
      BY <1>1, <1>2, <1>3, <1>4, <1>5, <1>6, ChainAssumption DEF Place
  <1> QED
    BY <1>7

(***************************************************************************)
(* The chain's invariant.  What point_lio publishes is the lidar's place   *)
(* seen from where it started; what loam_interface passes on is that, and  *)
(* the offset of the odom frame, which no later message changes; a scan    *)
(* moved after that was moved by the offset; and so the last two links are *)
(* what they should be, each for the moment at which it was made.          *)
(***************************************************************************)
MovedScan == [moved : Place, ready : BOOLEAN]
OdometryMsg == [base : Place, mount : Mounts, pose : Place]
ScanMsg == [base : Place, mount : Mounts, moved : Place, ready : BOOLEAN]
Sources == {"parameters", "operator", "scans", "unready scans"}
OdomBase == [pose : Place, base : Place, exact : BOOLEAN]
MapOdom == [pose : Place, from : Sources]

ChainTypeOK ==
  /\ base \in Place /\ mount \in Mounts
  /\ origin \in Place \cup {None} /\ mapShift \in Place \cup {None}
  /\ base_frame_to_lidar_initialized_ \in BOOLEAN
  /\ tf_odom_to_lidar_odom_ \in Place
  /\ lioOdom \in OdometryMsg \cup {None} /\ lioScan \in OdometryMsg \cup {None}
  /\ lidarOdometry \in OdometryMsg \cup {None}
  /\ registeredScan \in ScanMsg \cup {None}
  /\ gicpScan \in MovedScan \cup {None} /\ accumulated_cloud_ \subseteq MovedScan
  /\ tfOdomBase \in OdomBase \cup {None}
  /\ result_t_ \in Place /\ resultFrom \in Sources
  /\ tfMapOdom \in MapOdom \cup {None}

\* What the odometry of point_lio says of a lidar on chassis b, mounted at m.
SeenFromOrigin(b, m) == Minus(Plus(b, m), origin)

LioIsTrue ==
  lioOdom # None => /\ origin # None
                    /\ lioOdom.pose = SeenFromOrigin(lioOdom.base, lioOdom.mount)

LoamIsTrue ==
  lidarOdometry # None =>
    /\ origin # None /\ base_frame_to_lidar_initialized_
    /\ lidarOdometry.pose =
         Plus(tf_odom_to_lidar_odom_, SeenFromOrigin(lidarOdometry.base, lidarOdometry.mount))

OdomBaseIsTrue ==
  tfOdomBase # None /\ tfOdomBase.exact =>
    /\ origin # None /\ base_frame_to_lidar_initialized_
    /\ tfOdomBase.pose = Plus(tf_odom_to_lidar_odom_, Minus(tfOdomBase.base, origin))

\* A scan moved after the lookup was moved by what the lookup gave.
MovedByOffset(c) ==
  c.ready => base_frame_to_lidar_initialized_ /\ c.moved = tf_odom_to_lidar_odom_

ScansAreMoved ==
  /\ lioScan # None => origin # None
  /\ gicpScan # None => origin # None /\ MovedByOffset(gicpScan)
  /\ \A c \in accumulated_cloud_ : origin # None /\ MovedByOffset(c)
  /\ accumulated_cloud_ # {} => mapShift # None

\* map -> odom, as a registration of scans gives it
AlignedWithMap(pose) ==
  /\ origin # None /\ mapShift # None /\ base_frame_to_lidar_initialized_
  /\ pose = Plus(Minus(origin, tf_odom_to_lidar_odom_), mapShift)

ResultIsTrue ==
  /\ resultFrom = "scans" => AlignedWithMap(result_t_)
  /\ tfMapOdom # None /\ tfMapOdom.from = "scans" => AlignedWithMap(tfMapOdom.pose)

ChainInv ==
  /\ ChainTypeOK
  /\ LioIsTrue /\ LoamIsTrue /\ OdomBaseIsTrue /\ ScansAreMoved /\ ResultIsTrue

\* A place is what remains of any integer, and the constants are places.
LEMMA PlacesWrap ==
  /\ \A a, b \in Int : Plus(a, b) \in Place /\ Minus(a, b) \in Place
  /\ Place \subseteq Int /\ Mounts \subseteq Place /\ InitialPoses \subseteq Place /\ 0 \in Place
  /\ None \notin Place
  <1>1. \A n \in Int : n % Places \in Place
    BY ChainAssumption DEF Place
  <1>2. \A a, b \in Int : Plus(a, b) \in Place /\ Minus(a, b) \in Place
    BY <1>1 DEF Plus, Minus
  <1>3. Place \subseteq Int /\ 0 \in Place /\ None \notin Place
    BY ChainAssumption DEF Place
  <1>4. Mounts \subseteq Place /\ InitialPoses \subseteq Place
    BY ChainAssumption DEF Place
  <1> QED
    BY <1>2, <1>3, <1>4

\* Every step of the chain keeps the types.
LEMMA ChainTypeStep == ChainTypeOK /\ ScansAreMoved /\ [ChainNext]_chainVars => ChainTypeOK'
  <1> SUFFICES ASSUME ChainTypeOK, ScansAreMoved, [ChainNext]_chainVars
               PROVE  ChainTypeOK'
    OBVIOUS
  <1>a. \A a, b \in Int : Plus(a, b) \in Place /\ Minus(a, b) \in Place
    BY PlacesWrap
  <1>b. Place \subseteq Int /\ Mounts \subseteq Place /\ InitialPoses \subseteq Place /\ 0 \in Place
    BY PlacesWrap
  <1> USE DEF ChainTypeOK
  <1>1. CASE Move
    <2>1. base' \in Place /\ mount' \in Mounts
      BY <1>1, <1>a, <1>b DEF Move
    <2> QED
      BY <1>1, <2>1 DEF Move, lioVars, loamVars, gicpVars
  <1>2. CASE LioPublish
    <2> DEFINE start == IF origin = None THEN Plus(base, mount) ELSE origin
               msg == [base |-> base, mount |-> mount, pose |-> Minus(Plus(base, mount), start)]
    <2>1. Plus(base, mount) \in Place /\ start \in Place
      BY <1>a, <1>b
    <2>2. Minus(Plus(base, mount), start) \in Place
      BY <2>1, <1>a, <1>b
    <2>3. msg \in OdometryMsg
      BY <2>2 DEF OdometryMsg
    <2>4. origin' = start /\ lioOdom' = msg /\ lioScan' = msg
      BY <1>2 DEF LioPublish
    <2> HIDE DEF start, msg
    <2> QED
      BY <1>2, <2>1, <2>3, <2>4 DEF LioPublish, world, loamVars, gicpVars
  <1>3. ASSUME NEW found \in BOOLEAN, LoamOdometryCallback(found)
        PROVE  ChainTypeOK'
    <2> DEFINE offset == IF base_frame_to_lidar_initialized_ THEN tf_odom_to_lidar_odom_ ELSE lioOdom.mount
               moved == [lioOdom EXCEPT !.pose = Plus(offset, @)]
    <2>1. lioOdom \in OdometryMsg
      BY <1>3 DEF LoamOdometryCallback
    <2>2. offset \in Place /\ lioOdom.pose \in Place
      BY <2>1, <1>b DEF OdometryMsg
    <2>3. Plus(offset, lioOdom.pose) \in Place
      BY <2>2, <1>a, <1>b
    <2>4. moved \in OdometryMsg
      BY <2>1, <2>3 DEF OdometryMsg
    <2>5. CASE ~base_frame_to_lidar_initialized_ /\ ~found
      BY <1>3, <2>5 DEF LoamOdometryCallback, world, loamVars, gicpVars
    <2>6. CASE base_frame_to_lidar_initialized_ \/ found
      <3>1. /\ base_frame_to_lidar_initialized_' = TRUE
            /\ tf_odom_to_lidar_odom_' = offset /\ lidarOdometry' = moved
        BY <1>3, <2>6 DEF LoamOdometryCallback
      <3>2. UNCHANGED <<registeredScan, world, origin, lioScan, gicpScan, tfOdomBase, gicpVars>> /\ lioOdom' = None
        BY <1>3, <2>6 DEF LoamOdometryCallback
      <3> HIDE DEF offset, moved
      <3> QED
        BY <3>1, <3>2, <2>2, <2>4 DEF world, gicpVars
    <2> QED
      BY <2>5, <2>6
  <1>4. ASSUME NEW found \in BOOLEAN, LaserCloudAndOdometryHandler(found)
        PROVE  ChainTypeOK'
    <2>1. lidarOdometry \in OdometryMsg /\ registeredScan \in ScanMsg
      BY <1>4 DEF LaserCloudAndOdometryHandler
    <2>2. GetTransform(found, registeredScan) \in Place /\ lidarOdometry.pose \in Place /\ registeredScan.base \in Place
      BY <2>1, <1>b DEF GetTransform, ScanMsg, OdometryMsg
    <2>3. Minus(lidarOdometry.pose, GetTransform(found, registeredScan)) \in Place
      BY <2>2, <1>a, <1>b
    <2>4. tfOdomBase' \in OdomBase
      BY <1>4, <2>2, <2>3 DEF LaserCloudAndOdometryHandler, OdomBase
    <2> QED
      BY <1>4, <2>4 DEF LaserCloudAndOdometryHandler, world, lioVars, gicpVars
  <1>5. CASE LoamPointCloudCallback
    <2>1. lioScan \in OdometryMsg
      BY <1>5 DEF LoamPointCloudCallback
    <2>2. registeredScan' \in ScanMsg /\ gicpScan' \in MovedScan
      BY <1>5, <2>1 DEF LoamPointCloudCallback, OdometryMsg, ScanMsg, MovedScan
    <2> QED
      BY <1>5, <2>2 DEF LoamPointCloudCallback, world, gicpVars
  <1>6. CASE LoadGlobalMap
    <2>1. mapShift' \in Place
      BY <1>6, <1>a, <1>b, ChainAssumption DEF LoadGlobalMap
    <2> QED
      BY <1>6, <2>1 DEF LoadGlobalMap, world, lioVars, loamVars
  <1>7. CASE RegisteredPcdCallback
    BY <1>7 DEF RegisteredPcdCallback, world, lioVars, loamVars
  <1>8. CASE PublishTransform
    <2>1. tfMapOdom' \in MapOdom
      BY <1>8 DEF PublishTransform, MapOdom
    <2> QED
      BY <1>8, <2>1 DEF PublishTransform, world, lioVars, loamVars
  <1>9. ASSUME NEW converged \in BOOLEAN, PerformRegistration(converged)
        PROVE  ChainTypeOK'
    <2>1. result_t_' \in Place
      <3>1. CASE ~converged
        BY <1>9, <3>1 DEF PerformRegistration
      <3>2. CASE converged
        <4>1. PICK c \in accumulated_cloud_ : result_t_' = Plus(Minus(origin, c.moved), mapShift)
          BY <1>9, <3>2 DEF PerformRegistration
        <4>2. origin \in Place /\ mapShift \in Place /\ c.moved \in Place
          BY <1>9, <4>1 DEF PerformRegistration, ScansAreMoved, MovedScan
        <4>3. Minus(origin, c.moved) \in Place
          BY <4>2, <1>a, <1>b
        <4> QED
          BY <4>1, <4>2, <4>3, <1>a, <1>b
      <3> QED
        BY <3>1, <3>2
    <2>2. resultFrom' \in Sources
      BY <1>9 DEF PerformRegistration, Sources
    <2> QED
      BY <1>9, <2>1, <2>2 DEF PerformRegistration, world, lioVars, loamVars
  <1>10. ASSUME NEW pose \in InitialPoses, InitialPoseCallback(pose)
         PROVE  ChainTypeOK'
    <2>1. result_t_' \in Place /\ resultFrom' \in Sources
      <3>1. CASE scanSeen /\ tfOdomBase # None
        <4>1. tfOdomBase.pose \in Place
          BY <3>1 DEF OdomBase
        <4> QED
          BY <1>10, <3>1, <4>1, <1>a, <1>b DEF InitialPoseCallback, Sources
      <3> QED
        BY <1>10, <3>1 DEF InitialPoseCallback
    <2> QED
      BY <1>10, <2>1 DEF InitialPoseCallback, world, lioVars, loamVars
  <1>11. CASE UNCHANGED chainVars
    BY <1>11 DEF chainVars, world, lioVars, loamVars, gicpVars
  <1> QED
    BY <1>1, <1>2, <1>3, <1>4, <1>5, <1>6, <1>7, <1>8, <1>9, <1>10, <1>11 DEF ChainNext

\* The places that the chain's formulas are made of
LEMMA ChainPlaces ==
  ASSUME ChainTypeOK
  PROVE  /\ base \in Place /\ mount \in Place
         /\ origin # None => origin \in Place
         /\ lioOdom # None => lioOdom.base \in Place /\ lioOdom.mount \in Place
         /\ lidarOdometry # None => lidarOdometry.base \in Place /\ lidarOdometry.mount \in Place
         /\ tfOdomBase # None => tfOdomBase.base \in Place /\ tfOdomBase.pose \in Place
  BY PlacesWrap DEF ChainTypeOK, OdometryMsg, OdomBase

\* Every step of the chain keeps the invariant.
LEMMA ChainInvStep == ChainInv /\ [ChainNext]_chainVars => ChainInv'
  <1> SUFFICES ASSUME ChainInv, [ChainNext]_chainVars
               PROVE  ChainInv'
    OBVIOUS
  <1> USE DEF ChainInv
  <1>0. ChainTypeOK'
    BY ChainTypeStep
  <1> USE DEF LioIsTrue, LoamIsTrue, OdomBaseIsTrue, ScansAreMoved, ResultIsTrue,
              AlignedWithMap, MovedByOffset, SeenFromOrigin
  <1>1. CASE Move
    BY <1>0, <1>1 DEF Move, lioVars, loamVars, gicpVars
  <1>2. CASE LioPublish
    <2>1. origin' # None /\ (origin # None => origin' = origin)
      BY <1>2, ChainPlaces, PlusMinusAre, PlacesWrap DEF LioPublish
    <2>2. LioIsTrue'
      BY <1>2, <2>1 DEF LioPublish
    <2> QED
      BY <1>0, <1>2, <2>1, <2>2 DEF LioPublish, world, loamVars, gicpVars
  <1>3. ASSUME NEW found \in BOOLEAN, LoamOdometryCallback(found)
        PROVE  ChainInv'
    <2>1. CASE ~base_frame_to_lidar_initialized_ /\ ~found
      BY <1>0, <1>3, <2>1 DEF LoamOdometryCallback, world, loamVars, gicpVars
    <2>2. CASE base_frame_to_lidar_initialized_ \/ found
      <3>1. LoamIsTrue'
        BY <1>3, <2>2 DEF LoamOdometryCallback, ChainTypeOK, OdometryMsg
      <3>2. base_frame_to_lidar_initialized_ => tf_odom_to_lidar_odom_' = tf_odom_to_lidar_odom_
        BY <1>3, <2>2 DEF LoamOdometryCallback
      <3>3. /\ base_frame_to_lidar_initialized_' /\ lioOdom' = None
            /\ UNCHANGED <<registeredScan, world, origin, lioScan, gicpScan, tfOdomBase, gicpVars>>
        BY <1>3, <2>2 DEF LoamOdometryCallback
      <3> QED
        BY <1>0, <3>1, <3>2, <3>3 DEF gicpVars
    <2> QED
      BY <2>1, <2>2
  <1>4. ASSUME NEW found \in BOOLEAN, LaserCloudAndOdometryHandler(found)
        PROVE  ChainInv'
    <2>1. OdomBaseIsTrue'
      <3> SUFFICES ASSUME tfOdomBase'.exact
                   PROVE  OdomBaseIsTrue'
        OBVIOUS
      <3>1. /\ found /\ lidarOdometry # None
            /\ lidarOdometry.base = registeredScan.base /\ lidarOdometry.mount = registeredScan.mount
            /\ tfOdomBase'.base = registeredScan.base
            /\ tfOdomBase'.pose = Minus(lidarOdometry.pose, registeredScan.mount)
        BY <1>4 DEF LaserCloudAndOdometryHandler, GetTransform
      <3>2. tfOdomBase'.pose = Plus(tf_odom_to_lidar_odom_, Minus(tfOdomBase'.base, origin))
        BY <3>1, MountCancels, ChainPlaces DEF ChainTypeOK
      <3>3. origin # None /\ base_frame_to_lidar_initialized_
        BY <3>1
      <3>4. UNCHANGED <<origin, base_frame_to_lidar_initialized_, tf_odom_to_lidar_odom_>>
        BY <1>4 DEF LaserCloudAndOdometryHandler, lioVars
      <3> QED
        BY <3>2, <3>3, <3>4 DEF OdomBaseIsTrue
    <2> QED
      BY <1>0, <1>4, <2>1 DEF LaserCloudAndOdometryHandler, world, lioVars, gicpVars
  <1>5. CASE LoamPointCloudCallback
    BY <1>0, <1>5 DEF LoamPointCloudCallback, world, gicpVars
  <1>6. CASE LoadGlobalMap
    <2>1. mapShift' # None /\ (mapShift # None => mapShift' = mapShift)
      BY <1>6, ChainAssumption, ChainPlaces, PlacesWrap DEF LoadGlobalMap
    <2> QED
      BY <1>0, <1>6, <2>1 DEF LoadGlobalMap, world, lioVars, loamVars
  <1>7. CASE RegisteredPcdCallback
    BY <1>0, <1>7 DEF RegisteredPcdCallback, world, lioVars, loamVars
  <1>8. CASE PublishTransform
    BY <1>0, <1>8 DEF PublishTransform, world, lioVars, loamVars
  <1>9. ASSUME NEW converged \in BOOLEAN, PerformRegistration(converged)
        PROVE  ChainInv'
    <2>1. resultFrom' = "scans" => AlignedWithMap(result_t_')
      BY <1>9 DEF PerformRegistration
    <2> QED
      BY <1>0, <1>9, <2>1 DEF PerformRegistration, world, lioVars, loamVars
  <1>10. ASSUME NEW pose \in InitialPoses, InitialPoseCallback(pose)
         PROVE  ChainInv'
    BY <1>0, <1>10 DEF InitialPoseCallback, world, lioVars, loamVars
  <1>11. CASE UNCHANGED chainVars
    BY <1>0, <1>11 DEF chainVars, world, lioVars, loamVars, gicpVars
  <1> QED
    BY <1>1, <1>2, <1>3, <1>4, <1>5, <1>6, <1>7, <1>8, <1>9, <1>10, <1>11 DEF ChainNext

\* Where the chain begins, nothing has been said yet.
LEMMA ChainInvInit == ChainInit => ChainInv
  BY PlacesWrap DEF ChainInit, ChainInv, ChainTypeOK, LioIsTrue, LoamIsTrue, OdomBaseIsTrue,
     ScansAreMoved, ResultIsTrue, Sources

(* How the three poses relate to the two origins, in every behaviour.      *)
THEOREM ChainInvariant == ChainSpec => []ChainInv
  BY ChainInvInit, ChainInvStep, PTL DEF ChainSpec

(***************************************************************************)
(* The place of the chassis in the map is true, for any number of places,  *)
(* any mounting and any order of the messages, with lookups that fail when *)
(* they like: what the mount contributed cancels in the lookup at the      *)
(* stamp, where point_lio started and the offset of the odom frame cancel  *)
(* between the two transforms.                                             *)
(***************************************************************************)
THEOREM ChainPoseIsTrue == ChainSpec => []PoseIsTrue
  <1>1. ChainInv => PoseIsTrue
    <2> SUFFICES ASSUME ChainInv, tfMapOdom # None, tfOdomBase # None,
                        tfMapOdom.from = "scans", tfOdomBase.exact
                 PROVE  Plus(tfMapOdom.pose, tfOdomBase.pose) = Plus(tfOdomBase.base, mapShift)
      BY DEF PoseIsTrue
    <2>1. AlignedWithMap(tfMapOdom.pose)
      BY DEF ChainInv, ResultIsTrue
    <2>2. /\ origin \in Place /\ mapShift \in Place /\ tfOdomBase.base \in Place
          /\ tf_odom_to_lidar_odom_ \in Place
      BY <2>1, ChainPlaces DEF ChainInv, ChainTypeOK, AlignedWithMap
    <2>3. tfOdomBase.pose = Plus(tf_odom_to_lidar_odom_, Minus(tfOdomBase.base, origin))
      BY DEF ChainInv, OdomBaseIsTrue
    <2> QED
      BY <2>1, <2>2, <2>3, ChainCloses DEF AlignedWithMap
  <1> QED
    BY <1>1, ChainInvariant, PTL

-----------------------------------------------------------------------------
(***************************************************************************)
(* Preprocess.  A point's angle tells its time but for whole revolutions:  *)
(* Velodyne points must stay in the first one, and a ring of hesai_handler *)
(* never skips one, so that counting them once, by the offset that seems   *)
(* to go back, recovers the time.                                          *)
(***************************************************************************)
Angle(t) == (-t) % Turn

\* The time in the first revolution at which the lidar looks this way
FirstTime(yaw) == IF yaw = 0 THEN 0 ELSE Turn - yaw

Layer == CHOOSE r \in Rings : TRUE

PreprocessTypeOK ==
  /\ handler \in {"avia", "oust64", "velodyne", "hesai"} /\ given_offset_time \in BOOLEAN
  /\ handler \in {"avia", "oust64"} => given_offset_time
  /\ elapsed \in Nat /\ seen \in [Rings -> Nat] /\ \A r \in Rings : seen[r] <= elapsed
  /\ yaw_fp \in [Rings -> (0 .. Turn - 1) \cup {NaN, NoYaw}]
  /\ time_last \in [Rings -> Int \cup {NaN}]
  /\ pl_surf \subseteq [ring : Rings, curvature : Int \cup {NaN}, time : Nat]

\* With stamps, the offset of a point is its time.
StampsAreTimes == given_offset_time => \A p \in pl_surf : p.curvature = p.time

\* In the first revolution, the angle of the first point and that of a point give the time between.
SweepsForward ==
  handler = "velodyne" /\ ~given_offset_time =>
    /\ yaw_fp[Layer] # NaN
    /\ yaw_fp[Layer] = NoYaw => pl_surf = {}
    /\ yaw_fp[Layer] # NoYaw /\ elapsed < Turn =>
         /\ FirstTime(yaw_fp[Layer]) <= elapsed
         /\ \A p \in pl_surf : p.curvature \in {Turn, p.time - FirstTime(yaw_fp[Layer])}

\* When the first point of a ring came: seen and time_last move on together.
RingStart(r) == seen[r] - time_last[r]

RingHasStart(r) ==
  IF yaw_fp[r] \in {NaN, NoYaw}
  THEN time_last[r] = 0 /\ \A p \in pl_surf : p.ring # r
  ELSE /\ time_last[r] \in 0 .. seen[r]
       /\ yaw_fp[r] = Angle(RingStart(r))
       /\ \A p \in pl_surf : p.ring = r => p.curvature = p.time - RingStart(r)

RingsGoOn ==
  handler = "hesai" /\ ~given_offset_time /\ elapsed < 2 * Turn =>
    \A r \in Rings \ spoilt : RingHasStart(r)

PreprocessInv == PreprocessTypeOK /\ StampsAreTimes /\ SweepsForward /\ RingsGoOn

\* Angles in the first two revolutions
LEMMA AngleIs ==
  ASSUME NEW t \in Nat
  PROVE  /\ Angle(t) \in 0 .. Turn - 1
         /\ t = 0 => Angle(t) = 0
         /\ 0 < t /\ t < Turn => Angle(t) = Turn - t
         /\ t >= Turn /\ t < 2 * Turn => Angle(t) = IF t = Turn THEN 0 ELSE 2 * Turn - t
  <1>1. Turn \in Nat \ {0}
    BY PreprocessAssumption
  <1>2. Angle(t) \in 0 .. Turn - 1
    BY <1>1 DEF Angle
  <1>3. t = 0 => Angle(t) = 0
    BY <1>1 DEF Angle
  <1>4. 0 < t /\ t < Turn => Angle(t) = Turn - t
    BY <1>1 DEF Angle
  <1>5. t >= Turn /\ t < 2 * Turn => Angle(t) = IF t = Turn THEN 0 ELSE 2 * Turn - t
    BY <1>1 DEF Angle
  <1> QED
    BY <1>2, <1>3, <1>4, <1>5

\* What a step takes of its point, whatever the handler
LEMMA PointComes ==
  ASSUME PreprocessTypeOK, NEW p \in Points, NextPointOfMessage(p)
  PROVE  /\ p.ring \in Rings /\ elapsed' \in Nat /\ elapsed <= elapsed'
         /\ elapsed' - seen[p.ring] < Turn /\ seen[p.ring] <= elapsed'
         /\ seen' = [seen EXCEPT ![p.ring] = elapsed']
         /\ seen' \in [Rings -> Nat] /\ \A r \in Rings : seen'[r] <= elapsed'
         /\ handler' = handler /\ given_offset_time' = given_offset_time
         /\ Yaw(p) = IF p.kind = "nan" THEN NaN ELSE Angle(elapsed')
         /\ Yaw(p) \in (0 .. Turn - 1) \cup {NaN}
  <1>1. p.ring \in Rings /\ p.after \in Nat
    BY PreprocessAssumption DEF Points
  <1>2. elapsed' = elapsed + p.after /\ elapsed' - seen[p.ring] < Turn
    BY DEF NextPointOfMessage
  <1>3. elapsed' \in Nat /\ elapsed <= elapsed'
    BY <1>1, <1>2 DEF PreprocessTypeOK
  <1>4. seen' = [seen EXCEPT ![p.ring] = elapsed']
    BY DEF NextPointOfMessage
  <1>5. seen' \in [Rings -> Nat] /\ \A r \in Rings : seen'[r] <= elapsed'
    BY <1>1, <1>3, <1>4 DEF PreprocessTypeOK
  <1>6. Yaw(p) = IF p.kind = "nan" THEN NaN ELSE Angle(elapsed')
    BY DEF Yaw, Angle
  <1> QED
    BY <1>1, <1>2, <1>3, <1>4, <1>5, <1>6, AngleIs DEF NextPointOfMessage, PreprocessTypeOK

\* A point that is kept
KeptPoint(p, curvature) == [ring |-> p.ring, curvature |-> curvature, time |-> elapsed']

\* avia_handler, and the others when the points have times
LEMMA KeepsStamped ==
  ASSUME PreprocessInv, NEW p \in Points, NextPointOfMessage(p), AviaPoint(p) \/ StampedPoint(p)
  PROVE  PreprocessInv'
  <1>1. given_offset_time
    BY DEF AviaPoint, StampedPoint, PreprocessInv, PreprocessTypeOK
  <1>2. pl_surf' = pl_surf \/ pl_surf' = pl_surf \cup {KeptPoint(p, elapsed')}
    BY DEF AviaPoint, StampedPoint, Kept, KeptPoint
  <1>3. UNCHANGED <<yaw_fp, time_last>>
    BY DEF AviaPoint, StampedPoint
  <1>4. KeptPoint(p, elapsed') \in [ring : Rings, curvature : Int \cup {NaN}, time : Nat]
    BY PointComes DEF KeptPoint, PreprocessInv
  <1>5. PreprocessTypeOK'
    BY <1>2, <1>3, <1>4, PointComes DEF PreprocessInv, PreprocessTypeOK
  <1>6. StampsAreTimes'
    BY <1>1, <1>2 DEF KeptPoint, PreprocessInv, StampsAreTimes
  <1>7. given_offset_time'
    BY <1>1, PointComes DEF PreprocessInv
  <1> QED
    BY <1>5, <1>6, <1>7 DEF PreprocessInv, SweepsForward, RingsGoOn

\* velodyne_handler without times
LEMMA KeepsVelodyne ==
  ASSUME PreprocessInv, NEW p \in Points, NextPointOfMessage(p), VelodynePoint(p)
  PROVE  PreprocessInv'
  <1> DEFINE t == elapsed'
             fp == yaw_fp[Layer]
             yaw == Yaw(p)
             curvature == IF yaw < fp THEN fp - yaw ELSE fp - yaw + Turn
  <1>1. handler = "velodyne" /\ ~given_offset_time /\ Layer \in Rings
    BY PreprocessAssumption DEF VelodynePoint, Layer
  <1>2. UNCHANGED <<time_last, spoilt>>
    BY DEF VelodynePoint
  <1>3. \/ UNCHANGED <<yaw_fp, pl_surf>>
        \/ /\ fp = NoYaw /\ yaw # NaN
           /\ yaw_fp' = [yaw_fp EXCEPT ![Layer] = yaw] /\ UNCHANGED pl_surf
        \/ /\ fp # NoYaw /\ yaw # NaN /\ UNCHANGED yaw_fp
           /\ pl_surf' \in {pl_surf, pl_surf \cup {KeptPoint(p, curvature)}}
    <2>1. p.kind # "nan" => Yaw(p) # NaN
      BY PointComes, PreprocessAssumption, AngleIs DEF PreprocessInv
    <2> QED
      BY <2>1 DEF VelodynePoint, Layer, Kept, KeptPoint
  <1>4. /\ t \in Nat /\ elapsed \in Nat /\ elapsed <= t
        /\ fp \in (0 .. Turn - 1) \cup {NaN, NoYaw} /\ yaw \in (0 .. Turn - 1) \cup {NaN}
        /\ yaw # NaN => yaw = Angle(t)
        /\ Turn \in Nat \ {0}
    BY <1>1, PointComes, PreprocessAssumption DEF PreprocessInv, PreprocessTypeOK
  <1>5. yaw # NaN => yaw_fp' \in [Rings -> (0 .. Turn - 1) \cup {NaN, NoYaw}]
    BY <1>1, <1>3, <1>4 DEF PreprocessInv, PreprocessTypeOK
  <1>6. yaw # NaN /\ fp \in 0 .. Turn - 1 => KeptPoint(p, curvature) \in [ring : Rings, curvature : Int, time : Nat]
    BY <1>4, PointComes DEF KeptPoint, PreprocessInv
  <1>7. CASE UNCHANGED <<yaw_fp, pl_surf>>
    <2>1. PreprocessTypeOK'
      BY <1>7, <1>2, PointComes DEF PreprocessInv, PreprocessTypeOK
    <2>2. SweepsForward'
      BY <1>7, <1>1, <1>4 DEF PreprocessInv, SweepsForward, FirstTime
    <2> QED
      BY <1>1, <2>1, <2>2, PointComes DEF PreprocessInv, StampsAreTimes, RingsGoOn
  <1>8. CASE /\ fp = NoYaw /\ yaw # NaN
             /\ yaw_fp' = [yaw_fp EXCEPT ![Layer] = yaw] /\ UNCHANGED pl_surf
    <2>1. PreprocessTypeOK'
      BY <1>8, <1>2, <1>5, PointComes DEF PreprocessInv, PreprocessTypeOK
    <2>2. pl_surf' = {}
      BY <1>1, <1>8 DEF PreprocessInv, SweepsForward
    <2>3. yaw_fp'[Layer] = Angle(t) /\ yaw_fp'[Layer] # NaN
      BY <1>1, <1>4, <1>8 DEF PreprocessInv, PreprocessTypeOK
    <2>4. t < Turn => FirstTime(Angle(t)) = t
      BY <1>4, AngleIs DEF FirstTime
    <2>5. SweepsForward'
      BY <2>2, <2>3, <2>4, <1>4 DEF SweepsForward
    <2> QED
      BY <1>1, <2>1, <2>5, PointComes DEF PreprocessInv, StampsAreTimes, RingsGoOn
  <1>9. CASE /\ fp # NoYaw /\ yaw # NaN /\ UNCHANGED yaw_fp
             /\ pl_surf' \in {pl_surf, pl_surf \cup {KeptPoint(p, curvature)}}
    <2>1. fp \in 0 .. Turn - 1
      BY <1>1, <1>4, <1>9 DEF PreprocessInv, SweepsForward
    <2>2. PreprocessTypeOK'
      BY <1>9, <1>2, <1>6, <2>1, PointComes DEF PreprocessInv, PreprocessTypeOK
    <2>3. t < Turn /\ FirstTime(fp) <= t => curvature \in {Turn, t - FirstTime(fp)}
      BY <1>4, <1>9, <2>1, AngleIs DEF FirstTime
    <2>4. t < Turn => /\ FirstTime(fp) <= t
                      /\ \A q \in pl_surf' : q.curvature \in {Turn, q.time - FirstTime(fp)}
      <3> SUFFICES ASSUME t < Turn
                   PROVE  /\ FirstTime(fp) <= t
                          /\ \A q \in pl_surf' : q.curvature \in {Turn, q.time - FirstTime(fp)}
        OBVIOUS
      <3>1. /\ FirstTime(fp) <= elapsed
            /\ \A q \in pl_surf : q.curvature \in {Turn, q.time - FirstTime(fp)}
        BY <1>1, <1>4, <1>9 DEF PreprocessInv, SweepsForward
      <3>2. FirstTime(fp) <= t
        BY <3>1, <2>1, <1>4 DEF FirstTime
      <3>3. \A q \in {KeptPoint(p, curvature)} : q.curvature \in {Turn, q.time - FirstTime(fp)}
        BY <2>3, <3>2 DEF KeptPoint
      <3> HIDE DEF curvature
      <3> QED
        BY <3>1, <3>2, <3>3, <1>9
    <2>5. SweepsForward'
      BY <1>9, <2>1, <2>4, PreprocessAssumption DEF SweepsForward
    <2> QED
      BY <1>1, <2>2, <2>5, PointComes DEF PreprocessInv, StampsAreTimes, RingsGoOn
  <1> QED
    BY <1>3, <1>7, <1>8, <1>9

\* The offset in a revolution, one more if it seems to go back, is the time since the start.
LEMMA WrappedIsTime ==
  ASSUME NEW start \in Nat, NEW last \in Nat, NEW t \in Nat,
         start + last <= t, t - (start + last) < Turn, t < 2 * Turn
  PROVE  LET fp == Angle(start)
             raw == IF Angle(t) <= fp THEN fp - Angle(t) ELSE fp - Angle(t) + Turn
         IN  Wrapped(raw, last) = t - start
  <1> DEFINE fp == Angle(start)
             yaw == Angle(t)
             raw == IF yaw <= fp THEN fp - yaw ELSE fp - yaw + Turn
  <1>1. Turn \in Nat \ {0} /\ last # NaN
    BY PreprocessAssumption
  <1>2. \/ start = 0 /\ fp = 0
        \/ 0 < start /\ start < Turn /\ fp = Turn - start
        \/ start = Turn /\ fp = 0
        \/ Turn < start /\ start < 2 * Turn /\ fp = 2 * Turn - start
    BY <1>1, AngleIs
  <1>3. \/ t = 0 /\ yaw = 0
        \/ 0 < t /\ t < Turn /\ yaw = Turn - t
        \/ t = Turn /\ yaw = 0
        \/ Turn < t /\ t < 2 * Turn /\ yaw = 2 * Turn - t
    BY <1>1, AngleIs
  <1> HIDE DEF fp, yaw
  <1>4. raw = IF t - start < Turn THEN t - start ELSE t - start - Turn
    BY <1>1, <1>2, <1>3
  <1> HIDE DEF raw
  <1>5. Wrapped(raw, last) = t - start
    BY <1>1, <1>4 DEF Wrapped
  <1> QED
    BY <1>5 DEF fp, yaw, raw

\* hesai_handler without times
LEMMA KeepsHesai ==
  ASSUME PreprocessInv, NEW p \in Points, NextPointOfMessage(p), HesaiPoint(p)
  PROVE  PreprocessInv'
  <1> DEFINE t == elapsed'
             ring == p.ring
             fp == yaw_fp[ring]
             yaw == Yaw(p)
             raw == IF yaw <= fp THEN fp - yaw ELSE fp - yaw + Turn
             curvature == IF NaN \in {fp, yaw} THEN NaN ELSE Wrapped(raw, time_last[ring])
  <1>1. handler = "hesai" /\ ~given_offset_time /\ ring \in Rings
    BY PointComes DEF HesaiPoint, PreprocessInv
  <1>2. /\ t \in Nat /\ elapsed \in Nat /\ elapsed <= t
        /\ fp \in (0 .. Turn - 1) \cup {NaN, NoYaw} /\ yaw \in (0 .. Turn - 1) \cup {NaN}
        /\ yaw # NaN => yaw = Angle(t)
        /\ time_last[ring] \in Int \cup {NaN}
        /\ Turn \in Nat \ {0}
    BY <1>1, PointComes, PreprocessAssumption DEF PreprocessInv, PreprocessTypeOK
  <1>3. /\ seen' = [seen EXCEPT ![ring] = t] /\ seen[ring] \in Nat /\ seen[ring] <= t
        /\ t - seen[ring] < Turn /\ seen \in [Rings -> Nat]
    BY <1>1, PointComes DEF PreprocessInv, PreprocessTypeOK
  <1>4. elapsed' < 2 * Turn => \A r \in Rings \ spoilt : RingHasStart(r)
    BY <1>1, <1>2 DEF PreprocessInv, RingsGoOn
  <1>5. CASE fp = NoYaw
    <2>1. yaw_fp' = [yaw_fp EXCEPT ![ring] = yaw] /\ UNCHANGED <<time_last, pl_surf, spoilt>>
      BY <1>5 DEF HesaiPoint
    <2>2. PreprocessTypeOK'
      BY <2>1, <1>2, PointComes DEF PreprocessInv, PreprocessTypeOK
    <2>3. ASSUME NEW r \in Rings \ spoilt', elapsed' < 2 * Turn
          PROVE  RingHasStart(r)'
      <3>1. RingHasStart(r)
        BY <1>4, <2>1, <2>3
      <3>2. CASE r # ring
        BY <3>1, <3>2, <2>1, <1>3 DEF RingHasStart, RingStart, PreprocessInv, PreprocessTypeOK
      <3>3. CASE r = ring
        <4>1. time_last[r] = 0 /\ \A q \in pl_surf : q.ring # r
          BY <3>1, <3>3, <1>5 DEF RingHasStart
        <4>2. time_last'[r] = 0 /\ yaw_fp'[r] = yaw /\ seen'[r] = t /\ \A q \in pl_surf' : q.ring # r
          BY <4>1, <3>3, <2>1, <1>3 DEF PreprocessInv, PreprocessTypeOK
        <4> QED
          BY <4>2, <1>2, PreprocessAssumption DEF RingHasStart, RingStart
      <3> QED
        BY <3>2, <3>3
    <2> QED
      BY <2>2, <2>3, <1>1, PointComes DEF PreprocessInv, StampsAreTimes, SweepsForward, RingsGoOn
  <1>6. CASE fp # NoYaw
    <2>1. /\ time_last' = [time_last EXCEPT ![ring] = curvature] /\ UNCHANGED yaw_fp
          /\ pl_surf' \in {pl_surf, pl_surf \cup {KeptPoint(p, curvature)}}
          /\ spoilt' = IF curvature = NaN THEN spoilt \cup {ring} ELSE spoilt
      BY <1>6 DEF HesaiPoint, Kept, KeptPoint
    <2>2. curvature \in Int \cup {NaN}
      BY <1>2, <1>6 DEF Wrapped
    <2>3. KeptPoint(p, curvature) \in [ring : Rings, curvature : Int \cup {NaN}, time : Nat]
      BY <1>1, <1>2, <2>2 DEF KeptPoint
    <2>4. PreprocessTypeOK'
      <3> HIDE DEF curvature
      <3> QED
        BY <2>1, <2>2, <2>3, PointComes DEF PreprocessInv, PreprocessTypeOK
    <2>5. ASSUME NEW r \in Rings \ spoilt', elapsed' < 2 * Turn
          PROVE  RingHasStart(r)'
      <3>1. RingHasStart(r)
        BY <1>4, <2>1, <2>5
      <3>2. CASE r # ring
        <4>1. \A q \in pl_surf' : q.ring = r => q \in pl_surf
          BY <2>1, <3>2 DEF KeptPoint
        <4>2. time_last'[r] = time_last[r] /\ yaw_fp'[r] = yaw_fp[r] /\ seen'[r] = seen[r]
          BY <2>1, <3>2, <1>3 DEF PreprocessInv, PreprocessTypeOK
        <4> QED
          BY <3>1, <4>1, <4>2 DEF RingHasStart, RingStart
      <3>3. CASE r = ring
        <4>1. curvature # NaN
          BY <2>1, <3>3
        <4>2. fp \in 0 .. Turn - 1 /\ yaw \in 0 .. Turn - 1 /\ yaw = Angle(t)
          BY <4>1, <1>2, <1>6
        <4>3. /\ time_last[r] \in 0 .. seen[r] /\ fp = Angle(RingStart(r))
              /\ \A q \in pl_surf : q.ring = r => q.curvature = q.time - RingStart(r)
          BY <3>1, <3>3, <4>2, PreprocessAssumption DEF RingHasStart
        <4>4. /\ RingStart(r) \in Nat /\ time_last[r] \in Nat
              /\ RingStart(r) + time_last[r] = seen[r]
          BY <4>3, <3>3, <1>3 DEF RingStart
        <4>5. curvature = t - RingStart(r)
          <5>1. curvature = Wrapped(raw, time_last[r])
            BY <4>1, <3>3
          <5>2. seen[r] <= t /\ t - seen[r] < Turn /\ t < 2 * Turn /\ t \in Nat
            BY <3>3, <1>2, <1>3, <2>5
          <5> QED
            BY <5>1, <5>2, <4>2, <4>3, <4>4, WrappedIsTime
        <4>6. time_last'[r] = t - RingStart(r) /\ yaw_fp'[r] = fp /\ seen'[r] = t
          BY <2>1, <3>3, <4>5, <1>3, <1>1 DEF PreprocessInv, PreprocessTypeOK
        <4>7. RingStart(r)' = RingStart(r) /\ time_last'[r] \in 0 .. t
          BY <4>6, <4>4, <4>3, <3>3, <1>2, <1>3 DEF RingStart
        <4>8. \A q \in pl_surf' : q.ring = r => q.curvature = q.time - RingStart(r)
          <5>1. KeptPoint(p, curvature).curvature = KeptPoint(p, curvature).time - RingStart(r)
            BY <4>5 DEF KeptPoint
          <5> HIDE DEF curvature
          <5> QED
            BY <5>1, <4>3, <2>1
        <4> HIDE DEF curvature
        <4> QED
          BY <4>2, <4>3, <4>6, <4>7, <4>8, <3>3, PreprocessAssumption DEF RingHasStart
      <3> QED
        BY <3>2, <3>3
    <2> QED
      BY <2>4, <2>5, <1>1, PointComes DEF PreprocessInv, StampsAreTimes, SweepsForward, RingsGoOn
  <1> QED
    BY <1>5, <1>6

LEMMA PreprocessInvStep == PreprocessInv /\ [PreprocessNext]_preprocessVars => PreprocessInv'
  <1> SUFFICES ASSUME PreprocessInv, [PreprocessNext]_preprocessVars
               PROVE  PreprocessInv'
    OBVIOUS
  <1>1. ASSUME NEW p \in Points, NextPointOfMessage(p)
        PROVE  PreprocessInv'
    BY <1>1, KeepsStamped, KeepsVelodyne, KeepsHesai DEF NextPointOfMessage
  <1>2. CASE UNCHANGED preprocessVars
    BY <1>2 DEF preprocessVars, PreprocessInv, PreprocessTypeOK, StampsAreTimes, SweepsForward,
                RingsGoOn, RingHasStart, RingStart
  <1> QED
    BY <1>1, <1>2 DEF PreprocessNext

LEMMA PreprocessInvInit == PreprocessInit => PreprocessInv
  BY PreprocessAssumption DEF PreprocessInit, PreprocessInv, PreprocessTypeOK, StampsAreTimes,
     SweepsForward, RingsGoOn, RingHasStart, Layer

(* What the offsets of a ring say of the revolutions, in every behaviour.  *)
THEOREM PreprocessInvariant == PreprocessSpec => []PreprocessInv
  BY PreprocessInvInit, PreprocessInvStep, PTL DEF PreprocessSpec

(***************************************************************************)
(* Offsets differ as the true times do, for any number of units of a       *)
(* revolution, of rings and of points, and any filter of points: counting  *)
(* a revolution when the offset of a ring goes back never counts one too   *)
(* many or too few.                                                        *)
(***************************************************************************)
THEOREM PreprocessOffsetsAreTimes == PreprocessSpec => []OffsetsAreTimes
  <1>1. PreprocessInv => OffsetsAreTimes
    <2> SUFFICES ASSUME PreprocessInv, NEW p \in pl_surf, NEW q \in pl_surf,
                        p.ring = q.ring, p.ring \notin spoilt,
                        ~given_offset_time => IF handler = "hesai" THEN elapsed < 2 * Turn
                          ELSE elapsed < Turn /\ Turn \notin {p.curvature, q.curvature}
                 PROVE  p.curvature - q.curvature = p.time - q.time
      BY DEF OffsetsAreTimes
    <2>1. p.ring \in Rings /\ p.time \in Nat /\ q.time \in Nat
      BY DEF PreprocessInv, PreprocessTypeOK
    <2>2. CASE given_offset_time
      BY <2>2 DEF PreprocessInv, StampsAreTimes
    <2>3. CASE handler = "velodyne" /\ ~given_offset_time
      <3>1. Layer \in Rings /\ yaw_fp[Layer] \in 0 .. Turn - 1
        BY <2>3, PreprocessAssumption DEF Layer, PreprocessInv, PreprocessTypeOK, SweepsForward
      <3>2. FirstTime(yaw_fp[Layer]) \in Int
        BY <3>1, PreprocessAssumption DEF FirstTime
      <3>3. /\ p.curvature = p.time - FirstTime(yaw_fp[Layer])
            /\ q.curvature = q.time - FirstTime(yaw_fp[Layer])
        BY <2>3, <3>1, PreprocessAssumption DEF PreprocessInv, SweepsForward
      <3> QED
        BY <2>1, <3>2, <3>3
    <2>4. CASE handler = "hesai" /\ ~given_offset_time
      <3>1. RingHasStart(p.ring)
        BY <2>1, <2>4 DEF PreprocessInv, RingsGoOn
      <3>2. /\ time_last[p.ring] \in 0 .. seen[p.ring] /\ seen[p.ring] \in Nat
            /\ p.curvature = p.time - RingStart(p.ring) /\ q.curvature = q.time - RingStart(p.ring)
        BY <2>1, <3>1 DEF RingHasStart, PreprocessInv, PreprocessTypeOK
      <3> QED
        BY <2>1, <3>2 DEF RingStart
    <2> QED
      BY <2>2, <2>3, <2>4 DEF PreprocessInv, PreprocessTypeOK
  <1> QED
    BY <1>1, PreprocessInvariant, PTL

-----------------------------------------------------------------------------
(***************************************************************************)
(* LidarInertial.  Scans do not overlap, so what was done with one lies    *)
(* before the next; and with inertial data the deque always keeps a sample *)
(* as late as the scan, so that imu_next is the sample at its head and no  *)
(* loop runs out of samples.                                               *)
(***************************************************************************)

\* A set of natural numbers has a least member, and Min is it.
LEMMA MinIs ==
  ASSUME NEW S \in SUBSET Nat, S # {}
  PROVE  Min(S) \in S /\ \A x \in S : Min(S) <= x
  <1> DEFINE Less == OpToRel(<, Nat)
  <1>1. IsWellFoundedOn(Less, Nat)
    BY NatLessThanWellFounded
  <1>2. \A x, y \in Nat : y < x => <<y, x>> \in Less
    BY DEF OpToRel
  <1> HIDE DEF Less
  <1>3. PICK x \in S : \A y \in S : ~(<<y, x>> \in Less)
    BY <1>1, WFMin
  <1>4. ASSUME NEW y \in S
        PROVE  x <= y
    <2>1. x \in Nat /\ y \in Nat /\ ~(y < x)
      BY <1>2, <1>3
    <2> QED
      BY <2>1
  <1> QED
    BY <1>3, <1>4 DEF Min

MaxO == Max(Offsets)

LEMMA MaxOIs == MaxO \in Nat /\ \A o \in Offsets : o <= MaxO
  <1>1. PICK m \in Offsets : \A o \in Offsets : m >= o
    BY InertialAssumption
  <1>2. Max(Offsets) \in Offsets /\ \A o \in Offsets : Max(Offsets) >= o
    BY <1>1 DEF Max
  <1> QED
    BY <1>2, InertialAssumption DEF MaxO

\* A scan has been taken from the buffer.
Taken == pc # "spin" \/ ~flg_first_scan

\* pc is in the loop over the points, at one of them.
AtPoint == pc \in {"align", "clock", "enter", "catchup", "fuse", "predict"}

\* The points of a cloud do not come after its last one.
WellFormed(cloud) == \A o \in cloud.pts : o <= cloud.last

\* The clouds in the buffer begin one after the other, and after the scan that is processed.
BufferOrdered ==
  /\ \A k \in DOMAIN lidar_buffer :
       /\ lidar_buffer[k].beg <= last_timestamp_lidar /\ WellFormed(lidar_buffer[k])
       /\ Taken => Measures.lidar.beg + MaxO <= lidar_buffer[k].beg
       /\ \A j \in DOMAIN lidar_buffer : j < k => lidar_buffer[j].beg + MaxO <= lidar_buffer[k].beg
  /\ Taken => Measures.lidar.beg <= last_timestamp_lidar /\ WellFormed(Measures.lidar)

\* The samples in a deque are in order, and its last one is the last that came.
InOrder(deque, last) ==
  /\ \A k \in DOMAIN deque :
       deque[k] <= last /\ \A j \in DOMAIN deque : j < k => deque[j] <= deque[k]
  /\ deque # <<>> => deque[Len(deque)] = last

DequeOrdered == InOrder(imu_deque, last_timestamp_imu)

\* Once a scan is taken, imu_next is the head of the deque, which covers the scan.
SampleAtHand ==
  conf.imu_en /\ Taken =>
    /\ imu_deque # <<>> /\ imu_next = imu_deque[1]
    /\ pc # "spin" => End(Measures.lidar) <= last_timestamp_imu

\* Where the loops over samples are reached, and what is over when points are
NoSamples ==
  /\ ~conf.imu_en => pc \notin {"catchup", "fuse"}
  /\ conf.use_imu_as_input => pc # "catchup"
  /\ pc \notin {"spin", "scan"} => ~flg_first_scan
  /\ ~Taken => imu_need_init_

\* The points that are left, and the time of the one being processed
PointsLeft ==
  /\ pc = "point" \/ AtPoint => todo \subseteq Measures.lidar.pts
  /\ AtPoint => todo # {} /\ time_current = Measures.lidar.beg + Earliest(todo)

(***************************************************************************)
(* A clock that only follows the points: before a scan it is no later than *)
(* its beginning, in it no later than any point left, and after it no      *)
(* later than the next scan can begin.                                     *)
(***************************************************************************)
NotAhead(clock) ==
  /\ ~Taken => clock = 0
  /\ Taken => clock <= Measures.lidar.beg + MaxO
  /\ pc = "scan" => clock <= Measures.lidar.beg
  /\ pc = "point" => \A o \in todo : clock <= Measures.lidar.beg + o
  /\ AtPoint => clock <= time_current

\* Odometry at the end of scans stays behind the scan that is processed.
OdomBehind ==
  ~conf.publish_odometry_without_downsample /\ pc # "spin" => odom <= Measures.lidar.beg

ForwardFilter ==
  ~conf.use_imu_as_input =>
    /\ NotAhead(time_predict_last_const)
    /\ pc = "fuse" => time_predict_last_const <= imu_next

InertialInv ==
  /\ InertialTypeOK
  /\ BufferOrdered /\ DequeOrdered /\ SampleAtHand /\ NoSamples /\ PointsLeft
  /\ NotAhead(odom) /\ OdomBehind /\ ForwardFilter

\* What is left of a deque when the first n samples are taken, and not all.
LEMMA RestInOrder ==
  ASSUME NEW s \in Seq(Time), NEW last \in Time, InOrder(s, last), NEW n \in Nat, n < Len(s)
  PROVE  LET rest == SubSeq(s, n + 1, Len(s))
         IN  rest \in Seq(Time) /\ rest # <<>> /\ rest[1] = s[n + 1] /\ InOrder(rest, last)
  <1> DEFINE rest == SubSeq(s, n + 1, Len(s))
  <1>1. Len(s) \in Nat /\ DOMAIN s = 1 .. Len(s) /\ \A m \in 1 .. Len(s) : s[m] \in Time
    BY LenProperties, ElementOfSeq
  <1>2. /\ rest \in Seq(Time) /\ Len(rest) = Len(s) - n
        /\ \A m \in 1 .. Len(s) - n : rest[m] = s[n + m]
    <2>1. rest \in Seq(Time)
      BY <1>1
    <2>2. Len(rest) = Len(s) - n
      <3>1. Len(s) \in Nat
        BY <1>1
      <3> QED
        BY <3>1
    <2>3. \A m \in 1 .. Len(s) - n : rest[m] = s[n + m]
      BY <1>1
    <2> QED
      BY <2>1, <2>2, <2>3
  <1> HIDE DEF rest
  <1>3. DOMAIN rest = 1 .. Len(s) - n /\ rest # <<>>
    <2>1. DOMAIN rest = 1 .. Len(rest)
      BY <1>2, LenProperties
    <2>2. rest # <<>>
      BY <1>1, <1>2, EmptySeq
    <2> QED
      BY <1>2, <2>1, <2>2
  <1>4. ASSUME NEW k \in DOMAIN rest
        PROVE  rest[k] <= last /\ \A j \in DOMAIN rest : j < k => rest[j] <= rest[k]
    <2>1. k \in 1 .. Len(s) - n /\ n + k \in DOMAIN s /\ rest[k] = s[n + k]
      BY <1>1, <1>2, <1>3
    <2>2. \A j \in DOMAIN rest : n + j \in DOMAIN s /\ rest[j] = s[n + j] /\ (j < k => n + j < n + k)
      BY <1>1, <1>2, <1>3, <2>1
    <2> QED
      BY <2>1, <2>2 DEF InOrder
  <1>5. rest[Len(rest)] = last
    BY <1>1, <1>2, <1>3, EmptySeq DEF InOrder
  <1>6. rest[1] = s[n + 1]
    BY <1>1, <1>2
  <1> QED
    BY <1>2, <1>3, <1>4, <1>5, <1>6 DEF InOrder, rest

\* A later sample goes to the end.
LEMMA LaterInOrder ==
  ASSUME NEW s \in Seq(Time), NEW last \in Time, InOrder(s, last), NEW stamp \in Time, last < stamp
  PROVE  LET longer == Append(s, stamp)
         IN  /\ longer \in Seq(Time) /\ longer # <<>> /\ InOrder(longer, stamp)
             /\ s # <<>> => longer[1] = s[1]
  <1> DEFINE longer == Append(s, stamp)
  <1>1. Len(s) \in Nat /\ DOMAIN s = 1 .. Len(s) /\ \A m \in 1 .. Len(s) : s[m] \in Time
    BY LenProperties, ElementOfSeq
  <1>2. /\ longer \in Seq(Time) /\ longer # <<>> /\ Len(longer) = Len(s) + 1
        /\ \A m \in 1 .. Len(s) : longer[m] = s[m]
        /\ longer[Len(s) + 1] = stamp
    BY AppendProperties
  <1>3. DOMAIN longer = 1 .. Len(s) + 1
    BY <1>2, LenProperties
  <1>4. s # <<>> => Len(s) > 0
    BY EmptySeq
  <1> HIDE DEF longer
  <1>5. InOrder(longer, stamp)
    BY <1>1, <1>2, <1>3 DEF InOrder, Time
  <1> QED
    BY <1>1, <1>2, <1>4, <1>5 DEF longer

\* The samples that are earlier than the end of a scan that the deque covers are not all.
LEMMA EarlierIs ==
  ASSUME imu_deque \in Seq(Time), imu_deque # <<>>, NEW t \in Int, t <= imu_deque[Len(imu_deque)]
  PROVE  Earlier(t) \in Nat /\ Earlier(t) < Len(imu_deque)
  <1> DEFINE early == {k \in DOMAIN imu_deque : \A j \in 1 .. k : imu_deque[j] < t}
  <1>1. Len(imu_deque) \in Nat \ {0} /\ DOMAIN imu_deque = 1 .. Len(imu_deque)
    BY LenProperties, EmptySeq
  <1>2. imu_deque[Len(imu_deque)] \in Time
    BY <1>1, ElementOfSeq
  <1>3. early \subseteq 1 .. Len(imu_deque) - 1
    BY <1>1, <1>2 DEF Time
  <1>4. /\ IsFiniteSet(1 .. Len(imu_deque) - 1)
        /\ Cardinality(1 .. Len(imu_deque) - 1) = Len(imu_deque) - 1
    BY <1>1, FS_Interval
  <1>5. IsFiniteSet(early) /\ Cardinality(early) <= Len(imu_deque) - 1
    BY <1>3, <1>4, FS_Subset
  <1>6. Cardinality(early) \in Nat
    BY <1>5, FS_CardinalityType
  <1> QED
    BY <1>1, <1>5, <1>6 DEF Earlier

\* Times are numbers, and a cloud has points no later than MaxO after it begins.
LEMMA CloudIs ==
  ASSUME NEW cloud \in Clouds
  PROVE  /\ cloud.beg \in Time /\ cloud.beg \in Nat /\ cloud.last \in Nat /\ cloud.last <= MaxO
         /\ cloud.pts \subseteq Offsets /\ cloud.pts \subseteq Nat /\ cloud.pts # {}
         /\ \A o \in cloud.pts : o <= MaxO
         /\ End(cloud) = cloud.beg + cloud.last
  <1>1. cloud.beg \in Time /\ cloud.last \in Offsets /\ cloud.pts \subseteq Offsets /\ cloud.pts # {}
    <2> DEFINE Sets == (SUBSET Offsets) \ {{}}
    <2>1. Clouds = [beg : Time, pts : Sets, last : Offsets]
      BY DEF Clouds
    <2>2. \A pts \in Sets : pts \subseteq Offsets /\ pts # {}
      OBVIOUS
    <2> HIDE DEF Sets
    <2>3. cloud.beg \in Time /\ cloud.last \in Offsets /\ cloud.pts \in Sets
      BY <2>1
    <2> QED
      BY <2>2, <2>3
  <1>2. Time \subseteq Nat /\ Offsets \subseteq Nat
    BY InertialAssumption DEF Time
  <1> QED
    BY <1>1, <1>2, MaxOIs DEF End

LEMMA ScanIs ==
  ASSUME InertialTypeOK
  PROVE  /\ Measures.lidar \in Clouds
         /\ Measures.lidar.beg \in Time /\ Measures.lidar.beg \in Nat
         /\ Measures.lidar.last \in Nat /\ Measures.lidar.last <= MaxO
         /\ Measures.lidar.pts \subseteq Offsets /\ Measures.lidar.pts \subseteq Nat
         /\ Measures.lidar.pts # {} /\ \A o \in Measures.lidar.pts : o <= MaxO
         /\ End(Measures.lidar) = Measures.lidar.beg + Measures.lidar.last
         /\ MaxO \in Nat /\ Time \subseteq Nat
  <1>1. Measures.lidar \in Clouds
    BY DEF InertialTypeOK
  <1> QED
    BY <1>1, CloudIs, MaxOIs, InertialAssumption DEF Time

\* The point being processed is one of the scan, and the earliest of those left.
LEMMA PointInScan ==
  ASSUME InertialInv, AtPoint
  PROVE  /\ Earliest(todo) \in todo /\ Earliest(todo) \in Nat /\ todo \subseteq Measures.lidar.pts
         /\ \A o \in todo : o \in Nat /\ Earliest(todo) <= o
         /\ time_current = Measures.lidar.beg + Earliest(todo)
         /\ time_current <= End(Measures.lidar)
         /\ time_current <= Measures.lidar.beg + MaxO
  <1>1. todo \subseteq Measures.lidar.pts /\ todo # {} /\ todo \subseteq Nat
        /\ time_current = Measures.lidar.beg + Earliest(todo)
    BY ScanIs DEF InertialInv, PointsLeft
  <1>2. Earliest(todo) \in todo /\ \A o \in todo : Earliest(todo) <= o
    BY <1>1, MinIs DEF Earliest
  <1>3. WellFormed(Measures.lidar)
    BY DEF InertialInv, BufferOrdered, Taken, AtPoint
  <1>4. Earliest(todo) <= Measures.lidar.last /\ Earliest(todo) <= MaxO
    BY <1>1, <1>2, <1>3, ScanIs DEF InertialInv, WellFormed
  <1>5. Earliest(todo) \in Nat /\ \A o \in todo : o \in Nat /\ Earliest(todo) <= o
    BY <1>1, <1>2
  <1>6. time_current <= End(Measures.lidar) /\ time_current <= Measures.lidar.beg + MaxO
    BY <1>1, <1>4, <1>5, ScanIs DEF InertialInv
  <1> QED
    BY <1>1, <1>2, <1>5, <1>6

\* A sample is taken while a later one is there: the next one is then at the head.
LEMMA PopFrontKeeps ==
  ASSUME InertialInv, conf.imu_en, Taken, imu_next < last_timestamp_imu, PopFront,
         UNCHANGED last_timestamp_imu
  PROVE  /\ Len(imu_deque) > 1
         /\ imu_deque' \in Seq(Time) /\ imu_deque' # <<>> /\ DequeOrdered'
         /\ imu_next' = imu_deque'[1] /\ imu_next' \in Time /\ imu_last' \in Time
         /\ imu_next <= imu_next'
  <1>1. /\ imu_deque \in Seq(Time) /\ imu_deque # <<>> /\ imu_next = imu_deque[1]
        /\ imu_deque[Len(imu_deque)] = last_timestamp_imu /\ last_timestamp_imu \in Time
        /\ InOrder(imu_deque, last_timestamp_imu) /\ imu_next \in Time /\ Time \subseteq Nat
    BY InertialAssumption DEF InertialInv, InertialTypeOK, SampleAtHand, DequeOrdered, InOrder, Time
  <1>2. Len(imu_deque) \in Nat \ {0} /\ DOMAIN imu_deque = 1 .. Len(imu_deque)
    BY <1>1, LenProperties, EmptySeq
  <1>3. Len(imu_deque) > 1
    BY <1>1, <1>2
  <1>4. imu_deque[2] \in Time /\ imu_next <= imu_deque[2]
    BY <1>1, <1>2, <1>3, ElementOfSeq DEF InOrder
  <1>5. imu_deque' = SubSeq(imu_deque, 2, Len(imu_deque)) /\ imu_last' = imu_next /\ imu_next' = imu_deque[2]
    BY <1>1, <1>3, TailIsSubSeq DEF PopFront
  <1>6. LET rest == SubSeq(imu_deque, 1 + 1, Len(imu_deque))
        IN  /\ rest \in Seq(Time) /\ rest # <<>> /\ rest[1] = imu_deque[1 + 1]
            /\ InOrder(rest, last_timestamp_imu)
    BY <1>1, <1>3, RestInOrder
  <1> QED
    BY <1>1, <1>3, <1>4, <1>5, <1>6 DEF DequeOrdered

\* Callbacks: they run while pc = "spin" and touch nothing but their buffer.
LEMMA KeepsPointCloudCallback ==
  ASSUME InertialInv, NEW stamp \in Time, NEW pts \in SUBSET Offsets, NEW last \in Offsets,
         DriverSends(stamp, pts, last), PointCloudCallback(stamp, pts, last)
  PROVE  InertialInv'
  <1> DEFINE new == [beg |-> stamp, pts |-> pts, last |-> last]
  <1>1. /\ pc = "spin" /\ pc' = pc /\ scan_count' = scan_count + 1
        /\ UNCHANGED <<conf, imuVars, last_timestamp_imu, Measures, initVars, todo, clockVars, odom>>
    BY DEF PointCloudCallback
  <1>2. \/ UNCHANGED <<lidar_buffer, last_timestamp_lidar>>
        \/ /\ last_timestamp_lidar + MaxO <= stamp /\ last_timestamp_lidar' = stamp
           /\ lidar_buffer' = lidar_buffer \/ (pts # {} /\ lidar_buffer' = Append(lidar_buffer, new))
    BY DEF PointCloudCallback, DriverSends, MaxO
  <1>3. pts # {} => new \in Clouds
    BY DEF Clouds
  <1>4. WellFormed(new)
    BY DEF WellFormed, DriverSends
  <1>5. /\ lidar_buffer \in Seq(Clouds) /\ last_timestamp_lidar \in Nat /\ stamp \in Nat /\ MaxO \in Nat
        /\ Measures.lidar.beg \in Nat
        /\ \A k \in DOMAIN lidar_buffer : lidar_buffer[k].beg \in Nat
    BY ScanIs, CloudIs, ElementOfSeq, LenProperties DEF InertialInv, InertialTypeOK
  <1>6. CASE UNCHANGED <<lidar_buffer, last_timestamp_lidar>>
    BY <1>1, <1>6 DEF InertialInv, InertialTypeOK, BufferOrdered, DequeOrdered, SampleAtHand,
       NoSamples, PointsLeft, NotAhead, OdomBehind, ForwardFilter, imuVars, initVars, clockVars, Taken, AtPoint
  <1>7. ASSUME last_timestamp_lidar + MaxO <= stamp, last_timestamp_lidar' = stamp,
               lidar_buffer' = lidar_buffer
        PROVE  InertialInv'
    <2>1. BufferOrdered'
      BY <1>1, <1>5, <1>7 DEF InertialInv, BufferOrdered, Taken, initVars
    <2> QED
      BY <1>1, <1>7, <2>1 DEF InertialInv, InertialTypeOK, DequeOrdered, SampleAtHand,
         NoSamples, PointsLeft, NotAhead, OdomBehind, ForwardFilter, imuVars, initVars, clockVars, Taken, AtPoint
  <1>8. ASSUME last_timestamp_lidar + MaxO <= stamp, last_timestamp_lidar' = stamp, pts # {},
               lidar_buffer' = Append(lidar_buffer, new)
        PROVE  InertialInv'
    <2> HIDE DEF new
    <2>1. /\ lidar_buffer' \in Seq(Clouds) /\ DOMAIN lidar_buffer' = 1 .. Len(lidar_buffer) + 1
          /\ DOMAIN lidar_buffer = 1 .. Len(lidar_buffer) /\ Len(lidar_buffer) \in Nat
          /\ \A k \in 1 .. Len(lidar_buffer) : lidar_buffer'[k] = lidar_buffer[k]
          /\ lidar_buffer'[Len(lidar_buffer) + 1] = new
      BY <1>3, <1>5, <1>8, AppendProperties, LenProperties
    <2>2. new.beg = stamp
      BY DEF new
    <2>3. ASSUME NEW k \in DOMAIN lidar_buffer'
          PROVE  /\ lidar_buffer'[k].beg <= stamp /\ WellFormed(lidar_buffer'[k])
                 /\ Taken => Measures.lidar.beg + MaxO <= lidar_buffer'[k].beg
                 /\ \A j \in DOMAIN lidar_buffer' : j < k => lidar_buffer'[j].beg + MaxO <= lidar_buffer'[k].beg
      <3>1. CASE k \in 1 .. Len(lidar_buffer)
        BY <1>5, <1>8, <2>1, <3>1 DEF InertialInv, BufferOrdered
      <3>2. CASE k = Len(lidar_buffer) + 1
        BY <1>4, <1>5, <1>8, <2>1, <2>2, <3>2 DEF InertialInv, BufferOrdered
      <3> QED
        BY <2>1, <3>1, <3>2
    <2>4. BufferOrdered'
      BY <1>1, <1>5, <1>8, <2>3 DEF InertialInv, BufferOrdered, Taken, initVars
    <2> QED
      BY <1>1, <1>8, <2>1, <2>4 DEF InertialInv, InertialTypeOK, DequeOrdered, SampleAtHand,
         NoSamples, PointsLeft, NotAhead, OdomBehind, ForwardFilter, imuVars, initVars, clockVars, Taken, AtPoint
  <1> QED
    BY <1>2, <1>6, <1>7, <1>8

LEMMA KeepsImuCallback ==
  ASSUME InertialInv, NEW stamp \in Time, ImuCallback(stamp)
  PROVE  InertialInv'
  <1>1. /\ pc = "spin" /\ stamp # last_timestamp_imu
        /\ UNCHANGED <<conf, lidarVars, imu_last, imu_next, Measures, initVars, pc, todo, clockVars, odom>>
    BY DEF ImuCallback
  <1>2. CASE UNCHANGED <<imu_deque, last_timestamp_imu>>
    BY <1>1, <1>2 DEF InertialInv, InertialTypeOK, BufferOrdered, DequeOrdered, SampleAtHand,
       NoSamples, PointsLeft, NotAhead, OdomBehind, ForwardFilter, lidarVars, initVars, clockVars, Taken, AtPoint
  <1>3. CASE ~(stamp < last_timestamp_imu)
    <2>1. imu_deque' = Append(imu_deque, stamp) /\ last_timestamp_imu' = stamp
      BY <1>3 DEF ImuCallback
    <2>2. /\ imu_deque \in Seq(Time) /\ last_timestamp_imu \in Time /\ last_timestamp_imu < stamp
          /\ InOrder(imu_deque, last_timestamp_imu)
      BY <1>1, <1>3 DEF InertialInv, InertialTypeOK, DequeOrdered, Time
    <2>3. /\ imu_deque' \in Seq(Time) /\ imu_deque' # <<>> /\ InOrder(imu_deque', stamp)
          /\ imu_deque # <<>> => imu_deque'[1] = imu_deque[1]
      BY <2>1, <2>2, LaterInOrder
    <2> QED
      BY <1>1, <2>1, <2>3 DEF InertialInv, InertialTypeOK, BufferOrdered, DequeOrdered, SampleAtHand,
       NoSamples, PointsLeft, NotAhead, OdomBehind, ForwardFilter, lidarVars, initVars, clockVars, Taken, AtPoint
  <1> QED
    BY <1>2, <1>3 DEF ImuCallback

\* The buffer gives up its first scan, which lies before those that stay.
LEMMA KeepsBuffer ==
  ASSUME InertialInv, lidar_buffer # <<>>, lidar_buffer' = Tail(lidar_buffer),
         Measures'.lidar = Head(lidar_buffer), UNCHANGED last_timestamp_lidar
  PROVE  /\ lidar_buffer' \in Seq(Clouds) /\ Head(lidar_buffer) \in Clouds /\ BufferOrdered'
         /\ Taken => Measures.lidar.beg + MaxO <= Head(lidar_buffer).beg
  <1>1. /\ lidar_buffer \in Seq(Clouds) /\ Len(lidar_buffer) \in Nat \ {0}
        /\ DOMAIN lidar_buffer = 1 .. Len(lidar_buffer) /\ Head(lidar_buffer) = lidar_buffer[1]
    BY LenProperties, EmptySeq DEF InertialInv, InertialTypeOK
  <1>2. /\ lidar_buffer' \in Seq(Clouds) /\ Head(lidar_buffer) \in Clouds
        /\ Len(lidar_buffer') = Len(lidar_buffer) - 1
        /\ \A k \in 1 .. Len(lidar_buffer') : lidar_buffer'[k] = lidar_buffer[k + 1]
    BY <1>1, HeadTailProperties
  <1>3. DOMAIN lidar_buffer' = 1 .. Len(lidar_buffer) - 1
    BY <1>2, LenProperties
  <1>4. ASSUME NEW k \in DOMAIN lidar_buffer'
        PROVE  /\ lidar_buffer'[k].beg <= last_timestamp_lidar /\ WellFormed(lidar_buffer'[k])
               /\ Head(lidar_buffer).beg + MaxO <= lidar_buffer'[k].beg
               /\ \A j \in DOMAIN lidar_buffer' : j < k => lidar_buffer'[j].beg + MaxO <= lidar_buffer'[k].beg
    <2>1. k + 1 \in DOMAIN lidar_buffer /\ lidar_buffer'[k] = lidar_buffer[k + 1] /\ 1 < k + 1
          /\ 1 \in DOMAIN lidar_buffer
      BY <1>1, <1>2, <1>3
    <2>2. \A j \in DOMAIN lidar_buffer' :
            j + 1 \in DOMAIN lidar_buffer /\ lidar_buffer'[j] = lidar_buffer[j + 1] /\ (j < k => j + 1 < k + 1)
      BY <1>1, <1>2, <1>3, <2>1
    <2> QED
      BY <1>1, <2>1, <2>2 DEF InertialInv, BufferOrdered
  <1>5. 1 \in DOMAIN lidar_buffer
    BY <1>1
  <1>6. /\ Head(lidar_buffer).beg <= last_timestamp_lidar /\ WellFormed(Head(lidar_buffer))
        /\ Taken => Measures.lidar.beg + MaxO <= Head(lidar_buffer).beg
    BY <1>1, <1>5 DEF InertialInv, BufferOrdered
  <1> QED
    BY <1>2, <1>4, <1>6 DEF BufferOrdered

LEMMA KeepsSyncPackages ==
  ASSUME InertialInv, SyncPackages
  PROVE  InertialInv'
  <1> DEFINE scan1 == Head(lidar_buffer)
             n == IF conf.imu_en /\ imu_need_init_ THEN Earlier(End(scan1)) ELSE 0
  <1>1. /\ pc = "spin" /\ pc' = "scan" /\ lidar_buffer # <<>> /\ lidar_buffer' = Tail(lidar_buffer)
        /\ Measures' = [lidar |-> scan1, imu |-> Measures.imu + n]
        /\ UNCHANGED <<conf, last_timestamp_lidar, scan_count, last_timestamp_imu, initVars,
                       todo, clockVars, odom>>
        /\ conf.imu_en => imu_deque # <<>> /\ last_timestamp_imu >= End(scan1)
    BY DEF SyncPackages, SamplesCover
  <1>2. Measures'.lidar = scan1
    BY <1>1
  <1>3. /\ lidar_buffer' \in Seq(Clouds) /\ scan1 \in Clouds /\ BufferOrdered'
        /\ Taken => Measures.lidar.beg + MaxO <= scan1.beg
    BY <1>1, <1>2, KeepsBuffer
  <1>4. scan1.beg \in Nat /\ End(scan1) \in Nat
    BY <1>3, CloudIs
  <1>5. /\ imu_deque \in Seq(Time) /\ InOrder(imu_deque, last_timestamp_imu)
        /\ last_timestamp_imu \in Time /\ Time \subseteq Nat
    BY ScanIs DEF InertialInv, InertialTypeOK, DequeOrdered
  <1>6. /\ n \in Nat /\ imu_deque' \in Seq(Time) /\ InOrder(imu_deque', last_timestamp_imu)
        /\ conf.imu_en => imu_deque' # <<>> /\ imu_next' = imu_deque'[1]
        /\ imu_last' \in Time /\ imu_next' \in Time
    <2>1. CASE conf.imu_en /\ imu_need_init_
      <3>1. imu_deque # <<>> /\ End(scan1) <= imu_deque[Len(imu_deque)]
        BY <1>1, <1>5, <2>1 DEF InOrder
      <3>2. n \in Nat /\ n < Len(imu_deque)
        BY <1>4, <1>5, <2>1, <3>1, EarlierIs
      <3>3. /\ imu_deque' = SubSeq(imu_deque, n + 1, Len(imu_deque))
            /\ imu_next' = imu_deque[n + 1]
            /\ imu_last' = IF n > 0 THEN imu_deque[n] ELSE imu_last
        BY <2>1, <3>2 DEF SyncPackages
      <3> HIDE DEF n
      <3>4. /\ imu_deque' \in Seq(Time) /\ imu_deque' # <<>> /\ imu_deque'[1] = imu_deque[n + 1]
            /\ InOrder(imu_deque', last_timestamp_imu)
        BY <1>5, <3>2, <3>3, RestInOrder
      <3>5. Len(imu_deque) \in Nat /\ (n > 0 => imu_deque[n] \in Time) /\ imu_deque[n + 1] \in Time
        BY <1>5, <3>2, LenProperties, ElementOfSeq
      <3> QED
        BY <3>2, <3>3, <3>4, <3>5 DEF InertialInv, InertialTypeOK
    <2>2. CASE ~(conf.imu_en /\ imu_need_init_)
      <3>1. UNCHANGED imuVars /\ n = 0
        BY <2>2 DEF SyncPackages
      <3>2. conf.imu_en => Taken
        BY <2>2 DEF InertialInv, NoSamples
      <3> QED
        BY <1>5, <3>1, <3>2 DEF imuVars, InertialInv, InertialTypeOK, SampleAtHand
    <2> QED
      BY <2>1, <2>2
  <1> HIDE DEF n, scan1
  <1>7. InertialTypeOK'
    <2>1. Measures' \in [lidar : Clouds, imu : Nat]
      BY <1>1, <1>3, <1>6 DEF InertialInv, InertialTypeOK
    <2> QED
      BY <1>1, <1>3, <1>6, <2>1 DEF InertialInv, InertialTypeOK, initVars, clockVars
  <1>8. DequeOrdered' /\ SampleAtHand' /\ NoSamples'
    BY <1>1, <1>2, <1>6 DEF DequeOrdered, SampleAtHand, NoSamples, Taken
  <1>9. PointsLeft'
    BY <1>1 DEF PointsLeft, AtPoint
  <1>10. /\ odom <= scan1.beg
         /\ ~conf.use_imu_as_input => time_predict_last_const <= scan1.beg
    <2>1. /\ odom \in Nat /\ time_predict_last_const \in Nat /\ MaxO \in Nat
          /\ Measures.lidar.beg \in Nat
      BY ScanIs DEF InertialInv, InertialTypeOK
    <2>2. \A clock \in Nat : NotAhead(clock) => clock <= scan1.beg
      BY <2>1, <1>3, <1>4 DEF NotAhead
    <2> QED
      BY <2>1, <2>2 DEF InertialInv, ForwardFilter
  <1>11. odom <= scan1.beg + MaxO
         /\ (~conf.use_imu_as_input => time_predict_last_const <= scan1.beg + MaxO)
    BY <1>4, <1>10, MaxOIs DEF InertialInv, InertialTypeOK
  <1>12. NotAhead(odom)' /\ OdomBehind' /\ ForwardFilter'
    BY <1>1, <1>2, <1>10, <1>11 DEF NotAhead, OdomBehind, ForwardFilter, Taken, AtPoint, clockVars
  <1> QED
    BY <1>3, <1>7, <1>8, <1>9, <1>12 DEF InertialInv

LEMMA KeepsProcessScan ==
  ASSUME InertialInv, ProcessScan
  PROVE  InertialInv'
  <1>1. /\ pc = "scan" /\ ~flg_first_scan' /\ Taken /\ Taken'
        /\ UNCHANGED <<conf, lidarVars, imuVars, last_timestamp_imu, Measures, is_first_frame,
                       time_predict_last_const, time_update_last, odom>>
    BY DEF ProcessScan, Taken, InertialInv, InertialTypeOK
  <1>2. \/ pc' = "spin" /\ UNCHANGED todo
        \/ pc' = "point" /\ todo' = Measures.lidar.pts
    BY DEF ProcessScan
  <1>3. /\ time_current' \in Nat /\ imu_need_init_' \in BOOLEAN /\ flg_first_scan' \in BOOLEAN
        /\ init_iter_num' \in Nat
    <2>1. time_current \in Nat /\ init_iter_num \in Nat /\ Measures.imu \in Nat /\ imu_need_init_ \in BOOLEAN
      BY DEF InertialInv, InertialTypeOK
    <2>2. time_current' \in Nat
      BY <2>1 DEF ProcessScan
    <2>3. init_iter_num' \in Nat
      BY <2>1 DEF ProcessScan
    <2>4. imu_need_init_' \in BOOLEAN
      BY <2>1 DEF ProcessScan
    <2>5. flg_first_scan' = FALSE
      BY DEF ProcessScan
    <2> QED
      BY <2>2, <2>3, <2>4, <2>5
  <1>4. init_map' \in BOOLEAN /\ init_feats' \in Nat
    <2>1. Cardinality(Measures.lidar.pts) \in Nat
      <3>1. \A o \in Measures.lidar.pts : o <= MaxO
        BY ScanIs DEF InertialInv
      <3>2. Measures.lidar.pts \in SUBSET Nat /\ MaxO \in Nat
        BY ScanIs DEF InertialInv
      <3>3. IsFiniteSet(Measures.lidar.pts)
        BY <3>1, <3>2, FS_BoundedSetOfNaturals
      <3> QED
        BY <3>3, FS_CardinalityType
    <2>2. init_map \in BOOLEAN /\ init_feats \in Nat
      BY DEF InertialInv, InertialTypeOK
    <2>3. init_feats' \in Nat
      BY <2>1, <2>2 DEF ProcessScan
    <2>4. \/ init_map' = init_map
          \/ init_map' = (init_feats + Cardinality(Measures.lidar.pts) >= init_map_size)
      BY DEF ProcessScan
    <2>5. init_map' \in BOOLEAN
      <3>1. (init_feats + Cardinality(Measures.lidar.pts) >= init_map_size) \in BOOLEAN
        OBVIOUS
      <3> QED
        BY <2>2, <2>4, <3>1
    <2> QED
      BY <2>3, <2>5
  <1>5. todo' \subseteq Offsets
    BY <1>2, ScanIs DEF InertialInv, InertialTypeOK
  <1>6. InertialTypeOK'
    BY <1>1, <1>2, <1>3, <1>4, <1>5 DEF InertialInv, InertialTypeOK, lidarVars, imuVars
  <1>7. BufferOrdered' /\ DequeOrdered' /\ SampleAtHand' /\ NoSamples'
    BY <1>1, <1>2 DEF InertialInv, BufferOrdered, DequeOrdered, SampleAtHand, NoSamples, lidarVars, imuVars
  <1>8. PointsLeft'
    BY <1>1, <1>2 DEF PointsLeft, AtPoint
  <1>9. \A clock \in Nat : clock <= Measures.lidar.beg =>
          /\ clock <= Measures.lidar.beg + MaxO
          /\ \A o \in Measures.lidar.pts : clock <= Measures.lidar.beg + o
    BY ScanIs DEF InertialInv
  <1>10. /\ odom \in Nat /\ odom <= Measures.lidar.beg
         /\ time_predict_last_const \in Nat
         /\ ~conf.use_imu_as_input => time_predict_last_const <= Measures.lidar.beg
    BY <1>1 DEF InertialInv, InertialTypeOK, NotAhead, ForwardFilter
  <1>11. NotAhead(odom)' /\ OdomBehind' /\ ForwardFilter'
    BY <1>1, <1>2, <1>9, <1>10 DEF NotAhead, OdomBehind, ForwardFilter, AtPoint
  <1> QED
    BY <1>6, <1>7, <1>8, <1>11 DEF InertialInv

LEMMA KeepsNextPoint ==
  ASSUME InertialInv, NextPoint
  PROVE  InertialInv'
  <1>1. /\ pc = "point" /\ todo # {} /\ Taken /\ Taken' /\ pc' \in {"align", "enter"} /\ AtPoint'
        /\ time_current' = Measures.lidar.beg + Earliest(todo)
        /\ UNCHANGED <<conf, lidarVars, imuVars, last_timestamp_imu, Measures, initVars, todo,
                       is_first_frame, time_predict_last_const, time_update_last, odom>>
    BY DEF NextPoint, Taken, AtPoint
  <1>2. todo \subseteq Measures.lidar.pts /\ todo \subseteq Nat
    BY <1>1, ScanIs DEF InertialInv, PointsLeft
  <1>3. Earliest(todo) \in todo
    BY <1>1, <1>2, MinIs DEF Earliest
  <1>4. InertialTypeOK'
    <2>1. Measures.lidar.beg + Earliest(todo) \in Nat
      <3>1. Earliest(todo) \in Nat
        BY <1>2, <1>3
      <3>2. Measures.lidar.beg \in Nat
        BY ScanIs DEF InertialInv
      <3> QED
        BY <3>1, <3>2
    <2> QED
      BY <1>1, <2>1 DEF InertialInv, InertialTypeOK, lidarVars, imuVars, initVars
  <1>5. BufferOrdered' /\ DequeOrdered' /\ SampleAtHand' /\ NoSamples' /\ PointsLeft'
    BY <1>1, <1>2 DEF InertialInv, BufferOrdered, DequeOrdered, SampleAtHand, NoSamples, PointsLeft,
       lidarVars, imuVars, initVars
  <1>6. NotAhead(odom)' /\ OdomBehind' /\ ForwardFilter'
    BY <1>1, <1>3 DEF InertialInv, NotAhead, OdomBehind, ForwardFilter
  <1> QED
    BY <1>4, <1>5, <1>6 DEF InertialInv

\* What steps at a point leave alone
AtPointFrame ==
  UNCHANGED <<conf, lidarVars, last_timestamp_imu, Measures, initVars, todo, time_current, odom>>

LEMMA AtPointKeeps ==
  ASSUME InertialInv, AtPoint, AtPoint', AtPointFrame
  PROVE  /\ BufferOrdered' /\ PointsLeft' /\ NotAhead(odom)' /\ OdomBehind'
         /\ Taken /\ Taken'
         /\ (~conf.imu_en => pc' \notin {"catchup", "fuse"})
            /\ (conf.use_imu_as_input => pc' # "catchup") => NoSamples'
  <1>1. Taken /\ Taken' /\ pc # "spin" /\ pc' # "spin" /\ pc' \notin {"scan", "point"}
    BY DEF AtPoint, Taken
  <1>2. BufferOrdered'
    BY <1>1 DEF InertialInv, BufferOrdered, AtPointFrame, lidarVars
  <1>3. PointsLeft'
    BY DEF InertialInv, PointsLeft, AtPointFrame
  <1>4. NotAhead(odom)' /\ OdomBehind'
    BY <1>1 DEF InertialInv, NotAhead, OdomBehind, AtPointFrame
  <1>5. ~flg_first_scan'
    BY DEF InertialInv, NoSamples, AtPointFrame, initVars, AtPoint
  <1> QED
    BY <1>1, <1>2, <1>3, <1>4, <1>5 DEF NoSamples, AtPointFrame

LEMMA SampleStays ==
  ASSUME InertialInv, AtPoint, AtPoint', AtPointFrame, UNCHANGED imuVars
  PROVE  DequeOrdered' /\ SampleAtHand'
  BY DEF InertialInv, DequeOrdered, SampleAtHand, AtPoint, AtPointFrame, imuVars, Taken

\* A sample before the point is not the last: the scan is covered.
LEMMA SampleGoes ==
  ASSUME InertialInv, AtPoint, AtPoint', AtPointFrame, conf.imu_en, imu_next < time_current, PopFront
  PROVE  /\ Len(imu_deque) > 1 /\ imu_deque' \in Seq(Time) /\ DequeOrdered' /\ SampleAtHand'
         /\ imu_next' \in Time /\ imu_last' \in Time /\ imu_next <= imu_next'
  <1>1. /\ Taken /\ pc # "spin" /\ End(Measures.lidar) <= last_timestamp_imu
        /\ UNCHANGED <<last_timestamp_imu, Measures, conf>>
    BY DEF AtPoint, Taken, InertialInv, SampleAtHand, AtPointFrame
  <1>2. imu_next \in Nat /\ time_current \in Nat /\ last_timestamp_imu \in Nat /\ End(Measures.lidar) \in Nat
    BY ScanIs DEF InertialInv, InertialTypeOK
  <1>3. time_current <= End(Measures.lidar)
    BY PointInScan
  <1>4. imu_next < last_timestamp_imu
    BY <1>1, <1>2, <1>3
  <1>5. /\ Len(imu_deque) > 1
        /\ imu_deque' \in Seq(Time) /\ imu_deque' # <<>> /\ DequeOrdered'
        /\ imu_next' = imu_deque'[1] /\ imu_next' \in Time /\ imu_last' \in Time
        /\ imu_next <= imu_next'
    BY <1>1, <1>4, PopFrontKeeps
  <1> QED
    BY <1>1, <1>5 DEF SampleAtHand

LEMMA KeepsAlignFirstFrame ==
  ASSUME InertialInv, AlignFirstFrame
  PROVE  InertialInv'
  <1>1. /\ AtPoint /\ AtPoint' /\ pc = "align" /\ pc' \in {"align", "clock"}
        /\ AtPointFrame /\ UNCHANGED clockVars
    BY DEF AlignFirstFrame, AtPoint, AtPointFrame, clockVars
  <1>2. /\ BufferOrdered' /\ PointsLeft' /\ NotAhead(odom)' /\ OdomBehind' /\ NoSamples'
        /\ Taken /\ Taken'
    BY <1>1, AtPointKeeps
  <1>3. /\ imu_deque' \in Seq(Time) /\ imu_next' \in Time /\ imu_last' \in Time
        /\ DequeOrdered' /\ SampleAtHand'
    <2>1. CASE conf.imu_en /\ time_current > imu_next
      <3>1. PopFront /\ imu_next < time_current
        BY <2>1 DEF AlignFirstFrame, InertialInv, InertialTypeOK, Time
      <3> QED
        BY <1>1, <2>1, <3>1, SampleGoes
    <2>2. CASE ~(conf.imu_en /\ time_current > imu_next)
      <3>1. UNCHANGED imuVars
        BY <2>2 DEF AlignFirstFrame
      <3> QED
        BY <1>1, <3>1, SampleStays DEF InertialInv, InertialTypeOK, imuVars
    <2> QED
      BY <2>1, <2>2
  <1>4. InertialTypeOK'
    BY <1>1, <1>3 DEF InertialInv, InertialTypeOK, AtPointFrame, clockVars, lidarVars, initVars
  <1>5. ForwardFilter'
    BY <1>1, <1>2 DEF InertialInv, ForwardFilter, NotAhead, AtPointFrame, clockVars
  <1> QED
    BY <1>2, <1>3, <1>4, <1>5 DEF InertialInv

LEMMA KeepsSetClock ==
  ASSUME InertialInv, SetClock
  PROVE  InertialInv'
  <1>1. /\ AtPoint /\ AtPoint' /\ pc' = "enter" /\ AtPointFrame /\ UNCHANGED imuVars
        /\ is_first_frame' = FALSE /\ time_update_last' = time_current
        /\ time_predict_last_const' = time_current
    BY DEF SetClock, AtPoint, AtPointFrame
  <1>2. /\ BufferOrdered' /\ PointsLeft' /\ NotAhead(odom)' /\ OdomBehind' /\ NoSamples'
        /\ Taken /\ Taken'
    BY <1>1, AtPointKeeps
  <1>3. DequeOrdered' /\ SampleAtHand'
    BY <1>1, SampleStays
  <1>4. InertialTypeOK'
    BY <1>1 DEF InertialInv, InertialTypeOK, AtPointFrame, imuVars, lidarVars, initVars
  <1>5. time_current \in Nat /\ time_current <= Measures.lidar.beg + MaxO
    BY <1>1, PointInScan DEF InertialInv, InertialTypeOK
  <1>6. ForwardFilter'
    BY <1>1, <1>2, <1>5 DEF ForwardFilter, NotAhead, AtPointFrame
  <1> QED
    BY <1>2, <1>3, <1>4, <1>6 DEF InertialInv

LEMMA KeepsEnterSamples ==
  ASSUME InertialInv, EnterSamples
  PROVE  InertialInv'
  <1>1. /\ AtPoint /\ AtPoint' /\ pc' \in {"fuse", "catchup", "predict"}
        /\ AtPointFrame /\ UNCHANGED imuVars /\ UNCHANGED clockVars
        /\ pc' = "fuse" <=> conf.use_imu_as_input
        /\ pc' = "catchup" => conf.imu_en /\ ~conf.use_imu_as_input
    BY DEF EnterSamples, AtPoint, AtPointFrame, clockVars
  <1>2. conf.use_imu_as_input => conf.imu_en
    BY DEF InertialInv, InertialTypeOK, Configurations
  <1>3. /\ BufferOrdered' /\ PointsLeft' /\ NotAhead(odom)' /\ OdomBehind' /\ NoSamples'
        /\ Taken /\ Taken'
    BY <1>1, <1>2, AtPointKeeps
  <1>4. DequeOrdered' /\ SampleAtHand'
    BY <1>1, SampleStays
  <1>5. InertialTypeOK'
    BY <1>1 DEF InertialInv, InertialTypeOK, AtPointFrame, imuVars, lidarVars, initVars, clockVars
  <1>6. ForwardFilter'
    BY <1>1, <1>3 DEF InertialInv, ForwardFilter, NotAhead, AtPointFrame, clockVars
  <1> QED
    BY <1>3, <1>4, <1>5, <1>6 DEF InertialInv

LEMMA KeepsCatchUp ==
  ASSUME InertialInv, CatchUp
  PROVE  InertialInv'
  <1>1. /\ AtPoint /\ AtPoint' /\ pc = "catchup" /\ pc' \in {"catchup", "fuse"}
        /\ AtPointFrame /\ UNCHANGED clockVars /\ conf.imu_en /\ ~conf.use_imu_as_input
    BY DEF CatchUp, AtPoint, AtPointFrame, clockVars, InertialInv, NoSamples
  <1>2. /\ BufferOrdered' /\ PointsLeft' /\ NotAhead(odom)' /\ OdomBehind' /\ NoSamples'
        /\ Taken /\ Taken'
    BY <1>1, AtPointKeeps
  <1>3. /\ imu_next \in Nat /\ time_predict_last_const \in Nat /\ time_current \in Nat
        /\ time_predict_last_const <= time_current
    BY <1>1 DEF InertialInv, InertialTypeOK, Time, ForwardFilter, NotAhead
  <1>4. CASE imu_next >= time_predict_last_const
    <2>1. pc' = "fuse" /\ UNCHANGED imuVars
      BY <1>4 DEF CatchUp
    <2>2. InertialTypeOK'
      BY <1>1, <2>1 DEF InertialInv, InertialTypeOK, AtPointFrame, imuVars, lidarVars, initVars, clockVars
    <2>3. ForwardFilter'
      BY <1>1, <1>2, <1>3, <1>4, <2>1 DEF InertialInv, ForwardFilter, NotAhead, AtPointFrame, clockVars, imuVars
    <2> QED
      BY <1>1, <1>2, <2>1, <2>2, <2>3, SampleStays DEF InertialInv
  <1>5. CASE ~(imu_next >= time_predict_last_const)
    <2>1. imu_next = Head(imu_deque)
      BY <1>1, <1>2 DEF InertialInv, SampleAtHand
    <2>2. PopFront /\ (Len(imu_deque) > 1 => pc' = "catchup")
      BY <1>5, <2>1 DEF CatchUp
    <2>3. imu_next < time_current
      BY <1>3, <1>5
    <2>4. /\ Len(imu_deque) > 1 /\ imu_deque' \in Seq(Time) /\ DequeOrdered' /\ SampleAtHand'
          /\ imu_next' \in Time /\ imu_last' \in Time
      BY <1>1, <2>2, <2>3, SampleGoes
    <2>5. InertialTypeOK'
      BY <1>1, <2>4 DEF InertialInv, InertialTypeOK, AtPointFrame, lidarVars, initVars, clockVars
    <2>6. ForwardFilter'
      BY <1>1, <1>2, <2>2, <2>4 DEF InertialInv, ForwardFilter, NotAhead, AtPointFrame, clockVars
    <2> QED
      BY <1>2, <2>4, <2>5, <2>6 DEF InertialInv
  <1> QED
    BY <1>4, <1>5

LEMMA KeepsTakeSample ==
  ASSUME InertialInv, FuseSample \/ InputSample
  PROVE  InertialInv'
  <1>1. PICK t \in {imu_next, imu_last} :
          TakeSample(t) /\ (~conf.use_imu_as_input => t = imu_next)
    BY DEF FuseSample, InputSample
  <1>2. /\ AtPoint /\ AtPoint' /\ pc = "fuse" /\ pc' \in {"fuse", "predict"}
        /\ AtPointFrame /\ conf.imu_en /\ UNCHANGED is_first_frame
        /\ Len(imu_deque) > 1 => pc' = "fuse"
    BY <1>1 DEF TakeSample, AtPoint, AtPointFrame, InertialInv, NoSamples
  <1>3. /\ BufferOrdered' /\ PointsLeft' /\ NotAhead(odom)' /\ OdomBehind' /\ NoSamples'
        /\ Taken /\ Taken'
    BY <1>2, AtPointKeeps
  <1>4. /\ imu_next \in Nat /\ time_current \in Nat /\ time_update_last \in Nat /\ t \in Nat
        /\ imu_next < time_current
    BY <1>1 DEF TakeSample, SampleComes, InertialInv, InertialTypeOK, Time
  <1>5. /\ Len(imu_deque) > 1 /\ imu_deque' \in Seq(Time) /\ DequeOrdered' /\ SampleAtHand'
        /\ imu_next' \in Time /\ imu_last' \in Time /\ imu_next <= imu_next'
    BY <1>1, <1>2, <1>4, SampleGoes DEF TakeSample
  <1>6. time_predict_last_const' = t /\ time_update_last' \in Nat
    BY <1>1, <1>4 DEF TakeSample
  <1>7. InertialTypeOK'
    BY <1>2, <1>4, <1>5, <1>6 DEF InertialInv, InertialTypeOK, AtPointFrame, lidarVars, initVars
  <1>8. time_current <= Measures.lidar.beg + MaxO /\ Measures.lidar.beg + MaxO \in Nat
    BY <1>2, PointInScan, ScanIs DEF InertialInv
  <1>9. ForwardFilter'
    BY <1>1, <1>2, <1>3, <1>4, <1>5, <1>6, <1>8 DEF ForwardFilter, NotAhead, AtPointFrame
  <1> QED
    BY <1>3, <1>5, <1>7, <1>9 DEF InertialInv

LEMMA KeepsUpdateWithPoint ==
  ASSUME InertialInv, NEW found \in BOOLEAN, UpdateWithPoint(found)
  PROVE  InertialInv'
  <1>1. /\ AtPoint /\ pc' = "point" /\ Taken /\ Taken' /\ pc \notin {"spin", "scan"}
        /\ time_predict_last_const' = time_current
        /\ time_update_last' \in {time_update_last, time_current}
        /\ odom' \in {odom, time_current}
        /\ ~conf.publish_odometry_without_downsample => odom' = odom
        /\ todo' = todo \ {Earliest(todo)}
        /\ UNCHANGED <<conf, lidarVars, imuVars, last_timestamp_imu, Measures, initVars,
                       time_current, is_first_frame>>
    BY DEF UpdateWithPoint, AtPoint, Taken, PublishOdometry
  <1>2. /\ todo \subseteq Measures.lidar.pts /\ \A o \in todo : o \in Nat /\ Earliest(todo) <= o
        /\ Earliest(todo) \in Nat
        /\ time_current = Measures.lidar.beg + Earliest(todo)
        /\ time_current <= Measures.lidar.beg + MaxO
    BY <1>1, PointInScan
  <1>3. /\ time_current \in Nat /\ odom \in Nat /\ odom <= time_current
        /\ Measures.lidar.beg \in Nat /\ MaxO \in Nat
    BY <1>1, ScanIs DEF InertialInv, InertialTypeOK, NotAhead, AtPoint
  <1>4. InertialTypeOK'
    BY <1>1 DEF InertialInv, InertialTypeOK, lidarVars, imuVars, initVars
  <1>5. BufferOrdered' /\ DequeOrdered' /\ SampleAtHand' /\ NoSamples'
    BY <1>1 DEF InertialInv, BufferOrdered, DequeOrdered, SampleAtHand, NoSamples,
       lidarVars, imuVars, initVars
  <1>6. PointsLeft'
    BY <1>1, <1>2 DEF PointsLeft, AtPoint
  <1>7. \A o \in todo' : time_current <= Measures.lidar.beg + o
    BY <1>1, <1>2, <1>3
  <1>8. \A clock \in Nat : clock <= time_current =>
          clock <= Measures.lidar.beg + MaxO /\ \A o \in todo' : clock <= Measures.lidar.beg + o
    <2> SUFFICES ASSUME NEW clock \in Nat, clock <= time_current
                 PROVE  clock <= Measures.lidar.beg + MaxO /\ \A o \in todo' : clock <= Measures.lidar.beg + o
      OBVIOUS
    <2>1. \A o \in todo' : o \in Nat
      BY <1>1, <1>2
    <2> QED
      BY <1>2, <1>3, <1>7, <2>1
  <1>9. odom' \in Nat /\ odom' <= time_current
    BY <1>1, <1>3
  <1>10. NotAhead(odom)' /\ ForwardFilter'
    BY <1>1, <1>3, <1>8, <1>9 DEF NotAhead, ForwardFilter, AtPoint
  <1>11. OdomBehind'
    BY <1>1 DEF InertialInv, OdomBehind
  <1> QED
    BY <1>4, <1>5, <1>6, <1>10, <1>11 DEF InertialInv

LEMMA KeepsFinishScan ==
  ASSUME InertialInv, FinishScan
  PROVE  InertialInv'
  <1>1. /\ pc = "point" /\ pc' = "spin" /\ Taken /\ ~flg_first_scan
        /\ odom' \in {odom, End(Measures.lidar)}
        /\ UNCHANGED <<conf, lidarVars, imuVars, last_timestamp_imu, Measures, initVars, todo,
                       clockVars>>
    BY DEF FinishScan, Taken, PublishOdometry, InertialInv, NoSamples
  <1>2. ~flg_first_scan' /\ Taken'
    BY <1>1 DEF Taken, initVars
  <1>3. /\ End(Measures.lidar) \in Nat /\ End(Measures.lidar) <= Measures.lidar.beg + MaxO
        /\ odom \in Nat /\ odom <= Measures.lidar.beg + MaxO
    BY <1>1, ScanIs DEF InertialInv, InertialTypeOK, NotAhead
  <1>4. InertialTypeOK'
    BY <1>1, <1>3 DEF InertialInv, InertialTypeOK, lidarVars, imuVars, initVars, clockVars
  <1>5. BufferOrdered' /\ DequeOrdered' /\ SampleAtHand' /\ NoSamples' /\ PointsLeft'
    BY <1>1, <1>2 DEF InertialInv, BufferOrdered, DequeOrdered, SampleAtHand, NoSamples, PointsLeft,
       AtPoint, lidarVars, imuVars, initVars
  <1>6. NotAhead(odom)' /\ OdomBehind' /\ ForwardFilter'
    BY <1>1, <1>2, <1>3 DEF InertialInv, NotAhead, OdomBehind, ForwardFilter, AtPoint, clockVars
  <1> QED
    BY <1>4, <1>5, <1>6 DEF InertialInv

LEMMA InertialInvInit == InertialInit => InertialInv
  <1> SUFFICES ASSUME InertialInit
               PROVE  InertialInv
    OBVIOUS
  <1>1. PICK o \in Offsets : o \in Nat
    BY InertialAssumption
  <1>2. [beg |-> 0, pts |-> {o}, last |-> o] \in Clouds
    <2>1. 0 \in Time /\ {o} \in (SUBSET Offsets) \ {{}}
      BY InertialAssumption DEF Time
    <2> QED
      BY <2>1 DEF Clouds
  <1>3. (CHOOSE c \in Clouds : TRUE) \in Clouds
    BY <1>2
  <1>4. InertialTypeOK
    <2>1. Measures \in [lidar : Clouds, imu : Nat]
      BY <1>3 DEF InertialInit
    <2>2. lidar_buffer \in Seq(Clouds) /\ imu_deque \in Seq(Time) /\ 0 \in Time
      BY InertialAssumption DEF InertialInit, Time
    <2> QED
      BY <2>1, <2>2 DEF InertialInit, InertialTypeOK
  <1>5. ~Taken /\ ~AtPoint /\ pc = "spin"
    BY DEF InertialInit, Taken, AtPoint
  <1>6. DOMAIN lidar_buffer = {} /\ DOMAIN imu_deque = {} /\ imu_deque = <<>>
    BY DEF InertialInit
  <1>7. BufferOrdered /\ DequeOrdered
    BY <1>5, <1>6 DEF BufferOrdered, DequeOrdered, InOrder
  <1>8. SampleAtHand /\ NoSamples /\ PointsLeft
    BY <1>5 DEF SampleAtHand, NoSamples, PointsLeft, InertialInit
  <1>9. NotAhead(odom) /\ OdomBehind /\ ForwardFilter
    BY <1>5 DEF NotAhead, OdomBehind, ForwardFilter, InertialInit
  <1> QED
    BY <1>4, <1>7, <1>8, <1>9 DEF InertialInv

LEMMA InertialInvStep == InertialInv /\ [InertialNext]_inertialVars => InertialInv'
  <1> SUFFICES ASSUME InertialInv, [InertialNext]_inertialVars
               PROVE  InertialInv'
    OBVIOUS
  <1>1. ASSUME NEW stamp \in Time, NEW pts \in SUBSET Offsets, NEW last \in Offsets,
               DriverSends(stamp, pts, last), PointCloudCallback(stamp, pts, last)
        PROVE  InertialInv'
    BY <1>1, KeepsPointCloudCallback
  <1>2. ASSUME NEW stamp \in Time, ImuCallback(stamp)
        PROVE  InertialInv'
    BY <1>2, KeepsImuCallback
  <1>3. CASE Loop
    BY <1>3, KeepsSyncPackages, KeepsProcessScan, KeepsNextPoint, KeepsAlignFirstFrame,
       KeepsSetClock, KeepsEnterSamples, KeepsCatchUp, KeepsTakeSample, KeepsUpdateWithPoint,
       KeepsFinishScan DEF Loop
  <1>4. CASE UNCHANGED inertialVars
    BY <1>4 DEF inertialVars, lidarVars, imuVars, initVars, clockVars, InertialInv, InertialTypeOK,
       BufferOrdered, DequeOrdered, SampleAtHand, NoSamples, PointsLeft, NotAhead, OdomBehind,
       ForwardFilter, Taken, AtPoint
  <1> QED
    BY <1>1, <1>2, <1>3, <1>4 DEF InertialNext

(* Which stamps wait behind which, in every behaviour.                     *)
THEOREM InertialInvariant == InertialSpec => []InertialInv
  BY InertialInvInit, InertialInvStep, PTL DEF InertialSpec

(***************************************************************************)
(* What a step does to the two clocks: only a sample that is fused, a      *)
(* point and the end of a scan move them.                                  *)
(***************************************************************************)
LEMMA ClocksGoOn ==
  ASSUME InertialInv, InertialNext
  PROVE  /\ odom' >= odom
         /\ ~conf.use_imu_as_input => time_predict_last_const' >= time_predict_last_const
  <1>1. odom \in Nat /\ time_predict_last_const \in Nat /\ imu_next \in Nat /\ time_current \in Nat
    BY DEF InertialInv, InertialTypeOK, Time
  <1>2. CASE UNCHANGED <<odom, time_predict_last_const>>
    BY <1>1, <1>2
  <1>3. ASSUME SetClock
        PROVE  odom' = odom
               /\ (~conf.use_imu_as_input => time_predict_last_const' >= time_predict_last_const)
    BY <1>1, <1>3 DEF SetClock, InertialInv, ForwardFilter, NotAhead, AtPoint
  <1>4. ASSUME FuseSample \/ InputSample
        PROVE  odom' = odom
               /\ (~conf.use_imu_as_input => time_predict_last_const' >= time_predict_last_const)
    BY <1>1, <1>4 DEF FuseSample, InputSample, TakeSample, InertialInv, ForwardFilter
  <1>5. ASSUME NEW found \in BOOLEAN, UpdateWithPoint(found)
        PROVE  odom' >= odom
               /\ (~conf.use_imu_as_input => time_predict_last_const' >= time_predict_last_const)
    <2>1. AtPoint /\ time_predict_last_const' = time_current /\ odom' \in {odom, time_current}
      BY <1>5 DEF UpdateWithPoint, AtPoint, PublishOdometry
    <2> QED
      BY <1>1, <2>1 DEF InertialInv, ForwardFilter, NotAhead
  <1>6. ASSUME FinishScan
        PROVE  odom' >= odom /\ time_predict_last_const' = time_predict_last_const
    <2>1. /\ pc = "point" /\ UNCHANGED clockVars
          /\ IF conf.publish_odometry_without_downsample THEN odom' = odom
             ELSE odom' = End(Measures.lidar)
      BY <1>6 DEF FinishScan, PublishOdometry
    <2>2. ~conf.publish_odometry_without_downsample => odom <= Measures.lidar.beg
      BY <2>1 DEF InertialInv, OdomBehind
    <2> QED
      BY <1>1, <2>1, <2>2, ScanIs DEF InertialInv, clockVars
  <1>7. \/ UNCHANGED <<odom, time_predict_last_const>>
        \/ SetClock \/ (FuseSample \/ InputSample)
        \/ (\E found \in BOOLEAN : UpdateWithPoint(found)) \/ FinishScan
    <2>1. (\E stamp \in Time, pts \in SUBSET Offsets, last \in Offsets :
             DriverSends(stamp, pts, last) /\ PointCloudCallback(stamp, pts, last)) =>
          UNCHANGED <<odom, time_predict_last_const>>
      BY DEF PointCloudCallback, clockVars
    <2>2. (\E stamp \in Time : ImuCallback(stamp)) => UNCHANGED <<odom, time_predict_last_const>>
      BY DEF ImuCallback, clockVars
    <2>3. SyncPackages \/ ProcessScan \/ NextPoint \/ AlignFirstFrame \/ EnterSamples \/ CatchUp =>
          UNCHANGED <<odom, time_predict_last_const>>
      BY DEF SyncPackages, ProcessScan, NextPoint, AlignFirstFrame, EnterSamples, CatchUp, clockVars
    <2> QED
      BY <2>1, <2>2, <2>3 DEF InertialNext, Loop
  <1> QED
    BY <1>1, <1>2, <1>3, <1>4, <1>5, <1>6, <1>7

(***************************************************************************)
(* For any times, offsets of points, numbers of scans and thresholds of    *)
(* the initialisation: the odometry never goes back, and neither does the  *)
(* filter unless samples are its input.                                    *)
(***************************************************************************)
THEOREM InertialFilterGoesForward == InertialSpec => FilterGoesForward
  <1>1. InertialInv /\ [InertialNext]_inertialVars =>
          [/\ odom' >= odom
           /\ ~conf.use_imu_as_input => time_predict_last_const' >= time_predict_last_const]_inertialVars
    BY ClocksGoOn
  <1> QED
    BY <1>1, InertialInvariant, PTL DEF InertialSpec, FilterGoesForward

-----------------------------------------------------------------------------
(***************************************************************************)
(* IVoxMap. The map and the list of its nodes know each other, so a search *)
(* looks at every point in its reach; and the nearest of the nearest of    *)
(* each voxel are the nearest of them all.                                 *)
(***************************************************************************)
Points3 == [1 .. 3 -> Int]

\* Squares are not negative.
LEMMA SquaresAreNat == \A a \in Int : a * a \in Nat
<1> SUFFICES ASSUME NEW a \in Int PROVE a * a \in Nat
  OBVIOUS
<1>1. CASE a >= 0
  BY <1>1, SMT
<1>2. CASE a < 0
  <2>1. 0 - a \in Nat /\ (0 - a) * (0 - a) = a * a
    BY <1>2, SMT
  <2>2. \A n \in Nat : n * n \in Nat
    BY SMT
  <2>3. QED
    BY <2>1, <2>2
<1>3. QED
  BY <1>1, <1>2

\* Nor are distances.
LEMMA DistanceIsNat ==
  ASSUME NEW p \in Points3, NEW q \in Points3
  PROVE  Distance2(p, q) \in Nat
<1>1. p[1] - q[1] \in Int /\ p[2] - q[2] \in Int /\ p[3] - q[3] \in Int
  BY DEF Points3
<1>2. /\ (p[1] - q[1]) * (p[1] - q[1]) \in Nat
      /\ (p[2] - q[2]) * (p[2] - q[2]) \in Nat
      /\ (p[3] - q[3]) * (p[3] - q[3]) \in Nat
  BY <1>1, SquaresAreNat
<1>3. \A x, y, z \in Nat : x + y + z \in Nat
  OBVIOUS
<1>4. QED
  BY <1>2, <1>3 DEF Distance2

\* A point's voxel has three coordinates.
LEMMA GridIsPoint ==
  ASSUME NEW pt \in Points3
  PROVE  Pos2Grid(pt) \in Points3
<1>1. \A c \in 1 .. 3 : pt[c] \div resolution_ \in Int
  BY MapAssumption DEF Points3
<1>2. QED
  BY <1>1 DEF Points3, Pos2Grid

(* Of finitely many points there are k that are nearest.                   *)
NearestOf(S, points, pt) ==
  /\ S \subseteq points
  /\ \A p \in S, q \in points \ S : Distance2(p, pt) <= Distance2(q, pt)

LEMMA NearestExist ==
  ASSUME NEW points, points \subseteq Points3, IsFiniteSet(points), NEW pt \in Points3
  PROVE  \A k \in 0 .. Cardinality(points) :
           \E S : NearestOf(S, points, pt) /\ Cardinality(S) = k
<1>1. Cardinality(points) \in Nat
  BY FS_CardinalityType
<1> DEFINE T == {k \in 0 .. Cardinality(points) :
                   \E S : NearestOf(S, points, pt) /\ Cardinality(S) = k}
<1>2. 0 \in T
  <2>1. NearestOf({}, points, pt) /\ Cardinality({}) = 0
    BY FS_EmptySet DEF NearestOf
  <2>2. QED
    BY <1>1, <2>1
<1>3. ASSUME NEW k \in 1 .. Cardinality(points), k - 1 \in T
      PROVE  k \in T
  <2>1. PICK S : NearestOf(S, points, pt) /\ Cardinality(S) = k - 1
    BY <1>3
  <2>2. S \subseteq points /\ IsFiniteSet(S)
    BY <2>1, FS_Subset DEF NearestOf
  <2>3. points \ S # {}
    <3>1. Cardinality(S) # Cardinality(points)
      BY <1>1, <2>1
    <3>2. QED
      BY <2>2, <3>1
  <2> DEFINE D == {Distance2(q, pt) : q \in points \ S}
  <2>4. D # {} /\ D \subseteq Nat
    BY <2>3, DistanceIsNat
  <2>5. \A q \in points \ S : Distance2(q, pt) \in D
    OBVIOUS
  <2>6. \A x \in D : \E q \in points \ S : x = Distance2(q, pt)
    OBVIOUS
  <2> HIDE DEF D
  <2>7. PICK x \in D : \A y \in D : x <= y
    BY <2>4, LeastNumber
  <2>8. PICK r \in points \ S : x = Distance2(r, pt)
    BY <2>6
  <2>9. NearestOf(S \cup {r}, points, pt)
    <3>1. S \cup {r} \subseteq points
      BY <2>2
    <3>2. ASSUME NEW p \in S \cup {r}, NEW q \in points \ (S \cup {r})
          PROVE  Distance2(p, pt) <= Distance2(q, pt)
      <4>1. CASE p = r
        BY <4>1, <2>5, <2>7, <2>8
      <4>2. CASE p \in S
        BY <4>2, <2>1 DEF NearestOf
      <4>3. QED
        BY <4>1, <4>2
    <3>3. QED
      BY <3>1, <3>2 DEF NearestOf
  <2>10. Cardinality(S \cup {r}) = k
    <3>1. Cardinality(S \cup {r}) = Cardinality(S) + 1
      BY <2>2, FS_AddElement
    <3>2. QED
      BY <2>1, <3>1
  <2>11. QED
    BY <2>9, <2>10
<1>4. \A k \in 0 .. Cardinality(points) : k \in T
  <2> HIDE DEF T
  <2>1. \A k \in 1 .. Cardinality(points) : k - 1 \in T => k \in T
    BY <1>3
  <2>2. QED
    BY <1>1, <1>2, <2>1, Induction
<1>5. QED
  BY <1>4

\* KNearest chooses nearest points: k of them, or all there are.
LEMMA KNearestIs ==
  ASSUME NEW points, points \subseteq Points3, IsFiniteSet(points), NEW pt \in Points3
  PROVE  /\ NearestOf(KNearest(points, pt), points, pt)
         /\ Cardinality(points) <= NUM_MATCH_POINTS => KNearest(points, pt) = points
         /\ Cardinality(points) > NUM_MATCH_POINTS =>
              Cardinality(KNearest(points, pt)) = NUM_MATCH_POINTS
<1>1. Cardinality(points) \in Nat /\ NUM_MATCH_POINTS \in Nat
  BY FS_CardinalityType, MapAssumption
<1>2. CASE Cardinality(points) <= NUM_MATCH_POINTS
  <2>1. KNearest(points, pt) = points
    BY <1>2 DEF KNearest
  <2>2. QED
    BY <1>1, <1>2, <2>1 DEF NearestOf
<1>3. CASE ~ (Cardinality(points) <= NUM_MATCH_POINTS)
  <2>1. NUM_MATCH_POINTS \in 0 .. Cardinality(points)
    BY <1>1, <1>3
  <2>2. PICK S : NearestOf(S, points, pt) /\ Cardinality(S) = NUM_MATCH_POINTS
    BY <2>1, NearestExist
  <2>3. /\ S \in kSubset(NUM_MATCH_POINTS, points)
        /\ \A p \in S, q \in points \ S : Distance2(p, pt) <= Distance2(q, pt)
    BY <2>2 DEF NearestOf, kSubset
  <2>4. PICK K : K = KNearest(points, pt)
    OBVIOUS
  <2>5. /\ K \in kSubset(NUM_MATCH_POINTS, points)
        /\ \A p \in K, q \in points \ K : Distance2(p, pt) <= Distance2(q, pt)
    BY <1>3, <2>3, <2>4 DEF KNearest
  <2>6. NearestOf(K, points, pt) /\ Cardinality(K) = NUM_MATCH_POINTS
    BY <2>5 DEF kSubset, NearestOf
  <2>7. QED
    BY <1>3, <2>4, <2>6
<1>4. QED
  BY <1>2, <1>3

\* Min, of two numbers.
LEMMA LesserOfTwo ==
  ASSUME NEW a \in Nat, NEW b \in Nat
  PROVE  Min({a, b}) = IF a <= b THEN a ELSE b
<1>1. PICK m : m = IF a <= b THEN a ELSE b
  OBVIOUS
<1>2. m \in {a, b} /\ \A y \in {a, b} : m <= y
  BY <1>1
<1>3. \A x \in {a, b} : (\A y \in {a, b} : x <= y) => x = m
  BY <1>2
<1>4. Min({a, b}) = m
  BY <1>2, <1>3 DEF Min
<1>5. QED
  BY <1>1, <1>4

(* The nearest of the nearest of each part are the nearest of the whole.   *)
IsNearest(S, points, pt) ==
  /\ NearestOf(S, points, pt)
  /\ Cardinality(S) = Min({NUM_MATCH_POINTS, Cardinality(points)})

LEMMA NearestByParts ==
  ASSUME NEW parts, IsFiniteSet(parts), NEW pt \in Points3,
         \A R \in parts : R \subseteq Points3 /\ IsFiniteSet(R),
         UNION parts # {},
         NEW C, C = UNION {KNearest(R, pt) : R \in parts}
  PROVE  C # {} /\ IsNearest(KNearest(C, pt), UNION parts, pt)
<1> DEFINE all == UNION parts
           k == NUM_MATCH_POINTS
<1>1. all \subseteq Points3 /\ IsFiniteSet(all) /\ Cardinality(all) \in Nat
  <2>1. IsFiniteSet(all)
    BY FS_UNION
  <2>2. QED
    BY <2>1, FS_CardinalityType
<1>2. \A R \in parts : R \subseteq all
  OBVIOUS
<1>3. \A q \in all : \E R \in parts : q \in R
  OBVIOUS
<1>4. k \in Nat \ {0}
  BY MapAssumption
<1> HIDE DEF all, k
<1>5. \A R \in parts : /\ NearestOf(KNearest(R, pt), R, pt)
                       /\ Cardinality(R) <= k => KNearest(R, pt) = R
                       /\ Cardinality(R) > k => Cardinality(KNearest(R, pt)) = k
                       /\ IsFiniteSet(KNearest(R, pt)) /\ KNearest(R, pt) \subseteq C
  <2> SUFFICES ASSUME NEW R \in parts
               PROVE  /\ NearestOf(KNearest(R, pt), R, pt)
                      /\ Cardinality(R) <= k => KNearest(R, pt) = R
                      /\ Cardinality(R) > k => Cardinality(KNearest(R, pt)) = k
                      /\ IsFiniteSet(KNearest(R, pt)) /\ KNearest(R, pt) \subseteq C
    OBVIOUS
  <2>1. R \subseteq Points3 /\ IsFiniteSet(R)
    OBVIOUS
  <2>2. /\ NearestOf(KNearest(R, pt), R, pt)
        /\ Cardinality(R) <= k => KNearest(R, pt) = R
        /\ Cardinality(R) > k => Cardinality(KNearest(R, pt)) = k
    BY <2>1, KNearestIs DEF k
  <2>3. IsFiniteSet(KNearest(R, pt))
    BY <2>1, <2>2, FS_Subset DEF NearestOf
  <2>4. KNearest(R, pt) \subseteq C
    OBVIOUS
  <2>5. QED
    BY <2>2, <2>3, <2>4
<1>6. C \subseteq all /\ IsFiniteSet(C) /\ Cardinality(C) \in Nat
  <2>1. C \subseteq all
    BY <1>2, <1>5 DEF NearestOf
  <2>2. QED
    BY <1>1, <2>1, FS_Subset, FS_CardinalityType
<1>7. PICK S : S = KNearest(C, pt)
  OBVIOUS
<1>8. /\ NearestOf(S, C, pt)
      /\ Cardinality(C) <= k => S = C
      /\ Cardinality(C) > k => Cardinality(S) = k
  BY <1>1, <1>6, <1>7, KNearestIs DEF k
<1>9. S \subseteq C /\ IsFiniteSet(S) /\ Cardinality(S) \in Nat
  <2>1. S \subseteq C
    BY <1>8 DEF NearestOf
  <2>2. QED
    BY <1>6, <2>1, FS_Subset, FS_CardinalityType
<1>10. Cardinality(S) = IF Cardinality(C) <= k THEN Cardinality(C) ELSE k
  <2>1. CASE Cardinality(C) <= k
    <3>1. S = C
      BY <1>8, <2>1
    <3>2. QED
      BY <2>1, <3>1
  <2>2. CASE ~ (Cardinality(C) <= k)
    <3>1. Cardinality(C) > k
      BY <1>4, <1>6, <2>2
    <3>2. QED
      BY <1>8, <2>2, <3>1
  <2>3. QED
    BY <2>1, <2>2
(* What a part leaves out is as far as all it keeps, and it keeps k.       *)
<1>11. ASSUME NEW q \in all \ C
       PROVE  \E K : /\ K \subseteq C /\ IsFiniteSet(K) /\ Cardinality(K) = k
                     /\ \A p \in K : Distance2(p, pt) <= Distance2(q, pt)
  <2>1. PICK R \in parts : q \in R
    BY <1>3
  <2>2. q \in R \ KNearest(R, pt)
    BY <1>5, <2>1
  <2>3. Cardinality(KNearest(R, pt)) = k
    <3>1. ~ (Cardinality(R) <= k)
      BY <1>5, <2>2
    <3>2. Cardinality(R) \in Nat
      BY FS_CardinalityType
    <3>3. QED
      BY <1>4, <1>5, <3>1, <3>2
  <2>4. \A p \in KNearest(R, pt) : Distance2(p, pt) <= Distance2(q, pt)
    BY <1>5, <2>2 DEF NearestOf
  <2>5. QED
    BY <1>5, <2>3, <2>4
<1>12. (all \ C # {} => k <= Cardinality(C)) /\ (all \ C = {} => all = C)
  <2>1. ASSUME NEW q \in all \ C PROVE k <= Cardinality(C)
    <3>1. PICK K : K \subseteq C /\ Cardinality(K) = k
      BY <1>11
    <3>2. Cardinality(K) <= Cardinality(C)
      BY <1>6, <3>1, FS_Subset
    <3>3. QED
      BY <3>1, <3>2
  <2>2. QED
    BY <1>6, <2>1
<1>13. ASSUME NEW p \in S, NEW q \in all \ S
       PROVE  Distance2(p, pt) <= Distance2(q, pt)
  <2>1. CASE q \in C
    BY <1>8, <2>1 DEF NearestOf
  <2>2. CASE q \notin C
    <3>1. PICK K : /\ K \subseteq C /\ IsFiniteSet(K) /\ Cardinality(K) = k
                   /\ \A o \in K : Distance2(o, pt) <= Distance2(q, pt)
      BY <1>11, <2>2
    <3>2. CASE p \in K
      BY <3>1, <3>2
    <3>3. CASE p \notin K
      <4>1. Cardinality(S) = k
        <5>1. k <= Cardinality(C)
          BY <1>12, <2>2
        <5>2. QED
          BY <1>4, <1>6, <1>10, <5>1
      <4>2. PICK r \in K : r \notin S
        <5>1. ~ (K \subseteq S)
          <6>1. K \subseteq S => K = S
            BY <1>9, <3>1, <4>1, FS_Subset
          <6>2. QED
            BY <3>3, <6>1
        <5>2. QED
          BY <5>1
      <4>3. r \in C \ S
        BY <3>1, <4>2
      <4>4. Distance2(p, pt) <= Distance2(r, pt) /\ Distance2(r, pt) <= Distance2(q, pt)
        BY <1>8, <3>1, <4>3 DEF NearestOf
      <4>5. /\ Distance2(p, pt) \in Nat /\ Distance2(q, pt) \in Nat /\ Distance2(r, pt) \in Nat
        <5>1. p \in Points3 /\ q \in Points3 /\ r \in Points3
          BY <1>1, <1>6, <1>9, <4>3
        <5>2. QED
          BY <5>1, DistanceIsNat
      <4>6. QED
        BY <4>4, <4>5
    <3>4. QED
      BY <3>2, <3>3
  <2>3. QED
    BY <2>1, <2>2
<1>14. NearestOf(S, all, pt)
  BY <1>6, <1>9, <1>13 DEF NearestOf
<1>15. Cardinality(C) <= Cardinality(all)
  BY <1>1, <1>6, FS_Subset
<1>16. Cardinality(S) = IF k <= Cardinality(all) THEN k ELSE Cardinality(all)
  <2>1. CASE all \ C = {}
    <3>1. all = C
      BY <1>12, <2>1
    <3>2. Cardinality(all) = Cardinality(C)
      BY <3>1
    <3>3. QED
      BY <1>4, <1>6, <1>10, <3>2
  <2>2. CASE all \ C # {}
    <3>1. k <= Cardinality(C)
      BY <1>12, <2>2
    <3>2. QED
      BY <1>1, <1>4, <1>6, <1>10, <1>15, <3>1
  <2>3. QED
    BY <2>1, <2>2
<1>17. IsNearest(S, all, pt)
  BY <1>1, <1>4, <1>14, <1>16, LesserOfTwo DEF IsNearest, k
<1>18. C # {}
  <2>1. CASE C = {}
    <3>1. Cardinality(C) = 0 /\ all \ C # {}
      BY <2>1, FS_EmptySet DEF all
    <3>2. QED
      BY <1>4, <1>12, <3>1
  <2>2. QED
    BY <2>1
<1>19. QED
  BY <1>7, <1>17, <1>18 DEF all

(* The map and the list know each other: each voxel of the map has a node  *)
(* of the list made for it, each node of the list is that of its voxel.    *)
Maps == UNION {[D -> Nodes] : D \in SUBSET Points3}

Linked(map, cache, nodes) ==
  /\ map \in Maps /\ IsFiniteSet(DOMAIN map)
  /\ cache \in Seq(Nodes)
  /\ nodes \in [Nodes -> [key : Points3, points : SUBSET Points3]]
  /\ \A n \in Nodes : IsFiniteSet(nodes[n].points)
  /\ \A e, j \in 1 .. Len(cache) : cache[e] = cache[j] => e = j
  /\ \A e \in 1 .. Len(cache) : /\ nodes[cache[e]].key \in DOMAIN map
                                /\ map[nodes[cache[e]].key] = cache[e]
  /\ \A key \in DOMAIN map : /\ nodes[map[key]].key = key
                             /\ \E e \in 1 .. Len(cache) : cache[e] = map[key]

\* The list is never full when a point is added.
Grids ==
  {m \in [map : Maps, cache : Seq(Nodes),
          node : [Nodes -> [key : Points3, points : SUBSET Points3]]] :
     Linked(m.map, m.cache, m.node) /\ Cardinality(DOMAIN m.map) < capacity_}

\* What it is to be a map from voxels to nodes.
LEMMA MapIs ==
  ASSUME NEW map \in Maps
  PROVE  /\ DOMAIN map \subseteq Points3
         /\ map = [key \in DOMAIN map |-> map[key]]
         /\ \A key \in DOMAIN map : map[key] \in Nodes
<1>1. PICK D \in SUBSET Points3 : map \in [D -> Nodes]
  BY DEF Maps
<1>2. DOMAIN map = D
  BY <1>1
<1>3. QED
  BY <1>1, <1>2

LEMMA IsMap ==
  ASSUME NEW D, D \subseteq Points3, NEW map, map \in [D -> Nodes]
  PROVE  map \in Maps
  BY DEF Maps

\* A list that is not full leaves a node free.
LEMMA FreeNode ==
  ASSUME NEW m \in Grids
  PROVE  \E n \in Nodes : n \notin ToSet(m.cache)
<1>1. /\ Linked(m.map, m.cache, m.node)
      /\ Cardinality(DOMAIN m.map) < capacity_
  BY DEF Grids
<1> DEFINE used == ToSet(m.cache)
<1>2. m.map \in [DOMAIN m.map -> used]
  <2>1. m.map = [key \in DOMAIN m.map |-> m.map[key]]
    BY <1>1, MapIs DEF Linked
  <2>2. \A key \in DOMAIN m.map : m.map[key] \in used
    BY <1>1 DEF Linked, ToSet
  <2> HIDE DEF used
  <2>3. QED
    BY <2>1, <2>2
<1>3. \A n \in used : \E key \in DOMAIN m.map : m.map[key] = n
  BY <1>1 DEF Linked, ToSet
<1> HIDE DEF used
<1>4. m.map \in Surjection(DOMAIN m.map, used)
  BY <1>2, <1>3 DEF Surjection
<1>5. IsFiniteSet(used) /\ Cardinality(used) <= Cardinality(DOMAIN m.map)
  BY <1>1, <1>4, FS_Surjection DEF Linked
<1>6. Cardinality(used) # Cardinality(Nodes)
  <2>1. Cardinality(used) \in Nat /\ Cardinality(DOMAIN m.map) \in Nat /\ Cardinality(Nodes) \in Nat
    BY <1>1, <1>5, FS_CardinalityType, MapAssumption DEF Linked
  <2>2. Cardinality(Nodes) >= capacity_ /\ capacity_ \in Nat
    BY MapAssumption
  <2>3. QED
    BY <1>1, <1>5, <2>1, <2>2
<1>7. QED
  <2>1. used \subseteq Nodes
    BY <1>1 DEF used, Linked, ToSet
  <2>2. used # Nodes
    BY <1>6
  <2>3. QED
    BY <2>1, <2>2 DEF used

(* The end of the list is given up, with its voxel.                        *)
LEMMA EvictionKeeps ==
  ASSUME NEW map, NEW cache, NEW nodes, Linked(map, cache, nodes), Len(cache) > 0,
         NEW key, key = nodes[Last(cache)].key
  PROVE  /\ key \in DOMAIN map
         /\ Linked(Erased(map, key), Front(cache), nodes)
         /\ DOMAIN Erased(map, key) = DOMAIN map \ {key}
<1> DEFINE map2 == Erased(map, key)
           cache2 == Front(cache)
<1>1. PICK last : last = Len(cache)
  OBVIOUS
<1>2. last \in Nat \ {0} /\ last \in 1 .. Len(cache) /\ cache \in Seq(Nodes)
  BY <1>1 DEF Linked
<1>3. key \in DOMAIN map /\ map[key] = cache[last] /\ nodes[cache[last]].key = key
  BY <1>1, <1>2 DEF Linked, Last
<1>4. /\ cache2 \in Seq(Nodes) /\ Len(cache2) = last - 1
      /\ \A e \in 1 .. last - 1 : cache2[e] = cache[e] /\ e \in 1 .. Len(cache) /\ e # last
  BY <1>1, <1>2 DEF Front
<1>5. /\ DOMAIN map2 = DOMAIN map \ {key}
      /\ map2 = [y \in DOMAIN map \ {key} |-> map[y]]
      /\ \A y \in DOMAIN map \ {key} : map2[y] = map[y]
  BY DEF Erased, Without
<1>6. map2 \in Maps /\ IsFiniteSet(DOMAIN map2)
  <2>1. DOMAIN map \ {key} \subseteq Points3 /\ \A y \in DOMAIN map \ {key} : map[y] \in Nodes
    BY MapIs DEF Linked
  <2>2. map2 \in [DOMAIN map \ {key} -> Nodes]
    BY <1>5, <2>1
  <2>3. map2 \in Maps
    BY <2>1, <2>2, IsMap
  <2>4. IsFiniteSet(DOMAIN map2)
    BY <1>5, FS_RemoveElement DEF Linked
  <2>5. QED
    BY <2>3, <2>4
<1> HIDE DEF map2, cache2
<1>7. ASSUME NEW e \in 1 .. Len(cache2)
      PROVE  nodes[cache2[e]].key \in DOMAIN map2 /\ map2[nodes[cache2[e]].key] = cache2[e]
  <2>1. e \in 1 .. Len(cache) /\ e # last /\ cache2[e] = cache[e]
    BY <1>4
  <2>2. nodes[cache[e]].key \in DOMAIN map /\ map[nodes[cache[e]].key] = cache[e]
    BY <2>1 DEF Linked
  <2>3. cache[e] # cache[last]
    BY <1>2, <2>1 DEF Linked
  <2>4. nodes[cache[e]].key # key
    BY <1>3, <2>2, <2>3
  <2>5. QED
    BY <1>5, <2>1, <2>2, <2>4
<1>8. ASSUME NEW y \in DOMAIN map2
      PROVE  /\ nodes[map2[y]].key = y
             /\ \E e \in 1 .. Len(cache2) : cache2[e] = map2[y]
  <2>1. y \in DOMAIN map /\ y # key /\ map2[y] = map[y]
    BY <1>5
  <2>2. PICK e \in 1 .. Len(cache) : cache[e] = map[y]
    BY <2>1 DEF Linked
  <2>3. nodes[map[y]].key = y
    BY <2>1 DEF Linked
  <2>4. e # last
    BY <1>3, <2>1, <2>2, <2>3
  <2>5. e \in 1 .. last - 1
    BY <1>1, <1>2, <2>4
  <2>6. QED
    BY <1>4, <2>1, <2>2, <2>3, <2>5
<1>9. \A e, j \in 1 .. Len(cache2) : cache2[e] = cache2[j] => e = j
  BY <1>4 DEF Linked
<1>10. Linked(map2, cache2, nodes)
  BY <1>4, <1>6, <1>7, <1>8, <1>9 DEF Linked
<1>11. QED
  BY <1>3, <1>5, <1>10 DEF map2, cache2

(* A new voxel gets a free node, in front of the list.                     *)
LEMMA InsertionKeeps ==
  ASSUME NEW map, NEW cache, NEW nodes, Linked(map, cache, nodes),
         NEW n \in Nodes, n \notin ToSet(cache),
         NEW pt \in Points3, NEW key \in Points3, key \notin DOMAIN map,
         NEW nodes2, nodes2 = [nodes EXCEPT ![n] = [key |-> key, points |-> {pt}]],
         NEW map2, map2 = With(map, key, n)
  PROVE  /\ Linked(map2, <<n>> \o cache, nodes2)
         /\ DOMAIN map2 = DOMAIN map \cup {key}
<1>1. PICK cache2 : cache2 = <<n>> \o cache
  OBVIOUS
<1>2. PICK len : len = Len(cache)
  OBVIOUS
<1>3. cache \in Seq(Nodes) /\ len \in Nat
  BY <1>2 DEF Linked
<1>4. /\ cache2 \in Seq(Nodes) /\ Len(cache2) = len + 1 /\ cache2[1] = n
      /\ \A e \in 1 .. len : cache2[e + 1] = cache[e]
      /\ \A e \in 2 .. len + 1 : e - 1 \in 1 .. len /\ cache2[e] = cache[e - 1]
  BY <1>1, <1>2, <1>3
<1>5. \A e \in 1 .. len : cache[e] # n /\ cache[e] \in Nodes
  BY <1>2, <1>3 DEF ToSet
<1>6. /\ nodes2 \in [Nodes -> [key : Points3, points : SUBSET Points3]]
      /\ nodes2[n].key = key /\ nodes2[n].points = {pt}
      /\ \A o \in Nodes \ {n} : nodes2[o] = nodes[o]
  <2>1. nodes \in [Nodes -> [key : Points3, points : SUBSET Points3]]
    BY DEF Linked
  <2>2. [key |-> key, points |-> {pt}] \in [key : Points3, points : SUBSET Points3]
    OBVIOUS
  <2>3. QED
    BY <2>1, <2>2
<1>7. /\ DOMAIN map2 = DOMAIN map \cup {key} /\ map2[key] = n
      /\ \A y \in DOMAIN map : map2[y] = map[y]
      /\ map2 = [y \in DOMAIN map \cup {key} |-> IF y = key THEN n ELSE map[y]]
  BY DEF With
<1>8. \A y \in DOMAIN map : map[y] \in Nodes /\ map[y] # n
  <2>1. \A y \in DOMAIN map : \E e \in 1 .. Len(cache) : cache[e] = map[y]
    BY DEF Linked
  <2>2. QED
    BY <1>2, <1>5, <2>1
<1>9. map2 \in Maps /\ IsFiniteSet(DOMAIN map2)
  <2>1. DOMAIN map \cup {key} \subseteq Points3
    BY MapIs DEF Linked
  <2>2. map2 \in [DOMAIN map \cup {key} -> Nodes]
    BY <1>7, <1>8
  <2>3. map2 \in Maps
    BY <2>1, <2>2, IsMap
  <2>4. IsFiniteSet(DOMAIN map2)
    BY <1>7, FS_AddElement DEF Linked
  <2>5. QED
    BY <2>3, <2>4
<1>10. \A o \in Nodes : IsFiniteSet(nodes2[o].points)
  <2>1. IsFiniteSet({pt})
    BY FS_Singleton
  <2>2. \A o \in Nodes : IsFiniteSet(nodes[o].points)
    BY DEF Linked
  <2>3. QED
    BY <1>6, <2>1, <2>2
<1>11. ASSUME NEW e \in 1 .. len + 1, NEW j \in 1 .. len + 1, cache2[e] = cache2[j]
       PROVE  e = j
  <2>1. \A a, b \in 1 .. len : cache[a] = cache[b] => a = b
    BY <1>2 DEF Linked
  <2>2. \A a \in 1 .. len + 1 : \/ a = 1 /\ cache2[a] = n
                                \/ /\ a - 1 \in 1 .. len
                                   /\ cache2[a] = cache[a - 1] /\ cache2[a] # n
    <3>1. \A a \in 1 .. len + 1 : a = 1 \/ a \in 2 .. len + 1
      BY <1>3
    <3>2. QED
      BY <1>4, <1>5, <3>1
  <2>3. CASE e = 1
    BY <1>11, <2>2, <2>3
  <2>4. CASE e # 1
    <3>1. j # 1
      BY <1>11, <2>2, <2>4
    <3>2. /\ e - 1 \in 1 .. len /\ j - 1 \in 1 .. len
          /\ cache[e - 1] = cache[j - 1]
      BY <1>11, <2>2, <2>4, <3>1
    <3>3. e - 1 = j - 1
      BY <2>1, <3>2
    <3>4. QED
      BY <3>3
  <2>5. QED
    BY <2>3, <2>4
<1>12. ASSUME NEW e \in 1 .. len + 1
       PROVE  nodes2[cache2[e]].key \in DOMAIN map2 /\ map2[nodes2[cache2[e]].key] = cache2[e]
  <2>1. CASE e = 1
    BY <1>4, <1>6, <1>7, <2>1
  <2>2. CASE e # 1
    <3>1. PICK j \in 1 .. len : cache2[e] = cache[j]
      <4>1. e - 1 \in 1 .. len /\ cache2[e] = cache[e - 1]
        BY <1>3, <1>4, <2>2
      <4>2. QED
        BY <4>1
    <3>2. nodes[cache[j]].key \in DOMAIN map /\ map[nodes[cache[j]].key] = cache[j]
      BY <1>2 DEF Linked
    <3>3. nodes2[cache[j]] = nodes[cache[j]]
      BY <1>5, <1>6
    <3>4. QED
      BY <1>7, <3>1, <3>2, <3>3
  <2>3. QED
    BY <2>1, <2>2
<1>13. ASSUME NEW y \in DOMAIN map2
       PROVE  /\ nodes2[map2[y]].key = y
              /\ \E e \in 1 .. len + 1 : cache2[e] = map2[y]
  <2>1. CASE y = key
    <3>1. 1 \in 1 .. len + 1
      BY <1>3
    <3>2. QED
      BY <1>4, <1>6, <1>7, <2>1, <3>1
  <2>2. CASE y \in DOMAIN map
    <3>1. PICK e \in 1 .. len : cache[e] = map[y]
      BY <1>2, <2>2 DEF Linked
    <3>2. e + 1 \in 1 .. len + 1 /\ cache2[e + 1] = map2[y]
      BY <1>3, <1>4, <1>7, <2>2, <3>1
    <3>3. nodes[map[y]].key = y
      BY <2>2 DEF Linked
    <3>4. nodes2[map2[y]].key = y
      BY <1>6, <1>7, <1>8, <2>2, <3>3
    <3>5. QED
      BY <3>2, <3>4
  <2>3. QED
    BY <1>7, <2>1, <2>2
<1>14. Linked(map2, cache2, nodes2)
  <2>1. \A e, j \in 1 .. Len(cache2) : cache2[e] = cache2[j] => e = j
    BY <1>4, <1>11
  <2>2. \A e \in 1 .. Len(cache2) : /\ nodes2[cache2[e]].key \in DOMAIN map2
                                    /\ map2[nodes2[cache2[e]].key] = cache2[e]
    BY <1>4, <1>12
  <2>3. \A y \in DOMAIN map2 : /\ nodes2[map2[y]].key = y
                               /\ \E e \in 1 .. Len(cache2) : cache2[e] = map2[y]
    BY <1>4, <1>13
  <2>4. QED
    BY <1>4, <1>6, <1>9, <1>10, <2>1, <2>2, <2>3 DEF Linked
<1>15. QED
  BY <1>1, <1>7, <1>14

LEMMA InGrids ==
  ASSUME NEW map, NEW cache, NEW nodes, Linked(map, cache, nodes),
         Cardinality(DOMAIN map) < capacity_
  PROVE  [map |-> map, cache |-> cache, node |-> nodes] \in Grids
<1>1. /\ map \in Maps /\ cache \in Seq(Nodes)
      /\ nodes \in [Nodes -> [key : Points3, points : SUBSET Points3]]
  BY DEF Linked
<1>2. QED
  BY <1>1 DEF Grids

\* AddPoint of the first point of a voxel, with what it evicts.
LEMMA NewKeeps ==
  ASSUME NEW m \in Grids, NEW pt \in Points3, Pos2Grid(pt) \notin DOMAIN m.map
  PROVE  NewVoxel(m, pt) \in Grids
<1>1. Linked(m.map, m.cache, m.node) /\ Cardinality(DOMAIN m.map) < capacity_
  BY DEF Grids
<1>2. PICK key : key = Pos2Grid(pt)
  OBVIOUS
<1>3. key \in Points3
  BY <1>2, GridIsPoint
<1>4. PICK n : n = CHOOSE free \in Nodes : free \notin ToSet(m.cache)
  OBVIOUS
<1>5. n \in Nodes /\ n \notin ToSet(m.cache)
  BY <1>4, FreeNode
<1>6. PICK nodes2 : nodes2 = [m.node EXCEPT ![n] = [key |-> key, points |-> {pt}]]
  OBVIOUS
<1>7. PICK map2 : map2 = With(m.map, key, n)
  OBVIOUS
<1>8. PICK cache2 : cache2 = <<n>> \o m.cache
  OBVIOUS
<1>9. Linked(map2, cache2, nodes2) /\ DOMAIN map2 = DOMAIN m.map \cup {key}
  <2>1. key \notin DOMAIN m.map
    BY <1>2
  <2>2. Linked(map2, <<n>> \o m.cache, nodes2) /\ DOMAIN map2 = DOMAIN m.map \cup {key}
    BY <1>1, <1>3, <1>5, <1>6, <1>7, <2>1, InsertionKeeps
  <2>3. QED
    BY <1>8, <2>2
<1>10. Len(cache2) > 0
  BY <1>1, <1>5, <1>8 DEF Linked
<1>11. NewVoxel(m, pt) =
         IF Cardinality(DOMAIN map2) >= capacity_
         THEN [map |-> Erased(map2, nodes2[Last(cache2)].key), cache |-> Front(cache2),
               node |-> nodes2]
         ELSE [map |-> map2, cache |-> cache2, node |-> nodes2]
  BY <1>2, <1>4, <1>6, <1>7, <1>8 DEF NewVoxel
<1>12. /\ Cardinality(DOMAIN m.map) \in Nat /\ capacity_ \in Nat
       /\ Cardinality(DOMAIN map2) = Cardinality(DOMAIN m.map) + 1
       /\ IsFiniteSet(DOMAIN map2)
  <2>1. IsFiniteSet(DOMAIN m.map) /\ key \notin DOMAIN m.map /\ capacity_ \in Nat
    BY <1>1, <1>2, MapAssumption DEF Linked
  <2>2. QED
    BY <1>9, <2>1, FS_AddElement, FS_CardinalityType
<1>13. CASE Cardinality(DOMAIN map2) >= capacity_
  <2>1. PICK old : old = nodes2[Last(cache2)].key
    OBVIOUS
  <2>2. /\ old \in DOMAIN map2 /\ Linked(Erased(map2, old), Front(cache2), nodes2)
        /\ DOMAIN Erased(map2, old) = DOMAIN map2 \ {old}
    BY <1>9, <1>10, <2>1, EvictionKeeps
  <2>3. Cardinality(DOMAIN Erased(map2, old)) < capacity_
    <3>1. Cardinality(DOMAIN map2 \ {old}) = Cardinality(DOMAIN map2) - 1
      BY <1>12, <2>2, FS_RemoveElement
    <3>2. QED
      BY <1>1, <1>12, <2>2, <3>1
  <2>4. PICK map3 : map3 = Erased(map2, old)
    OBVIOUS
  <2>5. PICK cache3 : cache3 = Front(cache2)
    OBVIOUS
  <2>6. NewVoxel(m, pt) = [map |-> map3, cache |-> cache3, node |-> nodes2]
    BY <1>11, <1>13, <2>1, <2>4, <2>5
  <2>7. QED
    BY <2>2, <2>3, <2>4, <2>5, <2>6, InGrids
<1>14. CASE ~ (Cardinality(DOMAIN map2) >= capacity_)
  <2>1. NewVoxel(m, pt) = [map |-> map2, cache |-> cache2, node |-> nodes2]
    BY <1>11, <1>14
  <2>2. Cardinality(DOMAIN map2) < capacity_
    BY <1>12, <1>14
  <2>3. QED
    BY <1>9, <2>1, <2>2, InGrids
<1>15. QED
  BY <1>13, <1>14

(* A node of the list is moved to its front.                               *)
Rearranged(cache, cache2) ==
  /\ cache2 \in Seq(Nodes) /\ Len(cache2) = Len(cache)
  /\ \A a, b \in 1 .. Len(cache) : cache2[a] = cache2[b] => a = b
  /\ \A e \in 1 .. Len(cache) : \E k \in 1 .. Len(cache) : cache2[e] = cache[k]
  /\ \A k \in 1 .. Len(cache) : \E e \in 1 .. Len(cache) : cache2[e] = cache[k]

LEMMA MovedToFront ==
  ASSUME NEW cache \in Seq(Nodes), NEW j \in 1 .. Len(cache), NEW n, n = cache[j],
         \A a, b \in 1 .. Len(cache) : cache[a] = cache[b] => a = b,
         NEW cache2, cache2 = <<n>> \o RemoveFirst(cache, n)
  PROVE  Rearranged(cache, cache2)
<1>1. PICK len : len = Len(cache)
  OBVIOUS
<1>2. len \in Nat /\ j \in 1 .. len /\ n \in Nodes
  BY <1>1
<1>3. PICK rest : rest = RemoveAt(cache, j)
  OBVIOUS
<1>4. RemoveFirst(cache, n) = rest
  <2>1. {e \in 1 .. Len(cache) : cache[e] = n} = {j}
    OBVIOUS
  <2>2. Min({j}) = j
    BY DEF Min
  <2>3. SelectInSeq(cache, LAMBDA v : v = n) = j
    BY <2>1, <2>2 DEF SelectInSeq
  <2>4. QED
    BY <1>3, <2>3 DEF RemoveFirst
<1>5. /\ rest \in Seq(Nodes) /\ Len(rest) = len - 1
      /\ \A e \in 1 .. j - 1 : rest[e] = cache[e]
      /\ \A e \in j .. len - 1 : rest[e] = cache[e + 1]
  <2>1. PICK front : front = SubSeq(cache, 1, j - 1)
    OBVIOUS
  <2>2. PICK back : back = SubSeq(cache, j + 1, Len(cache))
    OBVIOUS
  <2>3. /\ front \in Seq(Nodes) /\ Len(front) = j - 1
        /\ \A e \in 1 .. j - 1 : front[e] = cache[e]
    BY <1>1, <1>2, <2>1
  <2>4. /\ back \in Seq(Nodes) /\ Len(back) = len - j
        /\ \A e \in 1 .. len - j : back[e] = cache[e + j]
    BY <1>1, <1>2, <2>2
  <2>5. rest = front \o back
    BY <1>3, <2>1, <2>2 DEF RemoveAt
  <2>6. rest \in Seq(Nodes) /\ Len(rest) = len - 1
    <3>1. front \o back \in Seq(Nodes) /\ Len(front \o back) = Len(front) + Len(back)
      BY <2>3, <2>4
    <3>2. j - 1 + (len - j) = len - 1
      BY <1>2
    <3>3. QED
      BY <2>3, <2>4, <2>5, <3>1, <3>2
  <2>7. \A e \in 1 .. j - 1 : rest[e] = cache[e]
    BY <1>2, <2>3, <2>4, <2>5
  <2>8. ASSUME NEW e \in j .. len - 1 PROVE rest[e] = cache[e + 1]
    <3>1. e - (j - 1) \in 1 .. len - j /\ e - (j - 1) + j = e + 1
      BY <1>2
    <3>2. rest[e] = back[e - (j - 1)]
      BY <1>2, <2>3, <2>4, <2>5, <3>1
    <3>3. QED
      BY <2>4, <3>1, <3>2
  <2>9. QED
    BY <2>6, <2>7, <2>8
<1>6. /\ cache2 \in Seq(Nodes) /\ Len(cache2) = len /\ cache2[1] = n
      /\ \A e \in 2 .. len : cache2[e] = rest[e - 1]
  BY <1>2, <1>4, <1>5
(* Where the node in a place was before.                                   *)
<1> DEFINE From(e) == IF e = 1 THEN j ELSE IF e <= j THEN e - 1 ELSE e
<1>7. ASSUME NEW e \in 1 .. len
      PROVE  From(e) \in 1 .. len /\ cache2[e] = cache[From(e)]
  <2>1. CASE e = 1
    BY <1>2, <1>6, <2>1
  <2>2. CASE e # 1 /\ e <= j
    <3>1. e \in 2 .. len /\ e - 1 \in 1 .. j - 1 /\ e - 1 \in 1 .. len
      BY <1>2, <2>2
    <3>2. From(e) = e - 1
      BY <2>2
    <3>3. QED
      BY <1>5, <1>6, <3>1, <3>2
  <2>3. CASE e # 1 /\ ~ (e <= j)
    <3>1. e \in 2 .. len /\ e - 1 \in j .. len - 1 /\ e - 1 + 1 = e
      BY <1>2, <2>3
    <3>2. From(e) = e
      BY <2>3
    <3>3. QED
      BY <1>5, <1>6, <3>1, <3>2
  <2>4. QED
    BY <2>1, <2>2, <2>3
<1>8. \A a, b \in 1 .. len : From(a) = From(b) => a = b
  BY <1>2
<1>9. \A k \in 1 .. len : \E e \in 1 .. len : From(e) = k
  <2> SUFFICES ASSUME NEW k \in 1 .. len
               PROVE  \E e \in 1 .. len : From(e) = k
    OBVIOUS
  <2>1. CASE k = j
    <3>1. 1 \in 1 .. len /\ From(1) = k
      BY <1>2, <2>1
    <3>2. QED
      BY <3>1
  <2>2. CASE k < j
    <3>1. k + 1 \in 1 .. len /\ From(k + 1) = k
      BY <1>2, <2>2
    <3>2. QED
      BY <3>1
  <2>3. CASE k > j
    <3>1. From(k) = k
      BY <1>2, <2>3
    <3>2. QED
      BY <3>1
  <2>4. QED
    BY <1>2, <2>1, <2>2, <2>3
<1> HIDE DEF From
<1>10. \A a, b \in 1 .. len : cache2[a] = cache2[b] => a = b
  <2> SUFFICES ASSUME NEW a \in 1 .. len, NEW b \in 1 .. len, cache2[a] = cache2[b]
               PROVE  a = b
    OBVIOUS
  <2>1. /\ From(a) \in 1 .. len /\ From(b) \in 1 .. len
        /\ cache[From(a)] = cache[From(b)]
    BY <1>7
  <2>2. From(a) = From(b)
    BY <1>1, <2>1
  <2>3. QED
    BY <1>8, <2>2
<1>11. \A e \in 1 .. len : \E k \in 1 .. len : cache2[e] = cache[k]
  BY <1>7
<1>12. \A k \in 1 .. len : \E e \in 1 .. len : cache2[e] = cache[k]
  BY <1>7, <1>9
<1>13. QED
  <2>1. cache2 \in Seq(Nodes) /\ Len(cache2) = Len(cache)
    BY <1>1, <1>6
  <2>2. \A a, b \in 1 .. Len(cache) : cache2[a] = cache2[b] => a = b
    BY <1>1, <1>10
  <2>3. \A e \in 1 .. Len(cache) : \E k \in 1 .. Len(cache) : cache2[e] = cache[k]
    BY <1>1, <1>11
  <2>4. \A k \in 1 .. Len(cache) : \E e \in 1 .. Len(cache) : cache2[e] = cache[k]
    BY <1>1, <1>12
  <2>5. QED
    BY <2>1, <2>2, <2>3, <2>4 DEF Rearranged

\* AddPoint of a further point of a voxel.
LEMMA UsedKeeps ==
  ASSUME NEW m \in Grids, NEW pt \in Points3, Pos2Grid(pt) \in DOMAIN m.map
  PROVE  UsedVoxel(m, pt) \in Grids
<1>1. Linked(m.map, m.cache, m.node) /\ Cardinality(DOMAIN m.map) < capacity_
  BY DEF Grids
<1>2. PICK n : n = m.map[Pos2Grid(pt)]
  OBVIOUS
<1>3. PICK j \in 1 .. Len(m.cache) : n = m.cache[j]
  BY <1>1, <1>2 DEF Linked
<1>4. m.cache \in Seq(Nodes) /\ n \in Nodes
  BY <1>1, <1>3 DEF Linked
<1>5. PICK cache2 : cache2 = <<n>> \o RemoveFirst(m.cache, n)
  OBVIOUS
<1>6. PICK nodes2 : nodes2 = [m.node EXCEPT ![n].points = @ \cup {pt}]
  OBVIOUS
<1>7. UsedVoxel(m, pt) = [map |-> m.map, cache |-> cache2, node |-> nodes2]
  BY <1>2, <1>5, <1>6 DEF UsedVoxel
<1>8. \A a, b \in 1 .. Len(m.cache) : m.cache[a] = m.cache[b] => a = b
  BY <1>1 DEF Linked
<1>9. /\ cache2 \in Seq(Nodes) /\ Len(cache2) = Len(m.cache)
      /\ \A a, b \in 1 .. Len(m.cache) : cache2[a] = cache2[b] => a = b
      /\ \A e \in 1 .. Len(m.cache) : \E k \in 1 .. Len(m.cache) : cache2[e] = m.cache[k]
      /\ \A k \in 1 .. Len(m.cache) : \E e \in 1 .. Len(m.cache) : cache2[e] = m.cache[k]
  <2>1. Rearranged(m.cache, cache2)
    BY <1>3, <1>4, <1>5, <1>8, MovedToFront
  <2>2. QED
    BY <2>1 DEF Rearranged
<1>10. /\ nodes2 \in [Nodes -> [key : Points3, points : SUBSET Points3]]
       /\ \A o \in Nodes : nodes2[o].key = m.node[o].key /\ IsFiniteSet(nodes2[o].points)
  <2>1. /\ m.node \in [Nodes -> [key : Points3, points : SUBSET Points3]]
        /\ \A o \in Nodes : IsFiniteSet(m.node[o].points)
    BY <1>1 DEF Linked
  <2>2. /\ nodes2 \in [Nodes -> [key : Points3, points : SUBSET Points3]]
        /\ \A o \in Nodes : nodes2[o].key = m.node[o].key
        /\ \A o \in Nodes \ {n} : nodes2[o].points = m.node[o].points
        /\ nodes2[n].points = m.node[n].points \cup {pt}
    BY <1>4, <1>6, <2>1
  <2>3. IsFiniteSet(m.node[n].points \cup {pt})
    BY <1>4, <2>1, FS_AddElement
  <2>4. \A o \in Nodes : IsFiniteSet(nodes2[o].points)
    BY <2>1, <2>2, <2>3
  <2>5. QED
    BY <2>2, <2>4
<1>11. ASSUME NEW e \in 1 .. Len(cache2)
       PROVE  /\ nodes2[cache2[e]].key \in DOMAIN m.map
              /\ m.map[nodes2[cache2[e]].key] = cache2[e]
  <2>1. PICK k \in 1 .. Len(m.cache) : cache2[e] = m.cache[k]
    BY <1>9
  <2>2. m.node[m.cache[k]].key \in DOMAIN m.map /\ m.map[m.node[m.cache[k]].key] = m.cache[k]
    BY <1>1 DEF Linked
  <2>3. m.cache[k] \in Nodes
    BY <1>4
  <2>4. QED
    BY <1>10, <2>1, <2>2, <2>3
<1>12. ASSUME NEW y \in DOMAIN m.map
       PROVE  /\ nodes2[m.map[y]].key = y
              /\ \E e \in 1 .. Len(cache2) : cache2[e] = m.map[y]
  <2>1. m.node[m.map[y]].key = y /\ \E k \in 1 .. Len(m.cache) : m.cache[k] = m.map[y]
    BY <1>1 DEF Linked
  <2>2. m.map[y] \in Nodes
    BY <1>1, MapIs DEF Linked
  <2>3. QED
    BY <1>9, <1>10, <2>1, <2>2
<1>13. Linked(m.map, cache2, nodes2)
  <2>1. m.map \in Maps /\ IsFiniteSet(DOMAIN m.map)
    BY <1>1 DEF Linked
  <2>2. \A a, b \in 1 .. Len(cache2) : cache2[a] = cache2[b] => a = b
    BY <1>9
  <2>3. QED
    BY <1>9, <1>10, <1>11, <1>12, <2>1, <2>2 DEF Linked
<1>14. QED
  BY <1>1, <1>7, <1>13, InGrids

\* AddPoint keeps map and list linked, and leaves room in the list.
LEMMA AddPointKeeps ==
  ASSUME NEW m \in Grids, NEW pt \in Points3
  PROVE  AddPoint(m, pt) \in Grids
<1>1. CASE Pos2Grid(pt) \in DOMAIN m.map
  BY <1>1, UsedKeeps DEF AddPoint
<1>2. CASE Pos2Grid(pt) \notin DOMAIN m.map
  BY <1>2, NewKeeps DEF AddPoint
<1>3. QED
  BY <1>1, <1>2

(* What FoldLeft computes is one of the functions that satisfy its         *)
(* recursive equation; there is one, and each of them stays in the grids.  *)
AddsPoints(g, m, points) ==
  g = [t \in SUBSET DOMAIN points |->
         IF t = {} THEN m ELSE AddPoint(g[t \ {Max(t)}], points[Max(t)])]

LEMMA AddPointsFold ==
  ASSUME NEW m, NEW points, \E g : AddsPoints(g, m, points)
  PROVE  \E g : AddsPoints(g, m, points) /\ FoldLeft(AddPoint, m, points) = g[DOMAIN points]
  BY DEF AddsPoints, FoldLeft, MapThenFoldSet

\* AddPoints keeps map and list linked: induction over the points added.
LEMMA AddPointsKeep ==
  ASSUME NEW m \in Grids, NEW points \in Seq(Points3)
  PROVE  FoldLeft(AddPoint, m, points) \in Grids
<1>1. PICK n : n = Len(points)
  OBVIOUS
<1>2. n \in Nat /\ DOMAIN points = 1 .. n /\ \A k \in 1 .. n : points[k] \in Points3
  BY <1>1
<1> DEFINE F == [x \in Grids \X (1 .. n) |-> AddPoint(x[1], points[x[2]])]
<1>3. F \in [Grids \X (1 .. n) -> Grids]
  BY <1>2, AddPointKeeps
<1>4. \A m2 \in Grids, k \in 1 .. n : F[<<m2, k>>] = AddPoint(m2, points[k])
  OBVIOUS
<1> HIDE DEF F
<1>5. PICK g0 \in [SUBSET (1 .. n) -> Grids] : FoldOf(g0, n, m, F)
  BY <1>2, <1>3, FoldExists
<1>6. AddsPoints(g0, m, points)
  <2>1. ASSUME NEW t \in SUBSET (1 .. n)
        PROVE  g0[t] = IF t = {} THEN m ELSE AddPoint(g0[t \ {Max(t)}], points[Max(t)])
    <3>1. CASE t = {}
      BY <1>5, <3>1 DEF FoldOf
    <3>2. CASE t # {}
      <4>1. g0[t] = F[<<g0[t \ {Max(t)}], Max(t)>>]
        BY <1>5, <3>2 DEF FoldOf
      <4>2. Max(t) \in 1 .. n
        <5>1. t \subseteq 0 .. n
          BY <1>2
        <5>2. Max(t) \in t
          BY <1>2, <3>2, <5>1, GreatestNumber
        <5>3. QED
          BY <5>2
      <4>3. g0[t \ {Max(t)}] \in Grids
        OBVIOUS
      <4>4. QED
        BY <1>4, <3>2, <4>1, <4>2, <4>3
    <3>3. QED
      BY <3>1, <3>2
  <2>2. QED
    BY <1>2, <2>1 DEF AddsPoints
<1>7. PICK g : AddsPoints(g, m, points) /\ FoldLeft(AddPoint, m, points) = g[DOMAIN points]
  BY <1>6, AddPointsFold
<1>8. \A t \in SUBSET (1 .. n) :
        g[t] = IF t = {} THEN m ELSE AddPoint(g[t \ {Max(t)}], points[Max(t)])
  BY <1>2, <1>7 DEF AddsPoints
<1> DEFINE T == {k \in 0 .. n : g[1 .. k] \in Grids}
<1>9. 0 \in T
  <2>1. 1 .. 0 = {} /\ {} \in SUBSET (1 .. n)
    OBVIOUS
  <2>2. g[{}] = m
    BY <1>8, <2>1
  <2>3. QED
    BY <1>2, <2>1, <2>2
<1>10. ASSUME NEW k \in 1 .. n, k - 1 \in T
       PROVE  k \in T
  <2>1. /\ 1 .. k # {} /\ 1 .. k \in SUBSET (1 .. n)
        /\ Max(1 .. k) = k /\ (1 .. k) \ {k} = 1 .. k - 1
    BY <1>2, InitialInterval
  <2>2. g[1 .. k] = AddPoint(g[1 .. k - 1], points[k])
    BY <1>8, <2>1
  <2>3. QED
    BY <1>2, <1>10, <2>2, AddPointKeeps
<1>11. \A k \in 0 .. n : k \in T
  <2> HIDE DEF T
  <2>1. \A k \in 1 .. n : k - 1 \in T => k \in T
    BY <1>10
  <2>2. QED
    BY <1>2, <1>9, <2>1, Induction
<1>12. QED
  BY <1>2, <1>7, <1>11

(* The points of a scan that the map needs are points of the scan.         *)
AddsNeeded(g, s) ==
  g = [t \in SUBSET DOMAIN s |->
         IF t = {} THEN <<>> ELSE AddNeeded(g[t \ {Max(t)}], s[Max(t)])]

LEMMA AddNeededFold ==
  ASSUME NEW s, \E g : AddsNeeded(g, s)
  PROVE  \E g : AddsNeeded(g, s) /\ FoldLeft(AddNeeded, <<>>, s) = g[DOMAIN s]
  BY DEF AddsNeeded, FoldLeft, MapThenFoldSet

\* MapIncremental adds a point of the scan or none.
LEMMA AddNeededIs ==
  ASSUME NEW points \in Seq(Points3), NEW e \in DOMAIN scan, scan \in Seq(Points3)
  PROVE  AddNeeded(points, e) \in Seq(Points3)
<1>1. scan[e] \in Points3
  OBVIOUS
<1>2. Append(points, scan[e]) \in Seq(Points3)
  BY <1>1
<1>3. QED
  BY <1>2 DEF AddNeeded

\* All that MapIncremental adds are points.
LEMMA NeededArePoints ==
  ASSUME scan \in Seq(Points3)
  PROVE  FoldLeftDomain(AddNeeded, <<>>, scan) \in Seq(Points3)
<1>1. PICK n : n = Len(scan)
  OBVIOUS
<1>2. PICK s : s = [e \in DOMAIN scan |-> e]
  OBVIOUS
<1>3. n \in Nat /\ DOMAIN s = 1 .. n /\ \A k \in 1 .. n : s[k] = k /\ k \in DOMAIN scan
  BY <1>1, <1>2
<1> DEFINE A == Seq(Points3)
           F == [x \in A \X (1 .. n) |-> AddNeeded(x[1], x[2])]
<1>4. <<>> \in A
  OBVIOUS
<1>5. \A points \in A, k \in 1 .. n : AddNeeded(points, k) \in A
  BY <1>3, AddNeededIs
<1> HIDE DEF A
<1>6. F \in [A \X (1 .. n) -> A]
  BY <1>5
<1>7. \A points \in A, k \in 1 .. n : F[<<points, k>>] = AddNeeded(points, k)
  OBVIOUS
<1> HIDE DEF F
<1>8. PICK g0 \in [SUBSET (1 .. n) -> A] : FoldOf(g0, n, <<>>, F)
  BY <1>3, <1>4, <1>6, FoldExists
<1>9. AddsNeeded(g0, s)
  <2>1. ASSUME NEW t \in SUBSET (1 .. n)
        PROVE  g0[t] = IF t = {} THEN <<>> ELSE AddNeeded(g0[t \ {Max(t)}], s[Max(t)])
    <3>1. CASE t = {}
      BY <1>8, <3>1 DEF FoldOf
    <3>2. CASE t # {}
      <4>1. g0[t] = F[<<g0[t \ {Max(t)}], Max(t)>>]
        BY <1>8, <3>2 DEF FoldOf
      <4>2. Max(t) \in 1 .. n
        <5>1. t \subseteq 0 .. n
          BY <1>3
        <5>2. Max(t) \in t
          BY <1>3, <3>2, <5>1, GreatestNumber
        <5>3. QED
          BY <5>2
      <4>3. g0[t \ {Max(t)}] \in A
        OBVIOUS
      <4>4. QED
        BY <1>3, <1>7, <3>2, <4>1, <4>2, <4>3
    <3>3. QED
      BY <3>1, <3>2
  <2>2. QED
    BY <1>3, <2>1 DEF AddsNeeded
<1>10. PICK g : AddsNeeded(g, s) /\ FoldLeft(AddNeeded, <<>>, s) = g[DOMAIN s]
  BY <1>9, AddNeededFold
<1>11. \A t \in SUBSET (1 .. n) :
         g[t] = IF t = {} THEN <<>> ELSE AddNeeded(g[t \ {Max(t)}], s[Max(t)])
  BY <1>3, <1>10 DEF AddsNeeded
<1> DEFINE T == {k \in 0 .. n : g[1 .. k] \in A}
<1>12. 0 \in T
  <2>1. 1 .. 0 = {} /\ {} \in SUBSET (1 .. n)
    OBVIOUS
  <2>2. g[{}] = <<>>
    BY <1>11, <2>1
  <2>3. QED
    BY <1>3, <1>4, <2>1, <2>2
<1>13. ASSUME NEW k \in 1 .. n, k - 1 \in T
       PROVE  k \in T
  <2>1. /\ 1 .. k # {} /\ 1 .. k \in SUBSET (1 .. n)
        /\ Max(1 .. k) = k /\ (1 .. k) \ {k} = 1 .. k - 1
    BY <1>3, InitialInterval
  <2>2. g[1 .. k] = AddNeeded(g[1 .. k - 1], k)
    BY <1>3, <1>11, <2>1
  <2>3. QED
    BY <1>3, <1>5, <1>13, <2>2
<1>14. \A k \in 0 .. n : k \in T
  <2> HIDE DEF T
  <2>1. \A k \in 1 .. n : k - 1 \in T => k \in T
    BY <1>13
  <2>2. QED
    BY <1>3, <1>12, <2>1, Induction
<1>15. g[1 .. n] \in A
  BY <1>3, <1>14
<1>16. QED
  BY <1>2, <1>3, <1>10, <1>15 DEF A, FoldLeftDomain

(* The points that a search from a point can reach, and what it finds.     *)
IsNearBy(nearby, key, pt) ==
  \E d \in nearby : \A c \in 1 .. 3 : key[c] = Pos2Grid(pt)[c] + d[c]

Reached(nearby, cache, nodes, pt) ==
  {p \in UNION {nodes[n].points : n \in {o \in ToSet(cache) : IsNearBy(nearby, nodes[o].key, pt)}} :
     Distance2(p, pt) < max_range * max_range}

\* GetClosestPoint finds the nearest of all the points in its reach.
LEMMA SearchFindsNearest ==
  ASSUME Linked(grids_map_, grids_cache_, node), NEW pt \in Points3, NEW before,
         NEW reached, reached = Reached(NearbyGrids, grids_cache_, node, pt), reached # {}
  PROVE  IsNearest(GetClosestPoint(pt, before), reached, pt)
<1> DEFINE keys == {[c \in 1 .. 3 |-> Pos2Grid(pt)[c] + d[c]] : d \in NearbyGrids}
                     \cap DOMAIN grids_map_
           R(key) == {p \in node[grids_map_[key]].points : Distance2(p, pt) < max_range * max_range}
           parts == {R(key) : key \in keys}
           C == UNION {KNearest(S, pt) : S \in parts}
<1>1. Candidates(pt) = C
  BY DEF Candidates, KNNPointByCondition
<1>2. /\ grids_map_ \in Maps /\ IsFiniteSet(DOMAIN grids_map_)
      /\ DOMAIN grids_map_ \subseteq Points3
      /\ \A key \in DOMAIN grids_map_ : grids_map_[key] \in Nodes
  BY MapIs DEF Linked
<1>3. \A key \in DOMAIN grids_map_ : key \in keys <=> IsNearBy(NearbyGrids, key, pt)
  <2> SUFFICES ASSUME NEW key \in DOMAIN grids_map_
               PROVE  key \in keys <=> IsNearBy(NearbyGrids, key, pt)
    OBVIOUS
  <2>1. key \in Points3
    BY <1>2
  <2>2. \A d : key = [c \in 1 .. 3 |-> Pos2Grid(pt)[c] + d[c]] <=>
                 \A c \in 1 .. 3 : key[c] = Pos2Grid(pt)[c] + d[c]
    BY <2>1 DEF Points3
  <2>3. QED
    BY <2>2 DEF IsNearBy
<1>4. keys \subseteq DOMAIN grids_map_ /\ IsFiniteSet(keys)
  <2>1. keys \subseteq DOMAIN grids_map_
    OBVIOUS
  <2>2. QED
    BY <1>2, <2>1, FS_Subset
<1> HIDE DEF keys
<1>5. \A key \in keys : R(key) \subseteq Points3 /\ IsFiniteSet(R(key))
  <2> SUFFICES ASSUME NEW key \in keys
               PROVE  R(key) \subseteq Points3 /\ IsFiniteSet(R(key))
    OBVIOUS
  <2>1. grids_map_[key] \in Nodes
    BY <1>2, <1>4
  <2>2. /\ node[grids_map_[key]].points \subseteq Points3
        /\ IsFiniteSet(node[grids_map_[key]].points)
    BY <2>1 DEF Linked
  <2>3. R(key) \subseteq node[grids_map_[key]].points
    OBVIOUS
  <2>4. QED
    BY <2>2, <2>3, FS_Subset
<1>6. IsFiniteSet(parts)
  <2> DEFINE f == [key \in keys |-> R(key)]
  <2>1. f \in [keys -> parts] /\ \A S \in parts : \E key \in keys : f[key] = S
    OBVIOUS
  <2> HIDE DEF f, parts
  <2>2. f \in Surjection(keys, parts)
    BY <2>1 DEF Surjection
  <2>3. QED
    BY <1>4, <2>2, FS_Surjection
<1>7. UNION parts = reached
  <2>1. ASSUME NEW p \in UNION parts
        PROVE  p \in reached
    <3>1. PICK key \in keys : p \in R(key)
      OBVIOUS
    <3>2. PICK n : n = grids_map_[key]
      OBVIOUS
    <3>3. node[n].key = key /\ n \in ToSet(grids_cache_)
      BY <1>4, <3>1, <3>2 DEF Linked, ToSet
    <3>4. IsNearBy(NearbyGrids, node[n].key, pt)
      BY <1>3, <1>4, <3>3
    <3>5. p \in node[n].points /\ Distance2(p, pt) < max_range * max_range
      BY <3>1, <3>2
    <3>6. QED
      BY <3>3, <3>4, <3>5 DEF Reached
  <2>2. ASSUME NEW p \in reached
        PROVE  p \in UNION parts
    <3>1. PICK n \in ToSet(grids_cache_) : IsNearBy(NearbyGrids, node[n].key, pt) /\ p \in node[n].points
      BY DEF Reached
    <3>2. Distance2(p, pt) < max_range * max_range
      BY DEF Reached
    <3>3. node[n].key \in DOMAIN grids_map_ /\ grids_map_[node[n].key] = n
      BY <3>1 DEF Linked, ToSet
    <3>4. node[n].key \in keys
      BY <1>3, <3>1, <3>3
    <3>5. p \in R(node[n].key)
      BY <3>1, <3>2, <3>3
    <3>6. QED
      BY <3>4, <3>5
  <2> HIDE DEF parts
  <2>3. QED
    BY <2>1, <2>2
<1>8. \A S \in parts : S \subseteq Points3 /\ IsFiniteSet(S)
  BY <1>5
<1> HIDE DEF parts
<1>9. PICK C2 : C2 = UNION {KNearest(S, pt) : S \in parts}
  OBVIOUS
<1>10. C2 # {} /\ IsNearest(KNearest(C2, pt), UNION parts, pt)
  BY <1>6, <1>7, <1>8, <1>9, NearestByParts
<1>11. GetClosestPoint(pt, before) = KNearest(C2, pt)
  BY <1>1, <1>9, <1>10 DEF GetClosestPoint
<1>12. QED
  BY <1>7, <1>10, <1>11

(* Neighbours and points that belong to a scan.                            *)
ScanIsMatched(nearby, cache, nodes, points, found) ==
  \A e \in DOMAIN points :
    Reached(nearby, cache, nodes, points[e]) # {} =>
      IsNearest(found[e], Reached(nearby, cache, nodes, points[e]), points[e])

LocalMapInv ==
  /\ [map |-> grids_map_, cache |-> grids_cache_, node |-> node] \in Grids
  /\ scan \in Seq(Points3)
  /\ mapping = "map" => ScanIsMatched(NearbyGrids, grids_cache_, node, scan, Nearest_Points)

LEMMA MatchedIsNearest == LocalMapInv => NeighboursAreNearest
<1> SUFFICES ASSUME LocalMapInv, mapping = "map", NEW e \in DOMAIN scan
             PROVE  LET pt == scan[e]
                        reached == Reached(NearbyGrids, grids_cache_, node, pt)
                        near == Nearest_Points[e]
                    IN  reached # {} =>
                          /\ near \subseteq reached
                          /\ Cardinality(near) = Min({NUM_MATCH_POINTS, Cardinality(reached)})
                          /\ \A p \in near, q \in reached \ near : Distance2(p, pt) <= Distance2(q, pt)
  BY DEF NeighboursAreNearest, Reached, IsNearBy
<1>1. QED
  BY DEF LocalMapInv, ScanIsMatched, IsNearest, NearestOf

\* The first scan is searched in an empty map.
LEMMA LocalMapInit == MapInit => LocalMapInv
<1> SUFFICES ASSUME MapInit PROVE LocalMapInv
  OBVIOUS
<1>1. grids_map_ \in Maps /\ DOMAIN grids_map_ = {}
  <2>1. <<>> \in [{} -> Nodes] /\ {} \subseteq Points3
    OBVIOUS
  <2>2. QED
    BY <2>1, IsMap DEF MapInit
<1>2. IsFiniteSet({}) /\ Cardinality({}) = 0 /\ 0 < capacity_
  BY FS_EmptySet, MapAssumption
<1>3. /\ grids_cache_ \in Seq(Nodes) /\ Len(grids_cache_) = 0
  BY DEF MapInit
<1>4. /\ node \in [Nodes -> [key : Points3, points : SUBSET Points3]]
      /\ \A n \in Nodes : IsFiniteSet(node[n].points)
  <2>1. <<0, 0, 0>> \in Points3
    BY DEF Points3
  <2>2. QED
    BY <1>2, <2>1 DEF MapInit
<1>5. Linked(grids_map_, grids_cache_, node)
  BY <1>1, <1>2, <1>3, <1>4 DEF Linked
<1>6. [map |-> grids_map_, cache |-> grids_cache_, node |-> node] \in Grids
  BY <1>1, <1>2, <1>5, InGrids
<1>7. scan \in Seq(Points3) /\ mapping # "map"
  BY DEF MapInit
<1>8. QED
  BY <1>6, <1>7 DEF LocalMapInv

LEMMA AddPointsKeepGrids ==
  ASSUME LocalMapInv, NEW points \in Seq(Points3), AddPoints(points)
  PROVE  [map |-> grids_map_, cache |-> grids_cache_, node |-> node]' \in Grids
<1>1. PICK m0 : m0 = [map |-> grids_map_, cache |-> grids_cache_, node |-> node]
  OBVIOUS
<1>2. PICK m : m = FoldLeft(AddPoint, m0, points)
  OBVIOUS
<1>3. m \in Grids
  BY <1>1, <1>2, AddPointsKeep DEF LocalMapInv
<1>4. grids_map_' = m.map /\ grids_cache_' = m.cache /\ node' = m.node
  BY <1>1, <1>2 DEF AddPoints
<1>5. m = [map |-> m.map, cache |-> m.cache, node |-> m.node]
  BY <1>3 DEF Grids
<1>6. [map |-> grids_map_', cache |-> grids_cache_', node |-> node'] = m
  BY <1>4, <1>5
<1>7. QED
  BY <1>3, <1>6

\* Each step keeps the invariant.
LEMMA LocalMapStep == LocalMapInv /\ [MapNext]_mapVars => LocalMapInv'
<1> SUFFICES ASSUME LocalMapInv, [MapNext]_mapVars PROVE LocalMapInv'
  OBVIOUS
<1>1. CASE UNCHANGED mapVars
  BY <1>1 DEF mapVars, LocalMapInv, ScanIsMatched, NearbyGrids, Steps
<1>2. ASSUME NEW points \in Scans, InitMap(points)
      PROVE  LocalMapInv'
  <2>1. points \in Seq(Points3)
    BY MapAssumption DEF Points3
  <2>2. /\ [map |-> grids_map_, cache |-> grids_cache_, node |-> node]' \in Grids
        /\ scan' = scan /\ mapping' = "match"
    BY <1>2, <2>1, AddPointsKeepGrids DEF InitMap
  <2>3. QED
    BY <2>2 DEF LocalMapInv
<1>3. ASSUME NEW points \in Scans, Match(points)
      PROVE  LocalMapInv'
  <2>1. points \in Seq(Points3)
    BY MapAssumption DEF Points3
  <2>2. /\ scan' = points /\ UNCHANGED <<nearby_type, grids_map_, grids_cache_, node>>
        /\ \A e \in DOMAIN points : \E before : Nearest_Points'[e] = GetClosestPoint(points[e], before)
    BY <1>3 DEF Match
  <2>3. Linked(grids_map_, grids_cache_, node)
    BY DEF LocalMapInv, Grids
  <2>4. ScanIsMatched(NearbyGrids, grids_cache_, node, points, Nearest_Points')
    <3> SUFFICES ASSUME NEW e \in DOMAIN points,
                        NEW reached, reached = Reached(NearbyGrids, grids_cache_, node, points[e]),
                        reached # {}
                 PROVE  IsNearest(Nearest_Points'[e], reached, points[e])
      BY DEF ScanIsMatched
    <3>1. PICK before : Nearest_Points'[e] = GetClosestPoint(points[e], before)
      BY <2>2
    <3>2. points[e] \in Points3
      BY <2>1
    <3>3. QED
      BY <2>3, <3>1, <3>2, SearchFindsNearest
  <2>5. NearbyGrids' = NearbyGrids
    BY <2>2 DEF NearbyGrids, Steps
  <2>6. ScanIsMatched(NearbyGrids', grids_cache_', node', scan', Nearest_Points')
    BY <2>2, <2>4, <2>5
  <2>7. [map |-> grids_map_, cache |-> grids_cache_, node |-> node]' \in Grids
    BY <2>2 DEF LocalMapInv
  <2>8. QED
    BY <2>1, <2>2, <2>6, <2>7 DEF LocalMapInv
<1>4. ASSUME MapIncremental
      PROVE  LocalMapInv'
  <2>1. PICK points : points = FoldLeftDomain(AddNeeded, <<>>, scan)
    OBVIOUS
  <2>2. points \in Seq(Points3)
    BY <2>1, NeededArePoints DEF LocalMapInv
  <2>3. AddPoints(points) /\ mapping' = "match" /\ scan' = <<>>
    BY <1>4, <2>1 DEF MapIncremental
  <2>4. [map |-> grids_map_, cache |-> grids_cache_, node |-> node]' \in Grids
    BY <2>2, <2>3, AddPointsKeepGrids
  <2>5. QED
    BY <2>3, <2>4 DEF LocalMapInv
<1>5. QED
  BY <1>1, <1>2, <1>3, <1>4 DEF MapNext

(* How map and list are linked, and what the matched scan has found, in    *)
(* every behaviour (AddPoints, MapIncremental and GetClosestPoint).        *)
THEOREM LocalMapInvariant == MapSpec => []LocalMapInv
<1>1. QED
  BY LocalMapInit, LocalMapStep, PTL DEF MapSpec

(* For any scans, any capacity_ of at least one voxel, any size of a voxel *)
(* and any range: each point of the scan is matched to the nearest of the  *)
(* points the search can reach, as many as it asks for or all there are,   *)
(* whatever was evicted and moved to the front before (GetClosestPoint).   *)
THEOREM SearchIsNearest == MapSpec => []NeighboursAreNearest
<1>1. QED
  BY LocalMapInvariant, MatchedIsNearest, PTL

==============================================================================

--------------------------- MODULE NavigationProofs ---------------------------
(***************************************************************************)
(* Proofs about the components of the navigation that share no variable:   *)
(* the back-up behaviour, fake_vel_transform, the teleoperation, the        *)
(* controller's check for obstacles, the rolling grid of the terrain       *)
(* analysis and the costmap layer.                                         *)
(***************************************************************************)
EXTENDS PursuitController, FakeVelTransform, BackUpFreeSpace, TeleopTwistJoy,
        TerrainAnalysis, IntensityVoxelLayer, SequenceTheorems, FiniteSetTheorems,
        InductionLemmas, TLAPS

Rays0 == 0..Rays
FreeFrom(a, b) == \A r \in Rays0 : a <= r /\ r < b => free[r]
NoneFreeBefore(b) == \A r \in Rays0 : r < b => ~free[r]

(* The sector that is being looked at: from its first free ray on, all are *)
(* free up to its end, or up to the ray to look at next.                   *)
OpenSector ==
  /\ first_safe # NoAngle => first_safe < ray
  /\ last_unsafe # NoAngle => first_safe # NoAngle /\ FreeFrom(first_safe, last_unsafe)
  /\ first_safe # NoAngle /\ last_unsafe = NoAngle => FreeFrom(first_safe, ray)

(* The best one is all free; as long as there is none, every ray before    *)
(* the one that began the open sector was blocked.                         *)
BestSector ==
  \/ final_safe < final_unsafe /\ FreeFrom(final_safe, final_unsafe)
  \/ /\ final_safe = final_unsafe
     /\ last_unsafe = NoAngle
     /\ NoneFreeBefore(IF first_safe = NoAngle THEN ray ELSE first_safe)

AllLookedAt == status = "running" => ray = Rays + 1

FreeType == free \in [Rays0 -> BOOLEAN]

SearchInv == BackUpTypeOK /\ FreeType /\ OpenSector /\ BestSector /\ AllLookedAt

LEMMA Middle == Rays \div 2 \in 0..Rays
  BY RaysAssumption

LEMMA InitSearch == BackUpInit => SearchInv
<1> SUFFICES ASSUME BackUpInit PROVE SearchInv
  OBVIOUS
<1>1. BackUpTypeOK
  BY Middle, RaysAssumption DEF BackUpInit, BackUpTypeOK
<1>2. FreeType
  BY DEF BackUpInit, FreeType, Rays0
<1>3. OpenSector
  BY DEF BackUpInit, OpenSector
<1>4. BestSector
  BY Middle DEF BackUpInit, BestSector, NoneFreeBefore, Rays0
<1>5. AllLookedAt
  BY DEF BackUpInit, AllLookedAt
<1>6. QED
  BY <1>1, <1>2, <1>3, <1>4, <1>5 DEF SearchInv

LEMMA RunPreserves ==
  ASSUME SearchInv, NEW cells \in [0..Rays -> BOOLEAN], OnRun(cells)
  PROVE  SearchInv'
<1>1. CASE status' = "failed" /\ UNCHANGED <<free, ray, sectorVars>>
  BY <1>1, RaysAssumption
  DEF OnRun, SearchInv, BackUpTypeOK, FreeType, OpenSector, BestSector, AllLookedAt, FreeFrom, NoneFreeBefore,
      Rays0, sectorVars
<1>2. CASE status' = "searching" /\ free' = cells /\ ray' = 0
           /\ first_safe' = NoAngle /\ last_unsafe' = NoAngle
           /\ final_safe' = Rays \div 2 /\ final_unsafe' = Rays \div 2
  <2>1. BackUpTypeOK'
    BY <1>2, Middle, RaysAssumption DEF OnRun, BackUpTypeOK
  <2>2. FreeType' /\ OpenSector' /\ AllLookedAt'
    BY <1>2 DEF FreeType, OpenSector, AllLookedAt, Rays0
  <2>3. BestSector'
    BY <1>2, Middle DEF BestSector, NoneFreeBefore, Rays0
  <2>4. QED
    BY <2>1, <2>2, <2>3 DEF SearchInv
<1>3. QED
  BY <1>1, <1>2 DEF OnRun

LEMMA LookPreserves == SearchInv /\ LookAlongRay => SearchInv'
<1> SUFFICES ASSUME SearchInv, LookAlongRay PROVE SearchInv'
  OBVIOUS
<1> DEFINE first == IF free[ray] /\ first_safe = NoAngle THEN ray ELSE first_safe
           last  == IF ~free[ray] /\ first # NoAngle /\ last_unsafe = NoAngle
                    THEN ray ELSE last_unsafe
           closed == first # NoAngle /\ last # NoAngle
<1>1. ray \in Rays0 /\ ray' = ray + 1 /\ ray # NoAngle
  BY NoAngleAssumption, RaysAssumption DEF LookAlongRay, SearchInv, BackUpTypeOK, Rays0
<1>0. status' = "searching" /\ free' = free /\ travelled' = travelled
  BY DEF LookAlongRay
<1>2. first \in Rays0 \cup {NoAngle} /\ last \in Rays0 \cup {NoAngle}
  BY <1>1 DEF SearchInv, BackUpTypeOK, Rays0
<1>3. final_safe \in Rays0 /\ final_unsafe \in Rays0 /\ final_safe <= final_unsafe
  BY RaysAssumption DEF SearchInv, BackUpTypeOK, Rays0
<1>4. first # NoAngle => first < ray + 1
  <2>1. CASE first_safe = NoAngle
    <3>1. first = ray \/ first = NoAngle
      BY <2>1
    <3>2. ray < ray + 1
      BY <1>1 DEF Rays0
    <3>3. QED
      BY <3>1, <3>2
  <2>2. CASE first_safe # NoAngle
    <3>1. first = first_safe /\ first_safe \in Rays0 /\ first_safe < ray
      BY <2>2 DEF SearchInv, OpenSector, BackUpTypeOK, Rays0
    <3>2. QED
      BY <3>1, <1>1 DEF Rays0
  <2>3. QED
    BY <2>1, <2>2
<1>5. last # NoAngle => first # NoAngle /\ FreeFrom(first, last)
  <2>1. CASE last_unsafe # NoAngle
    BY <2>1, <1>1 DEF SearchInv, OpenSector
  <2>2. CASE last_unsafe = NoAngle /\ last # NoAngle
    BY <2>2, <1>1 DEF SearchInv, OpenSector
  <2>3. QED
    BY <2>1, <2>2
<1>6. first # NoAngle /\ last = NoAngle => FreeFrom(first, ray + 1)
  <2> SUFFICES ASSUME first # NoAngle, last = NoAngle, NEW r \in Rays0, first <= r, r < ray + 1
               PROVE  free[r]
    BY DEF FreeFrom
  <2>1. last_unsafe = NoAngle /\ free[ray]
    BY <1>1
  <2>2. CASE first_safe = NoAngle
    BY <2>1, <2>2, <1>1 DEF Rays0
  <2>3. CASE first_safe # NoAngle
    BY <2>1, <2>3, <1>1 DEF SearchInv, OpenSector, FreeFrom, Rays0
  <2>4. QED
    BY <2>2, <2>3
<1>7. final_safe = final_unsafe /\ ~closed =>
        last = NoAngle /\ NoneFreeBefore(IF first = NoAngle THEN ray + 1 ELSE first)
  <2> SUFFICES ASSUME final_safe = final_unsafe, ~closed
               PROVE  last = NoAngle /\ NoneFreeBefore(IF first = NoAngle THEN ray + 1 ELSE first)
    OBVIOUS
  <2>1. last = NoAngle
    BY <1>5
  <2>2. NoneFreeBefore(IF first_safe = NoAngle THEN ray ELSE first_safe)
    BY <1>3 DEF SearchInv, BestSector, Rays0
  <2>3. CASE first_safe = NoAngle
    <3>1. NoneFreeBefore(ray)
      BY <2>2, <2>3
    <3>2. CASE free[ray]
      BY <3>1, <3>2, <2>3, <1>1
    <3>3. CASE ~free[ray]
      <4>1. NoneFreeBefore(ray + 1) /\ first = NoAngle
        BY <3>1, <3>3, <2>3, <1>1 DEF NoneFreeBefore, Rays0
      <4>2. QED
        BY <4>1, <2>1
    <3>4. QED
      BY <3>2, <3>3
  <2>4. CASE first_safe # NoAngle
    BY <2>2, <2>4, <1>1
  <2>5. QED
    BY <2>1, <2>3, <2>4
<1>8. final_safe = final_unsafe /\ closed => last > first
  <2> SUFFICES ASSUME final_safe = final_unsafe, closed PROVE last > first
    OBVIOUS
  <2>1. last_unsafe = NoAngle
    BY <1>3 DEF SearchInv, BestSector, Rays0
  <2>2. last = ray /\ ~free[ray]
    BY <2>1
  <2>3. first = first_safe /\ first_safe # NoAngle
    BY <2>2
  <2>4. QED
    BY <2>2, <2>3 DEF SearchInv, OpenSector
<1>9. CASE closed /\ last - first > final_unsafe - final_safe
  <2>1. final_safe' = first /\ final_unsafe' = last /\ first_safe' = NoAngle /\ last_unsafe' = NoAngle
    BY <1>9 DEF LookAlongRay, Finish
  <2>2. first \in Rays0 /\ last \in Rays0 /\ first < last
    BY <1>9, <1>2, <1>3, RaysAssumption DEF Rays0
  <2>3. BackUpTypeOK'
    <3>1. final_safe' \in Rays0 /\ final_unsafe' \in Rays0 /\ final_safe' < final_unsafe'
      BY <2>1, <2>2
    <3>2. ray' \in 0..Rays + 1 /\ travelled' \in 0..BackupDist
      BY <1>1, <1>0, RaysAssumption DEF SearchInv, BackUpTypeOK, Rays0
    <3>3. final_safe' \in 0..Rays /\ final_unsafe' \in final_safe'..Rays
      <4> HIDE DEF first, last, closed
      <4>1. QED
        BY <3>1, RaysAssumption DEF Rays0
    <3>4. {first_safe', last_unsafe'} \subseteq 0..Rays \cup {NoAngle}
      <4> HIDE DEF first, last, closed
      <4>1. QED
        BY <2>1
    <3>5. QED
      BY <3>2, <3>3, <3>4, <1>0 DEF BackUpTypeOK
  <2>4. OpenSector'
    BY <2>1 DEF OpenSector
  <2>5. BestSector'
    BY <2>1, <2>2, <1>0, <1>5, <1>9 DEF BestSector, FreeFrom
  <2>6. QED
    BY <1>0, <2>3, <2>4, <2>5 DEF SearchInv, FreeType, AllLookedAt
<1>10. CASE ~(closed /\ last - first > final_unsafe - final_safe)
  <2>1. final_safe' = final_safe /\ final_unsafe' = final_unsafe /\ first_safe' = first /\ last_unsafe' = last
    BY <1>10 DEF LookAlongRay
  <2>2. BackUpTypeOK'
    BY <1>1, <1>0, <1>2, <2>1, RaysAssumption DEF SearchInv, BackUpTypeOK, Rays0
  <2>3. OpenSector'
    BY <1>1, <1>0, <2>1, <1>4, <1>5, <1>6 DEF OpenSector, FreeFrom
  <2>4. BestSector'
    <3>1. CASE final_safe < final_unsafe
      BY <3>1, <1>0, <2>1, <1>3 DEF SearchInv, BestSector, FreeFrom, Rays0
    <3>2. CASE final_safe = final_unsafe
      <4>1. ~closed
        BY <1>2, <1>3, <1>8, <1>10, <3>2 DEF Rays0
      <4>2. QED
        BY <4>1, <3>2, <1>1, <1>0, <2>1, <1>7 DEF BestSector, NoneFreeBefore
    <3>3. QED
      BY <3>1, <3>2, <1>3 DEF Rays0
  <2>5. QED
    BY <1>0, <2>2, <2>3, <2>4 DEF SearchInv, FreeType, AllLookedAt
<1>11. QED
  BY <1>9, <1>10

(* After the search its results stay as they are. *)
LEMMA DrivePreserves == SearchInv /\ (SetOut \/ OnCycleUpdate \/ Drives) => SearchInv'
<1> SUFFICES ASSUME SearchInv, SetOut \/ OnCycleUpdate \/ Drives PROVE SearchInv'
  OBVIOUS
<1>1. UNCHANGED <<free, ray, first_safe, last_unsafe, final_safe, final_unsafe>>
  BY DEF SetOut, OnCycleUpdate, Drives, sectorVars
<1>2. FreeType' /\ OpenSector' /\ BestSector'
  BY <1>1 DEF SearchInv, FreeType, OpenSector, BestSector, FreeFrom, NoneFreeBefore
<1>3. travelled' \in 0..BackupDist
  BY RaysAssumption DEF SearchInv, BackUpTypeOK, SetOut, OnCycleUpdate, Drives
<1>4. status' \in {"idle", "searching", "running", "failed", "succeeded"}
  BY DEF SearchInv, BackUpTypeOK, SetOut, OnCycleUpdate, Drives
<1>5. AllLookedAt'
  BY RaysAssumption DEF SearchInv, BackUpTypeOK, AllLookedAt, SetOut, OnCycleUpdate, Drives
<1>6. QED
  BY <1>1, <1>2, <1>3, <1>4, <1>5 DEF SearchInv, BackUpTypeOK

LEMMA SearchInductive == SearchInv /\ [BackUpNext]_backUpVars => SearchInv'
<1> SUFFICES ASSUME SearchInv, [BackUpNext]_backUpVars PROVE SearchInv'
  OBVIOUS
<1>1. CASE UNCHANGED backUpVars
  BY <1>1 DEF SearchInv, BackUpTypeOK, FreeType, OpenSector, BestSector, AllLookedAt, FreeFrom, NoneFreeBefore,
              backUpVars, sectorVars
<1>2. QED
  BY <1>1, RunPreserves, LookPreserves, DrivePreserves DEF BackUpNext

(* What the search knows of the rays it has looked at, in every behaviour. *)
THEOREM SearchCorrect == BackUpSpec => []SearchInv
  BY InitSearch, SearchInductive, PTL DEF BackUpSpec

(* Every variable of the behaviour keeps its type; the distance driven     *)
(* never exceeds the one that was asked for.                               *)
THEOREM BackUpTypeCorrect == BackUpSpec => []BackUpTypeOK
<1>1. SearchInv => BackUpTypeOK
  BY DEF SearchInv
<1>2. QED
  BY <1>1, SearchCorrect, PTL

(* For every number of rays and every pattern of free ones: when a sector  *)
(* of free rays ends at a blocked one, the ray in the middle of the chosen *)
(* sector is free.                                                         *)
THEOREM AlwaysIntoFreeSpace == BackUpSpec => []BacksIntoFreeSpace
<1>1. SearchInv => BacksIntoFreeSpace
  <2> SUFFICES ASSUME SearchInv, status = "running", NEW r \in 0..Rays - 1, free[r], ~free[r + 1]
               PROVE  free[BestDirection \div 2]
    BY DEF BacksIntoFreeSpace
  <2>1. ray = Rays + 1 /\ r \in Rays0 /\ r + 1 \in Rays0
    BY RaysAssumption DEF SearchInv, AllLookedAt, Rays0
  <2>2. final_safe < final_unsafe /\ FreeFrom(final_safe, final_unsafe)
    <3> SUFFICES ASSUME last_unsafe = NoAngle,
                        NoneFreeBefore(IF first_safe = NoAngle THEN ray ELSE first_safe)
                 PROVE  FALSE
      BY DEF SearchInv, BestSector
    <3>1. first_safe # NoAngle /\ first_safe \in Rays0
      BY <2>1, RaysAssumption DEF SearchInv, BackUpTypeOK, NoneFreeBefore, Rays0
    <3>2. first_safe <= r
      BY <2>1, <3>1, RaysAssumption DEF NoneFreeBefore, Rays0
    <3>3. FreeFrom(first_safe, ray)
      BY <3>1 DEF SearchInv, OpenSector
    <3>4. QED
      BY <2>1, <3>1, <3>2, <3>3, RaysAssumption DEF FreeFrom, Rays0
  <2>3. final_safe \in Rays0 /\ final_unsafe \in Rays0
    BY RaysAssumption DEF SearchInv, BackUpTypeOK, Rays0
  <2>4. /\ BestDirection \div 2 \in Rays0
        /\ final_safe <= BestDirection \div 2 /\ BestDirection \div 2 < final_unsafe
    BY <2>2, <2>3, RaysAssumption DEF BestDirection, Rays0
  <2>5. QED
    BY <2>2, <2>4 DEF FreeFrom
<1>2. QED
  BY <1>1, SearchCorrect, PTL
-----------------------------------------------------------------------------

Lapses == {"none", "unseen", "unbroadcast", "overdue"}
VelCommand == [moves : BOOLEAN, frame : Turns, lapse : Lapses]
TurnedCommand == [moves : BOOLEAN, turned : Turns, frame : Turns, lapse : Lapses]

CommandTypes ==
  /\ cmd_topic \in Seq(VelCommand)
  /\ latest_cmd_vel \in VelCommand \cup {NoCommand}
  /\ chassis \in TurnedCommand

(* A command that is on its way was computed in the frame that the node    *)
(* turns from, or fell into one of the lapses.                             *)
Current(cmd) == cmd.moves /\ cmd.lapse = "none" => ~TimedOut /\ cmd.frame = base_angle

BroadcastIsCurrent == broadcast => fake_frame = base_angle

TopicIsCurrent == \A i \in 1 .. Len(cmd_topic) : Current(cmd_topic[i])

(* The same of the command that is repeated, until it is forgotten.        *)
CachedIsCurrent ==
  ~TimedOut /\ latest_cmd_vel # NoCommand => Current(latest_cmd_vel)

FakeInv ==
  /\ FakeTypeOK /\ CommandTypes /\ BroadcastIsCurrent
  /\ TopicIsCurrent /\ CachedIsCurrent /\ TurnedAsComputed

LEMMA Halted == Stop \in VelCommand /\ Halt \in TurnedCommand /\ ~Halt.moves /\ ~Stop.moves
  BY DEF Stop, Halt, VelCommand, TurnedCommand, Turns, Lapses

LEMMA InitFake == FakeInit => FakeInv
<1> SUFFICES ASSUME FakeInit PROVE FakeInv
  OBVIOUS
<1>1. FakeTypeOK
  <2>1. Len(cmd_topic) <= Backlog
    BY TimeoutAssumption DEF FakeInit
  <2>2. idle \in 0..Timeout + 1
    BY TimeoutAssumption DEF FakeInit
  <2>3. base_angle \in Turns /\ fake_frame \in Turns
    BY DEF FakeInit, Turns
  <2>4. {broadcast, following, plan_topic} \subseteq BOOLEAN
    BY DEF FakeInit
  <2>5. QED
    BY <2>1, <2>2, <2>3, <2>4 DEF FakeTypeOK
<1>2. CommandTypes
  BY Halted DEF FakeInit, CommandTypes
<1>3. BroadcastIsCurrent /\ TopicIsCurrent /\ CachedIsCurrent
  BY DEF FakeInit, BroadcastIsCurrent, TopicIsCurrent, CachedIsCurrent
<1>4. TurnedAsComputed
  BY Halted DEF FakeInit, TurnedAsComputed
<1>5. QED
  BY <1>1, <1>2, <1>3, <1>4 DEF FakeInv

(* A command put on the topic that is current leaves the topic so.         *)
LEMMA AppendCurrent ==
  ASSUME FakeInv, NEW cmd \in VelCommand, Current(cmd),
         cmd_topic' = Append(cmd_topic, cmd), UNCHANGED <<base_angle, idle>>
  PROVE  cmd_topic' \in Seq(VelCommand) /\ TopicIsCurrent'
<1>1. cmd_topic \in Seq(VelCommand)
  BY DEF FakeInv, CommandTypes
<1>2. cmd_topic' \in Seq(VelCommand)
  BY <1>1
<1>3. TopicIsCurrent'
  <2> SUFFICES ASSUME NEW i \in 1 .. Len(cmd_topic') PROVE Current(cmd_topic[i])'
    BY DEF TopicIsCurrent
  <2>1. cmd_topic'[i] = cmd \/ (i \in 1 .. Len(cmd_topic) /\ cmd_topic'[i] = cmd_topic[i])
    BY <1>1
  <2>2. Current(cmd_topic'[i])
    BY <2>1 DEF FakeInv, TopicIsCurrent
  <2>3. QED
    BY <2>2 DEF Current, TimedOut
<1>4. QED
  BY <1>2, <1>3

LEMMA ServerPreserves ==
  ASSUME FakeInv,
         \/ GoalAccepted
         \/ \E blocked \in BOOLEAN : ControllerCycle(blocked)
         \/ GoalEnds
  PROVE  FakeInv'
<1>1. CASE GoalAccepted
  BY <1>1 DEF GoalAccepted, FakeInv, FakeTypeOK, CommandTypes, BroadcastIsCurrent, TopicIsCurrent,
              CachedIsCurrent, TurnedAsComputed, Current, TimedOut
<1>2. ASSUME NEW cmd \in VelCommand, Current(cmd), Len(cmd_topic) < Backlog,
             cmd_topic' = Append(cmd_topic, cmd), following' \in BOOLEAN, plan_topic' \in BOOLEAN,
             UNCHANGED <<base_angle, fake_frame, broadcast, idle, latest_cmd_vel, chassis>>
      PROVE  FakeInv'
  <2>1. cmd_topic' \in Seq(VelCommand) /\ TopicIsCurrent'
    BY <1>2, AppendCurrent
  <2>2. Len(cmd_topic') <= Backlog
    BY <1>2, TimeoutAssumption DEF FakeInv, CommandTypes
  <2>3. FakeTypeOK'
    BY <1>2, <2>2 DEF FakeInv, FakeTypeOK
  <2>4. CommandTypes' /\ BroadcastIsCurrent' /\ CachedIsCurrent' /\ TurnedAsComputed'
    BY <1>2, <2>1 DEF FakeInv, CommandTypes, BroadcastIsCurrent, CachedIsCurrent, TurnedAsComputed,
                      Current, TimedOut
  <2>5. QED
    BY <2>1, <2>3, <2>4 DEF FakeInv
<1>3. ASSUME NEW blocked \in BOOLEAN, ControllerCycle(blocked) PROVE FakeInv'
  <2> DEFINE moving == [moves |-> TRUE, frame |-> fake_frame,
                         lapse |-> IF TimedOut THEN "unseen"
                                   ELSE IF ~broadcast THEN "unbroadcast"
                                   ELSE "none"]
  <2>1. moving \in VelCommand
    BY DEF FakeInv, FakeTypeOK, VelCommand, Lapses
  <2>2. Current(moving) /\ Current(Stop)
    <3>1. moving.lapse = "none" => ~TimedOut /\ broadcast
      OBVIOUS
    <3>2. QED
      BY <3>1, Halted DEF Current, FakeInv, BroadcastIsCurrent
  <2>3. cmd_topic' = Append(cmd_topic, IF blocked THEN Stop ELSE moving)
    BY <1>3 DEF ControllerCycle
  <2>4. following' \in BOOLEAN /\ plan_topic' \in BOOLEAN
    BY <1>3 DEF ControllerCycle, FakeInv, FakeTypeOK
  <2> HIDE DEF moving
  <2>5. QED
    BY <1>2, <1>3, <2>1, <2>2, <2>3, <2>4, Halted DEF ControllerCycle
<1>4. CASE GoalEnds
  <2>1. Current(Stop)
    BY Halted DEF Current
  <2>2. following' \in BOOLEAN /\ plan_topic' \in BOOLEAN
    BY <1>4 DEF GoalEnds, FakeInv, FakeTypeOK
  <2>3. QED
    BY <1>2, <1>4, <2>1, <2>2, Halted DEF GoalEnds
<1>5. QED
  BY <1>1, <1>3, <1>4

(* The angle changes only after the timeout, when no command on the topic  *)
(* depends on it.                                                          *)
LEMMA AnglePreserves ==
  ASSUME FakeInv, (\E yaw \in Turns : OdometryCallback(yaw)) \/ PublishTransform
  PROVE  FakeInv'
<1>1. ASSUME NEW yaw \in Turns, OdometryCallback(yaw) PROVE FakeInv'
  BY <1>1 DEF OdometryCallback, OdometryCallback_Always, FakeInv, FakeTypeOK, CommandTypes,
              BroadcastIsCurrent, TopicIsCurrent, CachedIsCurrent, TurnedAsComputed, Current, TimedOut
<1>2. CASE PublishTransform
  BY <1>2 DEF PublishTransform, FakeInv, FakeTypeOK, CommandTypes, BroadcastIsCurrent, TopicIsCurrent,
              CachedIsCurrent, TurnedAsComputed, Current, TimedOut
<1>3. QED
  BY <1>1, <1>2

LEMMA PlanPreserves == FakeInv /\ LocalPlanCallback => FakeInv'
<1> SUFFICES ASSUME FakeInv, LocalPlanCallback PROVE FakeInv'
  OBVIOUS
<1>1. ~TimedOut'
  BY TimeoutAssumption DEF LocalPlanCallback, TimedOut
<1>2. latest_cmd_vel' \in VelCommand \cup {NoCommand}
  BY DEF LocalPlanCallback, FakeInv, CommandTypes, VelCommand, Lapses
<1>3. TopicIsCurrent'
  <2> SUFFICES ASSUME NEW i \in 1 .. Len(cmd_topic) PROVE Current(cmd_topic[i])'
    BY DEF LocalPlanCallback, TopicIsCurrent, Current, TimedOut
  <2>1. Current(cmd_topic[i])
    BY DEF FakeInv, TopicIsCurrent
  <2>2. QED
    BY <1>1, <2>1 DEF Current, LocalPlanCallback
<1>4. CachedIsCurrent'
  <2>1. CASE TimedOut /\ latest_cmd_vel # NoCommand
    <3>1. /\ latest_cmd_vel' = [latest_cmd_vel EXCEPT !.lapse = "overdue"]
          /\ latest_cmd_vel \in VelCommand
      BY <2>1 DEF LocalPlanCallback, FakeInv, CommandTypes
    <3>2. latest_cmd_vel'.lapse # "none"
      BY <3>1 DEF VelCommand
    <3>3. QED
      BY <3>2 DEF CachedIsCurrent, Current
  <2>2. CASE ~(TimedOut /\ latest_cmd_vel # NoCommand)
    BY <1>1, <2>2 DEF LocalPlanCallback, FakeInv, CachedIsCurrent, Current
  <2>3. QED
    BY <2>1, <2>2
<1>5. FakeTypeOK'
  <2>1. idle' \in 0..Timeout + 1
    BY TimeoutAssumption DEF LocalPlanCallback
  <2>2. plan_topic' \in BOOLEAN
    BY DEF LocalPlanCallback
  <2>3. UNCHANGED <<base_angle, fake_frame, broadcast, following, cmd_topic>>
    BY DEF LocalPlanCallback
  <2>4. QED
    BY <2>1, <2>2, <2>3 DEF FakeInv, FakeTypeOK
<1>6. CommandTypes' /\ BroadcastIsCurrent' /\ TurnedAsComputed'
  BY <1>2 DEF LocalPlanCallback, FakeInv, CommandTypes, BroadcastIsCurrent, TurnedAsComputed
<1>7. QED
  BY <1>3, <1>4, <1>5, <1>6 DEF FakeInv

(* A current command, or one that was computed apart from the node, is     *)
(* turned as it was computed.                                              *)
LEMMA TransformIsRight ==
  ASSUME FakeInv, NEW cmd \in VelCommand, Current(cmd), chassis' = TransformVelocity(cmd)
  PROVE  chassis' \in TurnedCommand /\ TurnedAsComputed'
<1>1. CASE cmd.moves
  <2>1. base_angle \in Turns
    BY DEF FakeInv, FakeTypeOK
  <2>2. chassis' = [moves |-> TRUE, turned |-> base_angle, frame |-> cmd.frame, lapse |-> cmd.lapse]
    BY <1>1 DEF TransformVelocity
  <2>3. chassis' \in TurnedCommand
    BY <2>1, <2>2 DEF TurnedCommand, VelCommand
  <2>4. chassis'.lapse = "none" => chassis'.turned = chassis'.frame
    BY <1>1, <2>2 DEF Current
  <2>5. chassis'.lapse \in Lapses
    BY <2>2 DEF VelCommand
  <2>6. QED
    BY <2>3, <2>4, <2>5 DEF TurnedAsComputed, Lapses
<1>2. CASE ~cmd.moves
  BY <1>2, Halted DEF TransformVelocity, TurnedAsComputed
<1>3. QED
  BY <1>1, <1>2

LEMMA CommandPreserves == FakeInv /\ CmdVelCallback => FakeInv'
<1> SUFFICES ASSUME FakeInv, CmdVelCallback PROVE FakeInv'
  OBVIOUS
<1> DEFINE cmd == Head(cmd_topic)
<1>1. cmd_topic \in Seq(VelCommand) /\ cmd_topic # <<>> /\ cmd_topic' = Tail(cmd_topic)
  BY DEF FakeInv, CommandTypes, CmdVelCallback
<1>2. cmd \in VelCommand /\ Current(cmd)
  BY <1>1 DEF FakeInv, TopicIsCurrent
<1>3. UNCHANGED <<base_angle, fake_frame, broadcast, idle, following, plan_topic>>
  BY DEF CmdVelCallback
<1>4. cmd_topic' \in Seq(VelCommand) /\ Len(cmd_topic') <= Backlog
  BY <1>1, TimeoutAssumption DEF FakeInv, FakeTypeOK
<1>5. TopicIsCurrent'
  <2> SUFFICES ASSUME NEW i \in 1 .. Len(cmd_topic') PROVE Current(cmd_topic[i])'
    BY DEF TopicIsCurrent
  <2>1. i + 1 \in 1 .. Len(cmd_topic) /\ cmd_topic'[i] = cmd_topic[i + 1]
    BY <1>1
  <2>2. Current(cmd_topic'[i])
    BY <2>1 DEF FakeInv, TopicIsCurrent
  <2>3. QED
    BY <1>3, <2>2 DEF Current, TimedOut
<1>6. FakeTypeOK' /\ BroadcastIsCurrent'
  BY <1>3, <1>4 DEF FakeInv, FakeTypeOK, BroadcastIsCurrent
<1>7. CASE ~cmd.moves \/ TimedOut
  <2>1. chassis' = TransformVelocity(cmd) /\ latest_cmd_vel' = latest_cmd_vel
    BY <1>7 DEF CmdVelCallback
  <2>2. chassis' \in TurnedCommand /\ TurnedAsComputed'
    BY <1>2, <2>1, TransformIsRight
  <2>3. CommandTypes' /\ CachedIsCurrent'
    BY <1>3, <1>4, <2>1, <2>2 DEF FakeInv, CommandTypes, CachedIsCurrent, Current, TimedOut
  <2>4. QED
    BY <1>5, <1>6, <2>2, <2>3 DEF FakeInv
<1>8. CASE ~(~cmd.moves \/ TimedOut)
  <2>1. latest_cmd_vel' = cmd /\ chassis' = chassis
    BY <1>8 DEF CmdVelCallback
  <2>2. CommandTypes' /\ CachedIsCurrent' /\ TurnedAsComputed'
    BY <1>2, <1>3, <1>4, <2>1 DEF FakeInv, CommandTypes, CachedIsCurrent, TurnedAsComputed, Current, TimedOut
  <2>3. QED
    BY <1>5, <1>6, <2>2 DEF FakeInv
<1>9. QED
  BY <1>7, <1>8

LEMMA RepeatPreserves == FakeInv /\ PublishCmdVel => FakeInv'
<1> SUFFICES ASSUME FakeInv, PublishCmdVel PROVE FakeInv'
  OBVIOUS
<1>1. UNCHANGED <<base_angle, fake_frame, broadcast, idle, following, plan_topic, cmd_topic>>
  BY DEF PublishCmdVel
<1>2. FakeTypeOK' /\ BroadcastIsCurrent' /\ TopicIsCurrent'
  BY <1>1 DEF FakeInv, FakeTypeOK, BroadcastIsCurrent, TopicIsCurrent, Current, TimedOut
<1>3. CASE TimedOut
  <2>1. latest_cmd_vel' = NoCommand /\ chassis' = Halt
    BY <1>3 DEF PublishCmdVel
  <2>2. CommandTypes' /\ CachedIsCurrent' /\ TurnedAsComputed'
    BY <1>1, <2>1, Halted DEF FakeInv, CommandTypes, CachedIsCurrent, TurnedAsComputed
  <2>3. QED
    BY <1>2, <2>2 DEF FakeInv
<1>4. CASE ~TimedOut
  <2>1. chassis' = TransformVelocity(latest_cmd_vel) /\ latest_cmd_vel' = latest_cmd_vel
    BY <1>4 DEF PublishCmdVel
  <2>2. latest_cmd_vel \in VelCommand /\ Current(latest_cmd_vel)
    BY <1>4 DEF PublishCmdVel, FakeInv, CommandTypes, CachedIsCurrent
  <2>3. chassis' \in TurnedCommand /\ TurnedAsComputed'
    BY <2>1, <2>2, TransformIsRight
  <2>4. CommandTypes' /\ CachedIsCurrent'
    BY <1>1, <2>1, <2>3 DEF FakeInv, CommandTypes, CachedIsCurrent, Current, TimedOut
  <2>5. QED
    BY <1>2, <2>3, <2>4 DEF FakeInv
<1>5. QED
  BY <1>3, <1>4

(* When the timeout passes no command is on its way.                       *)
LEMMA TickPreserves == FakeInv /\ Tick => FakeInv'
<1> SUFFICES ASSUME FakeInv, Tick PROVE FakeInv'
  OBVIOUS
<1>1. idle \in 0 .. Timeout /\ idle' = idle + 1 /\ cmd_topic = <<>>
      /\ UNCHANGED <<base_angle, fake_frame, broadcast, latest_cmd_vel, chassis, following, plan_topic,
                     cmd_topic>>
  BY TimeoutAssumption DEF Tick, FakeInv, FakeTypeOK
<1>2. FakeTypeOK' /\ CommandTypes' /\ BroadcastIsCurrent' /\ TurnedAsComputed'
  BY <1>1, TimeoutAssumption DEF FakeInv, FakeTypeOK, CommandTypes, BroadcastIsCurrent, TurnedAsComputed
<1>3. TopicIsCurrent'
  BY <1>1 DEF TopicIsCurrent
<1>4. CachedIsCurrent'
  BY <1>1, TimeoutAssumption DEF FakeInv, CachedIsCurrent, Current, TimedOut
<1>5. QED
  BY <1>2, <1>3, <1>4 DEF FakeInv

LEMMA FakeInductive == FakeInv /\ [FakeVelNext]_fakeVars => FakeInv'
<1> SUFFICES ASSUME FakeInv, [FakeVelNext]_fakeVars PROVE FakeInv'
  OBVIOUS
<1>1. CASE UNCHANGED fakeVars
  BY <1>1 DEF fakeVars, FakeInv, FakeTypeOK, CommandTypes, BroadcastIsCurrent, TopicIsCurrent,
              CachedIsCurrent, TurnedAsComputed, Current, TimedOut
<1>2. QED
  BY <1>1, ServerPreserves, AnglePreserves, PlanPreserves, CommandPreserves, RepeatPreserves, TickPreserves
  DEF FakeVelNext

(* What the node knows of every command on its way, in every behaviour.    *)
THEOREM FakeCorrect == FakeVelSpec => []FakeInv
  BY InitFake, FakeInductive, PTL DEF FakeVelSpec

(* Every variable of the node keeps its type.                              *)
THEOREM FakeTypeCorrect == FakeVelSpec => []FakeTypeOK
<1>1. FakeInv => FakeTypeOK
  BY DEF FakeInv
<1>2. QED
  BY <1>1, FakeCorrect, PTL

(* For every timeout and length of the topic: a command is turned by the   *)
(* angle of the frame of its computation, but for the three lapses that    *)
(* TurnedAsComputed names.                                                 *)
THEOREM AlwaysTurnedAsComputed == FakeVelSpec => []TurnedAsComputed
<1>1. FakeInv => TurnedAsComputed
  BY DEF FakeInv
<1>2. QED
  BY <1>1, FakeCorrect, PTL
-----------------------------------------------------------------------------

Goal == [sent : Nat, accepted : Nat \cup {-1}]

GoalTypes ==
  /\ mode \in Modes /\ sent_disable_msg_ \in BOOLEAN
  /\ now \in Nat /\ last_goal_time \in Nat \cup {-1} /\ last_goal_time <= now
  /\ goals \subseteq Goal /\ stopped \subseteq Goal /\ cancels \subseteq Nat

(* No two goals were sent at one time, not even one that waits and one     *)
(* that is gone: a goal accepted now is none of those that were stopped.   *)
GoalsDiffer ==
  /\ \A g \in goals \cup stopped : g.sent <= last_goal_time /\ g.accepted <= now
  /\ \A g \in stopped : g.accepted # -1
  /\ \A g \in goals, h \in goals \cup stopped : g.sent = h.sent => g = h

OnlyAutoHasGoals == goals # {} => mode.control_mode = "auto_control"

(* Each stopped goal that is left is covered by a request under way.       *)
RequestsCover ==
  ~sent_disable_msg_ =>
    /\ sent_vel = Still
    /\ \A g \in stopped \cap goals : \E t \in cancels : g.accepted <= t

TeleopInv == GoalTypes /\ GoalsDiffer /\ OnlyAutoHasGoals /\ RequestsCover

LEMMA InitTeleop == TeleopInit => TeleopInv
<1> SUFFICES ASSUME TeleopInit PROVE TeleopInv
  OBVIOUS
<1>1. GoalTypes
  BY DEF TeleopInit, GoalTypes
<1>2. GoalsDiffer /\ OnlyAutoHasGoals /\ RequestsCover
  BY DEF TeleopInit, GoalsDiffer, OnlyAutoHasGoals, RequestsCover
<1>3. QED
  BY <1>1, <1>2 DEF TeleopInv

(* Time and messages on their way change none of it.                       *)
LEMMA JoyPreserves == TeleopInv /\ ((\E msg \in JoyMessages : JoyComes(msg)) \/ JoyClock) => TeleopInv'
<1> SUFFICES ASSUME TeleopInv, (\E msg \in JoyMessages : JoyComes(msg)) \/ JoyClock PROVE TeleopInv'
  OBVIOUS
<1>1. UNCHANGED <<mode, last_goal_time, sent_disable_msg_, sent_vel, goals, cancels, stopped>>
  BY DEF JoyComes, JoyClock
<1>2. now' = now \/ now' = now + 1
  BY DEF JoyComes, JoyClock
<1>3. GoalTypes'
  BY <1>1, <1>2 DEF TeleopInv, GoalTypes
<1>4. GoalsDiffer'
  BY <1>1, <1>2 DEF TeleopInv, GoalTypes, GoalsDiffer, Goal
<1>5. OnlyAutoHasGoals' /\ RequestsCover'
  BY <1>1 DEF TeleopInv, OnlyAutoHasGoals, RequestsCover
<1>6. QED
  BY <1>3, <1>4, <1>5 DEF TeleopInv

(* A new goal is sent later than every one before.                         *)
LEMMA SendPreserves ==
  ASSUME TeleopInv, NEW msg, NEW which, SendCmdVelMsg(msg, which), UNCHANGED <<mode, now>>
  PROVE  TeleopInv'
<1>1. sent_disable_msg_' = TRUE /\ UNCHANGED <<cancels, stopped>>
  BY DEF SendCmdVelMsg
<1>2. CASE UNCHANGED goals /\ last_goal_time' \in {last_goal_time, now}
  BY <1>1, <1>2
  DEF TeleopInv, GoalTypes, GoalsDiffer, Goal, OnlyAutoHasGoals, RequestsCover
<1>3. CASE /\ mode.control_mode # "manual_control"
           /\ last_goal_time # -1 /\ now - last_goal_time >= 1
           /\ goals' = goals \cup {[sent |-> now, accepted |-> -1]}
           /\ last_goal_time' = now
  <2> DEFINE new == [sent |-> now, accepted |-> -1]
  <2>1. new \in Goal /\ new.sent = now /\ new.accepted = -1
    BY DEF TeleopInv, GoalTypes, Goal
  <2>2. \A g \in goals \cup stopped : g \in Goal /\ g.sent < now
    BY <1>3 DEF TeleopInv, GoalTypes, GoalsDiffer, Goal
  <2>3. GoalTypes'
    BY <1>1, <1>3, <2>1 DEF TeleopInv, GoalTypes
  <2> HIDE DEF new
  <2>4. GoalsDiffer'
    <3>1. goals' = goals \cup {new} /\ stopped' = stopped /\ last_goal_time' = now /\ now' = now
      BY <1>1, <1>3 DEF new
    <3>2. \A g \in (goals \cup stopped)' : g.sent <= last_goal_time' /\ g.accepted <= now'
      BY <2>1, <2>2, <3>1 DEF TeleopInv, GoalTypes, GoalsDiffer, Goal
    <3>3. \A g \in goals', h \in (goals \cup stopped)' : g.sent = h.sent => g = h
      <4> SUFFICES ASSUME NEW g \in goals', NEW h \in (goals \cup stopped)', g.sent = h.sent PROVE g = h
        OBVIOUS
      <4>1. CASE g = new
        BY <4>1, <2>1, <2>2, <3>1 DEF Goal, TeleopInv, GoalTypes
      <4>2. CASE g \in goals
        BY <4>2, <2>1, <2>2, <3>1 DEF TeleopInv, GoalsDiffer, Goal, GoalTypes
      <4>3. QED
        BY <3>1, <4>1, <4>2
    <3>4. QED
      BY <3>1, <3>2, <3>3 DEF TeleopInv, GoalsDiffer
  <2>5. OnlyAutoHasGoals' /\ RequestsCover'
    BY <1>1, <1>3, TeleopAssumption DEF TeleopInv, GoalTypes, OnlyAutoHasGoals, RequestsCover
  <2>6. QED
    BY <2>3, <2>4, <2>5 DEF TeleopInv
<1>4. QED
  BY <1>2, <1>3 DEF SendCmdVelMsg, SendGoalPoseAction

(* A request to cancel carries a time that no accepted goal exceeds.       *)
LEMMA ReleasePreserves ==
  ASSUME TeleopInv, Released, UNCHANGED <<mode, now>>
  PROVE  TeleopInv'
<1>1. sent_disable_msg_' = FALSE /\ UNCHANGED <<goals, last_goal_time>>
  BY DEF Released
<1>2. CASE ~sent_disable_msg_
  BY <1>1, <1>2 DEF Released, TeleopInv, GoalTypes, GoalsDiffer, OnlyAutoHasGoals, RequestsCover
<1>3. CASE sent_disable_msg_
  <2>1. stopped' = {g \in goals : g.accepted # -1} /\ sent_vel' = Still
    BY <1>3 DEF Released, SendZeroCommand
  <2>2. goals # {} => cancels' = cancels \cup {now}
    BY <1>3 DEF Released, SendZeroCommand, CancelStamp, TeleopInv, OnlyAutoHasGoals
  <2>3. cancels' \subseteq Nat
    BY <1>3 DEF Released, SendZeroCommand, CancelStamp, TeleopInv, GoalTypes
  <2>4. GoalTypes'
    BY <1>1, <2>1, <2>3 DEF TeleopInv, GoalTypes
  <2>5. GoalsDiffer' /\ OnlyAutoHasGoals'
    BY <1>1, <2>1 DEF TeleopInv, GoalsDiffer, OnlyAutoHasGoals
  <2>6. RequestsCover'
    BY <1>1, <2>1, <2>2 DEF TeleopInv, GoalsDiffer, RequestsCover
  <2>7. QED
    BY <2>4, <2>5, <2>6 DEF TeleopInv
<1>4. QED
  BY <1>2, <1>3

LEMMA CallbackPreserves == TeleopInv /\ JoyCallback => TeleopInv'
<1> SUFFICES ASSUME TeleopInv, JoyCallback PROVE TeleopInv'
  OBVIOUS
<1>1. UNCHANGED <<mode, now>>
  BY DEF JoyCallback
<1>2. (\E which : SendCmdVelMsg(Head(joy), which)) \/ Released
  BY DEF JoyCallback
<1>3. QED
  BY <1>1, <1>2, SendPreserves, ReleasePreserves

LEMMA AcceptPreserves == ASSUME TeleopInv, NEW g \in goals, Accepts(g) PROVE TeleopInv'
<1> DEFINE new == [g EXCEPT !.accepted = now]
<1>1. g \in Goal /\ g.accepted = -1
  BY DEF TeleopInv, GoalTypes, Accepts
<1>2. new \in Goal /\ new.sent = g.sent /\ new.accepted = now
  BY <1>1 DEF Goal, TeleopInv, GoalTypes
<1>3. goals' = (goals \ {g}) \cup {new}
      /\ UNCHANGED <<mode, now, last_goal_time, sent_disable_msg_, sent_vel, cancels, stopped>>
  BY DEF Accepts
<1> HIDE DEF new
<1>4. \A h \in goals \cup stopped : h.sent = g.sent => h = g
  BY DEF TeleopInv, GoalsDiffer
<1>5. g \notin stopped /\ new \notin stopped
  BY <1>1, <1>2, <1>4 DEF TeleopInv, GoalsDiffer, GoalTypes
<1>6. GoalTypes'
  BY <1>2, <1>3 DEF TeleopInv, GoalTypes
<1>7. GoalsDiffer'
  <2>1. \A h \in (goals \cup stopped)' : h.sent <= last_goal_time' /\ h.accepted <= now'
    BY <1>2, <1>3 DEF TeleopInv, GoalsDiffer, GoalTypes
  <2>2. \A h \in goals', k \in (goals \cup stopped)' : h.sent = k.sent => h = k
    BY <1>2, <1>3, <1>4, <1>5 DEF TeleopInv, GoalsDiffer
  <2>3. QED
    BY <1>3, <2>1, <2>2 DEF TeleopInv, GoalsDiffer
<1>8. OnlyAutoHasGoals' /\ RequestsCover'
  BY <1>3, <1>5 DEF TeleopInv, OnlyAutoHasGoals, RequestsCover
<1>9. QED
  BY <1>6, <1>7, <1>8 DEF TeleopInv

LEMMA EndPreserves == ASSUME TeleopInv, NEW g \in goals, ServerEnds(g) PROVE TeleopInv'
<1>1. goals' = goals \ {g}
      /\ UNCHANGED <<mode, now, last_goal_time, sent_disable_msg_, sent_vel, cancels, stopped>>
  BY DEF ServerEnds
<1>2. QED
  BY <1>1 DEF TeleopInv, GoalTypes, GoalsDiffer, OnlyAutoHasGoals, RequestsCover

(* A request that is handled takes the goals it covers with it.            *)
LEMMA CancelPreserves == ASSUME TeleopInv, NEW t \in cancels, Cancels(t) PROVE TeleopInv'
<1>1. /\ cancels' = cancels \ {t}
      /\ goals' = {g \in goals : g.accepted = -1 \/ g.accepted > t}
      /\ UNCHANGED <<mode, now, last_goal_time, sent_disable_msg_, sent_vel, stopped>>
  BY DEF Cancels
<1>2. GoalTypes' /\ GoalsDiffer' /\ OnlyAutoHasGoals'
  BY <1>1 DEF TeleopInv, GoalTypes, GoalsDiffer, OnlyAutoHasGoals
<1>3. RequestsCover'
  <2> SUFFICES ASSUME ~sent_disable_msg_, NEW g \in stopped \cap goals'
               PROVE  \E u \in cancels' : g.accepted <= u
    BY <1>1 DEF TeleopInv, RequestsCover
  <2>1. g \in goals /\ g \in Goal /\ g.accepted # -1 /\ g.accepted > t
    BY <1>1 DEF TeleopInv, GoalTypes, GoalsDiffer
  <2>2. PICK u \in cancels : g.accepted <= u
    BY <2>1 DEF TeleopInv, RequestsCover
  <2>3. u # t
    BY <2>1, <2>2 DEF TeleopInv, GoalTypes, Goal
  <2>4. QED
    BY <1>1, <2>2, <2>3
<1>4. QED
  BY <1>2, <1>3 DEF TeleopInv

LEMMA TeleopInductive == TeleopInv /\ [TeleopNext]_teleopVars => TeleopInv'
<1> SUFFICES ASSUME TeleopInv, [TeleopNext]_teleopVars PROVE TeleopInv'
  OBVIOUS
<1>1. CASE UNCHANGED teleopVars
  BY <1>1 DEF teleopVars, TeleopInv, GoalTypes, GoalsDiffer, OnlyAutoHasGoals, RequestsCover
<1>2. CASE TeleopNext
  BY <1>2, JoyPreserves, CallbackPreserves, AcceptPreserves, EndPreserves, CancelPreserves DEF TeleopNext
<1>3. QED
  BY <1>1, <1>2

(* What the node and the server know of goals, in every behaviour.         *)
THEOREM TeleopCorrect == TeleopSpec => []TeleopInv
  BY InitTeleop, TeleopInductive, PTL DEF TeleopSpec

(* For any messages of the joystick and any order of acceptance, request   *)
(* and end: letting go of the button stops the robot and the goals that    *)
(* the server had accepted.                                                *)
THEOREM ReleaseAlwaysStops == TeleopSpec => []ReleaseStops
<1>1. TeleopInv => ReleaseStops
  BY DEF TeleopInv, RequestsCover, ReleaseStops
<1>2. QED
  BY <1>1, TeleopCorrect, PTL

-----------------------------------------------------------------------------
(***************************************************************************)
(* PursuitController: samples that are no further apart than an obstacle   *)
(* is long meet it.  What is left of a plan is a plan, and between a       *)
(* command and its execution nothing changes.                              *)
(***************************************************************************)

\* Division rounds down.
LEMMA DivIs ==
  ASSUME NEW a \in Nat, NEW b \in Nat \ {0}
  PROVE  a \div b \in Nat /\ b * (a \div b) <= a /\ a < b * (a \div b) + b
  OBVIOUS

LEMMA Fewer ==
  ASSUME NEW a \in Int, NEW b \in Int, NEW s \in Nat \ {0}, a * s < b * s
  PROVE  a < b
  OBVIOUS

LEMMA AsMany ==
  ASSUME NEW a \in Int, NEW b \in Int, NEW s \in Nat, a <= b
  PROVE  a * s <= b * s
  OBVIOUS

(***************************************************************************)
(* Of n poses, the count-th parts are gap or less apart: from any pose on  *)
(* there is one among the next gap, if so many are left.                   *)
(***************************************************************************)
LEMMA SampleInGap ==
  ASSUME NEW n \in Nat, NEW count \in Nat \ {0}, NEW x \in Nat \ {0},
         x + (n + count - 1) \div count <= n
  PROVE  \E k \in 0 .. count - 1 :
           /\ (k * n) \div count >= x
           /\ (k * n) \div count <= x + (n + count - 1) \div count - 1
  <1> DEFINE gap == (n + count - 1) \div count
             k == (x * count + n - 1) \div n
             f == (k * n) \div count
  <1>1. gap \in Nat /\ n <= count * gap /\ n > 0
    <2>1. n + count - 1 \in Nat
      OBVIOUS
    <2>2. gap \in Nat /\ n + count - 1 < count * gap + count
      BY <2>1, DivIs
    <2> HIDE DEF gap
    <2>3. count * gap \in Nat
      BY <2>2
    <2> QED
      BY <2>2, <2>3 DEF gap
  <1>2. k \in Nat /\ x * count <= k * n /\ k * n <= x * count + n - 1
    <2>1. x * count \in Nat /\ x * count + n - 1 \in Nat /\ n \in Nat \ {0}
      BY <1>1
    <2>2. k \in Nat /\ n * k <= x * count + n - 1 /\ x * count + n - 1 < n * k + n
      BY <2>1, DivIs
    <2> HIDE DEF k
    <2>3. n * k = k * n /\ n * k \in Nat
      BY <2>2
    <2> QED
      BY <2>1, <2>2, <2>3
  <1> HIDE DEF gap, k
  <1>3. f \in Nat /\ f * count <= k * n /\ k * n < f * count + count
    <2>1. k * n \in Nat
      BY <1>2
    <2>2. f \in Nat /\ count * f <= k * n /\ k * n < count * f + count
      BY <2>1, DivIs
    <2> HIDE DEF f
    <2>3. count * f = f * count
      BY <2>2
    <2> QED
      BY <2>2, <2>3
  <1> HIDE DEF f
  <1>4. f >= x
    <2>1. (f + 1) * count = f * count + count /\ f * count \in Nat /\ x * count \in Nat /\ k * n \in Nat
      BY <1>2, <1>3
    <2>2. x * count < (f + 1) * count
      BY <1>2, <1>3, <2>1
    <2>3. x < f + 1
      BY <1>3, <2>2, Fewer
    <2> QED
      BY <1>3, <2>3
  <1>5. f <= x + gap - 1
    <2>1. (x + gap) * count = x * count + count * gap
      BY <1>1
    <2>2. f * count \in Nat /\ x * count \in Nat /\ k * n \in Nat /\ count * gap \in Nat
      BY <1>1, <1>2, <1>3
    <2>3. f * count < (x + gap) * count
      BY <1>1, <1>2, <1>3, <2>1, <2>2
    <2>4. f < x + gap
      BY <1>1, <1>3, <2>3, Fewer
    <2> QED
      BY <1>1, <1>3, <2>4
  <1>6. k < count
    <2>1. x + gap <= n
      BY DEF gap
    <2>2. (x + gap) * count <= n * count
      BY <1>1, <2>1, AsMany
    <2>3. (x + gap) * count = x * count + count * gap
      BY <1>1
    <2>4. n * count = count * n /\ x * count \in Nat /\ k * n \in Nat /\ count * gap \in Nat /\ count * n \in Nat
      BY <1>1, <1>2
    <2>5. k * n < count * n
      BY <1>1, <1>2, <2>2, <2>3, <2>4
    <2> QED
      BY <1>1, <1>2, <2>5, Fewer
  <1>7. k \in 0 .. count - 1
    BY <1>2, <1>6
  <1>8. (k * n) \div count >= x /\ (k * n) \div count <= x + (n + count - 1) \div count - 1
    BY <1>4, <1>5 DEF f, gap
  <1> QED
    BY <1>7, <1>8, Zenon

\* A set of natural numbers has a least member, and Min is it.
LEMMA LeastIs ==
  ASSUME NEW S \in SUBSET Nat, S # {}
  PROVE  \E x \in S : \A y \in S : x <= y
  <1> DEFINE Less == OpToRel(<, Nat)
  <1>1. IsWellFoundedOn(Less, Nat)
    BY NatLessThanWellFounded
  <1>2. \A x, y \in Nat : y < x => <<y, x>> \in Less
    BY DEF OpToRel
  <1> HIDE DEF Less
  <1>3. PICK x \in S : \A y \in S : ~(<<y, x>> \in Less)
    BY <1>1, WFMin
  <1>4. ASSUME NEW y \in S
        PROVE  x <= y
    <2>1. x \in Nat /\ y \in Nat /\ ~(y < x)
      BY <1>2, <1>3
    <2> QED
      BY <2>1
  <1> QED
    BY <1>3, <1>4

Point == Int \X Int
PlanType == Seq(Point)

LEMMA DistanceIs ==
  ASSUME NEW p \in Point, NEW q \in Point
  PROVE  Dist2(p, q) \in Nat
  <1>1. p[1] \in Int /\ p[2] \in Int /\ q[1] \in Int /\ q[2] \in Int
    BY DEF Point
  <1>2. \A d \in Int : d * d \in Nat
    OBVIOUS
  <1>3. p[1] - q[1] \in Int /\ p[2] - q[2] \in Int
    BY <1>1
  <1> QED
    BY <1>2, <1>3 DEF Dist2

LEMMA NearestIs ==
  ASSUME NEW plan \in PlanType, plan # <<>>, robot \in Point
  PROVE  NearestPose(plan) \in 1 .. Len(plan)
  <1> DEFINE near == 1 .. (IF Len(plan) <= SearchDist THEN Len(plan) ELSE SearchDist + 1)
             D(m) == Dist2(plan[m], robot)
             All == {D(m) : m \in near}
  <1>1. Len(plan) \in Nat \ {0} /\ near \subseteq 1 .. Len(plan) /\ 1 \in near /\ near \subseteq Nat
    BY LenProperties, EmptySeq, PursuitAssumption DEF PlanType
  <1>2. \A m \in near : D(m) \in Nat
    BY <1>1, ElementOfSeq, DistanceIs DEF PlanType
  <1> HIDE DEF near, D
  <1>3. PICK d \in All : \A e \in All : d <= e
    <2>1. All \in SUBSET Nat /\ All # {}
      BY <1>1, <1>2
    <2> QED
      BY <2>1, LeastIs
  <1> DEFINE Best == {m \in near : D(m) = d}
  <1>4. PICK best \in Best : \A m \in Best : best <= m
    <2>1. Best \in SUBSET Nat /\ Best # {}
      BY <1>1, <1>3
    <2> QED
      BY <2>1, LeastIs
  <1>5. /\ best \in near /\ \A j \in near : D(best) <= D(j)
        /\ \A j \in 1 .. best - 1 : D(j) # D(best)
    <2>1. best \in near /\ D(best) = d /\ best \in Nat
      BY <1>1, <1>4
    <2>2. \A j \in 1 .. best - 1 : j \in near
      BY <2>1, <1>1, PursuitAssumption DEF near
    <2>3. \A j \in 1 .. best - 1 : j < best /\ j \in Nat
      BY <2>1
    <2> QED
      BY <1>3, <1>4, <2>1, <2>2, <2>3
  <1>6. NearestPose(plan) \in near
    BY <1>5 DEF NearestPose, near, D
  <1> QED
    BY <1>1, <1>6

LEMMA PrunedIsPlan ==
  ASSUME NEW plan \in PlanType, plan # <<>>, robot \in Point
  PROVE  Pruned(plan) \in PlanType
  <1>1. NearestPose(plan) \in 1 .. Len(plan) /\ Len(plan) \in Nat
    BY NearestIs, LenProperties DEF PlanType
  <1> QED
    BY <1>1, SubSeqProperties DEF Pruned, PlanType

LEMMA LocalIsPlan ==
  ASSUME NEW plan \in PlanType
  PROVE  Len(LocalPlan(plan)) \in Nat
  <1> DEFINE outside == {m \in 1 .. Len(plan) : Dist2(plan[m], robot) > Extent * Extent}
  <1>1. Len(plan) \in Nat /\ outside \in SUBSET Nat
    BY LenProperties DEF PlanType
  <1>2. CASE outside = {}
    BY <1>1, <1>2 DEF LocalPlan
  <1>3. CASE outside # {}
    <2>1. PICK x \in outside : \A y \in outside : x <= y
      BY <1>1, <1>3, LeastIs
    <2>2. Min(outside) \in outside
      BY <2>1 DEF Min
    <2>3. Min(outside) - 1 \in 0 .. Len(plan)
      BY <1>1, <2>2
    <2>4. LocalPlan(plan) = SubSeq(plan, 1, Min(outside) - 1)
      BY <1>3 DEF LocalPlan
    <2> HIDE DEF outside
    <2>5. SubSeq(plan, 1, Min(outside) - 1) \in Seq(Point)
      BY <1>1, <2>3, SubSeqProperties DEF PlanType
    <2> QED
      BY <2>4, <2>5, LenProperties
  <1> QED
    BY <1>2, <1>3

Commanded == cmd_vel # Pending /\ lookups = "none" /\ global_plan # <<>>

PursuitInv ==
  /\ global_plan \in PlanType /\ robot \in Point
  /\ Commanded => cmd_vel = Zero \/ ~CollisionDetected(LocalPlan(global_plan), "none")

LEMMA ComputeKeeps ==
  ASSUME PursuitInv, NEW lookahead, NEW failed, ComputeVelocityCommands(lookahead, failed)
  PROVE  PursuitInv'
  <1>1. lookups' = failed /\ UNCHANGED <<robot, obstacles, centre>>
    BY DEF ComputeVelocityCommands
  <1>2. CASE global_plan = <<>> \/ failed = "pose"
    BY <1>1, <1>2 DEF ComputeVelocityCommands, PursuitInv
  <1>3. CASE ~(global_plan = <<>> \/ failed = "pose")
    <2>1. /\ global_plan' = Pruned(global_plan)
          /\ \/ cmd_vel' = Zero
             \/ \E carrot : cmd_vel' = Command(TransformedPlan(global_plan', failed), carrot, failed)
      BY <1>3 DEF ComputeVelocityCommands
    <2>2. global_plan' \in PlanType /\ robot' \in Point
      BY <1>1, <1>3, <2>1, PrunedIsPlan DEF PursuitInv
    <2>3. failed = "none" =>
            cmd_vel' = Zero \/ ~CollisionDetected(LocalPlan(global_plan'), "none")
      BY <2>1 DEF TransformedPlan, Command
    <2>4. CollisionDetected(LocalPlan(global_plan), "none")' = CollisionDetected(LocalPlan(global_plan'), "none")
      BY <1>1 DEF CollisionDetected, LocalPlan, OnCostmap
    <2> QED
      BY <1>1, <2>2, <2>3, <2>4 DEF PursuitInv, Commanded
  <1> QED
    BY <1>2, <1>3

LEMMA PursuitStep == PursuitInv /\ [PursuitNext]_pursuitVars => PursuitInv'
  <1> SUFFICES ASSUME PursuitInv, [PursuitNext]_pursuitVars
               PROVE  PursuitInv'
    OBVIOUS
  <1>1. ASSUME CarryOut PROVE PursuitInv'
    <2>1. cmd_vel' = Pending /\ UNCHANGED global_plan
      BY <1>1 DEF CarryOut
    <2>2. robot' \in Point
      <3>1. \A d : Sign(d) \in Int
        BY DEF Sign
      <3>2. robot[1] \in Int /\ robot[2] \in Int
        BY DEF PursuitInv, Point
      <3> QED
        BY <1>1, <3>1, <3>2 DEF CarryOut, Point, PursuitInv
    <2> QED
      BY <2>1, <2>2 DEF PursuitInv, Commanded
  <1>2. ASSUME NEW plan \in Plans, SetPlan(plan) PROVE PursuitInv'
    BY <1>2, PursuitAssumption DEF SetPlan, PursuitInv, Commanded, PlanType, Point
  <1>3. ASSUME NEW dx \in -1 .. 1, NEW dy \in -1 .. 1, Slip(dx, dy) PROVE PursuitInv'
    BY <1>3 DEF Slip, PursuitInv, Commanded, Point
  <1>4. ASSUME NEW points \in Obstructions, CostmapUpdates(points) PROVE PursuitInv'
    BY <1>4 DEF CostmapUpdates, PursuitInv, Commanded
  <1>5. CASE UNCHANGED pursuitVars
    BY <1>5 DEF pursuitVars, PursuitInv, Commanded, CollisionDetected, LocalPlan, OnCostmap
  <1> QED
    BY <1>1, <1>2, <1>3, <1>4, <1>5, ComputeKeeps DEF PursuitNext, Cycle

(* What one computation of the controller has looked at, in every behaviour. *)
THEOREM PursuitInvariant == PursuitSpec => []PursuitInv
  <1>1. PursuitInit => PursuitInv
    BY DEF PursuitInit, PursuitInv, PlanType, Point, Commanded
  <1> QED
    BY <1>1, PursuitStep, PTL DEF PursuitSpec

(***************************************************************************)
(* For any plans, obstacles, sides of the costmap and number of samples,   *)
(* and however far the costmap lags behind: an obstacle that covers the    *)
(* gap between two samples, with nothing off the costmap before it, stops. *)
(***************************************************************************)
THEOREM AlwaysStopsForObstacles == PursuitSpec => []StopsForObstacles
  <1>1. PursuitInv => StopsForObstacles
    <2> DEFINE way == LocalPlan(global_plan)
               n == Len(way)
               gap == (n + Samples - 1) \div Samples
    <2> SUFFICES ASSUME PursuitInv, Commanded, NEW m \in 2 .. n - gap + 1,
                        \A j \in m .. m + gap - 1 : way[j] \in obstacles,
                        \A j \in 2 .. m + gap - 1 : OnCostmap(way[j])
                 PROVE  cmd_vel = Zero
      BY DEF StopsForObstacles, Commanded
    <2>1. n \in Nat
      BY LocalIsPlan DEF PursuitInv
    <2> HIDE DEF way
    <2>2. gap \in Nat /\ n + Samples - 1 \in Nat
      <3>1. Samples \in Nat \ {0}
        BY PursuitAssumption
      <3>2. PICK size : size = n
        OBVIOUS
      <3>3. size + Samples - 1 \in Nat
        BY <2>1, <3>1, <3>2
      <3>4. (size + Samples - 1) \div Samples \in Nat
        BY <3>1, <3>3, DivIs
      <3> QED
        BY <3>2, <3>3, <3>4
    <2>3. m - 1 \in Nat \ {0} /\ (m - 1) + gap <= n /\ m \in Int
      BY <2>1, <2>2
    <2>4. PICK k \in 0 .. Samples - 1 :
            (k * n) \div Samples >= m - 1 /\ (k * n) \div Samples <= (m - 1) + gap - 1
      BY <2>1, <2>3, SampleInGap, PursuitAssumption
    <2> DEFINE f == (k * n) \div Samples
    <2>5. f \in Nat /\ f # 0 /\ f \in SampleIndices(n)
      <3>1. k * n \in Nat /\ Samples \in Nat \ {0}
        BY <2>1, PursuitAssumption
      <3>2. f \in Nat
        BY <3>1, DivIs
      <3> HIDE DEF f
      <3>3. f # 0
        BY <2>3, <2>4, <3>2 DEF f
      <3> QED
        BY <3>2, <3>3 DEF SampleIndices, f
    <2> HIDE DEF f, gap, n
    <2>6. f + 1 \in m .. m + gap - 1
      BY <2>2, <2>3, <2>4, <2>5 DEF f
    <2>7. \A j \in SampleIndices(n) : j <= f => OnCostmap(way[j + 1])
      <3> SUFFICES ASSUME NEW j \in SampleIndices(n), j <= f PROVE OnCostmap(way[j + 1])
        OBVIOUS
      <3>1. j \in Nat /\ j # 0
        <4>1. PICK i \in 0 .. Samples - 1 : j = (i * n) \div Samples /\ j # 0
          BY DEF SampleIndices
        <4>2. i * n \in Nat /\ Samples \in Nat \ {0}
          BY <2>1, PursuitAssumption DEF n
        <4> QED
          BY <4>1, <4>2, DivIs
      <3>2. j + 1 \in 2 .. m + gap - 1
        BY <2>2, <2>3, <2>5, <2>6, <3>1
      <3> QED
        BY <3>2
    <2>8. CollisionDetected(way, "none")
      BY <2>5, <2>6, <2>7 DEF CollisionDetected, n
    <2> QED
      BY <2>8 DEF PursuitInv, way
  <1> QED
    BY <1>1, PursuitInvariant, PTL

-----------------------------------------------------------------------------
(***************************************************************************)
(* TerrainAnalysis: what was seen near by is in the cloud that the map is  *)
(* made of.  A voxel keeps one point for a place, with the mean of its     *)
(* times; the grid and the indices in it follow the vehicle, and are never *)
(* further apart than a voxel and a half.                                  *)
(***************************************************************************)

(* The sum that the community modules define for a set, of one element and *)
(* of two.                                                                 *)
SumOf(f, S) ==
  \A s \in SUBSET S : f[s] = IF s = {} THEN 0
                             ELSE (CHOOSE x \in s : TRUE) + f[s \ {CHOOSE x \in s : TRUE}]

LEMMA SumIsDefined ==
  ASSUME NEW S, \E f : f = [s \in SUBSET S |-> IF s = {} THEN 0
                             ELSE (CHOOSE x \in s : TRUE) + f[s \ {CHOOSE x \in s : TRUE}]]
  PROVE  \E f : SumOf(f, S) /\ SumSet(S) = f[S]
<1> DEFINE Iter(f) == f = [s \in SUBSET S |-> IF s = {} THEN 0
                             ELSE (CHOOSE x \in s : TRUE) + f[s \ {CHOOSE x \in s : TRUE}]]
<1> DEFINE h == CHOOSE f : Iter(f)
<1>1. \E f : Iter(f)
  OBVIOUS
<1>2. Iter(h)
  BY <1>1
<1>3. SumSet(S) = h[S]
  BY DEF SumSet, FoldSet, MapThenFoldSet
<1>4. SumOf(h, S)
  <2> HIDE DEF h
  <2>1. QED
    BY <1>2 DEF SumOf
<1>5. QED
  BY <1>3, <1>4

LEMMA SumOfPair ==
  ASSUME NEW a \in Int, NEW b \in Int
  PROVE  SumSet({a, b}) = IF a = b THEN a ELSE a + b
<1> DEFINE S == {a, b}
<1> DEFINE g == [s \in SUBSET S |-> IF s = {} THEN 0 ELSE IF s = {a} THEN a
                                    ELSE IF s = {b} THEN b ELSE a + b]
<1>1. \A s \in SUBSET S : \/ s = {}
                          \/ s = {a}
                          \/ s = {b}
                          \/ s = S
  OBVIOUS
<1> DEFINE E(f, s) == IF s = {} THEN 0
                      ELSE (CHOOSE x \in s : TRUE) + f[s \ {CHOOSE x \in s : TRUE}]
<1>2. \A s \in SUBSET S : s # {} => (CHOOSE x \in s : TRUE) \in s
  OBVIOUS
<1>3. ASSUME NEW s \in SUBSET S
      PROVE  g[s] = E(g, s)
  <2>1. CASE s = {}
    BY <2>1
  <2>2. CASE s # {}
    <3> DEFINE x == CHOOSE x \in s : TRUE
    <3>1. x \in s
      BY <1>2, <2>2
    <3> HIDE DEF x
    <3>2. g[s] = x + g[s \ {x}]
      <4>1. CASE s = {a}
        <5>1. x = a /\ s \ {x} = {}
          BY <3>1, <4>1
        <5>2. g[s] = a /\ g[s \ {x}] = 0
          BY <4>1, <5>1
        <5>3. QED
          BY <5>1, <5>2
      <4>2. CASE s = {b}
        <5>1. x = b /\ s \ {x} = {}
          BY <3>1, <4>2
        <5>2. g[s] = b /\ g[s \ {x}] = 0
          BY <4>2, <5>1
        <5>3. QED
          BY <5>1, <5>2
      <4>3. CASE s # {a} /\ s # {b}
        <5>1. s = S /\ a # b
          <6>1. s = S
            BY <1>1, <2>2, <4>3
          <6>2. a = b => S = {a}
            OBVIOUS
          <6>3. QED
            BY <6>1, <6>2, <4>3
        <5>2. g[s] = a + b
          BY <5>1
        <5>3. CASE x = a
          <6>1. s \ {x} = {b}
            BY <5>1, <5>3
          <6>2. g[{b}] = b
            BY <5>1
          <6>3. QED
            BY <5>2, <5>3, <6>1, <6>2
        <5>4. CASE x = b
          <6>1. s \ {x} = {a}
            BY <5>1, <5>4
          <6>2. g[{a}] = a
            BY <5>1
          <6>3. QED
            BY <5>2, <5>4, <6>1, <6>2
        <5>5. QED
          BY <3>1, <5>3, <5>4
      <4>4. QED
        BY <4>1, <4>2, <4>3
    <3>3. QED
      BY <2>2, <3>2 DEF x
  <2>3. QED
    BY <2>1, <2>2
<1>4. g = [s \in SUBSET S |-> E(g, s)]
  BY <1>3
<1>5. PICK f : SumOf(f, S) /\ SumSet(S) = f[S]
  <2> HIDE DEF g
  <2>1. \E f : f = [s \in SUBSET S |-> IF s = {} THEN 0
                             ELSE (CHOOSE x \in s : TRUE) + f[s \ {CHOOSE x \in s : TRUE}]]
    BY <1>4
  <2>2. QED
    BY <2>1, SumIsDefined
<1>6. f[{}] = 0
  BY <1>5 DEF SumOf
<1>7. f[{a}] = a /\ f[{b}] = b
  <2>1. (CHOOSE x \in {a} : TRUE) = a /\ (CHOOSE x \in {b} : TRUE) = b
    OBVIOUS
  <2>2. {a} \ {a} = {} /\ {b} \ {b} = {} /\ {a} \in SUBSET S /\ {b} \in SUBSET S
    OBVIOUS
  <2>3. f[{a}] = a + f[{}] /\ f[{b}] = b + f[{}]
    <3>1. f[{a}] = (CHOOSE x \in {a} : TRUE) + f[{a} \ {CHOOSE x \in {a} : TRUE}]
      BY <1>5, <2>2 DEF SumOf
    <3>2. f[{b}] = (CHOOSE x \in {b} : TRUE) + f[{b} \ {CHOOSE x \in {b} : TRUE}]
      BY <1>5, <2>2 DEF SumOf
    <3>3. QED
      BY <3>1, <3>2, <2>1, <2>2
  <2>4. QED
    BY <1>6, <2>3
<1>8. CASE a = b
  <2>1. S = {a}
    BY <1>8
  <2>2. QED
    BY <1>5, <1>7, <1>8, <2>1
<1>9. CASE a # b
  <2> DEFINE x == CHOOSE x \in S : TRUE
  <2>1. x = a \/ x = b
    BY <1>2
  <2>2. f[S] = x + f[S \ {x}]
    BY <1>5 DEF SumOf
  <2> HIDE DEF x
  <2>3. CASE x = a
    <3>1. S \ {x} = {b}
      BY <1>9, <2>3
    <3>2. QED
      BY <1>5, <1>7, <1>9, <2>2, <2>3, <3>1
  <2>4. CASE x = b
    <3>1. S \ {x} = {a}
      BY <1>9, <2>4
    <3>2. QED
      BY <1>5, <1>7, <1>9, <2>2, <2>4, <3>1
  <2>5. QED
    BY <2>1, <2>3, <2>4
<1>10. QED
  BY <1>8, <1>9

PlaceOf == [at : Int, z : Int]
TimedPoint == [at : Int, z : Int, time : Int]
ClearingDis == ClearingDistances \cup {Local.clearingDis, Ext.clearingDis}

Node(c) ==
  [vehicle : Int, clearingDis : ClearingDis, shift : Int,
   voxels : [0..2 * c.half -> SUBSET TimedPoint], crop : SUBSET TimedPoint, time : Int,
   newlaserCloud : BOOLEAN, terrainCloud : SUBSET TimedPoint, seen : SUBSET TimedPoint,
   before : SUBSET TimedPoint, at : Int, moved : Int, processed : Int, gap : Int,
   gapBefore : Int, map : SUBSET PlaceOf]

SamePlace(p, q) == p.at = q.at /\ p.z = q.z
OnePerPlace(points) == \A p, q \in points : SamePlace(p, q) => p = q

(* A voxel has one point for a place, none older than the decay time when  *)
(* it was last filtered; what was seen then is in the voxel of its index,  *)
(* and at most as old as half of what its memory could have been; and the  *)
(* grid is centred at the vehicle up to one voxel.                         *)
GridHolds(c, node) ==
  /\ -c.size <= node.at - c.size * node.shift /\ node.at - c.size * node.shift <= c.size
  /\ \A i \in 0..2 * c.half :
       /\ OnePerPlace(node.voxels[i])
       /\ \A p \in node.voxels[i] : node.processed - p.time < c.decayTime

SeenIsStored(c, node) ==
  node.gap < c.decayTime =>
    \A p \in node.seen :
      Index(c.size, c.half, p.at, node.at) \in 0..2 * c.half =>
        \E q \in node.voxels[Index(c.size, c.half, p.at, node.at)] :
          SamePlace(p, q) /\ 2 * (node.processed - q.time) <= node.gap + c.decayTime

TimesAre(node) ==
  /\ node.processed <= node.time /\ node.gap >= 0
  /\ \A p \in node.crop : p.time = node.time

NodeHolds(c, node) ==
  /\ node \in Node(c)
  /\ GridHolds(c, node)
  /\ SeenIsStored(c, node)
  /\ TimesAre(node)
  /\ KeepsNear(c, node)

TerrainHolds ==
  /\ pos \in Int
  /\ scan.number \in Nat /\ scan.time \in Int /\ scan.points \subseteq PlaceOf
  /\ scan.number = 0 => scan.time = 0
  /\ NodeHolds(Local, local) /\ local.time <= scan.time
  /\ NodeHolds(Ext, ext) /\ ext.time <= scan.time
  /\ terrain_map.points \subseteq PlaceOf

\* Division cuts towards minus infinity.
LEMMA QuotientIs ==
  ASSUME NEW a \in Int, NEW m \in Nat \ {0}
  PROVE  /\ a \div m \in Int
         /\ m * (a \div m) <= a /\ a < m * (a \div m) + m
  OBVIOUS

(* The index of a voxel and the middle of the voxel that it names are less *)
(* than half a voxel from the point, also on the side where the quotient   *)
(* is lowered.                                                             *)
IndexFits(size, half, at, vehicle, k) ==
  /\ k \in Int
  /\ Index(size, half, at, vehicle) = half + k
  /\ 2 * (size * k) - size <= 2 * (at - vehicle)
  /\ 2 * (at - vehicle) <= 2 * (size * k) + size

LEMMA IndexIs ==
  ASSUME NEW size \in Nat \ {0}, NEW half \in Int, NEW at \in Int, NEW vehicle \in Int,
         NEW k, k = Index(size, half, at, vehicle) - half
  PROVE  IndexFits(size, half, at, vehicle, k)
<1> DEFINE twice == 2 * (at - vehicle) + size
<1>1. twice \in Int /\ 2 * size \in Nat \ {0}
  OBVIOUS
<1>2. CASE twice < 0
  <2> DEFINE q == (-twice) \div (2 * size)
  <2>1. q \in Int /\ (2 * size) * q <= -twice /\ -twice < (2 * size) * q + 2 * size
    <3> DEFINE x == -twice
    <3>1. x \in Int
      BY <1>1
    <3> DEFINE m == 2 * size
    <3>2. m \in Nat \ {0}
      OBVIOUS
    <3> HIDE DEF x, m
    <3>3. x \div m \in Int /\ m * (x \div m) <= x /\ x < m * (x \div m) + m
      BY <3>1, <3>2, QuotientIs
    <3>4. QED
      BY <3>3 DEF x, m
  <2>2. Index(size, half, at, vehicle) = half + (-q - 1)
    BY <1>2 DEF Index
  <2>3. k = -q - 1
    <3>1. q \in Int
      BY <2>1
    <3> HIDE DEF q
    <3>2. k = (half + (-q - 1)) - half
      BY <2>2
    <3>3. QED
      BY <3>1, <3>2
  <2>4. size * k = -(size * q) - size
    <3> HIDE DEF q, twice
    <3>1. size * (-q - 1) = -(size * q) - size
      BY <2>1
    <3>2. QED
      BY <2>3, <3>1
  <2>5. (2 * size) * q = 2 * (size * q) /\ size * q \in Int /\ size * k \in Int
    <3> HIDE DEF q, twice
    <3>1. QED
      BY <2>1, <2>3
  <2> HIDE DEF q
  <2>6. QED
    BY <2>1, <2>2, <2>3, <2>4, <2>5 DEF IndexFits
<1>3. CASE ~(twice < 0)
  <2> DEFINE q == twice \div (2 * size)
  <2>1. q \in Int /\ (2 * size) * q <= twice /\ twice < (2 * size) * q + 2 * size
    BY <1>1, QuotientIs
  <2>2. Index(size, half, at, vehicle) = half + q
    BY <1>3 DEF Index
  <2>3. (2 * size) * q = 2 * (size * q) /\ size * q \in Int
    <3>1. q \in Int
      BY <2>1
    <3> HIDE DEF q, twice
    <3>2. QED
      BY <3>1
  <2> HIDE DEF q
  <2>4. k = q
    BY <2>1, <2>2
  <2>5. QED
    BY <2>1, <2>2, <2>3, <2>4 DEF IndexFits
<1>4. QED
  BY <1>2, <1>3

(* The grid rolls only when the vehicle is more than a voxel from its      *)
(* centre, until it is on the same side of it and within one voxel.        *)
LEMMA RollIs ==
  ASSUME NEW c, NEW node, c.size \in Nat \ {0}, node.vehicle \in Int, node.shift \in Int,
         NEW a, a = node.vehicle - c.size * node.shift,
         NEW b, b = node.vehicle - c.size * RolledShift(c, node)
  PROVE  /\ RolledShift(c, node) \in Int /\ a \in Int /\ b \in Int
         /\ \/ a < -c.size /\ -c.size <= b /\ b < 0
            \/ a > c.size /\ 0 < b /\ b <= c.size
            \/ -c.size <= a /\ a <= c.size /\ b = a
<1>0. a \in Int
  OBVIOUS
<1> DEFINE Divided(x) == x \div c.size
<1>d. ASSUME NEW x \in Int
      PROVE  /\ Divided(x) \in Int
             /\ c.size * Divided(x) <= x /\ x < c.size * Divided(x) + c.size
  BY QuotientIs
<1>1. CASE a < -c.size
  <2> DEFINE q == Divided(node.vehicle + c.size)
  <2>1. q \in Int /\ c.size * q <= node.vehicle + c.size /\ node.vehicle + c.size < c.size * q + c.size
    <3> HIDE DEF Divided
    <3>1. node.vehicle + c.size \in Int
      OBVIOUS
    <3>2. QED
      BY <1>d, <3>1
  <2>2. RolledShift(c, node) = q
    BY <1>1 DEF RolledShift
  <2> HIDE DEF q
  <2>3. b = node.vehicle - c.size * q /\ c.size * q \in Int
    BY <2>1, <2>2
  <2>4. QED
    BY <1>0, <1>1, <2>1, <2>2, <2>3
<1>2. CASE a > c.size
  <2> DEFINE q == Divided(c.size - node.vehicle)
  <2>1. q \in Int /\ c.size * q <= c.size - node.vehicle /\ c.size - node.vehicle < c.size * q + c.size
    <3> HIDE DEF Divided
    <3>1. c.size - node.vehicle \in Int
      OBVIOUS
    <3>2. QED
      BY <1>d, <3>1
  <2>2. RolledShift(c, node) = -q
    BY <1>2 DEF RolledShift
  <2> HIDE DEF q
  <2>3. c.size * (-q) = -(c.size * q) /\ c.size * q \in Int
    BY <2>1
  <2>4. b = node.vehicle + c.size * q
    BY <2>1, <2>2, <2>3
  <2>5. QED
    BY <1>0, <1>2, <2>1, <2>2, <2>3, <2>4
<1>3. CASE ~(a < -c.size) /\ ~(a > c.size)
  <2>1. RolledShift(c, node) = node.shift
    BY <1>3 DEF RolledShift
  <2>2. QED
    BY <1>0, <1>3, <2>1
<1>4. QED
  BY <1>1, <1>2, <1>3

MeanTime(points, r) ==
  LET times == {p.time : p \in {x \in points : x.at = r.at /\ x.z = r.z}}
  IN  SumSet(times) \div Cardinality(times)

MeanPoint(points, r) == [at |-> r.at, z |-> r.z, time |-> MeanTime(points, r)]

LEMMA DownsampledIs ==
  ASSUME NEW points
  PROVE  Downsampled(points) = {MeanPoint(points, r) : r \in points}
  BY DEF Downsampled, MeanPoint, MeanTime

LEMMA MeanOfPair ==
  ASSUME NEW x \in Int, NEW y \in Int, NEW m, m = SumSet({x, y}) \div Cardinality({x, y})
  PROVE  m \in Int /\ 2 * m <= x + y /\ x + y <= 2 * m + 1
<1>1. CASE x = y
  <2>1. {x, y} = {x}
    BY <1>1
  <2>2. Cardinality({x}) = 1
    BY FS_Singleton
  <2>3. SumSet({x, y}) = x
    BY <1>1, SumOfPair
  <2>4. m = x \div 1
    BY <2>1, <2>2, <2>3
  <2>5. m = x
    BY <2>4
  <2>6. QED
    BY <1>1, <2>5
<1>2. CASE x # y
  <2>1. Cardinality({x, y}) = 2
    <3>1. IsFiniteSet({x}) /\ Cardinality({x}) = 1
      BY FS_Singleton
    <3>2. Cardinality({x} \cup {y}) = Cardinality({x}) + 1
      BY <1>2, <3>1, FS_AddElement
    <3>3. {x} \cup {y} = {x, y}
      OBVIOUS
    <3>4. QED
      BY <3>1, <3>2, <3>3
  <2>2. SumSet({x, y}) = x + y
    BY <1>2, SumOfPair
  <2>3. m = (x + y) \div 2
    BY <2>1, <2>2
  <2>4. QED
    BY <2>3
<1>3. QED
  BY <1>1, <1>2

(* The mean of the times of a place, of which a voxel has one point from    *)
(* its memory V and others from the last scan N.                           *)
LEMMA MeanIs ==
  ASSUME NEW V \in SUBSET TimedPoint, NEW N \in SUBSET TimedPoint, NEW t \in Int,
         OnePerPlace(V), \A p \in N : p.time = t,
         NEW r \in V \cup N, NEW m, m = MeanTime(V \cup N, r)
  PROVE  /\ m \in Int
         /\ \E y \in Int : /\ 2 * m <= r.time + y /\ r.time + y <= 2 * m + 1
                           /\ \/ y = r.time
                              \/ y = t
                              \/ r \in N /\ \E p \in V : SamePlace(p, r) /\ y = p.time
<1> DEFINE Here == {x \in V \cup N : x.at = r.at /\ x.z = r.z}
<1> DEFINE T == {p.time : p \in Here}
<1>1. m = SumSet(T) \div Cardinality(T)
  BY DEF MeanTime
<1>2. \A p \in V \cup N : p.time \in Int
  BY DEF TimedPoint
<1>3. r \in Here
  OBVIOUS
<1>4. ASSUME NEW x \in Int, NEW y \in Int, T = {x, y}
      PROVE  m \in Int /\ 2 * m <= x + y /\ x + y <= 2 * m + 1
  <2> HIDE DEF T
  <2>1. m = SumSet({x, y}) \div Cardinality({x, y})
    BY <1>1, <1>4
  <2>2. QED
    BY <2>1, MeanOfPair
<1>5. CASE \E v \in V : SamePlace(v, r)
  <2>1. PICK v \in V : SamePlace(v, r)
    BY <1>5
  <2>2. \A p \in Here : p \in V => p = v
    BY <2>1 DEF SamePlace, OnePerPlace
  <2>3. v \in Here
    BY <2>1 DEF SamePlace
  <2>4. CASE \E n \in N : n \in Here
    <3>1. PICK n \in N : n \in Here
      BY <2>4
    <3>2. \A p \in Here : p.time = v.time \/ p.time = t
      BY <2>2
    <3>3. n.time = t /\ v.time \in Int
      BY <3>1, <1>2
    <3>4. v.time \in T /\ t \in T
      BY <2>3, <3>1, <3>3
    <3>5. T = {v.time, t}
      BY <3>2, <3>4
    <3>6. m \in Int /\ 2 * m <= v.time + t /\ v.time + t <= 2 * m + 1
      BY <1>4, <3>3, <3>5
    <3>7. CASE r \in V
      <4>1. r = v
        BY <1>3, <2>2, <3>7
      <4>2. QED
        BY <3>6, <4>1
    <3>8. CASE r \in N
      <4>1. r.time = t
        BY <3>8
      <4>2. t + v.time = v.time + t
        BY <3>3
      <4>3. QED
        BY <2>1, <3>3, <3>6, <3>8, <4>1, <4>2
    <3>9. QED
      BY <3>7, <3>8
  <2>5. CASE \A n \in N : n \notin Here
    <3>1. r = v /\ \A p \in Here : p = v
      BY <1>3, <2>2, <2>5
    <3>2. T = {v.time, v.time}
      BY <2>3, <3>1
    <3>3. v.time \in Int
      BY <1>2
    <3>4. m \in Int /\ 2 * m <= v.time + v.time /\ v.time + v.time <= 2 * m + 1
      BY <1>4, <3>2, <3>3
    <3>5. QED
      BY <3>1, <3>3, <3>4
  <2>6. QED
    BY <2>4, <2>5
<1>6. CASE \A v \in V : ~SamePlace(v, r)
  <2>1. \A p \in Here : p \in N
    BY <1>6 DEF SamePlace
  <2>2. \A p \in Here : p.time = t
    BY <2>1
  <2>3. T = {t, t} /\ r.time = t
    BY <1>3, <2>2
  <2>4. m \in Int /\ 2 * m <= t + t /\ t + t <= 2 * m + 1
    BY <1>4, <2>3
  <2>5. QED
    BY <2>3, <2>4
<1>7. QED
  BY <1>5, <1>6

(* Whether a point is admitted depends on its place only.                  *)
LEMMA AdmittedByPlace ==
  ASSUME NEW c, NEW node, NEW p, NEW q, SamePlace(p, q), Admitted(c, node, p)
  PROVE  Admitted(c, node, q)
  BY DEF SamePlace, Admitted, InBand, Dis

(* A voxel after its points became means and were filtered.                *)
LEMMA FilteredIs ==
  ASSUME NEW c, NEW node, NEW V \in SUBSET TimedPoint, NEW N \in SUBSET TimedPoint,
         c.noDecayDis = 0, c.decayTime \in Nat, node.vehicle \in Int, node.time \in Int,
         OnePerPlace(V), \A p \in N : p.time = node.time
  PROVE  /\ Filtered(c, node, V \cup N) \subseteq TimedPoint
         /\ OnePerPlace(Filtered(c, node, V \cup N))
         /\ \A p \in Filtered(c, node, V \cup N) : node.time - p.time < c.decayTime
         /\ \A r \in V \cup N :
              Admitted(c, node, r) /\ node.time - MeanTime(V \cup N, r) < c.decayTime =>
                MeanPoint(V \cup N, r) \in Filtered(c, node, V \cup N)
<1> DEFINE D == Downsampled(V \cup N)
<1> DEFINE F == Filtered(c, node, V \cup N)
<1>1. D = {MeanPoint(V \cup N, r) : r \in V \cup N}
  BY DownsampledIs
<1>2. \A r \in V \cup N : MeanPoint(V \cup N, r) \in TimedPoint /\ SamePlace(MeanPoint(V \cup N, r), r)
  <2> TAKE r \in V \cup N
  <2>1. MeanTime(V \cup N, r) \in Int
    BY MeanIs
  <2>2. r.at \in Int /\ r.z \in Int
    BY DEF TimedPoint
  <2>3. QED
    BY <2>1, <2>2 DEF MeanPoint, TimedPoint, SamePlace
<1>3. D \subseteq TimedPoint
  BY <1>1, <1>2
<1>4. OnePerPlace(D)
  <2> SUFFICES ASSUME NEW r1 \in V \cup N, NEW r2 \in V \cup N,
                      SamePlace(MeanPoint(V \cup N, r1), MeanPoint(V \cup N, r2))
               PROVE  MeanPoint(V \cup N, r1) = MeanPoint(V \cup N, r2)
    BY <1>1 DEF OnePerPlace
  <2>1. r1.at = r2.at /\ r1.z = r2.z
    BY <1>2 DEF SamePlace, MeanPoint
  <2>2. QED
    BY <2>1 DEF MeanPoint, MeanTime
<1>5. \A p \in D : ~(Dis(p, node.vehicle) < c.noDecayDis)
  <2> TAKE p \in D
  <2>1. p.at \in Int
    BY <1>3 DEF TimedPoint
  <2>2. QED
    BY <2>1 DEF Dis, Abs
<1>6. F = {p \in D : Admitted(c, node, p) /\ node.time - p.time < c.decayTime}
  <2> HIDE DEF D
  <2>1. F = {p \in D : /\ Admitted(c, node, p)
                       /\ node.time - p.time < c.decayTime \/ Dis(p, node.vehicle) < c.noDecayDis}
    BY DEF Filtered, D
  <2>2. QED
    BY <1>5, <2>1
<1>7. \A r \in V \cup N : Admitted(c, node, r) => Admitted(c, node, MeanPoint(V \cup N, r))
  <2> TAKE r \in V \cup N
  <2>1. SamePlace(r, MeanPoint(V \cup N, r))
    BY DEF SamePlace, MeanPoint
  <2>2. QED
    BY <2>1, AdmittedByPlace
<1>8. \A r \in V \cup N : MeanPoint(V \cup N, r).time = MeanTime(V \cup N, r)
  BY DEF MeanPoint
<1> HIDE DEF D, F
<1>9. F \subseteq TimedPoint /\ OnePerPlace(F)
  BY <1>3, <1>4, <1>6 DEF OnePerPlace
<1>10. \A r \in V \cup N : Admitted(c, node, r) /\ node.time - MeanTime(V \cup N, r) < c.decayTime =>
          MeanPoint(V \cup N, r) \in F
  BY <1>1, <1>6, <1>7, <1>8
<1>11. \A p \in F : node.time - p.time < c.decayTime
  BY <1>6
<1>12. QED
  BY <1>9, <1>10, <1>11 DEF F

LEMMA ParametersAre ==
  ASSUME NEW c \in {Local, Ext}
  PROVE  /\ c.size \in Nat \ {0} /\ c.decayTime \in Nat \ {0} /\ c.noDecayDis = 0
         /\ c.gather \in Nat /\ c.half \in Nat /\ c.gather <= c.half
  BY TerrainAssumption

RememberedIn(c, node, i) == Rolled(c, node)[i]
ArrivedIn(c, node, i) == {p \in node.crop : Index(c.size, c.half, p.at, node.vehicle) = i}
Voxel(c, node, i) == Filtered(c, node, RememberedIn(c, node, i) \cup ArrivedIn(c, node, i))

\* A voxel takes over what was `by` voxels further.
LEMMA RememberedIs ==
  ASSUME NEW c \in {Local, Ext}, NEW node \in Node(c), GridHolds(c, node),
         NEW i \in 0..2 * c.half
  PROVE  /\ RememberedIn(c, node, i) \in SUBSET TimedPoint
         /\ OnePerPlace(RememberedIn(c, node, i))
         /\ \A p \in RememberedIn(c, node, i) : node.processed - p.time < c.decayTime
         /\ i + (RolledShift(c, node) - node.shift) \in 0..2 * c.half =>
              RememberedIn(c, node, i) = node.voxels[i + (RolledShift(c, node) - node.shift)]
<1> DEFINE j == i + (RolledShift(c, node) - node.shift)
<1>1. RememberedIn(c, node, i) = IF j \in 0..2 * c.half THEN node.voxels[j] ELSE {}
  BY DEF RememberedIn, Rolled
<1>2. node.voxels \in [0..2 * c.half -> SUBSET TimedPoint]
  BY DEF Node
<1> HIDE DEF j
<1>3. CASE j \in 0..2 * c.half
  <2>1. RememberedIn(c, node, i) = node.voxels[j] /\ node.voxels[j] \in SUBSET TimedPoint
    BY <1>1, <1>2, <1>3
  <2>2. OnePerPlace(node.voxels[j]) /\ \A p \in node.voxels[j] : node.processed - p.time < c.decayTime
    BY <1>3 DEF GridHolds
  <2>3. QED
    BY <2>1, <2>2 DEF j
<1>4. CASE j \notin 0..2 * c.half
  <2>1. RememberedIn(c, node, i) = {}
    BY <1>1, <1>4
  <2>2. QED
    BY <2>1, <1>4 DEF OnePerPlace, j
<1>5. QED
  BY <1>3, <1>4

(* A cloud sets these fields of a node and no other.                       *)
UpdatedTo(c, node, u) ==
  /\ u.shift = RolledShift(c, node)
  /\ u.voxels = [i \in 0..2 * c.half |-> Voxel(c, node, i)]
  /\ u.terrainCloud = UNION {Voxel(c, node, i) : i \in c.half - c.gather..c.half + c.gather}
  /\ u.at = node.vehicle /\ u.moved = Abs(node.vehicle - node.at)
  /\ u.processed = node.time /\ u.gap = node.time - node.processed /\ u.gapBefore = node.gap
  /\ u.seen = {p \in node.crop : Admitted(c, node, p)}
  /\ u.before = {p \in node.seen : Admitted(c, node, p)}
  /\ u.crop = node.crop /\ u.time = node.time
  /\ /\ RolledShift(c, node) \in Int
     /\ \A i \in 0..2 * c.half : Voxel(c, node, i) \subseteq TimedPoint
     => u \in Node(c)

LEMMA UpdatedFields ==
  ASSUME NEW c \in {Local, Ext}, NEW node \in Node(c), NEW u, u = Updated(c, node)
  PROVE  UpdatedTo(c, node, u)
<1> DEFINE stacked == Stacked(c, node, Rolled(c, node))
<1> DEFINE voxels == [i \in 0..2 * c.half |-> Filtered(c, node, stacked[i])]
<1>1. \A i \in 0..2 * c.half : voxels[i] = Voxel(c, node, i)
  BY DEF Stacked, Voxel, RememberedIn, ArrivedIn
<1>2. voxels = [i \in 0..2 * c.half |-> Voxel(c, node, i)]
  BY <1>1
<1>3. c.half - c.gather..c.half + c.gather \subseteq 0..2 * c.half
  BY ParametersAre
<1>4. Gathered(c, voxels) = UNION {Voxel(c, node, i) : i \in c.half - c.gather..c.half + c.gather}
  <2> HIDE DEF voxels
  <2>1. {voxels[i] : i \in c.half - c.gather..c.half + c.gather}
          = {Voxel(c, node, i) : i \in c.half - c.gather..c.half + c.gather}
    BY <1>1, <1>3
  <2>2. QED
    BY <2>1 DEF Gathered
<1>5. u = [node EXCEPT !.shift = RolledShift(c, node), !.voxels = voxels,
                       !.newlaserCloud = FALSE, !.terrainCloud = Gathered(c, voxels),
                       !.at = node.vehicle, !.moved = Abs(node.vehicle - node.at),
                       !.processed = node.time, !.gap = node.time - node.processed,
                       !.gapBefore = node.gap,
                       !.seen = {p \in node.crop : Admitted(c, node, p)},
                       !.before = {p \in node.seen : Admitted(c, node, p)}]
  BY DEF Updated
<1> HIDE DEF voxels
<1>6. ASSUME RolledShift(c, node) \in Int,
             \A i \in 0..2 * c.half : Voxel(c, node, i) \subseteq TimedPoint
      PROVE  u \in Node(c)
  <2>1. voxels \in [0..2 * c.half -> SUBSET TimedPoint]
    BY <1>2, <1>6
  <2>2. Gathered(c, voxels) \in SUBSET TimedPoint
    BY <1>3, <1>4, <1>6
  <2>3. /\ node.vehicle \in Int /\ node.at \in Int /\ node.time \in Int
        /\ node.processed \in Int /\ node.gap \in Int
        /\ node.crop \in SUBSET TimedPoint /\ node.seen \in SUBSET TimedPoint
    BY DEF Node
  <2>4. Abs(node.vehicle - node.at) \in Int /\ node.time - node.processed \in Int
    BY <2>3 DEF Abs
  <2>5. {p \in node.crop : Admitted(c, node, p)} \in SUBSET TimedPoint
    BY <2>3
  <2>6. {p \in node.seen : Admitted(c, node, p)} \in SUBSET TimedPoint
    BY <2>3
  <2>7. u = [vehicle |-> node.vehicle, clearingDis |-> node.clearingDis,
             shift |-> RolledShift(c, node), voxels |-> voxels, crop |-> node.crop,
             time |-> node.time, newlaserCloud |-> FALSE, terrainCloud |-> Gathered(c, voxels),
             seen |-> {p \in node.crop : Admitted(c, node, p)},
             before |-> {p \in node.seen : Admitted(c, node, p)}, at |-> node.vehicle,
             moved |-> Abs(node.vehicle - node.at), processed |-> node.time,
             gap |-> node.time - node.processed, gapBefore |-> node.gap, map |-> node.map]
    BY <1>5 DEF Node
  <2>8. node.clearingDis \in ClearingDis /\ node.map \in SUBSET PlaceOf
    BY DEF Node
  <2>9. QED
    BY <1>6, <2>1, <2>2, <2>3, <2>4, <2>5, <2>6, <2>7, <2>8 DEF Node
<1>7. QED
  BY <1>2, <1>4, <1>5, <1>6 DEF Node, UpdatedTo

(* How old the mean is for a scan at the time t, g after the last one: what *)
(* has just been seen is at most as old as half of what its memory may be, *)
(* and a memory that is younger than h lets it stay.                       *)
AgesAre(V, N, t, last, r, m, D) ==
  /\ m \in Int
  /\ r \in N => 2 * (t - m) <= (t - last) + D
  /\ \A h \in Int :
       r \in V /\ 2 * (last - r.time) <= h + D /\ 2 * (t - last) + h < D => t - m < D

YoungerThan(points, t, D) == \A p \in points : t - p.time < D

LEMMA MeanAges ==
  ASSUME NEW V \in SUBSET TimedPoint, NEW N \in SUBSET TimedPoint, NEW t \in Int,
         OnePerPlace(V), \A p \in N : p.time = t,
         NEW r \in V \cup N, NEW m, m = MeanTime(V \cup N, r),
         NEW D \in Nat \ {0}, NEW last \in Int, last <= t, YoungerThan(V, last, D)
  PROVE  AgesAre(V, N, t, last, r, m, D)
<1>1. /\ m \in Int
      /\ \E y \in Int : /\ 2 * m <= r.time + y /\ r.time + y <= 2 * m + 1
                        /\ \/ y = r.time
                           \/ y = t
                           \/ r \in N /\ \E p \in V : SamePlace(p, r) /\ y = p.time
  BY MeanIs
<1>2. PICK y \in Int : /\ r.time + y <= 2 * m + 1
                       /\ \/ y = r.time
                          \/ y = t
                          \/ r \in N /\ \E p \in V : SamePlace(p, r) /\ y = p.time
  BY <1>1
<1>3. r.time \in Int
  BY DEF TimedPoint
<1>4. ASSUME r \in N
      PROVE  2 * (t - m) <= (t - last) + D
  <2>1. r.time = t
    BY <1>4
  <2>2. last - y < D
    BY <1>2, <2>1 DEF YoungerThan
  <2>3. QED
    BY <1>1, <1>2, <2>1, <2>2
<1>5. ASSUME NEW h \in Int, r \in V, 2 * (last - r.time) <= h + D, 2 * (t - last) + h < D
      PROVE  t - m < D
  <2>1. CASE y = r.time \/ y = t
    BY <1>1, <1>2, <1>3, <1>5, <2>1
  <2>2. CASE \E p \in V : SamePlace(p, r) /\ y = p.time
    <3>1. y = r.time
      BY <1>5, <2>2 DEF OnePerPlace
    <3>2. QED
      BY <2>1, <3>1
  <2>3. QED
    BY <1>2, <2>1, <2>2
<1>6. QED
  BY <1>1, <1>4, <1>5 DEF AgesAre

(* The points of a voxel are its memory and what arrives.                  *)
LEMMA VoxelIs ==
  ASSUME NEW c \in {Local, Ext}, NEW node \in Node(c), GridHolds(c, node), TimesAre(node),
         NEW i \in 0..2 * c.half, NEW V, V = RememberedIn(c, node, i),
         NEW N, N = ArrivedIn(c, node, i), NEW g, g = node.time - node.processed
  PROVE  /\ Voxel(c, node, i) \subseteq TimedPoint /\ OnePerPlace(Voxel(c, node, i))
         /\ \A p \in Voxel(c, node, i) : node.time - p.time < c.decayTime
         /\ \A r \in V \cup N :
              /\ MeanTime(V \cup N, r) \in Int
              /\ Admitted(c, node, r) /\ node.time - MeanTime(V \cup N, r) < c.decayTime =>
                   MeanPoint(V \cup N, r) \in Voxel(c, node, i)
              /\ r \in N => 2 * (node.time - MeanTime(V \cup N, r)) <= g + c.decayTime
              /\ /\ r \in V /\ 2 * (node.processed - r.time) <= node.gap + c.decayTime
                 /\ 2 * g + node.gap < c.decayTime
                 => node.time - MeanTime(V \cup N, r) < c.decayTime
<1>1. /\ V \in SUBSET TimedPoint /\ OnePerPlace(V)
      /\ \A p \in V : node.processed - p.time < c.decayTime
  BY RememberedIs
<1>2. N \in SUBSET TimedPoint /\ \A p \in N : p.time = node.time
  BY DEF Node, TimesAre, ArrivedIn
<1>3. /\ node.time \in Int /\ node.processed \in Int /\ node.processed <= node.time
      /\ node.gap \in Int /\ node.vehicle \in Int
  BY DEF Node, TimesAre
<1>4. c.decayTime \in Nat \ {0} /\ c.noDecayDis = 0
  BY ParametersAre
<1>5. Voxel(c, node, i) = Filtered(c, node, V \cup N)
  BY DEF Voxel
<1>6. g \in Nat /\ node.time - g = node.processed
  BY <1>3
<1>7. /\ Filtered(c, node, V \cup N) \subseteq TimedPoint
      /\ OnePerPlace(Filtered(c, node, V \cup N))
      /\ \A p \in Filtered(c, node, V \cup N) : node.time - p.time < c.decayTime
      /\ \A r \in V \cup N :
           Admitted(c, node, r) /\ node.time - MeanTime(V \cup N, r) < c.decayTime =>
             MeanPoint(V \cup N, r) \in Filtered(c, node, V \cup N)
  BY <1>1, <1>2, <1>3, <1>4, FilteredIs
<1>8. ASSUME NEW r \in V \cup N
      PROVE  /\ MeanTime(V \cup N, r) \in Int
             /\ r \in N => 2 * (node.time - MeanTime(V \cup N, r)) <= g + c.decayTime
             /\ \A h \in Int :
                  r \in V /\ 2 * (node.processed - r.time) <= h + c.decayTime
                    /\ 2 * g + h < c.decayTime => node.time - MeanTime(V \cup N, r) < c.decayTime
  <2> DEFINE m == MeanTime(V \cup N, r)
  <2>1. YoungerThan(V, node.processed, c.decayTime)
    BY <1>1 DEF YoungerThan
  <2>2. AgesAre(V, N, node.time, node.processed, r, m, c.decayTime)
    BY <1>1, <1>2, <1>3, <1>4, <2>1, MeanAges
  <2> HIDE DEF m
  <2>3. QED
    BY <1>6, <2>2 DEF AgesAre, m
<1>9. QED
  BY <1>3, <1>5, <1>6, <1>7, <1>8

LEMMA ProductsOrder ==
  ASSUME NEW s \in Nat \ {0}, NEW k \in Int, NEW g \in Int,
         NEW sk, sk = s * k, NEW sg, sg = s * (g - 1)
  PROVE  /\ sk \in Int /\ sg \in Int
         /\ sk < sg + 2 * s => k <= g
         /\ -sg - 2 * s < sk => -g <= k
<1>1. sk \in Int /\ sg \in Int /\ sg = s * g - s /\ s * g \in Int
  OBVIOUS
<1>2. ASSUME k >= g + 1
      PROVE  sk >= sg + 2 * s
  <2>1. PICK n \in Nat : k = g + 1 + n
    <3>1. k = g + 1 + (k - (g + 1)) /\ k - (g + 1) \in Nat
      BY <1>2
    <3>2. QED
      BY <3>1
  <2>2. s * (g + 1 + n) = s * g + s + s * n /\ s * n \in Nat
    OBVIOUS
  <2>3. QED
    BY <1>1, <2>1, <2>2
<1>3. ASSUME k <= -g - 1
      PROVE  sk <= -sg - 2 * s
  <2>1. PICK n \in Nat : k = -g - 1 - n
    <3>1. k = -g - 1 - (-g - 1 - k) /\ -g - 1 - k \in Nat
      BY <1>3
    <3>2. QED
      BY <3>1
  <2>2. s * (-g - 1 - n) = -(s * g) - s - s * n /\ s * n \in Nat
    OBVIOUS
  <2>3. QED
    BY <1>1, <2>1, <2>2
<1>4. QED
  BY <1>1, <1>2, <1>3

LEMMA NearIndex ==
  ASSUME NEW c \in {Local, Ext}, NEW at \in Int, NEW vehicle \in Int,
         Abs(at - vehicle) <= c.size * (c.gather - 1)
  PROVE  Index(c.size, c.half, at, vehicle) \in c.half - c.gather..c.half + c.gather
<1> DEFINE k == Index(c.size, c.half, at, vehicle) - c.half
<1> DEFINE d == at - vehicle
<1> DEFINE s == c.size
<1> DEFINE sk == s * k
<1> DEFINE sg == s * (c.gather - 1)
<1>1. s \in Nat \ {0} /\ c.half \in Int /\ c.gather \in Int
  BY ParametersAre
<1>2. /\ k \in Int /\ Index(c.size, c.half, at, vehicle) = c.half + k
      /\ 2 * sk - s <= 2 * d /\ 2 * d <= 2 * sk + s
  <2>1. IndexFits(c.size, c.half, at, vehicle, k)
    BY <1>1, IndexIs
  <2>2. QED
    BY <2>1 DEF IndexFits
<1>3. d \in Int /\ -sg <= d /\ d <= sg
  <2>1. d \in Int /\ sg \in Int
    BY <1>1
  <2>2. QED
    BY <2>1 DEF Abs
<1> HIDE DEF d, k, s
<1>4. /\ sk \in Int /\ sg \in Int
      /\ sk < sg + 2 * s => k <= c.gather
      /\ -sg - 2 * s < sk => -c.gather <= k
  BY <1>1, <1>2, ProductsOrder
<1> HIDE DEF sk, sg
<1>5. sk < sg + 2 * s /\ -sg - 2 * s < sk
  BY <1>1, <1>2, <1>3, <1>4
<1>6. QED
  BY <1>1, <1>2, <1>4, <1>5

\* A voxel that comes near holds its points when the vehicle moved by less than
\* a voxel and a half: the grid rolls by as much as the voxels are off.
LEMMA RolledIndex ==
  ASSUME NEW c \in {Local, Ext}, NEW node \in Node(c), GridHolds(c, node),
         NEW at \in Int, Abs(at - node.vehicle) <= c.size * (c.gather - 1),
         2 * Abs(node.vehicle - node.at) < 3 * c.size,
         NEW by, by = RolledShift(c, node) - node.shift,
         NEW old, old = Index(c.size, c.half, at, node.at)
  PROVE  /\ old \in 0..2 * c.half
         /\ old - by \in c.half - c.gather..c.half + c.gather
         /\ by \in Int
<1> DEFINE s == c.size
<1> DEFINE k == old - c.half
<1> DEFINE sk == s * k
<1> DEFINE sg == s * (c.gather - 1)
<1> DEFINE d == at - node.vehicle
<1> DEFINE delta == node.vehicle - node.at
<1> DEFINE a == node.at - s * node.shift
<1> DEFINE a1 == node.vehicle - s * node.shift
<1> DEFINE b == node.vehicle - s * RolledShift(c, node)
<1>1. /\ s \in Nat \ {0} /\ c.half \in Nat /\ c.gather \in Nat /\ c.gather <= c.half
      /\ node.at \in Int /\ node.vehicle \in Int /\ node.shift \in Int
  BY ParametersAre DEF Node
<1>2. /\ k \in Int /\ old = c.half + k
      /\ 2 * sk - s <= 2 * (at - node.at) /\ 2 * (at - node.at) <= 2 * sk + s
  <2>1. IndexFits(c.size, c.half, at, node.at, k)
    <3>1. k = Index(c.size, c.half, at, node.at) - c.half
      OBVIOUS
    <3>2. c.size \in Nat \ {0} /\ c.half \in Int /\ node.at \in Int
      BY <1>1
    <3> HIDE DEF k
    <3>3. QED
      BY <3>1, <3>2, IndexIs
  <2>2. QED
    BY <2>1 DEF IndexFits
<1>3. d \in Int /\ delta \in Int /\ at - node.at = d + delta
  BY <1>1
<1>4. -sg <= d /\ d <= sg
  <2>1. d \in Int /\ sg \in Int
    BY <1>1
  <2>2. QED
    BY <2>1 DEF Abs
<1>5. -(3 * s) < 2 * delta /\ 2 * delta < 3 * s
  BY <1>1, <1>3 DEF Abs
<1>6. /\ RolledShift(c, node) \in Int /\ a1 \in Int /\ b \in Int
      /\ \/ a1 < -s /\ -s <= b /\ b < 0
         \/ a1 > s /\ 0 < b /\ b <= s
         \/ -s <= a1 /\ a1 <= s /\ b = a1
  BY <1>1, RollIs
<1>7. a \in Int /\ -s <= a /\ a <= s /\ a1 = a + delta
  <2>1. s * node.shift \in Int
    BY <1>1
  <2>2. QED
    BY <1>1, <2>1 DEF GridHolds
<1>8. s * (k - by) = sk - (a - b + delta) /\ by \in Int /\ k - by \in Int
  <2>1. by \in Int
    BY <1>1, <1>6
  <2>2. s * (k - by) = s * k - (s * RolledShift(c, node) - s * node.shift)
    <3> HIDE DEF k, s
    <3>1. s * (k - by) = s * k - s * by
      BY <1>1, <1>2, <2>1
    <3>2. s * by = s * RolledShift(c, node) - s * node.shift
      BY <1>1, <1>6
    <3>3. s * k \in Int /\ s * by \in Int
      BY <1>1, <1>2, <2>1
    <3>4. QED
      BY <3>1, <3>2
  <2>3. s * RolledShift(c, node) \in Int /\ s * node.shift \in Int /\ s * k \in Int
    BY <1>1, <1>2, <1>6
  <2>4. QED
    BY <1>1, <1>2, <2>1, <2>2, <2>3
<1>9. /\ sk \in Int /\ sg \in Int
      /\ sk < sg + 2 * s => k <= c.gather
      /\ -sg - 2 * s < sk => -c.gather <= k
  BY <1>1, <1>2, ProductsOrder
<1> DEFINE sn == s * (k - by)
<1>10. /\ sn \in Int
       /\ sn < sg + 2 * s => k - by <= c.gather
       /\ -sg - 2 * s < sn => -c.gather <= k - by
  BY <1>1, <1>2, <1>8, ProductsOrder
<1>11. sn = sk - (a - b + delta)
  BY <1>8
<1> HIDE DEF s, k, sk, sg, d, delta, a, a1, b, sn
<1>12. -(3 * s) < 2 * (b - a) /\ 2 * (b - a) < 3 * s
  BY <1>1, <1>3, <1>5, <1>6, <1>7
<1>13. 2 * sk - s <= 2 * (d + delta) /\ 2 * (d + delta) <= 2 * sk + s
  BY <1>2, <1>3
<1>14. sk < sg + 2 * s /\ -sg - 2 * s < sk
  BY <1>1, <1>3, <1>4, <1>5, <1>9, <1>13
<1>15. sn < sg + 2 * s /\ -sg - 2 * s < sn
  BY <1>1, <1>3, <1>4, <1>6, <1>7, <1>9, <1>10, <1>11, <1>12, <1>13
<1>16. -c.gather <= k /\ k <= c.gather /\ -c.gather <= k - by /\ k - by <= c.gather
  BY <1>9, <1>10, <1>14, <1>15
<1>17. old - by = c.half + (k - by)
  BY <1>1, <1>2, <1>8
<1>18. QED
  BY <1>1, <1>2, <1>8, <1>16, <1>17

(* A cloud that is processed leaves the grid as it must be, and the near   *)
(* terrain in terrainCloud.                                                *)
LEMMA UpdatedHolds ==
  ASSUME NEW c \in {Local, Ext}, NEW node, NodeHolds(c, node),
         NEW u, u = Updated(c, node)
  PROVE  NodeHolds(c, u)
<1> DEFINE by == RolledShift(c, node) - node.shift
<1> DEFINE V(i) == RememberedIn(c, node, i)
<1> DEFINE N(i) == ArrivedIn(c, node, i)
<1> DEFINE Near(at) == Abs(at - node.vehicle) <= c.size * (c.gather - 1)
<1>0. node \in Node(c) /\ GridHolds(c, node) /\ SeenIsStored(c, node) /\ TimesAre(node)
  BY DEF NodeHolds
<1>1. /\ node.vehicle \in Int /\ node.shift \in Int /\ node.time \in Int
      /\ node.processed \in Int /\ node.at \in Int /\ node.gap \in Int
      /\ node.crop \in SUBSET TimedPoint /\ node.seen \in SUBSET TimedPoint
  BY <1>0 DEF Node
<1>2. /\ c.size \in Nat \ {0} /\ c.decayTime \in Nat \ {0} /\ c.half \in Nat /\ c.gather \in Nat
      /\ c.half - c.gather..c.half + c.gather \subseteq 0..2 * c.half
  BY ParametersAre
<1>3. /\ u.shift = RolledShift(c, node)
      /\ u.voxels = [i \in 0..2 * c.half |-> Voxel(c, node, i)]
      /\ u.terrainCloud = UNION {Voxel(c, node, i) : i \in c.half - c.gather..c.half + c.gather}
      /\ u.at = node.vehicle /\ u.moved = Abs(node.vehicle - node.at)
      /\ u.processed = node.time /\ u.gap = node.time - node.processed
      /\ u.gapBefore = node.gap
      /\ u.seen = {p \in node.crop : Admitted(c, node, p)}
      /\ u.before = {p \in node.seen : Admitted(c, node, p)}
      /\ u.crop = node.crop /\ u.time = node.time
      /\ /\ RolledShift(c, node) \in Int
         /\ \A i \in 0..2 * c.half : Voxel(c, node, i) \subseteq TimedPoint
         => u \in Node(c)
  <2>1. UpdatedTo(c, node, u)
    BY <1>0, UpdatedFields
  <2>2. QED
    BY <2>1 DEF UpdatedTo
<1>4. ASSUME NEW i \in 0..2 * c.half
      PROVE  /\ Voxel(c, node, i) \subseteq TimedPoint /\ OnePerPlace(Voxel(c, node, i))
             /\ \A p \in Voxel(c, node, i) : node.time - p.time < c.decayTime
             /\ \A r \in V(i) \cup N(i) :
                  /\ MeanTime(V(i) \cup N(i), r) \in Int
                  /\ Admitted(c, node, r) /\ node.time - MeanTime(V(i) \cup N(i), r) < c.decayTime =>
                       MeanPoint(V(i) \cup N(i), r) \in Voxel(c, node, i)
                  /\ r \in N(i) =>
                       2 * (node.time - MeanTime(V(i) \cup N(i), r)) <= u.gap + c.decayTime
                  /\ /\ r \in V(i) /\ 2 * (node.processed - r.time) <= node.gap + c.decayTime
                     /\ 2 * u.gap + node.gap < c.decayTime
                     => node.time - MeanTime(V(i) \cup N(i), r) < c.decayTime
  BY <1>0, <1>3, VoxelIs
<1>5. RolledShift(c, node) \in Int /\ by \in Int
  BY <1>1, <1>2, RollIs
<1>6. u \in Node(c)
  BY <1>3, <1>4, <1>5
<1>7. GridHolds(c, u)
  <2>1. /\ -c.size <= node.vehicle - c.size * RolledShift(c, node)
        /\ node.vehicle - c.size * RolledShift(c, node) <= c.size
    BY <1>1, <1>2, RollIs
  <2>2. QED
    BY <1>3, <1>4, <2>1 DEF GridHolds
<1>8. TimesAre(u)
  BY <1>0, <1>1, <1>3 DEF TimesAre
\* What is seen is stored, as long as it is not too old.
<1>9. ASSUME NEW p \in u.seen, u.gap < c.decayTime,
             NEW i, i = Index(c.size, c.half, p.at, node.vehicle), i \in 0..2 * c.half
      PROVE  \E q \in Voxel(c, node, i) :
               SamePlace(p, q) /\ 2 * (node.time - q.time) <= u.gap + c.decayTime
  <2>1. p \in N(i) /\ Admitted(c, node, p)
    BY <1>3, <1>9 DEF ArrivedIn
  <2> DEFINE m == MeanTime(V(i) \cup N(i), p)
  <2> DEFINE q == MeanPoint(V(i) \cup N(i), p)
  <2>2. m \in Int /\ 2 * (node.time - m) <= u.gap + c.decayTime
    BY <1>4, <1>9, <2>1
  <2>3. u.gap \in Int
    BY <1>1, <1>3
  <2>4. node.time - m < c.decayTime
    <3> HIDE DEF m
    <3>1. QED
      BY <1>1, <1>2, <1>9, <2>2, <2>3
  <2>5. q \in Voxel(c, node, i)
    BY <1>4, <1>9, <2>1, <2>4
  <2>6. SamePlace(p, q) /\ q.time = m
    BY DEF SamePlace, MeanPoint
  <2> HIDE DEF m, q
  <2>7. QED
    BY <2>2, <2>5, <2>6
<1>10. SeenIsStored(c, u)
  <2> SUFFICES ASSUME u.gap < c.decayTime, NEW p \in u.seen,
                      Index(c.size, c.half, p.at, node.vehicle) \in 0..2 * c.half
               PROVE  \E q \in u.voxels[Index(c.size, c.half, p.at, node.vehicle)] :
                        SamePlace(p, q) /\ 2 * (node.time - q.time) <= u.gap + c.decayTime
    BY <1>3 DEF SeenIsStored
  <2>1. u.voxels[Index(c.size, c.half, p.at, node.vehicle)]
          = Voxel(c, node, Index(c.size, c.half, p.at, node.vehicle))
    BY <1>3
  <2>2. QED
    BY <1>9, <2>1
<1>11. \A i \in c.half - c.gather..c.half + c.gather : Voxel(c, node, i) \subseteq u.terrainCloud
  BY <1>3
<1>12. ASSUME NEW points, NEW p, SamePlace(p, p), NEW q \in points, SamePlace(p, q)
       PROVE  [at |-> p.at, z |-> p.z] \in InPlace(points)
  BY <1>12 DEF SamePlace, InPlace
<1>13. KeepsSeen(c, u)
  <2> SUFFICES ASSUME u.gap < c.decayTime, NEW p \in u.seen, Dis(p, u.at) <= c.size * (c.gather - 1)
               PROVE  [at |-> p.at, z |-> p.z] \in InPlace(u.terrainCloud)
    BY DEF KeepsSeen, Within, InPlace
  <2> DEFINE i == Index(c.size, c.half, p.at, node.vehicle)
  <2>1. p.at \in Int
    BY <1>1, <1>3 DEF TimedPoint
  <2>2. i \in c.half - c.gather..c.half + c.gather
    BY <1>1, <1>3, <2>1, NearIndex DEF Dis
  <2>3. i \in 0..2 * c.half
    BY <1>2, <2>2
  <2>4. PICK q \in Voxel(c, node, i) : SamePlace(p, q)
    BY <1>9, <2>3
  <2>5. q \in u.terrainCloud
    BY <1>11, <2>2, <2>4
  <2>6. QED
    BY <2>4, <2>5 DEF InPlace, SamePlace
<1>14. KeepsBefore(c, u)
  <2> SUFFICES ASSUME 2 * u.gap + u.gapBefore < c.decayTime, 2 * u.moved < 3 * c.size,
                      NEW p \in u.before, Dis(p, u.at) <= c.size * (c.gather - 1)
               PROVE  [at |-> p.at, z |-> p.z] \in InPlace(u.terrainCloud)
    BY DEF KeepsBefore, Within, InPlace
  <2>1. p \in node.seen /\ Admitted(c, node, p) /\ p.at \in Int
    BY <1>1, <1>3 DEF TimedPoint
  <2> DEFINE old == Index(c.size, c.half, p.at, node.at)
  <2> DEFINE i == old - by
  <2>2. old \in 0..2 * c.half /\ i \in c.half - c.gather..c.half + c.gather
    BY <1>0, <1>3, <2>1, RolledIndex DEF Dis
  <2>3. i \in 0..2 * c.half /\ i + by = old
    BY <1>2, <1>5, <2>2
  <2>4. node.gap < c.decayTime
    <3>1. u.gap \in Int /\ u.gap >= 0 /\ u.gapBefore = node.gap
      BY <1>0, <1>1, <1>3 DEF TimesAre
    <3>2. 2 * u.gap + node.gap < c.decayTime
      BY <3>1
    <3>3. QED
      BY <1>1, <1>2, <3>1, <3>2
  <2>5. PICK q \in node.voxels[old] :
          SamePlace(p, q) /\ 2 * (node.processed - q.time) <= node.gap + c.decayTime
    BY <1>0, <2>1, <2>2, <2>4 DEF SeenIsStored
  <2>6. V(i) = node.voxels[old]
    BY <1>0, <2>2, <2>3, RememberedIs
  <2> HIDE DEF i
  <2> DEFINE r == MeanPoint(V(i) \cup N(i), q)
  <2>7. q \in V(i) /\ Admitted(c, node, q)
    BY <2>1, <2>5, <2>6, AdmittedByPlace
  <2>8. node.time - MeanTime(V(i) \cup N(i), q) < c.decayTime
    BY <1>3, <1>4, <2>3, <2>5, <2>7
  <2>9. r \in Voxel(c, node, i)
    BY <1>4, <2>3, <2>7, <2>8
  <2>10. r \in u.terrainCloud
    BY <1>11, <2>2, <2>9 DEF i
  <2>11. r.at = p.at /\ r.z = p.z
    BY <2>5 DEF SamePlace, MeanPoint
  <2> HIDE DEF r
  <2>12. QED
    BY <2>10, <2>11 DEF InPlace
<1>15. QED
  BY <1>6, <1>7, <1>8, <1>10, <1>13, <1>14 DEF NodeHolds, KeepsNear

\* What the other operations leave alone.
KeptFields(node, u) ==
  /\ u.shift = node.shift /\ u.voxels = node.voxels /\ u.terrainCloud = node.terrainCloud
  /\ u.seen = node.seen /\ u.before = node.before /\ u.at = node.at /\ u.moved = node.moved
  /\ u.processed = node.processed /\ u.gap = node.gap /\ u.gapBefore = node.gapBefore

LEMMA KeptHolds ==
  ASSUME NEW c \in {Local, Ext}, NEW node, NodeHolds(c, node),
         NEW u \in Node(c), KeptFields(node, u), TimesAre(u)
  PROVE  NodeHolds(c, u)
<1>1. GridHolds(c, u)
  BY DEF NodeHolds, GridHolds, KeptFields
<1>2. SeenIsStored(c, u)
  BY DEF NodeHolds, SeenIsStored, KeptFields
<1>3. KeepsNear(c, u)
  BY DEF NodeHolds, KeepsNear, KeepsSeen, KeepsBefore, Within, KeptFields
<1>4. QED
  BY <1>1, <1>2, <1>3 DEF NodeHolds

LEMMA SetFieldHolds ==
  ASSUME NEW c \in {Local, Ext}, NEW node, NodeHolds(c, node)
  PROVE  /\ \A v \in Int : NodeHolds(c, [node EXCEPT !.vehicle = v])
         /\ \A dis \in ClearingDis : NodeHolds(c, [node EXCEPT !.clearingDis = dis])
         /\ \A map \in SUBSET PlaceOf : NodeHolds(c, [node EXCEPT !.map = map])
<1>1. node \in Node(c) /\ TimesAre(node)
  BY DEF NodeHolds
<1>2. ASSUME NEW v \in Int
      PROVE  NodeHolds(c, [node EXCEPT !.vehicle = v])
  <2> DEFINE u == [node EXCEPT !.vehicle = v]
  <2>1. u \in Node(c) /\ KeptFields(node, u) /\ TimesAre(u)
    BY <1>1 DEF Node, KeptFields, TimesAre
  <2>2. QED
    BY <2>1, KeptHolds
<1>3. ASSUME NEW dis \in ClearingDis
      PROVE  NodeHolds(c, [node EXCEPT !.clearingDis = dis])
  <2> DEFINE u == [node EXCEPT !.clearingDis = dis]
  <2>1. u \in Node(c) /\ KeptFields(node, u) /\ TimesAre(u)
    BY <1>1 DEF Node, KeptFields, TimesAre
  <2>2. QED
    BY <2>1, KeptHolds
<1>4. ASSUME NEW map \in SUBSET PlaceOf
      PROVE  NodeHolds(c, [node EXCEPT !.map = map])
  <2> DEFINE u == [node EXCEPT !.map = map]
  <2>1. u \in Node(c) /\ KeptFields(node, u) /\ TimesAre(u)
    BY <1>1 DEF Node, KeptFields, TimesAre
  <2>2. QED
    BY <2>1, KeptHolds
<1>5. QED
  BY <1>2, <1>3, <1>4

LEMMA ReceivedHolds ==
  ASSUME NEW c \in {Local, Ext}, NEW node, NodeHolds(c, node),
         scan.time \in Int, scan.points \subseteq PlaceOf, node.time <= scan.time
  PROVE  NodeHolds(c, CloudReceived(c, node)) /\ CloudReceived(c, node).time = scan.time
<1> DEFINE u == CloudReceived(c, node)
<1> DEFINE points == {[at |-> q.at, z |-> q.z, time |-> scan.time] : q \in scan.points}
<1> DEFINE crop == {p \in points : /\ InBand(c, p, node.vehicle)
                                   /\ Dis(p, node.vehicle) < c.size * (c.half + 1)}
<1>1. node \in Node(c) /\ TimesAre(node)
  BY DEF NodeHolds
<1>2. crop \in SUBSET TimedPoint /\ \A p \in crop : p.time = scan.time
  <2>1. points \in SUBSET TimedPoint /\ \A p \in points : p.time = scan.time
    BY DEF PlaceOf, TimedPoint
  <2> HIDE DEF points
  <2>2. QED
    BY <2>1
<1>3. u = [node EXCEPT !.crop = crop, !.time = scan.time, !.newlaserCloud = TRUE]
  BY DEF CloudReceived
<1> HIDE DEF crop, u
<1>4. u \in Node(c)
  BY <1>1, <1>2, <1>3 DEF Node
<1>5. KeptFields(node, u) /\ u.crop = crop /\ u.time = scan.time
  BY <1>1, <1>3 DEF Node, KeptFields
<1>6. TimesAre(u)
  <2>1. node.processed \in Int /\ node.time \in Int
    BY <1>1 DEF Node
  <2>2. u.processed <= u.time /\ u.gap >= 0
    BY <1>1, <1>5, <2>1 DEF TimesAre, KeptFields
  <2>3. QED
    BY <1>2, <1>5, <2>2 DEF TimesAre
<1>7. QED
  BY <1>4, <1>5, <1>6, KeptHolds DEF u

LEMMA NewHolds ==
  ASSUME NEW c \in {Local, Ext}, pos \in Int
  PROVE  NodeHolds(c, NewNode(c)) /\ NewNode(c).time = 0
<1> DEFINE u == NewNode(c)
<1>1. c.clearingDis \in ClearingDis
  BY DEF ClearingDis
<1>2. c.size \in Nat \ {0} /\ c.decayTime \in Nat \ {0}
  BY ParametersAre
<1>3. u \in Node(c)
  BY <1>1 DEF NewNode, Node
<1>4. GridHolds(c, u)
  BY <1>2 DEF NewNode, GridHolds, OnePerPlace
<1>5. SeenIsStored(c, u) /\ TimesAre(u)
  BY DEF NewNode, SeenIsStored, TimesAre
<1>6. KeepsNear(c, u)
  BY DEF NewNode, KeepsNear, KeepsSeen, KeepsBefore, Within, InPlace
<1>7. QED
  BY <1>3, <1>4, <1>5, <1>6 DEF NodeHolds, NewNode

LEMMA InPlaceType ==
  ASSUME NEW points \in SUBSET TimedPoint
  PROVE  InPlace(points) \in SUBSET PlaceOf
  BY DEF InPlace, TimedPoint, PlaceOf

LEMMA UpdatedTimes ==
  ASSUME NEW c \in {Local, Ext}, NEW node, NodeHolds(c, node), NEW u, u = Updated(c, node)
  PROVE  u.time = node.time /\ u.terrainCloud \in SUBSET TimedPoint
<1>1. node \in Node(c)
  BY DEF NodeHolds
<1>2. NodeHolds(c, u)
  BY UpdatedHolds
<1>3. UpdatedTo(c, node, u)
  BY <1>1, UpdatedFields
<1>4. QED
  BY <1>2, <1>3 DEF NodeHolds, Node, UpdatedTo

LEMMA TerrainStarts ==
  ASSUME TerrainInit
  PROVE  TerrainHolds
<1>1. pos \in Int
  BY TerrainAssumption DEF TerrainInit
<1>2. NodeHolds(Local, local) /\ local.time = 0 /\ NodeHolds(Ext, ext) /\ ext.time = 0
  BY <1>1, NewHolds DEF TerrainInit
<1>3. QED
  BY <1>1, <1>2 DEF TerrainInit, TerrainHolds

LEMMA TerrainSteps ==
  ASSUME TerrainHolds, [TerrainNext]_terrainVars
  PROVE  TerrainHolds'
<1> USE DEF TerrainHolds
<1>1. ASSUME LaserCloudHandler
      PROVE  TerrainHolds'
  <2>1. CASE "local" \in pending /\ local' = CloudReceived(Local, local)
               /\ UNCHANGED <<pos, scan, ext, terrain_map>>
    <3>1. NodeHolds(Local, local') /\ local'.time = scan.time
      BY <2>1, ReceivedHolds
    <3>2. QED
      BY <2>1, <3>1
  <2>2. CASE "ext" \in pending /\ ext' = CloudReceived(Ext, ext)
               /\ UNCHANGED <<pos, scan, local, terrain_map>>
    <3>1. NodeHolds(Ext, ext') /\ ext'.time = scan.time
      BY <2>2, ReceivedHolds
    <3>2. QED
      BY <2>2, <3>1
  <2>3. QED
    BY <1>1, <2>1, <2>2 DEF LaserCloudHandler
<1>2. ASSUME OdometryHandler
      PROVE  TerrainHolds'
  <2>1. NodeHolds(Local, local') /\ NodeHolds(Ext, ext')
    BY <1>2, SetFieldHolds DEF OdometryHandler
  <2>2. local'.time = local.time /\ ext'.time = ext.time
    BY <1>2 DEF OdometryHandler, NodeHolds, Node
  <2>3. QED
    BY <1>2, <2>1, <2>2 DEF OdometryHandler
<1>3. ASSUME NEW dis \in ClearingDistances, ClearingHandler(dis)
      PROVE  TerrainHolds'
  <2>1. dis \in ClearingDis
    BY DEF ClearingDis
  <2>2. CASE local' = [local EXCEPT !.clearingDis = dis] /\ UNCHANGED <<pos, scan, ext, terrain_map>>
    <3>1. NodeHolds(Local, local')
      BY <2>1, <2>2, SetFieldHolds
    <3>2. local'.time = local.time
      BY <2>2 DEF NodeHolds, Node
    <3>3. QED
      BY <2>2, <3>1, <3>2
  <2>3. CASE ext' = [ext EXCEPT !.clearingDis = dis] /\ UNCHANGED <<pos, scan, local, terrain_map>>
    <3>1. NodeHolds(Ext, ext')
      BY <2>1, <2>3, SetFieldHolds
    <3>2. ext'.time = ext.time
      BY <2>3 DEF NodeHolds, Node
    <3>3. QED
      BY <2>3, <3>1, <3>2
  <2>4. QED
    BY <1>3, <2>2, <2>3 DEF ClearingHandler
<1>4. ASSUME TerrainCloudLocalHandler
      PROVE  TerrainHolds'
  <2>1. local.map \in SUBSET PlaceOf
    BY DEF NodeHolds, Node
  <2>2. terrain_map'.points = local.map
    BY <1>4 DEF TerrainCloudLocalHandler
  <2>3. QED
    BY <1>4, <2>1, <2>2 DEF TerrainCloudLocalHandler
<1>5. ASSUME LocalMainLoop
      PROVE  TerrainHolds'
  <2>1. PICK node : node = Updated(Local, local)
                    /\ local' = [node EXCEPT !.map = InPlace(Elevated(Local, node))]
    BY <1>5 DEF LocalMainLoop
  <2>2. NodeHolds(Local, node) /\ node.time = local.time /\ node.terrainCloud \in SUBSET TimedPoint
    BY <2>1, UpdatedHolds, UpdatedTimes
  <2>3. Elevated(Local, node) \in SUBSET TimedPoint
    BY <2>2 DEF Elevated
  <2>4. NodeHolds(Local, local')
    BY <2>1, <2>2, <2>3, InPlaceType, SetFieldHolds
  <2>5. local'.time = local.time
    BY <2>1, <2>2 DEF NodeHolds, Node
  <2>6. QED
    BY <1>5, <2>4, <2>5 DEF LocalMainLoop
<1>6. ASSUME ExtMainLoop
      PROVE  TerrainHolds'
  <2>1. PICK node : node = Updated(Ext, ext)
                    /\ ext' = [node EXCEPT !.map = InPlace(BeyondLocal(node)) \cup MergedLocal(node)]
    BY <1>6 DEF ExtMainLoop, ExtUpdated
  <2>2. NodeHolds(Ext, node) /\ node.time = ext.time /\ node.terrainCloud \in SUBSET TimedPoint
    BY <2>1, UpdatedHolds, UpdatedTimes
  <2>3. BeyondLocal(node) \in SUBSET TimedPoint /\ MergedLocal(node) \in SUBSET PlaceOf
    BY <2>2 DEF BeyondLocal, MergedLocal
  <2>4. InPlace(BeyondLocal(node)) \cup MergedLocal(node) \in SUBSET PlaceOf
    BY <2>3, InPlaceType
  <2>5. NodeHolds(Ext, ext')
    BY <2>1, <2>2, <2>4, SetFieldHolds
  <2>6. ext'.time = ext.time
    BY <2>1, <2>2 DEF NodeHolds, Node
  <2>7. QED
    BY <1>6, <2>5, <2>6 DEF ExtMainLoop
<1>7. ASSUME NEW to \in Road, Drive(to)
      PROVE  TerrainHolds'
  BY <1>7, TerrainAssumption DEF Drive
<1>8. ASSUME NEW hidden \in SUBSET Hideable, NEW period \in Periods, Scan(hidden, period)
      PROVE  TerrainHolds'
  <2>1. period \in Nat /\ World \subseteq PlaceOf
    BY TerrainAssumption DEF PlaceOf
  <2>2. /\ scan'.time = IF scan.number = 0 THEN 0 ELSE scan.time + period
        /\ scan'.points = World \ hidden /\ scan'.number = scan.number + 1
        /\ UNCHANGED <<pos, local, ext, terrain_map>>
    BY <1>8 DEF Scan
  <2>3. scan.time <= scan'.time /\ scan'.time \in Int
    BY <2>1, <2>2
  <2>4. local.time \in Int /\ ext.time \in Int
    BY DEF NodeHolds, Node
  <2>5. QED
    BY <2>1, <2>2, <2>3, <2>4
<1>9. CASE UNCHANGED terrainVars
  BY <1>9 DEF terrainVars
<1>10. QED
  BY <1>1, <1>2, <1>3, <1>4, <1>5, <1>6, <1>7, <1>8, <1>9 DEF TerrainNext

(* NearTerrainIsKept: the nodes of the terrain analysis keep in            *)
(* terrainCloud what the last two clouds showed near the vehicle.          *)
THEOREM TerrainInvariant == TerrainSpec => []NearTerrainIsKept
<1>1. TerrainInit => TerrainHolds
  BY TerrainStarts
<1>2. TerrainHolds /\ [TerrainNext]_terrainVars => TerrainHolds'
  BY TerrainSteps
<1>3. TerrainHolds => NearTerrainIsKept
  BY DEF TerrainHolds, NodeHolds, NearTerrainIsKept
<1>4. QED
  BY <1>1, <1>2, <1>3, PTL DEF TerrainSpec

-----------------------------------------------------------------------------
(***************************************************************************)
(* The costmap layer.  The window lies around the robot, so that the cells *)
(* whose places the rays reach are between the bounds; of such a cell the  *)
(* layer's marks say what is lethal, and marks and outline are what stands *)
(* in the cell and what lies between the ends of the outline.              *)
(***************************************************************************)

\* A set of integers between two bounds has a least and a greatest element.
LEMMA EndsOfInterval ==
  ASSUME NEW lo \in Int, NEW hi \in Int, NEW T, T \subseteq lo .. hi, T # {}
  PROVE  /\ Min(T) \in T /\ \A y \in T : Min(T) <= y
         /\ Max(T) \in T /\ \A y \in T : y <= Max(T)
<1>1. \E x \in T : \A y \in T : x <= y
  <2> DEFINE U == {y - lo : y \in T}
  <2>1. U \subseteq Nat /\ U # {}
    <3>1. \A y \in T : y - lo \in Nat
      OBVIOUS
    <3>2. QED
      BY <3>1
  <2>2. PICK u \in U : \A v \in U : u <= v
    BY <2>1, LeastNumber
  <2>3. PICK x \in T : u = x - lo
    OBVIOUS
  <2>4. \A y \in T : u <= y - lo
    BY <2>2
  <2>5. \A y \in T : x <= y
    BY <2>3, <2>4
  <2>6. QED
    BY <2>5
<1>2. \E x \in T : \A y \in T : y <= x
  <2> DEFINE U == {hi - y : y \in T}
  <2>1. U \subseteq Nat /\ U # {}
    <3>1. \A y \in T : hi - y \in Nat
      OBVIOUS
    <3>2. QED
      BY <3>1
  <2>2. PICK u \in U : \A v \in U : u <= v
    BY <2>1, LeastNumber
  <2>3. PICK x \in T : u = hi - x
    OBVIOUS
  <2>4. \A y \in T : u <= hi - y
    BY <2>2
  <2>5. \A y \in T : y <= x
    BY <2>3, <2>4
  <2>6. QED
    BY <2>5
<1>3. Min(T) \in T /\ \A y \in T : Min(T) <= y
  <2>1. PICK m : m = Min(T)
    OBVIOUS
  <2>2. m \in T /\ \A y \in T : m <= y
    BY <1>1, <2>1 DEF Min
  <2>3. QED
    BY <2>1, <2>2
<1>4. Max(T) \in T /\ \A y \in T : y <= Max(T)
  <2>1. PICK m : m = Max(T)
    OBVIOUS
  <2>2. m \in T /\ \A y \in T : m >= y
    <3>1. \E x \in T : \A y \in T : x >= y
      BY <1>2
    <3>2. m = CHOOSE x \in T : \A y \in T : x >= y
      BY <2>1 DEF Max
    <3>3. QED
      BY <3>1, <3>2, Zenon
  <2>3. \A y \in T : y <= m
    BY <2>2
  <2>4. QED
    BY <2>1, <2>2, <2>3
<1>5. QED
  BY <1>3, <1>4

(* The outline and the padded one, whose corners are on the axes, and what *)
(* counting crossings says of points on the axis along which the robot     *)
(* drives: inside is what lies between its ends.                           *)
Diamond(front, left, back, right) == <<<<front, 0>>, <<0, left>>, <<-back, 0>>, <<0, -right>>>>

\* A positive factor keeps the sign.
LEMMA SignOfProduct ==
  ASSUME NEW a \in Int, NEW b \in Nat \ {0}
  PROVE  /\ a * b > 0 <=> a > 0
         /\ a * b < 0 <=> a < 0
<1>1. CASE a = 0
  BY <1>1
<1>2. CASE a > 0
  <2>1. a * b > 0
    BY <1>2
  <2>2. QED
    BY <1>2, <2>1
<1>3. CASE a < 0
  <2>1. PICK m \in Nat \ {0} : m = -a
    BY <1>3
  <2>2. m * b > 0
    OBVIOUS
  <2>3. PICK p \in Int : p = a * b
    OBVIOUS
  <2>4. p = -(m * b)
    BY <2>1, <2>3
  <2>5. p < 0
    BY <2>2, <2>4
  <2>6. QED
    BY <1>3, <2>3, <2>5
<1>4. QED
  BY <1>1, <1>2, <1>3

LEMMA InsideDiamond ==
  ASSUME NEW front \in Nat \ {0}, NEW left \in Nat \ {0}, NEW back \in Nat \ {0},
         NEW right \in Nat \ {0}, NEW x \in Int
  PROVE  IsPointInPolygon(x, 0, Diamond(front, left, back, right)) <=> -back <= x /\ x < front
<1> DEFINE polygon == Diamond(front, left, back, right)
<1> DEFINE Before(i) == polygon[IF i = 1 THEN 4 ELSE i - 1]
<1> DEFINE Left(p, q) == LET d == q[2] - p[2]
                             s == (q[1] - p[1]) * (0 - p[2]) + p[1] * d
                         IN  IF d > 0 THEN x * d < s ELSE x * d > s
<1> DEFINE Crossed == {i \in 1 .. 4 : /\ (polygon[i][2] > 0) # (Before(i)[2] > 0)
                                      /\ Left(polygon[i], Before(i))}
<1>1. Len(polygon) = 4
  BY DEF Diamond
<1>2. /\ polygon[1] = <<front, 0>> /\ polygon[2] = <<0, left>>
      /\ polygon[3] = <<-back, 0>> /\ polygon[4] = <<0, -right>>
  BY DEF Diamond
<1>3. IsPointInPolygon(x, 0, polygon) <=> Cardinality(Crossed) % 2 = 1
  <2>1. IsPointInPolygon(x, 0, polygon) <=> Len(polygon) >= 3 /\ Cardinality(Crossed) % 2 = 1
    BY <1>1 DEF IsPointInPolygon
  <2>2. QED
    BY <1>1, <2>1
<1> HIDE DEF polygon
<1>4. /\ Before(1) = <<0, -right>> /\ Before(2) = <<front, 0>>
      /\ Before(3) = <<0, left>> /\ Before(4) = <<-back, 0>>
  BY <1>2
<1>5. 1 \notin Crossed /\ 4 \notin Crossed
  BY <1>2, <1>4
<1>6. 2 \in Crossed <=> x < front
  <2>1. Left(polygon[2], Before(2)) <=> x * (0 - left) > front * (0 - left) + 0 * (0 - left)
    BY <1>2, <1>4
  <2>2. x * (0 - left) > front * (0 - left) + 0 * (0 - left) <=> x < front
    <3>1. x * (0 - left) - front * (0 - left) = (front - x) * left
      OBVIOUS
    <3>2. (front - x) * left > 0 <=> front - x > 0
      BY SignOfProduct, front - x \in Int
    <3>3. front * (0 - left) + 0 * (0 - left) = front * (0 - left)
      OBVIOUS
    <3>4. PICK p \in Int, q \in Int : p = x * (0 - left) /\ q = front * (0 - left)
      OBVIOUS
    <3>5. p - q = (front - x) * left
      BY <3>1, <3>4
    <3>6. PICK r \in Int : r = (front - x) * left
      OBVIOUS
    <3>7. p > q <=> r > 0
      BY <3>5, <3>6
    <3>8. r > 0 <=> x < front
      BY <3>2, <3>6
    <3>9. QED
      BY <3>3, <3>4, <3>7, <3>8
  <2>3. (polygon[2][2] > 0) # (Before(2)[2] > 0)
    BY <1>2, <1>4
  <2>4. QED
    BY <2>1, <2>2, <2>3
<1>7. 3 \in Crossed <=> x < -back
  <2>1. Left(polygon[3], Before(3)) <=> x * (left - 0) < (0 - (-back)) * (0 - 0) + (-back) * (left - 0)
    BY <1>2, <1>4
  <2>2. x * (left - 0) < (0 - (-back)) * (0 - 0) + (-back) * (left - 0) <=> x < -back
    <3>1. x * left - (-back) * left = (x + back) * left
      OBVIOUS
    <3>2. (x + back) * left < 0 <=> x + back < 0
      BY SignOfProduct, x + back \in Int
    <3>3. /\ (0 - (-back)) * (0 - 0) + (-back) * (left - 0) = (-back) * left
          /\ x * (left - 0) = x * left
      OBVIOUS
    <3>4. PICK p \in Int, q \in Int : p = x * left /\ q = (-back) * left
      OBVIOUS
    <3>5. PICK r \in Int : r = (x + back) * left
      OBVIOUS
    <3>6. p - q = r
      BY <3>1, <3>4, <3>5
    <3>7. r < 0 <=> x < -back
      BY <3>2, <3>5
    <3>8. QED
      BY <3>3, <3>4, <3>6, <3>7
  <2>3. (polygon[3][2] > 0) # (Before(3)[2] > 0)
    BY <1>2, <1>4
  <2>4. QED
    BY <2>1, <2>2, <2>3
<1>8. Crossed \subseteq {1, 2, 3, 4}
  <2>1. 1 .. 4 = {1, 2, 3, 4}
    OBVIOUS
  <2>2. QED
    BY <2>1
<1> HIDE DEF Crossed
<1>9. CASE x < -back
  <2>1. Crossed = {2, 3}
    <3>1. x < front
      BY <1>9
    <3>2. QED
      BY <1>5, <1>6, <1>7, <1>8, <1>9, <3>1
  <2>2. Cardinality({2, 3}) = 2
    <3>1. IsFiniteSet({2}) /\ Cardinality({2}) = 1
      BY FS_Singleton
    <3>2. Cardinality({2} \cup {3}) = Cardinality({2}) + 1
      BY <3>1, FS_AddElement, 3 \notin {2}
    <3>3. {2} \cup {3} = {2, 3}
      OBVIOUS
    <3>4. QED
      BY <3>1, <3>2, <3>3
  <2>3. QED
    BY <1>3, <1>9, <2>1, <2>2 DEF polygon
<1>10. CASE -back <= x /\ x < front
  <2>1. Crossed = {2}
    <3>1. 2 \in Crossed
      BY <1>6, <1>10
    <3>2. 3 \notin Crossed
      <4>1. ~(x < -back)
        BY <1>10
      <4>2. QED
        BY <1>7, <4>1
    <3>3. QED
      BY <1>5, <1>8, <3>1, <3>2
  <2>2. Cardinality(Crossed) = 1
    BY <2>1, FS_Singleton
  <2>3. QED
    BY <1>3, <1>10, <2>2 DEF polygon
<1>11. CASE front <= x
  <2>1. Crossed = {}
    BY <1>5, <1>6, <1>7, <1>8, <1>11
  <2>2. Cardinality(Crossed) = 0
    BY <2>1, FS_EmptySet
  <2>3. QED
    BY <1>3, <1>11, <2>2 DEF polygon
<1>12. QED
  BY <1>9, <1>10, <1>11

\* The corners of the outline are on the axes.
LEMMA OutlineIs ==
  \E front, left, back, right \in Nat \ {0} : Footprint = Diamond(front, left, back, right)
  BY LayerParameters DEF Diamond

\* Padding moves every corner outward by as much.
LEMMA PaddedOutlineIs ==
  ASSUME NEW front \in Nat \ {0}, NEW left \in Nat \ {0}, NEW back \in Nat \ {0},
         NEW right \in Nat \ {0}, NEW by \in Nat
  PROVE  Padded(Diamond(front, left, back, right), by)
           = Diamond(front + by, left + by, back + by, right + by)
<1> DEFINE D == Diamond(front, left, back, right)
<1> DEFINE P == Diamond(front + by, left + by, back + by, right + by)
<1>1. DOMAIN D = 1 .. 4 /\ DOMAIN P = 1 .. 4
  BY DEF Diamond
<1>2. /\ Outward(front, by) = front + by /\ Outward(left, by) = left + by
      /\ Outward(-back, by) = -(back + by) /\ Outward(-right, by) = -(right + by)
      /\ Outward(0, by) = 0
  BY DEF Outward
<1>3. ASSUME NEW i \in 1 .. 4
      PROVE  <<Outward(D[i][1], by), Outward(D[i][2], by)>> = P[i]
  <2>1. CASE i = 1
    BY <1>2, <2>1 DEF Diamond
  <2>2. CASE i = 2
    BY <1>2, <2>2 DEF Diamond
  <2>3. CASE i = 3
    BY <1>2, <2>3 DEF Diamond
  <2>4. CASE i = 4
    BY <1>2, <2>4 DEF Diamond
  <2>5. QED
    BY <2>1, <2>2, <2>3, <2>4
<1>4. Padded(D, by) = [i \in 1 .. 4 |-> P[i]]
  BY <1>1, <1>3 DEF Padded
<1>5. P = [i \in 1 .. 4 |-> P[i]]
  BY DEF Diamond
<1>6. QED
  BY <1>4, <1>5

\* The ends of an outline with its centre at x.
EndsAround(x, D) == {x + D[i][1] : i \in DOMAIN D}

LEMMA EndsOfDiamond ==
  ASSUME NEW front \in Nat \ {0}, NEW left \in Nat \ {0}, NEW back \in Nat \ {0},
         NEW right \in Nat \ {0}, NEW x \in Int
  PROVE  LET ends == EndsAround(x, Diamond(front, left, back, right))
         IN  /\ Min(ends) = x - back /\ Max(ends) = x + front
             /\ ends \subseteq x - back .. x + front
<1> DEFINE D == Diamond(front, left, back, right)
           ends == EndsAround(x, D)
<1>1. ends = {x + front, x, x - back}
  <2>1. DOMAIN D = {1, 2, 3, 4}
    <3>1. DOMAIN D = 1 .. 4
      BY DEF Diamond
    <3>2. QED
      BY <3>1
  <2>2. /\ D[1][1] = front /\ D[2][1] = 0 /\ D[3][1] = -back /\ D[4][1] = 0
    BY DEF Diamond
  <2>3. /\ x + front = x + D[1][1] /\ x = x + D[2][1] /\ x - back = x + D[3][1]
        /\ x = x + D[4][1]
    BY <2>2
  <2> HIDE DEF D
  <2>4. ends = {x + D[1][1], x + D[2][1], x + D[3][1], x + D[4][1]}
    BY <2>1 DEF EndsAround
  <2>5. QED
    BY <2>3, <2>4
<1> HIDE DEF ends
<1>2. ends \subseteq x - back .. x + front /\ ends # {}
  BY <1>1
<1>3. /\ Min(ends) \in ends /\ \A y \in ends : Min(ends) <= y
      /\ Max(ends) \in ends /\ \A y \in ends : y <= Max(ends)
  <2>1. x - back \in Int /\ x + front \in Int
    OBVIOUS
  <2>2. QED
    BY <1>2, <2>1, EndsOfInterval
<1>4. x - back \in ends /\ x + front \in ends
  BY <1>1
<1>5. Min(ends) = x - back
  <2>1. Min(ends) <= x - back /\ Min(ends) \in x - back .. x + front
    BY <1>2, <1>3, <1>4
  <2>2. QED
    BY <2>1
<1>6. Max(ends) = x + front
  <2>1. x + front <= Max(ends) /\ Max(ends) \in x - back .. x + front
    BY <1>2, <1>3, <1>4
  <2>2. QED
    BY <2>1
<1>7. QED
  BY <1>2, <1>5, <1>6 DEF ends

\* What the variables hold; origin and map move by whole cells, together.
GridPoint == [x : Int, z : Int, intensity : Nat]
GridObservation == [origin : Int, cloud : SUBSET GridPoint]

GridShape ==
  /\ layer \in Layers
  /\ padded_footprint_ \in {<<>>, Padded(Footprint, layer.footprint_padding)}
  /\ robot_x \in Int /\ objects \subseteq Objects
  /\ observations \in Seq(GridObservation)
  /\ master_x = origin_x_ /\ \E k \in Int : origin_x_ = 2 * k

(* Where the new origin is: the robot is in the window's middle, up to a  *)
(* cell, and the origin is a whole number of cells.                        *)
LEMMA OriginFollows ==
  ASSUME NEW origin \in Int, NEW x \in Int, NEW size \in Int, NEW k \in Int, origin = 2 * k
  PROVE  \E j \in Int : /\ origin + Truncated(x - size - origin) * Resolution = 2 * j
                        /\ x - size - 1 <= 2 * j /\ 2 * j <= x - size + 1
<1> DEFINE d == x - size - origin
<1>1. CASE d >= 0
  <2>1. PICK q \in Int : q = d \div 2 /\ 2 * q <= d /\ d < 2 * q + 2
    <3>1. d \in Int
      OBVIOUS
    <3>2. QED
      BY <3>1, QuotientIs, 2 \in Nat \ {0}
  <2>2. Truncated(d) * Resolution = 2 * q
    BY <1>1, <2>1 DEF Truncated, Resolution
  <2>3. origin + 2 * q = 2 * (k + q) /\ x - size - 1 <= 2 * (k + q) /\ 2 * (k + q) <= x - size + 1
    BY <2>1
  <2>4. QED
    BY <2>2, <2>3, k + q \in Int
<1>2. CASE d < 0
  <2>1. PICK q \in Int : q = (-d) \div 2 /\ 2 * q <= -d /\ -d < 2 * q + 2
    <3>1. -d \in Int
      OBVIOUS
    <3>2. QED
      BY <3>1, QuotientIs, 2 \in Nat \ {0}
  <2>2. Truncated(d) * Resolution = -(2 * q)
    BY <1>2, <2>1 DEF Truncated, Resolution
  <2>3. origin - 2 * q = 2 * (k - q) /\ x - size - 1 <= 2 * (k - q) /\ 2 * (k - q) <= x - size + 1
    BY <2>1
  <2>4. QED
    BY <2>2, <2>3, k - q \in Int
<1>3. QED
  BY <1>1, <1>2

(* After a cycle: the window is around the robot. *)
LEMMA WindowIsAround ==
  ASSUME GridShape, UpdateBounds
  PROVE  /\ master_x' = origin_x_' /\ origin_x_' \in Int /\ \E k \in Int : origin_x_' = 2 * k
         /\ InWindow(robot_x)
<1>1. layer.rolling_window /\ SizeX \in Nat \ {0, 1}
  BY LayerParameters DEF GridShape
<1>2. /\ origin_x_' = origin_x_ + Truncated(robot_x - SizeX - origin_x_) * Resolution
      /\ master_x' = origin_x_'
  BY <1>1 DEF GridShape, UpdateBounds, UpdateOrigin, MovedMaster
<1>3. PICK k \in Int : origin_x_ = 2 * k
  BY DEF GridShape
<1>4. robot_x \in Int /\ SizeX \in Int /\ origin_x_ \in Int
  BY <1>1, <1>3 DEF GridShape
<1>5. PICK j \in Int : /\ origin_x_' = 2 * j
                       /\ robot_x - SizeX - 1 <= 2 * j /\ 2 * j <= robot_x - SizeX + 1
  BY <1>2, <1>3, <1>4, OriginFollows
<1>6. InWindow(robot_x)
  BY <1>1, <1>4, <1>5 DEF InWindow, Resolution
<1>7. QED
  BY <1>2, <1>5, <1>6

(* Which cell a place is in, in the window of the cycle. *)
LEMMA CellIs ==
  ASSUME NEW k \in Int, origin_x_' = 2 * k, NEW x \in Int
  PROVE  /\ Cell(x) = x \div 2 - k /\ Cell(x) \in Int
         /\ Cell(x) \in 0 .. SizeX - 1 <=> InWindow(x)
<1>1. SizeX \in Nat
  BY LayerParameters
<1>2. /\ x \div 2 \in Int /\ 2 * (x \div 2) <= x /\ x < 2 * (x \div 2) + 2
  BY QuotientIs, 2 \in Nat \ {0}
<1>3. PICK y \in Int : y = x - 2 * k
  OBVIOUS
<1>4. /\ y \div 2 \in Int /\ 2 * (y \div 2) <= y /\ y < 2 * (y \div 2) + 2
  BY QuotientIs, 2 \in Nat \ {0}
<1>5. Cell(x) = y \div 2
  BY <1>3 DEF Cell, Resolution
<1>6. PICK a \in Int, b \in Int : a = x \div 2 /\ b = y \div 2
  BY <1>2, <1>4
<1>7. b = a - k
  BY <1>2, <1>3, <1>4, <1>6
<1>8. b \in 0 .. SizeX - 1 <=> x >= 2 * k /\ x < 2 * k + SizeX * 2
  BY <1>1, <1>3, <1>4, <1>6
<1>9. QED
  BY <1>5, <1>6, <1>7, <1>8 DEF InWindow, Resolution

\* Places in order are in cells in order.
LEMMA CellsAreOrdered ==
  ASSUME NEW k \in Int, origin_x_' = 2 * k, NEW x \in Int, NEW y \in Int, x <= y
  PROVE  Cell(x) <= Cell(y)
<1>1. Cell(x) = x \div 2 - k /\ Cell(y) = y \div 2 - k
  BY CellIs
<1>2. /\ x \div 2 \in Int /\ 2 * (x \div 2) <= x /\ x < 2 * (x \div 2) + 2
      /\ y \div 2 \in Int /\ 2 * (y \div 2) <= y /\ y < 2 * (y \div 2) + 2
  BY QuotientIs, 2 \in Nat \ {0}
<1>3. PICK a \in Int, b \in Int : a = x \div 2 /\ b = y \div 2
  BY <1>2
<1>4. a <= b
  BY <1>2, <1>3
<1>5. QED
  BY <1>1, <1>3, <1>4

\* There are observations, all of the world as it is.
AllCurrent == observations # <<>> /\ \A i \in DOMAIN observations : observations[i] = Now

\* The cloud shows every place it reaches, by what stands there or as ground.
LEMMA CloudIs ==
  ASSUME GridShape
  PROVE  /\ Cloud(robot_x, objects) \subseteq GridPoint
         /\ \A p \in Cloud(robot_x, objects) : p.x \in Reached(robot_x)
         /\ \A x \in Reached(robot_x) : \E p \in Cloud(robot_x, objects) : p.x = x
         /\ \A p \in Cloud(robot_x, objects) : p \in objects \/ p.intensity = 0
         /\ \A p \in objects : p.x \in Reached(robot_x) => p \in Cloud(robot_x, objects)
<1>1. objects \subseteq GridPoint /\ robot_x \in Int /\ Reach \in Nat
  BY LayerParameters DEF GridShape, GridPoint
<1>2. Reached(robot_x) \subseteq Int
  BY <1>1 DEF Reached
<1> DEFINE seen == {o \in objects : o.x \in Reached(robot_x)}
<1> DEFINE ground == {[x |-> p, z |-> 0, intensity |-> 0] : p \in Reached(robot_x) \ {o.x : o \in objects}}
<1>3. Cloud(robot_x, objects) = seen \cup ground
  BY DEF Cloud
<1>4. \A p \in ground : p \in GridPoint /\ p.x \in Reached(robot_x) /\ p.intensity = 0
  BY <1>2 DEF GridPoint
<1>5. \A p \in seen : p \in GridPoint /\ p.x \in Reached(robot_x) /\ p \in objects
  BY <1>1
<1>6. ASSUME NEW x \in Reached(robot_x)
      PROVE  \E p \in seen \cup ground : p.x = x
  <2>1. CASE x \in {o.x : o \in objects}
    <3>1. PICK o \in objects : o.x = x
      BY <2>1
    <3>2. o \in seen
      BY <3>1
    <3>3. QED
      BY <3>1, <3>2
  <2>2. CASE x \notin {o.x : o \in objects}
    <3>1. [x |-> x, z |-> 0, intensity |-> 0] \in ground
      BY <2>2
    <3>2. [x |-> x, z |-> 0, intensity |-> 0].x = x
      OBVIOUS
    <3>3. QED
      BY <3>1, <3>2
  <2>3. QED
    BY <2>1, <2>2
<1>7. \A p \in objects : p.x \in Reached(robot_x) => p \in seen
  OBVIOUS
<1> HIDE DEF seen, ground
<1>8. QED
  BY <1>3, <1>4, <1>5, <1>6, <1>7

\* There is an observation, and each is of the world as it is.
LEMMA SomeObservation ==
  ASSUME GridShape, AllCurrent
  PROVE  /\ \E i : i \in DOMAIN observations
         /\ \A i \in DOMAIN observations : /\ observations[i].origin = robot_x
                                           /\ observations[i].cloud = Cloud(robot_x, objects)
<1>1. Len(observations) > 0 /\ DOMAIN observations = 1 .. Len(observations)
  BY DEF GridShape, AllCurrent
<1>2. 1 \in DOMAIN observations
  BY <1>1
<1>3. QED
  BY <1>2 DEF AllCurrent, Now

\* The rays end where they reach at most, and at every place in reach and window.
LEMMA RaysReach ==
  ASSUME GridShape, UpdateBounds, AllCurrent
  PROVE  LET rt == layer.raytrace_max_range
         IN  /\ RayEnds \subseteq robot_x - rt .. robot_x + rt
             /\ \A x \in Reached(robot_x) :
                  x - robot_x \in -rt .. rt /\ InWindow(x) => x \in RayEnds
<1>1. PICK rt \in Nat : rt = layer.raytrace_max_range
  BY LayerParameters DEF GridShape
<1>2. robot_x \in Int /\ SizeX \in Nat /\ Reach \in Nat
  BY LayerParameters DEF GridShape
<1>3. Reached(robot_x) \subseteq Int
  BY <1>2 DEF Reached
<1>4. InWindow(robot_x) /\ origin_x_' \in Int
  BY WindowIsAround
<1> DEFINE Clipped(x) == IF x < origin_x_' THEN origin_x_'
                         ELSE IF ~InWindow(x) THEN origin_x_' + SizeX * Resolution - 1 ELSE x
           ShortTo(x) == IF x > robot_x + rt THEN robot_x + rt
                        ELSE IF x < robot_x - rt THEN robot_x - rt ELSE x
           ends == {robot_x} \cup {ShortTo(Clipped(p.x)) : p \in Cloud(robot_x, objects)}
<1>5. RayEnds = ends
  <2>1. \A i \in DOMAIN observations :
          (LET o == observations[i].origin
               Clip(x) == IF x < origin_x_' THEN origin_x_'
                          ELSE IF ~InWindow(x) THEN origin_x_' + SizeX * Resolution - 1 ELSE x
               With(x) == IF x > o + layer.raytrace_max_range THEN o + layer.raytrace_max_range
                          ELSE IF x < o - layer.raytrace_max_range THEN o - layer.raytrace_max_range ELSE x
           IN  IF InWindow(o) THEN {o} \cup {With(Clip(p.x)) : p \in observations[i].cloud} ELSE {}) = ends
    BY <1>1, <1>4, SomeObservation
  <2> HIDE DEF ends
  <2>2. RayEnds = UNION {ends : i \in DOMAIN observations}
    BY <2>1 DEF RayEnds
  <2>3. QED
    BY <2>2, SomeObservation
<1>6. \A y \in Int : Clipped(y) \in Int
  BY <1>2, <1>4 DEF Resolution
<1>7. \A y \in Int : ShortTo(y) \in robot_x - rt .. robot_x + rt
  BY <1>1, <1>2
<1>8. \A p \in Cloud(robot_x, objects) : p.x \in Int
  BY <1>3, CloudIs
<1>9. ends \subseteq robot_x - rt .. robot_x + rt
  <2> HIDE DEF Clipped, ShortTo
  <2>1. robot_x \in robot_x - rt .. robot_x + rt
    BY <1>1, <1>2
  <2>2. \A p \in Cloud(robot_x, objects) : ShortTo(Clipped(p.x)) \in robot_x - rt .. robot_x + rt
    BY <1>6, <1>7, <1>8
  <2>3. QED
    BY <2>1, <2>2
<1>10. ASSUME NEW x \in Reached(robot_x), x - robot_x \in -rt .. rt, InWindow(x)
       PROVE  x \in ends
  <2>1. PICK p \in Cloud(robot_x, objects) : p.x = x
    BY CloudIs
  <2>2. x \in Int
    BY <1>3
  <2>3. Clipped(x) = x
    BY <1>4, <1>10, <2>2 DEF InWindow
  <2>4. ShortTo(x) = x
    BY <1>1, <1>2, <1>10, <2>2
  <2> HIDE DEF Clipped, ShortTo
  <2>5. QED
    BY <2>1, <2>3, <2>4
<1>11. QED
  BY <1>1, <1>5, <1>9, <1>10

\* A column is marked when a point of the cloud is an obstacle in it.
LEMMA MarkedIs ==
  ASSUME GridShape, UpdateBounds, AllCurrent, NEW c \in 0 .. SizeX - 1
  PROVE  c \in Marked(Voxels) <=>
           \E q \in Cloud(robot_x, objects) : /\ IsObstacle(q, robot_x) /\ InWindow(q.x)
                                              /\ Level(q) < SizeZ /\ Cell(q.x) = c
<1> DEFINE Counts(q) == IsObstacle(q, robot_x) /\ InWindow(q.x) /\ Level(q) < SizeZ
           found == {<<Cell(p.x), Level(p)>> : p \in {q \in Cloud(robot_x, objects) : Counts(q)}}
           here == {v \in found : v[1] = c}
<1>1. Voxels = found
  <2>1. \A i \in DOMAIN observations :
          {<<Cell(p.x), Level(p)>> : p \in {q \in observations[i].cloud :
                                            /\ IsObstacle(q, observations[i].origin)
                                            /\ InWindow(q.x) /\ Level(q) < SizeZ}} = found
    BY SomeObservation
  <2> HIDE DEF found
  <2>2. Voxels = UNION {found : i \in DOMAIN observations}
    BY <2>1 DEF Voxels
  <2>3. QED
    BY <2>2, SomeObservation
<1>2. layer.mark_threshold = 0 /\ layer.origin_z \in Int /\ SizeX \in Nat /\ SizeZ \in Nat
  BY LayerParameters DEF GridShape
<1>3. found \subseteq (0 .. SizeX - 1) \X (0 .. SizeZ - 1)
  <2>1. PICK k \in Int : origin_x_' = 2 * k
    BY WindowIsAround
  <2>2. ASSUME NEW q \in Cloud(robot_x, objects), Counts(q)
        PROVE  Cell(q.x) \in 0 .. SizeX - 1 /\ Level(q) \in 0 .. SizeZ - 1
    <3>1. q.x \in Int /\ q.z \in Int
      BY CloudIs DEF GridPoint
    <3>2. Cell(q.x) \in 0 .. SizeX - 1
      BY <2>1, <2>2, <3>1, CellIs
    <3>3. Level(q) \in 0 .. SizeZ - 1
      BY <1>2, <2>2, <3>1 DEF Level
    <3>4. QED
      BY <3>2, <3>3
  <2> HIDE DEF Counts
  <2>3. QED
    BY <2>2
<1>4. IsFiniteSet(here)
  <2>1. IsFiniteSet((0 .. SizeX - 1) \X (0 .. SizeZ - 1))
    BY <1>2, FS_Product, FS_Interval, 0 \in Int, SizeX - 1 \in Int, SizeZ - 1 \in Int
  <2>2. here \subseteq (0 .. SizeX - 1) \X (0 .. SizeZ - 1)
    BY <1>3
  <2>3. QED
    BY <2>1, <2>2, FS_Subset
<1>5. Cardinality(here) > 0 <=> here # {}
  BY <1>4, FS_EmptySet, FS_CardinalityType
<1>6. c \in Marked(Voxels) <=> here # {}
  <2> HIDE DEF found
  <2>1. c \in Marked(Voxels) <=> Cardinality({v \in Voxels : v[1] = c}) > 0
    BY <1>2 DEF Marked
  <2>2. QED
    BY <1>1, <1>5, <2>1
<1>7. here # {} <=> \E q \in Cloud(robot_x, objects) : Counts(q) /\ Cell(q.x) = c
  <2> HIDE DEF Counts
  <2>1. \A q : <<Cell(q.x), Level(q)>>[1] = Cell(q.x)
    OBVIOUS
  <2>2. ASSUME NEW v \in here
        PROVE  \E q \in Cloud(robot_x, objects) : Counts(q) /\ Cell(q.x) = c
    <3>1. PICK q \in {p \in Cloud(robot_x, objects) : Counts(p)} : v = <<Cell(q.x), Level(q)>>
      OBVIOUS
    <3>2. v[1] = c
      OBVIOUS
    <3>3. QED
      BY <2>1, <3>1, <3>2
  <2>3. ASSUME NEW q \in Cloud(robot_x, objects), Counts(q), Cell(q.x) = c
        PROVE  <<Cell(q.x), Level(q)>> \in here
    BY <2>1, <2>3
  <2> HIDE DEF here
  <2>4. (\E v : v \in here) <=> here # {}
    OBVIOUS
  <2>5. QED
    BY <2>2, <2>3, <2>4
<1>8. QED
  BY <1>6, <1>7

(* The outline's ends, and those of the one that is used as a filter: what *)
(* lies beyond them is not under the robot.                                *)
LEMMA OutlinesAre ==
  ASSUME GridShape
  PROVE  \E front, back \in Nat \ {0}, far, rear \in Nat :
           /\ front <= far /\ back <= rear
           /\ Min(FootprintEnds) = robot_x - back /\ Max(FootprintEnds) = robot_x + front
           /\ FootprintEnds \subseteq robot_x - back .. robot_x + front
           /\ Min(OutlineEnds) = robot_x - rear /\ Max(OutlineEnds) = robot_x + far
           /\ \A p \in GridPoint : p.x < robot_x - rear \/ p.x > robot_x + far => ~UnderRobot(p)
           /\ \A p \in GridPoint : ~UnderRobot(p) /\ (p.x < robot_x - back \/ p.x > robot_x + front)
                              => p.x <= robot_x - rear \/ p.x >= robot_x + far
<1>1. PICK front, left, back, right \in Nat \ {0} : Footprint = Diamond(front, left, back, right)
  BY OutlineIs
<1>2. robot_x \in Int /\ layer.footprint_padding \in Nat
  BY LayerParameters DEF GridShape
<1>3. /\ Min(FootprintEnds) = robot_x - back /\ Max(FootprintEnds) = robot_x + front
      /\ FootprintEnds \subseteq robot_x - back .. robot_x + front
  <2>1. FootprintEnds = EndsAround(robot_x, Footprint)
    BY DEF FootprintEnds, EndsAround
  <2>2. PICK ends : ends = EndsAround(robot_x, Diamond(front, left, back, right))
    OBVIOUS
  <2>3. /\ Min(ends) = robot_x - back /\ Max(ends) = robot_x + front
        /\ ends \subseteq robot_x - back .. robot_x + front
    <3>1. PICK x \in Int : x = robot_x
      BY <1>2
    <3>2. Min(ends) = x - back /\ Max(ends) = x + front
      BY <2>2, <3>1, EndsOfDiamond
    <3>3. ends \subseteq x - back .. x + front
      BY <2>2, <3>1, EndsOfDiamond
    <3>4. QED
      BY <3>1, <3>2, <3>3
  <2>4. FootprintEnds = ends
    BY <1>1, <2>1, <2>2
  <2>5. QED
    BY <2>3, <2>4
<1>4. CASE padded_footprint_ = <<>>
  <2>1. OutlineEnds = FootprintEnds
    BY <1>4 DEF OutlineEnds, FootprintEnds
  <2>2. \A p \in GridPoint : ~UnderRobot(p)
    BY <1>4 DEF UnderRobot
  <2>3. /\ \A p \in GridPoint : p.x < robot_x - back \/ p.x > robot_x + front => ~UnderRobot(p)
        /\ \A p \in GridPoint : ~UnderRobot(p) /\ (p.x < robot_x - back \/ p.x > robot_x + front)
                           => p.x <= robot_x - back \/ p.x >= robot_x + front
    BY <1>2, <2>2 DEF GridPoint
  <2>4. WITNESS front \in Nat \ {0}, back \in Nat \ {0}, front \in Nat, back \in Nat
  <2>5. QED
    BY <1>3, <2>1, <2>3
<1>5. CASE padded_footprint_ = Padded(Footprint, layer.footprint_padding)
  <2>1. PICK by \in Nat : by = layer.footprint_padding
    BY <1>2
  <2>2. padded_footprint_ = Diamond(front + by, left + by, back + by, right + by)
    <3>1. Padded(Diamond(front, left, back, right), by)
            = Diamond(front + by, left + by, back + by, right + by)
      BY PaddedOutlineIs
    <3>2. QED
      BY <1>1, <1>5, <2>1, <3>1
  <2>3. padded_footprint_ # <<>>
    BY <2>2 DEF Diamond
  <2>4. PICK F \in Nat \ {0}, L \in Nat \ {0}, B \in Nat \ {0}, R \in Nat \ {0} :
          F = front + by /\ L = left + by /\ B = back + by /\ R = right + by
    OBVIOUS
  <2>5. padded_footprint_ = Diamond(F, L, B, R)
    BY <2>2, <2>4
  <2>6. Min(OutlineEnds) = robot_x - B /\ Max(OutlineEnds) = robot_x + F
    <3>1. OutlineEnds = EndsAround(robot_x, padded_footprint_)
      BY <2>3 DEF OutlineEnds, EndsAround
    <3>2. QED
      BY <1>2, <2>5, <3>1, EndsOfDiamond
  <2>7. ASSUME NEW p \in GridPoint
        PROVE  UnderRobot(p) <=> -B <= p.x - robot_x /\ p.x - robot_x < F
    <3>1. PICK y \in Int : y = p.x - robot_x
      BY <1>2 DEF GridPoint
    <3>2. UnderRobot(p) <=> IsPointInPolygon(y, 0, Diamond(F, L, B, R))
      BY <2>3, <2>5, <3>1 DEF UnderRobot
    <3>3. QED
      BY <3>1, <3>2, InsideDiamond
  <2>8. /\ \A p \in GridPoint : p.x < robot_x - B \/ p.x > robot_x + F => ~UnderRobot(p)
        /\ \A p \in GridPoint : ~UnderRobot(p) /\ (p.x < robot_x - back \/ p.x > robot_x + front)
                           => p.x <= robot_x - B \/ p.x >= robot_x + F
    BY <1>2, <2>7 DEF GridPoint
  <2>9. front <= F /\ back <= B
    BY <2>4
  <2>10. WITNESS front \in Nat \ {0}, back \in Nat \ {0}, F \in Nat, B \in Nat
  <2>11. QED
    BY <1>3, <2>6, <2>8, <2>9
<1>6. QED
  BY <1>4, <1>5 DEF GridShape

(* A cell that is seen is between the outermost rays. *)
LEMMA SeenIsBetween ==
  ASSUME GridShape, UpdateBounds, AllCurrent, NEW k \in Int, origin_x_' = 2 * k,
         NEW c \in 0 .. SizeX - 1, NEW x \in Reached(robot_x),
         x - robot_x \in -layer.raytrace_max_range .. layer.raytrace_max_range,
         x \div 2 = c + k
  PROVE  c \in Between(Bounds)
<1>1. PICK rt \in Nat : rt = layer.raytrace_max_range
  BY LayerParameters DEF GridShape
<1>2. robot_x \in Int /\ SizeX \in Nat /\ Reach \in Nat
  BY LayerParameters DEF GridShape
<1>3. x \in Int
  BY <1>2 DEF Reached
<1>4. Cell(x) = c
  <2>1. Cell(x) = x \div 2 - k
    BY <1>3, CellIs
  <2>2. QED
    BY <1>2, <2>1
<1>5. InWindow(x)
  BY <1>3, <1>4, CellIs
<1>6. x \in Bounds
  <2>1. x \in RayEnds
    BY <1>5, RaysReach
  <2>2. QED
    BY <2>1 DEF Bounds
<1>7. PICK front \in Nat, back \in Nat : FootprintEnds \subseteq robot_x - back .. robot_x + front
  BY OutlinesAre
<1>8. Bounds \subseteq robot_x - (rt + back) .. robot_x + (rt + front)
  <2>1. RayEnds \subseteq robot_x - rt .. robot_x + rt
    BY <1>1, RaysReach
  <2>2. QED
    BY <1>2, <1>7, <2>1 DEF Bounds
<1>9. /\ Min(Bounds) \in Bounds /\ Min(Bounds) <= x
      /\ Max(Bounds) \in Bounds /\ x <= Max(Bounds)
  <2>1. robot_x - (rt + back) \in Int /\ robot_x + (rt + front) \in Int /\ Bounds # {}
    BY <1>2, <1>6
  <2>2. QED
    BY <1>6, <1>8, <2>1, EndsOfInterval
<1>10. PICK low \in Int, high \in Int : low = Min(Bounds) /\ high = Max(Bounds)
  <2>1. Min(Bounds) \in Int /\ Max(Bounds) \in Int
    <3>1. \A y \in Bounds : y \in Int
      BY <1>8
    <3>2. QED
      BY <1>9, <3>1
  <2>2. QED
    BY <2>1
<1>11. Cell(low) <= Cell(x) /\ Cell(x) <= Cell(high)
  BY <1>3, <1>9, <1>10, CellsAreOrdered
<1>12. Cell(low) \in Int /\ Cell(high) \in Int
  BY CellIs
<1>13. QED
  BY <1>4, <1>10, <1>11, <1>12 DEF Between

\* Squares are positive.
LEMMA SquareIsPositive ==
  ASSUME NEW a \in Int
  PROVE  a * a >= 0 /\ (a # 0 => a * a > 0)
<1>1. CASE a = 0
  BY <1>1
<1>2. CASE a > 0
  BY <1>2, SignOfProduct
<1>3. CASE a < 0
  BY <1>3, SignOfProduct, -a \in Nat \ {0}, a * a = -(a * (-a))
<1>4. QED
  BY <1>1, <1>2, <1>3

\* After a cycle the property holds, however it was before.
LEMMA MapIsRenewed ==
  ASSUME GridShape, UpdateBounds
  PROVE  MapFollowsWorld'
<1>1. PICK k \in Int : origin_x_' = 2 * k
  BY WindowIsAround
<1>2. /\ layer' = layer /\ padded_footprint_' = padded_footprint_ /\ robot_x' = robot_x
      /\ objects' = objects /\ observations' = observations /\ master_x' = origin_x_'
  BY WindowIsAround DEF UpdateBounds
<1>3. OutlineEnds' = OutlineEnds /\ Now' = Now /\ (AllCurrent' <=> AllCurrent) /\ Obstacles' = Obstacles
  <2>1. OutlineEnds' = OutlineEnds
    BY <1>2 DEF OutlineEnds
  <2>2. Now' = Now
    BY <1>2 DEF Now
  <2>3. AllCurrent' <=> AllCurrent
    BY <1>2, <2>2 DEF AllCurrent
  <2>4. Obstacles' = Obstacles
    BY <1>2 DEF Obstacles, Level
  <2>5. QED
    BY <2>1, <2>2, <2>3, <2>4
<1>4. /\ layer.min_obstacle_height \in Int /\ layer.max_obstacle_height \in Int
      /\ layer.min_obstacle_intensity \in Nat \ {0} /\ layer.max_obstacle_intensity \in Nat
      /\ layer.min_range = 0 /\ layer.max_range \in Nat /\ layer.raytrace_max_range \in Nat
      /\ robot_x \in Int /\ SizeX \in Nat /\ objects \subseteq GridPoint
  BY LayerParameters DEF GridShape, GridPoint
<1>5. \A x \in Int : /\ x \div 2 \in Int
                     /\ 2 * (x \div 2) <= x /\ x < 2 * (x \div 2) + 2
  BY QuotientIs, 2 \in Nat \ {0}
<1>6. \A c : PlaceOfCell(c)' = c + k
  BY <1>1, <1>2 DEF PlaceOfCell, Resolution
<1>7. \A x \in Int, c \in Int : Cell(x) = c <=> x \div 2 = c + k
  <2> SUFFICES ASSUME NEW x \in Int, NEW c \in Int
               PROVE  Cell(x) = c <=> x \div 2 = c + k
    OBVIOUS
  <2>1. PICK a \in Int : a = x \div 2
    BY <1>5
  <2>2. Cell(x) = a - k
    BY <1>1, <2>1, CellIs
  <2>3. QED
    BY <2>1, <2>2
<1>8. PICK front \in Nat \ {0}, back \in Nat \ {0}, far \in Nat, rear \in Nat :
           /\ front <= far /\ back <= rear
           /\ Min(FootprintEnds) = robot_x - back /\ Max(FootprintEnds) = robot_x + front
           /\ FootprintEnds \subseteq robot_x - back .. robot_x + front
           /\ Min(OutlineEnds) = robot_x - rear /\ Max(OutlineEnds) = robot_x + far
           /\ \A p \in GridPoint : p.x < robot_x - rear \/ p.x > robot_x + far => ~UnderRobot(p)
           /\ \A p \in GridPoint : ~UnderRobot(p) /\ (p.x < robot_x - back \/ p.x > robot_x + front)
                              => p.x <= robot_x - rear \/ p.x >= robot_x + far
  BY OutlinesAre
<1> SUFFICES ASSUME layer.enabled, AllCurrent, NEW c \in SeenCells'
             PROVE  /\ c \in master' =>
                         StandsIn(c, {o \in Obstacles : o.x <= Min(OutlineEnds) \/ o.x >= Max(OutlineEnds)})'
                    /\ /\ StandsIn(c, Obstacles)'
                       /\ \A x \in Min(OutlineEnds') .. Max(OutlineEnds') : x \div 2 # PlaceOfCell(c)'
                       => c \in master'
  <2>1. /\ observations' # <<>> /\ (\A i \in DOMAIN observations' : observations'[i] = Now') <=> AllCurrent
    BY <1>3 DEF AllCurrent
  <2>2. layer'.enabled <=> layer.enabled
    BY <1>2
  <2>3. QED
    BY <2>1, <2>2 DEF MapFollowsWorld, Resolution
<1>9. c \in 0 .. SizeX - 1
  BY DEF SeenCells
<1>10. PICK y \in Reached(robot_x) :
          /\ y - robot_x \in -layer.raytrace_max_range .. layer.raytrace_max_range
          /\ y \div 2 = c + k
  BY <1>2, <1>6 DEF SeenCells, Resolution
<1>11. c \in Between(Bounds)
  BY <1>1, <1>9, <1>10, SeenIsBetween
<1>12. c \in master' <=> c \in Marked(Voxels) /\ c \notin UnderFootprint
  BY <1>11 DEF UpdateBounds, ResetMaps
<1>13. c \in UnderFootprint <=> \E x \in robot_x - back .. robot_x + front : Cell(x) = c
  BY <1>8 DEF UnderFootprint
<1>14. ASSUME c \in master'
       PROVE  \E o \in Obstacles : /\ o.x <= Min(OutlineEnds) \/ o.x >= Max(OutlineEnds)
                                   /\ o.x \div 2 = c + k
  <2>1. PICK q \in Cloud(robot_x, objects) : /\ IsObstacle(q, robot_x) /\ InWindow(q.x)
                                             /\ Level(q) < SizeZ /\ Cell(q.x) = c
    BY <1>9, <1>12, <1>14, MarkedIs
  <2>2. q \in GridPoint /\ q.x \in Int /\ q.z \in Int /\ q.intensity \in Nat /\ q.x \in Reached(robot_x)
    BY CloudIs DEF GridPoint
  <2>3. q \in objects
    <3>1. q.intensity # 0
      BY <1>4, <2>1, <2>2 DEF IsObstacle
    <3>2. QED
      BY <3>1, CloudIs
  <2>4. q \in Obstacles
    BY <1>4, <2>1, <2>2, <2>3 DEF Obstacles, IsObstacle
  <2>5. q.x < robot_x - back \/ q.x > robot_x + front
    <3>1. q.x \notin robot_x - back .. robot_x + front
      BY <1>12, <1>13, <1>14, <2>1
    <3>2. QED
      BY <1>4, <2>2, <3>1
  <2>6. q.x <= robot_x - rear \/ q.x >= robot_x + far
    BY <1>8, <2>1, <2>2, <2>5 DEF IsObstacle
  <2>7. q.x \div 2 = c + k
    BY <1>7, <1>9, <2>1, <2>2
  <2>8. QED
    BY <1>8, <2>4, <2>6, <2>7
<1>15. ASSUME NEW o \in Obstacles, o.x \div 2 = c + k,
              \A x \in Min(OutlineEnds) .. Max(OutlineEnds) : x \div 2 # c + k
       PROVE  c \in master'
  <2>1. o \in objects /\ o \in GridPoint /\ o.x \in Int /\ o.z \in Int /\ o.intensity \in Nat
    BY <1>4 DEF Obstacles, GridPoint
  <2>2. o.x < robot_x - rear \/ o.x > robot_x + far
    <3>1. o.x \notin robot_x - rear .. robot_x + far
      BY <1>8, <1>15
    <3>2. QED
      BY <1>4, <2>1, <3>1
  <2>3. ~UnderRobot(o)
    <3>1. \A p \in GridPoint : p.x < robot_x - rear \/ p.x > robot_x + far => ~UnderRobot(p)
      BY <1>8
    <3>2. QED
      BY <2>1, <2>2, <3>1
  <2>4. (o.x - robot_x) * (o.x - robot_x) + o.z * o.z > 0
    <3>1. PICK d \in Int, z \in Int : d = o.x - robot_x /\ z = o.z /\ d # 0
      BY <1>4, <2>1, <2>2
    <3>2. d * d > 0 /\ z * z >= 0
      <4>1. \A a \in Int : a * a >= 0 /\ (a # 0 => a * a > 0)
        BY SquareIsPositive
      <4>2. QED
        BY <3>1, <4>1
    <3>3. PICK dd \in Int, zz \in Int : dd = d * d /\ zz = z * z
      OBVIOUS
    <3>4. dd + zz > 0
      BY <3>2, <3>3
    <3>5. QED
      BY <3>1, <3>3, <3>4
  <2>5. IsObstacle(o, robot_x)
    BY <1>4, <2>1, <2>3, <2>4 DEF Obstacles, IsObstacle
  <2>6. Cell(o.x) = c
    BY <1>7, <1>9, <1>15, <2>1
  <2>7. InWindow(o.x)
    BY <1>1, <1>9, <2>1, <2>6, CellIs
  <2>8. o \in Cloud(robot_x, objects)
    BY <2>1, CloudIs DEF Obstacles
  <2>9. c \in Marked(Voxels)
    <3>1. Level(o) < SizeZ
      BY DEF Obstacles
    <3>2. QED
      BY <1>9, <2>5, <2>6, <2>7, <2>8, <3>1, MarkedIs
  <2>10. c \notin UnderFootprint
    <3>1. ASSUME NEW x \in robot_x - back .. robot_x + front, Cell(x) = c
          PROVE  FALSE
      <4>1. x \in Int /\ x \in robot_x - rear .. robot_x + far
        BY <1>4, <1>8
      <4>2. x \div 2 = c + k
        BY <1>7, <1>9, <3>1, <4>1
      <4>3. QED
        BY <1>8, <1>15, <4>1, <4>2
    <3>2. QED
      BY <1>13, <3>1
  <2>11. QED
    BY <1>12, <2>9, <2>10
<1>16. QED
  BY <1>3, <1>6, <1>14, <1>15 DEF StandsIn, Resolution

GridInv == GridShape /\ MapFollowsWorld

\* Nothing has been written yet.
LEMMA GridInitInv == GridInit => GridInv
<1> SUFFICES ASSUME GridInit PROVE GridInv
  OBVIOUS
<1>1. GridShape
  <2>1. padded_footprint_ \in {<<>>, Padded(Footprint, layer.footprint_padding)}
    BY DEF GridInit
  <2>2. robot_x \in Int /\ layer \in Layers /\ objects \subseteq Objects
    BY LayerParameters DEF GridInit
  <2>3. observations \in Seq(GridObservation)
    BY DEF GridInit
  <2>4. master_x = origin_x_ /\ origin_x_ = 2 * 0
    BY DEF GridInit
  <2>5. QED
    BY <2>1, <2>2, <2>3, <2>4, 0 \in Int DEF GridShape
<1>2. MapFollowsWorld
  BY DEF GridInit, MapFollowsWorld
<1>3. QED
  BY <1>1, <1>2 DEF GridInv

\* Every step keeps the shape of the state.
LEMMA GridStepShape == GridShape /\ [GridNext]_gridVars => GridShape'
<1> SUFFICES ASSUME GridShape, [GridNext]_gridVars PROVE GridShape'
  OBVIOUS
<1>1. CASE \E x \in Track : RobotDrives(x)
  BY <1>1, LayerParameters DEF RobotDrives, GridShape
<1>2. CASE \E things \in SUBSET Objects : ObjectsMove(things)
  BY <1>2 DEF ObjectsMove, GridShape
<1>3. CASE CloudComes
  <2>1. Now \in GridObservation
    BY CloudIs DEF Now, GridObservation, GridShape
  <2>2. observations' \in Seq(GridObservation)
    BY <1>3, <2>1 DEF CloudComes, GridShape
  <2>3. QED
    BY <1>3, <2>2 DEF CloudComes, GridShape
<1>4. CASE ObservationExpires
  <2>1. observations' \in Seq(GridObservation)
    BY <1>4 DEF ObservationExpires, GridShape
  <2>2. QED
    BY <1>4, <2>1 DEF ObservationExpires, GridShape
<1>5. CASE UpdateBounds
  <2>1. master_x' = origin_x_' /\ \E k \in Int : origin_x_' = 2 * k
    BY <1>5, WindowIsAround
  <2>2. QED
    BY <1>5, <2>1 DEF UpdateBounds, GridShape
<1>6. CASE UNCHANGED gridVars
  BY <1>6 DEF gridVars, GridShape
<1>7. QED
  BY <1>1, <1>2, <1>3, <1>4, <1>5, <1>6 DEF GridNext

\* Every other step leaves the map older than the world.
LEMMA GridStepFollows == GridInv /\ [GridNext]_gridVars => MapFollowsWorld'
<1> SUFFICES ASSUME GridInv, [GridNext]_gridVars PROVE MapFollowsWorld'
  OBVIOUS
<1>1. CASE \E x \in Track : RobotDrives(x)
  BY <1>1 DEF RobotDrives, MapFollowsWorld
<1>2. CASE \E things \in SUBSET Objects : ObjectsMove(things)
  BY <1>2 DEF ObjectsMove, MapFollowsWorld
<1>3. CASE CloudComes
  BY <1>3 DEF CloudComes, MapFollowsWorld
<1>4. CASE ObservationExpires
  <2>1. updated' = FALSE
    BY <1>4 DEF ObservationExpires
  <2>2. QED
    BY <2>1 DEF MapFollowsWorld
<1>5. CASE UpdateBounds
  BY <1>5, MapIsRenewed DEF GridInv
<1>6. CASE UNCHANGED gridVars
  <2>1. /\ layer' = layer /\ padded_footprint_' = padded_footprint_ /\ robot_x' = robot_x
        /\ objects' = objects /\ observations' = observations /\ master_x' = master_x
        /\ master' = master /\ updated' = updated
    BY <1>6 DEF gridVars
  <2>2. OutlineEnds' = OutlineEnds /\ Now' = Now /\ Obstacles' = Obstacles
    BY <2>1 DEF OutlineEnds, Now, Obstacles, Level
  <2>3. \A c : PlaceOfCell(c)' = PlaceOfCell(c)
    BY <2>1 DEF PlaceOfCell
  <2>4. SeenCells' = SeenCells
    BY <2>1, <2>3 DEF SeenCells
  <2>5. \A c, things : StandsIn(c, things)' <=> StandsIn(c, things)
    BY <2>3 DEF StandsIn
  <2>6. QED
    BY <2>1, <2>2, <2>3, <2>4, <2>5 DEF GridInv, MapFollowsWorld
<1>7. QED
  BY <1>1, <1>2, <1>3, <1>4, <1>5, <1>6 DEF GridNext

\* When every observation is of the world as it is, what the layer wrote into
\* the costmap follows the world, for every window, outline and range.
THEOREM GridInvariant == GridSpec => []MapFollowsWorld
<1>1. GridInv /\ [GridNext]_gridVars => GridInv'
  BY GridStepShape, GridStepFollows DEF GridInv
<1>2. GridInv => MapFollowsWorld
  BY DEF GridInv
<1>3. QED
  BY GridInitInv, <1>1, <1>2, PTL DEF GridSpec
=============================================================================

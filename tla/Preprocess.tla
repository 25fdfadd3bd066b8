------------------------------ MODULE Preprocess ------------------------------
(***************************************************************************)
(* How point_lio makes a scan of a message (preprocess.cpp): a handler per *)
(* kind of lidar, one step per point of the message.  A rotating lidar     *)
(* whose points carry no time has it computed from their angles.           *)
(*                                                                         *)
(* Angles and times are in the units of a revolution of Turn; the lidar    *)
(* turns clockwise, and a ring has points in every revolution.             *)
(* elapsed is the true time of the point, what its stamp holds if it has   *)
(* one.  A point is "good", "near" (or far), "nan", or "noise" to the tag  *)
(* that only the Livox lidar sets; two points at one place are "same".     *)
(***************************************************************************)
EXTENDS Integers

CONSTANTS
  Turn,             \* units of a revolution
  Rings,
  point_filter_num,
  MaxPoints,        \* bound on points of a message
  NaN, NoYaw

ASSUME PreprocessAssumption ==
  /\ {Turn, point_filter_num, MaxPoints} \subseteq Nat \ {0}
  /\ Rings # {} /\ NaN \notin Int /\ NoYaw \notin Int /\ NaN # NoYaw

VARIABLES
  handler, given_offset_time,
  i, elapsed,      \* the index of the next point, and the time of the last one
  valid_num,       \* points that passed the tag
  fullBefore,      \* pl_full[i - 1]: was it filled in?
  yaw_fp, time_last, \* per ring: angle of the first point, offset of the last one
  pl_surf,         \* the points kept
  seen,            \* per ring: the time of the last point
  spoilt           \* history: the rings that had a point whose time is NaN

preprocessVars == <<handler, given_offset_time, i, elapsed, valid_num, fullBefore,
                    yaw_fp, time_last, pl_surf, seen, spoilt>>

PreprocessInit ==
  /\ handler \in {"avia", "oust64", "velodyne", "hesai"}
  /\ given_offset_time \in BOOLEAN
  /\ handler \in {"avia", "oust64"} => given_offset_time
  /\ i = 0 /\ elapsed = 0 /\ valid_num = 0 /\ fullBefore = FALSE
  /\ yaw_fp = [r \in Rings |-> NoYaw] /\ time_last = [r \in Rings |-> 0]
  /\ pl_surf = {} /\ spoilt = {} /\ seen = [r \in Rings |-> 0]

\* The next point: ring, kind, and the time since the point before.
Points == [ring : Rings, kind : {"good", "near", "nan", "noise", "same"}, after : 0 .. Turn - 1]

Selected == i % point_filter_num = 0
Kept(p, curvature) == pl_surf \cup {[ring |-> p.ring, curvature |-> curvature, time |-> elapsed']}

(***************************************************************************)
(* avia_handler: the first point is never used, every point_filter_num-th  *)
(* valid point is, unless it has the place of pl_full[i - 1], which is     *)
(* filled in only if it was selected too.                                  *)
(***************************************************************************)
AviaPoint(p) ==
  LET valid  == i > 0 /\ p.kind # "noise"
      number == IF valid THEN valid_num + 1 ELSE valid_num
      chosen == valid /\ number % point_filter_num = 0
  IN  /\ handler = "avia"
      /\ valid_num' = number
      /\ fullBefore' = chosen
      /\ pl_surf' = IF chosen /\ (p.kind = "good" \/ (p.kind = "same" /\ ~fullBefore))
                    THEN Kept(p, elapsed') ELSE pl_surf
      /\ UNCHANGED <<yaw_fp, time_last, spoilt>>

\* oust64_handler, and the other two when the points have times
StampedPoint(p) ==
  /\ handler # "avia" /\ given_offset_time
  /\ pl_surf' = IF Selected /\ p.kind \in {"good", "same"} THEN Kept(p, elapsed') ELSE pl_surf
  /\ UNCHANGED <<valid_num, fullBefore, yaw_fp, time_last, spoilt>>

Yaw(p) == IF p.kind = "nan" THEN NaN ELSE (-elapsed') % Turn

(***************************************************************************)
(* velodyne_handler: all rings count as ring 0 (here any fixed one), and a *)
(* point at the angle of the first is taken for a revolution later.        *)
(***************************************************************************)
VelodynePoint(p) ==
  LET layer == CHOOSE r \in Rings : TRUE
      fp    == yaw_fp[layer]
      curvature == IF Yaw(p) < fp THEN fp - Yaw(p) ELSE fp - Yaw(p) + Turn
  IN  /\ handler = "velodyne" /\ ~given_offset_time
      /\ IF ~Selected \/ p.kind = "nan" THEN UNCHANGED <<yaw_fp, pl_surf>>
         ELSE IF fp = NoYaw THEN yaw_fp' = [yaw_fp EXCEPT ![layer] = Yaw(p)] /\ UNCHANGED pl_surf
         ELSE /\ pl_surf' = IF p.kind # "near" THEN Kept(p, curvature) ELSE pl_surf
              /\ UNCHANGED yaw_fp
      /\ UNCHANGED <<valid_num, fullBefore, time_last, spoilt>>

\* The offset of the next revolution, if it seems to go back; NaN compares with nothing.
Wrapped_Never(offset, last) == offset

Wrapped(offset, last) == IF last # NaN /\ offset < last THEN offset + Turn ELSE offset

(***************************************************************************)
(* hesai_handler: every point of a ring, kept or not, moves its time on.   *)
(* What is computed from a point that is not a number is none either.      *)
(***************************************************************************)
HesaiPoint(p) ==
  LET fp  == yaw_fp[p.ring]
      raw == IF Yaw(p) <= fp THEN fp - Yaw(p) ELSE fp - Yaw(p) + Turn
      curvature == IF NaN \in {fp, Yaw(p)} THEN NaN ELSE Wrapped(raw, time_last[p.ring])
  IN  /\ handler = "hesai" /\ ~given_offset_time
      /\ IF fp = NoYaw
         THEN yaw_fp' = [yaw_fp EXCEPT ![p.ring] = Yaw(p)] /\ UNCHANGED <<time_last, pl_surf, spoilt>>
         ELSE /\ time_last' = [time_last EXCEPT ![p.ring] = curvature]
              /\ pl_surf' = IF Selected /\ p.kind \in {"good", "same"}
                            THEN Kept(p, curvature) ELSE pl_surf
              /\ spoilt' = IF curvature = NaN THEN spoilt \cup {p.ring} ELSE spoilt
              /\ UNCHANGED yaw_fp
      /\ UNCHANGED <<valid_num, fullBefore>>

NextPointOfMessage(p) ==
  /\ i < MaxPoints
  /\ i' = i + 1
  /\ elapsed' = elapsed + p.after
  /\ elapsed' - seen[p.ring] < Turn /\ seen' = [seen EXCEPT ![p.ring] = elapsed']
  /\ AviaPoint(p) \/ StampedPoint(p) \/ VelodynePoint(p) \/ HesaiPoint(p)
  /\ UNCHANGED <<handler, given_offset_time>>

PreprocessNext == \E p \in Points : NextPointOfMessage(p)

PreprocessSpec == PreprocessInit /\ [][PreprocessNext]_preprocessVars

(***************************************************************************)
(* The offsets of the points of a ring differ as their true times do, in   *)
(* a message of less than two revolutions, or less than one if the lidar   *)
(* is a Velodyne and away from its first angle.  Points without a place    *)
(* are exempt: hesai_handler takes their angle all the same.               *)
(***************************************************************************)
OffsetsAreTimes ==
  \A p, q \in pl_surf :
    /\ p.ring = q.ring /\ p.ring \notin spoilt
    /\ ~given_offset_time => IF handler = "hesai" THEN elapsed < 2 * Turn
                             ELSE elapsed < Turn /\ Turn \notin {p.curvature, q.curvature}
    => p.curvature - q.curvature = p.time - q.time
===============================================================================

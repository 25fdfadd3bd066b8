--------------------------- MODULE MCChassisCommand ---------------------------
(* Instances of ChassisCommand for TLC: one goal at a time, no waypoints. *)
EXTENDS ChassisCommand

CONSTANTS x, y

MCPoints == {x, y}
NoWaypoints == <<>>
OneHitPoints == {400}
MCProgress == {3, 4}
\* standstill, below and within the dead zone, above it; units of 1/160 m/s
MCVelocities == {0, 1, -40}
NoFaults == {}
==============================================================================

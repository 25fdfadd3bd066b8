--------------------------- MODULE MCSentryDecision ---------------------------
(* Instances of SentryDecision for TLC. *)
EXTENDS SentryDecision, TLC

CONSTANTS g1, g2, g3, x1, x2, y1, y2

MCPoints == {x1, x2, y1, y2}
MCWaypointsX == <<x1>>
MCWaypointsY == <<y1>>
NoWaypoints == <<>>

\* hit points below the low threshold, between the two, above the high one
MCHitPoints == {100, 200, 400}
TwoHitPoints == {100, 400}
OneHitPoints == {400}

\* outside a match, in a match, in a match that can end
MCProgress == {3, 4, 68}

LiveProgress == {3, 68}

\* a match that goes on
InMatchProgress == {4}

MCVelocities == {0, 1}
MCStill == {0}

AllFaults == {"rejected", "aborted", "unknown", "outage"}
Refusals == {"rejected", "unknown"}
Outages == {"outage"}
Aborts == {"aborted"}
NoFaults == {}

GoalSymmetry == Permutations(Goals)
==============================================================================

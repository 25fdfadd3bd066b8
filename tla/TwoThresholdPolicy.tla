-------------------------- MODULE TwoThresholdPolicy --------------------------
(***************************************************************************)
(* What the decision node promises of hit points and of the match, without *)
(* goals, queues and replies: the robot attacks or retreats only in a      *)
(* match, retreats only below the low threshold, and turns a retreat into  *)
(* an attack only at the high threshold or above.                          *)
(***************************************************************************)
EXTENDS Naturals

CONSTANTS low, high

VARIABLES hp, progress, mode

vars == <<hp, progress, mode>>

InMatch == progress \in {4, 68}

Init == hp = 0 /\ progress = 0 /\ mode = "none"

(* The referee system reports; a match that has begun (4) never ends. *)
Report ==
  /\ progress = 4 => progress' = 4
  /\ UNCHANGED mode

Retreat ==
  /\ InMatch
  /\ hp < low
  /\ mode # "retreat"
  /\ mode' = "retreat"
  /\ UNCHANGED <<hp, progress>>

Attack ==
  /\ InMatch
  /\ hp >= low
  /\ mode = "retreat" => hp >= high
  /\ mode # "attack"
  /\ mode' = "attack"
  /\ UNCHANGED <<hp, progress>>

(* The match is over, or navigation has failed. *)
Release ==
  /\ mode' = "none"
  /\ UNCHANGED <<hp, progress>>

Next == Report \/ Retreat \/ Attack \/ Release

Spec == Init /\ [][Next]_vars
==============================================================================

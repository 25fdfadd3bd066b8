--------------------------- MODULE BackUpFreeSpace ---------------------------
(***************************************************************************)
(* The recovery behaviour that drives a stuck robot into free space: it     *)
(* looks at the costmap along Rays + 1 directions from -pi to pi, picks the *)
(* middle of a sector of free rays and drives there for a distance.         *)
(*                                                                         *)
(* A direction is the number of its ray, 0 for -pi, and the middle one is   *)
(* the angle 0.  Along a ray nothing but free or blocked is told apart.     *)
(***************************************************************************)
EXTENDS Integers

CONSTANTS Rays,             \* (end_angle - start_angle) / angle_increment
          BackupDist,       \* command_x_ in cycles of driving
          NoAngle           \* the initial -1.0f, which is no ray

ASSUME RaysAssumption == Rays \in Nat \ {0} /\ Rays % 2 = 0 /\ BackupDist \in Nat

ASSUME NoAngleAssumption == NoAngle \notin 0..Rays

VARIABLES status,           \* of the behaviour
          free,             \* of each ray, whether all of its cells are free
          ray,              \* the next one to look at
          first_safe, last_unsafe,
          final_safe, final_unsafe,
          travelled,        \* distance from initial_pose_
          twist             \* the last command: "stop" or "drive"

sectorVars == <<first_safe, last_unsafe, final_safe, final_unsafe>>
backUpVars == <<status, free, ray, sectorVars, travelled, twist>>

BackUpInit ==
  /\ status = "idle"
  /\ free = [r \in 0..Rays |-> TRUE]
  /\ ray = 0
  /\ first_safe = NoAngle /\ last_unsafe = NoAngle
  /\ final_safe = Rays \div 2 /\ final_unsafe = Rays \div 2
  /\ travelled = 0
  /\ twist \in {"stop", "drive"}

\* Stops first, then asks for the costmap; without an answer within a second
\* or without a pose of the robot it fails.
OnRun(cells) ==
  /\ status \in {"idle", "failed", "succeeded"}
  /\ twist' = "stop"
  /\ \/ status' = "failed" /\ UNCHANGED <<free, ray, sectorVars>>
     \/ /\ status' = "searching"
        /\ cells[0] = cells[Rays]
        /\ free' = cells
        /\ ray' = 0
        /\ first_safe' = NoAngle /\ last_unsafe' = NoAngle
        /\ final_safe' = Rays \div 2 /\ final_unsafe' = Rays \div 2
  /\ travelled' = 0

\* A variant: only one end of a finished sector is forgotten.
Finish_KeepsFirst(first, last) ==
  /\ final_safe' = first /\ final_unsafe' = last
  /\ first_safe' = first /\ last_unsafe' = NoAngle

Finish(first, last) ==
  /\ final_safe' = first /\ final_unsafe' = last
  /\ first_safe' = NoAngle /\ last_unsafe' = NoAngle

\* One pass of the loop of findBestDirection.  A sector that is not larger
\* than the best one keeps both of its ends, and no other is begun.
LookAlongRay ==
  /\ status = "searching" /\ ray <= Rays
  /\ ray' = ray + 1
  /\ LET first == IF free[ray] /\ first_safe = NoAngle THEN ray ELSE first_safe
         last  == IF ~free[ray] /\ first # NoAngle /\ last_unsafe = NoAngle
                  THEN ray ELSE last_unsafe
         closed == first # NoAngle /\ last # NoAngle
     IN  IF closed /\ last - first > final_unsafe - final_safe
         THEN Finish(first, last)
         ELSE /\ first_safe' = first /\ last_unsafe' = last
              /\ UNCHANGED <<final_safe, final_unsafe>>
  /\ UNCHANGED <<status, free, travelled, twist>>

\* The direction is known; without a pose of the robot the behaviour fails.
SetOut ==
  /\ status = "searching" /\ ray > Rays
  /\ status' \in {"running", "failed"}
  /\ UNCHANGED <<free, ray, sectorVars, travelled, twist>>

\* Twice the chosen ray, which may lie between two.
BestDirection == final_safe + final_unsafe

OnCycleUpdate ==
  /\ status = "running"
  /\ \/ /\ status' = IF travelled >= BackupDist THEN "succeeded" ELSE "running"
        /\ twist' = IF travelled >= BackupDist THEN "stop" ELSE "drive"
     \/ status' = "failed" /\ twist' = "stop"       \* time is over, or a collision
     \/ status' = "failed" /\ UNCHANGED twist       \* no pose of the robot
  /\ UNCHANGED <<free, ray, sectorVars, travelled>>

\* The robot carries out the command.
Drives ==
  /\ twist = "drive" /\ travelled < BackupDist
  /\ travelled' = travelled + 1
  /\ UNCHANGED <<status, free, ray, sectorVars, twist>>

BackUpNext ==
  \/ \E cells \in [0..Rays -> BOOLEAN] : OnRun(cells)
  \/ LookAlongRay
  \/ SetOut
  \/ OnCycleUpdate
  \/ Drives

BackUpSpec == BackUpInit /\ [][BackUpNext]_backUpVars

-----------------------------------------------------------------------------
\* The type invariant of this module.
BackUpTypeOK ==
  /\ status \in {"idle", "searching", "running", "failed", "succeeded"}
  /\ ray \in 0..Rays + 1
  /\ {first_safe, last_unsafe} \subseteq 0..Rays \cup {NoAngle}
  /\ final_safe \in 0..Rays /\ final_unsafe \in final_safe..Rays
  /\ travelled \in 0..BackupDist

\* When some sector of free rays ends at a blocked one, the robot backs up
\* along a free ray, or between one and the blocked one that follows it, for
\* every pattern of free rays and whatever ends the search left behind.
BacksIntoFreeSpace ==
  status = "running" /\ (\E r \in 0..Rays - 1 : free[r] /\ ~free[r + 1]) =>
    free[BestDirection \div 2]
=============================================================================

-------------------------- MODULE FakeVelTransform --------------------------
(***************************************************************************)
(* fake_vel_transform keeps a frame at the gimbal that does not turn with   *)
(* it.  The controller computes its commands in that frame, and the node    *)
(* turns them by current_robot_base_angle_ into the frame of the gimbal.    *)
(* Twist carries no stamp, so the local plan, which the controller          *)
(* publishes in each cycle, tells that the controller is active: then the   *)
(* angle is frozen, and commands are cached and repeated by a timer.        *)
(*                                                                         *)
(* The controller server, with the velocity smoother behind it, is          *)
(* external: one cycle publishes a local plan and a command, drive or stop, *)
(* on two topics that are delivered in any order.  spin_speed_, which is    *)
(* added to every rotation, is left out.                                    *)
(***************************************************************************)
EXTENDS Integers, Sequences

CONSTANTS Timeout,          \* CONTROLLER_TIMEOUT in ticks
          Backlog,          \* bound on the commands on their topic
          NoCommand         \* latest_cmd_vel_ is null

ASSUME TimeoutAssumption == Timeout \in Nat \ {0} /\ Backlog \in Nat \ {0}

VARIABLES base_angle,       \* current_robot_base_angle_
          fake_frame,       \* the angle of the transform last broadcast
          broadcast,        \* the angle has not changed since (history)
          idle,             \* ticks since last_controller_activate_time_
          latest_cmd_vel,   \* the cached command or NoCommand
          chassis,          \* the command last published for the chassis
          following,        \* the controller server has a goal
          plan_topic,       \* a local plan is on its way
          cmd_topic         \* commands on their way

fakeVars == <<base_angle, fake_frame, broadcast, idle, latest_cmd_vel,
              chassis, following, plan_topic, cmd_topic>>

Turns == 0..1     \* two angles that the gimbal may have
\* A command is computed in the frame with the angle `frame`; `lapse` is the
\* history of what the freeze of the angle cannot make up for (see
\* TurnedAsComputed).  A stop has no direction.
Stop == [moves |-> FALSE, frame |-> 0, lapse |-> "none"]
Halt == [moves |-> FALSE, turned |-> 0, frame |-> 0, lapse |-> "none"]

FakeInit ==
  /\ base_angle = 0
  /\ fake_frame = 0
  /\ broadcast = TRUE
  /\ idle = Timeout + 1
  /\ latest_cmd_vel = NoCommand
  /\ chassis = Halt
  /\ following = FALSE
  /\ plan_topic = FALSE
  /\ cmd_topic = <<>>

TimedOut == idle > Timeout

-----------------------------------------------------------------------------
(* The controller server.                                                  *)

GoalAccepted ==
  /\ ~following
  /\ following' = TRUE
  /\ UNCHANGED <<base_angle, fake_frame, broadcast, idle, latest_cmd_vel, chassis,
                 plan_topic, cmd_topic>>

\* A cycle of the controller; it stops before an obstacle.
ControllerCycle(blocked) ==
  /\ following
  /\ Len(cmd_topic) < Backlog
  /\ plan_topic' = TRUE
  /\ cmd_topic' = Append(cmd_topic, IF blocked THEN Stop
                     ELSE [moves |-> TRUE, frame |-> fake_frame,
                           lapse |-> IF TimedOut THEN "unseen"
                                     ELSE IF ~broadcast THEN "unbroadcast"
                                     ELSE "none"])
  /\ UNCHANGED <<base_angle, fake_frame, broadcast, idle, latest_cmd_vel, chassis,
                 following>>

\* The goal is reached, cancelled or aborted: a last command, which stops.
GoalEnds ==
  /\ following
  /\ Len(cmd_topic) < Backlog
  /\ following' = FALSE
  /\ cmd_topic' = Append(cmd_topic, Stop)
  /\ UNCHANGED <<base_angle, fake_frame, broadcast, idle, latest_cmd_vel, chassis,
                 plan_topic>>

-----------------------------------------------------------------------------
(* The node.                                                               *)

\* A variant: the angle follows the gimbal while the controller is active.
OdometryCallback_Always(yaw) ==
  /\ base_angle' = yaw
  /\ broadcast' = (broadcast /\ yaw = base_angle)
  /\ UNCHANGED <<fake_frame, idle, latest_cmd_vel, chassis, following,
                 plan_topic, cmd_topic>>

OdometryCallback(yaw) ==
  /\ TimedOut
  /\ OdometryCallback_Always(yaw)

\* A command that is still cached after the timeout is one of an earlier goal.
LocalPlanCallback ==
  /\ plan_topic
  /\ plan_topic' = FALSE
  /\ idle' = 0
  /\ latest_cmd_vel' = IF TimedOut /\ latest_cmd_vel # NoCommand
                       THEN [latest_cmd_vel EXCEPT !.lapse = "overdue"]
                       ELSE latest_cmd_vel
  /\ UNCHANGED <<base_angle, fake_frame, broadcast, chassis, following, cmd_topic>>

TransformVelocity(cmd) ==
  IF cmd.moves THEN [moves |-> TRUE, turned |-> base_angle, frame |-> cmd.frame,
                     lapse |-> cmd.lapse]
  ELSE Halt

\* A stop and a command of an inactive controller are published at once, and
\* the cached command stays.
CmdVelCallback ==
  /\ cmd_topic # <<>>
  /\ cmd_topic' = Tail(cmd_topic)
  /\ LET cmd == Head(cmd_topic)
     IN  IF ~cmd.moves \/ TimedOut
         THEN chassis' = TransformVelocity(cmd) /\ UNCHANGED latest_cmd_vel
         ELSE latest_cmd_vel' = cmd /\ UNCHANGED chassis
  /\ UNCHANGED <<base_angle, fake_frame, broadcast, idle, following, plan_topic>>

PublishCmdVel ==
  /\ latest_cmd_vel # NoCommand
  /\ IF TimedOut
     THEN latest_cmd_vel' = NoCommand /\ chassis' = Halt
     ELSE chassis' = TransformVelocity(latest_cmd_vel) /\ UNCHANGED latest_cmd_vel
  /\ UNCHANGED <<base_angle, fake_frame, broadcast, idle, following, plan_topic,
                 cmd_topic>>

PublishTransform ==
  /\ fake_frame' = base_angle
  /\ broadcast' = TRUE
  /\ UNCHANGED <<base_angle, idle, latest_cmd_vel, chassis, following,
                 plan_topic, cmd_topic>>

\* Messages arrive within a tick, and an active controller publishes a plan
\* before the timeout: it runs at 20 Hz, and the timeout is half a second.
Tick ==
  /\ idle <= Timeout
  /\ ~plan_topic /\ cmd_topic = <<>>
  /\ following => idle < Timeout
  /\ idle' = idle + 1
  /\ UNCHANGED <<base_angle, fake_frame, broadcast, latest_cmd_vel, chassis,
                 following, plan_topic, cmd_topic>>

FakeVelNext ==
  \/ GoalAccepted
  \/ \E blocked \in BOOLEAN : ControllerCycle(blocked)
  \/ GoalEnds
  \/ \E yaw \in Turns : OdometryCallback(yaw)
  \/ LocalPlanCallback
  \/ CmdVelCallback
  \/ PublishCmdVel
  \/ PublishTransform
  \/ Tick

FakeVelSpec == FakeInit /\ [][FakeVelNext]_fakeVars

\* The timers fire, the messages arrive, time passes, and an active
\* controller goes on with its cycles.
FakeVelFairness ==
  /\ WF_fakeVars(PublishCmdVel)
  /\ WF_fakeVars(CmdVelCallback)
  /\ WF_fakeVars(LocalPlanCallback)
  /\ WF_fakeVars(Tick)
  /\ WF_fakeVars(\E blocked \in BOOLEAN : ControllerCycle(blocked))

FairFakeVelSpec == FakeVelSpec /\ FakeVelFairness

-----------------------------------------------------------------------------
\* The type invariant of this module.
FakeTypeOK ==
  /\ {base_angle, fake_frame} \subseteq Turns
  /\ idle \in 0..Timeout + 1
  /\ {broadcast, following, plan_topic} \subseteq BOOLEAN
  /\ Len(cmd_topic) <= Backlog

\* A command that the chassis gets is turned by the angle of the frame it was
\* computed in, in every order of plans, commands, odometry and timers: the
\* freeze of the angle makes up for the missing stamp.  The code has three
\* exceptions, and no others:
\*   unseen       it was computed before the node had seen a plan, so that the
\*                angle still followed the gimbal
\*   unbroadcast  odometry had changed the angle before the plan froze it, and
\*                the timer of the transform had not fired since: the frame of
\*                the computation was the one of before
\*   overdue      it was cached for an earlier goal, and the plan of the next
\*                came before the timer had seen the timeout
TurnedAsComputed ==
  chassis.moves =>
    chassis.turned = chassis.frame \/ chassis.lapse \in {"unseen", "unbroadcast", "overdue"}

\* "When collision is detected, send zero velocity command to stop the
\* robot": while every cycle of the controller stops, the chassis is given
\* no other command in the end.
BlockedMeansStop ==
  <>[][~ControllerCycle(FALSE)]_fakeVars => <>[]~chassis.moves
=============================================================================

---------------------------- MODULE TeleopTwistJoy ----------------------------
(***************************************************************************)
(* pb_teleop_twist_joy: while an enable button is held, the sticks are     *)
(* sent as velocities (manual_control) or as goals beside the robot for    *)
(* navigate_to_pose (auto_control), and the gimbal's joints turn.  When it *)
(* is let go the robot is to stop.  Time is in quarters of a second; the   *)
(* stick's axes are -1, 0 or 1, which is outside of the dead band of 0.1.  *)
(***************************************************************************)
EXTENDS Integers, Sequences, FiniteSets

CONSTANTS
  JoyMessages,   \* buttons held and axes: records enable, turbo, x, y, turn, yaw, shoot
  Modes,         \* parameters: records control_mode, require_enable_button, inverted_reverse
  ScaleChassis, ScaleGimbal, \* functions of "normal" and "turbo"
  QueueSize,     \* of the subscription
  MaxTime        \* bound: of the clock

ASSUME TeleopAssumption ==
  \A m \in Modes : m.control_mode \in {"manual_control", "auto_control"}

VARIABLES
  mode,
  joy,               \* messages that wait for joyCallback
  now,
  last_time, last_goal_time, \* -1 before the first call
  sent_disable_msg_,
  sent_vel,           \* the last one sent
  joint_state,       \* yaw of the last one sent
  cmd_shoot,
  goals,             \* at the server: when it was sent, accepted, and whether
  cancels,           \* requests to cancel on their way: the time of each
  stopped            \* history: the goals that were active at the last stop

teleopVars == <<mode, joy, now, last_time, last_goal_time, sent_disable_msg_, sent_vel, joint_state, cmd_shoot,
                goals, cancels, stopped>>

Still == [x |-> 0, y |-> 0, turn |-> 0]

(* sent_disable_msg_ has no initial value. *)
TeleopInit ==
  /\ mode \in Modes
  /\ joy = <<>> /\ now = 0 /\ last_time = -1 /\ last_goal_time = -1
  /\ sent_disable_msg_ \in BOOLEAN
  /\ sent_vel = Still /\ joint_state = 0 /\ cmd_shoot = 0
  /\ goals = {} /\ cancels = {} /\ stopped = {}

-----------------------------------------------------------------------------
(* The joystick: when a queue is full its oldest message is dropped.       *)

JoyComes(msg) ==
  /\ joy' = Append(IF Len(joy) = QueueSize THEN Tail(joy) ELSE joy, msg)
  /\ UNCHANGED <<mode, now, last_time, last_goal_time, sent_disable_msg_, sent_vel, joint_state, cmd_shoot,
                 goals, cancels, stopped>>

JoyClock ==
  /\ now < MaxTime
  /\ now' = now + 1
  /\ UNCHANGED <<mode, joy, last_time, last_goal_time, sent_disable_msg_, sent_vel, joint_state, cmd_shoot,
                 goals, cancels, stopped>>

-----------------------------------------------------------------------------
(* joyCallback.                                                            *)

GetVal(axis, scale) == axis * scale

FillCmdVelMsg(msg, which) ==
  LET x == GetVal(msg.x, ScaleChassis[which].x)
      turn == GetVal(msg.turn, ScaleChassis[which].yaw)
  IN  [x |-> x, y |-> GetVal(msg.y, ScaleChassis[which].y),
       turn |-> IF x < 0 /\ mode.inverted_reverse THEN -turn ELSE turn]

(* dt_ is the time since the last message, whatever that one asked for. *)
Elapsed == IF last_time = -1 THEN 0 ELSE now - last_time
FillJointStateMsg(msg, which) == joint_state + GetVal(msg.yaw, ScaleGimbal[which]) * Elapsed

(* A negative number has no defined value as a uint8. *)
FillShootMsg(msg) ==
  /\ msg.shoot >= 0 => cmd_shoot' = msg.shoot
  /\ msg.shoot < 0 => cmd_shoot' \in {0, 255}

(* The first call begins the interval of 0.25 s and sends nothing. *)
SendGoalPoseAction(msg) ==
  IF msg.x = 0 /\ msg.y = 0 THEN UNCHANGED <<goals, last_goal_time>>
  ELSE \/ UNCHANGED <<goals, last_goal_time>>  \* the transform is missing
       \/ /\ last_goal_time = -1
          /\ last_goal_time' = now
          /\ UNCHANGED goals
       \/ /\ last_goal_time # -1
          /\ IF now - last_goal_time >= 1
             THEN /\ goals' = goals \cup {[sent |-> now, accepted |-> -1]}
                  /\ last_goal_time' = now
             ELSE UNCHANGED <<goals, last_goal_time>>

SendCmdVelMsg(msg, which) ==
  /\ IF mode.control_mode = "manual_control"
     THEN sent_vel' = FillCmdVelMsg(msg, which) /\ UNCHANGED <<goals, last_goal_time>>
     ELSE SendGoalPoseAction(msg) /\ UNCHANGED sent_vel
  /\ joint_state' = FillJointStateMsg(msg, which)
  /\ sent_disable_msg_' = TRUE
  /\ UNCHANGED <<cancels, stopped>>

CancelStamp_LastGoal == last_goal_time
CancelStamp == now

SendZeroCommand ==
  /\ cancels' = (IF mode.control_mode = "auto_control" THEN cancels \cup {CancelStamp} ELSE cancels)
  /\ stopped' = {g \in goals : g.accepted # -1}
  /\ sent_vel' = Still

Released ==
  /\ IF sent_disable_msg_ THEN SendZeroCommand ELSE UNCHANGED <<cancels, stopped, sent_vel>>
  /\ sent_disable_msg_' = FALSE
  /\ UNCHANGED <<goals, last_goal_time, joint_state>>

JoyCallback ==
  /\ joy # <<>>
  /\ joy' = Tail(joy)
  /\ last_time' = now
  /\ LET msg == Head(joy)
     IN  /\ IF msg.turbo THEN SendCmdVelMsg(msg, "turbo")
            ELSE IF ~mode.require_enable_button \/ msg.enable THEN SendCmdVelMsg(msg, "normal")
            ELSE Released
         /\ FillShootMsg(msg)
  /\ UNCHANGED <<mode, now>>

-----------------------------------------------------------------------------
(* The server of navigate_to_pose: a goal is stamped when it is accepted,  *)
(* and a request to cancel concerns the goals accepted by its time.        *)

Accepts(g) ==
  /\ g.accepted = -1
  /\ goals' = (goals \ {g}) \cup {[g EXCEPT !.accepted = now]}
  /\ UNCHANGED <<mode, joy, now, last_time, last_goal_time, sent_disable_msg_, sent_vel, joint_state, cmd_shoot,
                 cancels, stopped>>

Cancels(t) ==
  /\ cancels' = cancels \ {t}
  /\ goals' = {g \in goals : g.accepted = -1 \/ g.accepted > t}
  /\ UNCHANGED <<mode, joy, now, last_time, last_goal_time, sent_disable_msg_, sent_vel, joint_state, cmd_shoot,
                 stopped>>

ServerEnds(g) ==
  /\ g.accepted # -1
  /\ goals' = goals \ {g}
  /\ UNCHANGED <<mode, joy, now, last_time, last_goal_time, sent_disable_msg_, sent_vel, joint_state, cmd_shoot,
                 cancels, stopped>>

TeleopNext ==
  \/ \E msg \in JoyMessages : JoyComes(msg)
  \/ JoyClock \/ JoyCallback
  \/ \E g \in goals : Accepts(g) \/ ServerEnds(g)
  \/ \E t \in cancels : Cancels(t)

TeleopSpec == TeleopInit /\ [][TeleopNext]_teleopVars

-----------------------------------------------------------------------------
(* From the message on in which the button is not held, until it is held   *)
(* again: the velocity is zero, and none of the goals that were active is  *)
(* left when the server has handled the request.  (A goal that is still on *)
(* its way to the server then is not stopped; line 254.)                   *)
ReleaseStops ==
  ~sent_disable_msg_ =>
    /\ sent_vel = Still
    /\ cancels = {} => stopped \cap goals = {}
==============================================================================

----------------------------- MODULE GimbalManager -----------------------------
(***************************************************************************)
(* gimbal_manager of standard_robot_pp_ros2: commands set an angle, or a   *)
(* velocity and the range to move in; a 10 ms timer moves the axis and     *)
(* turns it round at the ends.  Pitch and yaw are treated alike and never  *)
(* meet, except that a message counts as new when any part of it differs:  *)
(* one axis is modelled, and rest stands for the part about the other.     *)
(* Angles are multiples of a small angle, a full turn is FullTurn of them. *)
(***************************************************************************)
EXTENDS Integers

CONSTANTS
  GimbalCommands,  \* what the sender may ask of the axis
  FullTurn

VARIABLES
  angle,           \* state_.yaw, or state_.pitch
  yaw_ctrl,        \* mode, velocity and range of the axis
  last_msg,        \* static in gimbalCmdCallback
  wanted_cmd,      \* the command the sender repeats for the axis
  rest,            \* and what it says of the other axis
  ended            \* history: the ends of the range reached under this command

gimbalVars == <<angle, yaw_ctrl, last_msg, wanted_cmd, rest, ended>>

Absolute(a) == [type |-> "absolute", position |-> a, velocity |-> 0, low |-> 0, high |-> 0]
Sweep(v, low, high) ==
  [type |-> "velocity", position |-> 0, velocity |-> v, low |-> low, high |-> high]

ASSUME GimbalAssumption == FullTurn \in Nat \ {0}

(* A message with zeros throughout asks for the angle 0.                   *)
GimbalInit ==
  /\ angle = 0
  /\ yaw_ctrl = [mode |-> "position", velocity |-> 0, low |-> 0, high |-> 0]
  /\ last_msg = <<Absolute(0), 0>>
  /\ wanted_cmd \in GimbalCommands /\ rest = 0
  /\ ended = {}

(* Whoever aims the gimbal makes up its mind. *)
NewCommand(c) ==
  /\ wanted_cmd' = c /\ c # wanted_cmd
  /\ ended' = {}
  /\ UNCHANGED <<angle, yaw_ctrl, last_msg, rest>>

OtherAxisChanges ==
  /\ rest' = 1 - rest
  /\ UNCHANGED <<angle, yaw_ctrl, last_msg, wanted_cmd, ended>>

IsNews_Always(msg) == TRUE
IsNews(msg) == msg # last_msg

GimbalCmdCallback(msg) ==
  /\ IsNews(<<msg, rest>>)
  /\ last_msg' = <<msg, rest>>
  /\ IF msg.type = "absolute"
     THEN /\ angle' = msg.position
          /\ yaw_ctrl' = [yaw_ctrl EXCEPT !.mode = "position"]
     ELSE /\ yaw_ctrl' = [mode |-> "velocity", velocity |-> msg.velocity,
                          low |-> msg.low, high |-> msg.high]
          /\ UNCHANGED angle
  /\ ended' = {}
  /\ UNCHANGED <<wanted_cmd, rest>>

IsContinuous == yaw_ctrl.high - yaw_ctrl.low = FullTurn

TurnRound(end, v) == angle' = end /\ yaw_ctrl' = [yaw_ctrl EXCEPT !.velocity = -v]

(* updateAxisPosition, with delta such that velocity is in angles a step.  *)
UpdateState ==
  LET v == yaw_ctrl.velocity
      new_pos == angle + v
  IN /\ yaw_ctrl.mode = "velocity"
     /\ \/ /\ IsContinuous
           /\ angle' = yaw_ctrl.low + ((new_pos - yaw_ctrl.low) % FullTurn)
           /\ UNCHANGED yaw_ctrl
        \/ /\ ~IsContinuous
           /\ new_pos > yaw_ctrl.high
           /\ TurnRound(yaw_ctrl.high, v)
        \/ /\ ~IsContinuous
           /\ new_pos <= yaw_ctrl.high /\ new_pos < yaw_ctrl.low
           /\ TurnRound(yaw_ctrl.low, v)
        \/ /\ ~IsContinuous
           /\ new_pos \in yaw_ctrl.low .. yaw_ctrl.high
           /\ angle' = new_pos
           /\ UNCHANGED yaw_ctrl
     /\ ended' = ended \cup ({yaw_ctrl.low, yaw_ctrl.high} \cap {angle'})
     /\ UNCHANGED <<last_msg, wanted_cmd, rest>>

GimbalNext ==
  \/ \E c \in GimbalCommands : NewCommand(c)
  \/ OtherAxisChanges
  \/ GimbalCmdCallback(wanted_cmd)
  \/ UpdateState

(* The sender repeats its command and the timer runs.                      *)
GimbalSpec ==
  /\ GimbalInit /\ [][GimbalNext]_gimbalVars
  /\ WF_gimbalVars(GimbalCmdCallback(wanted_cmd)) /\ WF_gimbalVars(UpdateState)

-----------------------------------------------------------------------------
(* A gimbal that is told to search a range goes to both its ends, from     *)
(* wherever it is and although the command keeps coming: the repeated      *)
(* message must not set the velocity that updateAxisPosition has turned.   *)
(* The command for the other axis is left alone meanwhile; each change of  *)
(* it makes the message new and does set the velocity again.               *)
GimbalSweeps ==
  \A c \in GimbalCommands :
    /\ c.type = "velocity" /\ c.velocity # 0 /\ c.high - c.low # FullTurn
    /\ <>[][~OtherAxisChanges]_gimbalVars
    => (wanted_cmd = c ~> ended = {c.low, c.high} \/ wanted_cmd # c)
==============================================================================

---------------------------- MODULE SentryDecision ----------------------------
(***************************************************************************)
(* The decision node of the sentry (sentry_decision_node.cpp): it watches  *)
(* hit points and the game progress, chooses between the combat point X    *)
(* and the supply point Y by two thresholds, and drives the robot there    *)
(* one waypoint after another with navigate_to_pose goals.                 *)
(*                                                                         *)
(* main() spins a single-threaded executor, so every callback runs to its  *)
(* end before the next one: a callback is one action.  The order of the    *)
(* callbacks is free, and so is the order of the replies to different      *)
(* goals.  cmdVelUdpTimerCallback, which only reads this state and         *)
(* publishes, is in ChassisCommand, which extends this module.             *)
(*                                                                         *)
(* A definition whose name ends in a word after an underscore, as in       *)
(* GoalRejected_KeepsState, is the faulty variant of the definition after  *)
(* it that one of the properties rules out; no specification uses it.      *)
(***************************************************************************)
EXTENDS NavToPose, Sequences

CONSTANTS
  HitPoints,        \* values of current_hp the referee reports
  hp_threshold_low,
  hp_threshold_high,
  Progress,         \* values of game_progress the referee reports
  Velocities,       \* speeds of a /cmd_vel message; 0 is standstill
  waypoints_to_x, target_x,
  waypoints_to_y, target_y

ASSUME DecisionParameters ==
  /\ HitPoints \subseteq Nat
  /\ Progress \subseteq Nat
  /\ 0 \in Velocities
  /\ hp_threshold_low \in Nat
  /\ hp_threshold_high \in Nat
  /\ hp_threshold_low <= hp_threshold_high
  /\ target_x \in Points /\ waypoints_to_x \in Seq(Points)
  /\ target_y \in Points /\ waypoints_to_y \in Seq(Points)

VARIABLES
  current_state,
  current_goal_handle,
  waypoint_queue,
  nav_sequence_active,
  has_pending_sequence,
  pending_sequence,     \* pending_waypoints_ followed by pending_target_pose_
  current_hp,
  game_progress,
  latest_cmd_vel,
  goal_reached

decisionVars == <<current_state, current_goal_handle, waypoint_queue,
                  nav_sequence_active, has_pending_sequence, pending_sequence>>
inputVars == <<current_hp, game_progress>>
outputVars == <<latest_cmd_vel, goal_reached>>
vars == <<navVars, decisionVars, inputVars, outputVars>>

GoingStates == {"GOING_TO_X", "GOING_TO_Y"}
States == {"IDLE", "GOING_TO_X", "GOING_TO_Y", "AT_X", "AT_Y"}
AttackStates  == {"GOING_TO_X", "AT_X"}
RetreatStates == {"GOING_TO_Y", "AT_Y"}

InMatch == game_progress \in {4, 68}

(* The queue startNavigationSequence builds: waypoints, then the target.   *)
RouteToX == Append(waypoints_to_x, target_x)
RouteToY == Append(waypoints_to_y, target_y)

TypeOK ==
  /\ NavTypeOK
  /\ current_state \in States
  /\ current_goal_handle \in Goals \cup {None}
  /\ waypoint_queue \in Seq(Points)
  /\ nav_sequence_active \in BOOLEAN
  /\ has_pending_sequence \in BOOLEAN
  /\ pending_sequence \in Seq(Points)
  /\ current_hp \in HitPoints \cup {0}
  /\ game_progress \in Progress \cup {0}
  /\ latest_cmd_vel \in Velocities
  /\ goal_reached \in BOOLEAN

Init ==
  /\ NavInit
  /\ current_state = "IDLE"
  /\ current_goal_handle = None
  /\ waypoint_queue = <<>>
  /\ nav_sequence_active = FALSE
  /\ has_pending_sequence = FALSE
  /\ pending_sequence = <<>>
  /\ current_hp = 0
  /\ game_progress = 0
  /\ latest_cmd_vel = 0
  /\ goal_reached = FALSE

-----------------------------------------------------------------------------
(* Sensor callbacks.                                                       *)

RobotStatusCallback ==
  /\ current_hp' \in HitPoints
  /\ UNCHANGED <<navVars, decisionVars, game_progress, outputVars>>

(* Once game_progress is 4 it never changes again. *)
GimbalDataCallback ==
  /\ current_hp' \in HitPoints
  /\ \E p \in Progress :
       game_progress' = IF game_progress # 4 THEN p ELSE game_progress
  /\ UNCHANGED <<navVars, decisionVars, outputVars>>

CmdVelCallback ==
  /\ latest_cmd_vel' \in Velocities
  /\ goal_reached' = FALSE
  /\ UNCHANGED <<navVars, decisionVars, inputVars>>

-----------------------------------------------------------------------------
(* sendNextWaypoint(), called with the queue q, with active and reached in *)
(* nav_sequence_active_ and goal_reached_, and with known as the goals of  *)
(* the client.  The state it leaves is StateAfterSend: a caller may        *)
(* overwrite it.                                                           *)

Arrived(st) == CASE st = "GOING_TO_X" -> "AT_X"
                 [] st = "GOING_TO_Y" -> "AT_Y"
                 [] OTHER             -> "IDLE"

StateAfterSend(q, st) == IF q = <<>> THEN Arrived(st)
                         ELSE IF serverUp THEN st ELSE "IDLE"

SendNextWaypoint(known, q, active, reached) ==
  \/ /\ q = <<>>                            \* the whole sequence is done
     /\ waypoint_queue' = q
     /\ nav_sequence_active' = FALSE
     /\ goal_reached' = TRUE
     /\ latest_cmd_vel' = 0
     /\ goal' = known
  \/ /\ q # <<>> /\ ~serverUp               \* no server within 5 s
     /\ waypoint_queue' = q
     /\ nav_sequence_active' = FALSE
     /\ goal_reached' = reached
     /\ goal' = known
     /\ UNCHANGED latest_cmd_vel
  \/ /\ q # <<>> /\ serverUp
     /\ SendGoal(known, Head(q))
     /\ waypoint_queue' = Tail(q)
     /\ nav_sequence_active' = active
     /\ goal_reached' = reached
     /\ UNCHANGED latest_cmd_vel

ResetToIdle_KeepsState ==
  /\ nav_sequence_active' = FALSE
  /\ waypoint_queue' = <<>>
  /\ UNCHANGED current_state

(* What every failure leaves behind: no sequence, an empty queue, IDLE.    *)
ResetToIdle ==
  /\ nav_sequence_active' = FALSE
  /\ waypoint_queue' = <<>>
  /\ current_state' = "IDLE"

(* startNavigationSequence(): a goal whose handle is still active is       *)
(* cancelled, its handle dropped, and the sequence put off; otherwise the  *)
(* sequence replaces the queue and its first point is sent.                *)
MustCancelFirst == current_goal_handle # None /\ StatusActive(current_goal_handle)

DeferSequence(seq) ==
  /\ MustCancelFirst
  /\ has_pending_sequence' = TRUE
  /\ pending_sequence' = seq
  /\ CancelGoal(current_goal_handle)
  /\ current_goal_handle' = None
  /\ UNCHANGED <<waypoint_queue, nav_sequence_active, goal_reached, latest_cmd_vel>>

LaunchSequence(seq) ==
  /\ ~MustCancelFirst
  /\ has_pending_sequence' = FALSE
  /\ current_goal_handle' = None
  /\ SendNextWaypoint(goal, seq, TRUE, FALSE)
  /\ UNCHANGED pending_sequence

StartNavigationSequence(seq) == DeferSequence(seq) \/ LaunchSequence(seq)

-----------------------------------------------------------------------------
(* timerCallback(), every check_interval, split by the path it takes.      *)

TimerLaunchPending_WaitsForHandle ==
  /\ has_pending_sequence
  /\ current_goal_handle # None
  /\ LaunchSequence(pending_sequence)
  /\ current_state' = StateAfterSend(pending_sequence, current_state)

TimerLaunchPending ==
  /\ has_pending_sequence
  /\ current_goal_handle = None
  /\ LaunchSequence(pending_sequence)
  /\ current_state' = StateAfterSend(pending_sequence, current_state)

(* Outside the match a busy node cancels what it holds and becomes idle.   *)
TimerLeaveMatch ==
  /\ ~has_pending_sequence
  /\ ~InMatch
  /\ current_state # "IDLE"
  /\ IF nav_sequence_active /\ current_goal_handle # None
     THEN CancelGoal(current_goal_handle) /\ current_goal_handle' = None
     ELSE UNCHANGED <<goal, current_goal_handle>>
  /\ ResetToIdle
  /\ UNCHANGED <<has_pending_sequence, pending_sequence, goal_reached, latest_cmd_vel>>

TimerRetreat ==
  /\ ~has_pending_sequence
  /\ InMatch
  /\ current_hp < hp_threshold_low
  /\ current_state \notin RetreatStates
  /\ StartNavigationSequence(RouteToY)
  /\ current_state' = "GOING_TO_Y"

TimerAttack_LowOnly ==
  /\ ~has_pending_sequence
  /\ InMatch
  /\ current_hp >= hp_threshold_low
  /\ current_state \notin AttackStates
  /\ StartNavigationSequence(RouteToX)
  /\ current_state' = "GOING_TO_X"

TimerAttack ==
  /\ ~has_pending_sequence
  /\ InMatch
  /\ current_hp >= hp_threshold_low
  /\ current_state \in RetreatStates => current_hp >= hp_threshold_high
  /\ current_state \notin AttackStates
  /\ StartNavigationSequence(RouteToX)
  /\ current_state' = "GOING_TO_X"

TimerCallback ==
  /\ \/ TimerLaunchPending
     \/ TimerLeaveMatch
     \/ TimerRetreat
     \/ TimerAttack
  /\ UNCHANGED <<serverUp, robotAt, faults, wasDown, inputVars>>

-----------------------------------------------------------------------------
(* Replies to goals.                                                       *)

GoalRejected_KeepsState(g) ==
  /\ goal[g].server = "rejected"
  /\ goal' = ForgetGoal(g)
  /\ nav_sequence_active' = FALSE
  /\ waypoint_queue' = <<>>
  /\ current_goal_handle' = None
  /\ UNCHANGED current_state

GoalRejected(g) ==
  /\ goal[g].server = "rejected"
  /\ goal' = ForgetGoal(g)
  /\ ResetToIdle
  /\ current_goal_handle' = None

GoalAccepted(g) ==
  /\ goal[g].server # "rejected"
  /\ goal' = TrackGoal(g)
  /\ current_goal_handle' = g
  /\ UNCHANGED <<nav_sequence_active, waypoint_queue, current_state>>

NavToPoseGoalResponseCallback(g) ==
  /\ ResponseReady(g)
  /\ GoalRejected(g) \/ GoalAccepted(g)
  /\ UNCHANGED <<serverUp, robotAt, faults, wasDown, inputVars, outputVars,
                 has_pending_sequence, pending_sequence>>

(* SUCCEEDED and ABORTED both go on with the next point of the queue.      *)
ResultAdvance(g) ==
  /\ goal[g].server \in {"succeeded", "aborted"}
  /\ SendNextWaypoint(ForgetGoal(g), waypoint_queue, nav_sequence_active, goal_reached)
  /\ current_state' = StateAfterSend(waypoint_queue, current_state)
  /\ UNCHANGED <<has_pending_sequence, pending_sequence>>

(* CANCELED leaves the queue alone while a sequence is pending. *)
ResultCanceled(g) ==
  /\ goal[g].server = "canceled"
  /\ goal' = ForgetGoal(g)
  /\ IF has_pending_sequence
     THEN UNCHANGED <<nav_sequence_active, waypoint_queue, current_state>>
     ELSE ResetToIdle
  /\ UNCHANGED <<has_pending_sequence, pending_sequence, goal_reached, latest_cmd_vel>>

ResultUnknown_StaysActive(g) ==
  /\ goal[g].server = "unknown"
  /\ goal' = ForgetGoal(g)
  /\ waypoint_queue' = <<>>
  /\ current_state' = "IDLE"
  /\ UNCHANGED <<nav_sequence_active, has_pending_sequence, pending_sequence,
                 goal_reached, latest_cmd_vel>>

ResultUnknown(g) ==
  /\ goal[g].server = "unknown"
  /\ goal' = ForgetGoal(g)
  /\ ResetToIdle
  /\ UNCHANGED <<has_pending_sequence, pending_sequence, goal_reached, latest_cmd_vel>>

NavToPoseResultCallback_KeepsHandle(g) ==
  /\ ResultReady(g)
  /\ ResultAdvance(g) \/ ResultCanceled(g) \/ ResultUnknown(g)
  /\ UNCHANGED <<current_goal_handle, serverUp, robotAt, faults, wasDown, inputVars>>

NavToPoseResultCallback(g) ==
  /\ ResultReady(g)
  /\ current_goal_handle' = None          \* whichever goal has ended
  /\ ResultAdvance(g) \/ ResultCanceled(g) \/ ResultUnknown(g)
  /\ UNCHANGED <<serverUp, robotAt, faults, wasDown, inputVars>>

-----------------------------------------------------------------------------
nodeVars == <<decisionVars, inputVars, outputVars>>

Nav2 == NavStep /\ UNCHANGED nodeVars

Next ==
  \/ RobotStatusCallback
  \/ GimbalDataCallback
  \/ CmdVelCallback
  \/ TimerCallback
  \/ \E g \in Goals : NavToPoseGoalResponseCallback(g) \/ NavToPoseResultCallback(g)
  \/ Nav2

Spec == Init /\ [][Next]_vars

(* The fairness of the code and of what it relies on.  The executor serves *)
(* every callback that stays ready and the timer fires again and again;    *)
(* the server comes back, answers every goal and ends every goal it runs.  *)
(* Nothing is assumed of hit points, progress, /cmd_vel or faults.         *)
Fairness ==
  /\ WF_vars(TimerCallback)
  /\ WF_vars(ServerBack /\ UNCHANGED nodeVars)
  /\ \A g \in Goals :
       /\ WF_vars(NavToPoseGoalResponseCallback(g))
       /\ WF_vars(NavToPoseResultCallback(g))
       /\ WF_vars((ServerAccept(g) \/ ServerReject(g)) /\ UNCHANGED nodeVars)
       /\ WF_vars((ServerSucceed(g) \/ ServerCancel(g) \/ ServerFail(g))
                    /\ UNCHANGED nodeVars)

FairSpec == Spec /\ Fairness

-----------------------------------------------------------------------------
(* Safety.                                                                 *)

(* The handle the node holds is always that of a goal the client library   *)
(* still knows: accepted, its result not yet handed over.  So              *)
(* async_cancel_goal, at lines 206 and 274, never throws for an unknown    *)
(* handle, whatever the order of replies to different goals.               *)
HandleIsLive == current_goal_handle # None => Known(current_goal_handle)

SomethingOutstanding == \E g \in Goals : Outstanding(g)

(* A sequence marked active is never orphaned: some goal is outstanding,   *)
(* whose reply will move it on, or a pending sequence waits for the timer. *)
SequenceIsCarried ==
  nav_sequence_active => has_pending_sequence \/ SomethingOutstanding

(* A GOING state means that navigation is under way or about to be: no     *)
(* mix of rejections, aborts, cancellations, lost goals and late replies   *)
(* strands the node in it ...                                              *)
GoingIsCarried ==
  current_state \in GoingStates => has_pending_sequence \/ SomethingOutstanding

(* ... as long as the action server has never been missed.                 *)
OnlyOutagesStrand == ~wasDown => GoingIsCarried

(* Once the last point is reached nothing moves the robot: no sequence is  *)
(* active and the velocity for the chassis is zero until a /cmd_vel        *)
(* message or a new sequence comes.                                        *)
ArrivalStopsOutput ==
  goal_reached => ~nav_sequence_active /\ latest_cmd_vel = 0

Mode == CASE current_state \in AttackStates  -> "attack"
          [] current_state \in RetreatStates -> "retreat"
          [] OTHER                           -> "none"

Policy == INSTANCE TwoThresholdPolicy WITH
            hp <- current_hp, progress <- game_progress, mode <- Mode,
            low <- hp_threshold_low, high <- hp_threshold_high

(* The node carries out the two-threshold policy: see TwoThresholdPolicy.  *)
PolicySpec == Policy!Spec

-----------------------------------------------------------------------------
(* Liveness.                                                               *)

(* No reply is due and no cancellation is under way. *)
Settled ==
  \A g \in Goals :
    /\ ~ResponseReady(g) /\ ~ResultReady(g)
    /\ Outstanding(g) => goal[g].server # "requested"
    /\ goal[g].server = "executing" => ~goal[g].cancel

(* From some time on replies take less than a check_interval. *)
PromptReplies == <>[][TimerCallback => Settled]_vars

(* If hit points stay low in a match and replies become prompt, then       *)
(* whatever races went before the robot ends up standing at the supply     *)
(* point, and the node knows it.                                           *)
RetreatCompletes ==
  PromptReplies /\ <>[](InMatch /\ current_hp < hp_threshold_low)
    => <>[](current_state = "AT_Y" /\ robotAt = target_y)

-----------------------------------------------------------------------------
(* What comments and parameters say and the code does not keep.            *)

(* sentry_decision_node.hpp:72-73: AT_X and AT_Y mean X and Y are reached. *)
ArrivedMeansThere ==
  /\ current_state = "AT_X" => robotAt = target_x
  /\ current_state = "AT_Y" => robotAt = target_y

Retreating == current_state \in RetreatStates

(* sentry_decision_params.yaml:4: a retreat goes on until hit points are   *)
(* at the high threshold, or the match is over.                            *)
RetreatIsHeld ==
  [][Retreating /\ ~Retreating' => current_hp >= hp_threshold_high \/ ~InMatch]_vars
==============================================================================

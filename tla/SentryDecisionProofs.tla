------------------------- MODULE SentryDecisionProofs -------------------------
(***************************************************************************)
(* Proofs about SentryDecision, for every set of goals, every route, every *)
(* threshold and every number of faults.                                   *)
(***************************************************************************)
EXTENDS SentryDecision, SequenceTheorems, TLAPS

(* What a goal becomes keeps it a record of the right shape. *)
LEMMA GoalUpdates ==
  ASSUME NEW r \in GoalRecord
  PROVE  /\ Free \in GoalRecord
         /\ [r EXCEPT !.cancel = TRUE] \in GoalRecord
         /\ [r EXCEPT !.over = TRUE] \in GoalRecord
         /\ [r EXCEPT !.client = "accepted"] \in GoalRecord
         /\ \A s \in {"rejected", "executing"} \cup Terminal :
              [r EXCEPT !.server = s] \in GoalRecord
         /\ Preempted(r) \in GoalRecord
         /\ Preempted(r).client = r.client
         /\ \A p \in Points : [Free EXCEPT !.client = "sent", !.to = p] \in GoalRecord
  BY DEF GoalRecord, Free, Terminal, Preempted

(* Routes are non-empty sequences of points. *)
LEMMA RoutesAreSequences ==
  /\ RouteToX \in Seq(Points) /\ RouteToX # <<>>
  /\ RouteToY \in Seq(Points) /\ RouteToY # <<>>
  BY DecisionParameters, AppendProperties DEF RouteToX, RouteToY

LEMMA EmptyQueue == <<>> \in Seq(Points)
  OBVIOUS

LEMMA HeadAndTail ==
  ASSUME NEW q \in Seq(Points), q # <<>>
  PROVE  Head(q) \in Points /\ Tail(q) \in Seq(Points)
  BY HeadTailProperties

(* Sending takes a free identifier and leaves every other goal alone. *)
LEMMA SendGoalEffect ==
  ASSUME NEW known \in [Goals -> GoalRecord], NEW p \in Points, SendGoal(known, p)
  PROVE  /\ goal' \in [Goals -> GoalRecord]
         /\ \E g \in Goals : goal'[g].client = "sent"
         /\ \A g \in Goals : known[g].client # "free" => goal'[g] = known[g]
<1>1. PICK g \in Goals :
        /\ known[g].client = "free"
        /\ goal' = [known EXCEPT ![g] = [Free EXCEPT !.client = "sent", !.to = p]]
  BY DEF SendGoal
<1>2. [Free EXCEPT !.client = "sent", !.to = p] \in GoalRecord
  BY GoalUpdates, known[g] \in GoalRecord
<1>3. [Free EXCEPT !.client = "sent", !.to = p].client = "sent"
  BY DEF Free
<1>4. QED
  BY <1>1, <1>2, <1>3

LEMMA ForgetGoalType ==
  ASSUME goal \in [Goals -> GoalRecord], NEW g \in Goals
  PROVE  /\ ForgetGoal(g) \in [Goals -> GoalRecord]
         /\ \A h \in Goals : h # g => ForgetGoal(g)[h] = goal[h]
<1>1. Free \in GoalRecord
  BY GoalUpdates, goal[g] \in GoalRecord
<1>2. QED
  BY <1>1 DEF ForgetGoal

(* What sendNextWaypoint does: a sequence that stays active has a goal     *)
(* under way, and one that does not leaves the goals as they are known.    *)
LEMMA SendNextWaypointEffect ==
  ASSUME NEW known \in [Goals -> GoalRecord], NEW q \in Seq(Points),
         NEW active \in BOOLEAN, NEW reached \in BOOLEAN,
         latest_cmd_vel \in Velocities,
         SendNextWaypoint(known, q, active, reached)
  PROVE  /\ goal' \in [Goals -> GoalRecord]
         /\ waypoint_queue' \in Seq(Points)
         /\ nav_sequence_active' \in BOOLEAN
         /\ goal_reached' \in BOOLEAN
         /\ latest_cmd_vel' \in Velocities
         /\ \A g \in Goals : known[g].client # "free" => goal'[g] = known[g]
         /\ nav_sequence_active' => \E g \in Goals : goal'[g].client = "sent"
         /\ q # <<>> /\ serverUp => \E g \in Goals : goal'[g].client = "sent"
         /\ (reached => ~active /\ latest_cmd_vel = 0)
              => (goal_reached' => ~nav_sequence_active' /\ latest_cmd_vel' = 0)
<1>1. CASE q = <<>>
  <2>1. /\ waypoint_queue' = q
        /\ nav_sequence_active' = FALSE
        /\ goal_reached' = TRUE
        /\ latest_cmd_vel' = 0
        /\ goal' = known
    BY <1>1 DEF SendNextWaypoint
  <2>2. QED
    BY <1>1, <2>1, DecisionParameters
<1>2. CASE q # <<>> /\ ~serverUp
  <2>1. /\ waypoint_queue' = q
        /\ nav_sequence_active' = FALSE
        /\ goal_reached' = reached
        /\ latest_cmd_vel' = latest_cmd_vel
        /\ goal' = known
    BY <1>2 DEF SendNextWaypoint
  <2>2. QED
    BY <1>2, <2>1
<1>3. CASE q # <<>> /\ serverUp
  <2>1. Head(q) \in Points /\ Tail(q) \in Seq(Points)
    BY <1>3, HeadAndTail
  <2>2. /\ SendGoal(known, Head(q))
        /\ waypoint_queue' = Tail(q)
        /\ nav_sequence_active' = active
        /\ goal_reached' = reached
        /\ latest_cmd_vel' = latest_cmd_vel
    BY <1>3 DEF SendNextWaypoint
  <2>3. QED
    BY <2>1, <2>2, SendGoalEffect
<1>4. QED
  BY <1>1, <1>2, <1>3

LEMMA StateAfterSendType ==
  ASSUME NEW st \in States, NEW q
  PROVE  /\ StateAfterSend(q, st) \in States
         /\ q = <<>> => StateAfterSend(q, st) \notin GoingStates
  BY DEF StateAfterSend, Arrived, States, GoingStates

-----------------------------------------------------------------------------
(* Type correctness. *)

LEMMA InitType == Init => TypeOK
<1> SUFFICES ASSUME Init PROVE TypeOK
  OBVIOUS
<1>1. Free \in GoalRecord
  BY DEF GoalRecord, Free
<1>2. goal \in [Goals -> GoalRecord]
  BY <1>1 DEF Init, NavInit
<1>3. 0 \in 0 .. MaxFaults
  BY FaultAssumption
<1>4. NavTypeOK
  BY <1>2, <1>3 DEF Init, NavInit, NavTypeOK
<1>5. waypoint_queue \in Seq(Points) /\ pending_sequence \in Seq(Points)
  BY DEF Init
<1>6. QED
  BY <1>4, <1>5, DecisionParameters DEF Init, TypeOK, States

(* Steps of the server keep the record of every goal in shape, what the    *)
(* client knows of it, and its handle.                                     *)
LEMMA Nav2Effect ==
  ASSUME NavTypeOK, NavStep
  PROVE  /\ NavTypeOK'
         /\ \A g \in Goals : goal'[g].client = goal[g].client
         /\ (~wasDown => serverUp) => (~wasDown' => serverUp')
<1>0. /\ goal \in [Goals -> GoalRecord] /\ serverUp \in BOOLEAN
      /\ robotAt \in Points \cup {None} /\ faults \in 0 .. MaxFaults
      /\ wasDown \in BOOLEAN
  BY DEF NavTypeOK
<1>1. ASSUME NEW g \in Goals, ServerAccept(g)
      PROVE  /\ NavTypeOK' /\ \A h \in Goals : goal'[h].client = goal[h].client
             /\ UNCHANGED <<serverUp, wasDown>>
  <2>1. ASSUME NEW h \in Goals
        PROVE  /\ [goal[h] EXCEPT !.server = "executing"] \in GoalRecord
               /\ [goal[h] EXCEPT !.server = "executing"].client = goal[h].client
               /\ Preempted(goal[h]) \in GoalRecord
               /\ Preempted(goal[h]).client = goal[h].client
    <3>1. goal[h] \in GoalRecord
      BY <1>0
    <3>2. [goal[h] EXCEPT !.server = "executing"].client = goal[h].client
      BY <3>1 DEF GoalRecord
    <3>3. QED
      BY <3>1, <3>2, GoalUpdates
  <2>2. QED
    BY <1>0, <1>1, <2>1 DEF ServerAccept, NavTypeOK
<1>2. ASSUME NEW g \in Goals,
             NEW s \in {"rejected", "executing"} \cup Terminal,
             goal' = [goal EXCEPT ![g].server = s]
      PROVE  /\ goal' \in [Goals -> GoalRecord]
             /\ \A h \in Goals : goal'[h].client = goal[h].client
  <2>1. [goal[g] EXCEPT !.server = s] \in GoalRecord
    BY <1>0, GoalUpdates
  <2>2. [goal[g] EXCEPT !.server = s].client = goal[g].client
    BY <1>0 DEF GoalRecord
  <2>3. QED
    BY <1>0, <1>2, <2>1, <2>2
<1>3. ASSUME NEW k, Fault(k)
      PROVE  faults' \in 0 .. MaxFaults
  BY <1>0, <1>3, FaultAssumption DEF Fault
<1>4. ASSUME NEW g \in Goals, ServerReject(g)
      PROVE  /\ NavTypeOK' /\ \A h \in Goals : goal'[h].client = goal[h].client
             /\ UNCHANGED <<serverUp, wasDown>>
  BY <1>0, <1>2, <1>3, <1>4 DEF ServerReject, NavTypeOK
<1>5. ASSUME NEW g \in Goals, ServerSucceed(g)
      PROVE  /\ NavTypeOK' /\ \A h \in Goals : goal'[h].client = goal[h].client
             /\ UNCHANGED <<serverUp, wasDown>>
  <2>1. goal[g].to \in Points \cup {None}
    BY <1>0 DEF GoalRecord
  <2>2. QED
    BY <1>0, <1>2, <1>5, <2>1 DEF ServerSucceed, NavTypeOK, Terminal
<1>6. ASSUME NEW g \in Goals, ServerCancel(g)
      PROVE  /\ NavTypeOK' /\ \A h \in Goals : goal'[h].client = goal[h].client
             /\ UNCHANGED <<serverUp, wasDown>>
  BY <1>0, <1>2, <1>6 DEF ServerCancel, NavTypeOK, Terminal
<1>7. ASSUME NEW g \in Goals, ServerFail(g)
      PROVE  /\ NavTypeOK' /\ \A h \in Goals : goal'[h].client = goal[h].client
             /\ UNCHANGED <<serverUp, wasDown>>
  BY <1>0, <1>2, <1>3, <1>7 DEF ServerFail, NavTypeOK, Terminal
<1>8. ASSUME NEW g \in Goals, StatusUpdate(g)
      PROVE  /\ NavTypeOK' /\ \A h \in Goals : goal'[h].client = goal[h].client
             /\ UNCHANGED <<serverUp, wasDown>>
  <2>1. [goal[g] EXCEPT !.over = TRUE] \in GoalRecord
    BY <1>0, GoalUpdates
  <2>2. [goal[g] EXCEPT !.over = TRUE].client = goal[g].client
    BY <1>0 DEF GoalRecord
  <2>3. QED
    BY <1>0, <1>8, <2>1, <2>2 DEF StatusUpdate, NavTypeOK
<1>9. CASE ServerDown
  BY <1>0, <1>3, <1>9 DEF ServerDown, NavTypeOK
<1>10. CASE ServerBack
  BY <1>0, <1>10 DEF ServerBack, NavTypeOK
<1>11. QED
  BY <1>1, <1>4, <1>5, <1>6, <1>7, <1>8, <1>9, <1>10 DEF NavStep

(* One step of the timer, in the form the invariants use: what it does to  *)
(* the goals, the handle, the queue and the flags.                         *)
LEMMA TimerEffect ==
  ASSUME TypeOK, TimerCallback
  PROVE  /\ TypeOK'
         /\ current_goal_handle' = None
              \/ (current_goal_handle' = current_goal_handle /\ goal' = goal)
         /\ nav_sequence_active' =>
              has_pending_sequence' \/ \E g \in Goals : goal'[g].client = "sent"
         /\ current_state' \in GoingStates /\ serverUp =>
              has_pending_sequence' \/ \E g \in Goals : goal'[g].client = "sent"
         /\ ArrivalStopsOutput => ArrivalStopsOutput'
         /\ UNCHANGED <<serverUp, wasDown>>
<1>0. /\ goal \in [Goals -> GoalRecord]
      /\ current_state \in States
      /\ current_goal_handle \in Goals \cup {None}
      /\ waypoint_queue \in Seq(Points) /\ pending_sequence \in Seq(Points)
      /\ nav_sequence_active \in BOOLEAN /\ has_pending_sequence \in BOOLEAN
      /\ latest_cmd_vel \in Velocities /\ goal_reached \in BOOLEAN
  BY DEF TypeOK, NavTypeOK
<1>1. UNCHANGED <<serverUp, robotAt, faults, wasDown, current_hp, game_progress>>
  BY DEF TimerCallback, inputVars
<1>2. ASSUME goal' \in [Goals -> GoalRecord],
             current_state' \in States,
             current_goal_handle' \in Goals \cup {None},
             waypoint_queue' \in Seq(Points), pending_sequence' \in Seq(Points),
             nav_sequence_active' \in BOOLEAN, has_pending_sequence' \in BOOLEAN,
             latest_cmd_vel' \in Velocities, goal_reached' \in BOOLEAN
      PROVE  TypeOK'
  BY <1>1, <1>2 DEF TypeOK, NavTypeOK
<1>3. ASSUME MustCancelFirst, CancelGoal(current_goal_handle)
      PROVE  goal' \in [Goals -> GoalRecord]
  <2>1. current_goal_handle \in Goals
    BY <1>0, <1>3 DEF MustCancelFirst
  <2>2. [goal[current_goal_handle] EXCEPT !.cancel = TRUE] \in GoalRecord
    BY <1>0, <2>1, GoalUpdates
  <2>3. QED
    BY <1>0, <1>3, <2>1, <2>2 DEF CancelGoal
<1>4. ASSUME NEW seq \in Seq(Points), LaunchSequence(seq)
      PROVE  /\ goal' \in [Goals -> GoalRecord]
             /\ waypoint_queue' \in Seq(Points) /\ pending_sequence' \in Seq(Points)
             /\ nav_sequence_active' \in BOOLEAN /\ has_pending_sequence' \in BOOLEAN
             /\ latest_cmd_vel' \in Velocities /\ goal_reached' \in BOOLEAN
             /\ current_goal_handle' = None
             /\ nav_sequence_active' => \E g \in Goals : goal'[g].client = "sent"
             /\ seq # <<>> /\ serverUp => \E g \in Goals : goal'[g].client = "sent"
             /\ goal_reached' => ~nav_sequence_active' /\ latest_cmd_vel' = 0
  <2>1. SendNextWaypoint(goal, seq, TRUE, FALSE)
    BY <1>4 DEF LaunchSequence
  <2>2. QED
    BY <1>0, <1>4, <2>1, SendNextWaypointEffect DEF LaunchSequence
<1>5. ASSUME NEW seq \in Seq(Points), seq # <<>>, StartNavigationSequence(seq)
      PROVE  /\ goal' \in [Goals -> GoalRecord]
             /\ waypoint_queue' \in Seq(Points) /\ pending_sequence' \in Seq(Points)
             /\ nav_sequence_active' \in BOOLEAN /\ has_pending_sequence' \in BOOLEAN
             /\ latest_cmd_vel' \in Velocities /\ goal_reached' \in BOOLEAN
             /\ current_goal_handle' = None
             /\ nav_sequence_active' =>
                  has_pending_sequence' \/ \E g \in Goals : goal'[g].client = "sent"
             /\ serverUp =>
                  has_pending_sequence' \/ \E g \in Goals : goal'[g].client = "sent"
             /\ ArrivalStopsOutput => ArrivalStopsOutput'
  <2>1. CASE DeferSequence(seq)
    BY <1>0, <1>3, <1>5, <2>1 DEF DeferSequence, ArrivalStopsOutput
  <2>2. CASE LaunchSequence(seq)
    BY <1>4, <1>5, <2>2 DEF ArrivalStopsOutput
  <2>3. QED
    BY <1>5, <2>1, <2>2 DEF StartNavigationSequence
<1>6. CASE TimerLaunchPending
  <2>1. /\ LaunchSequence(pending_sequence)
        /\ current_state' = StateAfterSend(pending_sequence, current_state)
    BY <1>6 DEF TimerLaunchPending
  <2>2. current_state' \in States
    BY <1>0, <2>1, StateAfterSendType
  <2>3. current_state' \in GoingStates => pending_sequence # <<>>
    BY <1>0, <2>1, StateAfterSendType
  <2>4. QED
    BY <1>0, <1>1, <1>2, <1>4, <2>1, <2>2, <2>3 DEF ArrivalStopsOutput
<1>7. CASE TimerLeaveMatch
  <2>1. /\ current_state' = "IDLE" /\ nav_sequence_active' = FALSE
        /\ waypoint_queue' = <<>>
        /\ UNCHANGED <<has_pending_sequence, pending_sequence, goal_reached, latest_cmd_vel>>
        /\ \/ /\ current_goal_handle # None
              /\ CancelGoal(current_goal_handle)
              /\ current_goal_handle' = None
           \/ UNCHANGED <<goal, current_goal_handle>>
    BY <1>7 DEF TimerLeaveMatch, ResetToIdle
  <2>2. goal' \in [Goals -> GoalRecord]
    <3>1. ASSUME current_goal_handle # None, CancelGoal(current_goal_handle)
          PROVE  goal' \in [Goals -> GoalRecord]
      <4>1. [goal[current_goal_handle] EXCEPT !.cancel = TRUE] \in GoalRecord
        BY <1>0, <3>1, GoalUpdates
      <4>2. QED
        BY <1>0, <3>1, <4>1 DEF CancelGoal
    <3>2. QED
      BY <1>0, <2>1, <3>1
  <2>3. TypeOK'
    BY <1>0, <1>2, <2>1, <2>2, EmptyQueue DEF States
  <2>4. QED
    BY <1>0, <1>1, <2>1, <2>3 DEF ArrivalStopsOutput, GoingStates
<1>8. CASE TimerRetreat
  <2>1. StartNavigationSequence(RouteToY) /\ current_state' = "GOING_TO_Y"
    BY <1>8 DEF TimerRetreat
  <2>2. current_state' \in States
    BY <2>1 DEF States
  <2>3. QED
    BY <1>1, <1>2, <1>5, <2>1, <2>2, RoutesAreSequences
<1>9. CASE TimerAttack
  <2>1. StartNavigationSequence(RouteToX) /\ current_state' = "GOING_TO_X"
    BY <1>9 DEF TimerAttack
  <2>2. current_state' \in States
    BY <2>1 DEF States
  <2>3. QED
    BY <1>1, <1>2, <1>5, <2>1, <2>2, RoutesAreSequences
<1>10. QED
  BY <1>6, <1>7, <1>8, <1>9 DEF TimerCallback

LEMMA ResponseEffect ==
  ASSUME TypeOK, NEW g \in Goals, NavToPoseGoalResponseCallback(g)
  PROVE  /\ TypeOK'
         /\ current_goal_handle' = None
              \/ (current_goal_handle' = g /\ goal'[g].client = "accepted")
         /\ nav_sequence_active' => goal'[g].client # "free"
         /\ current_state' \in GoingStates => goal'[g].client # "free"
         /\ ArrivalStopsOutput => ArrivalStopsOutput'
         /\ UNCHANGED <<serverUp, wasDown, has_pending_sequence>>
<1>0. /\ goal \in [Goals -> GoalRecord]
      /\ current_state \in States
  BY DEF TypeOK, NavTypeOK
<1>1. UNCHANGED <<serverUp, robotAt, faults, wasDown, current_hp, game_progress,
                  latest_cmd_vel, goal_reached, has_pending_sequence, pending_sequence>>
  BY DEF NavToPoseGoalResponseCallback, inputVars, outputVars
<1>2. CASE GoalRejected(g)
  <2>1. /\ goal' = ForgetGoal(g) /\ current_goal_handle' = None
        /\ nav_sequence_active' = FALSE /\ waypoint_queue' = <<>>
        /\ current_state' = "IDLE"
    BY <1>2 DEF GoalRejected, ResetToIdle
  <2>2. goal' \in [Goals -> GoalRecord]
    BY <1>0, <2>1, ForgetGoalType
  <2>3. TypeOK'
    BY <1>1, <2>1, <2>2, EmptyQueue DEF TypeOK, NavTypeOK, States
  <2>4. QED
    BY <1>1, <2>1, <2>3 DEF ArrivalStopsOutput, GoingStates
<1>3. CASE GoalAccepted(g)
  <2>1. /\ goal' = TrackGoal(g) /\ current_goal_handle' = g
        /\ UNCHANGED <<nav_sequence_active, waypoint_queue, current_state>>
    BY <1>3 DEF GoalAccepted
  <2>2. [goal[g] EXCEPT !.client = "accepted"] \in GoalRecord
    BY <1>0, GoalUpdates
  <2>3. [goal[g] EXCEPT !.client = "accepted"].client = "accepted"
    BY <1>0 DEF GoalRecord
  <2>4. goal' \in [Goals -> GoalRecord] /\ goal'[g].client = "accepted"
    BY <1>0, <2>1, <2>2, <2>3 DEF TrackGoal
  <2>5. TypeOK'
    BY <1>1, <2>1, <2>4 DEF TypeOK, NavTypeOK
  <2>6. QED
    BY <1>1, <2>1, <2>4, <2>5 DEF ArrivalStopsOutput
<1>4. QED
  BY <1>2, <1>3 DEF NavToPoseGoalResponseCallback

LEMMA ResultEffect ==
  ASSUME TypeOK, NEW g \in Goals, NavToPoseResultCallback(g)
  PROVE  /\ TypeOK'
         /\ current_goal_handle' = None
         /\ nav_sequence_active' =>
              has_pending_sequence' \/ \E h \in Goals : goal'[h].client = "sent"
         /\ current_state' \in GoingStates /\ serverUp =>
              has_pending_sequence' \/ \E h \in Goals : goal'[h].client = "sent"
         /\ ArrivalStopsOutput => ArrivalStopsOutput'
         /\ UNCHANGED <<serverUp, wasDown>>
<1>0. /\ goal \in [Goals -> GoalRecord]
      /\ current_state \in States
      /\ waypoint_queue \in Seq(Points)
      /\ nav_sequence_active \in BOOLEAN /\ goal_reached \in BOOLEAN
      /\ latest_cmd_vel \in Velocities
  BY DEF TypeOK, NavTypeOK
<1>1. /\ UNCHANGED <<serverUp, robotAt, faults, wasDown, current_hp, game_progress>>
      /\ current_goal_handle' = None
  BY DEF NavToPoseResultCallback, inputVars
<1>2. ForgetGoal(g) \in [Goals -> GoalRecord]
  BY <1>0, ForgetGoalType
<1>3. CASE ResultAdvance(g)
  <2>1. /\ SendNextWaypoint(ForgetGoal(g), waypoint_queue, nav_sequence_active, goal_reached)
        /\ current_state' = StateAfterSend(waypoint_queue, current_state)
        /\ UNCHANGED <<has_pending_sequence, pending_sequence>>
    BY <1>3 DEF ResultAdvance
  <2>2. /\ current_state' \in States
        /\ current_state' \in GoingStates => waypoint_queue # <<>>
    BY <1>0, <2>1, StateAfterSendType
  <2>3. /\ goal' \in [Goals -> GoalRecord]
        /\ waypoint_queue' \in Seq(Points)
        /\ nav_sequence_active' \in BOOLEAN
        /\ goal_reached' \in BOOLEAN
        /\ latest_cmd_vel' \in Velocities
        /\ nav_sequence_active' => \E h \in Goals : goal'[h].client = "sent"
        /\ waypoint_queue # <<>> /\ serverUp => \E h \in Goals : goal'[h].client = "sent"
        /\ ArrivalStopsOutput => ArrivalStopsOutput'
    BY <1>0, <1>2, <2>1, SendNextWaypointEffect DEF ArrivalStopsOutput
  <2>4. TypeOK'
    BY <1>1, <2>1, <2>2, <2>3 DEF TypeOK, NavTypeOK
  <2>5. QED
    BY <1>1, <2>2, <2>3, <2>4
<1>4. CASE ResultCanceled(g) \/ ResultUnknown(g)
  <2>1. /\ goal' = ForgetGoal(g)
        /\ UNCHANGED <<has_pending_sequence, pending_sequence, goal_reached, latest_cmd_vel>>
        /\ \/ /\ has_pending_sequence
              /\ UNCHANGED <<nav_sequence_active, waypoint_queue, current_state>>
           \/ /\ nav_sequence_active' = FALSE
              /\ waypoint_queue' = <<>>
              /\ current_state' = "IDLE"
    BY <1>4 DEF ResultCanceled, ResultUnknown, ResetToIdle
  <2>2. TypeOK'
    BY <1>1, <1>2, <2>1, EmptyQueue DEF TypeOK, NavTypeOK, States
  <2>3. QED
    BY <1>1, <2>1, <2>2 DEF ArrivalStopsOutput, GoingStates
<1>5. QED
  BY <1>3, <1>4 DEF NavToPoseResultCallback

(* The other callbacks change inputs and outputs only. *)
InputStep == RobotStatusCallback \/ GimbalDataCallback \/ CmdVelCallback

LEMMA InputEffect ==
  ASSUME TypeOK, InputStep
  PROVE  /\ TypeOK'
         /\ UNCHANGED <<navVars, decisionVars>>
         /\ ArrivalStopsOutput => ArrivalStopsOutput'
<1>1. CASE RobotStatusCallback
  BY <1>1 DEF RobotStatusCallback, TypeOK, NavTypeOK, ArrivalStopsOutput,
              navVars, decisionVars, outputVars
<1>2. CASE GimbalDataCallback
  <2>1. PICK p \in Progress :
          game_progress' = IF game_progress # 4 THEN p ELSE game_progress
    BY <1>2 DEF GimbalDataCallback
  <2>2. game_progress' \in Progress \cup {0}
    BY <2>1 DEF TypeOK
  <2>3. QED
    BY <1>2, <2>2 DEF GimbalDataCallback, TypeOK, NavTypeOK, ArrivalStopsOutput,
                      navVars, decisionVars, outputVars
<1>3. CASE CmdVelCallback
  BY <1>3 DEF CmdVelCallback, TypeOK, NavTypeOK, ArrivalStopsOutput,
              navVars, decisionVars, inputVars
<1>4. QED
  BY <1>1, <1>2, <1>3 DEF InputStep

-----------------------------------------------------------------------------
(* The inductive invariant.  OnlyOutagesStrand alone is not inductive: a   *)
(* callback that sends needs serverUp, which NeverMissed gives it.         *)
NeverMissed == ~wasDown => serverUp

DecisionInv ==
  /\ TypeOK
  /\ NeverMissed
  /\ HandleIsLive
  /\ SequenceIsCarried
  /\ OnlyOutagesStrand
  /\ ArrivalStopsOutput

LEMMA InitInv == Init => DecisionInv
  BY InitType DEF Init, NavInit, DecisionInv, NeverMissed, HandleIsLive,
     SequenceIsCarried, OnlyOutagesStrand, GoingIsCarried, GoingStates, ArrivalStopsOutput

LEMMA NextInv == DecisionInv /\ [Next]_vars => DecisionInv'
<1> SUFFICES ASSUME DecisionInv, [Next]_vars
             PROVE  DecisionInv'
  OBVIOUS
<1>0. /\ TypeOK /\ NeverMissed /\ HandleIsLive
      /\ SequenceIsCarried /\ OnlyOutagesStrand /\ ArrivalStopsOutput
      /\ current_goal_handle \in Goals \cup {None}
  BY DEF DecisionInv, TypeOK
<1> USE DEF DecisionInv, NeverMissed, HandleIsLive, Known, SequenceIsCarried,
            OnlyOutagesStrand, GoingIsCarried, SomethingOutstanding, Outstanding
<1>1. CASE InputStep
  BY <1>0, <1>1, InputEffect DEF navVars, decisionVars
<1>2. CASE TimerCallback
  <2>1. HandleIsLive'
    BY <1>0, <1>2, TimerEffect
  <2>2. /\ TypeOK' /\ NeverMissed' /\ ArrivalStopsOutput'
        /\ SequenceIsCarried' /\ OnlyOutagesStrand'
    BY <1>0, <1>2, TimerEffect
  <2>3. QED
    BY <2>1, <2>2
<1>3. ASSUME NEW g \in Goals, NavToPoseGoalResponseCallback(g)
      PROVE  DecisionInv'
  BY <1>0, <1>3, ResponseEffect, NoneIsNothing
<1>4. ASSUME NEW g \in Goals, NavToPoseResultCallback(g)
      PROVE  DecisionInv'
  BY <1>0, <1>4, ResultEffect
<1>5. CASE Nav2
  <2>1. NavTypeOK
    BY <1>0 DEF TypeOK
  <2>2. /\ NavTypeOK'
        /\ \A g \in Goals : goal'[g].client = goal[g].client
        /\ (~wasDown => serverUp) => (~wasDown' => serverUp')
        /\ UNCHANGED <<decisionVars, inputVars, outputVars>>
    BY <1>5, <2>1, Nav2Effect DEF Nav2, nodeVars
  <2>3. wasDown' = FALSE => wasDown = FALSE
    BY <1>5, <2>1 DEF Nav2, NavStep, ServerAccept, ServerReject, ServerSucceed,
       ServerCancel, ServerFail, StatusUpdate, ServerDown, ServerBack, NavTypeOK
  <2>4. TypeOK'
    BY <1>0, <2>2 DEF TypeOK, decisionVars, inputVars, outputVars
  <2>5. ArrivalStopsOutput'
    BY <1>0, <2>2 DEF ArrivalStopsOutput, decisionVars, outputVars
  <2>6. HandleIsLive' /\ SequenceIsCarried' /\ OnlyOutagesStrand'
    BY <1>0, <2>1, <2>2, <2>3, <2>4 DEF decisionVars, NavTypeOK, TypeOK
  <2>7. QED
    BY <1>0, <2>2, <2>4, <2>5, <2>6
<1>6. CASE UNCHANGED vars
  <2>1. TypeOK'
    BY <1>0, <1>6 DEF vars, navVars, decisionVars, inputVars, outputVars, TypeOK, NavTypeOK
  <2>2. QED
    BY <1>0, <1>6, <2>1 DEF vars, navVars, decisionVars, outputVars, ArrivalStopsOutput
<1>7. QED
  BY <1>1, <1>2, <1>3, <1>4, <1>5, <1>6 DEF Next, InputStep

LEMMA SpecInv == Spec => []DecisionInv
  BY InitInv, NextInv, PTL DEF Spec

-----------------------------------------------------------------------------
(* Every variable keeps to its set of values. *)
THEOREM TypeCorrect == Spec => []TypeOK
<1>1. DecisionInv => TypeOK
  BY DEF DecisionInv
<1>2. QED
  BY <1>1, SpecInv, PTL

(* No cancellation is ever asked of a handle the client has forgotten. *)
THEOREM HandleAlwaysLive == Spec => []HandleIsLive
<1>1. DecisionInv => HandleIsLive
  BY DEF DecisionInv
<1>2. QED
  BY <1>1, SpecInv, PTL

(* An active sequence always has a goal out or a launch to come. *)
THEOREM SequenceAlwaysCarried == Spec => []SequenceIsCarried
<1>1. DecisionInv => SequenceIsCarried
  BY DEF DecisionInv
<1>2. QED
  BY <1>1, SpecInv, PTL

(* Only a missing action server can strand the node in a GOING state. *)
THEOREM StrandedByOutageOnly == Spec => []OnlyOutagesStrand
<1>1. DecisionInv => OnlyOutagesStrand
  BY DEF DecisionInv
<1>2. QED
  BY <1>1, SpecInv, PTL

(* After arrival the velocity for the chassis stays zero. *)
THEOREM ArrivalAlwaysStops == Spec => []ArrivalStopsOutput
<1>1. DecisionInv => ArrivalStopsOutput
  BY DEF DecisionInv
<1>2. QED
  BY <1>1, SpecInv, PTL

-----------------------------------------------------------------------------
(* The node implements the two-threshold policy.                           *)

LEMMA ModeAfterSend ==
  ASSUME current_state \in States, NEW q,
         current_state' = StateAfterSend(q, current_state)
  PROVE  Mode' = Mode \/ Mode' = "none"
  BY DEF StateAfterSend, Arrived, Mode, States, AttackStates, RetreatStates

LEMMA PolicyStep ==
  ASSUME TypeOK, [Next]_vars
  PROVE  [Policy!Next]_(Policy!vars)
<1>0. current_state \in States
  BY DEF TypeOK
<1> USE DEF Policy!Next, Policy!vars
<1>1. ASSUME UNCHANGED <<current_hp, game_progress>>,
             current_state' = current_state \/ current_state' = "IDLE"
      PROVE  [Policy!Next]_(Policy!vars)
  BY <1>1 DEF Mode, Policy!Release, AttackStates, RetreatStates
<1>2. ASSUME UNCHANGED <<current_hp, game_progress>>,
             NEW q, current_state' = StateAfterSend(q, current_state)
      PROVE  [Policy!Next]_(Policy!vars)
  <2>1. Mode' = Mode \/ Mode' = "none"
    BY <1>0, <1>2, ModeAfterSend
  <2>2. QED
    BY <1>2, <2>1 DEF Policy!Release
<1>3. CASE InputStep
  <2>1. UNCHANGED current_state
    BY <1>3 DEF InputStep, RobotStatusCallback, GimbalDataCallback, CmdVelCallback, decisionVars
  <2>2. game_progress = 4 => game_progress' = 4
    BY <1>3 DEF InputStep, RobotStatusCallback, GimbalDataCallback, CmdVelCallback, inputVars
  <2>3. QED
    BY <2>1, <2>2 DEF Policy!Report, Mode
<1>4. CASE TimerCallback
  <2>0. UNCHANGED <<current_hp, game_progress>>
    BY <1>4 DEF TimerCallback, inputVars
  <2>1. CASE TimerLaunchPending
    BY <1>2, <2>0, <2>1 DEF TimerLaunchPending
  <2>2. CASE TimerLeaveMatch
    BY <1>1, <2>0, <2>2 DEF TimerLeaveMatch, ResetToIdle
  <2>3. CASE TimerRetreat
    <3>1. Policy!Retreat
      BY <1>0, <2>0, <2>3 DEF TimerRetreat, Policy!Retreat, Policy!InMatch, InMatch,
         Mode, States, AttackStates, RetreatStates
    <3>2. QED
      BY <3>1
  <2>4. CASE TimerAttack
    <3>1. Policy!Attack
      BY <1>0, <2>0, <2>4 DEF TimerAttack, Policy!Attack, Policy!InMatch, InMatch,
         Mode, States, AttackStates, RetreatStates
    <3>2. QED
      BY <3>1
  <2>5. QED
    BY <1>4, <2>1, <2>2, <2>3, <2>4 DEF TimerCallback
<1>5. ASSUME NEW g \in Goals, NavToPoseGoalResponseCallback(g)
      PROVE  [Policy!Next]_(Policy!vars)
  BY <1>1, <1>5 DEF NavToPoseGoalResponseCallback, inputVars, GoalRejected,
     GoalAccepted, ResetToIdle
<1>6. ASSUME NEW g \in Goals, NavToPoseResultCallback(g)
      PROVE  [Policy!Next]_(Policy!vars)
  <2>0. UNCHANGED <<current_hp, game_progress>>
    BY <1>6 DEF NavToPoseResultCallback, inputVars
  <2>1. CASE ResultAdvance(g)
    BY <1>2, <2>0, <2>1 DEF ResultAdvance
  <2>2. CASE ResultCanceled(g) \/ ResultUnknown(g)
    BY <1>1, <2>0, <2>2 DEF ResultCanceled, ResultUnknown, ResetToIdle
  <2>3. QED
    BY <1>6, <2>1, <2>2 DEF NavToPoseResultCallback
<1>7. CASE Nav2 \/ UNCHANGED vars
  BY <1>1, <1>7 DEF Nav2, nodeVars, vars, decisionVars, inputVars
<1>8. QED
  BY <1>3, <1>4, <1>5, <1>6, <1>7 DEF Next, InputStep

(* Every behaviour of the node is one of the policy: attack and retreat    *)
(* begin only in a match, on the right side of the thresholds.             *)
THEOREM NodeImplementsPolicy == Spec => PolicySpec
<1>1. Init => Policy!Init
  BY DEF Init, NavInit, Policy!Init, Mode, AttackStates, RetreatStates
<1>2. TypeOK /\ [Next]_vars => [Policy!Next]_(Policy!vars)
  BY PolicyStep
<1>3. QED
  BY <1>1, <1>2, TypeCorrect, PTL DEF Spec, PolicySpec, Policy!Spec
==============================================================================

------------------------------ MODULE NavToPose ------------------------------
(***************************************************************************)
(* The navigate_to_pose action as sentry_decision_node.cpp uses it: the    *)
(* goal channel of the rclcpp_action client library and the Nav2 action    *)
(* server behind it.  Neither is part of this repository; the module says  *)
(* only what the node can observe of them.                                 *)
(*                                                                         *)
(* A goal is known to the client from the moment it is sent until its      *)
(* rejection or its result is handed to the node; then its identifier is   *)
(* free again.  So |Goals| bounds how many goals are outstanding at once,  *)
(* not how many are sent in a run.                                         *)
(***************************************************************************)
EXTENDS Naturals

CONSTANTS
  Goals,      \* identifiers of outstanding goals
  Points,     \* poses a goal can ask for
  None,       \* no goal handle, no pose
  FaultKinds, \* the kinds of fault that may happen
  MaxFaults   \* bound on their number in a run

ASSUME NoneIsNothing == None \notin Goals /\ None \notin Points
ASSUME FaultAssumption ==
  /\ FaultKinds \subseteq {"rejected", "aborted", "unknown", "outage"}
  /\ MaxFaults \in Nat

VARIABLES
  goal,       \* what the client and the server know of each goal
  serverUp,   \* wait_for_action_server(5 s) finds the server
  robotAt,    \* where the last goal that succeeded has put the robot
  faults,     \* faults so far
  wasDown     \* the server has been away at some time (history)

navVars == <<goal, serverUp, robotAt, faults, wasDown>>

Terminal == {"succeeded", "aborted", "canceled", "unknown"}

GoalRecord ==
  [ client : {"free", "sent", "accepted"},   \* the client library's view
    server : {"requested", "rejected", "executing"} \cup Terminal,
    to     : Points \cup {None},
    cancel : BOOLEAN,                        \* async_cancel_goal was called
    over   : BOOLEAN ]                       \* get_status() is terminal

Free == [client |-> "free", server |-> "requested", to |-> None,
         cancel |-> FALSE, over |-> FALSE]

Outstanding(g) == goal[g].client # "free"

(* The client library still knows the goal of a handle: async_cancel_goal  *)
(* throws UnknownGoalHandleError for any other handle.                     *)
Known(g) == goal[g].client = "accepted"

(* get_status() of the handle is STATUS_ACCEPTED or STATUS_EXECUTING.      *)
StatusActive(g) == ~goal[g].over

NavTypeOK ==
  /\ goal \in [Goals -> GoalRecord]
  /\ serverUp \in BOOLEAN
  /\ robotAt \in Points \cup {None}
  /\ faults \in 0 .. MaxFaults
  /\ wasDown \in BOOLEAN

NavInit ==
  /\ goal = [g \in Goals |-> Free]
  /\ serverUp = TRUE
  /\ robotAt = None
  /\ faults = 0
  /\ wasDown = FALSE

-----------------------------------------------------------------------------
(* Calls the node makes.  They change goal only.  SendGoal starts from     *)
(* known, what the client knows of the goals when the call is made: inside *)
(* a result callback that is goal without the goal that has ended.         *)

SendGoal(known, p) ==
  \E g \in Goals :
    /\ known[g].client = "free"
    /\ goal' = [known EXCEPT ![g] = [Free EXCEPT !.client = "sent", !.to = p]]

CancelGoal(g) == goal' = [goal EXCEPT ![g].cancel = TRUE]

-----------------------------------------------------------------------------
(* Replies the node's executor hands to its callbacks.                     *)

ResponseReady(g) ==
  /\ goal[g].client = "sent"
  /\ goal[g].server # "requested"

ResultReady(g) ==
  /\ goal[g].client = "accepted"
  /\ goal[g].server \in Terminal

TrackGoal(g) == [goal EXCEPT ![g].client = "accepted"]

ForgetGoal(g) == [goal EXCEPT ![g] = Free]

-----------------------------------------------------------------------------
(* Steps of the server and of the status topic.                            *)

Fault(kind) ==
  /\ kind \in FaultKinds
  /\ faults < MaxFaults
  /\ faults' = faults + 1

(* Nav2 runs one goal: a newer one preempts the goal in execution, which   *)
(* ends as aborted, or as canceled when its cancellation was asked for.    *)
Preempted(r) ==
  IF r.server = "executing"
  THEN [r EXCEPT !.server = IF r.cancel THEN "canceled" ELSE "aborted"]
  ELSE r

ServerAccept(g) ==
  /\ serverUp
  /\ goal[g].client = "sent"
  /\ goal[g].server = "requested"
  /\ goal' = [h \in Goals |-> IF h = g THEN [goal[h] EXCEPT !.server = "executing"]
                                       ELSE Preempted(goal[h])]
  /\ robotAt' = None
  /\ UNCHANGED <<serverUp, faults, wasDown>>

ServerReject(g) ==
  /\ serverUp
  /\ goal[g].client = "sent"
  /\ goal[g].server = "requested"
  /\ goal' = [goal EXCEPT ![g].server = "rejected"]
  /\ Fault("rejected")
  /\ UNCHANGED <<serverUp, robotAt, wasDown>>

ServerSucceed(g) ==
  /\ goal[g].server = "executing"
  /\ goal' = [goal EXCEPT ![g].server = "succeeded"]
  /\ robotAt' = goal[g].to
  /\ UNCHANGED <<serverUp, faults, wasDown>>

ServerCancel(g) ==
  /\ goal[g].server = "executing"
  /\ goal[g].cancel
  /\ goal' = [goal EXCEPT ![g].server = "canceled"]
  /\ UNCHANGED <<serverUp, robotAt, faults, wasDown>>

(* Planning or control fails, or the server no longer knows the goal when  *)
(* its result is asked for.                                                *)
ServerFail(g) ==
  /\ goal[g].server = "executing"
  /\ \E r \in {"aborted", "unknown"} :
       /\ goal' = [goal EXCEPT ![g].server = r]
       /\ Fault(r)
  /\ UNCHANGED <<serverUp, robotAt, wasDown>>

(* The status topic shows the end of a goal before its result arrives.     *)
StatusUpdate(g) ==
  /\ ResultReady(g)
  /\ ~goal[g].over
  /\ goal' = [goal EXCEPT ![g].over = TRUE]
  /\ UNCHANGED <<serverUp, robotAt, faults, wasDown>>

ServerDown ==
  /\ serverUp
  /\ serverUp' = FALSE
  /\ wasDown' = TRUE
  /\ Fault("outage")
  /\ UNCHANGED <<goal, robotAt>>

ServerBack ==
  /\ ~serverUp
  /\ serverUp' = TRUE
  /\ UNCHANGED <<goal, robotAt, faults, wasDown>>

NavStep ==
  \/ \E g \in Goals : \/ ServerAccept(g) \/ ServerReject(g) \/ ServerSucceed(g)
                      \/ ServerCancel(g) \/ ServerFail(g) \/ StatusUpdate(g)
  \/ ServerDown
  \/ ServerBack
==============================================================================

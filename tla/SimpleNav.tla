------------------------------- MODULE SimpleNav -------------------------------
(***************************************************************************)
(* simple_nav: sends its list of goals to navigate_through_poses, waits    *)
(* for the result, and sends the list again.  The node runs in one thread: *)
(* while it waits for the server nothing else is handled.                  *)
(***************************************************************************)
EXTENDS Integers

CONSTANTS
  GoalValues,  \* lengths the parameter goals can have
  MaxStops     \* bound: how often the server ends

ASSUME PatrolAssumption == GoalValues \subseteq Nat /\ MaxStops \in Nat

VARIABLES
  goals_,         \* how many
  loop_patrol_,
  is_navigating_,
  timer_,         \* a timer is running
  waiting,        \* in wait_for_action_server
  request,        \* the last list sent: none, sent, executing, rejected, succeeded,
                  \* failed; done when its result was handled, lost with its server
  answered,       \* the goal response was handled
  server_up, stops

patrolVars == <<goals_, loop_patrol_, is_navigating_, timer_, waiting, request, answered, server_up, stops>>

(* Three values are a goal; any other number of values is none.            *)
PatrolInit ==
  /\ goals_ \in {IF n % 3 = 0 THEN n \div 3 ELSE 0 : n \in GoalValues}
  /\ loop_patrol_ \in BOOLEAN
  /\ is_navigating_ = FALSE
  /\ timer_ = (goals_ > 0)
  /\ waiting = FALSE /\ request = "none" /\ answered = FALSE
  /\ server_up \in BOOLEAN /\ stops = 0

-----------------------------------------------------------------------------
(* sendGoals.                                                              *)

TimerFires ==
  /\ timer_ /\ ~waiting
  /\ timer_' = FALSE /\ waiting' = TRUE
  /\ UNCHANGED <<goals_, loop_patrol_, is_navigating_, request, answered, server_up, stops>>

ServerMissing_GivesUp ==
  /\ waiting /\ ~server_up
  /\ waiting' = FALSE
  /\ UNCHANGED <<goals_, loop_patrol_, is_navigating_, timer_, request, answered, server_up, stops>>

ServerMissing ==
  /\ waiting /\ ~server_up
  /\ waiting' = FALSE /\ timer_' = TRUE
  /\ UNCHANGED <<goals_, loop_patrol_, is_navigating_, request, answered, server_up, stops>>

SendGoals ==
  /\ waiting /\ server_up
  /\ waiting' = FALSE
  /\ is_navigating_' = TRUE
  /\ request' = "sent" /\ answered' = FALSE
  /\ UNCHANGED <<goals_, loop_patrol_, timer_, server_up, stops>>

-----------------------------------------------------------------------------
(* The callbacks.                                                          *)

(* A rejected list is not sent again.                                      *)
GoalResponseCallback ==
  /\ ~waiting /\ ~answered
  /\ request \in {"executing", "rejected", "succeeded", "failed"}
  /\ answered' = TRUE
  /\ is_navigating_' = (is_navigating_ /\ request # "rejected")
  /\ UNCHANGED <<goals_, loop_patrol_, timer_, waiting, request, server_up, stops>>

ResultCallback ==
  /\ ~waiting /\ answered
  /\ request \in {"succeeded", "failed"}
  /\ is_navigating_' = FALSE
  /\ timer_' = (loop_patrol_ \/ request = "failed")
  /\ request' = "done"
  /\ UNCHANGED <<goals_, loop_patrol_, waiting, answered, server_up, stops>>

-----------------------------------------------------------------------------
(* The server of navigate_through_poses.                                   *)

ServerDecides ==
  /\ server_up /\ request = "sent"
  /\ request' \in {"executing", "rejected"}
  /\ UNCHANGED <<goals_, loop_patrol_, is_navigating_, timer_, waiting, answered, server_up, stops>>

ServerFinishes ==
  /\ server_up /\ request = "executing"
  /\ request' \in {"succeeded", "failed"}
  /\ UNCHANGED <<goals_, loop_patrol_, is_navigating_, timer_, waiting, answered, server_up, stops>>

(* What it had not answered goes with it; nobody tells the client.         *)
ServerStops ==
  /\ server_up /\ stops < MaxStops
  /\ server_up' = FALSE /\ stops' = stops + 1
  /\ request' = (IF request \in {"none", "done"} THEN request ELSE "lost")
  /\ UNCHANGED <<goals_, loop_patrol_, is_navigating_, timer_, waiting, answered>>

ServerStarts ==
  /\ ~server_up
  /\ server_up' = TRUE
  /\ UNCHANGED <<goals_, loop_patrol_, is_navigating_, timer_, waiting, request, answered, stops>>

Executor == TimerFires \/ ServerMissing \/ SendGoals \/ GoalResponseCallback \/ ResultCallback
Server == ServerDecides \/ ServerFinishes

PatrolNext == Executor \/ Server \/ ServerStops \/ ServerStarts

PatrolFairness == WF_patrolVars(Executor) /\ WF_patrolVars(Server)

PatrolSpec == PatrolInit /\ [][PatrolNext]_patrolVars /\ PatrolFairness

-----------------------------------------------------------------------------
(* If there are goals and the server stays up in the end, the list is sent *)
(* again and again, until it has succeeded where no loop is asked for.     *)
(* Only two things end the patrol: a list that is rejected and a server    *)
(* that goes with a list it has not answered (lines 106 to 108; there is   *)
(* no timeout for the result).                                             *)
PatrolGoesOn ==
  goals_ > 0 /\ <>[]server_up =>
    \/ []<>(request = "sent")
    \/ <>[](request \in {"rejected", "lost"})
    \/ <>[](request = "done" /\ ~loop_patrol_ /\ ~is_navigating_)
==============================================================================

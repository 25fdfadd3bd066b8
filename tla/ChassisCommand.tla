---------------------------- MODULE ChassisCommand ----------------------------
(***************************************************************************)
(* From the decision node to the chassis: the 100 Hz publisher of          *)
(* sentry_decision_node.cpp, the topic /cmd_vel_udp, the node              *)
(* cmd_vel_to_udp.py with its flag filter and dead zone, and the UDP link. *)
(* It composes SentryDecision with the script.                             *)
(*                                                                         *)
(* vx stands for the three velocity components: vy and wz take the same    *)
(* way without the dead zone.  A speed is an integer in units of 1/160     *)
(* m/s, so that the script's int(vx * 80) is a halving with truncation.    *)
(***************************************************************************)
EXTENDS SentryDecision, Integers

CONSTANTS
  TopicDepth,                \* history depth of /cmd_vel_udp (10 in the code)
  flag_wz_switch_threshold   \* 3 in the code

ASSUME ChainParameters ==
  /\ TopicDepth \in Nat \ {0}
  /\ flag_wz_switch_threshold = 3
  /\ Velocities \subseteq Int

VARIABLES
  topic,                   \* messages published, not yet taken by the script
  last_stable_flag_wz,
  pending_flag_wz,
  pending_flag_wz_count,
  wire,                    \* datagrams under way
  chassis                  \* the command the chassis executes

filterVars == <<last_stable_flag_wz, pending_flag_wz, pending_flag_wz_count>>
chainVars == <<topic, filterVars, wire, chassis>>
allVars == <<vars, chainVars>>

Flags == {1, 2}
NoFlag == 0                \* None in the script

CmdVelUdp == [vx : Velocities, flag_wz : Flags]
Datagram == [vx : Int, flag_wz : Flags]

ChainInit ==
  /\ Init
  /\ topic = <<>>
  /\ last_stable_flag_wz = NoFlag
  /\ pending_flag_wz = NoFlag
  /\ pending_flag_wz_count = 0
  /\ wire = {}
  /\ chassis = [vx |-> 0, flag_wz |-> 2]

(* A history of the last n elements: the oldest one gives way. *)
KeepLast(s, e, n) == IF Len(s) < n THEN Append(s, e) ELSE Append(Tail(s), e)

-----------------------------------------------------------------------------
FlagWz == IF game_progress = 4 THEN 1 ELSE 2

CmdVelUdpTimerCallback ==
  /\ topic' = KeepLast(topic,
                       [vx |-> IF goal_reached THEN 0 ELSE latest_cmd_vel,
                        flag_wz |-> FlagWz],
                       TopicDepth)
  /\ UNCHANGED <<vars, filterVars, wire, chassis>>

-----------------------------------------------------------------------------
(* The script.                                                             *)

Truncated(v) == IF v >= 0 THEN v \div 2 ELSE -((-v) \div 2)

ApplyDeadzone_LiftsZero(value) ==
  IF value \in -29 .. 29 THEN (IF value >= 0 THEN 30 ELSE -30) ELSE value

ApplyDeadzone(value) ==
  IF value = 0 THEN 0
  ELSE IF value \in -29 .. 29 THEN (IF value > 0 THEN 30 ELSE -30)
  ELSE value

(* filter_flag_wz(): a new value becomes the stable one when it comes      *)
(* flag_wz_switch_threshold times in a row; the first value at once.       *)
FirstFlag(flag) ==
  /\ last_stable_flag_wz = NoFlag
  /\ last_stable_flag_wz' = flag
  /\ UNCHANGED <<pending_flag_wz, pending_flag_wz_count>>

StableFlag(flag) ==
  /\ flag = last_stable_flag_wz
  /\ pending_flag_wz' = NoFlag
  /\ pending_flag_wz_count' = 0
  /\ UNCHANGED last_stable_flag_wz

NewFlag_Forgotten(flag) ==
  /\ last_stable_flag_wz \notin {NoFlag, flag}
  /\ flag # pending_flag_wz
  /\ pending_flag_wz_count' = 1
  /\ UNCHANGED <<last_stable_flag_wz, pending_flag_wz>>

NewFlag(flag) ==
  /\ last_stable_flag_wz \notin {NoFlag, flag}
  /\ flag # pending_flag_wz
  /\ pending_flag_wz' = flag
  /\ pending_flag_wz_count' = 1
  /\ UNCHANGED last_stable_flag_wz

RepeatedFlag(flag) ==
  /\ last_stable_flag_wz \notin {NoFlag, flag}
  /\ flag = pending_flag_wz
  /\ IF pending_flag_wz_count + 1 >= flag_wz_switch_threshold
     THEN /\ last_stable_flag_wz' = flag
          /\ pending_flag_wz' = NoFlag
          /\ pending_flag_wz_count' = 0
     ELSE /\ pending_flag_wz_count' = pending_flag_wz_count + 1
          /\ UNCHANGED <<last_stable_flag_wz, pending_flag_wz>>

FilterFlagWz(flag) ==
  FirstFlag(flag) \/ StableFlag(flag) \/ NewFlag(flag) \/ RepeatedFlag(flag)

CmdVelUdpCallback ==
  /\ topic # <<>>
  /\ LET msg == Head(topic) IN
       /\ FilterFlagWz(msg.flag_wz)
       /\ wire' = wire \cup {[vx |-> ApplyDeadzone(Truncated(msg.vx)),
                              flag_wz |-> last_stable_flag_wz']}
  /\ topic' = Tail(topic)
  /\ UNCHANGED <<vars, chassis>>

-----------------------------------------------------------------------------
(* UDP: a datagram arrives, out of order perhaps, or is lost; an error of  *)
(* sendto is caught and loses it as well.                                  *)

Arrive(d) ==
  /\ d \in wire
  /\ wire' = wire \ {d}
  /\ chassis' = d
  /\ UNCHANGED <<vars, topic, filterVars>>

Lose(d) ==
  /\ d \in wire
  /\ wire' = wire \ {d}
  /\ UNCHANGED <<vars, topic, filterVars, chassis>>

Decide == Next /\ UNCHANGED chainVars

ChainNext ==
  \/ Decide
  \/ CmdVelUdpTimerCallback
  \/ CmdVelUdpCallback
  \/ \E d \in wire : Arrive(d) \/ Lose(d)

ChainSpec == ChainInit /\ [][ChainNext]_allVars

(* The timer fires and the subscription is served again and again; the     *)
(* link loses datagrams but not every copy of one sent again and again.    *)
ChainFairness ==
  /\ WF_allVars(CmdVelUdpTimerCallback)
  /\ WF_allVars(CmdVelUdpCallback)
  /\ \A v \in {ApplyDeadzone(Truncated(u)) : u \in Velocities}, f \in Flags :
       SF_allVars(Arrive([vx |-> v, flag_wz |-> f]))

FairChainSpec == ChainSpec /\ ChainFairness

-----------------------------------------------------------------------------
(* A match that has begun reaches the chassis, whatever UDP loses.         *)
MatchReachesChassis == game_progress = 4 ~> chassis.flag_wz = 1

(* A robot that has arrived for good is told to stand still for good.      *)
ArrivalReachesChassis == <>[]goal_reached => <>[](chassis.vx = 0)
==============================================================================

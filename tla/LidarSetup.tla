------------------------------- MODULE LidarSetup -------------------------------
(***************************************************************************)
(* How livox_ros_driver2 configures a lidar.  One SDK thread runs          *)
(* LidarInfoChangeCallback whenever a lidar shows up or changes; it sends  *)
(* requests, whose replies other callbacks handle.  Once every setting     *)
(* of the lidar is acknowledged, connect_state becomes "sampling" and the  *)
(* poll threads of LidarHandoff publish its packets.                       *)
(*                                                                         *)
(* The lidar answers a request, refuses it, or is not heard in time; the   *)
(* SDK then reports one of success, failure, timeout.  A map insertion     *)
(* that races with a lookup without the lock may hide a lidar that is in   *)
(* the map.                                                                *)
(*                                                                         *)
(* MutexFree_Always and the like are faulty variants, used by no          *)
(* specification, that the properties rule out.                            *)
(***************************************************************************)
EXTENDS Integers, FiniteSets

CONSTANTS
  Lidar,            \* the lidars on the network
  Configured,       \* those the configuration file defines
  Settings,         \* what the file can set of a lidar
  wanted,           \* what it does set of each lidar it defines (not -1)
  kMaxSourceLidar,  \* size of the index
  MaxChanges        \* bound: calls of LidarInfoChangeCallback

(* In the order of their bits in set_bits. *)
Bit == [data_type |-> 0, scan_pattern |-> 1, blind_spot |-> 2, dual_emit |-> 3]
Requests == Settings \cup {"work_mode"}

ASSUME SetupParameters ==
  /\ Settings \subseteq DOMAIN Bit
  /\ Configured \subseteq Lidar
  /\ wanted \in [Configured -> SUBSET Settings]
  /\ kMaxSourceLidar \in Nat
  /\ IsFiniteSet(Configured) /\ Cardinality(Configured) <= kMaxSourceLidar
  /\ MaxChanges \in Nat

(* The devices are static storage: the configuration of a lidar that the   *)
(* file does not define is all zeros, and zero is not -1.                  *)
Wanted(l) == IF l \in Configured THEN wanted[l] ELSE Settings

VARIABLES
  indexed,        \* lidars in the index
  set_bits,       \* of each lidar: settings not yet acknowledged
  connect_state,
  pending,        \* of each lidar and request: how many are unanswered
  info,           \* step of LidarInfoChangeCallback, its lidar, what it has to set
  changes,        \* calls of LidarInfoChangeCallback so far
  acked,          \* history: requests the lidar has acknowledged
  dropped         \* history: requests the driver has stopped retrying

deviceVars == <<set_bits, connect_state>>
historyVars == <<acked, dropped>>
setupVars == <<indexed, deviceVars, pending, info, changes, historyVars>>

Idle == [step |-> "idle"]

SetupTypeOK ==
  /\ indexed \subseteq Lidar
  /\ IsFiniteSet(indexed) /\ Cardinality(indexed) <= kMaxSourceLidar
  /\ set_bits \in [Lidar -> SUBSET Settings]
  /\ connect_state \in [Lidar -> {"off", "sampling"}]
  /\ pending \in [Lidar -> [Requests -> Nat]]
  /\ info \in {Idle} \cup [step : {"insert", "set", "finish"}, lidar : Lidar, todo : SUBSET Settings]
  /\ changes \in 0 .. MaxChanges
  /\ acked \in [Lidar -> SUBSET Requests]
  /\ dropped \in [Lidar -> SUBSET Settings]

SetupInit ==
  /\ indexed = Configured
  /\ set_bits = [l \in Lidar |-> {}]
  /\ connect_state = [l \in Lidar |-> "off"]
  /\ pending = [l \in Lidar |-> [r \in Requests |-> 0]]
  /\ info = Idle
  /\ changes = 0
  /\ acked = [l \in Lidar |-> {}]
  /\ dropped = [l \in Lidar |-> {}]

-----------------------------------------------------------------------------
(* LidarInfoChangeCallback.                                                *)

InfoThen(step, todo) == info' = [info EXCEPT !.step = step, !.todo = todo]

InfoChange(l) ==
  /\ info.step = "idle"
  /\ changes < MaxChanges
  /\ changes' = changes + 1
  /\ info' = IF l \in indexed
             THEN [step |-> "set", lidar |-> l, todo |-> Wanted(l)]
             ELSE [step |-> "insert", lidar |-> l, todo |-> {}]
  /\ UNCHANGED <<indexed, deviceVars, pending, historyVars>>

IndexIsFull == Cardinality(indexed) >= kMaxSourceLidar

GetFreeIndex ==
  /\ info.step = "insert"
  /\ IF IndexIsFull
     THEN info' = Idle /\ UNCHANGED indexed
     ELSE InfoThen("finish", {}) /\ indexed' = indexed \cup {info.lidar}
  /\ UNCHANGED <<deviceVars, pending, changes, historyVars>>

(* With config_mutex_ held: the bit, and the request. *)
SetSetting(s) ==
  /\ info.step = "set"
  /\ s \in info.todo /\ \A t \in info.todo : Bit[s] <= Bit[t]
  /\ set_bits' = [set_bits EXCEPT ![info.lidar] = @ \cup {s}]
  /\ pending' = [pending EXCEPT ![info.lidar][s] = @ + 1]
  /\ InfoThen("set", info.todo \ {s})
  /\ UNCHANGED <<indexed, connect_state, changes, historyVars>>

Unlock ==
  /\ info.step = "set"
  /\ info.todo = {}
  /\ InfoThen("finish", {})
  /\ UNCHANGED <<indexed, deviceVars, pending, changes, historyVars>>

Finish ==
  /\ info.step = "finish"
  /\ pending' = [pending EXCEPT ![info.lidar]["work_mode"] = @ + 1]
  /\ info' = Idle
  /\ UNCHANGED <<indexed, deviceVars, changes, historyVars>>

InfoStep == GetFreeIndex \/ (\E s \in Settings : SetSetting(s)) \/ Unlock \/ Finish

-----------------------------------------------------------------------------
(* The replies.                                                            *)

MutexFree_Always == TRUE

MutexFree == info.step # "set"

Answer(l, r) == pending' = [pending EXCEPT ![l][r] = @ - 1]

Acknowledge(l, r) == acked' = [acked EXCEPT ![l] = @ \cup {r}]

Drop(l, s) == dropped' = [dropped EXCEPT ![l] = @ \cup {s}]

ClearBit_TestsFirst(l, s) ==
  /\ set_bits' = [set_bits EXCEPT ![l] = @ \ {s}]
  /\ connect_state' = [connect_state EXCEPT ![l] = IF set_bits[l] = {} THEN "sampling" ELSE @]

ClearBit(l, s) ==
  /\ set_bits' = [set_bits EXCEPT ![l] = @ \ {s}]
  /\ connect_state' = [connect_state EXCEPT ![l] = IF set_bits'[l] = {} THEN "sampling" ELSE @]

SettingSucceeds(l, s) ==
  /\ pending[l][s] > 0
  /\ MutexFree
  /\ Answer(l, s)
  /\ Acknowledge(l, s)
  /\ ClearBit(l, s)
  /\ UNCHANGED <<indexed, info, changes, dropped>>

(* Sent again. *)
SettingTimesOut(l, s) ==
  /\ pending[l][s] > 0
  /\ UNCHANGED setupVars

SettingFails(l, s) ==
  /\ pending[l][s] > 0
  /\ Answer(l, s)
  /\ Drop(l, s)
  /\ UNCHANGED <<indexed, deviceVars, info, changes, acked>>

(* GetIndex finds the key outside index_mutex_: while another key is being *)
(* inserted it may miss it, and the callback returns.                      *)
SettingMissed(l, s) ==
  /\ info.step = "insert" /\ ~IndexIsFull
  /\ pending[l][s] > 0
  /\ Answer(l, s)
  /\ Drop(l, s)
  /\ UNCHANGED <<indexed, deviceVars, info, changes, acked>>

SettingReply(l, s) ==
  \/ SettingSucceeds(l, s)
  \/ SettingTimesOut(l, s)
  \/ SettingFails(l, s)
  \/ SettingMissed(l, s)

WorkModeSucceeds(l) ==
  /\ pending[l]["work_mode"] > 0
  /\ Answer(l, "work_mode")
  /\ Acknowledge(l, "work_mode")
  /\ UNCHANGED <<indexed, deviceVars, info, changes, dropped>>

(* Sent again whatever the status, and without a lookup in the index. *)
WorkModeFails(l) ==
  /\ pending[l]["work_mode"] > 0
  /\ UNCHANGED setupVars

Reply(l) ==
  \/ \E s \in Settings : SettingReply(l, s)
  \/ WorkModeSucceeds(l)
  \/ WorkModeFails(l)

SetupNext ==
  \/ \E l \in Lidar : InfoChange(l) \/ Reply(l)
  \/ InfoStep

SetupSpec == SetupInit /\ [][SetupNext]_setupVars

(* A lidar that is asked again and again answers at last. *)
SetupFairness ==
  /\ WF_setupVars(InfoStep)
  /\ \A l \in Lidar : SF_setupVars(WorkModeSucceeds(l))
  /\ \A l \in Lidar, s \in Settings : SF_setupVars(SettingSucceeds(l, s))

FairSetupSpec == SetupSpec /\ SetupFairness

-----------------------------------------------------------------------------
(* No packet of a lidar is published before the lidar has acknowledged     *)
(* every setting it was to be given: the bits are set under config_mutex_, *)
(* so that an early reply does not find set_bits empty in between.         *)
SampledIsConfigured ==
  \A l \in Lidar : connect_state[l] = "sampling" => Wanted(l) \subseteq acked[l]

(* A setting that keeps a lidar from sampling is still being asked for,    *)
(* or the driver has stopped retrying it after a refusal or a missed reply. *)
NothingForgotten ==
  \A l \in Lidar : \A s \in set_bits[l] : pending[l][s] > 0 \/ s \in dropped[l]

Changed(l) == info # Idle /\ info.lidar = l

(* A lidar with at least one setting in the file comes to be sampled,      *)
(* through any number of timeouts, unless it refuses a setting.            *)
LidarsAreSampled ==
  \A l \in Configured :
    wanted[l] # {} /\ Changed(l) ~> connect_state[l] = "sampling" \/ dropped[l] # {}

(* Only the lidars the user defined are given settings. *)
OnlyUserDefined == \A l \in Lidar \ Configured : set_bits[l] = {}
==============================================================================

------------------------------ MODULE LidarHandoff ------------------------------
(***************************************************************************)
(* How livox_ros_driver2 hands packets from the SDK to ROS.  For each      *)
(* channel, point clouds ("pcd") and inertial data ("imu"), one thread     *)
(* stores packets (PushLidarData, StorageImuData) and one poll thread      *)
(* publishes them (DistributePointCloudData, DistributeImuData); a         *)
(* semaphore wakes the poll thread.  ~DriverNode ends both poll threads.   *)
(*                                                                         *)
(* Only the length of a queue is kept: LidarQueue shows that the ring is a *)
(* bounded queue, and the inertial queue is a list under a mutex.  A step  *)
(* ends where the other thread can notice: at an access to a queue, to the *)
(* semaphore, to connect_state or to an exit flag.                         *)
(*                                                                         *)
(* PushPacket_Silent and the like are faulty variants, used by no          *)
(* specification, that the properties rule out.                            *)
(***************************************************************************)
EXTENDS Integers

CONSTANTS
  lidar_count,  \* lidars with an index; the code scans kMaxSourceLidar
  Capacity      \* slots of a ring

ASSUME HandoffParameters ==
  /\ lidar_count \in Nat \ {0}
  /\ Capacity \in Nat \ {0}

Channels == {"pcd", "imu"}
Lidars == 1 .. lidar_count

VARIABLES
  lidar_state,  \* connect_state of each lidar
  length,         \* packets in the queue of a channel and a lidar
  count,          \* count_ of the semaphore of a channel
  storing,        \* step of the storing thread
  polling,        \* step of the poll thread
  lidar,          \* the lidar the poll thread is at
  skipped,        \* history: lidars its last scan left out
  request_exit,
  exit_signal,
  driver          \* step of ~DriverNode

queueVars == <<length, count>>
pollVars == <<polling, lidar, skipped>>
exitVars == <<request_exit, exit_signal, driver>>
handoffVars == <<lidar_state, queueVars, storing, pollVars, exitVars>>

StoringSteps == {"idle", "stored", "count", "signal"}
PollingSteps == {"test", "wait", "scan", "drain", "publish", "future", "done"}

HandoffTypeOK ==
  /\ lidar_state \in [Lidars -> {"off", "sampling"}]
  /\ length \in [Channels -> [Lidars -> 0 .. Capacity]]
  /\ count \in [Channels -> 0 .. 1]
  /\ storing \in [Channels -> [step : StoringSteps, at : Lidars]]
  /\ polling \in [Channels -> PollingSteps]
  /\ lidar \in [Channels -> 1 .. lidar_count + 1]
  /\ skipped \in [Channels -> SUBSET Lidars]
  /\ request_exit \in BOOLEAN
  /\ exit_signal \in BOOLEAN
  /\ driver \in {"running", "signal", "joinPcd", "joinImu", "destroyed"}

HandoffInit ==
  /\ lidar_state = [l \in Lidars |-> "off"]
  /\ length = [c \in Channels |-> [l \in Lidars |-> 0]]
  /\ count = [c \in Channels |-> 0]
  /\ storing = [c \in Channels |-> [step |-> "idle", at |-> 1]]
  /\ polling = [c \in Channels |-> "test"]
  /\ lidar = [c \in Channels |-> 1]
  /\ skipped = [c \in Channels |-> {}]
  /\ request_exit = FALSE
  /\ exit_signal = FALSE
  /\ driver = "running"

-----------------------------------------------------------------------------
(* The last setting of a lidar is acknowledged: see LidarSetup. *)
Connect(l) ==
  /\ lidar_state[l] = "off"
  /\ lidar_state' = [lidar_state EXCEPT ![l] = "sampling"]
  /\ UNCHANGED <<queueVars, storing, pollVars, exitVars>>

-----------------------------------------------------------------------------
(* The storing thread.                                                     *)

Full(c, l) == length[c][l] = Capacity

StoreThen(c, step, l) == storing' = [storing EXCEPT ![c] = [step |-> step, at |-> l]]

(* A packet is stored; or, the ring being full, it is dropped and the      *)
(* semaphore is looked at straight away.  The inertial queue has no bound: *)
(* there length stays at Capacity, which stands for that many or more.     *)
PushPacket_Silent(c, l) ==
  /\ storing[c].step = "idle"
  /\ IF Full(c, l)
     THEN UNCHANGED <<storing, length>>
     ELSE /\ length' = [length EXCEPT ![c][l] = @ + 1]
          /\ StoreThen(c, "stored", l)
  /\ UNCHANGED <<lidar_state, count, pollVars, exitVars>>

PushPacket(c, l) ==
  /\ storing[c].step = "idle"
  /\ IF Full(c, l)
     THEN /\ StoreThen(c, IF c = "pcd" THEN "count" ELSE "stored", l)
          /\ UNCHANGED length
     ELSE /\ length' = [length EXCEPT ![c][l] = @ + 1]
          /\ StoreThen(c, "stored", l)
  /\ UNCHANGED <<lidar_state, count, pollVars, exitVars>>

LookAtQueue(c) ==
  /\ storing[c].step = "stored"
  /\ StoreThen(c, IF length[c][storing[c].at] = 0 THEN "idle" ELSE "count", storing[c].at)
  /\ UNCHANGED <<lidar_state, queueVars, pollVars, exitVars>>

LookAtCount_Negated(c) ==
  /\ storing[c].step = "count"
  /\ StoreThen(c, IF count[c] <= 0 THEN "idle" ELSE "signal", storing[c].at)
  /\ UNCHANGED <<lidar_state, queueVars, pollVars, exitVars>>

LookAtCount(c) ==
  /\ storing[c].step = "count"
  /\ StoreThen(c, IF count[c] <= 0 THEN "signal" ELSE "idle", storing[c].at)
  /\ UNCHANGED <<lidar_state, queueVars, pollVars, exitVars>>

Signal(c) ==
  /\ storing[c].step = "signal"
  /\ count' = [count EXCEPT ![c] = @ + 1]
  /\ StoreThen(c, "idle", storing[c].at)
  /\ UNCHANGED <<lidar_state, length, pollVars, exitVars>>

Store(c) == LookAtQueue(c) \/ LookAtCount(c) \/ Signal(c)

-----------------------------------------------------------------------------
(* The poll thread.                                                        *)

PollThen(c, step) == polling' = [polling EXCEPT ![c] = step]

TestExit(c) ==
  /\ polling[c] = "test"
  /\ PollThen(c, IF request_exit THEN "future" ELSE "wait")
  /\ UNCHANGED <<lidar_state, queueVars, storing, lidar, skipped, exitVars>>

Wait(c) ==
  /\ polling[c] = "wait"
  /\ count[c] > 0
  /\ count' = [count EXCEPT ![c] = @ - 1]
  /\ lidar' = [lidar EXCEPT ![c] = 1]
  /\ skipped' = [skipped EXCEPT ![c] = {}]
  /\ PollThen(c, "scan")
  /\ UNCHANGED <<lidar_state, length, storing, exitVars>>

ScanSkips(c) ==
  /\ polling[c] = "scan"
  /\ lidar[c] \in Lidars
  /\ lidar_state[lidar[c]] # "sampling"
  /\ skipped' = [skipped EXCEPT ![c] = @ \cup {lidar[c]}]
  /\ lidar' = [lidar EXCEPT ![c] = @ + 1]
  /\ UNCHANGED <<lidar_state, queueVars, storing, polling, exitVars>>

ScanFinds(c) ==
  /\ polling[c] = "scan"
  /\ lidar[c] \in Lidars
  /\ lidar_state[lidar[c]] = "sampling"
  /\ PollThen(c, "drain")
  /\ UNCHANGED <<lidar_state, queueVars, storing, lidar, skipped, exitVars>>

ScanEnds(c) ==
  /\ polling[c] = "scan"
  /\ lidar[c] \notin Lidars
  /\ PollThen(c, "future")
  /\ UNCHANGED <<lidar_state, queueVars, storing, lidar, skipped, exitVars>>

(* while (!IsRequestExit() && !empty): both are read again for each round. *)
DrainEnds(c) ==
  /\ polling[c] = "drain"
  /\ request_exit \/ length[c][lidar[c]] = 0
  /\ lidar' = [lidar EXCEPT ![c] = @ + 1]
  /\ PollThen(c, "scan")
  /\ UNCHANGED <<lidar_state, queueVars, storing, skipped, exitVars>>

DrainGoesOn(c) ==
  /\ polling[c] = "drain"
  /\ ~request_exit /\ length[c][lidar[c]] > 0
  /\ PollThen(c, "publish")
  /\ UNCHANGED <<lidar_state, queueVars, storing, lidar, skipped, exitVars>>

(* PublishCustomPointcloud empties the ring without a look at the exit     *)
(* flag; PublishImuData takes one packet.                                  *)
Publish(c) ==
  /\ polling[c] = "publish"
  /\ length[c][lidar[c]] > 0
  /\ length' = [length EXCEPT ![c][lidar[c]] = @ - 1]
  /\ PollThen(c, IF c = "pcd" THEN "publish" ELSE "drain")
  /\ UNCHANGED <<lidar_state, count, storing, lidar, skipped, exitVars>>

PublishEnds(c) ==
  /\ polling[c] = "publish"
  /\ length[c][lidar[c]] = 0
  /\ PollThen(c, "drain")
  /\ UNCHANGED <<lidar_state, queueVars, storing, lidar, skipped, exitVars>>

(* future_.wait_for(0) != timeout ends the thread. *)
PollFuture(c) ==
  /\ polling[c] = "future"
  /\ PollThen(c, IF exit_signal THEN "done" ELSE "test")
  /\ UNCHANGED <<lidar_state, queueVars, storing, lidar, skipped, exitVars>>

Poll(c) ==
  \/ TestExit(c) \/ Wait(c)
  \/ ScanSkips(c) \/ ScanFinds(c) \/ ScanEnds(c)
  \/ DrainEnds(c) \/ DrainGoesOn(c) \/ Publish(c) \/ PublishEnds(c)
  \/ PollFuture(c)

-----------------------------------------------------------------------------
(* ~DriverNode.                                                            *)

RequestExit ==
  /\ driver = "running"
  /\ request_exit' = TRUE
  /\ driver' = "signal"
  /\ UNCHANGED <<lidar_state, queueVars, storing, pollVars, exit_signal>>

SetExitSignal_Skipped ==
  /\ driver = "signal"
  /\ driver' = "joinPcd"
  /\ UNCHANGED <<lidar_state, queueVars, storing, pollVars, request_exit, exit_signal>>

SetExitSignal ==
  /\ driver = "signal"
  /\ exit_signal' = TRUE
  /\ driver' = "joinPcd"
  /\ UNCHANGED <<lidar_state, queueVars, storing, pollVars, request_exit>>

Join(c, step, next) ==
  /\ driver = step
  /\ polling[c] = "done"
  /\ driver' = next
  /\ UNCHANGED <<lidar_state, queueVars, storing, pollVars, request_exit, exit_signal>>

Destroy == SetExitSignal \/ Join("pcd", "joinPcd", "joinImu") \/ Join("imu", "joinImu", "destroyed")

HandoffNext ==
  \/ \E l \in Lidars : Connect(l)
  \/ \E c \in Channels, l \in Lidars : PushPacket(c, l)
  \/ \E c \in Channels : Store(c) \/ Poll(c)
  \/ RequestExit
  \/ Destroy

HandoffSpec == HandoffInit /\ [][HandoffNext]_handoffVars

(* Threads are scheduled, and every lidar goes on sending on both          *)
(* channels.  Nobody has to end the driver or to connect a lidar.          *)
HandoffFairness ==
  /\ \A c \in Channels : WF_handoffVars(Store(c)) /\ WF_handoffVars(Poll(c))
  /\ \A c \in Channels, l \in Lidars : SF_handoffVars(PushPacket(c, l))
  /\ WF_handoffVars(Destroy)

FairHandoffSpec == HandoffSpec /\ HandoffFairness

-----------------------------------------------------------------------------
(* No wakeup is lost between the unlocked GetCount() and Signal(): when    *)
(* the poll thread has to wait and nothing is being stored, every lidar    *)
(* its last scan looked at has an empty queue.                             *)
NoLostWakeup ==
  \A c \in Channels :
    polling[c] = "wait" /\ count[c] = 0 /\ storing[c].step = "idle"
      => \A l \in Lidars \ skipped[c] : length[c][l] = 0

(* Publishing is faster than the lidars send: no poll thread stays with    *)
(* one queue for ever.                                                     *)
KeepsUp == \A c \in Channels : []<>(polling[c] \notin {"drain", "publish"})

(* The packets of every connected lidar go on being published, also when   *)
(* its ring was full before it was connected.                              *)
PacketsFlow ==
  KeepsUp =>
    \A c \in Channels, l \in Lidars :
      <>[](lidar_state[l] = "sampling") /\ []~request_exit
        => []<><<Publish(c) /\ lidar[c] = l>>_handoffVars

(* ~DriverNode gets past both joins while the lidars send: a poll thread   *)
(* that waits for a packet when the exit is requested still ends.          *)
ShutdownCompletes == KeepsUp => (request_exit ~> driver = "destroyed")
==============================================================================

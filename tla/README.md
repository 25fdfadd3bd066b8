# Verification of the sentry navigation stack

TLA+ models of the parts of this repository in which threads, callbacks and
messages interact, and of the algorithms whose results those parts rely on; the TLC
runs that check them, and TLAPS proofs of their main properties. Paths are relative to
the repository, mostly under `src/sentry_*`. `PROJECT.json` lists runs, mutants, the
line map, findings, hazards and theorems in a form for tools.

## The system

| part | state it keeps | operations | talks to |
|---|---|---|---|
| `sentry_decision` node | state, waypoint queue, goal handle, put-off sequence, hit points, match progress, last velocity | four message callbacks, a decision timer (1 s), a 100 Hz output timer, goal response and result callbacks | Nav2 (action), referee data (topics), `/cmd_vel` in, `/cmd_vel_udp` out |
| Nav2 `navigate_to_pose` (external) | goals and their status | accept, reject, succeed, abort, cancel, preempt; go down and come back | decision node |
| `cmd_vel_to_udp.py` | flag filter | one topic callback | `/cmd_vel_udp` in, UDP to the chassis |
| `livox_ros_driver2` set-up | index, `set_bits`, connect state | information-change callback, reply callbacks | Livox SDK |
| ... framing (`pub_handler.cpp`) | raw packet queue, points of each lidar, time of the last frame | SDK callback, processing thread | set-up, hand-over |
| ... packet ring (`ldq.cpp`) | indices and slots | push, pop | storing thread, poll thread |
| ... hand-over (`lds.cpp`, `lddc.cpp`) | semaphores, exit flags, connect states | store, wait, scan, publish, destructor | SDK threads, two poll threads |
| ... configuration file, points, messages | devices, extrinsic parameters, publishers | parse, convert a packet, build a message | file, topics |
| `standard_robot_pp_ros2` link | port, flag, send packet | receive, send and port-protection threads | controller board |
| ... framing and handlers of packets | a packet under way; colour of the detector, recorder | `receiveData`, a handler per id, parameter client | topics, armour detector, recorder |
| ... commands, gimbal manager | last commands, angles and ranges | topic callbacks, 10 ms timer, SBUS or CRC16 frames | topics in, board out |
| `referee_serial_bridge` | receive buffer | a thread that reads, searches and parses | referee serial port |
| `point_lio` main loop | scan and sample buffers, clocks of the filter, initialisation | callbacks and a loop in one thread | lidar, `loam_interface` |
| `point_lio` preprocessing, voxel map | points of a message; hash map and list of voxels | a handler per lidar; add, search | main loop |
| `loam_interface`, `sensor_scan_generation`, `small_gicp_relocalization` | one transform each, accumulated cloud | callbacks, timers | odometry in, tf out |
| terrain analyses | voxels of the last scans | callbacks, two main loops | clouds and odometry in, terrain maps out |
| `IntensityVoxelLayer` | observations, own map | `updateBounds` and costs | terrain map in, costmap |
| controller | pruned plan, turning or not | one cycle | plan, pose, costmap in, `cmd_vel` out |
| `fake_vel_transform` | angle, last command, time of the last plan | callbacks, two timers | controller in, chassis out |
| back-up behaviour | direction, distance | `onRun`, `onCycleUpdate` | costmap, `cmd_vel` |
| `pb_teleop_twist_joy` | time of the last goal, disabled or not | joystick callback | `cmd_vel`, gimbal, `navigate_to_pose` |
| `pointcloud_to_laserscan` | subscription, queues | a thread, a callback, a destructor per node | clouds, scans |
| `simple_nav` | goals, goal handle | timers, response and result callbacks | `navigate_through_poses` |

What is hard in it: replies of the navigation action come late, in any order and
for goals that were replaced meanwhile; the velocity command crosses a timer, a
bounded topic, a filter and UDP on one way, and on the other a cache that repeats it
and a sender that reads it without a lock; lidar packets cross two threads through a
ring without a lock, woken by a semaphore that is looked at without one; lidars are
set up by callbacks that run on different threads, time out and are refused; packets
of the controller board come in pieces over a line that loses bytes, through a port
that three threads share and that goes away. Scans and inertial samples, clouds and
poses, plans and commands travel on topics of their own and must be matched again; and
maps roll along with the robot, with indices that wrap, evict and go stale.
`PROJECT.json` lists every such hazard at its line with the properties aimed at it.

## Modules

| module | models | composed with |
|---|---|---|
| `NavToPose` | the action client library and server, from the calls the node makes | extended by `SentryDecision` |
| `SentryDecision` | `sentry_decision_node.cpp` | |
| `TwoThresholdPolicy` | abstract: what the node promises of hit points and match | refined by `SentryDecision` (`PolicySpec`) |
| `ChassisCommand` | the output timer, topic, `cmd_vel_to_udp.py`, UDP | extends `SentryDecision` |
| `LidarQueue` | `comm/ldq.cpp`, one writer, one reader | |
| `BoundedFifo` | abstract: a bounded queue | refined by `LidarQueue` (`FifoSpec`) |
| `LidarHandoff` | `lds.cpp`, `lddc.cpp`, `semaphore.cpp`, poll threads, `~DriverNode` | uses that the ring is a bounded queue |
| `LidarSetup` | `livox_lidar_callback.cpp`, `cache_index.cpp` | its `connect_state` is `Connect` in `LidarHandoff` |
| `PubHandler` | `comm/pub_handler.cpp` | its frames are what `LidarHandoff` stores |
| `CloudMessages` | `parse_cfg_file`, conversion of points, messages and publishers of `lddc.cpp` | takes a frame and its ring as above |
| `SerialReceive` | `receiveData`, `crc8_crc16.cpp`, byte by byte | |
| `PacketStream` | abstract: packets once, whole, in order | refined by `SerialReceive` (`ImplementsStream`) |
| `SerialLink` | `serialPortProtect`, the loops of `receiveData` and `sendData`, the destructor | its `Read` is the reading of a packet in `SerialReceive`, its exceptions are `Fail` there |
| `RobotPackets` | the handlers of packets, `setParam`, recorder, parameters, callbacks of the other commands | its `ReceivePacket` takes what `SerialReceive` publishes |
| `CommandFrames` | velocity from `cmdVelCallback` to either kind of frame | `Send` in `SerialLink` |
| `GimbalManager` | `gimbal_manager.cpp` | |
| `RefereeBridge` | `referee_serial_bridge` | |
| `LidarInertial` | `laserMapping.cpp`, `li_initialization.cpp`, `IMU_Processing.cpp` | |
| `Preprocess` | `preprocess.cpp` | its scans are those of `LidarInertial` |
| `IVoxMap` | `ivox3d.h`, `ivox3d_node.hpp`, matching and growth of the map | `UpdateWithPoint`, `MapIncremental` |
| `TransformChain` | `loam_interface`, `sensor_scan_generation`, `small_gicp_relocalization` | |
| `TerrainAnalysis` | `terrain_analysis` and `terrain_analysis_ext` together | |
| `IntensityVoxelLayer` | `intensity_voxel_layer.cpp` | |
| `PursuitController` | `omni_pid_pursuit_controller.cpp` | |
| `FakeVelTransform` | `fake_vel_transform.cpp` with the controller server around it | |
| `BackUpFreeSpace` | `back_up_free_space.cpp` | |
| `TeleopTwistJoy` | `pb_teleop_twist_joy.cpp` with the action server | |
| `ScanConversion` | both nodes of `pointcloud_to_laserscan` | |
| `SimpleNav` | `simple_nav` with its server | |
| `MC*` | instances of the above for TLC | |
| `*Proofs` | theorems, by part of the system: decision node, lidar data, lidar driver, serial node, serial framing, localization, navigation | extend their components |
| `InductionLemmas` | induction and folds, for the proofs | |

Operators with an underscore in the name (`QueueIsFull_Late`) are deliberately
faulty variants of the definition that follows them. No specification uses them;
each shows that some property notices such a mistake.

`MCLivoxDriver`, `MCSerialNode`, `MCLocalization` and `MCNavigation` check several
components in one run. The components share no variable: `part` names the one whose
behaviour it is, and the variables of the others stay at their initial values. The
states of such a run are the sum and not the product of the components' states.
Fairness of actions of different parts is joined in one formula,
`WF((InA /\ X) \/ (InB /\ Y))`, which is the same since `part` never changes. The
table above says what a component assumes of another.

### Decision node

A variable per member of the class that any branch reads, with the member's name.
One action per callback: `RobotStatusCallback`, `GimbalDataCallback`,
`CmdVelCallback`, `TimerCallback` (with its four branches), and for each goal
`NavToPoseGoalResponseCallback` and `NavToPoseResultCallback`. The node runs on a
single-threaded executor (`rclcpp::spin`), so a callback is one step.
`startNavigationSequence` and `sendNextWaypoint` are operators that the callbacks
use, with the same early returns. Positions are abstract points; a route is a
sequence of them. `wait_for_action_server` either succeeds or, while the server
is away, gives up.

`NavToPose` keeps for every goal where it is between client and server: the
request, the response and the result travel separately, and a result may come
before or after the response of the next goal. A goal record is reused when
nothing of the goal is left, so a finite set of goals does not bound the length of
a behaviour, only how many goals overlap.

`ChassisCommand` adds the topic queue (`KeepLast`, depth 10 in the code), the
filter's three variables, the datagrams in flight and what the chassis received
last. Velocity is one number per command in units of 1/160 m/s; the filter, the
truncation to integers and the dead zone are as in the script.

### Livox driver

`LidarQueue` splits push and pop where the other thread can look in between:
head, points, index. Indices wrap at `IdxRange`. Stores are taken in program
order; the indices are volatile, not atomic, so this is what the x86-64 build
does and not what the language promises.

`LidarHandoff` keeps only the length of each queue and puts a step boundary at
every access to shared state. The two channels (points, inertial data) have their
own semaphore, storing thread and poll thread. `DeInitQueue`, `ResetQueue` and
`StorageLvxPointData` do not run with the threads and are left out.

`LidarSetup` follows `LidarInfoChangeCallback` statement by statement where a reply
can interleave. The instance of a lidar is static storage: a lidar that the file
does not define has an all-zero configuration, and zero is not the -1 that means
"leave alone". The lookup in `GetIndex` is outside the lock: during an insertion
it may miss (`SettingMissed`). The install attitude and the inertial-unit request
change no state of the driver and are left out.

`PubHandler` has a clock in ticks. A packet stands for its points and carries the time
of the last one; it waits in `raw_packet_queue_`, is sorted by lidar and leaves in a
frame, cut by the time of the packets when lidars are synchronised and by the host's
clock otherwise. `CloudMessages` follows a point's position and time: through the file
that is parsed with entries missing or doubled, the choice of an extrinsic parameter,
the three data types, and the four transfer formats with one topic or several. A lidar
sends what it was last set to, any type at first, while the setting of the file is
on its way (`SetPclDataType`); each packet carries its own type and is unpacked by it.

### Serial nodes

`SerialReceive` has a step for each `receive()` of `receiveData` and one for parsing.
A read returns any number of the bytes that are there, at most the size of its
vector. A byte is a packet number and a position, so that a checksum is a comparison:
CRC8 accepts the header of a packet, CRC16 a packet, and also a packet followed by
zeros, which the arithmetic of a CRC without a final inversion gives (the checksum is
appended low byte first, and the remainder is then zero and stays zero). That a
checksum accepts other wrong bytes by chance is left out. Data bytes may have the
value of `SOF_RECEIVE`. The line loses or changes bytes; a call may throw, after which
some of the waiting bytes are gone.

`SerialLink` has a step for each access of a thread to `is_usb_ok_` or the port. A
port whose device went away is `"stale"`: `is_open()` still holds and every call
throws. `is_usb_ok_` has no initial value and `port()` is null until `init_port`, so a
thread may end the process at its start (`Crash`); the liveness properties exempt that.
Sleeps are left out, which allows more orders than the code has.

`RobotPackets` begins with the parameters: a value that is not accepted ends the
node. Publishing a packet may throw, which the receiving thread takes for a broken
port (`Reopen`). The colour of the detector is set by an asynchronous parameter client
that looks for a detector among two, and whose answer may be late, negative, or for a
client that was replaced (`StrayArrives`). Messages whose fields are copied one by one
stay one value; message types with a choice in them (robot type, debug names, hit
points) are built as in the code.

`CommandFrames` reads and writes one float a step, because nothing protects them. The
SBUS scaling with its dead zone and the packing of eleven-bit channels are
computed as in the code; `Unpacked` is the reference a receiver uses.
`RefereeBridge` keeps bytes as in `SerialReceive`; the CRC at the end of a referee
frame is not looked at, so any pair `AA 55` may begin a frame.

### Localization

`LidarInertial` has one thread: callbacks in `spin_some`, then the loop with a step for
each point or sample that moves a clock of the filter. The values of the filter are left
out; whether a point finds neighbours is `\E found`. `Preprocess` takes a message point
by point; angles and times are in units of a revolution, and NaN is a value that
arithmetic keeps. `IVoxMap` keeps the list, the hash map and storage apart, so that an
iterator that outlives its node would show. `nth_element` leaves open which of several
points at one distance it keeps: one is taken. A search that finds no voxel leaves the
result of before (`ivox3d.h:186`), which the model keeps and the property exempts.

`TransformChain` composes rigid transforms as integers modulo `Places`, which loses no
control and keeps what composition and inversion in a wrong order or place would break
on a line. Each message carries the true place and mount at its stamp, which is what a
lookup at that stamp answers. `CatchUp` in `LidarInertial` is needed only where clouds
overlap in time; the driver's do not.

### Navigation

`TerrainAnalysis` runs both nodes on one horizontal axis: grids that roll, voxels that
are filtered by time and distance, points kept or dropped, and the terrain map of the
first node as the near part of the second. `IntensityVoxelLayer` is one axis and the
height; Costmap2D, ObstacleLayer and the observation buffer are modelled from how the
layer uses them, with `footprint_clearing_enabled` as configured. The outline has its corners on
the axes (one front, one rear, one at either side), so that padding moves its ends on the
axis by as much as the code moves the corners.

`PursuitController` has a robot on a grid that carries out a command by one
step or an eighth turn; lookups fail one at a time, slips move the robot off its plan. The
costmap lags behind the robot and may be longer than wide, so that poses of the local plan
lie off it; the first sample that does ends the search for a collision, as in the code.
`FakeVelTransform` has the two topics (plan and command) of a cycle delivered in any
order, the angle of each message's frame beside it, and a timeout counted in ticks; the
history of a command says in which of the three ways (`lapse`) the code gives it another angle.
`BackUpFreeSpace` looks along the rays of any pattern of free
and blocked ones, with the two ends of a sector as the code computes them. The code counts the angles
of the rays in the global frame and drives by them in the frame of the robot: they are one
direction only as far as the two frames are aligned, which the model takes for granted.

`TeleopTwistJoy` has a queue of joystick messages, a coarse clock for the goal interval
and a server that accepts goals and handles cancel requests in any order.
`ScanConversion` has the watching thread, the queue in front of the transform, and the
conversion of every point. `SimpleNav` waits for the server inside a callback, as
the code does: nothing else is handled meanwhile.

## Runs

| run | instance | shows |
|---|---|---|
| `SentryDecisionSafety` | 2 goals overlapping, one waypoint to X, none to Y, hit points below/between/above the thresholds, progress 3, 4, 68, one fault of any kind | `HandleIsLive`, `SequenceIsCarried`, `OnlyOutagesStrand`, and the refinement `PolicySpec` |
| `SentryDecisionLive` | as above, one rejection or unknown result, no velocity input | `RetreatCompletes` |
| `ChassisCommand` | one goal, topic depth 2, threshold 3 as in the code, standstill / inside / above the dead zone | `MatchReachesChassis`, `ArrivalReachesChassis` |
| `LivoxDriver` | ring of 4, indices modulo 8; hand-over of one lidar, ring of 2; framing of two lidars, interval 3, one packet lost in a row; set-up of one lidar with two settings and two unknown ones | the ring is a bounded queue (`FifoSpec`); `NoLostWakeup`, `PacketsFlow`, `ShutdownCompletes`; `FramesOnTime`, `PointsAreSent`; `SampledIsConfigured`, `LidarsAreSampled` |
| `SerialNode` | four packets of two lengths, two data bytes like a sof, one debug packet; three faults of the link; three referee frames, two damages; six gimbal commands; two velocities; packets of every kind with four sets of parameters, two detectors | `ImplementsStream`, `LostForAReason`; `OneLateFrame`, `LinkRecovers`, `LinkShutsDown`; `BridgeRecovers`; `GimbalSweeps`; `LastCommandIsSent`; `ColorIsCurrent` |
| `Localization` | four configuration files, four points in packets of two, three data types and any of them at first; three scans, time to 4; five points, turn of 3; four scans into three voxels with each type of neighbourhood; three places, one gimbal turn | `PublishedInPlace`; `FilterGoesForward`, `ScansAreProcessed`; `OffsetsAreTimes`; `NeighboursAreNearest`; `PoseIsTrue` |
| `Navigation` | three plans (straight, hairpin, corner), one slip, a costmap of 5 by 9 that lags by one; timeout of 2; 8 rays; two scans on a road of two places, a world with obstacles of three kinds that a map is blind to; two objects, three layers; three joystick messages, three modes; three converters; lists of 0, 4, 6 goals | `PlanIsFollowed`, `StopsForObstacles`; `TurnedAsComputed`; `BacksIntoFreeSpace`; `NearTerrainIsKept`, `NoBlindRing`; `MapFollowsWorld`; `ReleaseStops`; `SubscriberIsServed`; `PatrolGoesOn` |
| `ArrivedMeansThere`, `RetreatIsHeld`, `LidarSetupOnlyUserDefined`, `SerialReceiveCompletePacket`, `FakeVelBlockedMeansStop` | as their component's; `ArrivedMeansThere` with hit points and match that do not change, and one abort | violated: see Findings |

Why these bounds are enough. Two overlapping goals are what the node can produce
when it replaces one: the old goal and its successor. More overlap only if replies
are slower than two timers; the proofs cover any number of goals, TLC does not. One fault per behaviour
is already combined with every order of replies; faults do not add to each other
since each resets the node. A topic depth of 2 overflows all the time; the filter
needs three commands in a row, which the run reaches. The ring of 4 with indices
modulo 8 meets full, empty and both wraps in every combination. In the hand-over
a lidar whose ring is full before it is connected, and an exit at any step, occur.
In the set-up three changes let the unknown lidar show up twice and the index
overflow; two of the four settings are enough for an early acknowledgement
between them. Two lidars make a frame of one wait for the other's, and `Horizon` = 12 is four
intervals, so that no wrapped time is mistaken for another.

A fault on the serial line reaches at most into the next packet, so four
packets hold two faults apart or together with a packet before and after; the two
chance sofs are in the checksum of one packet, from where a false header reaches into
the next packet, and in the data of another, from where it does not; `Backlog` = 8
is the longest packet, so that a read sees any part of it. Three faults in `SerialLink`
put one on each thread of a reset. A referee frame of five bytes has a header, data and
a check; the buffer is cut at `KeepSize` = 6, which search and growth both reach. With a
detector, only robot statuses are received (`Relevant`): no other handler touches the
client, and the rest is covered by the other parameters.

In `LidarInertial` three scans are one for each stage of the initialisation and one
after it; the four units of time let samples come before, in and behind a scan. Three
voxels for points of five make the map evict, and a search meet evicted voxels. Two
rotations of a lidar have a first and a next revolution. In `TransformChain` one turn of
the gimbal separates any two lookups. In the terrain analyses each move along the road rolls a
grid, and two scans are the least after which a time filter can forget something; the
period of 3 is the decay time. Obstacles stand on the ground on both sides of the radius where
the maps meet; beside them one has no ground around it, one is admitted by the slack only, and
two are above the vehicle, one for each node: without the premise that names its case, `NoBlindRing` is
violated by each. (The ground is the lowest point in the run, as for less than 20 points on the robot.) In
the controller the hairpin brings two parts of the plan
near to each other, the corner turns the chassis, and obstacles lie on and off the costmap.

Every bound is a CONSTANT (`MaxFaults`, `TopicDepth`, `MaxChanges`, `NumPackets`, `Backlog`, `MaxQueue`,
`MaxLost`, `NumFrames`, `MaxDamage`, `MaxStray`, `MaxRestarts`, `MaxScans`, `MaxTime`, `MaxPoints`,
`MaxMoves`, `MaxLag`, `MaxSlips`, `MaxPlans`, `QueueSize`, `Buffered`, `MaxFailures`, `MaxStops`); some are shared by
components of a run. `SerialNode`, `Localization`, `Navigation` and some of the
violated runs turn deadlock checking off because a part in them does stop: the link after
its destructor, the last packet, the last bounded input, a process that ended. `LivoxDriver`
keeps it on for the ring and the hand-over and lets the framing and the set-up, which may stop,
stutter.

### Fairness

* Decision node: the executor serves callbacks that stay ready, the timer fires
  again and again (`WF` on each); the action server comes back, answers and ends
  every goal. Nothing is assumed of inputs or faults.
* `RetreatCompletes` is stated under `PromptReplies`: from some time on a reply
  takes less than a `check_interval`. Without it the property is false: the timer
  cancels for the retreat, launches it, and the late CANCELED result resets it,
  again and again. That is a real weakness of the code and not of the model.
* Chassis: the timer fires, the topic is served, and a datagram that is sent again
  and again arrives again and again (`SF` on arrival).
* Hand-over: threads are scheduled (`WF`); lidars go on sending (`SF` on storing).
  The second is needed: when no lidar sends, nothing signals the semaphores and
  `~DriverNode` waits for ever. `KeepsUp` says that a poll thread does not stay with
  one queue for ever; the inner loops of `lddc.cpp` do not guarantee it.
* Framing: time passes and the thread is scheduled (`WF`); a lidar that sends again and again is
  received again and again (`SF`), without which no frame
  ends: the thread looks at the time only when there is a packet.
* Set-up: a lidar that is asked again and again answers at last (`SF` on success).
* Serial link: the threads are scheduled and the board goes on sending (`WF`); when it
  is silent, `receive()` waits, and the destructor waits for it. `LinkRecovers` is stated
  under `Prompt`: a thread that uses the port when it is closed has handled its
  exception when the port is open again. Otherwise each thread can clear the flag of
  the port the other one just recovered, for ever; the sleep of a second makes that
  unlikely, and nothing excludes it.
* Commands: the executor and the sending thread run (`WF`). `LastCommandIsSent` asks that
  no command comes from some time on, and that the last one was not written before
  `sendDataOriginal` cleared the speeds (`in_time`). Gimbal: the timer fires, and a
  sender that repeats its command is heard.
* `point_lio`: the loop runs and samples keep coming (`WF`); a scan waits for samples that are later than
  it, so without them nothing is processed.
* Controller: the controller server has a cycle at a fixed rate and the chassis carries
  commands out (`WF`). Nothing is assumed of lookups: the property asks that they succeed
  in the end. `FakeVelTransform`: timers, callbacks and the cycles of an active
  controller (`WF`).
* `ScanConversion`: the watching thread, the sensors and the executor (`WF`). `SimpleNav`: the executor runs
  and the server answers what it has accepted unless it stops (`WF`).

## Findings

* `ArrivedMeansThere`: an aborted goal counts as a reached one
  (`sentry_decision_node.cpp:386-391`), so AT_X / AT_Y do not mean what
  `sentry_decision_node.hpp:72-73` says. The run keeps hit points and match as they are,
  so that no goal is ever replaced or cancelled, and lets one goal be aborted: the only
  violation is the abort of the last goal, and without it the same instance satisfies the property.
* `RetreatIsHeld`: the late CANCELED result of a replaced goal ends a retreat below
  the high threshold (`sentry_decision_params.yaml:4`).
* `LidarSetupOnlyUserDefined`: a lidar the user did not define is given zeros as
  settings at its second information change (`livox_lidar_callback.cpp:45,57`).
* `SerialReceiveCompletePacket`: a packet that took several reads is parsed with the
  zeros of the unread part behind it (`standard_robot_pp_ros2.cpp:394`), where line 399
  speaks of the complete packet. The CRC16 accepts it, so the packet is published, which
  `ImplementsStream` and `LostForAReason` rely on; `fromVector` copies the zeros too.
* `FakeVelBlockedMeansStop`: while the controller stops the robot for an obstacle
  (`omni_pid_pursuit_controller.cpp:314`), `fake_vel_transform.cpp:92` passes the zero on
  once and its timer goes on repeating the command of before.

Seen while modelling, without a run.

* Decision: the late result of a goal that was replaced can end the sequence of its
  successor as an arrival, too; a late CANCELED result also clears the queue that
  line 396 says it leaves alone, because the timer does not wait as line 189 says it does;
  with the action server away the node ends in a GOING state with no goal and nothing
  tries again; `wait_for_action_server` blocks the only executor for up to five
  seconds, output timer included; the match end at line 204 is not reached once
  `game_progress_` is latched at 4; `CMD_VEL_UDP_IMPLEMENTATION.md` describes flags 3/1
  and one message per `/cmd_vel` where the code sends 1/2 at 100 Hz; `apply_deadzone`
  says 25 and uses 30; `yaw_drift_tolerance` is never used;
  `cancelCurrentGoalAndSendNext` is declared and not defined.
* Livox driver: `pub_handler.cpp` keeps one flag of synchronised time for all lidars (112),
  accepts a packet without points (163), puts no limit on the queue (170) and reads
  writes one rotation for the inertial data of all lidars (399); `lddc.cpp:463` may return no
  publisher; the format "pcl" never empties the ring (211); the handle of a lidar stays
  0 in one branch of its set-up; a packet that comes before the lidar
  has taken its setting is stored and published, and when one of the two types is the centimetre one, the
  translation of the parameters is ten times too large or too small for it (`InEffect`).
* Serial node: `last_hp_` and the joint angles have no initial value; an exception in
  publishing (548, 1037) closes the port; a thread may use a port that is still null; the
  parameter file's comment asks 100000 baud for SBUS where the code needs 115200.
  `SBUS_QUICK_REFERENCE.md:18-30` and `SBUS_MODIFICATION_GUIDE.md:292-325` put vx, vy, wz
  in channels 0, 1, 2 over 0 to 2047, where the code (793-836, and its comment) sends wz,
  vx, vy in channels 0, 2, 3 over 600 to 1500: a chassis programmed from the docs reads a turn as
  vx. `LastCommandIsSent` is about the code's table, so that it holds says nothing for theirs. The
  referee bridge waits in `read()` when its board is silent, and so does its destructor.
* Localization: the map's stale neighbours (`ivox3d.h:186`); `loam_interface.cpp:59`
  publishes clouds before its transform is known, with the identity.
* Controller: a failed transform (302) checks poses that were never set;
  `last_velocity_scaling_factor_` is not updated while the robot turns in place.
* Other navigation: the padded footprint of the intensity layer (58) is empty because Nav2 sets the
  footprint later; a goal of `pb_teleop_twist_joy` that is under way when the button is let go is not
  cancelled (150), `sent_disable_msg_` has no initial value, a vanished joystick stops
  nothing, and a negative shoot axis is converted to `uint8_t`; with the default
  angles a point exactly behind gets ray 360 of 360 (`pointcloud_to_laserscan_node.cpp:231`);
  the destructor of `laserscan_to_pointcloud` (95) stores true in the flag that means alive
  and then joins; `simple_nav` neither retries a rejected list nor times out.
* Launch: the `behavior_server` that `navigation_launch.py` starts outside of a container lacks the remap
  of `cmd_vel` to `cmd_vel_nav2_result`, which stands at `bt_navigator`
  (203-222; composed: 306-314); `rviz_navigation.launch.py:65` compares `slam` with "false" as a word
  where others evaluate it; it and `mapping.launch.py` start `pointcloud_to_laserscan`
  twice; launch configurations (`rviz`, `params_file`) leak between included files.

## Proofs

All theorems hold for every value of the constants that satisfies the named
assumptions of the modules: any number of lidars, packets, voxels or rays, any data, any
limit. Each property follows from one inductive invariant of its component, since none of
them is inductive alone; what each invariant adds is this.

* `SentryDecisionProofs`: `DecisionInv` joins the listed properties with `NeverMissed`,
  which says that the action server is up unless an outage was recorded. None is
  inductive alone: that an active sequence has something outstanding needs the handle
  to be live, and that only an outage strands a going state needs both.
  `NodeImplementsPolicy` is the refinement of `TwoThresholdPolicy`: the initial state
  maps to an initial state and each action to `Report`, `Retreat`, `Attack`, `Release`
  or a stutter.
* `LidarDataProofs`, from a packet's points to its message:
  * the ring: `RingInv` says that the waiting slots, from the reading to the
    writing index, hold whole packets, and what the thread in the middle of a push or a
    pop has done so far. `RingIsFifo` maps those slots to the abstract queue. It assumes
    only that the index range is a multiple of the ring size, at least twice it;
  * framing: `FramesInv` follows the packets of a synchronised lidar through the queue, the
    frame to come and the frame of before: in turn in each, from each to the next, and each
    frame cut at its first packet that could end it. A frame without a gap is then as long
    as its interval. Assumed: an interval is a number of ticks, the
    clock a number of intervals and more than three, and fewer packets are lost in a row than
    it has ticks;
  * configuration, points and messages: `CloudInv` says that a lidar of the file has the
    device and the parameters of its last entry there, or none for good when the index is
    full; that a stranger has neither; that each point of a cloud or frame is
    placed by its own lidar's parameters, unpacked by the type of its own packet; and that times in a frame
    do not precede its base
    time. Assumed: entries have the fields the parser gives them, and spherical data is
    of points on an axis, where the model's quarter turns are exact.
* `LidarDriverProofs`, the threads and callbacks of the driver:
  * hand-over: `HandoffInv` says of each channel that at most one signal is
    pending, what the poll thread has seen, and that a packet behind its scan has a
    wakeup to come: the count is not zero, or a storing thread past its look at the queue
    is about to signal. `NoLostWakeup` is what is left of it for a waiting thread;
  * set-up: `SetupInv` says that every wanted setting of a lidar that was
    asked has its bit set, is acknowledged or is still to be asked for, and that a lidar
    is sampled only when all are acknowledged: the last acknowledgement empties the bits,
    and by the first part nothing is then left to set or to ask for.
* `SerialNodeProofs`: `LinkInv` says that the destructor begins after the shutdown and
  that after a late frame the sending thread is not writing, so that no second one
  comes; it also shows that a null port is met before `init_port` only. `ColorInv` follows a
  colour from the request over the answer to its callback: unless one of the five reasons of
  `lapse` has lost it (not asked for, asked of a detector that does not run, refused,
  overtaken by a late request of a replaced client, forgotten by a restart), the request asks
  for the last colour and what comes of it leaves it shown.
* `SerialFramingProofs`: the bytes that a node holds and those in its port are one sequence, and
  neither a read nor where it ends changes it; what is known of it (`InOrder`: sorted by
  frame, the bytes of a frame that no fault struck together, the frames next to
  each other) is proved once, for both nodes and each kind of damage.
  `BridgeInv` adds that a frame that was sent waits, was parsed or is accounted for, and that the
  buffer holds no header when the search is over; `ReceiveInv` adds what the bytes of
  the packet under way are, and that what was published is older than all that waits. From
  the latter follow `LostForAReason` and, as a step-by-step refinement of
  `PacketStream`, `ImplementsStream`.
* `LocalizationProofs`:
  * `TransformChain`: each pose is the true one composed with the place where `point_lio`
    began and the offset of the odom frame (`ChainInv`); addition and subtraction of
    places are a group, in which these two drop out;
  * `Preprocess`: of each ring when its first point came and how far its last offset lies
    behind (`PreprocessInv`), from which an angle gives the time but for whole revolutions;
  * `LidarInertial`: how the stamps of the buffers, of the pair that is processed and of the filter's
    clocks follow each other, at each place of the loop (`InertialInv`);
    `InertialFilterGoesForward` is an action property;
  * `IVoxMap`: the map and the list know each other (`LocalMapInv`): each voxel has a node of the list that
    was made for it, nodes differ, and after each addition a node is free. So eviction takes one
    voxel out of both, and a search sees every point in its reach.
    That the k nearest of the k nearest of each voxel are the k nearest of all
    (`NearestByParts`) is a lemma on finite sets.
* `NavigationProofs`:
  * back-up: `SearchInv` says of the loop over the rays that the open sector
    is free from its first ray on, that the best one is free to its end, and that as long as there is no
    best one every ray before the open sector was blocked. So a free ray before a blocked
    one has closed a sector, and its middle is free, for any number of rays;
  * `fake_vel_transform`: `FakeInv` says of every command on its way, and of the one that is
    repeated, that it was computed in the present frame, or apart from the node, or has one of the
    three lapses: computed before a plan was seen, in a frame that was broadcast before the angle
    last changed, or cached for an earlier goal. The angle changes
    after the timeout only, and then no other command depends on it any more;
  * teleoperation: `TeleopInv` says that each goal that was active at the last stop and is
    left is covered by a request under way. It needs that no two goals were ever sent at
    one time, which the interval between goals gives: otherwise a later goal could pass for a
    stopped one. The two values of `control_mode` are assumed to be the only ones;
  * controller: `PursuitInv` says that a command other than zero was preceded by a check of the
    plan as it is now, and a lemma that so many successive poses hold a sample, which is reached
    when no pose up to it is off the costmap;
  * terrain analysis: `NodeHolds` says of either node that a voxel has one point for a place, none
    older than the decay time, that what the last cloud showed is in the voxel of its index with a
    time that is the mean of its own and a remembered one, and that the grid is centred at the vehicle up
    to a voxel. Indices count from the vehicle and the grid rolls late, so a point may be
    found up to a voxel and a half away from its index (`RolledIndex`). For every size of the
    grid, decay time, world and road;
  * costmap layer: an update makes the property true whatever the costmap held before, so the
    invariant (`GridShape`) only says that layer and costmap share an origin at a whole cell.
    The new window lies around the robot (`OriginFollows`), so that a cell the rays pass is
    between the bounds (`SeenIsBetween`); there the marks replace the costmap, a column is marked
    when a point of the cloud is an obstacle in it (`MarkedIs`), and counting crossings says
    which points lie between the ends of the outline (`InsideDiamond`). Assumed of the layers, as
    they are configured: the window rolls, one voxel marks a column, no point is too near, and
    an obstacle has an intensity.
* `InductionLemmas` holds what several of these need: least and greatest numbers of a set,
  induction as the least counterexample, the longest initial interval of which something holds, and that
  the function a fold over a sequence is defined by exists. The library's induction theorems
  take an operator and cannot be used, so a fact about the devices after a file, the points
  added to the map or the packets of a frame is proved by the least place
  at which it would fail. `FoldLeft` is a choice among functions that satisfy its recursive
  equation; `FoldExists` says that there is one, and the fact is proved of each of them.

Proving corrected the model in several places, each confirmed by TLC first:

* `SerialReceive`: `Excused` left out a packet that is lost because a packet before it, struck
  itself, takes the bytes of the next ones for its own. (A packet of 12 data bytes loses
  eight of them; of two packets of one byte behind it, the first completes it and the
  second is lost too, though neither it nor its predecessor was struck.)
* `RefereeBridge`: the third reason of `BridgeExcused` spoke of the wrong frame.
* `CloudMessages`: with low data a point and a parameter are truncated to a centimetre each,
  so a published point may be two centimetres off (`InPlace`); the scene of the run was too even to
  show it.
* `TerrainAnalysis`: `NearTerrainIsKept` said that what the last two clouds showed is kept for half
  of the decay time. It held for the two scans of the run only: a point has the mean of its times, so one
  that is seen again after a gap of the decay time is dropped together with its memory, in
  the very cloud that shows it, and one of the cloud before may come from a voxel that is
  too far away when the vehicle jumped. The property now names the gaps and the way
  driven, and so does `NoBlindRing`. (The robot sets the decay times to 0.5 s and
  1 s.)
* `IntensityVoxelLayer`: `MapFollowsWorld` spoke of every place the terrain map reaches, and the
  run's ranges were longer than that. The robot's are shorter (both 4 m for the local costmap, 10 m for the
  global one, see `nav2_params.yaml`): what lies beyond `raytrace_max_range` is not renewed, and beyond
  `max_range`, or above the grid, nothing is marked. The property now says so and the run has a
  layer of short range.
* `PubHandler`, `TransformChain`, `Preprocess`, `LidarInertial`, `PursuitController`, `IVoxMap`:
  assumptions on constants that the code gives and nothing had stated.

Only model-checked:

* liveness and everything under fairness, which the prover does not reach:
  `RetreatCompletes`, `MatchReachesChassis`, `ArrivalReachesChassis`, `PacketsFlow`,
  `ShutdownCompletes`, `PointsAreSent`, `LidarsAreSampled`, `LinkRecovers`, `LinkShutsDown`,
  `GimbalSweeps`, `LastCommandIsSent`, `ScansAreProcessed`, `PlanIsFollowed`,
  `SubscriberIsServed`, `PatrolGoesOn`;
* `NoBlindRing`, which rests on a quantile of heights and the values of a dozen parameters, and
  which leaves out what each map is blind to by itself (`StandsOut`, `Low`);
* CRCs, which are modelled by what they accept.

## Not modelled, and the plan

Left out of components that are modelled in part:

* how fast the controller drives: two PID controllers and limits at curves and near the
  goal are floating-point functions of one cycle;
* the end of the referee bridge's thread, which waits for a byte of the board.

Not modelled: the iterated Kalman filter of `point_lio` and the planes fitted to
neighbours (numerics), its plots; `Livox-SDK2` (prebuilt, modelled as callbacks that
come, fail or time out); launch files, messages and descriptions, which hold no
behaviour beyond the constants the runs use; other vendored code (`rapidjson`,
ikd-tree, `matplotlibcpp`). The weak memory order that `volatile` indices
allow is out of scope, see above.

Next, in this order:

1. `NoBlindRing`: a region is at all times in reach of one of the two terrain analyses.
2. `ChassisCommand`: what the filter has seen when a flag reaches the chassis, as an invariant.
3. The speed of the controller, as bounds on what its limits let through.

---------------------------- MODULE ScanConversion ----------------------------
(***************************************************************************)
(* The two nodes of pointcloud_to_laserscan: one makes a scan of a cloud,  *)
(* the other a cloud of a scan.  Each subscribes to its input only while   *)
(* somebody subscribes to its output, which a thread of its own watches.   *)
(***************************************************************************)
EXTENDS Integers, Sequences, FiniteSets
LOCAL INSTANCE SequencesExt
LOCAL INSTANCE FiniteSetsExt

CONSTANTS
  Inputs,       \* of each node: what its topic can carry
  Converters,   \* parameters of a node: records node, target_frame, angle_min, ...
  Infinity,     \* more than every range
  Buffered,     \* queue_size
  MaxFailures,  \* bound: of failed transforms
  MaxChanges    \* bound: of changes of the input

ASSUME ConverterParameters ==
  /\ Buffered \in Nat \ {0} /\ MaxFailures \in Nat /\ MaxChanges \in Nat
  /\ \A c \in Converters : c.angle_increment > 0 /\ c.angle_min < c.angle_max /\ c.range_max < Infinity

VARIABLES
  converter,
  seen, changes,   \* what the sensors see, and how often it has changed
  subscribers,     \* to the output
  ok, alive_,      \* of the context, and the node's own flag
  listener,        \* the thread: test, adjust, wait, ended
  subscription_count,
  subscribed,      \* sub_ has a subscriber
  received,        \* the queue of the subscription
  filtering,       \* the queue of the filter that waits for transforms
  failures,
  out,             \* the last message that was published
  unloading        \* the destructor: no, joining, gone

inputVars == <<seen, changes, received, filtering, failures, out>>
threadVars == <<listener, subscription_count, subscribed>>
lifeVars == <<subscribers, ok, alive_, unloading>>
scanVars == <<converter, inputVars, threadVars, lifeVars>>

ToScan == converter.node = "pointcloud_to_laserscan"
Nothing == <<>>

ScanInit ==
  /\ converter \in Converters
  /\ seen \in Inputs[converter.node] /\ changes = 0
  /\ subscribers = 0 /\ ok = TRUE /\ alive_ = TRUE
  /\ listener = "test" /\ subscription_count = 0 /\ subscribed = FALSE
  /\ received = <<>> /\ filtering = <<>> /\ failures = 0
  /\ out = Nothing /\ unloading = "no"

-----------------------------------------------------------------------------
(* cloudCallback: the nearest point of each ray.                           *)

\* The number of rays is rounded up, the ray of an angle down.
RangesSize == (converter.angle_max - converter.angle_min + converter.angle_increment - 1) \div converter.angle_increment
NoObstacle == IF converter.use_inf THEN Infinity ELSE converter.range_max + converter.inf_epsilon

Passes(p) ==
  /\ ~p.nan
  /\ p.z >= converter.min_height /\ p.z <= converter.max_height
  /\ p.intensity >= converter.min_intensity /\ p.intensity <= converter.max_intensity
  /\ p.range >= converter.range_min /\ p.range <= converter.range_max
  /\ p.angle >= converter.angle_min /\ p.angle <= converter.angle_max

RayOf(p) == (p.angle - converter.angle_min) \div converter.angle_increment

\* A point at angle_max has no ray when the rays divide the circle evenly:
\* the code then writes behind the last one, and the scan does not show it.
Closer_Always(ranges, p) ==
  IF Passes(p) /\ RayOf(p) \in DOMAIN ranges THEN [ranges EXCEPT ![RayOf(p)] = p.range] ELSE ranges
Closer(ranges, p) ==
  IF Passes(p) /\ RayOf(p) \in DOMAIN ranges /\ p.range < ranges[RayOf(p)]
  THEN [ranges EXCEPT ![RayOf(p)] = p.range] ELSE ranges

CloudToScan(cloud) == FoldLeft(Closer, [i \in 0 .. RangesSize - 1 |-> NoObstacle], cloud)

(* projectLaser: the rays that hit something, as points *)
ProjectLaser(scan) ==
  [i \in {j \in DOMAIN scan : scan[j] >= converter.range_min /\ scan[j] <= converter.range_max} |->
     [range |-> scan[i], angle |-> converter.angle_min + (i - 1) * converter.angle_increment]]

Convert(msg) == IF ToScan THEN CloudToScan(msg) ELSE ProjectLaser(msg)

-----------------------------------------------------------------------------
(* subscriptionListenerThreadLoop.                                         *)

CountSubscribers ==
  /\ listener = "test"
  /\ IF ok /\ alive_
     THEN /\ subscription_count' = subscribers /\ listener' = "adjust"
          /\ UNCHANGED <<subscribed, received>>
     ELSE /\ subscribed' = FALSE /\ received' = <<>> /\ listener' = "ended"
          /\ UNCHANGED subscription_count
  /\ UNCHANGED <<converter, seen, changes, filtering, failures, out, lifeVars>>

(* What the filter holds is not given back with the subscription. *)
Adjust ==
  /\ listener = "adjust"
  /\ subscribed' = (subscription_count > 0)
  /\ received' = (IF subscription_count > 0 THEN received ELSE <<>>)
  /\ listener' = "wait"
  /\ UNCHANGED <<converter, subscription_count, seen, changes, filtering, failures, out, lifeVars>>

\* A change of the graph, or 100 ms.
GraphWait ==
  /\ listener = "wait"
  /\ listener' = "test"
  /\ UNCHANGED <<converter, subscription_count, subscribed, inputVars, lifeVars>>

-----------------------------------------------------------------------------
(* The input.                                                              *)

Kept(queue, msg) == Append(IF Len(queue) = Buffered THEN Tail(queue) ELSE queue, msg)

InputComes ==
  /\ subscribed
  /\ received' = Kept(received, seen)
  /\ UNCHANGED <<converter, seen, changes, filtering, failures, out, threadVars, lifeVars>>

(* With a target frame the filter takes the message, else the callback. *)
TakeInput ==
  /\ received # <<>> /\ unloading = "no"
  /\ received' = Tail(received)
  /\ IF converter.target_frame
     THEN filtering' = Kept(filtering, Head(received)) /\ UNCHANGED out
     ELSE out' = Convert(Head(received)) /\ UNCHANGED filtering
  /\ UNCHANGED <<converter, seen, changes, failures, threadVars, lifeVars>>

Callback ==
  /\ filtering # <<>> /\ unloading = "no"
  /\ filtering' = Tail(filtering)
  /\ out' = Convert(Head(filtering))
  /\ UNCHANGED <<converter, seen, changes, received, failures, threadVars, lifeVars>>

\* The transform is gone again: the message is dropped.
TransformFails ==
  /\ filtering # <<>> /\ unloading = "no" /\ failures < MaxFailures
  /\ filtering' = Tail(filtering) /\ failures' = failures + 1
  /\ UNCHANGED <<converter, seen, changes, received, out, threadVars, lifeVars>>

-----------------------------------------------------------------------------
(* What is outside: the sensors, the subscribers, and the end.             *)

SensorsSee(msg) ==
  /\ changes < MaxChanges
  /\ seen' = msg /\ changes' = changes + 1
  /\ UNCHANGED <<converter, received, filtering, failures, out, threadVars, lifeVars>>

SubscribersChange ==
  /\ subscribers' = 1 - subscribers
  /\ UNCHANGED <<converter, inputVars, threadVars, ok, alive_, unloading>>

ShutDown ==
  /\ ok
  /\ ok' = FALSE
  /\ UNCHANGED <<converter, inputVars, threadVars, subscribers, alive_, unloading>>

(* The destructors: that of LaserScanToPointCloudNode stores true.         *)
Unload ==
  /\ unloading = "no"
  /\ alive_' = ~ToScan
  /\ unloading' = "joining"
  /\ UNCHANGED <<converter, inputVars, threadVars, subscribers, ok>>

Join ==
  /\ unloading = "joining" /\ listener = "ended"
  /\ unloading' = "gone"
  /\ UNCHANGED <<converter, inputVars, threadVars, subscribers, ok, alive_>>

Listens == CountSubscribers \/ Adjust \/ GraphWait

ScanNext ==
  \/ Listens \/ InputComes \/ TakeInput \/ Callback \/ TransformFails
  \/ \E msg \in Inputs[converter.node] : SensorsSee(msg)
  \/ SubscribersChange \/ ShutDown \/ Unload \/ Join

(* The thread runs, the sensors send, the executor calls.                  *)
ScanFairness ==
  WF_scanVars(Listens) /\ WF_scanVars(InputComes) /\ WF_scanVars(TakeInput) /\ WF_scanVars(Callback)

ScanSpec == ScanInit /\ [][ScanNext]_scanVars /\ ScanFairness

-----------------------------------------------------------------------------
InRay(p, i) ==
  /\ p.angle >= converter.angle_min + i * converter.angle_increment
  /\ p.angle < converter.angle_min + (i + 1) * converter.angle_increment

Shown ==
  IF ToScan
  THEN /\ out # Nothing
       /\ \A i \in DOMAIN out :
            LET hits == {p \in ToSet(seen) : Passes(p) /\ InRay(p, i)}
            IN  out[i] = (IF hits = {} THEN NoObstacle ELSE Min({p.range : p \in hits}))
  ELSE out = ProjectLaser(seen)

(* Whoever subscribes and stays, while the node runs, gets what the        *)
(* sensors see: in each ray the nearest point that passes the filters, in  *)
(* whatever order the cloud holds its points, however often subscribers    *)
(* have come and gone before (subscriptionListenerThreadLoop,              *)
(* cloudCallback).                                                         *)
SubscriberIsServed ==
  <>[](subscribers > 0 /\ ok /\ unloading = "no") => <>[]Shown
==============================================================================

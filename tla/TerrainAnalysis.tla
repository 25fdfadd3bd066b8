--------------------------- MODULE TerrainAnalysis ---------------------------
(***************************************************************************)
(* terrain_analysis and terrain_analysis_ext: both remember the points of   *)
(* the last scans in a grid of voxels that rolls along with the vehicle,    *)
(* and publish the obstacles among them; the second one, which is coarser   *)
(* and reaches further, takes what is near from the map of the first one.   *)
(*                                                                         *)
(* There is one horizontal dimension instead of two, a unit is half a voxel *)
(* of the first node, and a point has a place, a height relative to the     *)
(* vehicle and the time of its scan.  A node is a record of its variables,  *)
(* and its parameters are a record too.  clearingCloud is TRUE from the     *)
(* start and never reset, so every voxel is filtered for every cloud.       *)
(* noDataObstacle and checkTerrainConn are off on the robot.               *)
(***************************************************************************)
EXTENDS Integers, FiniteSetsExt

CONSTANTS Local,            \* parameters of terrain_analysis
          Ext,              \* parameters of terrain_analysis_ext
          LocalRadius,      \* localTerrainMapRadius
          World,            \* points that can be seen, [at, z]
          Hideable,         \* those of them that can go away
          Road,             \* places of the vehicle
          ClearingDistances,
          Periods,          \* times that may pass between two scans
          MaxScans

\* The robot has no region without decay, and gathers voxels of the grid.
ASSUME TerrainAssumption ==
  /\ World \subseteq [at : Int, z : Int] /\ Road \subseteq Int /\ Periods \subseteq Nat
  /\ \A c \in {Local, Ext} :
       /\ c.size \in Nat \ {0} /\ c.decayTime \in Nat \ {0} /\ c.noDecayDis = 0
       /\ c.gather \in Nat /\ c.half \in Nat /\ c.gather <= c.half

VARIABLES pos,              \* where the vehicle is
          scan,             \* the last registered scan and its time
          pending,          \* nodes that have not received it
          local,            \* terrain_analysis
          ext,              \* terrain_analysis_ext
          terrain_map       \* the map of the first as the second received it

terrainVars == <<pos, scan, pending, local, ext, terrain_map>>

Abs(n) == IF n < 0 THEN -n ELSE n
Dis(point, vehicle) == Abs(point.at - vehicle)
InPlace(points) == {[at |-> p.at, z |-> p.z] : p \in points}

\* `seen` and `before` are what the last two clouds showed.  `at` and
\* `processed` are the place of the vehicle and the time of the last one,
\* `moved`, `gap` and `gapBefore` what lay between the last clouds.
NewNode(c) == [vehicle |-> pos, clearingDis |-> c.clearingDis, shift |-> 0,
               voxels |-> [i \in 0..2 * c.half |-> {}],
               crop |-> {}, time |-> 0, newlaserCloud |-> FALSE,
               terrainCloud |-> {}, seen |-> {}, before |-> {}, at |-> 0, moved |-> 0,
               processed |-> 0, gap |-> 0, gapBefore |-> 0, map |-> {}]

TerrainInit ==
  /\ pos \in Road
  /\ scan = [number |-> 0, time |-> 0, points |-> {}, at |-> pos]
  /\ pending = {}
  /\ local = NewNode(Local)
  /\ ext = NewNode(Ext)
  /\ terrain_map = [points |-> {}, seen |-> {}, at |-> 0, gap |-> 0]

-----------------------------------------------------------------------------
(* The callbacks.                                                          *)

InBand(c, point, vehicle) ==
  LET slack == Dis(point, vehicle) \div c.disRatio
  IN  point.z > c.minRelZ - slack /\ point.z < c.maxRelZ + slack

\* Only the last cloud is kept for the main loop.
CloudReceived(c, node) ==
  [node EXCEPT
     !.crop = {p \in {[at |-> q.at, z |-> q.z, time |-> scan.time] : q \in scan.points} :
                 /\ InBand(c, p, node.vehicle)
                 /\ Dis(p, node.vehicle) < c.size * (c.half + 1)},
     !.time = scan.time,
     !.newlaserCloud = TRUE]

LaserCloudHandler ==
  \/ /\ "local" \in pending
     /\ local' = CloudReceived(Local, local)
     /\ pending' = pending \ {"local"}
     /\ UNCHANGED <<pos, scan, ext, terrain_map>>
  \/ /\ "ext" \in pending
     /\ ext' = CloudReceived(Ext, ext)
     /\ pending' = pending \ {"ext"}
     /\ UNCHANGED <<pos, scan, local, terrain_map>>

\* Both nodes receive the position at the same time.
OdometryHandler ==
  /\ local.vehicle # pos
  /\ local' = [local EXCEPT !.vehicle = pos]
  /\ ext' = [ext EXCEPT !.vehicle = pos]
  /\ UNCHANGED <<pos, scan, pending, terrain_map>>

\* The messages on map_clearing and on cloud_clearing change the distance of
\* a node for good.
ClearingHandler(dis) ==
  \/ /\ dis # local.clearingDis
     /\ local' = [local EXCEPT !.clearingDis = dis]
     /\ UNCHANGED <<pos, scan, pending, ext, terrain_map>>
  \/ /\ dis # ext.clearingDis
     /\ ext' = [ext EXCEPT !.clearingDis = dis]
     /\ UNCHANGED <<pos, scan, pending, local, terrain_map>>

TerrainCloudLocalHandler ==
  /\ terrain_map' = [points |-> local.map, seen |-> local.seen,
                    at |-> local.at, gap |-> local.gap]
  /\ UNCHANGED <<pos, scan, pending, local, ext>>

-----------------------------------------------------------------------------
(* The voxels.                                                             *)

\* The shift after the grid has rolled until the vehicle is within one voxel
\* of its centre.
RolledShift(c, node) ==
  IF node.vehicle - c.size * node.shift < -c.size
  THEN (node.vehicle + c.size) \div c.size
  ELSE IF node.vehicle - c.size * node.shift > c.size
  THEN -((c.size - node.vehicle) \div c.size)
  ELSE node.shift

\* A variant: the grid rolls the other way.
Rolled_Back(c, node) ==
  LET by == RolledShift(c, node) - node.shift
  IN  [i \in 0..2 * c.half |->
         IF i - by \in 0..2 * c.half THEN node.voxels[i - by] ELSE {}]

Rolled(c, node) ==
  LET by == RolledShift(c, node) - node.shift
  IN  [i \in 0..2 * c.half |->
         IF i + by \in 0..2 * c.half THEN node.voxels[i + by] ELSE {}]

\* The index of a voxel is relative to the vehicle and not to the centre of
\* the grid.  A quotient is cut towards zero and lowered when negative.
Index(size, half, at, vehicle) ==
  LET twice == 2 * (at - vehicle) + size
  IN  half + (IF twice < 0 THEN -((-twice) \div (2 * size)) - 1
              ELSE twice \div (2 * size))

Stacked(c, node, voxels) ==
  [i \in 0..2 * c.half |->
     voxels[i] \cup {p \in node.crop : Index(c.size, c.half, p.at, node.vehicle) = i}]

\* The points of one leaf become their mean, that of their times included.
Downsampled(points) ==
  {[at |-> q.at, z |-> q.z,
    time |-> LET times == {p.time : p \in {r \in points : r.at = q.at /\ r.z = q.z}}
             IN  SumSet(times) \div Cardinality(times)] : q \in points}

Admitted(c, node, p) ==
  InBand(c, p, node.vehicle) /\ ~(Dis(p, node.vehicle) < node.clearingDis)

Filtered(c, node, points) ==
  {p \in Downsampled(points) :
     /\ Admitted(c, node, p)
     /\ node.time - p.time < c.decayTime \/ Dis(p, node.vehicle) < c.noDecayDis}

Gathered(c, voxels) == UNION {voxels[i] : i \in c.half - c.gather..c.half + c.gather}

\* What the main loop does with a new cloud, up to terrainCloud.
Updated(c, node) ==
  LET stacked == Stacked(c, node, Rolled(c, node))
      voxels  == [i \in 0..2 * c.half |-> Filtered(c, node, stacked[i])]
  IN  [node EXCEPT !.shift = RolledShift(c, node), !.voxels = voxels,
                   !.newlaserCloud = FALSE, !.terrainCloud = Gathered(c, voxels),
                   !.at = node.vehicle, !.moved = Abs(node.vehicle - node.at),
                   !.processed = node.time, !.gap = node.time - node.processed,
                   !.gapBefore = node.gap,
                   !.seen = {p \in node.crop : Admitted(c, node, p)},
                   !.before = {p \in node.seen : Admitted(c, node, p)}]

-----------------------------------------------------------------------------
(* Ground and obstacles of the first node.                                 *)

PlanarIndex(c, p, node) == Index(c.cell, c.cells, p.at, node.vehicle)

\* The points that count for the ground of a cell, those of its neighbours
\* too, and the quantile of their heights.
PointElev(c, node, cell) ==
  {p \in node.terrainCloud : /\ Abs(PlanarIndex(c, p, node) - cell) <= 1
                             /\ p.z > c.minRelZ /\ p.z < c.maxRelZ}

Quantile(c, elev) ==
  LET id == (Cardinality(elev) * c.quantile) \div 100
  IN  CHOOSE z \in {p.z : p \in elev} :
        /\ Cardinality({p \in elev : p.z < z}) <= id
        /\ id < Cardinality({p \in elev : p.z <= z})

\* Points that a scan would hit if they were still there: above the plane of
\* minDyObsRelZ and in the field of view.
Raised(c, p) == p.z > c.minDyObsRelZ
InView(p, node) == p.z = 0 \/ Abs(p.z) <= Dis(p, node.vehicle)

\* planarVoxelDyObs >= minDyObsPointNum: something is remembered in the cell
\* that the current scan does not hit.
DynamicObstacle(c, node, cell) ==
  /\ \E p \in node.terrainCloud :
       /\ PlanarIndex(c, p, node) = cell
       /\ \/ Dis(p, node.vehicle) <= c.minDyObsDis
          \/ Raised(c, p) /\ InView(p, node)
  /\ ~\E p \in node.crop : PlanarIndex(c, p, node) = cell /\ Raised(c, p)

Elevated(c, node) ==
  {p \in node.terrainCloud :
     LET cell == PlanarIndex(c, p, node)
         elev == PointElev(c, node, cell)
     IN  /\ p.z > c.minRelZ /\ p.z < c.maxRelZ
         /\ cell \in 0..2 * c.cells
         /\ ~DynamicObstacle(c, node, cell)
         /\ Cardinality(elev) >= c.minBlockPointNum
         /\ p.z - Quantile(c, elev) \in 0..c.vehicleHeight - 1}

LocalMainLoop ==
  /\ local.newlaserCloud
  /\ \E node \in {Updated(Local, local)} :
       local' = [node EXCEPT !.map = InPlace(Elevated(Local, node))]
  /\ UNCHANGED <<pos, scan, pending, ext, terrain_map>>

-----------------------------------------------------------------------------
(* Ground and obstacles of the second node: the ground is the lowest point, *)
(* and what is near is taken from the map of the first node.               *)

ExtUpdated(node) == Updated(Ext, node)

LowestElev(node, cell) ==
  Min({p.z : p \in {q \in node.terrainCloud :
                      /\ Abs(PlanarIndex(Ext, q, node) - cell) <= 1
                      /\ InBand(Ext, q, node.vehicle)}})

BeyondLocal(node) ==
  {p \in node.terrainCloud :
     LET cell == PlanarIndex(Ext, p, node)
     IN  /\ InBand(Ext, p, node.vehicle)
         /\ Dis(p, node.vehicle) > LocalRadius
         /\ cell \in 0..2 * Ext.cells
         /\ Abs(p.z - LowestElev(node, cell)) < Ext.vehicleHeight}

\* A variant: the two parts do not meet.
MergedLocal_Inside(node) ==
  {p \in terrain_map.points : Dis(p, node.vehicle) < LocalRadius}

MergedLocal(node) ==
  {p \in terrain_map.points : Dis(p, node.vehicle) <= LocalRadius}

ExtMainLoop ==
  /\ ext.newlaserCloud
  /\ \E node \in {ExtUpdated(ext)} :
       ext' = [node EXCEPT !.map = InPlace(BeyondLocal(node)) \cup MergedLocal(node)]
  /\ UNCHANGED <<pos, scan, pending, local, terrain_map>>

-----------------------------------------------------------------------------
\* The vehicle drives by at most a unit between two scans.
Drive(to) ==
  /\ to # pos
  /\ Abs(to - scan.at) <= 1
  /\ pos' = to
  /\ UNCHANGED <<scan, pending, local, ext, terrain_map>>

\* Times count from the first scan, systemInitTime.
Scan(hidden, period) ==
  /\ scan.number < MaxScans
  /\ scan' = [number |-> scan.number + 1,
              time |-> IF scan.number = 0 THEN 0 ELSE scan.time + period,
              points |-> World \ hidden, at |-> pos]
  /\ pending' = {"local", "ext"}
  /\ UNCHANGED <<pos, local, ext, terrain_map>>

TerrainNext ==
  \/ LaserCloudHandler
  \/ OdometryHandler
  \/ \E dis \in ClearingDistances : ClearingHandler(dis)
  \/ TerrainCloudLocalHandler
  \/ LocalMainLoop
  \/ ExtMainLoop
  \/ \E to \in Road : Drive(to)
  \/ \E hidden \in SUBSET Hideable, period \in Periods : Scan(hidden, period)

TerrainSpec == TerrainInit /\ [][TerrainNext]_terrainVars

-----------------------------------------------------------------------------
Within(c, node, points) == {p \in points : Dis(p, node.at) <= c.size * (c.gather - 1)}

KeepsSeen(c, node) ==
  node.gap < c.decayTime =>
    InPlace(Within(c, node, node.seen)) \subseteq InPlace(node.terrainCloud)

KeepsBefore(c, node) ==
  /\ 2 * node.gap + node.gapBefore < c.decayTime
  /\ 2 * node.moved < 3 * c.size
  => InPlace(Within(c, node, node.before)) \subseteq InPlace(node.terrainCloud)

KeepsNear(c, node) == KeepsSeen(c, node) /\ KeepsBefore(c, node)

\* What the last cloud showed around the vehicle is in the cloud that the map
\* is made of, although voxels are indexed from the vehicle and roll with the
\* grid, and odometry and clouds come in any order; and what the cloud before
\* it showed, as long as the vehicle moved by less than a voxel and a half.
\* Both only when the clouds follow each other fast enough: a point is as old as
\* the mean of all its scans, and one that is seen again after a gap of the
\* whole decay time is dropped with the memory of it.
NearTerrainIsKept == KeepsNear(Local, local) /\ KeepsNear(Ext, ext)

Around(p, reach, points) == {q \in points : Abs(q.at - p.at) < reach}

\* Nothing around p is lower by the height of the vehicle, which would pass below it.
Low(c, p) == \A q \in Around(p, 2 * c.cell, World) : p.z - q.z < c.vehicleHeight

\* What the first node asks of an obstacle beyond having seen it: a height
\* between its limits, without the slack that distance gives when points are
\* admitted; minBlockPointNum points around it; and, the ground being a quantile
\* of the heights around, enough of them that are not above it.
StandsOut(p) ==
  LET c      == Local
      around == {q \in Around(p, c.cell + 1, terrain_map.seen) :
                   q.z > c.minRelZ /\ q.z < c.maxRelZ}
  IN  /\ p.z > c.minRelZ /\ p.z < c.maxRelZ
      /\ Cardinality(around) >= c.minBlockPointNum
      /\ 100 * Cardinality({q \in around : q.z <= p.z})
           > c.quantile * Cardinality(Around(p, 2 * c.cell, World))
      /\ Low(c, p)

\* An obstacle that the second node sees is in the map it publishes, also when
\* it is near and comes from the map of the first node, which was made for
\* another place of the vehicle: no ring is left out between the two as long as
\* the vehicle moves by less than their maps overlap and neither node waited
\* for the decay time.  The maps themselves are blind in some cases, which are
\* left out here: the second one to what the vehicle passes below, and the first
\* one, which alone serves what is near, also to an obstacle with fewer than
\* minBlockPointNum points around it, to one whose height only the slack of the
\* filter admits, and to one that lies below the quantile taken for the ground.
NoBlindRing ==
  [][ExtMainLoop =>
       \A p \in InPlace(ext'.seen) :
         /\ Raised(Local, p)
         /\ Dis(p, ext'.at) <= Ext.size * (Ext.gather - 1)
         /\ Dis(p, ext'.at) > LocalRadius => ext'.gap < Ext.decayTime /\ Low(Ext, p)
         /\ Dis(p, ext'.at) <= LocalRadius =>
              /\ p \in InPlace(terrain_map.seen)
              /\ terrain_map.gap < Local.decayTime
              /\ Abs(ext'.at - terrain_map.at) <= Local.cells - LocalRadius
              /\ StandsOut(p)
         => p \in ext'.map]_terrainVars
=============================================================================

-------------------------- MODULE IntensityVoxelLayer --------------------------
(***************************************************************************)
(* The costmap layer of pb_nav2_plugins that marks obstacles by the        *)
(* intensity of points (their height above the ground), along one axis.    *)
(* Every cycle the layer's own map is made anew from the observations of   *)
(* the last half second, and what lies between the outermost rays replaces *)
(* that part of the costmap; the rest of the costmap stays as it was.      *)
(* Positions are in halves of a cell.                                      *)
(***************************************************************************)
EXTENDS Integers, Sequences, FiniteSetsExt

CONSTANTS
  Layers,       \* configurations of the layer
  Objects,      \* things that may stand there: points x, z, intensity
  Track,        \* where the robot drives
  SizeX, SizeZ, \* of the window, in cells
  Footprint,    \* the robot's outline around its centre
  Reach         \* how far the terrain map reaches

\* The corners of the outline are on the axes, and the window is wider than a
\* cell.  The layers roll, mark a column for one voxel and points however near, and
\* do not take the ground (of intensity 0) for an obstacle, as they are configured.
ASSUME LayerParameters ==
  /\ Objects \subseteq [x : Int, z : Int, intensity : Nat]
  /\ SizeX \in Nat \ {0, 1} /\ SizeZ \in Nat \ {0} /\ Reach \in Nat /\ Track \subseteq Int
  /\ LET front == Footprint[1][1]   left == Footprint[2][2]
         back == -Footprint[3][1]   right == -Footprint[4][2]
     IN  /\ {front, left, back, right} \subseteq Nat \ {0}
         /\ Footprint = <<<<front, 0>>, <<0, left>>, <<-back, 0>>, <<0, -right>>>>
  /\ \A l \in Layers :
       /\ l.enabled \in BOOLEAN /\ l.rolling_window /\ l.mark_threshold = 0
       /\ l.footprint_padding \in Nat /\ l.origin_z \in Int
       /\ l.min_obstacle_height \in Int /\ l.max_obstacle_height \in Int
       /\ l.min_obstacle_intensity \in Nat \ {0} /\ l.max_obstacle_intensity \in Nat
       /\ l.min_range = 0 /\ l.max_range \in Nat /\ l.raytrace_max_range \in Nat

Resolution == 2

VARIABLES
  layer,              \* the parameters
  padded_footprint_,
  robot_x,
  objects,
  observations,       \* the clouds of the last half second
  origin_x_,          \* of the layer
  master_x,           \* the origin of the costmap
  master,             \* its cells that are lethal
  updated             \* history: nothing has changed since the last cycle

gridVars == <<layer, padded_footprint_, robot_x, objects, observations, origin_x_, master_x, master, updated>>

-----------------------------------------------------------------------------
(* onInitialize.                                                           *)

(* A corner is moved outward, along its direction; here the corners are on *)
(* the axes.                                                               *)
Outward(v, by) == IF v > 0 THEN v + by ELSE IF v < 0 THEN v - by ELSE 0
Padded(polygon, padding) ==
  [i \in DOMAIN polygon |-> <<Outward(polygon[i][1], padding), Outward(polygon[i][2], padding)>>]

(* The costmap may not know the footprint yet when it starts its layers.   *)
GridInit ==
  /\ layer \in Layers
  /\ padded_footprint_ \in (IF layer.use_footprint_filter
                            THEN {<<>>, Padded(Footprint, layer.footprint_padding)} ELSE {<<>>})
  /\ robot_x \in Track /\ objects \in SUBSET Objects /\ observations = <<>>
  /\ origin_x_ = 0 /\ master_x = 0 /\ master = {}
  /\ updated = FALSE

-----------------------------------------------------------------------------
(* The world, and the clouds of the terrain analysis: what stands there,   *)
(* or else the ground, as far as they reach.                               *)

Reached(x) == x - Reach .. x + Reach
Cloud(x, things) ==
  {o \in things : o.x \in Reached(x)}
  \cup {[x |-> p, z |-> 0, intensity |-> 0] : p \in Reached(x) \ {o.x : o \in things}}

Now == [origin |-> robot_x, cloud |-> Cloud(robot_x, objects)]

RobotDrives(x) ==
  /\ x \in {robot_x - 1, robot_x + 1} \cap Track
  /\ robot_x' = x /\ updated' = FALSE
  /\ UNCHANGED <<layer, padded_footprint_, objects, observations, origin_x_, master_x, master>>

ObjectsMove(things) ==
  /\ things # objects
  /\ objects' = things /\ updated' = FALSE
  /\ UNCHANGED <<layer, padded_footprint_, robot_x, observations, origin_x_, master_x, master>>

CloudComes ==
  /\ Len(observations) < 2
  /\ observations' = Append(observations, Now) /\ updated' = FALSE
  /\ UNCHANGED <<layer, padded_footprint_, robot_x, objects, origin_x_, master_x, master>>

(* observation_persistence *)
ObservationExpires ==
  /\ observations # <<>>
  /\ observations' = Tail(observations) /\ updated' = FALSE
  /\ UNCHANGED <<layer, padded_footprint_, robot_x, objects, origin_x_, master_x, master>>

-----------------------------------------------------------------------------
(* updateBounds.                                                           *)

(* static_cast<int>: toward zero. *)
Truncated(a) == IF a >= 0 THEN a \div Resolution ELSE -((-a) \div Resolution)

UpdateOrigin(origin) == origin + Truncated(robot_x - SizeX - origin) * Resolution

IsPointInPolygon(x, y, polygon) ==
  LET n == Len(polygon)
      Before(i) == polygon[IF i = 1 THEN n ELSE i - 1]
      (* x < (jx - ix) * (y - iy) / (jy - iy) + ix, without the quotient *)
      Left(p, q) == LET d == q[2] - p[2]
                        s == (q[1] - p[1]) * (y - p[2]) + p[1] * d
                    IN  IF d > 0 THEN x * d < s ELSE x * d > s
      Crossed == {i \in 1 .. n : /\ (polygon[i][2] > y) # (Before(i)[2] > y)
                                 /\ Left(polygon[i], Before(i))}
  IN  n >= 3 /\ Cardinality(Crossed) % 2 = 1

InWindow(x) == x >= origin_x_' /\ x < origin_x_' + SizeX * Resolution
Cell(x) == (x - origin_x_') \div Resolution

UnderRobot(p) == padded_footprint_ # <<>> /\ IsPointInPolygon(p.x - robot_x, 0, padded_footprint_)

(* Points below the grid count as its lowest level. *)
Level(p) == IF p.z < layer.origin_z THEN 0 ELSE p.z - layer.origin_z

IsObstacle(p, from) ==
  LET distance2 == (p.x - from) * (p.x - from) + p.z * p.z
  IN  /\ p.z >= layer.min_obstacle_height /\ p.z <= layer.max_obstacle_height
      /\ p.intensity >= layer.min_obstacle_intensity /\ p.intensity <= layer.max_obstacle_intensity
      /\ distance2 > layer.min_range * layer.min_range /\ distance2 < layer.max_range * layer.max_range
      /\ ~UnderRobot(p)

(* The voxels that are marked, as <<cell, level>>. *)
Voxels ==
  UNION {{<<Cell(p.x), Level(p)>> : p \in {q \in observations[i].cloud :
                                            /\ IsObstacle(q, observations[i].origin)
                                            /\ InWindow(q.x) /\ Level(q) < SizeZ}}
           : i \in DOMAIN observations}

(* markVoxelInMap: a column with more voxels than the threshold *)
Marked(voxels) ==
  {c \in 0 .. SizeX - 1 : Cardinality({v \in voxels : v[1] = c}) > layer.mark_threshold}

(* The layer's own map when the marking begins. *)
ResetMaps_Not == master
ResetMaps == {}

(* raytraceFreespace: the ends of the rays, from a sensor in the window *)
RayEnds ==
  UNION {LET o == observations[i].origin
             Clipped(x) == IF x < origin_x_' THEN origin_x_'
                           ELSE IF ~InWindow(x) THEN origin_x_' + SizeX * Resolution - 1 ELSE x
             Within(x) == IF x > o + layer.raytrace_max_range THEN o + layer.raytrace_max_range
                          ELSE IF x < o - layer.raytrace_max_range THEN o - layer.raytrace_max_range ELSE x
         IN  IF InWindow(o) THEN {o} \cup {Within(Clipped(p.x)) : p \in observations[i].cloud} ELSE {}
           : i \in DOMAIN observations}

(* updateFootprint, with footprint_clearing_enabled as in the configuration: *)
(* these cells are free, and within the bounds. *)
FootprintEnds == {robot_x + Footprint[i][1] : i \in DOMAIN Footprint}
UnderFootprint == {Cell(x) : x \in Min(FootprintEnds) .. Max(FootprintEnds)}

Bounds == RayEnds \cup FootprintEnds
Between(ends) == (Cell(Min(ends)) .. Cell(Max(ends))) \cap (0 .. SizeX - 1)

(* The costmap's own origin and cells move in the same way, before. *)
MovedMaster == master_x + Truncated(robot_x - SizeX - master_x) * Resolution
Shifted == {c - (master_x' - master_x) \div Resolution : c \in master} \cap (0 .. SizeX - 1)

UpdateBounds ==
  LET own == (ResetMaps \cup Marked(Voxels)) \ UnderFootprint
      within == Between(Bounds)
  IN  /\ origin_x_' = (IF layer.rolling_window THEN UpdateOrigin(origin_x_) ELSE origin_x_)
      /\ master_x' = (IF layer.rolling_window THEN MovedMaster ELSE master_x)
      /\ master' = (IF layer.enabled THEN (Shifted \ within) \cup (own \cap within)
                    ELSE Shifted)
      /\ updated' = TRUE
      /\ UNCHANGED <<layer, padded_footprint_, robot_x, objects, observations>>

GridNext ==
  \/ \E x \in Track : RobotDrives(x)
  \/ \E things \in SUBSET Objects : ObjectsMove(things)
  \/ CloudComes \/ ObservationExpires \/ UpdateBounds

GridSpec == GridInit /\ [][GridNext]_gridVars

-----------------------------------------------------------------------------
\* Cells of the costmap that the rays pass, and what the layer marks.
PlaceOfCell(c) == c + master_x \div Resolution
SeenCells ==
  {c \in 0 .. SizeX - 1 : \E x \in Reached(robot_x) :
     /\ x - robot_x \in -layer.raytrace_max_range .. layer.raytrace_max_range
     /\ x \div Resolution = PlaceOfCell(c)}
Obstacles ==
  {o \in objects : /\ o.z \in layer.min_obstacle_height .. layer.max_obstacle_height
                   /\ o.intensity \in layer.min_obstacle_intensity .. layer.max_obstacle_intensity
                   /\ o.x \in Reached(robot_x) /\ Level(o) < SizeZ
                   /\ (o.x - robot_x) * (o.x - robot_x) + o.z * o.z < layer.max_range * layer.max_range}
OutlineEnds ==
  LET outline == IF padded_footprint_ = <<>> THEN Footprint ELSE padded_footprint_
  IN  {robot_x + outline[i][1] : i \in DOMAIN outline}
StandsIn(c, things) == \E o \in things : o.x \div Resolution = PlaceOfCell(c)

(* When every observation in the buffer is of the world as it is, the      *)
(* cells between the outermost rays show it, wherever the window has gone: *)
(* a cell is lethal only if an obstacle stands in it now, and an obstacle  *)
(* outside of the robot's outline, or of the padded one where that is used *)
(* and known, makes its cell lethal (updateBounds, updateOrigin).          *)
MapFollowsWorld ==
  updated /\ layer.enabled /\ observations # <<>> /\ (\A i \in DOMAIN observations : observations[i] = Now) =>
    \A c \in SeenCells :
      /\ c \in master =>
           StandsIn(c, {o \in Obstacles : o.x <= Min(OutlineEnds) \/ o.x >= Max(OutlineEnds)})
      /\ /\ StandsIn(c, Obstacles)
         /\ \A x \in Min(OutlineEnds) .. Max(OutlineEnds) : x \div Resolution # PlaceOfCell(c)
         => c \in master
==============================================================================

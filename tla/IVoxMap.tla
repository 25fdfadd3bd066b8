------------------------------- MODULE IVoxMap -------------------------------
(***************************************************************************)
(* The local map of point_lio (ivox3d.h), how a scan is matched with it    *)
(* and how it grows.  It is a hash map from voxels to nodes of a list in   *)
(* order of use; a full map gives up the voxel at the end of the list.  A  *)
(* node is the storage it occupies, which is free for another voxel once   *)
(* the node is popped: grids_map_ holds iterators, so one that is not      *)
(* erased with its node then leads to the wrong voxel.  Only adding to a   *)
(* voxel counts as use: a search does not.                                 *)
(***************************************************************************)
EXTENDS Integers, Sequences, SequencesExt, FiniteSetsExt

CONSTANTS
  Scans,             \* scans: sequences of points, each <<x, y, z>>
  Nodes,             \* storage of list nodes
  NearbyTypes,       \* the parameter ivox_nearby_type
  resolution_, capacity_,
  max_range,
  NUM_MATCH_POINTS,
  filter_size_map_min

\* Coordinates are whole numbers of a unit.
ASSUME MapAssumption ==
  /\ Scans \subseteq Seq([1 .. 3 -> Int])
  /\ capacity_ \in Nat \ {0} /\ resolution_ \in Nat \ {0} /\ filter_size_map_min \in Nat \ {0}
  /\ max_range \in Nat /\ NUM_MATCH_POINTS \in Nat \ {0}
  /\ IsFiniteSet(Nodes) /\ Cardinality(Nodes) >= capacity_

VARIABLES
  nearby_type,
  grids_map_,      \* voxel -> node, for the voxels present
  grids_cache_,    \* the nodes, the one used last first
  node,            \* what each node was made for: its key and its points
  scan,            \* the scan that is matched, in the world
  Nearest_Points,  \* for each point of the scan
  mapping          \* where the loop is: init, match, map

mapVars == <<nearby_type, grids_map_, grids_cache_, node, scan, Nearest_Points, mapping>>

MapInit ==
  /\ nearby_type \in NearbyTypes
  /\ grids_map_ = <<>> /\ grids_cache_ = <<>>
  /\ node = [n \in Nodes |-> [key |-> <<0, 0, 0>>, points |-> {}]]
  /\ scan = <<>> /\ Nearest_Points = <<>> /\ mapping = "init"

-----------------------------------------------------------------------------
(* Voxels.                                                                 *)

Pos2Grid(pt) == [c \in 1 .. 3 |-> pt[c] \div resolution_]

Distance2(p, q) ==
  LET Square(c) == (p[c] - q[c]) * (p[c] - q[c]) IN Square(1) + Square(2) + Square(3)

\* How far apart the voxels of nearby_grids_ are; any other type is NEARBY18.
Steps == IF nearby_type = 0 THEN 0 ELSE IF nearby_type = 6 THEN 1 ELSE IF nearby_type = 26 THEN 3 ELSE 2
NearbyGrids == {d \in [1 .. 3 -> -1 .. 1] : Distance2(d, <<0, 0, 0>>) <= Steps}

-----------------------------------------------------------------------------
(* GetClosestPoint: of the nearest points of each voxel near by, again the *)
(* nearest.  Which of several at the same distance is left open.           *)

KNearest(points, pt) ==
  IF Cardinality(points) <= NUM_MATCH_POINTS THEN points
  ELSE CHOOSE S \in kSubset(NUM_MATCH_POINTS, points) :
         \A p \in S, q \in points \ S : Distance2(p, pt) <= Distance2(q, pt)

KNNPointByCondition(n, pt) ==
  KNearest({p \in node[n].points : Distance2(p, pt) < max_range * max_range}, pt)

Candidates(pt) ==
  LET near == {[c \in 1 .. 3 |-> Pos2Grid(pt)[c] + d[c]] : d \in NearbyGrids}
  IN  UNION {KNNPointByCondition(grids_map_[key], pt) : key \in near \cap DOMAIN grids_map_}

(* When it finds nothing the caller's vector stays as it was: it holds the *)
(* neighbours of the point that had this index in an earlier scan.         *)
GetClosestPoint(pt, before) ==
  IF Candidates(pt) = {} THEN before ELSE KNearest(Candidates(pt), pt)

-----------------------------------------------------------------------------
(* AddPoints, on a record of the three parts of the map.                   *)

With(f, x, v) == [y \in DOMAIN f \cup {x} |-> IF y = x THEN v ELSE f[y]]
Without(f, x) == [y \in DOMAIN f \ {x} |-> f[y]]

Erased_Nothing(map, key) == map
Erased(map, key) == Without(map, key)

\* A voxel seen for the first time: a node in front, and one less at the back when full.
NewVoxel(m, pt) ==
  LET n == CHOOSE free \in Nodes : free \notin ToSet(m.cache)
      node2 == [m.node EXCEPT ![n] = [key |-> Pos2Grid(pt), points |-> {pt}]]
      map == With(m.map, Pos2Grid(pt), n)
      cache == <<n>> \o m.cache
  IN  IF Cardinality(DOMAIN map) >= capacity_
      THEN [map |-> Erased(map, node2[Last(cache)].key), cache |-> Front(cache), node |-> node2]
      ELSE [map |-> map, cache |-> cache, node |-> node2]

\* A voxel that is present: its node is moved to the front.
UsedVoxel(m, pt) ==
  LET n == m.map[Pos2Grid(pt)]
  IN  [map |-> m.map, cache |-> <<n>> \o RemoveFirst(m.cache, n),
       node |-> [m.node EXCEPT ![n].points = @ \cup {pt}]]

AddPoint(m, pt) == IF Pos2Grid(pt) \in DOMAIN m.map THEN UsedVoxel(m, pt) ELSE NewVoxel(m, pt)

AddPoints(points) ==
  LET m == FoldLeft(AddPoint, [map |-> grids_map_, cache |-> grids_cache_, node |-> node], points)
  IN  grids_map_' = m.map /\ grids_cache_' = m.cache /\ node' = m.node

-----------------------------------------------------------------------------
(* The loop of point_lio.                                                  *)

InitMap(points) ==
  /\ mapping = "init"
  /\ AddPoints(points)
  /\ mapping' = "match"
  /\ UNCHANGED <<nearby_type, scan, Nearest_Points>>

(* Nearest_Points is resized, then the model of the measurement fills it.  *)
Match(points) ==
  /\ mapping = "match"
  /\ scan' = points
  /\ Nearest_Points' =
       [i \in DOMAIN points |->
          GetClosestPoint(points[i], IF i \in DOMAIN Nearest_Points THEN Nearest_Points[i] ELSE {})]
  /\ mapping' = "map"
  /\ UNCHANGED <<nearby_type, grids_map_, grids_cache_, node>>

\* In the same cell of the filter, not on its edge.
SameCell(pt, q) ==
  \A c \in 1 .. 3 :
    LET low == (pt[c] \div filter_size_map_min) * filter_size_map_min
    IN  q[c] > low /\ q[c] < low + filter_size_map_min

NeedAdd(i) == \A q \in Nearest_Points[i] : ~SameCell(scan[i], q)

AddNeeded(points_to_add, i) ==
  IF NeedAdd(i) THEN Append(points_to_add, scan[i]) ELSE points_to_add

MapIncremental ==
  /\ mapping = "map"
  /\ AddPoints(FoldLeftDomain(AddNeeded, <<>>, scan))
  /\ mapping' = "match" /\ scan' = <<>>
  /\ UNCHANGED <<nearby_type, Nearest_Points>>

MapNext ==
  \/ \E points \in Scans : InitMap(points) \/ Match(points)
  \/ MapIncremental

MapSpec == MapInit /\ [][MapNext]_mapVars

(***************************************************************************)
(* Whatever the map has taken up and given up before, the neighbours of a  *)
(* point that has any are the nearest points of the list's nodes in the    *)
(* voxels near by, as many as are asked for; a search follows no iterator  *)
(* to storage that was freed or serves another voxel, and dropping points  *)
(* voxel by voxel loses none (GetClosestPoint, AddPoints).                 *)
(***************************************************************************)
NeighboursAreNearest ==
  mapping = "map" =>
    \A i \in DOMAIN scan :
      LET pt == scan[i]
          NearBy(key) == \E d \in NearbyGrids : \A c \in 1 .. 3 : key[c] = Pos2Grid(pt)[c] + d[c]
          held == UNION {node[n].points : n \in {o \in ToSet(grids_cache_) : NearBy(node[o].key)}}
          reached == {p \in held : Distance2(p, pt) < max_range * max_range}
          near == Nearest_Points[i]
      IN  reached # {} =>
            /\ near \subseteq reached
            /\ Cardinality(near) = Min({NUM_MATCH_POINTS, Cardinality(reached)})
            /\ \A p \in near, q \in reached \ near : Distance2(p, pt) <= Distance2(q, pt)
==============================================================================

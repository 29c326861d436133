-------------------------------- MODULE KdTree --------------------------------
(***************************************************************************)
(* The k-d tree in which the globe of the site finds the city that is      *)
(* nearest to where the user points (elements/webgl-globe/kd-tree.js), on   *)
(* points with integer coordinates.  A point is <<x, y, z, index>>.        *)
(***************************************************************************)
EXTENDS Integers, Sequences, FiniteSets, SequencesExt

(* The order of the coordinates when points are compared in a dimension;    *)
(* the index breaks the last tie.                                           *)
Keys(d) == <<d + 1, ((d + 1) % 3) + 1, ((d + 2) % 3) + 1, 4>>

lessThan_(d, a, b) ==
  \E k \in 1..4 : /\ a[Keys(d)[k]] < b[Keys(d)[k]]
                  /\ \A j \in 1..(k - 1) : a[Keys(d)[j]] = b[Keys(d)[j]]

lessThanX_(a, b) == lessThan_(0, a, b)
lessThanY_(a, b) == lessThan_(1, a, b)
lessThanZ_(a, b) == lessThan_(2, a, b)

lessThan(depth, a, b) ==
  CASE depth % 3 = 0 -> lessThanX_(a, b)
    [] depth % 3 = 1 -> lessThanY_(a, b)
    [] OTHER         -> lessThanZ_(a, b)

compareX_(ps) == SortSeq(ps, lessThanX_)
compareY_(ps) == SortSeq(ps, lessThanY_)
compareZ_(ps) == SortSeq(ps, lessThanZ_)

RECURSIVE intLogBase2_(_)
intLogBase2_(v) == IF v < 2 THEN 0 ELSE 1 + intLogBase2_(v \div 2)

(* How many points are left of the root of a complete tree.                 *)
arraySplit_(length) ==
  LET firstBit  == 2 ^ intLogBase2_(length)
      secondBit == firstBit \div 2
  IN  IF length - firstBit >= secondBit THEN firstBit - 1
      ELSE length - firstBit + secondBit

(* The tree of points that are sorted in each dimension, as the set of its  *)
(* points with their places: node i has its children at 2i+1 and 2i+2.      *)
RECURSIVE build_(_, _, _, _, _)
build_(sorted0, sorted1, sorted2, depth, i) ==
  IF sorted0 = << >> THEN {}
  ELSE IF Len(sorted0) = 1 THEN {<<i, sorted0[1]>>}
  ELSE LET splitIndex == arraySplit_(Len(sorted0))
           splitNode  == sorted0[splitIndex + 1]
           Left(s)  == SelectSeq(s, LAMBDA p : p # splitNode /\ lessThan(depth, p, splitNode))
           Right(s) == SelectSeq(s, LAMBDA p : p # splitNode /\ ~lessThan(depth, p, splitNode))
       IN  {<<i, splitNode>>}
           \cup build_(Left(sorted1), Left(sorted2), SubSeq(sorted0, 1, splitIndex),
                       depth + 1, 2 * i + 1)
           \cup build_(Right(sorted1), Right(sorted2),
                       SubSeq(sorted0, splitIndex + 2, Len(sorted0)), depth + 1, 2 * i + 2)

buildFlatStore_(root) ==
  [i \in {e[1] : e \in root} |-> (CHOOSE e \in root : e[1] = i)[2]]

Store(points) ==
  LET ps == [k \in DOMAIN points |-> points[k] \o <<k - 1>>]
  IN  buildFlatStore_(build_(compareX_(ps), compareY_(ps), compareZ_(ps), 0, 0))

------------------------------------------------------------------------------
SqDistance(a, b) == (a[1] - b[1])^2 + (a[2] - b[2])^2 + (a[3] - b[3])^2

(* A search s has a stack of nodes with their distances to the split, the   *)
(* current node and its depth, and what it has found: all the points within *)
(* a squared distance, or the nearest one, which then bounds the rest.      *)
Search(all, sq) == [all |-> all, stack |-> << >>, current |-> 0, depth |-> 0,
                    best |-> -1, sq |-> sq, found |-> << >>, over |-> FALSE]

(* The next node off the stack: after it the depth is the stack's height.   *)
Popped(s, n) ==
  LET top == Last(s.stack)
  IN  [s EXCEPT !.depth = Len(s.stack), !.stack = Front(@),
                !.current = IF top.sq <= s.sq /\ top.node < n THEN top.node ELSE n]

Visit(store, target, s) ==
  LET n == Cardinality(DOMAIN store)
      p == store[s.current]
      first == IF target[(s.depth % 3) + 1] < p[(s.depth % 3) + 1] THEN 1 ELSE 2
      other == [node |-> 2 * s.current + 3 - first,
                sq   |-> (target[(s.depth % 3) + 1] - p[(s.depth % 3) + 1])^2]
  IN  IF 2 * s.current + 1 < n
      THEN [s EXCEPT !.stack = Append(@, other), !.depth = @ + 1,
                     !.current = 2 * @ + first]
      ELSE [s EXCEPT !.current = 2 * @ + 1]

Take(store, target, s) ==
  LET q == SqDistance(store[s.current], target)
  IN  IF q >= s.sq THEN s
      ELSE IF s.all THEN [s EXCEPT !.found = Append(@, <<s.current, q>>)]
      ELSE [s EXCEPT !.sq = q, !.best = s.current]

(* A round of the loop: a node from the stack if the last was a leaf; what  *)
(* the search makes of it; its children.                                    *)
Round(store, target, s) ==
  LET n == Cardinality(DOMAIN store)
      t == IF s.current >= n THEN Popped(s, n) ELSE s
      u == IF t.current >= n THEN t ELSE Visit(store, target, Take(store, target, t))
  IN  IF s.over THEN s ELSE [u EXCEPT !.over = u.stack = << >>]

Searched(all, store, target, sq) ==
  FoldLeft(LAMBDA s, k : Round(store, target, s), Search(all, sq),
           [k \in 1..(3 * Cardinality(DOMAIN store)) |-> k])

nearest_(store, target, sq) ==
  LET s == Searched(FALSE, store, target, sq)
  IN  IF s.best = -1 THEN -1 ELSE store[s.best][4]

neighborhood_(store, target, sq) == Searched(TRUE, store, target, sq).found

(* As the points' indices, sorted by distance: that of a node, which is at   *)
(* 4i in the array of the code, is looked up where the order of finding has *)
(* it; what is not there compares as neither less nor more.                 *)
nearestNeighborsByLatLng(store, target, sq) ==
  LET found == neighborhood_(store, target, sq)
      At(e) == 4 * e[1] + 1
      Less(e, f) == /\ {At(e), At(f)} \subseteq DOMAIN found
                    /\ found[At(e)][2] < found[At(f)][2]
      sorted == SortSeq(found, Less)
  IN  [k \in DOMAIN found |-> store[sorted[k][1]][4]]

------------------------------------------------------------------------------
(* The store has every point once and no gap, and each side of a node has   *)
(* the points that are less than it in the node's dimension, or the others. *)
DepthOf(i) == intLogBase2_(i + 1)

RECURSIVE IsBelow(_, _)
IsBelow(i, j) == i = j \/ (i > j /\ IsBelow((i - 1) \div 2, j))

TreeIsSearchable(points) ==
  LET store == Store(points)
      N == Len(points)
  IN  /\ DOMAIN store = 0..(N - 1)
      /\ {store[i][4] : i \in 0..(N - 1)} = 0..(N - 1)
      /\ \A i \in 0..(N - 1) : SubSeq(store[i], 1, 3) = points[store[i][4] + 1]
      /\ \A i \in 0..(N - 1), j \in 0..(N - 1) :
           /\ IsBelow(i, 2 * j + 1) => lessThan(DepthOf(j), store[i], store[j])
           /\ IsBelow(i, 2 * j + 2) => lessThan(DepthOf(j), store[j], store[i])

(* kd-tree.js:453: the search returns the nearest of the points within the  *)
(* distance, or -1.                                                         *)
NearestIsNearest(points, target, sq) ==
  LET r == nearest_(Store(points), target, sq)
      q == {SqDistance(points[k], target) : k \in DOMAIN points}
  IN  IF \A d \in q : d >= sq THEN r = -1
      ELSE r >= 0 /\ \A d \in q : SqDistance(points[r + 1], target) <= d

(* The neighbours are the points within the distance.                       *)
NeighborsAreNear(points, target, sq) ==
  ToSet(nearestNeighborsByLatLng(Store(points), target, sq))
    = {k - 1 : k \in {j \in DOMAIN points : SqDistance(points[j], target) < sq}}

------------------------------------------------------------------------------
(* Eight points of a sphere, every one of which is looked for: the first    *)
(* size at which a node that is taken off the stack may be searched in      *)
(* another dimension than the one it was split in.  Up to seven points are  *)
(* checked in MCParts.                                                      *)
VARIABLE target

Points == <<<<1, -2, 2>>, <<2, -1, -2>>, <<-3, 0, 0>>, <<0, 3, 0>>,
            <<-2, 1, 2>>, <<2, 2, -1>>, <<0, -3, 0>>, <<0, 0, -3>>>>

LookedFor == target \in ToSet(Points) /\ [][UNCHANGED target]_target

(* kd-tree.js:453: the point that is found is the nearest one: for a target *)
(* that is a point itself, that point.                                      *)
NearestIsFound == NearestIsNearest(Points, target, 99)
===============================================================================

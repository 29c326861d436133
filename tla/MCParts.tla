-------------------------------- MODULE MCParts --------------------------------
(***************************************************************************)
(* A small instance of the parts, with the algorithms: each is another     *)
(* part, whose input is v1 and which takes no step.                        *)
(*                                                                         *)
(* The beats are at a tick of 50 ms; the countdown at one of 100 ms, with  *)
(* the timings of its element: 500 ms in, 300 ms still and 400 ms out; and *)
(* its frames are at most 100 ms apart.                                    *)
(***************************************************************************)
EXTENDS Parts, TLC

MCLoaded == {[pid |-> 0, pointA |-> "d1", pointB |-> "d2"]}
MCSizes  == {<<0, 1>>, <<1, 1>>}

Symmetry == Permutations(Events)

(***************************************************************************)
(* The algorithms, on inputs v1                                            *)
(***************************************************************************)
Slice == INSTANCE Slices
Grid  == INSTANCE Cube
Lists == INSTANCE LinkedList
Tree  == INSTANCE KdTree WITH target <- v1
Link  == INSTANCE DataModel
Ball  == INSTANCE Globe
Mesh  == INSTANCE Geometry

(* All slices of at most four of three strings.                             *)
SliceInputs == {<<s, t>> : s \in UNION {[1..n -> 1..3] : n \in 0..4},
                           t \in UNION {[1..n -> 1..3] : n \in 0..4}}

GridInputs == {<<<<x, -x - z, z>>, radius>> : x \in (-2)..2, z \in (-2)..2, radius \in 0..3}

ListInputs == {<<s, o>> \in (UNION {[1..n -> 1..4] : n \in 0..4}) \X (1..5) :
                 \A j, k \in DOMAIN s : s[j] = s[k] => j = k}

(* Points with integer coordinates on a sphere: from one to seven of them,  *)
(* and one of them as a target.                                             *)
Sphere ==
  <<<<-1, -2, 2>>, <<2, -1, 2>>, <<-2, -2, 1>>, <<0, 0, 3>>, <<1, 2, -2>>, <<-3, 0, 0>>,
    <<2, 2, 1>>, <<1, -2, -2>>, <<-2, 1, -2>>, <<0, 3, 0>>, <<2, -2, -1>>, <<-1, 2, 2>>,
    <<0, 0, -3>>, <<-2, 2, -1>>, <<1, 2, 2>>, <<3, 0, 0>>, <<-2, -1, 2>>, <<2, 1, -2>>,
    <<-1, -2, -2>>, <<0, -3, 0>>, <<1, -2, 2>>, <<-2, 1, 2>>, <<2, -1, -2>>, <<2, 2, -1>>>>

PointsAt(first, step, n) ==
  [k \in 1..n |-> Sphere[((first + step * (k - 1)) % Len(Sphere)) + 1]]

TreeInputs == {<<PointsAt(first, step, n), Sphere[t]>> :
                 first \in 0..23, step \in {1, 5, 7}, n \in 1..7, t \in {1, 9, 13}}

(* The order of the instruments where the link is made and where it is      *)
(* opened, the numbers, how many of them are left of it, and what the page  *)
(* has of its own.                                                          *)
Orders == {<<"guitar", "drum", "arpeggiator">>, <<"drum", "arpeggiator", "guitar">>}

Numbers(h, k) == [guitar |-> h, drum |-> k, arpeggiator |-> 250]

LinkInputs ==
  {<<there, <<"guitar", "drum", "arpeggiator">>, Numbers(h, k), tooFew, own>> :
     there \in Orders, h \in 0..260, k \in {0, 7, 1015}, tooFew \in {0, 2},
     own \in {Link!None, Numbers(0, 33)}}

(* Angles, points of the globe, shapes of the canvas and how high the globe *)
(* is; its centre is two away from the camera.  Of half the field of view   *)
(* only the ratio of sine and cosine matters.                               *)
Quarters == {[cos |-> 1, sin |-> 0, one |-> 1], [cos |-> 0, sin |-> 1, one |-> 1],
             [cos |-> -1, sin |-> 0, one |-> 1], [cos |-> 0, sin |-> -1, one |-> 1]}
Angles   == Quarters \cup {[cos |-> 4, sin |-> 3, one |-> 5], [cos |-> 3, sin |-> -4, one |-> 5]}
HalfView == [cos |-> 2, sin |-> 1, one |-> 2]

GlobeInputs ==
  (Angles \X Quarters) \X {0, 1} \X {<<1, 1>>, <<2, 1>>, <<1, 2>>}
  \X {<<1, 0, 0>>, <<0, 1, 0>>, <<0, 0, 1>>, <<0, -1, 1>>}

GlobeAgrees(angles, offsetY, canvas, point) ==
  /\ Ball!PickedWhereDrawn(Ball!worldTransform(angles[1], angles[2], offsetY, 2), HalfView,
                           canvas[1], canvas[2], 1, 3,
                           [k \in 0..3 |-> IF k = 3 THEN 1 ELSE point[k + 1]])
  /\ Ball!MarkedWhereFound(angles[1], angles[2], [times |-> 1, one |-> 3])

(* unique keeps of each item the first, in their order; subslice takes one  *)
(* occurrence away for each of its items, as far as there are any, and      *)
(* leaves the others sorted.                                                *)
Occurs(s, x) == Cardinality({i \in DOMAIN s : s[i] = x})
First(s, x)  == CHOOSE i \in DOMAIN s : s[i] = x /\ \A j \in 1..(i - 1) : s[j] # x

SlicesAgree(s, taken) ==
  LET once == Slice!unique(s)
      rest == Slice!subslice(s, taken)
  IN  /\ \A x \in 1..3 : Occurs(once, x) = IF Occurs(s, x) > 0 THEN 1 ELSE 0
      /\ \A i, j \in DOMAIN once : i < j => First(s, once[i]) < First(s, once[j])
      /\ \A x \in 1..3 : Occurs(rest, x) = IF Occurs(s, x) > Occurs(taken, x)
                                           THEN Occurs(s, x) - Occurs(taken, x) ELSE 0
      /\ \A i, j \in DOMAIN rest : i < j => rest[i] <= rest[j]

AlgorithmInit ==
  \/ part = "slices" /\ v1 \in SliceInputs
  \/ part = "grid"   /\ v1 \in GridInputs
  \/ part = "lists"  /\ v1 \in ListInputs
  \/ part = "trees"  /\ v1 \in TreeInputs
  \/ part = "links"  /\ v1 \in LinkInputs
  \/ part = "globe"  /\ v1 \in GlobeInputs
  \/ part = "mesh"   /\ v1 \in 1..5

MCInit == \/ PartsInit
          \/ Init /\ now = 0 /\ AlgorithmInit /\ Rest2

MCSpec == MCInit /\ [][PartsNext]_<<vars, part, state>>

------------------------------------------------------------------------------
(* The algorithms agree with what they are for: see each module.  A ripple  *)
(* of the hexagons is one of them, in whatever grid the view has.           *)
AlgorithmsAgree ==
  /\ part = "hexagon" => Hexagons!RippleReachesAll
  /\ part = "slices" => SlicesAgree(v1[1], v1[2])
  /\ part = "grid"   => /\ Grid!RingIsRound(v1[1], v1[2])
                        /\ Grid!RowColumnAgree(v1[1])
  /\ part = "lists"  => Lists!ListIsSequence(v1[1], v1[2])
  /\ part = "trees"  => /\ Tree!TreeIsSearchable(v1[1])
                        /\ Tree!NearestIsNearest(v1[1], v1[2], 99)
                        /\ Tree!NearestIsNearest(v1[1], v1[2], 5)
                        /\ Tree!NeighborsAreNear(v1[1], v1[2], 12)
  /\ part = "links"  => Link!LinkIsShared(v1[1], v1[2], v1[3], v1[4], v1[5])
  /\ part = "globe"  => GlobeAgrees(v1[1], v1[2], v1[3], v1[4])
  /\ part = "mesh"   => Mesh!SphereIsClosed(v1)
===============================================================================

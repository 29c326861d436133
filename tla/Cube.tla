--------------------------------- MODULE Cube ---------------------------------
(***************************************************************************)
(* Positions on the grid of hexagons (views/hexagon/Cube.js): three        *)
(* coordinates whose sum is 0, their rows and columns, and the rings       *)
(* around a position.                                                      *)
(***************************************************************************)
EXTENDS Integers, Sequences

Plus(c, d)  == [k \in 1..3 |-> c[k] + d[k]]
Times(c, n) == [k \in 1..3 |-> c[k] * n]

NEIGHBOR_DELTAS == <<<<1, -1, 0>>, <<1, 0, -1>>, <<0, 1, -1>>,
                     <<-1, 1, 0>>, <<-1, 0, 1>>, <<0, -1, 1>>>>

getNeighbors(c) == [i \in 1..6 |-> Plus(c, NEIGHBOR_DELTAS[i])]

(* (q & 1) is the remainder, also of a negative number.                     *)
evenQToCube(r, q) == LET z == r - (q + (q % 2)) \div 2 IN <<q, -q - z, z>>
getRowColumn(c)   == <<c[3] + (c[1] + (c[1] % 2)) \div 2, c[1]>>

(* From a corner of the ring along its six sides.                           *)
getRing(c, radius) ==
  IF radius <= 0 THEN <<c>>
  ELSE LET at[k \in 1..(6 * radius)] ==
             IF k = 1 THEN Plus(c, Times(NEIGHBOR_DELTAS[5], radius))
             ELSE getNeighbors(at[k - 1])[((k - 2) \div radius) + 1]
       IN  [k \in 1..(6 * radius) |-> at[k]]

------------------------------------------------------------------------------
Abs(n) == IF n < 0 THEN -n ELSE n
Distance(c, d) ==
  (Abs(c[1] - d[1]) + Abs(c[2] - d[2]) + Abs(c[3] - d[3])) \div 2

(* A ring has the positions at its distance, each once, and a position is   *)
(* that of its row and column.                                              *)
RingIsRound(c, radius) ==
  LET ring == getRing(c, radius)
  IN  /\ {ring[k] : k \in DOMAIN ring} =
           {<<x, -x - z, z>> : x \in (c[1] - radius)..(c[1] + radius),
                               z \in (c[3] - radius)..(c[3] + radius)}
           \cap {d \in {<<x, -x - z, z>> : x \in (c[1] - radius)..(c[1] + radius),
                                          z \in (c[3] - radius)..(c[3] + radius)} :
                   Distance(c, d) = radius}
      /\ \A j, k \in DOMAIN ring : ring[j] = ring[k] => j = k
RowColumnAgree(c) == LET rc == getRowColumn(c) IN evenQToCube(rc[1], rc[2]) = c
===============================================================================

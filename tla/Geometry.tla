------------------------------- MODULE Geometry -------------------------------
(***************************************************************************)
(* The sphere of the globe (elements/webgl-globe/geometry.js): the faces of *)
(* an icosahedron, in five groups of four, cut into triangles.  Its corners *)
(* are 0, the top; 1 to 5, the upper ring; 6 to 10, the lower; and 11.      *)
(* A vertex is its weights for the corners that it lies between, of which   *)
(* there are n in all: a set of <<corner, weight>>, without zeros.          *)
(***************************************************************************)
EXTENDS Naturals, FiniteSets

Vertex(weights) == {w \in weights : w[2] > 0}

vertsPerGroup(n) == (2 * n + 3) * n + 1

Faces_KeepsRight(i, lower) ==
  LET topRight    == ((i + 1) % 5) + 1
      bottomRight == ((i + 1) % 5) + 6
  IN  IF lower
      THEN [topLeft |-> i + 1, topRight |-> topRight, bottomLeft |-> i + 6, bottomRight |-> 11]
      ELSE [topLeft |-> 0, topRight |-> topRight, bottomLeft |-> i + 1,
            bottomRight |-> bottomRight]

(* The corners of the upper and of the lower two faces of group i.          *)
Faces(i, lower) ==
  LET topRight    == ((i + 1) % 5) + 1
      bottomRight == ((i + 1) % 5) + 6
  IN  IF lower
      THEN [topLeft |-> i + 1, topRight |-> bottomRight, bottomLeft |-> i + 6, bottomRight |-> 11]
      ELSE [topLeft |-> 0, topRight |-> topRight, bottomLeft |-> i + 1,
            bottomRight |-> bottomRight]

(* Row v of a pair of faces: a left triangle, then a right one.             *)
RowVertex(n, f, v, x) ==
  IF x < n - v
  THEN Vertex({<<f.topLeft, n - v - x>>, <<f.topRight, x>>, <<f.bottomLeft, v>>})
  ELSE LET u == x - (n - v)
       IN  Vertex({<<f.topRight, n - v>>, <<f.bottomLeft, v - u>>, <<f.bottomRight, u>>})

generateGeometry(n) ==
  [k \in 0..(5 * vertsPerGroup(n) - 1) |->
     LET i == k \div vertsPerGroup(n)
         y == (k % vertsPerGroup(n)) \div (n + 1)
         x == (k % vertsPerGroup(n)) % (n + 1)
     IN  IF y = 0 THEN Vertex({<<0, n - x>>, <<Faces(i, FALSE).topRight, x>>})
         ELSE RowVertex(n, Faces(i, y > n), ((y - 1) % n) + 1, x)]

(* The indices are kept in 16 bits.                                         *)
Uint16(k) == k % 2 ^ 16

generateIndexArray(n) ==
  LET At(i, y, x) == Uint16(i * vertsPerGroup(n) + y * (n + 1) + x)
      Cells == (0..4) \X (0..(2 * n - 1)) \X (0..(n - 1))
  IN  {<<At(c[1], c[2], c[3]), At(c[1], c[2] + 1, c[3]), At(c[1], c[2], c[3] + 1)>> : c \in Cells}
      \cup
      {<<At(c[1], c[2], c[3] + 1), At(c[1], c[2] + 1, c[3]), At(c[1], c[2] + 1, c[3] + 1)>> :
         c \in Cells}

------------------------------------------------------------------------------
(* The triangles close the sphere: each of their sides is the side of       *)
(* exactly one other, the other way round, and they leave no vertex out.    *)
(* Up to 80 divisions, as the comments say, the indices tell all vertices   *)
(* apart, and for no more.                                                  *)
SphereIsClosed(n) ==
  LET vertex    == generateGeometry(n)
      triangles == generateIndexArray(n)
      sides     == UNION {{<<vertex[t[1]], vertex[t[2]]>>, <<vertex[t[2]], vertex[t[3]]>>,
                           <<vertex[t[3]], vertex[t[1]]>>} : t \in triangles}
  IN  /\ Cardinality(triangles) = 20 * n * n
      /\ Cardinality(sides) = 60 * n * n
      /\ \A s \in sides : s[1] # s[2] /\ <<s[2], s[1]>> \in sides
      /\ {s[1] : s \in sides} = {vertex[k] : k \in DOMAIN vertex}
      /\ \A m \in 1..100 : (m <= 80) = (5 * vertsPerGroup(m) <= 2 ^ 16)
===============================================================================

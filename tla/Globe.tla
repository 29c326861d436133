-------------------------------- MODULE Globe --------------------------------
(***************************************************************************)
(* How the globe of the site is drawn and picked: the 4x4 matrices          *)
(* (elements/webgl-globe/matrix4x4.js), the square that marks a city        *)
(* (sprite-geometry.js), and the ray through a place on the canvas          *)
(* (pickPoint of webgl-globe.html).                                         *)
(* All coordinates are homogeneous and multiplied through by their          *)
(* denominators, so that they are integers: a matrix or a vector stands for *)
(* itself divided by its last element.  An angle is its cosine, its sine    *)
(* and their denominator, [cos, sin, one].                                  *)
(***************************************************************************)
EXTENDS Integers, FiniteSets, FiniteSetsExt

LOCAL Total(S, f(_)) == MapThenSumSet(f, S)

(* Element k of a matrix is in row k % 4 and column k \div 4.                *)
getElement(m, row, column) == m[column * 4 + row]

Matrix(element) == [k \in 0..15 |-> element[k % 4, k \div 4]]

identity == Matrix([row, column \in 0..3 |-> IF row = column THEN 1 ELSE 0])

product(view, local) ==
  Matrix([row, column \in 0..3 |->
           Total(0..3, LAMBDA k : getElement(view, row, k) * getElement(local, k, column))])

(* Column i turns towards column j.                                         *)
Turn(m, i, j, theta) ==
  Matrix([row, column \in 0..3 |->
           CASE column = i -> theta.cos * getElement(m, row, i) + theta.sin * getElement(m, row, j)
             [] column = j -> theta.cos * getElement(m, row, j) - theta.sin * getElement(m, row, i)
             [] OTHER      -> theta.one * getElement(m, row, column)])

rotateX(m, theta) == Turn(m, 1, 2, theta)
rotateY(m, theta) == Turn(m, 2, 0, theta)
rotateZ(m, theta) == Turn(m, 0, 1, theta)

scaleUniform(m, scale) ==
  Matrix([row, column \in 0..3 |->
           (IF column = 3 THEN scale.one ELSE scale.times) * getElement(m, row, column)])

translate(m, t) ==
  Matrix([row, column \in 0..3 |->
           getElement(m, row, column)
           + IF column = 3 THEN Total(0..2, LAMBDA k : t[k + 1] * getElement(m, row, k)) ELSE 0])

transformVec4(m, v) ==
  [row \in 0..3 |-> Total(0..3, LAMBDA k : v[k] * getElement(m, row, k))]

(* The inverse of an affine matrix, by its cofactors.                       *)
Cofactor(s, row, column) ==
  LET At(r, c) == getElement(s, (row + r) % 3, (column + c) % 3)
  IN  At(1, 1) * At(2, 2) - At(1, 2) * At(2, 1)

invertAffine(s) ==
  LET det == Total(0..2, LAMBDA c : getElement(s, 0, c) * Cofactor(s, 0, c))
  IN  Matrix([row, column \in 0..3 |->
        CASE row = 3    -> IF column = 3 THEN det ELSE 0
          [] column < 3 -> getElement(s, 3, 3) * Cofactor(s, column, row)
          [] OTHER      -> -Total(0..2, LAMBDA k : getElement(s, k, 3) * Cofactor(s, k, row))])

(* half is half the field of view, and the canvas is width by height.       *)
perspective(m, half, width, height, near, far) ==
  LET s  == -half.sin * Max({width, height})
      Row(r, c) == getElement(m, r, c)
  IN  Matrix([row, column \in 0..3 |->
        CASE row = 0 -> half.cos * height * (far - near) * Row(0, column)
          [] row = 1 -> half.cos * width * (far - near) * Row(1, column)
          [] row = 2 -> s * ((far + near) * Row(2, column) + 2 * near * far * Row(3, column))
          [] row = 3 -> s * (far - near) * Row(2, column)])

(* Globe to camera space.                                                   *)
worldTransform(lat, lng, offsetY, cameraDistance) ==
  rotateY(rotateX(translate(identity, <<0, offsetY, -cameraDistance>>), lat), lng)

(* The direction in globe space of the ray from the camera through a place  *)
(* of the canvas: x / d of its width from the left, y / d of its height     *)
(* from the top.                                                            *)
cameraPosition(inverseWorld) ==
  [row \in 0..2 |-> getElement(inverseWorld, row, 3)]

pickPoint(x, y, d, half, width, height, inverseWorld) ==
  LET w      == half.sin * d * Min({width, height})
      click  == transformVec4(inverseWorld,
                  [k \in 0..3 |-> CASE k = 0 -> (2 * x - d) * width * half.sin
                                    [] k = 1 -> (d - 2 * y) * height * half.sin
                                    [] k = 2 -> -half.cos * d * Min({width, height})
                                    [] k = 3 -> w])
  IN  [row \in 0..2 |-> click[row] - w * cameraPosition(inverseWorld)[row]]

(* The corners of the square of a city.                                     *)
Negative(theta) == [theta EXCEPT !.sin = -theta.sin]

generateSpriteGeometry(lat, lng, spriteSize) ==
  LET transform == scaleUniform(
                     translate(rotateX(rotateY(identity, lng), Negative(lat)), <<0, 0, 1>>),
                     spriteSize)
  IN  {transformVec4(transform, [k \in 0..3 |-> CASE k = 0 -> x [] k = 1 -> y
                                                 [] k = 2 -> 0 [] k = 3 -> 1]) :
         x \in {-1, 1}, y \in {-1, 1}}

------------------------------------------------------------------------------
Cross(a, b) == {a[1] * b[2] - a[2] * b[1], a[2] * b[0] - a[0] * b[2], a[0] * b[1] - a[1] * b[0]}
Dot(a, b)   == Total(0..2, LAMBDA k : a[k] * b[k])

(* A point of the globe is before the camera and picked where it is drawn:   *)
(* the ray through its place on the canvas leads from the camera to it.     *)
(* What is at the near and far distances is at the ends of the depth.       *)
PickedWhereDrawn(world, half, width, height, near, far, point) ==
  LET projection   == perspective(identity, half, width, height, near, far)
      inverseWorld == invertAffine(world)
      clip  == transformVec4(product(projection, world), point)
      camera == cameraPosition(inverseWorld)
      one   == getElement(inverseWorld, 3, 3)
      ray   == pickPoint(clip[0] + clip[3], clip[3] - clip[1], 2 * clip[3],
                         half, width, height, inverseWorld)
      way   == [k \in 0..2 |-> one * point[k] - camera[k] * point[3]]
      Depth(distance) == transformVec4(projection, [k \in 0..3 |->
                           CASE k < 2 -> 0 [] k = 2 -> -distance [] k = 3 -> 1])
  IN  /\ clip[3] > 0
      /\ Cross(ray, way) = {0} /\ Dot(ray, way) > 0
      /\ product(inverseWorld, world) =
           Matrix([row, column \in 0..3 |-> IF row = column THEN one * getElement(world, 3, 3) ELSE 0])
      /\ Depth(near)[2] = -Depth(near)[3]
      /\ Depth(far)[2] = Depth(far)[3]

(* The square of a city lies around the point at which the tree of the      *)
(* cities has it, and touches the globe there.                              *)
MarkedWhereFound(lat, lng, spriteSize) ==
  LET corners == generateSpriteGeometry(lat, lng, spriteSize)
      city    == [k \in 0..2 |-> CASE k = 0 -> lng.sin * lat.cos
                                   [] k = 1 -> lat.sin * lng.one
                                   [] k = 2 -> lng.cos * lat.cos]
      one     == lat.one * lng.one * spriteSize.one
  IN  /\ \A v \in corners : v[3] = one
      /\ \A k \in 0..2 : Total(corners, LAMBDA v : v[k]) = 4 * spriteSize.one * city[k]
      /\ \A v \in corners : Dot(city, [k \in 0..2 |-> v[k] - spriteSize.one * city[k]]) = 0
===============================================================================

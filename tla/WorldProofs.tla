----------------------------- MODULE WorldProofs -----------------------------
(***************************************************************************)
(* Theorems about World, for maps, windows and cameras of every size.      *)
(***************************************************************************)
EXTENDS World, TLAPS

-----------------------------------------------------------------------------
(* Integers *)

LEMMA ProductMonotone ==
  ASSUME NEW a \in Int, NEW b \in Int, NEW c \in Nat, a <= b
  PROVE  a * c <= b * c
  BY SMTT(20)

LEMMA ProductReflects ==
  ASSUME NEW a \in Int, NEW b \in Int, NEW c \in Nat \ {0}, a * c < b * c
  PROVE  a < b
  BY SMTT(20)

\* A remainder does not change the quotient.
LEMMA QuotientOfMultiple ==
  ASSUME NEW q \in Int, NEW n \in Nat \ {0}, NEW r \in 0..n - 1
  PROVE  (q * n + r) \div n = q
  <1>. DEFINE a == q * n + r
              d == a \div n
  <1>1. a \in Int /\ q * n \in Int /\ q * n <= a /\ a < q * n + n
    BY SMTT(20)
  <1>. HIDE DEF a
  <1>2. d \in Int /\ a < n * d + n /\ n * d <= a
    BY <1>1, SMTT(20)
  <1>. HIDE DEF d
  <1>3. /\ n * d = d * n /\ (d + 1) * n = d * n + n /\ (q + 1) * n = q * n + n
        /\ d * n \in Int
    BY <1>2, SMTT(20)
  <1>4. q * n < (d + 1) * n /\ d * n < (q + 1) * n
    BY <1>1, <1>2, <1>3
  <1>5. q < d + 1 /\ d < q + 1
    BY <1>2, <1>4, ProductReflects
  <1>. QED BY <1>2, <1>5 DEF d, a

\* A row-major index determines its column and its row.
LEMMA RowAndColumn ==
  ASSUME NEW w \in Nat, NEW y \in Nat, NEW x \in 0..w - 1
  PROVE  /\ (y * w + x) \div w = y
         /\ (y * w + x) % w = x
  BY SMTT(20)

LEMMA IndexInRange ==
  ASSUME NEW w \in Nat, NEW h \in Nat, NEW x \in 0..w - 1, NEW y \in 0..h - 1
  PROVE  y * w + x \in 0..w * h - 1
  <1>1. y * w <= (h - 1) * w
    BY ProductMonotone
  <1>2. (h - 1) * w = w * h - w
    BY SMT
  <1>. QED BY <1>1, <1>2

\* The tile of an index: both are on the map.
LEMMA CellOfIndex ==
  ASSUME NEW w \in Nat, NEW h \in Nat, NEW i \in 0..w * h - 1
  PROVE  i % w \in 0..w - 1 /\ i \div w \in 0..h - 1
  <1>1. w > 0
    <2>1. CASE w = 0
      BY <2>1
    <2>. QED BY <2>1
  <1>2. i = w * (i \div w) + (i % w) /\ i % w \in 0..w - 1 /\ i \div w \in Int
    BY <1>1
  <1>3. i \div w >= 0
    BY <1>1
  <1>4. i \div w < h
    <2>1. SUFFICES ASSUME h <= i \div w PROVE FALSE
      BY <1>2
    <2>2. h * w <= (i \div w) * w
      BY <2>1, <1>2, ProductMonotone
    <2>3. (i \div w) * w = w * (i \div w) /\ h * w = w * h
      BY <1>2
    <2>. QED BY <2>2, <2>3, <1>2
  <1>. QED BY <1>2, <1>3, <1>4

-----------------------------------------------------------------------------
(* Types *)

LEMMA RolledIsTile == \A id \in Nat : Rolled(id) \in Tile
  BY DEF Rolled, Tile

LEMMA GrainType ==
  /\ Grain \in Nat \ {0} /\ Rounding \in Nat /\ Rounding <= Grain * Grain
  /\ MinZoom \in Nat \ {0} /\ MaxZoom \in Nat /\ MinZoom <= Grain /\ Grain <= MaxZoom
  /\ 2 * MinZoom = Grain
  <1>1. Grain \in Nat \ {0} /\ Grain % 2 = 0
    BY WorldAssumption
  <1>2. Grain * Grain \in Nat
    BY <1>1, SMTT(20)
  <1>3. Rounding \in Nat /\ Rounding <= Grain * Grain
    BY <1>2, WorldAssumption
  <1>4. /\ MinZoom \in Nat \ {0} /\ MaxZoom \in Nat /\ MinZoom <= Grain /\ Grain <= MaxZoom
        /\ 2 * MinZoom = Grain
    BY <1>1, SMTT(20) DEF MinZoom, MaxZoom
  <1>. QED BY <1>1, <1>3, <1>4

LEMMA CameraType ==
  ASSUME TypeOK
  PROVE  /\ camera.x \in Int /\ camera.y \in Int
         /\ camera.zoom \in MinZoom..MaxZoom /\ camera.zoom \in Nat \ {0}
  <1>1. camera.x \in Int /\ camera.y \in Int /\ camera.zoom \in MinZoom..MaxZoom
    BY Zenon DEF TypeOK, Camera
  <1>2. camera.zoom \in Nat \ {0}
    BY <1>1, GrainType
  <1>. QED BY <1>1, <1>2

LEMMA CameraPanned ==
  ASSUME TypeOK, NEW x, NEW y
  PROVE  [camera EXCEPT !.x = x, !.y = y] = [x |-> x, y |-> y, zoom |-> camera.zoom]
  <1>1. camera = [x |-> camera.x, y |-> camera.y, zoom |-> camera.zoom]
    BY DEF TypeOK, Camera
  <1>. DEFINE panned == [camera EXCEPT !.x = x]
  <1>2. panned = [x |-> x, y |-> camera.y, zoom |-> camera.zoom]
    BY <1>1
  <1>3. [camera EXCEPT !.x = x, !.y = y] = [panned EXCEPT !.y = y]
    BY DEF panned
  <1>. HIDE DEF panned
  <1>4. [panned EXCEPT !.y = y] = [x |-> x, y |-> y, zoom |-> camera.zoom]
    BY <1>2
  <1>. QED BY <1>3, <1>4

LEMMA CameraZoomed ==
  ASSUME TypeOK, NEW z
  PROVE  [camera EXCEPT !.zoom = z] = [x |-> camera.x, y |-> camera.y, zoom |-> z]
  <1>1. camera = [x |-> camera.x, y |-> camera.y, zoom |-> camera.zoom]
    BY DEF TypeOK, Camera
  <1>. QED BY <1>1

LEMMA CameraRecord ==
  \A x \in Int, y \in Int, z \in MinZoom..MaxZoom : [x |-> x, y |-> y, zoom |-> z] \in Camera
  BY Zenon DEF Camera

LEMMA GenerateType ==
  ASSUME TypeOK, NEW s \in Size, Generate(s[1], s[2])
  PROVE  TypeOK'
  <1>. DEFINE w == s[1]
              h == s[2]
  <1>1. w \in Nat /\ h \in Nat
    BY WorldAssumption
  <1>. HIDE DEF w, h
  <1>2. Generate(w, h)
    BY DEF w, h
  <1>3. PICK roll \in [{p \in (0..w - 1) \X (0..h - 1) : ~OnBorder(p[1], p[2], w, h)} -> Roll] :
          m_tiles' = [i \in 0..w * h - 1 |->
                        Rolled(IF OnBorder(i % w, i \div w, w, h)
                               THEN WALL ELSE roll[<<i % w, i \div w>>])]
    BY <1>2 DEF Generate
  <1>4. ASSUME NEW i \in 0..w * h - 1
        PROVE  Rolled(IF OnBorder(i % w, i \div w, w, h)
                      THEN WALL ELSE roll[<<i % w, i \div w>>]) \in Tile
    <2>1. i % w \in 0..w - 1 /\ i \div w \in 0..h - 1
      BY <1>1, CellOfIndex
    <2>2. CASE OnBorder(i % w, i \div w, w, h)
      BY <2>2, RolledIsTile DEF WALL
    <2>3. CASE ~OnBorder(i % w, i \div w, w, h)
      <3>1. <<i % w, i \div w>> \in {p \in (0..w - 1) \X (0..h - 1) : ~OnBorder(p[1], p[2], w, h)}
        BY <2>1, <2>3
      <3>2. roll[<<i % w, i \div w>>] \in Nat
        BY <3>1, WorldAssumption
      <3>. QED BY <2>3, <3>2, RolledIsTile
    <2>. QED BY <2>2, <2>3
  <1>5. m_tiles' \in [0..w * h - 1 -> Tile]
    BY <1>3, <1>4
  <1>. QED BY <1>1, <1>2, <1>5 DEF Generate, TypeOK

LEMMA PanType ==
  ASSUME TypeOK, NEW dx \in Int, NEW dy \in Int, Pan(dx, dy)
  PROVE  TypeOK'
  <1>. DEFINE x == camera.x + dx
              y == camera.y + dy
  <1>1. camera' = [camera EXCEPT !.x = x, !.y = y]
    BY DEF Pan
  <1>2. x \in Int /\ y \in Int
    BY CameraType
  <1>. HIDE DEF x, y
  <1>3. camera' = [x |-> x, y |-> y, zoom |-> camera.zoom]
    BY <1>1, CameraPanned
  <1>4. camera' \in Camera
    BY <1>2, <1>3, CameraType, CameraRecord
  <1>. QED BY <1>4 DEF Pan, TypeOK

\* The map always has a tile at every index, walls and floors of any size, and
\* the camera keeps a zoom between one half and two.
THEOREM WorldTypeCorrectness == Spec => []TypeOK
  <1>1. Init => TypeOK
    <2>1. 640 * Grain \in Int /\ 360 * Grain \in Int /\ Grain \in MinZoom..MaxZoom
      BY GrainType
    <2>. QED BY <2>1 DEF Init, TypeOK, Camera
  <1>2. TypeOK /\ [Next]_vars => TypeOK'
    <2>. SUFFICES ASSUME TypeOK, [Next]_vars PROVE TypeOK'
      OBVIOUS
    <2>1. ASSUME NEW s \in Size, Generate(s[1], s[2])
          PROVE  TypeOK'
      BY <2>1, GenerateType
    <2>2. ASSUME NEW x \in 0..m_width, NEW y \in 0..m_height, NEW tile \in Placed,
                 SetTile(x, y, tile)
          PROVE  TypeOK'
      BY <2>2, WorldAssumption DEF SetTile, TypeOK, Tile
    <2>3. ASSUME NEW t \in Texture, LoadTileset(t[1], t[2])
          PROVE  TypeOK'
      <3>1. t[1] \in Nat /\ t[2] \in Nat
        BY WorldAssumption
      <3>2. t[1] \div 64 \in Nat /\ t[2] \div 32 \in Nat
        BY <3>1
      <3>3. (t[1] \div 64) * (t[2] \div 32) \in Nat
        BY <3>2
      <3>. QED BY <2>3, <3>3 DEF LoadTileset, TypeOK, TILE_WIDTH, TILE_HEIGHT
    <2>4. ASSUME NEW s \in PanStep, NEW d \in {-1, 0, 1} \X {-1, 0, 1},
                 Pan(d[1] * s, d[2] * s)
          PROVE  TypeOK'
      <3>1. s \in Int /\ d[1] \in Int /\ d[2] \in Int
        BY WorldAssumption
      <3>2. d[1] * s \in Int /\ d[2] * s \in Int
        BY <3>1
      <3>. DEFINE dx == d[1] * s
                  dy == d[2] * s
      <3>3. Pan(dx, dy) /\ dx \in Int /\ dy \in Int
        BY <2>4, <3>2
      <3>. HIDE DEF dx, dy
      <3>. QED BY <3>3, PanType
    <2>5. ASSUME NEW s \in ZoomStep, Zoom(s) \/ Zoom(-s)
          PROVE  TypeOK'
      <3>1. s \in Int /\ camera.zoom \in Int
        BY WorldAssumption, CameraType
      <3>2. /\ Clamp(camera.zoom + s, MinZoom, MaxZoom) \in MinZoom..MaxZoom
            /\ Clamp(camera.zoom + (-s), MinZoom, MaxZoom) \in MinZoom..MaxZoom
        BY <3>1, GrainType DEF Clamp
      <3>3. PICK z \in MinZoom..MaxZoom : camera' = [camera EXCEPT !.zoom = z]
        BY <2>5, <3>2 DEF Zoom
      <3>4. camera' \in Camera
        <4>1. camera' = [x |-> camera.x, y |-> camera.y, zoom |-> z]
          BY <3>3, CameraZoomed
        <4>. QED BY <4>1, CameraType, CameraRecord
      <3>. QED BY <2>5, <3>4 DEF Zoom, TypeOK
    <2>6. CASE UNCHANGED vars
      BY <2>6 DEF vars, TypeOK
    <2>. QED BY <2>1, <2>2, <2>3, <2>4, <2>5, <2>6 DEF Next
  <1>. QED BY <1>1, <1>2, PTL DEF Spec

-----------------------------------------------------------------------------
(* Coordinates *)

\* How much of the screen, in its unit, a pixel of the map takes.
Scale == Grain * camera.zoom

LEMMA ScaleType ==
  ASSUME TypeOK
  PROVE  /\ Scale \in Nat \ {0} /\ Rounding <= 2 * Scale
         /\ camera.x * camera.zoom \in Int /\ camera.y * camera.zoom \in Int
  <1>. DEFINE z == camera.zoom
  <1>1. z \in Nat \ {0} /\ MinZoom <= z /\ camera.x \in Int /\ camera.y \in Int
    BY CameraType, GrainType
  <1>2. camera.x * z \in Int /\ camera.y * z \in Int
    BY <1>1
  <1>. HIDE DEF z
  <1>3. Grain <= 2 * z
    BY <1>1, GrainType
  <1>4. Grain * Grain <= (2 * z) * Grain
    BY <1>1, <1>3, GrainType, ProductMonotone
  <1>5. Grain * z \in Nat \ {0} /\ (2 * z) * Grain = 2 * (Grain * z) /\ Grain * Grain \in Nat
    BY <1>1, GrainType, SMTT(20)
  <1>6. Rounding <= 2 * (Grain * z)
    BY <1>4, <1>5, GrainType
  <1>. QED BY <1>2, <1>5, <1>6 DEF Scale, z

\* The two conversions by their numbers.
LEMMA Projection ==
  ASSUME TypeOK, NEW x \in Int, NEW y \in Int, NEW pos \in WorldToScreen(x, y, camera)
  PROVE  /\ pos.x \in Int /\ pos.y \in Int
         /\ \E e \in Int : /\ -Rounding <= e /\ e <= Rounding
                         /\ pos.x + camera.x * camera.zoom = (x - y) * 32 * Scale + e
         /\ \E e \in Int : /\ -Rounding <= e /\ e <= Rounding
                         /\ pos.y + camera.y * camera.zoom = (x + y) * 16 * Scale + e
  <1>. DEFINE z == camera.zoom
              a == (x - y) * 32
              b == (x + y) * 16
  <1>1. z \in Nat \ {0} /\ camera.x \in Int /\ camera.y \in Int /\ a \in Int /\ b \in Int
        /\ Grain \in Nat /\ Rounding \in Nat
    BY CameraType, GrainType
  <1>2. /\ pos.x \in Floats((a * Grain - camera.x) * z)
        /\ pos.y \in Floats((b * Grain - camera.y) * z)
    BY DEF WorldToScreen, TILE_WIDTH, TILE_HEIGHT
  <1>. HIDE DEF z, a, b
  <1>3. \A n \in Int, c \in Int :
          (n * Grain - c) * z \in Int /\ (n * Grain - c) * z + c * z = n * (Grain * z)
    BY <1>1, SMTT(20)
  <1>4. \A n \in Int, c \in Int : n * (Grain * z) \in Int /\ c * z \in Int
    BY <1>1, SMTT(20)
  <1>5. ASSUME NEW n \in Int, NEW c \in Int, NEW s \in Floats((n * Grain - c) * z)
        PROVE  /\ s \in Int
               /\ \E e \in Int : -Rounding <= e /\ e <= Rounding /\ s + c * z = n * (Grain * z) + e
    <2>. DEFINE m == (n * Grain - c) * z
                k == n * (Grain * z)
                l == c * z
    <2>1. m \in Int /\ k \in Int /\ l \in Int /\ m + l = k
      BY <1>3, <1>4
    <2>2. s \in m - Rounding .. m + Rounding
      BY DEF Floats
    <2>. HIDE DEF m, k, l
    <2>3. s \in Int /\ s - m \in Int /\ -Rounding <= s - m /\ s - m <= Rounding
          /\ s + l = k + (s - m)
      BY <1>1, <2>1, <2>2
    <2>4. s \in Int /\ \E e \in Int : -Rounding <= e /\ e <= Rounding /\ s + l = k + e
      BY <2>3
    <2>. QED BY <2>4 DEF k, l
  <1>. QED BY <1>1, <1>2, <1>5 DEF Scale, z, a, b

\* Where screenToWorld takes the floor of a number, only the quotient counts.
LEMMA QuotientsOfFloats ==
  ASSUME NEW q \in Int, NEW tile \in Nat \ {0}, NEW n \in Int,
         q * tile <= n - Rounding, n + Rounding < q * tile + tile
  PROVE  {m \div tile : m \in Floats(n)} = {q}
  <1>1. q * tile \in Int /\ Rounding \in Nat
    BY GrainType, SMTT(20)
  <1>2. ASSUME NEW m \in Floats(n) PROVE m \div tile = q
    <2>. DEFINE r == m - q * tile
    <2>1. m \in Int /\ r \in 0..tile - 1
      BY <1>1 DEF Floats
    <2>2. m = q * tile + r
      BY <1>1, <2>1
    <2>. HIDE DEF r
    <2>3. (q * tile + r) \div tile = q
      BY <2>1, QuotientOfMultiple
    <2>. QED BY <2>2, <2>3
  <1>3. n \in Floats(n)
    BY <1>1 DEF Floats
  <1>. QED BY <1>2, <1>3

\* screenToWorld by its numbers.
LEMMA Inversion ==
  ASSUME TypeOK, NEW sx \in Int, NEW sy \in Int
  PROVE  ScreenToWorld(sx, sy, camera) =
           [x : {m \div (64 * Scale) :
                   m \in Floats((sx + camera.x * camera.zoom) + 2 * (sy + camera.y * camera.zoom))},
            y : {m \div (64 * Scale) :
                   m \in Floats(2 * (sy + camera.y * camera.zoom) - (sx + camera.x * camera.zoom))}]
  <1>1. TILE_WIDTH * Grain * camera.zoom = 64 * Scale
    BY CameraType, GrainType, SMTT(20) DEF TILE_WIDTH, Scale
  <1>2. TILE_WIDTH \div TILE_HEIGHT = 2
    BY DEF TILE_WIDTH, TILE_HEIGHT
  <1>. QED BY <1>1, <1>2, Zenon DEF ScreenToWorld

LEMMA RecordOfSingletons ==
  ASSUME NEW a, NEW b
  PROVE  [x : {a}, y : {b}] = {[x |-> a, y |-> b]}
  <1>1. ASSUME NEW r \in [x : {a}, y : {b}] PROVE r = [x |-> a, y |-> b]
    OBVIOUS
  <1>2. [x |-> a, y |-> b] \in [x : {a}, y : {b}]
    OBVIOUS
  <1>. QED BY <1>1, <1>2, Zenon

LEMMA PointIsPicked ==
  ASSUME TypeOK, NEW x \in Int, NEW y \in Int, NEW pos \in WorldToScreen(x, y, camera),
         NEW dx \in Int, NEW dy \in Int,
         4 * Rounding <= dx + 2 * dy, dx + 2 * dy < 64 * Scale - 4 * Rounding,
         4 * Rounding <= 2 * dy - dx, 2 * dy - dx < 64 * Scale - 4 * Rounding
  PROVE  ScreenToWorld(pos.x + dx, pos.y + dy, camera) = {[x |-> x, y |-> y]}
  <1>. DEFINE tile == 64 * Scale
              cx == camera.x * camera.zoom
              cy == camera.y * camera.zoom
              wx == (pos.x + dx) + cx
              wy == (pos.y + dy) + cy
  <1>1. PICK e \in Int : /\ -Rounding <= e /\ e <= Rounding
                         /\ pos.x + cx = (x - y) * 32 * Scale + e
    BY Projection
  <1>2. PICK f \in Int : /\ -Rounding <= f /\ f <= Rounding
                         /\ pos.y + cy = (x + y) * 16 * Scale + f
    BY Projection
  <1>3. /\ pos.x \in Int /\ pos.y \in Int /\ Scale \in Nat \ {0} /\ Rounding \in Nat
        /\ cx \in Int /\ cy \in Int
    BY Projection, ScaleType, GrainType
  <1>4. tile \in Nat \ {0} /\ wx \in Int /\ wy \in Int
    BY <1>3
  <1>5. /\ (x - y) * 32 * Scale \in Int /\ (x + y) * 16 * Scale \in Int
        /\ (x - y) * 32 * Scale + 2 * ((x + y) * 16 * Scale) = x * tile
        /\ 2 * ((x + y) * 16 * Scale) - (x - y) * 32 * Scale = y * tile
        /\ x * tile \in Int /\ y * tile \in Int
    BY <1>3, SMTT(20)
  <1>. DEFINE a == (x - y) * 32 * Scale
              b == (x + y) * 16 * Scale
              p == x * tile
              q == y * tile
              n == wx + 2 * wy
              k == 2 * wy - wx
  <1>6. /\ a \in Int /\ b \in Int /\ p \in Int /\ q \in Int
        /\ a + 2 * b = p /\ 2 * b - a = q
        /\ pos.x + cx = a + e /\ pos.y + cy = b + f
        /\ dx + 2 * dy < tile - 4 * Rounding /\ 2 * dy - dx < tile - 4 * Rounding
    BY <1>1, <1>2, <1>5
  <1>7. ScreenToWorld(pos.x + dx, pos.y + dy, camera) =
          [x : {m \div tile : m \in Floats(n)}, y : {m \div tile : m \in Floats(k)}]
    <2>1. pos.x + dx \in Int /\ pos.y + dy \in Int
      BY <1>3
    <2>. QED BY <2>1, Inversion, Zenon
  <1>. HIDE DEF a, b, p, q, tile, cx, cy
  <1>8. n = p + (e + 2 * f) + (dx + 2 * dy) /\ k = q + (2 * f - e) + (2 * dy - dx)
    BY <1>1, <1>2, <1>3, <1>6
  <1>9. n \in Int /\ k \in Int
    BY <1>4
  <1>. HIDE DEF n, k, wx, wy
  <1>10. /\ p <= n - Rounding /\ n + Rounding < p + tile
         /\ q <= k - Rounding /\ k + Rounding < q + tile
    BY <1>1, <1>2, <1>3, <1>4, <1>6, <1>8
  <1>11. {m \div tile : m \in Floats(n)} = {x}
    <2>1. x * tile <= n - Rounding /\ n + Rounding < x * tile + tile
      BY <1>10 DEF p
    <2>. QED BY <1>4, <1>9, <2>1, QuotientsOfFloats, Zenon
  <1>12. {m \div tile : m \in Floats(k)} = {y}
    <2>1. y * tile <= k - Rounding /\ k + Rounding < y * tile + tile
      BY <1>10 DEF q
    <2>. QED BY <1>4, <1>9, <2>1, QuotientsOfFloats, Zenon
  <1>. QED BY <1>7, <1>11, <1>12, RecordOfSingletons, Zenon

\* Whatever the camera and however the floats are rounded, a point in the diamond
\* of a tile is taken for that tile, up to its tips but for four times the
\* rounding: that of worldToScreen, once in x and twice in y, and of the sum.
THEOREM PickIsInverse == Spec => []PickInvertsProjection
  <1>1. TypeOK => PickInvertsProjection
    <2>. SUFFICES ASSUME TypeOK, NEW p \in OnMap, NEW d \in Tips(camera.zoom),
                         NEW pos \in WorldToScreen(p[1], p[2], camera)
                  PROVE  ScreenToWorld(pos.x + d[1], pos.y + d[2], camera) = {[x |-> p[1], y |-> p[2]]}
      BY DEF PickInvertsProjection
    <2>1. p[1] \in Int /\ p[2] \in Int
      BY DEF OnMap, TypeOK
    <2>2. Scale \in Nat \ {0} /\ Rounding \in Nat /\ Rounding <= 2 * Scale
      BY ScaleType, GrainType
    <2>3. TILE_HEIGHT * Grain * camera.zoom = 32 * Scale
      BY CameraType, GrainType, SMTT(20) DEF TILE_HEIGHT, Scale
    <2>4. d \in {<<0, 2 * Rounding>>, <<0, 32 * Scale - 2 * Rounding - 1>>,
                 <<32 * Scale - 4 * Rounding - 1, (32 * Scale) \div 2>>,
                 <<-(32 * Scale - 4 * Rounding - 1), (32 * Scale) \div 2>>}
      BY <2>3 DEF Tips
    <2>5. (32 * Scale) \div 2 = 16 * Scale
      BY <2>2
    <2>6. /\ d[1] \in Int /\ d[2] \in Int
          /\ 4 * Rounding <= d[1] + 2 * d[2] /\ d[1] + 2 * d[2] < 64 * Scale - 4 * Rounding
          /\ 4 * Rounding <= 2 * d[2] - d[1] /\ 2 * d[2] - d[1] < 64 * Scale - 4 * Rounding
      BY <2>2, <2>4, <2>5
    <2>. QED BY <2>1, <2>6, PointIsPicked
  <1>. QED BY <1>1, WorldTypeCorrectness, PTL

\* Tiles whose sprites overlap, or touch, are at most two apart; to be drawn
\* first the one behind must not have the greater row.
LEMMA NeighbourBehind ==
  ASSUME NEW a \in Int, NEW b \in Int, NEW c \in Int, NEW d \in Int,
         (a - b) * 32 - (c - d) * 32 < 96,
         (c - d) * 32 - (a - b) * 32 < 96,
         a + b < c + d,
         (c + d) * 16 - (a + b) * 16 < 48
  PROVE  b < d \/ (b = d /\ a < c)
  OBVIOUS

\* What the positions of two tiles on the screen say of the tiles.
LEMMA NearOnScreen ==
  ASSUME NEW a \in Int, NEW b \in Int, NEW e \in Int, NEW f \in Int, NEW size \in Nat,
         NEW s \in Nat \ {0},
         e <= 2 * s, -(2 * s) <= e, f <= 2 * s, -(2 * s) <= f,
         (a * s + e) - (b * s + f) < size * s
  PROVE  a - b < size + 4
  <1>1. a * s \in Int /\ b * s \in Int /\ size * s \in Int
        /\ (a - b) * s = a * s - b * s /\ (size + 4) * s = size * s + 4 * s
    BY SMTT(20)
  <1>2. (a - b) * s < (size + 4) * s
    BY <1>1
  <1>. QED BY <1>2, ProductReflects

\* Whatever the zoom and the rounding, sprites overlap only of tiles that are at
\* most two rows or columns apart on the screen, and there the order of depth is
\* the order of the rows.
THEOREM DrawnBackToFront == Spec => []BackToFront
  <1>1. TypeOK => BackToFront
    <2>. SUFFICES ASSUME TypeOK, NEW p \in OnMap, NEW q \in OnMap, Behind(p, q), Overlap(p, q)
                  PROVE  DrawnBefore(p, q)
      BY DEF BackToFront
    <2>. DEFINE ax == (p[1] - p[2]) * 32
                bx == (q[1] - q[2]) * 32
                ay == (p[1] + p[2]) * 16
                by == (q[1] + q[2]) * 16
                cx == camera.x * camera.zoom
                cy == camera.y * camera.zoom
    <2>1. p[1] \in Int /\ p[2] \in Int /\ q[1] \in Int /\ q[2] \in Int
      BY DEF OnMap, TypeOK
    <2>2. /\ Scale \in Nat \ {0} /\ Rounding \in Nat /\ Rounding <= 2 * Scale
          /\ cx \in Int /\ cy \in Int
      BY ScaleType, GrainType
    <2>3. PICK a \in WorldToScreen(p[1], p[2], camera), b \in WorldToScreen(q[1], q[2], camera) :
            /\ a.x - b.x < 64 * Scale /\ b.x - a.x < 64 * Scale
            /\ a.y - b.y < 32 * Scale /\ b.y - a.y < 32 * Scale
      <3>1. /\ TILE_WIDTH * Grain * camera.zoom = 64 * Scale
            /\ TILE_HEIGHT * Grain * camera.zoom = 32 * Scale
        BY CameraType, GrainType, SMTT(20) DEF TILE_WIDTH, TILE_HEIGHT, Scale
      <3>. QED BY <3>1 DEF Overlap
    <2>4. a.x \in Int /\ a.y \in Int /\ b.x \in Int /\ b.y \in Int
      BY <2>1, Projection
    <2>5. PICK ea \in Int : -Rounding <= ea /\ ea <= Rounding /\ a.x + cx = ax * Scale + ea
      BY <2>1, Projection
    <2>6. PICK eb \in Int : -Rounding <= eb /\ eb <= Rounding /\ b.x + cx = bx * Scale + eb
      BY <2>1, Projection
    <2>7. PICK fa \in Int : -Rounding <= fa /\ fa <= Rounding /\ a.y + cy = ay * Scale + fa
      BY <2>1, Projection
    <2>8. PICK fb \in Int : -Rounding <= fb /\ fb <= Rounding /\ b.y + cy = by * Scale + fb
      BY <2>1, Projection
    <2>9. ax \in Int /\ bx \in Int /\ ay \in Int /\ by \in Int
      BY <2>1
    <2>. HIDE DEF ax, bx, ay, by, cx, cy
    <2>10. /\ (ax * Scale + ea) - (bx * Scale + eb) < 64 * Scale
           /\ (bx * Scale + eb) - (ax * Scale + ea) < 64 * Scale
           /\ (by * Scale + fb) - (ay * Scale + fa) < 32 * Scale
      <3>1. /\ (ax * Scale + ea) - (bx * Scale + eb) = a.x - b.x
            /\ (bx * Scale + eb) - (ax * Scale + ea) = b.x - a.x
        BY <2>2, <2>4, <2>5, <2>6
      <3>2. (by * Scale + fb) - (ay * Scale + fa) = b.y - a.y
        BY <2>2, <2>4, <2>7, <2>8
      <3>. QED BY <2>3, <3>1, <3>2
    <2>11. /\ ea <= 2 * Scale /\ -(2 * Scale) <= ea /\ eb <= 2 * Scale /\ -(2 * Scale) <= eb
           /\ fa <= 2 * Scale /\ -(2 * Scale) <= fa /\ fb <= 2 * Scale /\ -(2 * Scale) <= fb
      BY <2>2, <2>5, <2>6, <2>7, <2>8
    <2>12. ax - bx < 64 + 4
      BY <2>2, <2>9, <2>10, <2>11, NearOnScreen
    <2>13. bx - ax < 64 + 4
      BY <2>2, <2>9, <2>10, <2>11, NearOnScreen
    <2>14. by - ay < 32 + 4
      BY <2>2, <2>9, <2>10, <2>11, NearOnScreen
    <2>15. /\ (p[1] - p[2]) * 32 - (q[1] - q[2]) * 32 < 96
           /\ (q[1] - q[2]) * 32 - (p[1] - p[2]) * 32 < 96
           /\ p[1] + p[2] < q[1] + q[2]
           /\ (q[1] + q[2]) * 16 - (p[1] + p[2]) * 16 < 48
      BY <2>9, <2>12, <2>13, <2>14 DEF ax, bx, ay, by, Behind
    <2>16. p[2] < q[2] \/ (p[2] = q[2] /\ p[1] < q[1])
      BY <2>1, <2>15, NeighbourBehind
    <2>. QED BY <2>16 DEF DrawnBefore
  <1>. QED BY <1>1, WorldTypeCorrectness, PTL

-----------------------------------------------------------------------------
(* The map *)

LEMMA CellsDiffer ==
  ASSUME TypeOK, NEW p \in OnMap, NEW q \in OnMap, Index(p[1], p[2]) = Index(q[1], q[2])
  PROVE  p = q
  <1>. DEFINE w == m_width
              h == m_height
  <1>1. /\ w \in Nat
        /\ p \in (0..w - 1) \X (0..h - 1) /\ q \in (0..w - 1) \X (0..h - 1)
    BY DEF TypeOK, OnMap
  <1>2. /\ p[1] \in 0..w - 1 /\ q[1] \in 0..w - 1
        /\ p[2] \in Nat /\ q[2] \in Nat
    BY <1>1 DEF TypeOK
  <1>3. p[2] * w + p[1] = q[2] * w + q[1]
    BY DEF Index
  <1>4. /\ (p[2] * w + p[1]) \div w = p[2] /\ (p[2] * w + p[1]) % w = p[1]
        /\ (q[2] * w + q[1]) \div w = q[2] /\ (q[2] * w + q[1]) % w = q[1]
    BY <1>2, <1>1, RowAndColumn
  <1>5. p[1] = q[1] /\ p[2] = q[2]
    BY <1>3, <1>4
  <1>. QED BY <1>1, <1>5

\* setTile changes the tile it is called with and no other, on a map of any
\* width and height.
THEOREM PlacementIsLocal == Spec => OneTileAtATime
  <1>. DEFINE A == \/ \E s \in Size : Generate(s[1], s[2])
                   \/ \A p \in OnMap : GetTile(p[1], p[2])' # GetTile(p[1], p[2]) =>
                        \A q \in OnMap \ {p} : GetTile(q[1], q[2])' = GetTile(q[1], q[2])
  <1>1. TypeOK /\ [Next]_vars => [A]_vars
    <2>. SUFFICES ASSUME TypeOK, Next, ~\E s \in Size : Generate(s[1], s[2])
                  PROVE  A
      BY DEF vars
    <2>1. CASE UNCHANGED <<m_width, m_height, m_tiles>>
      BY <2>1 DEF GetTile, InBounds, Index
    <2>2. ASSUME NEW x, NEW y, NEW tile, SetTile(x, y, tile)
          PROVE  A
      <3>1. ASSUME NEW p \in OnMap, GetTile(p[1], p[2])' # GetTile(p[1], p[2])
            PROVE  Index(p[1], p[2]) = Index(x, y)
        <4>1. SUFFICES ASSUME p[2] * m_width + p[1] # y * m_width + x PROVE FALSE
          BY DEF Index
        <4>2. m_tiles'[p[2] * m_width + p[1]] = m_tiles[p[2] * m_width + p[1]]
          BY <2>2, <4>1 DEF SetTile, Index, TypeOK
        <4>. QED BY <2>2, <3>1, <4>2 DEF SetTile, GetTile, InBounds, Index
      <3>. QED BY <3>1, CellsDiffer
    <2>. QED BY <2>1, <2>2 DEF Next, LoadTileset, Pan, Zoom
  <1>2. Spec => []TypeOK
    BY WorldTypeCorrectness
  <1>. QED BY <1>1, <1>2, PTL DEF Spec, OneTileAtATime

LEMMA BorderIsWall ==
  ASSUME NEW w \in Nat, NEW h \in Nat, Generate(w, h),
         NEW x \in 0..w - 1, NEW y \in 0..h - 1, OnBorder(x, y, w, h)
  PROVE  ~m_tiles'[y * w + x].walkable
  <1>. DEFINE i == y * w + x
  <1>1. i \in 0..w * h - 1
    BY IndexInRange
  <1>2. i \div w = y /\ i % w = x
    BY RowAndColumn
  <1>. HIDE DEF i
  <1>3. OnBorder(i % w, i \div w, w, h)
    BY <1>2
  <1>4. PICK roll : m_tiles' = [j \in 0..w * h - 1 |->
                                 Rolled(IF OnBorder(j % w, j \div w, w, h)
                                        THEN WALL ELSE roll[<<j % w, j \div w>>])]
    BY DEF Generate
  <1>5. m_tiles'[i] = Rolled(WALL)
    <2>1. m_tiles'[i] = Rolled(IF OnBorder(i % w, i \div w, w, h)
                               THEN WALL ELSE roll[<<i % w, i \div w>>])
      BY <1>1, <1>4
    <2>. QED BY <1>3, <2>1
  <1>6. Rolled(WALL).walkable = FALSE
    BY DEF Rolled
  <1>. QED BY <1>5, <1>6 DEF i

\* A map of any size that generate has just made cannot be walked out of.
THEOREM GeneratedMapIsClosed == Spec => NewMapIsClosed
  <1>. DEFINE A == \A s \in Size : Generate(s[1], s[2]) =>
                     \A p \in OnMap' : IsWalkable(p[1], p[2])' => Neighbours(p) \subseteq OnMap'
  <1>1. A
    <2>. SUFFICES ASSUME NEW s \in Size, Generate(s[1], s[2]),
                         NEW p \in OnMap', IsWalkable(p[1], p[2])'
                  PROVE  Neighbours(p) \subseteq OnMap'
      OBVIOUS
    <2>. DEFINE w == s[1]
                h == s[2]
                i == p[2] * w + p[1]
    <2>1. w \in Nat /\ h \in Nat
      BY WorldAssumption
    <2>2. m_width' = w /\ m_height' = h
      BY DEF Generate
    <2>3. p[1] \in 0..w - 1 /\ p[2] \in 0..h - 1
      BY <2>2 DEF OnMap
    <2>4. ~OnBorder(p[1], p[2], w, h)
      BY <2>1, <2>2, <2>3, BorderIsWall DEF IsWalkable, GetTile, Index
    <2>. HIDE DEF w, h
    <2>5. p[1] \in 1..w - 2 /\ p[2] \in 1..h - 2
      BY <2>1, <2>3, <2>4 DEF OnBorder
    <2>6. OnMap' = (0..w - 1) \X (0..h - 1)
      BY <2>2 DEF OnMap
    <2>. QED BY <2>1, <2>5, <2>6 DEF Neighbours
  <1>. QED BY <1>1, PTL DEF Spec, NewMapIsClosed

-----------------------------------------------------------------------------
(* What render leaves out *)

\* What render means by "rough culling bounds (expand a bit to avoid edge
\* artifacts)": they leave out no tile with a graphic that is in the window.
VisibleTilesAreDrawn ==
  \A p \in OnMap :
    /\ HasGraphic(m_tiles[Index(p[1], p[2])])
    /\ \A pos \in WorldToScreen(p[1], p[2], camera) : Near(pos, 0)
    => p \in Drawn

\* They do leave out such tiles, on the map of main, in its window and before
\* the camera has moved, however the floats are rounded: the bounds are the tiles
\* at the top left and at the bottom right of the window, and rows are least at
\* the top right of it and greatest at the bottom left.  The tile in column 35 of
\* row 10 belongs in the left half of the window; render stops at row 5.
THEOREM CullingLeavesOutTiles ==
  ASSUME WinW = 1280, WinH = 720,
         camera = [x |-> 640 * Grain, y |-> 360 * Grain, zoom |-> Grain],
         m_width = 40, m_height = 40, HasGraphic(m_tiles[Index(35, 10)])
  PROVE  ~VisibleTilesAreDrawn
  <1>. DEFINE p == <<35, 10>>
              s == Grain * Grain
  <1>1. p \in OnMap /\ p[1] = 35 /\ p[2] = 10
    BY DEF OnMap
  <1>2. /\ s \in Nat \ {0} /\ Grain \in Nat \ {0} /\ Rounding \in Nat /\ Rounding <= s
        /\ \A n \in Int : n * Grain * Grain = n * s
    BY GrainType, SMTT(20)
  <1>3. ASSUME NEW pos \in WorldToScreen(35, 10, camera) PROVE Near(pos, 0)
    <2>1. /\ pos.x \in Floats(((35 - 10) * 32 * Grain - 640 * Grain) * Grain)
          /\ pos.y \in Floats(((35 + 10) * 16 * Grain - 360 * Grain) * Grain)
      BY DEF WorldToScreen, TILE_WIDTH, TILE_HEIGHT
    <2>2. /\ ((35 - 10) * 32 * Grain - 640 * Grain) * Grain = 160 * s
          /\ ((35 + 10) * 16 * Grain - 360 * Grain) * Grain = 360 * s
      BY <1>2, SMTT(20)
    <2>3. Pixels(-0) = 0 /\ Pixels(WinW + 0) = 1280 * s /\ Pixels(WinH + 0) = 720 * s
      BY <1>2 DEF Pixels
    <2>. HIDE DEF s
    <2>4. pos.x \in 160 * s - Rounding .. 160 * s + Rounding
          /\ pos.y \in 360 * s - Rounding .. 360 * s + Rounding
      BY <2>1, <2>2 DEF Floats
    <2>5. pos.x \in 0 .. 1280 * s /\ pos.y \in 0 .. 720 * s
      BY <1>2, <2>4
    <2>. QED BY <2>3, <2>5 DEF Near
  <1>4. ASSUME NEW maxTile \in MaxTile PROVE maxTile.y = 5
    <2>1. /\ Pixels(WinW + 100) = 1380 * s /\ Pixels(WinH + 100) = 820 * s
          /\ 640 * Grain * Grain = 640 * s /\ 360 * Grain * Grain = 360 * s
          /\ 64 * Grain * Grain = 64 * s
      BY <1>2 DEF Pixels
    <2>2. maxTile.y \in {n \div (64 * s) : n \in Floats(2 * (820 * s + 360 * s) - (1380 * s + 640 * s))}
      BY <2>1 DEF MaxTile, ScreenToWorld, TILE_WIDTH, TILE_HEIGHT
    <2>. HIDE DEF s
    <2>3. 2 * (820 * s + 360 * s) - (1380 * s + 640 * s) = 340 * s
      BY <1>2
    <2>. DEFINE tile == 64 * s
                m == 340 * s
    <2>4. tile \in Nat \ {0} /\ m \in Int /\ 5 * tile <= m - Rounding /\ m + Rounding < 5 * tile + tile
      BY <1>2
    <2>5. maxTile.y \in {n \div tile : n \in Floats(m)}
      BY <2>2, <2>3
    <2>. HIDE DEF tile, m
    <2>6. {n \div tile : n \in Floats(m)} = {5}
      <3>1. 5 \in Int
        OBVIOUS
      <3>. QED BY <2>4, <3>1, QuotientsOfFloats, Zenon
    <2>. QED BY <2>5, <2>6
  <1>5. ASSUME NEW minTile \in MinTile, NEW maxTile \in MaxTile PROVE p \notin LookedAt(minTile, maxTile)
    <2>1. maxTile.y = 5
      BY <1>4
    <2>2. minTile.y \in Int
      <3>1. minTile.y \in {n \div (64 * Grain * Grain) :
                             n \in Floats(2 * (Pixels(-100) + 360 * Grain * Grain)
                                           - (Pixels(-100) + 640 * Grain * Grain))}
        BY DEF MinTile, ScreenToWorld, TILE_WIDTH, TILE_HEIGHT
      <3>2. \A n \in Int : n * Grain * Grain \in Int /\ 64 * Grain * Grain \in Nat \ {0}
        BY <1>2
      <3>3. Pixels(-100) \in Int
        BY <3>2 DEF Pixels
      <3>. QED BY <1>2, <3>1, <3>2, <3>3 DEF Floats
    <2>. QED BY <1>1, <2>1, <2>2 DEF LookedAt
  <1>. QED BY <1>1, <1>3, <1>5 DEF VisibleTilesAreDrawn, Drawn

LEMMA QuotientMonotone ==
  ASSUME NEW a \in Int, NEW b \in Int, NEW n \in Nat \ {0}, a <= b
  PROVE  a \div n <= b \div n
  <1>. DEFINE q == a \div n
              r == b \div n
  <1>1. q \in Int /\ r \in Int /\ a < 0 + n * q + n /\ n * q <= a /\ b < n * r + n
    BY SMTT(20)
  <1>. HIDE DEF q, r
  <1>2. q * n < (r + 1) * n
    BY <1>1, SMTT(20)
  <1>3. q < r + 1
    BY <1>1, <1>2, ProductReflects
  <1>4. q <= r
    BY <1>1, <1>3
  <1>. QED BY <1>4 DEF q, r

\* Only rows are lost: whatever the window, the camera and the rounding, every
\* tile that is in the window, or up to 98 pixels outside it, lies in the columns
\* that render looks at.
THEOREM ColumnsAreLookedAt ==
  ASSUME TypeOK, NEW p \in OnMap, NEW pos \in WorldToScreen(p[1], p[2], camera), Near(pos, 98),
         NEW minTile \in MinTile, NEW maxTile \in MaxTile
  PROVE  p[1] \in minTile.x .. maxTile.x
  <1>. DEFINE tile == 64 * Scale
              px == Grain * Grain
              cx == camera.x * camera.zoom
              cy == camera.y * camera.zoom
              n == p[1] * tile
  <1>1. p[1] \in Int /\ p[2] \in Int
    BY DEF OnMap, TypeOK
  <1>2. /\ tile \in Nat \ {0} /\ cx \in Int /\ cy \in Int /\ px \in Nat
        /\ Rounding \in Nat /\ Rounding <= px /\ WinW \in Nat /\ WinH \in Nat
    BY ScaleType, GrainType, WorldAssumption
  <1>3. n \in Int /\ n \div tile = p[1]
    <2>. HIDE DEF tile
    <2>1. 0 \in 0..tile - 1 /\ n \in Int /\ n + 0 = n
      BY <1>1, <1>2
    <2>2. (n + 0) \div tile = p[1]
      BY <1>1, <1>2, <2>1, QuotientOfMultiple
    <2>. QED BY <2>1, <2>2
  \* The column of the position, but for the rounding.
  <1>4. /\ n <= pos.x + cx + 2 * (pos.y + cy) + 3 * Rounding
        /\ pos.x + cx + 2 * (pos.y + cy) - 3 * Rounding <= n
        /\ pos.x \in Int /\ pos.y \in Int
    <2>. DEFINE a == (p[1] - p[2]) * 32 * Scale
                b == (p[1] + p[2]) * 16 * Scale
    <2>1. PICK e \in Int : -Rounding <= e /\ e <= Rounding /\ pos.x + cx = a + e
      BY <1>1, Projection
    <2>2. PICK f \in Int : -Rounding <= f /\ f <= Rounding /\ pos.y + cy = b + f
      BY <1>1, Projection
    <2>3. pos.x \in Int /\ pos.y \in Int
      BY <1>1, Projection
    <2>4. a \in Int /\ b \in Int /\ a + 2 * b = n
      BY <1>1, ScaleType, SMTT(20)
    <2>. HIDE DEF a, b, n, cx, cy
    <2>. QED BY <1>2, <2>1, <2>2, <2>3, <2>4
  <1>5. \A k \in Int : Pixels(k) = k * px /\ k * px \in Int
    BY GrainType, SMTT(20) DEF Pixels
  <1>6. /\ -(98 * px) <= pos.x /\ pos.x <= WinW * px + 98 * px
        /\ -(98 * px) <= pos.y /\ pos.y <= WinH * px + 98 * px
    <2>1. /\ Pixels(-98) = -(98 * px)
          /\ Pixels(WinW + 98) = WinW * px + 98 * px /\ Pixels(WinH + 98) = WinH * px + 98 * px
      BY <1>2, <1>5, SMTT(20)
    <2>. QED BY <1>4, <2>1 DEF Near
  <1>7. ASSUME NEW sx \in Int, NEW sy \in Int, NEW t \in ScreenToWorld(sx, sy, camera)
        PROVE  \E m \in Floats(sx + cx + 2 * (sy + cy)) : t.x = m \div tile
    <2>1. TILE_WIDTH * Grain * camera.zoom = tile
      BY CameraType, GrainType, SMTT(20) DEF TILE_WIDTH, Scale
    <2>. QED BY <2>1 DEF ScreenToWorld, TILE_WIDTH, TILE_HEIGHT
  <1>8. PICK l \in Floats(-(100 * px) + cx + 2 * (-(100 * px) + cy)) : minTile.x = l \div tile
    <2>1. Pixels(-100) = -(100 * px) /\ -(100 * px) \in Int
      BY <1>2, <1>5, SMTT(20)
    <2>. QED BY <2>1, <1>7 DEF MinTile
  <1>9. PICK h \in Floats((WinW * px + 100 * px) + cx + 2 * ((WinH * px + 100 * px) + cy)) :
          maxTile.x = h \div tile
    <2>1. /\ Pixels(WinW + 100) = WinW * px + 100 * px /\ Pixels(WinH + 100) = WinH * px + 100 * px
          /\ WinW * px + 100 * px \in Int /\ WinH * px + 100 * px \in Int
      BY <1>2, <1>5, SMTT(20)
    <2>. QED BY <2>1, <1>7 DEF MaxTile
  <1>. DEFINE w == WinW * px
              v == WinH * px
  <1>10. w \in Int /\ v \in Int
    BY <1>2, <1>5
  <1>. DEFINE c == cx + 2 * cy
              lo == -(100 * px) + cx + 2 * (-(100 * px) + cy)
              hi == (w + 100 * px) + cx + 2 * ((v + 100 * px) + cy)
  <1>11. l \in Floats(lo) /\ h \in Floats(hi)
    BY <1>8, <1>9
  <1>12. /\ -(98 * px) <= pos.x /\ pos.x <= w + 98 * px
         /\ -(98 * px) <= pos.y /\ pos.y <= v + 98 * px
    BY <1>6
  <1>. HIDE DEF tile, px, cx, cy, n, w, v
  <1>13. /\ lo = c - 300 * px /\ hi = c + w + 2 * v + 300 * px
         /\ lo \in Int /\ hi \in Int /\ c \in Int
    BY <1>2, <1>10
  <1>14. /\ pos.x \in Int /\ pos.y \in Int /\ n \in Int
         /\ n <= pos.x + 2 * pos.y + c + 3 * Rounding
         /\ pos.x + 2 * pos.y + c - 3 * Rounding <= n
    BY <1>2, <1>3, <1>4
  <1>. HIDE DEF c, lo, hi
  <1>15. l \in Int /\ l <= lo + Rounding /\ h \in Int /\ hi - Rounding <= h
    BY <1>2, <1>11, <1>13 DEF Floats
  <1>16. l <= n /\ n <= h
    BY <1>2, <1>10, <1>12, <1>13, <1>14, <1>15
  <1>17. l \div tile <= n \div tile /\ n \div tile <= h \div tile
    BY <1>2, <1>3, <1>15, <1>16, QuotientMonotone
  <1>18. minTile.x \in Int /\ maxTile.x \in Int
    BY <1>2, <1>8, <1>9, <1>15
  <1>. QED BY <1>1, <1>3, <1>8, <1>9, <1>17, <1>18
=============================================================================

-------------------------------- MODULE World --------------------------------
(***************************************************************************)
(* The tile map of src/game/World.cpp and the camera of the host's loop in *)
(* src/main.cpp: the map is generated, tiles are placed, a tileset is      *)
(* loaded, the camera pans and zooms, and render draws some of the tiles.  *)
(*                                                                         *)
(* Numbers: the zoom and the position of the camera are multiples of       *)
(* 1 / Grain, and points on the screen of 1 / Grain^2 of a pixel, so that  *)
(* the products are whole numbers; every float is such a multiple for some *)
(* Grain.  What float arithmetic makes of them is a choice: the result of  *)
(* a conversion, before the floor, may be anything up to Rounding off.     *)
(*                                                                         *)
(* Of the flags of a tile only Walkable is read.  The random generator is  *)
(* a choice of what it may roll for each inner tile.                       *)
(***************************************************************************)
EXTENDS Integers

CONSTANTS
  Size,         \* the sizes <<width, height>> generate is called with
  Roll,         \* the tile ids the generator may give an inner tile
  Placed,       \* the tiles setTile is called with
  Texture,      \* the sizes <<width, height>> of tilesets that load
  WinW, WinH,   \* the window, in pixels
  Grain,        \* the camera's unit is 1 / Grain
  Rounding,     \* bound: how far a float is off, in 1 / Grain^2 of a pixel
  PanStep,      \* how far the camera pans in one frame, in its unit
  ZoomStep,     \* how far it zooms in one frame, in its unit
  PanLimit      \* bound: how far the camera pans from where it starts

ASSUME WorldAssumption ==
  /\ Size \subseteq Nat \X Nat
  /\ Roll \subseteq Nat
  /\ Placed \subseteq [tileId : Nat, walkable : BOOLEAN]
  /\ Texture \subseteq Nat \X Nat
  /\ WinW \in Nat /\ WinH \in Nat
  /\ Grain \in Nat /\ Grain > 0 /\ Grain % 2 = 0
  /\ Rounding \in 0..Grain * Grain    \* a pixel at most
  /\ PanStep \subseteq Int
  /\ ZoomStep \subseteq Int

VARIABLES
  m_width, m_height,
  m_tiles,      \* index -> tile
  m_tileRects,  \* how many tiles of the tileset have a rectangle
  camera

vars == <<m_width, m_height, m_tiles, m_tileRects, camera>>

-----------------------------------------------------------------------------

TILE_WIDTH == 64
TILE_HEIGHT == 32
WALL == 10

Tile == [tileId : Nat, walkable : BOOLEAN]

MinZoom == Grain \div 2
MaxZoom == 2 * Grain

Camera == [x : Int, y : Int, zoom : MinZoom..MaxZoom]

\* FAULT: rows are one tile short.
IndexShortRows(x, y) == y * (m_width - 1) + x

Index(x, y) == y * m_width + x

InBounds(x, y) == x \in 0..m_width - 1 /\ y \in 0..m_height - 1

\* getTile: what is on the map at x, y, if anything.
GetTile(x, y) == IF InBounds(x, y) THEN {m_tiles[Index(x, y)]} ELSE {}

IsWalkable(x, y) == \E t \in GetTile(x, y) : t.walkable

\* What generate makes of a roll: a wall, or a floor to walk on.
Rolled(id) == [tileId |-> id, walkable |-> id # WALL]

\* FAULT: the last column is rolled too.
OnBorderButRight(x, y, w, h) == x = 0 \/ y = 0 \/ y = h - 1

OnBorder(x, y, w, h) == x = 0 \/ y = 0 \/ x = w - 1 \/ y = h - 1

\* What float arithmetic may make of a number.
Floats(n) == n - Rounding .. n + Rounding

\* FAULT: the camera is taken off after the zoom.
WorldToScreenLate(x, y, cam) ==
  [x : Floats((x - y) * (TILE_WIDTH \div 2) * Grain * cam.zoom - Grain * cam.x),
   y : Floats((x + y) * (TILE_HEIGHT \div 2) * Grain * cam.zoom - Grain * cam.y)]

\* Where a tile is on the screen.
WorldToScreen(x, y, cam) ==
  [x : Floats(((x - y) * (TILE_WIDTH \div 2) * Grain - cam.x) * cam.zoom),
   y : Floats(((x + y) * (TILE_HEIGHT \div 2) * Grain - cam.y) * cam.zoom)]

\* The tile at a point of the screen, on the map or not.
ScreenToWorld(screenX, screenY, cam) ==
  LET wx == screenX + cam.x * cam.zoom           \* times the zoom
      wy == screenY + cam.y * cam.zoom
      ratio == TILE_WIDTH \div TILE_HEIGHT
      tile == TILE_WIDTH * Grain * cam.zoom
  IN  [x : {n \div tile : n \in Floats(wx + ratio * wy)},
       y : {n \div tile : n \in Floats(ratio * wy - wx)}]

-----------------------------------------------------------------------------
(* render *)

\* A coordinate of the screen, n pixels.
Pixels(n) == n * Grain * Grain

\* A tile within these bounds is looked at, the others are culled.
MinTile == ScreenToWorld(Pixels(-100), Pixels(-100), camera)
MaxTile == ScreenToWorld(Pixels(WinW + 100), Pixels(WinH + 100), camera)

LookedAt(minTile, maxTile) ==
  {p \in (0..m_width - 1) \X (0..m_height - 1) :
     /\ p[1] \in minTile.x .. maxTile.x
     /\ p[2] \in minTile.y .. maxTile.y}

HasGraphic(t) == t.tileId < m_tileRects

\* A position in the window, or at most margin pixels outside it.
Near(pos, margin) ==
  /\ pos.x \in Pixels(-margin) .. Pixels(WinW + margin)
  /\ pos.y \in Pixels(-margin) .. Pixels(WinH + margin)

\* The tiles that render may draw, row by row.
Drawn ==
  {p \in (0..m_width - 1) \X (0..m_height - 1) :
     /\ \E minTile \in MinTile, maxTile \in MaxTile : p \in LookedAt(minTile, maxTile)
     /\ HasGraphic(m_tiles[Index(p[1], p[2])])
     /\ \E pos \in WorldToScreen(p[1], p[2], camera) : Near(pos, 200)}

\* FAULT: column by column, right to left.
DrawnBeforeByColumn(p, q) == p[1] > q[1] \/ (p[1] = q[1] /\ p[2] < q[2])

DrawnBefore(p, q) == p[2] < q[2] \/ (p[2] = q[2] /\ p[1] < q[1])

-----------------------------------------------------------------------------

Init ==
  /\ m_width = 0
  /\ m_height = 0
  /\ m_tiles = <<>>
  /\ m_tileRects = 0
  /\ camera = [x |-> 640 * Grain, y |-> 360 * Grain, zoom |-> Grain]

Generate(w, h) ==
  /\ m_width' = w
  /\ m_height' = h
  /\ \E roll \in [{p \in (0..w - 1) \X (0..h - 1) : ~OnBorder(p[1], p[2], w, h)} -> Roll] :
       m_tiles' = [i \in 0..w * h - 1 |->
                     LET x == i % w
                         y == i \div w
                     IN  Rolled(IF OnBorder(x, y, w, h) THEN WALL ELSE roll[<<x, y>>])]
  /\ UNCHANGED <<m_tileRects, camera>>

\* Nothing happens outside the map.
SetTile(x, y, tile) ==
  /\ InBounds(x, y)
  /\ m_tiles' = [m_tiles EXCEPT ![Index(x, y)] = tile]
  /\ UNCHANGED <<m_width, m_height, m_tileRects, camera>>

\* A tileset that does not load changes nothing.
LoadTileset(w, h) ==
  /\ m_tileRects' = (w \div TILE_WIDTH) * (h \div TILE_HEIGHT)
  /\ UNCHANGED <<m_width, m_height, m_tiles, camera>>

\* The arrow keys.
Pan(dx, dy) ==
  /\ camera' = [camera EXCEPT !.x = @ + dx, !.y = @ + dy]
  /\ camera'.x \in 640 * Grain - PanLimit .. 640 * Grain + PanLimit
  /\ camera'.y \in 360 * Grain - PanLimit .. 360 * Grain + PanLimit
  /\ UNCHANGED <<m_width, m_height, m_tiles, m_tileRects>>

\* FAULT: no least zoom.
ClampAbove(n, lo, hi) == IF n > hi THEN hi ELSE n

Clamp(n, lo, hi) == IF n < lo THEN lo ELSE IF n > hi THEN hi ELSE n

Zoom(dz) ==
  /\ camera' = [camera EXCEPT !.zoom = Clamp(@ + dz, MinZoom, MaxZoom)]
  /\ UNCHANGED <<m_width, m_height, m_tiles, m_tileRects>>

Next ==
  \/ \E s \in Size : Generate(s[1], s[2])
  \/ \E x \in 0..m_width, y \in 0..m_height, tile \in Placed : SetTile(x, y, tile)
  \/ \E t \in Texture : LoadTileset(t[1], t[2])
  \/ \E s \in PanStep, d \in {-1, 0, 1} \X {-1, 0, 1} : Pan(d[1] * s, d[2] * s)
  \/ \E s \in ZoomStep : Zoom(s) \/ Zoom(-s)

Spec == Init /\ [][Next]_vars
-----------------------------------------------------------------------------
(* Properties *)

TypeOK ==
  /\ m_width \in Nat /\ m_height \in Nat
  /\ m_tiles \in [0..m_width * m_height - 1 -> Tile]
  /\ m_tileRects \in Nat
  /\ camera \in Camera

OnMap == (0..m_width - 1) \X (0..m_height - 1)

\* Points in the diamond of a tile, from its upper tip, as close to its four tips
\* as rounding allows.
Tips(zoom) ==
  LET height == TILE_HEIGHT * Grain * zoom
      reach == height - 4 * Rounding - 1
  IN  {<<0, 2 * Rounding>>, <<0, height - 2 * Rounding - 1>>,
       <<reach, height \div 2>>, <<-reach, height \div 2>>}

\* A point in the diamond of a tile is taken for that tile and for no neighbour,
\* whatever the camera and however the floats of both conversions are rounded
\* ("Reverse camera transform", "Inverse isometric projection").
PickInvertsProjection ==
  \A p \in OnMap, d \in Tips(camera.zoom) :
    \A pos \in WorldToScreen(p[1], p[2], camera) :
      ScreenToWorld(pos.x + d[1], pos.y + d[2], camera) = {[x |-> p[1], y |-> p[2]]}

\* The sprites of two tiles share some pixels, or may by the rounding.
Overlap(p, q) ==
  \E a \in WorldToScreen(p[1], p[2], camera), b \in WorldToScreen(q[1], q[2], camera) :
    /\ a.x - b.x < TILE_WIDTH * Grain * camera.zoom
    /\ b.x - a.x < TILE_WIDTH * Grain * camera.zoom
    /\ a.y - b.y < TILE_HEIGHT * Grain * camera.zoom
    /\ b.y - a.y < TILE_HEIGHT * Grain * camera.zoom

Behind(p, q) == p[1] + p[2] < q[1] + q[2]

\* render draws row by row, which is not the order of depth, and yet of two
\* sprites that overlap the one behind is drawn first ("back-to-front").
BackToFront ==
  \A p, q \in OnMap : Behind(p, q) /\ ~DrawnBefore(p, q) => ~Overlap(p, q)

\* No two tiles of the map share a cell of m_tiles, whatever its width and
\* height: a step that is not a new map changes one tile at most (setTile).
OneTileAtATime ==
  [][\/ \E s \in Size : Generate(s[1], s[2])
     \/ \A p \in OnMap : GetTile(p[1], p[2])' # GetTile(p[1], p[2]) =>
          \A q \in OnMap \ {p} : GetTile(q[1], q[2])' = GetTile(q[1], q[2])]_vars

Neighbours(p) == {<<p[1] + d[1], p[2] + d[2]>> : d \in {-1, 0, 1} \X {-1, 0, 1}}

\* A new map is closed: from a tile that can be walked on no step leads off the
\* map, not even a diagonal one (generate, isWalkable).
NewMapIsClosed ==
  [][\A s \in Size : Generate(s[1], s[2]) =>
       \A p \in OnMap' : IsWalkable(p[1], p[2])' => Neighbours(p) \subseteq OnMap']_vars
=============================================================================

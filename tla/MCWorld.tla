------------------------------- MODULE MCWorld -------------------------------
(***************************************************************************)
(* A small instance of World for TLC.                                      *)
(***************************************************************************)
EXTENDS World

\* A map that is not square, and one with an inner tile.
SmallMaps == {<<2, 3>>, <<3, 3>>}

FloorOrWall == {0, WALL}

\* A hole in a wall.
OpenFloor == {[tileId |-> 0, walkable |-> TRUE]}

\* assets/tileset.png.
Tilesets == {<<256, 128>>}
=============================================================================

\* World: maps of up to nine tiles; the camera pans and zooms until the map is
\* in the window, at its edge and outside it.
CONSTANTS
  Size <- SmallMaps
  Roll <- FloorOrWall
  Placed <- OpenFloor
  Texture <- Tilesets
  WinW = 1280
  WinH = 720
  Grain = 10
  Rounding = 1
  PanStep = {6403}
  ZoomStep = {11}
  PanLimit = 6403
SPECIFICATION Spec
INVARIANTS
  TypeOK
  PickInvertsProjection
  BackToFront
PROPERTIES
  OneTileAtATime
  NewMapIsClosed

SPECIFICATION Spec
CONSTANTS
  SIZE = 3
  PLANES = 2
  Squares <- mcSquares
  World <- mcWorld
  Locs <- mcLocs
  Def <- mcDef
  Overlays = {"river", "road"}
  WaterOverlays = {"river"}
  MaxFailures = 1
INVARIANTS TypeOK WallsAgree CrossingsMatchMarkers CrossingsUsable Exact

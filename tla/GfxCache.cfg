SPECIFICATION GfxSpec
CONSTANTS
  CellSize = 2
  CellsX = 3
  CellsY = 2
  Bckg <- SmallBckg
  Glyphs <- SmallGlyphs
  Spots <- SmallSpots
  Rects <- SmallRects
  Clips <- SmallClips
  Colors = {"white"}
  MaxCommands = 4
  Pads <- SmallPads
  FrameCommands = 5
  MaxFrames = 4
INVARIANT ScreenOK
PROPERTY IdleFrameDrawsNothing
CHECK_DEADLOCK FALSE

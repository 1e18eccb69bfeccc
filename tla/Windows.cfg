SPECIFICATION Spec
CONSTANTS
  Span = 4
  Places <- NewPlaces
  Classes = {"Taskview"}
  RootListSize = 3
  MaxTasks = 4
  MaxZIndex = 4
  Dragged <- OnScreen
INVARIANTS DesktopOK DrawnInOrder RestedPressHitsTop ActsOnce
CHECK_DEADLOCK FALSE

SPECIFICATION Spec
CONSTANTS
  HostWidth = 10
  EdgeThreshold = 2
  Positions <- ThreePositions
  Keys = {}
  Buttons = {1}
  ScreenWidth = 12
  Cap = 1
PROPERTY ReleasePressesNothing

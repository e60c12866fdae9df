SPECIFICATION Spec
CONSTANTS
  HostWidth = 10
  EdgeThreshold = 2
  Positions <- ScreenPositions
  Keys <- NoKeys
  Buttons <- NoButtons
  PeerWidth = 6
  Cap = 1
INVARIANT PeerPointerOnScreen

SPECIFICATION Spec
CONSTANTS
  HostWidth = 10
  EdgeThreshold = 2
  Positions <- EdgePositions
  Keys <- OneKey
  Buttons <- LeftAndRight
  PeerWidth = 12
  Cap = 2
INVARIANT TypeOK
INVARIANT NoPacketRejected
INVARIANT Mirror
INVARIANT NoStuckButton
INVARIANT PointerTracksHost
INVARIANT PeerPointerOnScreen

SPECIFICATION Spec
CONSTANTS
  HostWidth = 10
  EdgeThreshold = 2
  Positions <- FewPositions
  Keys <- NoKeys
  Buttons <- LeftAndRight
  PeerWidth = 12
  Cap = 1
PROPERTY InjectsThePressedButton

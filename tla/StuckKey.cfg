SPECIFICATION Spec
CONSTANTS
  HostWidth = 10
  EdgeThreshold = 2
  Positions <- FewPositions
  Keys <- OneKey
  Buttons <- NoButtons
  PeerWidth = 12
  Cap = 1
INVARIANT NoStuckKey

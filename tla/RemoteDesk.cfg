SPECIFICATION FairSpec
CONSTANTS
  HostWidth = 10
  EdgeThreshold = 2
  Positions <- EdgePositions
  Keys <- OddKeys
  Buttons <- LeftOnly
  PeerWidth = 12
  Cap = 1
PROPERTY ImplementsRemoteDesk
PROPERTY WriteEnds
PROPERTY PressArrives
PROPERTY ServerNoticesExit

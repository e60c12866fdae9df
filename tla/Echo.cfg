SPECIFICATION FairSpec
CONSTANTS
  a = a
  b = b
  Machines = {a, b}
  Setups <- SomeSetups
  Width <- UnequalWidths
  EdgeThreshold = 2
  Positions <- ThreePositions
  Keys = {30}
  Buttons = {1}
  Cap = 1
  MaxPosted = 4
INVARIANT TypeOK
INVARIANT NoAmplification
PROPERTY ControlTakenByUser
PROPERTY EchoDies
PROPERTY MovesDie

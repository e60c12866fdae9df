SPECIFICATION Spec
CONSTANTS
  HostWidth = 41
  Thresholds <- SomeThresholds
  Hysteresis = 5
  Positions <- EveryPosition
INVARIANT TypeOK
INVARIANT ControlTakenAtEdge
PROPERTY SwitchesFarApart

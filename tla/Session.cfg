SPECIFICATION FairSpec
CONSTANTS
  Clients = {c1, c2, c3}
  Nobody = Nobody
  Silent = Silent
  MaxBacklog = 3
INVARIANT TypeOK
INVARIANT LinkedMeansServed
INVARIANT OneClientPerRun
INVARIANT QueuedIsKnown
PROPERTY WaitersReleased
PROPERTY QueueMovesOn
PROPERTY ImplementsLending

SPECIFICATION FairSpec
CONSTANT MaxSent <- WritesPerStream
INVARIANT TypeOK
INVARIANT ExactDelivery
INVARIANT NeverGarbled
INVARIANT NoReplay
PROPERTY EverythingInjected
PROPERTY ImplementsStream

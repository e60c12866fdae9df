SPECIFICATION Spec
CONSTANT MaxSent <- WritesPerStream
PROPERTY MismatchedPayloadSkipped

\* A connection that corrupts, stalls and breaks, and callers that give up at the first error.
SPECIFICATION FairSpec
CONSTANTS
    KeyRotationInterval = 4
    Base = 2
    MacSize = 1
    RetryAfter = {}
    ReadTimeouts = TRUE
    MaxFaults = 1
    Messages <- SmallMessages
    MaxSent <- BothWays
CHECK_DEADLOCK FALSE
INVARIANTS TypeOK NoNonceReuse DeliveredInOrder RotateInStep MacFailureHasCause
PROPERTY ImplementsChannel

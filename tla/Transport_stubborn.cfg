\* A caller that calls Decrypt again after a MAC failure.
SPECIFICATION Spec
CONSTANTS
    KeyRotationInterval = 4
    Base = 2
    MacSize = 1
    RetryAfter = {"mac"}
    ReadTimeouts = TRUE
    MaxFaults = 2
    Messages <- SmallMessages
    MaxSent <- OneWay
CHECK_DEADLOCK FALSE
INVARIANT OpenedInOrder
PROPERTY MacFailureIsFinal

\* A caller that calls Decrypt again after a read that timed out.
SPECIFICATION Spec
CONSTANTS
    KeyRotationInterval = 4
    Base = 2
    MacSize = 1
    RetryAfter = {"mac", "io"}
    ReadTimeouts = TRUE
    MaxFaults = 0
    Messages <- SmallMessages
    MaxSent <- OneWay
CHECK_DEADLOCK FALSE
INVARIANT DeliversOnlyMessages

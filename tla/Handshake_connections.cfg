\* Two connections at once: crossed, parallel, to oneself.
SPECIFICATION FairSpec
CONSTANTS
    alice = alice
    bob = bob
    i1 = i1
    i2 = i2
    r1 = r1
    r2 = r2
    Unparsable = Unparsable
    None = None
    Nodes = {alice, bob}
    Initiators = {i1, i2}
    Responders = {r1, r2}
    Answers <- TwoConnections
    Foreign = {i1}
    MaxErrors = 1
    MaxOdd = 1
CHECK_DEADLOCK FALSE
INVARIANTS TypeOK RemoteStaticIsProven NoNonceReuse PoisonedNeverDone ResponderAgrees InitiatorAgrees
PROPERTY Completes

\* A client that disconnects takes its permit with it.
CONSTANTS
    Requests = {r1, r2}
    Nodes = {n1}
    NoName = NoName
    Max = 1
    Modulus = 8
    Slots = 2
    SessionSlots = 2
SPECIFICATION Spec
INVARIANT OnlyServedKeepPermit
CHECK_DEADLOCK FALSE

\* A third request finds the counter wrapped by the second one's rejection.
CONSTANTS
    Requests = {r1, r2, r3}
    Nodes = {n1}
    NoName = NoName
    Max = 1
    Modulus = 8
    Slots = 2
    SessionSlots = 2
SPECIFICATION Spec
INVARIANT NeverPastMax
CHECK_DEADLOCK FALSE

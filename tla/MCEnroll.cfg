\* Four requests compete for two permits and two transient-object slots.
CONSTANTS
    Requests = {r1, r2, r3, r4}
    Nodes = {n1}
    NoName = NoName
    Max = 2
    Modulus = 8
    Slots = 2
    SessionSlots = 2
SPECIFICATION Spec
SYMMETRY Symmetry
INVARIANTS
    TypeOK
    PermitAccounting
    WithinMaxUnlessOverdrawn
    MaxServedNotifies
    ClosesOnlyAfterMaxDrawn
    OnlyVouchedServed
    TransientsFreed
CHECK_DEADLOCK FALSE

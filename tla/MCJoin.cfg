\* Two joins on up to two nodes compete for one permit and one TPM slot.
CONSTANTS
    Requests = {r1, r2}
    Nodes = {n1, n2}
    NoName = NoName
    FirstJoin = r1
    FirstNode = n1
    Hosts <- CanonicalHosts
    Max = 1
    Modulus = 4
    Slots = 1
    SessionSlots = 1
SPECIFICATION JoinFairSpec
INVARIANT JoinTypeOK
PROPERTIES
    PromiseKept
    JoinEnds
    EventuallyExits
    MaxServedExits
CHECK_DEADLOCK FALSE

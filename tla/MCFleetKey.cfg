\* One founder, two nodes, two commands at a time, lookups that may fail.
CONSTANTS
    Nodes = {a, b}
    Procs = {p1, p2}
    Founders = {a}
    Faults = TRUE
    ForceLegacy = TRUE
    NoKey = NoKey
    NoNode = NoNode
SPECIFICATION Spec
SYMMETRY Symmetry
INVARIANTS
    TypeOK
    FleetKeyShared
    ForceOrphansNobody
    LegacyReadable
    CrossNodeDecrypt
PROPERTY NeverSilentlyReplaced
CHECK_DEADLOCK FALSE

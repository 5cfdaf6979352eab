\* A migration in which no serve is restarted after genesis and join.
CONSTANTS
    Nodes = {a, b}
    Procs = {p1}
    Founders = {a}
    Faults = FALSE
    ForceLegacy = FALSE
    NoKey = NoKey
    NoNode = NoNode
SPECIFICATION Spec
SYMMETRY Symmetry
INVARIANT PhaseAGuarantee
CHECK_DEADLOCK FALSE

\* Three serves, started by the unit or by hand, at the same time or in turn.
CONSTANTS
    Serves = {s1, s2, s3}
    Calls = {c1}
    NoServe = NoServe
SPECIFICATION Spec
INVARIANTS
    TypeOK
    RestartNeverTrips
PROPERTIES
    CallsSettle
    LateChmodSticks
CHECK_DEADLOCK FALSE

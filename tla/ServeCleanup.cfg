\* A serve that drains and one that was started meanwhile.
CONSTANTS
    Serves = {s1, s2}
    Calls = {c1}
    NoServe = NoServe
SPECIFICATION Spec
PROPERTY StopSparesRestart
CHECK_DEADLOCK FALSE

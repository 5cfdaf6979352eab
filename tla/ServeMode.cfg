\* ExecStartPost runs between bind and set_permissions.
CONSTANTS
    Serves = {s1}
    Calls = {c1}
    NoServe = NoServe
SPECIFICATION Spec
INVARIANT UnitSocketIs0660
CHECK_DEADLOCK FALSE

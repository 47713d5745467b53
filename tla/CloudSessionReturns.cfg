SPECIFICATION Spec
CONSTANTS
    None = None
    Accounts = {a1, a2}
    Reads = {q1}
    Changes = {w}
    MaxIssued = 2
    MaxSignings = 2
    MaxUpsets = 1
PROPERTIES
    DisconnectedStays
CHECK_DEADLOCK FALSE

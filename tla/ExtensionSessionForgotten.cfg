SPECIFICATION Spec
CONSTANTS
    Requests = {r1, r2}
    None = None
    MaxSignings = 1
    MaxWakes = 1
INVARIANTS
    EachRequestIsServed
CHECK_DEADLOCK FALSE

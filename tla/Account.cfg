SPECIFICATION MCSpec
CONSTANTS
    None = None
    pause = pause
    rename = rename
    dns = dns
    bypass = bypass
    mesh1 = mesh1
    mesh2 = mesh2
    on = on
    off = off
    a1 = a1
    a2 = a2
    q1 = q1
    q2 = q2
    w = w
    e1 = e1
    e2 = e2
    Accounts = {a1, a2}
    Reads = {q1, q2}
    Changes = {w}
    Callers = {q1, w}
    Edges = {e1, e2}
    Steady = {e1}
    Patience = 1
    MaxIssued = 2
    MaxSignings = 1
    MaxUpsets = 1
    MaxWakes = 1
    MaxRequests = 2
    Settings = {pause, rename, dns, bypass}
    Values = {on, off}
    BlockOf <- BlockOfSetting
    Queued = {pause, rename}
    Severing = {bypass}
    Persistent = {dns, bypass}
    Addresses = 2
    Late = FALSE
INVARIANTS
    CachesAreTheAccounts
    RememberedServedLast
PROPERTIES
    KeepsThePromise
    CallsAreAnswered
CHECK_DEADLOCK FALSE

SPECIFICATION Spec
CONSTANTS
    d1 = d1
    d2 = d2
    r1 = r1
    r2 = r2
    Devices = {d1}
    Rules = {r1, r2}
    DeviceOf <- OneDevice
    Routable = {d1}
    RetryWindow = 2
    Faults = {"editDuringTick"}
PROPERTIES
    TickKeepsEdits

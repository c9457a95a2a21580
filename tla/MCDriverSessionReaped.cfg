\* A session older than a day, and another driver on the host.
SPECIFICATION Spec
CONSTANTS
    Sessions = {1}
    NoOne = NoOne
    Owner = Owner
    CapSets = {{"proxy-intercept"}}
    Faults = {"reap"}
INVARIANTS
    ClosedRestoresPolicies
CHECK_DEADLOCK FALSE
